------------------------------ MODULE Workspace ------------------------------
(***************************************************************************)
(* memory.assign_storage: where each value of a phase schedule lives.      *)
(*                                                                         *)
(* A value lives in the workspace unless it is a graph output or writes    *)
(* into a boundary tensor.  Workspace values share bytes when their        *)
(* lifetimes, counted in phases, do not overlap.  Sizes are in units of    *)
(* the 128-byte alignment, one unit per tile.                              *)
(***************************************************************************)
EXTENDS PhaseSchedule

WorkspaceValues(g) == Regions(g) \ (g.outputs \cup g.inPlace)

Readers(g, v) == {r \in Regions(g) : v \in g.reads[r]}

(* Fault: the storage is released after the phase that uses it last.       *)
LifetimeOfPhases(s, v) ==
  LET lastUse == Max({PhaseOf(s, r) : r \in Readers(s.graph, v) \cup {v}})
  IN  [start |-> PhaseOf(s, v), end |-> lastUse + 1]

(* _make_workspace_request: from the producer's phase to behind the        *)
(* barrier that closes the interval of the last reader.                    *)
Lifetime(s, v) ==
  LET lastUse == Max({PhaseOf(s, r) : r \in Readers(s.graph, v) \cup {v}})
  IN  [start |-> PhaseOf(s, v), end |-> IntervalEnd(s, lastUse) + 1]

(* Maximal runs of free units.  The code keeps them as sorted ranges and   *)
(* merges neighbours when it frees.                                        *)
FreeRanges(free) ==
  LET ends == free \cup {u + 1 : u \in free}
  IN  {range \in ends \X ends :
         /\ range[1] < range[2]
         /\ range[1] .. range[2] - 1 \subseteq free
         /\ range[1] - 1 \notin free /\ range[2] \notin free}

(* The free range that leaves the least over, the lowest of several.       *)
BestFit(free, size) ==
  LET fitting == {r \in FreeRanges(free) : r[2] - r[1] >= size}
      Better(a, b) == \/ a[2] - a[1] < b[2] - b[1]
                      \/ a[2] - a[1] = b[2] - b[1] /\ a[1] <= b[1]
  IN  {r[1] : r \in {a \in fitting : \A b \in fitting : Better(a, b)}}

(* _allocate_workspace: before a phase, what lived until there is freed;   *)
(* then the phase's value takes a free range, or grows the workspace.      *)
Units(s, offset, v) == offset .. offset + s.graph.tiles[v] - 1

Freed(s, state, i) ==
  state.free \cup UNION {Units(s, state.offset[v], v) :
                           v \in {w \in WorkspaceValues(s.graph) : Lifetime(s, w).end = i}}

Placed(s, state, free, v) ==
  LET fit == BestFit(free, s.graph.tiles[v])
      at  == IF fit = {} THEN state.peak ELSE Min(fit)
  IN  [offset |-> [state.offset EXCEPT ![v] = at],
       free   |-> free \ Units(s, at, v),
       peak   |-> Max({state.peak, at + s.graph.tiles[v]})]

Sweep(s, state, i) ==
  IF s.order[i] \in WorkspaceValues(s.graph) THEN Placed(s, state, Freed(s, state, i), s.order[i])
  ELSE [state EXCEPT !.free = Freed(s, state, i)]

(* The sweep after i phases.                                               *)
Sweeps(s) ==
  LET state[i \in 0 .. Len(s.order)] ==
        IF i = 0 THEN [offset |-> [v \in WorkspaceValues(s.graph) |-> 0], free |-> {}, peak |-> 0]
        ELSE Sweep(s, state[i - 1], i)
  IN  state

AllocateWorkspace(s) == Sweeps(s)[Len(s.order)].offset

(* A plan is a schedule and its storage.                                   *)
AssignStorage(s) ==
  [graph |-> s.graph, order |-> s.order, barriers |-> s.barriers, recompute |-> s.recompute,
   offset |-> AllocateWorkspace(s)]

(* verify_plan: values that live at the same time share no bytes.          *)
StorageVerified(plan) ==
  \A v, w \in WorkspaceValues(plan.graph) :
    /\ v # w
    /\ Lifetime(plan, v).start < Lifetime(plan, w).end
    /\ Lifetime(plan, w).start < Lifetime(plan, v).end
    => \/ plan.offset[v] + plan.graph.tiles[v] <= plan.offset[w]
       \/ plan.offset[w] + plan.graph.tiles[w] <= plan.offset[v]

(* What neither of them looks at: an in-place write waits behind a barrier *)
(* for whoever uses another value of the storage, or is itself behind one  *)
(* for that value's writer.                                                *)
Behind(s, r, q) == IntervalEnd(s, PhaseOf(s, q)) < PhaseOf(s, r)

StateWritesApart(s) ==
  LET g == s.graph
  IN  \A w \in g.inPlace : \A v \in ({0} \cup g.inPlace) \ {w} :
        \/ \A r \in Readers(g, v) \cup ({v} \ {0}) : Behind(s, w, r)
        \/ v # 0 /\ Behind(s, v, w)

-----------------------------------------------------------------------------
(* The memory a kernel works in: one cell per tile.  A cell holds the tag  *)
(* of what was written last: the value's number, 0 for what the caller     *)
(* passed, Junk for the bytes of an earlier call.                          *)

Junk == -1

Cell(plan, v, tile) ==
  LET g == plan.graph
  IN  IF Storage(g, v) = 0 THEN <<"state", tile>>
      ELSE IF v \in g.outputs THEN <<"output", v, tile>>
      ELSE <<"workspace", plan.offset[v] + tile>>

Cells(plan, v) == {Cell(plan, v, tile) : tile \in 0 .. plan.graph.tiles[v] - 1}

AllCells(plan) == UNION {Cells(plan, v) : v \in {0} \cup Regions(plan.graph)}

FreshMemory(plan) ==
  [cell \in AllCells(plan) |-> IF cell \in Cells(plan, 0) THEN 0 ELSE Junk]

Holds(plan, memory, v) == \A cell \in Cells(plan, v) : memory[cell] = v

=============================================================================
