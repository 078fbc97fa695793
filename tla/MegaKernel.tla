------------------------------ MODULE MegaKernel ------------------------------
(***************************************************************************)
(* One launch of a megakernel under phase scheduling: every CTA walks the  *)
(* phases of the plan, runs its share of a phase's tiles, and joins a grid *)
(* barrier behind the last phase of a barrier interval.                    *)
(*                                                                         *)
(* The plan is what PhaseSchedule and Workspace make of a graph; which     *)
(* graph is chosen in the initial state.  A tile reads its region's inputs *)
(* and writes one cell of memory; memory says which value each cell holds, *)
(* so that a read of overwritten or unwritten bytes shows.  The barrier is *)
(* the abstract one: CountingBarrier and FlagBarrier implement it.         *)
(***************************************************************************)
EXTENDS Workspace, FiniteSetsExt

CONSTANTS
  Workers,  \* CTAs of the cooperative launch (plan.launch.grid_size)
  Graphs    \* the graphs to compile and run

ASSUME WorkersAssumption == Workers \in Nat \ {0}

ASSUME GraphsAssumption == \A g \in Graphs : GraphOK(g)

Cta == 0 .. Workers - 1

VARIABLES
  plan,    \* schedule and storage of the compiled graph
  phase,   \* phase each CTA is in; one past the last when it has finished
  tile,    \* next tile of that phase for the CTA
  at,      \* "run" or "barrier"
  memory   \* value each cell holds

vars == <<plan, phase, tile, at, memory>>

Plans == {AssignStorage(MakePhaseSchedule(g)) : g \in Graphs}

End       == Len(plan.order) + 1
Region(i) == plan.order[i]
Tiles(i)  == plan.graph.tiles[Region(i)]
Recomputed(i) == Region(i) \in plan.recompute

(* A phase deals its tiles round robin, and starts where the tiles of the  *)
(* phases before it in the interval ended; a recompute phase gives every   *)
(* CTA every tile.                                                         *)
Stride(i) == IF Recomputed(i) THEN 1 ELSE Workers

TilesBefore(s) ==
  LET before[i \in 1 .. Len(s.order)] ==
        IF i = 1 \/ i - 1 \in s.barriers THEN 0
        ELSE before[i - 1] + (IF s.order[i - 1] \in s.recompute THEN 0 ELSE s.graph.tiles[s.order[i - 1]])
  IN  before

Rotation(i) == TilesBefore(plan)[i] % Workers

(* Fault: CTAs in front of the rotation start one grid late.               *)
FirstTileLate(i, c) == IF Recomputed(i) THEN 0 ELSE c + Workers - Rotation(i)

FirstTile(i, c) == IF Recomputed(i) THEN 0 ELSE (c + Workers - Rotation(i)) % Workers

Init ==
  /\ plan \in Plans
  /\ phase = [c \in Cta |-> 1]
  /\ tile  = [c \in Cta |-> FirstTile(1, c)]
  /\ at    = [c \in Cta |-> "run"]
  /\ memory = FreshMemory(plan)

HasTile(c) == phase[c] < End /\ at[c] = "run" /\ tile[c] < Tiles(phase[c])

RunTile(c) ==
  /\ HasTile(c)
  /\ LET i == phase[c]
     IN  /\ memory' = [memory EXCEPT ![Cell(plan, Region(i), tile[c])] = Region(i)]
         /\ tile' = [tile EXCEPT ![c] = @ + Stride(i)]
  /\ UNCHANGED <<plan, phase, at>>

NextPhase(c) ==
  /\ phase' = [phase EXCEPT ![c] = @ + 1]
  /\ tile'  = [tile EXCEPT ![c] = IF phase[c] + 1 < End THEN FirstTile(phase[c] + 1, c) ELSE 0]
  /\ at'    = [at EXCEPT ![c] = "run"]

(* Only the CTA's own threads synchronise behind a phase that shares its   *)
(* interval with the next one.                                             *)
EndPhase(c) ==
  /\ phase[c] < End /\ at[c] = "run" /\ ~ HasTile(c)
  /\ phase[c] \notin plan.barriers
  /\ NextPhase(c)
  /\ UNCHANGED <<plan, memory>>

ArriveBarrier(c) ==
  /\ phase[c] \in plan.barriers /\ at[c] = "run" /\ ~ HasTile(c)
  /\ at' = [at EXCEPT ![c] = "barrier"]
  /\ UNCHANGED <<plan, phase, tile, memory>>

(* GridBarrier!Leave: every CTA has arrived at this barrier.               *)
LeaveBarrier(c) ==
  /\ at[c] = "barrier"
  /\ \A d \in Cta : phase[d] > phase[c] \/ (phase[d] = phase[c] /\ at[d] = "barrier")
  /\ NextPhase(c)
  /\ UNCHANGED <<plan, memory>>

Finished == \A c \in Cta : phase[c] = End

KernelEnds == Finished /\ UNCHANGED vars

CtaStep(c) == RunTile(c) \/ EndPhase(c) \/ ArriveBarrier(c) \/ LeaveBarrier(c)

Next == (\E c \in Cta : CtaStep(c)) \/ KernelEnds

Spec == Init /\ [][Next]_vars

-----------------------------------------------------------------------------

(* The shape of a plan: its graph, phases that are its regions in an order,*)
(* barriers between them, and places in the workspace.                     *)
PlanOK ==
  /\ plan.graph.n \in Nat \ {0}
  /\ plan.graph.tiles \in [{0} \cup Regions(plan.graph) -> Nat]
  /\ plan.graph.reads \in [Regions(plan.graph) -> SUBSET ({0} \cup Regions(plan.graph))]
  /\ plan.graph.inPlace \subseteq Regions(plan.graph)
  /\ plan.graph.outputs \subseteq Regions(plan.graph) \ plan.graph.inPlace
  /\ plan.order \in Seq(Regions(plan.graph))
  /\ IsInjective(plan.order) /\ ToSet(plan.order) = Regions(plan.graph)
  /\ plan.barriers \subseteq 1 .. End - 2 /\ plan.recompute \subseteq Regions(plan.graph)
  /\ plan.offset \in [WorkspaceValues(plan.graph) -> Nat]

TypeOK ==
  /\ PlanOK
  /\ phase \in [Cta -> 1 .. End]
  /\ tile \in [Cta -> Nat]
  /\ at \in [Cta -> {"run", "barrier"}]
  /\ memory \in [AllCells(plan) -> {Junk, 0} \cup Regions(plan.graph)]

(* For as long as a CTA has a tile of a phase to run, every byte of every  *)
(* value the phase reads is there: written by its producer, and not yet    *)
(* overwritten by an in-place write or by another value that was given the *)
(* same workspace bytes.  The plan has to make this true with barriers,    *)
(* recomputation and storage lifetimes together.                           *)
ReadsProducers ==
  \A c \in Cta : HasTile(c) =>
    \A v \in plan.graph.reads[Region(phase[c])] : Holds(plan, memory, v)

(* When the kernel has ended the caller's tensors hold the graph's         *)
(* results: every tile of every output, and the last value written into    *)
(* the state in place.                                                     *)
OutputsComplete ==
  Finished => /\ \A v \in plan.graph.outputs : Holds(plan, memory, v)
              /\ plan.graph.inPlace # {} => Holds(plan, memory, Max(plan.graph.inPlace))

(* A plan has the shape PlanOK gives it; simulate_phase_schedule and       *)
(* verify_plan, which the compiler runs on every plan, accept what         *)
(* make_phase_schedule and assign_storage make; and in-place writes are    *)
(* kept apart from other uses of their storage.  This is all that          *)
(* ReadsProducers and OutputsComplete rest on.                             *)
PlanVerifies == PlanOK /\ SimulationAccepts(plan) /\ StorageVerified(plan) /\ StateWritesApart(plan)

(* _level_order: "This needs the fewest barriers any phase schedule of     *)
(* this graph can have", and folding only ever removes some.               *)
FewestBarriers ==
  (\A c \in Cta : phase[c] = 1 /\ tile[c] = FirstTile(1, c))
    => FewestIntervals(plan.graph) /\ Cardinality(plan.barriers) < Len(Levels(plan.graph))

=============================================================================
