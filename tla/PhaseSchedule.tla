---------------------------- MODULE PhaseSchedule ----------------------------
(***************************************************************************)
(* From a graph of selected bodies to phases and barrier intervals:        *)
(* schedule.derive_dependencies and make_phase_schedule.                   *)
(*                                                                         *)
(* A graph g has regions 1 .. g.n in selection order.  Region r writes     *)
(* value r; value 0 is a boundary tensor the caller passes, such as a      *)
(* recurrent state.  g.reads[r] is the set of values r reads; regions in   *)
(* g.inPlace write their value into the storage of value 0 (aten.copy_ on  *)
(* a graph input); g.tiles[v] is the number of tiles of a value;           *)
(* g.rounds[r] is what r costs one CTA by itself, or Large where the body  *)
(* is none a single CTA should run; g.outputs are the graph's outputs.     *)
(*                                                                         *)
(* Regions are dense numbers, so a set of regions also stands for the set  *)
(* of their region ids.                                                    *)
(***************************************************************************)
EXTENDS Integers, Sequences, FiniteSets, SequencesExt

CONSTANTS
  FoldMaxRounds,  \* _FOLD_MAX_ROUNDS
  FoldMaxPhases,  \* _FOLD_MAX_PHASES
  Large           \* rounds of a body that does not fold

ASSUME FoldAssumption ==
  FoldMaxRounds \in Nat /\ FoldMaxPhases \in Nat /\ Large \notin 0 .. FoldMaxRounds

Regions(g) == 1 .. g.n

(* The storage behind a value.                                             *)
Storage(g, v) == IF v \in g.inPlace THEN 0 ELSE v
StorageOf(g, values) == {Storage(g, v) : v \in values}

(* The values a region's operations name.  An operation that mutates an    *)
(* input counts as reading and writing all of its operands.                *)
Operands(g, r)       == g.reads[r] \cup (IF r \in g.inPlace THEN {0} ELSE {})
StorageRead(g, r)    == StorageOf(g, Operands(g, r))
StorageWritten(g, r) == StorageOf(g, {r} \cup (IF r \in g.inPlace THEN Operands(g, r) ELSE {}))

(* Data dependencies, and storage-order dependencies of every later region *)
(* on every earlier one whose storage it overwrites.                       *)
Dependencies(g) ==
  {d \in Regions(g) \X Regions(g) :
     \/ d[1] \in g.reads[d[2]]
     \/ /\ d[1] < d[2]
        /\ StorageWritten(g, d[2]) \cap (StorageWritten(g, d[1]) \cup StorageRead(g, d[1])) # {}}

Prerequisites(g, r) == {d[1] : d \in {e \in Dependencies(g) : e[2] = r}}

(* The members of a finite set of numbers, in order.                       *)
Ascending(S) ==
  [i \in 1 .. Cardinality(S) |-> CHOOSE x \in S : Cardinality({y \in S : y < x}) = i - 1]

(* _topological_order: of the regions that are ready, the first one in     *)
(* selection order goes next.  The order after k of them.                  *)
Ready(g, order) ==
  {r \in Regions(g) \ ToSet(order) : Prerequisites(g, r) \subseteq ToSet(order)}

TopologicalOrders(g) ==
  LET order[k \in 0 .. g.n] ==
        IF k = 0 THEN <<>> ELSE Append(order[k - 1], Min(Ready(g, order[k - 1])))
  IN  order

TopologicalOrder(g) == TopologicalOrders(g)[g.n]

(* Fault: a level for every region.                                        *)
LevelPerRegion(g) ==
  LET order == TopologicalOrder(g)
  IN  [r \in Regions(g) |-> (CHOOSE i \in Regions(g) : order[i] = r) - 1]

(* _level_order: a region's level is one more than its deepest             *)
(* prerequisite's, which the order has in front of it; a level is a        *)
(* barrier interval and keeps the topological order.                       *)
Level(g) ==
  LET level[r \in Regions(g)] == 1 + Max({level[p] : p \in Prerequisites(g, r)} \cup {-1})
  IN  level

ByLevel(level, order) ==
  LET Places(l) == Ascending({i \in DOMAIN order : level[order[i]] = l})
  IN  [l \in 1 .. Max(Range(level)) + 1 |-> [j \in DOMAIN Places(l - 1) |-> order[Places(l - 1)[j]]]]

Levels(g) == ByLevel(Level(g), TopologicalOrder(g))

-----------------------------------------------------------------------------
(* _fold_small_intervals: runs of intervals that hold only small bodies    *)
(* move to the front of the next interval, where every CTA runs them.  The *)
(* state is the loop's: intervals settled, regions folded, and the pending *)
(* run with its cost.                                                      *)

Small(g, interval)  == \A i \in DOMAIN interval : g.rounds[interval[i]] # Large
Cost(g, interval)   == FoldLeft(LAMBDA sum, r : sum + g.rounds[r], 0, interval)

Flush(fold) ==
  [fold EXCEPT !.result = @ \o fold.pending, !.pending = <<>>, !.cost = 0]

Fits(g, fold, interval) ==
  /\ fold.cost + Cost(g, interval) <= FoldMaxRounds
  /\ Len(FlattenSeq(fold.pending)) + Len(interval) <= FoldMaxPhases

(* The storage that regions read or write.                                *)
StorageUsed(g, regions) == StorageOf(g, regions \cup UNION {Operands(g, r) : r \in regions})

(* The receiving interval writes storage the run reads or writes.          *)
Conflict(g, run, interval) ==
  StorageOf(g, ToSet(interval)) \cap StorageUsed(g, ToSet(run)) # {}

FoldSmall(g, fold, interval) ==
  LET f == IF Fits(g, fold, interval) THEN fold ELSE Flush(fold)
  IN  IF Fits(g, f, interval)
        THEN [f EXCEPT !.pending = Append(@, interval), !.cost = @ + Cost(g, interval)]
        ELSE [f EXCEPT !.result = Append(@, interval)]

(* Fault: the run goes behind the phases of the interval that receives it. *)
FoldBehind(g, fold, interval) ==
  LET run == FlattenSeq(fold.pending)
  IN  [fold EXCEPT !.result = Append(@, interval \o run),
                   !.folded = @ \cup ToSet(run),
                   !.pending = <<>>, !.cost = 0]

FoldInto(g, fold, interval) ==
  LET run == FlattenSeq(fold.pending)
  IN  IF Conflict(g, run, interval)
        THEN [Flush(fold) EXCEPT !.result = Append(@, interval)]
        ELSE [fold EXCEPT !.result = Append(@, run \o interval),
                          !.folded = @ \cup ToSet(run),
                          !.pending = <<>>, !.cost = 0]

FoldInterval(g, fold, interval) ==
  IF Small(g, interval) THEN FoldSmall(g, fold, interval) ELSE FoldInto(g, fold, interval)

(* The loop after k intervals, and the whole.                              *)
Folds(g, intervals) ==
  LET fold[k \in 0 .. Len(intervals)] ==
        IF k = 0 THEN [result |-> <<>>, folded |-> {}, pending |-> <<>>, cost |-> 0]
        ELSE FoldInterval(g, fold[k - 1], intervals[k])
  IN  fold

Folded(g) == Flush(Folds(g, Levels(g))[Len(Levels(g))])

(* make_phase_schedule: the phases in order (phase i runs region order[i]),*)
(* the phases that close an interval with a grid barrier, and the regions  *)
(* every CTA computes by itself.                                           *)
MakePhaseSchedule(g) ==
  LET fold  == Folded(g)
      Ends(k) == Len(FlattenSeq(SubSeq(fold.result, 1, k)))
  IN  [graph     |-> g,
       order     |-> FlattenSeq(fold.result),
       barriers  |-> {Ends(k) : k \in 1 .. Len(fold.result) - 1},
       recompute |-> fold.folded]

-----------------------------------------------------------------------------
(* What is taken for granted of a graph.  Regions come in an order in which*)
(* each reads only earlier values, a value has a tile, and a write into    *)
(* the caller's tensor returns the new state, so that nobody reads the old *)
(* one behind it.                                                          *)

StateThreaded(g) ==
  \A w \in g.inPlace : \A v \in {0} \cup g.inPlace :
    v < w => \A r \in w .. g.n : v \notin g.reads[r]

GraphOK(g) ==
  /\ g.n \in Nat \ {0}
  /\ g.tiles \in [0 .. g.n -> Nat \ {0}]
  /\ g.reads \in [Regions(g) -> SUBSET (0 .. g.n)]
  /\ \A r \in Regions(g) : \A v \in g.reads[r] : v < r
  /\ g.inPlace \subseteq Regions(g)
  /\ g.outputs \subseteq Regions(g) \ g.inPlace
  /\ StateThreaded(g)

(* A region that writes in place is not among those that fold.             *)
WritersStay(g) == \A w \in g.inPlace : g.rounds[w] = Large

-----------------------------------------------------------------------------
(* What a schedule is held against. *)

Phases(s) == DOMAIN s.order
PhaseOf(s, r) == CHOOSE i \in Phases(s) : s.order[i] = r

(* First and last phase of the barrier interval of phase i.                *)
IntervalEnd(s, i)   == Min({j \in s.barriers \cup {Len(s.order)} : j >= i})
IntervalStart(s, i) == Max({j + 1 : j \in {b \in s.barriers : b < i}} \cup {1})

(* simulate_phase_schedule: a phase's prerequisites are complete behind a  *)
(* barrier, or recomputed in its own interval, and recompute phases lead   *)
(* their interval.                                                         *)
SimulationAccepts(s) ==
  \A i \in Phases(s) :
    LET before == {s.order[j] : j \in IntervalStart(s, i) .. i - 1}
        behind == {s.order[j] : j \in 1 .. IntervalStart(s, i) - 1}
    IN  /\ s.order[i] \in s.recompute => before \subseteq s.recompute
        /\ Prerequisites(s.graph, s.order[i]) \subseteq behind \cup (before \cap s.recompute)

(* "This needs the fewest barriers any phase schedule of this graph can    *)
(* have", against all ways to number intervals.                            *)
FewestIntervals(g) ==
  \A k \in 1 .. Len(Levels(g)) - 1 :
    ~ \E interval \in [Regions(g) -> 1 .. k] :
        \A d \in Dependencies(g) : interval[d[1]] < interval[d[2]]

=============================================================================
