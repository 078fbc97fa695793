------------------------------ MODULE PlanSearch ------------------------------
(***************************************************************************)
(* search_plans (plan.py): which complete plans a search tries, in which   *)
(* order, and which of the measured ones it selects.                       *)
(*                                                                         *)
(* A selection is one choice of bodies for all regions:                    *)
(*   bodies   what identifies it                                           *)
(*   shared   bytes of shared memory it is known to need                   *)
(*   maps     whether its tiles can be enumerated                          *)
(*   work     the most tiles a region has                                  *)
(*   active   CTAs its bodies allow per multiprocessor                     *)
(*   plans    worker counts with a plan that verifies, and its phases      *)
(***************************************************************************)
EXTENDS Naturals, Sequences, SequencesExt

CONSTANTS
  Multiprocessors,  \* target.multiprocessor_count
  SharedLimit,      \* target.max_shared_memory_per_cta
  Mode,             \* "prefill" or "decode"
  CountsPerSelection \* 3: default, half and quarter of the workers

Distinct(selections) ==
  FoldLeft(LAMBDA kept, s : IF \E i \in DOMAIN kept : kept[i].bodies = s.bodies
                            THEN kept ELSE Append(kept, s),
           <<>>, selections)

Searchable(s) == s.shared <= SharedLimit /\ s.maps

DefaultWorkers(s) == Min({Max({s.work, 1}), Multiprocessors * s.active})

WorkerCounts(s) ==
  LET d == DefaultWorkers(s)
  IN  {d} \cup {w \in {d \div 2} : d >= 2} \cup {w \in {d \div 4} : d >= 4}

InOrder(counts) == SetToSortSeq(counts, LAMBDA a, b : IF Mode = "decode" THEN a < b ELSE a > b)

(* A budget too small for every count tries the whole machine first.       *)
Counts(s, budget) ==
  LET d == DefaultWorkers(s)
      counts == InOrder(WorkerCounts(s))
  IN  IF Min({budget.plans, budget.compilations}) < Len(counts)
      THEN <<d>> \o Remove(counts, d)
      ELSE counts

(* Several counts of the first selections, one of each of the others.      *)
Variants(selections, budget) ==
  LET many == Max({1, budget.compilations \div CountsPerSelection})
      of(i) == [j \in DOMAIN Counts(selections[i], budget) |->
                  [s |-> selections[i], workers |-> Counts(selections[i], budget)[j]]]
  IN  FlattenSeq([i \in DOMAIN selections |->
                    IF i <= many THEN of(i) ELSE SubSeq(of(i), 1, 1)])

Candidate(s, workers) ==
  LET legal == workers \in DOMAIN s.plans
  IN  [bodies  |-> s.bodies,
       workers |-> workers,
       phases  |-> IF legal THEN s.plans[workers] ELSE 0,
       status  |-> IF legal THEN "unmeasured" ELSE "rejected",
       rank    |-> 0]

Unmeasured(candidates) == SelectSeq(candidates, LAMBDA d : d.status = "unmeasured")

Searched(selections, budget) == Variants(SelectSeq(Distinct(selections), Searchable), budget)

(* The candidates of a search before any is measured.  A plan that does    *)
(* not verify does not count against the budget.                           *)
Enumerate(selections, budget) ==
  LET refused == SelectSeq(Distinct(selections), LAMBDA s : ~ Searchable(s))
  IN  FoldLeft(LAMBDA tried, v :
                 IF Len(Unmeasured(tried)) >= budget.plans THEN tried
                 ELSE Append(tried, Candidate(v.s, v.workers)),
               [i \in DOMAIN refused |-> Candidate(refused[i], 0)],
               Searched(selections, budget))

(* Plans are left over when the budget is reached before the last variant. *)
PlansLeft(selections, budget) ==
  LET variants == Searched(selections, budget)
      but      == SubSeq(variants, 1, Len(variants) - 1)
      legal    == SelectSeq(but, LAMBDA v : v.workers \in DOMAIN v.s.plans)
  IN  Len(legal) >= budget.plans

Measured(candidates) == {i \in DOMAIN candidates : candidates[i].status = "measured"}

(* _TIE_TOLERANCE: 5% of the time of a launch is noise.                    *)
Close(rank, fastest) == rank * 100 <= fastest * 105

(* Fault: the fewest phases win whatever the times.                        *)
ChooseFewestPhases(candidates) ==
  LET measured == Measured(candidates)
  IN  CHOOSE i \in measured :
        \A j \in measured : candidates[i].phases <= candidates[j].phases

(* The measured candidate a search selects: of those that cannot be told   *)
(* from the fastest, one of the fewest phases, then the fastest, then the  *)
(* first.                                                                  *)
Choose(candidates) ==
  LET measured == Measured(candidates)
      fastest  == Min({candidates[i].rank : i \in measured})
      close    == {i \in measured : Close(candidates[i].rank, fastest)}
      Better(i, j) ==
        LET a == candidates[i]  b == candidates[j]
        IN  \/ a.phases < b.phases
            \/ a.phases = b.phases /\ a.rank < b.rank
            \/ a.phases = b.phases /\ a.rank = b.rank /\ i <= j
  IN  CHOOSE i \in close : \A j \in close : Better(i, j)
=============================================================================
