--------------------------- MODULE EventKernelProofs ---------------------------
(***************************************************************************)
(* Proofs about EventKernel: event words that are never cleared between    *)
(* calls keep every task behind what it must not start before, for every   *)
(* number of CTAs and calls and every plan whose events cover its needs;   *)
(* and that the region schedules the compiler makes do cover them.         *)
(***************************************************************************)
EXTENDS EventKernel, FiniteSetTheorems, SequenceTheorems, WellFoundedInduction, TLAPS

(* A CTA at place k of its list is past task t.                            *)
Past(list, k, t) == k = Len(list) + 1 \/ list[k] > t

(* The tasks of an event that are complete, as the CTAs' places have it.   *)
Completed(p, places, e) ==
  {t \in e : Past(p.lists[p.tasks[t].worker], places[p.tasks[t].worker], t)}

(* Where the CTAs may be.                                                  *)
Walk ==
  /\ task \in [Cta -> Nat] /\ at \in [Cta -> {"wait", "run"}]
  /\ \A c \in Cta : task[c] \in 1 .. End(c)
  /\ \A c \in Cta : at[c] = "run" => task[c] < End(c)
  /\ host # "busy" => Ended

(* What an event word says: the calls before this one, and those of its    *)
(* producers that are past their tasks in this one.                        *)
Counted ==
  /\ host \in {"idle", "busy", "refused"} /\ epoch \in Nat
  /\ events = [e \in Events(plan) |-> events[e]]
  /\ \A e \in Events(plan) :
       events[e] = epoch * Cardinality(e) + (IF host = "busy" THEN Cardinality(Completed(plan, task, e)) ELSE 0)

(* A CTA in a task has seen all its events.                                *)
Waited ==
  \A c \in Cta : at[c] = "run" => \A e \in Waits(plan, Task(c)) : Reached(e)

EventInv == PlanOK(plan) /\ Walk /\ Counted /\ Waited

-----------------------------------------------------------------------------
(* Places in a list, and numbers.                                          *)

LEMMA PastOneMore ==
  ASSUME NEW T \in SUBSET Nat, NEW list \in Seq(T), NEW k \in 1 .. Len(list), NEW i \in 1 .. Len(list),
         \A m, n \in 1 .. Len(list) : m < n => list[m] < list[n]
  PROVE  /\ Past(list, k + 1, list[i]) <=> Past(list, k, list[i]) \/ list[i] = list[k]
         /\ ~ Past(list, k, list[k])
         /\ ~ Past(list, 1, list[i])
         /\ Past(list, Len(list) + 1, list[i])
<1>1. Len(list) \in Nat /\ k \in Nat /\ i \in Nat
  BY LenProperties
<1>2. \A m \in 1 .. Len(list) : list[m] \in Nat
  BY ElementOfSeq
<1>3. \A m \in 1 .. Len(list) : Past(list, m, list[i]) <=> i < m
  <2> SUFFICES ASSUME NEW m \in 1 .. Len(list)
               PROVE  Past(list, m, list[i]) <=> i < m
    OBVIOUS
  <2>1. m # Len(list) + 1 /\ m \in Nat
    BY <1>1
  <2>2. CASE i < m
    BY <1>2, <2>1, <2>2 DEF Past
  <2>3. CASE i = m
    BY <1>2, <2>1, <2>3 DEF Past
  <2>4. CASE m < i
    <3>1. list[m] < list[i]
      BY <2>4
    <3>2. ~ (list[m] > list[i])
      BY <1>2, <3>1
    <3>3. QED
      BY <1>1, <2>1, <2>4, <3>2 DEF Past
  <2>5. QED
    BY <1>1, <2>1, <2>2, <2>3, <2>4
<1>4. Past(list, k + 1, list[i]) <=> i < k + 1
  <2>1. CASE k = Len(list)
    BY <1>1, <2>1 DEF Past
  <2>2. CASE k # Len(list)
    <3>1. k + 1 \in 1 .. Len(list)
      BY <1>1, <2>2
    <3>2. QED
      BY <1>3, <3>1
  <2>3. QED
    BY <2>1, <2>2
<1>5. list[i] = list[k] <=> i = k
  <2>1. i < k => list[i] < list[k]
    OBVIOUS
  <2>2. k < i => list[k] < list[i]
    OBVIOUS
  <2>3. list[i] \in Nat /\ list[k] \in Nat
    BY <1>2
  <2>4. QED
    BY <1>1, <2>1, <2>2, <2>3
<1>6. Past(list, k, list[i]) <=> i < k
  BY <1>3
<1>7. ~ Past(list, k, list[k])
  BY <1>1, <1>2 DEF Past
<1>8. ~ Past(list, 1, list[i])
  <2>1. 1 \in 1 .. Len(list)
    BY <1>1
  <2>2. ~ (i < 1)
    BY <1>1
  <2>3. QED
    BY <1>3, <2>1, <2>2
<1>9. Past(list, Len(list) + 1, list[i])
  BY DEF Past
<1>10. QED
  BY <1>1, <1>4, <1>5, <1>6, <1>7, <1>8, <1>9

LEMMA NextMultiple ==
  ASSUME NEW a \in Nat, NEW n \in Nat
  PROVE  /\ a * n \in Nat /\ (a + 1) * n \in Nat
         /\ (a + 1) * n = a * n + n
<1>1. a * n \in Nat
  OBVIOUS
<1>2. (a + 1) * n = a * n + n
  OBVIOUS
<1>3. QED
  BY <1>1, <1>2

-----------------------------------------------------------------------------
(* A plan's events and lists.                                              *)

LEMMA EventsAreFinite ==
  ASSUME NEW p, PlanOK(p), NEW e \in Events(p)
  PROVE  e \subseteq DOMAIN p.tasks /\ IsFiniteSet(e) /\ Cardinality(e) \in Nat
<1>1. e \subseteq DOMAIN p.tasks
  BY DEF PlanOK, Events
<1>2. DOMAIN p.tasks = 1 .. Len(p.tasks) /\ Len(p.tasks) \in Nat
  BY LenProperties DEF PlanOK
<1>3. IsFiniteSet(1 .. Len(p.tasks))
  BY <1>2, FS_Interval
<1>4. IsFiniteSet(e)
  BY <1>1, <1>2, <1>3, FS_Subset
<1>5. QED
  BY <1>1, <1>4, FS_CardinalityType

(* A task's place in the list of its CTA. *)
LEMMA TaskIsListed ==
  ASSUME NEW p, PlanOK(p), NEW t \in DOMAIN p.tasks
  PROVE  /\ p.tasks[t].worker \in Cta
         /\ \E i \in 1 .. Len(p.lists[p.tasks[t].worker]) : p.lists[p.tasks[t].worker][i] = t
<1>1. p.tasks[t].worker \in Cta
  <2>1. p.tasks[t] \in [region : Regions(p.graph), worker : Cta, tiles : Seq(Nat)]
    BY ElementOfSeq, LenProperties DEF PlanOK
  <2>2. QED
    BY <2>1
<1>2. PICK c \in Cta : c = p.tasks[t].worker
  BY <1>1
<1>3. Lists(p, c)
  BY DEF PlanOK
<1>4. DOMAIN p.lists[c] = 1 .. Len(p.lists[c])
  BY <1>3, LenProperties DEF Lists
<1>5. QED
  BY <1>2, <1>3, <1>4 DEF Lists

LEMMA ListsOfTasks ==
  ASSUME NEW p, PlanOK(p), NEW c \in Cta
  PROVE  /\ DOMAIN p.tasks \in SUBSET Nat
         /\ p.lists[c] \in Seq(DOMAIN p.tasks)
         /\ Len(p.lists[c]) \in Nat
         /\ \A m, n \in 1 .. Len(p.lists[c]) : m < n => p.lists[c][m] < p.lists[c][n]
         /\ \A m \in 1 .. Len(p.lists[c]) :
              p.lists[c][m] \in DOMAIN p.tasks /\ p.tasks[p.lists[c][m]].worker = c
<1>1. Lists(p, c)
  BY DEF PlanOK
<1>2. p.lists[c] \in Seq(DOMAIN p.tasks)
  BY <1>1 DEF Lists
<1>3. DOMAIN p.lists[c] = 1 .. Len(p.lists[c]) /\ Len(p.lists[c]) \in Nat
  BY <1>2, LenProperties
<1>4. DOMAIN p.tasks \in SUBSET Nat
  BY LenProperties DEF PlanOK
<1>5. \A m \in 1 .. Len(p.lists[c]) : p.lists[c][m] \in DOMAIN p.tasks
  BY <1>2, ElementOfSeq
<1>6. QED
  BY <1>1, <1>2, <1>3, <1>4, <1>5 DEF Lists

(* Which tasks are complete at the start, at the end, and after one more.  *)
LEMMA CompletedAtEnds ==
  ASSUME NEW p, PlanOK(p), NEW e \in Events(p), NEW places \in [Cta -> Nat]
  PROVE  /\ (\A c \in Cta : places[c] = 1) => Completed(p, places, e) = {}
         /\ (\A c \in Cta : places[c] = Len(p.lists[c]) + 1) => Completed(p, places, e) = e
<1>1. ASSUME NEW t \in e
      PROVE  \E c \in Cta : /\ p.tasks[t].worker = c
                            /\ ~ Past(p.lists[c], 1, t)
                            /\ Past(p.lists[c], Len(p.lists[c]) + 1, t)
  <2>1. t \in DOMAIN p.tasks
    BY EventsAreFinite
  <2>2. PICK c \in Cta : c = p.tasks[t].worker
    BY <2>1, TaskIsListed
  <2>3. PICK i \in 1 .. Len(p.lists[c]) : p.lists[c][i] = t
    BY <2>1, <2>2, TaskIsListed
  <2>4. PICK T \in SUBSET Nat : T = DOMAIN p.tasks
    BY ListsOfTasks
  <2>5. p.lists[c] \in Seq(T) /\ \A m, n \in 1 .. Len(p.lists[c]) : m < n => p.lists[c][m] < p.lists[c][n]
    BY <2>4, ListsOfTasks
  <2>6. PICK list \in Seq(T) : list = p.lists[c]
    BY <2>5
  <2>7. /\ ~ Past(list, 1, list[i]) /\ Past(list, Len(list) + 1, list[i])
    BY <2>3, <2>5, <2>6, PastOneMore
  <2>8. QED
    BY <2>2, <2>3, <2>6, <2>7
<1>2. ASSUME \A c \in Cta : places[c] = 1
      PROVE  Completed(p, places, e) = {}
  BY <1>1, <1>2 DEF Completed
<1>3. ASSUME \A c \in Cta : places[c] = Len(p.lists[c]) + 1
      PROVE  Completed(p, places, e) = e
  BY <1>1, <1>3 DEF Completed
<1>4. QED
  BY <1>2, <1>3

OneMore(p, places, c, e) ==
  LET t == p.lists[c][places[c]]
      before == Completed(p, places, e)
  IN  /\ t \notin before
      /\ Completed(p, [places EXCEPT ![c] = @ + 1], e) = IF t \in e THEN before \cup {t} ELSE before

LEMMA CompletedOneMore ==
  ASSUME NEW p, PlanOK(p), NEW e \in Events(p), NEW places \in [Cta -> Nat],
         NEW c \in Cta, places[c] \in 1 .. Len(p.lists[c])
  PROVE  OneMore(p, places, c, e)
<1> DEFINE t == p.lists[c][places[c]]
           after == [places EXCEPT ![c] = @ + 1]
<1>1. /\ t \in DOMAIN p.tasks /\ p.tasks[t].worker = c
      /\ after[c] = places[c] + 1 /\ \A d \in Cta : d # c => after[d] = places[d]
  BY ListsOfTasks
<1> HIDE DEF after
<1>2. PICK T \in SUBSET Nat : T = DOMAIN p.tasks
  BY ListsOfTasks
<1>3. p.lists[c] \in Seq(T) /\ \A m, n \in 1 .. Len(p.lists[c]) : m < n => p.lists[c][m] < p.lists[c][n]
  BY <1>2, ListsOfTasks
<1>4. PICK list \in Seq(T) : list = p.lists[c]
  BY <1>3
<1>5. PICK k \in 1 .. Len(list) : k = places[c]
  BY <1>4
<1>6. \A m, n \in 1 .. Len(list) : m < n => list[m] < list[n]
  BY <1>3, <1>4
<1>7. ASSUME NEW i \in 1 .. Len(list)
      PROVE  Past(list, k + 1, list[i]) <=> Past(list, k, list[i]) \/ list[i] = list[k]
  BY <1>6, PastOneMore
<1>8. ~ Past(list, k, list[k])
  BY <1>6, PastOneMore
<1>9. ASSUME NEW u \in e
      PROVE  Past(p.lists[p.tasks[u].worker], after[p.tasks[u].worker], u)
               <=> Past(p.lists[p.tasks[u].worker], places[p.tasks[u].worker], u) \/ u = t
  <2>1. u \in DOMAIN p.tasks
    BY EventsAreFinite
  <2>2. PICK d \in Cta : d = p.tasks[u].worker
    BY <2>1, TaskIsListed
  <2>3. CASE d = c
    <3>1. p.lists[p.tasks[u].worker] = list
      BY <1>4, <2>2, <2>3
    <3>2. \E i \in 1 .. Len(p.lists[p.tasks[u].worker]) : p.lists[p.tasks[u].worker][i] = u
      BY <2>1, TaskIsListed
    <3>3. PICK i \in 1 .. Len(list) : list[i] = u
      BY <3>1, <3>2
    <3>4. after[p.tasks[u].worker] = k + 1 /\ places[p.tasks[u].worker] = k /\ t = list[k]
      BY <1>1, <1>4, <1>5, <2>2, <2>3
    <3>5. QED
      BY <1>7, <3>1, <3>3, <3>4
  <2>4. CASE d # c
    <3>1. u # t
      BY <1>1, <2>2, <2>4
    <3>2. QED
      BY <1>1, <2>2, <2>4, <3>1
  <2>5. QED
    BY <2>3, <2>4
<1>10. ~ Past(p.lists[p.tasks[t].worker], places[p.tasks[t].worker], t)
  BY <1>1, <1>4, <1>5, <1>8
<1>11. t \notin Completed(p, places, e)
  BY <1>10 DEF Completed
<1> HIDE DEF t
<1>12. Completed(p, after, e) = Completed(p, places, e) \cup {u \in e : u = t}
  BY <1>9 DEF Completed
<1>13. {u \in e : u = t} = IF t \in e THEN {t} ELSE {}
  OBVIOUS
<1>14. Completed(p, after, e) = IF t \in e THEN Completed(p, places, e) \cup {t}
                                ELSE Completed(p, places, e)
  BY <1>12, <1>13
<1>15. QED
  BY <1>11, <1>14 DEF OneMore, after, t

LEMMA CompletedIsFinite ==
  ASSUME NEW p, PlanOK(p), NEW e \in Events(p), NEW places
  PROVE  /\ IsFiniteSet(Completed(p, places, e))
         /\ Cardinality(Completed(p, places, e)) \in Nat
         /\ Cardinality(Completed(p, places, e)) <= Cardinality(e)
         /\ Cardinality(Completed(p, places, e)) = Cardinality(e) => Completed(p, places, e) = e
<1>1. IsFiniteSet(e) /\ Completed(p, places, e) \in SUBSET e
  BY EventsAreFinite DEF Completed
<1>2. IsFiniteSet(Completed(p, places, e)) /\ Cardinality(Completed(p, places, e)) <= Cardinality(e)
      /\ (Cardinality(Completed(p, places, e)) = Cardinality(e) => Completed(p, places, e) = e)
  BY <1>1, FS_Subset
<1>3. QED
  BY <1>2, FS_CardinalityType

(* A word that has reached its number stands for all its producers. *)
LEMMA ReachedIsComplete ==
  ASSUME EventInv, host = "busy", NEW e \in Events(plan), Reached(e)
  PROVE  Completed(plan, task, e) = e
<1>1. PICK n \in Nat : n = Cardinality(e)
  BY EventsAreFinite DEF EventInv
<1>2. PICK m \in Nat : m = Cardinality(Completed(plan, task, e))
  BY CompletedIsFinite DEF EventInv
<1>3. PICK k \in Nat : k = epoch
  BY DEF EventInv, Counted
<1>4. events[e] = k * n + m
  BY <1>1, <1>2, <1>3 DEF EventInv, Counted
<1>5. (k + 1) * n <= events[e]
  BY <1>1, <1>3, <1>4, NextMultiple DEF Reached
<1>6. k * n \in Nat /\ (k + 1) * n = k * n + n
  BY NextMultiple
<1>7. m <= n
  BY <1>1, <1>2, CompletedIsFinite DEF EventInv
<1>8. m = n
  BY <1>4, <1>5, <1>6, <1>7
<1>9. QED
  BY <1>1, <1>2, <1>8, CompletedIsFinite DEF EventInv

-----------------------------------------------------------------------------
(* The steps.                                                              *)

(* At rest the words carry the calls that are over. *)
LEMMA AtRest ==
  ASSUME EventInv, host # "busy"
  PROVE  \A e \in Events(plan) : events[e] = epoch * Cardinality(e)
<1> SUFFICES ASSUME NEW e \in Events(plan)
             PROVE  events[e] = epoch * Cardinality(e)
  OBVIOUS
<1>1. epoch * Cardinality(e) \in Nat
  <2>1. PICK n \in Nat : n = Cardinality(e)
    BY EventsAreFinite DEF EventInv
  <2>2. PICK k \in Nat : k = epoch
    BY DEF EventInv, Counted
  <2>3. QED
    BY <2>1, <2>2, NextMultiple
<1>2. QED
  BY <1>1 DEF EventInv, Counted

LEMMA InvAtStart ==
  ASSUME Init, PlanOK(plan)
  PROVE  EventInv
<1>1. task = [c \in Cta |-> Len(plan.lists[c]) + 1] /\ at = [c \in Cta |-> "wait"]
  BY DEF Init, End
<1>2. \A c \in Cta : Len(plan.lists[c]) \in Nat
  BY ListsOfTasks
<1>3. Walk
  <2>1. task \in [Cta -> Nat] /\ at \in [Cta -> {"wait", "run"}]
    BY <1>1, <1>2
  <2>2. \A c \in Cta : task[c] \in 1 .. End(c) /\ task[c] = End(c) /\ at[c] = "wait"
    BY <1>1, <1>2 DEF End
  <2>3. QED
    BY <2>1, <2>2 DEF Walk, Ended
<1>4. Counted
  <2>1. host = "idle" /\ epoch = 0 /\ events = [e \in Events(plan) |-> 0]
    BY DEF Init
  <2>2. ASSUME NEW e \in Events(plan)
        PROVE  events[e] = epoch * Cardinality(e) + 0
    <3>1. Cardinality(e) \in Nat
      BY EventsAreFinite
    <3>2. QED
      BY <2>1, <3>1
  <2>3. QED
    BY <2>1, <2>2 DEF Counted
<1>5. Waited
  BY <1>1 DEF Waited
<1>6. QED
  BY <1>3, <1>4, <1>5 DEF EventInv

LEMMA CallKeeps ==
  ASSUME EventInv, Call
  PROVE  EventInv'
<1>1. /\ host = "idle" /\ UNCHANGED <<plan, epoch, events, at>>
      /\ \/ host' = "busy" /\ task' = [c \in Cta |-> 1]
         \/ host' = "refused" /\ task' = task
  BY DEF Call
<1>2. \A c \in Cta : task[c] = End(c) /\ at[c] = "wait"
  BY <1>1 DEF EventInv, Walk, Ended
<1>3. \A e \in Events(plan) : events[e] = epoch * Cardinality(e)
  BY <1>1, AtRest
<1>4. Waited'
  BY <1>1, <1>2 DEF Waited
<1>5. CASE host' = "busy" /\ task' = [c \in Cta |-> 1]
  <2>1. Walk'
    <3>1. \A c \in Cta : Len(plan.lists[c]) \in Nat
      BY ListsOfTasks DEF EventInv
    <3>2. task' \in [Cta -> Nat]
      BY <1>5
    <3>3. \A c \in Cta : task'[c] \in 1 .. Len(plan.lists[c]) + 1
      BY <1>5, <3>1
    <3>4. QED
      BY <1>1, <1>2, <1>5, <3>2, <3>3 DEF EventInv, Walk, End
  <2>2. Counted'
    <3>1. ASSUME NEW e \in Events(plan)
          PROVE  events[e] = epoch * Cardinality(e) + Cardinality(Completed(plan, task', e))
      <4>1. task' \in [Cta -> Nat] /\ \A c \in Cta : task'[c] = 1
        BY <1>5
      <4>2. Completed(plan, task', e) = {}
        BY <4>1, CompletedAtEnds DEF EventInv
      <4>3. Cardinality({}) = 0
        BY FS_EmptySet
      <4>4. PICK n \in Nat : n = Cardinality(e)
        BY EventsAreFinite DEF EventInv
      <4>5. PICK k \in Nat : k = epoch
        BY DEF EventInv, Counted
      <4>6. events[e] = k * n /\ k * n \in Nat
        BY <1>3, <4>4, <4>5, NextMultiple
      <4>7. QED
        BY <4>2, <4>3, <4>4, <4>5, <4>6
    <3>2. QED
      BY <1>1, <1>5, <3>1 DEF EventInv, Counted
  <2>3. QED
    BY <1>1, <1>4, <2>1, <2>2 DEF EventInv
<1>6. CASE host' = "refused" /\ task' = task
  <2>1. Walk'
    BY <1>1, <1>2, <1>6 DEF EventInv, Walk, Ended, End
  <2>2. Counted'
    <3>1. \A e \in Events(plan) : events[e] = epoch * Cardinality(e) + 0
      BY <1>1 DEF EventInv, Counted
    <3>2. QED
      BY <1>1, <1>6, <3>1 DEF EventInv, Counted
  <2>3. QED
    BY <1>1, <1>4, <2>1, <2>2 DEF EventInv
<1>7. QED
  BY <1>1, <1>5, <1>6

LEMMA CallEndsKeeps ==
  ASSUME EventInv, CallEnds
  PROVE  EventInv'
<1>1. /\ host = "busy" /\ Ended /\ host' = "idle" /\ UNCHANGED <<plan, task, at>>
      /\ \/ epoch' = 0 /\ events' = [e \in Events(plan) |-> 0]
         \/ epoch' = epoch + 1 /\ events' = events
  BY DEF CallEnds
<1>2. \A c \in Cta : task[c] = End(c) /\ at[c] = "wait"
  BY <1>1 DEF EventInv, Walk, Ended
<1>3. Walk' /\ Waited'
  BY <1>1, <1>2 DEF EventInv, Walk, Ended, End, Waited
<1>4. Counted'
  <2>1. ASSUME NEW e \in Events(plan)
        PROVE  events'[e] = epoch' * Cardinality(e) + 0
    <3>1. PICK n \in Nat : n = Cardinality(e)
      BY EventsAreFinite DEF EventInv
    <3>2. PICK k \in Nat : k = epoch
      BY DEF EventInv, Counted
    <3>3. CASE epoch' = 0 /\ events' = [f \in Events(plan) |-> 0]
      BY <3>1, <3>3
    <3>4. CASE epoch' = epoch + 1 /\ events' = events
      <4>1. \A c \in Cta : task[c] = Len(plan.lists[c]) + 1
        BY <1>2 DEF End
      <4>2. Completed(plan, task, e) = e
        BY <4>1, CompletedAtEnds DEF EventInv, Walk
      <4>3. events[e] = k * n + n
        BY <1>1, <3>1, <3>2, <4>2 DEF EventInv, Counted
      <4>4. (k + 1) * n = k * n + n /\ (k + 1) * n \in Nat
        BY NextMultiple
      <4>5. QED
        BY <3>1, <3>2, <3>4, <4>3, <4>4
    <3>5. QED
      BY <1>1, <3>3, <3>4
  <2>2. epoch' \in Nat /\ events' = [e \in Events(plan) |-> events'[e]]
    BY <1>1 DEF EventInv, Counted
  <2>3. QED
    BY <1>1, <2>1, <2>2 DEF Counted
<1>5. QED
  BY <1>1, <1>3, <1>4 DEF EventInv

LEMMA WaitKeeps ==
  ASSUME EventInv, NEW c \in Cta, Wait(c)
  PROVE  EventInv'
<1>1. /\ task[c] < End(c) /\ at' = [at EXCEPT ![c] = "run"]
      /\ UNCHANGED <<plan, epoch, host, events, task>>
      /\ \A e \in Waits(plan, Task(c)) : Reached(e)
  BY DEF Wait
<1>2. Walk'
  BY <1>1 DEF EventInv, Walk, Ended, End
<1>3. Counted'
  BY <1>1 DEF EventInv, Counted
<1>4. Waited'
  <2> SUFFICES ASSUME NEW d \in Cta, at'[d] = "run", NEW e \in Waits(plan, plan.lists[d][task[d]])
               PROVE  events[e] >= (epoch + 1) * Cardinality(e)
    BY <1>1 DEF Waited, Task, Reached
  <2>1. CASE d = c
    BY <1>1, <2>1 DEF Task, Reached
  <2>2. CASE d # c
    <3>1. at[d] = "run"
      BY <1>1, <2>2 DEF EventInv, Walk
    <3>2. QED
      BY <3>1 DEF EventInv, Waited, Task, Reached
  <2>3. QED
    BY <2>1, <2>2
<1>5. QED
  BY <1>1, <1>2, <1>3, <1>4 DEF EventInv

LEMMA EndTaskKeeps ==
  ASSUME EventInv, NEW c \in Cta, EndTask(c)
  PROVE  EventInv'
<1>1. /\ task[c] < End(c) /\ at[c] = "run" /\ UNCHANGED <<plan, epoch, host>>
      /\ task' = [task EXCEPT ![c] = @ + 1]
      /\ at' = [at EXCEPT ![c] = "wait"]
      /\ events' = [e \in DOMAIN events |-> IF Task(c) \in e THEN events[e] + 1 ELSE events[e]]
  BY DEF EndTask, Publish
<1>2. PICK t : t = Task(c)
  OBVIOUS
<1>3. \A d \in Cta : Len(plan.lists[d]) \in Nat
  BY ListsOfTasks DEF EventInv
<1>4. task \in [Cta -> Nat] /\ task[c] \in 1 .. Len(plan.lists[c]) /\ t = plan.lists[c][task[c]]
  BY <1>1, <1>2, <1>3 DEF EventInv, Walk, End, Task
<1>5. host = "busy"
  BY <1>1, <1>3, <1>4 DEF EventInv, Walk, Ended, End
<1>6. DOMAIN events = Events(plan)
  BY DEF EventInv, Counted
<1>7. Walk'
  <2>1. task' \in [Cta -> Nat] /\ at' \in [Cta -> {"wait", "run"}]
    BY <1>1, <1>4 DEF EventInv, Walk
  <2>2. \A d \in Cta : task'[d] \in 1 .. Len(plan.lists[d]) + 1
    <3> SUFFICES ASSUME NEW d \in Cta PROVE task'[d] \in 1 .. Len(plan.lists[d]) + 1
      OBVIOUS
    <3>1. CASE d = c
      BY <1>1, <1>3, <1>4, <3>1
    <3>2. CASE d # c
      BY <1>1, <1>4, <3>2 DEF EventInv, Walk, End
    <3>3. QED
      BY <3>1, <3>2
  <2>3. ASSUME NEW d \in Cta, at'[d] = "run"
        PROVE  task'[d] < Len(plan.lists[d]) + 1
    <3>1. d # c /\ at[d] = "run"
      BY <1>1, <2>3 DEF EventInv, Walk
    <3>2. QED
      BY <1>1, <1>4, <3>1 DEF EventInv, Walk, End
  <2>4. QED
    BY <1>1, <1>5, <2>1, <2>2, <2>3 DEF Walk, End
<1>8. ASSUME NEW e \in Events(plan)
      PROVE  /\ events'[e] = epoch * Cardinality(e) + Cardinality(Completed(plan, task', e))
             /\ events'[e] >= events[e] /\ events[e] \in Int
  <2>1. PICK n \in Nat : n = Cardinality(e)
    BY EventsAreFinite DEF EventInv
  <2>2. PICK k \in Nat : k = epoch
    BY DEF EventInv, Counted
  <2>3. PICK done : done = Completed(plan, task, e)
    OBVIOUS
  <2>4. IsFiniteSet(done) /\ Cardinality(done) \in Nat
    BY <2>3, CompletedIsFinite DEF EventInv
  <2>5. events[e] = k * n + Cardinality(done) /\ k * n \in Nat
    BY <1>5, <2>1, <2>2, <2>3, NextMultiple DEF EventInv, Counted
  <2>6. /\ t \notin done
        /\ Completed(plan, task', e) = (IF t \in e THEN done \cup {t} ELSE done)
    <3>1. OneMore(plan, task, c, e)
      BY <1>4, CompletedOneMore DEF EventInv
    <3>2. task' = [task EXCEPT ![c] = @ + 1]
      BY <1>1
    <3>3. QED
      BY <1>4, <2>3, <3>1, <3>2 DEF OneMore
  <2>7. Cardinality(done \cup {t}) = Cardinality(done) + 1
    BY <2>4, <2>6, FS_AddElement
  <2>8. events'[e] = IF t \in e THEN events[e] + 1 ELSE events[e]
    BY <1>1, <1>2, <1>6
  <2>9. CASE t \in e
    <3>1. Cardinality(Completed(plan, task', e)) = Cardinality(done) + 1
      BY <2>6, <2>7, <2>9
    <3>2. PICK before \in Nat : before = k * n
      BY <2>5
    <3>3. QED
      BY <2>1, <2>2, <2>4, <2>5, <2>8, <2>9, <3>1, <3>2
  <2>10. CASE t \notin e
    BY <2>1, <2>2, <2>4, <2>5, <2>6, <2>8, <2>10
  <2>11. QED
    BY <2>9, <2>10
<1>9. Counted'
  <2>1. events' = [e \in Events(plan) |-> events'[e]]
    BY <1>1, <1>6
  <2>2. host' = "busy" /\ plan' = plan /\ epoch' = epoch /\ epoch \in Nat
    BY <1>1, <1>5 DEF EventInv, Counted
  <2>3. \A e \in Events(plan) :
          events'[e] = epoch * Cardinality(e) + Cardinality(Completed(plan, task', e))
    BY <1>8
  <2>4. QED
    BY <2>1, <2>2, <2>3 DEF Counted
<1>10. Waited'
  <2> SUFFICES ASSUME NEW d \in Cta, at'[d] = "run", NEW e \in Waits(plan, plan.lists[d][task'[d]])
               PROVE  events'[e] >= (epoch + 1) * Cardinality(e)
    BY <1>1 DEF Waited, Task, Reached
  <2>1. d # c /\ at[d] = "run" /\ task'[d] = task[d]
    BY <1>1, <1>4 DEF EventInv, Walk
  <2>2. events[e] >= (epoch + 1) * Cardinality(e)
    BY <2>1 DEF EventInv, Waited, Task, Reached
  <2>3. e \in Events(plan)
    BY DEF Waits, Events
  <2>4. PICK n \in Nat : n = Cardinality(e)
    BY <2>3, EventsAreFinite DEF EventInv
  <2>5. PICK k \in Nat : k = epoch
    BY DEF EventInv, Counted
  <2>6. (k + 1) * n \in Nat
    BY NextMultiple
  <2>7. events'[e] \in Int
    <3>1. PICK m \in Nat : m = Cardinality(Completed(plan, task', e))
      BY <2>3, CompletedIsFinite DEF EventInv
    <3>2. k * n \in Nat
      BY NextMultiple
    <3>3. QED
      BY <1>8, <2>3, <2>4, <2>5, <3>1, <3>2
  <2>8. QED
    BY <1>8, <2>2, <2>3, <2>4, <2>5, <2>6, <2>7
<1>11. QED
  BY <1>1, <1>7, <1>9, <1>10 DEF EventInv

LEMMA StepKeeps == EventInv /\ [Next]_vars => EventInv'
<1> SUFFICES ASSUME EventInv, [Next]_vars PROVE EventInv'
  OBVIOUS
<1>1. ASSUME UNCHANGED <<plan, epoch, host, events, task, at>>
      PROVE  EventInv'
  BY <1>1 DEF EventInv, Walk, Counted, Waited, Ended, End, Task, Reached
<1>2. CASE HostDone \/ UNCHANGED vars
  BY <1>1, <1>2 DEF HostDone, vars, deviceVars
<1>3. ASSUME NEW c \in Cta, RunTile(c)
      PROVE  EventInv'
  BY <1>1, <1>3 DEF RunTile
<1>4. QED
  BY <1>2, <1>3, CallKeeps, CallEndsKeeps, WaitKeeps, EndTaskKeeps DEF Next, CtaStep

-----------------------------------------------------------------------------
(* What the events promise.                                                *)

(* What is said of a plan stays: a callable runs one. *)
PlanGood == PlanOK(plan) /\ NeedsCovered(plan) /\ RecordsMatch(plan)

LEMMA PlanStays == [Next]_vars => plan' = plan
  BY DEF Next, Call, CallEnds, HostDone, CtaStep, Wait, RunTile, EndTask, vars

LEMMA EventInvAlways == Spec /\ PlanOK(plan) => []EventInv
<1>1. Init /\ PlanOK(plan) => EventInv
  BY InvAtStart
<1>2. QED
  BY <1>1, StepKeeps, PTL DEF Spec

LEMMA PlanGoodAlways == Spec /\ PlanGood => []PlanGood
<1>1. PlanGood /\ [Next]_vars => PlanGood'
  BY PlanStays DEF PlanGood
<1>2. QED
  BY <1>1, PTL DEF Spec

(* A task that runs finds what it needs complete, where events cover it.   *)
NeedsComplete == \A c \in Cta : HasTile(c) => \A t \in plan.needs[Task(c)] : Complete(t)

LEMMA CoveredNeeds == EventInv /\ NeedsCovered(plan) => NeedsComplete
<1> SUFFICES ASSUME EventInv, NeedsCovered(plan), NEW c \in Cta, HasTile(c), NEW t \in plan.needs[Task(c)]
             PROVE  Complete(t)
  BY DEF NeedsComplete
<1>1. at[c] = "run" /\ task[c] < End(c)
  BY DEF HasTile
<1>2. host = "busy"
  <2>1. task[c] # End(c)
    BY <1>1, ListsOfTasks DEF EventInv, Walk, End
  <2>2. QED
    BY <2>1 DEF EventInv, Walk, Ended
<1>3. Task(c) \in DOMAIN plan.tasks
  <2>1. Len(plan.lists[c]) \in Nat
    BY ListsOfTasks DEF EventInv
  <2>2. task[c] \in 1 .. Len(plan.lists[c])
    BY <1>1, <2>1 DEF EventInv, Walk, End
  <2>3. QED
    BY <2>2, ListsOfTasks DEF EventInv, Task
<1>4. PICK e \in Waits(plan, Task(c)) : t \in e
  BY <1>3 DEF NeedsCovered
<1>5. e \in Events(plan) /\ Reached(e)
  BY <1>1 DEF EventInv, Waited, Waits, Events
<1>6. t \in Completed(plan, task, e)
  BY <1>2, <1>4, <1>5, ReachedIsComplete
<1>7. QED
  BY <1>6 DEF Completed, Past, Complete, End, Task

(* For any number of CTAs and calls, and any plan in whose events a task's *)
(* needs are covered: a CTA that has a tile to run finds every task        *)
(* complete, in this call, that its task must not start before, although   *)
(* the words it waited for carry the counts of all earlier calls           *)
(* (wait_for_event, publish_event, execute_event_plan).                    *)
THEOREM EventsOrderTasks == Spec /\ PlanGood => []PrerequisitesComplete
<1>1. EventInv /\ PlanGood => PrerequisitesComplete
  BY CoveredNeeds DEF PrerequisitesComplete, PlanGood, NeedsComplete
<1>2. PlanGood => PlanOK(plan)
  BY DEF PlanGood
<1>3. QED
  BY <1>1, <1>2, EventInvAlways, PlanGoodAlways, PTL

(* Between calls every event word is the epoch times its trigger count: the*)
(* check that the callable turns off (execute_event_plan) would never fail.*)
THEOREM WordsMatchEpoch == Spec /\ PlanOK(plan) => []CountersMatchEpoch
<1>1. EventInv => CountersMatchEpoch
  BY AtRest DEF CountersMatchEpoch
<1>2. QED
  BY <1>1, EventInvAlways, PTL

-----------------------------------------------------------------------------
(* The words fit.                                                          *)

LEMMA LeastNumber ==
  ASSUME NEW S \in SUBSET Nat, S # {}
  PROVE  Min(S) \in S /\ \A m \in S : Min(S) <= m
<1>1. PICK n \in S : \A m \in S : <<m, n>> \notin OpToRel(<, Nat)
  BY NatLessThanWellFounded, WFMin
<1>2. ASSUME NEW m \in S
      PROVE  n <= m
  <2>1. n \in Nat /\ m \in Nat
    OBVIOUS
  <2>2. ~ (m < n)
    BY <1>1, <2>1 DEF OpToRel
  <2>3. QED
    BY <2>1, <2>2
<1>3. QED
  BY <1>2 DEF Min

(* An admitted epoch leaves room for the counts of its call. *)
LEMMA AdmittedFits ==
  ASSUME PlanOK(plan), VerifyEventSchedule(plan), epoch \in Nat, epoch < MaxInvocations,
         NEW e \in Events(plan)
  PROVE  epoch < MaxInt /\ (epoch + 1) * Cardinality(e) <= MaxInt
<1>1. \A f \in Events(plan) : Cardinality(f) \in Nat \ {0}
  <2> SUFFICES ASSUME NEW f \in Events(plan) PROVE Cardinality(f) \in Nat \ {0}
    OBVIOUS
  <2>1. IsFiniteSet(f) /\ Cardinality(f) \in Nat
    BY EventsAreFinite
  <2>2. f # {}
    BY DEF VerifyEventSchedule, Events
  <2>3. QED
    BY <2>1, <2>2, FS_EmptySet
<1>2. \A f \in Events(plan) : MaxInt \div Cardinality(f) \in Nat
  BY <1>1, MaxIntAssumption
<1> DEFINE S == {MaxInt \div Cardinality(f) : f \in Events(plan)} \cup {MaxInt}
<1>3. S \in SUBSET Nat /\ S # {}
  BY <1>2, MaxIntAssumption
<1>4. MaxInvocations \in Nat /\ MaxInvocations <= MaxInt /\ MaxInvocations <= MaxInt \div Cardinality(e)
  <2>1. Min(S) \in S /\ \A m \in S : Min(S) <= m
    BY <1>3, LeastNumber
  <2>2. Min(S) <= MaxInt /\ Min(S) <= MaxInt \div Cardinality(e)
    BY <2>1
  <2>3. Min(S) \in Nat
    BY <1>3, <2>1
  <2>4. QED
    BY <2>2, <2>3 DEF MaxInvocations
<1>5. PICK n \in Nat \ {0} : n = Cardinality(e)
  BY <1>1
<1>6. PICK d \in Nat : d = MaxInt \div n
  BY <1>2, <1>5
<1>7. PICK k \in Nat : k = epoch
  OBVIOUS
<1>8. k + 1 <= d /\ k < MaxInt
  BY <1>4, <1>5, <1>6, <1>7, MaxIntAssumption
<1>9. d * n <= MaxInt
  BY <1>5, <1>6, MaxIntAssumption
<1>10. (k + 1) * n <= d * n
  <2>1. PICK more \in Nat : d = k + 1 + more
    BY <1>8
  <2>2. d * n = (k + 1) * n + more * n
    BY <2>1
  <2>3. more * n \in Nat /\ (k + 1) * n \in Nat
    OBVIOUS
  <2>4. QED
    BY <2>2, <2>3
<1>11. (k + 1) * n \in Nat /\ d * n \in Nat
  OBVIOUS
<1>12. QED
  BY <1>5, <1>7, <1>8, <1>9, <1>10, <1>11, MaxIntAssumption

(* While an admitted call runs, and so at its end. *)
LEMMA WordsFitInCall ==
  EventInv /\ host = "busy" /\ VerifyEventSchedule(plan) /\ epoch < MaxInvocations =>
    \A e \in Events(plan) : events[e] \in 0 .. MaxInt
<1> SUFFICES ASSUME EventInv, host = "busy", VerifyEventSchedule(plan), epoch < MaxInvocations,
                    NEW e \in Events(plan)
             PROVE  events[e] \in 0 .. MaxInt
  OBVIOUS
<1>1. PICK n \in Nat : n = Cardinality(e)
  BY EventsAreFinite DEF EventInv
<1>2. PICK k \in Nat : k = epoch
  BY DEF EventInv, Counted
<1>3. PICK m \in Nat : m = Cardinality(Completed(plan, task, e)) /\ m <= n
  BY <1>1, CompletedIsFinite DEF EventInv
<1>4. events[e] = k * n + m /\ k * n \in Nat
  BY <1>1, <1>2, <1>3, NextMultiple DEF EventInv, Counted
<1>5. (k + 1) * n <= MaxInt
  BY <1>1, <1>2, AdmittedFits DEF EventInv, Counted
<1>6. (k + 1) * n = k * n + n
  BY NextMultiple
<1>7. QED
  BY <1>3, <1>4, <1>5, <1>6, MaxIntAssumption

(* A call in progress was admitted. *)
Admitted == host = "busy" => VerifyEventSchedule(plan) /\ epoch < MaxInvocations

LEMMA AdmittedStays == Admitted /\ [Next]_vars => Admitted'
<1> SUFFICES ASSUME Admitted, [Next]_vars PROVE Admitted'
  OBVIOUS
<1>1. CASE Call
  BY <1>1 DEF Call, Admitted, VerifyEventSchedule, MaxInvocations
<1>2. CASE CallEnds
  BY <1>2 DEF CallEnds, Admitted
<1>3. ASSUME UNCHANGED <<plan, epoch, host>>
      PROVE  Admitted'
  BY <1>3 DEF Admitted, VerifyEventSchedule, MaxInvocations
<1>4. QED
  BY <1>1, <1>2, <1>3 DEF Next, HostDone, CtaStep, Wait, RunTile, EndTask, vars, deviceVars

(* Every variable keeps its type; what has to be shown for it is that no   *)
(* event word passes the largest device word: the callable's epoch starts  *)
(* over before it would, or the call is refused (admit_event_runtime).     *)
THEOREM TypeCorrect == Spec /\ PlanOK(plan) => []TypeOK
<1> DEFINE Inv == EventInv /\ Admitted
<1>1. Init => Admitted
  BY DEF Init, Admitted
<1>2. Spec /\ PlanOK(plan) => []Inv
  BY <1>1, EventInvAlways, AdmittedStays, PTL DEF Spec
<1>3. Init /\ PlanOK(plan) => TypeOK
  <2> SUFFICES ASSUME Init, PlanOK(plan) PROVE TypeOK
    OBVIOUS
  <2>1. EventInv
    BY InvAtStart
  <2>2. /\ epoch = 0 /\ calls = 0 /\ host = "idle" /\ events = [e \in Events(plan) |-> 0]
        /\ tile = [c \in Cta |-> 1] /\ memory = FreshMemory(plan)
    BY DEF Init
  <2>3. MaxInt \in Nat /\ MaxInt > 0 /\ MaxCalls \in Nat
    BY WorkersAssumption, MaxIntAssumption
  <2>4. memory \in [AllCells(plan) -> {Junk, 0} \cup Regions(plan.graph)]
    BY <2>2 DEF FreshMemory
  <2>5. QED
    BY <2>1, <2>2, <2>3, <2>4 DEF EventInv, Walk, TypeOK
<1>4. (Inv => (host = "busy" => \A e \in Events(plan) : events[e] \in 0 .. MaxInt))'
  <2>1. Inv => (host = "busy" => \A e \in Events(plan) : events[e] \in 0 .. MaxInt)
    BY WordsFitInCall DEF Admitted
  <2>2. QED
    BY <2>1, PTL
<1>5. TypeOK /\ Inv /\ Inv' /\ [Next]_vars => TypeOK'
  <2> SUFFICES ASSUME TypeOK, Inv, Inv', [Next]_vars PROVE TypeOK'
    OBVIOUS
  <2>1. plan' = plan
    BY PlanStays
  <2>2. epoch' \in 0 .. MaxInt - 1 /\ calls' \in 0 .. MaxCalls
    <3>1. MaxInt \in Nat /\ MaxInt > 0 /\ MaxCalls \in Nat
      BY WorkersAssumption, MaxIntAssumption
    <3>2. CASE Call
      BY <3>1, <3>2 DEF Call, TypeOK
    <3>3. CASE CallEnds
      <4>1. epoch' = (IF epoch + 1 > MaxInt - 1 THEN 0 ELSE epoch + 1) /\ calls' = calls
        BY <3>3 DEF CallEnds
      <4>2. QED
        BY <3>1, <4>1 DEF TypeOK
    <3>4. CASE UNCHANGED <<epoch, calls>>
      BY <3>4 DEF TypeOK
    <3>5. QED
      BY <3>2, <3>3, <3>4 DEF Next, HostDone, CtaStep, Wait, RunTile, EndTask, vars
  <2>3. /\ host' \in {"idle", "busy", "refused"} /\ at' \in [Cta -> {"wait", "run"}]
        /\ \A c \in Cta : task'[c] \in 1 .. Len(plan.lists[c]) + 1
    BY <2>1 DEF EventInv, Walk, Counted, End
  <2>4. tile' \in [Cta -> Nat]
    <3>1. tile \in [Cta -> Nat]
      BY DEF TypeOK
    <3>2. CASE tile' = tile
      BY <3>1, <3>2
    <3>3. ASSUME NEW c \in Cta, tile' = [tile EXCEPT ![c] = @ + 1] \/ tile' = [tile EXCEPT ![c] = 1]
          PROVE  tile' \in [Cta -> Nat]
      BY <3>1, <3>3
    <3>4. QED
      BY <3>1, <3>2, <3>3 DEF Next, Call, CallEnds, HostDone, CtaStep, Wait, RunTile, EndTask, vars,
                        deviceVars
  <2>5. events' \in [Events(plan) -> 0 .. MaxInt]
    <3>1. ASSUME NEW e \in Events(plan) PROVE events'[e] \in 0 .. MaxInt
      <4>1. CASE host' = "busy"
        BY <1>4, <2>1, <4>1
      <4>2. CASE host' # "busy"
        <5>1. \/ events' = events \/ events' = [f \in Events(plan) |-> 0]
          <6>1. CASE Call
            BY <6>1 DEF Call
          <6>2. CASE CallEnds
            BY <6>2 DEF CallEnds
          <6>3. CASE HostDone \/ UNCHANGED vars
            BY <6>3 DEF HostDone, vars, deviceVars
          <6>4. ASSUME NEW c \in Cta, Wait(c) \/ RunTile(c)
                PROVE  events' = events
            BY <6>4 DEF Wait, RunTile
          <6>5. ASSUME NEW c \in Cta, EndTask(c)
                PROVE  FALSE
            <7>1. host # "busy" /\ task[c] < End(c)
              BY <4>2, <6>5 DEF EndTask
            <7>2. task[c] = End(c) /\ Len(plan.lists[c]) \in Nat
              BY <7>1, ListsOfTasks DEF EventInv, Walk, Ended
            <7>3. QED
              BY <7>1, <7>2 DEF End
          <6>6. QED
            BY <6>1, <6>2, <6>3, <6>4, <6>5 DEF Next, CtaStep
        <5>2. 0 \in 0 .. MaxInt
          BY MaxIntAssumption
        <5>3. QED
          BY <5>1, <5>2 DEF TypeOK
      <4>3. QED
        BY <4>1, <4>2
    <3>2. events' = [e \in Events(plan) |-> events'[e]]
      BY <2>1 DEF EventInv, Counted
    <3>3. QED
      BY <3>1, <3>2
  <2>6. memory' \in [AllCells(plan) -> {Junk, 0} \cup Regions(plan.graph)]
    <3>1. FreshMemory(plan) \in [AllCells(plan) -> {Junk, 0} \cup Regions(plan.graph)]
      BY DEF FreshMemory
    <3>2. memory \in [AllCells(plan) -> {Junk, 0} \cup Regions(plan.graph)]
      BY DEF TypeOK
    <3>3. CASE Call
      BY <3>1, <3>2, <3>3 DEF Call
    <3>4. ASSUME NEW c \in Cta, RunTile(c)
          PROVE  memory' \in [AllCells(plan) -> {Junk, 0} \cup Regions(plan.graph)]
      <4>1. Len(plan.lists[c]) \in Nat
        BY ListsOfTasks DEF EventInv
      <4>2. task[c] \in 1 .. Len(plan.lists[c])
        BY <3>4, <4>1 DEF EventInv, Walk, End, RunTile, HasTile
      <4>3. Task(c) \in DOMAIN plan.tasks
        BY <4>2, ListsOfTasks DEF EventInv, Task
      <4>4. plan.tasks[Task(c)] \in [region : Regions(plan.graph), worker : Cta, tiles : Seq(Nat)]
        BY <4>3, ElementOfSeq, LenProperties DEF EventInv, PlanOK
      <4>5. plan.tasks[Task(c)].region \in Regions(plan.graph)
        BY <4>4
      <4>6. PICK r \in Regions(plan.graph) : r = plan.tasks[Task(c)].region
        BY <4>5
      <4>7. \E cell : memory' = [memory EXCEPT ![cell] = r]
        BY <3>4, <4>6 DEF RunTile
      <4>8. QED
        BY <3>2, <4>7
    <3>5. CASE UNCHANGED memory
      BY <3>2, <3>5
    <3>6. QED
      BY <3>3, <3>4, <3>5 DEF Next, CallEnds, HostDone, CtaStep, Wait, EndTask, vars, deviceVars
  <2>7. QED
    BY <2>1, <2>2, <2>3, <2>4, <2>5, <2>6 DEF TypeOK, End
<1> HIDE DEF Inv
<1>6. QED
  BY <1>2, <1>3, <1>5, PTL DEF Spec

-----------------------------------------------------------------------------
(* The region schedules.                                                   *)

LEMMA PhaseOfTask ==
  ASSUME NEW n \in Nat, NEW t \in 1 .. n * Workers
  PROVE  (t - 1) \div Workers + 1 \in 1 .. n
<1>1. PICK w \in Nat \ {0} : w = Workers
  BY WorkersAssumption
<1>2. n * w \in Nat
  BY <1>1
<1>3. t - 1 \in Nat /\ t - 1 < n * w
  BY <1>1, <1>2
<1>4. PICK q \in Nat : q = (t - 1) \div w
  BY <1>1, <1>3
<1>5. q * w <= t - 1 /\ q * w \in Nat
  BY <1>1, <1>3, <1>4
<1>6. q < n
  <2>1. SUFFICES ASSUME q >= n PROVE FALSE
    BY <1>4
  <2>2. PICK more \in Nat : q = n + more
    BY <1>4, <2>1
  <2>3. q * w = n * w + more * w /\ more * w \in Nat
    BY <1>1, <2>2
  <2>4. QED
    BY <1>2, <1>3, <1>5, <2>3
<1>7. QED
  BY <1>1, <1>4, <1>6

(* Ascending lists a set of numbers once and in order: a member's rank, how*)
(* many are smaller, is its place.                                         *)
LEMMA AscendingIs ==
  ASSUME NEW S \in SUBSET Nat, IsFiniteSet(S)
  PROVE  /\ Cardinality(S) \in Nat
         /\ Ascending(S) \in [1 .. Cardinality(S) -> S]
         /\ \A i, j \in 1 .. Cardinality(S) : i < j => Ascending(S)[i] < Ascending(S)[j]
         /\ \A x \in S : \E i \in 1 .. Cardinality(S) : Ascending(S)[i] = x
<1> DEFINE Below(x) == {y \in S : y < x}
           rank == [x \in S |-> Cardinality(Below(x)) + 1]
<1>1. PICK n \in Nat : n = Cardinality(S)
  BY FS_CardinalityType
<1>2. \A x \in S : IsFiniteSet(Below(x)) /\ Cardinality(Below(x)) \in Nat
  <2> SUFFICES ASSUME NEW x \in S PROVE IsFiniteSet(Below(x)) /\ Cardinality(Below(x)) \in Nat
    OBVIOUS
  <2>1. Below(x) \in SUBSET S
    OBVIOUS
  <2>2. IsFiniteSet(Below(x))
    BY <2>1, FS_Subset
  <2> QED BY <2>2, FS_CardinalityType
<1>3. \A x \in S : Cardinality(Below(x) \cup {x}) = Cardinality(Below(x)) + 1
  <2> SUFFICES ASSUME NEW x \in S PROVE Cardinality(Below(x) \cup {x}) = Cardinality(Below(x)) + 1
    OBVIOUS
  <2>1. x \notin Below(x)
    BY x \in Nat
  <2> HIDE DEF Below
  <2> QED BY <1>2, <2>1, FS_AddElement
<1>4. \A x \in S : Cardinality(Below(x)) + 1 =< n
  <2> SUFFICES ASSUME NEW x \in S PROVE Cardinality(Below(x)) + 1 =< n
    OBVIOUS
  <2>1. Below(x) \cup {x} \in SUBSET S
    OBVIOUS
  <2> HIDE DEF Below
  <2> QED BY <1>1, <1>2, <1>3, <2>1, FS_Subset
<1>5. \A x, y \in S : x < y => Cardinality(Below(x)) < Cardinality(Below(y))
  <2> SUFFICES ASSUME NEW x \in S, NEW y \in S, x < y
               PROVE  Cardinality(Below(x)) < Cardinality(Below(y))
    OBVIOUS
  <2>1. Below(x) \cup {x} \in SUBSET Below(y)
    <3>1. x \in Nat /\ y \in Nat /\ \A z \in S : z \in Nat
      OBVIOUS
    <3>2. \A z \in S : z < x => z < y
      BY <3>1
    <3> QED BY <3>2
  <2> HIDE DEF Below
  <2>2. Cardinality(Below(x) \cup {x}) =< Cardinality(Below(y))
    BY <1>2, <2>1, FS_Subset
  <2> QED BY <1>2, <1>3, <2>2
<1> HIDE DEF Below
<1>6. rank \in Injection(S, 1 .. n)
  <2>1. \A x \in S : rank[x] \in 1 .. n
    BY <1>2, <1>4
  <2>2. \A x, y \in S : x # y => rank[x] # rank[y]
    <3> SUFFICES ASSUME NEW x \in S, NEW y \in S, x # y PROVE rank[x] # rank[y]
      OBVIOUS
    <3>1. x < y \/ y < x
      BY x \in Nat, y \in Nat
    <3> QED BY <1>2, <1>5, <3>1
  <2>3. rank \in [S -> 1 .. n]
    BY <2>1
  <2> HIDE DEF rank
  <2> QED BY <2>2, <2>3 DEF Injection, IsInjective
<1>7. rank \in Surjection(S, 1 .. n)
  <2>1. IsFiniteSet(1 .. n) /\ Cardinality(1 .. n) = n
    BY FS_Interval
  <2> HIDE DEF rank
  <2> QED BY <1>1, <1>6, <2>1, FS_Injection
<1>8. \A i \in 1 .. n : \E x \in S : Cardinality(Below(x)) = i - 1
  <2> SUFFICES ASSUME NEW i \in 1 .. n PROVE \E x \in S : Cardinality(Below(x)) = i - 1
    OBVIOUS
  <2>1. PICK x \in S : rank[x] = i
    <3> HIDE DEF rank
    <3> QED BY <1>7 DEF Surjection
  <2>2. Cardinality(Below(x)) + 1 = i
    BY <2>1
  <2> QED BY <1>2, <2>2
<1>9. \A i \in 1 .. n : Ascending(S)[i] \in S /\ Cardinality(Below(Ascending(S)[i])) = i - 1
  <2> SUFFICES ASSUME NEW i \in 1 .. n
               PROVE  Ascending(S)[i] \in S /\ Cardinality(Below(Ascending(S)[i])) = i - 1
    OBVIOUS
  <2>1. Ascending(S)[i] = CHOOSE x \in S : Cardinality(Below(x)) = i - 1
    BY <1>1 DEF Ascending, Below
  <2> QED BY <1>8, <2>1
<1>10. Ascending(S) = [i \in 1 .. n |-> Ascending(S)[i]]
  BY <1>1 DEF Ascending
<1>11. \A i, j \in 1 .. n : i < j => Ascending(S)[i] < Ascending(S)[j]
  <2> SUFFICES ASSUME NEW i \in 1 .. n, NEW j \in 1 .. n, i < j
               PROVE  Ascending(S)[i] < Ascending(S)[j]
    OBVIOUS
  <2>1. PICK x \in S : x = Ascending(S)[i] /\ Cardinality(Below(x)) = i - 1
    BY <1>9
  <2>2. PICK y \in S : y = Ascending(S)[j] /\ Cardinality(Below(y)) = j - 1
    BY <1>9
  <2>3. x # y
    BY <2>1, <2>2
  <2>4. ~ (y < x)
    BY <1>5, <2>1, <2>2
  <2>5. x \in Nat /\ y \in Nat
    OBVIOUS
  <2> QED BY <2>1, <2>2, <2>3, <2>4, <2>5
<1>12. \A x \in S : \E i \in 1 .. n : Ascending(S)[i] = x
  <2> SUFFICES ASSUME NEW x \in S PROVE \E i \in 1 .. n : Ascending(S)[i] = x
    OBVIOUS
  <2>1. PICK i \in 1 .. n : i = Cardinality(Below(x)) + 1
    BY <1>2, <1>4
  <2>2. PICK y \in S : y = Ascending(S)[i] /\ Cardinality(Below(y)) = i - 1
    BY <1>9
  <2>3. ~ (x < y) /\ ~ (y < x)
    BY <1>2, <1>5, <2>1, <2>2
  <2>4. x \in Nat /\ y \in Nat
    OBVIOUS
  <2> QED BY <2>2, <2>3, <2>4
<1> QED
  BY <1>1, <1>9, <1>10, <1>11, <1>12

(* The schedule the compiler makes waits for enough, whatever the graph:   *)
(* each task that must be complete before one of a region's is a producer  *)
(* of an event that task waits for (make_region_event_schedule).  So       *)
(* NeedsCovered, which the theorem above asks of a plan, holds of these.   *)
THEOREM RegionEventsCoverNeeds ==
  ASSUME NEW s, LoadsRead(s.graph), s.order \in Seq(Regions(s.graph))
  PROVE  LET schedule == MakeRegionEventSchedule(s, Workers)
         IN  \A t \in DOMAIN schedule.tasks :
               Needs(s.graph, schedule.tasks)[t] \subseteq UNION Waits(schedule, t)
<1> DEFINE g == s.graph
           tasks == RegionTasks(s, Workers)
           schedule == MakeRegionEventSchedule(s, Workers)
<1>1. schedule.tasks = tasks
  BY DEF MakeRegionEventSchedule
<1>2. schedule.prerequisites =
        UNION {{<<t, TasksOf(tasks, p)>> : p \in Prerequisites(g, tasks[t].region)} : t \in DOMAIN tasks}
  BY DEF MakeRegionEventSchedule
<1>3. ASSUME NEW t \in DOMAIN tasks PROVE tasks[t].region \in Regions(g)
  <2>1. Len(s.order) \in Nat
    BY LenProperties
  <2>2. t \in 1 .. Len(s.order) * Workers
    BY DEF RegionTasks
  <2>3. (t - 1) \div Workers + 1 \in 1 .. Len(s.order)
    BY <2>1, <2>2, PhaseOfTask
  <2>4. tasks[t].region = s.order[(t - 1) \div Workers + 1]
    BY <2>2 DEF RegionTasks
  <2>5. QED
    BY <2>3, <2>4, ElementOfSeq
<1> HIDE DEF tasks, schedule
<1>4. ASSUME NEW t \in DOMAIN tasks, NEW u \in Needs(g, tasks)[t]
      PROVE  u \in UNION Waits(schedule, t)
  <2>1. /\ u \in DOMAIN tasks
        /\ \/ Touches(g, tasks[t], tasks[u])
           \/ <<tasks[u].region, tasks[t].region>> \in StorageOrder(g)
    BY DEF Needs
  <2>2. PICK p \in Regions(g) : p = tasks[u].region
    BY <1>3, <2>1
  <2>3. PICK r \in Regions(g) : r = tasks[t].region
    BY <1>3
  <2>4. p \in g.reads[r] \/ <<p, r>> \in StorageOrder(g)
    <3>1. CASE Touches(g, tasks[t], tasks[u])
      BY <2>2, <2>3, <3>1 DEF Touches, LoadsRead
    <3>2. QED
      BY <2>1, <2>2, <2>3, <3>1
  <2>5. <<p, r>> \in Dependencies(g)
    BY <2>4 DEF Dependencies, StorageOrder
  <2>6. p \in Prerequisites(g, r)
    BY <2>5 DEF Prerequisites
  <2>7. PICK e : e = TasksOf(tasks, p)
    OBVIOUS
  <2>8. <<t, e>> \in schedule.prerequisites
    BY <1>2, <2>3, <2>6, <2>7
  <2>9. e \in Waits(schedule, t)
    BY <2>8 DEF Waits
  <2>10. u \in e
    BY <2>1, <2>2, <2>7 DEF TasksOf
  <2>11. QED
    BY <2>9, <2>10
<1>5. QED
  BY <1>1, <1>4 DEF tasks, schedule

(* What the CTAs rely on of a plan holds of the region plans: each CTA's   *)
(* list has its tasks in order, and events cover what tasks need.          *)
LEMMA RegionPlansOK ==
  ASSUME NEW s, GraphOK(s.graph), LoadsRead(s.graph), s.order \in Seq(Regions(s.graph))
  PROVE  PlanOK(RegionPlan(s)) /\ NeedsCovered(RegionPlan(s))
<1>1. PICK g : g = s.graph
  OBVIOUS
<1>2. PICK n \in Nat : n = Len(s.order) /\ \A i \in 1 .. n : s.order[i] \in Regions(g)
  BY <1>1, LenProperties, ElementOfSeq
<1>3. PICK W \in Nat \ {0} : W = Workers /\ Cta = 0 .. W - 1
  BY WorkersAssumption DEF Cta
<1>4. PICK size \in Nat : size = n * W
  BY <1>2, <1>3
<1>5. PICK schedule : schedule = MakeRegionEventSchedule(s, Workers)
  OBVIOUS
<1>6. PICK tasks : tasks = RegionTasks(s, Workers)
  OBVIOUS
<1>7. PICK p : p = RegionPlan(s)
  OBVIOUS
<1>8. /\ p.graph = g /\ p.tasks = tasks /\ p.prerequisites = schedule.prerequisites
      /\ p.needs = Needs(g, tasks) /\ p.lists = [c \in Cta |-> WorkerTasks(tasks, c)]
      /\ schedule.tasks = tasks
  BY <1>1, <1>5, <1>6, <1>7 DEF RegionPlan, Plan, MakeRegionEventSchedule
<1>9. DOMAIN tasks = 1 .. size
  BY <1>2, <1>3, <1>4, <1>6 DEF RegionTasks
<1>10. ASSUME NEW t \in 1 .. size
       PROVE  tasks[t] \in [region : Regions(g), worker : Cta, tiles : Seq(Nat)]
  <2>1. PICK i \in 1 .. n : i = (t - 1) \div W + 1
    BY <1>3, <1>4, PhaseOfTask
  <2>2. PICK c \in Cta : c = (t - 1) % W
    <3>1. t - 1 \in Nat
      BY <1>4
    <3> QED BY <1>3, <3>1
  <2>3. PICK r \in Regions(g) : r = s.order[i]
    BY <1>2
  <2>4. PICK size2 \in Nat : size2 = g.tiles[r]
    <3>1. PICK m \in Nat : m = g.n /\ g.tiles \in [0 .. m -> Nat \ {0}]
      BY <1>1 DEF GraphOK
    <3>2. r \in 0 .. m
      BY <3>1 DEF Regions
    <3> QED BY <3>1, <3>2
  <2>5. PICK tiles : tiles = Ascending({k \in 0 .. size2 - 1 : k % W = c})
    OBVIOUS
  <2>6. tiles \in Seq(Nat)
    <3>1. PICK S : S = {k \in 0 .. size2 - 1 : k % W = c}
      OBVIOUS
    <3>2. S \in SUBSET Nat /\ IsFiniteSet(S)
      <4>1. IsFiniteSet(0 .. size2 - 1) /\ S \subseteq 0 .. size2 - 1
        BY <3>1, FS_Interval
      <4>2. S \subseteq Nat
        BY <3>1
      <4> QED BY <4>1, <4>2, FS_Subset
    <3>3. PICK m \in Nat : m = Cardinality(S) /\ Ascending(S) \in [1 .. m -> S]
      BY <3>2, AscendingIs
    <3>4. tiles \in [1 .. m -> Nat]
      BY <2>5, <3>1, <3>2, <3>3
    <3> QED BY <3>4
  <2>7. tasks[t] = [region |-> r, worker |-> c, tiles |-> tiles]
    BY <1>1, <1>2, <1>3, <1>4, <1>6, <2>1, <2>2, <2>3, <2>4, <2>5 DEF RegionTasks
  <2> QED BY <2>6, <2>7
<1>11. tasks \in Seq([region : Regions(g), worker : Cta, tiles : Seq(Nat)])
  <2>1. tasks = [t \in 1 .. size |-> tasks[t]]
    BY <1>2, <1>3, <1>4, <1>6 DEF RegionTasks
  <2>2. PICK T : T = [region : Regions(g), worker : Cta, tiles : Seq(Nat)]
    OBVIOUS
  <2>3. tasks \in [1 .. size -> T]
    BY <1>10, <2>1, <2>2
  <2>4. tasks \in Seq(T)
    BY <2>3
  <2> QED BY <2>2, <2>4, Zenon
<1>12. ASSUME NEW q \in p.prerequisites
       PROVE  q[2] \subseteq DOMAIN tasks
  <2>1. p.prerequisites =
          UNION {{<<t, TasksOf(tasks, v)>> : v \in Prerequisites(g, tasks[t].region)} : t \in DOMAIN tasks}
    BY <1>1, <1>5, <1>6, <1>8 DEF MakeRegionEventSchedule
  <2>2. \E v : q[2] = TasksOf(tasks, v)
    BY <1>12, <2>1
  <2> QED BY <2>2 DEF TasksOf
<1>13. ASSUME NEW c \in Cta
       PROVE  Lists(p, c)
  <2>1. PICK S : S = {t \in DOMAIN tasks : tasks[t].worker = c}
    OBVIOUS
  <2>2. S \in SUBSET Nat /\ IsFiniteSet(S) /\ S \subseteq DOMAIN tasks
    <3>1. IsFiniteSet(1 .. size) /\ S \subseteq 1 .. size
      BY <1>9, <2>1, FS_Interval
    <3>2. IsFiniteSet(S)
      BY <3>1, FS_Subset
    <3> QED BY <1>9, <3>1, <3>2
  <2>3. PICK m \in Nat : m = Cardinality(S)
    BY <2>2, AscendingIs
  <2>4. PICK list : list = Ascending(S)
    OBVIOUS
  <2>5. /\ list \in [1 .. m -> S]
        /\ \A i, j \in 1 .. m : i < j => list[i] < list[j]
        /\ \A t \in S : \E i \in 1 .. m : list[i] = t
    BY <2>2, <2>3, <2>4, AscendingIs
  <2>6. p.lists[c] = list /\ DOMAIN list = 1 .. m
    BY <1>8, <2>1, <2>4, <2>5 DEF WorkerTasks
  <2>7. list \in Seq(DOMAIN tasks)
    <3>1. list \in [1 .. m -> DOMAIN tasks]
      BY <2>2, <2>5
    <3> QED BY <3>1
  <2>8. \A i \in 1 .. m : tasks[list[i]].worker = c
    BY <2>1, <2>5
  <2>9. \A t \in DOMAIN tasks : tasks[t].worker = c => \E i \in 1 .. m : list[i] = t
    BY <2>1, <2>5
  <2>10. /\ p.lists[c] = list /\ p.tasks = tasks
    BY <1>8, <2>6
  <2>11. /\ list \in Seq(DOMAIN tasks)
         /\ \A i, j \in DOMAIN list : i < j => list[i] < list[j]
         /\ \A t \in DOMAIN tasks : tasks[t].worker = c => \E i \in DOMAIN list : list[i] = t
         /\ \A i \in DOMAIN list : tasks[list[i]].worker = c
    BY <2>5, <2>6, <2>7, <2>8, <2>9
  <2> QED BY <2>10, <2>11, Zenon DEF Lists
<1>14. PlanOK(p)
  BY <1>8, <1>11, <1>12, <1>13 DEF PlanOK
<1>15. NeedsCovered(p)
  <2>1. \A t \in DOMAIN tasks : Needs(g, tasks)[t] \subseteq UNION Waits(schedule, t)
    BY <1>1, <1>5, <1>8, RegionEventsCoverNeeds
  <2>2. \A t : Waits(p, t) = Waits(schedule, t)
    BY <1>8 DEF Waits
  <2> QED BY <1>8, <2>1, <2>2 DEF NeedsCovered
<1> QED BY <1>7, <1>14, <1>15

RegionPlans == {RegionPlan(MakePhaseSchedule(g)) : g \in Graphs}

-----------------------------------------------------------------------------
(* The phases of a schedule are regions of its graph.  MegaKernelProofs    *)
(* shows that of PhaseSchedule's definitions, which are these ones again;  *)
(* the facts taken from there speak of no variable.                        *)
Schedules == INSTANCE MegaKernelProofs WITH phase <- task

LEMMA SameOrders ==
  ASSUME NEW g
  PROVE  Schedules!Level(g) = Level(g) /\ Schedules!TopologicalOrder(g) = TopologicalOrder(g)
<1> USE DEF Schedules!Regions, Regions, Schedules!Prerequisites, Prerequisites,
            Schedules!Dependencies, Dependencies, Schedules!StorageWritten, StorageWritten,
            Schedules!StorageRead, StorageRead, Schedules!StorageOf, StorageOf,
            Schedules!Operands, Operands, Schedules!Storage, Storage
<1>1. Schedules!Level(g) = Level(g)
  BY Zenon DEF Schedules!Level, Level, Schedules!Max, Max
<1>2. Schedules!TopologicalOrder(g) = TopologicalOrder(g)
  BY Zenon DEF Schedules!TopologicalOrder, TopologicalOrder, Schedules!TopologicalOrders, TopologicalOrders,
               Schedules!Ready, Ready, Schedules!Min, Min, Schedules!ToSet, ToSet
<1> QED BY <1>1, <1>2

LEMMA SameFolds ==
  ASSUME NEW g, NEW intervals
  PROVE  Schedules!Folds(g, intervals) = Folds(g, intervals)
BY Zenon DEF Schedules!Folds, Folds, Schedules!FoldInterval, FoldInterval,
             Schedules!FoldSmall, FoldSmall, Schedules!FoldInto, FoldInto, Schedules!Flush, Flush,
             Schedules!Conflict, Conflict, Schedules!StorageUsed, StorageUsed,
             Schedules!StorageOf, StorageOf, Schedules!Operands, Operands, Schedules!Storage, Storage,
             Schedules!Fits, Fits, Schedules!Cost, Cost, Schedules!Small, Small,
             Schedules!FlattenSeq, FlattenSeq, Schedules!ToSet, ToSet,
             Schedules!FoldLeft, FoldLeft, Schedules!MapThenFoldSet, MapThenFoldSet, Schedules!Max, Max

LEMMA PhasesAreRegions ==
  ASSUME NEW g, GraphOK(g)
  PROVE  MakePhaseSchedule(g).order \in Seq(Regions(g))
<1>1. \A level, order : Schedules!ByLevel(level, order) = ByLevel(level, order)
  BY Zenon DEF Schedules!ByLevel, ByLevel, Schedules!Ascending, Ascending,
               Schedules!Cardinality, Cardinality, Schedules!Max, Max, Schedules!Range, Range
<1>2. Schedules!Levels(g) = Levels(g)
  BY <1>1, SameOrders, Zenon DEF Schedules!Levels, Levels
<1>3. Schedules!Folded(g) = Folded(g)
  BY <1>2, SameFolds, Zenon DEF Schedules!Folded, Folded, Schedules!Flush, Flush
<1>4. Schedules!MakePhaseSchedule(g).order = MakePhaseSchedule(g).order
  <2>1. \A intervals : Schedules!FlattenSeq(intervals) = FlattenSeq(intervals)
    BY Zenon DEF Schedules!FlattenSeq, FlattenSeq
  <2>2. MakePhaseSchedule(g).order = FlattenSeq(Folded(g).result)
    BY DEF MakePhaseSchedule
  <2>3. Schedules!MakePhaseSchedule(g).order = Schedules!FlattenSeq(Schedules!Folded(g).result)
    BY DEF Schedules!MakePhaseSchedule
  <2> QED BY <1>3, <2>1, <2>2, <2>3
<1>5. \A h : Schedules!GraphOK(h) <=> GraphOK(h)
  BY Zenon DEF GraphOK, Schedules!GraphOK, StateThreaded, Schedules!StateThreaded, Regions, Schedules!Regions
<1>6. /\ Schedules!MakePhaseSchedule(g).graph = g
      /\ Schedules!Scheduled(Schedules!MakePhaseSchedule(g))
  <2>1. Schedules!GraphOK(g) /\ \A h \in Graphs : Schedules!GraphOK(h)
    BY <1>5, GraphsAssumption
  <2> QED BY <2>1, FoldAssumption, WorkersAssumption, Schedules!MakesSchedules, Zenon
<1>7. Schedules!MakePhaseSchedule(g).order \in Seq(Schedules!Regions(g))
  BY <1>6 DEF Schedules!Scheduled, Schedules!Barred
<1> QED BY <1>4, <1>7 DEF Regions, Schedules!Regions

LEMMA CompiledRegionPlans ==
  ASSUME NEW p \in RegionPlans
  PROVE  PlanOK(p) /\ NeedsCovered(p)
<1>1. PICK g \in Graphs : p = RegionPlan(MakePhaseSchedule(g))
  BY DEF RegionPlans
<1>2. PICK s : s = MakePhaseSchedule(g)
  OBVIOUS
<1>3. s.graph = g
  BY <1>2 DEF MakePhaseSchedule
<1>4. GraphOK(g) /\ LoadsRead(g) /\ s.order \in Seq(Regions(g))
  BY <1>2, GraphsAssumption, PhasesAreRegions
<1> QED BY <1>1, <1>2, <1>3, <1>4, RegionPlansOK

(* The kernels the compiler makes of region schedules: for every graph,    *)
(* every number of CTAs and every number of calls, a CTA that has a tile   *)
(* to run finds every task complete, in this call, that its task must not  *)
(* start before, every word at rest is the epoch times its trigger count,  *)
(* and no word passes the largest device word.                             *)
THEOREM RegionKernelsAreOrdered ==
  Spec /\ plan \in RegionPlans => [](NeedsComplete /\ CountersMatchEpoch /\ TypeOK)
<1> DEFINE Good == PlanOK(plan) /\ NeedsCovered(plan)
<1>1. plan \in RegionPlans => Good
  BY CompiledRegionPlans
<1>2. Good /\ [Next]_vars => Good'
  BY PlanStays
<1>3. EventInv /\ Good => NeedsComplete
  BY CoveredNeeds
<1>4. Good => PlanOK(plan)
  OBVIOUS
<1> HIDE DEF Good
<1> QED BY <1>1, <1>2, <1>3, <1>4, EventInvAlways, WordsMatchEpoch, TypeCorrect, PTL DEF Spec

=============================================================================
