----------------------------- MODULE EventKernel -----------------------------
(***************************************************************************)
(* The calls of a region-events kernel: cooperative_event_worker_loop on   *)
(* the device, execute_event_plan and the callable's epochs on the host.   *)
(*                                                                         *)
(* There are no barriers.  Every CTA walks its tasks in the common order:  *)
(* under a region schedule one for each phase, under a tile schedule one   *)
(* for each tile dealt to it.  In front of a task it waits for the task's  *)
(* events, and behind it adds one to each event the task is a producer of, *)
(* whether or not the task had tiles.  The words are never cleared between *)
(* calls: call e waits for (e + 1) times an event's trigger count.  A      *)
(* launch starts when the one before it on the stream has ended.           *)
(***************************************************************************)
EXTENDS EventSchedule

CONSTANTS
  Workers,   \* CTAs of the cooperative launch
  Graphs,    \* the graphs to compile and run
  MaxInt,    \* largest value of a device word (2^31 - 1 in the code)
  MaxCalls   \* bound on the calls of one behaviour

ASSUME WorkersAssumption == Workers \in Nat \ {0}
(* A region reads the values its loads name.                               *)
LoadsRead(g) ==
  \A r \in Regions(g) : \A l \in DOMAIN g.regions[r].loads : g.regions[r].loads[l].value \in g.reads[r]

ASSUME GraphsAssumption == \A g \in Graphs : GraphOK(g) /\ LoadsRead(g)
ASSUME MaxIntAssumption  == MaxInt \in Nat /\ Workers <= MaxInt /\ MaxCalls \in Nat

Cta == 0 .. Workers - 1

VARIABLES
  plan,    \* schedule, events and storage of the compiled graph
  epoch,   \* next_epoch of the callable, then the epoch of the running call
  host,    \* "idle", "busy" with a call, or "refused"
  calls,   \* bound: calls made so far
  events,  \* event word of each event
  task,    \* place of each CTA in its tasks; one past the last when finished
  tile,    \* next of that task's tiles
  at,      \* "wait" in front of a task or "run" in it
  memory   \* value each cell holds

deviceVars == <<events, task, tile, at, memory>>
vars == <<plan, epoch, host, calls, deviceVars>>

(* A plan of either kind; needs and lists are derived from it once.        *)
Plan(s, schedule) ==
  [graph         |-> s.graph,
   order         |-> s.order,
   barriers      |-> s.barriers,
   recompute     |-> s.recompute,
   offset        |-> AllocateWorkspace(s),
   tasks         |-> schedule.tasks,
   prerequisites |-> schedule.prerequisites,
   needs         |-> Needs(s.graph, schedule.tasks),
   lists         |-> [c \in Cta |-> WorkerTasks(schedule.tasks, c)]]

RegionPlan(s) == Plan(s, MakeRegionEventSchedule(s, Workers))
TilePlan(s)   == Plan(s, MakeEventSchedule(s, Workers))

Plans == {RegionPlan(MakePhaseSchedule(g)) : g \in Graphs} \cup {TilePlan(MakePhaseSchedule(g)) : g \in Graphs}

End(c)  == Len(plan.lists[c]) + 1
Ended   == \A c \in Cta : task[c] = End(c)
Task(c) == plan.lists[c][task[c]]       \* the task a CTA is at
Tiles(c) == plan.tasks[Task(c)].tiles

(* admit_event_runtime                                                     *)
MaxInvocations == Min({MaxInt \div Cardinality(e) : e \in Events(plan)} \cup {MaxInt})

Init ==
  /\ plan \in Plans
  /\ epoch = 0
  /\ host = "idle"
  /\ calls = 0
  /\ events = [e \in Events(plan) |-> 0]
  /\ task = [c \in Cta |-> End(c)]
  /\ tile = [c \in Cta |-> 1]
  /\ at   = [c \in Cta |-> "wait"]
  /\ memory = FreshMemory(plan)

-----------------------------------------------------------------------------
(* The host. *)

(* The callable passes next_epoch on and execute_event_plan launches; the  *)
(* bytes of earlier calls mean nothing to this one.                        *)
Call ==
  /\ host = "idle" /\ calls < MaxCalls
  /\ calls' = calls + 1
  /\ IF VerifyEventSchedule(plan) /\ epoch < MaxInvocations
       THEN /\ host' = "busy"
            /\ task' = [c \in Cta |-> 1]
            /\ memory' = FreshMemory(plan)
       ELSE /\ host' = "refused"   \* "event epoch would overflow int32 counters"
            /\ UNCHANGED <<task, memory>>
  /\ UNCHANGED <<plan, epoch, events, tile, at>>

(* The callable steps next_epoch by one, and zeroes the words in stream    *)
(* order behind the call whose epoch is the last that fits an int32.       *)
CallEnds ==
  /\ host = "busy" /\ Ended
  /\ host' = "idle"
  /\ LET wraps == epoch + 1 > MaxInt - 1
     IN  /\ epoch'  = IF wraps THEN 0 ELSE epoch + 1
         /\ events' = IF wraps THEN [e \in Events(plan) |-> 0] ELSE events
  /\ UNCHANGED <<plan, calls, task, tile, at, memory>>

(* The host may make no further call; a refused one is refused for good,   *)
(* since every later call passes the same epoch.                           *)
HostDone ==
  /\ host # "busy"
  /\ host = "idle" => calls = MaxCalls
  /\ UNCHANGED vars

-----------------------------------------------------------------------------
(* The device. *)

(* Fault: a word that any call has filled will do.                         *)
ReachedAnyCall(e) == events[e] >= Cardinality(e)

Reached(e) == events[e] >= (epoch + 1) * Cardinality(e)

(* wait_for_event for each of the task's events.                           *)
Wait(c) ==
  /\ task[c] < End(c) /\ at[c] = "wait"
  /\ \A e \in Waits(plan, Task(c)) : Reached(e)
  /\ at' = [at EXCEPT ![c] = "run"]
  /\ UNCHANGED <<plan, epoch, host, calls, events, task, tile, memory>>

HasTile(c) == task[c] < End(c) /\ at[c] = "run" /\ tile[c] <= Len(Tiles(c))

RunTile(c) ==
  /\ HasTile(c)
  /\ LET r == plan.tasks[Task(c)].region
     IN  memory' = [memory EXCEPT ![Cell(plan, r, Tiles(c)[tile[c]])] = r]
  /\ tile' = [tile EXCEPT ![c] = @ + 1]
  /\ UNCHANGED <<plan, epoch, host, calls, events, task, at>>

(* Fault: a CTA without tiles publishes nothing.                           *)
PublishOfProducers(c) ==
  events' = [e \in DOMAIN events |->
               IF Task(c) \in e /\ Tiles(c) # <<>> THEN events[e] + 1 ELSE events[e]]

(* publish_event for every event the task is a producer of.                *)
Publish(c) ==
  events' = [e \in DOMAIN events |-> IF Task(c) \in e THEN events[e] + 1 ELSE events[e]]

EndTask(c) ==
  /\ task[c] < End(c) /\ at[c] = "run" /\ ~ HasTile(c)
  /\ Publish(c)
  /\ task' = [task EXCEPT ![c] = @ + 1]
  /\ at'   = [at EXCEPT ![c] = "wait"]
  /\ tile' = [tile EXCEPT ![c] = 1]
  /\ UNCHANGED <<plan, epoch, host, calls, memory>>

CtaStep(c) == Wait(c) \/ RunTile(c) \/ EndTask(c)

-----------------------------------------------------------------------------

Next ==
  \/ Call \/ CallEnds \/ HostDone
  \/ \E c \in Cta : CtaStep(c)

Spec == Init /\ [][Next]_vars

(* CTAs of a cooperative launch are all resident and run until they end.   *)
FairSpec == Spec /\ WF_vars(CallEnds) /\ \A c \in Cta : WF_vars(CtaStep(c))

-----------------------------------------------------------------------------

TypeOK ==
  /\ epoch \in 0 .. MaxInt - 1 /\ calls \in 0 .. MaxCalls
  /\ host \in {"idle", "busy", "refused"}
  /\ events \in [Events(plan) -> 0 .. MaxInt]
  /\ tile \in [Cta -> Nat] /\ \A c \in Cta : task[c] \in 1 .. End(c)
  /\ at \in [Cta -> {"wait", "run"}]
  /\ memory \in [AllCells(plan) -> {Junk, 0} \cup Regions(plan.graph)]

(* A task whose tiles and publication are behind its CTA in this call.     *)
Complete(t) ==
  LET c == plan.tasks[t].worker
  IN  task[c] = End(c) \/ Task(c) > t

(* What the CTAs rely on of a plan: each finds its tasks in its list, in    *)
(* the common order, and what a task must not start before is among the    *)
(* producers of the events it waits for.                                   *)
Lists(p, c) ==
  /\ p.lists[c] \in Seq(DOMAIN p.tasks)
  /\ \A i, j \in DOMAIN p.lists[c] : i < j => p.lists[c][i] < p.lists[c][j]
  /\ \A t \in DOMAIN p.tasks : p.tasks[t].worker = c => \E i \in DOMAIN p.lists[c] : p.lists[c][i] = t
  /\ \A i \in DOMAIN p.lists[c] : p.tasks[p.lists[c][i]].worker = c

PlanOK(p) ==
  /\ p.tasks \in Seq([region : Regions(p.graph), worker : Cta, tiles : Seq(Nat)])
  /\ \A q \in p.prerequisites : q[2] \subseteq DOMAIN p.tasks
  /\ \A c \in Cta : Lists(p, c)

NeedsCovered(p) == \A t \in DOMAIN p.tasks : p.needs[t] \subseteq UNION Waits(p, t)

(* The dependency records of a plan whose tasks are tiles name the tiles   *)
(* the tasks wait for.                                                     *)
RecordsMatch(p) ==
  (\A t \in DOMAIN p.tasks : Len(p.tasks[t].tiles) = 1) => RecordsMatchPrerequisites(p, p)

(* While a CTA runs a task, every task is complete, in this very call, that*)
(* writes an element the task reads or that must have used the storage the *)
(* task overwrites: the boxes the planner compares miss no element, and an *)
(* event word that carries the counts of all earlier calls releases nobody *)
(* early.  To begin with, the plan is one of which the CTAs can rely on it.*)
PrerequisitesComplete ==
  /\ \A c \in Cta : HasTile(c) => \A t \in plan.needs[Task(c)] : Complete(t)
  /\ calls = 0 => PlanOK(plan) /\ NeedsCovered(plan) /\ RecordsMatch(plan)

(* execute_event_plan's check of the counters, which the callable turns    *)
(* off (validate_counters=False): between calls every event word is the    *)
(* epoch times its trigger count.                                          *)
CountersMatchEpoch ==
  host = "idle" => \A e \in Events(plan) : events[e] = epoch * Cardinality(e)

(* The first call is not refused, and every launch ends: no CTA waits for  *)
(* an event that some CTA does not publish, or publishes only behind a     *)
(* wait for the first.                                                     *)
CallsEnd ==
  /\ [](calls = 1 => host # "refused")
  /\ host = "busy" ~> host = "idle"

(* The bytes a CTA's tile reads are its producers'.  Architecture.md 109:  *)
(* "Distinct slices first; reuse only after all consumers, including       *)
(* async readers, finish. Phase lifetimes prove reuse cheaply; events need *)
(* reachability or explicit release."                                      *)
ReadsProducers ==
  \A c \in Cta : HasTile(c) =>
    \A v \in plan.graph.reads[plan.tasks[Task(c)].region] : Holds(plan, memory, v)

(* execute_event_plan's assertion on its epoch argument holds at every     *)
(* call the callable makes.                                                *)
EpochAdmitted == host # "refused"

=============================================================================
