------------------------------ MODULE Compilation ------------------------------
(***************************************************************************)
(* What happens under the plan cache's lock (compile_post_grad, compile_   *)
(* plan and the plan evaluator of compiler.py): the search measures plans  *)
(* on private copies of the caller's state, one by one.  A plan is emitted *)
(* and compiled; when the device cannot keep its grid resident, it is      *)
(* emitted again for the workers that fit; then it is called, compared     *)
(* with the reference, and timed.                                          *)
(*                                                                         *)
(* A call advances the length of the state it is given by one.  What a     *)
(* compiler, a comparison or a clock answers is chosen by the environment. *)
(***************************************************************************)
EXTENDS PlanCache, PlanSearch

CONSTANTS
  Graph,           \* of a key: lowered?, table launch?, its selections
  Budget,          \* max_plans and max_compilations
  Schedulers,      \* "phase", "region-events", or both ("auto")
  Fallback,        \* "error" or "inductor"
  HasDeadline,     \* whether the budget has a deadline
  AdmissionTries,  \* 4: how often compile_plan emits a plan
  Samples,         \* timing_samples
  MaxActive,       \* bound on the CTAs per multiprocessor a compiler allows
  Ranks,           \* of a grid: times its launch may take
  Capacity         \* slots of the caller's state

PreflightBudget == [plans |-> 1, compilations |-> 8]

VARIABLES
  length,     \* valid length of each client's state
  captured,   \* its value when the search in progress began
  private,    \* and of the copy the search works on
  step,       \* where the search in progress is
  searches,   \* candidates of the schedulers searched so far, the last one's in progress
  built,      \* kernel of each measured candidate, in the same places
  at,         \* candidate in progress
  compiled,   \* candidates handed to the evaluator
  late,       \* whether the deadline is over
  exhausted, \* whether a search left something out
  trial,      \* plan being compiled or measured
  called,     \* whether the request in progress has run a candidate kernel
  result      \* what the backend gave each client

searchVars  == <<captured, private, step, searches, built, at, compiled, late, exhausted,
                 trial, called>>
compileVars == <<cacheVars, length, searchVars, result>>

NoTrial == [workers |-> 0]

CompileInit ==
  /\ CacheInit
  /\ length = [c \in Clients |-> 0]
  /\ captured = 0 /\ private = 0
  /\ step = "idle"
  /\ searches = <<>> /\ built = <<>>
  /\ at = 0 /\ compiled = 0 /\ late = FALSE /\ exhausted = FALSE
  /\ trial = NoTrial /\ called = FALSE
  /\ result = [c \in Clients |-> "none"]

Candidates == Last(searches)

(* What a search of each key enumerates, and whether it leaves plans over. *)
Plans == [k \in Keys |-> Enumerate(Graph[k].selections, Budget)]
PlansLeftOver == [k \in Keys |-> PlansLeft(Graph[k].selections, Budget)]

(* Candidates as a search begins: those with a plan wait to be measured,   *)
(* and a plan has a CTA.                                                   *)
Selectable == [bodies  : UNION {{Graph[k].selections[i].bodies :
                                   i \in DOMAIN Graph[k].selections} : k \in Keys},
               workers : Nat, phases : Nat,
               status  : {"unmeasured", "rejected", "measured"}, rank : Nat]

ASSUME PlansAssumption ==
  \A k \in Keys :
    /\ Plans[k] \in Seq(Selectable)
    /\ \A i \in DOMAIN Plans[k] :
         /\ Plans[k][i].status # "measured"
         /\ Plans[k][i].status = "unmeasured" => Plans[k][i].workers \in DOMAIN Ranks

ASSUME CompilationAssumption ==
  /\ Multiprocessors \in Nat \ {0} /\ MaxActive \in Nat
  /\ AdmissionTries \in Nat \ {0} /\ Samples \in Nat \ {0}
  /\ Capacity \in Nat
  /\ Ranks \in Seq(SUBSET Nat)

HasPlan == [k \in Keys |-> Unmeasured(Enumerate(Graph[k].selections, PreflightBudget)) # <<>>]

-----------------------------------------------------------------------------
(* A request: post-grad lowering, then the cache.                          *)

(* Fault: whatever fails, Inductor takes the call.                         *)
AnswerAnyway(c, safe) == result' = [result EXCEPT ![c] = IF Fallback = "inductor"
                                                         THEN "inductor" ELSE "error"]

(* The whole call goes to Inductor, or the error to the caller.            *)
Answer(c, safe) == result' = [result EXCEPT ![c] = IF safe /\ Fallback = "inductor"
                                                   THEN "inductor" ELSE "error"]

LoweringFails(c) ==
  /\ ~ Graph[key[c]].lowered
  /\ GiveUp(c)
  /\ Answer(c, TRUE)
  /\ UNCHANGED <<length, searchVars>>

ServeHit(c) ==
  /\ Graph[key[c]].lowered
  /\ Hit(c)
  /\ result' = [result EXCEPT ![c] = "kernel"]
  /\ UNCHANGED <<length, searchVars>>

(* _StateSnapshot.create                                                   *)
StartSearch(c) ==
  /\ Graph[key[c]].lowered
  /\ Miss(c)
  /\ captured' = length[c] /\ private' = length[c]
  /\ step' = "preflight"
  /\ searches' = <<>> /\ built' = <<>>
  /\ at' = 0 /\ compiled' = 0 /\ late' = FALSE /\ exhausted' = FALSE
  /\ trial' = NoTrial /\ called' = FALSE
  /\ UNCHANGED <<length, result>>

(* The search's objects go with it.                                        *)
ForgetSearch ==
  /\ captured' = 0 /\ private' = 0
  /\ step' = "idle"
  /\ searches' = <<>> /\ built' = <<>>
  /\ at' = 0 /\ compiled' = 0 /\ late' = FALSE /\ exhausted' = FALSE
  /\ trial' = NoTrial /\ called' = FALSE

Fail(c, safe) ==
  /\ CompilerRaises(c)
  /\ Answer(c, safe)
  /\ ForgetSearch
  /\ UNCHANGED length

Working(c, where) == stage[c] = "compile" /\ step = where

(* One complete plan has to exist.                                         *)
PreflightFails(c) == Working(c, "preflight") /\ ~ HasPlan[key[c]] /\ Fail(c, TRUE)

Preflight(c) ==
  /\ Working(c, "preflight") /\ HasPlan[key[c]]
  /\ step' = "reference"
  /\ UNCHANGED <<cacheVars, length, captured, private, searches, built, at, compiled, late,
                 exhausted, trial, called, result>>

(* Fault: the copies are the caller's own tensors.                         *)
AdvanceCaller(c) == private' = private + 1 /\ length' = [length EXCEPT ![c] = private + 1]

(* A call advances the copy it was given.                                  *)
Advance(c) == private' = private + 1 /\ UNCHANGED length

(* The prepared graph runs on the copies; it may raise.                    *)
ReferenceFails(c) == Working(c, "reference") /\ Fail(c, FALSE)

Reference(c) ==
  /\ Working(c, "reference")
  /\ Advance(c)
  /\ step' = "scheduler"
  /\ UNCHANGED <<cacheVars, captured, searches, built, at, compiled, late, exhausted, trial,
                 called, result>>

-----------------------------------------------------------------------------
(* search_plans, once per scheduler.                                       *)

NextScheduler(c) ==
  /\ Working(c, "scheduler") /\ Len(searches) < Len(Schedulers)
  /\ searches' = Append(searches, Plans[key[c]])
  /\ built' = Append(built, [i \in DOMAIN Plans[key[c]] |-> NoKernel])
  /\ at' = 1 /\ compiled' = 0 /\ late' = FALSE
  /\ exhausted' = (exhausted \/ PlansLeftOver[key[c]])
  /\ step' = "next"
  /\ UNCHANGED <<cacheVars, length, captured, private, trial, called, result>>

AtCandidate(c) == Working(c, "next") /\ at <= Len(Candidates)

PassBy(c) ==
  /\ AtCandidate(c) /\ Candidates[at].status # "unmeasured"
  /\ at' = at + 1
  /\ UNCHANGED <<cacheVars, length, captured, private, step, searches, built, compiled, late,
                 exhausted, trial, called, result>>

(* Compilations or time have run out: the candidate stays unmeasured.      *)
LeaveOut(c) ==
  /\ AtCandidate(c) /\ Candidates[at].status = "unmeasured"
  /\ \/ compiled >= Budget.compilations /\ UNCHANGED late
     \/ compiled < Budget.compilations /\ HasDeadline /\ late' = TRUE
  /\ exhausted' = TRUE
  /\ at' = at + 1
  /\ UNCHANGED <<cacheVars, length, captured, private, step, searches, built, compiled, trial,
                 called, result>>

(* The evaluator starts on a plan, with the grid the search gave it.       *)
Evaluate(c) ==
  /\ AtCandidate(c) /\ Candidates[at].status = "unmeasured"
  /\ compiled < Budget.compilations /\ ~ late
  /\ compiled' = compiled + 1
  /\ trial' = [workers |-> Candidates[at].workers,
               events  |-> Candidates[at].workers,
               tries   |-> AdmissionTries]
  /\ step' = "emit"
  /\ UNCHANGED <<cacheVars, length, captured, private, searches, built, at, late, exhausted,
                 called, result>>

EndScheduler(c) ==
  /\ Working(c, "next") /\ at > Len(Candidates)
  /\ step' = "scheduler"
  /\ UNCHANGED <<cacheVars, length, captured, private, searches, built, at, compiled, late,
                 exhausted, trial, called, result>>

Conclude(status, rank, k) ==
  /\ searches' = [searches EXCEPT ![Len(searches)][at].status = status,
                                  ![Len(searches)][at].rank = rank]
  /\ built' = [built EXCEPT ![Len(searches)][at] = k]
  /\ at' = at + 1
  /\ step' = "next"
  /\ trial' = NoTrial

(* Whatever an evaluation raises rejects the candidate.                    *)
Reject == Conclude("rejected", 0, NoKernel)

EvaluationFails(c) ==
  /\ stage[c] = "compile" /\ step \in {"emit", "reset", "run", "sampler"}
  /\ Reject
  /\ UNCHANGED <<cacheVars, length, captured, private, compiled, late, exhausted,
                 called, result>>

-----------------------------------------------------------------------------
(* compile_plan: emit, compile, ask the device.                            *)

Legal(active) == Min({trial.workers, active * Multiprocessors})

(* A runtime state is made for a plan whose next call fits its caches; the *)
(* length is the one the copy has now.                                     *)
Fits == private + 1 <= Capacity

(* Fault: the event schedule stays the one of the first grid.              *)
EventWorkersKept == trial.events

(* The event schedule is made again when it is for another grid.           *)
EventWorkers == trial.workers

(* What compile_plan returns: the grid the plan launches with, the grids   *)
(* its code and its events were made for, and the CTAs the device keeps    *)
(* resident per multiprocessor.                                            *)
MadeKernel(workers, active) ==
  [workers |-> workers, emitted |-> trial.workers, events |-> EventWorkers, active |-> active]

EmitTrial(c) == Working(c, "emit") /\ Fits

Measure(k) ==
  /\ trial' = [kernel |-> k, purpose |-> "first", left |-> 1]
  /\ step' = "reset"

Admit(c, active) ==
  /\ EmitTrial(c) /\ Legal(active) = trial.workers
  /\ Measure(MadeKernel(trial.workers, active))
  /\ UNCHANGED <<cacheVars, length, captured, private, searches, built, at, compiled, late,
                 exhausted, called, result>>

(* _with_worker_count.  Grids fall with every try, so none is seen twice   *)
(* and "did not converge" is never raised.                                 *)
Lower(c, active) ==
  /\ EmitTrial(c) /\ Legal(active) \in 1 .. trial.workers - 1
  /\ trial.tries > 1
  /\ trial' = [trial EXCEPT !.workers = Legal(active), !.events = EventWorkers,
                            !.tries = @ - 1]
  /\ UNCHANGED <<cacheVars, length, captured, private, step, searches, built, at, compiled,
                 late, exhausted, called, result>>

(* No CTA fits, the tries are used up, or there is no slot for the call.   *)
Refuse(c, active) ==
  /\ Working(c, "emit")
  /\ \/ ~ Fits
     \/ Legal(active) < 1
     \/ Legal(active) < trial.workers /\ trial.tries = 1
  /\ Reject
  /\ UNCHANGED <<cacheVars, length, captured, private, compiled, late, exhausted,
                 called, result>>

-----------------------------------------------------------------------------
(* Calls of a candidate: the comparison with the reference, the teacher-   *)
(* forced rerun, complete calls for timing, isolated launches.             *)

(* Fault: only the first call starts from the captured state.              *)
ResetStateOnce == private' = IF trial.purpose = "first" THEN captured ELSE private

ResetState == private' = captured

ResetCall(c) ==
  /\ Working(c, "reset")
  /\ ResetState
  /\ step' = "run"
  /\ UNCHANGED <<cacheVars, length, captured, searches, built, at, compiled, late, exhausted,
                 trial, called, result>>

RunCall(c) == Working(c, "run") /\ Advance(c) /\ called' = TRUE

Again(purpose, left) ==
  /\ trial' = [trial EXCEPT !.purpose = purpose, !.left = left]
  /\ UNCHANGED <<cacheVars, captured, searches, built, at, compiled, late, exhausted, result>>

(* Timed calls, and one more for verification.                             *)
FirstCall(c) ==
  /\ RunCall(c) /\ trial.purpose = "first"
  /\ \/ Again("complete", Samples + 1)
     \/ Graph[key[c]].table /\ Again("teacher", 1)
  /\ step' = "reset"

(* Too far from the reference, and a launch that cannot be rerun without   *)
(* reusing workspace, or a rerun or a region that differs.                 *)
CallDiffers(c) ==
  /\ RunCall(c)
  /\ \/ trial.purpose = "first" /\ ~ Graph[key[c]].table
     \/ trial.purpose = "teacher"
  /\ Reject
  /\ UNCHANGED <<cacheVars, captured, compiled, late, exhausted, result>>

TeacherPasses(c) ==
  /\ RunCall(c) /\ trial.purpose = "teacher"
  /\ Again("complete", Samples + 1)
  /\ step' = "reset"

TimedCall(c) ==
  /\ RunCall(c) /\ trial.purpose = "complete"
  /\ Again("complete", trial.left - 1)
  /\ step' = IF trial.left > 1 THEN "reset" ELSE "sampler"

(* _isolated_kernel_samples makes a runtime state of its own.              *)
MakeSampler(c) ==
  /\ Working(c, "sampler") /\ Fits
  /\ Again("isolated", Samples)
  /\ step' = "reset"
  /\ UNCHANGED <<length, private, called>>

NoSampler(c) ==
  /\ Working(c, "sampler") /\ ~ Fits
  /\ Reject
  /\ UNCHANGED <<cacheVars, length, captured, private, compiled, late, exhausted, called,
                 result>>

IsolatedCall(c) ==
  /\ RunCall(c) /\ trial.purpose = "isolated" /\ trial.left > 1
  /\ Again("isolated", trial.left - 1)
  /\ step' = "reset"

LastIsolatedCall(c) ==
  /\ RunCall(c) /\ trial.purpose = "isolated" /\ trial.left = 1
  /\ \E rank \in Ranks[trial.kernel.workers] : Conclude("measured", rank, trial.kernel)
  /\ UNCHANGED <<cacheVars, captured, compiled, late, exhausted, result>>

-----------------------------------------------------------------------------
(* The end of the search.                                                  *)

Found == {j \in DOMAIN searches : Measured(searches[j]) # {}}
Pick(j) == searches[j][Choose(searches[j])]

(* Under auto the scheduler whose selected plan is the fastest.            *)
BestScheduler ==
  CHOOSE j \in Found : \E rank \in {Pick(j).rank} : \A l \in Found :
    IF l < j THEN rank < Pick(l).rank ELSE rank <= Pick(l).rank

SearchOver(c) == Working(c, "scheduler") /\ Len(searches) = Len(Schedulers)

NothingMeasured(c) == SearchOver(c) /\ Found = {} /\ Fail(c, FALSE)

Finish(c) ==
  /\ SearchOver(c) /\ Found # {}
  /\ \E j \in {BestScheduler} : \E k \in {built[j][Choose(searches[j])]} : Store(c, k)
  /\ result' = [result EXCEPT ![c] = "kernel"]
  /\ ForgetSearch
  /\ UNCHANGED length

Search(c) ==
  \/ Preflight(c) \/ PreflightFails(c)
  \/ Reference(c) \/ ReferenceFails(c)
  \/ NextScheduler(c) \/ PassBy(c) \/ LeaveOut(c) \/ Evaluate(c) \/ EvaluationFails(c)
  \/ EndScheduler(c)
  \/ \E active \in 0 .. MaxActive : Admit(c, active) \/ Lower(c, active) \/ Refuse(c, active)
  \/ ResetCall(c) \/ FirstCall(c) \/ CallDiffers(c) \/ TeacherPasses(c) \/ TimedCall(c)
  \/ MakeSampler(c) \/ NoSampler(c) \/ IsolatedCall(c) \/ LastIsolatedCall(c)
  \/ NothingMeasured(c) \/ Finish(c)

Backend(c) == LoweringFails(c) \/ ServeHit(c) \/ StartSearch(c) \/ Search(c)

-----------------------------------------------------------------------------
(* Room for a call is checked when a runtime state is made, on the length  *)
(* the copy has then, and never again: the reruns, the timed calls and the *)
(* isolated launches behind it write where the length of the moment says.  *)
(* None of them runs on a cache without a free slot, since each starts     *)
(* from a state no longer than the one the check saw.                      *)
CallsFitCaches == step = "run" => private < Capacity

(* A kernel that can be launched was emitted for the grid it launches with,*)
(* its events count that grid's CTAs, and the device keeps the whole grid  *)
(* resident: its barriers would never open otherwise.                      *)
KernelsResident ==
  \A k \in {entries[j] : j \in Keys} \ {NoKernel} :
    /\ k.emitted = k.workers /\ k.events = k.workers
    /\ k.workers \in 1 .. k.active * Multiprocessors

(* When a search ends with a plan, no plan it measured, under either       *)
(* scheduler, is faster by more than the noise; of the plans of the same   *)
(* scheduler that cannot be told from it, none has fewer phases and is as  *)
(* fast; and if nothing was reported left out, every legal plan was        *)
(* measured or found wrong.                                                *)
SelectedPlan ==
  (\E c \in Clients : SearchOver(c)) /\ Found # {} =>
    LET best == Pick(BestScheduler)
    IN  /\ \A j \in Found : \A i \in Measured(searches[j]) :
             Close(best.rank, searches[j][i].rank)
        /\ \A i \in Measured(searches[BestScheduler]) :
             searches[BestScheduler][i].rank <= best.rank =>
               searches[BestScheduler][i].phases >= best.phases
        /\ exhausted \/ \A j \in DOMAIN searches : \A i \in DOMAIN searches[j] :
                           searches[j][i].status # "unmeasured"

(* Inductor gets a call only when asked to, and before any candidate ran.  *)
FallbackBeforeAnyCall ==
  [][\A c \in Clients : result'[c] = "inductor" /\ result[c] # "inductor" =>
       Fallback = "inductor" /\ ~ (lock = c /\ called)]_compileVars
=============================================================================
