---------------------------- MODULE HostCallsProofs ----------------------------
(***************************************************************************)
(* Proofs about HostCalls: whatever the search under the lock does, and    *)
(* for every set of clients, keys and budgets, the backend implements the  *)
(* plan cache, and what the cache promises holds.                          *)
(*                                                                         *)
(* The cache needs no kernel's type: AnyStep leaves open what is stored.   *)
(* What is stored is the subject of the second half, which follows the     *)
(* candidates of a search to the plan it selects.                          *)
(***************************************************************************)
EXTENDS HostCalls, SequenceTheorems, WellFoundedInduction, TLAPS

(* A step of the cache that may store anything.                            *)
AnyStep ==
  \E c \in Clients :
    \/ \E k \in Keys : Ask(c, k)
    \/ GiveUp(c) \/ Leave(c) \/ Hit(c) \/ Miss(c) \/ CompilerRaises(c)
    \/ \E k : Store(c, k)

(* The shape of the cache's state, kernels left open.                      *)
Shape ==
  /\ entries = [k \in Keys |-> entries[k]]
  /\ stage \in [Clients -> {"idle", "lookup", "compile", "served"}]
  /\ key \in [Clients -> Keys]

(* A client under the lock compiles a key the cache does not hold.         *)
Compiling == \A c \in Clients : stage[c] = "compile" => entries[key[c]] = NoKernel

CacheInv == Shape /\ SoleCompiler /\ Compiling

(* Every step of the search keeps the cache or is a step of it.            *)
LEMMA SearchIsCacheStep ==
  ASSUME NEW c \in Clients, Search(c)
  PROVE  AnyStep \/ UNCHANGED cacheVars
<1>1. CASE PreflightFails(c) \/ ReferenceFails(c) \/ NothingMeasured(c)
  BY <1>1 DEF PreflightFails, ReferenceFails, NothingMeasured, Fail, AnyStep
<1>2. CASE Finish(c)
  BY <1>2 DEF Finish, AnyStep
<1>3. CASE Preflight(c) \/ Reference(c) \/ NextScheduler(c) \/ PassBy(c) \/ LeaveOut(c)
           \/ Evaluate(c) \/ EvaluationFails(c) \/ EndScheduler(c)
  BY <1>3 DEF Preflight, Reference, NextScheduler, PassBy, LeaveOut, Evaluate,
              EvaluationFails, EndScheduler
<1>4. CASE \E active \in 0 .. MaxActive : Admit(c, active) \/ Lower(c, active) \/ Refuse(c, active)
  BY <1>4 DEF Admit, Lower, Refuse
<1>5. CASE ResetCall(c) \/ FirstCall(c) \/ CallDiffers(c) \/ TeacherPasses(c) \/ TimedCall(c)
           \/ MakeSampler(c) \/ NoSampler(c) \/ IsolatedCall(c) \/ LastIsolatedCall(c)
  BY <1>5 DEF ResetCall, FirstCall, CallDiffers, TeacherPasses, TimedCall, MakeSampler,
              NoSampler, IsolatedCall, LastIsolatedCall, Again
<1> QED
  BY <1>1, <1>2, <1>3, <1>4, <1>5 DEF Search

(* Every step of the clients and the backend keeps the cache or is a step  *)
(* of it.                                                                  *)
LEMMA NextIsCacheStep == [Next]_vars => AnyStep \/ UNCHANGED cacheVars
<1> SUFFICES ASSUME [Next]_vars PROVE AnyStep \/ UNCHANGED cacheVars
  OBVIOUS
<1>1. CASE Done \/ UNCHANGED vars
  BY <1>1 DEF Done, vars, compileVars
<1>2. ASSUME NEW c \in Clients, Request(c)
      PROVE  AnyStep
  BY <1>2 DEF Request, AnyStep
<1>3. ASSUME NEW c \in Clients, Serve(c)
      PROVE  AnyStep \/ UNCHANGED cacheVars
  <2>1. CASE LoweringFails(c) \/ ServeHit(c) \/ StartSearch(c)
    BY <2>1 DEF LoweringFails, ServeHit, StartSearch, AnyStep
  <2>2. CASE Search(c)
    BY <2>2, SearchIsCacheStep
  <2> QED
    BY <1>3, <2>1, <2>2 DEF Serve, Backend
<1>4. ASSUME NEW c \in Clients, Call(c) \/ Another(c)
      PROVE  AnyStep \/ UNCHANGED cacheVars
  BY <1>4 DEF Call, Another, AnyStep
<1> QED
  BY <1>1, <1>2, <1>3, <1>4 DEF Next

LEMMA CacheInvInit == CacheInit => CacheInv
  BY NamesAssumption, KeysAssumption
  DEF CacheInit, CacheInv, Shape, SoleCompiler, Compiling

LEMMA CacheInvStep ==
  ASSUME CacheInv, AnyStep
  PROVE  CacheInv'
<1> USE NamesAssumption DEF CacheInv
<1>1. ASSUME NEW c \in Clients, NEW k \in Keys, Ask(c, k)
      PROVE  CacheInv'
  BY <1>1 DEF Ask, Shape, SoleCompiler, Compiling
<1>2. ASSUME NEW c \in Clients, GiveUp(c) \/ Leave(c) \/ Hit(c)
      PROVE  CacheInv'
  BY <1>2 DEF GiveUp, Leave, Hit, Shape, SoleCompiler, Compiling
<1>3. ASSUME NEW c \in Clients, Miss(c)
      PROVE  CacheInv'
  BY <1>3 DEF Miss, Shape, SoleCompiler, Compiling
<1>4. ASSUME NEW c \in Clients, CompilerRaises(c)
      PROVE  CacheInv'
  BY <1>4 DEF CompilerRaises, Shape, SoleCompiler, Compiling
<1>5. ASSUME NEW c \in Clients, NEW k, Store(c, k)
      PROVE  CacheInv'
  BY <1>5 DEF Store, Shape, SoleCompiler, Compiling
<1> QED
  BY <1>1, <1>2, <1>3, <1>4, <1>5 DEF AnyStep

LEMMA CacheInvAlways == Spec => []CacheInv
<1>1. Init => CacheInv
  BY CacheInvInit DEF Init, CompileInit
<1>2. CacheInv /\ [Next]_vars => CacheInv'
  <2> SUFFICES ASSUME CacheInv, [Next]_vars PROVE CacheInv'
    OBVIOUS
  <2>1. CASE AnyStep
    BY <2>1, CacheInvStep
  <2>2. CASE UNCHANGED cacheVars
    BY <2>2 DEF cacheVars, CacheInv, Shape, SoleCompiler, Compiling
  <2> QED
    BY <2>1, <2>2, NextIsCacheStep
<1> QED
  BY <1>1, <1>2, PTL DEF Spec

(* Two compilations of one backend never overlap, and the lock is held by  *)
(* nobody who has stopped compiling: for any clients, keys, schedulers and *)
(* budgets, whatever a search raises (PlanCache.get_or_compile).           *)
THEOREM CompilersNeverOverlap == Spec => []SoleCompiler
<1>1. CacheInv => SoleCompiler
  BY DEF CacheInv
<1> QED
  BY <1>1, CacheInvAlways, PTL

(* No step of any client or search replaces or removes the kernel the      *)
(* cache holds for a key.                                                  *)
THEOREM KernelsNeverReplaced == Spec => EntriesStable
<1> DEFINE Kept == \A k \in Keys : entries[k] # NoKernel => entries'[k] = entries[k]
<1>1. CacheInv /\ [Next]_vars => [Kept]_cacheVars
  <2> SUFFICES ASSUME CacheInv, [Next]_vars, ~ UNCHANGED cacheVars PROVE Kept
    OBVIOUS
  <2>1. AnyStep
    BY NextIsCacheStep
  <2>2. ASSUME NEW c \in Clients, NEW k, Store(c, k)
        PROVE  Kept
    BY <2>2 DEF Store, CacheInv, Shape, Compiling
  <2>3. ASSUME NEW c \in Clients,
               \/ \E k \in Keys : Ask(c, k)
               \/ GiveUp(c) \/ Leave(c) \/ Hit(c) \/ Miss(c) \/ CompilerRaises(c)
        PROVE  Kept
    BY <2>3 DEF Ask, GiveUp, Leave, Hit, Miss, CompilerRaises
  <2> QED
    BY <2>1, <2>2, <2>3 DEF AnyStep
<1> QED
  BY <1>1, CacheInvAlways, PTL DEF Spec, EntriesStable

-----------------------------------------------------------------------------
(* What a search does to the states of the callers.                        *)

(* A client's state has as many positions as the client made calls.        *)
CallerInv ==
  /\ length \in [Clients -> Nat]
  /\ calls \in [Clients -> Nat]
  /\ StateIsolated

(* No step of the backend touches a caller's state.                        *)
LEMMA BackendKeepsLengths ==
  ASSUME NEW c \in Clients, Backend(c)
  PROVE  UNCHANGED length
<1>1. CASE LoweringFails(c) \/ ServeHit(c) \/ StartSearch(c)
  BY <1>1 DEF LoweringFails, ServeHit, StartSearch
<1>2. CASE PreflightFails(c) \/ ReferenceFails(c) \/ NothingMeasured(c) \/ Finish(c)
  BY <1>2 DEF PreflightFails, ReferenceFails, NothingMeasured, Finish, Fail
<1>3. CASE Preflight(c) \/ Reference(c) \/ NextScheduler(c) \/ PassBy(c) \/ LeaveOut(c)
           \/ Evaluate(c) \/ EvaluationFails(c) \/ EndScheduler(c)
  BY <1>3 DEF Preflight, Reference, NextScheduler, PassBy, LeaveOut, Evaluate,
              EvaluationFails, EndScheduler, Advance
<1>4. CASE \E active \in 0 .. MaxActive : Admit(c, active) \/ Lower(c, active) \/ Refuse(c, active)
  BY <1>4 DEF Admit, Lower, Refuse
<1>5. CASE ResetCall(c) \/ FirstCall(c) \/ CallDiffers(c) \/ TeacherPasses(c) \/ TimedCall(c)
           \/ MakeSampler(c) \/ NoSampler(c) \/ IsolatedCall(c) \/ LastIsolatedCall(c)
  BY <1>5 DEF ResetCall, FirstCall, CallDiffers, TeacherPasses, TimedCall, MakeSampler,
              NoSampler, IsolatedCall, LastIsolatedCall, RunCall, Advance
<1> QED
  BY <1>1, <1>2, <1>3, <1>4, <1>5 DEF Backend, Search

LEMMA CallerInvAlways == Spec => []CallerInv
<1>1. Init => CallerInv
  BY DEF Init, CompileInit, CallerInv, StateIsolated
<1>2. CallerInv /\ [Next]_vars => CallerInv'
  <2> SUFFICES ASSUME CallerInv, [Next]_vars PROVE CallerInv'
    OBVIOUS
  <2> USE DEF CallerInv, StateIsolated
  <2>1. CASE Done \/ UNCHANGED vars
    BY <2>1 DEF Done, vars, compileVars
  <2>2. ASSUME NEW c \in Clients, Request(c) \/ Another(c)
        PROVE  CallerInv'
    BY <2>2 DEF Request, Another
  <2>3. ASSUME NEW c \in Clients, Serve(c)
        PROVE  CallerInv'
    BY <2>3, BackendKeepsLengths DEF Serve
  <2>4. ASSUME NEW c \in Clients, Call(c)
        PROVE  CallerInv'
    BY <2>4 DEF Call
  <2> QED
    BY <2>1, <2>2, <2>3, <2>4 DEF Next
<1> QED
  BY <1>1, <1>2, PTL DEF Spec

(* Searches work on copies: a caller's state is exactly what the caller's  *)
(* own calls made it, whatever candidates are run meanwhile.               *)
THEOREM CallersStayIsolated == Spec => []StateIsolated
<1>1. CallerInv => StateIsolated
  BY DEF CallerInv
<1> QED
  BY <1>1, CallerInvAlways, PTL

-----------------------------------------------------------------------------
(* What a search promises about its calls.                                 *)

(* Before the preflight is over no candidate has been called.              *)
SearchInv ==
  /\ step = "preflight" => called = FALSE
  /\ result = [c \in Clients |-> result[c]]

LEMMA SearchInvBackend ==
  ASSUME SearchInv, NEW c \in Clients, Backend(c)
  PROVE  SearchInv'
<1> USE DEF SearchInv
<1>1. CASE LoweringFails(c) \/ ServeHit(c) \/ StartSearch(c)
  BY <1>1 DEF LoweringFails, ServeHit, StartSearch, searchVars, Answer
<1>2. CASE PreflightFails(c) \/ ReferenceFails(c) \/ NothingMeasured(c) \/ Finish(c)
  BY <1>2 DEF PreflightFails, ReferenceFails, NothingMeasured, Finish, Fail, ForgetSearch, Answer
<1>3. CASE Preflight(c) \/ Reference(c) \/ NextScheduler(c) \/ PassBy(c) \/ LeaveOut(c)
           \/ Evaluate(c) \/ EvaluationFails(c) \/ EndScheduler(c)
  BY <1>3 DEF Preflight, Reference, NextScheduler, PassBy, LeaveOut, Evaluate, EvaluationFails,
              EndScheduler, Reject, Conclude, AtCandidate, Working, SearchOver
<1>4. CASE \E active \in 0 .. MaxActive : Admit(c, active) \/ Lower(c, active) \/ Refuse(c, active)
  BY <1>4 DEF Admit, Lower, Refuse, EmitTrial, Working, Measure, Reject, Conclude
<1>5. CASE ResetCall(c)
  BY <1>5 DEF ResetCall, ResetState
<1>6. CASE FirstCall(c) \/ CallDiffers(c) \/ TeacherPasses(c) \/ TimedCall(c)
           \/ MakeSampler(c) \/ NoSampler(c) \/ IsolatedCall(c) \/ LastIsolatedCall(c)
  BY <1>6 DEF FirstCall, CallDiffers, TeacherPasses, TimedCall, MakeSampler, NoSampler,
              IsolatedCall, LastIsolatedCall, Again, Reject, Conclude
<1> QED
  BY <1>1, <1>2, <1>3, <1>4, <1>5, <1>6 DEF Backend, Search

LEMMA SearchInvAlways == Spec => []SearchInv
<1>1. Init => SearchInv
  BY DEF Init, CompileInit, SearchInv
<1>2. SearchInv /\ [Next]_vars => SearchInv'
  <2> SUFFICES ASSUME SearchInv, [Next]_vars PROVE SearchInv'
    OBVIOUS
  <2>1. CASE Done \/ UNCHANGED vars
    BY <2>1 DEF Done, vars, compileVars, searchVars, SearchInv
  <2>2. ASSUME NEW c \in Clients, Request(c) \/ Call(c) \/ Another(c)
        PROVE  SearchInv'
    BY <2>2 DEF Request, Call, Another, searchVars, SearchInv
  <2>3. ASSUME NEW c \in Clients, Serve(c)
        PROVE  SearchInv'
    BY <2>3, SearchInvBackend DEF Serve
  <2> QED
    BY <2>1, <2>2, <2>3 DEF Next
<1> QED
  BY <1>1, <1>2, PTL DEF Spec

(* The copy is never shorter than the captured state a call starts from,   *)
(* so a check made on the copy holds of every later call.                  *)
RoomInv ==
  /\ captured \in Nat /\ private \in Nat /\ captured <= private
  /\ step \in {"reset", "run", "sampler"} => captured < Capacity
  /\ step = "run" => private = captured

LEMMA RoomBackend ==
  ASSUME RoomInv, CallerInv, NEW c \in Clients, Backend(c)
  PROVE  RoomInv'
<1> USE DEF RoomInv
<1>1. CASE LoweringFails(c) \/ ServeHit(c)
  BY <1>1 DEF LoweringFails, ServeHit, searchVars
<1>2. CASE StartSearch(c)
  BY <1>2 DEF StartSearch, CallerInv
<1>3. CASE PreflightFails(c) \/ ReferenceFails(c) \/ NothingMeasured(c) \/ Finish(c)
  <2>1. ForgetSearch
    BY <1>3 DEF PreflightFails, ReferenceFails, NothingMeasured, Finish, Fail
  <2> QED
    BY <2>1 DEF ForgetSearch
<1>4. CASE Preflight(c) \/ Reference(c) \/ NextScheduler(c) \/ PassBy(c) \/ LeaveOut(c)
           \/ Evaluate(c) \/ EvaluationFails(c) \/ EndScheduler(c)
  BY <1>4 DEF Preflight, Reference, Advance, NextScheduler, PassBy, LeaveOut, Evaluate,
              EvaluationFails, EndScheduler, Reject, Conclude, AtCandidate, Working
<1>5. ASSUME NEW active \in 0 .. MaxActive, Admit(c, active)
      PROVE  RoomInv'
  BY <1>5, CompilationAssumption DEF Admit, EmitTrial, Fits, Measure
<1>6. ASSUME NEW active \in 0 .. MaxActive, Lower(c, active) \/ Refuse(c, active)
      PROVE  RoomInv'
  BY <1>6 DEF Lower, Refuse, EmitTrial, Working, Reject, Conclude
<1>7. CASE ResetCall(c)
  BY <1>7 DEF ResetCall, ResetState, Working
<1>8. CASE FirstCall(c) \/ CallDiffers(c) \/ TeacherPasses(c) \/ TimedCall(c)
           \/ IsolatedCall(c) \/ LastIsolatedCall(c)
  BY <1>8 DEF FirstCall, CallDiffers, TeacherPasses, TimedCall, IsolatedCall, LastIsolatedCall,
              RunCall, Advance, Again, Reject, Conclude, Working
<1>9. CASE MakeSampler(c) \/ NoSampler(c)
  BY <1>9 DEF MakeSampler, NoSampler, Again, Reject, Conclude, Working
<1> QED
  BY <1>1, <1>2, <1>3, <1>4, <1>5, <1>6, <1>7, <1>8, <1>9 DEF Backend, Search

LEMMA RoomAlways == Spec => []RoomInv
<1>1. Init => RoomInv
  BY DEF Init, CompileInit, RoomInv
<1>2. RoomInv /\ CallerInv /\ [Next]_vars => RoomInv'
  <2> SUFFICES ASSUME RoomInv, CallerInv, [Next]_vars PROVE RoomInv'
    OBVIOUS
  <2>1. CASE Done \/ UNCHANGED vars
    BY <2>1 DEF Done, vars, compileVars, searchVars, RoomInv
  <2>2. ASSUME NEW c \in Clients, Request(c) \/ Call(c) \/ Another(c)
        PROVE  RoomInv'
    BY <2>2 DEF Request, Call, Another, searchVars, RoomInv
  <2>3. ASSUME NEW c \in Clients, Serve(c)
        PROVE  RoomInv'
    BY <2>3, RoomBackend DEF Serve
  <2> QED
    BY <2>1, <2>2, <2>3 DEF Next
<1> QED
  BY <1>1, <1>2, CallerInvAlways, PTL DEF Spec

(* No call of a search, timed or not, runs on a cache without a free slot, *)
(* although room was checked only when its runtime state was made, for     *)
(* every capacity, plan, budget and number of samples.                     *)
THEOREM SearchCallsFitCaches == Spec => []CallsFitCaches
<1>1. RoomInv => CallsFitCaches
  BY DEF RoomInv, CallsFitCaches
<1> QED
  BY <1>1, RoomAlways, PTL

(* The steps that hand a request to Inductor are two, and both come before *)
(* any candidate kernel has run for it.                                    *)
LEMMA InductorSteps ==
  ASSUME SearchInv, NEW c \in Clients, Backend(c),
         NEW d \in Clients, result'[d] = "inductor", result[d] # "inductor"
  PROVE  d = c /\ (LoweringFails(c) \/ PreflightFails(c)) /\ Fallback = "inductor"
<1> USE DEF SearchInv
<1>1. CASE LoweringFails(c)
  BY <1>1 DEF LoweringFails, Answer
<1>2. CASE PreflightFails(c)
  BY <1>2 DEF PreflightFails, Fail, Answer
<1>3. CASE ReferenceFails(c) \/ NothingMeasured(c)
  BY <1>3 DEF ReferenceFails, NothingMeasured, Fail, Answer
<1>4. CASE ServeHit(c) \/ Finish(c)
  BY <1>4 DEF ServeHit, Finish
<1>5. CASE StartSearch(c) \/ Preflight(c) \/ Reference(c) \/ NextScheduler(c) \/ PassBy(c)
           \/ LeaveOut(c) \/ Evaluate(c) \/ EvaluationFails(c) \/ EndScheduler(c)
  BY <1>5 DEF StartSearch, Preflight, Reference, NextScheduler, PassBy, LeaveOut, Evaluate,
              EvaluationFails, EndScheduler
<1>6. CASE \E active \in 0 .. MaxActive : Admit(c, active) \/ Lower(c, active) \/ Refuse(c, active)
  BY <1>6 DEF Admit, Lower, Refuse
<1>7. CASE ResetCall(c) \/ FirstCall(c) \/ CallDiffers(c) \/ TeacherPasses(c) \/ TimedCall(c)
           \/ MakeSampler(c) \/ NoSampler(c) \/ IsolatedCall(c) \/ LastIsolatedCall(c)
  BY <1>7 DEF ResetCall, FirstCall, CallDiffers, TeacherPasses, TimedCall, MakeSampler,
              NoSampler, IsolatedCall, LastIsolatedCall, Again
<1> QED
  BY <1>1, <1>2, <1>3, <1>4, <1>5, <1>6, <1>7 DEF Backend, Search

(* A request falls back to Inductor only where the caller allowed it, and  *)
(* never once a candidate kernel has been launched for it.                 *)
THEOREM NoFallbackBehindACall == Spec => FallbackBeforeAnyCall
<1> DEFINE Early == \A c \in Clients : result'[c] = "inductor" /\ result[c] # "inductor" =>
                       Fallback = "inductor" /\ ~ (lock = c /\ called)
<1>1. CacheInv /\ SearchInv /\ [Next]_vars => [Early]_compileVars
  <2> SUFFICES ASSUME CacheInv, SearchInv, [Next]_vars,
                      NEW d \in Clients, result'[d] = "inductor", result[d] # "inductor"
               PROVE  Fallback = "inductor" /\ ~ (lock = d /\ called)
    OBVIOUS
  <2>1. CASE Done \/ UNCHANGED vars
    BY <2>1 DEF Done, vars, compileVars
  <2>2. ASSUME NEW c \in Clients, Request(c) \/ Call(c) \/ Another(c)
        PROVE  FALSE
    BY <2>2 DEF Request, Call, Another, SearchInv
  <2>3. ASSUME NEW c \in Clients, Serve(c)
        PROVE  Fallback = "inductor" /\ ~ (lock = d /\ called)
    <3>1. d = c /\ (LoweringFails(c) \/ PreflightFails(c)) /\ Fallback = "inductor"
      BY <2>3, InductorSteps DEF Serve
    <3>2. CASE LoweringFails(c)
      BY <3>1, <3>2 DEF LoweringFails, GiveUp, CacheInv, SoleCompiler
    <3>3. CASE PreflightFails(c)
      BY <3>1, <3>3 DEF PreflightFails, Working, SearchInv
    <3> QED
      BY <3>1, <3>2, <3>3
  <2> QED
    BY <2>1, <2>2, <2>3 DEF Next
<1>2. Spec => [][Early]_compileVars
  <2> HIDE DEF Early
  <2> QED
    BY <1>1, CacheInvAlways, SearchInvAlways, PTL DEF Spec
<1> QED
  BY <1>2 DEF FallbackBeforeAnyCall

-----------------------------------------------------------------------------
(* What a search knows of its candidates.                                  *)

Made == [workers : Nat, emitted : Nat, events : Nat, active : Nat]

(* The grid a kernel launches with is the one it was made for, and fits.   *)
Resident(k) ==
  /\ k \in Made /\ k.emitted = k.workers /\ k.events = k.workers
  /\ k.workers \in 1 .. k.active * Multiprocessors
  /\ k.workers \in DOMAIN Ranks

Evaluating == step \in {"emit", "reset", "run", "sampler"}

(* One list of candidates and one of kernels for every scheduler so far,   *)
(* and a place in the last.                                                *)
Lists ==
  /\ searches \in Seq(Seq(Selectable))
  /\ built \in Seq(Seq(Made \cup {NoKernel}))
  /\ Len(built) = Len(searches)
  /\ \A j \in 1 .. Len(searches) : Len(built[j]) = Len(searches[j])
  /\ at \in Nat /\ exhausted \in BOOLEAN
  /\ step \in {"idle", "preflight", "reference"} => searches = <<>>
  /\ step = "next" \/ Evaluating => Len(searches) > 0 /\ at > 0
  /\ Evaluating => at <= Len(searches[Len(searches)])

(* Candidates worth evaluating have workers, measured ones a kernel.       *)
Listed ==
  \A j \in 1 .. Len(searches) : \A i \in 1 .. Len(searches[j]) :
    /\ searches[j][i].status = "unmeasured" => searches[j][i].workers \in DOMAIN Ranks
    /\ searches[j][i].status = "measured" => Resident(built[j][i])

(* Nothing behind the candidate in progress is left, or it was reported.   *)
NoneLeft ==
  exhausted \/
    \A j \in 1 .. Len(searches) : \A i \in 1 .. Len(searches[j]) :
      j < Len(searches) \/ step = "scheduler" \/ i < at =>
        searches[j][i].status # "unmeasured"

Steps == {"idle", "preflight", "reference", "scheduler", "next", "emit", "reset", "run", "sampler"}

(* What is tried is a plan for a grid, then a kernel.                      *)
Tried ==
  /\ step \in Steps
  /\ step = "emit" =>
       trial \in [workers : DOMAIN Ranks, events : DOMAIN Ranks, tries : Nat]
  /\ step \in {"reset", "run", "sampler"} =>
       /\ trial \in [kernel : Made, purpose : {"first", "teacher", "complete", "isolated"}, left : Int]
       /\ Resident(trial.kernel)

CandidateInv == Lists /\ Listed /\ NoneLeft /\ Tried

EntriesResident == \A k \in Keys : entries[k] = NoKernel \/ Resident(entries[k])

LEMMA EmptyLists ==
  ASSUME NEW S
  PROVE  <<>> \in Seq(S) /\ Len(<<>>) = 0
BY EmptySeq

NothingListed ==
  searches = <<>> /\ built = <<>> /\ at = 0 /\ exhausted = FALSE /\ step \in {"idle", "preflight"}

(* Where nothing is listed there is nothing to check. *)
LEMMA NothingToCheck == NothingListed => CandidateInv
<1> SUFFICES ASSUME NothingListed PROVE CandidateInv
  OBVIOUS
<1> USE DEF NothingListed
<1>1. Lists
  <2>1. searches \in Seq(Seq(Selectable)) /\ built \in Seq(Seq(Made \cup {NoKernel}))
    BY EmptyLists
  <2>2. Len(searches) = 0 /\ Len(built) = 0
    BY EmptyLists
  <2>3. QED
    BY <2>1, <2>2 DEF Lists, Evaluating
<1>2. Len(searches) = 0
  BY EmptyLists
<1>3. Listed /\ NoneLeft
  BY <1>2 DEF Listed, NoneLeft
<1>4. Tried
  BY DEF Tried, Steps
<1>5. QED
  BY <1>1, <1>3, <1>4 DEF CandidateInv

(* The lists stay while the search goes from one step to another.          *)
LEMMA CandidatesKept ==
  ASSUME CandidateInv, UNCHANGED <<searches, built, at, exhausted>>, Tried',
         step' \in {"idle", "preflight", "reference"} => searches = <<>>,
         step' = "next" \/ Evaluating' => step = "next" \/ Evaluating,
         Evaluating' => Evaluating \/ at <= Len(searches[Len(searches)]),
         step' = "scheduler" => searches = <<>> \/ step = "scheduler"
                                  \/ at > Len(searches[Len(searches)])
  PROVE  CandidateInv'
<1>1. Lists'
  BY DEF CandidateInv, Lists
<1>2. Listed'
  BY DEF CandidateInv, Listed
<1>3. NoneLeft'
  <2>1. SUFFICES ASSUME ~ exhausted, NEW j \in 1 .. Len(searches), NEW i \in 1 .. Len(searches[j]),
                        j < Len(searches) \/ step' = "scheduler" \/ i < at
                 PROVE  searches[j][i].status # "unmeasured"
    BY DEF NoneLeft
  <2>2. /\ searches \in Seq(Seq(Selectable)) /\ at \in Nat
        /\ Len(searches) \in Nat
    BY LenProperties DEF CandidateInv, Lists
  <2>3. Len(searches[j]) \in Nat
    BY <2>2, ElementOfSeq, LenProperties
  <2>4. j < Len(searches) \/ step = "scheduler" \/ i < at
    <3>1. CASE step' = "scheduler" /\ searches = <<>>
      BY <3>1, EmptyLists
    <3>2. CASE step' = "scheduler" /\ step # "scheduler" /\ at > Len(searches[Len(searches)])
      BY <2>2, <2>3, <3>2
    <3>3. QED
      BY <2>1, <3>1, <3>2
  <2>5. QED
    BY <2>1, <2>4 DEF CandidateInv, NoneLeft
<1>4. QED
  BY <1>1, <1>2, <1>3 DEF CandidateInv

(* One element of one of the lists. *)
LEMMA ElementReplaced ==
  ASSUME NEW S, NEW s \in Seq(Seq(S)), NEW j \in 1 .. Len(s), NEW i \in 1 .. Len(s[j]), NEW x \in S,
         NEW t, t = [s EXCEPT ![j] = [s[j] EXCEPT ![i] = x]]
  PROVE  /\ t \in Seq(Seq(S)) /\ Len(t) = Len(s)
         /\ \A l \in 1 .. Len(s) :
              /\ Len(t[l]) = Len(s[l])
              /\ \A m \in 1 .. Len(s[l]) : t[l][m] = IF l = j /\ m = i THEN x ELSE s[l][m]
<1> DEFINE u == [s[j] EXCEPT ![i] = x]
<1>1. s[j] \in Seq(S)
  BY ElementOfSeq
<1>2. /\ u \in Seq(S) /\ Len(u) = Len(s[j])
      /\ \A m \in 1 .. Len(s[j]) : u[m] = IF m = i THEN x ELSE s[j][m]
  BY <1>1, ExceptSeq
<1> HIDE DEF u
<1>3. /\ t \in Seq(Seq(S)) /\ Len(t) = Len(s)
      /\ \A l \in 1 .. Len(s) : t[l] = IF l = j THEN u ELSE s[l]
  <2>1. t = [s EXCEPT ![j] = u]
    BY DEF u
  <2>2. PICK T : T = Seq(S)
    OBVIOUS
  <2>3. s \in Seq(T) /\ u \in T
    BY <1>2, <2>2
  <2>4. /\ [s EXCEPT ![j] = u] \in Seq(T) /\ Len([s EXCEPT ![j] = u]) = Len(s)
        /\ \A l \in 1 .. Len(s) : [s EXCEPT ![j] = u][l] = IF l = j THEN u ELSE s[l]
    BY <2>3, ExceptSeq
  <2>5. QED
    BY <2>1, <2>2, <2>4
<1>4. QED
  BY <1>2, <1>3

(* The end of an evaluation. *)
LEMMA CandidateConcluded ==
  ASSUME CandidateInv, Evaluating, UNCHANGED exhausted,
         NEW status \in {"rejected", "measured"}, NEW rank \in Nat, NEW k \in Made \cup {NoKernel},
         Conclude(status, rank, k), status = "measured" => Resident(k)
  PROVE  CandidateInv'
<1> DEFINE L == Len(searches)
           old == searches[L][at]
           rated == [old EXCEPT !.status = status]
           new == [rated EXCEPT !.rank = rank]
<1>1. /\ searches \in Seq(Seq(Selectable)) /\ built \in Seq(Seq(Made \cup {NoKernel}))
      /\ Len(built) = L /\ at \in Nat /\ L > 0 /\ at > 0 /\ at <= Len(searches[L])
      /\ \A j \in 1 .. L : Len(built[j]) = Len(searches[j])
  BY DEF CandidateInv, Lists
<1>2. L \in Nat
  BY <1>1, LenProperties
<1>3. L \in 1 .. L
  BY <1>1, <1>2
<1>4. searches[L] \in Seq(Selectable)
  BY <1>1, <1>3, ElementOfSeq
<1>5. Len(searches[L]) \in Nat
  BY <1>4, LenProperties
<1>6. at \in 1 .. Len(searches[L])
  BY <1>1, <1>5
<1>7. old \in Selectable
  BY <1>4, <1>6, ElementOfSeq
<1>8. rated \in Selectable /\ new \in Selectable /\ new.status = status
  <2> HIDE DEF old
  <2>1. rated \in Selectable
    BY <1>7 DEF Selectable
  <2>2. new \in Selectable /\ new.status = status
    BY <1>7 DEF Selectable
  <2>3. QED
    BY <2>1, <2>2
<1> DEFINE s1 == [searches EXCEPT ![L][at].status = status]
<1>9. /\ s1 \in Seq(Seq(Selectable)) /\ Len(s1) = L
      /\ \A j \in 1 .. L :
           /\ Len(s1[j]) = Len(searches[j])
           /\ \A i \in 1 .. Len(searches[j]) :
                s1[j][i] = IF j = L /\ i = at THEN rated ELSE searches[j][i]
  <2>1. s1 = [searches EXCEPT ![L] = [searches[L] EXCEPT ![at] = rated]]
    OBVIOUS
  <2> HIDE DEF s1, rated
  <2>2. QED
    BY <1>1, <1>3, <1>6, <1>8, <2>1, ElementReplaced
<1>10. searches' = [s1 EXCEPT ![L][at].rank = rank]
  BY DEF Conclude
<1>11. searches' = [s1 EXCEPT ![L] = [s1[L] EXCEPT ![at] = new]]
  <2> HIDE DEF s1, rated
  <2>1. s1[L][at] = rated
    BY <1>3, <1>6, <1>9
  <2>2. searches' = [s1 EXCEPT ![L] = [s1[L] EXCEPT ![at] = [s1[L][at] EXCEPT !.rank = rank]]]
    BY <1>10
  <2>3. QED
    BY <2>1, <2>2
<1>12. /\ searches' \in Seq(Seq(Selectable)) /\ Len(searches') = L
       /\ \A j \in 1 .. L :
            /\ Len(searches'[j]) = Len(searches[j])
            /\ \A i \in 1 .. Len(searches[j]) :
                 searches'[j][i] = IF j = L /\ i = at THEN new ELSE searches[j][i]
  <2> HIDE DEF s1, rated, new
  <2>1. at \in 1 .. Len(s1[L]) /\ L \in 1 .. Len(s1)
    BY <1>3, <1>6, <1>9
  <2>2. /\ searches' \in Seq(Seq(Selectable)) /\ Len(searches') = Len(s1)
        /\ \A j \in 1 .. Len(s1) :
             /\ Len(searches'[j]) = Len(s1[j])
             /\ \A i \in 1 .. Len(s1[j]) :
                  searches'[j][i] = IF j = L /\ i = at THEN new ELSE s1[j][i]
    BY <1>8, <1>9, <1>11, <2>1, ElementReplaced
  <2>3. QED
    BY <1>9, <2>2
<1>13. /\ built' \in Seq(Seq(Made \cup {NoKernel})) /\ Len(built') = L
       /\ \A j \in 1 .. L :
            /\ Len(built'[j]) = Len(searches[j])
            /\ \A i \in 1 .. Len(searches[j]) :
                 built'[j][i] = IF j = L /\ i = at THEN k ELSE built[j][i]
  <2>1. built' = [built EXCEPT ![L] = [built[L] EXCEPT ![at] = k]]
    BY DEF Conclude
  <2>2. at \in 1 .. Len(built[L]) /\ L \in 1 .. Len(built)
    BY <1>1, <1>3, <1>6
  <2> HIDE DEF L
  <2>3. /\ built' \in Seq(Seq(Made \cup {NoKernel})) /\ Len(built') = Len(built)
        /\ \A j \in 1 .. Len(built) :
             /\ Len(built'[j]) = Len(built[j])
             /\ \A i \in 1 .. Len(built[j]) :
                  built'[j][i] = IF j = L /\ i = at THEN k ELSE built[j][i]
    BY <1>1, <2>1, <2>2, ElementReplaced
  <2>4. QED
    BY <1>1, <2>3
<1> HIDE DEF s1, new, rated, old, L
<1>14. at' = at + 1 /\ step' = "next"
  BY DEF Conclude
<1>15. Lists'
  <2>1. Len(searches') > 0 /\ at' > 0 /\ at' \in Nat
    BY <1>1, <1>12, <1>14
  <2>2. Len(built') = Len(searches') /\ \A j \in 1 .. Len(searches') : Len(built'[j]) = Len(searches'[j])
    BY <1>12, <1>13
  <2>3. exhausted' \in BOOLEAN
    BY DEF CandidateInv, Lists
  <2>4. QED
    BY <1>12, <1>13, <1>14, <2>1, <2>2, <2>3 DEF Lists, Evaluating
<1>16. Listed'
  <2>1. SUFFICES ASSUME NEW j \in 1 .. L, NEW i \in 1 .. Len(searches[j])
                 PROVE  /\ searches'[j][i].status = "unmeasured" => searches'[j][i].workers \in DOMAIN Ranks
                        /\ searches'[j][i].status = "measured" => Resident(built'[j][i])
    BY <1>12 DEF Listed, Resident
  <2>2. CASE j = L /\ i = at
    BY <1>8, <1>12, <1>13, <2>2
  <2>3. CASE ~ (j = L /\ i = at)
    <3>1. searches'[j][i] = searches[j][i] /\ built'[j][i] = built[j][i]
      BY <1>12, <1>13, <2>3
    <3>2. QED
      BY <3>1 DEF CandidateInv, Listed, L
  <2>4. QED
    BY <2>2, <2>3
<1>17. NoneLeft'
  <2>1. SUFFICES ASSUME ~ exhausted, NEW j \in 1 .. L, NEW i \in 1 .. Len(searches[j]),
                        j < L \/ i < at + 1
                 PROVE  searches'[j][i].status # "unmeasured"
    BY SMTT(30), <1>12, <1>14 DEF NoneLeft
  <2>2. CASE j = L /\ i = at
    BY <1>8, <1>12, <2>2
  <2>3. CASE ~ (j = L /\ i = at)
    <3>1. Len(searches[j]) \in Nat
      BY <1>1, ElementOfSeq, LenProperties DEF L
    <3>2. j < L \/ i < at
      BY <1>1, <1>2, <2>1, <2>3, <3>1
    <3>3. searches[j][i].status # "unmeasured"
      BY <2>1, <3>2 DEF CandidateInv, NoneLeft, L
    <3>4. QED
      BY <1>12, <2>3, <3>3
  <2>4. QED
    BY <2>2, <2>3
<1>18. Tried'
  BY <1>14 DEF Tried, Steps
<1>19. QED
  BY <1>15, <1>16, <1>17, <1>18 DEF CandidateInv

(* The next scheduler's list of candidates. *)
LEMMA CandidatesListed ==
  ASSUME CandidateInv, CacheInv, NEW c \in Clients, NextScheduler(c)
  PROVE  CandidateInv'
<1> DEFINE L == Len(searches)
<1>1. PICK plans : plans = Plans[key[c]]
  OBVIOUS
<1> DEFINE none == [i \in DOMAIN plans |-> NoKernel]
<1>2. /\ step = "scheduler" /\ step' = "next" /\ at' = 1
      /\ searches' = Append(searches, plans)
      /\ built' = Append(built, none)
      /\ exhausted' \in BOOLEAN
      /\ exhausted => exhausted'
  <2>1. exhausted \in BOOLEAN
    BY DEF CandidateInv, Lists
  <2>2. exhausted' = (exhausted \/ PlansLeftOver[key[c]])
    BY DEF NextScheduler
  <2>3. exhausted' \in BOOLEAN /\ (exhausted => exhausted')
    BY <2>1, <2>2
  <2>4. QED
    BY <1>1, <2>3 DEF NextScheduler, Working
<1>3. /\ searches \in Seq(Seq(Selectable)) /\ built \in Seq(Seq(Made \cup {NoKernel}))
      /\ Len(built) = L
      /\ \A j \in 1 .. L : Len(built[j]) = Len(searches[j])
  BY DEF CandidateInv, Lists
<1>4. L \in Nat
  BY <1>3, LenProperties
<1>5. /\ plans \in Seq(Selectable)
      /\ \A i \in DOMAIN plans : /\ plans[i].status # "measured"
                                 /\ plans[i].status = "unmeasured" => plans[i].workers \in DOMAIN Ranks
  <2>1. key[c] \in Keys
    BY DEF CacheInv, Shape
  <2>2. QED
    BY <1>1, <2>1, PlansAssumption
<1>6. DOMAIN plans = 1 .. Len(plans) /\ Len(plans) \in Nat
  BY <1>5, LenProperties
<1>7. none \in Seq(Made \cup {NoKernel}) /\ Len(none) = Len(plans)
  BY <1>6
<1> HIDE DEF none
<1>8. /\ searches' \in Seq(Seq(Selectable)) /\ Len(searches') = L + 1
      /\ \A j \in 1 .. L : searches'[j] = searches[j]
      /\ searches'[L + 1] = plans
  BY <1>2, <1>3, <1>5, AppendProperties
<1>9. /\ built' \in Seq(Seq(Made \cup {NoKernel})) /\ Len(built') = L + 1
      /\ \A j \in 1 .. L : built'[j] = built[j]
      /\ built'[L + 1] = none
  BY <1>2, <1>3, <1>7, AppendProperties
<1> HIDE DEF L
<1>10. Lists'
  <2>1. ASSUME NEW j \in 1 .. L + 1
        PROVE  Len(built'[j]) = Len(searches'[j])
    <3>1. CASE j = L + 1
      BY <1>7, <1>8, <1>9, <3>1
    <3>2. CASE j \in 1 .. L
      BY <1>3, <1>8, <1>9, <3>2
    <3>3. QED
      BY <1>4, <3>1, <3>2
  <2>2. at' \in Nat /\ at' > 0 /\ Len(searches') > 0
    BY <1>2, <1>4, <1>8
  <2>3. exhausted' \in BOOLEAN /\ step' = "next"
    BY <1>2
  <2>4. /\ searches' \in Seq(Seq(Selectable)) /\ built' \in Seq(Seq(Made \cup {NoKernel}))
        /\ Len(built') = Len(searches')
        /\ \A j \in 1 .. Len(searches') : Len(built'[j]) = Len(searches'[j])
    BY <1>8, <1>9, <2>1
  <2>5. QED
    BY <2>2, <2>3, <2>4 DEF Lists, Evaluating
<1>11. Listed'
  <2>1. SUFFICES ASSUME NEW j \in 1 .. L + 1, NEW i \in 1 .. Len(searches'[j])
                 PROVE  /\ searches'[j][i].status = "unmeasured" => searches'[j][i].workers \in DOMAIN Ranks
                        /\ searches'[j][i].status = "measured" => Resident(built'[j][i])
    BY <1>8 DEF Listed, Resident
  <2>2. CASE j = L + 1
    <3>1. searches'[j] = plans /\ i \in DOMAIN plans
      BY <1>6, <1>8, <2>2
    <3>2. QED
      BY <1>5, <3>1
  <2>3. CASE j \in 1 .. L
    <3>1. searches'[j] = searches[j] /\ built'[j] = built[j] /\ i \in 1 .. Len(searches[j])
      BY <1>8, <1>9, <2>3
    <3>2. QED
      BY <2>3, <3>1 DEF CandidateInv, Listed, L
  <2>4. QED
    BY <1>4, <2>2, <2>3
<1>12. NoneLeft'
  <2>1. SUFFICES ASSUME ~ exhausted, NEW j \in 1 .. L + 1, NEW i \in 1 .. Len(searches'[j]),
                        j < L + 1 \/ i < 1
                 PROVE  searches'[j][i].status # "unmeasured"
    BY <1>2, <1>8 DEF NoneLeft
  <2>2. Len(searches'[j]) \in Nat
    BY <1>8, ElementOfSeq, LenProperties
  <2>3. j \in 1 .. L
    BY <1>4, <2>1, <2>2
  <2>4. searches'[j] = searches[j]
    BY <1>8, <2>3
  <2>5. QED
    BY <1>2, <2>1, <2>3, <2>4 DEF CandidateInv, NoneLeft, L
<1>13. Tried'
  BY <1>2 DEF Tried, Steps
<1>14. QED
  BY <1>10, <1>11, <1>12, <1>13 DEF CandidateInv

(* A candidate that needs no measurement, or is left out and reported.     *)
LEMMA CandidatePassed ==
  ASSUME CandidateInv, NEW c, PassBy(c) \/ LeaveOut(c)
  PROVE  CandidateInv'
<1> DEFINE L == Len(searches)
<1>1. /\ step = "next" /\ at <= Len(searches[L]) /\ at' = at + 1
      /\ UNCHANGED <<step, searches, built, trial>>
      /\ \/ exhausted' = exhausted /\ searches[L][at].status # "unmeasured"
         \/ exhausted' = TRUE
  BY DEF PassBy, LeaveOut, AtCandidate, Working, Candidates, Last
<1>2. /\ searches \in Seq(Seq(Selectable)) /\ at \in Nat /\ at > 0 /\ L \in Nat
      /\ exhausted \in BOOLEAN
  BY <1>1, LenProperties DEF CandidateInv, Lists
<1>3. Lists'
  <2>1. exhausted' \in BOOLEAN
    BY <1>1, <1>2
  <2>2. at' \in Nat /\ at' > 0 /\ Len(searches) > 0
    BY <1>1, <1>2 DEF CandidateInv, Lists
  <2>3. step' = "next" /\ UNCHANGED <<searches, built>>
    BY <1>1
  <2>4. QED
    BY <2>1, <2>2, <2>3 DEF CandidateInv, Lists, Evaluating
<1>4. Listed'
  BY <1>1 DEF CandidateInv, Listed, Resident
<1>5. NoneLeft'
  <2>1. SUFFICES ASSUME ~ exhausted', NEW j \in 1 .. L, NEW i \in 1 .. Len(searches[j]),
                        j < L \/ i < at + 1
                 PROVE  searches[j][i].status # "unmeasured"
    BY <1>1 DEF NoneLeft
  <2>2. Len(searches[j]) \in Nat
    BY <1>2, ElementOfSeq, LenProperties
  <2>3. CASE j = L /\ i = at
    BY <1>1, <2>1, <2>3
  <2>4. CASE ~ (j = L /\ i = at)
    <3>1. j < L \/ i < at
      BY <1>2, <2>1, <2>2, <2>4
    <3>2. ~ exhausted
      BY <1>1, <2>1
    <3>3. QED
      BY <3>1, <3>2 DEF CandidateInv, NoneLeft
  <2>5. QED
    BY <2>3, <2>4
<1>6. Tried'
  BY <1>1 DEF CandidateInv, Tried
<1>7. QED
  BY <1>3, <1>4, <1>5, <1>6 DEF CandidateInv

(* The evaluator takes a candidate that has a plan. *)
LEMMA CandidateTaken ==
  ASSUME CandidateInv, NEW c, Evaluate(c)
  PROVE  CandidateInv'
<1> DEFINE L == Len(searches)
           old == searches[L][at]
<1>1. /\ step = "next" /\ at <= Len(searches[L]) /\ old.status = "unmeasured" /\ step' = "emit"
      /\ trial' = [workers |-> old.workers, events |-> old.workers, tries |-> AdmissionTries]
      /\ UNCHANGED <<searches, built, at, exhausted>>
  BY DEF Evaluate, AtCandidate, Working, Candidates, Last
<1>2. /\ searches \in Seq(Seq(Selectable)) /\ at \in Nat /\ at > 0 /\ L \in Nat /\ L > 0
  BY <1>1, LenProperties DEF CandidateInv, Lists
<1>3. L \in 1 .. L /\ Len(searches[L]) \in Nat
  BY <1>2, ElementOfSeq, LenProperties
<1>4. old.workers \in DOMAIN Ranks
  BY <1>1, <1>2, <1>3 DEF CandidateInv, Listed
<1> HIDE DEF old
<1>5. Tried'
  <2>1. trial' \in [workers : DOMAIN Ranks, events : DOMAIN Ranks, tries : Nat]
    BY <1>1, <1>4, CompilationAssumption
  <2>2. QED
    BY <1>1, <2>1 DEF Tried, Steps
<1>6. QED
  BY <1>1, <1>5, CandidatesKept DEF Evaluating

(* Grids of plans are positive. *)
LEMMA GridNumbers ==
  ASSUME NEW w \in DOMAIN Ranks
  PROVE  w \in Nat \ {0} /\ \A v \in 1 .. w : v \in DOMAIN Ranks
<1>1. DOMAIN Ranks = 1 .. Len(Ranks) /\ Len(Ranks) \in Nat
  BY CompilationAssumption, LenProperties
<1>2. QED
  BY <1>1

(* What fits is the smaller of two numbers. *)
LEMMA LegalIsLess ==
  ASSUME trial.workers \in Nat, NEW active \in Nat
  PROVE  /\ Legal(active) \in Nat
         /\ Legal(active) <= trial.workers /\ Legal(active) <= active * Multiprocessors
<1>1. active * Multiprocessors \in Nat
  BY CompilationAssumption
<1> DEFINE S == {trial.workers, active * Multiprocessors}
<1>2. \E x \in S : \A y \in S : x <= y
  <2>1. CASE trial.workers <= active * Multiprocessors
    BY <1>1, <2>1
  <2>2. CASE active * Multiprocessors <= trial.workers
    BY <1>1, <2>2
  <2>3. QED
    BY <1>1, <2>1, <2>2
<1>3. Legal(active) \in S /\ \A y \in S : Legal(active) <= y
  BY <1>2 DEF Legal, Min
<1>4. QED
  BY <1>1, <1>3

LEMMA CandidateAdmitted ==
  ASSUME CandidateInv, NEW c, NEW active \in 0 .. MaxActive, Admit(c, active) \/ Lower(c, active)
  PROVE  CandidateInv'
<1>1. step = "emit" /\ UNCHANGED <<searches, built, at, exhausted>>
  BY DEF Admit, Lower, EmitTrial, Working
<1>2. trial \in [workers : DOMAIN Ranks, events : DOMAIN Ranks, tries : Nat]
  BY <1>1 DEF CandidateInv, Tried
<1>3. trial.workers \in DOMAIN Ranks
  BY <1>2
<1>4. trial.workers \in Nat \ {0} /\ \A v \in 1 .. trial.workers : v \in DOMAIN Ranks
  BY <1>3, GridNumbers
<1>5. active \in Nat
  BY CompilationAssumption
<1>6. CASE Admit(c, active)
  <2> DEFINE k == MadeKernel(trial.workers, active)
  <2>1. k = [workers |-> trial.workers, emitted |-> trial.workers, events |-> trial.workers,
             active |-> active]
    BY DEF MadeKernel, EventWorkers
  <2>2. trial.workers <= active * Multiprocessors
    BY <1>4, <1>5, <1>6, LegalIsLess DEF Admit
  <2>3. active * Multiprocessors \in Nat
    BY <1>5, CompilationAssumption
  <2>4. Resident(k)
    BY <1>3, <1>4, <1>5, <2>1, <2>2, <2>3 DEF Resident, Made
  <2>5. trial' = [kernel |-> k, purpose |-> "first", left |-> 1] /\ step' = "reset"
    BY <1>6 DEF Admit, Measure
  <2> HIDE DEF k
  <2>6. Tried'
    <3>1. k \in Made
      BY <2>4 DEF Resident
    <3>2. trial' \in [kernel : Made, purpose : {"first", "teacher", "complete", "isolated"}, left : Int]
      BY <2>5, <3>1
    <3>3. trial'.kernel = k
      BY <2>5
    <3>4. Resident(trial'.kernel)
      BY <2>4, <3>3
    <3>5. Resident(trial.kernel)'
      BY <3>4 DEF Resident
    <3>6. QED
      BY <2>5, <3>2, <3>5 DEF Tried, Steps
  <2>7. QED
    BY <1>1, <2>5, <2>6, CandidatesKept DEF Evaluating
<1>7. CASE Lower(c, active)
  <2>1. /\ Legal(active) \in 1 .. trial.workers - 1 /\ step' = step
        /\ trial' = [trial EXCEPT !.workers = Legal(active), !.events = trial.workers,
                                  !.tries = @ - 1]
        /\ trial.tries > 1
    BY <1>7 DEF Lower, EventWorkers
  <2>2. Legal(active) \in DOMAIN Ranks
    BY <1>4, <2>1
  <2>3. trial' \in [workers : DOMAIN Ranks, events : DOMAIN Ranks, tries : Nat]
    <3>1. trial.tries - 1 \in Nat
      BY <1>2, <2>1
    <3>2. trial' = [workers |-> Legal(active), events |-> trial.workers, tries |-> trial.tries - 1]
      BY <1>2, <2>1
    <3>3. QED
      BY <1>3, <2>2, <3>1, <3>2
  <2>4. Tried'
    BY <1>1, <2>1, <2>3 DEF Tried, Steps
  <2>5. QED
    BY <1>1, <2>1, <2>4, CandidatesKept DEF Evaluating
<1>8. QED
  BY <1>6, <1>7

(* Calls of a candidate keep its kernel. *)
LEMMA CandidateCalled ==
  ASSUME CandidateInv, NEW c,
         \/ ResetCall(c) \/ FirstCall(c) \/ TeacherPasses(c) \/ TimedCall(c)
         \/ MakeSampler(c) \/ IsolatedCall(c)
  PROVE  CandidateInv'
<1>1. /\ step \in {"reset", "run", "sampler"} /\ step' \in {"reset", "run", "sampler"}
      /\ UNCHANGED <<searches, built, at, exhausted>>
  BY DEF ResetCall, FirstCall, TeacherPasses, TimedCall, MakeSampler, IsolatedCall, RunCall,
         Working, Again
<1>2. /\ trial \in [kernel : Made, purpose : {"first", "teacher", "complete", "isolated"}, left : Int]
      /\ Resident(trial.kernel)
  BY <1>1 DEF CandidateInv, Tried
<1>3. \/ trial' = trial
      \/ \E purpose \in {"first", "teacher", "complete", "isolated"} : \E left \in Int :
           trial' = [trial EXCEPT !.purpose = purpose, !.left = left]
  <2>1. 1 \in Int /\ Samples \in Int /\ Samples + 1 \in Int /\ trial.left - 1 \in Int
    BY <1>2, CompilationAssumption
  <2>2. CASE ResetCall(c)
    BY <2>2 DEF ResetCall
  <2>3. CASE FirstCall(c)
    BY <2>1, <2>3 DEF FirstCall, Again
  <2>4. CASE TeacherPasses(c)
    BY <2>1, <2>4 DEF TeacherPasses, Again
  <2>5. CASE TimedCall(c)
    BY <2>1, <2>5 DEF TimedCall, Again
  <2>6. CASE MakeSampler(c)
    BY <2>1, <2>6 DEF MakeSampler, Again
  <2>7. CASE IsolatedCall(c)
    BY <2>1, <2>7 DEF IsolatedCall, Again
  <2>8. QED
    BY <2>2, <2>3, <2>4, <2>5, <2>6, <2>7
<1>4. /\ trial' \in [kernel : Made, purpose : {"first", "teacher", "complete", "isolated"}, left : Int]
      /\ trial'.kernel = trial.kernel
  BY <1>2, <1>3
<1>5. Tried'
  <2>1. Resident(trial.kernel)'
    BY <1>2, <1>4 DEF Resident
  <2>2. QED
    BY <1>1, <1>4, <2>1 DEF Tried, Steps
<1>6. QED
  BY <1>1, <1>5, CandidatesKept DEF Evaluating

(* A candidate fails. *)
LEMMA CandidateRejected ==
  ASSUME CandidateInv, NEW c, NEW active,
         EvaluationFails(c) \/ Refuse(c, active) \/ CallDiffers(c) \/ NoSampler(c)
  PROVE  CandidateInv'
<1>1. Evaluating /\ UNCHANGED exhausted /\ Conclude("rejected", 0, NoKernel)
  BY DEF EvaluationFails, Refuse, CallDiffers, NoSampler, Reject, Working, RunCall, Evaluating
<1>2. QED
  BY <1>1, CandidateConcluded

(* Or has been timed. *)
LEMMA CandidateMeasured ==
  ASSUME CandidateInv, NEW c, LastIsolatedCall(c)
  PROVE  CandidateInv'
<1>1. step = "run" /\ UNCHANGED exhausted
  BY DEF LastIsolatedCall, RunCall, Working
<1>2. Resident(trial.kernel)
  BY <1>1 DEF CandidateInv, Tried
<1>3. PICK rank \in Ranks[trial.kernel.workers] : Conclude("measured", rank, trial.kernel)
  BY DEF LastIsolatedCall
<1>4. rank \in Nat
  <2>1. trial.kernel.workers \in 1 .. Len(Ranks)
    BY <1>2, CompilationAssumption, LenProperties DEF Resident
  <2>2. Ranks[trial.kernel.workers] \in SUBSET Nat
    BY <2>1, CompilationAssumption, ElementOfSeq
  <2>3. QED
    BY <2>2
<1>5. trial.kernel \in Made
  BY <1>2 DEF Resident
<1>6. Evaluating
  BY <1>1 DEF Evaluating
<1>7. QED
  BY <1>1, <1>2, <1>3, <1>4, <1>5, <1>6, CandidateConcluded

LEMMA CandidateStep ==
  ASSUME CandidateInv, CacheInv, NEW c \in Clients, Backend(c)
  PROVE  CandidateInv'
<1>1. CASE LoweringFails(c) \/ ServeHit(c)
  <2>1. UNCHANGED <<searches, built, at, exhausted, step, trial>>
    BY <1>1 DEF LoweringFails, ServeHit, searchVars
  <2>2. Tried' /\ (Evaluating' <=> Evaluating)
    BY <2>1 DEF CandidateInv, Tried, Evaluating
  <2>3. QED
    BY <2>1, <2>2, CandidatesKept DEF CandidateInv, Lists
<1>2. CASE StartSearch(c) \/ PreflightFails(c) \/ ReferenceFails(c) \/ NothingMeasured(c) \/ Finish(c)
  <2>1. /\ searches' = <<>> /\ built' = <<>> /\ at' = 0 /\ exhausted' = FALSE
        /\ step' \in {"idle", "preflight"}
    BY <1>2 DEF StartSearch, PreflightFails, ReferenceFails, NothingMeasured, Finish, Fail, ForgetSearch
  <2>2. NothingListed'
    BY <2>1 DEF NothingListed
  <2>3. (NothingListed => CandidateInv)'
    BY NothingToCheck, PTL
  <2>4. QED
    BY <2>2, <2>3
<1>3. CASE Preflight(c) \/ Reference(c)
  <2>1. /\ UNCHANGED <<searches, built, at, exhausted>> /\ searches = <<>>
        /\ step' \in {"reference", "scheduler"}
    BY <1>3 DEF Preflight, Reference, Working, CandidateInv, Lists
  <2>2. Tried'
    BY <2>1 DEF Tried, Steps
  <2>3. QED
    BY <2>1, <2>2, CandidatesKept DEF Evaluating
<1>4. CASE EndScheduler(c)
  <2>1. /\ UNCHANGED <<searches, built, at, exhausted>> /\ step' = "scheduler"
        /\ at > Len(searches[Len(searches)])
    BY <1>4 DEF EndScheduler, Working, Candidates, Last
  <2>2. Tried'
    BY <2>1 DEF Tried, Steps
  <2>3. QED
    BY <2>1, <2>2, CandidatesKept DEF Evaluating
<1>5. QED
  BY <1>1, <1>2, <1>3, <1>4, CandidatesListed, CandidatePassed, CandidateTaken, CandidateAdmitted,
     CandidateCalled, CandidateRejected, CandidateMeasured DEF Backend, Search

(* Init, and every step of the clients. *)
LEMMA CandidateAlways == Spec => []CandidateInv
<1>1. Init => CandidateInv
  <2> SUFFICES ASSUME Init PROVE CandidateInv
    OBVIOUS
  <2>1. NothingListed
    BY DEF Init, CompileInit, NothingListed
  <2>2. QED
    BY <2>1, NothingToCheck
<1>2. CandidateInv /\ CacheInv /\ [Next]_vars => CandidateInv'
  <2> SUFFICES ASSUME CandidateInv, CacheInv, [Next]_vars PROVE CandidateInv'
    OBVIOUS
  <2>1. ASSUME UNCHANGED searchVars
        PROVE  CandidateInv'
    <3>1. UNCHANGED <<searches, built, at, exhausted, step, trial>>
      BY <2>1 DEF searchVars
    <3>2. Lists' /\ Listed' /\ NoneLeft' /\ Tried'
      BY <3>1 DEF CandidateInv, Lists, Listed, NoneLeft, Tried, Evaluating, Resident
    <3>3. QED
      BY <3>2 DEF CandidateInv
  <2>2. CASE Done \/ UNCHANGED vars
    BY <2>1, <2>2 DEF Done, vars, compileVars
  <2>3. ASSUME NEW c \in Clients, Request(c) \/ Call(c) \/ Another(c)
        PROVE  CandidateInv'
    BY <2>1, <2>3 DEF Request, Call, Another
  <2>4. ASSUME NEW c \in Clients, Serve(c)
        PROVE  CandidateInv'
    BY <2>4, CandidateStep DEF Serve
  <2>5. QED
    BY <2>2, <2>3, <2>4 DEF Next
<1>3. QED
  BY <1>1, <1>2, CacheInvAlways, PTL DEF Spec

-----------------------------------------------------------------------------
(* What a search selects.                                                  *)

LEMMA LeastNumber ==
  ASSUME NEW S \in SUBSET Nat, S # {}
  PROVE  \E n \in S : \A m \in S : n <= m
<1>1. PICK n \in S : \A m \in S : <<m, n>> \notin OpToRel(<, Nat)
  BY NatLessThanWellFounded, WFMin
<1>2. ASSUME NEW m \in S
      PROVE  n <= m
  <2>1. n \in Nat /\ m \in Nat
    OBVIOUS
  <2>2. ~ (m < n)
    BY <1>1, <2>1 DEF OpToRel
  <2>3. QED
    BY <2>1, <2>2
<1>3. QED
  BY <1>2

(* Close to the fastest and the best of those: such a candidate exists.    *)
Prefers(cs, i, j) ==
  \/ cs[i].phases < cs[j].phases
  \/ (cs[i].phases = cs[j].phases /\ cs[i].rank < cs[j].rank)
  \/ (cs[i].phases = cs[j].phases /\ cs[i].rank = cs[j].rank /\ i <= j)

LEMMA PreferredExists ==
  ASSUME NEW cs, NEW C \in SUBSET Nat, C # {},
         \A i \in C : cs[i].phases \in Nat /\ cs[i].rank \in Nat
  PROVE  \E i \in C : \A j \in C : Prefers(cs, i, j)
<1> DEFINE P == {cs[i].phases : i \in C}
<1>1. P \in SUBSET Nat /\ P # {}
  OBVIOUS
<1>2. PICK p \in P : \A q \in P : p <= q
  BY <1>1, LeastNumber
<1> DEFINE C1 == {i \in C : cs[i].phases = p}
           R == {cs[i].rank : i \in C1}
<1>3. C1 # {}
  BY <1>2
<1>4. R \in SUBSET Nat /\ R # {}
  BY <1>3
<1>5. PICK r \in R : \A q \in R : r <= q
  BY <1>4, LeastNumber
<1> DEFINE C2 == {i \in C1 : cs[i].rank = r}
<1>6. C2 \in SUBSET Nat /\ C2 # {}
  BY <1>5
<1>7. PICK i \in C2 : \A j \in C2 : i <= j
  BY <1>6, LeastNumber
<1>8. ASSUME NEW j \in C
      PROVE  Prefers(cs, i, j)
  <2>1. /\ cs[i].phases = p /\ cs[i].rank = r /\ i \in C
        /\ p \in Nat /\ cs[j].phases \in Nat /\ cs[j].rank \in Nat /\ r \in Nat
    BY <1>7
  <2>2. p <= cs[j].phases
    BY <1>2
  <2>3. cs[j].phases = p => r <= cs[j].rank
    BY <1>5
  <2>4. cs[j].phases = p /\ cs[j].rank = r => i <= j
    BY <1>7
  <2> HIDE DEF P, R, C1, C2
  <2>5. QED
    BY <2>1, <2>2, <2>3, <2>4 DEF Prefers
<1>9. QED
  BY <1>7, <1>8

(* The selected candidate has been measured, no other one is faster by     *)
(* more than the noise, and none as fast has fewer phases.                 *)
Selected(cs, c) ==
  /\ c \in Measured(cs)
  /\ \A i \in Measured(cs) :
       /\ Close(cs[c].rank, cs[i].rank)
       /\ cs[i].rank <= cs[c].rank => cs[i].phases >= cs[c].phases

LEMMA ChooseSelects ==
  ASSUME NEW cs \in Seq(Selectable), Measured(cs) # {}
  PROVE  Selected(cs, Choose(cs))
<1> DEFINE M == Measured(cs)
           ranks == {cs[i].rank : i \in M}
           fastest == Min(ranks)
           close == {i \in M : Close(cs[i].rank, fastest)}
           chosen == CHOOSE i \in close : \A j \in close : Prefers(cs, i, j)
<1>1. /\ M \in SUBSET Nat
      /\ \A i \in M : cs[i].phases \in Nat /\ cs[i].rank \in Nat
  <2>1. DOMAIN cs \in SUBSET Nat
    BY LenProperties
  <2>2. \A i \in DOMAIN cs : cs[i] \in Selectable
    BY ElementOfSeq, LenProperties
  <2>3. \A i \in M : i \in DOMAIN cs
    BY DEF Measured
  <2>4. QED
    BY <2>1, <2>2, <2>3 DEF Selectable
<1> HIDE DEF M
<1>2. ranks \in SUBSET Nat /\ ranks # {}
  BY <1>1 DEF M
<1>3. fastest \in ranks /\ \A r \in ranks : fastest <= r
  <2>1. \E n \in ranks : \A m \in ranks : n <= m
    BY <1>2, LeastNumber
  <2>2. QED
    BY <2>1 DEF Min
<1>4. fastest \in Nat /\ \A i \in M : fastest <= cs[i].rank
  BY <1>2, <1>3
<1>5. PICK f \in M : fastest = cs[f].rank
  BY <1>3
<1> HIDE DEF fastest, ranks
<1>6. f \in close
  BY <1>4, <1>5 DEF Close
<1>7. close \in SUBSET Nat /\ close # {} /\ \A i \in close : i \in M
  BY <1>1, <1>6
<1>8. \A i \in close : cs[i].phases \in Nat /\ cs[i].rank \in Nat
  BY <1>1, <1>7
<1> HIDE DEF close
<1>9. \E i \in close : \A j \in close : Prefers(cs, i, j)
  BY <1>7, <1>8, PreferredExists
<1>10. chosen \in close /\ \A j \in close : Prefers(cs, chosen, j)
  BY <1>9
<1>11. Choose(cs) = chosen
  BY DEF Choose, M, ranks, fastest, close, Prefers
<1> HIDE DEF chosen
<1>12. chosen \in M /\ cs[chosen].phases \in Nat /\ cs[chosen].rank \in Nat
       /\ cs[chosen].rank * 100 <= fastest * 105
  BY <1>7, <1>8, <1>10 DEF close, Close
<1>13. ASSUME NEW i \in M
       PROVE  /\ Close(cs[chosen].rank, cs[i].rank)
              /\ cs[i].rank <= cs[chosen].rank => cs[i].phases >= cs[chosen].phases
  <2>1. cs[i].rank \in Nat /\ cs[i].phases \in Nat /\ fastest <= cs[i].rank
    BY <1>1, <1>4
  <2>2. cs[chosen].rank * 100 <= cs[i].rank * 105
    <3>1. \A a, b, d \in Nat : a * 100 <= b * 105 /\ b <= d => a * 100 <= d * 105
      OBVIOUS
    <3>2. QED
      BY <1>4, <1>12, <2>1, <3>1
  <2>3. ASSUME cs[i].rank <= cs[chosen].rank
        PROVE  cs[i].phases >= cs[chosen].phases
    <3>1. cs[i].rank * 100 <= fastest * 105
      BY <1>4, <1>12, <2>1, <2>3
    <3>2. i \in close
      BY <3>1 DEF close, Close
    <3>3. Prefers(cs, chosen, i)
      BY <1>10, <3>2
    <3>4. QED
      BY <1>12, <2>1, <3>3 DEF Prefers
  <2>4. QED
    BY <2>2, <2>3 DEF Close
<1>14. QED
  BY <1>11, <1>12, <1>13 DEF Selected, M

(* The best of the schedulers that found a plan. *)
LEMMA BestIsFound ==
  ASSUME Lists, Found # {}
  PROVE  /\ BestScheduler \in Found
         /\ \A l \in Found : Pick(BestScheduler).rank <= Pick(l).rank
<1> DEFINE F == Found
           better(j) == \A l \in F : IF l < j THEN Pick(j).rank < Pick(l).rank
                                     ELSE Pick(j).rank <= Pick(l).rank
<1>1. F \in SUBSET Nat
  BY LenProperties DEF Lists, Found
<1>2. \A j \in F : Pick(j).rank \in Nat
  <2> SUFFICES ASSUME NEW j \in F PROVE Pick(j).rank \in Nat
    OBVIOUS
  <2>1. searches[j] \in Seq(Selectable) /\ Measured(searches[j]) # {}
    BY ElementOfSeq, LenProperties DEF Lists, Found
  <2>2. Choose(searches[j]) \in DOMAIN searches[j]
    BY <2>1, ChooseSelects DEF Selected, Measured
  <2>3. Pick(j) \in Selectable
    BY <2>1, <2>2, ElementOfSeq, LenProperties DEF Pick
  <2>4. QED
    BY <2>3 DEF Selectable
<1>3. F # {}
  OBVIOUS
<1> HIDE DEF F
<1> DEFINE R == {Pick(j).rank : j \in F}
<1>4. R \in SUBSET Nat /\ R # {}
  BY <1>2, <1>3
<1>5. PICK r \in R : \A q \in R : r <= q
  BY <1>4, LeastNumber
<1> DEFINE F1 == {j \in F : Pick(j).rank = r}
<1>6. F1 \in SUBSET Nat /\ F1 # {}
  BY <1>1, <1>5
<1>7. PICK j \in F1 : \A l \in F1 : j <= l
  BY <1>6, LeastNumber
<1>8. better(j)
  <2> SUFFICES ASSUME NEW l \in F
               PROVE  IF l < j THEN Pick(j).rank < Pick(l).rank ELSE Pick(j).rank <= Pick(l).rank
    OBVIOUS
  <2>1. j \in F /\ Pick(j).rank = r /\ r \in Nat /\ Pick(l).rank \in Nat /\ l \in Nat /\ j \in Nat
    BY <1>1, <1>2, <1>7
  <2>2. r <= Pick(l).rank
    BY <1>5
  <2>3. Pick(l).rank = r => j <= l
    BY <1>7
  <2> HIDE DEF R, F1
  <2>4. QED
    BY <2>1, <2>2, <2>3
<1>9. \E i \in F : better(i)
  BY <1>7, <1>8
<1>10. BestScheduler = CHOOSE i \in F : better(i)
  <2>1. \A i : better(i) <=> \E rank \in {Pick(i).rank} : \A l \in Found :
                               IF l < i THEN rank < Pick(l).rank ELSE rank <= Pick(l).rank
    BY DEF F
  <2> HIDE DEF better
  <2>2. QED
    BY <2>1 DEF BestScheduler, F
<1>11. BestScheduler \in F /\ better(BestScheduler)
  <2> HIDE DEF better
  <2>1. QED
    BY <1>9, <1>10
<1>12. \A l \in F : Pick(BestScheduler).rank <= Pick(l).rank
  BY <1>2, <1>11
<1>13. QED
  BY <1>11, <1>12 DEF F

(* What is stored is a kernel the search made and measured. *)
LEMMA FinishStoresResident ==
  ASSUME CandidateInv, CacheInv, EntriesResident, NEW c \in Clients, Finish(c)
  PROVE  EntriesResident'
<1> DEFINE B == BestScheduler
           best == Choose(searches[B])
<1>1. Found # {} /\ Store(c, built[B][best])
  BY DEF Finish
<1>2. B \in Found
  BY <1>1, BestIsFound DEF CandidateInv
<1> HIDE DEF B
<1>3. B \in 1 .. Len(searches) /\ Measured(searches[B]) # {} /\ searches[B] \in Seq(Selectable)
  BY <1>2, ElementOfSeq, LenProperties DEF Found, CandidateInv, Lists
<1>4. best \in Measured(searches[B])
  BY <1>3, ChooseSelects DEF Selected
<1> HIDE DEF best
<1>5. best \in 1 .. Len(searches[B]) /\ searches[B][best].status = "measured"
  BY <1>3, <1>4, LenProperties DEF Measured
<1>6. Resident(built[B][best])
  BY <1>3, <1>5 DEF CandidateInv, Listed
<1>7. PICK k : k = built[B][best]
  OBVIOUS
<1>8. Resident(k) /\ entries' = [entries EXCEPT ![key[c]] = k]
  BY <1>1, <1>6, <1>7 DEF Store
<1>9. entries = [j \in Keys |-> entries[j]] /\ key[c] \in Keys
  BY DEF CacheInv, Shape
<1>10. \A j \in Keys : entries'[j] = k \/ entries'[j] = entries[j]
  BY <1>8, <1>9
<1>11. \A j \in Keys : entries'[j] = NoKernel \/ Resident(entries'[j])
  BY <1>8, <1>10 DEF EntriesResident
<1>12. QED
  BY <1>11 DEF EntriesResident, Resident

(* Nothing else touches the cache's entries. *)
LEMMA OnlyFinishStores ==
  ASSUME NEW c \in Clients, Backend(c)
  PROVE  Finish(c) \/ UNCHANGED entries
<1>1. CASE LoweringFails(c) \/ ServeHit(c) \/ StartSearch(c)
  BY <1>1 DEF LoweringFails, ServeHit, StartSearch, GiveUp, Hit, Miss
<1>2. CASE PreflightFails(c) \/ ReferenceFails(c) \/ NothingMeasured(c)
  BY <1>2 DEF PreflightFails, ReferenceFails, NothingMeasured, Fail, CompilerRaises
<1>3. CASE Preflight(c) \/ Reference(c) \/ NextScheduler(c) \/ PassBy(c) \/ LeaveOut(c)
           \/ Evaluate(c) \/ EvaluationFails(c) \/ EndScheduler(c)
  BY <1>3 DEF Preflight, Reference, NextScheduler, PassBy, LeaveOut, Evaluate, EvaluationFails,
              EndScheduler, cacheVars
<1>4. CASE \E active \in 0 .. MaxActive : Admit(c, active) \/ Lower(c, active) \/ Refuse(c, active)
  BY <1>4 DEF Admit, Lower, Refuse, cacheVars
<1>5. CASE ResetCall(c) \/ FirstCall(c) \/ CallDiffers(c) \/ TeacherPasses(c) \/ TimedCall(c)
           \/ MakeSampler(c) \/ NoSampler(c) \/ IsolatedCall(c) \/ LastIsolatedCall(c)
  BY <1>5 DEF ResetCall, FirstCall, CallDiffers, TeacherPasses, TimedCall, MakeSampler, NoSampler,
              IsolatedCall, LastIsolatedCall, Again, cacheVars
<1>6. QED
  BY <1>1, <1>2, <1>3, <1>4, <1>5 DEF Backend, Search

(* Whatever the compilers, the comparisons and the clocks answer, a kernel *)
(* that can be launched was emitted for the grid it launches with, its     *)
(* events count that grid, and the device keeps the whole grid resident:   *)
(* for any clients, keys, budgets and admission tries (_compile_plan_once, *)
(* compile_plan).                                                          *)
THEOREM EveryKernelResident == Spec => []KernelsResident
<1>1. Init => EntriesResident
  BY DEF Init, CompileInit, CacheInit, EntriesResident
<1>2. CandidateInv /\ CacheInv /\ EntriesResident /\ [Next]_vars => EntriesResident'
  <2> SUFFICES ASSUME CandidateInv, CacheInv, EntriesResident, [Next]_vars PROVE EntriesResident'
    OBVIOUS
  <2>1. ASSUME UNCHANGED entries
        PROVE  EntriesResident'
    BY <2>1 DEF EntriesResident, Resident
  <2>2. CASE Done \/ UNCHANGED vars
    BY <2>1, <2>2 DEF Done, vars, compileVars, cacheVars
  <2>3. ASSUME NEW c \in Clients, Request(c) \/ Call(c) \/ Another(c)
        PROVE  EntriesResident'
    BY <2>1, <2>3 DEF Request, Call, Another, Ask, Leave, cacheVars
  <2>4. ASSUME NEW c \in Clients, Serve(c)
        PROVE  EntriesResident'
    BY <2>1, <2>4, OnlyFinishStores, FinishStoresResident DEF Serve
  <2>5. QED
    BY <2>2, <2>3, <2>4 DEF Next
<1>3. EntriesResident => KernelsResident
  BY DEF EntriesResident, KernelsResident, Resident
<1>4. QED
  BY <1>1, <1>2, <1>3, CacheInvAlways, CandidateAlways, PTL DEF Spec

(* For any candidates, times, budgets and schedulers: the plan a search    *)
(* ends with is within the noise of every plan it measured under any       *)
(* scheduler, has the fewest phases of those of its own as fast, and       *)
(* unless something was reported left out no legal plan went unmeasured    *)
(* (search_plans, compile_post_grad).                                      *)
THEOREM SelectionIsBest == Spec => []SelectedPlan
<1>1. CandidateInv => SelectedPlan
  <2> SUFFICES ASSUME CandidateInv, NEW c \in Clients, SearchOver(c), Found # {}
               PROVE  LET best == Pick(BestScheduler)
                      IN  /\ \A j \in Found : \A i \in Measured(searches[j]) :
                               Close(best.rank, searches[j][i].rank)
                          /\ \A i \in Measured(searches[BestScheduler]) :
                               searches[BestScheduler][i].rank <= best.rank =>
                                 searches[BestScheduler][i].phases >= best.phases
                          /\ exhausted \/ \A j \in DOMAIN searches : \A i \in DOMAIN searches[j] :
                                             searches[j][i].status # "unmeasured"
    BY DEF SelectedPlan
  <2> DEFINE B == BestScheduler
  <2>1. B \in Found /\ \A l \in Found : Pick(B).rank <= Pick(l).rank
    BY BestIsFound DEF CandidateInv
  <2> HIDE DEF B
  <2>2. \A j \in Found : searches[j] \in Seq(Selectable) /\ Selected(searches[j], Choose(searches[j]))
    <3> SUFFICES ASSUME NEW j \in Found
                 PROVE  searches[j] \in Seq(Selectable) /\ Selected(searches[j], Choose(searches[j]))
      OBVIOUS
    <3>1. searches[j] \in Seq(Selectable) /\ Measured(searches[j]) # {}
      BY ElementOfSeq, LenProperties DEF Found, CandidateInv, Lists
    <3>2. QED
      BY <3>1, ChooseSelects
  <2>3. ASSUME NEW j \in Found, NEW i \in Measured(searches[j])
        PROVE  searches[j][i] \in Selectable
    BY <2>2, ElementOfSeq, LenProperties DEF Measured
  <2>4. ASSUME NEW j \in Found
        PROVE  Pick(j).rank \in Nat
    <3>1. Choose(searches[j]) \in Measured(searches[j])
      BY <2>2 DEF Selected
    <3>2. Pick(j) \in Selectable
      BY <2>3, <3>1 DEF Pick
    <3>3. QED
      BY <3>2 DEF Selectable
  <2>5. ASSUME NEW j \in Found, NEW i \in Measured(searches[j])
        PROVE  Close(Pick(B).rank, searches[j][i].rank)
    <3>1. Close(Pick(j).rank, searches[j][i].rank)
      BY <2>2 DEF Selected, Pick
    <3>2. searches[j][i].rank \in Nat
      BY <2>3 DEF Selectable
    <3>3. Pick(B).rank <= Pick(j).rank /\ Pick(B).rank \in Nat /\ Pick(j).rank \in Nat
      BY <2>1, <2>4
    <3>4. QED
      BY <3>1, <3>2, <3>3 DEF Close
  <2>6. \A i \in Measured(searches[B]) :
          searches[B][i].rank <= Pick(B).rank => searches[B][i].phases >= Pick(B).phases
    BY <2>1, <2>2 DEF Selected, Pick
  <2>7. exhausted \/ \A j \in DOMAIN searches : \A i \in DOMAIN searches[j] :
                        searches[j][i].status # "unmeasured"
    <3> SUFFICES ASSUME ~ exhausted, NEW j \in DOMAIN searches, NEW i \in DOMAIN searches[j]
                 PROVE  searches[j][i].status # "unmeasured"
      OBVIOUS
    <3>1. j \in 1 .. Len(searches)
      BY LenProperties DEF CandidateInv, Lists
    <3>2. searches[j] \in Seq(Selectable)
      BY <3>1, ElementOfSeq DEF CandidateInv, Lists
    <3>3. i \in 1 .. Len(searches[j])
      BY <3>2, LenProperties
    <3>4. step = "scheduler"
      BY DEF SearchOver, Working
    <3>5. QED
      BY <3>1, <3>3, <3>4 DEF CandidateInv, NoneLeft
  <2>8. QED
    BY <2>5, <2>6, <2>7 DEF B
<1>2. QED
  BY <1>1, CandidateAlways, PTL

=============================================================================
