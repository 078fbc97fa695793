----------------------------- MODULE TableLaunch -----------------------------
(***************************************************************************)
(* One runtime state of a table launch (compiler._RuntimeState), the CUDA  *)
(* stream it feeds and the generated kernel's prologue and barriers.       *)
(*                                                                         *)
(* Every call binds the plan's values to tensors (Bindings).  The addresses*)
(* of weights and workspace are uploaded to the device's address table when*)
(* they change; those of the other slots go with each launch.              *)
(*                                                                         *)
(* The host numbers its launches; launch n finds the addresses of its      *)
(* boundary tensors in ring entry n % Ring, stamped with n.  The kernel    *)
(* does not receive n: it reads a call counter on the device, which block  *)
(* 0 advances, so the host's _calls has to mirror that counter through     *)
(* launches prepared ahead, CUDA graph replays and resets of the words.    *)
(*                                                                         *)
(* The host is one thread (runtime_lock); the device runs the stream's     *)
(* operations in order, and the CTAs of a kernel interleave freely.  The   *)
(* arrival word is the one of CountingBarrier.                             *)
(***************************************************************************)
EXTENDS Bindings

CONSTANTS
  Models,            \* the graphs a plan may be of
  Arguments,         \* the inputs of a call: the tensor of each graph input
  Workers,           \* CTAs of the cooperative launch (plan.launch.grid_size)
  Epochs,            \* barriers of one call, the address barrier included
  Ring,              \* entries of the address ring (DYNAMIC_ADDRESS_RING)
  MaxInt,            \* largest value of a device word (2^31 - 1 in the code)
  MaxCalls,          \* bound on the history: launches and replays
  LaunchesPerGraph,  \* launches of this state one graph captured
  CaptureMayWrap     \* a capture may be the call that wraps next_epoch

ASSUME SizesAssumption ==
  /\ Workers \in Nat \ {0} /\ Epochs \in Nat \ {0} /\ Ring \in Nat \ {0}
  /\ MaxInt \in Nat /\ Epochs * Workers <= MaxInt /\ MaxCalls \in Nat
  /\ LaunchesPerGraph \in Nat \ {0}

(* A tensor for every input.  One object is one tensor.                    *)
ASSUME ArgumentsAssumption ==
  /\ \A g \in Models : \A inputs \in Arguments : DOMAIN inputs = ToSet(g.inputs)
  /\ \A inputs \in Arguments : \A v \in DOMAIN inputs : inputs[v].start \in Int
  /\ \A first, second \in Arguments : \A v \in DOMAIN first \cap DOMAIN second :
       first[v].id = second[v].id => first[v] = second[v]

ASSUME SwitchAssumption == CaptureMayWrap \in BOOLEAN

Cta     == 0 .. Workers - 1
Entries == 0 .. Ring - 1

NoAddress == <<<<"none", 0>>, 0>>

VARIABLES
  \* the runtime state and its callable, on the host
  owner,      \* "callable" or "sampler" (_isolated_kernel_samples): who calls
  calls,      \* _calls
  unrun,      \* _prepared_calls - _calls_run
  tokens,     \* prepared launches the host has yet to run, oldest first
  nextEpoch,  \* the callable's next_epoch
  plan,       \* the graph of the state's plan, its bindings and columns
  bound,      \* what the last binding left: _table_rebind, _slot_addresses
  mirror,     \* _address_mirror, the static addresses last uploaded
  graph,      \* captured: none, or whether a reset was captured with it
  captured,   \* the addresses in its ring
  made,       \* history: launches prepared and graphs replayed
  \* memory both see
  ring,       \* ring entries: stamp and addresses of the dynamic slots
  stream,     \* operations enqueued and not finished; the head is running
  \* the device
  word,       \* ready[-1], the call counter
  counter,    \* ready[workers + 1], arrivals since the last reset
  table,      \* the device address table
  pc,         \* where in the kernel each CTA is
  call,       \* each CTA's copy of the call counter
  done,       \* barriers of this kernel each CTA has left
  trapped     \* the kernel has trapped: the context is lost

binding == <<plan, bound, mirror>>
counts  == <<calls, unrun, nextEpoch>>
host   == <<owner, counts, tokens, binding, graph, captured, made, ring>>
device == <<word, counter, table, pc, call, done, trapped>>
vars   == <<host, stream, device>>

Init ==
  /\ owner \in {"callable", "sampler"}
  /\ calls = 0 /\ unrun = 0 /\ tokens = <<>>
  /\ nextEpoch = 0 /\ graph = "none" /\ captured = <<>> /\ made = 0
  /\ plan \in {MakePlan(g) : g \in Models}
  /\ bound = Unbound /\ mirror = <<>>
  /\ ring = [e \in Entries |-> [stamp |-> 0, addresses |-> <<>>]]
  /\ stream = <<>>
  /\ word = 0 /\ counter = 0 /\ table = <<>>
  /\ pc = [c \in Cta |-> "start"]
  /\ call = [c \in Cta |-> 0]
  /\ done = [c \in Cta |-> 0]
  /\ trapped = FALSE

-----------------------------------------------------------------------------
(* The host. *)

(* What the host enqueues: resets of the words, uploads of the table, and  *)
(* kernels, with the addresses they should find (a history).               *)
Reset == [op |-> "reset"]
Upload(addresses)     == [op |-> "upload", addresses |-> addresses]
Launch(n, meant)      == [op |-> "launch", number |-> n, meant |-> meant]
Replayed(graphs)      == [op |-> "replay", addresses |-> graphs.addresses, meant |-> graphs.meant]
IsKernel(entry)       == entry.op \in {"launch", "replay"}

(* _wrap_calls: the next call's last target would pass int32. *)
MustWrap == (calls + 1) * Epochs * Workers > MaxInt

(* It raises while launches are prepared, and otherwise enqueues a reset.  *)
MayWrap     == MustWrap => unrun = 0
WrappedCall == IF MustWrap THEN 0 ELSE calls
WrappedOps  == IF MustWrap THEN <<Reset>> ELSE <<>>

(* The event of an entry: its last launch has not finished.                *)
Busy(e) == \E i \in DOMAIN stream : stream[i].op = "launch" /\ stream[i].number % Ring = e

(* How many launches are prepared ahead: a sampler prepares a ring full    *)
(* before it runs the first, the callable one.                             *)
Ahead == IF owner = "sampler" THEN Ring ELSE 1

(* rebind, and for a new state create and _prepare_table_rebind.  A sampler*)
(* creates a state for itself and never rebinds it.                        *)
BoundBy(inputs, i) ==
  IF owner = "sampler" /\ bound # Unbound THEN bound
  ELSE Rebind(plan.graph, plan.bindings, bound, inputs, i)

(* The table after it: what is uploaded, and what goes with the launch.    *)
Resolved(now) == [place \in Places(plan) |-> now.addresses[SlotAt(plan, place)]]
Static(now)   == [place \in Places(plan) |->
                    IF place \in DynamicPlaces(plan) THEN NoAddress ELSE Resolved(now)[place]]
Dynamic(now)  == [place \in DynamicPlaces(plan) |-> Resolved(now)[place]]

(* _table_arguments uploads the static addresses if one has changed.       *)
Uploads(now) == IF Static(now) = mirror THEN <<>> ELSE <<Upload(Static(now))>>

(* Where the kernel of a call with these inputs should find its operands.  *)
MeantBy(inputs, i) ==
  [place \in ColumnPlaces(plan) |->
     Meant(plan, plan.bindings[SlotAt(plan, place)].value, inputs, i)]

(* prepare_launch: launch n with what the call has bound.  Waiting for the *)
(* entry's event only lets the stream drain, so all of it is one step.     *)
PrepareLaunch(inputs, n, now) ==
  /\ ~Busy(n % Ring)
  /\ ring' = [ring EXCEPT ![n % Ring] = [stamp |-> n, addresses |-> Dynamic(now)]]
  /\ calls' = n + 1
  /\ tokens' = Append(tokens, Launch(n, MeantBy(inputs, now.call)))
  /\ unrun' = unrun + 1
  /\ bound' = now
  /\ mirror' = Static(now)
  /\ stream' = stream \o WrappedOps \o Uploads(now)

Prepare(inputs) ==
  /\ made < MaxCalls
  /\ Len(tokens) < Ahead
  /\ MayWrap
  /\ owner = "sampler" /\ bound # Unbound => inputs = bound.inputs
  /\ PrepareLaunch(inputs, WrappedCall, BoundBy(inputs, made + 1))
  /\ made' = made + 1
  /\ UNCHANGED <<owner, nextEpoch, plan, graph, captured, device>>

(* The allocation of an output raises in _fast_table_rebind: the pointers  *)
(* that were read again stay, the inputs known are those of the last call. *)
(* Only FailingSpec takes this step.                                       *)
BindingFails(inputs) ==
  /\ owner = "callable" /\ tokens = <<>> /\ bound.traced
  /\ bound' = [bound EXCEPT !.pointers = Reread(bound, inputs)]
  /\ UNCHANGED <<owner, counts, tokens, plan, mirror, graph, captured, made, ring, stream, device>>

EpochWraps == nextEpoch + Epochs > MaxInt - Epochs

(* The end of forward: the callable's own epoch, which a table launch only *)
(* uses to reset the words (reset_ready) once it runs out.                 *)
AdvanceEpoch ==
  nextEpoch' = IF EpochWraps THEN 0 ELSE nextEpoch + Epochs

(* run_launch, and for the callable the rest of forward.                   *)
RunLaunch ==
  /\ tokens # <<>>
  /\ tokens' = Tail(tokens)
  /\ unrun' = unrun - 1
  /\ IF owner = "sampler"
       THEN stream' = Append(stream, Head(tokens)) /\ UNCHANGED <<calls, nextEpoch>>
       ELSE /\ AdvanceEpoch
            /\ IF EpochWraps
                 THEN stream' = stream \o <<Head(tokens), Reset>> /\ calls' = 0
                 ELSE stream' = Append(stream, Head(tokens)) /\ UNCHANGED calls
  /\ UNCHANGED <<owner, binding, graph, captured, made, ring, device>>

(* The launcher raises: nothing is enqueued, and the exception leaves the  *)
(* state as prepare_launch left it.  Only FailingSpec takes this step.     *)
LaunchFails ==
  /\ owner = "callable"
  /\ tokens # <<>>
  /\ tokens' = Tail(tokens)
  /\ UNCHANGED <<owner, counts, binding, graph, captured, made, ring, stream, device>>

(* What a capture binds, and the addresses that go to the graph's ring.    *)
CaptureBinding(now) ==
  /\ bound' = now
  /\ captured' = [addresses |-> Dynamic(now), meant |-> MeantBy(now.inputs, now.call)]
  /\ Uploads(now) = <<>>

(* forward while the stream captures, with the arguments of the last call, *)
(* which GraphedCall made to warm up, and outputs of its own.  The launch  *)
(* goes to the graph with a ring stamped -1; forward still advances the    *)
(* epoch, and a reset it does then is captured as well.  An upload cannot  *)
(* be captured.                                                            *)
Capture ==
  /\ owner = "callable"
  /\ graph = "none" /\ made > 0 /\ tokens = <<>>
  /\ EpochWraps => CaptureMayWrap
  /\ AdvanceEpoch
  /\ graph' = IF EpochWraps THEN "launch and reset" ELSE "launch"
  /\ calls' = IF EpochWraps THEN 0 ELSE calls
  /\ CaptureBinding(BoundBy(bound.inputs, MaxCalls + 1))
  /\ UNCHANGED <<owner, unrun, tokens, plan, mirror, made, ring, stream, device>>

(* What a replay enqueues: every launch the graph captured.                *)
ReplayedOps ==
  [i \in 1 .. LaunchesPerGraph |-> Replayed(captured)]
    \o (IF graph = "launch and reset" THEN <<Reset>> ELSE <<>>)

(* Fault: a replay is not counted.                                         *)
ReplayUncounted ==
  /\ graph # "none" /\ made < MaxCalls /\ tokens = <<>>
  /\ made' = made + 1
  /\ stream' = stream \o ReplayedOps
  /\ UNCHANGED <<owner, counts, tokens, binding, graph, captured, ring, device>>

(* GraphedCall.__call__: graph_replayed once for the state, then the graph.*)
Replay ==
  /\ graph # "none" /\ made < MaxCalls /\ tokens = <<>>
  /\ MayWrap
  /\ calls' = WrappedCall + 1
  /\ made' = made + 1
  /\ stream' = stream \o WrappedOps \o ReplayedOps
  /\ UNCHANGED <<owner, unrun, tokens, nextEpoch, binding, graph, captured, ring, device>>

(* The host may make no further call. *)
HostDone ==
  /\ tokens = <<>> /\ stream = <<>>
  /\ UNCHANGED vars

-----------------------------------------------------------------------------
(* The stream and the kernel at its head. *)

(* runtime.reset_ready *)
ResetReady ==
  /\ stream # <<>> /\ Head(stream).op = "reset"
  /\ counter' = 0
  /\ word' = 0
  /\ stream' = Tail(stream)
  /\ UNCHANGED <<host, table, pc, call, done, trapped>>

(* A copy to the address table, ordered with the launches around it.       *)
UploadTable ==
  /\ stream # <<>> /\ Head(stream).op = "upload"
  /\ table' = Head(stream).addresses
  /\ stream' = Tail(stream)
  /\ UNCHANGED <<host, word, counter, pc, call, done, trapped>>

Running(c, at) ==
  /\ stream # <<>> /\ IsKernel(Head(stream))
  /\ pc[c] = at /\ ~trapped

Goto(c, at) == pc' = [pc EXCEPT ![c] = at]

ReadCall(c) ==
  /\ Running(c, "start")
  /\ call' = [call EXCEPT ![c] = word]
  /\ Goto(c, IF c = 0 THEN "check" ELSE "arrive")
  /\ UNCHANGED <<host, stream, word, counter, table, done, trapped>>

(* Fault: a graph's ring carries a stamp like any other.                   *)
RowAlwaysStamped(c) ==
  IF Head(stream).op = "replay" THEN [stamp |-> 0, addresses |-> Head(stream).addresses]
                                ELSE ring[call[c] % Ring]

(* The kernel reads the ring it was launched with: the eager one, or one   *)
(* its graph owns, every entry of which is stamped -1.                     *)
Row(c) ==
  IF Head(stream).op = "replay" THEN [stamp |-> -1, addresses |-> Head(stream).addresses]
                                ELSE ring[call[c] % Ring]

Check ==
  /\ Running(0, "check")
  /\ IF Row(0).stamp \in {call[0], -1}
       THEN Goto(0, "copy") /\ UNCHANGED trapped
       ELSE trapped' = TRUE /\ UNCHANGED pc
  /\ UNCHANGED <<host, stream, word, counter, table, call, done>>

Copy ==
  /\ Running(0, "copy")
  /\ table' = Over(Row(0).addresses, table)
  /\ Goto(0, "arrive")
  /\ UNCHANGED <<host, stream, word, counter, call, done, trapped>>

Arrive(c) ==
  /\ Running(c, "arrive")
  /\ counter' = counter + 1
  /\ Goto(c, "wait")
  /\ UNCHANGED <<host, stream, word, table, call, done, trapped>>

Target(c) == (call[c] * Epochs + done[c] + 1) * Workers

Onward(barriers) == IF barriers = Epochs THEN "end" ELSE "arrive"

(* Fault: a wait for equality, which a CTA can miss.                       *)
WaitExactly(c) ==
  /\ Running(c, "wait")
  /\ counter = Target(c)
  /\ done' = [done EXCEPT ![c] = @ + 1]
  /\ Goto(c, IF c = 0 /\ done[c] = 0 THEN "advance" ELSE Onward(done[c] + 1))
  /\ UNCHANGED <<host, stream, word, counter, table, call, trapped>>

(* Barrier 0 is the address barrier.  The phases, which read the address   *)
(* table, run after it, between the later barriers.                        *)
Wait(c) ==
  /\ Running(c, "wait")
  /\ counter >= Target(c)
  /\ done' = [done EXCEPT ![c] = @ + 1]
  /\ Goto(c, IF c = 0 /\ done[c] = 0 THEN "advance" ELSE Onward(done[c] + 1))
  /\ UNCHANGED <<host, stream, word, counter, table, call, trapped>>

Advance ==
  /\ Running(0, "advance")
  /\ word' = call[0] + 1
  /\ Goto(0, Onward(done[0]))
  /\ UNCHANGED <<host, stream, counter, table, call, done, trapped>>

KernelEnds ==
  /\ \A c \in Cta : Running(c, "end")
  /\ stream' = Tail(stream)
  /\ pc' = [c \in Cta |-> "start"]
  /\ done' = [c \in Cta |-> 0]
  /\ UNCHANGED <<host, word, counter, table, call, trapped>>

CtaStep(c) ==
  \/ ReadCall(c) \/ Arrive(c) \/ Wait(c)
  \/ c = 0 /\ (Check \/ Copy \/ Advance)

DeviceStep == ResetReady \/ UploadTable \/ KernelEnds \/ (\E c \in Cta : CtaStep(c))

HostStep == (\E inputs \in Arguments : Prepare(inputs)) \/ RunLaunch \/ Capture \/ Replay

Next == HostStep \/ HostDone \/ DeviceStep

Spec == Init /\ [][Next]_vars

HostFails == LaunchFails \/ (\E inputs \in Arguments : BindingFails(inputs))

FailingSpec == Init /\ [][Next \/ HostFails]_vars

(* The device runs what is enqueued, and every CTA of a cooperative launch *)
(* is resident.  Nothing makes the host call again.                        *)
Fairness ==
  /\ WF_vars(ResetReady) /\ WF_vars(UploadTable) /\ WF_vars(KernelEnds)
  /\ \A c \in Cta : WF_vars(CtaStep(c))

FairSpec == Spec /\ Fairness

-----------------------------------------------------------------------------
(* Correctness *)

(* An address for each of these places.                                    *)
IsAddresses(addresses, places) ==
  /\ DOMAIN addresses = places
  /\ \A place \in places : addresses[place][2] \in Int

IsOp(entry) ==
  \/ entry = Reset
  \/ entry.op = "upload" /\ IsAddresses(entry.addresses, Places(plan))
  \/ entry.op = "launch" /\ entry.number \in Nat /\ IsAddresses(entry.meant, ColumnPlaces(plan))
  \/ entry.op = "replay" /\ IsAddresses(entry.addresses, DynamicPlaces(plan))

TypeOK ==
  /\ owner \in {"callable", "sampler"}
  /\ calls \in Nat /\ unrun \in Nat /\ made \in 0 .. MaxCalls
  /\ \A i \in DOMAIN tokens : tokens[i].op = "launch" /\ IsOp(tokens[i])
  /\ Len(tokens) <= unrun
  /\ nextEpoch \in 0 .. MaxInt
  /\ bound = Unbound \/ IsAddresses(bound.addresses, DOMAIN plan.bindings)
  /\ mirror = <<>> \/ IsAddresses(mirror, Places(plan))
  /\ graph \in {"none", "launch", "launch and reset"}
  /\ \A e \in Entries : ring[e].stamp \in Nat
  /\ \A i \in DOMAIN stream : IsOp(stream[i])
  /\ word \in Nat /\ counter \in 0 .. MaxInt
  /\ table = <<>> \/ IsAddresses(table, Places(plan))
  /\ pc \in [Cta -> {"start", "check", "copy", "arrive", "wait", "advance", "end"}]
  /\ call \in [Cta -> Nat]
  /\ done \in [Cta -> 0 .. Epochs]
  /\ trapped \in BOOLEAN

(* Every phase reads and writes through the addresses its own call means:  *)
(* once a CTA is past the address barrier, each column of a phase has its  *)
(* operand where the graph says it lies in the tensors of that call,       *)
(* whatever was bound from roots, prepared, uploaded or replayed before.   *)
RightAddresses ==
  \A c \in Cta : done[c] > 0 =>
    \A place \in ColumnPlaces(plan) : table[place] = Head(stream).meant[place]

(* The kernel never meets a ring entry with another call's stamp, which it *)
(* would answer by trapping and losing the context: wraps and replays keep *)
(* the number a launch was stamped with the number the kernel reads.       *)
NoTrap == ~trapped

(* What the runtime state says of _calls: "Mirror of the device call       *)
(* counter; it is the next launch's number."  It is held to whenever the   *)
(* stream has drained, after any mix of launches, replays and resets.      *)
Mirror == stream = <<>> /\ tokens = <<>> => calls = word

(* prepare_launch never rewrites a ring entry that an enqueued launch has  *)
(* yet to read, with launches prepared ahead and numbers restarting at 0.  *)
EntriesIntact ==
  \A i \in DOMAIN stream :
    stream[i].op = "launch" /\ (i = 1 => pc[0] \in {"start", "check", "copy"})
      => ring[stream[i].number % Ring].stamp = stream[i].number

(* All CTAs of a kernel number their barriers from the same call, although *)
(* block 0 advances the counter in the kernel that reads it.               *)
SameCall == \A c, d \in Cta : pc[c] # "start" /\ pc[d] # "start" => call[c] = call[d]

(* The target a CTA waits for, (ordinal + 1) * workers, never passes int32:*)
(* _wrap_calls has reset in time, for eager launches and replays alike.    *)
TargetsFit == \A c \in Cta : pc[c] = "wait" => Target(c) <= MaxInt

(* What the host enqueues ends: no CTA is left at a barrier of a kernel    *)
(* whose other CTAs number it differently, or that a reset has cleared.    *)
StreamDrains == stream # <<>> ~> stream = <<>>

=============================================================================
