------------------------------ MODULE GemmPhases ------------------------------
(***************************************************************************)
(* The phases of one table launch with tensor-core GEMMs (codegen.py,      *)
(* cutlass_gemm.py).  In every CTA warp 0 asks for tiles of A and B, the   *)
(* copies land by themselves, and the MMA warps multiply what has landed,  *)
(* through a ring of shared-memory stages with a full and an empty barrier *)
(* each.  Two things reach across phases: a CTA that has arrived at a grid *)
(* barrier loads the weights of its next tile while it waits, and the last *)
(* split of a split-K tile sums what the others published.                 *)
(*                                                                         *)
(* A phase of the plan:                                                    *)
(*   gemm     whether a GEMM runs it                                       *)
(*   tiles    output tiles (work tiles if no GEMM)                         *)
(*   splits   splits of each tile                                          *)
(*   depth    K tiles of a split                                           *)
(*   swap     whether A is the weight (swapAB)                             *)
(*   a        value A holds                                                *)
(*   output   value the phase writes                                       *)
(*   barrier  whether a grid barrier closes its interval                   *)
(***************************************************************************)
EXTENDS Integers, Sequences, FiniteSets, FiniteSetsExt

CONSTANTS
  Workers,      \* CTAs
  Phases,       \* the plan's phases
  Stages,       \* stages of a pipeline (ab_stage)
  StreamStages  \* WEIGHT_STREAM_STAGES

Cta   == 0 .. Workers - 1
Stage == 0 .. Stages - 1
Index == DOMAIN Phases

ASSUME GridAssumption   == Workers \in Nat \ {0} /\ Stages \in Nat \ {0} /\ StreamStages \in Nat
ASSUME PhasesAssumption ==
  /\ Len(Phases) \in Nat \ {0} /\ Index = 1 .. Len(Phases)
  /\ \A p \in Index : /\ Phases[p].tiles \in Nat /\ Phases[p].splits \in Nat \ {0}
                      /\ Phases[p].gemm => Phases[p].depth \in Nat \ {0}

Smaller(a, b) == IF a < b THEN a ELSE b

-----------------------------------------------------------------------------
(* What the code generator fixes. *)

Units == [p \in Index |-> Phases[p].tiles * Phases[p].splits]

Interval == [p \in Index |-> Cardinality({q \in Index : q < p /\ Phases[q].barrier})]

(* Phases of one interval run concurrently; the first of them is behind a  *)
(* barrier.                                                                *)
Opens(p) == p = 1 \/ Phases[p - 1].barrier

(* Tiles of the phases before p in its interval: p starts on the CTA where *)
(* they end.                                                               *)
Offset[p \in Index] == IF Opens(p) THEN 0 ELSE Offset[p - 1] + Units[p - 1]

Rotation == [p \in Index |-> Offset[p] % Workers]

Rotated(c, p) == (c + Workers - Rotation[p]) % Workers

(* The i-th unit of a CTA, of the static persistent tile scheduler.        *)
Unit(c, p, i) == Rotated(c, p) + i * Workers
UnitsOf == [c \in Cta |-> [p \in Index |->
              Cardinality({i \in 0 .. Units[p] : Unit(c, p, i) < Units[p]})]]
TileOf(p, u)  == u % Phases[p].tiles
SplitOf(p, u) == u \div Phases[p].tiles

Split(p) == Phases[p].gemm /\ Phases[p].splits > 1

(* Phases of one interval have their own partials and counters, which      *)
(* later intervals use again.  Counters here are in tiles, partials are    *)
(* named by counter and split.                                             *)
SplitTiles == [p \in Index |-> IF Split(p) THEN Phases[p].tiles ELSE 0]

Scratch[p \in Index] == IF Opens(p) THEN 0 ELSE Scratch[p - 1] + SplitTiles[p - 1]

Counters == UNION {Scratch[p] .. Scratch[p] + SplitTiles[p] - 1 : p \in Index}

(* A weight that a phase of the launch writes is written behind an earlier *)
(* barrier (simulate_phase_schedule).                                      *)
ASSUME WeightsAssumption ==
  \A p, q \in Index : Phases[p].gemm /\ Phases[q].output = Phases[p].a => Interval[q] < Interval[p]

(* _read_only_input: no phase of the launch writes the weight.             *)
Streamable(p) ==
  /\ Phases[p].gemm /\ Phases[p].swap
  /\ \A q \in Index : Phases[q].output # Phases[p].a

(* _weight_stream_schedule: the GEMM whose stages a CTA loads at the       *)
(* barrier that closes phase p, or 0.                                      *)
Stream ==
  [c \in Cta |-> [p \in Index |->
     LET mine  == {q \in Index : /\ Interval[q] = Interval[p] + 1
                                 /\ Phases[q].gemm /\ UnitsOf[c][q] > 0}
         first == Min(mine)
     IN  IF StreamStages > 0 /\ mine # {} /\ Streamable(first) THEN first ELSE 0]]

(* _streamed_k_tiles *)
Streamed(p) == Smaller(Phases[p].depth, Smaller(Stages, StreamStages))

-----------------------------------------------------------------------------
VARIABLES
  phase,     \* phase each CTA is at
  at,        \* "phase", "gemm", "close", "arrived", "wait" or "end"
  arrivals,  \* at the grid barriers
  \* shared memory of each CTA
  full,      \* full barriers: parity, armed?, operands landed
  empty,     \* parity of the empty barriers
  data,      \* what the stages hold
  tag,       \* phase whose weights the stages were loaded with
  copies,    \* copies on their way
  \* warp 0 and the MMA warps
  issued,    \* K tiles asked for in this phase
  streamed,  \* K tiles of the first tile whose A is already there
  read,      \* K tiles whose MMAs were issued
  finished,  \* and are over
  released,  \* and whose stage was given back
  stored,    \* units that are over
  epilogue,  \* of the unit in progress: "none", "published" or "last"
  \* global memory
  partials,  \* of each counter and split, whose accumulators
  counters,  \* arrivals of a tile's splits
  c_tiles,   \* of each phase and tile: the sums stored there
  written    \* units finished of each phase

shared == <<full, empty, data, tag, copies>>
pipe   == <<issued, streamed, read, finished, released, stored, epilogue>>
global == <<partials, counters, c_tiles, written>>
vars   == <<phase, at, arrivals, shared, pipe, global>>

FreshFull  == [s \in Stage |-> [parity |-> 0, armed |-> FALSE, landed |-> {}]]
FreshEmpty == [s \in Stage |-> 0]
Nothing    == [phase |-> 0]
Splits     == UNION {0 .. Phases[p].splits - 1 : p \in Index}

Init ==
  /\ phase = [c \in Cta |-> 1] /\ at = [c \in Cta |-> "phase"]
  /\ arrivals = 0
  /\ full = [c \in Cta |-> FreshFull] /\ empty = [c \in Cta |-> FreshEmpty]
  /\ data = [c \in Cta |-> [s \in Stage |-> [o \in {"A", "B"} |-> Nothing]]]
  /\ tag = [c \in Cta |-> 0] /\ copies = [c \in Cta |-> {}]
  /\ issued = [c \in Cta |-> 0] /\ streamed = [c \in Cta |-> 0]
  /\ read = [c \in Cta |-> 0] /\ finished = [c \in Cta |-> 0]
  /\ released = [c \in Cta |-> 0] /\ stored = [c \in Cta |-> 0]
  /\ epilogue = [c \in Cta |-> "none"]
  /\ partials = [n \in Counters |-> [s \in Splits |-> Nothing]]
  /\ counters = [n \in Counters |-> 0]
  /\ c_tiles = [p \in Index |-> [t \in 0 .. Phases[p].tiles - 1 |-> <<>>]]
  /\ written = [p \in Index |-> 0]

-----------------------------------------------------------------------------
(* The loop over the phases (megakernel source of codegen.py).             *)

Goto(c, where) == at' = [at EXCEPT ![c] = where]

(* A body that is no GEMM leaves the GEMM's shared memory alone.           *)
OtherBody(c) ==
  /\ at[c] = "phase" /\ ~ Phases[phase[c]].gemm
  /\ written' = [written EXCEPT ![phase[c]] = @ + UnitsOf[c][phase[c]]]
  /\ Goto(c, "close")
  /\ UNCHANGED <<phase, arrivals, shared, pipe, partials, counters, c_tiles>>

(* A CTA without tiles in the phase.                                       *)
SkipBody(c) ==
  /\ at[c] = "phase" /\ Phases[phase[c]].gemm /\ UnitsOf[c][phase[c]] = 0
  /\ Goto(c, "close")
  /\ UNCHANGED <<phase, arrivals, shared, pipe, global>>

(* Fault: the barriers are set up again under the copies already asked for.*)
Fresh(c) == full' = [full EXCEPT ![c] = FreshFull] /\ empty' = [empty EXCEPT ![c] = FreshEmpty]

Preloaded(c) == tag[c] = phase[c]

(* kernel: the stages loaded for this phase are taken over as they are.    *)
SetUp(c) == IF Preloaded(c) THEN UNCHANGED <<full, empty>> ELSE Fresh(c)

GemmBody(c) ==
  /\ at[c] = "phase" /\ Phases[phase[c]].gemm /\ UnitsOf[c][phase[c]] > 0
  /\ SetUp(c)
  /\ streamed' = [streamed EXCEPT ![c] = IF Preloaded(c) THEN Streamed(phase[c]) ELSE 0]
  /\ issued' = [issued EXCEPT ![c] = 0] /\ stored' = [stored EXCEPT ![c] = 0]
  /\ read' = [read EXCEPT ![c] = 0]
  /\ finished' = [finished EXCEPT ![c] = 0] /\ released' = [released EXCEPT ![c] = 0]
  /\ Goto(c, "gemm")
  /\ UNCHANGED <<phase, arrivals, data, tag, copies, epilogue, global>>

Depth(c)  == Phases[phase[c]].depth
Tiles(c)  == UnitsOf[c][phase[c]] * Depth(c)

(* The tile of the CTA's n-th K tile, and which of the tile's it is.       *)
UnitAt(c, n)  == Unit(c, phase[c], n \div Depth(c))
DepthAt(c, n) == n % Depth(c)

(* What a copy brings: A is the weight the phase is to use only once every *)
(* unit of the phase that writes it is over.                               *)
B(p, u, k) == [phase |-> p, unit |-> u, k |-> k]
A(p, u, k) == [phase |-> p, unit |-> u, k |-> k,
               current |-> \A q \in Index : Phases[q].output = Phases[p].a => written[q] = Units[q]]

Copy(stage, operand, item) == [stage |-> stage, operand |-> operand, item |-> item]

-----------------------------------------------------------------------------
(* Warp 0.                                                                 *)

(* A pipeline state's stage and parity after n advances.                   *)
StageOf(n)  == n % Stages
ParityOf(n) == (n \div Stages) % 2

(* Waiting for parity p passes once the barrier has left it behind.        *)
Passed(parity, p) == parity # p

(* producer_acquire: the producer starts with the opposite parity.         *)
MayAcquire(c, n) == Passed(empty[c][StageOf(n)], 1 - ParityOf(n))

Arm(c, n) == full' = [full EXCEPT ![c][StageOf(n)].armed = TRUE]

(* Fault: every tile takes its first weights as loaded.                    *)
HasAEveryTile(c, n) == DepthAt(c, n) < streamed[c]

(* A of the first tile's leading K tiles is already on its way.            *)
HasA(c, n) == n < Depth(c) /\ DepthAt(c, n) < streamed[c]

Produce(c) ==
  LET n == issued[c]
      b == Copy(StageOf(n), "B", B(phase[c], UnitAt(c, n), DepthAt(c, n)))
      a == Copy(StageOf(n), "A", A(phase[c], UnitAt(c, n), DepthAt(c, n)))
  IN  /\ at[c] = "gemm" /\ n < Tiles(c)
      /\ IF HasA(c, n) THEN /\ copies' = [copies EXCEPT ![c] = @ \cup {b}]
                            /\ UNCHANGED full
                       ELSE /\ MayAcquire(c, n)
                            /\ Arm(c, n)
                            /\ copies' = [copies EXCEPT ![c] = @ \cup {a, b}]
      /\ issued' = [issued EXCEPT ![c] = n + 1]
      /\ UNCHANGED <<phase, at, arrivals, empty, data, tag, streamed, read, finished, released,
                     stored, epilogue, global>>

(* A copy writes its half of the stage; the full barrier's phase completes *)
(* when it is armed and both halves are there.                             *)
Land(c) ==
  \E copy \in copies[c] :
    LET s == copy.stage
        landed == full[c][s].landed \cup {copy.operand}
    IN  /\ data' = [data EXCEPT ![c][s][copy.operand] = copy.item]
        /\ full' = [full EXCEPT ![c][s] =
                      IF @.armed /\ landed = {"A", "B"}
                        THEN [parity |-> 1 - @.parity, armed |-> FALSE, landed |-> {}]
                        ELSE [@ EXCEPT !.landed = landed]]
        /\ copies' = [copies EXCEPT ![c] = @ \ {copy}]
        /\ UNCHANGED <<phase, at, arrivals, empty, tag, pipe, global>>

(* producer_tail waits for the last stage it used, as if to use it again;  *)
(* the body ends when the MMA warps are through as well.                   *)
EndGemm(c) ==
  /\ at[c] = "gemm" /\ issued[c] = Tiles(c)
  /\ stored[c] = UnitsOf[c][phase[c]]
  /\ MayAcquire(c, issued[c] + Stages - 1)
  /\ Arm(c, issued[c] + Stages - 1)
  /\ Goto(c, "close")
  /\ UNCHANGED <<phase, arrivals, empty, data, tag, copies, pipe, global>>

-----------------------------------------------------------------------------
(* The MMA warps.  At most two K tiles are being multiplied.               *)

InUnit(c) == stored[c] * Depth(c) .. (stored[c] + 1) * Depth(c) - 1

Multiply(c) ==
  LET n == read[c]
  IN  /\ at[c] = "gemm" /\ stored[c] < UnitsOf[c][phase[c]] /\ n \in InUnit(c)
      /\ released[c] = IF DepthAt(c, n) = 0 THEN n ELSE n - 1
      /\ Passed(full[c][StageOf(n)].parity, ParityOf(n))
      /\ read' = [read EXCEPT ![c] = n + 1]
      /\ UNCHANGED <<phase, at, arrivals, shared, issued, streamed, finished, released, stored,
                     epilogue, global>>

FinishMultiply(c) ==
  /\ at[c] = "gemm" /\ finished[c] < read[c]
  /\ finished' = [finished EXCEPT ![c] = @ + 1]
  /\ UNCHANGED <<phase, at, arrivals, shared, issued, streamed, read, released, stored, epilogue,
                 global>>

(* The stage before the one just asked for, and at the end of a tile the   *)
(* last one as well.                                                       *)
MayRelease(c) == read[c] = released[c] + 2 \/ read[c] = (stored[c] + 1) * Depth(c)

Release(c) ==
  /\ at[c] = "gemm" /\ released[c] < finished[c] /\ MayRelease(c)
  /\ empty' = [empty EXCEPT ![c][StageOf(released[c])] = 1 - @]
  /\ released' = [released EXCEPT ![c] = @ + 1]
  /\ UNCHANGED <<phase, at, arrivals, full, data, tag, copies, issued, streamed, read, finished,
                 stored, epilogue, global>>

MainLoopOver(c) ==
  /\ at[c] = "gemm" /\ stored[c] < UnitsOf[c][phase[c]]
  /\ released[c] = (stored[c] + 1) * Depth(c)

-----------------------------------------------------------------------------
(* The end of a tile: store it, or publish the split's accumulators and,   *)
(* as the last split, sum all of them (_reduce_splits).                    *)

Now(c)      == Unit(c, phase[c], stored[c])
Tile(c)     == TileOf(phase[c], Now(c))
CounterOf(c) == Scratch[phase[c]] + Tile(c)
Result(p, tile, split) == [phase |-> p, tile |-> tile, split |-> split]
Own(c)      == Result(phase[c], Tile(c), SplitOf(phase[c], Now(c)))

Sums(p) == 0 .. Phases[p].splits - 1

StoreTile(c, sum) ==
  /\ c_tiles' = [c_tiles EXCEPT ![phase[c]][Tile(c)] = Append(@, sum)]
  /\ stored' = [stored EXCEPT ![c] = @ + 1]
  /\ written' = [written EXCEPT ![phase[c]] = @ + 1]
  /\ epilogue' = [epilogue EXCEPT ![c] = "none"]

Store(c) ==
  /\ MainLoopOver(c) /\ ~ Split(phase[c])
  /\ StoreTile(c, [s \in {0} |-> Own(c)])
  /\ UNCHANGED <<phase, at, arrivals, shared, issued, streamed, read, finished, released,
                 partials, counters>>

Publish(c) ==
  /\ MainLoopOver(c) /\ Split(phase[c]) /\ epilogue[c] = "none"
  /\ partials' = [partials EXCEPT ![CounterOf(c)][SplitOf(phase[c], Now(c))] = Own(c)]
  /\ epilogue' = [epilogue EXCEPT ![c] = "published"]
  /\ UNCHANGED <<phase, at, arrivals, shared, issued, streamed, read, finished, released, stored,
                 counters, c_tiles, written>>

(* Fault: the split that starts the count takes itself for the last.       *)
LastIsFirst(c, arrived) == arrived = 0

IsLast(c, arrived) == arrived = Phases[phase[c]].splits - 1

(* The splits that are not last are done with the tile.                    *)
CountSplit(c) ==
  /\ epilogue[c] = "published"
  /\ counters' = [counters EXCEPT ![CounterOf(c)] = @ + 1]
  /\ IF IsLast(c, counters[CounterOf(c)])
       THEN /\ epilogue' = [epilogue EXCEPT ![c] = "last"]
            /\ UNCHANGED <<stored, written>>
       ELSE /\ epilogue' = [epilogue EXCEPT ![c] = "none"]
            /\ stored' = [stored EXCEPT ![c] = @ + 1]
            /\ written' = [written EXCEPT ![phase[c]] = @ + 1]
  /\ UNCHANGED <<phase, at, arrivals, shared, issued, streamed, read, finished, released,
                 partials, c_tiles>>

(* Fault: the counter is left as it is.                                    *)
KeepCounter(c) == UNCHANGED counters

ResetCounter(c) == counters' = [counters EXCEPT ![CounterOf(c)] = 0]

SumSplits(c) ==
  /\ epilogue[c] = "last"
  /\ StoreTile(c, [s \in Sums(phase[c]) |-> partials[CounterOf(c)][s]])
  /\ ResetCounter(c)
  /\ UNCHANGED <<phase, at, arrivals, shared, issued, streamed, read, finished, released, partials>>

-----------------------------------------------------------------------------
(* The end of a phase.                                                     *)

NextPhase(c) ==
  IF phase[c] = Len(Phases) THEN Goto(c, "end") /\ UNCHANGED phase
  ELSE Goto(c, "phase") /\ phase' = [phase EXCEPT ![c] = @ + 1]

Continue(c) ==
  /\ at[c] = "close" /\ ~ Phases[phase[c]].barrier
  /\ NextPhase(c)
  /\ UNCHANGED <<arrivals, shared, pipe, global>>

Arrive(c) ==
  /\ at[c] = "close" /\ Phases[phase[c]].barrier
  /\ arrivals' = arrivals + 1
  /\ Goto(c, IF Stream[c][phase[c]] = 0 THEN "wait" ELSE "arrived")
  /\ UNCHANGED <<phase, shared, pipe, global>>

(* preload_table, for the CTA's first tile of the phase its entry names.   *)
Preload(c) ==
  LET p == Stream[c][phase[c]]
  IN  /\ at[c] = "arrived"
      /\ full' = [full EXCEPT ![c] = [s \in Stage |-> [FreshFull[s] EXCEPT !.armed = s < Streamed(p)]]]
      /\ empty' = [empty EXCEPT ![c] = FreshEmpty]
      /\ copies' = [copies EXCEPT ![c] =
                      @ \cup {Copy(k, "A", A(p, Unit(c, p, 0), k)) : k \in 0 .. Streamed(p) - 1}]
      /\ tag' = [tag EXCEPT ![c] = p]
      /\ Goto(c, "wait")
      /\ UNCHANGED <<phase, arrivals, data, pipe, global>>

Wait(c) ==
  /\ at[c] = "wait"
  /\ arrivals >= (Interval[phase[c]] + 1) * Workers
  /\ NextPhase(c)
  /\ UNCHANGED <<arrivals, shared, pipe, global>>

CtaStep(c) ==
  \/ OtherBody(c) \/ SkipBody(c) \/ GemmBody(c) \/ EndGemm(c)
  \/ Produce(c) \/ Multiply(c) \/ FinishMultiply(c) \/ Release(c)
  \/ Store(c) \/ Publish(c) \/ CountSplit(c) \/ SumSplits(c)
  \/ Continue(c) \/ Arrive(c) \/ Preload(c) \/ Wait(c)

Ended == \A c \in Cta : at[c] = "end"

Done == Ended /\ UNCHANGED vars

Next == (\E c \in Cta : CtaStep(c) \/ Land(c)) \/ Done

(* Every CTA is resident, and copies land.                                 *)
Spec == Init /\ [][Next]_vars /\ \A c \in Cta : WF_vars(CtaStep(c)) /\ WF_vars(Land(c))

-----------------------------------------------------------------------------
(* Correctness *)

(* While a stage is multiplied it holds the two operands of that K tile of *)
(* that unit, the weight as its producer left it: nothing overwrites it,   *)
(* and the weights loaded at the barrier before are those of this phase.   *)
Operands(p, u, k) ==
  [o \in {"A", "B"} |-> IF o = "A" THEN [phase |-> p, unit |-> u, k |-> k, current |-> TRUE] ELSE B(p, u, k)]

OperandsRight ==
  \A c \in Cta : at[c] = "gemm" =>
    \A n \in finished[c] .. read[c] - 1 :
      data[c][StageOf(n)] = Operands(phase[c], UnitAt(c, n), DepthAt(c, n))

(* What is stored for a tile is the sum of all its splits, of this phase,  *)
(* once, although the splits run on different CTAs and later intervals use *)
(* their scratch again; behind the barrier that closes the interval every  *)
(* tile is stored.                                                         *)
Behind(p) ==
  Ended \/ \E c \in Cta : at[c] = "phase" /\ Interval[p] < Interval[phase[c]]

SplitsSummed ==
  \A p \in Index : Phases[p].gemm =>
    \A t \in DOMAIN c_tiles[p] :
      \/ c_tiles[p][t] = <<[s \in Sums(p) |-> Result(p, t, s)]>>
      \/ c_tiles[p][t] = <<>> /\ ~ Behind(p)

(* When all CTAs have come to a barrier every counter is back at zero, for *)
(* the next interval and the next launch, which nobody clears them for.    *)
AtBarrier ==
  \A c, d \in Cta : /\ at[c] \in {"arrived", "wait", "end"}
                    /\ Interval[phase[c]] = Interval[phase[d]]

CountersRest == AtBarrier => \A n \in Counters : counters[n] = 0

(* No CTA waits for a stage, a copy or a barrier forever.                  *)
PhasesEnd == <>Ended
=============================================================================
