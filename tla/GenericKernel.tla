---------------------------- MODULE GenericKernel ----------------------------
(***************************************************************************)
(* The bodies of src/src/megabake/bodies/cuda/generic.py running the       *)
(* programs of a graph: CTAs take tiles in strides of the grid, and the    *)
(* warps of a CTA share one scratch row per phase of a reduction.  A model *)
(* warp has one lane, so thread and warp are the same number.  Bodies run  *)
(* one after another; what phases and barriers promise is MegaKernel's.    *)
(***************************************************************************)
EXTENDS BodySelection, Frontend, Aten, Bags

CONSTANTS
  Graphs,             \* captured graphs
  Workers,            \* CTAs in the grid
  Threads,            \* threads of a CTA
  ElementsPerThread,  \* MAP_ELEMENTS_PER_THREAD
  ReductionChunk      \* reduction_tile of a contraction

ASSUME GenericAssumption ==
  {Workers, Threads, ElementsPerThread, ReductionChunk} \subseteq Nat \ {0}

VARIABLES
  source,   \* the captured graph
  graph,    \* the graph that is imported
  plan,     \* its bodies in order
  phase,    \* the body that runs
  indices,  \* what the graph's index inputs hold
  memory,   \* storage -> address -> element
  tile,     \* CTA -> the tile of a map or contraction it runs next
  stage,    \* CTA -> warp -> sync_threads arrivals in this phase
  scratch,  \* CTA -> warp -> partial of the row in flight
  trapped   \* a kernel trap ended the call

vars == <<source, graph, plan, phase, indices, memory, tile, stage, scratch, trapped>>

CTAs == 0 .. Workers - 1
Lanes == 0 .. Threads - 1
Running == ~trapped /\ phase \in DOMAIN plan
Body == plan[phase]
Current == Body.program

-----------------------------------------------------------------------------
(* Index arithmetic of the bodies. *)

\* Output axes from the one that moves fastest to the slowest; axes of
\* stride zero come last.
AxisOrder(shape, strides) ==
    SetToSortSeq(DOMAIN shape,
        LAMBDA i, j : \/ strides[i] # 0 /\ strides[j] = 0
                      \/ /\ (strides[i] = 0) = (strides[j] = 0)
                         /\ \/ strides[i] < strides[j]
                            \/ strides[i] = strides[j] /\ i < j)

\* The coordinates of a linear index; an index past the end wraps.
Coordinates(program, linear) ==
    LET order == AxisOrder(program.shape, program.strides)
        Before(i) == LET k == SelectInSeq(order, LAMBDA a : a = i)
                     IN  Product([j \in 1 .. k - 1 |-> program.shape[order[j]]])
    IN  [i \in DOMAIN program.shape |-> (linear \div Before(i)) % program.shape[i]]

\* One reduction runs per coordinate of the axes its combine reads; the
\* other output axes only take the post expression.
RowAxes(program) ==
    SetToSortSeq({i \in DOMAIN program.shape :
                     i \in ExpressionAxes(program, program.combine)}, <)
PostAxes(program) == SetToSortSeq(DOMAIN program.shape \ Range(RowAxes(program)), <)
Sizes(program, axes) == [k \in DOMAIN axes |-> program.shape[axes[k]]]

\* Output coordinates of a row and of the place of an element in that row.
Placed(program, row, post) ==
    LET rowAt == Unravel(Sizes(program, RowAxes(program)), row)
        postAt == Unravel(Sizes(program, PostAxes(program)), post)
    IN  IF PostAxes(program) = <<>> THEN Coordinates(program, row)
        ELSE [i \in DOMAIN program.shape |->
                IF i \in Range(RowAxes(program))
                THEN rowAt[SelectInSeq(RowAxes(program), LAMBDA a : a = i)]
                ELSE postAt[SelectInSeq(PostAxes(program), LAMBDA a : a = i)]]

\* Output coordinates with the reduction coordinate r0 = r.
WithReduction(at, r) == [i \in {0} \cup DOMAIN at |-> IF i = 0 THEN r ELSE at[i]]

TileElements(program) ==
    Threads * IF program.family \in MapFamilies THEN ElementsPerThread ELSE 1

TileCount(program) ==
    IF program.family = "reduction" THEN Product(Sizes(program, RowAxes(program)))
    ELSE (Product(program.shape) + TileElements(program) - 1) \div TileElements(program)

-----------------------------------------------------------------------------
(* What the bodies read and write. *)

OutputAddress(program, at) ==
    graph.values[program.store].offset
    + FoldSeq(LAMBDA x, sum : x + sum, 0, [i \in DOMAIN at |-> at[i] * program.strides[i]])

\* Memory with a program's elements stored: values is a function of their
\* coordinates.
Stored(program, values) ==
    LET storage == graph.values[program.store].storage
        written == {<<OutputAddress(program, at), values[at]>> : at \in DOMAIN values}
    IN  [memory EXCEPT ![storage] =
            [a \in DOMAIN @ |-> IF \E w \in written : w[1] = a
                                THEN (CHOOSE w \in written : w[1] = a)[2] ELSE @[a]]]

Accumulated(program, expression, at, reduced) ==
    BagOfTerms(program.reducer,
        [r \in reduced |-> Evaluate(graph, memory, program, expression, WithReduction(at, r), <<>>)])

\* Reduction coordinates of a contraction, chunk by chunk.
Chunked(extent) ==
    {r \in {base * ReductionChunk + offset :
               base \in 0 .. extent \div ReductionChunk, offset \in 0 .. ReductionChunk - 1} :
        r < extent}

\* A paired GEMM multiplies its left operand with the third load as well.
Products(program) ==
    <<program.combine>>
    \o (IF Body.kind = "gemm" /\ Body.paired THEN <<Fn("mul", <<Read(1), Read(3)>>)>> ELSE <<>>)

OutputElement(program, at) ==
    IF program.family \in MapFamilies
    THEN Evaluate(graph, memory, program, program.combine, at, <<>>)
    ELSE Evaluate(graph, memory, program, program.post, at,
             [k \in DOMAIN Products(program) |->
                 Reduced(program.reducer,
                         Accumulated(program, Products(program)[k], at, Chunked(program.red[1])))])

-----------------------------------------------------------------------------
(* Init: a selection of the graph, its inputs in memory. *)

Storages(g) == {g.values[v].storage : v \in DOMAIN g.values}
StorageSize(g, s) ==
    1 + Max(UNION {{Address(g.values[v], at) : at \in Points(g.values[v].shape)} :
                      v \in {u \in DOMAIN g.values : g.values[u].storage = s}})

Unwritten(s, a) == [elem |-> s, at |-> <<"unwritten", a>>]

\* What an input holds: an index, or an element of its own.
InputElement(v, held, at) ==
    IF v \in DOMAIN held THEN Const(held[v][at]) ELSE [elem |-> v, at |-> at]

InitialMemory(g, held) ==
    [s \in Storages(g) |-> [a \in 0 .. StorageSize(g, s) - 1 |->
        LET places == IF s \in g.inputs
                      THEN {at \in Points(g.values[s].shape) : Address(g.values[s], at) = a} ELSE {}
        IN  IF places = {} THEN Unwritten(s, a)
            ELSE InputElement(s, held, CHOOSE at \in places : TRUE)]]

\* g.indices gives the values an index input may hold.
IndexContents(g) ==
    {held \in [DOMAIN g.indices -> UNION {[Points(g.values[v].shape) -> g.indices[v]] :
                                             v \in DOMAIN g.indices}] :
        \A v \in DOMAIN g.indices : held[v] \in [Points(g.values[v].shape) -> g.indices[v]]}

AtStart ==
    /\ tile = [b \in CTAs |-> b]
    /\ stage = [b \in CTAs |-> [w \in Lanes |-> 0]]

Init ==
    /\ source \in Graphs
    /\ graph = WithPrograms(EliminateCommon(source))
    /\ plan \in Plans(graph)
    /\ phase = 1
    /\ indices \in IndexContents(graph)
    /\ memory = InitialMemory(graph, indices)
    /\ AtStart
    /\ scratch = [b \in CTAs |-> [w \in Lanes |-> EmptyBag]]
    /\ trapped = FALSE

-----------------------------------------------------------------------------
(* One tile of a map body or of a contraction: all loads, then all stores. *)
RunTile(b) ==
    LET linear == {tile[b] * TileElements(Current) + n : n \in 0 .. TileElements(Current) - 1}
        loaded == {Coordinates(Current, n) : n \in linear}
        stored == {Coordinates(Current, n) : n \in {m \in linear : m < Product(Current.shape)}}
    IN  /\ Running
        /\ Current.family # "reduction"
        /\ tile[b] < TileCount(Current)
        /\ IF \E at \in loaded : OutOfRange(graph, memory, Current, at)
           THEN trapped' = TRUE /\ UNCHANGED memory
           ELSE /\ memory' = Stored(Current, [at \in stored |-> OutputElement(Current, at)])
                /\ UNCHANGED trapped
        /\ tile' = [tile EXCEPT ![b] = @ + Workers]
        /\ UNCHANGED <<source, graph, plan, phase, indices, stage, scratch>>

(* A row of a reduction: every warp leaves its partial, then every warp    *)
(* adds the partials up and writes its share of the row's outputs.         *)
Row(b, w) == b + Workers * (stage[b][w] \div 2)

\* sync_threads: a warp goes on when every warp of the CTA has arrived.
Synced(b, w) == \A v \in Lanes : stage[b][v] >= stage[b][w]

Arrive(b, w) == stage' = [stage EXCEPT ![b][w] = @ + 1]

OnRow(b, w) == Running /\ Current.family = "reduction" /\ Row(b, w) < TileCount(Current)

Partial(b, w) ==
    Accumulated(Current, Current.combine, Placed(Current, Row(b, w), 0),
                {r \in 0 .. Current.red[1] - 1 : r % Threads = w})

\* Fault: the barrier behind the output loop is left out, so a warp starts
\* the next row while others still add this row's partials.
AccumulateUnsynced(b, w) ==
    /\ OnRow(b, w)
    /\ stage[b][w] % 2 = 0
    /\ scratch' = [scratch EXCEPT ![b][w] = Partial(b, w)]
    /\ Arrive(b, w)
    /\ UNCHANGED <<source, graph, plan, phase, indices, memory, tile, trapped>>

Accumulate(b, w) ==
    /\ OnRow(b, w)
    /\ stage[b][w] % 2 = 0
    /\ Synced(b, w)
    /\ scratch' = [scratch EXCEPT ![b][w] = Partial(b, w)]
    /\ Arrive(b, w)
    /\ UNCHANGED <<source, graph, plan, phase, indices, memory, tile, trapped>>

\* The outputs of a row that a thread writes: post indices in strides of the
\* CTA, or the row's only output.
Share(program, row, w) ==
    LET count == Product(Sizes(program, PostAxes(program)))
    IN  {Placed(program, row, post) : post \in {p \in 0 .. count - 1 : p % Threads = w}}

Merge(b, w) ==
    LET partials == [v \in 1 .. Threads |-> scratch[b][v - 1]]
        total == Reduced(Current.reducer, FoldLeft(LAMBDA x, y : x (+) y, EmptyBag, partials))
        row == [at \in Share(Current, Row(b, w), w) |->
                   Evaluate(graph, memory, Current, Current.post, at, <<total>>)]
    IN  /\ OnRow(b, w)
        /\ stage[b][w] % 2 = 1
        /\ Synced(b, w)
        /\ memory' = Stored(Current, row)
        /\ Arrive(b, w)
        /\ UNCHANGED <<source, graph, plan, phase, indices, tile, scratch, trapped>>

\* Every CTA is through with the body; the next phase starts.
NextBody ==
    /\ Running
    /\ \A b \in CTAs :
         IF Current.family = "reduction"
         THEN \A w \in Lanes : Row(b, w) >= TileCount(Current)
         ELSE tile[b] >= TileCount(Current)
    /\ phase' = phase + 1
    /\ tile' = [b \in CTAs |-> b]
    /\ stage' = [b \in CTAs |-> [w \in Lanes |-> 0]]
    /\ UNCHANGED <<source, graph, plan, indices, memory, scratch, trapped>>

Ended == ~Running /\ UNCHANGED vars

Next ==
    \/ \E b \in CTAs : RunTile(b)
    \/ \E b \in CTAs, w \in Lanes : Accumulate(b, w) \/ Merge(b, w)
    \/ NextBody
    \/ Ended

Spec == Init /\ [][Next]_vars

-----------------------------------------------------------------------------
(* What the program must compute. *)

Finished == phase = Len(plan) + 1

SourceInputs ==
    [v \in graph.inputs |->
        [at \in Points(graph.values[v].shape) |-> InputElement(v, indices, at)]]

\* An index operand names an element the source does not have.
IndexFails ==
    \E op \in Range(graph.ops) :
        LET Bad(v, dim) ==
                \E at \in DOMAIN indices[v] :
                    indices[v][at] \notin 0 .. graph.values[op.in[1]].shape[dim] - 1
        IN  \/ op.f = "index" /\ \E i \in DOMAIN Tail(op.in) : Bad(op.in[i + 1], i)
            \/ op.f = "gather" /\ Bad(op.in[2], Dim(op.dim, graph.values[op.in[1]].shape))

\* Options that overlap can leave an operator without a body; the numeric
\* check of the search refuses such a plan.
Complete ==
    \A o \in DOMAIN graph.ops :
        IsView(graph, o) \/ o \in UNION {body.ops : body \in Range(plan)}

\* Whatever bodies are selected, if between them they cover the graph, and
\* however their CTAs and warps are scheduled, a call that ends leaves in every
\* output what the captured operators compute and leaves the inputs it does not
\* write alone; it traps exactly if an index is out of range.  Lowering, fusion,
\* selection and the generated index arithmetic (frontend.py, lowering.py, ops/,
\* planner.py, generic.py).
OutputsMatchSource ==
    /\ trapped => IndexFails
    /\ Finished /\ Complete =>
        LET captured == Results(source, SourceInputs)
            written == {graph.values[op.out].storage : op \in Range(graph.ops)}
        IN  /\ ~IndexFails
            /\ \A i \in DOMAIN source.outputs :
                 \A at \in Points(source.values[source.outputs[i]].shape) :
                    Contents(graph, memory, graph.outputs[i], at) = captured[source.outputs[i]][at]
            /\ \A v \in graph.inputs \ written :
                 memory[v] = InitialMemory(graph, indices)[v]
=============================================================================
