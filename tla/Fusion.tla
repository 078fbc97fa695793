-------------------------------- MODULE Fusion --------------------------------
(***************************************************************************)
(* Fusion candidates: elementwise chains (ops/elementwise.py), GEMM        *)
(* epilogues (ops/gemm.py) and RMS norms (ops/norm.py).  A candidate is    *)
(* the operators it replaces and the one program that stands for them.     *)
(* Operators are named by their position in graph.ops.                     *)
(***************************************************************************)
EXTENDS Lowering

NoOp == 0
Lowered(graph, o) == graph.programs[o]

Producer(graph, v) ==
    IF \E o \in DOMAIN graph.ops : graph.ops[o].out = v
    THEN CHOOSE o \in DOMAIN graph.ops : graph.ops[o].out = v
    ELSE NoOp
Users(graph, v) == {o \in DOMAIN graph.ops : v \in Range(graph.ops[o].in)}

\* Read elsewhere than by the operators given, or returned.
Escapes(graph, v, operations) ==
    v \in Range(graph.outputs) \/ ~ Users(graph, v) \subseteq operations

Mutates(graph, o) == graph.ops[o].f = "copy_"
Layout(graph, o) ==
    LET value == graph.values[graph.ops[o].out] IN <<value.shape, value.strides>>
IsScalar(graph, o) == Lowered(graph, o).family \in {"elementwise", "copy"}

\* An expression with its loads replaced.
RECURSIVE Substitute(_, _)
Substitute(expression, replacement) ==
    CASE "read" \in DOMAIN expression -> replacement[expression.read]
      [] "tests" \in DOMAIN expression ->
            Select(expression.tests, Substitute(expression.first, replacement),
                   Substitute(expression.second, replacement))
      [] "args" \in DOMAIN expression ->
            Fn(expression.fn, [i \in DOMAIN expression.args |->
                                  Substitute(expression.args[i], replacement)])
      [] OTHER -> expression

-----------------------------------------------------------------------------
(* Elementwise chains. *)

\* The scalar operators tail is computed from, producers first.
RECURSIVE VisitChain(_, _, _)
VisitChain(graph, o, visited) ==
    IF o \in Range(visited) THEN visited
    ELSE LET Visit(chain, load) ==
                 LET producer == Producer(graph, load.value)
                 IN  IF producer # NoOp /\ IsScalar(graph, producer)
                     THEN VisitChain(graph, producer, chain) ELSE chain
         IN  Append(FoldLeft(Visit, visited, Lowered(graph, o).loads), o)

ScalarChain(graph, tail) == VisitChain(graph, tail, <<>>)

\* One load per external value, in the order the chain first reads them; a
\* value of the chain is replaced by its expression.
ComposeScalarChain(graph, chain) ==
    LET tail == Lowered(graph, Last(chain))
        Leaf(loads, load) ==
            IF \E l \in Range(loads) : l.value = load.value THEN loads
            ELSE Append(loads, load)
        Add(composed, o) ==
            LET program == Lowered(graph, o)
                external == SelectSeq(program.loads,
                                LAMBDA l : l.value \notin DOMAIN composed.expressions)
                loads == FoldLeft(Leaf, composed.loads, external)
                replacement == [i \in DOMAIN program.loads |->
                    LET v == program.loads[i].value
                    IN  IF v \in DOMAIN composed.expressions
                        THEN composed.expressions[v]
                        ELSE Read(SelectInSeq(loads, LAMBDA l : l.value = v))]
                expression == Substitute(program.post, replacement)
            IN  [loads |-> loads,
                 expressions |-> [v \in DOMAIN composed.expressions \cup {program.store} |->
                     IF v = program.store THEN expression ELSE composed.expressions[v]]]
        all == FoldLeft(Add, [loads |-> <<>>, expressions |-> [v \in {} |-> <<>>]], chain)
    IN  [tail EXCEPT !.loads = all.loads,
                     !.combine = all.expressions[tail.store],
                     !.post = all.expressions[tail.store]]

ChainCandidate(graph, tail) ==
    LET chain == ScalarChain(graph, tail)
        inner == Range(Front(chain))
    IN  IF /\ IsScalar(graph, tail)
           /\ Len(chain) >= 2
           /\ \A o \in Range(chain) :
                ~Mutates(graph, o) /\ Layout(graph, o) = Layout(graph, tail)
           /\ \A o \in inner : ~Escapes(graph, graph.ops[o].out, Range(chain))
        THEN {[ops |-> Range(chain), tail |-> tail, kind |-> "chain",
               program |-> ComposeScalarChain(graph, chain)]}
        ELSE {}

\* A chain inside a longer one is left out, executable or not.
ChainCandidates(graph) ==
    LET Scalars == {o \in DOMAIN graph.ops :
                       IsScalar(graph, o) /\ Len(ScalarChain(graph, o)) >= 2}
        Operators(o) == Range(ScalarChain(graph, o))
        Maximal == {o \in Scalars : \A p \in Scalars \ {o} :
                       ~(Operators(o) \subseteq Operators(p) /\ Operators(o) # Operators(p))}
    IN  UNION {ChainCandidate(graph, o) : o \in Maximal}

-----------------------------------------------------------------------------
(* GEMM epilogues. *)

IsView(graph, o) == Lowered(graph, o).family = "view"

\* The contraction a value is the result of through views, with the values
\* on the way, or no operator.
RECURSIVE ViewedContraction(_, _)
ViewedContraction(graph, v) ==
    LET producer == Producer(graph, v)
    IN  CASE producer = NoOp -> [op |-> NoOp, path |-> {v}]
          [] IsView(graph, producer) ->
                LET source == ViewedContraction(graph, graph.ops[producer].in[1])
                IN  [source EXCEPT !.path = @ \cup {v}]
          [] Lowered(graph, producer).family = "contraction" ->
                [op |-> producer, path |-> {v}]
          [] OTHER -> [op |-> NoOp, path |-> {v}]

\* The chain behind tail without what escapes it, and what only fed that.
RECURSIVE WithoutEscapes(_, _, _)
WithoutEscapes(graph, tail, operations) ==
    LET escaping == {o \in operations \ {tail} :
                        Escapes(graph, graph.ops[o].out, operations)}
        Reach[n \in 0 .. Len(graph.ops)] ==
            IF n = 0 THEN {tail}
            ELSE Reach[n - 1] \cup
                 {p \in operations \ escaping :
                    \E o \in Reach[n - 1] : graph.ops[p].out \in Range(graph.ops[o].in)}
    IN  IF escaping = {} THEN operations
        ELSE WithoutEscapes(graph, tail, Reach[Len(graph.ops)])

EpilogueChain(graph, tail) ==
    LET chain == ScalarChain(graph, tail)
        kept == WithoutEscapes(graph, tail, Range(chain))
    IN  SelectSeq(chain, LAMBDA o : o \in kept)

\* The epilogue forms at the only consumer, which reads another GEMM's result.
AbsorbedByConsumer(graph, tail) ==
    LET result == graph.ops[tail].out
    IN  /\ result \notin Range(graph.outputs)
        /\ Cardinality(Users(graph, result)) = 1
        /\ \E user \in Users(graph, result) :
             /\ IsScalar(graph, user)
             /\ \E v \in Range(graph.ops[user].in) \ {result} :
                  ViewedContraction(graph, v).op # NoOp

Significant(strides, shape) ==
    LET moves == SetToSortSeq({i \in DOMAIN shape : shape[i] # 1}, <)
    IN  [k \in DOMAIN moves |-> strides[moves[k]]]

\* Each axis of a contiguous shape over the GEMM's rows (axis 1) and columns
\* (axis 2): the trailing axes hold the columns, the leading ones the rows.
Splits(shape, rows, columns) ==
    {s \in 0 .. Len(shape) :
        /\ Product(SubSeq(shape, s + 1, Len(shape))) = columns
        /\ Product(SubSeq(shape, 1, s)) = rows
        /\ \A t \in s + 1 .. Len(shape) :
             Product(SubSeq(shape, t + 1, Len(shape))) < columns}

CoordinatesAt(shape, rows, columns, split) ==
    [i \in DOMAIN shape |->
        LET leading == i <= split
            axis == IF leading THEN 1 ELSE 2
            extent == IF leading THEN rows ELSE columns
            below == IF leading THEN Below(SubSeq(shape, 1, split), i) ELSE Below(shape, i)
        IN  CASE shape[i] = 1 -> At(0)
              [] below = 1 /\ shape[i] = extent -> Axis(axis)
              [] OTHER -> Affine(<<AxisTerm(axis, 1, below,
                              IF shape[i] * below = extent THEN 0 ELSE shape[i])>>, 0)]

GemmCoordinates(shape, rows, columns) ==
    CoordinatesAt(shape, rows, columns, Max(Splits(shape, rows, columns)))

\* A load's axis over the chain's coordinates, rewritten over the GEMM's.
Composes(axis, coordinates) ==
    \/ "at" \in DOMAIN axis \/ "axis" \in DOMAIN axis
    \/ /\ "terms" \in DOMAIN axis
       /\ \A t \in Range(axis.terms) :
            LET to == coordinates[t.axis]
            IN  ("terms" \in DOMAIN to => t.divisor = 1 /\ t.modulus = 0)
GemmAxis(axis, coordinates) ==
    LET Mapped(t) ==
            LET to == coordinates[t.axis]
            IN  CASE "at" \in DOMAIN to -> <<>>
                  [] "axis" \in DOMAIN to -> <<[t EXCEPT !.axis = to.axis]>>
                  [] OTHER -> <<[to.terms[1] EXCEPT !.scale = t.scale]>>
    IN  CASE "at" \in DOMAIN axis -> axis
          [] "axis" \in DOMAIN axis -> coordinates[axis.axis]
          [] OTHER -> Affine(FlattenSeq([i \in DOMAIN axis.terms |-> Mapped(axis.terms[i])]),
                             axis.offset)

RECURSIVE WithAccumulator(_, _)
WithAccumulator(expression, index) ==
    CASE "accumulator" \in DOMAIN expression -> Sum(index)
      [] "args" \in DOMAIN expression ->
            Fn(expression.fn, [i \in DOMAIN expression.args |->
                                  WithAccumulator(expression.args[i], index)])
      [] OTHER -> expression

Owns(graph, v) == graph.values[v].storage = v

IsRowMajorGemm(graph, program) ==
    /\ Len(program.shape) = 2 /\ Len(program.red) = 1
    /\ program.strides = <<program.shape[2], 1>> /\ Owns(graph, program.store)

\* Two unbiased GEMMs over one left operand; each may read it through its
\* own view of the same storage.
PairsWith(graph, first, second) ==
    LET left(p) == graph.values[p.loads[1].value]
        right(p) == graph.values[p.loads[2].value]
    IN  /\ Len(first.loads) = 2 /\ Len(second.loads) = 2
        /\ IsRowMajorGemm(graph, second)
        /\ first.shape = second.shape /\ first.red = second.red
        /\ first.loads[1].axes = second.loads[1].axes
        /\ left(first) = left(second)
        /\ first.combine = second.combine /\ first.post = second.post
        /\ first.loads[2].axes = second.loads[2].axes
        /\ right(first).strides = right(second).strides

RECURSIVE HasIndex(_)
HasIndex(expression) ==
    \/ {"index", "tests"} \cap DOMAIN expression # {}
    \/ "args" \in DOMAIN expression /\ \E e \in Range(expression.args) : HasIndex(e)

PackedLike(strides, shape) ==
    Significant(strides, shape) = Significant(Contiguous(shape), shape)

\* A read of a GEMM's result at the output position.
ReadsOwnPosition(graph, load, contraction, shape) ==
    /\ Len(load.axes) = Len(shape)
    /\ \A i \in DOMAIN shape :
         load.axes[i] = Axis(i) \/ (shape[i] = 1 /\ load.axes[i] = At(0))
    /\ graph.values[load.value].offset = graph.values[graph.ops[contraction].out].offset
    /\ PackedLike(graph.values[load.value].strides, shape)

\* The operators on the way from a contraction to a value of the chain.
PathOps(graph, path) == {Producer(graph, v) : v \in path}

\* A chain, its composition, what is behind each of its loads, and the
\* contractions among that.
EpilogueMatch(graph, tail, chain, composed, found, contractions) ==
    [tail |-> tail, chain |-> chain, composed |-> composed, found |-> found,
     contractions |-> contractions,
     programs |-> [c \in DOMAIN contractions |-> Lowered(graph, contractions[c])]]

Leaves(found) == {i \in DOMAIN found : found[i].op # NoOp}
Contractions(found) == SetToSortSeq({found[i].op : i \in Leaves(found)}, <)

\* The loads of the chain that stay loads of the epilogue.
Extra(found) == SelectSeq([i \in DOMAIN found |-> i], LAMBDA i : i \notin Leaves(found))

Paired(match) == Len(match.contractions) = 2

\* The values from a contraction to the chain, and the operators that may
\* use them.
Path(match, c) ==
    UNION {match.found[i].path :
              i \in {l \in Leaves(match.found) : match.found[l].op = match.contractions[c]}}
MayUse(graph, match, c) ==
    Range(match.chain) \cup (PathOps(graph, Path(match, c)) \ {match.contractions[c]})

LegalEpilogue(graph, match, coordinates) ==
    LET composed == match.composed
        first == match.programs[1]
    IN  /\ \A o \in Range(match.chain) :
             ~Mutates(graph, o) /\ Layout(graph, o) = Layout(graph, match.tail)
        /\ ~HasIndex(composed.combine)
        /\ Len(match.contractions) \in {1, 2}
        /\ IsRowMajorGemm(graph, first)
        /\ Owns(graph, composed.store) /\ PackedLike(composed.strides, composed.shape)
        /\ \A c \in DOMAIN match.contractions : \A v \in Path(match, c) :
             ~Escapes(graph, v, MayUse(graph, match, c))
        /\ Paired(match) => PairsWith(graph, first, match.programs[2])
        /\ Splits(composed.shape, first.shape[1], first.shape[2]) # {}
        /\ \A i \in Leaves(match.found) :
             ReadsOwnPosition(graph, composed.loads[i], match.found[i].op, composed.shape)
        /\ \A i \in Range(Extra(match.found)) : \A axis \in Range(composed.loads[i].axes) :
             Composes(axis, coordinates)

\* The GEMM's program with the chain behind its accumulators; base is its
\* loads, behind which the chain's come.
EpilogueProgram(match, base, extra, coordinates) ==
    LET composed == match.composed
        first == match.programs[1]
        Accumulated(i) ==
            IF match.found[i].op = match.contractions[1] THEN first.post
            ELSE WithAccumulator(match.programs[2].post, 2)
        replacement == [i \in DOMAIN match.found |->
            IF i \in Leaves(match.found) THEN Accumulated(i)
            ELSE Read(Len(base) + SelectInSeq(extra, LAMBDA e : e = i))]
        Rewritten(load) ==
            Load(load.value, [a \in DOMAIN load.axes |-> GemmAxis(load.axes[a], coordinates)])
    IN  [first EXCEPT !.loads = base \o [e \in DOMAIN extra |-> Rewritten(composed.loads[extra[e]])],
                      !.post = Substitute(composed.combine, replacement),
                      !.store = composed.store]

GemmLoads(match) ==
    match.programs[1].loads \o (IF Paired(match) THEN <<match.programs[2].loads[2]>> ELSE <<>>)

MatchedEpilogue(graph, match, coordinates) ==
    IF LegalEpilogue(graph, match, coordinates)
    THEN {[ops |-> Range(match.contractions) \cup Range(match.chain), tail |-> match.tail,
           kind |-> "gemm", paired |-> Paired(match),
           program |-> EpilogueProgram(match, GemmLoads(match), Extra(match.found), coordinates)]}
    ELSE {}

EpilogueOfMatch(graph, match) ==
    MatchedEpilogue(graph, match,
        GemmCoordinates(match.composed.shape, match.programs[1].shape[1],
                        match.programs[1].shape[2]))

EpilogueOfLoads(graph, tail, chain, composed, found) ==
    EpilogueOfMatch(graph,
        EpilogueMatch(graph, tail, chain, composed, found, Contractions(found)))

EpilogueOfComposed(graph, tail, chain, composed) ==
    EpilogueOfLoads(graph, tail, chain, composed,
        [i \in DOMAIN composed.loads |-> ViewedContraction(graph, composed.loads[i].value)])

EpilogueOfChain(graph, tail, chain) ==
    EpilogueOfComposed(graph, tail, chain, ComposeScalarChain(graph, chain))

EpilogueCandidate(graph, tail) == EpilogueOfChain(graph, tail, EpilogueChain(graph, tail))

EpilogueCandidates(graph) ==
    UNION {EpilogueCandidate(graph, o) :
              o \in {p \in DOMAIN graph.ops : IsScalar(graph, p) /\ ~AbsorbedByConsumer(graph, p)}}

-----------------------------------------------------------------------------
(* RMS norms: a mean of squares, its reciprocal root, the products with    *)
(* the source and the weight, and a residual that is an input.             *)

SoleUser(graph, o) ==
    LET users == Users(graph, graph.ops[o].out)
    IN  IF Cardinality(users) = 1 THEN CHOOSE user \in users : TRUE ELSE NoOp

Computes(graph, o, fn) ==
    o # NoOp /\ graph.ops[o].f = "pointwise" /\ graph.ops[o].fn = fn

OtherOperands(graph, o, v) == Range(graph.ops[o].in) \ {v}

\* The user that combines a result with one of the inputs given, or none.
WithInput(graph, o, fn, inputs) ==
    LET user == SoleUser(graph, o)
    IN  IF Computes(graph, user, fn)
           /\ \E v \in OtherOperands(graph, user, graph.ops[o].out) : v \in inputs
        THEN user ELSE NoOp

NormChain(graph, mean) ==
    LET square == Producer(graph, graph.ops[mean].in[1])
        x == graph.ops[square].in[1]
        add == SoleUser(graph, mean)
        rsqrt == SoleUser(graph, add)
        scale == SoleUser(graph, rsqrt)
        affine == WithInput(graph, scale, "mul", graph.inputs)
        scaled == IF affine = NoOp THEN scale ELSE affine
        residual == WithInput(graph, scaled, "add",
                       {v \in graph.inputs : Shape(graph, v) = Shape(graph, graph.ops[scaled].out)})
    IN  IF /\ Len(Lowered(graph, mean).red) = 1
           /\ Computes(graph, square, "pow")
           /\ Computes(graph, add, "add") /\ graph.ops[add].scalars # <<>>
           /\ Computes(graph, rsqrt, "rsqrt")
           /\ Computes(graph, scale, "mul")
           /\ {x, graph.ops[rsqrt].out} \subseteq Range(graph.ops[scale].in)
        THEN {[x |-> x, square |-> square, scale |-> scale, affine |-> affine,
               scaled |-> scaled, residual |-> residual,
               ops |-> {square, mean, add, rsqrt, scale, affine, residual} \ {NoOp}]}
        ELSE {}

\* The reduction runs along the last axis of x, whichever axis the mean has.
NormProgram(graph, mean, chain) ==
    LET tail == Max(chain.ops)
        lowered == Lowered(graph, mean)
        axes == OutputAxes(graph, graph.ops[tail])
        weight == IF chain.affine = NoOp THEN {}
                  ELSE OtherOperands(graph, chain.affine, graph.ops[chain.scale].out)
        residual == IF chain.residual = NoOp THEN {}
                    ELSE OtherOperands(graph, chain.residual, graph.ops[chain.scaled].out)
        loads == <<Load(chain.x, [axes EXCEPT ![Len(axes)] = Axis(0)]), Load(chain.x, axes)>>
                 \o (LET w == SetToSeq(weight) IN [i \in DOMAIN w |-> Load(w[i], <<Last(axes)>>)])
                 \o (LET r == SetToSeq(residual) IN [i \in DOMAIN r |-> Load(r[i], axes)])
        \* Behind the mean: the operators' expressions over the post loads.
        Expression(v, known) ==
            IF v \in DOMAIN known THEN known[v]
            ELSE Read(1 + SelectInSeq(Tail(loads), LAMBDA l : l.value = v))
        Behind(known, o) ==
            LET program == Lowered(graph, o)
                value == Substitute(program.post,
                            [i \in DOMAIN program.loads |-> Expression(program.loads[i].value, known)])
            IN  [v \in DOMAIN known \cup {program.store} |->
                    IF v = program.store THEN value ELSE known[v]]
        after == SelectSeq([o \in DOMAIN graph.ops |-> o], LAMBDA o : o \in chain.ops /\ o > mean)
        known == FoldLeft(Behind, [v \in {lowered.store} |-> lowered.post], after)
        squared == Substitute(Lowered(graph, chain.square).post, <<Read(1)>>)
    IN  [lowered EXCEPT !.shape = Shape(graph, graph.ops[tail].out),
                        !.strides = graph.values[graph.ops[tail].out].strides,
                        !.red = <<Last(Shape(graph, chain.x))>>,
                        !.loads = loads, !.combine = squared,
                        !.post = known[graph.ops[tail].out],
                        !.store = graph.ops[tail].out]

\* An intermediate value may be an output of the graph, but have no other user.
NormCandidates(graph) ==
    UNION {LET chains == NormChain(graph, mean)
           IN  {[ops |-> c.ops, tail |-> Max(c.ops), kind |-> "norm",
                 program |-> NormProgram(graph, mean, c)] :
                   c \in {k \in chains :
                            /\ \A o \in k.ops : ~Mutates(graph, o)
                            /\ Rank(graph, k.x) >= 2
                            /\ \A o \in k.ops \ {Max(k.ops)} :
                                 Users(graph, graph.ops[o].out) \subseteq k.ops}} :
           mean \in {o \in DOMAIN graph.ops :
                       graph.ops[o].f = "reduce" /\ graph.ops[o].fn = "mean"
                       /\ Lowered(graph, o).family = "reduction"}}

Candidates(graph) == ChainCandidates(graph) \cup EpilogueCandidates(graph) \cup NormCandidates(graph)
=============================================================================
