------------------------------- MODULE Lowering -------------------------------
(***************************************************************************)
(* The lowering rules of src/src/megabake/lowering.py: one indexed tensor  *)
(* program per ATen operator, or the refusal of the operator.              *)
(***************************************************************************)
EXTENDS TensorPrograms

Refused == [family |-> "refused"]

Shape(graph, v) == graph.values[v].shape
Rank(graph, v) == Len(Shape(graph, v))
Normalized(dim, rank) == IF dim < 0 THEN dim + rank + 1 ELSE dim

Load(value, axes) == [value |-> value, axes |-> axes]
OutputAxes(graph, op) == [i \in DOMAIN Shape(graph, op.out) |-> Axis(i)]

\* A program without a reduction, and one with the reduction extents "red".
Program(graph, op, family, loads, combine) ==
    [family |-> family, shape |-> Shape(graph, op.out),
     strides |-> graph.values[op.out].strides, red |-> <<>>,
     loads |-> loads, reducer |-> "none", combine |-> combine,
     post |-> combine, store |-> op.out]

Reduction(graph, op, family, red, loads, reducer, combine, post) ==
    [family |-> family, shape |-> Shape(graph, op.out),
     strides |-> graph.values[op.out].strides, red |-> red,
     loads |-> loads, reducer |-> reducer, combine |-> combine,
     post |-> post, store |-> op.out]

Broadcasts(shape, out) ==
    /\ Len(shape) <= Len(out)
    /\ \A i \in DOMAIN shape : shape[i] \in {1, out[i + Len(out) - Len(shape)]}

BroadcastAxes(shape, out) ==
    [i \in DOMAIN shape |->
        IF shape[i] = 1 THEN At(0) ELSE Axis(i + Len(out) - Len(shape))]

-----------------------------------------------------------------------------
(* Elementwise programs. *)

Elementwise(graph, op, family) ==
    LET out == Shape(graph, op.out)
        loads == [i \in DOMAIN op.in |->
                     Load(op.in[i], BroadcastAxes(Shape(graph, op.in[i]), out))]
    IN  IF \E v \in Range(op.in) : ~Broadcasts(Shape(graph, v), out)
        THEN Refused
        ELSE Program(graph, op, family, loads,
                     IF family = "copy" THEN Read(1)
                     ELSE Fn(op.fn, [i \in DOMAIN op.in |-> Read(i)] \o op.scalars))

Full(graph, op) == Program(graph, op, "elementwise", <<>>, Const(op.value))

Iota(graph, op) ==
    Program(graph, op, "elementwise", <<>>,
            [index |-> 1, start |-> op.start, step |-> op.step])

\* Writes the source into the storage of an input of the graph.
StateWrite(graph, op) ==
    LET source == [op EXCEPT !.in = <<op.in[2]>>]
    IN  IF \/ op.in[1] \notin graph.inputs
           \/ graph.values[op.out].storage # graph.values[op.in[1]].storage
        THEN Refused
        ELSE Elementwise(graph, source, "copy")

\* The start and end of the slice as the rule reads them.
SliceStart(start, size) == IF start < 0 THEN start + size ELSE start
SliceEnd(end, size) ==
    LET counted == IF end < 0 THEN end + size ELSE end
    IN  IF counted < size THEN counted ELSE size

\* Inside the slice o = start + step * j, so j = o \div step - start \div step.
SliceScatter(graph, op) ==
    LET dim == Normalized(op.dim, Rank(graph, op.out))
        size == Shape(graph, op.out)[dim]
        start == SliceStart(op.start, size)
        axes == OutputAxes(graph, op)
        written == Affine(<<AxisTerm(dim, 1, op.step, 0)>>, -(start \div op.step))
    IN  IF op.step < 1 THEN Refused
        ELSE Program(graph, op, "elementwise",
                     <<Load(op.in[1], axes), Load(op.in[2], [axes EXCEPT ![dim] = written])>>,
                     Select(<<Inside(dim, start, SliceEnd(op.end, size), op.step)>>,
                            Read(2), Read(1)))

SelectScatter(graph, op) ==
    LET dim == Normalized(op.dim, Rank(graph, op.out))
        index == IF op.index < 0 THEN op.index + Shape(graph, op.out)[dim] ELSE op.index
        axes == OutputAxes(graph, op)
    IN  Program(graph, op, "elementwise",
                <<Load(op.in[1], axes), Load(op.in[2], RemoveAt(axes, dim))>>,
                Select(<<Inside(dim, index, index + 1, 1)>>, Read(2), Read(1)))

\* op.pad holds <<low, high>> of the last dimension, then of the one before.
PadLow(graph, op, i) ==
    LET pair == Rank(graph, op.out) - i IN op.pad[2 * pair + 1]
Padded(graph, op) ==
    LET rank == Rank(graph, op.out) IN rank - Len(op.pad) \div 2 + 1 .. rank

ConstantPad(graph, op) ==
    LET axes == [i \in DOMAIN Shape(graph, op.out) |->
                    IF i \in Padded(graph, op)
                    THEN Affine(<<Term(i)>>, -PadLow(graph, op, i))
                    ELSE Axis(i)]
        inside == [i \in DOMAIN SetToSeq(Padded(graph, op)) |->
                     LET dim == SetToSeq(Padded(graph, op))[i]
                         low == PadLow(graph, op, dim)
                     IN  Inside(dim, low, low + Shape(graph, op.in[1])[dim], 1)]
    IN  Program(graph, op, "elementwise", <<Load(op.in[1], axes)>>,
                IF op.fill # 0 /\ inside # <<>>
                THEN Select(inside, Read(1), Const(op.fill)) ELSE Read(1))

-----------------------------------------------------------------------------
(* Concatenation and gathers. *)

Concat(graph, op) ==
    LET out == Shape(graph, op.out)
        dim == Normalized(op.dim, Len(out))
        size(i) == Shape(graph, op.in[i])[dim]
        start[i \in 1 .. Len(op.in) + 1] == IF i = 1 THEN 0 ELSE start[i - 1] + size(i - 1)
        loads == [i \in DOMAIN op.in |->
                    Load(op.in[i], [OutputAxes(graph, op) EXCEPT
                                       ![dim] = Affine(<<Term(dim)>>, -start[i])])]
        choice[i \in 1 .. Len(op.in) + 1] ==
            IF i > Len(op.in) THEN Read(Len(op.in))
            ELSE Select(<<Inside(dim, start[i], start[i] + size(i), 1)>>,
                        Read(i), choice[i + 1])
    IN  IF \/ \E v \in Range(op.in) : Rank(graph, v) # Len(out)
           \/ \E v \in Range(op.in) : \E d \in DOMAIN out \ {dim} : Shape(graph, v)[d] # out[d]
           \/ start[Len(op.in) + 1] # out[dim]
        THEN Refused
        ELSE Program(graph, op, "concat", loads, choice[1])

\* The shape index tensors of one rank broadcast to.
BroadcastShape(shapes) ==
    [i \in DOMAIN shapes[1] |-> Max({shapes[s][i] : s \in DOMAIN shapes})]
Broadcastable(shapes) ==
    /\ \A s \in DOMAIN shapes : Len(shapes[s]) = Len(shapes[1])
    /\ \A i \in DOMAIN shapes[1] :
         LET sizes == {shapes[s][i] : s \in DOMAIN shapes}
         IN  Cardinality(sizes \ {1}) <= 1

\* aten.index and aten.embedding: op.in is the source, then its indices.
IndexedGather(graph, op) ==
    LET source == Shape(graph, op.in[1])
        indices == Tail(op.in)
        shapes == [i \in DOMAIN indices |-> Shape(graph, indices[i])]
        shape == BroadcastShape(shapes)
        count == Len(indices)
        indexLoads == [i \in DOMAIN indices |->
                          Load(indices[i], BroadcastAxes(shapes[i], shape))]
        sourceAxes == [i \in DOMAIN source |->
                          IF i <= count THEN Data(i) ELSE Axis(i - count + Len(shape))]
    IN  IF \/ ~Broadcastable(shapes)
           \/ count > Len(source)
           \/ Shape(graph, op.out) # shape \o SubSeq(source, count + 1, Len(source))
        THEN Refused
        ELSE Program(graph, op, "gather", Append(indexLoads, Load(op.in[1], sourceAxes)),
                     Read(count + 1))

\* aten.gather over tensors of one shape, the index an input of the graph.
Gather(graph, op) ==
    LET dim == Normalized(op.dim, Rank(graph, op.in[1]))
        axes == OutputAxes(graph, op)
    IN  IF \/ Shape(graph, op.in[1]) # Shape(graph, op.out)
           \/ Shape(graph, op.in[2]) # Shape(graph, op.out)
           \/ op.in[2] \notin graph.inputs
        THEN Refused
        ELSE Program(graph, op, "elementwise",
                     <<Load(op.in[2], axes), Load(op.in[1], [axes EXCEPT ![dim] = Data(1)])>>,
                     Read(2))

-----------------------------------------------------------------------------
(* Reductions and contractions. *)

Reduce(graph, op) ==
    LET source == Shape(graph, op.in[1])
        dims == [i \in DOMAIN op.dims |-> Normalized(op.dims[i], Len(source))]
        reduced == Range(dims)
        Kept(i) == Cardinality((1 .. i) \ reduced)
        axes == [i \in DOMAIN source |->
                    IF i \in reduced THEN Axis(1 - SelectInSeq(dims, LAMBDA d : d = i))
                    ELSE Axis(IF op.keepdim THEN i ELSE Kept(i))]
        kept == IF op.keepdim
                THEN [i \in DOMAIN source |-> IF i \in reduced THEN 1 ELSE source[i]]
                ELSE [k \in 1 .. Len(source) - Cardinality(reduced) |->
                         source[CHOOSE i \in DOMAIN source \ reduced : Kept(i) = k]]
        extents == [i \in DOMAIN dims |-> source[dims[i]]]
        load == <<Load(op.in[1], axes)>>
    IN  CASE \/ dims = <<>> \/ Cardinality(reduced) # Len(dims)
             \/ ~ reduced \subseteq DOMAIN source
             \/ op.fn = "amax" /\ 0 \in Range(extents)
             \/ Shape(graph, op.out) # kept -> Refused
          [] OTHER ->
             Reduction(graph, op, "reduction", extents, load,
                       IF op.fn = "amax" THEN "max" ELSE "sum", Read(1),
                       CASE op.fn = "mean" -> Fn("div", <<Sum(1), Const(Product(extents))>>)
                         [] op.fn = "any" -> Fn("gt", <<Sum(1), Zero>>)
                         [] OTHER -> Sum(1))

\* Left and right operand, the extent they contract and, if there is one,
\* the bias added behind it.
Contraction(graph, op, extent, left, right, bias) ==
    LET biased == bias # <<>>
        loads == <<left, right>> \o
                 [i \in DOMAIN bias |->
                     Load(bias[i], BroadcastAxes(Shape(graph, bias[i]), Shape(graph, op.out)))]
    IN  IF \E v \in Range(bias) : ~Broadcasts(Shape(graph, v), Shape(graph, op.out))
        THEN Refused
        ELSE Reduction(graph, op, "contraction", <<extent>>, loads, "sum",
                       Fn("mul", <<Read(1), Read(2)>>),
                       IF biased THEN Fn("add", <<Sum(1), Read(3)>>) ELSE Sum(1))

\* A product of matrices; the axes say how the right operand is stored.
MatMul(graph, op, rightAxes, rightShape, bias) ==
    LET left == Shape(graph, op.in[1])
    IN  IF \/ Len(left) # 2 \/ Len(rightShape) # 2
           \/ left[2] # rightShape[1]
           \/ Shape(graph, op.out) # <<left[1], rightShape[2]>>
        THEN Refused
        ELSE Contraction(graph, op, left[2], Load(op.in[1], <<Axis(1), Axis(0)>>),
                         Load(op.in[2], rightAxes), bias)

Linear(graph, op) ==
    MatMul(graph, op, <<Axis(2), Axis(0)>>, Reverse(Shape(graph, op.in[2])),
           SubSeq(op.in, 3, Len(op.in)))

Mm(graph, op) ==
    MatMul(graph, op, <<Axis(0), Axis(2)>>, Shape(graph, op.in[2]),
           SubSeq(op.in, 3, Len(op.in)))

Bmm(graph, op) ==
    LET left == Shape(graph, op.in[1])
        right == Shape(graph, op.in[2])
    IN  IF \/ left[1] # right[1] \/ left[3] # right[2]
           \/ Shape(graph, op.out) # <<left[1], left[2], right[3]>>
        THEN Refused
        ELSE Contraction(graph, op, left[3],
                         Load(op.in[1], <<Axis(1), Axis(2), Axis(0)>>),
                         Load(op.in[2], <<Axis(1), Axis(0), Axis(3)>>), <<>>)

-----------------------------------------------------------------------------
(* Windows: convolution over one or two spatial dimensions and average     *)
(* pooling.  r0 counts the taps of the window, per channel of the group.   *)

\* The position inside the window along spatial dimension s, as a term of r0.
Tap(kernel, s, scale) == AxisTerm(0, scale, Below(kernel, s), kernel[s])

WindowAxis(kernel, s, step, dilation, padding) ==
    Affine(<<AxisTerm(s + 2, step, 1, 0), Tap(kernel, s, dilation)>>, -padding)

Convolution(graph, op) ==
    LET input == Shape(graph, op.in[1])
        weight == Shape(graph, op.in[2])
        spatial == Len(input) - 2
        kernel == SubSeq(weight, 3, Len(weight))
        taps == Product(kernel)
        channel == AxisTerm(0, 1, taps, 0)
        perGroup == weight[1] \div op.groups
        extents == [s \in 1 .. spatial |->
                      (input[s + 2] + 2 * op.padding[s]
                         - op.dilation[s] * (kernel[s] - 1) - 1) \div op.stride[s] + 1]
        inputAxes == <<Axis(1), Affine(<<AxisTerm(2, weight[2], perGroup, 0), channel>>, 0)>>
                     \o [s \in 1 .. spatial |->
                            WindowAxis(kernel, s, op.stride[s], op.dilation[s], op.padding[s])]
        weightAxes == <<Axis(2), Affine(<<channel>>, 0)>>
                      \o [s \in 1 .. spatial |-> Affine(<<Tap(kernel, s, 1)>>, 0)]
        loads == <<Load(op.in[1], inputAxes), Load(op.in[2], weightAxes)>>
    IN  IF \/ spatial \notin {1, 2} \/ Len(weight) # spatial + 2
           \/ input[2] # weight[2] * op.groups \/ weight[1] % op.groups # 0
           \/ Shape(graph, op.out) # <<input[1], weight[1]>> \o extents
           \/ Len(op.in) = 3 /\ Shape(graph, op.in[3]) # <<weight[1]>>
        THEN Refused
        ELSE Reduction(graph, op, "contraction", <<weight[2] * taps>>,
                       loads \o [i \in DOMAIN SubSeq(op.in, 3, Len(op.in)) |->
                                    Load(op.in[3], <<Axis(2)>>)],
                       "sum", Fn("mul", <<Read(1), Read(2)>>),
                       IF Len(op.in) = 3 THEN Fn("add", <<Sum(1), Read(3)>>) ELSE Sum(1))

\* Padding of zero is refused with the other values below one.
AvgPool2d(graph, op) ==
    LET input == Shape(graph, op.in[1])
        extents == [s \in 1 .. 2 |->
                      (input[s + 2] + 2 * op.padding[s] - op.kernel[s]) \div op.stride[s] + 1]
        axes == <<Axis(1), Axis(2)>>
                \o [s \in 1 .. 2 |->
                       WindowAxis(op.kernel, s, op.stride[s], 1, op.padding[s])]
    IN  IF \/ \E n \in Range(op.kernel \o op.stride \o op.padding) : n < 1
           \/ Len(input) # 4
           \/ Shape(graph, op.out) # <<input[1], input[2]>> \o extents
        THEN Refused
        ELSE Reduction(graph, op, "reduction", <<Product(op.kernel)>>,
                       <<Load(op.in[1], axes)>>, "sum", Read(1),
                       Fn("div", <<Sum(1), Const(Product(op.kernel))>>))

-----------------------------------------------------------------------------
\* A view reads its source's storage through its own strides.
View(graph, op) ==
    IF graph.values[op.out].storage # graph.values[op.in[1]].storage THEN Refused
    ELSE Program(graph, op, "view", <<Load(op.in[1], OutputAxes(graph, op))>>, Read(1))

LowerSemantics(graph, op) ==
    CASE op.f = "pointwise" -> Elementwise(graph, op, "elementwise")
      [] op.f = "clone" -> Elementwise(graph, op, "copy")
      [] op.f = "full" -> Full(graph, op)
      [] op.f = "iota" -> Iota(graph, op)
      [] op.f = "copy_" -> StateWrite(graph, op)
      [] op.f = "slice_scatter" -> SliceScatter(graph, op)
      [] op.f = "select_scatter" -> SelectScatter(graph, op)
      [] op.f = "constant_pad_nd" -> ConstantPad(graph, op)
      [] op.f = "cat" -> Concat(graph, op)
      [] op.f = "index" -> IndexedGather(graph, op)
      [] op.f = "gather" -> Gather(graph, op)
      [] op.f = "reduce" -> Reduce(graph, op)
      [] op.f = "linear" -> Linear(graph, op)
      [] op.f = "mm" -> Mm(graph, op)
      [] op.f = "bmm" -> Bmm(graph, op)
      [] op.f = "convolution" -> Convolution(graph, op)
      [] op.f = "avg_pool2d" -> AvgPool2d(graph, op)
      [] op.f = "view" -> View(graph, op)

\* The graph with the program of every operator, its region's semantics.
WithPrograms(graph) ==
    graph @@ [programs |-> [o \in DOMAIN graph.ops |-> LowerSemantics(graph, graph.ops[o])]]
=============================================================================
