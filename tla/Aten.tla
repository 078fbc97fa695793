--------------------------------- MODULE Aten ---------------------------------
(***************************************************************************)
(* What the operators of a captured graph mean, one result at a time: the  *)
(* reference the lowered programs are compared with.  The operators belong *)
(* to PyTorch; a result is a function from its coordinates to terms, made  *)
(* from the results of the operands, and nothing here knows of index       *)
(* programs, strides or storages.                                          *)
(***************************************************************************)
EXTENDS TensorPrograms

Dim(dim, shape) == IF dim < 0 THEN dim + Len(shape) + 1 ELSE dim

\* The element of an operand that takes part in the output element "at".
Broadcast(shape, at) ==
    [i \in DOMAIN shape |-> IF shape[i] = 1 THEN 0 ELSE at[i + Len(at) - Len(shape)]]

\* Python's slice start:end:step of a dimension, as the sequence of its indices.
Clamp(n, size) ==
    LET counted == IF n < 0 THEN n + size ELSE n
    IN  IF counted < 0 THEN 0 ELSE IF counted > size THEN size ELSE counted
Slice(start, end, step, size) ==
    SetToSortSeq({i \in Clamp(start, size) .. Clamp(end, size) - 1 :
                     (i - Clamp(start, size)) % step = 0}, <)

\* The elements of the source that a reduction over dims folds into "at".
Folded(source, dims, keepdim, at) ==
    LET kept == SetToSortSeq(DOMAIN source \ dims, <)
    IN  {p \in Points(source) :
            \A k \in DOMAIN kept : p[kept[k]] = at[IF keepdim THEN kept[k] ELSE k]}

\* The taps (channel, window position) of a convolution or a pooling that
\* fall inside the input, with the input element each reads.
Taps(input, window, op, first, channels, at) ==
    {tap \in [1 .. Len(window) + 1 -> 0 .. Max(Range(window) \cup {channels})] :
        /\ tap[1] < channels
        /\ \A s \in DOMAIN window :
             /\ tap[s + 1] < window[s]
             /\ at[s + 2] * op.stride[s] + tap[s + 1] * op.dilation[s] - op.padding[s]
                    \in 0 .. input[s + 2] - 1}
TapInput(op, first, tap, at) ==
    <<at[1], first + tap[1]>>
    \o [s \in 1 .. Len(tap) - 1 |->
           at[s + 2] * op.stride[s] + tap[s + 1] * op.dilation[s] - op.padding[s]]

\* result is the function of the operands' results; read as result[v][at].
Contracted(result, inner, Left(_), Right(_), bias, at) ==
    LET sum == Reduced("sum", BagOfTerms("sum",
                   [k \in inner |-> Apply("mul", <<Left(k), Right(k)>>)]))
    IN  IF bias = <<>> THEN sum ELSE Apply("add", <<sum, Head(bias)>>)

Element(graph, op, result, at) ==
    LET shape(i) == graph.values[op.in[i]].shape
        out == graph.values[op.out].shape
        operand(i) == result[op.in[i]]
        bias(i) == [k \in 1 .. Len(op.in) + 1 - i |-> operand(i)[Broadcast(shape(i), at)]]
    IN  CASE op.f = "pointwise" ->
               Apply(op.fn, [i \in DOMAIN op.in |-> operand(i)[Broadcast(shape(i), at)]]
                            \o op.scalars)
          [] op.f = "clone" -> operand(1)[Broadcast(shape(1), at)]
          [] op.f = "copy_" -> operand(2)[Broadcast(shape(2), at)]
          [] op.f = "full" -> Const(op.value)
          [] op.f = "iota" -> Const(op.start + op.step * at[1])
          [] op.f = "slice_scatter" ->
               LET dim == Dim(op.dim, out)
                   slice == Slice(op.start, op.end, op.step, out[dim])
               IN  IF at[dim] \in Range(slice)
                   THEN operand(2)[[at EXCEPT ![dim] =
                           SelectInSeq(slice, LAMBDA i : i = at[dim]) - 1]]
                   ELSE operand(1)[at]
          [] op.f = "select_scatter" ->
               LET dim == Dim(op.dim, out)
               IN  IF at[dim] = (IF op.index < 0 THEN op.index + out[dim] ELSE op.index)
                   THEN operand(2)[RemoveAt(at, dim)] ELSE operand(1)[at]
          [] op.f = "constant_pad_nd" ->
               LET low(i) == LET pair == Len(out) - i
                             IN  IF 2 * pair < Len(op.pad) THEN op.pad[2 * pair + 1] ELSE 0
                   from == [i \in DOMAIN at |-> at[i] - low(i)]
               IN  IF Within(shape(1), from) THEN operand(1)[from] ELSE Const(op.fill)
          [] op.f = "cat" ->
               LET dim == Dim(op.dim, out)
                   before[i \in 1 .. Len(op.in) + 1] ==
                       IF i = 1 THEN 0 ELSE before[i - 1] + shape(i - 1)[dim]
                   part == CHOOSE i \in DOMAIN op.in :
                               at[dim] \in before[i] .. before[i + 1] - 1
               IN  operand(part)[[at EXCEPT ![dim] = @ - before[part]]]
          [] op.f = "index" ->
               LET indices == Tail(op.in)
                   rank == Max({Len(graph.values[v].shape) : v \in Range(indices)})
                   chosen == [i \in DOMAIN indices |->
                      result[indices[i]][Broadcast(graph.values[indices[i]].shape,
                                                   SubSeq(at, 1, rank))].const]
               IN  operand(1)[chosen \o SubSeq(at, rank + 1, Len(at))]
          [] op.f = "gather" ->
               operand(1)[[at EXCEPT ![Dim(op.dim, out)] = operand(2)[at].const]]
          [] op.f = "reduce" ->
               LET dims == {Dim(op.dims[i], shape(1)) : i \in DOMAIN op.dims}
                   folded == Folded(shape(1), dims, op.keepdim, at)
                   kind == IF op.fn = "amax" THEN "max" ELSE "sum"
                   bag == Reduced(kind, BagOfTerms(kind, [p \in folded |-> operand(1)[p]]))
               IN  CASE op.fn = "mean" -> Apply("div", <<bag, Const(Cardinality(folded))>>)
                     [] op.fn = "any" -> Apply("gt", <<bag, Zero>>)
                     [] OTHER -> bag
          [] op.f = "linear" ->
               Contracted(result, 0 .. shape(1)[2] - 1,
                          LAMBDA k: operand(1)[<<at[1], k>>],
                          LAMBDA k: operand(2)[<<at[2], k>>], bias(3), at)
          [] op.f = "mm" ->
               Contracted(result, 0 .. shape(1)[2] - 1,
                          LAMBDA k: operand(1)[<<at[1], k>>],
                          LAMBDA k: operand(2)[<<k, at[2]>>], bias(3), at)
          [] op.f = "bmm" ->
               Contracted(result, 0 .. shape(1)[3] - 1,
                          LAMBDA k: operand(1)[<<at[1], at[2], k>>],
                          LAMBDA k: operand(2)[<<at[1], k, at[3]>>], <<>>, at)
          [] op.f = "convolution" ->
               LET window == SubSeq(shape(2), 3, Len(shape(2)))
                   group == at[2] \div (shape(2)[1] \div op.groups)
                   first == group * shape(2)[2]
               IN  Contracted(result, Taps(shape(1), window, op, first, shape(2)[2], at),
                          LAMBDA tap: operand(1)[TapInput(op, first, tap, at)],
                          LAMBDA tap: operand(2)[<<at[2]>> \o tap],
                          [k \in 1 .. Len(op.in) - 2 |-> operand(3)[<<at[2]>>]], at)
          [] op.f = "avg_pool2d" ->
               LET pool == [stride |-> op.stride, padding |-> op.padding, dilation |-> <<1, 1>>]
                   taps == Taps(shape(1), op.kernel, pool, at[2], 1, at)
                   sum == Reduced("sum", BagOfTerms("sum",
                              [tap \in taps |-> operand(1)[TapInput(pool, at[2], tap, at)]]))
               IN  Apply("div", <<sum, Const(Product(op.kernel))>>)
          [] op.f = "view" ->
               CASE op.kind = "reshape" ->
                       operand(1)[Unravel(shape(1),
                           FoldSeq(LAMBDA x, sum: x + sum, 0,
                                   [i \in DOMAIN at |-> at[i] * Below(out, i)]))]
                 [] op.kind = "permute" ->
                       operand(1)[[i \in DOMAIN at |-> at[op.order[i]]]]
                 [] op.kind = "expand" -> operand(1)[Broadcast(shape(1), at)]

\* The results of the first n operators; inputs holds those of the inputs.
Results(graph, inputs) ==
    FoldLeft(LAMBDA result, op:
                [v \in DOMAIN result \cup {op.out} |->
                    IF v = op.out
                    THEN [at \in Points(graph.values[v].shape) |->
                             Element(graph, op, result, at)]
                    ELSE result[v]],
             inputs, graph.ops)
=============================================================================
