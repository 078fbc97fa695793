---------------------------- MODULE MCGenericKernel ----------------------------
(* Small graphs for the generic bodies.                                         *)
EXTENDS GenericKernel

Tensor(v, shape) ==
    v :> [shape |-> shape, strides |-> Contiguous(shape), offset |-> 0, storage |-> v]
Aliasing(v, storage, shape, strides, offset) ==
    v :> [shape |-> shape, strides |-> strides, offset |-> offset, storage |-> storage]

Graph(values, ops, inputs, outputs) ==
    [values |-> values, ops |-> ops, inputs |-> inputs, outputs |-> outputs,
     indices |-> <<>>]
Indexed(g, held) == [g EXCEPT !.indices = held]

Scalar(fn, in, out) == [f |-> "pointwise", fn |-> fn, in |-> in, out |-> out, scalars |-> <<>>]
Scaled(fn, in, n, out) == [Scalar(fn, in, out) EXCEPT !.scalars = <<Const(n)>>]
Viewed(kind, in, out) == [f |-> "view", kind |-> kind, in |-> <<in>>, out |-> out]
Mean(in, dims, keepdim, out) ==
    [f |-> "reduce", fn |-> "mean", in |-> <<in>>, dims |-> dims, keepdim |-> keepdim, out |-> out]
Summed(fn, in, dims, keepdim, out) == [Mean(in, dims, keepdim, out) EXCEPT !.fn = fn]
Call(f, in, out) == [f |-> f, in |-> in, out |-> out]

\* A chain over broadcast operands; its middle may be returned as well.
ChainGraph(outputs) ==
    Graph(Tensor("a", <<2, 3>>) @@ Tensor("b", <<3>>) @@ Tensor("c", <<2, 1>>)
          @@ Tensor("s", <<2, 3>>) @@ Tensor("t", <<2, 3>>) @@ Tensor("u", <<2, 3>>),
          <<Scalar("add", <<"a", "b">>, "s"), Scalar("mul", <<"s", "c">>, "t"),
            Scalar("sub", <<"t", "s">>, "u")>>,
          {"a", "b", "c"}, outputs)

\* A permuted view of an input, and a result stored column by column.
LayoutGraph ==
    Graph(Tensor("a", <<2, 3>>) @@ Aliasing("p", "a", <<3, 2>>, <<1, 3>>, 0)
          @@ Tensor("b", <<3, 2>>) @@ Aliasing("o", "o", <<3, 2>>, <<1, 3>>, 0),
          <<[Viewed("permute", "a", "p") EXCEPT !.kind = "permute"] @@ [order |-> <<2, 1>>],
            Scalar("add", <<"p", "b">>, "o")>>,
          {"a", "b"}, <<"o">>)

ScatterGraph(start, end, step, size) ==
    Graph(Tensor("a", <<2, 5>>) @@ Tensor("b", <<2, size>>) @@ Tensor("o", <<2, 5>>),
          <<Call("slice_scatter", <<"a", "b">>, "o")
            @@ [dim |-> -1, start |-> start, end |-> end, step |-> step]>>,
          {"a", "b"}, <<"o">>)

SelectGraph ==
    Graph(Tensor("a", <<2, 3>>) @@ Tensor("b", <<2>>) @@ Tensor("o", <<2, 3>>),
          <<Call("select_scatter", <<"a", "b">>, "o") @@ [dim |-> 2, index |-> -1]>>,
          {"a", "b"}, <<"o">>)

PadGraph(low, high, fill) ==
    Graph(Tensor("a", <<2, 3>>) @@ Tensor("o", <<2, 3 + low + high>>),
          <<Call("constant_pad_nd", <<"a">>, "o") @@ [pad |-> <<low, high>>, fill |-> fill]>>,
          {"a"}, <<"o">>)

CatGraph ==
    Graph(Tensor("a", <<2, 1>>) @@ Tensor("b", <<2, 2>>) @@ Tensor("o", <<2, 4>>),
          <<Call("cat", <<"a", "b", "a">>, "o") @@ [dim |-> -1]>>, {"a", "b"}, <<"o">>)

\* Two index tensors that broadcast, and one index per row.
IndexGraph ==
    Indexed(Graph(Tensor("a", <<2, 3>>) @@ Tensor("i", <<2, 1>>) @@ Tensor("j", <<1, 2>>)
                  @@ Tensor("o", <<2, 2>>),
                  <<Call("index", <<"a", "i", "j">>, "o")>>, {"a", "i", "j"}, <<"o">>),
            "i" :> {1, 2} @@ "j" :> {0, 2})
GatherGraph ==
    Indexed(Graph(Tensor("a", <<2, 2>>) @@ Tensor("i", <<2, 2>>) @@ Tensor("o", <<2, 2>>),
                  <<Call("gather", <<"a", "i">>, "o") @@ [dim |-> 1]>>, {"a", "i"}, <<"o">>),
            "i" :> {0, 1, 2})

ReduceGraph(fn, dims, keepdim, shape) ==
    Graph(Tensor("a", <<3, 2>>) @@ Tensor("o", shape),
          <<Summed(fn, "a", dims, keepdim, "o")>>, {"a"}, <<"o">>)

\* A norm over rows of three with a weight and a residual.
NormGraph ==
    Graph(Tensor("x", <<3, 3>>) @@ Tensor("w", <<3>>) @@ Tensor("r", <<3, 3>>)
          @@ Tensor("p", <<3, 3>>) @@ Tensor("m", <<3, 1>>) @@ Tensor("e", <<3, 1>>)
          @@ Tensor("q", <<3, 1>>) @@ Tensor("s", <<3, 3>>) @@ Tensor("t", <<3, 3>>)
          @@ Tensor("o", <<3, 3>>),
          <<Scaled("pow", <<"x">>, 2, "p"), Mean("p", <<-1>>, TRUE, "m"),
            Scaled("add", <<"m">>, 1, "e"), Scalar("rsqrt", <<"e">>, "q"),
            Scalar("mul", <<"x", "q">>, "s"), Scalar("mul", <<"s", "w">>, "t"),
            Scalar("add", <<"t", "r">>, "o")>>,
          {"x", "w", "r"}, <<"o">>)

\* A linear layer over a batch of rows, seen through views, with a residual.
EpilogueGraph ==
    Graph(Tensor("x", <<2, 2, 2>>) @@ Aliasing("f", "x", <<4, 2>>, <<2, 1>>, 0)
          @@ Tensor("w", <<2, 2>>) @@ Tensor("b", <<2>>) @@ Tensor("y", <<4, 2>>)
          @@ Aliasing("z", "y", <<2, 2, 2>>, <<4, 2, 1>>, 0)
          @@ Tensor("r", <<2, 2, 2>>) @@ Tensor("g", <<2, 1, 2>>)
          @@ Tensor("s", <<2, 2, 2>>) @@ Tensor("o", <<2, 2, 2>>),
          <<Viewed("reshape", "x", "f"), Call("linear", <<"f", "w", "b">>, "y"),
            Viewed("reshape", "y", "z"), Scalar("add", <<"z", "r">>, "s"),
            Scalar("mul", <<"s", "g">>, "o")>>,
          {"x", "w", "b", "r", "g"}, <<"o">>)

\* Gate and up projections of one operand.
PairGraph ==
    Graph(Tensor("x", <<2, 2>>) @@ Tensor("w", <<3, 2>>) @@ Tensor("v", <<3, 2>>)
          @@ Tensor("y", <<2, 3>>) @@ Tensor("z", <<2, 3>>) @@ Tensor("s", <<2, 3>>)
          @@ Tensor("o", <<2, 3>>),
          <<Call("linear", <<"x", "w">>, "y"), Call("linear", <<"x", "v">>, "z"),
            Scalar("silu", <<"y">>, "s"), Scalar("mul", <<"s", "z">>, "o")>>,
          {"x", "w", "v"}, <<"o">>)

BatchedGraph ==
    Graph(Tensor("a", <<2, 1, 3>>) @@ Tensor("b", <<2, 3, 2>>) @@ Tensor("o", <<2, 1, 2>>)
          @@ Aliasing("q", "o", <<2, 2>>, <<2, 1>>, 0) @@ Tensor("m", <<2, 2>>)
          @@ Tensor("n", <<2, 2>>),
          <<Call("bmm", <<"a", "b">>, "o"), Viewed("reshape", "o", "q"),
            Call("mm", <<"q", "m">>, "n")>>,
          {"a", "b", "m"}, <<"n">>)

\* A grouped convolution with a bias, padded and strided.
ConvolutionGraph ==
    Graph(Tensor("x", <<1, 2, 3, 2>>) @@ Tensor("w", <<2, 1, 2, 2>>) @@ Tensor("b", <<2>>)
          @@ Tensor("o", <<1, 2, 2, 1>>),
          <<Call("convolution", <<"x", "w", "b">>, "o")
            @@ [groups |-> 2, stride |-> <<2, 1>>, padding |-> <<1, 0>>, dilation |-> <<2, 1>>]>>,
          {"x", "w", "b"}, <<"o">>)
WindowGraph ==
    Graph(Tensor("x", <<1, 2, 4>>) @@ Tensor("w", <<1, 2, 3>>) @@ Tensor("o", <<1, 1, 4>>),
          <<Call("convolution", <<"x", "w">>, "o")
            @@ [groups |-> 1, stride |-> <<1>>, padding |-> <<1>>, dilation |-> <<1>>]>>,
          {"x", "w"}, <<"o">>)
PoolGraph ==
    Graph(Tensor("x", <<1, 1, 2, 3>>) @@ Tensor("o", <<1, 1, 2, 2>>),
          <<Call("avg_pool2d", <<"x">>, "o")
            @@ [kernel |-> <<2, 3>>, stride |-> <<2, 2>>, padding |-> <<1, 1>>]>>,
          {"x"}, <<"o">>)

\* A recurrent state: read, then replaced by its next value.
StateGraph ==
    Graph(Tensor("h", <<3>>) @@ Tensor("x", <<3>>) @@ Tensor("n", <<3>>)
          @@ Aliasing("c", "h", <<3>>, <<1>>, 0) @@ Tensor("o", <<3>>),
          <<Scalar("add", <<"h", "x">>, "n"), Scalar("mul", <<"h", "n">>, "o"),
            Call("copy_", <<"h", "n">>, "c")>>,
          {"h", "x"}, <<"o", "c">>)

SoftmaxGraph ==
    Graph(Tensor("x", <<2, 3>>) @@ Tensor("m", <<2, 1>>) @@ Tensor("d", <<2, 3>>)
          @@ Tensor("e", <<2, 3>>) @@ Tensor("z", <<2, 1>>) @@ Tensor("o", <<2, 3>>),
          <<Summed("amax", "x", <<2>>, TRUE, "m"), Scalar("sub", <<"x", "m">>, "d"),
            Scalar("exp", <<"d">>, "e"), Summed("sum", "e", <<2>>, TRUE, "z"),
            Scalar("div", <<"e", "z">>, "o")>>,
          {"x"}, <<"o">>)

PositionGraph ==
    Graph(Tensor("i", <<5>>) @@ Tensor("f", <<5>>) @@ Tensor("o", <<5>>),
          <<Call("iota", <<>>, "i") @@ [start |-> 2, step |-> 3],
            Call("full", <<>>, "f") @@ [value |-> 7], Scalar("add", <<"i", "f">>, "o")>>,
          {}, <<"o">>)

\* Two of everything: views, sums of them, and the next value of a state, one
\* of which the state is written from.
CommonGraph ==
    Graph(Tensor("a", <<2, 3>>) @@ Aliasing("p", "a", <<3, 2>>, <<1, 3>>, 0)
          @@ Aliasing("q", "a", <<3, 2>>, <<1, 3>>, 0) @@ Tensor("b", <<3, 2>>)
          @@ Tensor("s", <<3, 2>>) @@ Tensor("t", <<3, 2>>) @@ Tensor("m", <<3, 2>>)
          @@ Tensor("n", <<3, 2>>) @@ Tensor("o", <<3, 2>>)
          @@ Aliasing("c", "b", <<3, 2>>, <<2, 1>>, 0),
          <<[Viewed("permute", "a", "p") EXCEPT !.kind = "permute"] @@ [order |-> <<2, 1>>],
            [Viewed("permute", "a", "q") EXCEPT !.kind = "permute"] @@ [order |-> <<2, 1>>],
            Scalar("add", <<"p", "b">>, "s"), Scalar("add", <<"q", "b">>, "t"),
            Scalar("mul", <<"s", "b">>, "m"), Scalar("mul", <<"t", "b">>, "n"),
            Scalar("sub", <<"n", "t">>, "o"), Call("copy_", <<"b", "m">>, "c")>>,
          {"a", "b"}, <<"o", "t", "c">>)

MCGraphs ==
    {ChainGraph(<<"u">>), ChainGraph(<<"u", "t">>), LayoutGraph,
     ScatterGraph(-4, 5, 2, 2), ScatterGraph(1, 9, 1, 4), SelectGraph,
     PadGraph(1, -1, 0), PadGraph(2, 1, 4), CatGraph, IndexGraph, GatherGraph,
     ReduceGraph("sum", <<1>>, FALSE, <<2>>), ReduceGraph("amax", <<2>>, TRUE, <<3, 1>>),
     ReduceGraph("any", <<-2>>, FALSE, <<2>>),
     NormGraph, EpilogueGraph, PairGraph, BatchedGraph, ConvolutionGraph, WindowGraph,
     PoolGraph, StateGraph, SoftmaxGraph, PositionGraph,
     CommonGraph}

\* A token shift: a row is mixed with the row before it.
MCShiftGraphs ==
    {Graph(Tensor("x", <<3, 1>>) @@ Tensor("a", <<3, 1>>) @@ Tensor("p", <<3, 1>>)
           @@ Tensor("s", <<3, 1>>) @@ Tensor("o", <<3, 1>>),
           <<Call("constant_pad_nd", <<"x">>, "p") @@ [pad |-> <<0, 0, 1, -1>>, fill |-> 0],
             Scalar("mul", <<"x", "a">>, "s"), Scalar("add", <<"s", "p">>, "o")>>,
           {"x", "a"}, <<"o">>)}
================================================================================
