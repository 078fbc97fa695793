---------------------------- MODULE TensorPrograms ----------------------------
(***************************************************************************)
(* The indexed tensor programs the graph is lowered to                     *)
(* (src/src/megabake/lowering.py, ir.py) and what a program computes.      *)
(*                                                                         *)
(* Elements are terms, so two results are equal only if the same operator  *)
(* was applied to the same elements: an input element is                   *)
(* [elem |-> value, at |-> coordinates], a constant [const |-> n], the     *)
(* result of an operator [fn |-> name, args |-> terms], the result of a    *)
(* reduction [fn |-> name, of |-> bag of terms].  Dtypes, roundings and    *)
(* the order of additions are left out.                                    *)
(*                                                                         *)
(* A graph is [values, ops, inputs, outputs]: values maps a name to        *)
(* [shape, strides, offset, storage], ops is a sequence of records with    *)
(* the ATen operator f, its operands "in", its result "out" and its        *)
(* parameters.  Dimensions count from 1; axis i > 0 is output axis o(i-1), *)
(* axis -k is reduction axis rk.                                           *)
(***************************************************************************)
EXTENDS Integers, SequencesExt

-----------------------------------------------------------------------------
(* Shapes and coordinates. *)

Product(sizes) == FoldSeq(LAMBDA size, product: size * product, 1, sizes)

\* Elements between two neighbours along dimension i of a row-major shape.
Below(shape, i) == Product(SubSeq(shape, i + 1, Len(shape)))

Contiguous(shape) == [i \in DOMAIN shape |-> Below(shape, i)]

\* Coordinates of the n-th element of a row-major shape; they wrap past the end.
Unravel(shape, n) == [i \in DOMAIN shape |-> (n \div Below(shape, i)) % shape[i]]

Points(shape) == {Unravel(shape, n) : n \in 0 .. Product(shape) - 1}

Address(value, at) ==
    FoldSeq(LAMBDA x, sum: x + sum, value.offset,
            [i \in DOMAIN at |-> at[i] * value.strides[i]])

Within(shape, at) == \A i \in DOMAIN shape : at[i] \in 0 .. shape[i] - 1

-----------------------------------------------------------------------------
(* Terms. *)

Const(n) == [const |-> n]
Zero == Const(0)

\* A product with a zero read outside its source is zero.
Apply(fn, args) ==
    IF fn = "mul" /\ Zero \in Range(args) THEN Zero ELSE [fn |-> fn, args |-> args]

\* What a reduction accumulates of a function's values; zeros add nothing to
\* a sum.
BagOfTerms(fn, terms) ==
    LET Counted == {i \in DOMAIN terms : ~(fn = "sum" /\ terms[i] = Zero)}
    IN  [t \in {terms[i] : i \in Counted} |-> Cardinality({i \in Counted : terms[i] = t})]

Reduced(fn, bag) == [fn |-> fn, of |-> bag]

-----------------------------------------------------------------------------
(* Index expressions and scalar expressions. *)

Axis(i) == [axis |-> i]
At(n) == [at |-> n]
Affine(terms, offset) == [terms |-> terms, offset |-> offset]
Data(load) == [load |-> load]
AxisTerm(axis, scale, divisor, modulus) ==
    [axis |-> axis, scale |-> scale, divisor |-> divisor, modulus |-> modulus]
Term(axis) == AxisTerm(axis, 1, 1, 0)

AxisReferences(axis) ==
    CASE "axis" \in DOMAIN axis -> {axis.axis}
      [] "terms" \in DOMAIN axis -> {t.axis : t \in Range(axis.terms)}
      [] OTHER -> {}

TermCoordinate(term, at) ==
    LET quotient == at[term.axis] \div term.divisor
    IN  term.scale * IF term.modulus = 0 THEN quotient ELSE quotient % term.modulus

AxisCoordinate(axis, at) ==
    CASE "axis" \in DOMAIN axis -> at[axis.axis]
      [] "at" \in DOMAIN axis -> axis.at
      [] "terms" \in DOMAIN axis ->
            FoldSeq(LAMBDA term, sum: sum + TermCoordinate(term, at),
                    axis.offset, axis.terms)

Read(load) == [read |-> load]
Sum(index) == [accumulator |-> index]
Fn(fn, args) == [fn |-> fn, args |-> args]
\* first where the output coordinates pass every test, else second.
Select(tests, first, second) == [tests |-> tests, first |-> first, second |-> second]
Inside(axis, start, end, step) == [axis |-> axis, start |-> start, end |-> end, step |-> step]
Passes(test, at) ==
    /\ test.start <= at[test.axis] /\ at[test.axis] < test.end
    /\ (at[test.axis] - test.start) % test.step = 0

-----------------------------------------------------------------------------
(* What a program's loads and expressions evaluate to over a memory, a     *)
(* function from storages to addresses to terms.                           *)

Contents(graph, memory, value, at) ==
    memory[graph.values[value].storage][Address(graph.values[value], at)]

\* The tensors a body is given: each value once, then its output.
Bindings(program) ==
    LET Bind(values, load) ==
            IF load.value \in Range(values) THEN values ELSE Append(values, load.value)
    IN  Append(FoldLeft(Bind, <<>>, program.loads), program.store)

RECURSIVE LoadCoordinates(_, _, _, _, _), Fetch(_, _, _, _, _)

\* A data index reads the tensor bound at its load's position.
LoadCoordinates(graph, memory, program, load, at) ==
    LET Index(k) == [program.loads[k] EXCEPT !.value = Bindings(program)[k]]
    IN  [i \in DOMAIN load.axes |->
            IF "load" \in DOMAIN load.axes[i]
            THEN Fetch(graph, memory, program, Index(load.axes[i].load), at).const
            ELSE AxisCoordinate(load.axes[i], at)]

\* A coordinate outside the source reads zero.
Fetch(graph, memory, program, load, at) ==
    LET coordinates == LoadCoordinates(graph, memory, program, load, at)
    IN  IF Within(graph.values[load.value].shape, coordinates)
        THEN Contents(graph, memory, load.value, coordinates)
        ELSE Zero

\* The loads whose index, itself loaded, is outside the source: they trap.
OutOfRange(graph, memory, program, at) ==
    \E load \in Range(program.loads) : \E i \in DOMAIN load.axes :
        /\ "load" \in DOMAIN load.axes[i]
        /\ LET index == program.loads[load.axes[i].load]
           IN  Fetch(graph, memory, program, index, at).const
                   \notin 0 .. graph.values[load.value].shape[i] - 1

RECURSIVE Evaluate(_, _, _, _, _, _)
Evaluate(graph, memory, program, expression, at, sums) ==
    LET Value(e) == Evaluate(graph, memory, program, e, at, sums)
    IN  CASE "read" \in DOMAIN expression ->
                Fetch(graph, memory, program, program.loads[expression.read], at)
          [] "const" \in DOMAIN expression -> expression
          [] "accumulator" \in DOMAIN expression -> sums[expression.accumulator]
          [] "index" \in DOMAIN expression ->
                Const(expression.start + expression.step * at[expression.index])
          [] "tests" \in DOMAIN expression ->
                IF \A test \in Range(expression.tests) : Passes(test, at)
                THEN Value(expression.first) ELSE Value(expression.second)
          [] OTHER ->
                Apply(expression.fn,
                      [i \in DOMAIN expression.args |-> Value(expression.args[i])])

\* The loads an expression reads, and the axes those loads read.
RECURSIVE ExpressionLoads(_)
ExpressionLoads(expression) ==
    CASE "read" \in DOMAIN expression -> {expression.read}
      [] "tests" \in DOMAIN expression ->
            ExpressionLoads(expression.first) \cup ExpressionLoads(expression.second)
      [] "args" \in DOMAIN expression ->
            UNION {ExpressionLoads(e) : e \in Range(expression.args)}
      [] OTHER -> {}

ExpressionAxes(program, expression) ==
    UNION {UNION {AxisReferences(axis) : axis \in Range(program.loads[l].axes)} :
              l \in ExpressionLoads(expression)}
=============================================================================
