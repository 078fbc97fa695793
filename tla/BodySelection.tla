---------------------------- MODULE BodySelection ----------------------------
(***************************************************************************)
(* Which bodies run a graph, and in which order: form_regions of           *)
(* src/src/megabake/regions.py and _enumerate_body_selections of           *)
(* planner.py.  Region o is the operator at position o of the graph; its   *)
(* options are the candidates that end at o and its own program.  Tuned    *)
(* and generic bodies of one program are not told apart.                   *)
(***************************************************************************)
EXTENDS Fusion

MapFamilies == {"elementwise", "copy", "gather", "concat"}

Values(program) == {load.value : load \in Range(program.loads)}

\* A GEMM with an epilogue runs in a tuned body only.  The generic contraction
\* binds one tensor per load, so an operand that is both does not compile.
HasBody(option) ==
    LET program == option.program
    IN  CASE program.family \in MapFamilies -> Product(program.shape) > 0
          [] program.family \in {"reduction", "contraction"} ->
                /\ Len(program.red) = 1
                /\ program.shape # <<>> /\ Product(program.shape \o program.red) > 0
                /\ \/ program.family = "reduction" \/ option.kind = "gemm"
                   \/ Cardinality(Values(program)) = Len(program.loads)
          [] OTHER -> FALSE

Own(graph, o) ==
    [ops |-> {o}, tail |-> o, kind |-> "own", program |-> Lowered(graph, o)]

\* The planner's None: the region needs no body of its own.
NoBody(o) == [ops |-> {}, tail |-> o, kind |-> "none"]

Options(graph, candidates, o) ==
    LET fused == {c \in candidates : c.tail = o /\ HasBody(c)}
        covered == \E c \in candidates : o \in c.ops
    IN  IF IsView(graph, o) THEN fused \cup {NoBody(o)}
        ELSE LET options == fused \cup {c \in {Own(graph, o)} : HasBody(c)}
             IN  IF options = {} /\ covered THEN {NoBody(o)} ELSE options

\* Larger options first, then in the order of their regions.
BySize(options) ==
    SetToSortSeq({o \in options : o.kind # "none"},
        LAMBDA a, b : \/ Cardinality(a.ops) > Cardinality(b.ops)
                      \/ Cardinality(a.ops) = Cardinality(b.ops) /\ a.tail < b.tail)

\* An option that overlaps a larger one is left out.
Chosen(options) ==
    FoldLeft(LAMBDA chosen, option :
                IF option.ops \cap UNION {c.ops : c \in Range(chosen)} # {}
                THEN chosen ELSE Append(chosen, option),
             <<>>, BySize(options))

\* The body that produces a value or, failing that, its storage.
ProducedBy(graph, chosen, v) ==
    LET Of(value) == {i \in DOMAIN chosen : Producer(graph, value) \in chosen[i].ops}
    IN  IF Of(v) # {} THEN Of(v) ELSE Of(graph.values[v].storage)

BodyDependencies(graph, chosen, i) ==
    UNION {ProducedBy(graph, chosen, v) : v \in Values(chosen[i].program)} \ {i}

\* Of the bodies that are ready, the first in the order chosen goes next.
Ordered(graph, chosen) ==
    LET Ready(order) ==
            {i \in DOMAIN chosen \ Range(order) :
                BodyDependencies(graph, chosen, i) \subseteq Range(order)}
        order == FoldLeft(LAMBDA done, i : IF Ready(done) = {} THEN done
                                           ELSE Append(done, Min(Ready(done))),
                          <<>>, [i \in DOMAIN chosen |-> i])
    IN  [k \in DOMAIN order |-> chosen[order[k]]]

\* The selections of a graph: one option per region, overlaps resolved.
PlansOf(graph, options) ==
    LET Combinations ==
            FoldLeft(LAMBDA combinations, o :
                        {c \cup {option} : c \in combinations, option \in options[o]},
                     {{}}, [o \in DOMAIN graph.ops |-> o])
        Covers(c) ==
            \A none \in {option \in c : option.kind = "none"} :
                \/ IsView(graph, none.tail)
                \/ none.tail \in UNION {b.ops : b \in Range(Chosen(c))}
    IN  {Ordered(graph, Chosen(c)) : c \in {k \in Combinations : Covers(k) /\ Chosen(k) # <<>>}}

RegionOptions(graph, candidates) ==
    [o \in DOMAIN graph.ops |-> Options(graph, candidates, o)]

Plans(graph) == PlansOf(graph, RegionOptions(graph, Candidates(graph)))
=============================================================================
