------------------------------- MODULE Frontend -------------------------------
(***************************************************************************)
(* The last pass over the captured graph before it is imported:            *)
(* eliminate_common_subexpressions of src/src/megabake/frontend.py.        *)
(***************************************************************************)
EXTENDS TensorPrograms

\* _is_mutating, for the operators modelled.
Mutating(op) == op.f = "copy_"

\* Results that a mutating operator is given.
Written(g) == UNION {Range(op.in) : op \in {o \in Range(g.ops) : Mutating(o)}}

\* _cse_key: the operator and its arguments.  Those of a view are its layout.
Key(g, op) ==
    [operator |-> [op EXCEPT !.out = "result"], shape |-> g.values[op.out].shape,
     strides |-> g.values[op.out].strides, offset |-> g.values[op.out].offset]

\* Each operator in turn, its operands renamed, is kept or stands for the
\* first kept one of its key.
Merged(g) ==
    LET Alone(op) == Mutating(op) \/ op.out \in Written(g)
        Visit(state, original) ==
            LET op == [original EXCEPT !.in = [i \in DOMAIN @ |-> state.as[@[i]]]]
                same == {k \in Range(state.kept) : ~Alone(k) /\ Key(g, k) = Key(g, op)}
            IN  IF Alone(op) \/ same = {} THEN [state EXCEPT !.kept = Append(@, op)]
                ELSE [state EXCEPT !.as[op.out] = (CHOOSE k \in same : TRUE).out]
    IN  FoldLeft(Visit, [kept |-> <<>>, as |-> [v \in DOMAIN g.values |-> v]], g.ops)

\* The graph with merged results under one name, their storage too.
EliminateCommon(g) ==
    LET merged == Merged(g)
        names  == {v \in DOMAIN g.values : merged.as[v] = v}
    IN  [g EXCEPT !.ops = merged.kept,
                  !.outputs = [i \in DOMAIN @ |-> merged.as[@[i]]],
                  !.values = [v \in names |-> [@[v] EXCEPT !.storage = merged.as[@]]]]
=============================================================================
