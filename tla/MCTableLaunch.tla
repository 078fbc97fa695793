--------------------------- MODULE MCTableLaunch ---------------------------
(* Two CTAs, two barriers a call, a ring of two entries.  MaxInt = 9 makes *)
(* the call counter wrap after two calls and next_epoch after four, so six *)
(* calls reuse both entries, wrap the counter and reach forward's own      *)
(* reset, with a capture and replays anywhere in between.                  *)
EXTENDS TableLaunch

Region(reads, writes) == [reads |-> reads, writes |-> writes]

(* An input x that is written in place and read through a view v, a weight *)
(* w; h in the workspace, read through its view u; y, of which the output  *)
(* z is a view; the output o.                                              *)
MCGraph ==
  LET values == {"x", "w", "v", "h", "u", "y", "z", "o"}
  IN  [values |-> values, inputs |-> <<"x", "w">>, outputs |-> <<"z", "o">>,
       parameters |-> {"w"}, mutated |-> {"x"},
       regions |-> <<Region(<<"v", "w">>, <<"h">>), Region(<<"u">>, <<"y">>),
                     Region(<<"y", "x">>, <<"o">>)>>,
       alias   |-> [a \in values |-> CASE a = "v" -> "x" [] a = "u" -> "h"
                                       [] a = "z" -> "y" [] OTHER -> a],
       offset  |-> [a \in values |-> IF a \in {"v", "u", "z"} THEN 1 ELSE 0],
       place   |-> [a \in values |-> 4]]

MCModels == {MCGraph}

ASSUME MCModelsSound == \A g \in MCModels : PlanSound(MakePlan(g))

(* Outputs listed before the output they are a view of are made apart from *)
(* it: no run has this graph, under which RightAddresses fails.            *)
MCViewFirst ==
  {[MCGraph EXCEPT !.outputs = <<"z", "y", "o">>, !.regions[3].reads = <<"z", "x">>]}

(* The first slot is an output's: no run has this graph, of whose calls a  *)
(* graph cannot capture one, because every call uploads the table.         *)
MCOutputFirst ==
  {[MCGraph EXCEPT !.regions = <<Region(<<"v", "w">>, <<"y">>),
                                 Region(<<"y", "w", "x">>, <<"o">>)>>,
                   !.values  = @ \ {"h", "u"}]}

Tensor(id, name, start) == [id |-> id, storage |-> <<name, 0>>, start |-> start]

(* The second x is another part of the first's storage.                    *)
MCArguments ==
  {[x |-> Tensor("x1", "cache", 0), w |-> Tensor("w1", "weights", 0)],
   [x |-> Tensor("x2", "cache", 8), w |-> Tensor("w2", "others", 0)]}
=============================================================================
