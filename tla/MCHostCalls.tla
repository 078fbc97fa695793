------------------------------ MODULE MCHostCalls ------------------------------
EXTENDS HostCalls, TLC

MCSelection(bodies, work, active, plans) ==
  [bodies |-> bodies, shared |-> 1, maps |-> TRUE, work |-> work, active |-> active, plans |-> plans]

MCGraph ==
  [k \in {"model", "small", "unknown", "none"} |->
     CASE k = "model" ->
            [lowered |-> TRUE, table |-> TRUE,
             selections |-> <<MCSelection("a", 4, 2, (4 :> 2) @@ (1 :> 3)),
                              [MCSelection("b", 4, 2, <<>>) EXCEPT !.shared = 9],
                              MCSelection("a", 4, 2, <<>>),
                              MCSelection("c", 2, 1, 2 :> 1)>>]
       [] k = "small" ->
            [lowered |-> TRUE, table |-> FALSE,
             selections |-> <<MCSelection("a", 1, 1, 1 :> 1)>>]
       [] k = "unknown" ->
            [lowered |-> FALSE, table |-> FALSE, selections |-> <<>>]
       [] OTHER ->
            [lowered |-> TRUE, table |-> FALSE,
             selections |-> <<MCSelection("a", 2, 2, <<>>)>>]]

MCKernels ==
  [workers : 1 .. 4, emitted : 1 .. 4, events : 1 .. 4, active : 0 .. MaxActive]
MCBudget == [plans |-> 3, compilations |-> 2]
MCRanks == <<{100}, {104}, {}, {100, 112}>>
MCSchedulers == <<"phase", "region-events">>
=============================================================================
