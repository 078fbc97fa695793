---------------------------- MODULE MCMegaKernel ----------------------------
(* Every graph of four regions, each reading one or two earlier values,    *)
(* with an in-place write to the state by no region or by a late one, and  *)
(* with the small bodies placed so that runs of intervals fold, do not fit *)
(* the limits, or conflict with the interval behind them; and the graphs   *)
(* of two branches, which are the smallest where a value can be given the  *)
(* bytes of one still read in the same interval.  Two CTAs, and values of  *)
(* one, two and three tiles: fewer than, as many as and more than there    *)
(* are CTAs.                                                               *)
EXTENDS MegaKernel

MCRegions == 4

MCReads ==
  {reads \in [1 .. MCRegions -> SUBSET (0 .. MCRegions - 1)] :
     \A r \in DOMAIN reads : reads[r] \subseteq 0 .. r - 1 /\ Cardinality(reads[r]) \in 1 .. 2}

MCTiles(n, inPlace) ==
  [v \in 0 .. n |-> IF v \in inPlace THEN 2 ELSE <<2, 2, 1, 3, 2, 2>>[v + 1]]

MCSmall == {{}, {1}, {1, 2}, {2, 3}, {1, 3}, {1, 2, 3}}

(* An in-place writer is a body of the elementwise family, but one of more *)
(* rounds than fold here; MCRecurrentDecode has a small one.               *)
MCGraph(reads, small, inPlace) ==
  LET n == Len(reads)
  IN  [n       |-> n,
       reads   |-> reads,
       inPlace |-> inPlace,
       tiles   |-> MCTiles(n, inPlace),
       rounds  |-> [r \in 1 .. n |-> IF r \in small THEN 2 ELSE Large],
       outputs |-> {v \in 1 .. n : \A r \in 1 .. n : v \notin reads[r]} \ inPlace]

(* The writer itself copies another value into the state.                  *)
MCSmallGraphs ==
  {g \in {MCGraph(p[1], p[2], p[3]) : p \in MCReads \X MCSmall \X {{}, {3}, {4}}} :
     /\ StateThreaded(g) /\ WritersStay(g)
     /\ \A w \in g.inPlace : Cardinality(g.reads[w]) = 1}

MCBranches ==
  {MCGraph(<<{0}, {0}, {p[1]}, {p[2]}, {3, 4}>>, p[3], {}) :
     p \in {1, 2} \X {1, 2} \X MCSmall}

MCGraphs == MCSmallGraphs \cup MCBranches

(* A recurrent decode step: h2 = f(h), h.copy_(h2), y = g(h2), out = y @ W.*)
(* The copy is as small as the maps around it.                             *)
MCRecurrentDecode ==
  {MCGraph(<<{0}, {1}, {1}, {3}>>, {1, 2, 3}, {2})}
=============================================================================
