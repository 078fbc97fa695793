---------------------------- MODULE MCEventKernel ----------------------------
(* Graphs of three regions, under the region schedule and the tile schedule*)
(* of each.  MCWholeReads: every way to read earlier values whole, with an *)
(* in-place write by none or by the last.  MCTileReads: reads of part of a *)
(* value, with output tiles that do not line up with the producer's.       *)
(* MaxInt = 5 leaves room for two calls where an event has two producers,  *)
(* refuses the second where it has three, and the third of two.            *)
EXTENDS EventKernel

MCGraph(regions, inPlace) ==
  LET n == Len(regions)
      reads == [r \in 1 .. n |-> {regions[r].loads[l].value : l \in DOMAIN regions[r].loads}]
  IN  [n       |-> n,
       regions |-> regions,
       reads   |-> reads,
       inPlace |-> inPlace,
       tiles   |-> [v \in 0 .. n |-> IF v = 0 THEN 2 ELSE TileCount(regions[v])],
       rounds  |-> [r \in 1 .. n |-> Large],
       outputs |-> {v \in 1 .. n : \A r \in 1 .. n : v \notin reads[r]} \ inPlace]

MCLoad(value, view, axes) == [value |-> value, view |-> view, axes |-> axes]

MCElementwise(shape, limit, loads) ==
  [shape |-> shape, partition |-> "elements", size |-> limit, rows |-> {}, loads |-> loads]
MCTiled(shape, size, loads) ==
  [shape |-> shape, partition |-> "cta", size |-> size, rows |-> {}, loads |-> loads]
MCRows(shape, rows, loads) ==
  [shape |-> shape, partition |-> "rows", size |-> 0, rows |-> rows, loads |-> loads]

(* Vectors of one, three and two tiles of one element, read whole.         *)
MCLengths == <<1, 3, 2>>

MCReads ==
  {reads \in [1 .. 3 -> SUBSET (0 .. 2)] :
     \A r \in DOMAIN reads : reads[r] \subseteq 0 .. r - 1 /\ reads[r] # {}}

MCWhole(value) ==
  LET length == IF value = 0 THEN 2 ELSE MCLengths[value]
  IN  MCLoad(value, <<length>>, <<ReducedAxis(length)>>)

MCWholeGraph(reads, inPlace) ==
  MCGraph([r \in 1 .. 3 |->
             MCTiled(<<MCLengths[r]>>, <<1>>,
                     [i \in 1 .. Cardinality(reads[r]) |-> MCWhole(SetToSeq(reads[r])[i])])],
          inPlace)

MCWholeReads ==
       {MCWholeGraph(reads, {}) : reads \in MCReads}
  \cup {MCWholeGraph(reads, {3}) : reads \in {q \in MCReads : 0 \notin q[3]}}

MCInput(shape) == MCLoad(0, shape, [d \in DOMAIN shape |-> OutputAxis(d)])

(* A matrix in tiles of two columns; its row sums; the matrix less its row *)
(* sums, in runs of three elements.                                        *)
MCRowSums ==
  <<MCTiled(<<2, 4>>, <<1, 2>>, <<MCInput(<<2, 4>>)>>),
    MCRows(<<2>>, {1}, <<MCLoad(1, <<2, 4>>, <<OutputAxis(1), ReducedAxis(4)>>)>>),
    MCElementwise(<<2, 4>>, 3, <<MCLoad(1, <<2, 4>>, <<OutputAxis(1), OutputAxis(2)>>),
                                 MCLoad(2, <<2>>, <<OutputAxis(1)>>)>>)>>

(* A vector in tiles of three; its elements 1 and on, in tiles of two; the *)
(* vector seen as a matrix, which cannot be compared.                      *)
MCShifted ==
  <<MCElementwise(<<6>>, 3, <<MCInput(<<6>>)>>),
    MCElementwise(<<5>>, 2, <<MCLoad(1, <<6>>, <<AffineAxis(1, 1, 0, 1, 1)>>)>>),
    MCRows(<<3>>, {}, <<MCLoad(1, <<3, 2>>, <<OutputAxis(1), ReducedAxis(2)>>),
                        MCLoad(2, <<5>>, <<FixedAxis(4)>>)>>)>>

(* Every second row, tiles of two rows; a gather of any row behind it.     *)
MCStrided ==
  <<MCTiled(<<4, 2>>, <<1, 2>>, <<MCInput(<<4, 2>>)>>),
    MCTiled(<<2, 2>>, <<1, 1>>, <<MCLoad(1, <<4, 2>>, <<AffineAxis(1, 1, 0, 2, 0), OutputAxis(2)>>)>>),
    MCTiled(<<2, 2>>, <<1, 2>>, <<MCLoad(1, <<4, 2>>, <<AffineAxis(1, 2, 0, 1, 3), OutputAxis(2)>>),
                                  MCLoad(2, <<2, 2>>, <<DataAxis, OutputAxis(2)>>)>>)>>

MCTileReads == {MCGraph(MCRowSums, {}), MCGraph(MCShifted, {}), MCGraph(MCStrided, {})}

MCGraphs == MCWholeReads \cup MCTileReads

(* Two branches of different depth.  The levels are {1, 2}, {3, 4}, {5}    *)
(* and {6}: value 5 takes the bytes of value 1, whose last reader, 4,      *)
(* shares an interval with 3; 5 waits for 3, and for 4 it does not.        *)
MCTwoBranches ==
  {MCGraph([r \in 1 .. 6 |->
              MCTiled(<<2>>, <<1>>, <<MCLoad(<<0, 0, 2, 1, 3, 5>>[r], <<2>>, <<ReducedAxis(2)>>)>>)],
           {})}

(* Both halves of a value through two loads.                               *)
MCHalves ==
  {MCGraph(<<MCTiled(<<4>>, <<2>>, <<MCInput(<<4>>)>>),
             MCTiled(<<2>>, <<1>>, <<MCLoad(1, <<4>>, <<OutputAxis(1)>>),
                                     MCLoad(1, <<4>>, <<AffineAxis(1, 1, 0, 1, 2)>>)>>)>>, {})}

(* A run of elements that wraps in the view it reads: i -> i % 4, in tiles *)
(* of three.                                                               *)
MCWrapped ==
  {MCGraph(<<MCTiled(<<4>>, <<1>>, <<MCInput(<<4>>)>>),
             MCTiled(<<8>>, <<3>>, <<MCLoad(1, <<4>>, <<AffineAxis(1, 1, 4, 1, 0)>>)>>)>>, {})}
=============================================================================
