----------------------------- MODULE MCGemmPhases -----------------------------
(* Two CTAs, two stages.  A norm writes the first activation; two split-K  *)
(* GEMMs share an interval; the GEMM after them is streamed, deeper than   *)
(* the stages and has three tiles; the next one reuses the scratch, and    *)
(* its weight is what an earlier phase wrote; the last one has one tile.   *)
EXTENDS GemmPhases

MCGemm(tiles, splits, depth, a, output, barrier) ==
  [gemm |-> TRUE, tiles |-> tiles, splits |-> splits, depth |-> depth, swap |-> TRUE,
   a |-> a, output |-> output, barrier |-> barrier]

MCNorm(output) ==
  [gemm |-> FALSE, tiles |-> 1, splits |-> 1, depth |-> 0, swap |-> FALSE,
   a |-> "none", output |-> output, barrier |-> TRUE]

MCPhases ==
  <<MCNorm("x"),
    MCGemm(1, 2, 1, "w1", "y", FALSE),
    MCGemm(1, 2, 1, "w2", "z", TRUE),
    MCGemm(3, 1, 3, "w3", "u", TRUE),
    MCGemm(1, 2, 2, "u", "v", TRUE),
    MCGemm(1, 1, 1, "w4", "o", FALSE)>>
=============================================================================
