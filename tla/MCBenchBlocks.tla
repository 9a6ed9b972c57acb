--------------------------- MODULE MCBenchBlocks ---------------------------
(***************************************************************************)
(* Instances of BenchBlocks for TLC.                                       *)
(***************************************************************************)
EXTENDS BenchBlocks

\* The result of rank 1 in the first block is wrong, the others are right.
OneBad == {{<<1, 1>>}}
=============================================================================
