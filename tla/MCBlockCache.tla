---------------------------- MODULE MCBlockCache ----------------------------
(* BlockCache for TLC.  Threads, block numbers and objects are interchangeable. *)
EXTENDS BlockCache, TLC

Symmetry == Permutations(Threads) \cup Permutations(Blocks) \cup Permutations(Objects)
=============================================================================
