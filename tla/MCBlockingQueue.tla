--------------------------- MODULE MCBlockingQueue ---------------------------
(***************************************************************************)
(* BlockingQueue on small instances; threads are interchangeable.          *)
(***************************************************************************)
EXTENDS BlockingQueue, TLC

CONSTANTS a, b, t1, t2, t3, t4

Symmetry == Permutations(Threads) \cup Permutations(Items)
================================================================================
