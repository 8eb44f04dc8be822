--------------------------- MODULE MCCircularSseq ---------------------------
(***************************************************************************)
(* The fixture as the random-engine tests use it: circular_sseq            *)
(* sseq{3, 5, 7}; and the number of words each engine's seed(q) asks       *)
(* generate for ([rand.eng]: n * k words for mersenne_twister_engine,      *)
(* r * k for subtract_with_carry_engine, k + 3 for                         *)
(* linear_congruential_engine, where k is the number of 32-bit words per   *)
(* result).                                                                *)
(***************************************************************************)
EXTENDS CircularSseq

TestLists == {<<3, 5, 7>>}

\* mt19937: 624 * 1; mt19937_64: 312 * 2.
MersenneWords == {624}

\* ranlux24_base: 24 * 1; ranlux48_base: 12 * 2 (also inside ranlux24/48).
RanluxWords == {24}

\* minstd_rand0 (inside knuth_b) and linear_congruential_engine<unsigned,
\* 5, 7, 11>: 1 + 3.
LcgWords == {4}

\* Small requests that make the cursor wrap within a few words.
SmallWords == {1, 2, 3}
====
