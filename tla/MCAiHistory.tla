---------------------------- MODULE MCAiHistory ----------------------------
(* An instance of AiHistory for TLC.                                          *)
EXTENDS AiHistory, TLC

CONSTANTS w1, w2, s1, s2, x

Symmetry == Permutations(Writer) \cup Permutations(Stack)
=============================================================================
