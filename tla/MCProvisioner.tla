--------------------------- MODULE MCProvisioner ---------------------------
(* Instances of Provisioner for TLC.                                          *)
EXTENDS Provisioner, TLC

CONSTANTS r1, r2, s1, s2

Symmetry == Permutations(Run)
=============================================================================
