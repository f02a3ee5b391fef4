---------------------------- MODULE MCEnrollment ----------------------------
(* Instances of Enrollment for TLC: one process, as the unit runs it.        *)
EXTENDS Enrollment, TLC

\* Keypairs are interchangeable.
KeySymmetry == Permutations(Keys)
=============================================================================
