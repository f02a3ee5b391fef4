--------------------------- MODULE MCHelperChannel ---------------------------
(***************************************************************************)
(* Finite instances of HelperChannel: two bodies of the largest size that  *)
(* fits a frame and one that does not fit.                                 *)
(***************************************************************************)
EXTENDS HelperChannel

CONSTANTS b1, b2, b3

MCBodies == {b1, b2, b3}
MCSize == [b \in MCBodies |-> MAX_BODY_BYTES + (IF b = b3 THEN 1 ELSE 0)]
=============================================================================
