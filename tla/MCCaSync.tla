------------------------------ MODULE MCCaSync ------------------------------
(***************************************************************************)
(* Finite instances of CaSync.                                             *)
(***************************************************************************)
EXTENDS CaSync

CONSTANTS k1, k2, s1, s2

\* Two key sets, so that two bundles of one generation can differ.
MCKeySets == {k1, k2}
MCSigners == {s1, s2}
MCOneSigner == {s1}
=============================================================================
