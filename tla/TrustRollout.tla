---------------------------- MODULE TrustRollout ----------------------------
(***************************************************************************)
(* What CA-bundle synchronisation promises, without how it does it: three  *)
(* generations of one host, each of which may only follow the one before.  *)
(*                                                                         *)
(*   installed  the generation sshd on the host trusts                     *)
(*   recorded   the generation the agent has recorded as applied           *)
(*   reported   the generation the server believes the host has reached    *)
(*                                                                         *)
(* Module CaSync, with its crashes, lost answers and hostile replies, is   *)
(* shown to implement this specification.                                  *)
(***************************************************************************)
EXTENDS Naturals

CONSTANT MaxGeneration

VARIABLES installed, recorded, reported

rolloutVars == <<installed, recorded, reported>>

Init == installed = 0 /\ recorded = 0 /\ reported = 0

\* A newly installed generation may be unrecorded, never below the record.
Install ==
    /\ installed' \in recorded..MaxGeneration
    /\ UNCHANGED <<recorded, reported>>

\* The record moves forward to what is installed, and to nothing else.
Record ==
    /\ recorded < installed
    /\ recorded' = installed
    /\ UNCHANGED <<installed, reported>>

\* Only what is on record is reported.
Report ==
    /\ reported' = recorded
    /\ UNCHANGED <<installed, recorded>>

Next == Install \/ Record \/ Report

Spec == Init /\ [][Next]_rolloutVars
=============================================================================
