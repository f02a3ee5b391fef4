----------------------------- MODULE AtomicFile -----------------------------
(***************************************************************************)
(* What security::secure_write promises its callers: a directory of files  *)
(* that are replaced whole, and what a power failure may do to them.       *)
(*                                                                         *)
(* A replacement shows at once and is lost again, at worst, until the      *)
(* directory it is in has been synced; a caller that is told Ok is told so *)
(* of a value no power failure takes away.                                 *)
(***************************************************************************)
EXTENDS Naturals

CONSTANTS
    Files,
    Versions,    \* what a file may hold; 0 is no file
    DirOf        \* the directory each file is in

VARIABLES
    value,       \* what a reader of each file gets
    fallback,    \* what a power failure may leave of each file
    told         \* the last value of each file a writer was told Ok of

absVars == <<value, fallback, told>>

AbsInit ==
    /\ value = [f \in Files |-> 0]
    /\ fallback = [f \in Files |-> {0}]
    /\ told = [f \in Files |-> 0]

Replace(f, v) ==
    /\ value' = [value EXCEPT ![f] = v]
    /\ fallback' = [fallback EXCEPT ![f] = @ \cup {v}]
    /\ UNCHANGED told

Confirm(f) ==
    /\ fallback' = [g \in Files |-> IF DirOf[g] = DirOf[f] THEN {value[g]} ELSE fallback[g]]
    /\ told' = [told EXCEPT ![f] = value[f]]
    /\ UNCHANGED value

PowerFailure ==
    /\ value' \in [Files -> Versions]
    /\ \A f \in Files : value'[f] \in fallback[f]
    /\ fallback' = [f \in Files |-> {value'[f]}]
    /\ UNCHANGED told

AbsNext ==
    \/ \E f \in Files : Confirm(f) \/ \E v \in Versions : Replace(f, v)
    \/ PowerFailure

AbsSpec == AbsInit /\ [][AbsNext]_absVars
=============================================================================
