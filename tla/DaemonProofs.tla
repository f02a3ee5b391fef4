---------------------------- MODULE DaemonProofs ----------------------------
(***************************************************************************)
(* Theorems about Daemon, for every largest generation: what the process   *)
(* reports of itself is never ahead of its disk, never falls, and says     *)
(* "stopped cleanly" only of a process that did.                           *)
(***************************************************************************)
EXTENDS Daemon, TLAPS

\* Where the process has not yet saved its first status, and where it has.
Starting == {"startup", "recover", "firstSave"}
Serving == {"cycle", "run", "connect", "accepted", "persist", "stopping", "lastSave"}

\* The three copies of the generation are bounded by the file on disk; this
\* also bounds the memory of a process that is gone (FreshStatus(0)).
CopiesBehind ==
    /\ status.current_generation <= generation
    /\ statusFile # None => statusFile.current_generation <= generation
    /\ reported <= generation

\* From the recovery on, the next heartbeat carries at least what the server
\* has already heard.
MemoryKnowsReported ==
    pc \in Serving \cup {"firstSave"} => reported <= status.current_generation

\* The clean mark: in memory only between MarkClean and the end; in the file
\* never while a process is in service, nor after it was killed there.
CleanMark ==
    /\ pc # "lastSave" => status.clean_shutdown = FALSE
    /\ pc \in Starting => ~inService
    /\ pc \in Serving => inService
    /\ inService /\ statusFile # None /\ (pc # "off" \/ exit = "killed")
          => statusFile.clean_shutdown = FALSE

IInv == TypeOK /\ CopiesBehind /\ MemoryKnowsReported /\ CleanMark

-----------------------------------------------------------------------------
\* A fresh status is one, and carries the generation it was given.
LEMMA FreshStatusIs ==
    ASSUME NEW g \in Generations
    PROVE  /\ FreshStatus(g) \in Status
           /\ FreshStatus(g).current_generation = g
           /\ FreshStatus(g).clean_shutdown = FALSE
BY DEF FreshStatus, Status

\* Zero is a generation, and generations are numbers.
LEMMA GenerationNumbers == 0 \in Generations /\ \A g \in Generations : g \in Nat
BY DaemonAssumption DEF Generations

\* However the process ends, its memory is a fresh status.
LEMMA ExitClears ==
    ASSUME NEW how \in {"success", "failure", "killed"}, Exit(how)
    PROVE  /\ pc' = "off" /\ shutdown' = FALSE /\ due' = {} /\ exit' = how
           /\ status' \in Status
           /\ status'.current_generation = 0
           /\ status'.clean_shutdown = FALSE
BY FreshStatusIs, GenerationNumbers DEF Exit

\* What record_sync may leave in memory: a status of the same mark, whose
\* generation is the old one or the one just written.
LEMMA OutcomeStatus ==
    ASSUME status \in Status, NEW g \in Generations, NEW s \in WithOutcome(g)
    PROVE  /\ s \in Status
           /\ s.current_generation \in {status.current_generation, g}
           /\ s.clean_shutdown = status.clean_shutdown
BY DEF WithOutcome, Status

LEMMA InvInit == Init => IInv
<1> SUFFICES ASSUME Init PROVE IInv
    OBVIOUS
<1>1. /\ status \in Status
      /\ status.current_generation = 0
      /\ status.clean_shutdown = FALSE
      BY FreshStatusIs, GenerationNumbers DEF Init
<1>2. TypeOK
      BY <1>1, GenerationNumbers DEF Init, TypeOK, Points
<1>3. CopiesBehind
      BY <1>1 DEF Init, CopiesBehind
<1>4. MemoryKnowsReported /\ CleanMark
      BY <1>1 DEF Init, MemoryKnowsReported, CleanMark, Starting, Serving
<1> QED BY <1>2, <1>3, <1>4 DEF IInv

\* Ending the process keeps the invariant if its disk is as it should be.
LEMMA ExitKeepsInv ==
    ASSUME IInv, NEW how \in {"success", "failure", "killed"}, Exit(how),
           generation' \in Generations, generation <= generation',
           statusFile' \in Status \cup {None},
           statusFile' # None => statusFile'.current_generation <= generation',
           reported' = reported, inService' = inService,
           how = "killed" => statusFile' = statusFile,
           pc # "off"
    PROVE  IInv'
<1>1. TypeOK'
      BY ExitClears DEF IInv, TypeOK, Points
<1>2. CopiesBehind'
      <2>1. status'.current_generation = 0
            BY ExitClears
      <2>2. generation \in Nat /\ generation' \in Nat /\ reported \in Nat /\ reported <= generation
            BY GenerationNumbers DEF IInv, TypeOK, CopiesBehind
      <2> QED BY <2>1, <2>2 DEF CopiesBehind
<1>3. MemoryKnowsReported'
      BY ExitClears DEF MemoryKnowsReported, Serving
<1>4. CleanMark'
      BY ExitClears DEF IInv, CleanMark, Starting, Serving
<1> QED BY <1>1, <1>2, <1>3, <1>4 DEF IInv

LEMMA InvStep == IInv /\ [Next]_vars => IInv'
<1> SUFFICES ASSUME IInv, [Next]_vars PROVE IInv'
    OBVIOUS
<1> USE GenerationNumbers
<1> USE DEF Starting, Serving
<1>1. CASE Launch
      BY <1>1 DEF Launch, IInv, TypeOK, CopiesBehind, MemoryKnowsReported, CleanMark, Points
<1>2. CASE BecomeEnrolled
      BY <1>2 DEF BecomeEnrolled, IInv, TypeOK, CopiesBehind, MemoryKnowsReported, CleanMark,
                  Points
<1>3. CASE Recover
      <2>1. CASE shutdown
            <3>1. Exit("success") /\ UNCHANGED <<statusFile, generation, reported, inService>>
                  BY <1>3, <2>1 DEF Recover
            <3>2. pc # "off"
                  BY <1>3 DEF Recover
            <3> QED BY <3>1, <3>2, ExitKeepsInv DEF IInv, TypeOK, CopiesBehind
      <2>2. CASE ~shutdown
            <3>1. /\ status' \in Status
                  /\ status'.current_generation = generation
                  /\ status'.clean_shutdown = FALSE
                  BY <1>3, <2>2, FreshStatusIs DEF Recover, IInv, TypeOK
            <3>2. generation \in Nat
                  BY DEF IInv, TypeOK
            <3>3. TypeOK'
                  BY <1>3, <2>2, <3>1 DEF Recover, IInv, TypeOK, Points
            <3>4. CopiesBehind' /\ MemoryKnowsReported'
                  BY <1>3, <2>2, <3>1, <3>2
                  DEF Recover, IInv, CopiesBehind, MemoryKnowsReported
            <3>5. CleanMark'
                  BY <1>3, <2>2, <3>1 DEF Recover, IInv, CleanMark
            <3> QED BY <3>3, <3>4, <3>5 DEF IInv
      <2> QED BY <2>1, <2>2
<1>4. CASE SaveFirstStatus
      BY <1>4 DEF SaveFirstStatus, IInv, TypeOK, CopiesBehind, MemoryKnowsReported, CleanMark,
                  Points
<1>5. CASE StartupFails
      BY <1>5, ExitKeepsInv DEF StartupFails, IInv, TypeOK, CopiesBehind
<1>6. CASE Cycle
      BY <1>6 DEF Cycle, IInv, TypeOK, CopiesBehind, MemoryKnowsReported, CleanMark, Points
<1>7. CASE RecordHeartbeat
      <2>1. PICK ok \in BOOLEAN :
               /\ status' = [status EXCEPT !.last_heartbeat_ok = ok]
               /\ reported' \in {status.current_generation, reported}
            BY <1>7 DEF RecordHeartbeat
      <2>2. /\ status' \in Status
            /\ status'.current_generation = status.current_generation
            /\ status'.clean_shutdown = status.clean_shutdown
            BY <2>1 DEF IInv, TypeOK, Status
      <2>3. status.current_generation \in Generations
            BY DEF IInv, TypeOK, Status
      <2> QED BY <1>7, <2>1, <2>2, <2>3
              DEF RecordHeartbeat, IInv, TypeOK, CopiesBehind, MemoryKnowsReported, CleanMark,
                  Points
<1>8. CASE RecordSync
      <2>1. /\ generation' \in Generations /\ generation <= generation'
            /\ status' \in WithOutcome(generation')
            BY <1>8, DaemonAssumption DEF RecordSync, IInv, TypeOK, Generations
      <2>2. /\ status' \in Status
            /\ status'.current_generation \in {status.current_generation, generation'}
            /\ status'.clean_shutdown = status.clean_shutdown
            BY <2>1, OutcomeStatus DEF IInv, TypeOK
      <2>3. /\ status.current_generation \in Generations
            /\ statusFile # None => statusFile.current_generation \in Generations
            BY DEF IInv, TypeOK, Status
      <2>4. TypeOK'
            BY <1>8, <2>1, <2>2 DEF RecordSync, IInv, TypeOK, Points
      <2>5. CopiesBehind'
            <3>1. /\ generation \in Nat /\ generation' \in Nat
                  /\ reported \in Nat /\ status.current_generation \in Nat
                  /\ statusFile # None => statusFile.current_generation \in Nat
                  BY <2>1, <2>3 DEF IInv, TypeOK
            <3> QED BY <1>8, <2>1, <2>2, <3>1 DEF RecordSync, IInv, CopiesBehind
      <2>6. MemoryKnowsReported'
            <3>1. /\ reported' = reported /\ reported \in Nat
                  /\ generation \in Nat /\ generation' \in Nat
                  /\ reported <= generation /\ reported <= status.current_generation
                  BY <1>8, <2>1
                  DEF RecordSync, IInv, TypeOK, CopiesBehind, MemoryKnowsReported
            <3>2. reported <= generation'
                  BY <2>1, <3>1
            <3> QED BY <2>2, <3>1, <3>2 DEF MemoryKnowsReported
      <2>7. CleanMark'
            BY <1>8, <2>2 DEF RecordSync, IInv, CleanMark
      <2> QED BY <2>4, <2>5, <2>6, <2>7 DEF IInv
<1>9. CASE PersistStatus
      BY <1>9 DEF PersistStatus, IInv, TypeOK, CopiesBehind, MemoryKnowsReported, CleanMark,
                  Points
<1>10. CASE MarkClean
      <2>1. /\ status' \in Status
            /\ status'.current_generation = status.current_generation
            BY <1>10 DEF MarkClean, IInv, TypeOK, Status
      <2> QED BY <1>10, <2>1
              DEF MarkClean, IInv, TypeOK, CopiesBehind, MemoryKnowsReported, CleanMark, Points
<1>11. CASE SaveLastStatus
      BY <1>11, ExitKeepsInv DEF SaveLastStatus, IInv, TypeOK, CopiesBehind
<1>12. CASE Signal
      BY <1>12 DEF Signal, IInv, TypeOK, CopiesBehind, MemoryKnowsReported, CleanMark
<1>13. CASE Crash
      <2>1. generation' \in Generations /\ generation <= generation'
            BY <1>13, DaemonAssumption DEF Crash, IInv, TypeOK, Generations
      <2>2. statusFile # None =>
               /\ statusFile.current_generation \in Generations
               /\ statusFile.current_generation <= generation'
            <3>1. statusFile # None =>
                     /\ statusFile.current_generation \in Generations
                     /\ statusFile.current_generation \in Nat
                     /\ statusFile.current_generation <= generation
                  BY DEF IInv, TypeOK, CopiesBehind, Status
            <3>2. generation \in Nat /\ generation' \in Nat
                  BY <2>1 DEF IInv, TypeOK
            <3> QED BY <2>1, <3>1, <3>2
      <2> QED BY <1>13, <2>1, <2>2, ExitKeepsInv DEF Crash, IInv, TypeOK
<1>14. CASE ConnectBlocks \/ HelperAccepts
      BY <1>14 DEF ConnectBlocks, HelperAccepts, IInv, TypeOK, CopiesBehind, MemoryKnowsReported,
                   CleanMark, Points
<1>15. CASE UNCHANGED vars
      BY <1>15 DEF vars, IInv, TypeOK, CopiesBehind, MemoryKnowsReported, CleanMark
<1> QED BY <1>1, <1>2, <1>3, <1>4, <1>5, <1>6, <1>7, <1>8, <1>9, <1>10, <1>11, <1>12, <1>13,
           <1>14, <1>15 DEF Next, ProcessStep

LEMMA Invariance == Spec => []IInv
BY InvInit, InvStep, PTL DEF Spec

-----------------------------------------------------------------------------
(* The theorems.                                                            *)

\* Every variable of the daemon keeps its type.
THEOREM TypeCorrect == Spec => []TypeOK
BY Invariance, PTL DEF IInv

\* Memory, status file and server never know of a generation the disk does not
\* have: record_sync copies only what a pass wrote, and start-up reads it back.
THEOREM NeverAhead == Spec => []ReportsNeverAhead
<1>1. IInv => ReportsNeverAhead
      BY DEF IInv, CopiesBehind, ReportsNeverAhead
<1> QED BY <1>1, Invariance, PTL

\* A status that says "stopped cleanly" is never what a killed process leaves.
THEOREM CleanEarned == Spec => []CleanIsEarned
<1>1. IInv => CleanIsEarned
      BY DEF IInv, CleanMark, CleanIsEarned
<1> QED BY <1>1, Invariance, PTL

\* No heartbeat carries less than an earlier one, across restarts: the file
\* bounds what was reported, and a new process starts from the file.
THEOREM NeverFalls == Spec => ReportedNeverFalls
<1>1. IInv /\ [Next]_vars => [reported <= reported']_vars
      <2> SUFFICES ASSUME IInv, Next PROVE reported <= reported'
          OBVIOUS
      <2>1. reported \in Nat /\ status.current_generation \in Nat
            BY GenerationNumbers DEF IInv, TypeOK, Status
      <2>2. CASE RecordHeartbeat
            BY <2>1, <2>2 DEF RecordHeartbeat, IInv, MemoryKnowsReported, Serving
      <2>3. CASE ~RecordHeartbeat
            <3>1. reported' = reported
                  BY <2>3 DEF Next, ProcessStep, Launch, BecomeEnrolled, Recover,
                              SaveFirstStatus, StartupFails, Cycle, RecordSync, PersistStatus,
                              MarkClean, SaveLastStatus, ConnectBlocks, HelperAccepts,
                              Signal, Crash
            <3> QED BY <2>1, <3>1
      <2> QED BY <2>2, <2>3
<1> QED BY <1>1, Invariance, PTL DEF Spec, ReportedNeverFalls
=============================================================================
