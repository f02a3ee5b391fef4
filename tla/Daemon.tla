------------------------------- MODULE Daemon -------------------------------
(***************************************************************************)
(* The life of the agent process, start after start: Daemon::run           *)
(* (service/daemon.rs) and the runtime status it keeps                     *)
(* (service/runtime_state.rs).                                             *)
(*                                                                         *)
(* A synchronisation pass is here what module TrustRollout promises of it: *)
(* whatever becomes of the pass, the generation file never goes back, and  *)
(* it may have gone forward even if the pass then failed.  Which actions a *)
(* cycle of the poll loop runs, and when, is the subject of PollLoop; how  *)
(* a process gets enrolled, of Enrollment.                                 *)
(***************************************************************************)
EXTENDS Naturals

CONSTANTS
    MaxGeneration,   \* bound: the largest bundle generation
    None

ASSUME DaemonAssumption == MaxGeneration \in Nat /\ None \notin {TRUE, FALSE}

Generations == 0..MaxGeneration

\* RuntimeStatus: what the server-facing and the operator-facing sides read.
Status ==
    [current_generation : Generations, last_heartbeat_ok : BOOLEAN \cup {None},
     last_sync_outcome : {"ok", "error", None}, clean_shutdown : BOOLEAN]

FreshStatus(gen) ==
    [current_generation |-> gen, last_heartbeat_ok |-> None,
     last_sync_outcome |-> None, clean_shutdown |-> FALSE]

VARIABLES
    pc,          \* where the process is; "off" when there is none
    shutdown,    \* the flag the signal handlers set
    status,      \* the status in memory
    statusFile,  \* runtime_status.json, or None
    generation,  \* the generation file (0: none)
    due,         \* actions the current cycle still has to run
    reported,    \* the generation the server last heard in a heartbeat
    exit,        \* how the last process ended
    inService    \* the last process had got as far as its first status

vars == <<pc, shutdown, status, statusFile, generation, due, reported, exit, inService>>

Points ==
    {"off", "startup", "recover", "firstSave", "cycle", "run", "connect", "accepted", "persist",
     "stopping", "lastSave"}

TypeOK ==
    /\ pc \in Points
    /\ shutdown \in BOOLEAN
    /\ status \in Status
    /\ statusFile \in Status \cup {None}
    /\ generation \in Generations
    /\ due \subseteq {"heartbeat", "sync"}
    /\ reported \in Generations
    /\ exit \in {"none", "success", "failure", "killed"}
    /\ inService \in BOOLEAN

Init ==
    /\ pc = "off"
    /\ shutdown = FALSE
    /\ status = FreshStatus(0)
    /\ statusFile = None
    /\ generation = 0
    /\ due = {}
    /\ reported = 0
    /\ exit = "none"
    /\ inService = FALSE

\* The process ends; its memory goes with it.
Exit(how) ==
    /\ pc' = "off"
    /\ shutdown' = FALSE
    /\ status' = FreshStatus(0)
    /\ due' = {}
    /\ exit' = how

-----------------------------------------------------------------------------
(* Start-up.                                                                *)

\* main: configuration loaded and validated (Startup), state directory, and last
\* the signal handlers: a signal before them is an ordinary kill.
Launch ==
    /\ pc = "off"
    /\ pc' = "startup"
    /\ inService' = FALSE
    /\ UNCHANGED <<shutdown, status, statusFile, generation, due, reported, exit>>

\* ensure_enrolled, to the end of the retry loop.
BecomeEnrolled ==
    /\ pc = "startup"
    /\ pc' = "recover"
    /\ UNCHANGED <<shutdown, status, statusFile, generation, due, reported, exit, inService>>

\* Mutant: the new status starts from its defaults.
ForgetGeneration ==
    /\ pc = "recover"
    /\ \/ shutdown /\ Exit("success")
       \/ /\ ~shutdown /\ pc' = "firstSave" /\ status' = FreshStatus(0)
          /\ UNCHANGED <<shutdown, due, exit>>
    /\ UNCHANGED <<statusFile, generation, reported, inService>>

\* The flag is looked at once; then keys, generation and status are recovered
\* and the clients are built.
Recover ==
    /\ pc = "recover"
    /\ \/ shutdown /\ Exit("success")
       \/ /\ ~shutdown
          /\ pc' = "firstSave"
          /\ status' = FreshStatus(generation)      \* read_generation
          /\ UNCHANGED <<shutdown, due, exit>>
    /\ UNCHANGED <<statusFile, generation, reported, inService>>

\* Mutant: the first save is best effort, like the later ones.
SaveFirstStatusBestEffort ==
    /\ pc = "firstSave"
    /\ statusFile' \in {status, statusFile}
    /\ pc' = "run"
    /\ due' = {"heartbeat", "sync"}
    /\ inService' = TRUE
    /\ UNCHANGED <<shutdown, status, generation, reported, exit>>

\* The first status is saved, or the process does not start; first contact
\* follows whatever the flag says by now.
SaveFirstStatus ==
    /\ pc = "firstSave"
    /\ statusFile' = status
    /\ pc' = "run"
    /\ due' = {"heartbeat", "sync"}
    /\ inService' = TRUE
    /\ UNCHANGED <<shutdown, status, generation, reported, exit>>

\* Configuration, enrollment (a cancelled retry included), key files, state
\* files or the first save: start-up ends in an error and ExitCode::FAILURE.
StartupFails ==
    /\ pc \in {"startup", "recover", "firstSave"}
    /\ pc = "recover" => ~shutdown
    /\ statusFile' \in IF pc = "firstSave" THEN {statusFile, status} ELSE {statusFile}
    /\ Exit("failure")
    /\ UNCHANGED <<generation, reported, inService>>

-----------------------------------------------------------------------------
(* In service.                                                              *)

\* Mutant: the loop never asks whether to go on.
CycleAlways ==
    /\ pc = "cycle"
    /\ pc' = "run" /\ due' \in SUBSET {"heartbeat", "sync"} \ {{}}
    /\ UNCHANGED <<shutdown, status, statusFile, generation, reported, exit, inService>>

\* run_polling: should_continue, then some of the two actions are due.
Cycle ==
    /\ pc = "cycle"
    /\ \/ shutdown /\ pc' = "stopping" /\ UNCHANGED due
       \/ ~shutdown /\ pc' = "run" /\ due' \in SUBSET {"heartbeat", "sync"} \ {{}}
    /\ UNCHANGED <<shutdown, status, statusFile, generation, reported, exit, inService>>

\* record_heartbeat: the request carries the generation in memory.  It may
\* fail and still have reached the server.
RecordHeartbeat ==
    /\ pc = "run"
    /\ "heartbeat" \in due
    /\ \E ok \in BOOLEAN :
          /\ status' = [status EXCEPT !.last_heartbeat_ok = ok]
          /\ reported' \in {status.current_generation} \cup (IF ok THEN {} ELSE {reported})
    /\ due' = due \ {"heartbeat"}
    /\ pc' = "persist"
    /\ UNCHANGED <<shutdown, statusFile, generation, exit, inService>>

\* Mutant: an error is recorded with the generation the pass was about.
WithAttempted(g) ==
    {[status EXCEPT !.last_sync_outcome = "ok", !.current_generation = g]}
    \cup {[status EXCEPT !.last_sync_outcome = "error", !.current_generation = n] : n \in Generations}

\* record_sync: only an Ok outcome updates the generation in memory.
WithOutcome(g) ==
    {[status EXCEPT !.last_sync_outcome = "ok", !.current_generation = g],
     [status EXCEPT !.last_sync_outcome = "error"]}

\* The pass comes to the helper's socket and the backlog is full: connect, which
\* has no timeout and is restarted after a signal, waits (HelperChannel).
ConnectBlocks ==
    /\ pc = "run"
    /\ due = {"sync"}
    /\ pc' = "connect"
    /\ UNCHANGED <<shutdown, status, statusFile, generation, due, reported, exit, inService>>

\* The helper accepts, or its listener goes away and connect fails (external).
HelperAccepts ==
    /\ pc = "connect"
    /\ pc' = "accepted"
    /\ UNCHANGED <<shutdown, status, statusFile, generation, due, reported, exit, inService>>

RecordSync ==
    /\ pc \in {"run", "accepted"}
    /\ due = {"sync"}
    /\ generation' \in generation..MaxGeneration
    /\ status' \in WithOutcome(generation')
    /\ due' = {}
    /\ pc' = "persist"
    /\ UNCHANGED <<shutdown, statusFile, reported, exit, inService>>

\* persist_status: a failed save is logged and forgotten.
PersistStatus ==
    /\ pc = "persist"
    /\ statusFile' \in {status, statusFile}
    /\ pc' = IF due = {} THEN "cycle" ELSE "run"
    /\ UNCHANGED <<shutdown, status, generation, due, reported, exit, inService>>

-----------------------------------------------------------------------------
(* The end.                                                                 *)

MarkClean ==
    /\ pc = "stopping"
    /\ status' = [status EXCEPT !.clean_shutdown = TRUE]
    /\ pc' = "lastSave"
    /\ UNCHANGED <<shutdown, statusFile, generation, due, reported, exit, inService>>

\* The last save decides the exit code.
SaveLastStatus ==
    /\ pc = "lastSave"
    /\ \/ statusFile' = status /\ Exit("success")
       \/ statusFile' \in {status, statusFile} /\ Exit("failure")
    /\ UNCHANGED <<generation, reported, inService>>

Signal ==
    /\ pc # "off" /\ ~shutdown
    /\ shutdown' = TRUE
    /\ UNCHANGED <<pc, status, statusFile, generation, due, reported, exit, inService>>

\* Killed.  A pass under way may have written its generation, unless it is still
\* waiting for the helper.  (What a power failure takes back is SecureWrite's.)
Crash ==
    /\ pc # "off"
    /\ Exit("killed")
    /\ generation' \in IF pc \in {"run", "accepted"} /\ due = {"sync"}
                      THEN generation..MaxGeneration ELSE {generation}
    /\ UNCHANGED <<statusFile, reported, inService>>

-----------------------------------------------------------------------------
\* What the process does of itself.
ProcessStep ==
    \/ BecomeEnrolled \/ Recover \/ SaveFirstStatus \/ StartupFails
    \/ Cycle \/ RecordHeartbeat \/ RecordSync \/ PersistStatus
    \/ MarkClean \/ SaveLastStatus

Next == ProcessStep \/ Launch \/ ConnectBlocks \/ HelperAccepts \/ Signal \/ Crash

Spec == Init /\ [][Next]_vars

\* Every wait in the process is bounded but that in connect: HTTP, reads and
\* writes on the socket, sleep steps; the enrollment loop, once the flag is set,
\* ends at its next check.  Nothing makes the helper accept.
FairSpec == Spec /\ WF_vars(ProcessStep)

-----------------------------------------------------------------------------
(* Properties.                                                              *)

\* The generation in memory, in the status file and in the server's mind is
\* never ahead of the one on disk, which record_heartbeat and record_sync read
\* and write at different times, with failed passes and restarts in between.
ReportsNeverAhead ==
    /\ pc # "off" => status.current_generation <= generation
    /\ statusFile # None => statusFile.current_generation <= generation
    /\ reported <= generation

\* Heartbeats never take back a generation they reported, across failed passes,
\* crashes and restarts.
ReportedNeverFalls == [][reported <= reported']_vars

\* A process killed in service never leaves a status that says it stopped
\* cleanly, however many of its saves failed and whatever the one before left.
CleanIsEarned ==
    exit = "killed" /\ inService /\ statusFile # None => ~statusFile.clean_shutdown

\* The helper never leaves a connect waiting for ever.
HelperAnswersConnects == pc = "connect" ~> pc # "connect"

\* A signal ends the process, wherever it meets it, if the helper answers
\* connects: start-up, first contact, a cycle, a pass that waits for the helper.
\* Without the hypothesis a signal that finds the pass in connect, or on its way
\* there, need not end anything, although the daemon "must stop promptly"
\* (service/shutdown.rs).
SignalEndsProcess == HelperAnswersConnects => (shutdown ~> pc = "off")
=============================================================================
