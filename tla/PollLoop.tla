------------------------------ MODULE PollLoop ------------------------------
(***************************************************************************)
(* The daemon's two cadences on one thread: Scheduler and run_polling      *)
(* (service/scheduler.rs) with the InterruptibleSleeper and the flag of    *)
(* service/shutdown.rs, from Scheduler::new and the initial heartbeat and  *)
(* synchronisation in Daemon::run to the end of the loop.                  *)
(*                                                                         *)
(* Time is counted in ticks.  It passes in sleeps and in callbacks; the    *)
(* code between them takes none.  Due times are kept relative to the wall  *)
(* clock, so that setting the clock moves both at once.  Sleeping is timed *)
(* by the monotonic clock and does not notice.                             *)
(*                                                                         *)
(* Every call of a callback has a timeout but one: the connect to the      *)
(* helper's socket, at most one in a synchronisation pass, waits for as    *)
(* long as the helper listens and does not accept (HelperChannel).         *)
(***************************************************************************)
EXTENDS Integers

CONSTANTS
    HeartbeatInterval, SyncInterval,   \* the two base intervals
    Jitter,                            \* most a delay may exceed its interval
    HeartbeatTime, SyncTime,           \* most a callback takes (its timeouts),
                                       \* the wait in a blocked connect apart
    Step,                              \* DEFAULT_SLEEP_STEP
    MaxSetBack,                        \* bound: total the clock is set back
    MaxSetForward                      \* bound: total the clock is set forward

\* Durations handed to the scheduler are at least a second; a sleeper's step is
\* at least a millisecond.
ASSUME PollAssumption ==
    /\ HeartbeatInterval \in Nat \ {0} /\ SyncInterval \in Nat \ {0} /\ Jitter \in Nat
    /\ HeartbeatTime \in Nat \ {0} /\ SyncTime \in Nat \ {0} /\ Step \in Nat \ {0}
    /\ MaxSetBack \in Nat /\ MaxSetForward \in Nat

PollActions == {"heartbeat", "sync"}

Interval == [p \in PollActions |-> IF p = "heartbeat" THEN HeartbeatInterval ELSE SyncInterval]
CallTime == [p \in PollActions |-> IF p = "heartbeat" THEN HeartbeatTime ELSE SyncTime]

VARIABLES
    pc,         \* "check", "sleep", "wake", "run", "done"
    due,        \* ticks until each action is due, by the wall clock
    todo,       \* actions taken and not yet run, or running
    running,    \* ticks the current callback has been running, those blocked apart
    connect,    \* the pass's connect to the helper: "ahead", "blocked", "over"
    remaining,  \* what the sleeper still has to sleep
    chunk,      \* what is left of the sleeper's current step
    shutdown,   \* the flag
    since,      \* ticks since each action last began, those blocked apart
    setBack, setForward,   \* how far the clock has been set so far
    slept, began           \* since the flag: ticks asleep, callbacks begun

sleepVars == <<remaining, chunk>>
clockVars == <<setBack, setForward>>
stopVars == <<shutdown, slept, began>>
vars == <<pc, due, todo, running, connect, sleepVars, stopVars, since, clockVars>>

TypeOK ==
    /\ pc \in {"check", "sleep", "wake", "run", "done"}
    /\ due \in [PollActions -> Int]
    /\ todo \subseteq PollActions
    /\ running \in Nat
    /\ connect \in {"ahead", "blocked", "over"}
    /\ remaining \in Nat /\ chunk \in 0..Step
    /\ shutdown \in BOOLEAN
    /\ since \in [PollActions -> Nat]
    /\ setBack \in 0..MaxSetBack /\ setForward \in 0..MaxSetForward
    /\ slept \in Nat /\ began \in Nat

\* next_delay: the interval and some jitter.
NextDelay(p) == Interval[p]..(Interval[p] + Jitter)

\* Scheduler::new; then Daemon::run makes first contact without looking at the
\* flag, heartbeat before sync, which is a cycle with both actions due.
Init ==
    /\ pc = "run"
    /\ due \in {[heartbeat |-> h, sync |-> s] :
                   h \in NextDelay("heartbeat"), s \in NextDelay("sync")}
    /\ todo = PollActions
    /\ running = 0
    /\ connect = "ahead"
    /\ remaining = 0 /\ chunk = 0
    /\ shutdown = FALSE
    /\ since = [p \in PollActions |-> 0]
    /\ setBack = 0 /\ setForward = 0
    /\ slept = 0 /\ began = 0

\* A tick: everything comes nearer.
TimePasses ==
    /\ due' = [p \in PollActions |-> due[p] - 1]
    /\ since' = [p \in PollActions |-> since[p] + 1]

-----------------------------------------------------------------------------
\* Mutant: the later of the two due times.
LastDue == IF due["heartbeat"] > due["sync"] THEN due["heartbeat"] ELSE due["sync"]

\* Mutant: the wait falls a tick short.
NextDueRoundedDown ==
    (IF due["heartbeat"] < due["sync"] THEN due["heartbeat"] ELSE due["sync"]) - 1

\* Scheduler::next_due.
NextDue == IF due["heartbeat"] < due["sync"] THEN due["heartbeat"] ELSE due["sync"]

\* Mutant: the loop does not ask whether to go on.
CheckAndIgnore ==
    /\ pc = "check"
    /\ pc' = IF NextDue > 0 THEN "sleep" ELSE "wake"
    /\ remaining' = IF NextDue > 0 THEN NextDue ELSE 0
    /\ UNCHANGED <<due, todo, running, connect, chunk, stopVars, since, clockVars>>

\* should_continue, then the wait until next_due, if it is positive.
CheckAndWait ==
    /\ pc = "check"
    /\ \/ shutdown /\ pc' = "done" /\ UNCHANGED remaining
       \/ /\ ~shutdown
          /\ pc' = IF NextDue > 0 THEN "sleep" ELSE "wake"
          /\ remaining' = IF NextDue > 0 THEN NextDue ELSE 0
    /\ UNCHANGED <<due, todo, running, connect, chunk, stopVars, since, clockVars>>

\* Mutant: the sleeper goes through with its sleep.
SleepThrough ==
    /\ pc = "sleep"
    /\ chunk = 0
    /\ chunk' = IF remaining < Step THEN remaining ELSE Step
    /\ pc' = IF remaining = 0 THEN "wake" ELSE "sleep"
    /\ UNCHANGED <<due, todo, running, connect, remaining, stopVars, since, clockVars>>

\* InterruptibleSleeper::sleep between two steps.
SleepCheck ==
    /\ pc = "sleep"
    /\ chunk = 0
    /\ \/ /\ remaining = 0 \/ shutdown
          /\ pc' = "wake" /\ remaining' = 0 /\ UNCHANGED chunk
       \/ /\ remaining > 0 /\ ~shutdown
          /\ chunk' = IF remaining < Step THEN remaining ELSE Step
          /\ UNCHANGED <<pc, remaining>>
    /\ UNCHANGED <<due, todo, running, connect, stopVars, since, clockVars>>

SleepTick ==
    /\ pc = "sleep"
    /\ chunk > 0
    /\ chunk' = chunk - 1
    /\ remaining' = remaining - 1
    /\ slept' = IF shutdown THEN slept + 1 ELSE slept
    /\ TimePasses
    /\ UNCHANGED <<pc, todo, running, connect, shutdown, began, clockVars>>

\* Mutant: a cycle runs one action only.
HeartbeatElseSync == IF due["heartbeat"] <= 0 THEN {"heartbeat"}
                     ELSE {p \in {"sync"} : due[p] <= 0}

DueActions == {p \in PollActions : due[p] <= 0}

\* A callback begins.
Begin(p) ==
    /\ since' = [since EXCEPT ![p] = 0]
    /\ began' = IF shutdown THEN began + 1 ELSE began
    /\ running' = 0

\* Heartbeat is ordered before bundle sync.
First(actions) == IF "heartbeat" \in actions THEN "heartbeat" ELSE "sync"

\* take_due: everything due is taken and rescheduled from now.
TakeDue ==
    /\ pc = "wake"
    /\ todo' = DueActions
    /\ \E h \in NextDelay("heartbeat"), s \in NextDelay("sync") :
          LET fresh == [heartbeat |-> h, sync |-> s]
          IN  due' = [p \in PollActions |-> IF p \in DueActions THEN fresh[p] ELSE due[p]]
    /\ \/ DueActions # {} /\ pc' = "run" /\ Begin(First(DueActions))
       \/ DueActions = {} /\ pc' = "check" /\ UNCHANGED <<since, began, running>>
    /\ UNCHANGED <<connect, sleepVars, shutdown, slept, clockVars>>

CallTick ==
    /\ pc = "run" /\ connect # "blocked"
    /\ running < CallTime[First(todo)]
    /\ running' = running + 1
    /\ TimePasses
    /\ UNCHANGED <<pc, todo, connect, sleepVars, stopVars, clockVars>>

\* A callback returns, well or badly; the next action of the cycle begins.
CallReturns ==
    /\ pc = "run" /\ connect # "blocked"
    /\ connect' = "ahead"
    /\ LET left == todo \ {First(todo)}
       IN  /\ todo' = left
           /\ \/ left # {} /\ Begin(First(left)) /\ UNCHANGED pc
              \/ /\ left = {} /\ pc' = "check" /\ running' = 0
                 /\ UNCHANGED <<since, began>>
    /\ UNCHANGED <<due, sleepVars, shutdown, slept, clockVars>>

-----------------------------------------------------------------------------
(* The connect to the helper's socket.                                      *)

\* The pass comes to HelperClient::call and finds the backlog full.
ConnectBlocks ==
    /\ pc = "run" /\ First(todo) = "sync"
    /\ connect = "ahead"
    /\ connect' = "blocked"
    /\ UNCHANGED <<pc, due, todo, running, sleepVars, stopVars, since, clockVars>>

\* The helper accepts, or its listener goes away and connect fails (external).
HelperAccepts ==
    /\ connect = "blocked"
    /\ connect' = "over"
    /\ UNCHANGED <<pc, due, todo, running, sleepVars, stopVars, since, clockVars>>

\* Time the agent spends blocked, until both due times are past for good:
\* further ticks would change nothing.
BlockedTick ==
    /\ connect = "blocked"
    /\ \E p \in PollActions : due[p] > -MaxSetBack
    /\ due' = [p \in PollActions |-> due[p] - 1]
    /\ UNCHANGED <<pc, todo, running, connect, sleepVars, stopVars, since, clockVars>>

-----------------------------------------------------------------------------
\* SIGTERM or SIGINT, at any time (install_signal_handlers).
Signal ==
    /\ ~shutdown /\ pc # "done"
    /\ shutdown' = TRUE
    /\ UNCHANGED <<pc, due, todo, running, connect, sleepVars, slept, began, since, clockVars>>

\* The wall clock is set, by an administrator or by NTP (external).
SetClock ==
    /\ pc # "done"
    /\ \/ /\ setBack < MaxSetBack /\ setBack' = setBack + 1
          /\ due' = [p \in PollActions |-> due[p] + 1]
          /\ UNCHANGED setForward
       \/ /\ setForward < MaxSetForward /\ setForward' = setForward + 1
          /\ due' = [p \in PollActions |-> due[p] - 1]
          /\ UNCHANGED setBack
    /\ UNCHANGED <<pc, todo, running, connect, sleepVars, stopVars, since>>

LoopStep == CheckAndWait \/ SleepCheck \/ SleepTick \/ TakeDue \/ CallTick \/ CallReturns

Next == LoopStep \/ ConnectBlocks \/ HelperAccepts \/ BlockedTick \/ Signal \/ SetClock

Spec == Init /\ [][Next]_vars

\* The thread runs, and a callback that is not blocked in connect returns: every
\* other call has a timeout.  Nothing makes the helper accept.
FairSpec == Spec /\ WF_vars(LoopStep)

-----------------------------------------------------------------------------
(* Properties.                                                              *)

Longer(a, b) == IF a > b THEN a ELSE b

\* Neither cadence starves the other: the next heartbeat comes, at the latest,
\* after a synchronisation pass that began the tick before it was due, or that
\* followed a heartbeat longer than its own interval.  Setting the clock back
\* delays it by no more than that amount, setting it forward not at all, and a
\* helper that keeps the pass waiting in connect only by the time it does.
HeartbeatsInTime ==
    since["heartbeat"] <=
        Longer(HeartbeatInterval + Jitter - 1, HeartbeatTime) + SyncTime + setBack

\* A pass may have to wait for two heartbeats, one that was running when it
\* became due and one that comes first in its own cycle; no more than that, the
\* time an earlier pass was blocked in connect not counted.
SyncsInTime ==
    since["sync"] <=
        Longer(SyncInterval + Jitter - 1 + HeartbeatTime, SyncTime) + HeartbeatTime + setBack

\* A pending shutdown is honoured within one sleep step.  What is still begun
\* after the signal is the rest of one cycle, which take_due may make up after
\* the signal (one that interrupts the sleep finds what is due by then), never
\* a second one.
ShutdownIsPrompt ==
    /\ slept <= Step
    /\ began <= 2

\* The loop does not spin: a cycle without anything to run comes only of a
\* shutdown or of a clock that was set back while the agent slept.
NoIdleCycles ==
    [][pc = "wake" /\ pc' = "check" => shutdown \/ setBack > 0]_vars

\* The helper never leaves a connect waiting for ever.
HelperAnswersConnects == connect = "blocked" ~> connect # "blocked"

\* A signal ends the loop, wherever it finds it, if the helper answers connects:
\* the flag is looked at by the thread that waits in connect, and connect has
\* no timeout.
SignalEndsLoop == HelperAnswersConnects => (shutdown ~> pc = "done")
=============================================================================
