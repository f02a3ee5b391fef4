--------------------------- MODULE PollLoopProofs ---------------------------
(***************************************************************************)
(* Theorems about PollLoop, for every pair of intervals, jitter, callback  *)
(* times and sleep step, and for a clock set back and forward any bounded  *)
(* number of times: both cadences keep their deadlines, a shutdown is      *)
(* honoured within a sleep step and a cycle, and the loop does not spin.   *)
(***************************************************************************)
EXTENDS PollLoop, TLAPS

\* How long each action has waited at most when its wait can only grow by the
\* callbacks still to run before it.
HeartbeatWait == Longer(HeartbeatInterval + Jitter - 1, HeartbeatTime)
SyncWait == Longer(SyncInterval + Jitter - 1 + HeartbeatTime, SyncTime)

\* The callback that runs is one that was taken, within its time.
RunInv ==
    pc = "run" => /\ todo # {}
                  /\ "heartbeat" \in todo => running <= HeartbeatTime
                  /\ "heartbeat" \notin todo => running <= SyncTime

\* The sleeper's step is part of what it has to sleep, and is over when it is
\* not asleep.
SleepInv == chunk <= remaining /\ (pc # "sleep" => chunk = 0)

\* What may still happen once the flag is set: the rest of a sleep step, the
\* rest of a cycle.
StopInv ==
    /\ ~shutdown => slept = 0 /\ began = 0
    /\ slept + chunk <= Step
    /\ pc \in {"sleep", "wake"} => began = 0
    /\ began <= 2
    /\ pc = "run" /\ todo = PollActions => began <= 1

\* As long as the clock is not set back, the sleep ends with something due.
WakeInv ==
    setBack = 0 /\ ~shutdown =>
        /\ pc = "sleep" => \E p \in PollActions : due[p] <= remaining
        /\ pc = "wake" => \E p \in PollActions : due[p] <= 0

\* How long the heartbeat has waited, at each point of the loop.
HeartbeatInv ==
    /\ since["heartbeat"] + due["heartbeat"] <= HeartbeatInterval + Jitter + setBack
    /\ pc = "sleep" => since["heartbeat"] + remaining <= HeartbeatInterval + Jitter + setBack
    /\ pc = "run" /\ "heartbeat" \in todo => since["heartbeat"] <= running
    /\ pc = "run" /\ "heartbeat" \notin todo =>
          since["heartbeat"] <= HeartbeatWait + running + setBack
    /\ since["heartbeat"] <= HeartbeatWait + SyncTime + setBack

\* The same for the synchronisation, which runs second: while it waits for the
\* heartbeat of its own cycle it has been rescheduled and has not begun.
SyncInv ==
    /\ IF pc = "run" /\ todo = PollActions
       THEN due["sync"] <= SyncInterval + Jitter + setBack
       ELSE since["sync"] + due["sync"] <= SyncInterval + Jitter + setBack
    /\ pc = "sleep" => since["sync"] + remaining <= SyncInterval + Jitter + setBack
    /\ pc = "run" /\ "heartbeat" \notin todo => since["sync"] <= running
    /\ pc = "run" /\ "sync" \notin todo =>
          since["sync"] <= SyncInterval + Jitter - 1 + running + setBack
    /\ pc = "run" /\ todo = PollActions => since["sync"] <= SyncWait + running + setBack
    /\ pc # "run" => since["sync"] <= SyncWait + setBack

IInv == TypeOK /\ RunInv /\ SleepInv /\ StopInv /\ WakeInv /\ HeartbeatInv /\ SyncInv

-----------------------------------------------------------------------------
(* Facts about the operators.                                               *)

\* The two waits are numbers that bound what they are the longer of.
LEMMA Waits ==
    /\ HeartbeatWait \in Nat /\ SyncWait \in Nat
    /\ HeartbeatInterval + Jitter - 1 <= HeartbeatWait /\ HeartbeatTime <= HeartbeatWait
    /\ SyncInterval + Jitter - 1 + HeartbeatTime <= SyncWait /\ SyncTime <= SyncWait
BY PollAssumption DEF HeartbeatWait, SyncWait, Longer

\* What each action's interval and callback time are.
LEMMA Tables ==
    /\ Interval["heartbeat"] = HeartbeatInterval /\ Interval["sync"] = SyncInterval
    /\ CallTime["heartbeat"] = HeartbeatTime /\ CallTime["sync"] = SyncTime
BY DEF Interval, CallTime, PollActions

\* A delay is a positive number, no longer than the interval and the jitter.
LEMMA Delays ==
    /\ \A h \in NextDelay("heartbeat") : h \in Int /\ h > 0 /\ h <= HeartbeatInterval + Jitter
    /\ \A s \in NextDelay("sync") : s \in Int /\ s > 0 /\ s <= SyncInterval + Jitter
BY PollAssumption, Tables DEF NextDelay

\* The typing of the two entries of each table of times.
LEMMA Entries ==
    ASSUME TypeOK
    PROVE  /\ due["heartbeat"] \in Int /\ due["sync"] \in Int
           /\ since["heartbeat"] \in Nat /\ since["sync"] \in Nat
           /\ setBack \in Nat /\ setForward \in Nat /\ running \in Nat
           /\ remaining \in Nat /\ chunk \in Nat /\ slept \in Nat /\ began \in Nat
BY PollAssumption DEF TypeOK, PollActions

\* A tick moves both entries of both tables.
LEMMA Tick ==
    ASSUME TypeOK, TimePasses
    PROVE  /\ due' \in [PollActions -> Int] /\ since' \in [PollActions -> Nat]
           /\ due'["heartbeat"] = due["heartbeat"] - 1 /\ due'["sync"] = due["sync"] - 1
           /\ since'["heartbeat"] = since["heartbeat"] + 1
           /\ since'["sync"] = since["sync"] + 1
BY DEF TypeOK, TimePasses, PollActions

\* next_due is the nearer of the two, and one of them.
LEMMA Nearest ==
    ASSUME TypeOK
    PROVE  /\ NextDue \in Int
           /\ NextDue <= due["heartbeat"] /\ NextDue <= due["sync"]
           /\ NextDue = due["heartbeat"] \/ NextDue = due["sync"]
BY Entries DEF NextDue

-----------------------------------------------------------------------------
LEMMA InvInit == Init => IInv
<1> SUFFICES ASSUME Init PROVE IInv
    OBVIOUS
<1>1. PICK h \in NextDelay("heartbeat"), s \in NextDelay("sync") :
         due = [heartbeat |-> h, sync |-> s]
      BY DEF Init
<1>2. /\ due \in [PollActions -> Int]
      /\ due["heartbeat"] = h /\ due["sync"] = s
      BY <1>1, Delays DEF PollActions
<1>3. since \in [PollActions -> Nat] /\ since["heartbeat"] = 0 /\ since["sync"] = 0
      BY DEF Init, PollActions
<1>4. TypeOK
      <2>1. todo \subseteq PollActions
            BY DEF Init
      <2>2. chunk \in 0..Step /\ setBack \in 0..MaxSetBack /\ setForward \in 0..MaxSetForward
            BY PollAssumption DEF Init
      <2> QED BY <1>2, <1>3, <2>1, <2>2 DEF Init, TypeOK
<1>5. RunInv /\ SleepInv /\ StopInv /\ WakeInv
      BY PollAssumption DEF Init, RunInv, SleepInv, StopInv, WakeInv, PollActions
<1>6. HeartbeatInv
      BY <1>2, <1>3, Delays, Waits, PollAssumption DEF Init, HeartbeatInv, PollActions
<1>7. SyncInv
      BY <1>2, <1>3, Delays, Waits, PollAssumption DEF Init, SyncInv, PollActions
<1> QED BY <1>4, <1>5, <1>6, <1>7 DEF IInv

LEMMA InvCheck == IInv /\ CheckAndWait => IInv'
<1> SUFFICES ASSUME IInv, CheckAndWait PROVE IInv'
    OBVIOUS
<1> USE DEF IInv
<1>1. CASE shutdown
      BY <1>1, Entries
      DEF CheckAndWait, TypeOK, RunInv, SleepInv, StopInv, WakeInv, HeartbeatInv, SyncInv,
          stopVars, clockVars
<1>2. CASE ~shutdown
      <2>1. /\ pc' = (IF NextDue > 0 THEN "sleep" ELSE "wake")
            /\ remaining' = (IF NextDue > 0 THEN NextDue ELSE 0)
            /\ pc = "check" /\ chunk' = 0 /\ chunk = 0
            /\ UNCHANGED <<due, todo, running, connect, shutdown, slept, began, since, setBack,
                           setForward>>
            BY <1>2 DEF CheckAndWait, SleepInv, stopVars, clockVars
      <2>2. /\ remaining' \in Nat
            /\ NextDue > 0 => remaining' <= due["heartbeat"] /\ remaining' <= due["sync"]
            /\ NextDue > 0 => \E p \in PollActions : due[p] <= remaining'
            /\ ~(NextDue > 0) => \E p \in PollActions : due[p] <= 0
            BY <2>1, Nearest, Entries DEF PollActions
      <2>3. TypeOK'
            BY <2>1, <2>2, PollAssumption DEF TypeOK
      <2>4. RunInv' /\ SleepInv' /\ StopInv' /\ WakeInv'
            BY <1>2, <2>1, <2>2 DEF RunInv, SleepInv, StopInv, WakeInv
      <2>5. HeartbeatInv' /\ SyncInv'
            BY <2>1, <2>2, Entries, PollAssumption DEF HeartbeatInv, SyncInv
      <2> QED BY <2>3, <2>4, <2>5
<1> QED BY <1>1, <1>2

LEMMA InvSleepCheck == IInv /\ SleepCheck => IInv'
<1> SUFFICES ASSUME IInv, SleepCheck PROVE IInv'
    OBVIOUS
<1> USE DEF IInv
<1>1. /\ pc = "sleep" /\ chunk = 0
      /\ UNCHANGED <<due, todo, running, connect, shutdown, slept, began, since, setBack,
                           setForward>>
      BY DEF SleepCheck, stopVars, clockVars
<1>2. CASE remaining = 0 \/ shutdown
      <2>1. pc' = "wake" /\ remaining' = 0 /\ chunk' = 0
            BY <1>1, <1>2, Entries DEF SleepCheck
      <2>2. TypeOK' /\ RunInv' /\ SleepInv' /\ StopInv' /\ WakeInv'
            BY <1>1, <1>2, <2>1, PollAssumption
            DEF TypeOK, RunInv, SleepInv, StopInv, WakeInv
      <2>3. HeartbeatInv' /\ SyncInv'
            BY <1>1, <2>1, Entries, Waits, PollAssumption DEF HeartbeatInv, SyncInv
      <2> QED BY <2>2, <2>3
<1>3. CASE ~(remaining = 0 \/ shutdown)
      <2>1. /\ pc' = "sleep" /\ remaining' = remaining
            /\ chunk' = (IF remaining < Step THEN remaining ELSE Step)
            BY <1>1, <1>3 DEF SleepCheck
      <2>2. chunk' \in 0..Step /\ chunk' <= remaining
            BY <2>1, Entries, PollAssumption
      <2>3. TypeOK' /\ RunInv' /\ SleepInv' /\ StopInv' /\ WakeInv'
            BY <1>1, <1>3, <2>1, <2>2, PollAssumption
            DEF TypeOK, RunInv, SleepInv, StopInv, WakeInv
      <2>4. HeartbeatInv' /\ SyncInv'
            BY <1>1, <2>1 DEF HeartbeatInv, SyncInv
      <2> QED BY <2>3, <2>4
<1> QED BY <1>2, <1>3

LEMMA InvSleepTick == IInv /\ SleepTick => IInv'
<1> SUFFICES ASSUME IInv, SleepTick PROVE IInv'
    OBVIOUS
<1> USE DEF IInv
<1>1. /\ pc = "sleep" /\ pc' = "sleep" /\ chunk > 0
      /\ chunk' = chunk - 1 /\ remaining' = remaining - 1
      /\ slept' = (IF shutdown THEN slept + 1 ELSE slept)
      /\ UNCHANGED <<todo, running, connect, shutdown, began, setBack, setForward>>
      BY DEF SleepTick, clockVars
<1>2. TimePasses
      BY DEF SleepTick
<1>3. /\ due'["heartbeat"] = due["heartbeat"] - 1 /\ due'["sync"] = due["sync"] - 1
      /\ since'["heartbeat"] = since["heartbeat"] + 1 /\ since'["sync"] = since["sync"] + 1
      BY <1>2, Tick
<1>4. remaining > 0
      BY <1>1, Entries DEF SleepInv
<1>5. TypeOK'
      BY <1>1, <1>2, <1>4, Tick, Entries, PollAssumption DEF TypeOK
<1>6. RunInv' /\ SleepInv' /\ StopInv'
      BY <1>1, Entries, PollAssumption DEF RunInv, SleepInv, StopInv
<1>7. WakeInv'
      <2> SUFFICES ASSUME setBack = 0, ~shutdown
                   PROVE  \E p \in PollActions : due'[p] <= remaining'
          BY <1>1 DEF WakeInv
      <2>1. due["heartbeat"] <= remaining \/ due["sync"] <= remaining
            BY <1>1 DEF WakeInv, PollActions
      <2>2. due'["heartbeat"] <= remaining' \/ due'["sync"] <= remaining'
            BY <1>1, <1>3, <2>1, Entries
      <2> QED BY <2>2 DEF PollActions
<1>8. HeartbeatInv'
      BY <1>1, <1>3, <1>4, Entries, Waits, PollAssumption DEF HeartbeatInv
<1>9. SyncInv'
      BY <1>1, <1>3, <1>4, Entries, Waits, PollAssumption DEF SyncInv
<1> QED BY <1>5, <1>6, <1>7, <1>8, <1>9

\* What take_due does to each action: taken and rescheduled, or left alone.
LEMMA Taken ==
    ASSUME TypeOK, TakeDue
    PROVE  /\ due' \in [PollActions -> Int]
           /\ due["heartbeat"] <= 0 =>
                 /\ "heartbeat" \in todo'
                 /\ due'["heartbeat"] > 0 /\ due'["heartbeat"] <= HeartbeatInterval + Jitter
           /\ due["heartbeat"] > 0 =>
                 "heartbeat" \notin todo' /\ due'["heartbeat"] = due["heartbeat"]
           /\ due["sync"] <= 0 =>
                 "sync" \in todo' /\ due'["sync"] > 0 /\ due'["sync"] <= SyncInterval + Jitter
           /\ due["sync"] > 0 => "sync" \notin todo' /\ due'["sync"] = due["sync"]
           /\ todo' \subseteq PollActions
<1>1. PICK h \in NextDelay("heartbeat"), s \in NextDelay("sync") :
         due' = [p \in PollActions |->
                    IF p \in DueActions THEN [heartbeat |-> h, sync |-> s][p] ELSE due[p]]
      BY DEF TakeDue
<1>2. /\ h \in Int /\ h > 0 /\ h <= HeartbeatInterval + Jitter
      /\ s \in Int /\ s > 0 /\ s <= SyncInterval + Jitter
      BY Delays
<1>3. /\ [heartbeat |-> h, sync |-> s]["heartbeat"] = h
      /\ [heartbeat |-> h, sync |-> s]["sync"] = s
      OBVIOUS
<1>4. /\ due'["heartbeat"] = (IF due["heartbeat"] <= 0 THEN h ELSE due["heartbeat"])
      /\ due'["sync"] = (IF due["sync"] <= 0 THEN s ELSE due["sync"])
      /\ \A p \in PollActions : p = "heartbeat" \/ p = "sync"
      BY <1>1, <1>3 DEF DueActions, PollActions
<1>5. due' \in [PollActions -> Int]
      <2>1. \A p \in PollActions : due'[p] \in Int
            BY <1>2, <1>4, Entries
      <2> QED BY <1>1, <2>1
<1>6. todo' = DueActions
      BY DEF TakeDue
<1> QED BY <1>2, <1>4, <1>5, <1>6, Entries DEF DueActions, PollActions

\* Both functions of a cycle, at the first and at the second callback.
LEMMA Begins ==
    ASSUME TypeOK, NEW p \in PollActions, Begin(p)
    PROVE  /\ since' \in [PollActions -> Nat]
           /\ since'[p] = 0
           /\ \A q \in PollActions \ {p} : since'[q] = since[q]
           /\ running' = 0
           /\ began' = (IF shutdown THEN began + 1 ELSE began)
BY DEF TypeOK, Begin, PollActions

LEMMA InvTakeDue == IInv /\ TakeDue => IInv'
<1> SUFFICES ASSUME IInv, TakeDue PROVE IInv'
    OBVIOUS
<1> USE DEF IInv
<1>1. /\ pc = "wake" /\ todo' = DueActions
      /\ UNCHANGED <<connect, remaining, chunk, shutdown, slept, setBack, setForward>>
      BY DEF TakeDue, sleepVars, clockVars
<1>2. CASE DueActions = {}
      <2>1. pc' = "check" /\ UNCHANGED <<since, began, running>>
            BY <1>2 DEF TakeDue
      <2>2. /\ due["heartbeat"] > 0 /\ due["sync"] > 0
            /\ due'["heartbeat"] = due["heartbeat"] /\ due'["sync"] = due["sync"]
            /\ due' \in [PollActions -> Int]
            BY <1>1, <1>2, Taken, Entries DEF DueActions, PollActions
      <2>3. TypeOK'
            BY <1>1, <1>2, <2>1, <2>2 DEF TypeOK
      <2>4. RunInv' /\ SleepInv' /\ StopInv' /\ WakeInv'
            BY <1>1, <2>1 DEF RunInv, SleepInv, StopInv, WakeInv
      <2>5. HeartbeatInv' /\ SyncInv'
            BY <1>1, <2>1, <2>2 DEF HeartbeatInv, SyncInv
      <2> QED BY <2>3, <2>4, <2>5
<1>3. CASE DueActions # {}
      <2>1. pc' = "run" /\ Begin(First(DueActions)) /\ todo' # {}
            BY <1>1, <1>3 DEF TakeDue
      <2>2. First(DueActions) \in PollActions /\ First(DueActions) \in DueActions
            BY <1>3 DEF First, DueActions, PollActions
      <2>3. /\ since' \in [PollActions -> Nat] /\ running' = 0
            /\ began' = (IF shutdown THEN began + 1 ELSE began)
            BY <2>1, <2>2, Begins
      <2>4. /\ "heartbeat" \in todo' =>
                  since'["heartbeat"] = 0 /\ since'["sync"] = since["sync"]
            /\ "heartbeat" \notin todo' =>
                  since'["heartbeat"] = since["heartbeat"] /\ since'["sync"] = 0
            BY <1>1, <2>1, <2>2, Begins DEF First, PollActions
      <2>5. TypeOK'
            BY <1>1, <2>1, <2>3, Taken, Entries DEF TypeOK
      <2>6. RunInv' /\ SleepInv' /\ StopInv' /\ WakeInv'
            BY <1>1, <2>1, <2>3, PollAssumption, Entries
            DEF RunInv, SleepInv, StopInv, WakeInv
      <2>7. HeartbeatInv'
            BY <1>1, <2>1, <2>3, <2>4, Taken, Entries, Waits, PollAssumption DEF HeartbeatInv
      <2>8. SyncInv'
            BY <1>1, <2>1, <2>3, <2>4, Taken, Entries, Waits, PollAssumption
            DEF SyncInv, PollActions
      <2> QED BY <2>5, <2>6, <2>7, <2>8
<1> QED BY <1>2, <1>3

LEMMA InvCallTick == IInv /\ CallTick => IInv'
<1> SUFFICES ASSUME IInv, CallTick PROVE IInv'
    OBVIOUS
<1> USE DEF IInv
<1>1. /\ pc = "run" /\ pc' = "run" /\ running' = running + 1
      /\ UNCHANGED <<todo, connect, remaining, chunk, shutdown, slept, began, setBack, setForward>>
      BY DEF CallTick, sleepVars, stopVars, clockVars
<1>2. TimePasses
      BY DEF CallTick
<1>3. /\ due'["heartbeat"] = due["heartbeat"] - 1 /\ due'["sync"] = due["sync"] - 1
      /\ since'["heartbeat"] = since["heartbeat"] + 1 /\ since'["sync"] = since["sync"] + 1
      BY <1>2, Tick
<1>4. /\ "heartbeat" \in todo => running < HeartbeatTime
      /\ "heartbeat" \notin todo => running < SyncTime
      BY Tables DEF CallTick, First
<1>5. TypeOK'
      BY <1>1, <1>2, Tick, Entries DEF TypeOK
<1>6. RunInv'
      BY <1>1, <1>4, Entries, PollAssumption DEF RunInv
<1>7. SleepInv' /\ StopInv' /\ WakeInv'
      BY <1>1 DEF SleepInv, StopInv, WakeInv
<1>8. HeartbeatInv'
      BY <1>1, <1>3, <1>4, Entries, Waits, PollAssumption DEF HeartbeatInv
<1>9. SyncInv'
      BY <1>1, <1>3, <1>4, Entries, Waits, PollAssumption DEF SyncInv
<1> QED BY <1>5, <1>6, <1>7, <1>8, <1>9

LEMMA InvCallReturns == IInv /\ CallReturns => IInv'
<1> SUFFICES ASSUME IInv, CallReturns PROVE IInv'
    OBVIOUS
<1> USE DEF IInv
<1>1. /\ pc = "run" /\ todo' = todo \ {First(todo)}
      /\ connect' = "ahead"
      /\ UNCHANGED <<due, remaining, chunk, shutdown, slept, setBack, setForward>>
      BY DEF CallReturns, sleepVars, clockVars
<1>2. CASE todo = PollActions
      <2>1. First(todo) = "heartbeat" /\ todo' = {"sync"}
            BY <1>1, <1>2 DEF First, PollActions
      <2>2. pc' = "run" /\ Begin("sync")
            BY <1>1, <2>1 DEF CallReturns, First
      <2>3. /\ since' \in [PollActions -> Nat] /\ running' = 0
            /\ since'["heartbeat"] = since["heartbeat"] /\ since'["sync"] = 0
            /\ began' = (IF shutdown THEN began + 1 ELSE began)
            BY <2>2, Begins DEF PollActions
      <2>4. TypeOK'
            BY <1>1, <2>1, <2>2, <2>3, Entries DEF TypeOK, PollActions
      <2>5. todo' # PollActions /\ "heartbeat" \notin todo' /\ "sync" \in todo'
            BY <2>1 DEF PollActions
      <2>6. RunInv' /\ SleepInv' /\ StopInv' /\ WakeInv'
            BY <1>1, <1>2, <2>2, <2>3, <2>5, PollAssumption, Entries
            DEF RunInv, SleepInv, StopInv, WakeInv
      <2>7. HeartbeatInv'
            <3>1. since["heartbeat"] <= HeartbeatTime
                  BY <1>1, <1>2, Entries, PollAssumption DEF HeartbeatInv, RunInv, PollActions
            <3> QED BY <1>1, <2>2, <2>3, <2>5, <3>1, Entries, Waits, PollAssumption
                    DEF HeartbeatInv
      <2>8. SyncInv'
            BY <1>1, <1>2, <2>2, <2>3, <2>5, Entries, Waits, PollAssumption DEF SyncInv
      <2> QED BY <2>4, <2>6, <2>7, <2>8
<1>3. CASE todo # PollActions
      <2>1. todo' = {}
            <3>1. todo = {"heartbeat"} \/ todo = {"sync"}
                  BY <1>1, <1>3 DEF RunInv, TypeOK, PollActions
            <3> QED BY <1>1, <3>1 DEF First
      <2>2. pc' = "check" /\ running' = 0 /\ UNCHANGED <<since, began>>
            BY <1>1, <2>1 DEF CallReturns
      <2>3. TypeOK'
            BY <1>1, <2>1, <2>2 DEF TypeOK
      <2>4. RunInv' /\ SleepInv' /\ StopInv' /\ WakeInv'
            BY <1>1, <2>2 DEF RunInv, SleepInv, StopInv, WakeInv
      <2>5. HeartbeatInv'
            BY <1>1, <2>2 DEF HeartbeatInv
      <2>6. SyncInv'
            <3>1. since["sync"] <= SyncWait + setBack
                  <4>1. CASE "heartbeat" \notin todo
                        BY <1>1, <4>1, Entries, Waits, PollAssumption DEF SyncInv, RunInv
                  <4>2. CASE "heartbeat" \in todo
                        <5>1. "sync" \notin todo
                              BY <1>3, <4>2 DEF TypeOK, PollActions
                        <5> QED BY <1>1, <4>2, <5>1, Entries, Waits, PollAssumption
                                DEF SyncInv, RunInv
                  <4> QED BY <4>1, <4>2
            <3> QED BY <1>1, <1>3, <2>2, <3>1 DEF SyncInv
      <2> QED BY <2>3, <2>4, <2>5, <2>6
<1> QED BY <1>2, <1>3

LEMMA InvConnect == IInv /\ (ConnectBlocks \/ HelperAccepts) => IInv'
BY DEF IInv, ConnectBlocks, HelperAccepts, TypeOK, RunInv, SleepInv, StopInv, WakeInv,
       HeartbeatInv, SyncInv, sleepVars, stopVars, clockVars

\* Time in a blocked connect brings the due times nearer and nothing else.
LEMMA InvBlockedTick == IInv /\ BlockedTick => IInv'
<1> SUFFICES ASSUME IInv, BlockedTick PROVE IInv'
    OBVIOUS
<1> USE DEF IInv
<1>1. /\ due' = [p \in PollActions |-> due[p] - 1]
      /\ UNCHANGED <<pc, todo, running, connect, remaining, chunk, shutdown, slept, began, since,
                     setBack, setForward>>
      BY DEF BlockedTick, sleepVars, stopVars, clockVars
<1>2. /\ due' \in [PollActions -> Int]
      /\ due'["heartbeat"] = due["heartbeat"] - 1 /\ due'["sync"] = due["sync"] - 1
      BY <1>1 DEF TypeOK, PollActions
<1>3. TypeOK'
      BY <1>1, <1>2 DEF TypeOK
<1>4. RunInv' /\ SleepInv' /\ StopInv'
      BY <1>1 DEF RunInv, SleepInv, StopInv
<1>5. WakeInv'
      <2>1. \A p \in PollActions : due'[p] < due[p] /\ due[p] \in Int /\ due'[p] \in Int
            BY <1>1 DEF TypeOK
      <2> QED BY <1>1, <2>1, Entries DEF WakeInv
<1>6. HeartbeatInv' /\ SyncInv'
      BY <1>1, <1>2, Entries, Waits, PollAssumption DEF HeartbeatInv, SyncInv
<1> QED BY <1>3, <1>4, <1>5, <1>6

LEMMA InvSignal == IInv /\ Signal => IInv'
BY DEF IInv, Signal, TypeOK, RunInv, SleepInv, StopInv, WakeInv, HeartbeatInv, SyncInv,
       sleepVars, clockVars

LEMMA InvSetClock == IInv /\ SetClock => IInv'
<1> SUFFICES ASSUME IInv, SetClock PROVE IInv'
    OBVIOUS
<1> USE DEF IInv
<1>1. UNCHANGED <<pc, todo, running, connect, remaining, chunk, shutdown, slept, began, since>>
      BY DEF SetClock, sleepVars, stopVars
<1>2. CASE setBack < MaxSetBack /\ setBack' = setBack + 1
      <2>1. CASE due' = [p \in PollActions |-> due[p] + 1] /\ setForward' = setForward
            <3>1. /\ due' \in [PollActions -> Int]
                  /\ due'["heartbeat"] = due["heartbeat"] + 1 /\ due'["sync"] = due["sync"] + 1
                  BY <2>1 DEF TypeOK, PollActions
            <3>2. TypeOK'
                  BY <1>1, <1>2, <2>1, <3>1, PollAssumption DEF TypeOK
            <3>3. RunInv' /\ SleepInv' /\ StopInv' /\ WakeInv'
                  BY <1>1, <1>2, Entries DEF RunInv, SleepInv, StopInv, WakeInv
            <3>4. HeartbeatInv' /\ SyncInv'
                  BY <1>1, <1>2, <3>1, Entries, Waits, PollAssumption DEF HeartbeatInv, SyncInv
            <3> QED BY <3>2, <3>3, <3>4
      <2> QED BY <1>2, <2>1, Entries DEF SetClock
<1>3. CASE setForward < MaxSetForward /\ setForward' = setForward + 1 /\ setBack' = setBack
           /\ due' = [p \in PollActions |-> due[p] - 1]
      <2>1. /\ due' \in [PollActions -> Int]
            /\ due'["heartbeat"] = due["heartbeat"] - 1 /\ due'["sync"] = due["sync"] - 1
            BY <1>3 DEF TypeOK, PollActions
      <2>2. TypeOK'
            BY <1>1, <1>3, <2>1, PollAssumption DEF TypeOK
      <2>3. RunInv' /\ SleepInv' /\ StopInv'
            BY <1>1 DEF RunInv, SleepInv, StopInv
      <2>4. WakeInv'
            <3>1. \A p \in PollActions : due'[p] < due[p] /\ due[p] \in Int /\ due'[p] \in Int
                  BY <1>3 DEF TypeOK
            <3> QED BY <1>1, <1>3, <3>1, Entries DEF WakeInv
      <2>5. HeartbeatInv' /\ SyncInv'
            BY <1>1, <1>3, <2>1, Entries, Waits, PollAssumption DEF HeartbeatInv, SyncInv
      <2> QED BY <2>2, <2>3, <2>4, <2>5
<1> QED BY <1>2, <1>3 DEF SetClock

LEMMA InvStep == IInv /\ [Next]_vars => IInv'
<1>1. IInv /\ UNCHANGED vars => IInv'
      BY DEF IInv, vars, TypeOK, RunInv, SleepInv, StopInv, WakeInv, HeartbeatInv, SyncInv,
             sleepVars, stopVars, clockVars
<1> QED BY <1>1, InvCheck, InvSleepCheck, InvSleepTick, InvTakeDue, InvCallTick,
           InvCallReturns, InvConnect, InvBlockedTick, InvSignal, InvSetClock DEF Next, LoopStep

LEMMA Invariance == Spec => []IInv
BY InvInit, InvStep, PTL DEF Spec

-----------------------------------------------------------------------------
(* The theorems.                                                            *)

\* Every variable of the loop keeps its type; in particular the sleeper never
\* sleeps more than it has left.
THEOREM TypeCorrect == Spec => []TypeOK
BY Invariance, PTL DEF IInv

\* The heartbeat meets its deadline whatever the sync does, the time that a
\* helper keeps it waiting in connect not counted.
THEOREM HeartbeatDeadline == Spec => []HeartbeatsInTime
<1>1. IInv => HeartbeatsInTime
      BY DEF IInv, HeartbeatInv, HeartbeatsInTime, HeartbeatWait
<1> QED BY <1>1, Invariance, PTL

\* The synchronisation waits for two heartbeats at most.
THEOREM SyncDeadline == Spec => []SyncsInTime
<1>1. IInv => SyncsInTime
      <2> SUFFICES ASSUME IInv PROVE since["sync"] <= SyncWait + HeartbeatTime + setBack
          BY DEF SyncsInTime, SyncWait
      <2>1. CASE pc # "run"
            BY <2>1, Entries, Waits, PollAssumption DEF IInv, SyncInv
      <2>2. CASE pc = "run" /\ todo = PollActions
            BY <2>2, Entries, Waits, PollAssumption DEF IInv, SyncInv, RunInv, PollActions
      <2>3. CASE pc = "run" /\ "heartbeat" \notin todo
            BY <2>3, Entries, Waits, PollAssumption DEF IInv, SyncInv, RunInv
      <2>4. CASE pc = "run" /\ "heartbeat" \in todo /\ "sync" \notin todo
            BY <2>4, Entries, Waits, PollAssumption DEF IInv, SyncInv, RunInv
      <2>5. todo = PollActions \/ "heartbeat" \notin todo \/ "sync" \notin todo
            BY DEF IInv, TypeOK, PollActions
      <2> QED BY <2>1, <2>2, <2>3, <2>4, <2>5
<1> QED BY <1>1, Invariance, PTL

\* A shutdown costs one sleep step and one cycle, wherever the flag is raised.
THEOREM PromptShutdown == Spec => []ShutdownIsPrompt
<1>1. IInv => ShutdownIsPrompt
      BY Entries, PollAssumption DEF IInv, StopInv, ShutdownIsPrompt
<1> QED BY <1>1, Invariance, PTL

\* The loop wakes to something due unless the clock went back or it must stop.
THEOREM NoSpinning == Spec => NoIdleCycles
<1>1. IInv /\ [Next]_vars =>
         [pc = "wake" /\ pc' = "check" => shutdown \/ setBack > 0]_vars
      <2> SUFFICES ASSUME IInv, Next, pc = "wake", pc' = "check", ~shutdown, ~(setBack > 0)
                   PROVE  FALSE
          OBVIOUS
      <2>1. TakeDue
            BY DEF Next, LoopStep, CheckAndWait, SleepCheck, SleepTick, CallTick, CallReturns,
                   ConnectBlocks, HelperAccepts, BlockedTick, Signal, SetClock
      <2>2. DueActions = {}
            BY <2>1 DEF TakeDue
      <2>3. setBack = 0
            BY Entries DEF IInv
      <2> QED BY <2>2, <2>3 DEF IInv, WakeInv, DueActions
<1> QED BY <1>1, Invariance, PTL DEF Spec, NoIdleCycles
=============================================================================
