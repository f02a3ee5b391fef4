---------------------------- MODULE CaSyncProofs ----------------------------
(***************************************************************************)
(* Theorems about CaSync, for every set of key sets and signers, every     *)
(* choice of pins, every generation bound and backlog, and for honest and  *)
(* hostile servers alike; and, in the second part, about CaBundle, the     *)
(* verification that a pass leaves to from_response, for every pool of     *)
(* keys, key lists of every length and every number of signatures, edits   *)
(* and deliveries.                                                         *)
(***************************************************************************)
EXTENDS CaSync, CaBundle, FiniteSetTheorems, SequenceTheorems, WellFoundedInduction, TLAPS

-----------------------------------------------------------------------------
(* Typing.  TypeOK is not inductive: SendApply hands the helper a bundle,   *)
(* and only because a reply of kind "bundle" carries one and no other reply *)
(* gets as far as "apply".                                                  *)

TypeInv ==
    /\ TypeOK
    /\ reply.kind = "bundle" => bundle \in Bundle
    /\ HasBundle \/ Confirmed => reply.kind = "bundle"
    /\ pc \in {"generation", "fingerprint", "ack"} => path = "updated"

\* The records the model is built from are of their types.
LEMMA RecordTypes ==
    /\ NoBundle.gen = 0
    /\ NoFingerprint \in Fingerprints
    /\ \A b \in Bundle \cup {NoBundle} : Fingerprint(b) \in Fingerprints
    /\ \A b \in Bundle \cup {NoBundle} : b.gen \in Generations \cup {0}
    /\ \A b \in Bundle \cup {NoBundle} : b.signer \in Signers \cup {None}
    /\ [gen |-> 0, fp |-> NoFingerprint, pin |-> None] \in PersistedState
    /\ Generations \subseteq Nat \ {0}
BY SignerAssumption, BoundAssumption
   DEF Bundle, NoBundle, Fingerprint, NoFingerprint, Fingerprints, PersistedState,
       Generations

\* The honest reply and every reply a hostile server may give is well formed.
LEMMA ReplyTypes ==
    ASSUME server \in Bundle, NEW fp \in Fingerprints, NEW r \in ServerReplies(fp)
    PROVE  /\ r \in [kind : ReplyKinds, bundle : Bundle \cup {NoBundle}]
           /\ r.kind = "bundle" => r.bundle \in Bundle
BY DEF ServerReplies, CurrentReply, Reply, ReplyKinds

LEMMA EndPassType ==
    ASSUME NEW how \in Outcomes, EndPass(how)
    PROVE  /\ pc' \in PassPoints
           /\ persisted' \in PersistedState
           /\ reply' \in [kind : ReplyKinds, bundle : Bundle \cup {NoBundle}]
           /\ path' \in {"none", "notModified", "unchanged", "updated"}
           /\ outcome' \in Outcomes
           /\ pc' = "idle"
           /\ reply'.kind # "bundle"
BY RecordTypes DEF EndPass, PassPoints, NoReply, Reply, ReplyKinds

\* The state files keep their type whatever bundle is written to them.
LEMMA WriteTypes ==
    ASSUME NEW d \in PersistedState, NEW b \in Bundle \cup {NoBundle}
    PROVE  /\ WithGeneration(d, b) \in PersistedState
           /\ WithFingerprint(d, b) \in PersistedState
           /\ WithPin(d, b) \in PersistedState
           /\ WithGeneration(d, b).gen = b.gen
           /\ WithFingerprint(d, b).gen = d.gen
           /\ WithPin(d, b).gen = d.gen
BY RecordTypes DEF WithGeneration, WithFingerprint, WithPin, PersistedState

LEMMA TypeInit == Init => TypeInv
<1> SUFFICES ASSUME Init PROVE TypeInv
    OBVIOUS
<1>1. reply \in [kind : ReplyKinds, bundle : Bundle \cup {NoBundle}] /\ reply.kind = "none"
      BY DEF Init, NoReply, Reply, ReplyKinds
<1>2. persisted \in PersistedState /\ disk \in PersistedState
      BY RecordTypes, SignerAssumption DEF Init, PersistedState
<1>3. server \in Bundle
      BY DEF Init
<1>4. inbox \in Seq(Bundle)
      BY DEF Init
<1>5. stable \in BOOLEAN
      BY DEF Init
<1> QED BY <1>1, <1>2, <1>3, <1>4, <1>5
        DEF Init, TypeInv, TypeOK, PassPoints, Outcomes, HasBundle, Confirmed

LEMMA TypeStep == TypeInv /\ [Next]_vars => TypeInv'
<1> SUFFICES ASSUME TypeInv, [Next]_vars PROVE TypeInv'
    OBVIOUS
<1> USE RecordTypes DEF TypeInv, TypeOK, HasBundle, Confirmed, bundle
<1>1. CASE BeginPass
      BY <1>1 DEF BeginPass, PassPoints, Outcomes
<1>2. CASE FetchBundle
      <2>1. /\ reply' \in [kind : ReplyKinds, bundle : Bundle \cup {NoBundle}]
            /\ reply'.kind = "bundle" => reply'.bundle \in Bundle
            BY <1>2, ReplyTypes DEF FetchBundle, PersistedState
      <2> QED BY <1>2, <2>1 DEF FetchBundle, PassPoints
<1>3. CASE WriteLastSync
      BY <1>3 DEF WriteLastSync, Goto, PassPoints
<1>4. CASE HandleNotModified
      BY <1>4 DEF HandleNotModified, PassPoints
<1>5. CASE RefuseReply
      <2>1. \E how \in Outcomes : EndPass(how)
            BY <1>5 DEF RefuseReply, Outcomes
      <2> QED BY <1>5, <2>1, EndPassType DEF RefuseReply
<1>6. CASE HandleUnchanged
      BY <1>6 DEF HandleUnchanged, PassPoints
<1>7. CASE HandleNewBundle
      BY <1>7 DEF HandleNewBundle, Goto, PassPoints
<1>8. CASE SendApply
      <2>1. inbox' \in Seq(Bundle)
            BY <1>8 DEF SendApply
      <2> QED BY <1>8, <2>1 DEF SendApply, Goto, PassPoints
<1>9. CASE ReceiveAnswer
      <2>1. CASE EndPass("HelperError")
            BY <1>9, <2>1, EndPassType DEF ReceiveAnswer, Outcomes
      <2>2. CASE ~EndPass("HelperError")
            BY <1>9, <2>2 DEF ReceiveAnswer, Goto, PassPoints
      <2> QED BY <2>1, <2>2
<1>10. CASE WriteGeneration
      BY <1>10, WriteTypes DEF WriteGeneration, Goto, PassPoints
<1>11. CASE WriteFingerprint
      BY <1>11, WriteTypes DEF WriteFingerprint, Goto, PassPoints
<1>12. CASE PersistPinIfNeeded
      BY <1>12, WriteTypes DEF PersistPinIfNeeded, Goto, PassPoints
<1>13. CASE WriteLastSuccess
      <2>1. CASE path = "updated"
            BY <1>13, <2>1 DEF WriteLastSuccess, Goto, PassPoints
      <2>2. CASE path # "updated"
            <3>1. \E how \in Outcomes : EndPass(how)
                  BY <1>13, <2>2 DEF WriteLastSuccess, Outcomes
            <3> QED BY <1>13, <3>1, EndPassType DEF WriteLastSuccess
      <2> QED BY <2>1, <2>2
<1>14. CASE Acknowledge
      <2>1. synced' \in Generations \cup {0}
            BY <1>14 DEF Acknowledge, Advance
      <2> QED BY <1>14, <2>1, EndPassType DEF Acknowledge, Outcomes
<1>15. CASE AcknowledgeRollback
      BY <1>15, EndPassType DEF AcknowledgeRollback, Outcomes
<1>16. CASE HelperServes
      <2>1. inbox' \in Seq(Bundle) /\ Head(inbox) \in Bundle
            BY <1>16 DEF HelperServes
      <2> QED BY <1>16, <2>1 DEF HelperServes, agentVars, HelperAnswers
<1>17. CASE Publish
      <2>1. server' \in Bundle
            BY <1>17, SignerAssumption, BoundAssumption DEF Publish, Bundle, Generations
      <2> QED BY <1>17, <2>1 DEF Publish, agentVars
<1>18. CASE LoadOrFetchFails
      BY <1>18, EndPassType DEF LoadOrFetchFails, Outcomes
<1>19. CASE HelperUnreachable
      BY <1>19, EndPassType DEF HelperUnreachable, Outcomes
<1>20. CASE AnswerLost
      BY <1>20, EndPassType DEF AnswerLost, Outcomes
<1>21. CASE WriteFails
      <2>1. disk' \in PersistedState
            <3>1. disk' \in {disk, WithGeneration(disk, bundle),
                             WithFingerprint(disk, bundle), WithPin(disk, bundle)}
                  BY <1>21 DEF WriteFails
            <3>2. /\ WithGeneration(disk, bundle) \in PersistedState
                  /\ WithFingerprint(disk, bundle) \in PersistedState
                  /\ WithPin(disk, bundle) \in PersistedState
                  BY WriteTypes
            <3> QED BY <3>1, <3>2
      <2> QED BY <1>21, <2>1, EndPassType DEF WriteFails, Outcomes
<1>22. CASE Crash
      BY <1>22, EndPassType DEF Crash, Outcomes
<1>23. CASE Stabilize
      BY <1>23 DEF Stabilize, agentVars
<1>24. CASE UNCHANGED vars
      BY <1>24 DEF vars
<1> QED BY <1>1, <1>2, <1>3, <1>4, <1>5, <1>6, <1>7, <1>8, <1>9, <1>10, <1>11,
           <1>12, <1>13, <1>14, <1>15, <1>16, <1>17, <1>18, <1>19, <1>20, <1>21,
           <1>22, <1>23, <1>24 DEF Next, PassStep, Fault

\* Every variable of a synchronisation pass, the state files, the helper's
\* queue and the server's view keep their type in every reachable state.
THEOREM TypeCorrect == Spec => []TypeOK
<1>1. TypeInv => TypeOK BY DEF TypeInv
<1> QED BY <1>1, TypeInit, TypeStep, PTL DEF Spec

-----------------------------------------------------------------------------
(* The records never run ahead.  RecordsNeverAhead is not inductive: that   *)
(* the generation about to be recorded is installed needs the handover with *)
(* the helper, and that it stays installed needs the helper's queue to be   *)
(* empty, or to hold nothing older, from then on.                           *)

SafetyInv == TypeInv /\ RecordsNeverAhead /\ Handover

\* Generations compare as natural numbers.
LEMMA GenerationsAreNat ==
    ASSUME TypeInv
    PROVE  /\ disk.gen \in Nat /\ persisted.gen \in Nat
           /\ host.gen \in Nat /\ synced \in Nat
           /\ bundle.gen \in Nat
           /\ \A i \in DOMAIN inbox : inbox[i] \in Bundle /\ inbox[i].gen \in Nat
<1>1. Generations \cup {0} \subseteq Nat
      BY RecordTypes
<1>2. disk.gen \in Nat /\ persisted.gen \in Nat /\ synced \in Nat
      BY <1>1 DEF TypeInv, TypeOK, PersistedState
<1>3. host.gen \in Nat /\ bundle.gen \in Nat
      BY <1>1, RecordTypes DEF TypeInv, TypeOK, bundle
<1>4. \A i \in DOMAIN inbox : inbox[i] \in Bundle
      BY DEF TypeInv, TypeOK
<1>5. \A b \in Bundle : b.gen \in Nat
      BY <1>1, RecordTypes
<1> QED BY <1>2, <1>3, <1>4, <1>5

\* What is left of a queue once its head is served.
LEMMA TailFacts ==
    ASSUME NEW S, NEW q \in Seq(S), q # <<>>
    PROVE  /\ Head(q) = q[1]
           /\ Len(q) \in Nat \ {0}
           /\ Len(Tail(q)) = Len(q) - 1
           /\ \A i \in 1..Len(Tail(q)) : Tail(q)[i] = q[i + 1]
           /\ DOMAIN Tail(q) = 1..Len(Tail(q)) /\ DOMAIN q = 1..Len(q)
           /\ Len(q) = 1 => Tail(q) = <<>>
           /\ Len(q) # 1 => Tail(q) # <<>>
<1>1. Len(q) \in Nat \ {0} /\ DOMAIN q = 1..Len(q)
      BY LenProperties, EmptySeq
<1>2. /\ Tail(q) \in Seq(S)
      /\ Len(Tail(q)) = Len(q) - 1
      /\ \A i \in 1..Len(Tail(q)) : Tail(q)[i] = q[i + 1]
      BY HeadTailProperties
<1>3. DOMAIN Tail(q) = 1..Len(Tail(q))
      BY <1>2, LenProperties
<1>4. Len(q) = 1 => Tail(q) = <<>>
      <2>1. Tail(q) # <<>> => Len(Tail(q)) \in Nat \ {0}
            BY <1>2, EmptySeq
      <2> QED BY <1>2, <2>1
<1>5. Len(q) # 1 => Tail(q) # <<>>
      BY <1>1, <1>2, EmptySeq
<1> QED BY <1>1, <1>2, <1>3, <1>4, <1>5

\* A pass that ends leaves the handover in order.
LEMMA PassEndIsSafe ==
    ASSUME SafetyInv, pc' = "idle", UNCHANGED <<disk, inbox, host, synced>>
    PROVE  RecordsNeverAhead' /\ Handover'
BY DEF SafetyInv, RecordsNeverAhead, Handover, HasBundle, Confirmed, Recorded

LEMMA SafetyInit == Init => SafetyInv
<1> SUFFICES ASSUME Init PROVE SafetyInv
    OBVIOUS
<1>1. TypeInv
      BY TypeInit
<1>2. RecordsNeverAhead
      BY DEF Init, RecordsNeverAhead, NoBundle
<1>3. Handover
      BY DEF Init, Handover, HasBundle, Confirmed, Recorded
<1> QED BY <1>1, <1>2, <1>3 DEF SafetyInv

LEMMA SafetyStep == SafetyInv /\ [Next]_vars => SafetyInv'
<1> SUFFICES ASSUME SafetyInv, [Next]_vars PROVE SafetyInv'
    OBVIOUS
<1>0. TypeInv /\ TypeInv'
      BY TypeStep DEF SafetyInv
<1>g. /\ disk.gen \in Nat /\ persisted.gen \in Nat
      /\ host.gen \in Nat /\ synced \in Nat
      /\ bundle.gen \in Nat
      /\ \A i \in DOMAIN inbox : inbox[i] \in Bundle /\ inbox[i].gen \in Nat
      BY <1>0, GenerationsAreNat
<1>w. /\ WithGeneration(disk, bundle).gen = bundle.gen
      /\ WithFingerprint(disk, bundle).gen = disk.gen
      /\ WithPin(disk, bundle).gen = disk.gen
      <2>1. disk \in PersistedState /\ bundle \in Bundle \cup {NoBundle}
            BY <1>0 DEF TypeInv, TypeOK, bundle
      <2> QED BY <2>1, WriteTypes
<1> SUFFICES RecordsNeverAhead' /\ Handover'
    BY <1>0 DEF SafetyInv
<1> USE DEF RecordsNeverAhead, Handover, HasBundle, Confirmed, Recorded, bundle
<1>1. CASE BeginPass
      BY <1>1 DEF BeginPass, SafetyInv
<1>2. CASE FetchBundle
      BY <1>2 DEF FetchBundle, SafetyInv
<1>3. CASE WriteLastSync
      BY <1>3 DEF WriteLastSync, Goto, SafetyInv
<1>4. CASE HandleNotModified
      BY <1>4 DEF HandleNotModified, SafetyInv
<1>5. CASE RefuseReply
      BY <1>5, PassEndIsSafe DEF RefuseReply, EndPass
<1>6. CASE HandleUnchanged
      BY <1>6, <1>g DEF HandleUnchanged, SafetyInv, AlreadyRecorded
<1>7. CASE HandleNewBundle
      BY <1>7, <1>g DEF HandleNewBundle, Goto, SafetyInv, Acceptable, Regressed
<1>8. CASE SendApply
      <2>1. \A i \in DOMAIN inbox' : disk.gen <= inbox'[i].gen
            BY <1>8, <1>0, <1>g DEF SendApply, SafetyInv, TypeInv, TypeOK
      <2>2. inbox' # <<>> /\ inbox'[Len(inbox')] = bundle
            BY <1>8, <1>0 DEF SendApply, TypeInv, TypeOK
      <2> QED BY <1>8, <2>1, <2>2 DEF SendApply, Goto, SafetyInv
<1>9. CASE ReceiveAnswer
      <2>1. CASE answer = "applied"
            BY <1>9, <2>1 DEF ReceiveAnswer, SafetyInv
      <2>2. CASE answer = "rolledBack"
            BY <1>9, <2>2 DEF ReceiveAnswer, SafetyInv, Goto
      <2>3. CASE answer \notin {"applied", "rolledBack"}
            BY <1>9, <2>3, PassEndIsSafe DEF ReceiveAnswer, EndPass
      <2> QED BY <2>1, <2>2, <2>3
<1>10. CASE WriteGeneration
      <2>1. disk'.gen = bundle.gen
            BY <1>10, <1>w DEF WriteGeneration
      <2> QED BY <1>10, <2>1, <1>g DEF WriteGeneration, Goto, SafetyInv
<1>11. CASE WriteFingerprint
      <2>1. disk'.gen = disk.gen
            BY <1>11, <1>w DEF WriteFingerprint
      <2> QED BY <1>11, <2>1, <1>g, <1>0 DEF WriteFingerprint, Goto, SafetyInv, TypeInv
<1>12. CASE PersistPinIfNeeded
      <2>1. disk'.gen = disk.gen
            BY <1>12, <1>w DEF PersistPinIfNeeded
      <2> QED BY <1>12, <2>1, <1>g DEF PersistPinIfNeeded, Goto, SafetyInv
<1>13. CASE WriteLastSuccess
      <2>1. CASE path = "updated"
            BY <1>13, <2>1, <1>g DEF WriteLastSuccess, Goto, SafetyInv
      <2>2. CASE path # "updated"
            BY <1>13, <2>2, PassEndIsSafe DEF WriteLastSuccess, EndPass
      <2> QED BY <2>1, <2>2
<1>14. CASE Acknowledge
      BY <1>14, <1>g DEF Acknowledge, Advance, EndPass, SafetyInv
<1>15. CASE AcknowledgeRollback
      BY <1>15, PassEndIsSafe DEF AcknowledgeRollback, EndPass
<1>16. CASE HelperServes
      <2>1. /\ Head(inbox) = inbox[1]
            /\ Len(inbox) \in Nat \ {0}
            /\ Len(inbox') = Len(inbox) - 1
            /\ \A i \in 1..Len(inbox') : inbox'[i] = inbox[i + 1]
            /\ DOMAIN inbox' = 1..Len(inbox') /\ DOMAIN inbox = 1..Len(inbox)
            /\ Len(inbox) = 1 => inbox' = <<>>
            /\ Len(inbox) # 1 => inbox' # <<>>
            BY <1>16, <1>0, TailFacts DEF HelperServes, TypeInv, TypeOK
      <2>2. ASSUME NEW i \in DOMAIN inbox'
            PROVE  disk.gen <= inbox'[i].gen
            <3>1. i + 1 \in DOMAIN inbox /\ inbox'[i] = inbox[i + 1]
                  BY <2>1
            <3> QED BY <3>1, <1>g DEF SafetyInv
      <2>0. PICK a \in HelperAnswers : /\ host' = IF a = "applied" THEN Head(inbox) ELSE host
                                       /\ answer' = IF Awaited THEN a ELSE answer
            BY <1>16 DEF HelperServes
      <2>3. disk.gen <= host'.gen
            <3>1. 1 \in DOMAIN inbox /\ disk' = disk
                  BY <1>16, <2>1 DEF HelperServes
            <3> QED BY <2>0, <2>1, <3>1, <1>g DEF SafetyInv
      <2>4. ~Confirmed
            BY <1>16 DEF HelperServes, SafetyInv
      <2>5. ASSUME pc = "await"
            PROVE  IF answer' = "none"
                   THEN inbox' # <<>> /\ inbox'[Len(inbox')] = bundle
                   ELSE inbox' = <<>> /\ (answer' = "applied" => host' = bundle)
            <3>1. answer = "none" /\ inbox[Len(inbox)] = bundle
                  BY <1>16, <2>5 DEF HelperServes, SafetyInv
            <3>2. CASE Len(inbox) = 1
                  BY <2>0, <2>1, <2>5, <3>1, <3>2 DEF Awaited, HelperAnswers
            <3>3. CASE Len(inbox) # 1
                  BY <2>0, <2>1, <2>5, <3>1, <3>3 DEF Awaited
            <3> QED BY <3>2, <3>3
      <2> QED BY <1>16, <2>2, <2>3, <2>4, <2>5 DEF HelperServes, agentVars, SafetyInv
<1>17. CASE Publish
      BY <1>17 DEF Publish, agentVars, SafetyInv
<1>18. CASE LoadOrFetchFails
      BY <1>18, PassEndIsSafe DEF LoadOrFetchFails, EndPass
<1>19. CASE HelperUnreachable
      BY <1>19, PassEndIsSafe DEF HelperUnreachable, EndPass
<1>20. CASE AnswerLost
      BY <1>20, PassEndIsSafe DEF AnswerLost, EndPass
<1>21. CASE WriteFails
      <2>1. CASE disk'.gen = disk.gen
            BY <1>21, <2>1 DEF WriteFails, EndPass, SafetyInv
      <2>2. CASE disk'.gen # disk.gen
            <3>1. pc = "generation" /\ disk'.gen = bundle.gen
                  BY <1>21, <2>2, <1>w DEF WriteFails
            <3> QED BY <1>21, <3>1, <1>g DEF WriteFails, EndPass, SafetyInv
      <2> QED BY <2>1, <2>2
<1>22. CASE Crash
      BY <1>22, PassEndIsSafe DEF Crash, EndPass
<1>23. CASE Stabilize
      BY <1>23 DEF Stabilize, agentVars, SafetyInv
<1>24. CASE UNCHANGED vars
      BY <1>24 DEF vars, SafetyInv
<1> QED BY <1>1, <1>2, <1>3, <1>4, <1>5, <1>6, <1>7, <1>8, <1>9, <1>10, <1>11,
           <1>12, <1>13, <1>14, <1>15, <1>16, <1>17, <1>18, <1>19, <1>20, <1>21,
           <1>22, <1>23, <1>24 DEF Next, PassStep, Fault

LEMMA SafetyInvariant == Spec => []SafetyInv
BY SafetyInit, SafetyStep, PTL DEF Spec

\* Whatever crashes, rollbacks, lost answers and hostile replies happen, the
\* server's synced_generation never exceeds the generation file, and the
\* generation file never exceeds what sshd trusts.
THEOREM RecordsAreSafe == Spec => []RecordsNeverAhead
<1>1. SafetyInv => RecordsNeverAhead BY DEF SafetyInv
<1> QED BY <1>1, SafetyInvariant, PTL

\* Agent and helper keep their handover in order.
THEOREM HandoverIsSafe == Spec => []Handover
<1>1. SafetyInv => Handover BY DEF SafetyInv
<1> QED BY <1>1, SafetyInvariant, PTL

-----------------------------------------------------------------------------
(* Steps of the record, and the refinement.                                 *)

\* How a step may change the state files: a failed or a completed write of the
\* generation of an installed bundle, or of a missing pin, or of the ETag.
LEMMA DiskStep ==
    ASSUME SafetyInv, [Next]_vars
    PROVE  \/ disk' = disk
           \/ pc = "generation" /\ disk' = WithGeneration(disk, bundle)
           \/ pc = "fingerprint" /\ disk' = WithFingerprint(disk, bundle)
           \/ pc = "pin" /\ disk' = WithPin(disk, bundle)
BY DEF Next, PassStep, Fault, BeginPass, FetchBundle, WriteLastSync,
       HandleNotModified, RefuseReply, HandleUnchanged, HandleNewBundle, SendApply,
       ReceiveAnswer, WriteGeneration, WriteFingerprint, PersistPinIfNeeded,
       WriteLastSuccess, Acknowledge, AcknowledgeRollback, HelperServes, Publish,
       LoadOrFetchFails, HelperUnreachable, AnswerLost, WriteFails, Crash,
       Stabilize, vars

\* The same, in terms of the recorded generation and the pin.
LEMMA RecordStep ==
    ASSUME SafetyInv, [Next]_vars
    PROVE  /\ \/ disk'.gen = disk.gen
              \/ pc = "generation" /\ disk'.gen = host.gen
           /\ disk.pin # None => disk'.pin = disk.pin
           /\ OperatorPin # None => disk'.pin = disk.pin
<1>1. disk \in PersistedState /\ bundle \in Bundle \cup {NoBundle}
      BY DEF SafetyInv, TypeInv, TypeOK, bundle
<1>2. /\ WithGeneration(disk, bundle).gen = bundle.gen
      /\ WithFingerprint(disk, bundle).gen = disk.gen
      /\ WithPin(disk, bundle).gen = disk.gen
      BY <1>1, WriteTypes
<1>3. /\ WithGeneration(disk, bundle).pin = disk.pin
      /\ WithFingerprint(disk, bundle).pin = disk.pin
      /\ disk.pin # None \/ OperatorPin # None => WithPin(disk, bundle) = disk
      BY <1>1 DEF WithGeneration, WithFingerprint, WithPin, PersistedState
<1>4. pc = "generation" => host.gen = bundle.gen
      BY DEF SafetyInv, Handover, Confirmed
<1> QED BY <1>2, <1>3, <1>4, DiskStep

\* No step lowers the recorded generation or replaces a pin, whatever the
\* server sends and wherever a pass is cut short.
THEOREM RecordIsMonotone == Spec => RecordNeverRegresses
<1>1. ASSUME SafetyInv, [Next]_vars
      PROVE  [/\ disk.gen <= disk'.gen
              /\ disk.pin # None => disk'.pin = disk.pin]_vars
      <2>1. disk.gen \in Nat /\ disk.gen <= host.gen
            BY <1>1, GenerationsAreNat DEF SafetyInv, RecordsNeverAhead
      <2>2. disk.gen <= disk'.gen
            BY <1>1, <2>1, RecordStep
      <2> QED BY <1>1, <2>2, RecordStep
<1> QED BY <1>1, SafetyInvariant, PTL DEF Spec, RecordNeverRegresses

\* Which steps touch what the host trusts and what the server believes.
LEMMA FrameStep ==
    ASSUME SafetyInv, [Next]_vars
    PROVE  /\ host' # host => HelperServes
           /\ synced' # synced => Acknowledge
BY DEF Next, PassStep, Fault, BeginPass, FetchBundle, WriteLastSync,
       HandleNotModified, RefuseReply, HandleUnchanged, HandleNewBundle, SendApply,
       ReceiveAnswer, WriteGeneration, WriteFingerprint, PersistPinIfNeeded,
       WriteLastSuccess, AcknowledgeRollback, Publish,
       LoadOrFetchFails, HelperUnreachable, AnswerLost, WriteFails, Crash,
       Stabilize, vars, Acknowledge, HelperServes

LEMMA RolloutStep ==
    ASSUME SafetyInv, SafetyInv', [Next]_vars
    PROVE  [Rollout!Next]_(Rollout!rolloutVars)
<1> USE DEF Rollout!Next, Rollout!Install, Rollout!Record, Rollout!Report,
            Rollout!rolloutVars
<1>1. /\ disk.gen \in Nat /\ host.gen \in Nat /\ synced \in Nat
      /\ disk.gen <= host.gen /\ disk'.gen <= host'.gen
      /\ bundle.gen \in Nat
      BY GenerationsAreNat DEF SafetyInv, RecordsNeverAhead
<1>2. CASE HelperServes
      <2>1. disk' = disk /\ synced' = synced
            BY <1>2 DEF HelperServes
      <2>2. host'.gen \in Nat /\ host'.gen <= MaxGeneration
            BY RecordTypes, BoundAssumption DEF SafetyInv, TypeInv, TypeOK, Generations
      <2>3. host'.gen \in disk.gen..MaxGeneration
            BY <1>1, <2>1, <2>2, BoundAssumption
      <2> QED BY <2>1, <2>3
<1>3. CASE Acknowledge
      <2>1. disk' = disk /\ host' = host
            BY <1>3 DEF Acknowledge
      <2>2. disk.gen = bundle.gen /\ synced <= disk.gen
            BY <1>3 DEF Acknowledge, SafetyInv, Handover, Recorded, RecordsNeverAhead
      <2>3. synced' = disk.gen \/ synced' = synced
            BY <1>1, <1>3, <2>2 DEF Acknowledge, Advance
      <2> QED BY <2>1, <2>3
<1>4. CASE ~HelperServes /\ ~Acknowledge
      <2>1. host' = host /\ synced' = synced
            BY <1>4, FrameStep
      <2>2. disk'.gen = disk.gen \/ disk'.gen = host.gen
            BY RecordStep
      <2> QED BY <1>1, <2>1, <2>2
<1> QED BY <1>2, <1>3, <1>4

\* CaSync implements TrustRollout: the initial states agree, and every step of
\* a pass, the helper, the server or a fault installs, records or reports as
\* TrustRollout allows, or changes none of the three generations.
THEOREM RolloutImplemented == Spec => ImplementsRollout
<1>1. Init => Rollout!Init
      BY DEF Init, Rollout!Init, NoBundle
<1> QED BY <1>1, RolloutStep, SafetyInvariant, PTL DEF Spec, ImplementsRollout, Rollout!Spec

-----------------------------------------------------------------------------
(* Key-swap resistance.  With a trust anchor, the pin of a pass is that     *)
(* anchor, so the bundle a pass holds carries its signature.                *)

AnchorInv ==
    Anchor # None =>
        /\ host # NoBundle => host.signer = Anchor
        /\ \A i \in DOMAIN inbox : inbox[i].signer = Anchor
        /\ disk.pin = EnrollmentPin
        /\ HasBundle => bundle.signer = Anchor

LEMMA AnchorStep == SafetyInv /\ AnchorInv /\ [Next]_vars => AnchorInv'
<1> SUFFICES ASSUME SafetyInv, AnchorInv, [Next]_vars, Anchor # None
             PROVE  AnchorInv'
    BY DEF AnchorInv, Anchor
<1> USE DEF Anchor
<1>1. disk'.pin = disk.pin
      BY RecordStep DEF AnchorInv
<1>3. CASE HandleUnchanged \/ HandleNewBundle
      <2>1. persisted = disk /\ reply' = reply /\ inbox' = inbox /\ host' = host
            BY <1>3 DEF HandleUnchanged, HandleNewBundle, Goto, SafetyInv, Handover
      <2>2. bundle.signer = Anchor
            BY <1>3, <2>1
            DEF HandleUnchanged, HandleNewBundle, Acceptable, SignerAccepted,
                ExpectedSigningKey, AnchorInv
      <2> QED BY <1>1, <2>1, <2>2 DEF AnchorInv, bundle
<1>4. CASE SendApply
      <2>1. inbox \in Seq(Bundle) /\ bundle \in Bundle /\ bundle.signer = Anchor
            BY <1>4 DEF SendApply, SafetyInv, TypeInv, TypeOK, HasBundle, AnchorInv
      <2>2. inbox' = Append(inbox, bundle) /\ host' = host /\ reply' = reply
            BY <1>4 DEF SendApply, Goto
      <2>3. \A i \in DOMAIN inbox' : inbox'[i].signer = Anchor
            BY <2>1, <2>2 DEF AnchorInv
      <2> QED BY <1>1, <2>1, <2>2, <2>3 DEF AnchorInv, bundle
<1>5. CASE HelperServes
      <2>1. inbox \in Seq(Bundle) /\ inbox # <<>> /\ inbox' = Tail(inbox)
            BY <1>5 DEF HelperServes, SafetyInv, TypeInv, TypeOK
      <2>2. /\ Head(inbox) = inbox[1] /\ Len(inbox) \in Nat \ {0}
            /\ DOMAIN inbox = 1..Len(inbox) /\ DOMAIN inbox' = 1..Len(inbox')
            /\ Len(inbox') = Len(inbox) - 1
            /\ \A i \in 1..Len(inbox') : inbox'[i] = inbox[i + 1]
            BY <2>1, TailFacts
      <2>3. \A i \in DOMAIN inbox' : inbox'[i].signer = Anchor
            BY <2>2 DEF AnchorInv
      <2>4. host' # NoBundle => host'.signer = Anchor
            BY <1>5, <2>2 DEF HelperServes, AnchorInv
      <2>5. pc' = pc /\ reply' = reply
            BY <1>5 DEF HelperServes, agentVars
      <2> QED BY <1>1, <2>3, <2>4, <2>5 DEF AnchorInv, HasBundle, bundle
<1>6. CASE ~(HandleUnchanged \/ HandleNewBundle \/ SendApply \/ HelperServes)
      <2>1. inbox' = inbox /\ host' = host
            BY <1>6
            DEF Next, PassStep, Fault, BeginPass, FetchBundle, WriteLastSync,
                HandleNotModified, RefuseReply, ReceiveAnswer, WriteGeneration,
                WriteFingerprint, PersistPinIfNeeded, WriteLastSuccess, Acknowledge,
                AcknowledgeRollback, Publish, LoadOrFetchFails, HelperUnreachable,
                AnswerLost, WriteFails, Crash, Stabilize, vars
      <2>2. HasBundle' => reply' = reply /\ (HasBundle \/ Confirmed)
            BY <1>6
            DEF Next, PassStep, Fault, BeginPass, FetchBundle, WriteLastSync,
                HandleNotModified, RefuseReply, ReceiveAnswer, WriteGeneration,
                WriteFingerprint, PersistPinIfNeeded, WriteLastSuccess, Acknowledge,
                AcknowledgeRollback, Publish, LoadOrFetchFails, HelperUnreachable,
                AnswerLost, WriteFails, Crash, Stabilize, vars, agentVars, Goto,
                EndPass, HasBundle, Confirmed
      <2>3. Confirmed => bundle.signer = Anchor
            <3>1. Confirmed => host = bundle /\ bundle \in Bundle
                  BY DEF SafetyInv, Handover, TypeInv
            <3>2. NoBundle \notin Bundle
                  BY RecordTypes DEF Bundle
            <3> QED BY <3>1, <3>2 DEF AnchorInv
      <2> QED BY <1>1, <2>1, <2>2, <2>3 DEF AnchorInv, bundle
<1> QED BY <1>3, <1>4, <1>5, <1>6

\* With a provisioned or enrolled signing key, no bundle of another signer ever
\* reaches the helper or the host, and the pin on disk is never replaced.
THEOREM AnchorHolds == Spec => []OnlyAnchoredBundles
<1>1. Init => AnchorInv
      BY DEF Init, AnchorInv, HasBundle
<1>2. AnchorInv => OnlyAnchoredBundles
      BY DEF AnchorInv, OnlyAnchoredBundles
<1> QED BY <1>1, <1>2, AnchorStep, SafetyInvariant, PTL DEF Spec

-----------------------------------------------------------------------------
(* Trust on first use.  After the pin is written the pass is not at a point  *)
(* of HasBundle until it reports, so the invariant also covers the timestamp *)
(* in between; a pass that goes on to apply or pin has checked the pin that  *)
(* is on disk, because nothing has written the files since it read them.     *)

HoldsBundle == HasBundle \/ Confirmed

PinInv ==
    OperatorPin = None /\ disk.pin # None /\ HoldsBundle => bundle.signer = disk.pin

\* A step that finds the pin missing leaves it missing, or writes the signer of
\* the bundle in hand.
LEMMA PinStep ==
    ASSUME SafetyInv, [Next]_vars, disk.pin = None
    PROVE  disk'.pin = None \/ (pc = "pin" /\ disk'.pin = bundle.signer)
<1>1. disk \in PersistedState /\ bundle \in Bundle \cup {NoBundle}
      BY DEF SafetyInv, TypeInv, TypeOK, bundle
<1>2. /\ WithGeneration(disk, bundle).pin = None
      /\ WithFingerprint(disk, bundle).pin = None
      /\ WithPin(disk, bundle).pin \in {None, bundle.signer}
      BY <1>1 DEF WithGeneration, WithFingerprint, WithPin, PersistedState
<1> QED BY <1>2, DiskStep

LEMMA PinInvStep == SafetyInv /\ PinInv /\ [Next]_vars => PinInv'
<1> SUFFICES ASSUME SafetyInv, PinInv, [Next]_vars, OperatorPin = None,
                    disk'.pin # None, HoldsBundle'
             PROVE  bundle'.signer = disk'.pin
    BY DEF PinInv
<1>1. CASE HandleUnchanged \/ HandleNewBundle
      <2>1. persisted = disk /\ reply' = reply /\ disk' = disk
            BY <1>1 DEF HandleUnchanged, HandleNewBundle, Goto, SafetyInv, Handover
      <2> QED BY <1>1, <2>1
              DEF HandleUnchanged, HandleNewBundle, Acceptable, SignerAccepted,
                  ExpectedSigningKey, bundle
<1>2. CASE ~(HandleUnchanged \/ HandleNewBundle)
      <2>1. reply' = reply /\ HoldsBundle
            BY <1>2
            DEF Next, PassStep, Fault, BeginPass, FetchBundle, WriteLastSync,
                HandleNotModified, RefuseReply, SendApply, ReceiveAnswer,
                WriteGeneration, WriteFingerprint, PersistPinIfNeeded,
                WriteLastSuccess, Acknowledge, AcknowledgeRollback, HelperServes,
                Publish, LoadOrFetchFails, HelperUnreachable, AnswerLost, WriteFails,
                Crash, Stabilize, vars, agentVars, Goto, EndPass, HoldsBundle,
                HasBundle, Confirmed
      <2>2. CASE disk.pin = None
            BY <2>1, <2>2, PinStep DEF bundle
      <2>3. CASE disk.pin # None
            BY <2>1, <2>3, RecordStep DEF PinInv, bundle
      <2> QED BY <2>2, <2>3
<1> QED BY <1>1, <1>2

\* Whoever answers and wherever passes end: once a signing key is pinned on disk,
\* no pass asks for, records or reports a bundle that another key signed.
THEOREM PinIsObeyed == Spec => []PinGoverns
<1>1. Init => PinInv
      BY DEF Init, PinInv, HoldsBundle, HasBundle, Confirmed
<1>2. PinInv => PinGoverns
      BY DEF PinInv, PinGoverns, HoldsBundle
<1> QED BY <1>1, <1>2, PinInvStep, SafetyInvariant, PTL DEF Spec

-----------------------------------------------------------------------------
(* With an honest server.  Two bundles of one generation are one bundle,    *)
(* and what is installed, waits with the helper, is held by the pass and is *)
(* published follow each other in this order of generations.                *)

\* The bundles that are somewhere between the server and sshd.
InHand == reply.kind = "bundle"

OneBundlePerGeneration ==
    /\ host.gen = server.gen => host = server
    /\ InHand => /\ bundle.gen = server.gen => bundle = server
                 /\ bundle.gen = host.gen => bundle = host
    /\ \A i \in DOMAIN inbox :
          /\ inbox[i].gen = server.gen => inbox[i] = server
          /\ inbox[i].gen = host.gen => inbox[i] = host
          /\ InHand /\ inbox[i].gen = bundle.gen => inbox[i] = bundle
    /\ \A i, j \in DOMAIN inbox : inbox[i].gen = inbox[j].gen => inbox[i] = inbox[j]

InOrder ==
    /\ host.gen <= server.gen
    /\ InHand => host.gen <= bundle.gen /\ bundle.gen <= server.gen
    /\ \A i \in DOMAIN inbox :
          /\ host.gen <= inbox[i].gen /\ inbox[i].gen <= server.gen
          /\ InHand => inbox[i].gen <= bundle.gen
    /\ \A i, j \in DOMAIN inbox : i <= j => inbox[i].gen <= inbox[j].gen

HonestInv ==
    HonestServer => OneBundlePerGeneration /\ InOrder /\ RecordedBundleInstalled

\* The recorded ETag names a generation, 0 when there is none.
LEMMA EtagGeneration ==
    ASSUME TypeInv PROVE disk.fp.gen \in Nat
<1>1. disk.fp \in Fingerprints
      BY DEF TypeInv, TypeOK, PersistedState
<1>2. NoFingerprint.gen = 0
      BY DEF NoFingerprint, Fingerprint, NoBundle
<1>3. \A f \in [gen : Generations, keys : KeySets] : f.gen \in Nat
      BY RecordTypes
<1> QED BY <1>1, <1>2, <1>3 DEF Fingerprints

LEMMA HonestStep == SafetyInv /\ HonestInv /\ [Next]_vars => HonestInv'
<1> SUFFICES ASSUME SafetyInv, HonestInv, [Next]_vars, HonestServer PROVE HonestInv'
    BY DEF HonestInv
<1>0. TypeInv /\ TypeInv'
      BY TypeStep DEF SafetyInv
<1>g. /\ disk.gen \in Nat /\ host.gen \in Nat /\ bundle.gen \in Nat
      /\ \A i \in DOMAIN inbox : inbox[i] \in Bundle /\ inbox[i].gen \in Nat
      /\ server.gen \in Nat \ {0}
      <2>1. server.gen \in Nat \ {0}
            BY <1>0, RecordTypes DEF TypeInv, TypeOK, Bundle
      <2> QED BY <2>1, <1>0, GenerationsAreNat
<1>h. OneBundlePerGeneration /\ InOrder /\ RecordedBundleInstalled
      BY DEF HonestInv
<1>1. CASE FetchBundle
      <2>1. /\ UNCHANGED <<disk, inbox, host, server>>
            /\ reply' \in ServerReplies(persisted.fp)
            BY <1>1 DEF FetchBundle
      <2>2. reply'.kind = "bundle" => reply'.bundle = server
            BY <2>1 DEF ServerReplies, CurrentReply, Reply
      <2>3. OneBundlePerGeneration'
            BY <1>h, <1>g, <2>1, <2>2 DEF OneBundlePerGeneration, InHand, bundle
      <2>4. InOrder'
            BY <1>h, <1>g, <2>1, <2>2 DEF InOrder, InHand, bundle
      <2> QED BY <1>h, <2>1, <2>3, <2>4 DEF HonestInv, RecordedBundleInstalled
<1>2. CASE SendApply
      <2>1. /\ UNCHANGED <<disk, host, server, reply>>
            /\ inbox \in Seq(Bundle) /\ bundle \in Bundle /\ InHand
            /\ inbox' = Append(inbox, bundle)
            BY <1>2, <1>0 DEF SendApply, Goto, TypeInv, TypeOK, HasBundle, InHand, bundle
      <2>2. /\ DOMAIN inbox' = 1..(Len(inbox) + 1) /\ DOMAIN inbox = 1..Len(inbox)
            /\ Len(inbox) \in Nat
            /\ \A i \in 1..Len(inbox) : inbox'[i] = inbox[i]
            /\ inbox'[Len(inbox) + 1] = bundle
            BY <2>1
      <2>3. OneBundlePerGeneration'
            <3>1. \A i \in DOMAIN inbox' :
                     /\ inbox'[i].gen = server.gen => inbox'[i] = server
                     /\ inbox'[i].gen = host.gen => inbox'[i] = host
                     /\ inbox'[i].gen = bundle.gen => inbox'[i] = bundle
                  BY <1>h, <2>1, <2>2 DEF OneBundlePerGeneration, InHand
            <3>2. \A i, j \in DOMAIN inbox' :
                     inbox'[i].gen = inbox'[j].gen => inbox'[i] = inbox'[j]
                  BY <1>h, <2>1, <2>2 DEF OneBundlePerGeneration, InHand
            <3> QED BY <1>h, <2>1, <3>1, <3>2 DEF OneBundlePerGeneration, InHand, bundle
      <2>4. InOrder'
            <3>1. \A i \in DOMAIN inbox' :
                     /\ host.gen <= inbox'[i].gen /\ inbox'[i].gen <= server.gen
                     /\ inbox'[i].gen <= bundle.gen
                  BY <1>h, <1>g, <2>1, <2>2 DEF InOrder, InHand
            <3>2. \A i, j \in DOMAIN inbox' : i <= j => inbox'[i].gen <= inbox'[j].gen
                  BY <1>h, <1>g, <2>1, <2>2, <3>1 DEF InOrder, InHand
            <3> QED BY <1>h, <2>1, <3>1, <3>2 DEF InOrder, InHand, bundle
      <2> QED BY <1>h, <2>1, <2>3, <2>4 DEF HonestInv, RecordedBundleInstalled
<1>3. CASE HelperServes
      <2>1. /\ UNCHANGED <<disk, server, reply>>
            /\ inbox \in Seq(Bundle) /\ inbox # <<>> /\ inbox' = Tail(inbox)
            /\ host' = host \/ host' = Head(inbox)
            BY <1>3, <1>0 DEF HelperServes, agentVars, TypeInv, TypeOK
      <2>2. /\ Head(inbox) = inbox[1] /\ Len(inbox) \in Nat \ {0}
            /\ DOMAIN inbox = 1..Len(inbox) /\ DOMAIN inbox' = 1..Len(inbox')
            /\ Len(inbox') = Len(inbox) - 1
            /\ \A i \in 1..Len(inbox') : inbox'[i] = inbox[i + 1]
            BY <2>1, TailFacts
      <2>3. \A i \in DOMAIN inbox' : i + 1 \in DOMAIN inbox /\ inbox'[i] = inbox[i + 1]
            BY <2>2
      <2>4. 1 \in DOMAIN inbox /\ (host' = host \/ host' = inbox[1])
            BY <2>1, <2>2
      <2>5. OneBundlePerGeneration'
            BY <1>h, <2>1, <2>3, <2>4 DEF OneBundlePerGeneration, InHand, bundle
      <2>6. host.gen <= host'.gen
            BY <1>h, <1>g, <2>4 DEF InOrder
      <2>7. InOrder'
            <3>1. \A i \in DOMAIN inbox' :
                     /\ host'.gen <= inbox'[i].gen /\ inbox'[i].gen <= server.gen
                     /\ InHand => inbox'[i].gen <= bundle.gen
                  BY <1>h, <1>g, <2>2, <2>3, <2>4 DEF InOrder
            <3>2. \A i, j \in DOMAIN inbox' : i <= j => inbox'[i].gen <= inbox'[j].gen
                  BY <1>h, <1>g, <2>2, <2>3 DEF InOrder
            <3>3. /\ host'.gen <= server.gen
                  /\ InHand => host'.gen <= bundle.gen /\ bundle.gen <= server.gen
                  BY <1>h, <1>g, <2>4 DEF InOrder
            <3> QED BY <2>1, <3>1, <3>2, <3>3 DEF InOrder, InHand, bundle
      <2>8. RecordedBundleInstalled'
            <3>1. host'.gen = host.gen => host' = host
                  BY <1>h, <2>4 DEF OneBundlePerGeneration
            <3>2. host.gen \in Nat /\ host'.gen \in Nat
                  BY <1>g, <2>4
            <3>3. disk.fp.gen \in Nat
                  BY <1>0, EtagGeneration
            <3>4. host.gen = host'.gen \/ host.gen < host'.gen
                  BY <2>6, <3>2
            <3> QED BY <1>h, <2>1, <3>1, <3>2, <3>3, <3>4
                    DEF RecordedBundleInstalled, Fingerprint
      <2> QED BY <2>5, <2>7, <2>8 DEF HonestInv
<1>4. CASE Publish
      <2>1. /\ UNCHANGED <<disk, inbox, host, reply>>
            /\ server'.gen = server.gen + 1
            BY <1>4 DEF Publish, agentVars
      <2>2. OneBundlePerGeneration'
            BY <1>h, <1>g, <2>1 DEF OneBundlePerGeneration, InOrder, InHand, bundle
      <2>3. InOrder'
            BY <1>h, <1>g, <2>1 DEF InOrder, InHand, bundle
      <2> QED BY <1>h, <2>1, <2>2, <2>3 DEF HonestInv, RecordedBundleInstalled
<1>5. CASE ~(FetchBundle \/ SendApply \/ HelperServes \/ Publish)
      <2>1. UNCHANGED <<inbox, host, server>> /\ (reply' = reply \/ reply' = NoReply)
            BY <1>5
            DEF Next, PassStep, Fault, BeginPass, WriteLastSync, HandleNotModified,
                RefuseReply, HandleUnchanged, HandleNewBundle, ReceiveAnswer,
                WriteGeneration, WriteFingerprint, PersistPinIfNeeded,
                WriteLastSuccess, Acknowledge, AcknowledgeRollback,
                LoadOrFetchFails, HelperUnreachable, AnswerLost, WriteFails, Crash,
                Stabilize, vars, agentVars, Goto, EndPass
      <2>2. InHand' => InHand /\ reply' = reply
            BY <2>1 DEF InHand, NoReply, Reply
      <2>3. OneBundlePerGeneration'
            BY <1>h, <2>1, <2>2 DEF OneBundlePerGeneration, bundle
      <2>4. InOrder'
            BY <1>h, <2>1, <2>2 DEF InOrder, bundle
      <2>5. RecordedBundleInstalled'
            <3>1. disk \in PersistedState
                  BY <1>0 DEF TypeInv, TypeOK
            <3>2. CASE disk'.fp = disk.fp /\ disk.gen <= disk'.gen
                  <4>1. disk'.gen \in Nat /\ disk.fp.gen \in Nat
                        <5>1. disk'.gen \in Generations \cup {0}
                              BY <1>0 DEF TypeInv, TypeOK, PersistedState
                        <5>2. Generations \cup {0} \subseteq Nat
                              BY RecordTypes
                        <5>3. disk.fp.gen \in Nat
                              BY <1>0, EtagGeneration
                        <5> QED BY <5>1, <5>2, <5>3
                  <4> QED BY <1>h, <1>g, <2>1, <3>2, <4>1
                          DEF RecordedBundleInstalled
            <3>3. CASE pc = "generation" /\ disk' = WithGeneration(disk, bundle)
                  <4>1. disk'.fp = disk.fp /\ disk'.gen = bundle.gen
                        BY <3>1, <3>3 DEF WithGeneration, PersistedState
                  <4>2. disk.gen <= bundle.gen
                        BY <3>3 DEF SafetyInv, Handover, HasBundle
                  <4> QED BY <3>2, <4>1, <4>2
            <3>4. CASE pc = "fingerprint" /\ disk' = WithFingerprint(disk, bundle)
                  <4>1. disk'.fp = Fingerprint(bundle) /\ disk'.gen = disk.gen
                        BY <3>1, <3>4 DEF WithFingerprint, PersistedState
                  <4>2. host = bundle /\ disk.gen = bundle.gen
                        BY <3>4 DEF SafetyInv, Handover, Confirmed, Recorded
                  <4> QED BY <1>g, <2>1, <4>1, <4>2
                          DEF RecordedBundleInstalled, Fingerprint
            <3>5. CASE pc = "pin" /\ disk' = WithPin(disk, bundle)
                  <4>1. disk'.fp = disk.fp /\ disk'.gen = disk.gen
                        BY <3>1, <3>5 DEF WithPin, PersistedState
                  <4> QED BY <1>g, <3>2, <4>1
            <3> QED BY <1>g, <3>2, <3>3, <3>4, <3>5, DiskStep
      <2> QED BY <2>3, <2>4, <2>5 DEF HonestInv
<1> QED BY <1>1, <1>2, <1>3, <1>4, <1>5

LEMMA HonestInit == Init => HonestInv
<1> SUFFICES ASSUME Init PROVE HonestInv
    OBVIOUS
<1>1. server.gen = 1 /\ host.gen = 0 /\ inbox = <<>> /\ disk.fp = NoFingerprint
      BY DEF Init, NoBundle
<1>2. ~InHand
      BY DEF Init, InHand, NoReply, Reply
<1> QED BY <1>1, <1>2
        DEF HonestInv, OneBundlePerGeneration, InOrder, RecordedBundleInstalled

LEMMA HonestInvariant == Spec => []HonestInv
BY HonestInit, HonestStep, SafetyInvariant, PTL DEF Spec

\* With an honest server, the ETag on disk never makes the server answer 304
\* unless sshd trusts exactly the server's current bundle.
THEOREM NotModifiedIsSound == Spec => []NotModifiedIsTruthful
<1>1. SafetyInv /\ HonestInv => NotModifiedIsTruthful
      <2> SUFFICES ASSUME SafetyInv, HonestInv, HonestServer,
                          disk.fp = Fingerprint(server)
                   PROVE  host = server
          BY DEF NotModifiedIsTruthful
      <2>1. host.gen \in Nat /\ server.gen \in Nat \ {0}
            BY GenerationsAreNat, RecordTypes DEF SafetyInv, TypeInv, TypeOK, Bundle
      <2>2. disk.fp # NoFingerprint /\ disk.fp.gen = server.gen
            BY <2>1 DEF Fingerprint, NoFingerprint, NoBundle
      <2>3. host.gen <= server.gen
            BY DEF HonestInv, InOrder
      <2>4. disk.fp = Fingerprint(host)
            BY <2>1, <2>2, <2>3 DEF HonestInv, RecordedBundleInstalled
      <2>5. host.gen = server.gen
            BY <2>2, <2>4 DEF Fingerprint
      <2> QED BY <2>5 DEF HonestInv, OneBundlePerGeneration
<1> QED BY <1>1, SafetyInvariant, HonestInvariant, PTL

\* With an honest server, no step takes sshd back to an older generation: a
\* request the agent gave up on is served before any younger one.
THEOREM HostIsMonotone == Spec => HostNeverRegresses
<1>1. ASSUME SafetyInv, HonestInv, [Next]_vars
      PROVE  [HonestServer => host.gen <= host'.gen]_vars
      <2> SUFFICES ASSUME HonestServer PROVE host.gen <= host'.gen
          OBVIOUS
      <2>1. host.gen \in Nat
            BY <1>1, GenerationsAreNat DEF SafetyInv
      <2>2. CASE host' = host
            BY <2>1, <2>2
      <2>3. CASE host' # host
            <3>1. HelperServes
                  BY <1>1, <2>3, FrameStep
            <3>2. inbox \in Seq(Bundle)
                  BY <1>1 DEF SafetyInv, TypeInv, TypeOK
            <3>3. inbox # <<>> /\ host' = Head(inbox)
                  BY <2>3, <3>1 DEF HelperServes
            <3>4. host' = inbox[1] /\ 1 \in DOMAIN inbox
                  <4>1. /\ Head(inbox) = inbox[1] /\ Len(inbox) \in Nat \ {0}
                        /\ DOMAIN inbox = 1..Len(inbox)
                        BY <3>2, <3>3, TailFacts
                  <4> QED BY <3>3, <4>1
            <3> QED BY <1>1, <3>4 DEF HonestInv, InOrder
      <2> QED BY <2>2, <2>3
<1> QED BY <1>1, SafetyInvariant, HonestInvariant, PTL DEF Spec, HostNeverRegresses

\* The ETag never names a bundle newer than the recorded generation, whoever
\* answers: the generation goes to disk first.
EtagInv == disk.fp # NoFingerprint => disk.fp.gen <= disk.gen

LEMMA EtagStep == SafetyInv /\ EtagInv /\ [Next]_vars => EtagInv'
<1> SUFFICES ASSUME SafetyInv, EtagInv, [Next]_vars PROVE EtagInv'
    OBVIOUS
<1>1. disk \in PersistedState /\ disk.gen \in Nat /\ bundle.gen \in Nat /\ disk.fp.gen \in Nat
      BY GenerationsAreNat, EtagGeneration DEF SafetyInv, TypeInv, TypeOK
<1>2. CASE disk' = disk
      BY <1>2 DEF EtagInv
<1>3. CASE pc = "generation" /\ disk' = WithGeneration(disk, bundle)
      <2>1. disk'.fp = disk.fp /\ disk'.gen = bundle.gen
            BY <1>1, <1>3 DEF WithGeneration, PersistedState
      <2>2. disk.gen <= bundle.gen
            BY <1>3 DEF SafetyInv, Handover, HasBundle
      <2> QED BY <1>1, <2>1, <2>2 DEF EtagInv
<1>4. CASE pc = "fingerprint" /\ disk' = WithFingerprint(disk, bundle)
      <2>1. disk'.fp.gen = bundle.gen /\ disk'.gen = disk.gen
            BY <1>1, <1>4 DEF WithFingerprint, PersistedState, Fingerprint
      <2>2. disk.gen = bundle.gen
            BY <1>4 DEF SafetyInv, Handover, Recorded
      <2> QED BY <1>1, <2>1, <2>2 DEF EtagInv
<1>5. CASE pc = "pin" /\ disk' = WithPin(disk, bundle)
      <2>1. disk'.fp = disk.fp /\ disk'.gen = disk.gen
            BY <1>1, <1>5 DEF WithPin, PersistedState
      <2> QED BY <2>1 DEF EtagInv
<1> QED BY <1>2, <1>3, <1>4, <1>5, DiskStep

\* Wherever persist_after_apply is cut short, the ETag on disk is at most too
\* old; and with an honest server the bundle it names is the one sshd trusts,
\* unless sshd already trusts a newer one.
THEOREM RecordedIsInstalled == Spec => []RecordedBundleInstalled
<1>1. Init => EtagInv
      BY DEF Init, EtagInv
<1>2. EtagInv /\ HonestInv => RecordedBundleInstalled
      BY DEF EtagInv, HonestInv, RecordedBundleInstalled
<1> QED BY <1>1, <1>2, EtagStep, SafetyInvariant, HonestInvariant, PTL DEF Spec
-----------------------------------------------------------------------------
(* CaBundle.  Vec::sort_by, as ranking: an entry's place is the number of   *)
(* entries that precede it.  Places are distinct, so on the finite set of   *)
(* positions they are a permutation, for lists of every length and without  *)
(* induction.                                                               *)

\* An entry of a list.
LEMMA EntryTypes ==
    ASSUME NEW keys \in Seq(KeyPool)
    PROVE  /\ Len(keys) \in Nat /\ DOMAIN keys = 1..Len(keys)
           /\ IsFiniteSet(DOMAIN keys) /\ Cardinality(DOMAIN keys) = Len(keys)
           /\ \A i \in DOMAIN keys : i \in Nat /\ keys[i] \in KeyPool /\ keys[i].id \in Nat
<1>1. /\ Len(keys) \in Nat /\ DOMAIN keys = 1..Len(keys)
      /\ \A i \in DOMAIN keys : i \in Nat /\ keys[i] \in KeyPool
      OBVIOUS
<1>2. IsFiniteSet(1..Len(keys)) /\ Cardinality(1..Len(keys)) = Len(keys)
      BY <1>1, FS_Interval
<1> QED BY <1>1, <1>2, BundleAssumption

\* Precedence is a strict total order of the entries of a list.
LEMMA PrecedenceIsTotal ==
    ASSUME NEW keys \in Seq(KeyPool), NEW i \in DOMAIN keys, NEW j \in DOMAIN keys
    PROVE  /\ ~Precedes(keys, i, i)
           /\ i # j => Precedes(keys, i, j) \/ Precedes(keys, j, i)
           /\ \A k \in DOMAIN keys :
                 Precedes(keys, i, j) /\ Precedes(keys, j, k) => Precedes(keys, i, k)
<1>1. \A k \in DOMAIN keys : k \in Nat /\ keys[k].id \in Nat
      BY EntryTypes
<1> QED BY <1>1 DEF Precedes

\* An entry's place is one of the list's, and after the place of every entry
\* that precedes it.
LEMMA Places ==
    ASSUME NEW keys \in Seq(KeyPool)
    PROVE  /\ \A i \in DOMAIN keys : Place(keys, i) \in DOMAIN keys
           /\ \A i, j \in DOMAIN keys : Precedes(keys, i, j) => Place(keys, i) < Place(keys, j)
<1> DEFINE D == DOMAIN keys
           B(i) == {k \in D : Precedes(keys, k, i)}
<1>0. IsFiniteSet(D) /\ Cardinality(D) = Len(keys) /\ D = 1..Len(keys) /\ Len(keys) \in Nat
      BY EntryTypes
<1>1. ASSUME NEW i \in D
      PROVE  IsFiniteSet(B(i)) /\ Cardinality(B(i)) \in Nat /\ Cardinality(B(i)) < Len(keys)
      <2>1. B(i) \in SUBSET D /\ i \notin B(i)
            BY PrecedenceIsTotal
      <2>2. /\ IsFiniteSet(B(i)) /\ Cardinality(B(i)) <= Cardinality(D)
            /\ Cardinality(D) = Cardinality(B(i)) => D = B(i)
            BY <1>0, <2>1, FS_Subset
      <2>3. Cardinality(B(i)) \in Nat
            BY <2>2, FS_CardinalityType
      <2> QED BY <1>0, <2>1, <2>2, <2>3
<1>2. ASSUME NEW i \in D, NEW j \in D, Precedes(keys, i, j)
      PROVE  Cardinality(B(i)) < Cardinality(B(j))
      <2>1. B(i) \in SUBSET B(j) /\ i \in B(j) /\ i \notin B(i)
            BY <1>2, PrecedenceIsTotal
      <2>2. /\ Cardinality(B(i)) <= Cardinality(B(j))
            /\ Cardinality(B(j)) = Cardinality(B(i)) => B(j) = B(i)
            BY <1>1, <2>1, FS_Subset
      <2>3. Cardinality(B(i)) \in Nat /\ Cardinality(B(j)) \in Nat
            BY <1>1
      <2>4. B(i) # B(j)
            BY <2>1
      <2> HIDE DEF B
      <2> QED BY <2>2, <2>3, <2>4
<1>3. \A i \in D : Place(keys, i) = Cardinality(B(i)) + 1
      BY DEF Place
<1> HIDE DEF B
<1> QED BY <1>0, <1>1, <1>2, <1>3

\* The order of the entries, as a function from places to entries.
Order(keys) == [n \in DOMAIN keys |-> CHOOSE i \in DOMAIN keys : Place(keys, i) = n]

\* KeysById permutes the list: every place is taken by one entry.
LEMMA OrderIsPermutation ==
    ASSUME NEW keys \in Seq(KeyPool)
    PROVE  /\ Order(keys) \in Bijection(DOMAIN keys, DOMAIN keys)
           /\ \A n \in DOMAIN keys : /\ Order(keys)[n] \in DOMAIN keys
                                     /\ Place(keys, Order(keys)[n]) = n
                                     /\ KeysById(keys)[n] = keys[Order(keys)[n]]
<1> DEFINE D == DOMAIN keys
           p == [i \in D |-> Place(keys, i)]
<1>0. IsFiniteSet(D) /\ D = 1..Len(keys) /\ Len(keys) \in Nat
      BY EntryTypes
<1>1. p \in [D -> D]
      BY Places
<1>2. ASSUME NEW i \in D, NEW j \in D, Place(keys, i) = Place(keys, j)
      PROVE  i = j
      <2>1. Place(keys, i) \in Nat /\ Place(keys, j) \in Nat
            BY <1>0, Places
      <2>2. ~Precedes(keys, i, j) /\ ~Precedes(keys, j, i)
            BY <1>2, <2>1, Places
      <2> QED BY <2>2, PrecedenceIsTotal
<1>3. p \in Injection(D, D)
      BY <1>1, <1>2 DEF Injection, IsInjective
<1>4. p \in Surjection(D, D)
      BY <1>0, <1>3, FS_Injection
<1>5. \A n \in D : \E i \in D : Place(keys, i) = n
      BY <1>4 DEF Surjection
<1>6. \A n \in D : Order(keys)[n] \in D /\ Place(keys, Order(keys)[n]) = n
      BY <1>5 DEF Order
<1>7. Order(keys) \in [D -> D]
      BY <1>6 DEF Order
<1>8. Order(keys) \in Injection(D, D)
      <2>1. \A m, n \in D : Order(keys)[m] = Order(keys)[n] => m = n
            BY <1>6
      <2> QED BY <1>7, <2>1 DEF Injection, IsInjective
<1>9. Order(keys) \in Bijection(D, D)
      <2>1. Order(keys) \in Surjection(D, D)
            BY <1>0, <1>8, FS_Injection
      <2> QED BY <1>8, <2>1 DEF Bijection
<1>10. \A n \in D : KeysById(keys)[n] = keys[Order(keys)[n]]
      BY DEF KeysById, Order
<1> QED BY <1>6, <1>9, <1>10

\* KeysById is a list of the same entries, in the order of their ids.
LEMMA KeysByIdSorts ==
    ASSUME NEW keys \in Seq(KeyPool)
    PROVE  /\ DOMAIN KeysById(keys) = DOMAIN keys
           /\ \A n \in DOMAIN keys : /\ KeysById(keys)[n] \in KeyPool
                                     /\ KeysById(keys)[n].id \in Nat
                                     /\ \E i \in DOMAIN keys : KeysById(keys)[n] = keys[i]
           /\ \A m, n \in DOMAIN keys : m < n => KeysById(keys)[m].id <= KeysById(keys)[n].id
<1>1. \A n \in DOMAIN keys : /\ Order(keys)[n] \in DOMAIN keys
                             /\ Place(keys, Order(keys)[n]) = n
                             /\ KeysById(keys)[n] = keys[Order(keys)[n]]
      BY OrderIsPermutation
<1>2. \A n \in DOMAIN keys : n \in Nat /\ keys[n] \in KeyPool /\ keys[n].id \in Nat
      BY EntryTypes
<1>3. ASSUME NEW m \in DOMAIN keys, NEW n \in DOMAIN keys, m < n
      PROVE  KeysById(keys)[m].id <= KeysById(keys)[n].id
      <2>1. PICK i \in DOMAIN keys : KeysById(keys)[m] = keys[i] /\ Place(keys, i) = m
            BY <1>1
      <2>2. PICK j \in DOMAIN keys : KeysById(keys)[n] = keys[j] /\ Place(keys, j) = n
            BY <1>1
      <2>3. ~Precedes(keys, j, i)
            BY <1>2, <1>3, <2>1, <2>2, Places
      <2> QED BY <1>2, <2>1, <2>2, <2>3 DEF Precedes
<1>4. DOMAIN KeysById(keys) = DOMAIN keys
      BY DEF KeysById
<1> QED BY <1>1, <1>2, <1>3, <1>4

\* The canonical encoding identifies a list up to the order of its entries.
LEMMA CanonicalKeysIdentify ==
    ASSUME NEW a \in Seq(KeyPool), NEW b \in Seq(KeyPool), CanonicalKeys(a) = CanonicalKeys(b)
    PROVE  /\ Len(a) = Len(b) /\ KeysById(a) = KeysById(b)
           /\ \A x \in KeyPool : Cardinality({i \in DOMAIN a : a[i] = x})
                               = Cardinality({i \in DOMAIN b : b[i] = x})
<1>1. DOMAIN a = DOMAIN b /\ Len(a) = Len(b)
      <2>1. DOMAIN CanonicalKeys(a) = DOMAIN a /\ DOMAIN CanonicalKeys(b) = DOMAIN b
            BY DEF CanonicalKeys
      <2>2. Cardinality(DOMAIN a) = Len(a) /\ Cardinality(DOMAIN b) = Len(b)
            BY EntryTypes
      <2>3. DOMAIN a = DOMAIN b
            BY <2>1
      <2> QED BY <2>2, <2>3
<1>2. ASSUME NEW n \in DOMAIN a
      PROVE  KeysById(a)[n] = KeysById(b)[n]
      <2>1. PICK x \in KeyPool, y \in KeyPool : x = KeysById(a)[n] /\ y = KeysById(b)[n]
            BY <1>1, KeysByIdSorts
      <2>2. <<x.id, Line(x)>> = <<y.id, Line(y)>>
            BY <1>1, <2>1 DEF CanonicalKeys
      <2>3. x.id = y.id /\ x.algo = y.algo /\ x.blob = y.blob /\ x.comment = y.comment
            BY <2>2 DEF Line
      <2> QED BY <2>1, <2>3, BundleAssumption
<1>3. KeysById(a) = KeysById(b)
      BY <1>1, <1>2 DEF KeysById
<1>4. ASSUME NEW keys \in Seq(KeyPool), NEW x
      PROVE  /\ IsFiniteSet({n \in DOMAIN keys : KeysById(keys)[n] = x})
             /\ Cardinality({i \in DOMAIN keys : keys[i] = x})
                  = Cardinality({n \in DOMAIN keys : KeysById(keys)[n] = x})
      <2> DEFINE D == DOMAIN keys
                 S == {n \in D : KeysById(keys)[n] = x}
                 T == {i \in D : keys[i] = x}
                 f == [n \in S |-> Order(keys)[n]]
      <2>1. /\ Order(keys) \in Bijection(D, D)
            /\ \A n \in D : Order(keys)[n] \in D /\ KeysById(keys)[n] = keys[Order(keys)[n]]
            BY OrderIsPermutation
      <2>2. IsFiniteSet(S)
            <3>1. S \in SUBSET D
                  OBVIOUS
            <3> QED BY <3>1, EntryTypes, FS_Subset
      <2>3. f \in [S -> T]
            BY <2>1
      <2>4. \A m, n \in S : f[m] = f[n] => m = n
            BY <2>1 DEF Bijection, Injection, IsInjective
      <2>5. \A i \in T : \E n \in S : f[n] = i
            <3> TAKE i \in T
            <3>1. PICK n \in D : Order(keys)[n] = i
                  BY <2>1 DEF Bijection, Surjection
            <3> QED BY <2>1, <3>1
      <2>6. f \in Bijection(S, T)
            BY <2>3, <2>4, <2>5 DEF Bijection, Injection, Surjection, IsInjective
      <2>7. ExistsBijection(S, T)
            BY <2>6 DEF ExistsBijection
      <2> QED BY <2>2, <2>7, FS_Bijection
<1>5. ASSUME NEW x \in KeyPool
      PROVE  Cardinality({i \in DOMAIN a : a[i] = x}) = Cardinality({i \in DOMAIN b : b[i] = x})
      <2>1. {n \in DOMAIN a : KeysById(a)[n] = x} = {n \in DOMAIN b : KeysById(b)[n] = x}
            BY <1>1, <1>3
      <2>2. Cardinality({i \in DOMAIN a : a[i] = x})
              = Cardinality({n \in DOMAIN a : KeysById(a)[n] = x})
            BY <1>4
      <2>3. Cardinality({i \in DOMAIN b : b[i] = x})
              = Cardinality({n \in DOMAIN b : KeysById(b)[n] = x})
            BY <1>4
      <2> QED BY <2>1, <2>2, <2>3
<1> QED BY <1>1, <1>3, <1>5
-----------------------------------------------------------------------------
(* The order of the rules.                                                  *)

LEMMA LeastNumber ==
    ASSUME NEW S \in SUBSET Nat, S # {}
    PROVE  \E i \in S : \A j \in S : i <= j
<1>1. PICK i \in S : \A j \in S : ~(<<j, i>> \in OpToRel(<, Nat))
      BY NatLessThanWellFounded, WFMin
<1>2. \A j \in S : ~(j < i)
      BY <1>1 DEF OpToRel
<1> QED BY <1>2

\* The error of rules that do not all pass is that of the first one that fails.
LEMMA FirstErrorFacts ==
    ASSUME NEW rules, DOMAIN rules \subseteq Nat, ~Passes(rules)
    PROVE  \E i \in DOMAIN rules : /\ FirstError(rules) = rules[i].error
                                   /\ \A j \in DOMAIN rules : rules[j].fails => i <= j
<1> DEFINE failing == {i \in DOMAIN rules : rules[i].fails}
<1>1. failing \in SUBSET Nat /\ failing # {}
      BY DEF Passes
<1>2. \E i \in failing : \A j \in failing : i <= j
      BY <1>1, LeastNumber
<1>3. PICK i : i = CHOOSE k \in failing : \A j \in failing : k <= j
      OBVIOUS
<1>4. i \in failing /\ \A j \in failing : i <= j
      BY <1>2, <1>3
<1>5. FirstError(rules) = rules[i].error
      BY <1>3 DEF FirstError
<1> QED BY <1>4, <1>5

AuthenticationErrors ==
    {"UnsupportedVersion", "UnsupportedSignatureAlgorithm", "SignatureInvalid",
     "SigningKeyMismatch", "MissingFingerprint"}

Errors == AuthenticationErrors \cup ContentErrors

\* The rules are sequences of rules, and those of authentication name their errors.
LEMMA RuleLists ==
    ASSUME NEW raw, NEW at, NEW pin
    PROVE  /\ AuthenticationRules(raw, pin) \in Seq([fails : BOOLEAN, error : Errors])
           /\ ContentRules(raw) \in Seq([fails : BOOLEAN, error : Errors])
           /\ WindowRules(raw, at) \in Seq([fails : BOOLEAN, error : Errors])
           /\ \A i \in DOMAIN AuthenticationRules(raw, pin) :
                 AuthenticationRules(raw, pin)[i].error \in AuthenticationErrors
<1>1. AuthenticationRules(raw, pin) \in Seq([fails : BOOLEAN, error : Errors])
      BY DEF AuthenticationRules, Rule, Errors, AuthenticationErrors
<1>2. ContentRules(raw) \in Seq([fails : BOOLEAN, error : Errors])
      BY DEF ContentRules, Rule, Errors, ContentErrors
<1>3. WindowRules(raw, at) \in Seq([fails : BOOLEAN, error : Errors])
      <2>1. CASE Absent \in {raw.created, raw.expires}
            <3>1. WindowRules(raw, at) = << Rule(TRUE, "InvalidTimestamp") >>
                  BY <2>1 DEF WindowRules
            <3> QED BY <3>1 DEF Rule, Errors, ContentErrors
      <2>2. CASE Absent \notin {raw.created, raw.expires}
            <3>1. WindowRules(raw, at) = << Rule(raw.expires <= raw.created, "InvalidTimestamp"),
                                            Rule(at >= raw.expires, "Expired"),
                                            Rule(raw.created > at + Grace, "NotYetValid") >>
                  BY <2>2 DEF WindowRules
            <3> QED BY <3>1 DEF Rule, Errors, ContentErrors
      <2> QED BY <2>1, <2>2
<1>4. \A i \in DOMAIN AuthenticationRules(raw, pin) :
         AuthenticationRules(raw, pin)[i].error \in AuthenticationErrors
      BY DEF AuthenticationRules, Rule, AuthenticationErrors
<1> QED BY <1>1, <1>2, <1>3, <1>4

\* from_response says Ok only when every rule passes, and complains of content
\* only when the envelope is authentic.
LEMMA JudgedInOrder ==
    ASSUME NEW raw, NEW at, NEW pin
    PROVE  /\ FromResponse(raw, at, pin) = "Ok" =>
                 /\ Passes(AuthenticationRules(raw, pin))
                 /\ Passes(ContentRules(raw))
                 /\ Passes(WindowRules(raw, at))
           /\ FromResponse(raw, at, pin) \in ContentErrors => Passes(AuthenticationRules(raw, pin))
<1> DEFINE A == AuthenticationRules(raw, pin)
           C == ContentRules(raw)
           W == WindowRules(raw, at)
           rules == A \o C \o W
           Rules == [fails : BOOLEAN, error : Errors]
<1>1. A \in Seq(Rules) /\ C \in Seq(Rules) /\ W \in Seq(Rules)
      BY RuleLists
<1>2. \A i \in DOMAIN A : A[i].error \in AuthenticationErrors
      BY RuleLists
<1>3. FromResponse(raw, at, pin) = IF Passes(rules) THEN "Ok" ELSE FirstError(rules)
      BY DEF FromResponse
<1>4. "Ok" \notin Errors /\ AuthenticationErrors \cap ContentErrors = {}
      BY DEF Errors, AuthenticationErrors, ContentErrors
<1> HIDE DEF A, C, W
<1>5. /\ rules \in Seq(Rules) /\ Len(rules) = Len(A) + Len(C) + Len(W)
      /\ Len(A) \in Nat /\ Len(C) \in Nat /\ Len(W) \in Nat
      /\ DOMAIN A = 1..Len(A) /\ DOMAIN C = 1..Len(C) /\ DOMAIN W = 1..Len(W)
      BY <1>1
<1>6. /\ \A i \in DOMAIN A : i \in DOMAIN rules /\ rules[i] = A[i]
      /\ \A i \in DOMAIN C : Len(A) + i \in DOMAIN rules /\ rules[Len(A) + i] = C[i]
      /\ \A i \in DOMAIN W : /\ Len(A) + Len(C) + i \in DOMAIN rules
                             /\ rules[Len(A) + Len(C) + i] = W[i]
      BY <1>1, <1>5
<1> HIDE DEF rules
<1>7. DOMAIN rules \subseteq Nat /\ \A i \in DOMAIN rules : rules[i].error \in Errors
      <2>1. \A r \in Rules : r.error \in Errors
            OBVIOUS
      <2> HIDE DEF Rules
      <2>2. DOMAIN rules \subseteq Nat /\ \A i \in DOMAIN rules : rules[i] \in Rules
            BY <1>5
      <2> QED BY <2>1, <2>2
<1>8. CASE Passes(rules)
      <2>1. Passes(A) /\ Passes(C) /\ Passes(W)
            BY <1>6, <1>8 DEF Passes
      <2> QED BY <1>3, <1>8, <2>1 DEF A, C, W
<1>9. CASE ~Passes(rules)
      <2>1. PICK i \in DOMAIN rules : /\ FirstError(rules) = rules[i].error
                                      /\ \A j \in DOMAIN rules : rules[j].fails => i <= j
            BY <1>7, <1>9, FirstErrorFacts
      <2>2. FirstError(rules) # "Ok"
            BY <1>4, <1>7, <2>1
      <2>3. ASSUME ~Passes(A) PROVE FirstError(rules) \notin ContentErrors
            <3>1. PICK j \in DOMAIN A : A[j].fails
                  BY <2>3 DEF Passes
            <3>2. i <= j
                  BY <1>6, <2>1, <3>1
            <3>3. i \in DOMAIN A
                  BY <1>5, <1>7, <3>1, <3>2
            <3> QED BY <1>2, <1>4, <1>6, <2>1, <3>3
      <2> QED BY <1>3, <1>9, <2>2, <2>3 DEF A
<1> QED BY <1>8, <1>9

\* What each group of rules asks.
LEMMA AuthenticationPasses ==
    ASSUME NEW raw, NEW pin, Passes(AuthenticationRules(raw, pin))
    PROVE  /\ raw.version = SupportedVersion /\ raw.fp # Absent
           /\ pin # Absent => pin = raw.signingKey
           /\ VerifySignature(raw)
<1>1. DOMAIN AuthenticationRules(raw, pin) = 1..6
      BY DEF AuthenticationRules
<1>2. \A i \in 1..6 : ~AuthenticationRules(raw, pin)[i].fails
      BY <1>1 DEF Passes
<1>3. /\ ~AuthenticationRules(raw, pin)[1].fails /\ ~AuthenticationRules(raw, pin)[4].fails
      /\ ~AuthenticationRules(raw, pin)[5].fails /\ ~AuthenticationRules(raw, pin)[6].fails
      BY <1>2
<1> QED BY <1>3 DEF AuthenticationRules, Rule

LEMMA ContentPasses ==
    ASSUME NEW raw, Passes(ContentRules(raw))
    PROVE  /\ ~(Len(raw.keys) < 1) /\ ~(Len(raw.keys) > MaxKeys)
           /\ \A i \in DOMAIN raw.keys : ValidateEd25519PublicKey(raw.keys[i])
           /\ \A i \in Adjacent(raw.keys) : KeysById(raw.keys)[i].id # KeysById(raw.keys)[i + 1].id
           /\ raw.fp = ComputeFingerprint(raw.gen, raw.keys)
<1>1. DOMAIN ContentRules(raw) = 1..7
      BY DEF ContentRules
<1>2. \A i \in 1..7 : ~ContentRules(raw)[i].fails
      BY <1>1 DEF Passes
<1>3. ~ContentRules(raw)[2].fails /\ ~ContentRules(raw)[3].fails
      BY <1>2
<1>4. ~ContentRules(raw)[4].fails /\ ~ContentRules(raw)[5].fails /\ ~ContentRules(raw)[7].fails
      BY <1>2
<1>5. ~(Len(raw.keys) < 1) /\ ~(Len(raw.keys) > MaxKeys)
      BY <1>3 DEF ContentRules, Rule
<1>6. /\ \A i \in DOMAIN raw.keys : ValidateEd25519PublicKey(raw.keys[i])
      /\ \A i \in Adjacent(raw.keys) : KeysById(raw.keys)[i].id # KeysById(raw.keys)[i + 1].id
      BY <1>4 DEF ContentRules, Rule
<1>7. raw.fp = ComputeFingerprint(raw.gen, raw.keys)
      BY <1>4 DEF ContentRules, Rule, FingerprintsEqual
<1> QED BY <1>5, <1>6, <1>7

LEMMA RuleFails ==
    ASSUME NEW p \in BOOLEAN, NEW e, ~Rule(p, e).fails
    PROVE  ~p
BY DEF Rule

LEMMA WindowPasses ==
    ASSUME NEW raw, NEW at \in Nat, raw.created \in Nat \cup {Absent}, raw.expires \in Nat,
           Passes(WindowRules(raw, at))
    PROVE  /\ raw.created # Absent /\ raw.expires # Absent
           /\ ~(at >= raw.expires) /\ ~(raw.created > at + Grace)
<1>1. CASE Absent \in {raw.created, raw.expires}
      <2>1. WindowRules(raw, at) = << Rule(TRUE, "InvalidTimestamp") >>
            BY <1>1 DEF WindowRules
      <2>2. 1 \in DOMAIN WindowRules(raw, at) /\ WindowRules(raw, at)[1] = Rule(TRUE, "InvalidTimestamp")
            BY <2>1
      <2>3. ~Rule(TRUE, "InvalidTimestamp").fails
            BY <2>2 DEF Passes
      <2> QED BY <2>3 DEF Rule
<1>2. CASE Absent \notin {raw.created, raw.expires}
      <2>1. WindowRules(raw, at) = << Rule(raw.expires <= raw.created, "InvalidTimestamp"),
                                      Rule(at >= raw.expires, "Expired"),
                                      Rule(raw.created > at + Grace, "NotYetValid") >>
            BY <1>2 DEF WindowRules
      <2>2. DOMAIN WindowRules(raw, at) = 1..3
            BY <2>1
      <2>3. ~WindowRules(raw, at)[2].fails /\ ~WindowRules(raw, at)[3].fails
            BY <2>2 DEF Passes
      <2>4. /\ WindowRules(raw, at)[2] = Rule(at >= raw.expires, "Expired")
            /\ WindowRules(raw, at)[3] = Rule(raw.created > at + Grace, "NotYetValid")
            BY <2>1
      <2>5. (at >= raw.expires) \in BOOLEAN /\ (raw.created > at + Grace) \in BOOLEAN
            BY <1>2, BundleAssumption
      <2>6. ~(at >= raw.expires)
            <3>1. ~Rule(at >= raw.expires, "Expired").fails
                  BY <2>3, <2>4
            <3> QED BY <2>5, <3>1, RuleFails, Zenon
      <2>7. ~(raw.created > at + Grace)
            <3>1. ~Rule(raw.created > at + Grace, "NotYetValid").fails
                  BY <2>3, <2>4
            <3> QED BY <2>5, <3>1, RuleFails, Zenon
      <2> QED BY <1>2, <2>6, <2>7
<1> QED BY <1>1, <1>2

-----------------------------------------------------------------------------
(* The envelope and its signatures.                                         *)

EnvelopeFields ==
    {"version", "gen", "fp", "created", "expires", "keys", "algorithm", "signingKey",
     "signature"}

IsEnvelope(e) ==
    /\ DOMAIN e = EnvelopeFields
    /\ e.keys \in Seq(KeyPool)
    /\ e.created \in Times \cup {Absent}
    /\ e.expires \in Times

\* A key has signed something with the payload p.
Vouched(k, p) == \E s \in signed : s.by = k /\ SigningPayload(s.envelope) = p

\* A signature is never made up: while the envelope changes under it, its
\* payload stays the one that its key has signed.
GenuineSignature ==
    /\ IsEnvelope(wire)
    /\ \A s \in signed : s.envelope.keys \in Seq(KeyPool)
    /\ wire.signature # Absent => Vouched(wire.signature.by, wire.signature.payload)

\* An accepted envelope passed every rule, and its payload was signed.
PassedRules ==
    \A a \in accepted :
        /\ IsEnvelope(a.envelope) /\ a.at \in Times
        /\ Passes(AuthenticationRules(a.envelope, expected))
        /\ Passes(ContentRules(a.envelope))
        /\ Passes(WindowRules(a.envelope, a.at))
        /\ Vouched(a.envelope.signingKey, SigningPayload(a.envelope))

BundleInv == GenuineSignature /\ PassedRules

\* An envelope whose signature verifies was signed by the key that it names.
LEMMA VerifiedIsVouched ==
    ASSUME GenuineSignature, VerifySignature(wire)
    PROVE  Vouched(wire.signingKey, SigningPayload(wire))
BY DEF GenuineSignature, VerifySignature

\* The signed payload says what the envelope says, up to the order of its keys.
LEMMA PayloadIsContent ==
    ASSUME NEW a, NEW b, a.keys \in Seq(KeyPool), b.keys \in Seq(KeyPool),
           SigningPayload(a) = SigningPayload(b)
    PROVE  SameContent(a, b)
<1>1. /\ a.version = b.version /\ a.gen = b.gen /\ a.fp = b.fp
      /\ a.created = b.created /\ a.expires = b.expires
      /\ CanonicalKeys(a.keys) = CanonicalKeys(b.keys)
      BY DEF SigningPayload
<1>2. /\ Len(a.keys) = Len(b.keys)
      /\ \A x \in KeyPool : Cardinality({i \in DOMAIN a.keys : a.keys[i] = x})
                          = Cardinality({i \in DOMAIN b.keys : b.keys[i] = x})
      BY <1>1, CanonicalKeysIdentify
<1> QED BY <1>1, <1>2 DEF SameContent

\* What is vouched for was signed with the same content.
LEMMA VouchedWasSigned ==
    ASSUME NEW k, NEW e, e.keys \in Seq(KeyPool), Vouched(k, SigningPayload(e)),
           \A s \in signed : s.envelope.keys \in Seq(KeyPool)
    PROVE  \E s \in signed : s.by = k /\ SameContent(s.envelope, e)
<1>1. PICK s \in signed : s.by = k /\ SigningPayload(s.envelope) = SigningPayload(e)
      BY DEF Vouched
<1>2. SameContent(s.envelope, e)
      BY <1>1, PayloadIsContent
<1> QED BY <1>1, <1>2

LEMMA BundleInitInv == BundleInit => BundleInv
<1> SUFFICES ASSUME BundleInit PROVE BundleInv
    OBVIOUS
<1>1. PICK keys \in KeyLists, c \in {0, MaxTime - 1} :
         wire = [version |-> SupportedVersion, gen |-> 1,
                 fp |-> ComputeFingerprint(1, keys), created |-> c,
                 expires |-> MaxTime, keys |-> keys,
                 algorithm |-> SignatureAlgorithm,
                 signingKey |-> Absent, signature |-> Absent]
      BY DEF BundleInit
<1>2. DOMAIN wire = EnvelopeFields /\ wire.keys = keys /\ wire.signature = Absent
      BY <1>1 DEF EnvelopeFields
<1>3. wire.created = c /\ wire.expires = MaxTime
      BY <1>1
<1>4. IsEnvelope(wire)
      BY <1>2, <1>3, BundleAssumption DEF IsEnvelope, Times
<1> QED BY <1>2, <1>4 DEF BundleInit, BundleInv, GenuineSignature, PassedRules

\* An edit leaves an envelope, with the signature it had or with none.
LEMMA EditedEnvelope ==
    ASSUME IsEnvelope(wire), Edit
    PROVE  /\ IsEnvelope(wire')
           /\ wire'.signature \in {wire.signature, Absent}
<1>1. CASE wire' \in {[wire EXCEPT !.version = 2], [wire EXCEPT !.version = Absent],
                      [wire EXCEPT !.algorithm = Absent], [wire EXCEPT !.fp = Absent],
                      [wire EXCEPT !.signature = Absent], [wire EXCEPT !.created = Absent],
                      [wire EXCEPT !.signingKey = Absent]}
      BY <1>1 DEF IsEnvelope, EnvelopeFields
<1>2. ASSUME NEW g \in {0, 2}, wire' = [wire EXCEPT !.gen = g]
      PROVE  IsEnvelope(wire') /\ wire'.signature = wire.signature
      BY <1>2 DEF IsEnvelope, EnvelopeFields
<1>3. ASSUME NEW k \in SigningKeys, wire' = [wire EXCEPT !.signingKey = k]
      PROVE  IsEnvelope(wire') /\ wire'.signature = wire.signature
      BY <1>3 DEF IsEnvelope, EnvelopeFields
<1>4. ASSUME NEW t \in Times, wire' = [wire EXCEPT !.expires = t]
      PROVE  IsEnvelope(wire') /\ wire'.signature = wire.signature
      BY <1>4 DEF IsEnvelope, EnvelopeFields
<1>5. CASE wire' = [wire EXCEPT !.fp = ComputeFingerprint(wire.gen, wire.keys)]
      BY <1>5 DEF IsEnvelope, EnvelopeFields
<1>6. ASSUME NEW q \in Seq(KeyPool), wire' = [wire EXCEPT !.keys = q]
      PROVE  IsEnvelope(wire') /\ wire'.signature = wire.signature
      BY <1>6 DEF IsEnvelope, EnvelopeFields
<1>7. CASE wire' = [wire EXCEPT !.keys = [i \in 1..Len(@) |-> @[Len(@) - i + 1]]]
      <2> DEFINE q == [i \in 1..Len(wire.keys) |-> wire.keys[Len(wire.keys) - i + 1]]
      <2>1. wire.keys \in Seq(KeyPool)
            BY DEF IsEnvelope
      <2>2. q \in Seq(KeyPool)
            BY <2>1
      <2>3. wire' = [wire EXCEPT !.keys = q]
            BY <1>7
      <2> QED BY <1>6, <2>2, <2>3
<1>8. ASSUME NEW i \in DOMAIN wire.keys, NEW k \in KeyPool, wire' = [wire EXCEPT !.keys[i] = k]
      PROVE  IsEnvelope(wire') /\ wire'.signature = wire.signature
      <2> DEFINE q == [wire.keys EXCEPT ![i] = k]
      <2>1. wire.keys \in Seq(KeyPool)
            BY DEF IsEnvelope
      <2>2. q \in Seq(KeyPool)
            BY <2>1
      <2>3. wire' = [wire EXCEPT !.keys = q]
            BY <1>8
      <2> QED BY <1>6, <2>2, <2>3
<1> QED BY <1>1, <1>2, <1>3, <1>4, <1>5, <1>7, <1>8 DEF Edit

LEMMA BundleStep == BundleInv /\ [BundleNext]_bundleVars => BundleInv'
<1> SUFFICES ASSUME BundleInv, [BundleNext]_bundleVars PROVE BundleInv'
    OBVIOUS
<1>0. GenuineSignature /\ PassedRules
      BY DEF BundleInv
<1>1. ASSUME accepted' = accepted, expected' = expected, signed \subseteq signed'
      PROVE  PassedRules'
      BY <1>0, <1>1 DEF PassedRules, Vouched
<1>2. CASE Sign
      <2>1. PICK k \in SigningKeys :
               /\ wire' = [wire EXCEPT !.signature = [by |-> k, payload |-> SigningPayload(wire)],
                                       !.signingKey = k]
               /\ signed' = signed \cup {[by |-> k, envelope |-> wire]}
            BY <1>2 DEF Sign
      <2>2. /\ wire'.signature = [by |-> k, payload |-> SigningPayload(wire)]
            /\ IsEnvelope(wire')
            BY <1>0, <2>1 DEF GenuineSignature, IsEnvelope, EnvelopeFields
      <2>3. \E s \in signed' : s.by = k /\ s.envelope = wire
            <3>1. [by |-> k, envelope |-> wire] \in signed'
                  BY <2>1
            <3> QED BY <3>1
      <2>4. wire'.signature.by = k /\ wire'.signature.payload = SigningPayload(wire)
            BY <2>2
      <2>5. Vouched(wire.signature.by, wire.signature.payload)'
            BY <2>3, <2>4 DEF Vouched
      <2>6. \A t \in signed' : t.envelope.keys \in Seq(KeyPool)
            BY <1>0, <2>1 DEF GenuineSignature, IsEnvelope
      <2>7. GenuineSignature'
            BY <2>2, <2>5, <2>6 DEF GenuineSignature
      <2>8. accepted' = accepted /\ expected' = expected /\ signed \subseteq signed'
            BY <1>2, <2>1 DEF Sign
      <2> QED BY <1>1, <2>7, <2>8 DEF BundleInv
<1>3. CASE Edit
      <2>1. IsEnvelope(wire') /\ wire'.signature \in {wire.signature, Absent}
            BY <1>0, <1>3, EditedEnvelope DEF GenuineSignature
      <2>2. signed' = signed /\ accepted' = accepted /\ expected' = expected
            BY <1>3 DEF Edit
      <2>3. GenuineSignature'
            BY <1>0, <2>1, <2>2 DEF GenuineSignature, Vouched
      <2> QED BY <1>1, <2>2, <2>3 DEF BundleInv
<1>4. CASE Deliver
      <2>1. wire' = wire /\ signed' = signed /\ expected' = expected
            BY <1>4 DEF Deliver
      <2>2. GenuineSignature'
            BY <1>0, <2>1 DEF GenuineSignature, Vouched
      <2>3. PICK at \in Times : /\ verdict' = FromResponse(wire, at, expected)
                                /\ accepted' = IF verdict' = "Ok"
                                               THEN accepted \cup {[envelope |-> wire, at |-> at]}
                                               ELSE accepted
            BY <1>4 DEF Deliver
      <2>4. CASE verdict' = "Ok"
            <3>1. /\ Passes(AuthenticationRules(wire, expected))
                  /\ Passes(ContentRules(wire))
                  /\ Passes(WindowRules(wire, at))
                  BY <2>3, <2>4, JudgedInOrder
            <3>2. VerifySignature(wire)
                  BY <3>1, AuthenticationPasses
            <3>3. Vouched(wire.signingKey, SigningPayload(wire))
                  BY <1>0, <3>2, VerifiedIsVouched
            <3>4. IsEnvelope(wire)
                  BY <1>0 DEF GenuineSignature
            <3>5. accepted' = accepted \cup {[envelope |-> wire, at |-> at]}
                  BY <2>3, <2>4
            <3>6. PassedRules'
                  BY <1>0, <2>1, <3>1, <3>3, <3>4, <3>5 DEF PassedRules, Vouched
            <3> QED BY <2>2, <3>6 DEF BundleInv
      <2>5. CASE verdict' # "Ok"
            BY <1>1, <2>1, <2>2, <2>3, <2>5 DEF BundleInv
      <2> QED BY <2>4, <2>5
<1>5. CASE UNCHANGED bundleVars
      <2>1. /\ wire' = wire /\ signed' = signed /\ accepted' = accepted
            /\ expected' = expected
            BY <1>5 DEF bundleVars
      <2>2. GenuineSignature'
            BY <1>0, <2>1 DEF GenuineSignature, Vouched
      <2> QED BY <1>1, <2>1, <2>2 DEF BundleInv
<1> QED BY <1>2, <1>3, <1>4, <1>5 DEF BundleNext

LEMMA BundleInvariant == BundleSpec => []BundleInv
<1> QED BY BundleInitInv, BundleStep, PTL DEF BundleSpec

\* The bundle that from_response takes is, field for field and whatever the
\* order of its keys, one that the key it names has signed; a pinned key is
\* the only one it takes (protocol/ca_bundle.rs, verify_signature).
THEOREM AcceptedIsAuthentic == BundleSpec => []AcceptedWasSigned
<1>1. BundleInv => AcceptedWasSigned
      <2> SUFFICES ASSUME BundleInv, NEW a \in accepted
                   PROVE  /\ \E s \in signed : s.by = a.envelope.signingKey
                                               /\ SameContent(s.envelope, a.envelope)
                          /\ expected # Absent => a.envelope.signingKey = expected
          BY DEF AcceptedWasSigned
      <2>1. /\ a.envelope.keys \in Seq(KeyPool)
            /\ Passes(AuthenticationRules(a.envelope, expected))
            /\ Vouched(a.envelope.signingKey, SigningPayload(a.envelope))
            BY DEF BundleInv, PassedRules, IsEnvelope
      <2>2. \A s \in signed : s.envelope.keys \in Seq(KeyPool)
            BY DEF BundleInv, GenuineSignature
      <2>3. \E s \in signed : s.by = a.envelope.signingKey /\ SameContent(s.envelope, a.envelope)
            BY <2>1, <2>2, VouchedWasSigned
      <2>4. expected # Absent => a.envelope.signingKey = expected
            BY <2>1, AuthenticationPasses
      <2> QED BY <2>3, <2>4
<1> QED BY <1>1, BundleInvariant, PTL

\* A delivery is faulted for its content only when that content was signed.
LEMMA ContentStep ==
    ASSUME BundleInv, [BundleNext]_bundleVars, verdict' \in ContentErrors
    PROVE  \/ verdict' = verdict
           \/ \E s \in signed : s.by = wire.signingKey /\ SameContent(s.envelope, wire)
<1>1. CASE Deliver
      <2>1. PICK at \in Times : verdict' = FromResponse(wire, at, expected)
            BY <1>1 DEF Deliver
      <2>2. VerifySignature(wire)
            BY <2>1, JudgedInOrder, AuthenticationPasses
      <2>3. GenuineSignature
            BY DEF BundleInv
      <2>4. Vouched(wire.signingKey, SigningPayload(wire))
            BY <2>2, <2>3, VerifiedIsVouched
      <2>5. wire.keys \in Seq(KeyPool) /\ \A s \in signed : s.envelope.keys \in Seq(KeyPool)
            BY <2>3 DEF GenuineSignature, IsEnvelope
      <2> QED BY <2>4, <2>5, VouchedWasSigned
<1>2. CASE Sign \/ Edit \/ UNCHANGED bundleVars
      BY <1>2 DEF Sign, Edit, bundleVars
<1> QED BY <1>1, <1>2 DEF BundleNext

\* "Authenticate first, then trust the content": from_response reports an error
\* about content only of an envelope whose signature it has verified.
THEOREM ContentIsAuthenticated == BundleSpec => ContentJudgedOnlyIfSigned
<1>1. BundleInv /\ [BundleNext]_bundleVars =>
         [verdict' \in ContentErrors /\ accepted' = accepted /\ wire' = wire =>
            \/ verdict' = verdict
            \/ \E s \in signed : s.by = wire.signingKey /\ SameContent(s.envelope, wire)]_bundleVars
      BY ContentStep
<1> QED BY <1>1, BundleInvariant, PTL DEF BundleSpec, ContentJudgedOnlyIfSigned

\* What an accepted envelope's fingerprint and keys are.
LEMMA AcceptedContent ==
    ASSUME BundleInv, NEW a \in accepted
    PROVE  /\ a.envelope.keys \in Seq(KeyPool)
           /\ a.envelope.version = SupportedVersion
           /\ a.envelope.fp = <<a.envelope.gen, CanonicalKeys(a.envelope.keys)>>
<1>1. /\ a.envelope.keys \in Seq(KeyPool)
      /\ Passes(AuthenticationRules(a.envelope, expected))
      /\ Passes(ContentRules(a.envelope))
      BY DEF BundleInv, PassedRules, IsEnvelope
<1>2. a.envelope.version = SupportedVersion
      BY <1>1, AuthenticationPasses
<1>3. a.envelope.fp = ComputeFingerprint(a.envelope.gen, a.envelope.keys)
      BY <1>1, ContentPasses
<1> QED BY <1>1, <1>2, <1>3 DEF ComputeFingerprint

\* Of any two envelopes that from_response takes, equal fingerprints mean equal
\* TrustedUserCAKeys bodies: what synchronize needs of the ETag to answer
\* "unchanged" without the helper.
THEOREM FingerprintIsFile == BundleSpec => []FingerprintIdentifiesFile
<1>1. BundleInv => FingerprintIdentifiesFile
      <2> SUFFICES ASSUME BundleInv, NEW a \in accepted, NEW b \in accepted,
                          a.envelope.fp = b.envelope.fp
                   PROVE  Render(a.envelope) = Render(b.envelope)
          BY DEF FingerprintIdentifiesFile
      <2>1. /\ a.envelope.keys \in Seq(KeyPool) /\ b.envelope.keys \in Seq(KeyPool)
            /\ a.envelope.version = b.envelope.version
            /\ a.envelope.fp = <<a.envelope.gen, CanonicalKeys(a.envelope.keys)>>
            /\ b.envelope.fp = <<b.envelope.gen, CanonicalKeys(b.envelope.keys)>>
            BY AcceptedContent
      <2>2. /\ a.envelope.gen = b.envelope.gen
            /\ CanonicalKeys(a.envelope.keys) = CanonicalKeys(b.envelope.keys)
            <3>1. <<a.envelope.gen, CanonicalKeys(a.envelope.keys)>>
                    = <<b.envelope.gen, CanonicalKeys(b.envelope.keys)>>
                  BY <2>1, Zenon
            <3> QED BY <3>1
      <2>3. /\ Len(a.envelope.keys) = Len(b.envelope.keys)
            /\ KeysById(a.envelope.keys) = KeysById(b.envelope.keys)
            BY <2>1, <2>2, CanonicalKeysIdentify
      <2>4. DOMAIN a.envelope.keys = DOMAIN b.envelope.keys
            BY <2>1, <2>3
      <2> QED BY <2>1, <2>2, <2>3, <2>4 DEF Render, ComputeFingerprint
<1> QED BY <1>1, BundleInvariant, PTL

\* In a sorted list whose neighbours differ, all differ: the check of
\* neighbours that follows the sort is enough to find every repeated key_id.
LEMMA NeighboursSuffice ==
    ASSUME NEW keys \in Seq(KeyPool),
           \A i \in Adjacent(keys) : KeysById(keys)[i].id # KeysById(keys)[i + 1].id,
           NEW m \in DOMAIN keys, NEW n \in DOMAIN keys, m < n
    PROVE  KeysById(keys)[m].id # KeysById(keys)[n].id
<1>1. DOMAIN keys = 1..Len(keys) /\ Len(keys) \in Nat
      BY EntryTypes
<1>2. m \in Adjacent(keys) /\ m + 1 \in DOMAIN keys /\ m \in Nat /\ n \in Nat
      BY <1>1 DEF Adjacent
<1>3. /\ KeysById(keys)[m].id \in Nat /\ KeysById(keys)[n].id \in Nat
      /\ KeysById(keys)[m + 1].id \in Nat
      BY <1>2, KeysByIdSorts
<1>4. KeysById(keys)[m].id <= KeysById(keys)[m + 1].id
      <2>1. m < m + 1
            BY <1>2
      <2> QED BY <1>2, <2>1, KeysByIdSorts
<1>5. KeysById(keys)[m].id # KeysById(keys)[m + 1].id
      BY <1>2
<1>6. KeysById(keys)[m + 1].id <= KeysById(keys)[n].id
      <2>1. CASE m + 1 = n
            BY <1>3, <2>1
      <2>2. CASE m + 1 < n
            BY <1>2, <2>2, KeysByIdSorts
      <2> QED BY <1>2, <2>1, <2>2
<1> QED BY <1>3, <1>4, <1>5, <1>6

\* The body rendered from an accepted bundle survives the re-parse in
\* CaSyncService::apply, trusts between one and MaxKeys Ed25519 keys under
\* distinct ids, and was taken inside the window that the envelope states.
THEOREM AcceptedIsInstallable == BundleSpec => []AcceptedIsUsable
<1>1. BundleInv => AcceptedIsUsable
      <2> SUFFICES ASSUME BundleInv, NEW a \in accepted
                   PROVE  LET lines == Render(a.envelope).lines
                          IN  /\ Parses(lines)
                              /\ Len(lines) \in 1..MaxKeys
                              /\ \A i \in DOMAIN lines : lines[i].algo = "ssh-ed25519"
                              /\ \A i, j \in DOMAIN lines :
                                    lines[i].comment = lines[j].comment => i = j
                              /\ a.at < a.envelope.expires
                              /\ a.envelope.created <= a.at + Grace
          BY DEF AcceptedIsUsable
      <2> DEFINE keys == a.envelope.keys
                 lines == Render(a.envelope).lines
      <2>1. /\ keys \in Seq(KeyPool) /\ a.at \in Times
            /\ a.envelope.created \in Times \cup {Absent} /\ a.envelope.expires \in Times
            /\ Passes(ContentRules(a.envelope)) /\ Passes(WindowRules(a.envelope, a.at))
            BY DEF BundleInv, PassedRules, IsEnvelope
      <2>2. /\ ~(Len(keys) < 1) /\ ~(Len(keys) > MaxKeys)
            /\ \A i \in DOMAIN keys : ValidateEd25519PublicKey(keys[i])
            /\ \A i \in Adjacent(keys) : KeysById(keys)[i].id # KeysById(keys)[i + 1].id
            BY <2>1, ContentPasses
      <2>3. Len(keys) \in 1..MaxKeys /\ DOMAIN keys = 1..Len(keys)
            BY <2>1, <2>2, BundleAssumption
      <2>4. \A n \in DOMAIN keys : ValidateEd25519PublicKey(KeysById(keys)[n])
            BY <2>1, <2>2, KeysByIdSorts
      <2>5. lines = [i \in DOMAIN keys |-> RenderKeyLine(KeysById(keys)[i])]
            BY DEF Render
      <2>6. \A i \in DOMAIN keys : /\ lines[i].algo = KeysById(keys)[i].algo
                                   /\ lines[i].blob = KeysById(keys)[i].blob
                                   /\ lines[i].comment = KeysById(keys)[i].id
            BY <2>5 DEF RenderKeyLine
      <2>7. Len(lines) = Len(keys) /\ DOMAIN lines = DOMAIN keys
            BY <2>3, <2>5
      <2> HIDE DEF lines
      <2>8. \A i \in DOMAIN lines : lines[i].algo = "ssh-ed25519" /\ lines[i].blob # Absent
            BY <2>4, <2>6, <2>7 DEF ValidateEd25519PublicKey
      <2>9. Parses(lines)
            BY <2>8 DEF Parses, ParsesKey, IsValidBase64, AllowedAlgorithms
      <2>10. ASSUME NEW i \in DOMAIN lines, NEW j \in DOMAIN lines,
                    lines[i].comment = lines[j].comment
             PROVE  i = j
            <3>1. KeysById(keys)[i].id = KeysById(keys)[j].id /\ i \in DOMAIN keys /\ j \in DOMAIN keys
                  BY <2>6, <2>7, <2>10
            <3>2. ~(i < j) /\ ~(j < i)
                  BY <2>1, <2>2, <3>1, NeighboursSuffice
            <3> QED BY <2>3, <3>1, <3>2
      <2>11. /\ a.envelope.created # Absent /\ ~(a.at >= a.envelope.expires)
             /\ ~(a.envelope.created > a.at + Grace)
            <3>1. /\ a.at \in Nat /\ a.envelope.created \in Nat \cup {Absent}
                  /\ a.envelope.expires \in Nat
                  BY <2>1, BundleAssumption DEF Times
            <3> QED BY <2>1, <3>1, WindowPasses
      <2>12. a.at < a.envelope.expires /\ a.envelope.created <= a.at + Grace
            <3>1. /\ a.at \in Nat /\ a.envelope.created \in Nat /\ a.envelope.expires \in Nat
                  BY <2>1, <2>11, BundleAssumption DEF Times
            <3> QED BY <2>11, <3>1, BundleAssumption
      <2> QED BY <2>3, <2>7, <2>8, <2>9, <2>10, <2>12 DEF lines
<1> QED BY <1>1, BundleInvariant, PTL
=============================================================================
