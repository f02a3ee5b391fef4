--------------------------- MODULE EnrollmentProofs ---------------------------
(***************************************************************************)
(* Theorems about Enrollment, with any number of keypairs, requests and    *)
(* token uses.  For any number of processes: typing, and every machine id  *)
(* was issued by the server, to the attempt that asked for it.  For the    *)
(* one process the systemd unit runs: what it leaves on disk is an         *)
(* identity the server knows, written once, with a pin that was validated. *)
(***************************************************************************)
EXTENDS Enrollment, FiniteSetTheorems, TLAPS

-----------------------------------------------------------------------------
(* Typing, for any set of processes.  TypeOK is not inductive: what a       *)
(* process has in hand depends on where it is.                              *)

Attempting == {"writePrivate", "writePublic", "post", "await", "persist"}

InHand(a) ==
    /\ pc[a] \in Attempting => keypair[a] \in Keys
    /\ pc[a] = "persist" => lastResponse[a] \in Responses /\ lastResponse[a] # None
    /\ pc[a] \in {"load", "reload"} => files.record # 0
    /\ pc[a] \in {"pin", "ready", "polling"} => identity[a] \in Machine

TypeInv == TypeOK /\ \A a \in Agents : InHand(a)

\* Both constants of a response's signer, and the operators' ranges.
LEMMA ConstantTypes ==
    /\ None \notin Keys
    /\ 0 \notin Requests
    /\ NoIdentity \notin Machine
    /\ \A n \in Requests, k \in Keys : Identity(n, k) \in Machine
    /\ \A m \in Machine : m.id \in Requests /\ m.key \in Keys
BY EnrollmentAssumption DEF Requests, Machine, NoIdentity, Identity

\* The three values a signing key field can have are different.
LEMMA SignersDiffer == SigningKey # Malformed /\ SigningKey # None /\ Malformed # None
<1> DEFINE S == {SigningKey, Malformed, None}
<1>1. Cardinality(S) = 3
      BY EnrollmentAssumption
<1>2. \A x, y : Cardinality({x, y}) <= 2
      <2> TAKE x, y
      <2>1. IsFiniteSet({x}) /\ Cardinality({x}) = 1
            BY FS_Singleton
      <2>2. Cardinality({x} \cup {y}) = IF y \in {x} THEN Cardinality({x}) ELSE Cardinality({x}) + 1
            BY <2>1, FS_AddElement
      <2>3. {x, y} = {x} \cup {y}
            OBVIOUS
      <2> QED BY <2>1, <2>2, <2>3
<1>3. ASSUME NEW x, NEW y, S = {x, y} PROVE FALSE
      BY <1>1, <1>2, <1>3
<1>4. /\ SigningKey = Malformed => S = {SigningKey, None}
      /\ SigningKey = None => S = {SigningKey, Malformed}
      /\ Malformed = None => S = {SigningKey, Malformed}
      OBVIOUS
<1> QED BY <1>3, <1>4

\* What the server may answer is a response or a refusal.
LEMMA ResponseTypes ==
    ASSUME NEW m \in Machine,
           NEW r \in GoodResponses(m) \cup BadResponses(m)
    PROVE  /\ r \in Responses \cup {None}
           /\ r # None => r.id \in {0, m.id}
BY EnrollmentAssumption, ConstantTypes DEF GoodResponses, BadResponses, Responses

\* A process that ends leaves typed state, and nothing in hand.
LEMMA ExitTypes ==
    ASSUME TypeOK, NEW a \in Agents, Exit(a)
    PROVE  /\ pc' \in [Agents -> Points]
           /\ token' \in [Agents -> {"valid", "malformed", "absent"}]
           /\ keypair' \in [Agents -> Keys \cup {None}]
           /\ waiting' \in [Agents -> Requests \cup {0}]
           /\ lastResponse' \in [Agents -> Responses \cup {None}]
           /\ identity' \in [Agents -> Machine \cup {NoIdentity}]
           /\ shutdown' \in [Agents -> BOOLEAN]
           /\ pc'[a] = "off" /\ waiting'[a] = 0 /\ lastResponse'[a] = None
           /\ \A b \in Agents \ {a} : /\ pc'[b] = pc[b] /\ keypair'[b] = keypair[b]
                                      /\ lastResponse'[b] = lastResponse[b]
                                      /\ identity'[b] = identity[b]
BY DEF TypeOK, Exit, Goto, Points

\* Going on changes one process's point.
LEMMA GotoTypes ==
    ASSUME TypeOK, NEW a \in Agents, NEW p \in Points, Goto(a, p)
    PROVE  /\ pc' \in [Agents -> Points] /\ pc'[a] = p
           /\ \A b \in Agents \ {a} : pc'[b] = pc[b]
BY DEF TypeOK, Goto

\* Where a process that goes on is.
LEMMA GotoPoint ==
    ASSUME TypeInv, NEW a \in Agents, NEW p, Goto(a, p)
    PROVE  pc'[a] = p
BY DEF TypeInv, TypeOK, Goto

\* A process that ends, the files as they were or with a record more.
LEMMA ExitKeepsTypes ==
    ASSUME TypeInv, NEW a \in Agents, Exit(a),
           files' \in [private : Keys \cup {None}, public : Keys \cup {None},
                       record : Requests \cup {0}, pin : {SigningKey, Malformed, None}],
           files'.record = files.record,
           \A r \in replies' : r \in replies,
           UNCHANGED <<inflight, registered, uses, stable>>
    PROVE  TypeInv'
<1>1. TypeOK'
      BY ExitTypes DEF TypeInv, TypeOK
<1>2. ASSUME NEW b \in Agents PROVE InHand(b)'
      <2>1. CASE b = a
            BY <2>1, ExitTypes DEF TypeInv, InHand, Attempting
      <2>2. CASE b # a
            BY <2>2, ExitTypes DEF TypeInv, InHand
      <2> QED BY <2>1, <2>2
<1> QED BY <1>1, <1>2 DEF TypeInv

LEMMA TypeInit == Init => TypeInv
<1> SUFFICES ASSUME Init PROVE TypeInv
    OBVIOUS
<1>1. uses \in 0..TokenUses
      BY EnrollmentAssumption DEF Init
<1>2. files \in [private : Keys \cup {None}, public : Keys \cup {None},
                 record : Requests \cup {0}, pin : {SigningKey, Malformed, None}]
      BY DEF Init
<1>3. TypeOK
      BY <1>1, <1>2 DEF Init, TypeOK, Points
<1>4. \A a \in Agents : InHand(a)
      BY DEF Init, InHand, Attempting
<1> QED BY <1>3, <1>4 DEF TypeInv

\* A step of one process that changes nothing the others have in hand.
LEMMA OneProcessTypes ==
    ASSUME TypeInv, TypeOK', NEW a \in Agents, InHand(a)',
           files.record # 0 => files'.record # 0,
           \A b \in Agents \ {a} : /\ pc'[b] = pc[b] /\ keypair'[b] = keypair[b]
                                   /\ lastResponse'[b] = lastResponse[b]
                                   /\ identity'[b] = identity[b]
    PROVE  TypeInv'
<1>1. ASSUME NEW b \in Agents, b # a PROVE InHand(b)'
      BY <1>1 DEF TypeInv, InHand
<1> QED BY <1>1 DEF TypeInv

\* Steps on the way to an identity that write no file.
LEMMA QuietTypes ==
    ASSUME TypeInv, NEW a \in Agents,
           \/ Start(a) \/ EnsureEnrolled(a) \/ LoadMachineIdentity(a) \/ BeginAttempt(a)
           \/ LoadOrGenerateKeypair(a) \/ ReloadIdentity(a) \/ BackOff(a)
           \/ EnterService(a) \/ LeaveService(a) \/ Signal(a) \/ ReadFails(a)
    PROVE  TypeInv'
<1> USE DEF network
<1>e. ASSUME Exit(a), UNCHANGED <<files, network, stable>> PROVE TypeInv'
      BY <1>e, ExitKeepsTypes DEF TypeInv, TypeOK
<1>1. CASE Start(a)
      <2>1. Goto(a, "check") /\ "check" \in Points
            BY <1>1 DEF Start, Points
      <2>2. TypeOK' /\ pc'[a] = "check"
            BY <1>1, <2>1, GotoTypes DEF Start, TypeInv, TypeOK
      <2> QED BY <1>1, <2>1, <2>2, GotoTypes, OneProcessTypes DEF Start, TypeInv, InHand, Attempting
<1>2. CASE EnsureEnrolled(a)
      <2>1. ASSUME NEW p \in {"load", "attempt"}, Goto(a, p), p = "load" => files.record # 0,
                   UNCHANGED <<token, keypair, waiting, lastResponse, identity, shutdown>>
            PROVE  TypeInv'
            <3>1. p \in Points
                  BY DEF Points
            <3>2. TypeOK' /\ pc'[a] = p
                  BY <1>2, <2>1, <3>1, GotoTypes DEF EnsureEnrolled, TypeInv, TypeOK
            <3> QED BY <1>2, <2>1, <3>1, <3>2, GotoTypes, OneProcessTypes
                    DEF EnsureEnrolled, TypeInv, InHand, Attempting
      <2> QED BY <1>2, <1>e, <2>1 DEF EnsureEnrolled
<1>3. CASE LoadMachineIdentity(a) \/ ReloadIdentity(a)
      <2>1. PICK p \in {"ready", "pin"} : Goto(a, p)
            BY <1>3 DEF LoadMachineIdentity, ReloadIdentity
      <2>2. Identity(files.record, files.private) \in Machine
            BY <1>3, ConstantTypes DEF LoadMachineIdentity, ReloadIdentity, TypeInv, TypeOK, InHand
      <2>3. p \in Points
            BY DEF Points
      <2>4. TypeOK' /\ pc'[a] = p /\ identity'[a] \in Machine
            BY <1>3, <2>1, <2>2, <2>3, GotoTypes
            DEF LoadMachineIdentity, ReloadIdentity, TypeInv, TypeOK
      <2>5. InHand(a)'
            BY <2>4 DEF InHand, Attempting
      <2> QED BY <1>3, <2>1, <2>3, <2>4, <2>5, GotoTypes, OneProcessTypes
              DEF LoadMachineIdentity, ReloadIdentity, TypeInv, TypeOK
<1>4. CASE BeginAttempt(a)
      <2>1. CASE shutdown[a] /\ Exit(a)
            BY <1>4, <1>e, <2>1 DEF BeginAttempt
      <2>2. CASE ~(shutdown[a] /\ Exit(a))
            <3>1. PICK p \in {"reload", "keypair"} : Goto(a, p) /\ (p = "reload" => files.record # 0)
                  BY <1>4, <2>2 DEF BeginAttempt
            <3>2. p \in Points
                  BY DEF Points
            <3>3. UNCHANGED <<token, keypair, waiting, lastResponse, identity, shutdown>>
                  BY <1>4, <2>2 DEF BeginAttempt
            <3>4. TypeOK' /\ pc'[a] = p
                  BY <1>4, <3>1, <3>2, <3>3, GotoTypes DEF BeginAttempt, TypeInv, TypeOK
            <3> QED BY <1>4, <3>1, <3>2, <3>3, <3>4, GotoTypes, OneProcessTypes
                    DEF BeginAttempt, TypeInv, InHand, Attempting
      <2> QED BY <2>1, <2>2
<1>5. CASE LoadOrGenerateKeypair(a)
      <2>1. PICK p \in {"post", "backoff", "writePrivate"} : Goto(a, p)
            BY <1>5 DEF LoadOrGenerateKeypair
      <2>2. PICK k \in Keys : keypair' = [keypair EXCEPT ![a] = k]
            BY <1>5 DEF LoadOrGenerateKeypair, FreshKeys, TypeInv, TypeOK
      <2>3. p \in Points
            BY DEF Points
      <2>4. TypeOK' /\ pc'[a] = p /\ keypair'[a] \in Keys
            BY <1>5, <2>1, <2>2, <2>3, GotoTypes DEF LoadOrGenerateKeypair, TypeInv, TypeOK
      <2>5. InHand(a)'
            BY <2>4 DEF InHand, Attempting
      <2> QED BY <1>5, <2>1, <2>2, <2>3, <2>4, <2>5, GotoTypes, OneProcessTypes
              DEF LoadOrGenerateKeypair, TypeInv, TypeOK
<1>6. CASE BackOff(a)
      <2>1. CASE shutdown[a] /\ Exit(a)
            BY <1>6, <1>e, <2>1 DEF BackOff
      <2>2. CASE ~(shutdown[a] /\ Exit(a))
            <3>1. /\ Goto(a, "attempt") /\ "attempt" \in Points
                  /\ keypair' = [keypair EXCEPT ![a] = None]
                  /\ UNCHANGED <<token, waiting, lastResponse, identity, shutdown>>
                  BY <1>6, <2>2 DEF BackOff, Points
            <3>2. TypeOK' /\ pc'[a] = "attempt"
                  BY <1>6, <3>1, GotoTypes DEF BackOff, TypeInv, TypeOK
            <3>3. InHand(a)'
                  BY <3>2 DEF InHand, Attempting
            <3> QED BY <1>6, <3>1, <3>2, <3>3, GotoTypes, OneProcessTypes
                    DEF BackOff, TypeInv, TypeOK
      <2> QED BY <2>1, <2>2
<1>7. CASE EnterService(a)
      <2>1. CASE shutdown[a] /\ Exit(a)
            BY <1>7, <1>e, <2>1 DEF EnterService
      <2>2. CASE ~(shutdown[a] /\ Exit(a))
            <3>1. /\ Goto(a, "polling") /\ "polling" \in Points
                  /\ files.private \in Keys
                  /\ identity' = [identity EXCEPT ![a].key = files.private]
                  /\ UNCHANGED <<token, keypair, waiting, lastResponse, shutdown>>
                  BY <1>7, <2>2 DEF EnterService, Points, TypeInv, TypeOK
            <3>2. identity[a] \in Machine
                  BY <1>7 DEF EnterService, TypeInv, InHand
            <3>3. [identity[a] EXCEPT !.key = files.private] \in Machine
                  BY <3>1, <3>2 DEF Machine
            <3>4. TypeOK' /\ pc'[a] = "polling" /\ identity'[a] \in Machine
                  BY <1>7, <3>1, <3>3, GotoTypes DEF EnterService, TypeInv, TypeOK
            <3>5. InHand(a)'
                  BY <3>4 DEF InHand, Attempting
            <3> QED BY <1>7, <3>1, <3>4, <3>5, GotoTypes, OneProcessTypes
                    DEF EnterService, TypeInv, TypeOK
      <2> QED BY <2>1, <2>2
<1>8. CASE LeaveService(a)
      BY <1>8, <1>e DEF LeaveService
<1>9. CASE Signal(a)
      <2>1. TypeOK'
            BY <1>9 DEF Signal, TypeInv, TypeOK
      <2> QED BY <1>9, <2>1 DEF Signal, TypeInv, InHand
<1>10. CASE ReadFails(a)
      <2>1. CASE Exit(a)
            BY <1>10, <1>e, <2>1 DEF ReadFails
      <2>2. CASE ~Exit(a)
            <3>1. /\ Goto(a, "backoff") /\ "backoff" \in Points
                  /\ UNCHANGED <<token, keypair, waiting, lastResponse, identity, shutdown>>
                  BY <1>10, <2>2 DEF ReadFails, Points
            <3>2. TypeOK' /\ pc'[a] = "backoff"
                  BY <1>10, <3>1, GotoTypes DEF ReadFails, TypeInv, TypeOK
            <3> QED BY <1>10, <3>1, <3>2, GotoTypes, OneProcessTypes
                    DEF ReadFails, TypeInv, InHand, Attempting
      <2> QED BY <2>1, <2>2
<1> QED BY <1>1, <1>2, <1>3, <1>4, <1>5, <1>6, <1>7, <1>8, <1>9, <1>10

\* The files a process writes are typed, and never lose their record.
LEMMA FileTypes ==
    ASSUME TypeInv, NEW a \in Agents
    PROVE  LET Typed(f) ==
                 /\ f \in [private : Keys \cup {None}, public : Keys \cup {None},
                           record : Requests \cup {0}, pin : {SigningKey, Malformed, None}]
                 /\ files.record # 0 => f.record # 0
           IN  /\ Typed(files)
               /\ pc[a] = "writePrivate" => Typed(WithPrivateKey(a))
               /\ pc[a] = "writePublic" => Typed([files EXCEPT !.public = keypair[a]])
               /\ pc[a] = "persist" /\ ValidResponse(lastResponse[a])
                    => Typed([files EXCEPT !.record = lastResponse[a].id])
               /\ pc[a] = "pin" => Typed(WithPin(a)) /\ WithPin(a).record = files.record
<1>1. pc[a] = "pin" => lastResponse[a] = None \/ lastResponse[a].signer \in {SigningKey, Malformed, None}
      BY DEF TypeInv, TypeOK, Responses
<1>2. pc[a] = "persist" => lastResponse[a].id \in Requests \cup {0}
      BY DEF TypeInv, InHand, Responses
<1> QED BY <1>1, <1>2 DEF TypeInv, TypeOK, InHand, Attempting, WithPrivateKey, WithPin, ValidResponse

\* The steps that write files, and the exchange with the server.
LEMMA WritingTypes ==
    ASSUME TypeInv, NEW a \in Agents,
           \/ WritePrivateKey(a) \/ WritePublicKey(a) \/ PersistMachineIdentity(a)
           \/ Pin(a) \/ WriteFails(a)
    PROVE  TypeInv'
<1> USE DEF network
<1>1. CASE WritePrivateKey(a) \/ WritePublicKey(a)
      <2>1. PICK p \in {"writePublic", "post"} : Goto(a, p)
            BY <1>1 DEF WritePrivateKey, WritePublicKey
      <2>2. p \in Points
            BY DEF Points
      <2>3. /\ files' \in [private : Keys \cup {None}, public : Keys \cup {None},
                           record : Requests \cup {0}, pin : {SigningKey, Malformed, None}]
            /\ files.record # 0 => files'.record # 0
            BY <1>1, FileTypes DEF WritePrivateKey, WritePublicKey
      <2>4. TypeOK' /\ pc'[a] = p
            BY <1>1, <2>1, <2>2, <2>3, GotoTypes DEF WritePrivateKey, WritePublicKey, TypeInv, TypeOK
      <2>5. InHand(a)'
            BY <1>1, <2>4 DEF InHand, Attempting, TypeInv, WritePrivateKey, WritePublicKey
      <2> QED BY <1>1, <2>1, <2>2, <2>3, <2>4, <2>5, GotoTypes, OneProcessTypes
              DEF WritePrivateKey, WritePublicKey, TypeInv
<1>2. CASE PersistMachineIdentity(a)
      <2>1. CASE ValidResponse(lastResponse[a])
            <3>1. /\ Goto(a, "pin") /\ "pin" \in Points
                  /\ files' = [files EXCEPT !.record = lastResponse[a].id]
                  /\ identity' = [identity EXCEPT ![a] = Identity(lastResponse[a].id, keypair[a])]
                  /\ pc[a] = "persist"
                  BY <1>2, <2>1 DEF PersistMachineIdentity, Points
            <3>2. Identity(lastResponse[a].id, keypair[a]) \in Machine
                  BY <2>1, <3>1, ConstantTypes
                  DEF TypeInv, InHand, Attempting, Responses, ValidResponse
            <3>3. /\ files' \in [private : Keys \cup {None}, public : Keys \cup {None},
                                 record : Requests \cup {0}, pin : {SigningKey, Malformed, None}]
                  /\ files.record # 0 => files'.record # 0
                  BY <2>1, <3>1, FileTypes
            <3>4. TypeOK' /\ pc'[a] = "pin" /\ identity'[a] \in Machine
                  BY <1>2, <3>1, <3>2, <3>3, GotoTypes DEF PersistMachineIdentity, TypeInv, TypeOK
            <3>5. InHand(a)'
                  BY <3>4 DEF InHand, Attempting
            <3>6. \A b \in Agents \ {a} : identity'[b] = identity[b]
                  BY <3>1 DEF TypeInv, TypeOK
            <3> QED BY <1>2, <3>1, <3>3, <3>4, <3>5, <3>6, GotoTypes, OneProcessTypes
                    DEF PersistMachineIdentity, TypeInv
      <2>2. CASE ~ValidResponse(lastResponse[a])
            <3>1. Goto(a, "backoff") /\ "backoff" \in Points /\ UNCHANGED <<files, identity>>
                  BY <1>2, <2>2 DEF PersistMachineIdentity, Points
            <3>2. TypeOK' /\ pc'[a] = "backoff"
                  BY <1>2, <3>1, GotoTypes DEF PersistMachineIdentity, TypeInv, TypeOK
            <3> QED BY <1>2, <3>1, <3>2, GotoTypes, OneProcessTypes
                    DEF PersistMachineIdentity, TypeInv, InHand, Attempting
      <2> QED BY <2>1, <2>2
<1>3. CASE Pin(a)
      <2>1. Goto(a, "ready") /\ "ready" \in Points /\ pc[a] = "pin" /\ files' = WithPin(a)
            BY <1>3 DEF Pin, Points
      <2>2. /\ files' \in [private : Keys \cup {None}, public : Keys \cup {None},
                           record : Requests \cup {0}, pin : {SigningKey, Malformed, None}]
            /\ files.record # 0 => files'.record # 0
            BY <2>1, FileTypes
      <2>3. TypeOK' /\ pc'[a] = "ready"
            BY <1>3, <2>1, <2>2, GotoTypes DEF Pin, TypeInv, TypeOK
      <2>4. InHand(a)'
            BY <1>3, <2>1, <2>3 DEF Pin, TypeInv, InHand, Attempting
      <2> QED BY <1>3, <2>1, <2>2, <2>3, <2>4, GotoTypes, OneProcessTypes DEF Pin, TypeInv
<1>4. CASE WriteFails(a)
      <2>1. /\ files' \in [private : Keys \cup {None}, public : Keys \cup {None},
                           record : Requests \cup {0}, pin : {SigningKey, Malformed, None}]
            /\ files.record # 0 => files'.record # 0
            BY <1>4, FileTypes DEF WriteFails
      <2>2. CASE Exit(a) /\ pc[a] = "pin" /\ files' \in {files, WithPin(a)}
            BY <1>4, <2>1, <2>2, FileTypes, ExitKeepsTypes DEF WriteFails
      <2>3. CASE ~(Exit(a) /\ pc[a] = "pin" /\ files' \in {files, WithPin(a)})
            <3>1. /\ Goto(a, "backoff") /\ "backoff" \in Points
                  /\ UNCHANGED <<token, keypair, waiting, lastResponse, identity, shutdown>>
                  BY <1>4, <2>3 DEF WriteFails, Points
            <3>2. TypeOK' /\ pc'[a] = "backoff"
                  BY <1>4, <2>1, <3>1, GotoTypes DEF WriteFails, TypeInv, TypeOK
            <3>3. InHand(a)'
                  BY <3>2 DEF InHand, Attempting
            <3> QED BY <1>4, <2>1, <3>1, <3>2, <3>3, GotoTypes, OneProcessTypes DEF TypeInv
      <2> QED BY <2>2, <2>3
<1> QED BY <1>1, <1>2, <1>3, <1>4

\* The exchange with the server, and what breaks it off.
LEMMA ExchangeTypes ==
    ASSUME TypeInv, NEW a \in Agents,
           Post(a) \/ ReceiveReply(a) \/ PostFails(a) \/ Crash(a)
    PROVE  TypeInv'
<1>1. CASE Post(a)
      <2>1. PICK n \in Requests :
              /\ inflight' = inflight \cup {[id |-> n, key |-> keypair[a]]}
              /\ waiting' = [waiting EXCEPT ![a] = n]
            BY <1>1 DEF Post, FreeRequests
      <2>2. [id |-> n, key |-> keypair[a]] \in Machine
            BY <1>1 DEF Post, TypeInv, InHand, Attempting, Machine
      <2>3. Goto(a, "await") /\ "await" \in Points
            BY <1>1 DEF Post, Points
      <2>4. TypeOK' /\ pc'[a] = "await"
            BY <1>1, <2>1, <2>2, <2>3, GotoTypes DEF Post, TypeInv, TypeOK
      <2>5. InHand(a)'
            BY <1>1, <2>4 DEF Post, TypeInv, InHand, Attempting
      <2> QED BY <1>1, <2>3, <2>4, <2>5, GotoTypes, OneProcessTypes DEF Post, TypeInv
<1>2. CASE ReceiveReply(a)
      <2>1. PICK r \in replies :
              /\ replies' = replies \ {r}
              /\ \/ r.response = None /\ Goto(a, "backoff") /\ UNCHANGED lastResponse
                 \/ /\ r.response # None /\ Goto(a, "persist")
                    /\ lastResponse' = [lastResponse EXCEPT ![a] = r.response]
            BY <1>2 DEF ReceiveReply
      <2>2. r.response \in Responses \cup {None}
            BY DEF TypeInv, TypeOK
      <2>3. PICK p \in {"backoff", "persist"} : Goto(a, p)
            BY <2>1
      <2>4. p \in Points
            BY DEF Points
      <2>5. pc' \in [Agents -> Points] /\ pc'[a] = p
            BY <2>3, <2>4, GotoTypes DEF TypeInv
      <2>6. /\ lastResponse' \in [Agents -> Responses \cup {None}]
            /\ \A b \in Agents \ {a} : lastResponse'[b] = lastResponse[b]
            BY <2>1, <2>2 DEF TypeInv, TypeOK
      <2>7. waiting' \in [Agents -> Requests \cup {0}]
            BY <1>2 DEF ReceiveReply, TypeInv, TypeOK
      <2>8. TypeOK'
            BY <1>2, <2>1, <2>5, <2>6, <2>7 DEF ReceiveReply, TypeInv, TypeOK
      <2>9. pc'[a] = "persist" => lastResponse'[a] \in Responses /\ lastResponse'[a] # None
            BY <2>1, <2>2 DEF Goto, TypeInv, TypeOK
      <2>10. keypair' = keypair /\ keypair[a] \in Keys
            BY <1>2 DEF ReceiveReply, TypeInv, InHand, Attempting
      <2>11. InHand(a)'
            BY <2>5, <2>9, <2>10 DEF InHand, Attempting
      <2> QED BY <1>2, <2>3, <2>4, <2>6, <2>8, <2>11, GotoTypes, OneProcessTypes
              DEF ReceiveReply, TypeInv
<1>3. CASE PostFails(a)
      <2>1. Goto(a, "backoff") /\ "backoff" \in Points
            BY <1>3 DEF PostFails, Points
      <2>2. TypeOK' /\ pc'[a] = "backoff"
            BY <1>3, <2>1, GotoTypes DEF PostFails, TypeInv, TypeOK
      <2>3. InHand(a)'
            BY <2>2 DEF InHand, Attempting
      <2> QED BY <1>3, <2>1, <2>2, <2>3, GotoTypes, OneProcessTypes DEF PostFails, TypeInv
<1>4. CASE Crash(a)
      BY <1>4, ExitKeepsTypes DEF Crash, TypeInv, TypeOK
<1> QED BY <1>1, <1>2, <1>3, <1>4

\* The server.
LEMMA ServerTypes ==
    ASSUME TypeInv, ServerHandles
    PROVE  TypeInv'
<1>1. PICK m \in inflight :
        /\ inflight' = inflight \ {m}
        /\ \/ ServerEnrolls(m)
           \/ ServerRejects(m)
           \/ ~stable /\ UNCHANGED <<replies, registered, uses>>
      BY DEF ServerHandles
<1>2. m \in Machine /\ m.id \in Requests
      BY ConstantTypes DEF TypeInv, TypeOK
<1>3. registered' \subseteq Machine
      BY <1>1, <1>2 DEF ServerEnrolls, ServerRejects, TypeInv, TypeOK
<1>4. uses' \in 0..TokenUses
      BY <1>1, EnrollmentAssumption DEF ServerEnrolls, ServerRejects, TypeInv, TypeOK
<1>5. ASSUME NEW x \in Responses \cup {None}, Respond(m, x)
      PROVE  \A r \in replies' : r.to \in Requests /\ r.response \in Responses \cup {None}
      BY <1>2, <1>5 DEF Respond, TypeInv, TypeOK
<1>6. \A r \in replies' : r.to \in Requests /\ r.response \in Responses \cup {None}
      <2>1. CASE ServerEnrolls(m)
            <3>1. PICK x \in GoodResponses(m) \cup BadResponses(m) : Respond(m, x)
                  BY <2>1 DEF ServerEnrolls
            <3> QED BY <1>2, <1>5, <3>1, ResponseTypes
      <2>2. CASE ServerRejects(m)
            BY <1>5, <2>2 DEF ServerRejects
      <2>3. CASE UNCHANGED <<replies, registered, uses>>
            BY <2>3 DEF TypeInv, TypeOK
      <2> QED BY <1>1, <2>1, <2>2, <2>3
<1>7. TypeOK'
      BY <1>1, <1>3, <1>4, <1>6 DEF ServerHandles, process, TypeInv, TypeOK
<1> QED BY <1>7 DEF ServerHandles, process, TypeInv, InHand

LEMMA TypeStep == TypeInv /\ [Next]_vars => TypeInv'
<1> SUFFICES ASSUME TypeInv, [Next]_vars PROVE TypeInv'
    OBVIOUS
<1>1. ASSUME NEW a \in Agents, ProcessStep(a) PROVE TypeInv'
      BY <1>1, QuietTypes, WritingTypes, ExchangeTypes DEF ProcessStep
<1>2. ASSUME NEW a \in Agents, Fault(a) PROVE TypeInv'
      BY <1>2, QuietTypes, WritingTypes, ExchangeTypes DEF Fault
<1>3. CASE Stabilize
      BY <1>3 DEF Stabilize, process, network, TypeInv, TypeOK, InHand
<1>4. CASE UNCHANGED vars
      BY <1>4 DEF vars, process, network, TypeInv, TypeOK, InHand
<1> QED BY <1>1, <1>2, <1>3, <1>4, ServerTypes DEF Next

\* However many processes share the identity directory, every one of them
\* works with values of the right kind: persist_machine_identity always has a
\* response and a keypair, and a process that pins or polls has an identity.
THEOREM TypeCorrect == Spec => []TypeInv
BY TypeInit, TypeStep, PTL DEF Spec

-----------------------------------------------------------------------------
(* Any number of processes.  Their files may get mixed up, their exchanges  *)
(* with the server do not.                                                  *)

\* The request waited for carries the attempt's key, and a reply with a
\* machine id answers a request the server has registered.
OwnExchange(a) ==
    /\ waiting[a] # 0 => pc[a] = "await"
    /\ pc[a] = "await" => waiting[a] # 0
    /\ \A m \in inflight \cup registered : m.id = waiting[a] => m.key = keypair[a]
    /\ \A r \in replies :
          r.response # None /\ r.response.id # 0
            => r.response.id = r.to /\ \E m \in registered : m.id = r.to
    /\ pc[a] = "persist" /\ lastResponse[a].id # 0
         => Identity(lastResponse[a].id, keypair[a]) \in registered

\* The ids on disk and in use.
IssuedIds ==
    /\ files.record # 0 => \E m \in registered : m.id = files.record
    /\ \A a \in Agents : pc[a] \in {"pin", "ready", "polling"}
                           => \E m \in registered : m.id = identity[a].id

SharedInv == (\A a \in Agents : OwnExchange(a)) /\ IssuedIds

\* The request a process waits for is not touched by what others do.
LEMMA BystanderExchange ==
    ASSUME NEW b \in Agents, OwnExchange(b),
           pc'[b] = pc[b], keypair'[b] = keypair[b], waiting'[b] = waiting[b],
           lastResponse'[b] = lastResponse[b],
           \A m \in registered : m \in registered',
           \A m \in inflight' \cup registered' :
              m \in inflight \cup registered \/ m.id # waiting[b],
           \A r \in replies' : r \in replies
    PROVE  OwnExchange(b)'
BY DEF OwnExchange

\* A process that neither waits nor has a response in hand.
LEMMA NoExchange ==
    ASSUME TypeInv, NEW a \in Agents, OwnExchange(a),
           pc'[a] \notin {"await", "persist"}, waiting'[a] = 0,
           UNCHANGED <<inflight, registered>>,
           \A r \in replies' : r \in replies
    PROVE  OwnExchange(a)'
<1>1. \A m \in inflight \cup registered : m.id # 0
      BY ConstantTypes DEF TypeInv, TypeOK
<1> QED BY <1>1 DEF OwnExchange

\* A reply is only taken for the request the attempt itself sent, so the machine
\* it names has this attempt's key.
LEMMA OwnReply ==
    ASSUME TypeInv, NEW a \in Agents, OwnExchange(a), ReceiveReply(a)
    PROVE  OwnExchange(a)'
<1>0. \A m \in inflight \cup registered : m.id # 0
      BY ConstantTypes DEF TypeInv, TypeOK
<1>1. PICK r \in replies :
        /\ r.to = waiting[a]
        /\ replies' = replies \ {r}
        /\ \/ r.response = None /\ Goto(a, "backoff") /\ UNCHANGED lastResponse
           \/ /\ r.response # None /\ Goto(a, "persist")
              /\ lastResponse' = [lastResponse EXCEPT ![a] = r.response]
      BY DEF ReceiveReply
<1>2. waiting'[a] = 0 /\ UNCHANGED <<keypair, inflight, registered>>
      BY DEF ReceiveReply, TypeInv, TypeOK
<1>3. pc'[a] \in {"backoff", "persist"}
      BY <1>1, GotoPoint
<1>4. ASSUME pc'[a] = "persist", lastResponse'[a].id # 0
      PROVE  Identity(lastResponse'[a].id, keypair[a]) \in registered
      <2>1. r.response # None /\ lastResponse'[a] = r.response
            BY <1>1, <1>4, GotoPoint DEF TypeInv, TypeOK
      <2>2. PICK m \in registered : m.id = r.to
            BY <1>4, <2>1 DEF OwnExchange
      <2>3. r.response.id = r.to /\ m.key = keypair[a] /\ m \in Machine
            BY <1>1, <1>4, <2>1, <2>2 DEF OwnExchange, TypeInv, TypeOK
      <2>4. m = Identity(m.id, m.key)
            BY <2>3 DEF Machine, Identity
      <2> QED BY <2>1, <2>2, <2>3, <2>4
<1> QED BY <1>0, <1>1, <1>2, <1>3, <1>4 DEF OwnExchange

\* The server: a machine id in a reply is that of the machine just registered.
LEMMA ServerAnswers ==
    ASSUME TypeInv, NEW a \in Agents, OwnExchange(a), ServerHandles
    PROVE  OwnExchange(a)'
<1>1. PICK m \in inflight :
        /\ inflight' = inflight \ {m}
        /\ \/ ServerEnrolls(m)
           \/ ServerRejects(m)
           \/ ~stable /\ UNCHANGED <<replies, registered, uses>>
      BY DEF ServerHandles
<1>2. UNCHANGED process
      BY DEF ServerHandles
<1>3. m \in Machine
      BY DEF TypeInv, TypeOK
<1>4. /\ \A x \in registered : x \in registered'
      /\ \A x \in inflight' \cup registered' : x \in inflight \cup registered
      BY <1>1 DEF ServerEnrolls, ServerRejects
<1>5. ASSUME NEW r \in replies', r \notin replies, r.response # None, r.response.id # 0
      PROVE  r.response.id = r.to /\ \E x \in registered' : x.id = r.to
      <2>1. ServerEnrolls(m)
            BY <1>1, <1>5 DEF ServerRejects, Respond
      <2>2. PICK x \in GoodResponses(m) \cup BadResponses(m) : Respond(m, x)
            BY <2>1 DEF ServerEnrolls
      <2>3. r = [to |-> m.id, response |-> x] /\ m \in registered'
            BY <1>5, <2>1, <2>2 DEF Respond, ServerEnrolls
      <2>4. r.to = m.id /\ r.response = x
            BY <2>3
      <2>5. x.id \in {0, m.id}
            BY <1>3, <1>5, <2>4, ResponseTypes
      <2> QED BY <1>5, <2>3, <2>4, <2>5
<1> QED BY <1>2, <1>4, <1>5 DEF OwnExchange, process

\* Steps of one process that leave the server and its replies alone.
LocalStep(a) ==
    \/ Start(a) \/ EnsureEnrolled(a) \/ LoadMachineIdentity(a) \/ BeginAttempt(a)
    \/ LoadOrGenerateKeypair(a) \/ WritePrivateKey(a) \/ WritePublicKey(a)
    \/ PersistMachineIdentity(a) \/ ReloadIdentity(a) \/ BackOff(a) \/ Pin(a)
    \/ EnterService(a) \/ LeaveService(a) \/ WriteFails(a) \/ ReadFails(a)

\* What the process itself has after such a step, and the others keep.
LEMMA LocalFacts ==
    ASSUME TypeInv, NEW a \in Agents, OwnExchange(a), LocalStep(a)
    PROVE  /\ pc'[a] \notin {"await", "persist"} /\ waiting'[a] = 0
           /\ UNCHANGED network
           /\ \A b \in Agents \ {a} :
                 /\ pc'[b] = pc[b] /\ keypair'[b] = keypair[b]
                 /\ waiting'[b] = waiting[b] /\ lastResponse'[b] = lastResponse[b]
                 /\ identity'[b] = identity[b]
<1>0. pc[a] # "await" => waiting[a] = 0
      BY DEF OwnExchange
<1>1. UNCHANGED network
      BY DEF LocalStep, Start, EnsureEnrolled, LoadMachineIdentity, BeginAttempt,
         LoadOrGenerateKeypair, WritePrivateKey, WritePublicKey, PersistMachineIdentity,
         ReloadIdentity, BackOff, Pin, EnterService, LeaveService, WriteFails, ReadFails
<1>2. CASE Exit(a)
      <2>1. pc'[a] = "off" /\ waiting'[a] = 0
            BY <1>2, ExitTypes DEF TypeInv
      <2>2. \A b \in Agents \ {a} : /\ pc'[b] = pc[b] /\ keypair'[b] = keypair[b]
                                    /\ waiting'[b] = waiting[b]
                                    /\ lastResponse'[b] = lastResponse[b]
                                    /\ identity'[b] = identity[b]
            BY <1>2 DEF TypeInv, TypeOK, Exit, Goto
      <2> QED BY <1>1, <2>1, <2>2
<1>3. CASE ~Exit(a)
      <2>1. /\ waiting' = waiting /\ pc[a] # "await"
            /\ \E p \in Points \ {"await", "persist"} : Goto(a, p)
            BY <1>3
            DEF LocalStep, Start, EnsureEnrolled, LoadMachineIdentity, BeginAttempt,
                LoadOrGenerateKeypair, WritePrivateKey, WritePublicKey,
                PersistMachineIdentity, ReloadIdentity, BackOff, Pin, EnterService,
                LeaveService, WriteFails, ReadFails, Points
      <2>2. /\ lastResponse' = lastResponse
            /\ \A b \in Agents \ {a} : keypair'[b] = keypair[b] /\ identity'[b] = identity[b]
            BY <1>3
            DEF LocalStep, Start, EnsureEnrolled, LoadMachineIdentity, BeginAttempt,
                LoadOrGenerateKeypair, WritePrivateKey, WritePublicKey,
                PersistMachineIdentity, ReloadIdentity, BackOff, Pin, EnterService,
                LeaveService, WriteFails, ReadFails, TypeInv, TypeOK
      <2> QED BY <1>0, <1>1, <2>1, <2>2, GotoTypes DEF TypeInv
<1> QED BY <1>2, <1>3

\* An id in use afterwards was in use before, is on disk, or is in the response
\* that is being recorded; and so for the id on disk.
LEMMA LocalIds ==
    ASSUME TypeInv, NEW a \in Agents, SharedInv, LocalStep(a)
    PROVE  IssuedIds'
<1> DEFINE Issued(n) == \E m \in registered : m.id = n
<1>1. /\ pc'[a] \notin {"await", "persist"} /\ UNCHANGED network
      /\ \A b \in Agents \ {a} : pc'[b] = pc[b] /\ identity'[b] = identity[b]
      BY LocalFacts DEF SharedInv
<1>2. pc[a] = "persist" /\ ValidResponse(lastResponse[a]) => Issued(lastResponse[a].id)
      BY DEF SharedInv, OwnExchange, ValidResponse, Identity
<1>3. files'.record # 0 => Issued(files'.record)
      <2>1. \/ files'.record = files.record
            \/ /\ pc[a] = "persist" /\ ValidResponse(lastResponse[a])
               /\ files'.record = lastResponse[a].id
            BY DEF LocalStep, Start, EnsureEnrolled, LoadMachineIdentity, BeginAttempt,
               LoadOrGenerateKeypair, WritePrivateKey, WritePublicKey,
               PersistMachineIdentity, ReloadIdentity, BackOff, Pin, EnterService,
               LeaveService, WriteFails, ReadFails, WithPrivateKey, WithPin, TypeInv, TypeOK
      <2> QED BY <1>2, <2>1 DEF SharedInv, IssuedIds
<1>4. pc'[a] \in {"pin", "ready", "polling"} => Issued(identity'[a].id)
      <2> SUFFICES ASSUME pc'[a] \in {"pin", "ready", "polling"}
                   PROVE  Issued(identity'[a].id)
          OBVIOUS
      <2>0. ~Exit(a)
            BY ExitTypes DEF TypeInv
      <2>1. CASE LoadMachineIdentity(a) \/ ReloadIdentity(a)
            <3>1. files.record # 0 /\ identity'[a] = Identity(files.record, files.private)
                  BY <2>1 DEF LoadMachineIdentity, ReloadIdentity, TypeInv, TypeOK, InHand
            <3> QED BY <3>1 DEF SharedInv, IssuedIds, Identity
      <2>2. CASE PersistMachineIdentity(a)
            <3>1. /\ pc[a] = "persist" /\ ValidResponse(lastResponse[a])
                  /\ identity'[a] = Identity(lastResponse[a].id, keypair[a])
                  BY <2>2, GotoPoint DEF PersistMachineIdentity, TypeInv, TypeOK
            <3> QED BY <1>2, <3>1 DEF Identity
      <2>3. CASE EnterService(a)
            <3>1. /\ pc[a] = "ready" /\ identity[a] \in Machine
                  /\ identity' = [identity EXCEPT ![a].key = files.private]
                  BY <2>0, <2>3 DEF EnterService, TypeInv, InHand
            <3>2. identity'[a].id = identity[a].id
                  BY <3>1 DEF TypeInv, TypeOK, Machine
            <3> QED BY <3>1, <3>2 DEF SharedInv, IssuedIds
      <2>4. CASE Pin(a)
            BY <2>4 DEF Pin, SharedInv, IssuedIds
      <2>5. CASE ~(\/ LoadMachineIdentity(a) \/ ReloadIdentity(a)
                   \/ PersistMachineIdentity(a) \/ EnterService(a) \/ Pin(a))
            BY <2>0, <2>5, GotoPoint
            DEF LocalStep, Start, EnsureEnrolled, BeginAttempt, LoadOrGenerateKeypair,
                WritePrivateKey, WritePublicKey, BackOff, LeaveService, WriteFails,
                ReadFails
      <2> QED BY <2>1, <2>2, <2>3, <2>4, <2>5
<1>5. ASSUME NEW b \in Agents, b # a, pc'[b] \in {"pin", "ready", "polling"}
      PROVE  Issued(identity'[b].id)
      BY <1>1, <1>5 DEF SharedInv, IssuedIds
<1>6. registered' = registered
      BY <1>1 DEF network
<1> QED BY <1>3, <1>4, <1>5, <1>6 DEF IssuedIds

LEMMA SharedLocal ==
    ASSUME TypeInv, SharedInv, NEW a \in Agents, LocalStep(a)
    PROVE  SharedInv'
<1>1. OwnExchange(a)'
      BY LocalFacts, NoExchange DEF SharedInv, network
<1>2. ASSUME NEW b \in Agents, b # a PROVE OwnExchange(b)'
      BY <1>2, LocalFacts, BystanderExchange DEF SharedInv, network
<1> QED BY <1>1, <1>2, LocalIds DEF SharedInv

\* The exchange itself: a request gets a number nobody else waits for, and a reply
\* goes to the process that waits for it.
LEMMA SharedExchange ==
    ASSUME TypeInv, SharedInv, NEW a \in Agents,
           Post(a) \/ ReceiveReply(a) \/ PostFails(a) \/ Crash(a)
    PROVE  SharedInv'
<1>0. OwnExchange(a)
      BY DEF SharedInv
<1>1. /\ UNCHANGED <<files, registered>> /\ pc'[a] \in {"await", "backoff", "persist", "off"}
      /\ \A b \in Agents \ {a} : /\ pc'[b] = pc[b] /\ keypair'[b] = keypair[b]
                                 /\ waiting'[b] = waiting[b]
                                 /\ lastResponse'[b] = lastResponse[b]
                                 /\ identity'[b] = identity[b]
      BY DEF Post, ReceiveReply, PostFails, Crash, Exit, Goto, TypeInv, TypeOK
<1>2. IssuedIds'
      BY <1>1 DEF SharedInv, IssuedIds
<1>3. CASE Post(a)
      <2>1. PICK n \in FreeRequests :
              /\ inflight' = inflight \cup {[id |-> n, key |-> keypair[a]]}
              /\ waiting' = [waiting EXCEPT ![a] = n]
            BY <1>3 DEF Post
      <2>2. /\ n # 0 /\ \A m \in inflight \cup registered : m.id # n
            /\ \A b \in Agents : waiting[b] # n
            BY ConstantTypes DEF FreeRequests
      <2>3. /\ pc'[a] = "await" /\ waiting'[a] = n
            /\ UNCHANGED <<keypair, lastResponse, replies>>
            BY <1>3, <2>1, GotoPoint DEF Post, TypeInv, TypeOK
      <2>4. \A m \in inflight' \cup registered : m.id = n => m.key = keypair[a]
            BY <2>1, <2>2
      <2>5. OwnExchange(a)'
            BY <1>0, <1>1, <2>2, <2>3, <2>4 DEF OwnExchange
      <2>6. ASSUME NEW b \in Agents, b # a PROVE OwnExchange(b)'
            <3>1. \A m \in inflight' \cup registered' :
                     m \in inflight \cup registered \/ m.id # waiting[b]
                  BY <1>1, <2>1, <2>2
            <3> QED BY <1>1, <2>3, <2>6, <3>1, BystanderExchange DEF SharedInv
      <2> QED BY <1>2, <2>5, <2>6 DEF SharedInv
<1>4. CASE ReceiveReply(a) \/ PostFails(a) \/ Crash(a)
      <2>1. UNCHANGED inflight /\ \A r \in replies' : r \in replies
            BY <1>4 DEF ReceiveReply, PostFails, Crash
      <2>2. ASSUME NEW b \in Agents, b # a PROVE OwnExchange(b)'
            BY <1>1, <2>1, <2>2, BystanderExchange DEF SharedInv
      <2>3. CASE PostFails(a)
            <3>1. pc'[a] = "backoff" /\ waiting'[a] = 0
                  BY <2>3, GotoPoint DEF PostFails, TypeInv, TypeOK
            <3>2. OwnExchange(a)'
                  BY <1>0, <1>1, <2>1, <3>1, NoExchange
            <3> QED BY <1>2, <2>2, <3>2 DEF SharedInv
      <2>4. CASE Crash(a)
            <3>1. pc'[a] = "off" /\ waiting'[a] = 0
                  BY <2>4, ExitTypes DEF Crash, TypeInv
            <3>2. OwnExchange(a)'
                  BY <1>0, <1>1, <2>1, <3>1, NoExchange
            <3> QED BY <1>2, <2>2, <3>2 DEF SharedInv
      <2>5. CASE ReceiveReply(a)
            <3>1. OwnExchange(a)'
                  BY <1>0, <2>5, OwnReply
            <3> QED BY <1>2, <2>2, <3>1 DEF SharedInv
      <2> QED BY <1>4, <2>3, <2>4, <2>5
<1> QED BY <1>3, <1>4

\* The server registers a machine and answers whoever waits for it.
LEMMA SharedServer ==
    ASSUME TypeInv, SharedInv, ServerHandles
    PROVE  SharedInv'
<1>1. /\ UNCHANGED <<process, files>>
      /\ \A x \in registered : x \in registered'
      BY DEF ServerHandles, ServerEnrolls, ServerRejects
<1>2. \A a \in Agents : OwnExchange(a)'
      BY ServerAnswers DEF SharedInv
<1>3. IssuedIds'
      BY <1>1 DEF SharedInv, IssuedIds, process
<1> QED BY <1>2, <1>3 DEF SharedInv

LEMMA SharedStep == TypeInv /\ SharedInv /\ [Next]_vars => SharedInv'
<1> SUFFICES ASSUME TypeInv, SharedInv, [Next]_vars PROVE SharedInv'
    OBVIOUS
<1>1. ASSUME NEW a \in Agents, ProcessStep(a) \/ Fault(a) PROVE SharedInv'
      <2>1. CASE LocalStep(a)
            BY <2>1, SharedLocal
      <2>2. CASE Post(a) \/ ReceiveReply(a) \/ PostFails(a) \/ Crash(a)
            BY <2>2, SharedExchange
      <2>3. CASE Signal(a)
            BY <2>3 DEF Signal, network, SharedInv, OwnExchange, IssuedIds
      <2> QED BY <1>1, <2>1, <2>2, <2>3 DEF ProcessStep, Fault, LocalStep
<1>2. CASE Stabilize \/ UNCHANGED vars
      BY <1>2 DEF Stabilize, vars, process, network, SharedInv, OwnExchange, IssuedIds
<1> QED BY <1>1, <1>2, SharedServer DEF Next

\* However many processes share the identity directory: persist_machine_identity
\* records only what the server registered under the key of that very attempt, and
\* every machine id on disk or in use is one the server issued.
THEOREM IdsIssued == Spec => []IdsAreIssued
<1>1. Init => SharedInv
      BY ConstantTypes DEF Init, SharedInv, OwnExchange, IssuedIds
<1>2. SharedInv => IdsAreIssued
      BY DEF SharedInv, OwnExchange, IssuedIds, IdsAreIssued, ValidResponse
<1> QED BY <1>1, <1>2, TypeInit, TypeStep, SharedStep, PTL DEF Spec

-----------------------------------------------------------------------------
(* One process, as the systemd unit runs it.  (With two, each may write its *)
(* own key file between the other's check and its write, and none of the    *)
(* invariants below holds.)                                                 *)

\* Files and memory agree on the keypair of the attempt under way.
KeysInOrder(a) ==
    /\ KeyFilesAgree
    /\ pc[a] = "writePrivate" => files.private = None /\ files.public = None
    /\ pc[a] \in {"writePublic", "post", "await", "persist"} => files.private = keypair[a]

\* An attempt goes on past is_enrolled only while there is no machine record.
NotYetEnrolled(a) == pc[a] \in Attempting \cup {"keypair"} => files.record = 0

\* What is on disk, and what the process has taken for its own, the server knows.
KnownToServer(a) ==
    /\ files.record # 0 => Identity(files.record, files.private) \in registered
    /\ pc[a] \in {"pin", "ready", "polling"}
         => identity[a] \in registered /\ identity[a].key = files.private

\* Once there is a record, the response remembered is one that was validated.
SoundPin(a) ==
    /\ PinWasValidated
    /\ pc[a] = "pin" => files.record # 0
    /\ files.record # 0 => lastResponse[a] = None \/ lastResponse[a].signer # Malformed

SoleInv(a) ==
    KeysInOrder(a) /\ NotYetEnrolled(a) /\ OwnExchange(a) /\ KnownToServer(a) /\ SoundPin(a)

\* What a step of WrittenOnce says.
Kept ==
    /\ files.private # None => files'.private = files.private
    /\ files.public # None => files'.public = files.public
    /\ files.record # 0 => files'.record = files.record
    /\ files.pin # None => files'.pin = files.pin

LEMMA SoleInit ==
    ASSUME NEW a, Agents = {a}, Init
    PROVE  SoleInv(a)
<1>1. SigningKey # Malformed /\ None # Malformed
      BY SignersDiffer
<1> QED BY <1>1, ConstantTypes
        DEF Init, SoleInv, KeysInOrder, KeyFilesAgree, NotYetEnrolled, Attempting, OwnExchange,
            KnownToServer, SoundPin, PinWasValidated

\* Steps that leave the files, the network and the request waited for alone.
LEMMA SoleQuiet ==
    ASSUME NEW a, Agents = {a}, TypeInv, SoleInv(a),
           \/ Start(a) \/ EnsureEnrolled(a) \/ LoadMachineIdentity(a) \/ BeginAttempt(a)
           \/ LoadOrGenerateKeypair(a) \/ ReloadIdentity(a) \/ BackOff(a)
           \/ EnterService(a) \/ LeaveService(a) \/ Signal(a) \/ ReadFails(a)
    PROVE  SoleInv(a)'
<1> USE DEF network, SoleInv
<1>0. /\ UNCHANGED <<files, inflight, replies, registered>>
      /\ pc[a] # "await" \/ Signal(a)
      BY DEF Start, EnsureEnrolled, LoadMachineIdentity, BeginAttempt, LoadOrGenerateKeypair,
             ReloadIdentity, BackOff, EnterService, LeaveService, Signal, ReadFails
<1>s. CASE Signal(a)
      BY <1>0, <1>s DEF Signal, KeysInOrder, KeyFilesAgree, NotYetEnrolled, OwnExchange,
                        KnownToServer, SoundPin, PinWasValidated
<1>e. CASE Exit(a)
      <2>1. pc'[a] = "off" /\ waiting'[a] = 0 /\ lastResponse'[a] = None
            BY <1>e, ExitTypes DEF TypeInv
      <2>2. \A m \in inflight \cup registered : m.id # 0
            BY ConstantTypes DEF TypeInv, TypeOK
      <2> QED BY <1>0, <2>1, <2>2
              DEF KeysInOrder, KeyFilesAgree, NotYetEnrolled, Attempting, OwnExchange,
                  KnownToServer, SoundPin, PinWasValidated
<1>n. CASE ~Exit(a) /\ ~Signal(a)
      <2>1. UNCHANGED <<waiting, lastResponse>> /\ waiting[a] = 0
            BY <1>0, <1>n DEF Start, EnsureEnrolled, LoadMachineIdentity, BeginAttempt,
               LoadOrGenerateKeypair, ReloadIdentity, BackOff, EnterService, LeaveService,
               ReadFails, OwnExchange
      <2>2. PICK p \in {"check", "load", "attempt", "ready", "reload", "keypair", "post",
                        "backoff", "writePrivate", "pin", "polling"} : Goto(a, p)
            BY <1>n DEF Start, EnsureEnrolled, LoadMachineIdentity, BeginAttempt,
               LoadOrGenerateKeypair, ReloadIdentity, BackOff, EnterService, LeaveService,
               ReadFails
      <2>3. pc'[a] = p
            BY <2>2 DEF Goto, TypeInv, TypeOK
      <2>4. \A m \in inflight \cup registered : m.id # 0
            BY ConstantTypes DEF TypeInv, TypeOK
      <2>5. OwnExchange(a)'
            BY <1>0, <2>1, <2>3, <2>4 DEF OwnExchange
      <2>6. /\ p = "writePrivate" => files.private = None /\ files.public = None
            /\ p = "post" => files.private = keypair'[a]
            /\ p \in {"writePrivate", "post", "keypair"} => files.record = 0
            /\ p = "pin" => files.record # 0
            <3>1. CASE p \in {"writePrivate", "post"}
                  <4>1. LoadOrGenerateKeypair(a)
                        BY <1>n, <2>3, <3>1, GotoPoint DEF Start, EnsureEnrolled, LoadMachineIdentity,
                           BeginAttempt, ReloadIdentity, BackOff, EnterService, LeaveService,
                           ReadFails
                  <4> QED BY <2>3, <3>1, <4>1, GotoPoint
                          DEF LoadOrGenerateKeypair, KeyAlreadyExists, NotYetEnrolled, TypeInv, TypeOK
            <3>2. CASE p = "keypair"
                  <4>1. BeginAttempt(a)
                        BY <1>n, <2>3, <3>2, GotoPoint DEF Start, EnsureEnrolled, LoadMachineIdentity,
                           LoadOrGenerateKeypair, ReloadIdentity, BackOff, EnterService,
                           LeaveService, ReadFails
                  <4> QED BY <1>n, <2>3, <3>2, <4>1, GotoPoint DEF BeginAttempt
            <3>3. CASE p = "pin"
                  <4>1. ReloadIdentity(a)
                        BY <1>n, <2>3, <3>3, GotoPoint DEF Start, EnsureEnrolled, LoadMachineIdentity,
                           BeginAttempt, LoadOrGenerateKeypair, BackOff, EnterService,
                           LeaveService, ReadFails
                  <4> QED BY <3>3, <4>1 DEF ReloadIdentity, TypeInv, InHand
            <3> QED BY <3>1, <3>2, <3>3
      <2>7. p \in {"pin", "ready", "polling"}
              => identity'[a] \in registered /\ identity'[a].key = files.private
            <3>1. CASE LoadMachineIdentity(a) \/ ReloadIdentity(a)
                  <4>1. files.record # 0 /\ identity'[a] = Identity(files.record, files.private)
                        BY <3>1 DEF LoadMachineIdentity, ReloadIdentity, TypeInv, TypeOK, InHand
                  <4> QED BY <4>1 DEF KnownToServer, Identity
            <3>2. CASE EnterService(a)
                  <4>1. /\ pc[a] = "ready"
                        /\ identity' = [identity EXCEPT ![a].key = files.private]
                        BY <1>n, <3>2 DEF EnterService
                  <4>2. identity[a] \in Machine /\ identity[a] \in registered
                        /\ identity[a].key = files.private
                        BY <4>1 DEF TypeInv, InHand, KnownToServer
                  <4>3. [identity[a] EXCEPT !.key = files.private] = identity[a]
                        BY <4>2 DEF Machine
                  <4>4. identity'[a] = identity[a]
                        BY <4>1, <4>3 DEF TypeInv, TypeOK
                  <4> QED BY <4>2, <4>4
            <3>3. CASE ~(LoadMachineIdentity(a) \/ ReloadIdentity(a) \/ EnterService(a))
                  BY <1>n, <2>3, <3>3, GotoPoint DEF Start, EnsureEnrolled, BeginAttempt,
                     LoadOrGenerateKeypair, BackOff, LeaveService, ReadFails
            <3> QED BY <3>1, <3>2, <3>3
      <2>8. KeysInOrder(a)'
            BY <1>0, <2>3, <2>6 DEF KeysInOrder, KeyFilesAgree
      <2>9. NotYetEnrolled(a)'
            BY <1>0, <2>3, <2>6 DEF NotYetEnrolled, Attempting
      <2>10. KnownToServer(a)'
            BY <1>0, <2>3, <2>7 DEF KnownToServer
      <2>11. SoundPin(a)'
            BY <1>0, <2>1, <2>3, <2>6 DEF SoundPin, PinWasValidated
      <2> QED BY <2>5, <2>8, <2>9, <2>10, <2>11
<1> QED BY <1>s, <1>e, <1>n

\* The key files: the private one is written only where there is neither, the
\* public one only beside its private one.
LEMMA SoleKeyWrite ==
    ASSUME NEW a, Agents = {a}, TypeInv, SoleInv(a),
           \/ pc[a] = "writePrivate" /\ files' \in {files, WithPrivateKey(a)}
           \/ pc[a] = "writePublic" /\ files' \in {files, [files EXCEPT !.public = keypair[a]]},
           \/ pc'[a] = "backoff"
           \/ pc[a] = "writePrivate" /\ files' = WithPrivateKey(a) /\ pc'[a] = "writePublic"
           \/ pc[a] = "writePublic" /\ pc'[a] = "post",
           UNCHANGED <<keypair, waiting, lastResponse, identity, inflight, replies, registered>>
    PROVE  Kept /\ SoleInv(a)'
<1> USE DEF SoleInv
<1>1. /\ files \in [private : Keys \cup {None}, public : Keys \cup {None},
                    record : Requests \cup {0}, pin : {SigningKey, Malformed, None}]
      /\ keypair[a] \in Keys /\ None \notin Keys
      BY ConstantTypes DEF TypeInv, TypeOK, InHand, Attempting
<1>2. files'.record = files.record /\ files'.pin = files.pin /\ files.record = 0
      BY <1>1 DEF WithPrivateKey, NotYetEnrolled, Attempting
<1>3. \/ files'.private = files.private /\ files'.public = files.public
      \/ /\ files.private = None /\ files.public = None
         /\ files'.private = keypair[a] /\ files'.public = None
      \/ /\ files.private = keypair[a] /\ files'.private = keypair[a]
         /\ files'.public = keypair[a]
      BY <1>1 DEF WithPrivateKey, KeysInOrder
<1>4. pc'[a] = "writePublic" => files'.private = keypair[a]
      BY <1>1 DEF WithPrivateKey
<1>5. pc'[a] = "post" => files'.private = keypair[a]
      BY <1>1, <1>3 DEF KeysInOrder
<1>6. Kept
      BY <1>1, <1>2, <1>3 DEF Kept, KeysInOrder, KeyFilesAgree
<1>7. KeysInOrder(a)'
      BY <1>1, <1>3, <1>4, <1>5 DEF KeysInOrder, KeyFilesAgree
<1>8. NotYetEnrolled(a)' /\ KnownToServer(a)' /\ SoundPin(a)'
      BY <1>2 DEF NotYetEnrolled, KnownToServer, SoundPin, PinWasValidated
<1>9. OwnExchange(a)'
      BY DEF OwnExchange
<1> QED BY <1>6, <1>7, <1>8, <1>9

\* The machine record: only a validated response's, and only the first.
LEMMA SoleRecordWrite ==
    ASSUME NEW a, Agents = {a}, TypeInv, SoleInv(a),
           pc[a] = "persist", ValidResponse(lastResponse[a]),
           files' \in {files, [files EXCEPT !.record = lastResponse[a].id]},
           \/ pc'[a] = "backoff"
           \/ /\ pc'[a] = "pin" /\ files' = [files EXCEPT !.record = lastResponse[a].id]
              /\ identity'[a] = Identity(lastResponse[a].id, keypair[a]),
           UNCHANGED <<keypair, waiting, lastResponse, inflight, replies, registered>>
    PROVE  Kept /\ SoleInv(a)'
<1> USE DEF SoleInv
<1>1. /\ files \in [private : Keys \cup {None}, public : Keys \cup {None},
                    record : Requests \cup {0}, pin : {SigningKey, Malformed, None}]
      /\ keypair[a] \in Keys /\ None \notin Keys
      BY ConstantTypes DEF TypeInv, TypeOK, InHand, Attempting
<1>2. /\ files'.private = files.private /\ files'.public = files.public
      /\ files'.pin = files.pin /\ files.record = 0
      /\ files'.record # 0 => files'.record = lastResponse[a].id
      /\ pc'[a] = "pin" => files'.record = lastResponse[a].id
      BY <1>1 DEF NotYetEnrolled, Attempting
<1>3. /\ files.private = keypair[a]
      /\ Identity(lastResponse[a].id, keypair[a]) \in registered
      BY DEF KeysInOrder, OwnExchange, ValidResponse
<1>4. Kept /\ KeysInOrder(a)' /\ NotYetEnrolled(a)'
      BY <1>2 DEF Kept, KeysInOrder, KeyFilesAgree, NotYetEnrolled, Attempting
<1>5. KnownToServer(a)'
      BY <1>2, <1>3 DEF KnownToServer, Identity
<1>6. SoundPin(a)'
      BY <1>2 DEF SoundPin, PinWasValidated, ValidResponse
<1>7. OwnExchange(a)'
      BY DEF OwnExchange
<1> QED BY <1>4, <1>5, <1>6, <1>7

\* The pin.
LEMMA SolePinWrite ==
    ASSUME NEW a, Agents = {a}, TypeInv, SoleInv(a),
           pc[a] = "pin", files' \in {files, WithPin(a)},
           \/ pc'[a] = "ready" /\ identity'[a] = identity[a] /\ lastResponse'[a] = lastResponse[a]
           \/ pc'[a] = "off" /\ lastResponse'[a] = None,
           waiting'[a] = 0, UNCHANGED <<inflight, replies, registered>>
    PROVE  Kept /\ SoleInv(a)'
<1> USE DEF SoleInv
<1>1. /\ files \in [private : Keys \cup {None}, public : Keys \cup {None},
                    record : Requests \cup {0}, pin : {SigningKey, Malformed, None}]
      BY DEF TypeInv, TypeOK
<1>2. /\ files'.private = files.private /\ files'.public = files.public
      /\ files'.record = files.record /\ files.record # 0
      /\ files.pin # None => files'.pin = files.pin
      /\ files'.pin # Malformed
      BY <1>1 DEF WithPin, SoundPin, PinWasValidated
<1>3. Kept /\ KeysInOrder(a)' /\ NotYetEnrolled(a)'
      BY <1>2 DEF Kept, KeysInOrder, KeyFilesAgree, NotYetEnrolled, Attempting
<1>4. KnownToServer(a)' /\ SoundPin(a)'
      BY <1>2 DEF KnownToServer, SoundPin, PinWasValidated
<1>5. \A m \in inflight \cup registered : m.id # 0
      BY ConstantTypes DEF TypeInv, TypeOK
<1>6. OwnExchange(a)'
      BY <1>5 DEF OwnExchange
<1> QED BY <1>3, <1>4, <1>6

\* The steps that write files, with the failures of their writes.
LEMMA SoleWriting ==
    ASSUME NEW a, Agents = {a}, TypeInv, SoleInv(a),
           \/ WritePrivateKey(a) \/ WritePublicKey(a) \/ PersistMachineIdentity(a)
           \/ Pin(a) \/ WriteFails(a)
    PROVE  Kept /\ SoleInv(a)'
<1> USE DEF network
<1>1. CASE WritePrivateKey(a)
      BY <1>1, SoleKeyWrite, GotoPoint DEF WritePrivateKey
<1>2. CASE WritePublicKey(a)
      BY <1>2, SoleKeyWrite, GotoPoint DEF WritePublicKey
<1>3. CASE PersistMachineIdentity(a)
      <2>1. CASE ValidResponse(lastResponse[a])
            <3>1. pc'[a] = "pin" /\ identity'[a] = Identity(lastResponse[a].id, keypair[a])
                  BY <1>3, <2>1, GotoPoint DEF PersistMachineIdentity, TypeInv, TypeOK
            <3> QED BY <1>3, <2>1, <3>1, SoleRecordWrite DEF PersistMachineIdentity
      <2>2. CASE ~ValidResponse(lastResponse[a])
            <3>1. pc'[a] = "backoff" /\ UNCHANGED <<files, identity>>
                  BY <1>3, <2>2, GotoPoint DEF PersistMachineIdentity
            <3> QED BY <1>3, <3>1
                    DEF PersistMachineIdentity, Kept, SoleInv, KeysInOrder, KeyFilesAgree,
                        NotYetEnrolled, Attempting, OwnExchange, KnownToServer, SoundPin,
                        PinWasValidated
      <2> QED BY <2>1, <2>2
<1>4. CASE Pin(a)
      <2>1. waiting[a] = 0
            BY <1>4 DEF Pin, SoleInv, OwnExchange
      <2> QED BY <1>4, <2>1, SolePinWrite, GotoPoint DEF Pin
<1>5. CASE WriteFails(a)
      <2>1. CASE pc[a] = "pin" /\ files' \in {files, WithPin(a)} /\ Exit(a)
            BY <1>5, <2>1, SolePinWrite, ExitTypes DEF WriteFails, TypeInv
      <2>2. CASE ~(pc[a] = "pin" /\ files' \in {files, WithPin(a)} /\ Exit(a))
            <3>1. /\ pc'[a] = "backoff"
                  /\ UNCHANGED <<token, keypair, waiting, lastResponse, identity, shutdown>>
                  BY <1>5, <2>2, GotoPoint DEF WriteFails
            <3> QED BY <1>5, <2>2, <3>1, SoleKeyWrite, SoleRecordWrite DEF WriteFails
      <2> QED BY <2>1, <2>2
<1> QED BY <1>1, <1>2, <1>3, <1>4, <1>5

\* The exchange with the server.
LEMMA SoleExchange ==
    ASSUME NEW a, Agents = {a}, TypeInv, SoleInv(a),
           Post(a) \/ ReceiveReply(a) \/ PostFails(a) \/ Crash(a)
    PROVE  SoleInv(a)'
<1> USE DEF SoleInv
<1>0. \A m \in inflight \cup registered : m.id # 0 /\ m.id \in Requests
      BY ConstantTypes DEF TypeInv, TypeOK
<1>u. UNCHANGED <<files, registered>>
      BY DEF Post, ReceiveReply, PostFails, Crash
<1>1. CASE Post(a)
      <2>1. PICK n \in FreeRequests :
              /\ inflight' = inflight \cup {[id |-> n, key |-> keypair[a]]}
              /\ waiting' = [waiting EXCEPT ![a] = n]
            BY <1>1 DEF Post
      <2>2. n # 0 /\ \A m \in inflight \cup registered : m.id # n
            BY ConstantTypes DEF FreeRequests
      <2>3. /\ pc'[a] = "await" /\ waiting'[a] = n
            /\ UNCHANGED <<keypair, lastResponse, identity, replies>>
            BY <1>1, <2>1, GotoPoint DEF Post, TypeInv, TypeOK
      <2>4. \A m \in inflight' \cup registered : m.id = n => m.key = keypair[a]
            BY <2>1, <2>2
      <2>5. OwnExchange(a)'
            BY <1>u, <2>2, <2>3, <2>4 DEF OwnExchange
      <2>6. KeysInOrder(a)' /\ NotYetEnrolled(a)'
            BY <1>1, <1>u, <2>3 DEF Post, KeysInOrder, KeyFilesAgree, NotYetEnrolled, Attempting
      <2> QED BY <1>u, <2>3, <2>5, <2>6 DEF KnownToServer, SoundPin, PinWasValidated
<1>2. CASE ReceiveReply(a)
      <2>1. /\ pc[a] = "await" /\ files.record = 0 /\ files.private = keypair[a]
            /\ UNCHANGED <<keypair, identity>>
            BY <1>2 DEF ReceiveReply, NotYetEnrolled, Attempting, KeysInOrder
      <2>2. pc'[a] \in {"backoff", "persist"}
            BY <1>2, GotoPoint DEF ReceiveReply
      <2>3. KeysInOrder(a)' /\ NotYetEnrolled(a)' /\ KnownToServer(a)' /\ SoundPin(a)'
            BY <1>u, <2>1, <2>2
            DEF KeysInOrder, KeyFilesAgree, NotYetEnrolled, KnownToServer, SoundPin,
                PinWasValidated
      <2> QED BY <1>2, <2>3, OwnReply
<1>3. CASE PostFails(a) \/ Crash(a)
      <2>1. /\ pc'[a] \in {"backoff", "off"} /\ waiting'[a] = 0
            /\ lastResponse'[a] \in {lastResponse[a], None}
            /\ UNCHANGED inflight /\ \A r \in replies' : r \in replies
            <3>1. CASE PostFails(a)
                  BY <3>1, GotoPoint DEF PostFails, TypeInv, TypeOK
            <3>2. CASE Crash(a)
                  BY <3>2, ExitTypes DEF Crash, TypeInv
            <3> QED BY <1>3, <3>1, <3>2
      <2>2. OwnExchange(a)'
            BY <1>0, <1>u, <2>1 DEF OwnExchange
      <2>3. KeysInOrder(a)' /\ NotYetEnrolled(a)' /\ KnownToServer(a)' /\ SoundPin(a)'
            BY <1>u, <2>1
            DEF KeysInOrder, KeyFilesAgree, NotYetEnrolled, Attempting, KnownToServer, SoundPin,
                PinWasValidated
      <2> QED BY <2>2, <2>3
<1> QED BY <1>1, <1>2, <1>3

\* The server changes what it knows, and forgets nothing.
LEMMA SoleServer ==
    ASSUME NEW a, Agents = {a}, TypeInv, SoleInv(a), ServerHandles
    PROVE  SoleInv(a)'
<1> USE DEF SoleInv
<1>1. UNCHANGED <<process, files>> /\ \A x \in registered : x \in registered'
      BY DEF ServerHandles, ServerEnrolls, ServerRejects
<1>2. OwnExchange(a)'
      BY ServerAnswers
<1>3. KeysInOrder(a)' /\ NotYetEnrolled(a)' /\ KnownToServer(a)' /\ SoundPin(a)'
      BY <1>1
      DEF process, KeysInOrder, KeyFilesAgree, NotYetEnrolled, KnownToServer, SoundPin,
          PinWasValidated
<1> QED BY <1>2, <1>3

LEMMA SoleStep ==
    ASSUME NEW a, Agents = {a}, TypeInv, SoleInv(a), [Next]_vars
    PROVE  SoleInv(a)' /\ (Kept \/ UNCHANGED vars)
<1>0. ASSUME UNCHANGED files PROVE Kept
      BY <1>0 DEF Kept
<1>1. ASSUME ProcessStep(a) \/ Fault(a) PROVE SoleInv(a)' /\ Kept
      <2>1. CASE \/ Start(a) \/ EnsureEnrolled(a) \/ LoadMachineIdentity(a) \/ BeginAttempt(a)
                 \/ LoadOrGenerateKeypair(a) \/ ReloadIdentity(a) \/ BackOff(a)
                 \/ EnterService(a) \/ LeaveService(a) \/ Signal(a) \/ ReadFails(a)
            <3>1. UNCHANGED files
                  BY <2>1 DEF Start, EnsureEnrolled, LoadMachineIdentity, BeginAttempt,
                     LoadOrGenerateKeypair, ReloadIdentity, BackOff, EnterService, LeaveService,
                     Signal, ReadFails
            <3> QED BY <1>0, <2>1, <3>1, SoleQuiet
      <2>2. CASE Post(a) \/ ReceiveReply(a) \/ PostFails(a) \/ Crash(a)
            <3>1. UNCHANGED files
                  BY <2>2 DEF Post, ReceiveReply, PostFails, Crash
            <3> QED BY <1>0, <2>2, <3>1, SoleExchange
      <2>3. CASE \/ WritePrivateKey(a) \/ WritePublicKey(a) \/ PersistMachineIdentity(a)
                 \/ Pin(a) \/ WriteFails(a)
            BY <2>3, SoleWriting
      <2> QED BY <1>1, <2>1, <2>2, <2>3 DEF ProcessStep, Fault
<1>2. CASE ServerHandles
      BY <1>0, <1>2, SoleServer DEF ServerHandles
<1>3. CASE Stabilize \/ UNCHANGED vars
      <2>1. UNCHANGED <<process, files, network>>
            BY <1>3 DEF Stabilize, vars
      <2> QED BY <1>0, <2>1
              DEF process, network, SoleInv, KeysInOrder, KeyFilesAgree, NotYetEnrolled,
                  OwnExchange, KnownToServer, SoundPin, PinWasValidated
<1> QED BY <1>1, <1>2, <1>3 DEF Next

LEMMA SoleAlways ==
    ASSUME NEW a, Agents = {a}
    PROVE  Spec => [](TypeInv /\ SoleInv(a))
<1>1. Init => TypeInv /\ SoleInv(a)
      BY TypeInit, SoleInit
<1>2. TypeInv /\ SoleInv(a) /\ [Next]_vars => (TypeInv /\ SoleInv(a))'
      BY TypeStep, SoleStep
<1> QED BY <1>1, <1>2, PTL DEF Spec

\* A host that runs one agent never has a machine record, nor serves with an
\* identity, that the server has not registered under the key on disk:
\* whatever replies are lost or late, writes fail or processes die between
\* enroll's key files, its POST and persist_machine_identity.
THEOREM IdentityIsRegistered ==
    ASSUME NEW a, Agents = {a}
    PROVE  Spec => []EnrolledIsRegistered
<1>1. TypeInv /\ SoleInv(a) => EnrolledIsRegistered
      BY DEF SoleInv, KnownToServer, EnrolledIsRegistered
<1> QED BY <1>1, SoleAlways, PTL

\* With one agent, write_keypair never leaves a public key without its private
\* key, so that no crash makes every later attempt end in KeyAlreadyExists.
THEOREM KeysAgree ==
    ASSUME NEW a, Agents = {a}
    PROVE  Spec => []KeyFilesAgree
<1>1. TypeInv /\ SoleInv(a) => KeyFilesAgree
      BY DEF SoleInv, KeysInOrder
<1> QED BY <1>1, SoleAlways, PTL

\* With one agent, pin_bundle_signing_key never pins a key out of a response
\* that validate_response refused, although the client remembers those.
THEOREM PinValidated ==
    ASSUME NEW a, Agents = {a}
    PROVE  Spec => []PinWasValidated
<1>1. TypeInv /\ SoleInv(a) => PinWasValidated
      BY DEF SoleInv, SoundPin
<1> QED BY <1>1, SoleAlways, PTL

\* With one agent, no retry, restart or failed write ever replaces a key file,
\* the machine record or the pin.
THEOREM FilesWrittenOnce ==
    ASSUME NEW a, Agents = {a}
    PROVE  Spec => WrittenOnce
<1>1. TypeInv /\ SoleInv(a) /\ [Next]_vars => [Kept]_vars
      BY SoleStep
<1>2. [Kept]_vars =>
        [/\ files.private # None => files'.private = files.private
         /\ files.public # None => files'.public = files.public
         /\ files.record # 0 => files'.record = files.record
         /\ files.pin # None => files'.pin = files.pin]_vars
      BY DEF Kept
<1> QED BY <1>1, <1>2, SoleAlways, PTL DEF Spec, WrittenOnce
=============================================================================
