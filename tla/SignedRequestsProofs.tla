----------------------- MODULE SignedRequestsProofs -----------------------
(***************************************************************************)
(* Theorems about SignedRequests: whatever the network does to the agent's *)
(* signed requests, the server does what was signed, once, and a heartbeat *)
(* recorded as ok is one it took; for any clock error, tolerance, timeout, *)
(* number of nonces, of copies and of generations.                         *)
(***************************************************************************)
EXTENDS SignedRequests, TLAPS

-----------------------------------------------------------------------------
(* The inductive invariant.                                                 *)

\* What is on the wire is a request of the agent with its own signature.
Copies ==
    [request : Requests, signature : {SignRequest(r) : r \in Requests}, live : BOOLEAN,
     sent : {Contents(r) : r \in Requests}]

IsSigned(c) == c.signature = SignRequest(c.request) /\ c.sent = Contents(c.request)

WireInv == \A c \in net : c \in Copies /\ IsSigned(c)

\* Copies of one request are of one age, also the one the server remembers; when
\* it has forgotten what it took, every copy left is outside its tolerance.
AgeInv ==
    /\ \A c, d \in net : c.request.nonce = d.request.nonce => c.request.age = d.request.age
    /\ \A c \in net :
          IF seen[c.request.nonce] = Forgotten
          THEN acted[c.request.nonce] # "nothing" => c.request.age > Window
          ELSE c.request.age = seen[c.request.nonce]

Calls == {"heartbeat", "bundle", "ack"}

\* The agent waits for one copy at most, that of its call, and not once it has
\* an answer; what it acknowledges has an outcome.
CallInv ==
    /\ \A c \in net : c.live => /\ c.request.nonce = call.nonce
                                /\ call.kind \in Calls
                                /\ reply = NoReply
    /\ \A c, d \in net : c.live /\ d.live => c = d
    /\ call.kind # "idle" => call.nonce \in Nonces
    /\ call.kind = "apply" => call.outcome # "none"

\* The answer that makes a heartbeat ok.
OkReply ==
    /\ IsSuccess(reply.status)
    /\ reply.body # Unreadable
    /\ ValidateResponse(reply.body)

ReplyInv == call.kind = "heartbeat" /\ OkReply => acted[call.nonce] = "once"

IInv == TypeOK /\ WireInv /\ AgeInv /\ CallInv /\ ReplyInv /\ ActsOnceAsSigned

-----------------------------------------------------------------------------
(* Lemmas about the operators.                                              *)

LEMMA ConstantTypes ==
    /\ Window \in Nat /\ Forgotten \in Nat /\ Forgotten = Window + 1
    /\ \A a \in (-Window)..Forgotten : a \in Int
    /\ Forgotten \in (-Window)..Forgotten
    /\ 0 \in Generations /\ MaxGeneration \in Generations
    /\ \A n \in Nonces : n # 0
BY SignedRequestsAssumption DEF Forgotten, Generations, Nonces

\* A second later.
LEMMA OlderFacts ==
    /\ \A a \in Int : Older(a) \in Int
    /\ \A a \in Int : a > Window => Older(a) > Window
    /\ \A a \in (-Window)..Forgotten : Older(a) \in (-Window)..Forgotten
    /\ Older(Forgotten) = Forgotten
    /\ \A a \in (-Window)..Forgotten : a # Forgotten /\ Older(a) = Forgotten => Older(a) > Window
BY ConstantTypes DEF Older

\* A signature binds all that is signed: whatever request verifies against the
\* signature of r is r, but for the headers that are not signed.
LEMMA SignatureBinds ==
    ASSUME NEW r \in Requests, NEW q \in Requests, Authentic(q, SignRequest(r))
    PROVE  q.age = r.age /\ q.nonce = r.nonce /\ Contents(q) = Contents(r)
<1>1. CanonicalString(q) = CanonicalString(r)
      BY DEF Authentic, SignRequest, Sign
<1>2. /\ q.age = r.age /\ q.nonce = r.nonce /\ q.method = r.method /\ q.path = r.path
      /\ BodySha256Hex(q.body) = BodySha256Hex(r.body)
      BY <1>1 DEF CanonicalString
<1>3. q.body = r.body
      BY <1>2 DEF BodySha256Hex
<1> QED BY <1>2, <1>3 DEF Contents

\* A copy of a request, and a copy nobody waits for.
LEMMA CopyFields ==
    /\ \A r \in Requests : /\ Copy(r) \in Copies /\ IsSigned(Copy(r))
                           /\ Copy(r).request = r /\ Copy(r).live
    /\ \A c \in Copies : /\ [c EXCEPT !.live = FALSE] \in Copies
                         /\ IsSigned(c) => IsSigned([c EXCEPT !.live = FALSE])
                         /\ [c EXCEPT !.live = FALSE].request = c.request
                         /\ ~[c EXCEPT !.live = FALSE].live
<1>1. ASSUME NEW r \in Requests
      PROVE  /\ Copy(r) \in Copies /\ IsSigned(Copy(r))
             /\ Copy(r).request = r /\ Copy(r).live
      BY DEF Copy, Copies, IsSigned
<1>2. ASSUME NEW c \in Copies
      PROVE  /\ [c EXCEPT !.live = FALSE] \in Copies
             /\ IsSigned(c) => IsSigned([c EXCEPT !.live = FALSE])
             /\ [c EXCEPT !.live = FALSE].request = c.request
             /\ ~[c EXCEPT !.live = FALSE].live
      BY DEF Copies, IsSigned
<1> QED BY <1>1, <1>2

\* The signature of a request that was put off is still its signature.
LEMMA CopyAged ==
    ASSUME NEW c \in Copies, IsSigned(c)
    PROVE  /\ Aged(c) \in Copies /\ IsSigned(Aged(c)) /\ (Aged(c).live <=> c.live)
           /\ Aged(c).request.age = Older(c.request.age)
           /\ Aged(c).request.nonce = c.request.nonce
<1>0. PICK r \in Requests : r = c.request
      BY DEF Copies
<1>q. PICK q : q = [r EXCEPT !.age = Older(r.age)]
      OBVIOUS
<1>1. Older(r.age) \in Int
      BY OlderFacts DEF Requests
<1>2. /\ q \in Requests /\ q.age = Older(r.age) /\ q.nonce = r.nonce /\ q.method = r.method
      /\ q.path = r.path /\ q.body = r.body /\ q.machine_id = r.machine_id
      BY <1>q, <1>1 DEF Requests
<1>3. [CanonicalString(r) EXCEPT ![3] = Older(r.age)] = CanonicalString(q)
      BY <1>2 DEF CanonicalString
<1>4. Contents(q) = Contents(r)
      BY <1>2 DEF Contents
<1>5. c.signature = [key |-> "m", text |-> CanonicalString(r)] /\ CanonicalString(r)[3] = r.age
      BY <1>0 DEF IsSigned, SignRequest, Sign, CanonicalString
<1>6. [c.signature EXCEPT !.text[3] = Older(@)] = SignRequest(q)
      <2>1. [c.signature EXCEPT !.text[3] = Older(@)]
              = [key |-> "m", text |-> [CanonicalString(r) EXCEPT ![3] = Older(r.age)]]
            BY <1>5
      <2> QED BY <1>3, <2>1 DEF SignRequest, Sign
<1>7. /\ Aged(c).request = q /\ Aged(c).signature = SignRequest(q)
      /\ Aged(c).sent = c.sent /\ (Aged(c).live <=> c.live)
      BY <1>0, <1>q, <1>6 DEF Aged, Copies
<1>8. Aged(c) \in Copies
      BY <1>0, <1>2, <1>q, <1>6 DEF Aged, Copies
<1> QED BY <1>0, <1>2, <1>4, <1>7, <1>8 DEF IsSigned

\* A change on the way leaves a request.
LEMMA ChangedTypes ==
    ASSUME NEW r \in Requests, NEW q \in Changed(r)
    PROVE  q \in Requests
BY ConstantTypes DEF Changed, Requests, Body, Bodies, FreeNonces, Unmentioned

\* What the server answers.
LEMMA AnswerTypes ==
    ASSUME TypeOK, NEW r \in Requests, NEW x \in Answers(r)
    PROVE  x \in [status : {0, 200, 304, 401, 404, 502}, bundle : Generations,
                  body : {HeartbeatResponse} \cup Damaged(HeartbeatResponse)]
<1> DEFINE T == [status : {0, 200, 304, 401, 404, 502}, bundle : Generations,
                 body : {HeartbeatResponse} \cup Damaged(HeartbeatResponse)]
<1>1. ASSUME NEW s \in {0, 200, 304, 401, 404, 502}, NEW n \in Generations,
             NEW b \in {HeartbeatResponse} \cup Damaged(HeartbeatResponse)
      PROVE  Reply(s, b, n) \in T
      BY DEF Reply
<1>2. Unreadable \in Damaged(HeartbeatResponse) /\ 0 \in Generations /\ published \in Generations
      BY ConstantTypes DEF Damaged, TypeOK
<1> HIDE DEF T
<1>3. CASE r.path = HEARTBEAT_PATH
      <2>1. PICK b \in {HeartbeatResponse} \cup Damaged(HeartbeatResponse) : x = Reply(200, b, 0)
            BY <1>3 DEF Answers, HEARTBEAT_PATH, CA_BUNDLE_PATH, CA_BUNDLE_ACK_PATH
      <2> QED BY <1>1, <1>2, <2>1 DEF T
<1>4. CASE r.path = CA_BUNDLE_PATH
      <2>0. CA_BUNDLE_PATH # HEARTBEAT_PATH /\ CA_BUNDLE_PATH # CA_BUNDLE_ACK_PATH
            BY DEF HEARTBEAT_PATH, CA_BUNDLE_PATH, CA_BUNDLE_ACK_PATH
      <2>1. CASE published = 0
            <3>1. x \in {Reply(404, Unreadable, 0), Reply(304, Unreadable, 0)}
                  BY <1>4, <2>0, <2>1 DEF Answers
            <3> QED BY <1>1, <1>2, <3>1 DEF T
      <2>2. CASE published # 0 /\ published = r.etag
            <3>1. x = Reply(304, Unreadable, 0)
                  BY <1>4, <2>0, <2>2 DEF Answers
            <3> QED BY <1>1, <1>2, <3>1 DEF T
      <2>3. CASE published \notin {0, r.etag}
            <3>1. PICK n \in {published, 0} : x = Reply(200, Unreadable, n)
                  BY <1>4, <2>0, <2>3 DEF Answers
            <3> QED BY <1>1, <1>2, <3>1 DEF T
      <2> QED BY <2>1, <2>2, <2>3
<1>5. CASE r.path = CA_BUNDLE_ACK_PATH
      <2>1. x = Reply(200, Unreadable, 0)
            BY <1>5 DEF Answers, HEARTBEAT_PATH, CA_BUNDLE_PATH, CA_BUNDLE_ACK_PATH
      <2> QED BY <1>1, <1>2, <2>1 DEF T
<1> QED BY <1>3, <1>4, <1>5 DEF T, Requests, Paths

-----------------------------------------------------------------------------
LEMMA InitIInv == Init => IInv
<1> SUFFICES ASSUME Init PROVE IInv
    OBVIOUS
<1>1. call.kind = "idle" /\ net = {}
      BY DEF Init, Idle
<1>2. /\ reply \in [status : {0, 200, 304, 401, 404, 502}, bundle : Generations,
                    body : {HeartbeatResponse} \cup Damaged(HeartbeatResponse)]
      BY ConstantTypes DEF Init, NoReply, Reply, Damaged
<1>3. call \in [kind : {"idle", "heartbeat", "bundle", "apply", "ack"}, nonce : Nonces \cup {0},
                waited : Nat, outcome : {"none", "applied", "rollback"}, bundle : Generations]
      BY ConstantTypes DEF Init, Idle
<1>4. TypeOK
      BY <1>1, <1>2, <1>3, ConstantTypes DEF Init, TypeOK
<1>5. WireInv /\ AgeInv /\ CallInv /\ ReplyInv /\ ActsOnceAsSigned
      BY <1>1 DEF Init, WireInv, AgeInv, CallInv, ReplyInv, ActsOnceAsSigned
<1> QED BY <1>4, <1>5 DEF IInv

-----------------------------------------------------------------------------
(* The agent.                                                               *)

\* A new request has a nonce nobody mentions.
LEMMA SendKeeps ==
    ASSUME IInv, NEW kind \in Calls, NEW method \in {"GET", "POST"}, NEW path \in Paths,
           NEW body \in Bodies, NEW etag \in Generations,
           NEW outcome \in {"none", "applied", "rollback"}, NEW about \in Generations,
           Send(kind, method, path, body, etag, outcome, about),
           call.kind \notin Calls,
           UNCHANGED <<due, applied, generation, heartbeatOk, server, stable>>
    PROVE  IInv'
<1> USE DEF IInv
<1>1. PICK n \in FreeNonces, age \in AgesNow :
        /\ net' = net \cup {Copy(Request(age, n, method, path, body, etag))}
        /\ acted' = [acted EXCEPT ![n] = "nothing"]
        /\ call' = [kind |-> kind, nonce |-> n, waited |-> 0, outcome |-> outcome, bundle |-> about]
      BY DEF Send, GenerateNonce
<1>2. reply' = NoReply
      BY DEF Send
<1>3. age \in Int /\ n \in Nonces /\ seen[n] = Forgotten /\ \A c \in net : c.request.nonce # n
      BY SignedRequestsAssumption DEF AgesNow, FreeNonces, Unmentioned
<1>r. PICK r : r = Request(age, n, method, path, body, etag)
      OBVIOUS
<1>4. r \in Requests /\ r.nonce = n
      BY <1>3, <1>r DEF Request, Requests
<1>5. Copy(r) \in Copies /\ IsSigned(Copy(r)) /\ Copy(r).request = r
      BY <1>4, CopyFields
<1>6. net' = net \cup {Copy(r)}
      BY <1>1, <1>r
<1>7. /\ call'.kind = kind /\ call'.nonce = n
      /\ call' \in [kind : {"idle", "heartbeat", "bundle", "apply", "ack"},
                    nonce : Nonces \cup {0}, waited : Nat,
                    outcome : {"none", "applied", "rollback"}, bundle : Generations]
      BY <1>1, <1>3 DEF Calls
<1>8. /\ acted' \in [Nonces -> {"nothing", "once", "otherwise"}] /\ acted'[n] = "nothing"
      /\ \A m \in Nonces : m # n => acted'[m] = acted[m]
      BY <1>1, <1>3 DEF TypeOK
<1>9. TypeOK'
      <2>1. /\ reply' \in [status : {0, 200, 304, 401, 404, 502}, bundle : Generations,
                           body : {HeartbeatResponse} \cup Damaged(HeartbeatResponse)]
            BY <1>2, ConstantTypes DEF NoReply, Reply, Damaged
      <2> QED BY <1>4, <1>5, <1>6, <1>7, <1>8, <2>1 DEF TypeOK, server
<1>10. WireInv'
      BY <1>5, <1>6 DEF WireInv
<1>11. AgeInv'
      <2>1. \A c \in net : c.request.nonce \in Nonces /\ acted'[c.request.nonce] = acted[c.request.nonce]
            BY <1>3, <1>8 DEF TypeOK, Requests
      <2>2. ASSUME NEW c \in net', NEW d \in net', c.request.nonce = d.request.nonce
            PROVE  c.request.age = d.request.age
            BY <1>3, <1>4, <1>5, <1>6, <2>2 DEF AgeInv
      <2>3. ASSUME NEW c \in net'
            PROVE  IF seen[c.request.nonce] = Forgotten
                   THEN acted'[c.request.nonce] # "nothing" => c.request.age > Window
                   ELSE c.request.age = seen[c.request.nonce]
            BY <1>3, <1>4, <1>5, <1>6, <1>8, <2>1 DEF AgeInv
      <2> QED BY <2>2, <2>3 DEF AgeInv, server
<1>12. CallInv'
      <2>1. \A c \in net : ~c.live
            BY DEF CallInv
      <2> QED BY <1>2, <1>3, <1>4, <1>5, <1>6, <1>7, <2>1 DEF CallInv, Calls
<1>13. ReplyInv'
      BY <1>2 DEF ReplyInv, OkReply, NoReply, Reply
<1>14. ActsOnceAsSigned'
      BY <1>3, <1>8 DEF ActsOnceAsSigned
<1> QED BY <1>9, <1>10, <1>11, <1>12, <1>13, <1>14

\* A call is over: nobody waits for a copy any more.
LEMMA EndCallKeeps ==
    ASSUME IInv, EndCall, applied' \in Generations, generation' \in Generations,
           heartbeatOk' \in BOOLEAN, UNCHANGED <<server, acted, stable>>
    PROVE  IInv'
<1> USE DEF IInv
<1>1. /\ call' = Idle /\ call'.kind = "idle" /\ reply' = NoReply
      /\ net' = {[c EXCEPT !.live = FALSE] : c \in net}
      BY DEF EndCall, Idle
<1>2. ASSUME NEW d \in net'
      PROVE  /\ d \in Copies /\ IsSigned(d) /\ ~d.live
             /\ \E c \in net : c.request = d.request
      <2>1. PICK c \in net : d = [c EXCEPT !.live = FALSE]
            BY <1>1
      <2>2. c \in Copies /\ IsSigned(c)
            BY DEF WireInv
      <2> QED BY <2>1, <2>2, CopyFields
<1>3. TypeOK'
      <2>1. /\ reply' \in [status : {0, 200, 304, 401, 404, 502}, bundle : Generations,
                           body : {HeartbeatResponse} \cup Damaged(HeartbeatResponse)]
            BY <1>1, ConstantTypes DEF NoReply, Reply, Damaged
      <2>2. /\ call' \in [kind : {"idle", "heartbeat", "bundle", "apply", "ack"},
                          nonce : Nonces \cup {0}, waited : Nat,
                          outcome : {"none", "applied", "rollback"}, bundle : Generations]
            BY <1>1, ConstantTypes DEF Idle
      <2>3. due' \in {"none", "heartbeat", "sync"} \X {"heartbeat", "sync"}
            BY DEF EndCall, TypeOK
      <2> QED BY <1>2, <2>1, <2>2, <2>3 DEF TypeOK, server
<1>4. WireInv'
      BY <1>2 DEF WireInv
<1>5. AgeInv'
      BY <1>2 DEF AgeInv, server
<1>6. CallInv' /\ ReplyInv'
      BY <1>1, <1>2 DEF CallInv, ReplyInv
<1>7. ActsOnceAsSigned'
      BY DEF ActsOnceAsSigned
<1> QED BY <1>3, <1>4, <1>5, <1>6, <1>7

LEMMA AgentKeeps ==
    ASSUME IInv, Agent
    PROVE  IInv'
<1> USE DEF IInv
<1>0. /\ generation \in Generations /\ applied \in Generations /\ call.bundle \in Generations
      /\ reply.bundle \in Generations /\ heartbeatOk \in BOOLEAN /\ 0 \in Generations
      BY ConstantTypes DEF TypeOK
<1>1. CASE SendHeartbeat
      <2>1. Body("heartbeat", generation) \in Bodies
            BY <1>0 DEF Body, Bodies
      <2>2. call.kind \notin Calls
            BY <1>1 DEF SendHeartbeat, Idle, Calls
      <2> QED BY <1>0, <1>1, <2>1, <2>2, SendKeeps DEF SendHeartbeat, Calls, Paths
<1>2. CASE FetchBundle
      <2>1. Body("empty", 0) \in Bodies
            BY <1>0 DEF Body, Bodies
      <2>2. call.kind \notin Calls
            BY <1>2 DEF FetchBundle, Idle, Calls
      <2> QED BY <1>0, <1>2, <2>1, <2>2, SendKeeps DEF FetchBundle, Calls, Paths
<1>3. CASE SendAck
      <2>1. call.outcome \in {"applied", "rollback"} /\ call.kind \notin Calls
            BY <1>3 DEF SendAck, TypeOK, CallInv, Calls
      <2>2. Body(call.outcome, call.bundle) \in Bodies
            BY <1>0, <2>1 DEF Body, Bodies
      <2> QED BY <1>0, <1>3, <2>1, <2>2, SendKeeps DEF SendAck, Calls, Paths
<1>4. CASE HeartbeatReturns
      BY <1>0, <1>4, EndCallKeeps DEF HeartbeatReturns
<1>5. CASE BundleReturns
      BY <1>0, <1>5, EndCallKeeps DEF BundleReturns
<1>6. CASE ApplyBundle
      <2>1. PICK o \in {"applied", "rollback"} :
              call' = [call EXCEPT !.kind = "apply", !.outcome = o, !.bundle = reply.bundle]
            BY <1>6 DEF ApplyBundle
      <2>2. /\ call' \in [kind : {"idle", "heartbeat", "bundle", "apply", "ack"},
                          nonce : Nonces \cup {0}, waited : Nat,
                          outcome : {"none", "applied", "rollback"}, bundle : Generations]
            /\ call'.kind = "apply" /\ call'.outcome = o /\ call'.nonce = call.nonce
            <3>1. call \in [kind : {"idle", "heartbeat", "bundle", "apply", "ack"},
                            nonce : Nonces \cup {0}, waited : Nat,
                            outcome : {"none", "applied", "rollback"}, bundle : Generations]
                  BY DEF TypeOK
            <3>2. PICK b \in Generations : b = reply.bundle
                  BY <1>0
            <3>3. call' = [call EXCEPT !.kind = "apply", !.outcome = o, !.bundle = b]
                  BY <2>1, <3>2
            <3> QED BY <3>1, <3>3
      <2>3. /\ reply' = NoReply /\ applied' \in Generations /\ call.kind = "bundle"
            /\ UNCHANGED <<due, generation, heartbeatOk, net, server, acted, stable>>
            BY <1>0, <1>6 DEF ApplyBundle
      <2>n. reply # NoReply
            BY <1>6 DEF ApplyBundle, IsSuccess, NoReply, Reply
      <2>4. TypeOK'
            <3>1. /\ reply' \in [status : {0, 200, 304, 401, 404, 502}, bundle : Generations,
                                 body : {HeartbeatResponse} \cup Damaged(HeartbeatResponse)]
                  BY <2>3, ConstantTypes DEF NoReply, Reply, Damaged
            <3> QED BY <2>2, <2>3, <3>1 DEF TypeOK, server
      <2>5. WireInv' /\ AgeInv' /\ ActsOnceAsSigned'
            BY <2>3 DEF WireInv, AgeInv, server, ActsOnceAsSigned
      <2>6. CallInv' /\ ReplyInv'
            BY <2>2, <2>3, <2>n DEF CallInv, ReplyInv
      <2> QED BY <2>4, <2>5, <2>6
<1>7. CASE AckReturns
      BY <1>0, <1>7, EndCallKeeps DEF AckReturns
<1>8. CASE TransportFails
      BY <1>0, <1>8, EndCallKeeps DEF TransportFails
<1>9. CASE ApplyFails
      BY <1>0, <1>9, EndCallKeeps DEF ApplyFails
<1> QED BY <1>1, <1>2, <1>3, <1>4, <1>5, <1>6, <1>7, <1>8, <1>9 DEF Agent
-----------------------------------------------------------------------------
(* The server.                                                              *)

\* A request that the server takes is the one that was signed; it is the first
\* time, since a copy whose nonce is forgotten is too old to be taken.
LEMMA TakenOnce ==
    ASSUME IInv, NEW c \in net, NEW r \in Requests, Authentic(r, c.signature), Timely(r), Unseen(r)
    PROVE  /\ r.nonce = c.request.nonce /\ r.age = c.request.age /\ Contents(r) = c.sent
           /\ r.nonce \in Nonces /\ r.age \in (-Window)..Window /\ r.age # Forgotten
           /\ acted[r.nonce] = "nothing"
<1> USE DEF IInv
<1>1. c.request \in Requests /\ c.signature = SignRequest(c.request) /\ c.sent = Contents(c.request)
      BY DEF TypeOK, WireInv, IsSigned
<1>2. r.nonce = c.request.nonce /\ r.age = c.request.age /\ Contents(r) = Contents(c.request)
      BY <1>1, SignatureBinds
<1>3. r.nonce \in Nonces /\ r.age \in Int
      BY DEF Requests
<1>4. r.age \in (-Window)..Window /\ r.age # Forgotten /\ ~(r.age > Window)
      BY <1>3, ConstantTypes DEF Timely
<1>5. acted[r.nonce] = "nothing"
      BY <1>2, <1>4 DEF Unseen, AgeInv
<1> QED BY <1>1, <1>2, <1>3, <1>4, <1>5

\* What is left when a copy is off the wire.
LEMMA CopyGone ==
    ASSUME IInv, NEW c \in net, net' = net \ {c}, UNCHANGED agent,
           ~c.live => UNCHANGED reply
    PROVE  WireInv' /\ CallInv' /\ \A d \in net' : d.request \in Requests
<1> USE DEF IInv
<1>1. \A d \in net' : d \in net /\ (c.live => ~d.live)
      BY DEF CallInv
<1>2. UNCHANGED call
      BY DEF agent
<1>3. CallInv'
      <2>1. CASE c.live
            BY <1>1, <1>2, <2>1 DEF CallInv
      <2>2. CASE ~c.live
            BY <1>1, <1>2, <2>2 DEF CallInv
      <2> QED BY <2>1, <2>2
<1> QED BY <1>1, <1>3 DEF WireInv, TypeOK

LEMMA ReceiveKeeps ==
    ASSUME IInv, NEW c \in net, NEW r \in Requests, Receive(c, r)
    PROVE  IInv'
<1> USE DEF IInv
<1>0. /\ net' = net \ {c} /\ UNCHANGED <<due, call, applied, generation, heartbeatOk, published, stable>>
      /\ UNCHANGED agent
      BY DEF Receive, agent
<1>1. CASE Authentic(r, c.signature) /\ Timely(r) /\ Unseen(r)
      <2>1. /\ r.nonce = c.request.nonce /\ r.age = c.request.age /\ Contents(r) = c.sent
            /\ r.nonce \in Nonces /\ r.age \in (-Window)..Window /\ r.age # Forgotten
            /\ acted[r.nonce] = "nothing"
            BY <1>1, TakenOnce
      <2>2. /\ seen' = [seen EXCEPT ![r.nonce] = r.age]
            /\ acted' = [acted EXCEPT ![r.nonce] = "once"]
            /\ view' = IF r.path = HEARTBEAT_PATH THEN r.body.generation ELSE view
            /\ IF c.live THEN reply' \in Answers(r) ELSE UNCHANGED reply
            BY <1>1, <2>1 DEF Receive
      <2>3. WireInv' /\ CallInv' /\ \A d \in net' : d.request \in Requests
            BY <1>0, <2>2, CopyGone
      <2>4. /\ seen' \in [Nonces -> (-Window)..Forgotten] /\ seen'[r.nonce] = r.age
            /\ \A n \in Nonces : n # r.nonce => seen'[n] = seen[n]
            <3>1. r.age \in (-Window)..Forgotten
                  BY <2>1, ConstantTypes
            <3> QED BY <2>1, <2>2, <3>1 DEF TypeOK
      <2>5. /\ acted' \in [Nonces -> {"nothing", "once", "otherwise"}] /\ acted'[r.nonce] = "once"
            /\ \A n \in Nonces : n # r.nonce => acted'[n] = acted[n]
            BY <2>1, <2>2 DEF TypeOK
      <2>6. TypeOK'
            <3>1. view' \in Generations
                  BY <2>2 DEF Requests, Bodies, TypeOK
            <3>2. reply' \in [status : {0, 200, 304, 401, 404, 502}, bundle : Generations,
                              body : {HeartbeatResponse} \cup Damaged(HeartbeatResponse)]
                  <4>1. CASE c.live
                        BY <2>2, <4>1, AnswerTypes
                  <4>2. CASE ~c.live
                        BY <2>2, <4>2 DEF TypeOK
                  <4> QED BY <4>1, <4>2
            <3> QED BY <1>0, <2>3, <2>4, <2>5, <3>1, <3>2 DEF TypeOK
      <2>7. AgeInv'
            <3>1. \A d \in net' : d \in net /\ d.request.nonce \in Nonces
                  BY <1>0, <2>3 DEF Requests
            <3>2. ASSUME NEW d \in net'
                  PROVE  IF seen'[d.request.nonce] = Forgotten
                         THEN acted'[d.request.nonce] # "nothing" => d.request.age > Window
                         ELSE d.request.age = seen'[d.request.nonce]
                  <4>1. CASE d.request.nonce = r.nonce
                        BY <2>1, <2>4, <3>1, <4>1 DEF AgeInv
                  <4>2. CASE d.request.nonce # r.nonce
                        BY <2>4, <2>5, <3>1, <4>2 DEF AgeInv
                  <4> QED BY <4>1, <4>2
            <3> QED BY <3>1, <3>2 DEF AgeInv
      <2>8. ReplyInv'
            <3>1. CASE c.live
                  BY <1>0, <2>1, <2>5, <3>1 DEF ReplyInv, CallInv
            <3>2. CASE ~c.live
                  BY <1>0, <2>2, <2>5, <3>2 DEF ReplyInv, CallInv, OkReply
            <3> QED BY <3>1, <3>2
      <2>9. ActsOnceAsSigned'
            BY <2>5 DEF ActsOnceAsSigned
      <2> QED BY <2>3, <2>6, <2>7, <2>8, <2>9
<1>2. CASE ~(Authentic(r, c.signature) /\ Timely(r) /\ Unseen(r))
      <2>1. reply' = (IF c.live THEN Refused ELSE reply) /\ UNCHANGED <<seen, acted, view>>
            BY <1>2 DEF Receive
      <2>2. WireInv' /\ CallInv' /\ \A d \in net' : d.request \in Requests
            BY <1>0, <2>1, CopyGone
      <2>3. Refused \in [status : {0, 200, 304, 401, 404, 502}, bundle : Generations,
                         body : {HeartbeatResponse} \cup Damaged(HeartbeatResponse)]
            BY ConstantTypes DEF Refused, Reply, Damaged
      <2>4. TypeOK'
            BY <1>0, <2>1, <2>2, <2>3 DEF TypeOK
      <2>5. AgeInv' /\ ActsOnceAsSigned'
            BY <1>0, <2>1 DEF AgeInv, ActsOnceAsSigned
      <2>6. ReplyInv'
            <3>1. CASE c.live
                  BY <2>1, <3>1 DEF ReplyInv, OkReply, Refused, Reply, IsSuccess
            <3>2. CASE ~c.live
                  BY <1>0, <2>1, <3>2 DEF ReplyInv, OkReply
            <3> QED BY <3>1, <3>2
      <2> QED BY <2>2, <2>4, <2>5, <2>6
<1> QED BY <1>1, <1>2

-----------------------------------------------------------------------------
(* The network and the clocks.                                              *)

LEMMA LoseKeeps ==
    ASSUME IInv, Lose
    PROVE  IInv'
<1> USE DEF IInv
<1>1. PICK c \in net : /\ net' = net \ {c}
                       /\ reply' = IF c.live THEN Reply(502, Unreadable, 0) ELSE reply
      BY DEF Lose
<1>2. /\ UNCHANGED <<due, call, applied, generation, heartbeatOk, published, stable>>
      /\ UNCHANGED agent /\ UNCHANGED <<seen, view, acted>>
      BY DEF Lose, agent, server
<1>3. WireInv' /\ CallInv' /\ \A d \in net' : d.request \in Requests
      BY <1>1, <1>2, CopyGone
<1>4. Reply(502, Unreadable, 0) \in
        [status : {0, 200, 304, 401, 404, 502}, bundle : Generations,
         body : {HeartbeatResponse} \cup Damaged(HeartbeatResponse)]
      BY ConstantTypes DEF Reply, Damaged
<1>5. TypeOK'
      BY <1>1, <1>2, <1>3, <1>4 DEF TypeOK
<1>6. AgeInv' /\ ActsOnceAsSigned'
      BY <1>1, <1>2 DEF AgeInv, ActsOnceAsSigned
<1>7. ReplyInv'
      <2>1. CASE c.live
            BY <1>1, <2>1 DEF ReplyInv, OkReply, Reply, IsSuccess
      <2>2. CASE ~c.live
            BY <1>1, <1>2, <2>2 DEF ReplyInv, OkReply
      <2> QED BY <2>1, <2>2
<1> QED BY <1>3, <1>5, <1>6, <1>7

LEMMA DuplicateKeeps ==
    ASSUME IInv, Duplicate
    PROVE  IInv'
<1> USE DEF IInv
<1>1. PICK c \in net : net' = net \cup {[c EXCEPT !.live = FALSE]}
      BY DEF Duplicate
<1>2. UNCHANGED <<due, call, applied, generation, heartbeatOk, reply, seen, published, view, acted, stable>>
      BY DEF Duplicate, agent, server
<1>d. PICK d : d = [c EXCEPT !.live = FALSE]
      OBVIOUS
<1>3. c \in Copies /\ IsSigned(c)
      BY DEF WireInv
<1>4. d \in Copies /\ IsSigned(d) /\ d.request = c.request /\ ~d.live
      BY <1>3, <1>d, CopyFields
<1>5. net' = net \cup {d}
      BY <1>1, <1>d
<1>6. TypeOK'
      BY <1>2, <1>4, <1>5 DEF TypeOK
<1>7. WireInv' /\ CallInv'
      BY <1>2, <1>4, <1>5 DEF WireInv, CallInv
<1>8. AgeInv'
      <2>1. \A x \in net' : \E y \in net : x.request = y.request
            BY <1>4, <1>5
      <2> QED BY <1>2, <2>1 DEF AgeInv
<1>9. ReplyInv' /\ ActsOnceAsSigned'
      BY <1>2 DEF ReplyInv, OkReply, ActsOnceAsSigned
<1> QED BY <1>6, <1>7, <1>8, <1>9

\* A nonce of a copy or of the call under way is not forgotten about.
LEMMA TickKeeps ==
    ASSUME IInv, Tick
    PROVE  IInv'
<1> USE DEF IInv
<1>1. /\ net' = {Aged(c) : c \in net}
      /\ seen' = [n \in Nonces |-> Older(seen[n])]
      /\ acted' = [n \in Nonces |-> IF n \in Unmentioned(seen') THEN "nothing" ELSE acted[n]]
      /\ UNCHANGED <<applied, generation, heartbeatOk, reply, published, view, stable>>
      BY DEF Tick
<1>2. /\ call' \in [kind : {"idle", "heartbeat", "bundle", "apply", "ack"},
                    nonce : Nonces \cup {0}, waited : Nat,
                    outcome : {"none", "applied", "rollback"}, bundle : Generations]
      /\ call'.kind = call.kind /\ call'.nonce = call.nonce /\ call'.outcome = call.outcome
      <2>1. call \in [kind : {"idle", "heartbeat", "bundle", "apply", "ack"},
                      nonce : Nonces \cup {0}, waited : Nat,
                      outcome : {"none", "applied", "rollback"}, bundle : Generations]
            BY DEF TypeOK
      <2>2. call' = call \/ call' = [call EXCEPT !.waited = @ + 1]
            BY DEF Tick
      <2> QED BY <2>1, <2>2
<1>3. ASSUME NEW d \in net'
      PROVE  \E c \in net : /\ d = Aged(c)
                            /\ d \in Copies /\ IsSigned(d) /\ (d.live <=> c.live)
                            /\ d.request.age = Older(c.request.age)
                            /\ d.request.nonce = c.request.nonce
      <2>1. PICK c \in net : d = Aged(c)
            BY <1>1
      <2>2. c \in Copies /\ IsSigned(c)
            BY DEF WireInv
      <2> QED BY <2>1, <2>2, CopyAged
<1>4. \A c \in net : c.request.nonce \in Nonces /\ c.request.age \in Int
      BY DEF TypeOK, Requests
<1>5. /\ acted' \in [Nonces -> {"nothing", "once", "otherwise"}]
      /\ \A n \in Nonces : acted'[n] # "nothing" => acted'[n] = acted[n]
      /\ call.nonce \in Nonces => acted'[call.nonce] = acted[call.nonce]
      BY <1>1 DEF TypeOK, Unmentioned
<1>6. /\ seen' \in [Nonces -> (-Window)..Forgotten]
      /\ \A n \in Nonces : seen'[n] = Older(seen[n]) /\ seen[n] \in (-Window)..Forgotten
      BY <1>1, OlderFacts DEF TypeOK
<1>7. TypeOK'
      <2>1. due' \in {"none", "heartbeat", "sync"} \X {"heartbeat", "sync"}
            BY DEF Tick, TypeOK
      <2>2. \A d \in net' : d.request \in Requests
            BY <1>3 DEF Copies
      <2> QED BY <1>1, <1>2, <1>5, <1>6, <2>1, <2>2 DEF TypeOK
<1>8. WireInv'
      BY <1>3 DEF WireInv
<1>9. AgeInv'
      <2>1. ASSUME NEW d \in net', NEW e \in net', d.request.nonce = e.request.nonce
            PROVE  d.request.age = e.request.age
            BY <1>3, <2>1 DEF AgeInv
      <2>2. ASSUME NEW d \in net'
            PROVE  IF seen'[d.request.nonce] = Forgotten
                   THEN acted'[d.request.nonce] # "nothing" => d.request.age > Window
                   ELSE d.request.age = seen'[d.request.nonce]
            <3>1. PICK c \in net : /\ d.request.age = Older(c.request.age)
                                   /\ d.request.nonce = c.request.nonce
                  BY <1>3
            <3>2. PICK n \in Nonces : n = c.request.nonce
                  BY <1>4
            <3>3. /\ seen'[n] = Older(seen[n]) /\ seen[n] \in (-Window)..Forgotten
                  /\ acted'[n] # "nothing" => acted'[n] = acted[n]
                  BY <1>5, <1>6
            <3>4. IF seen[n] = Forgotten
                  THEN acted[n] # "nothing" => c.request.age > Window
                  ELSE c.request.age = seen[n]
                  BY <3>2 DEF AgeInv
            <3>5. CASE seen[n] = Forgotten
                  BY <1>4, <3>1, <3>2, <3>3, <3>4, <3>5, OlderFacts
            <3>6. CASE seen[n] # Forgotten
                  BY <3>1, <3>2, <3>3, <3>4, <3>6, OlderFacts
            <3> QED BY <3>5, <3>6
      <2> QED BY <2>1, <2>2 DEF AgeInv
<1>10. CallInv'
      <2>1. ASSUME NEW d \in net', d.live
            PROVE  d.request.nonce = call'.nonce /\ call'.kind \in Calls /\ reply' = NoReply
            BY <1>1, <1>2, <1>3, <2>1 DEF CallInv
      <2>2. ASSUME NEW d \in net', NEW e \in net', d.live, e.live
            PROVE  d = e
            BY <1>3, <2>2 DEF CallInv
      <2> QED BY <1>2, <2>1, <2>2 DEF CallInv
<1>11. ReplyInv'
      BY <1>1, <1>2, <1>5 DEF ReplyInv, OkReply, CallInv
<1>12. ActsOnceAsSigned'
      BY <1>5 DEF ActsOnceAsSigned
<1> QED BY <1>7, <1>8, <1>9, <1>10, <1>11, <1>12

-----------------------------------------------------------------------------
LEMMA NextKeeps ==
    ASSUME IInv, [Next]_vars
    PROVE  IInv'
<1>1. CASE Agent
      BY <1>1, AgentKeeps
<1>2. CASE ServerReceives
      <2>1. PICK c \in net : Receive(c, c.request)
            BY <1>2 DEF ServerReceives
      <2>2. c.request \in Requests
            BY DEF IInv, TypeOK
      <2> QED BY <2>1, <2>2, ReceiveKeeps
<1>3. CASE ServerReceivesChanged
      <2>1. PICK c \in net : \E r \in Changed(c.request) : Receive(c, r)
            BY <1>3 DEF ServerReceivesChanged
      <2>2. PICK r \in Changed(c.request) : Receive(c, r)
            BY <2>1
      <2>3. c.request \in Requests
            BY DEF IInv, TypeOK
      <2>4. r \in Requests
            BY <2>3, ChangedTypes
      <2> QED BY <2>2, <2>4, ReceiveKeeps
<1>4. CASE Tick
      BY <1>4, TickKeeps
<1>5. CASE Lose
      BY <1>5, LoseKeeps
<1>6. CASE Duplicate
      BY <1>6, DuplicateKeeps
<1>7. CASE Publish \/ Stabilise \/ UNCHANGED vars
      <2>1. /\ UNCHANGED <<due, call, applied, generation, heartbeatOk, reply, net, seen, view, acted>>
            /\ stable' \in BOOLEAN /\ published' \in Generations
            <3>1. published \in Generations /\ stable \in BOOLEAN /\ MaxGeneration \in Nat
                  BY SignedRequestsAssumption DEF IInv, TypeOK
            <3>2. CASE Publish
                  <4>1. published' \in Generations
                        BY <3>1, <3>2 DEF Publish, Generations
                  <4> QED BY <3>1, <3>2, <4>1 DEF Publish, agent
            <3>3. CASE Stabilise \/ UNCHANGED vars
                  BY <3>1, <3>3 DEF Stabilise, vars, agent, server
            <3> QED BY <1>7, <3>2, <3>3
      <2>2. TypeOK'
            BY <2>1 DEF IInv, TypeOK
      <2>3. WireInv' /\ AgeInv' /\ CallInv' /\ ReplyInv' /\ ActsOnceAsSigned'
            BY <2>1 DEF IInv, WireInv, AgeInv, CallInv, ReplyInv, OkReply, ActsOnceAsSigned
      <2> QED BY <2>2, <2>3 DEF IInv
<1> QED BY <1>1, <1>2, <1>3, <1>4, <1>5, <1>6, <1>7 DEF Next

LEMMA Invariance == Spec => []IInv
BY InitIInv, NextKeeps, PTL DEF Spec

\* The types of the agent's calls, the copies on the wire and the server's
\* memory of nonces.
THEOREM TypeCorrect == Spec => []TypeOK
<1>1. IInv => TypeOK
      BY DEF IInv
<1> QED BY <1>1, Invariance, PTL

\* What the server does in the agent's name is what the agent signed, and it
\* does it once, however far either clock is off and however often copies are
\* duplicated, put off or changed (canonical_string, generate_nonce).
THEOREM ActsOnce == Spec => []ActsOnceAsSigned
<1>1. IInv => ActsOnceAsSigned
      BY DEF IInv
<1> QED BY <1>1, Invariance, PTL

\* A heartbeat recorded as ok is one the server took (send_heartbeat): the
\* answer of a call is to its own request, and a refusal, a damaged body or a
\* gateway's answer is never recorded as ok.
THEOREM OkTaken == Spec => OkWasTaken
<1>1. ASSUME IInv, [Next]_vars
      PROVE  [call.kind = "heartbeat" /\ call' = Idle /\ heartbeatOk'
                => acted[call.nonce] = "once"]_vars
      <2> SUFFICES ASSUME call.kind = "heartbeat", call' = Idle, heartbeatOk'
                   PROVE  acted[call.nonce] = "once"
          OBVIOUS
      <2>0. call'.kind = "idle" /\ call # Idle /\ call' # call
            BY DEF Idle
      <2>1. CASE HeartbeatReturns
            BY <1>1, <2>1 DEF HeartbeatReturns, IInv, ReplyInv, OkReply
      <2>2. CASE TransportFails
            BY <2>2 DEF TransportFails
      <2>3. CASE SendHeartbeat \/ FetchBundle \/ SendAck \/ BundleReturns \/ ApplyBundle
                 \/ ApplyFails \/ AckReturns
            BY <2>0, <2>3
            DEF SendHeartbeat, FetchBundle, SendAck, BundleReturns, ApplyBundle, ApplyFails,
                AckReturns
      <2>4. CASE Tick
            <3>1. call \in [kind : {"idle", "heartbeat", "bundle", "apply", "ack"},
                            nonce : Nonces \cup {0}, waited : Nat,
                            outcome : {"none", "applied", "rollback"}, bundle : Generations]
                  BY <1>1 DEF IInv, TypeOK
            <3>2. call' = [call EXCEPT !.waited = @ + 1]
                  BY <2>4 DEF Tick
            <3> QED BY <2>0, <3>1, <3>2
      <2>5. CASE ServerReceives \/ ServerReceivesChanged
            BY <2>0, <2>5 DEF ServerReceives, ServerReceivesChanged, Receive, agent
      <2>6. CASE Publish \/ Lose \/ Duplicate \/ Stabilise \/ UNCHANGED vars
            BY <2>0, <2>6 DEF Publish, Lose, Duplicate, Stabilise, vars, agent
      <2> QED BY <1>1, <2>1, <2>2, <2>3, <2>4, <2>5, <2>6 DEF Next, Agent
<1>2. IInv /\ [Next]_vars
        => [call.kind = "heartbeat" /\ call' = Idle /\ heartbeatOk'
              => acted[call.nonce] = "once"]_vars
      BY <1>1
<1> QED BY <1>2, Invariance, PTL DEF Spec, OkWasTaken
=============================================================================
