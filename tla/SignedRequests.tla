--------------------------- MODULE SignedRequests ---------------------------
(***************************************************************************)
(* The signed requests of one agent: heartbeats, bundle requests and       *)
(* acknowledgements, each signed with a fresh nonce at the time of the     *)
(* agent's clock, over a network that loses, delays, duplicates and        *)
(* changes them, to a server that checks signature, time and nonce.        *)
(*                                                                         *)
(* Time is kept as ages: how far the server's clock is past a timestamp.   *)
(* A nonce, drawn at random by the code, is any one that no message, call  *)
(* or memory of the server still mentions.                                 *)
(***************************************************************************)
EXTENDS Integers, FiniteSets

CONSTANTS
    MaxNonces,      \* bound: nonces somebody still remembers
    MaxCopies,      \* bound: requests on their way at one time
    Ahead, Behind,  \* how far the agent's clock may be off, either way
    MaxGeneration,  \* bound: generations the server publishes
    Window,         \* the server's tolerance for timestamps
    HTTP_TIMEOUT    \* how long a call waits for its answer

ASSUME SignedRequestsAssumption ==
    /\ MaxNonces \in Nat \ {0} /\ MaxCopies \in Nat \ {0}
    /\ Window \in Nat \ {0} /\ HTTP_TIMEOUT \in Nat \ {0}
    /\ MaxGeneration \in Nat /\ Ahead \in Nat /\ Behind \in Nat
    /\ HTTP_TIMEOUT <= Window

Nonces == 1..MaxNonces
Generations == 0..MaxGeneration
Forgotten == Window + 1

HEARTBEAT_PATH == "/api/v1/agent/heartbeat"
CA_BUNDLE_PATH == "/api/v1/agent/ca-bundle"
CA_BUNDLE_ACK_PATH == "/api/v1/agent/ca-bundle/ack"
Paths == {HEARTBEAT_PATH, CA_BUNDLE_PATH, CA_BUNDLE_ACK_PATH}

VARIABLES
    due,          \* what the poll loop has to do next, and then
    call,         \* the call under way
    reply,        \* what has come back on its connection
    applied,      \* the generation on disk
    generation,   \* the generation in the runtime status
    heartbeatOk,  \* last_heartbeat_ok
    net,          \* copies of requests on their way
    seen,         \* the server's memory of nonces: the age of each
    published,    \* the server's generation
    view,         \* the generation the server last heard of
    acted,        \* what the server has done under each nonce: nothing, "once"
                  \* what the agent sent under it, or anything else
    stable        \* nothing is lost, changed or put off any more

agent == <<due, call, applied, generation, heartbeatOk>>
server == <<seen, published, view>>
vars == <<agent, reply, net, server, acted, stable>>

-----------------------------------------------------------------------------
(* signing.rs.                                                              *)

\* A hash nobody finds collisions of.
BodySha256Hex(body) == <<"sha256", body>>

\* Mutant: the body is left out.
CanonicalWithoutBody(r) ==
    <<"mayfly-agent-auth-v1", r.machine_id, r.age, r.nonce, r.method, r.path>>

CanonicalString(r) ==
    <<"mayfly-agent-auth-v1", r.machine_id, r.age, r.nonce, r.method, r.path, BodySha256Hex(r.body)>>

\* Only the holder of the key makes a signature that verifies.
Sign(key, text) == [key |-> key, text |-> text]

\* What a request says: a heartbeat its generation, an acknowledgement the
\* outcome and the bundle's.
Body(what, about) == [what |-> what, generation |-> about]
Bodies == [what : {"empty", "heartbeat", "applied", "rollback"}, generation : Generations]

\* A request with its headers; If-None-Match is not among what is signed.
Request(age, nonce, method, path, body, etag) ==
    [machine_id |-> "m", age |-> age, nonce |-> nonce,
     method |-> method, path |-> path, body |-> body, etag |-> etag]

Requests ==
    [machine_id : {"m"}, age : Int, nonce : Nonces, method : {"GET", "POST"},
     path : Paths, body : Bodies, etag : Generations]

SignRequest(r) == Sign("m", CanonicalString(r))

Contents(r) == <<r.nonce, r.method, r.path, r.body>>

\* A copy of a request on its way, with its signature; whether the agent waits
\* for its answer, and what the agent sent.
Copy(r) == [request |-> r, signature |-> SignRequest(r), live |-> TRUE, sent |-> Contents(r)]

-----------------------------------------------------------------------------
Idle == [kind |-> "idle", nonce |-> 0, waited |-> 0, outcome |-> "none", bundle |-> 0]

\* HeartbeatResponse, and a body that does not parse as one.
MIN_NEXT_HEARTBEAT_SECS == 1
MAX_NEXT_HEARTBEAT_SECS == 86400
Unreadable == [status |-> "", server_time |-> "", next_heartbeat_seconds |-> 0]
HeartbeatResponse == [status |-> "ok", server_time |-> "now", next_heartbeat_seconds |-> 60]

\* A body, or one of its fields, that is not what it should be.
Damaged(r) ==
    {Unreadable, [r EXCEPT !.status = ""], [r EXCEPT !.server_time = ""]}
    \cup {[r EXCEPT !.next_heartbeat_seconds = n] : n \in {0, MAX_NEXT_HEARTBEAT_SECS + 1}}

\* A reply: its status, its body if it is a heartbeat's, the generation of the
\* bundle in it, 0 when there is none that from_response accepts.
Reply(status, body, bundle) == [status |-> status, body |-> body, bundle |-> bundle]
NoReply == Reply(0, Unreadable, 0)

TypeOK ==
    /\ due \in {"none", "heartbeat", "sync"} \X {"heartbeat", "sync"}
    /\ call \in [kind : {"idle", "heartbeat", "bundle", "apply", "ack"}, nonce : Nonces \cup {0},
                 waited : Nat, outcome : {"none", "applied", "rollback"}, bundle : Generations]
    /\ reply \in [status : {0, 200, 304, 401, 404, 502}, bundle : Generations,
                  body : {HeartbeatResponse} \cup Damaged(HeartbeatResponse)]
    /\ applied \in Generations /\ generation \in Generations
    /\ published \in Generations /\ view \in Generations
    /\ heartbeatOk \in BOOLEAN /\ stable \in BOOLEAN
    /\ \A c \in net : c.request \in Requests
    /\ seen \in [Nonces -> (-Window)..Forgotten]
    /\ acted \in [Nonces -> {"nothing", "once", "otherwise"}]

Init ==
    /\ due = <<"heartbeat", "sync">>
    /\ call = Idle
    /\ reply = NoReply
    /\ applied = 0 /\ generation = 0
    /\ heartbeatOk = FALSE
    /\ net = {}
    /\ seen = [n \in Nonces |-> Forgotten]
    /\ published = 0
    /\ view = 0
    /\ acted = [n \in Nonces |-> "nothing"]
    /\ stable = FALSE

-----------------------------------------------------------------------------
(* The agent.                                                               *)

\* The nonces nobody mentions, by a memory of the server.
Unmentioned(memory) ==
    {n \in Nonces : memory[n] = Forgotten /\ n # call.nonce /\ \A c \in net : c.request.nonce # n}

FreeNonces == Unmentioned(seen)

\* Mutant: one nonce for the life of the process.
OneNonce == 1

\* generate_nonce.
GenerateNonce == CHOOSE n \in FreeNonces : TRUE

\* The age of a timestamp taken now: the agent's clock may be off, either way,
\* and may have been stepped since the last request.
AgesNow == IF stable THEN {0} ELSE {-Ahead, 0, Behind}

\* Put a signed request on the wire and wait on its connection.
Send(kind, method, path, body, etag, outcome, bundle) ==
    /\ FreeNonces # {}
    /\ Cardinality(net) < MaxCopies
    /\ \E age \in AgesNow :
          LET nonce == GenerateNonce
          IN /\ net' = net \cup {Copy(Request(age, nonce, method, path, body, etag))}
             /\ acted' = [acted EXCEPT ![nonce] = "nothing"]
             /\ call' = [kind |-> kind, nonce |-> nonce, waited |-> 0,
                         outcome |-> outcome, bundle |-> bundle]
    /\ reply' = NoReply

\* record_heartbeat and send_heartbeat up to the post.
SendHeartbeat ==
    /\ call = Idle
    /\ due[1] = "heartbeat"
    /\ Send("heartbeat", "POST", HEARTBEAT_PATH, Body("heartbeat", generation), 0, "none", 0)
    /\ UNCHANGED <<due, applied, generation, heartbeatOk, server, stable>>

\* synchronize up to the get.
FetchBundle ==
    /\ call = Idle
    /\ due[1] = "sync"
    /\ Send("bundle", "GET", CA_BUNDLE_PATH, Body("empty", 0), applied, "none", 0)
    /\ UNCHANGED <<due, applied, generation, heartbeatOk, server, stable>>

\* The call is over, and with it the action that was due; a copy of the
\* request that is still on its way is answered to nobody.
EndCall ==
    /\ call' = Idle
    /\ due' = <<"none", due[2]>>
    /\ reply' = NoReply
    /\ net' = {[c EXCEPT !.live = FALSE] : c \in net}

IsSuccess(status) == status \in 200..299

ValidateResponse(r) ==
    /\ r.status # ""
    /\ r.next_heartbeat_seconds \in MIN_NEXT_HEARTBEAT_SECS..MAX_NEXT_HEARTBEAT_SECS
    /\ r.server_time # ""

HeartbeatReturns ==
    /\ call.kind = "heartbeat"
    /\ reply # NoReply
    /\ heartbeatOk' = (/\ IsSuccess(reply.status)
                      /\ reply.body # Unreadable
                      /\ ValidateResponse(reply.body))
    /\ EndCall
    /\ UNCHANGED <<applied, generation, server, acted, stable>>

\* An answer that ends the pass: not modified, refused, unreadable, an older
\* generation or the one that is there.
BundleReturns ==
    /\ call.kind = "bundle"
    /\ reply # NoReply
    /\ \/ reply.status = 304
       \/ ~IsSuccess(reply.status) \/ reply.bundle = 0 \/ reply.bundle <= applied
    /\ generation' = IF \/ reply.status = 304
                        \/ IsSuccess(reply.status) /\ reply.bundle # 0 /\ reply.bundle = applied
                     THEN applied ELSE generation
    /\ EndCall
    /\ UNCHANGED <<applied, heartbeatOk, server, acted, stable>>

\* A newer bundle is applied and recorded, or rolled back.
ApplyBundle ==
    /\ call.kind = "bundle"
    /\ IsSuccess(reply.status) /\ reply.bundle # 0 /\ reply.bundle > applied
    /\ \/ applied' = reply.bundle /\ call' = [call EXCEPT !.kind = "apply", !.outcome = "applied", !.bundle = reply.bundle]
       \/ /\ ~stable
          /\ call' = [call EXCEPT !.kind = "apply", !.outcome = "rollback", !.bundle = reply.bundle]
          /\ UNCHANGED applied
    /\ reply' = NoReply
    /\ UNCHANGED <<due, generation, heartbeatOk, net, server, acted, stable>>

\* The pass ends in an error of the host and acknowledges nothing: the helper
\* was not reached, or generation and fingerprint are recorded and a write after
\* them failed (a record torn between the two is CaSync's).
ApplyFails ==
    /\ call.kind = "bundle"
    /\ IsSuccess(reply.status) /\ reply.bundle # 0 /\ reply.bundle > applied
    /\ ~stable
    /\ applied' \in {applied, reply.bundle}
    /\ EndCall
    /\ UNCHANGED <<generation, heartbeatOk, server, acted, stable>>

\* try_acknowledge up to the post.
SendAck ==
    /\ call.kind = "apply"
    /\ Send("ack", "POST", CA_BUNDLE_ACK_PATH, Body(call.outcome, call.bundle), 0,
            call.outcome, call.bundle)
    /\ UNCHANGED <<due, applied, generation, heartbeatOk, server, stable>>

\* record_sync: an update is one whatever became of its acknowledgement.
AckReturns ==
    /\ call.kind = "ack"
    /\ reply # NoReply
    /\ generation' = IF call.outcome = "applied" THEN call.bundle ELSE generation
    /\ EndCall
    /\ UNCHANGED <<applied, heartbeatOk, server, acted, stable>>

\* Mutant: the failure is passed on before it is recorded.
TransportFailsUnrecorded ==
    /\ call.kind \in {"heartbeat", "bundle", "ack"}
    /\ ~stable
    /\ generation' = IF call.kind = "ack" /\ call.outcome = "applied" THEN call.bundle ELSE generation
    /\ EndCall
    /\ UNCHANGED <<applied, heartbeatOk, server, acted, stable>>

\* The transport gives up: the request or its answer was lost, or is late.
TransportFails ==
    /\ call.kind \in {"heartbeat", "bundle", "ack"}
    /\ ~stable
    /\ heartbeatOk' = (heartbeatOk /\ call.kind # "heartbeat")
    /\ generation' = IF call.kind = "ack" /\ call.outcome = "applied" THEN call.bundle ELSE generation
    /\ EndCall
    /\ UNCHANGED <<applied, server, acted, stable>>

-----------------------------------------------------------------------------
(* The server, as the agent must assume it.                                 *)

Authentic(r, signature) == signature = Sign(r.machine_id, CanonicalString(r))
Timely(r) == r.age \in (-Window)..Window
Unseen(r) == seen[r.nonce] = Forgotten

\* What it answers to a request it takes, 404 before there is a bundle.  Until
\* all is stable a body may be damaged.
Answers(r) ==
    CASE r.path = HEARTBEAT_PATH ->
           {Reply(200, b, 0) : b \in {HeartbeatResponse}
                                  \cup (IF stable THEN {} ELSE Damaged(HeartbeatResponse))}
      [] r.path = CA_BUNDLE_PATH /\ published = 0 -> {Reply(404, Unreadable, 0)}
      [] r.path = CA_BUNDLE_PATH /\ published = r.etag -> {Reply(304, Unreadable, 0)}
      [] r.path = CA_BUNDLE_PATH /\ published \notin {0, r.etag} ->
           {Reply(200, Unreadable, n) : n \in {published} \cup (IF stable THEN {} ELSE {0})}
      [] r.path = CA_BUNDLE_ACK_PATH -> {Reply(200, Unreadable, 0)}

Refused == Reply(401, Unreadable, 0)

\* What a change on the way may make of a request; nobody else can sign.
Changed(r) ==
    {[r EXCEPT !.path = p] : p \in Paths} \cup {[r EXCEPT !.nonce = n] : n \in FreeNonces}
    \cup {[r EXCEPT !.body = Body("heartbeat", MaxGeneration)], [r EXCEPT !.age = 0],
          [r EXCEPT !.method = "POST"], [r EXCEPT !.etag = 0]}

\* Copy c arrives as r.
Receive(c, r) ==
    /\ net' = net \ {c}
    /\ IF Authentic(r, c.signature) /\ Timely(r) /\ Unseen(r)
       THEN /\ seen' = [seen EXCEPT ![r.nonce] = r.age]
            /\ acted' = [acted EXCEPT ![r.nonce] =
                            IF @ = "nothing" /\ Contents(r) = c.sent THEN "once" ELSE "otherwise"]
            /\ view' = IF r.path = HEARTBEAT_PATH THEN r.body.generation ELSE view
            /\ IF c.live THEN reply' \in Answers(r) ELSE UNCHANGED reply
       ELSE /\ reply' = IF c.live THEN Refused ELSE reply
            /\ UNCHANGED <<seen, acted, view>>
    /\ UNCHANGED <<agent, published, stable>>

ServerReceives == \E c \in net : Receive(c, c.request)

ServerReceivesChanged ==
    /\ ~stable
    /\ \E c \in net : \E r \in Changed(c.request) : Receive(c, r)

Publish ==
    /\ ~stable
    /\ published < MaxGeneration
    /\ published' = published + 1
    /\ UNCHANGED <<agent, reply, net, seen, view, acted, stable>>

-----------------------------------------------------------------------------
(* The network and the clocks.                                              *)

\* A copy nobody waits on is lost, or a gateway answers in the server's place;
\* a request or an answer somebody waits on is lost in TransportFails.
Lose ==
    /\ ~stable
    /\ \E c \in net :
          /\ net' = net \ {c}
          /\ reply' = IF c.live THEN Reply(502, Unreadable, 0) ELSE reply
    /\ UNCHANGED <<agent, server, acted, stable>>

Duplicate ==
    /\ ~stable
    /\ Cardinality(net) < MaxCopies
    /\ \E c \in net : c.live /\ net' = net \cup {[c EXCEPT !.live = FALSE]}
    /\ UNCHANGED <<agent, reply, server, acted, stable>>

Older(a) == IF a >= Forgotten THEN a ELSE a + 1

\* A signature stays what it was: its text ages with the timestamp in it.
Aged(c) ==
    [c EXCEPT !.request.age = Older(@), !.signature.text[3] = Older(@)]

\* A second passes on both clocks.  A call does not outlast its timeout, and
\* once the network is stable answers come within it.
Tick ==
    /\ call.kind \in {"heartbeat", "bundle", "ack"} => call.waited < HTTP_TIMEOUT /\ ~stable
    /\ net' = {Aged(c) : c \in net}
    /\ seen' = [n \in Nonces |-> Older(seen[n])]
    /\ call' = IF call.kind \in {"heartbeat", "bundle", "ack"} THEN [call EXCEPT !.waited = @ + 1] ELSE call
    /\ due' = IF due[1] = "none"
              THEN <<due[2], IF due[2] = "sync" THEN "heartbeat" ELSE "sync">> ELSE due
    /\ acted' = [n \in Nonces |-> IF n \in Unmentioned(seen') THEN "nothing" ELSE acted[n]]
    /\ UNCHANGED <<applied, generation, heartbeatOk, reply, published, view, stable>>

Stabilise ==
    /\ ~stable
    /\ stable' = TRUE
    /\ UNCHANGED <<agent, reply, net, server, acted>>

-----------------------------------------------------------------------------
Agent ==
    \/ SendHeartbeat \/ FetchBundle \/ SendAck
    \/ HeartbeatReturns \/ BundleReturns \/ ApplyBundle \/ ApplyFails \/ AckReturns
    \/ TransportFails

Next ==
    \/ Agent \/ ServerReceives \/ ServerReceivesChanged \/ Tick
    \/ Publish \/ Lose \/ Duplicate \/ Stabilise

Spec == Init /\ [][Next]_vars

\* The poll loop runs, time passes, and what is on its way arrives.
FairSpec ==
    /\ Spec
    /\ WF_vars(Agent) /\ WF_vars(ServerReceives) /\ WF_vars(Tick)

-----------------------------------------------------------------------------
(* Properties.                                                              *)

\* What the server does in the agent's name is what the agent signed, method,
\* path and body alike, and it does it once, whatever was duplicated, put off
\* until after newer requests, or changed on the way (canonical_string,
\* generate_nonce).
ActsOnceAsSigned ==
    \A n \in Nonces : acted[n] # "otherwise"

\* last_heartbeat_ok is never a guess: a heartbeat recorded as ok is one the
\* server took, with the generation the agent put in it (send_heartbeat).
OkWasTaken ==
    [][call.kind = "heartbeat" /\ call' = Idle /\ heartbeatOk'
          => acted[call.nonce] = "once"]_vars

\* Once the network and the clock are right, the agent's requests are taken
\* again, for good: no answer lost earlier, no wrong clock and no late copy of
\* an old request keeps it from the published generation, or the server from
\* knowing that it has it.
CatchesUp ==
    stable ~> [](heartbeatOk /\ applied = published /\ view = applied)
=============================================================================
