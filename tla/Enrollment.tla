----------------------------- MODULE Enrollment -----------------------------
(***************************************************************************)
(* How a host gets its identity: Daemon::ensure_enrolled around the retry  *)
(* loop of service/backoff.rs, EnrollmentService::enroll                   *)
(* (identity/enrollment.rs), the HTTP client that remembers its last       *)
(* response (identity/api_client.rs) and the pin written at the end        *)
(* (service/runtime_state.rs).                                             *)
(*                                                                         *)
(* Agents is the set of agent processes that share one identity directory. *)
(* The systemd unit runs one; the code claims to bear more.  A process     *)
(* that ends, for whatever reason, may be started again.                   *)
(*                                                                         *)
(* The server (external) has a token that is good for TokenUses            *)
(* enrollments.  A request it accepts gets a machine id of its own, here   *)
(* the number of the request, and is registered under the public key sent. *)
(***************************************************************************)
EXTENDS Naturals, FiniteSets

CONSTANTS
    Agents,          \* processes sharing the identity directory
    Keys,            \* machine keypairs that may be generated
    MaxRequests,     \* bound: request numbers 1..MaxRequests
    MaxInFlight,     \* bound: requests on their way to the server
    TokenUses,       \* enrollments the token is good for (1: single-use)
    SigningKey,      \* the bundle signing key the server offers
    Offers,          \* what responses carry: SigningKey, or None, or either
    Malformed,       \* a bundle signing key that is not an Ed25519 key line
    OperatorPin,     \* TRUE: bundle_signing_public_key is configured
    None

ASSUME EnrollmentAssumption ==
    /\ IsFiniteSet(Keys) /\ None \notin Keys
    /\ MaxRequests \in Nat \ {0} /\ MaxInFlight \in Nat \ {0} /\ TokenUses \in Nat
    /\ Cardinality({SigningKey, Malformed, None}) = 3
    /\ Offers \subseteq {SigningKey, None} /\ Offers # {}
    /\ OperatorPin \in BOOLEAN

Requests == 1..MaxRequests

\* EnrollmentResponse; id 0 is the empty machine id, inRange the intervals,
\* signer the optional bundle_signing_key.
Responses ==
    [id : Requests \cup {0}, inRange : BOOLEAN, signer : {SigningKey, Malformed, None}]

Points ==
    {"off", "check", "load", "attempt", "keypair", "writePrivate", "writePublic",
     "post", "await", "persist", "reload", "backoff", "pin", "ready", "polling"}

VARIABLES
    pc,            \* where each process is
    token,         \* the enrollment token in each process's environment
    keypair,       \* the keypair an attempt works with
    waiting,       \* the number of the request an attempt waits for, or 0
    lastResponse,  \* HttpEnrollmentClient::last_response
    identity,      \* machine id and key a process has taken for its own
    shutdown,      \* the flag the signal handlers set
    files,         \* private key, public key, machine record, pinned signing key
    inflight,      \* requests the server has yet to see
    replies,       \* replies on their way back
    registered,    \* the server's machines: id and public key
    uses,          \* enrollments the token is still good for
    stable         \* from now on nothing crashes, fails or is lost

process == <<pc, token, keypair, waiting, lastResponse, identity, shutdown>>
network == <<inflight, replies, registered, uses>>
vars == <<process, files, network, stable>>

Machine == [id : Requests, key : Keys]
NoIdentity == [id |-> 0, key |-> None]

TypeOK ==
    /\ pc \in [Agents -> Points]
    /\ token \in [Agents -> {"valid", "malformed", "absent"}]
    /\ keypair \in [Agents -> Keys \cup {None}]
    /\ waiting \in [Agents -> Requests \cup {0}]
    /\ lastResponse \in [Agents -> Responses \cup {None}]
    /\ identity \in [Agents -> Machine \cup {NoIdentity}]
    /\ shutdown \in [Agents -> BOOLEAN]
    /\ files \in [private : Keys \cup {None}, public : Keys \cup {None},
                  record : Requests \cup {0}, pin : {SigningKey, Malformed, None}]
    /\ inflight \subseteq Machine
    /\ \A r \in replies : r.to \in Requests /\ r.response \in Responses \cup {None}
    /\ registered \subseteq Machine
    /\ uses \in 0..TokenUses
    /\ stable \in BOOLEAN

Init ==
    /\ pc = [a \in Agents |-> "off"]
    /\ token = [a \in Agents |-> "absent"]
    /\ keypair = [a \in Agents |-> None]
    /\ waiting = [a \in Agents |-> 0]
    /\ lastResponse = [a \in Agents |-> None]
    /\ identity = [a \in Agents |-> NoIdentity]
    /\ shutdown = [a \in Agents |-> FALSE]
    /\ files = [private |-> None, public |-> None, record |-> 0, pin |-> None]
    /\ inflight = {}
    /\ replies = {}
    /\ registered = {}
    /\ uses = TokenUses
    /\ stable = FALSE

Goto(a, point) == pc' = [pc EXCEPT ![a] = point]

\* run returns, or the process dies: nothing of it is left but the files.
Exit(a) ==
    /\ Goto(a, "off")
    /\ token' = [token EXCEPT ![a] = "absent"]
    /\ keypair' = [keypair EXCEPT ![a] = None]
    /\ waiting' = [waiting EXCEPT ![a] = 0]
    /\ lastResponse' = [lastResponse EXCEPT ![a] = None]
    /\ identity' = [identity EXCEPT ![a] = NoIdentity]
    /\ shutdown' = [shutdown EXCEPT ![a] = FALSE]

-----------------------------------------------------------------------------
(* ensure_enrolled, outside the retry loop.                                 *)

Start(a) ==
    /\ pc[a] = "off"
    /\ Goto(a, "check")
    /\ \E t \in IF stable THEN {"valid"} ELSE {"valid", "malformed", "absent"} :
          token' = [token EXCEPT ![a] = t]
    /\ UNCHANGED <<keypair, waiting, lastResponse, identity, shutdown, files, network, stable>>

\* is_enrolled, else the token from the environment and validate_token.
EnsureEnrolled(a) ==
    /\ pc[a] = "check"
    /\ \/ files.record # 0 /\ Goto(a, "load")
          /\ UNCHANGED <<token, keypair, waiting, lastResponse, identity, shutdown>>
       \/ files.record = 0 /\ token[a] = "valid" /\ Goto(a, "attempt")
          /\ UNCHANGED <<token, keypair, waiting, lastResponse, identity, shutdown>>
       \/ files.record = 0 /\ token[a] # "valid" /\ Exit(a)
    /\ UNCHANGED <<files, network, stable>>

Identity(id, key) == [id |-> id, key |-> key]

\* load_machine_identity of an enrolled host: no network, and no pin.
LoadMachineIdentity(a) ==
    /\ pc[a] = "load"
    /\ files.private # None
    /\ identity' = [identity EXCEPT ![a] = Identity(files.record, files.private)]
    /\ Goto(a, "ready")
    /\ UNCHANGED <<token, keypair, waiting, lastResponse, shutdown, files, network, stable>>

-----------------------------------------------------------------------------
(* One attempt: EnrollmentService::enroll.                                  *)

\* should_continue, then is_enrolled: AlreadyEnrolled makes the loop reload.
BeginAttempt(a) ==
    /\ pc[a] = "attempt"
    /\ \/ shutdown[a] /\ Exit(a)
       \/ ~shutdown[a] /\ Goto(a, IF files.record # 0 THEN "reload" ELSE "keypair")
          /\ UNCHANGED <<token, keypair, waiting, lastResponse, identity, shutdown>>
    /\ UNCHANGED <<files, network, stable>>

\* A keypair nobody has a trace of is as good as a new one.
FreshKeys ==
    Keys \ ({files.private, files.public} \cup {keypair[a] : a \in Agents}
            \cup {m.key : m \in inflight \cup registered})

\* Mutant: every attempt generates a keypair.
RegenerateKeypair(a) ==
    /\ pc[a] = "keypair"
    /\ \E k \in FreshKeys : keypair' = [keypair EXCEPT ![a] = k]
    /\ Goto(a, "writePrivate")
    /\ UNCHANGED <<token, waiting, lastResponse, identity, shutdown, files, network, stable>>

\* Mutant: a generated keypair stays in memory.
KeypairNotWritten(a) ==
    /\ pc[a] = "keypair"
    /\ \E k \in IF files.private # None THEN {files.private} ELSE FreshKeys :
          keypair' = [keypair EXCEPT ![a] = k]
    /\ Goto(a, "post")
    /\ UNCHANGED <<token, waiting, lastResponse, identity, shutdown, files, network, stable>>

\* generate_machine_keypair refuses to start beside either file.
KeyAlreadyExists == files.private # None \/ files.public # None

\* load_or_generate_keypair: a private key is reused, else one is generated.
LoadOrGenerateKeypair(a) ==
    /\ pc[a] = "keypair"
    /\ \E k \in IF files.private # None THEN {files.private} ELSE FreshKeys :
          keypair' = [keypair EXCEPT ![a] = k]
    /\ Goto(a, IF files.private # None THEN "post"
               ELSE IF KeyAlreadyExists THEN "backoff" ELSE "writePrivate")
    /\ UNCHANGED <<token, waiting, lastResponse, identity, shutdown, files, network, stable>>

\* Mutant: write_keypair starts with the public file.
WithPublicKey(a) == [files EXCEPT !.public = keypair[a]]

\* write_keypair: the private file first.
WithPrivateKey(a) == [files EXCEPT !.private = keypair[a]]

WritePrivateKey(a) ==
    /\ pc[a] = "writePrivate"
    /\ files' = WithPrivateKey(a)
    /\ Goto(a, "writePublic")
    /\ UNCHANGED <<token, keypair, waiting, lastResponse, identity, shutdown, network, stable>>

WritePublicKey(a) ==
    /\ pc[a] = "writePublic"
    /\ files' = [files EXCEPT !.public = keypair[a]]
    /\ Goto(a, "post")
    /\ UNCHANGED <<token, keypair, waiting, lastResponse, identity, shutdown, network, stable>>

\* Request numbers that mean nothing to anybody.
FreeRequests ==
    Requests \ ({m.id : m \in inflight \cup registered} \cup {r.to : r \in replies}
                \cup {waiting[a] : a \in Agents})

\* create_enrollment_request and the POST.
Post(a) ==
    /\ pc[a] = "post"
    /\ Cardinality(inflight) < MaxInFlight
    /\ \E n \in FreeRequests :
          /\ inflight' = inflight \cup {[id |-> n, key |-> keypair[a]]}
          /\ waiting' = [waiting EXCEPT ![a] = n]
    /\ Goto(a, "await")
    /\ UNCHANGED <<token, keypair, lastResponse, identity, shutdown, files, replies,
                   registered, uses, stable>>

\* Mutant: the offered signing key is pinned as soon as it arrives.
PinOnArrival(a) ==
    /\ pc[a] = "await"
    /\ \E r \in replies :
          /\ r.to = waiting[a]
          /\ replies' = replies \ {r}
          /\ \/ r.response = None /\ Goto(a, "backoff") /\ UNCHANGED <<lastResponse, files>>
             \/ /\ r.response # None /\ Goto(a, "persist")
                /\ lastResponse' = [lastResponse EXCEPT ![a] = r.response]
                /\ files' = [files EXCEPT !.pin = r.response.signer]
    /\ waiting' = [waiting EXCEPT ![a] = 0]
    /\ UNCHANGED <<token, keypair, identity, shutdown, inflight, registered, uses, stable>>

\* HttpEnrollmentClient::enroll: a response that parses is remembered before
\* anybody validates it; any other reply is EnrollmentRejected.
ReceiveReply(a) ==
    /\ pc[a] = "await"
    /\ \E r \in replies :
          /\ r.to = waiting[a]
          /\ replies' = replies \ {r}
          /\ \/ r.response = None /\ Goto(a, "backoff") /\ UNCHANGED lastResponse
             \/ /\ r.response # None /\ Goto(a, "persist")
                /\ lastResponse' = [lastResponse EXCEPT ![a] = r.response]
    /\ waiting' = [waiting EXCEPT ![a] = 0]
    /\ UNCHANGED <<token, keypair, identity, shutdown, files, inflight, registered, uses, stable>>

\* validate_response.
ValidResponse(response) ==
    /\ response.id # 0
    /\ response.inRange
    /\ response.signer # Malformed

\* persist_machine_identity.
PersistMachineIdentity(a) ==
    /\ pc[a] = "persist"
    /\ \/ /\ ValidResponse(lastResponse[a])
          /\ files' = [files EXCEPT !.record = lastResponse[a].id]
          /\ identity' = [identity EXCEPT ![a] = Identity(lastResponse[a].id, keypair[a])]
          /\ Goto(a, "pin")
       \/ /\ ~ValidResponse(lastResponse[a])
          /\ Goto(a, "backoff")
          /\ UNCHANGED <<files, identity>>
    /\ UNCHANGED <<token, keypair, waiting, lastResponse, shutdown, network, stable>>

\* Mutant: AlreadyEnrolled is an error like any other.
AlreadyEnrolledIsError(a) ==
    /\ pc[a] = "reload"
    /\ Goto(a, "backoff")
    /\ UNCHANGED <<token, keypair, waiting, lastResponse, identity, shutdown, files, network,
                   stable>>

\* The AlreadyEnrolled arm of the retried closure.
ReloadIdentity(a) ==
    /\ pc[a] = "reload"
    /\ files.private # None
    /\ identity' = [identity EXCEPT ![a] = Identity(files.record, files.private)]
    /\ Goto(a, "pin")
    /\ UNCHANGED <<token, keypair, waiting, lastResponse, shutdown, files, network, stable>>

\* retry_with_backoff after an error, of whatever kind.
BackOff(a) ==
    /\ pc[a] = "backoff"
    /\ \/ shutdown[a] /\ Exit(a)
       \/ /\ ~shutdown[a] /\ Goto(a, "attempt")
          /\ keypair' = [keypair EXCEPT ![a] = None]
          /\ UNCHANGED <<token, waiting, lastResponse, identity, shutdown>>
    /\ UNCHANGED <<files, network, stable>>

\* pin_bundle_signing_key, from the client's last response.
WithPin(a) ==
    IF OperatorPin \/ lastResponse[a] = None THEN files
    ELSE IF lastResponse[a].signer = None \/ files.pin # None THEN files
    ELSE [files EXCEPT !.pin = lastResponse[a].signer]

Pin(a) ==
    /\ pc[a] = "pin"
    /\ files' = WithPin(a)
    /\ Goto(a, "ready")
    /\ UNCHANGED <<token, keypair, waiting, lastResponse, identity, shutdown, network, stable>>

-----------------------------------------------------------------------------
(* Daemon::run after ensure_enrolled.                                       *)

\* The shutdown check, then load_machine_keypair: what a process signs with
\* comes from the file, not from the attempt.
EnterService(a) ==
    /\ pc[a] = "ready"
    /\ \/ shutdown[a] /\ Exit(a)
       \/ /\ ~shutdown[a] /\ files.private # None
          /\ identity' = [identity EXCEPT ![a].key = files.private]
          /\ Goto(a, "polling")
          /\ UNCHANGED <<token, keypair, waiting, lastResponse, shutdown>>
    /\ UNCHANGED <<files, network, stable>>

LeaveService(a) ==
    /\ pc[a] = "polling"
    /\ shutdown[a]
    /\ Exit(a)
    /\ UNCHANGED <<files, network, stable>>

\* SIGTERM or SIGINT.  In stable times only a process in service is stopped.
Signal(a) ==
    /\ pc[a] # "off"
    /\ stable => pc[a] = "polling"
    /\ shutdown' = [shutdown EXCEPT ![a] = TRUE]
    /\ UNCHANGED <<pc, token, keypair, waiting, lastResponse, identity, files, network, stable>>

-----------------------------------------------------------------------------
(* The server and the network (external).                                   *)

GoodResponses(m) == [id : {m.id}, inRange : {TRUE}, signer : Offers]

BadResponses(m) ==
    [id : {m.id}, inRange : {FALSE}, signer : {SigningKey}]
    \cup [id : {m.id}, inRange : {TRUE}, signer : {Malformed}]
    \cup [id : {0}, inRange : {TRUE}, signer : {SigningKey}]
    \cup {None}

Respond(m, response) ==
    replies' = IF \E a \in Agents : waiting[a] = m.id
               THEN replies \cup {[to |-> m.id, response |-> response]}
               ELSE replies

ServerEnrolls(m) ==
    /\ uses > 0
    /\ registered' = registered \cup {m}
    /\ uses' = uses - 1
    /\ \E response \in GoodResponses(m) \cup (IF stable THEN {} ELSE BadResponses(m)) :
          Respond(m, response)

ServerRejects(m) ==
    /\ uses = 0
    /\ Respond(m, None)
    /\ UNCHANGED <<registered, uses>>

ServerHandles ==
    /\ \E m \in inflight :
          /\ inflight' = inflight \ {m}
          /\ \/ ServerEnrolls(m)
             \/ ServerRejects(m)
             \/ ~stable /\ UNCHANGED <<replies, registered, uses>>   \* lost on its way
    /\ UNCHANGED <<process, files, stable>>

-----------------------------------------------------------------------------
(* What goes wrong, while anything still does.                              *)

\* DEFAULT_ENROLL_TIMEOUT, or the connection drops: the attempt is over, the
\* request or its reply may still be on its way.
PostFails(a) ==
    /\ ~stable
    /\ pc[a] = "await"
    /\ waiting' = [waiting EXCEPT ![a] = 0]
    /\ replies' = {r \in replies : r.to # waiting[a]}
    /\ Goto(a, "backoff")
    /\ UNCHANGED <<token, keypair, lastResponse, identity, shutdown, files, inflight,
                   registered, uses, stable>>

\* secure_write fails before the rename or after it (the directory fsync).
\* Inside the retried closure the error is retried, at the pin it is final.
WriteFails(a) ==
    /\ ~stable
    /\ \/ /\ \/ pc[a] = "writePrivate" /\ files' \in {files, WithPrivateKey(a)}
             \/ pc[a] = "writePublic" /\ files' \in {files, [files EXCEPT !.public = keypair[a]]}
             \/ /\ pc[a] = "persist" /\ ValidResponse(lastResponse[a])
                /\ files' \in {files, [files EXCEPT !.record = lastResponse[a].id]}
          /\ Goto(a, "backoff")
          /\ UNCHANGED <<token, keypair, waiting, lastResponse, identity, shutdown>>
       \/ pc[a] = "pin" /\ files' \in {files, WithPin(a)} /\ Exit(a)
    /\ UNCHANGED <<network, stable>>

\* A key or record that cannot be read, or fails its ownership and mode checks
\* (validate_private_key_security); a URL or hostname that enroll refuses.
ReadFails(a) ==
    /\ ~stable
    /\ \/ pc[a] \in {"load", "ready"} /\ Exit(a)
       \/ /\ pc[a] \in {"keypair", "reload"} /\ Goto(a, "backoff")
          /\ UNCHANGED <<token, keypair, waiting, lastResponse, identity, shutdown>>
    /\ UNCHANGED <<files, network, stable>>

Crash(a) ==
    /\ ~stable
    /\ pc[a] # "off"
    /\ Exit(a)
    /\ replies' = {r \in replies : r.to # waiting[a]}
    /\ UNCHANGED <<files, inflight, registered, uses, stable>>

\* Faults stop while the token is still good for one more enrollment than the
\* requests under way can use up, and no process has been told to stop.
Stabilize ==
    /\ ~stable
    /\ uses > Cardinality(inflight)
    /\ \A a \in Agents : ~shutdown[a] /\ pc[a] # "await"
    /\ stable' = TRUE
    /\ UNCHANGED <<process, files, network>>

-----------------------------------------------------------------------------
ProcessStep(a) ==
    \/ Start(a) \/ EnsureEnrolled(a) \/ LoadMachineIdentity(a)
    \/ BeginAttempt(a) \/ LoadOrGenerateKeypair(a) \/ WritePrivateKey(a)
    \/ WritePublicKey(a) \/ Post(a) \/ ReceiveReply(a) \/ PersistMachineIdentity(a)
    \/ ReloadIdentity(a) \/ BackOff(a) \/ Pin(a) \/ EnterService(a) \/ LeaveService(a)

Fault(a) == Signal(a) \/ PostFails(a) \/ WriteFails(a) \/ ReadFails(a) \/ Crash(a)

Next ==
    \/ \E a \in Agents : ProcessStep(a) \/ Fault(a)
    \/ ServerHandles
    \/ Stabilize

Spec == Init /\ [][Next]_vars

\* systemd restarts a process that failed or was killed, and whoever stopped one
\* cleanly starts it again (Restart=on-failure does not); every wait in it ends
\* (HTTP timeout, backoff of at most 72 s), and the network delivers what it does
\* not lose.
Fairness == (\A a \in Agents : WF_vars(ProcessStep(a))) /\ WF_vars(ServerHandles)

FairSpec == Spec /\ Fairness
-----------------------------------------------------------------------------
(* Properties.                                                              *)

\* The identity on disk is one the server knows: a machine record is only ever
\* there beside the private key that the server registered under its id, and
\* a process in service signs as exactly such a machine.  Lost replies, late
\* requests, failed writes and restarts all come between enroll's key files,
\* its POST and its record.
EnrolledIsRegistered ==
    /\ files.record # 0 => Identity(files.record, files.private) \in registered
    /\ \A a \in Agents : pc[a] = "polling" => identity[a] \in registered

\* write_keypair leaves either no public key file or the one of the private
\* key file, so that load_or_generate_keypair can always go on after a crash:
\* a public key alone would be KeyAlreadyExists in every later attempt.
KeyFilesAgree == files.public # None => files.public = files.private

\* Whatever enrollment puts on disk stays: keys, machine record and pin are
\* never replaced by a retry or a restart.
WrittenOnce ==
    [][/\ files.private # None => files'.private = files.private
       /\ files.public # None => files'.public = files.public
       /\ files.record # 0 => files'.record = files.record
       /\ files.pin # None => files'.pin = files.pin]_vars

\* The pin never comes from a response validate_response refused, although
\* last_response remembers those too.
PinWasValidated == files.pin # Malformed

\* What processes that share the directory keep although they may overwrite each
\* other's key files: an attempt only records an answer to its own request, so the
\* machine it names is registered under the attempt's own key; and no machine id
\* on disk or in use is one the server did not issue.
IdsAreIssued ==
    /\ files.record # 0 => \E m \in registered : m.id = files.record
    /\ \A a \in Agents :
          /\ pc[a] = "persist" /\ ValidResponse(lastResponse[a])
               => Identity(lastResponse[a].id, keypair[a]) \in registered
          /\ pc[a] \in {"pin", "ready", "polling"}
               => \E m \in registered : m.id = identity[a].id

\* Once faults stop, with a token that is still good, every process gets into
\* service, from any half-written set of files.
EventuallyInService == \A a \in Agents : stable ~> pc[a] = "polling"

\* enrollment.rs says of bundle_signing_key: "the agent **pins** this at
\* enrollment and verifies every CA bundle against it."  With a server
\* that always sends the key, a host in service would have it pinned.
PinnedAtEnrollment ==
    ~OperatorPin /\ None \notin Offers => \A a \in Agents : pc[a] = "polling" => files.pin # None
=============================================================================
