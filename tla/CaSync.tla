------------------------------- MODULE CaSync -------------------------------
(***************************************************************************)
(* One host's CA-bundle synchronisation: the agent's CaSyncService         *)
(* (protocol/ca_sync.rs) between the server it polls and the privileged    *)
(* helper that owns TrustedUserCAKeys (ipc/client.rs is the agent's end).  *)
(*                                                                         *)
(* The agent is one thread that runs one pass after another; every place   *)
(* where a pass waits for somebody else, or where one file replaces        *)
(* another, is a step of its own, so that a crash, a publication by the    *)
(* server or a late helper falls between any two of them.                  *)
(*                                                                         *)
(* A bundle is abstracted to its generation, its key set and the key that  *)
(* signed it.  CaBundle::from_response, which decides whether a reply is   *)
(* such a bundle at all, is the subject of module CaBundle; here a reply   *)
(* that it refuses for any reason but the pin is an "invalid" reply.       *)
(***************************************************************************)
EXTENDS Naturals, Sequences

CONSTANTS
    KeySets,          \* the sets of CA keys a bundle may carry, abstractly
    Signers,          \* bundle-signing keys
    ServerSigner,     \* the one the real server signs with
    OperatorPin,      \* config: the provisioned signing key, or None
    EnrollmentPin,    \* the key pinned at enrollment, or None
    MaxGeneration,    \* the largest generation (u64::MAX in the code)
    Backlog,          \* connections the helper's socket holds
    HonestServer,     \* FALSE: replies may be stale, replayed or forged
    None              \* a missing file or an absent Option

ASSUME SignerAssumption ==
    /\ ServerSigner \in Signers
    /\ OperatorPin \in Signers \cup {None}
    /\ EnrollmentPin \in Signers \cup {None}
    /\ None \notin Signers
    /\ None \notin KeySets

ASSUME BoundAssumption ==
    /\ MaxGeneration \in Nat \ {0}
    /\ Backlog \in Nat \ {0}
    /\ HonestServer \in BOOLEAN

-----------------------------------------------------------------------------
Generations == 1..MaxGeneration

Bundle == [gen : Generations, keys : KeySets, signer : Signers]

\* No TrustedUserCAKeys file; no bundle in hand.
NoBundle == [gen |-> 0, keys |-> None, signer |-> None]

\* The canonical fingerprint covers the generation and the keys, not the signer.
Fingerprint(b) == [gen |-> b.gen, keys |-> b.keys]

NoFingerprint == Fingerprint(NoBundle)

Fingerprints == [gen : Generations, keys : KeySets] \cup {NoFingerprint}

\* The three state files a pass reads (PersistedState): absent is 0,
\* NoFingerprint and None.
PersistedState ==
    [gen : Generations \cup {0}, fp : Fingerprints, pin : Signers \cup {None}]

Reply(kind, b) == [kind |-> kind, bundle |-> b]

NoReply == Reply("none", NoBundle)

ReplyKinds == {"none", "notModified", "rejected", "invalid", "bundle"}

\* What BundleApplier::apply can come to once the helper has answered.
HelperAnswers == {"applied", "rolledBack", "unauthenticated", "failed"}

Outcomes ==
    {"none", "NotModified", "Unchanged", "Updated", "CaReloadFailed",
     "CaBundleTransport", "CaBundleRejected", "InvalidCaBundle",
     "GenerationRegressed", "HelperError", "Io"}

PassPoints ==
    {"idle", "fetch", "lastSync", "verify", "apply", "await", "generation",
     "fingerprint", "pin", "lastSuccess", "ack", "ackRollback"}

VARIABLES
    pc,         \* where the current pass is
    persisted,  \* what this pass read of the state files when it began
    reply,      \* the HTTP reply this pass received
    path,       \* which of the three successful ways the pass is ending
    outcome,    \* how the last pass ended
    disk,       \* the state files: generation, fingerprint, pinned signing key
    inbox,      \* requests the helper has accepted and not yet served
    answer,     \* the helper's answer on the agent's open connection
    host,       \* the bundle whose keys sshd trusts
    server,     \* the bundle the server currently publishes
    synced,     \* the server's synced_generation for this machine
    stable      \* from now on nothing crashes, fails or is lost

agentVars == <<pc, persisted, reply, path, outcome>>
vars == <<pc, persisted, reply, path, outcome, disk, inbox, answer, host,
          server, synced, stable>>

\* The bundle the pass is working on.
bundle == reply.bundle

TypeOK ==
    /\ pc \in PassPoints
    /\ persisted \in PersistedState
    /\ reply \in [kind : ReplyKinds, bundle : Bundle \cup {NoBundle}]
    /\ path \in {"none", "notModified", "unchanged", "updated"}
    /\ outcome \in Outcomes
    /\ disk \in PersistedState
    /\ inbox \in Seq(Bundle)
    /\ answer \in HelperAnswers \cup {"none"}
    /\ host \in Bundle \cup {NoBundle}
    /\ server \in Bundle
    /\ synced \in Generations \cup {0}
    /\ stable \in BOOLEAN

Init ==
    /\ pc = "idle"
    /\ persisted = [gen |-> 0, fp |-> NoFingerprint, pin |-> None]
    /\ reply = NoReply
    /\ path = "none"
    /\ outcome = "none"
    /\ disk = [gen |-> 0, fp |-> NoFingerprint, pin |-> EnrollmentPin]
    /\ inbox = <<>>
    /\ answer = "none"
    /\ host = NoBundle
    /\ server \in {b \in Bundle : b.gen = 1 /\ b.signer = ServerSigner}
    /\ synced = 0
    /\ stable = FALSE

\* synchronize returns: its locals are gone, its outcome is known.
EndPass(how) ==
    /\ pc' = "idle"
    /\ persisted' = [gen |-> 0, fp |-> NoFingerprint, pin |-> None]
    /\ reply' = NoReply
    /\ path' = "none"
    /\ outcome' = how

Goto(point) ==
    /\ pc' = point
    /\ UNCHANGED <<persisted, reply, path, outcome>>

-----------------------------------------------------------------------------
(* The server (external).  It publishes bundles of growing generation.  A   *)
(* server that is not honest stands for everything the agent's signature,   *)
(* pin and generation checks are there for: a stale replica, a replay, a    *)
(* forger with a signing key of its own.                                    *)

Publish ==
    /\ server.gen < MaxGeneration
    /\ \E ks \in KeySets :
          server' = [gen |-> server.gen + 1, keys |-> ks, signer |-> ServerSigner]
    /\ UNCHANGED <<agentVars, disk, inbox, answer, host, synced, stable>>

\* If-None-Match carries the fingerprint the pass read from disk.
CurrentReply(fp) ==
    IF fp = Fingerprint(server) THEN Reply("notModified", NoBundle)
                                ELSE Reply("bundle", server)

ServerReplies(fp) ==
    {CurrentReply(fp)}
    \cup (IF stable THEN {} ELSE {Reply("rejected", NoBundle), Reply("invalid", NoBundle)})
    \cup (IF HonestServer THEN {}
          ELSE {Reply("bundle", b) : b \in Bundle} \cup {Reply("notModified", NoBundle)})

-----------------------------------------------------------------------------
(* A synchronisation pass.                                                  *)

\* load_state.
BeginPass ==
    /\ pc = "idle"
    /\ pc' = "fetch"
    /\ persisted' = disk
    /\ outcome' = "none"
    /\ UNCHANGED <<reply, path, disk, inbox, answer, host, server, synced, stable>>

\* fetch_bundle: the signed GET and its reply.
FetchBundle ==
    /\ pc = "fetch"
    /\ reply' \in ServerReplies(persisted.fp)
    /\ pc' = "lastSync"
    /\ UNCHANGED <<persisted, path, outcome, disk, inbox, answer, host, server,
                   synced, stable>>

\* write_timestamp(last_sync): the server was reached, whatever it said.
WriteLastSync ==
    /\ pc = "lastSync"
    /\ Goto("verify")
    /\ UNCHANGED <<disk, inbox, answer, host, server, synced, stable>>

\* Mutant: the key pinned on disk is never consulted.
OperatorPinOnly(state) == OperatorPin

\* expected_signing_key: the operator's pin, else the one read from disk.
ExpectedSigningKey(state) ==
    IF OperatorPin # None THEN OperatorPin ELSE state.pin

\* The pin check inside CaBundle::from_response.
SignerAccepted(b, state) ==
    \/ ExpectedSigningKey(state) = None
    \/ ExpectedSigningKey(state) = b.signer

\* Mutant: one generation back is let through.
RegressedByTwo(b, state) == b.gen + 1 < state.gen

\* Downgrade protection: the generation may never go backwards.
Regressed(b, state) == b.gen < state.gen

\* Mutant: the fingerprint is not compared.
SameGeneration(b, state) == state.gen = b.gen

AlreadyRecorded(b, state) ==
    /\ state.gen = b.gen
    /\ state.fp = Fingerprint(b)

HandleNotModified ==
    /\ pc = "verify"
    /\ reply.kind = "notModified"
    /\ pc' = "lastSuccess"
    /\ path' = "notModified"
    /\ UNCHANGED <<persisted, reply, outcome, disk, inbox, answer, host, server,
                   synced, stable>>

\* Every reply that ends the pass with an error and changes nothing.
RefuseReply ==
    /\ pc = "verify"
    /\ \/ reply.kind = "rejected" /\ EndPass("CaBundleRejected")
       \/ reply.kind = "invalid" /\ EndPass("InvalidCaBundle")
       \/ /\ reply.kind = "bundle"
          /\ ~SignerAccepted(bundle, persisted)
          /\ EndPass("InvalidCaBundle")
       \/ /\ reply.kind = "bundle"
          /\ SignerAccepted(bundle, persisted)
          /\ Regressed(bundle, persisted)
          /\ EndPass("GenerationRegressed")
    /\ UNCHANGED <<disk, inbox, answer, host, server, synced, stable>>

Acceptable(b, state) == SignerAccepted(b, state) /\ ~Regressed(b, state)

HandleUnchanged ==
    /\ pc = "verify"
    /\ reply.kind = "bundle"
    /\ Acceptable(bundle, persisted)
    /\ AlreadyRecorded(bundle, persisted)
    /\ pc' = "pin"
    /\ path' = "unchanged"
    /\ UNCHANGED <<persisted, reply, outcome, disk, inbox, answer, host, server,
                   synced, stable>>

\* Mutant: the generation is recorded before the helper is asked.
RecordBeforeApply ==
    /\ pc = "verify"
    /\ reply.kind = "bundle"
    /\ Acceptable(bundle, persisted)
    /\ ~AlreadyRecorded(bundle, persisted)
    /\ Goto("apply")
    /\ disk' = [disk EXCEPT !.gen = bundle.gen]
    /\ UNCHANGED <<inbox, answer, host, server, synced, stable>>

HandleNewBundle ==
    /\ pc = "verify"
    /\ reply.kind = "bundle"
    /\ Acceptable(bundle, persisted)
    /\ ~AlreadyRecorded(bundle, persisted)
    /\ Goto("apply")
    /\ UNCHANGED <<disk, inbox, answer, host, server, synced, stable>>

\* Mutant: a fresh connection overtakes the ones still waiting.
SendOvertaking ==
    /\ pc = "apply"
    /\ Len(inbox) < Backlog
    /\ Goto("await")
    /\ inbox' = <<bundle>> \o inbox
    /\ answer' = "none"
    /\ UNCHANGED <<disk, host, server, synced, stable>>

\* HelperBundleApplier::apply, first half: token read, connect, one frame sent.
SendApply ==
    /\ pc = "apply"
    /\ Len(inbox) < Backlog
    /\ Goto("await")
    /\ inbox' = Append(inbox, bundle)
    /\ answer' = "none"
    /\ UNCHANGED <<disk, host, server, synced, stable>>

\* Mutant: any answer frame of the helper counts as applied.
AnyAnswerIsApplied ==
    /\ pc = "await"
    /\ answer # "none"
    /\ pc' = "generation"
    /\ path' = "updated"
    /\ UNCHANGED <<persisted, reply, outcome, disk, inbox, answer, host, server,
                   synced, stable>>

\* Second half: the answer frame, as apply_bundle and apply map it.
ReceiveAnswer ==
    /\ pc = "await"
    /\ \/ /\ answer = "applied"
          /\ pc' = "generation"
          /\ path' = "updated"
          /\ UNCHANGED <<persisted, reply, outcome>>
       \/ answer = "rolledBack" /\ Goto("ackRollback")
       \/ answer \in {"unauthenticated", "failed"} /\ EndPass("HelperError")
    /\ UNCHANGED <<disk, inbox, answer, host, server, synced, stable>>

\* Mutant: the fingerprint goes first.
FingerprintFirst(d, b) == [d EXCEPT !.fp = Fingerprint(b)]

\* persist_after_apply, one file at a time.
WithGeneration(d, b) == [d EXCEPT !.gen = b.gen]

WithFingerprint(d, b) == [d EXCEPT !.fp = Fingerprint(b)]

\* persist_pin_if_needed looks at the file again, not at what the pass read.
WithPin(d, b) ==
    IF OperatorPin # None \/ d.pin # None THEN d ELSE [d EXCEPT !.pin = b.signer]

WriteGeneration ==
    /\ pc = "generation"
    /\ disk' = WithGeneration(disk, bundle)
    /\ Goto("fingerprint")
    /\ UNCHANGED <<inbox, answer, host, server, synced, stable>>

WriteFingerprint ==
    /\ pc = "fingerprint"
    /\ disk' = WithFingerprint(disk, bundle)
    /\ Goto("pin")
    /\ UNCHANGED <<inbox, answer, host, server, synced, stable>>

PersistPinIfNeeded ==
    /\ pc = "pin"
    /\ disk' = WithPin(disk, bundle)
    /\ Goto("lastSuccess")
    /\ UNCHANGED <<inbox, answer, host, server, synced, stable>>

\* write_timestamp(last_success): the last step of a pass without an update.
WriteLastSuccess ==
    /\ pc = "lastSuccess"
    /\ \/ path = "updated" /\ Goto("ack")
       \/ path = "unchanged" /\ EndPass("Unchanged")
       \/ path = "notModified" /\ EndPass("NotModified")
    /\ UNCHANGED <<disk, inbox, answer, host, server, synced, stable>>

\* The server advances synced_generation on an "applied" report (external).
Advance(gen) == IF gen > synced THEN gen ELSE synced

\* The signed POST of the "applied" report.  Its fate never fails the pass:
\* the request may be lost, or be received and its reply lost.
Acknowledge ==
    /\ pc = "ack"
    /\ \/ synced' = Advance(bundle.gen)
       \/ ~stable /\ synced' = synced
    /\ EndPass("Updated")
    /\ UNCHANGED <<disk, inbox, answer, host, server, stable>>

\* Mutant: a rollback is reported as applied.
RollbackReportedApplied ==
    /\ pc = "ackRollback"
    /\ synced' = Advance(bundle.gen)
    /\ EndPass("CaReloadFailed")
    /\ UNCHANGED <<disk, inbox, answer, host, server, stable>>

\* The "rollback" report: the server audits it and advances nothing.
AcknowledgeRollback ==
    /\ pc = "ackRollback"
    /\ EndPass("CaReloadFailed")
    /\ UNCHANGED <<disk, inbox, answer, host, server, synced, stable>>

-----------------------------------------------------------------------------
(* The helper (external): it serves accepted requests one after another, in *)
(* order, and either installs a body or leaves what was installed.  Its     *)
(* answer reaches the agent only while the agent still waits on that        *)
(* connection, which is always the youngest one.  Requests that were given  *)
(* up earlier may fail at any time: their token may be an old one.          *)

Awaited == pc = "await" /\ Len(inbox) = 1

HelperServes ==
    /\ inbox # <<>>
    /\ \E a \in HelperAnswers :
          /\ stable /\ Awaited => a = "applied"
          /\ host' = IF a = "applied" THEN Head(inbox) ELSE host
          /\ answer' = IF Awaited THEN a ELSE answer
    /\ inbox' = Tail(inbox)
    /\ UNCHANGED <<agentVars, disk, server, synced, stable>>

-----------------------------------------------------------------------------
(* What goes wrong, while anything still does.                              *)

\* A state file is unreadable, or the GET fails in transport.
LoadOrFetchFails ==
    /\ ~stable
    /\ \/ pc = "idle" /\ EndPass("Io")
       \/ pc = "fetch" /\ EndPass("CaBundleTransport")
    /\ UNCHANGED <<disk, inbox, answer, host, server, synced, stable>>

\* The helper's token is unreadable or its socket refuses the connection.
HelperUnreachable ==
    /\ ~stable
    /\ pc = "apply"
    /\ EndPass("HelperError")
    /\ UNCHANGED <<disk, inbox, answer, host, server, synced, stable>>

\* IO_TIMEOUT, a dropped connection or a malformed frame: the request stays
\* with the helper, the agent hangs up.
AnswerLost ==
    /\ ~stable
    /\ pc = "await"
    /\ EndPass("HelperError")
    /\ answer' = "none"
    /\ UNCHANGED <<disk, inbox, host, server, synced, stable>>

\* secure_write fails: before the rename, or after it (the directory fsync).
WriteFails ==
    /\ ~stable
    /\ \/ pc \in {"lastSync", "lastSuccess"} /\ disk' = disk
       \/ pc = "generation" /\ disk' \in {disk, WithGeneration(disk, bundle)}
       \/ pc = "fingerprint" /\ disk' \in {disk, WithFingerprint(disk, bundle)}
       \/ pc = "pin" /\ disk' \in {disk, WithPin(disk, bundle)}
    /\ EndPass("Io")
    /\ UNCHANGED <<inbox, answer, host, server, synced, stable>>

\* The agent dies at any point and systemd starts it again.
Crash ==
    /\ ~stable
    /\ pc # "idle"
    /\ EndPass("none")
    /\ answer' = "none"
    /\ UNCHANGED <<disk, inbox, host, server, synced, stable>>

Stabilize ==
    /\ ~stable
    /\ stable' = TRUE
    /\ UNCHANGED <<agentVars, disk, inbox, answer, host, server, synced>>

-----------------------------------------------------------------------------
PassStep ==
    \/ BeginPass \/ FetchBundle \/ WriteLastSync
    \/ HandleNotModified \/ RefuseReply \/ HandleUnchanged \/ HandleNewBundle
    \/ SendApply \/ ReceiveAnswer
    \/ WriteGeneration \/ WriteFingerprint \/ PersistPinIfNeeded
    \/ WriteLastSuccess \/ Acknowledge \/ AcknowledgeRollback

Fault ==
    \/ LoadOrFetchFails \/ HelperUnreachable \/ AnswerLost \/ WriteFails \/ Crash

Next == PassStep \/ HelperServes \/ Publish \/ Fault \/ Stabilize

Spec == Init /\ [][Next]_vars

\* The poll loop starts passes forever and every call in a pass has a timeout
\* (PassStep) but the connect of SendApply, which waits while the backlog is
\* full and goes on because the helper serves what waits there; faults are
\* bursts, not a permanent condition.
Fairness == WF_vars(PassStep) /\ WF_vars(HelperServes) /\ WF_vars(Stabilize)

FairSpec == Spec /\ Fairness
-----------------------------------------------------------------------------
(* Properties.                                                              *)

\* The server never believes more of this host than the agent has on record,
\* and the agent never has more on record than sshd trusts: whatever crashes,
\* rollbacks and lost answers come between apply, persist_after_apply and
\* acknowledge, and whatever the server sends.
RecordsNeverAhead ==
    /\ synced <= disk.gen
    /\ disk.gen <= host.gen

\* The pass holds a bundle that it has authenticated, from the decision to
\* apply it until the pass ends.
HasBundle == pc \in {"apply", "await", "generation", "fingerprint", "pin", "ack",
                     "ackRollback"}

\* The helper has confirmed the bundle to this pass.
Confirmed ==
    \/ pc \in {"generation", "fingerprint", "ack"}
    \/ pc \in {"pin", "lastSuccess"} /\ path = "updated"

\* The pass has recorded the generation of the bundle.
Recorded ==
    \/ pc \in {"fingerprint", "ack"}
    \/ pc \in {"pin", "lastSuccess"} /\ path = "updated"

\* The handover between agent and helper.  Nothing a past pass left with the
\* helper is older than the record, the request a pass waits for is the last
\* one, and once it is confirmed the helper has nothing left to serve: what the
\* pass then records is what sshd trusts until the next pass asks again.
Handover ==
    /\ \A i \in DOMAIN inbox : disk.gen <= inbox[i].gen
    /\ pc \in {"fetch", "lastSync", "verify", "apply", "await", "generation"}
          => persisted = disk
    /\ HasBundle => disk.gen <= bundle.gen
    /\ pc = "await" =>
          IF answer = "none" THEN inbox # <<>> /\ inbox[Len(inbox)] = bundle
                           ELSE inbox = <<>> /\ (answer = "applied" => host = bundle)
    /\ Confirmed => inbox = <<>> /\ host = bundle
    /\ Recorded => disk.gen = bundle.gen

\* persist_after_apply writes the generation before the fingerprint, so that a
\* crash between the two can only leave an ETag that is too old: the ETag never
\* names a bundle newer than the recorded generation, and with an honest server
\* the bundle it names is the installed one unless a newer one already is.
RecordedBundleInstalled ==
    disk.fp # NoFingerprint =>
        /\ disk.fp.gen <= disk.gen
        /\ HonestServer => \/ disk.fp.gen < host.gen
                           \/ disk.fp = Fingerprint(host)

\* With an honest server, the ETag that makes the server answer 304 is never
\* on disk unless sshd trusts exactly the server's bundle: the NotModified
\* shortcut of synchronize cannot leave the host behind.
NotModifiedIsTruthful ==
    HonestServer /\ disk.fp = Fingerprint(server) => host = server

\* The trust anchor the agent has before it first syncs, if any.
Anchor == IF OperatorPin # None THEN OperatorPin ELSE EnrollmentPin

\* Key-swap resistance: with a signing key provisioned by the operator or
\* pinned at enrollment, nothing another key signed is ever installed, is on
\* its way to the helper, or becomes the pin.
OnlyAnchoredBundles ==
    Anchor # None =>
        /\ host # NoBundle => host.signer = Anchor
        /\ \A i \in DOMAIN inbox : inbox[i].signer = Anchor
        /\ disk.pin = EnrollmentPin

\* Trust on first use: without the operator's pin, a pin on disk, whenever and
\* by whichever pass it was written, is the signer of every bundle that a pass
\* asks the helper to install, records, pins or reports.  The pass checks what it
\* read of the file before the fetch, and persist_pin_if_needed reads it again.
PinGoverns ==
    OperatorPin = None /\ disk.pin # None /\ HasBundle => bundle.signer = disk.pin

\* Downgrade protection as seen by sshd: with an honest server no step takes
\* the host back to an older generation, a request the agent gave up on and
\* the helper serves late included.
HostNeverRegresses == [][HonestServer => host.gen <= host'.gen]_vars

\* Downgrade protection as seen by the agent, whoever answers: the recorded
\* generation never falls, and a pin once on disk stays.
RecordNeverRegresses ==
    [][/\ disk.gen <= disk'.gen
       /\ disk.pin # None => disk'.pin = disk.pin]_vars

Rollout == INSTANCE TrustRollout WITH
    installed <- host.gen, recorded <- disk.gen, reported <- synced

\* The detailed pass implements the three-generation promise.
ImplementsRollout == Rollout!Spec

\* Once faults stop, the host ends up with the server's last bundle, recorded
\* in full, whatever torn state files and unserved requests the faults left.
Converges ==
    <>[](/\ host = server
         /\ disk.gen = server.gen
         /\ disk.fp = Fingerprint(server))
=============================================================================
