# A TLA+ model of mayfly-agent

mayfly-agent keeps the SSH certificate authorities that a host trusts in step
with a server. It enrolls the host once, then sends heartbeats and runs
CA-bundle synchronisation passes on one thread for as long as the host lives. A
root helper, reached over a Unix socket, is the only program that writes
`TrustedUserCAKeys` and reloads sshd.

This directory holds the TLA+ modules that model the agent, the TLC
configurations that check them, and the proofs that TLAPS checks. Paths below
are relative to `src/src/` of the repository.

## 1. Inventory

| Component | State it keeps | Operations | Talks to |
|---|---|---|---|
| Synchronisation pass (`protocol/ca_sync.rs`) | generation, fingerprint, pinned signing key, two timestamps, one file each | `synchronize` and the file writes inside it, `acknowledge` | server (signed GET, signed POST), helper |
| Bundle verification (`protocol/ca_bundle.rs`, `ssh/trusted_ca.rs`) | none | `from_response`, `render_trusted_user_ca_keys`, `TrustedCaKeys::parse` | called by the pass |
| Helper client (`ipc/client.rs`, `ipc/protocol.rs`) | capability token file (read per call) | `apply_bundle`, `ping` (start-up check), and calls the agent does not use | helper, one connection per call |
| Enrollment (`identity/*`) | private key, public key, machine record; last response in memory | `enroll`, `load_machine_identity`, `load_machine_keypair` | server (POST with a single-use token) |
| Backoff (`service/backoff.rs`) | attempt number | `retry_with_backoff` | wraps enrollment |
| Poll loop (`service/scheduler.rs`) | two due times | `take_due`, `run_polling` | calls heartbeat and pass |
| Shutdown (`service/shutdown.rs`) | an atomic flag | signal handlers, interruptible sleep | read by loop and backoff |
| Daemon and status (`service/daemon.rs`, `service/runtime_state.rs`) | `runtime_status.json`, its copy in memory | `run`, `record_heartbeat`, `record_sync`, `pin_bundle_signing_key` | all of the above |
| Heartbeat, request signing (`protocol/heartbeat.rs`, `signing.rs`) | none | `send_heartbeat`, `sign_request` | server |
| File primitives (`security.rs`) | none | `secure_write` (write, rename, directory fsync), checks | used by everything that writes |
| Configuration, start-up checks (`config.rs`, `service/validation.rs`, `main.rs`) | the configuration, read once per start | `Config::load`, `validate_startup` | operator, host |
| Platform, clock, logging, TLS, errors | none | wrap | read by the others |

What is hard about it:

* **Several files, no transaction.** A pass writes generation, fingerprint, pin
  and timestamp one after another; enrollment writes two keys, a record and a
  pin. The process may end between any two, and a write may fail after it has
  taken effect (the rename succeeds, the fsync of the directory fails).
* **Answers that come late or never.** The helper may install a bundle after the
  agent has stopped waiting; an enrollment request may use up the token after
  the client has timed out; reports to the server are sent once.
* **Decisions from stale files.** `If-None-Match`, the downgrade check and the
  pin are all read from files that an earlier, perhaps broken, pass left.
* **A disk that loses power.** A renamed file may be gone again, or be there
  without its data, unless file and directory were synced, in that order.
* **A socket whose connections outlive their callers**, with frames cut anywhere,
  and a token that is rotated under way.
* **Signed requests over a network** that loses, repeats, delays and changes
  them, with timestamps of a clock that may be wrong.
* **A configuration that changes under a host that is enrolled.**
* **One thread, two cadences, a wall clock and a signal** that may arrive
  anywhere.

What makes each component correct is stated as the properties of its module
(section 3); `PROJECT.json` ties each hazard to a source line and to the
properties that would notice it.

## 2. Modules

| Module | Models | Proofs |
|---|---|---|
| `CaSync` | a pass, file by file, between server and helper | `CaSyncProofs` |
| `TrustRollout` | what a pass promises: three generations that never overtake each other | refined by `CaSync` |
| `CaBundle` | acceptance and rendering of one envelope that travels | `CaSyncProofs` (second part) |
| `Enrollment` | processes sharing an identity directory, retry loop, server with a token | `EnrollmentProofs` |
| `PollLoop` | scheduler, sleeper and flag with tick-counted time | `PollLoopProofs` |
| `Daemon` | the process from launch to exit, start after start, and its status file | `DaemonProofs` |
| `SecureWrite` | `secure_write` step by step on a disk that loses power, and the two jobs that write two files | `SecureWriteProofs` |
| `AtomicFile` | what `secure_write` promises: whole replacements, and what a power failure may take back | refined by `SecureWrite` |
| `HelperChannel` | one call to the helper after another: token, connection, frames, answer | `HelperChannelProofs` |
| `HelperExchange` | what a pass counts on when it asks the helper: a question served in its turn or lost, and perhaps an answer | refined by `HelperChannel` |
| `Startup` | from configuration to service, start after start, while the operator changes things | `StartupProofs` |
| `SignedRequests` | heartbeats, bundle requests and acknowledgements, signed, over a bad network | `SignedRequestsProofs` |
| `MCCaSync`, `MCCaBundle`, `MCEnrollment`, `MCHelperChannel` | finite instances | |

How they fit together: `CaBundle` decides whether a reply is a bundle, and
`CaSync` takes that verdict as given (a reply is a bundle, or `"invalid"`);
`CaSync` implements `TrustRollout`, and `Daemon` uses of a pass only what
`TrustRollout` promises (the generation file never goes back, and may have gone
forward although the pass failed). `Enrollment` ends where `CaSync` begins: its
pin file is `EnrollmentPin`, which may be `None` because of the finding below.
`PollLoop` says when `Daemon`'s actions run. The newer modules open up what the
others take as one step. `AtomicFile` is the write that `CaSync`, `Enrollment`
and `Daemon` assume (it may fail before or after it shows), and `SecureWrite`
implements it. `HelperChannel` is the exchange behind `SendApply`,
`ReceiveAnswer` and `AnswerLost` of `CaSync`, and implements `HelperExchange`, the
same exchange without socket, frames and tokens: that a request given up may still be
served, in order, and that `Applied` is true of the host. `CaSync` has the steps of
`HelperExchange` as its own. `SendApply` is `Ask`; `HelperServes` is `Serve`, several
failing in a row being `Lose`; `ReceiveAnswer` is `Return` with the answer, `AnswerLost`
and a crash are `Return` without it, `HelperUnreachable` is `Prepare`. That `HelperChannel`
implements the exchange is proved; that `CaSync` uses it is seen by
comparing the two. `SignedRequests` is the exchange behind `FetchBundle`, `Acknowledge` and the
heartbeats of `Daemon`. `Startup` is the part of `Daemon` before service, and
treats an enrollment attempt, which `Enrollment` models, as a success or a
failure.

### CaSync

`pc` is the point a pass has reached; `persisted` and `reply` are its locals;
`disk` the three state files that matter; `inbox` and `answer` the helper's
socket; `host` the bundle sshd trusts; `server` and `synced` the server's bundle
and its idea of this host. Each file replacement, each network or socket
exchange and each branch of `synchronize` is an action. A bundle is its
generation, key set and signer. Two state files, the timestamps, are read by
nobody: writing them is a step that can fail and nothing else.

Assumed of the outside: the helper serves accepted connections one at a time in
order, and a refused or rolled-back request leaves the old bundle in place; a request
that was given up may fail at any time, since the token it carries may have been
replaced. The server, if `HonestServer`, answers with its current bundle or a correct 304;
otherwise any well-formed reply may come, of any signer and generation.
`Backlog` bounds the requests waiting at the helper's socket.

### CaBundle

`from_response` is a list of rules, and the error of the first failing one is
the verdict, in the order of the code's early returns. An envelope can be
signed, changed and delivered in any order; signatures and digests are ideal.
The stable sort by key id gives each entry its rank (the number of entries
before it), so that what it yields can be reasoned about for lists of any length.
JSON escaping, base64 and RFC 3339 syntax are abstracted.

### Enrollment

One `pc` per process of `Agents`. The server numbers requests, and an accepted
request's number is its machine id. Keys nobody has a trace of count as fresh,
and unused request numbers are reused, so bounds do not run out. Syntax checks
of token, hostname and URL are one failing outcome each.

### PollLoop

Due times are relative to the wall clock, so setting the clock shifts both;
sleeping uses the monotonic clock. Ticks pass in sleeps and callbacks only. The
initial contact is a cycle with both actions due, as `Daemon::run` makes it.
`HeartbeatTime` and `SyncTime` stand for the timeouts of the calls in a callback. The
one call without a timeout, the connect to the helper, may block the pass
(`ConnectBlocks`) until the helper accepts (`HelperAccepts`); the due times go by
meanwhile (`BlockedTick`), and this time is not counted in `since`: the deadlines are
bounds on what the agent itself adds to the wait.

### Daemon

Start-up, service and exit with every save of the status; the outcome of a pass
and of a heartbeat is a free choice among what the two can come to. A pass may
block in connect, where a signal sets the flag and nothing looks at it. `Crash` is a
kill: files are as they were seen (power failures, and the older values they may bring
back, are in `SecureWrite`). A signal before the handlers are installed, the ping of
the start-up checks included, is such a kill.

### SecureWrite and AtomicFile

An inode is a file that one call creates; `dir` says which inode a name leads to
and `media` which ones it may lead to after a power failure, one name at a time,
until `fsync_dir` settles its directory. `told` is the last value of each file
that a caller was told Ok for. A failure of any step, a kill and a power failure
are actions. The disk is not trusted with anything that was not synced: data may
be gone or torn, mode bits may be those of creation. One consequence that is
not a property: after a *failed* directory sync and a power failure the
generation file may hold an older value than readers saw before, which `CaSync`
rules out by having no power failures; `WholeAndKept` says that a confirmed
value is never lost.

### HelperChannel

`pc` follows `HelperClient::call`; `backlog` and `serving` are connections as the
helper has them, each with the request, whether its frame is complete and
whether its caller is still there; `wire` is the answer on the current
connection, sent and read in units. The listener queues at most `Backlog`
connections, and `connect` waits when it is full. A declared length may be wrong
or beyond the limit. External: the helper, which checks the token, serves one
connection at a time, and restores the old body when it reports `RolledBack`.

### Startup

A text is one of a few words that stand for what the parsers and validators tell
apart (`"0"`, `"86401"`, `"junk"`, `"relative"`, `"nan"`, ...). Configuration file and environment
are separate, with their different spellings and the different treatment of
blank values. State directories hold a pin; identity directories a record and a
key, each with what can be wrong with it. The operator's changes are actions
that may come between any two steps of a start.

### SignedRequests

A request is its fields; a signature is its key and text, and nobody else can make
one. A copy on the wire is a request with the signature it was sent with. Time is the age of timestamps at the server, so that no clock
grows; a nonce is fresh when nothing mentions it any more. `acted` is a history
variable: whether the server did, under a nonce, what the agent sent with it,
and once. External: a server that verifies the signature, refuses timestamps
outside `Window` and remembers nonces as long as a timestamp is inside it. It
must be so for `signing.rs` to mean anything, and it is not in this repository.

## 3. Runs

Runs expected to pass:

| Run | Instance | What it shows |
|---|---|---|
| `sync_honest` | 3 generations, 2 key sets, one signer, backlog 2, all faults, no pin, fairness | `NotModifiedIsTruthful`: a 304 never leaves the host behind. `RecordedBundleInstalled`: the write order keeps a torn record harmless. `HostNeverRegresses`: late helper work included. `Converges`: once faults stop, host and all records reach the last published bundle. |
| `sync_hostile` | 2 generations, 2 key sets, 2 signers, any replies, an enrollment pin | `RecordsNeverAhead`, `Handover`, `OnlyAnchoredBundles`, `RecordNeverRegresses`, and `ImplementsRollout` (refinement) |
| `bundle_accept` | lists of up to 3 entries out of 7 (among them one without key, one without id, one RSA key), `MAX_KEYS` 2, times 0..3, 2 changes, 1 signature, 2 deliveries | `AcceptedWasSigned`, `ContentJudgedOnlyIfSigned`, `FingerprintIdentifiesFile`, `AcceptedIsUsable` |
| `enroll` | one process, 3 token uses, 2 requests in flight, fairness | `EnrolledIsRegistered`, `KeyFilesAgree`, `WrittenOnce`, `PinWasValidated`; `EventuallyInService` once faults stop |
| `poll` | intervals 2 and 6, jitter 1, callbacks of up to 2 ticks, a connect that blocks any time, clock set either way by 1, fairness | `HeartbeatsInTime`, `SyncsInTime` (exact bounds: one tick less is violated), `ShutdownIsPrompt`, `NoIdleCycles`; `SignalEndsLoop`, if the helper leaves no connect waiting for ever |
| `daemon` | 3 generations, unlimited restarts, fairness | `ReportsNeverAhead`, `ReportedNeverFalls`, `CleanIsEarned`; `SignalEndsProcess`, if the helper leaves no connect waiting for ever |
| `secure_write` | 5 inodes, 2 generations, 2 keypairs | `WholeAndKept`, `OrderSurvives`, `ModesAsAsked`; `ImplementsAtomicFile` (refinement) |
| `helper_channel` | 2 tokens, two bodies at the frame limit and one beyond it, backlog 1, fairness | `ResultsTellTheTruth`: also after later work on requests that were given up; `ImplementsExchange` (refinement); `ChannelRecovers`: every call succeeds once helper and token are in order |
| `startup` | 2 changes among nine settings, the host and its files, fairness | `TalksToEnrolledServer`, `PinIsKept`; `RepairedGetsInService` from whatever was left behind |
| `signed_requests` | 3 nonces, 2 copies in flight, clock 1 ahead to 2 behind a window of 1, fairness | `ActsOnceAsSigned`, `OkWasTaken`; `CatchesUp` once network and clock are right |

Every module of a component but `CaBundle` also has a type invariant, `TypeOK`. It was
checked on the same instances and is proved in each of them, so no run repeats it. Two
more properties are proved and were model-checked on instances that are not among the
runs: `PinGoverns` of `CaSync` (the instance of `sync_hostile` without the enrollment
pin) and `IdsAreIssued` of `Enrollment` (two processes, two keypairs, three request
numbers, one token use: 4.7 million states).

Why the bounds are enough: three generations are the smallest number in which a
torn record, a bundle asked for and given up, and a newer publication are all
different (`sync_hostile` needs only two, since its replies may carry either at
any time); a backlog of two holds one abandoned and one current request; two
requests in flight are one abandoned and one current attempt, and three token
uses let both be registered and a third be answered. Five inodes are the four
files of the two jobs and the temporary one of a write that follows a failed
directory sync. A backlog of one is full with one abandoned connection, beside
another one being served; the limit of two units makes a frame that can be cut
inside its body. Two changes in `Startup` are one that leads to a different
start and one that meets what that start left. In `SignedRequests` the clock may
be inside and outside the window in one direction, and two copies are a request
and its duplicate, or an old copy and a newer request. In `PollLoop` both orders of
interval and callback length matter; the bounds were also checked for nine other
choices of the four numbers. `bundle_accept` does without a deadlock check
because its journey of bounded length ends, `PollLoop` because the loop does end
after a signal; everywhere else deadlock is checked.

Runs that show a disagreement between a comment and the code:

| Run | Comment | What happens |
|---|---|---|
| `doc_pinned_at_enrollment` | "pins this at enrollment" | a process that ends between record and pin never pins |
| `doc_helper_timeout` | "Per-call connect/read/write timeout." | connect has none: with the backlog full of given-up connections it waits for as long as the helper accepts none, and heartbeats and shutdown with it ("must stop promptly on `SIGINT`/`SIGTERM`", `shutdown.rs:3`) |

Smaller disagreements seen while modelling, without a run of their own:

* `acknowledge` logs "will retry on next pass" (`ca_sync.rs:457`). Generation and
  fingerprint are on disk by then, so the next pass is a 304 and reports nothing.
  The server learns the generation from a heartbeat (`CatchesUp`).
* `BundleApplier::apply` on an error: "the host is left unchanged"
  (`ca_sync.rs:130`). When only the answer is lost, it is not.
* "the agent pins the first signing key it sees" (`ca_sync.rs:250`). A pass that
  ends between fingerprint and pin is followed by 304s, which do not pin, so a
  later signer may be the one pinned.
* "Idempotent across restarts and races" (`daemon.rs:267`). With two processes
  in `Agents`, `Enrollment` reaches a record beside a key that the server did not
  register for it. The shipped unit runs one.
* "The generation applied as of the last write." (`runtime_state.rs:49`). A pass
  that fails after recording its generation leaves status and heartbeats behind.
* "256 bits of entropy" (`signing.rs:36`): a nonce is 16 bytes.
* One key under two ids and two comments passes the uniqueness check
  (`ca_bundle.rs:236`).
* A blank `bundle_signing_public_key` removes the operator's pin when it comes from
  the environment, and is an error when it comes from the file (`config.rs:324`);
  a changed `state_dir` leaves the pin behind. Neither is documented.
* A `server_url` with a path of its own passes the checks, and then the path on the
  wire is not the signed one (`heartbeat.rs:247`).
* A process killed before its first save leaves its predecessor's
  `clean_shutdown = true` (`daemon.rs:209`).

### Fairness

* `CaSync`: weak fairness of the pass (the poll loop starts one after another; HTTP
  calls and reads and writes on the socket have timeouts) and of the helper. The
  connect has no timeout: `SendApply` waits while the backlog is full, and it is the
  helper's fairness that ends the wait. Faults are assumed to stop at some point (`stable`), and `Converges` is about what follows.
* `Enrollment`: weak fairness of the process (systemd restarts it after a failure or a
  kill, and after a clean exit, which `Restart=on-failure` leaves alone, whoever stopped
  it; backoff sleeps are bounded) and of the network once it loses nothing. `Stabilize` asks
  that the token be good for more enrollments than the requests still under way
  can use: with a single-use token whose reply is lost the code retries for ever,
  and only a new token helps.
* `PollLoop`, `Daemon`: weak fairness of the thread where it is not blocked in connect:
  everything else it waits for has a timeout. No fairness of signals, and none of the
  helper: that it answers connects in the end (`HelperAnswersConnects`) is a hypothesis
  of `SignalEndsLoop` and `SignalEndsProcess`. Without it both fail: a signal that finds
  the pass in connect, or on its way there, ends nothing until the helper accepts.
* `HelperChannel`: weak fairness of the client's own steps, its read and write
  timeouts included, and of the next call (there is a next poll cycle); of the
  helper only once it is stable. That is why `EveryCallEnds` fails and
  `ChannelRecovers` holds.
* `Startup`: weak fairness of the process, which systemd restarts; none of the
  operator. After `Repair` an attempt to enroll fails only for reasons the agent
  itself checks. The ping of `helper_check` is assumed to return, which its connect does
  not guarantee either.
* `SignedRequests`: weak fairness of the poll loop, of time and of delivery.
  Nothing is assumed of the network before `Stabilise`.

## 4. Proofs

The modules `...Proofs` prove the following of the specification *without* fairness
(`Spec`, `BundleSpec` in `CaBundle`), for every value of the constants that satisfies the named assumption of
its module (bounds are numbers, `None` is not one of the things it stands beside; in
`CaBundle`, key entries are records with a number for an id; nothing else). The bounds that the runs fix are constants like the others, so each
theorem is about any number of generations, inodes, copies, connections, ticks.

| Module | Theorem | Statement |
|---|---|---|
| `CaSyncProofs` | `TypeCorrect` | `Spec => []TypeOK` |
| | `HandoverIsSafe`, `RecordsAreSafe` | `Spec => []Handover`, `Spec => []RecordsNeverAhead` |
| | `RecordIsMonotone` | `Spec => RecordNeverRegresses` |
| | `RolloutImplemented` | `Spec => Rollout!Spec` |
| | `AnchorHolds` | `Spec => []OnlyAnchoredBundles` |
| | `PinIsObeyed` | `Spec => []PinGoverns` |
| | `NotModifiedIsSound`, `HostIsMonotone`, `RecordedIsInstalled` | `[]NotModifiedIsTruthful`, `HostNeverRegresses`, `[]RecordedBundleInstalled` |
| | `AcceptedIsAuthentic`, `ContentIsAuthenticated`, `FingerprintIsFile`, `AcceptedIsInstallable` | `BundleSpec =>` `[]AcceptedWasSigned`, `[]ContentJudgedOnlyIfSigned`, `[]FingerprintIdentifiesFile`, `[]AcceptedIsUsable` |
| `SecureWriteProofs` | `TypeCorrect`, `WholeFiles`, `OrderedFiles`, `ModesKept` | `[]TypeOK`, `[]WholeAndKept`, `[]OrderSurvives`, `[]ModesAsAsked` |
| | `Implementation` | `Spec => ImplementsAtomicFile` |
| `EnrollmentProofs` | `TypeCorrect`, `IdsIssued` | `[]TypeInv`, `[]IdsAreIssued`, any number of processes |
| | `IdentityIsRegistered`, `KeysAgree`, `PinValidated`, `FilesWrittenOnce` | for `Agents = {a}`: `[]EnrolledIsRegistered`, `[]KeyFilesAgree`, `[]PinWasValidated`, `WrittenOnce` |
| `HelperChannelProofs` | `TypeCorrect`, `Truthful` | `[]TypeOK`, `[]ResultsTellTheTruth` |
| | `ExchangeImplemented` | `Spec => ImplementsExchange` |
| `SignedRequestsProofs` | `TypeCorrect`, `ActsOnce`, `OkTaken` | `[]TypeOK`, `[]ActsOnceAsSigned`, `OkWasTaken` |
| `DaemonProofs` | `TypeCorrect`, `NeverAhead`, `CleanEarned`, `NeverFalls` | `[]TypeOK`, `[]ReportsNeverAhead`, `[]CleanIsEarned`, `ReportedNeverFalls` |
| `PollLoopProofs` | `TypeCorrect`, `HeartbeatDeadline`, `SyncDeadline`, `PromptShutdown`, `NoSpinning` | `[]TypeOK`, `[]HeartbeatsInTime`, `[]SyncsInTime`, `[]ShutdownIsPrompt`, `NoIdleCycles` |
| `StartupProofs` | `TypeCorrect`, `EnrolledServerOnly`, `PinKept` | `[]TypeOK`, `[]TalksToEnrolledServer`, `PinIsKept` |

Each module is laid out alike: the inductive invariant in named parts, lemmas about
the operators, `Init` establishes it, one lemma or step per action, and the theorems.
Each invariant was model-checked on the instance of its run before it was proved.
The arguments, and why each needs its strengthening:

**CaSync.** `RecordsNeverAhead` is not inductive: a generation is recorded because
of an answer, and nothing in the three numbers says that the answer was about this
bundle or that no older request is still with the helper. `Handover` supplies that:
nothing in the helper's inbox is older than the record, the request a pass waits for
is the last one, and a confirmed request left the inbox empty and the host on this
bundle; what a pass has read is what the disk holds until it writes. The two together
are inductive. Monotonicity of the record and the refinement follow step by step. The
anchor and the honest-server results each add an invariant of their own: every bundle
that a pass holds, that waits at the helper or that is installed was signed by the
anchor; and, with an honest server, is one the server has published, so that equal
generations mean equal bundles. `RecordedBundleInstalled` adds what the fingerprint
was computed from: a bundle that had been confirmed when it was written. `PinGoverns`
holds because what a pass read before the fetch is still on disk when it decides
(`Handover`), and because the pin is only ever written by the pass that holds the bundle.

**CaBundle.** The inductive invariant is small. `GenuineSignature`: a signature that
verifies over a payload was made over that payload, which is needed because the envelope
changes under its signature; `PassedRules`: an accepted envelope passed every rule at the
time of its delivery, and its payload was signed. What takes work is the operators. The rank of an entry is a number no other
entry has, so the ranks are an injection of a finite set into itself and the sort is a
permutation (`OrderIsPermutation`), which needs no induction over the list; hence two
lists with the same canonical encoding have the same entries (`CanonicalKeysIdentify`),
which is why the fingerprint identifies the rendered file. `FirstErrorFacts` says that the verdict is that
of the first failing rule and that all before it passed; so an error about the content is
given only after the signature was found good. `NeighboursSuffice`: comparing neighbours
of the sorted list, as the code does, finds every duplicate.

**SecureWrite.** A power failure replaces `dir` by entries of `media`, so a statement
about `dir` alone is lost there. `DiskInv` says of *every* entry that may come back
what the properties say of the one in place: whole, synced before it was linked, of
its mode, no older than what a caller was told, and in order with every entry of the
job's other file that may come back, since each name falls back on its own. `TempInv`
follows the temporary file up to the rename, and `JobInv` what a job knows of the disk
it began on. In the refinement a rename is `AtomicFile`'s replacement, a directory
sync its confirmation, and every other step of `secure_write` a stutter.

**Enrollment.** `TypeInv` adds to the types what a process has in hand at each point.
The rest is for one process, which is how the unit runs it, and that hypothesis is
needed: with two processes TLC finds each of the three invariants violated (one writes
its key between the other's check and write). What any number of processes keep is
`IdsAreIssued`: `OwnExchange`, which says that the request a process waits for carries its
key and that a reply with an id answers a registered request, is kept by the steps of the
others, because a request gets a number that nobody waits for. The invariant of one process ties the attempt's keypair
to the key file, the request under way and its reply to that keypair and to what the
server registered, and the remembered response, once there is a record, to one that
was validated. Requests that were given up stay in flight, so that a reply is believed
only because its number is the one waited for.

**HelperChannel.** A result is about the host, which requests given up earlier may
still change. `QueueInv` says that the current call's connection is the last one in the
queue; hence (`FateInv`) when its request has been carried out nothing else is waiting,
and what the answer says (`WireInv`) and the caller returns (`ResultInv`) stays true
until the next call. The refinement maps a connection made to `Ask`, a request carried
out or dropped to `Serve`, a helper that stops to `Lose`, and the ways a call can end to
`Return`; reading the token, frames, timeouts of others and token rotation are stutters.
`QueueInv` and `FateInv` are again what it needs: only the youngest request is answered.

**SignedRequests.** Uniqueness of a nonce is not enough, because the server forgets
nonces. `AgeInv`: copies of one request are of one age, also the age that the server
remembers for it; so when it forgets, each copy left is beyond its tolerance, and is
refused for its time. `WireInv` with the lemma `SignatureBinds`: whatever verifies
against a copy's signature says what was sent under it. `CallInv`: at most one copy is
waited for, the one of the current call, so an answer is to its own request; `ReplyInv`
is the same for the answer on its way to the agent.

**Daemon.** The generation that a heartbeat reports is that of the memory, which a
restart reads again: `MemoryKnowsReported` holds from the recovery on because the file
never falls behind what was reported. `CleanMark` says at which points the mark may be
in memory and in the file.

**PollLoop.** The bounds are sums that are exact only with the place in the loop:
`HeartbeatInv` and `SyncInv` bound `since + due`, `since + remaining` while asleep and
`since` by the time the current callback has run; `StopInv` counts what may still begin.
The proof is linear arithmetic, one action at a time.

**Startup.** Records are written only after their server registered that identity
directory (`RecordsRegistered`), and the directories in use are ones of the host
(`PathsKnown`); `Edit` may come between any two steps because the process works on what
it has loaded.

Only model-checked:

* Liveness under fairness, which the prover does not do: `Converges`,
  `EventuallyInService`, `SignalEndsLoop`, `SignalEndsProcess`, `ChannelRecovers`,
  `RepairedGetsInService`, `CatchesUp`.
* The two statements of comments that the code does not keep (section 3).

Every other property of the runs, invariants, action properties and refinements, is
a theorem.

## 5. Not modelled

* Cryptography and encodings: signatures and hashes are ideal, JSON, base64,
  RFC 3339 and TOML syntax are the outcome of parsing.
* Backoff delays and jitter arithmetic in floating point: ranges.
* Ownership checks and symlinks of single files: a failing read; that of the
  state directory is in `Startup`.
* The text of the sshd drop-in (`ssh/sshd_config.rs`): formatting, with no caller in
  the agent beyond the compatibility check.
* Platform facts, PEM files, log output: pure I/O; what follows from them is an
  outcome in `Startup`.
* How long a call to the helper takes when the answer trickles in: the timeout is
  per read.
* Temporary files left behind by failed renames and kills: they are never read.
* The helper and the server: external, modelled by the assumptions above.
* The installer, beyond the configuration it writes, and the uninstaller.

## 6. What could follow

1. Abstract specifications: an enrollment that happens at most once per host,
   refined by `Enrollment` for one process; a periodic task, refined by `PollLoop`. Both
   follow from the invariants that are proved.
2. `CaSync` with `HelperExchange` as a component instead of steps of its own, which would
   make the correspondence above a theorem.
