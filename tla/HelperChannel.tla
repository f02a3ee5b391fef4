---------------------------- MODULE HelperChannel ----------------------------
(***************************************************************************)
(* The agent's calls to the privileged helper over its Unix socket:        *)
(* HelperClient and HelperBundleApplier (ipc/client.rs) and the framing    *)
(* they use (ipc/protocol.rs).  CaSync sees one such call as a question    *)
(* that is answered, lost or refused; here is what happens in between.     *)
(*                                                                         *)
(* A frame is a length and as many units of body; it is written and read   *)
(* piece by piece.  Each call opens a connection of its own, which waits   *)
(* in the listener's backlog, even after its caller has given up, until    *)
(* the helper accepts it.  The helper is external: it serves one           *)
(* connection at a time and may be slow, stop, or frame its answer badly.  *)
(***************************************************************************)
EXTENDS Naturals, Sequences

CONSTANTS
    Tokens,          \* capability tokens
    Methods,         \* the client's methods in use
    Bodies,          \* TrustedUserCAKeys bodies
    Size,            \* the encoded size of the request for each of them
    MAX_BODY_BYTES,  \* bound, in units, as in the code
    Backlog,         \* bound: connections the listener queues
    None

ASSUME ChannelAssumption ==
    /\ None \notin Tokens \cup Bodies \cup {"unauthenticated", "other"}
    /\ Methods \subseteq {"Ping", "EnsureDirectories", "InstallSshdDropin", "VerifyState",
                          "ApplyTrustedCaKeys", "ApplyBundle"}
    /\ Size \in [Bodies -> Nat \ {0}]
    /\ MAX_BODY_BYTES \in Nat \ {0} /\ Backlog \in Nat \ {0}

\* Operation; apply_bundle and apply_trusted_ca_keys send the same one.
Plain == {"Ping", "EnsureDirectories", "InstallSshdDropin", "VerifyState"}
Applies == {"ApplyTrustedCaKeys", "ApplyBundle"}

Requests ==
    [op : Methods \cap Plain, token : Tokens, content : {None}]
    \cup [op : Methods \cap Applies, token : Tokens, content : Bodies]

\* encode_request: a request without content is small.
Encoded(r) == IF r.content = None THEN 1 ELSE Size[r.content]

Responses ==
    [ok : BOOLEAN, outcome : {"Ok", "Applied", "RolledBack", "NotModified", "Unhealthy"},
     version : BOOLEAN, detail : {"unauthenticated", "other", None}]

Success(outcome, version) ==
    [ok |-> TRUE, outcome |-> outcome, version |-> version, detail |-> None]
Failure(outcome, d) == [ok |-> FALSE, outcome |-> outcome, version |-> FALSE, detail |-> d]

Results ==
    {"Ok", "Applied", "RolledBack", "Io", "HelperUnavailable", "HelperProtocol",
     "HelperUnauthenticated", "HelperOperationFailed"}

VARIABLES
    pc,           \* the client: "idle", "connect", "send", "header" or "body"
    call,         \* the request of the current or last call
    result,       \* how the last call ended; None during a call
    tokenFile,    \* the token in the client's file, None when there is no file
    up,           \* the helper's socket is listening
    backlog,      \* connections not yet accepted
    serving,      \* the connection the helper serves, or None
    wire,         \* the answer on the current call's connection
    helperToken,  \* the token the helper knows
    host,         \* the body the host trusts
    fate,         \* what became of the current call's request
    stable        \* from now on nothing stops, fails or is late

client == <<pc, call, result>>
helper == <<up, backlog, serving, host, fate>>
vars == <<client, helper, wire, tokenFile, helperToken, stable>>

\* A connection as the helper has it: the request, whether all of its frame
\* was written, whether its caller still holds the other end, whether the
\* helper has carried it out.
Connections == [req : Requests, whole : BOOLEAN, mine : BOOLEAN, ran : BOOLEAN]

ASSUME NoneAssumption == None \notin Connections /\ None \notin Results

\* The answer's frame: declared length, real size of the body, the response it
\* encodes (None: it encodes none); units written and read; end of stream.
Wires ==
    [len : 0..(MAX_BODY_BYTES + 1), size : 0..MAX_BODY_BYTES, resp : Responses \cup {None},
     sent : Nat, read : Nat, eof : BOOLEAN]

NoAnswer == [len |-> 0, size |-> 0, resp |-> None, sent |-> 0, read |-> 0, eof |-> FALSE]

TypeOK ==
    /\ pc \in {"idle", "connect", "send", "header", "body"}
    /\ call \in Requests \cup {None}
    /\ result \in Results \cup {None}
    /\ tokenFile \in Tokens \cup {None}
    /\ up \in BOOLEAN
    /\ backlog \in Seq(Connections) /\ Len(backlog) <= Backlog
    /\ serving \in Connections \cup {None}
    /\ wire \in Wires
    /\ helperToken \in Tokens
    /\ host \in Bodies \cup {None}
    /\ fate \in {"unsent", "sent", "refused", "done", "undone"}
    /\ stable \in BOOLEAN

Init ==
    /\ pc = "idle" /\ call = None /\ result = None
    /\ tokenFile \in Tokens \cup {None}
    /\ up \in BOOLEAN
    /\ backlog = <<>> /\ serving = None
    /\ wire = NoAnswer
    /\ helperToken \in Tokens
    /\ host = None
    /\ fate = "unsent"
    /\ stable = FALSE

-----------------------------------------------------------------------------
(* The client.                                                              *)

\* The call returns; dropping the stream closes the connection.
Return(r) ==
    /\ pc' = "idle"
    /\ result' = r
    /\ backlog' = [i \in DOMAIN backlog |-> [backlog[i] EXCEPT !.mine = FALSE]]
    /\ serving' = IF serving = None THEN None ELSE [serving EXCEPT !.mine = FALSE]
    /\ wire' = NoAnswer
    /\ UNCHANGED <<call, up, host, fate>>

\* Mutant: the token is read once, by the first call.
BeginWithOldToken ==
    /\ pc = "idle"
    /\ tokenFile # None
    /\ call' \in {r \in Requests : r.token = IF call = None THEN tokenFile ELSE call.token}
    /\ pc' = "connect"
    /\ result' = None
    /\ fate' = "unsent"
    /\ UNCHANGED <<up, backlog, serving, host, wire>>

\* from_paths reads the token for this call.
Begin ==
    /\ pc = "idle"
    /\ tokenFile # None
    /\ call' \in {r \in Requests : r.token = tokenFile}
    /\ pc' = "connect"
    /\ result' = None
    /\ fate' = "unsent"
    /\ UNCHANGED <<up, backlog, serving, host, wire>>

NoToken ==
    /\ pc = "idle"
    /\ tokenFile = None
    /\ result' = "Io"
    /\ call' = None /\ fate' = "unsent"
    /\ UNCHANGED <<pc, up, backlog, serving, host, wire>>

\* UnixStream::connect has no timeout: with a full backlog it waits.
Connect ==
    /\ pc = "connect"
    /\ up /\ Len(backlog) < Backlog
    /\ backlog' = Append(backlog, [req |-> call, whole |-> FALSE, mine |-> TRUE, ran |-> FALSE])
    /\ pc' = "send"
    /\ UNCHANGED <<call, result, up, serving, host, fate, wire>>

ConnectRefused ==
    /\ pc = "connect"
    /\ ~up
    /\ Return("HelperUnavailable")

Mine(c) == c # None /\ c.mine

\* The frame is all in the socket.
Delivered(c) == IF Mine(c) THEN [c EXCEPT !.whole = TRUE] ELSE c

\* write_frame: the limit first, then length and body.
WriteFrame ==
    /\ pc = "send"
    /\ \/ /\ Encoded(call) > MAX_BODY_BYTES
          /\ Return("HelperProtocol")
       \/ /\ Encoded(call) <= MAX_BODY_BYTES
          /\ ~wire.eof
          /\ backlog' = [i \in DOMAIN backlog |-> Delivered(backlog[i])]
          /\ serving' = Delivered(serving)
          /\ fate' = "sent"
          /\ pc' = "header"
          /\ UNCHANGED <<call, result, up, host, wire>>

\* The peer is gone, or does not read and the write timeout strikes.
WriteFails ==
    /\ pc = "send"
    /\ Encoded(call) <= MAX_BODY_BYTES
    /\ ~stable \/ wire.eof
    /\ Return("HelperUnavailable")

\* read_frame's check of the declared length.
WithinLimit(len) == len <= MAX_BODY_BYTES

\* check_ok, and what each method makes of it.
CheckOk(r) ==
    IF r.ok THEN "Ok"
    ELSE IF r.detail = "unauthenticated" THEN "HelperUnauthenticated" ELSE "HelperOperationFailed"

\* Mutant: whatever is neither refused nor rolled back was applied.
ApplyOutcomeUnlessUndone(r) ==
    IF r.detail = "unauthenticated" THEN "HelperUnauthenticated"
    ELSE IF r.outcome = "RolledBack" THEN "RolledBack" ELSE "Applied"

ApplyOutcome(r) ==
    IF r.ok THEN "Applied"
    ELSE IF r.detail = "unauthenticated" THEN "HelperUnauthenticated"
    ELSE IF r.outcome = "RolledBack" THEN "RolledBack" ELSE "HelperOperationFailed"

Outcome(r) ==
    CASE call.op = "ApplyBundle" -> ApplyOutcome(r)
      [] call.op = "Ping" /\ r.ok /\ ~r.version -> "HelperOperationFailed"
      [] OTHER -> CheckOk(r)

\* decode_response: only the whole encoding of a response, and nothing after
\* it, is one.
Decoded == IF wire.resp # None /\ wire.len = wire.size THEN Outcome(wire.resp) ELSE "HelperProtocol"

ReadHeader ==
    /\ pc = "header"
    /\ wire.sent > 0
    /\ \/ ~WithinLimit(wire.len) /\ Return("HelperProtocol")
       \/ /\ WithinLimit(wire.len)
          /\ pc' = "body"
          /\ wire' = [wire EXCEPT !.read = 1]
          /\ UNCHANGED <<call, result, helper>>

\* read_exact: any piece that is there, until the frame is complete.
ReadBody ==
    /\ pc = "body"
    /\ wire.read < 1 + wire.len
    /\ \E n \in (wire.read + 1)..wire.sent :
          n <= 1 + wire.len /\ wire' = [wire EXCEPT !.read = n]
    /\ UNCHANGED <<client, helper>>

Decode ==
    /\ pc = "body"
    /\ wire.read = 1 + wire.len
    /\ Return(Decoded)

\* Mutant: a call whose answer is late connects and sends once more.
ReadFailsRetried ==
    /\ \/ pc = "header" /\ wire.sent = 0
       \/ pc = "body" /\ wire.read = wire.sent /\ wire.read < 1 + wire.len
    /\ wire.eof \/ ~stable
    /\ pc' = "connect" /\ fate' = "unsent"
    /\ backlog' = [i \in DOMAIN backlog |-> [backlog[i] EXCEPT !.mine = FALSE]]
    /\ serving' = IF serving = None THEN None ELSE [serving EXCEPT !.mine = FALSE]
    /\ wire' = NoAnswer
    /\ UNCHANGED <<call, result, up, host>>

\* Nothing to read: end of stream, or 30 s without a byte.
ReadFails ==
    /\ \/ pc = "header" /\ wire.sent = 0
       \/ pc = "body" /\ wire.read = wire.sent /\ wire.read < 1 + wire.len
    /\ wire.eof \/ ~stable
    /\ Return("HelperUnavailable")

Client ==
    /\ \/ Connect \/ ConnectRefused \/ WriteFrame \/ WriteFails
       \/ ReadHeader \/ ReadBody \/ Decode \/ ReadFails
    /\ UNCHANGED <<tokenFile, helperToken, stable>>

NewCall == (Begin \/ NoToken) /\ UNCHANGED <<tokenFile, helperToken, stable>>

-----------------------------------------------------------------------------
(* The helper.                                                              *)

Accept ==
    /\ up /\ serving = None /\ backlog # <<>>
    /\ serving' = Head(backlog)
    /\ backlog' = Tail(backlog)
    /\ UNCHANGED <<client, up, host, fate, wire>>

\* What the helper may answer, with what the host then trusts.
Answers(req) ==
    IF req.token # helperToken
      THEN {[resp |-> Failure("Unhealthy", "unauthenticated"), host |-> host, fate |-> "refused"]}
    ELSE IF req.op = "Ping"
      THEN {[resp |-> Success("Ok", TRUE), host |-> host, fate |-> "done"]}
    ELSE IF req.op \in Plain
      THEN {[resp |-> Success("Ok", FALSE), host |-> host, fate |-> "done"]}
           \cup (IF stable THEN {}
                 ELSE {[resp |-> Failure("Unhealthy", "other"), host |-> host, fate |-> "undone"]})
    ELSE {[resp |-> Success(IF host = req.content THEN "NotModified" ELSE "Applied", FALSE),
           host |-> req.content, fate |-> "done"]}
         \cup (IF stable THEN {}
               ELSE {[resp |-> Failure("RolledBack", "other"), host |-> host, fate |-> "undone"],
                     [resp |-> Failure("Unhealthy", "other"), host |-> host, fate |-> "done"],
                     [resp |-> Failure("Unhealthy", "other"), host |-> req.content, fate |-> "done"]})

\* A frame for a response: as write_frame makes it, or badly made.
Frame(len, size, resp) == [NoAnswer EXCEPT !.len = len, !.size = size, !.resp = resp]

Frames(r) ==
    {Frame(n, n, r) : n \in 1..MAX_BODY_BYTES}
    \cup (IF stable THEN {}
          ELSE {Frame(n, 1, x) : n \in 0..(MAX_BODY_BYTES + 1), x \in {r, None}})

\* The request is read, carried out and answered; with nobody at the other end
\* the answer goes nowhere.
Execute ==
    /\ serving # None /\ serving.whole /\ ~serving.ran
    /\ \E a \in Answers(serving.req) :
          /\ host' = a.host
          /\ IF serving.mine
               THEN /\ fate' = a.fate
                    /\ wire' \in Frames(a.resp)
                    /\ serving' = [serving EXCEPT !.ran = TRUE]
               ELSE serving' = None /\ UNCHANGED <<fate, wire>>
    /\ UNCHANGED <<client, up, backlog>>

\* The caller is gone before it had sent all, or read all.
HangUp ==
    /\ serving # None /\ ~serving.mine
    /\ serving.ran \/ ~serving.whole
    /\ serving' = None
    /\ UNCHANGED <<client, up, backlog, host, fate, wire>>

Answering == Mine(serving) /\ serving.ran

SendAnswer ==
    /\ Answering
    /\ wire.sent < 1 + wire.size
    /\ wire' = [wire EXCEPT !.sent = @ + 1]
    /\ UNCHANGED <<client, helper>>

CloseAnswered ==
    /\ Answering
    /\ wire.sent = 1 + wire.size \/ ~stable
    /\ wire' = [wire EXCEPT !.eof = TRUE]
    /\ serving' = None
    /\ UNCHANGED <<client, up, backlog, host, fate>>

Helper ==
    /\ Accept \/ Execute \/ HangUp \/ SendAnswer \/ CloseAnswered
    /\ UNCHANGED <<tokenFile, helperToken, stable>>

\* The helper stops and takes its connections along; it is started again.
HelperStops ==
    /\ ~stable /\ up
    /\ up' = FALSE
    /\ backlog' = <<>> /\ serving' = None
    /\ wire' = [wire EXCEPT !.eof = pc \in {"send", "header", "body"}]
    /\ UNCHANGED <<client, host, fate, tokenFile, helperToken, stable>>

HelperStarts ==
    /\ ~up
    /\ up' = TRUE
    /\ UNCHANGED <<client, backlog, serving, host, fate, wire, tokenFile, helperToken, stable>>

\* A new token, for the helper and in the agent's file, at different times.
RotateHelper ==
    /\ ~stable
    /\ helperToken' \in Tokens \ {helperToken}
    /\ UNCHANGED <<client, helper, wire, tokenFile, stable>>

RotateFile ==
    /\ ~stable
    /\ tokenFile' \in (Tokens \cup {None}) \ {tokenFile}
    /\ UNCHANGED <<client, helper, wire, helperToken, stable>>

Stabilise ==
    /\ ~stable /\ up /\ tokenFile = helperToken
    /\ stable' = TRUE
    /\ UNCHANGED <<client, helper, wire, tokenFile, helperToken>>

-----------------------------------------------------------------------------
Next ==
    \/ NewCall \/ Client \/ Helper
    \/ HelperStops \/ HelperStarts \/ RotateHelper \/ RotateFile \/ Stabilise

Spec == Init /\ [][Next]_vars

\* Every poll cycle calls again; the client's own steps, timeouts included, are
\* taken.  The helper owes nothing before it is stable.
FairSpec ==
    /\ Spec
    /\ WF_vars(NewCall) /\ WF_vars(Client) /\ WF_vars(stable /\ Helper)

-----------------------------------------------------------------------------
(* Properties.                                                              *)

Oversize == call # None /\ Encoded(call) > MAX_BODY_BYTES

\* What a returned call says of the host is so, and stays so although requests
\* that were given up may still be in the backlog: Applied means the host
\* trusts this body, RolledBack that the helper undid it, and a refused token,
\* a missing one or a request too large that nothing was done or will be.
ResultsTellTheTruth ==
    pc = "idle" /\ result # None =>
        /\ result = "Applied" => host = call.content
        /\ result = "RolledBack" => fate = "undone"
        /\ result = "HelperUnauthenticated" => fate = "refused"
        /\ result = "Io" \/ Oversize => fate = "unsent"

\* Once helper, token and timing are right, every call succeeds from some point
\* on, whatever was in the backlog, whichever tokens were in use before and up
\* to the largest frame either side may write: no restart of the agent is
\* needed (HelperBundleApplier: "a token rotation [...] is picked up without
\* restarting the agent").
ChannelRecovers ==
    /\ stable ~> [](result \in {None, "Ok", "Applied"} \/ (result = "HelperProtocol" /\ Oversize))
    /\ (stable /\ pc # "idle") ~> (pc = "idle")

\* client.rs says of IO_TIMEOUT "Per-call connect/read/write timeout": a call
\* ends, whatever the helper does.
EveryCallEnds == (pc # "idle") ~> (pc = "idle")

-----------------------------------------------------------------------------
(* What CaSync takes as one question and its answer.                        *)

\* The connections whose requests may still be carried out, oldest first.
Unserved == IF serving # None /\ ~serving.ran THEN <<serving>> \o backlog ELSE backlog

\* What a result tells a pass; every other error leaves it in the dark.
Told(r) ==
    CASE r \in {"Ok", "Applied"} -> "done"
      [] r = "RolledBack" -> "rolledBack"
      [] r = "HelperUnauthenticated" -> "unauthenticated"
      [] r = None -> "none"
      [] OTHER -> "failed"

Contents(q) == [i \in DOMAIN q |-> q[i].req.content]

Asking == pc \in {"send", "header", "body"}
Question == IF Asking THEN call.content ELSE None
Pending == Contents(Unserved)
LastTold == IF pc = "idle" THEN Told(result) ELSE "none"

\* The answer that a call will return, unless it is lost on the way.
AnswerSent ==
    IF Asking /\ wire.resp # None /\ Told(Outcome(wire.resp)) # "failed"
    THEN Told(Outcome(wire.resp)) ELSE "none"

Exchange == INSTANCE HelperExchange WITH
    asking <- Asking, question <- Question, pending <- Pending,
    answer <- AnswerSent, told <- LastTold

\* A call with its connection, frames, timeouts and tokens, among connections
\* that earlier calls gave up and with a helper that stops and starts, is the
\* exchange that CaSync assumes: requests are carried out in the order in which
\* they were made, at most once each, and an answer is to the request of the
\* call that gets it.
ImplementsExchange == Exchange!ExchangeSpec
=============================================================================
