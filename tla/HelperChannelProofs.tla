------------------------ MODULE HelperChannelProofs ------------------------
(***************************************************************************)
(* Theorems about HelperChannel: what a returned call says of the host is  *)
(* true, for any number of tokens and bodies, any frame limit and any      *)
(* length of the listener's backlog.                                       *)
(***************************************************************************)
EXTENDS HelperChannel, SequenceTheorems, TLAPS

-----------------------------------------------------------------------------
(* The inductive invariant.                                                 *)

\* A call that is under way has its request.
CallInv == pc # "idle" => call \in Requests

\* The connection of the call under way, where the queue holds it.
Own(c) ==
    /\ c.req = call
    /\ pc \in {"send", "header", "body"}
    /\ c.whole => pc \in {"header", "body"}

\* The helper serves in the order of arrival and one call is made at a time: the
\* connection of the current call is the last, all before it were given up.
QueueInv ==
    /\ \A i \in 1..Len(backlog) :
          /\ ~backlog[i].ran
          /\ backlog[i].mine => i = Len(backlog) /\ Own(backlog[i])
    /\ Mine(serving) => backlog = <<>> /\ Own(serving)

Final == {"refused", "done", "undone"}

\* How far a request can have got, by where its call is; and once it has been
\* carried out nothing is left that could change the host before the next call.
FateInv ==
    /\ pc \in {"connect", "send"} => fate = "unsent"
    /\ pc \in {"header", "body"} => Encoded(call) <= MAX_BODY_BYTES
    /\ fate \in Final => backlog = <<>> /\ (serving = None \/ serving.ran)

\* An answer on the wire tells the truth.
WireInv ==
    wire.resp # None =>
        /\ pc \in {"header", "body"}
        /\ fate \in Final
        /\ wire.resp.ok => fate = "done" /\ (call.op \in Applies => host = call.content)
        /\ wire.resp.detail = "unauthenticated" => fate = "refused"
        /\ wire.resp.outcome = "RolledBack" => fate = "undone"

\* So does a result; an applied bundle was carried out.
ResultInv ==
    pc = "idle" /\ result # None =>
        /\ result = "Applied" => fate = "done" /\ host = call.content
        /\ result = "RolledBack" => fate = "undone"
        /\ result = "HelperUnauthenticated" => fate = "refused"
        /\ result = "Io" \/ Oversize => fate = "unsent"

IInv == TypeOK /\ CallInv /\ QueueInv /\ FateInv /\ WireInv /\ ResultInv

-----------------------------------------------------------------------------
(* Lemmas about the operators.                                              *)

\* A sequence changed element by element.
LEMMA SameLength ==
    ASSUME NEW S, NEW s \in Seq(S), NEW t \in [DOMAIN s -> S]
    PROVE  t \in Seq(S) /\ Len(t) = Len(s)
OBVIOUS

\* A connection with a field set is a connection.
LEMMA ConnectionFields ==
    ASSUME NEW c \in Connections, NEW b \in BOOLEAN
    PROVE  /\ [c EXCEPT !.mine = b] \in Connections
           /\ ([c EXCEPT !.mine = b].mine <=> b)
           /\ ([c EXCEPT !.mine = b].ran <=> c.ran)
           /\ [c EXCEPT !.whole = b] \in Connections
           /\ ([c EXCEPT !.whole = b].mine <=> c.mine)
           /\ ([c EXCEPT !.whole = b].ran <=> c.ran)
           /\ [c EXCEPT !.whole = b].req = c.req
           /\ [c EXCEPT !.ran = b] \in Connections
           /\ ([c EXCEPT !.ran = b].mine <=> c.mine)
           /\ ([c EXCEPT !.ran = b].ran <=> b)
           /\ [c EXCEPT !.ran = b].req = c.req
           /\ ([c EXCEPT !.ran = b].whole <=> c.whole)
BY DEF Connections

\* What the client makes of an answer claims no more than the answer does.
LEMMA OutcomeClaims ==
    ASSUME NEW r \in Responses, call \in Requests
    PROVE  /\ Outcome(r) \in Results \ {"Io"}
           /\ Outcome(r) = "Applied" => r.ok /\ call.op \in Applies
           /\ Outcome(r) = "RolledBack" => r.outcome = "RolledBack"
           /\ Outcome(r) = "HelperUnauthenticated" => r.detail = "unauthenticated"
BY DEF Outcome, ApplyOutcome, CheckOk, Responses, Results, Applies, Requests

\* Every answer the helper may give is a response, and says what was done.
LEMMA AnswerClaims ==
    ASSUME TypeOK, NEW q \in Requests, NEW a \in Answers(q)
    PROVE  /\ a.resp \in Responses
           /\ a.host \in Bodies \cup {None}
           /\ a.fate \in Final
           /\ a.resp.ok => a.fate = "done" /\ (q.op \in Applies => a.host = q.content)
           /\ a.resp.detail = "unauthenticated" => a.fate = "refused"
           /\ a.resp.outcome = "RolledBack" => a.fate = "undone"
<1> DEFINE Claims(x) ==
      /\ x.resp \in Responses
      /\ x.host \in Bodies \cup {None}
      /\ x.fate \in Final
      /\ x.resp.ok => x.fate = "done" /\ (q.op \in Applies => x.host = q.content)
      /\ x.resp.detail = "unauthenticated" => x.fate = "refused"
      /\ x.resp.outcome = "RolledBack" => x.fate = "undone"
<1>0. host \in Bodies \cup {None} /\ q.op \in Plain \cup Applies
      BY DEF TypeOK, Requests
<1>1. ASSUME NEW h \in Bodies \cup {None}, NEW d \in {"unauthenticated", "other"},
             NEW o \in {"RolledBack", "Unhealthy"}, NEW f \in Final,
             d = "unauthenticated" => f = "refused", o = "RolledBack" => f = "undone"
      PROVE  Claims([resp |-> Failure(o, d), host |-> h, fate |-> f])
      BY <1>1 DEF Failure, Responses
<1>2. ASSUME NEW h \in Bodies \cup {None}, NEW o \in {"Ok", "Applied", "NotModified"},
             NEW v \in BOOLEAN,
             q.op \in Applies => h = q.content
      PROVE  Claims([resp |-> Success(o, v), host |-> h, fate |-> "done"])
      BY <1>2, ChannelAssumption DEF Success, Responses, Final
<1> SUFFICES Claims(a)
    OBVIOUS
<1> DEFINE No(o, d, h, f) == [resp |-> Failure(o, d), host |-> h, fate |-> f]
           Yes(o, v, h) == [resp |-> Success(o, v), host |-> h, fate |-> "done"]
<1>3. CASE q.token # helperToken
      <2>1. a = No("Unhealthy", "unauthenticated", host, "refused")
            BY <1>3 DEF Answers
      <2> QED BY <1>0, <1>1, <2>1 DEF Final
<1>4. CASE q.token = helperToken /\ q.op \in Plain
      <2>1. \/ \E v \in BOOLEAN : a = Yes("Ok", v, host)
            \/ a = No("Unhealthy", "other", host, "undone")
            BY <1>4 DEF Answers
      <2>2. q.op \notin Applies
            BY <1>4 DEF Plain, Applies
      <2> HIDE DEF Claims
      <2> QED BY <1>0, <1>1, <1>2, <2>1, <2>2 DEF Final
<1>5. CASE q.token = helperToken /\ q.op \notin Plain
      <2>1. q.content \in Bodies \cup {None} /\ q.op # "Ping"
            BY <1>5 DEF Requests, Plain
      <2>2. \/ \E o \in {"Applied", "NotModified"} : a = Yes(o, FALSE, q.content)
            \/ a = No("RolledBack", "other", host, "undone")
            \/ \E h \in {host, q.content} : a = No("Unhealthy", "other", h, "done")
            BY <1>5, <2>1 DEF Answers
      <2> HIDE DEF Claims
      <2>3. \A o \in {"Applied", "NotModified"} : Claims(Yes(o, FALSE, q.content))
            BY <1>2, <2>1
      <2>4. Claims(No("RolledBack", "other", host, "undone"))
            BY <1>0, <1>1 DEF Final
      <2>5. \A h \in {host, q.content} : Claims(No("Unhealthy", "other", h, "done"))
            BY <1>0, <1>1, <2>1 DEF Final
      <2> QED BY <2>2, <2>3, <2>4, <2>5
<1> QED BY <1>3, <1>4, <1>5

\* A frame carries the response or none.
LEMMA FrameTypes ==
    ASSUME NEW r \in Responses, NEW w \in Frames(r)
    PROVE  w \in Wires /\ w.resp \in {r, None}
<1>0. /\ 1 \in 1..MAX_BODY_BYTES
      /\ \A n \in 1..MAX_BODY_BYTES : n \in 0..(MAX_BODY_BYTES + 1)
      BY ChannelAssumption
<1>f. \/ \E n \in 1..MAX_BODY_BYTES : w = Frame(n, n, r)
      \/ \E n \in 0..(MAX_BODY_BYTES + 1), x \in {r, None} : w = Frame(n, 1, x)
      BY DEF Frames
<1>1. PICK n \in 0..(MAX_BODY_BYTES + 1), z \in 1..MAX_BODY_BYTES, x \in {r, None} :
        w = Frame(n, z, x)
      BY <1>0, <1>f, Zenon
<1>2. w = [len |-> n, size |-> z, resp |-> x, sent |-> 0, read |-> 0, eof |-> FALSE]
      BY <1>1 DEF Frame, NoAnswer
<1>3. z \in 0..MAX_BODY_BYTES
      BY ChannelAssumption
<1> QED BY <1>2, <1>3 DEF Wires

LEMMA NoAnswerType == NoAnswer \in Wires /\ NoAnswer.resp = None
BY ChannelAssumption DEF NoAnswer, Wires

LEMMA InitIInv == Init => IInv
<1> SUFFICES ASSUME Init PROVE IInv
    OBVIOUS
<1>1. /\ backlog = <<>> /\ backlog \in Seq(Connections) /\ Len(backlog) = 0
      /\ Len(backlog) <= Backlog
      BY ChannelAssumption DEF Init
<1>2. TypeOK
      BY <1>1, NoAnswerType DEF Init, TypeOK
<1>3. QueueInv
      BY <1>1 DEF Init, QueueInv, Mine
<1>4. FateInv /\ ResultInv /\ CallInv
      BY DEF Init, FateInv, Final, ResultInv, CallInv
<1>5. WireInv
      BY NoAnswerType DEF Init, WireInv
<1> QED BY <1>2, <1>3, <1>4, <1>5 DEF IInv

-----------------------------------------------------------------------------
(* The client.                                                              *)

\* A call returns: its connection becomes one that was given up.
LEMMA ReturnKeeps ==
    ASSUME IInv, NEW r \in Results \ {"Io"}, pc # "idle", Return(r),
           UNCHANGED <<tokenFile, helperToken, stable>>,
           r = "Applied" => fate = "done" /\ host = call.content,
           r = "RolledBack" => fate = "undone",
           r = "HelperUnauthenticated" => fate = "refused",
           Encoded(call) > MAX_BODY_BYTES => fate = "unsent"
    PROVE  IInv'
<1> USE DEF IInv
<1>1. /\ backlog' \in Seq(Connections) /\ Len(backlog') = Len(backlog)
      /\ \A i \in 1..Len(backlog) : ~backlog'[i].mine /\ (backlog'[i].ran <=> backlog[i].ran)
      <2> DEFINE Dropped(i) == [backlog[i] EXCEPT !.mine = FALSE]
      <2>1. \A i \in 1..Len(backlog) : backlog[i] \in Connections
            BY DEF TypeOK
      <2>2. \A i \in 1..Len(backlog) :
              Dropped(i) \in Connections /\ ~Dropped(i).mine /\ (Dropped(i).ran <=> backlog[i].ran)
            BY <2>1, ConnectionFields
      <2>3. backlog' = [i \in DOMAIN backlog |-> Dropped(i)] /\ DOMAIN backlog = 1..Len(backlog)
            BY DEF Return, TypeOK
      <2> HIDE DEF Dropped
      <2>4. backlog' \in [DOMAIN backlog -> Connections]
            BY <2>2, <2>3
      <2>5. backlog' \in Seq(Connections) /\ Len(backlog') = Len(backlog)
            BY <2>4, SameLength DEF TypeOK
      <2> QED BY <2>2, <2>3, <2>5
<1>2. /\ serving' \in Connections \cup {None} /\ ~Mine(serving')
      /\ serving' # None => serving # None /\ (serving'.ran <=> serving.ran)
      BY ConnectionFields DEF Return, TypeOK, Mine
<1>3. wire' \in Wires /\ wire'.resp = None
      BY NoAnswerType DEF Return
<1>4. TypeOK'
      BY <1>1, <1>2, <1>3 DEF Return, TypeOK
<1>5. QueueInv'
      BY <1>1, <1>2 DEF QueueInv, Mine
<1>6. FateInv'
      <2>1. fate \in Final => backlog' = <<>>
            BY <1>1, EmptySeq DEF FateInv
      <2> QED BY <1>2, <2>1 DEF Return, FateInv
<1>7. WireInv' /\ CallInv'
      BY <1>3 DEF WireInv, CallInv, Return
<1>8. ResultInv'
      BY DEF Return, ResultInv, Oversize, Encoded
<1> QED BY <1>4, <1>5, <1>6, <1>7, <1>8

\* The next call: nothing in the queue is its own.
LEMMA NewCallKeeps ==
    ASSUME IInv, NewCall
    PROVE  IInv'
<1> USE DEF IInv
<1>1. /\ pc = "idle" /\ fate' = "unsent"
      /\ UNCHANGED <<up, backlog, serving, host, wire, tokenFile, helperToken, stable>>
      BY DEF NewCall, Begin, NoToken
<1>2. /\ \A i \in 1..Len(backlog) : ~backlog[i].mine
      /\ ~Mine(serving) /\ wire.resp = None
      BY <1>1 DEF QueueInv, WireInv, Own
<1>3. QueueInv' /\ WireInv'
      BY <1>1, <1>2 DEF QueueInv, WireInv, Mine
<1>4. CASE Begin
      <2>1. TypeOK' /\ CallInv'
            BY <1>1, <1>4 DEF Begin, TypeOK, CallInv
      <2>2. FateInv' /\ ResultInv'
            BY <1>1, <1>4 DEF Begin, FateInv, Final, ResultInv
      <2> QED BY <1>3, <2>1, <2>2
<1>5. CASE NoToken
      <2>1. TypeOK' /\ CallInv'
            BY <1>1, <1>5 DEF NoToken, TypeOK, CallInv, Results
      <2>2. FateInv' /\ ResultInv'
            BY <1>1, <1>5 DEF NoToken, FateInv, Final, ResultInv
      <2> QED BY <1>3, <2>1, <2>2
<1> QED BY <1>4, <1>5 DEF NewCall

\* A new connection is the last of the queue.
LEMMA ConnectKeeps ==
    ASSUME IInv, Connect, UNCHANGED <<tokenFile, helperToken, stable>>
    PROVE  IInv'
<1> USE DEF IInv
<1>c. PICK c : c = [req |-> call, whole |-> FALSE, mine |-> TRUE, ran |-> FALSE]
      OBVIOUS
<1>1. call \in Requests /\ pc = "connect" /\ fate = "unsent" /\ pc' = "send"
      BY DEF Connect, CallInv, FateInv
<1>2. c \in Connections /\ c.req = call /\ ~c.whole /\ ~c.ran
      BY <1>c, <1>1 DEF Connections
<1>3. /\ \A i \in 1..Len(backlog) : ~backlog[i].mine
      /\ ~Mine(serving) /\ wire.resp = None
      BY <1>1 DEF QueueInv, WireInv, Own
<1>4. /\ backlog' = Append(backlog, c) /\ backlog \in Seq(Connections)
      /\ Len(backlog) < Backlog
      BY <1>c DEF Connect, TypeOK
<1>5. /\ backlog' \in Seq(Connections) /\ Len(backlog') = Len(backlog) + 1
      /\ \A i \in 1..Len(backlog) : backlog'[i] = backlog[i]
      /\ backlog'[Len(backlog) + 1] = c
      BY <1>2, <1>4
<1>6. TypeOK'
      BY <1>1, <1>4, <1>5, ChannelAssumption DEF Connect, TypeOK
<1>7. Own(c)'
      BY <1>1, <1>2 DEF Connect, Own
<1>8. \A i \in 1..Len(backlog') : i \in 1..Len(backlog) \/ i = Len(backlog) + 1
      BY <1>4, <1>5
<1>9. QueueInv'
      BY <1>2, <1>3, <1>5, <1>7, <1>8 DEF Connect, QueueInv, Mine
<1>10. FateInv' /\ WireInv' /\ CallInv' /\ ResultInv'
      BY <1>1, <1>3 DEF Connect, FateInv, Final, WireInv, CallInv, ResultInv
<1> QED BY <1>6, <1>9, <1>10

\* The frame of a request within the limit is written.
LEMMA WriteKeeps ==
    ASSUME IInv, WriteFrame, Encoded(call) <= MAX_BODY_BYTES,
           UNCHANGED <<tokenFile, helperToken, stable>>
    PROVE  IInv'
<1> USE DEF IInv
<1>0. Encoded(call) \in Nat
      BY ChannelAssumption DEF WriteFrame, CallInv, Encoded, Requests
<1>1. /\ pc = "send" /\ pc' = "header" /\ fate' = "sent" /\ fate = "unsent"
      /\ backlog' = [i \in DOMAIN backlog |-> Delivered(backlog[i])]
      /\ serving' = Delivered(serving)
      /\ UNCHANGED <<call, result, up, host, wire>>
      BY <1>0, ChannelAssumption DEF WriteFrame, FateInv
<1>2. ASSUME NEW c \in Connections
      PROVE  /\ Delivered(c) \in Connections
             /\ (Delivered(c).mine <=> c.mine) /\ (Delivered(c).ran <=> c.ran)
             /\ Delivered(c).req = c.req
      BY ConnectionFields DEF Delivered
<1>3. \A i \in 1..Len(backlog) : backlog[i] \in Connections
      BY DEF TypeOK
<1>4. backlog' \in [DOMAIN backlog -> Connections]
      BY <1>1, <1>2, <1>3 DEF TypeOK
<1>5. backlog' \in Seq(Connections) /\ Len(backlog') = Len(backlog)
      BY <1>4, SameLength DEF TypeOK
<1>6. \A i \in 1..Len(backlog) : backlog'[i] = Delivered(backlog[i])
      BY <1>1 DEF TypeOK
<1>7. /\ serving' \in Connections \cup {None}
      /\ Mine(serving') => Mine(serving) /\ serving'.req = serving.req
      BY <1>1, <1>2 DEF TypeOK, Delivered, Mine
<1>8. TypeOK'
      BY <1>1, <1>5, <1>7 DEF TypeOK
<1>9. ASSUME NEW i \in 1..Len(backlog')
      PROVE  /\ ~backlog'[i].ran
             /\ backlog'[i].mine => i = Len(backlog') /\ backlog'[i].req = call
      <2>1. i \in 1..Len(backlog) /\ backlog[i] \in Connections
            BY <1>3, <1>5
      <2>2. /\ backlog'[i].ran <=> backlog[i].ran
            /\ backlog'[i].mine <=> backlog[i].mine
            /\ backlog'[i].req = backlog[i].req
            BY <1>2, <1>6, <2>1
      <2> QED BY <1>5, <2>1, <2>2 DEF QueueInv, Own
<1>10. Mine(serving') => backlog' = <<>> /\ serving'.req = call
      <2>1. Mine(serving) => Len(backlog) = 0 /\ serving.req = call
            BY DEF QueueInv, Own
      <2> QED BY <1>5, <1>7, <2>1, EmptySeq
<1>11. QueueInv'
      BY <1>1, <1>9, <1>10 DEF QueueInv, Own, Mine
<1>12. WireInv'
      BY <1>1 DEF WireInv
<1>13. CallInv' /\ FateInv' /\ ResultInv'
      BY <1>0, <1>1 DEF CallInv, FateInv, Final, ResultInv, Encoded
<1> QED BY <1>8, <1>11, <1>12, <1>13

LEMMA ClientKeeps ==
    ASSUME IInv, Client
    PROVE  IInv'
<1> USE DEF IInv
<1>0. UNCHANGED <<tokenFile, helperToken, stable>>
      BY DEF Client
<1>1. CASE Connect
      BY <1>0, <1>1, ConnectKeeps
<1>2. CASE ConnectRefused
      <2>1. fate = "unsent" /\ "HelperUnavailable" \in Results \ {"Io"}
            BY <1>2 DEF ConnectRefused, FateInv, Results
      <2> QED BY <1>0, <1>2, <2>1, ReturnKeeps DEF ConnectRefused
<1>3. CASE WriteFrame
      <2>1. fate = "unsent" /\ "HelperProtocol" \in Results \ {"Io"}
            BY <1>3 DEF WriteFrame, FateInv, Results
      <2>2. CASE Return("HelperProtocol")
            BY <1>0, <1>3, <2>1, <2>2, ReturnKeeps DEF WriteFrame
      <2>3. CASE Encoded(call) <= MAX_BODY_BYTES
            BY <1>0, <1>3, <2>3, WriteKeeps
      <2> QED BY <1>3, <2>2, <2>3 DEF WriteFrame
<1>4. CASE WriteFails
      <2>1. fate = "unsent" /\ "HelperUnavailable" \in Results \ {"Io"}
            BY <1>4 DEF WriteFails, FateInv, Results
      <2> QED BY <1>0, <1>4, <2>1, ReturnKeeps DEF WriteFails
<1>5. ASSUME pc \in {"header", "body"} PROVE ~(Encoded(call) > MAX_BODY_BYTES)
      <2>1. Encoded(call) \in Nat /\ Encoded(call) <= MAX_BODY_BYTES
            BY <1>5, ChannelAssumption DEF CallInv, FateInv, Encoded, Requests
      <2> QED BY <2>1, ChannelAssumption
<1>6. CASE ReadHeader
      <2>1. CASE Return("HelperProtocol")
            BY <1>0, <1>5, <1>6, <2>1, ReturnKeeps DEF ReadHeader, Results
      <2>2. CASE pc' = "body" /\ wire' = [wire EXCEPT !.read = 1] /\ UNCHANGED <<call, result, helper>>
            <3>1. wire' \in Wires /\ wire'.resp = wire.resp
                  BY <2>2 DEF TypeOK, Wires
            <3>2. TypeOK'
                  BY <1>0, <2>2, <3>1 DEF TypeOK, helper
            <3>3. QueueInv' /\ FateInv' /\ WireInv' /\ CallInv' /\ ResultInv'
                  BY <1>6, <2>2, <3>1
                  DEF ReadHeader, helper, QueueInv, Own, Mine, FateInv, WireInv, CallInv,
                      ResultInv, Encoded
            <3> QED BY <3>2, <3>3
      <2> QED BY <1>6, <2>1, <2>2 DEF ReadHeader
<1>7. CASE ReadBody
      <2>1. PICK n \in (wire.read + 1)..wire.sent : wire' = [wire EXCEPT !.read = n]
            BY <1>7 DEF ReadBody
      <2>2. n \in Nat
            BY DEF TypeOK, Wires
      <2>3. wire' \in Wires /\ wire'.resp = wire.resp
            BY <2>1, <2>2 DEF TypeOK, Wires
      <2>4. TypeOK'
            BY <1>0, <1>7, <2>3 DEF ReadBody, TypeOK, helper, client
      <2>5. QueueInv' /\ FateInv' /\ WireInv' /\ CallInv' /\ ResultInv'
            BY <1>7, <2>3
            DEF ReadBody, helper, client, QueueInv, Own, Mine, FateInv, WireInv, CallInv,
                ResultInv, Encoded, Oversize
      <2> QED BY <2>4, <2>5
<1>8. CASE Decode
      <2>1. pc = "body" /\ call \in Requests
            BY <1>8 DEF Decode, CallInv
      <2>2. CASE Decoded = "HelperProtocol"
            BY <1>0, <1>5, <1>8, <2>1, <2>2, ReturnKeeps DEF Decode, Results
      <2>3. CASE Decoded # "HelperProtocol"
            <3>1. wire.resp # None /\ Decoded = Outcome(wire.resp) /\ wire.resp \in Responses
                  BY <2>3 DEF Decoded, TypeOK, Wires
            <3>2. /\ Decoded = "Applied" => fate = "done" /\ host = call.content
                  /\ Decoded = "RolledBack" => fate = "undone"
                  /\ Decoded = "HelperUnauthenticated" => fate = "refused"
                  BY <2>1, <3>1, OutcomeClaims DEF WireInv
            <3>3. Decoded \in Results \ {"Io"}
                  BY <2>1, <3>1, OutcomeClaims
            <3> QED BY <1>0, <1>5, <1>8, <2>1, <3>2, <3>3, ReturnKeeps DEF Decode
      <2> QED BY <2>2, <2>3
<1>9. CASE ReadFails
      <2>1. pc \in {"header", "body"} /\ Return("HelperUnavailable")
            BY <1>9 DEF ReadFails
      <2> QED BY <1>0, <1>5, <2>1, ReturnKeeps DEF Results
<1> QED BY <1>1, <1>2, <1>3, <1>4, <1>6, <1>7, <1>8, <1>9 DEF Client

-----------------------------------------------------------------------------
(* The helper.                                                              *)

LEMMA AcceptKeeps ==
    ASSUME IInv, Accept, UNCHANGED <<tokenFile, helperToken, stable>>
    PROVE  IInv'
<1> USE DEF IInv
<1>1. /\ backlog \in Seq(Connections) /\ backlog # <<>> /\ serving = None
      /\ serving' = Head(backlog) /\ backlog' = Tail(backlog)
      /\ UNCHANGED <<pc, call, result, up, host, fate, wire>>
      BY DEF Accept, client, TypeOK
<1>2. /\ Len(backlog) \in Nat \ {0} /\ 1 \in 1..Len(backlog)
      /\ Head(backlog) = backlog[1] /\ backlog[1] \in Connections
      /\ backlog' \in Seq(Connections) /\ Len(backlog') = Len(backlog) - 1
      /\ \A i \in 1..Len(backlog') : i + 1 \in 1..Len(backlog) /\ backlog'[i] = backlog[i + 1]
      BY <1>1, EmptySeq
<1>3. TypeOK'
      BY <1>1, <1>2, ChannelAssumption DEF TypeOK
<1>4. ASSUME NEW i \in 1..Len(backlog'), backlog'[i].mine
      PROVE  i = Len(backlog') /\ Own(backlog'[i])
      <2>1. i + 1 = Len(backlog) /\ Own(backlog[i + 1]) /\ backlog'[i] = backlog[i + 1]
            BY <1>2, <1>4 DEF QueueInv
      <2>2. i = Len(backlog')
            BY <1>2, <2>1
      <2> QED BY <2>1, <2>2
<1>5. \A i \in 1..Len(backlog') : ~backlog'[i].ran
      BY <1>2 DEF QueueInv
<1>6. Mine(serving') => backlog' = <<>> /\ Own(serving')
      <2>1. SUFFICES ASSUME backlog[1].mine
                     PROVE  backlog' = <<>> /\ Own(backlog[1])
            BY <1>1, <1>2 DEF Mine
      <2>2. Len(backlog) = 1 /\ Own(backlog[1])
            BY <1>2, <2>1 DEF QueueInv
      <2> QED BY <1>2, <2>2, EmptySeq
<1>7. QueueInv'
      BY <1>1, <1>4, <1>5, <1>6 DEF QueueInv, Own, Mine
<1>8. FateInv'
      BY <1>1 DEF FateInv, Encoded
<1>9. WireInv' /\ CallInv' /\ ResultInv'
      BY <1>1 DEF WireInv, CallInv, ResultInv, Oversize, Encoded
<1> QED BY <1>3, <1>7, <1>8, <1>9

\* A request is carried out: the current call's with an answer that says what
\* was done; one that was given up only while no call has an outcome.
LEMMA ExecuteKeeps ==
    ASSUME IInv, Execute, UNCHANGED <<tokenFile, helperToken, stable>>
    PROVE  IInv'
<1> USE DEF IInv
<1>1. /\ serving \in Connections /\ serving # None /\ serving.whole /\ ~serving.ran
      /\ serving.req \in Requests
      /\ UNCHANGED <<pc, call, result, up, backlog>>
      BY DEF Execute, client, TypeOK, Connections
<1>2. PICK a \in Answers(serving.req) :
        /\ host' = a.host
        /\ IF serving.mine
             THEN /\ fate' = a.fate
                  /\ wire' \in Frames(a.resp)
                  /\ serving' = [serving EXCEPT !.ran = TRUE]
             ELSE serving' = None /\ UNCHANGED <<fate, wire>>
      BY DEF Execute
<1>3. a.resp \in Responses /\ a.host \in Bodies \cup {None} /\ a.fate \in Final
      BY <1>1, AnswerClaims
<1>4. CASE serving.mine
      <2>1. /\ backlog = <<>> /\ serving.req = call /\ pc \in {"header", "body"}
            BY <1>1, <1>4 DEF QueueInv, Mine, Own
      <2>2. /\ fate' = a.fate /\ wire' \in Frames(a.resp)
            /\ serving' = [serving EXCEPT !.ran = TRUE]
            BY <1>2, <1>4
      <2>3. /\ serving' \in Connections /\ serving'.ran /\ serving'.req = call
            BY <1>1, <2>1, <2>2, ConnectionFields
      <2>4. wire' \in Wires /\ wire'.resp \in {a.resp, None}
            BY <1>3, <2>2, FrameTypes
      <2>5. TypeOK'
            BY <1>1, <1>2, <1>3, <2>2, <2>3, <2>4 DEF TypeOK, Final
      <2>6. QueueInv'
            BY <1>1, <2>1, <2>3 DEF QueueInv, Own, Mine
      <2>7. FateInv'
            BY <1>1, <2>1, <2>3 DEF FateInv, Encoded
      <2>8. WireInv'
            <3>1. /\ a.resp.ok => a.fate = "done" /\ (call.op \in Applies => a.host = call.content)
                  /\ a.resp.detail = "unauthenticated" => a.fate = "refused"
                  /\ a.resp.outcome = "RolledBack" => a.fate = "undone"
                  BY <1>1, <2>1, AnswerClaims
            <3> QED BY <1>1, <1>2, <1>3, <2>1, <2>2, <2>4, <3>1 DEF WireInv
      <2>9. CallInv' /\ ResultInv'
            BY <1>1, <2>1 DEF CallInv, ResultInv
      <2> QED BY <2>5, <2>6, <2>7, <2>8, <2>9
<1>5. CASE ~serving.mine
      <2>1. serving' = None /\ UNCHANGED <<fate, wire>>
            BY <1>2, <1>5
      <2>2. fate \notin Final
            BY <1>1 DEF FateInv
      <2>3. TypeOK'
            BY <1>1, <1>2, <1>3, <2>1 DEF TypeOK
      <2>4. QueueInv' /\ FateInv' /\ WireInv' /\ CallInv'
            BY <1>1, <2>1, <2>2
            DEF QueueInv, Own, Mine, FateInv, WireInv, CallInv, Encoded
      <2>5. ResultInv'
            BY <1>1, <2>1, <2>2 DEF ResultInv, Final, Oversize, Encoded
      <2> QED BY <2>3, <2>4, <2>5
<1> QED BY <1>4, <1>5

\* The steps of the helper that carry nothing out.
LEMMA ServingKeeps ==
    ASSUME IInv, UNCHANGED <<pc, call, result, host, fate, tokenFile, helperToken>>,
           up' \in BOOLEAN, stable' \in BOOLEAN,
           \/ UNCHANGED <<backlog, serving>>
           \/ UNCHANGED backlog /\ serving' = None
           \/ backlog' = <<>> /\ serving' = None,
           wire' \in Wires, wire'.resp = wire.resp
    PROVE  IInv'
<1> USE DEF IInv
<1>1. backlog' \in Seq(Connections) /\ Len(backlog') <= Backlog
      <2>1. backlog \in Seq(Connections) /\ Len(backlog) <= Backlog
            BY DEF TypeOK
      <2>2. <<>> \in Seq(Connections) /\ Len(<<>>) <= Backlog
            BY EmptySeq, ChannelAssumption
      <2> QED BY <2>1, <2>2
<1>2. TypeOK'
      BY <1>1 DEF TypeOK
<1>3. QueueInv'
      BY DEF QueueInv, Own, Mine
<1>4. FateInv' /\ WireInv' /\ CallInv' /\ ResultInv'
      BY DEF FateInv, WireInv, CallInv, ResultInv, Oversize, Encoded
<1> QED BY <1>2, <1>3, <1>4

LEMMA HelperKeeps ==
    ASSUME IInv, Helper
    PROVE  IInv'
<1> USE DEF IInv
<1>0. UNCHANGED <<tokenFile, helperToken, stable>> /\ stable \in BOOLEAN /\ up \in BOOLEAN
      BY DEF Helper, TypeOK
<1>1. wire \in Wires
      BY DEF TypeOK
<1>2. CASE HangUp
      BY <1>0, <1>1, <1>2, ServingKeeps DEF HangUp, client
<1>3. CASE SendAnswer
      <2>1. [wire EXCEPT !.sent = @ + 1] \in Wires /\ [wire EXCEPT !.sent = @ + 1].resp = wire.resp
            BY <1>1 DEF Wires
      <2> QED BY <1>0, <1>3, <2>1, ServingKeeps DEF SendAnswer, client, helper
<1>4. CASE CloseAnswered
      <2>1. [wire EXCEPT !.eof = TRUE] \in Wires /\ [wire EXCEPT !.eof = TRUE].resp = wire.resp
            BY <1>1 DEF Wires
      <2> QED BY <1>0, <1>4, <2>1, ServingKeeps DEF CloseAnswered, client
<1> QED BY <1>0, <1>2, <1>3, <1>4, AcceptKeeps, ExecuteKeeps DEF Helper

-----------------------------------------------------------------------------
LEMMA NextKeeps == IInv /\ [Next]_vars => IInv'
<1> SUFFICES ASSUME IInv, [Next]_vars PROVE IInv'
    OBVIOUS
<1>0. wire \in Wires /\ stable \in BOOLEAN /\ up \in BOOLEAN
      BY DEF IInv, TypeOK
<1>1. CASE HelperStops
      <2>0. (pc \in {"send", "header", "body"}) \in BOOLEAN
            OBVIOUS
      <2>1. PICK e \in BOOLEAN : wire' = [wire EXCEPT !.eof = e]
            BY <1>1, <2>0, Zenon DEF HelperStops
      <2>2. wire' \in Wires /\ wire'.resp = wire.resp
            BY <1>0, <2>1 DEF Wires
      <2> QED BY <1>0, <1>1, <2>2, ServingKeeps DEF HelperStops, client
<1>2. CASE HelperStarts
      BY <1>0, <1>2, ServingKeeps DEF HelperStarts, client
<1>3. CASE Stabilise
      BY <1>0, <1>3, ServingKeeps DEF Stabilise, client, helper
<1>4. CASE RotateHelper \/ RotateFile
      <2>1. TypeOK'
            BY <1>4 DEF RotateHelper, RotateFile, client, helper, IInv, TypeOK
      <2> QED BY <1>4, <2>1
              DEF RotateHelper, RotateFile, client, helper, IInv, QueueInv, Own, Mine, FateInv,
                  WireInv, CallInv, ResultInv, Oversize, Encoded
<1>5. CASE UNCHANGED vars
      BY <1>0, <1>5, ServingKeeps DEF vars, client, helper
<1> QED BY <1>1, <1>2, <1>3, <1>4, <1>5, NewCallKeeps, ClientKeeps, HelperKeeps DEF Next

\* Every message, connection and result is of the kind the code gives it.
THEOREM TypeCorrect == Spec => []TypeOK
<1>1. IInv => TypeOK
      BY DEF IInv
<1> QED BY <1>1, InitIInv, NextKeeps, PTL DEF Spec

\* What HelperClient and HelperBundleApplier return is true of the host when
\* they return it and until the next call, for any backlog of connections
\* that earlier calls gave up, any token rotation, any restart of the helper
\* and any badly made frame: Applied means the host trusts the body sent,
\* RolledBack that the helper undid it, and a refused or missing token or an
\* oversize request that nothing was done.
THEOREM Truthful == Spec => []ResultsTellTheTruth
<1>1. IInv => ResultsTellTheTruth
      BY DEF IInv, ResultInv, ResultsTellTheTruth
<1> QED BY <1>1, InitIInv, NextKeeps, PTL DEF Spec

-----------------------------------------------------------------------------
(* The refinement of HelperExchange.                                        *)

LEMMA ContentsSeq ==
    ASSUME NEW q \in Seq(Connections)
    PROVE  /\ Len(q) \in Nat /\ DOMAIN q = 1..Len(q)
           /\ \A i \in 1..Len(q) : q[i] \in Connections /\ q[i].req.content \in Bodies \cup {None}
           /\ Contents(q) \in Seq(Bodies \cup {None})
           /\ Len(Contents(q)) = Len(q) /\ DOMAIN Contents(q) = 1..Len(q)
           /\ \A i \in 1..Len(q) : Contents(q)[i] = q[i].req.content
<1>1. /\ Len(q) \in Nat /\ DOMAIN q = 1..Len(q)
      /\ \A i \in 1..Len(q) : q[i] \in Connections
      OBVIOUS
<1>2. \A c \in Connections : c.req.content \in Bodies \cup {None}
      BY DEF Connections, Requests
<1>3. Contents(q) = [i \in 1..Len(q) |-> q[i].req.content]
      BY <1>1 DEF Contents
<1>4. \A i \in 1..Len(q) : q[i].req.content \in Bodies \cup {None}
      BY <1>1, <1>2
<1>5. Contents(q) \in Seq(Bodies \cup {None}) /\ Len(Contents(q)) = Len(q)
      BY <1>1, <1>3, <1>4
<1> QED BY <1>1, <1>3, <1>4, <1>5

\* Sequences of connections with the same requests have the same contents.
LEMMA SameRequests ==
    ASSUME NEW q \in Seq(Connections), NEW r \in Seq(Connections), Len(q) = Len(r),
           \A i \in 1..Len(q) : q[i].req = r[i].req
    PROVE  Contents(q) = Contents(r)
<1>1. DOMAIN q = 1..Len(q) /\ DOMAIN r = 1..Len(q)
      BY ContentsSeq
<1> QED BY <1>1 DEF Contents

\* The request being served comes before those in the backlog.
LEMMA ServedFirst ==
    ASSUME NEW q \in Seq(Connections), NEW c \in Connections
    PROVE  /\ <<c>> \o q \in Seq(Connections) /\ Len(<<c>> \o q) = Len(q) + 1
           /\ (<<c>> \o q)[1] = c
           /\ \A i \in 1..Len(q) : (<<c>> \o q)[i + 1] = q[i]
           /\ Contents(<<c>> \o q) # <<>>
           /\ Head(Contents(<<c>> \o q)) = c.req.content
           /\ Tail(Contents(<<c>> \o q)) = Contents(q)
           /\ Len(Contents(<<c>> \o q)) = Len(q) + 1
<1> DEFINE t == <<c>> \o q
<1>1. /\ t \in Seq(Connections) /\ Len(t) = Len(q) + 1
      /\ t[1] = c /\ \A i \in 1..Len(q) : t[i + 1] = q[i]
      /\ Len(q) \in Nat
      OBVIOUS
<1> HIDE DEF t
<1>2. /\ Contents(t) \in Seq(Bodies \cup {None}) /\ Len(Contents(t)) = Len(q) + 1
      /\ \A i \in 1..(Len(q) + 1) : Contents(t)[i] = t[i].req.content
      BY <1>1, ContentsSeq
<1>3. /\ Contents(q) \in Seq(Bodies \cup {None}) /\ Len(Contents(q)) = Len(q)
      /\ \A i \in 1..Len(q) : Contents(q)[i] = q[i].req.content
      BY ContentsSeq
<1>4. Contents(t) # <<>> /\ Head(Contents(t)) = c.req.content
      BY <1>1, <1>2
<1>5. /\ Tail(Contents(t)) \in Seq(Bodies \cup {None})
      /\ Len(Tail(Contents(t))) = Len(q)
      /\ \A i \in 1..Len(q) : Tail(Contents(t))[i] = Contents(t)[i + 1]
      BY <1>1, <1>2
<1>6. \A i \in 1..Len(q) : Tail(Contents(t))[i] = Contents(q)[i]
      <2> TAKE i \in 1..Len(q)
      <2>1. i + 1 \in 1..(Len(q) + 1)
            BY <1>1
      <2> QED BY <1>1, <1>2, <1>3, <1>5, <2>1
<1>7. Tail(Contents(t)) = Contents(q)
      BY <1>3, <1>5, <1>6
<1> QED BY <1>1, <1>2, <1>4, <1>7 DEF t

\* A new connection is the last.
LEMMA AskedLast ==
    ASSUME NEW q \in Seq(Connections), NEW c \in Connections
    PROVE  Contents(Append(q, c)) = Append(Contents(q), c.req.content)
<1> DEFINE t == Append(q, c)
           u == Append(Contents(q), c.req.content)
<1>1. /\ t \in Seq(Connections) /\ Len(t) = Len(q) + 1
      /\ \A i \in 1..Len(q) : t[i] = q[i]
      /\ t[Len(q) + 1] = c
      /\ Len(q) \in Nat
      OBVIOUS
<1>2. /\ Contents(q) \in Seq(Bodies \cup {None}) /\ Len(Contents(q)) = Len(q)
      /\ \A i \in 1..Len(q) : Contents(q)[i] = q[i].req.content
      BY ContentsSeq
<1>3. c.req.content \in Bodies \cup {None}
      BY DEF Connections, Requests
<1>4. /\ u \in Seq(Bodies \cup {None}) /\ Len(u) = Len(q) + 1
      /\ \A i \in 1..Len(q) : u[i] = Contents(q)[i]
      /\ u[Len(q) + 1] = c.req.content
      BY <1>2, <1>3
<1> HIDE DEF t, u
<1>5. /\ Contents(t) \in Seq(Bodies \cup {None}) /\ Len(Contents(t)) = Len(q) + 1
      /\ \A i \in 1..(Len(q) + 1) : Contents(t)[i] = t[i].req.content
      BY <1>1, ContentsSeq
<1>6. \A i \in 1..(Len(q) + 1) : Contents(t)[i] = u[i]
      BY <1>1, <1>2, <1>4, <1>5
<1>7. Contents(t) = u
      BY <1>4, <1>5, <1>6
<1> QED BY <1>7 DEF t, u

\* The unserved requests, as they are while one is served and while none is.
LEMMA UnservedFacts ==
    ASSUME TypeOK
    PROVE  /\ Unserved \in Seq(Connections)
           /\ serving # None /\ ~serving.ran =>
                 /\ serving \in Connections
                 /\ Pending # <<>> /\ Head(Pending) = serving.req.content
                 /\ Tail(Pending) = Contents(backlog) /\ Len(Pending) = Len(backlog) + 1
           /\ serving = None \/ serving.ran => Pending = Contents(backlog)
<1>1. backlog \in Seq(Connections) /\ serving \in Connections \cup {None}
      BY DEF TypeOK
<1>2. CASE serving # None /\ ~serving.ran
      <2>1. Unserved = <<serving>> \o backlog /\ serving \in Connections
            BY <1>1, <1>2 DEF Unserved
      <2> QED BY <1>1, <1>2, <2>1, ServedFirst DEF Pending
<1>3. CASE serving = None \/ serving.ran
      <2>1. Unserved = backlog
            BY <1>3 DEF Unserved
      <2> QED BY <1>1, <1>3, <2>1 DEF Pending
<1> QED BY <1>2, <1>3

\* A step that leaves the call, its answer and the contents alone is none of
\* the exchange's.
LEMMA Stutters ==
    ASSUME Pending' = Pending, UNCHANGED <<call, result, host>>, wire'.resp = wire.resp,
           Asking' <=> Asking, pc' = "idle" <=> pc = "idle"
    PROVE  UNCHANGED Exchange!exchangeVars
<1>1. Question' = Question /\ LastTold' = LastTold
      BY DEF Question, LastTold, Told
<1>2. AnswerSent' = AnswerSent
      BY DEF AnswerSent, Outcome, ApplyOutcome, CheckOk, Told
<1>3. Asking' = Asking
      BY DEF Asking
<1> QED BY <1>1, <1>2, <1>3 DEF Exchange!exchangeVars

\* What the helper may do to the host, and what it then may say.
LEMMA AnswerHosts ==
    ASSUME TypeOK, NEW q \in Requests, NEW a \in Answers(q)
    PROVE  /\ a.host \in {host} \cup ({q.content} \ {None})
           /\ a.resp.detail = "unauthenticated" \/ a.resp.outcome = "RolledBack" => a.host = host
           /\ a.resp.ok => q.content = None \/ a.host = q.content
<1>1. q.content # None => q.op \in Applies /\ q.content \in Bodies
      BY DEF Requests
<1>2. a.resp.ok => q.content = None \/ a.host = q.content
      BY <1>1, AnswerClaims
<1>3. CASE q.token # helperToken
      BY <1>2, <1>3 DEF Answers
<1>4. CASE q.token = helperToken /\ q.op \in Plain
      <2>1. \/ \E v \in BOOLEAN : a = [resp |-> Success("Ok", v), host |-> host, fate |-> "done"]
            \/ a = [resp |-> Failure("Unhealthy", "other"), host |-> host, fate |-> "undone"]
            BY <1>4 DEF Answers
      <2>2. a.host = host
            BY <2>1
      <2> QED BY <1>2, <2>2
<1>5. CASE q.token = helperToken /\ q.op \notin Plain
      <2>1. q.content \in Bodies /\ q.content # None /\ q.op # "Ping"
            BY <1>5, ChannelAssumption DEF Requests, Plain
      <2>2. \/ \E o \in {"Applied", "NotModified"} :
                 a = [resp |-> Success(o, FALSE), host |-> q.content, fate |-> "done"]
            \/ a = [resp |-> Failure("RolledBack", "other"), host |-> host, fate |-> "undone"]
            \/ a = [resp |-> Failure("Unhealthy", "other"), host |-> host, fate |-> "done"]
            \/ a = [resp |-> Failure("Unhealthy", "other"), host |-> q.content, fate |-> "done"]
            BY <1>5, <2>1 DEF Answers
      <2>3. CASE \E o \in {"Applied", "NotModified"} :
                    a = [resp |-> Success(o, FALSE), host |-> q.content, fate |-> "done"]
            <3>1. a.host = q.content /\ a.resp.detail = None /\ a.resp.outcome # "RolledBack"
                  BY <2>3 DEF Success
            <3> QED BY <1>2, <2>1, <3>1, ChannelAssumption
      <2>4. CASE a = [resp |-> Failure("Unhealthy", "other"), host |-> q.content, fate |-> "done"]
            BY <1>2, <2>1, <2>4 DEF Failure
      <2>5. CASE \E o \in {"RolledBack", "Unhealthy"}, f \in {"done", "undone"} :
                    a = [resp |-> Failure(o, "other"), host |-> host, fate |-> f]
            <3>1. a.host = host
                  BY <2>5
            <3> QED BY <1>2, <3>1
      <2> QED BY <2>2, <2>3, <2>4, <2>5
<1> QED BY <1>3, <1>4, <1>5

\* Changing what is known of connections changes nothing that is pending.
LEMMA SamePending ==
    ASSUME backlog \in Seq(Connections), backlog' \in Seq(Connections),
           Len(backlog') = Len(backlog),
           \A i \in 1..Len(backlog) : backlog'[i].req = backlog[i].req,
           \/ serving = None /\ serving' = None
           \/ /\ serving \in Connections /\ serving' \in Connections
              /\ serving # None /\ serving' # None
              /\ serving'.req = serving.req /\ (serving'.ran <=> serving.ran)
    PROVE  Pending' = Pending
<1>1. Contents(backlog') = Contents(backlog)
      BY SameRequests
<1>2. CASE serving = None \/ serving.ran
      BY <1>1, <1>2 DEF Pending, Unserved, Contents
<1>3. CASE serving # None /\ ~serving.ran
      <2>1. /\ Pending = Contents(<<serving>> \o backlog)
            /\ Pending' = Contents(<<serving'>> \o backlog')
            BY <1>3 DEF Pending, Unserved, Contents
      <2> DEFINE q == <<serving>> \o backlog
                 r == <<serving'>> \o backlog'
      <2>2. /\ q \in Seq(Connections) /\ Len(q) = Len(backlog) + 1
            /\ q[1] = serving /\ \A i \in 1..Len(backlog) : q[i + 1] = backlog[i]
            BY <1>3, ServedFirst
      <2>3. /\ r \in Seq(Connections) /\ Len(r) = Len(backlog) + 1
            /\ r[1] = serving' /\ \A i \in 1..Len(backlog) : r[i + 1] = backlog'[i]
            BY <1>3, ServedFirst
      <2> HIDE DEF q, r
      <2>4. ASSUME NEW i \in 1..Len(q) PROVE q[i].req = r[i].req
            <3>1. CASE i = 1
                  BY <1>3, <2>2, <2>3, <3>1
            <3>2. CASE i # 1
                  <4>1. PICK j \in 1..Len(backlog) : i = j + 1
                        <5>1. i - 1 \in 1..Len(backlog) /\ i = (i - 1) + 1
                              BY <2>2, <3>2
                        <5> QED BY <5>1
                  <4> QED BY <2>2, <2>3, <4>1
            <3> QED BY <3>1, <3>2
      <2>5. Contents(q) = Contents(r)
            BY <2>2, <2>3, <2>4, SameRequests
      <2> QED BY <2>1, <2>5 DEF q, r
<1> QED BY <1>2, <1>3

\* A call that ends returns its answer, or an error that tells nothing.
LEMMA ReturnFacts ==
    ASSUME IInv, NEW r, Return(r)
    PROVE  /\ Pending' = Pending /\ host' = host
           /\ Asking' = FALSE /\ Question' = None /\ AnswerSent' = "none"
           /\ LastTold' = Told(r)
<1>0. backlog \in Seq(Connections) /\ serving \in Connections \cup {None}
      BY DEF IInv, TypeOK
<1> DEFINE Dropped(c) == [c EXCEPT !.mine = FALSE]
<1>1. \A c \in Connections : Dropped(c) \in Connections /\ Dropped(c).req = c.req
                             /\ (Dropped(c).ran <=> c.ran)
      BY ConnectionFields DEF Connections
<1>2. /\ backlog' = [i \in DOMAIN backlog |-> Dropped(backlog[i])]
      /\ serving' = IF serving = None THEN None ELSE Dropped(serving)
      BY DEF Return
<1> HIDE DEF Dropped
<1>3. /\ DOMAIN backlog = 1..Len(backlog)
      /\ \A i \in 1..Len(backlog) : backlog[i] \in Connections
      BY <1>0
<1>4. backlog' \in [DOMAIN backlog -> Connections]
      BY <1>1, <1>2, <1>3
<1>5. backlog' \in Seq(Connections) /\ Len(backlog') = Len(backlog)
      BY <1>0, <1>4, SameLength
<1>6. \A i \in 1..Len(backlog) : backlog'[i].req = backlog[i].req
      BY <1>1, <1>2, <1>3
<1>7. \/ serving = None /\ serving' = None
      \/ /\ serving \in Connections /\ serving' \in Connections
         /\ serving # None /\ serving' # None
         /\ serving'.req = serving.req /\ (serving'.ran <=> serving.ran)
      BY <1>0, <1>1, <1>2, NoneAssumption
<1>8. Pending' = Pending
      BY <1>0, <1>5, <1>6, <1>7, SamePending
<1>9. Asking' = FALSE /\ Question' = None /\ AnswerSent' = "none"
      BY DEF Return, Asking, Question, AnswerSent
<1>10. LastTold' = Told(r)
      BY DEF Return, LastTold, Told
<1>11. host' = host
      BY DEF Return
<1> QED BY <1>8, <1>9, <1>10, <1>11

\* A call begins, or fails before it has a connection.
LEMMA PrepareIsExchange ==
    ASSUME IInv, ~Asking, NewCall \/ ConnectRefused
    PROVE  Exchange!Prepare
<1>1. CASE NewCall
      <2>1. UNCHANGED <<backlog, serving, host, wire>> /\ ~Asking'
            BY <1>1 DEF NewCall, Begin, NoToken, Asking
      <2>2. LastTold' \in {"none", "failed"}
            BY <1>1, NoneAssumption DEF NewCall, Begin, NoToken, LastTold, Told, Results
      <2>3. Pending' = Pending
            BY <2>1 DEF Pending, Unserved, Contents
      <2>4. /\ Question' = None /\ AnswerSent' = "none"
            /\ Question = None /\ AnswerSent = "none"
            BY <2>1 DEF Question, AnswerSent
      <2>5. Asking' = FALSE /\ Asking = FALSE
            BY <2>1 DEF Asking
      <2> QED BY <2>1, <2>2, <2>3, <2>4, <2>5 DEF Exchange!Prepare
<1>2. CASE ConnectRefused
      <2>1. pc = "connect" /\ Return("HelperUnavailable")
            BY <1>2 DEF ConnectRefused
      <2>2. /\ Pending' = Pending /\ host' = host /\ Asking' = FALSE
            /\ Question' = None /\ AnswerSent' = "none" /\ LastTold' = Told("HelperUnavailable")
            BY <2>1, ReturnFacts
      <2>3. Told("HelperUnavailable") = "failed"
            BY NoneAssumption DEF Told, Results
      <2>4. Asking = FALSE /\ Question = None /\ AnswerSent = "none"
            BY <2>1 DEF Asking, Question, AnswerSent
      <2> QED BY <2>2, <2>3, <2>4 DEF Exchange!Prepare
<1> QED BY <1>1, <1>2

\* Connecting asks the question.
LEMMA ConnectIsExchange ==
    ASSUME IInv, Connect
    PROVE  \E b \in Bodies \cup {None} : Exchange!Ask(b)
<1>1. PICK c : c = [req |-> call, whole |-> FALSE, mine |-> TRUE, ran |-> FALSE]
      OBVIOUS
<1>2. /\ pc = "connect" /\ pc' = "send" /\ call \in Requests /\ call' = call
      /\ backlog' = Append(backlog, c) /\ backlog \in Seq(Connections)
      /\ UNCHANGED <<result, serving, host, wire>>
      BY <1>1 DEF Connect, IInv, CallInv, TypeOK
<1>3. c \in Connections /\ c.req = call
      BY <1>1, <1>2 DEF Connections
<1>4. call.content \in Bodies \cup {None}
      BY <1>2 DEF Requests
<1>5. Pending' = Append(Pending, call.content)
      <2>1. CASE serving = None \/ serving.ran
            <3>1. Pending = Contents(backlog) /\ Pending' = Contents(backlog')
                  BY <1>2, <2>1 DEF Pending, Unserved, Contents
            <3> QED BY <1>2, <1>3, <3>1, AskedLast
      <2>2. CASE serving # None /\ ~serving.ran
            <3>1. serving \in Connections
                  BY <2>2 DEF IInv, TypeOK
            <3> DEFINE q == <<serving>> \o backlog
            <3>2. q \in Seq(Connections) /\ <<serving>> \o Append(backlog, c) = Append(q, c)
                  BY <1>2, <1>3, <3>1
            <3>3. Pending = Contents(q) /\ Pending' = Contents(Append(q, c))
                  BY <1>2, <2>2, <3>2 DEF Pending, Unserved, Contents
            <3> HIDE DEF q
            <3> QED BY <1>3, <3>2, <3>3, AskedLast
      <2> QED BY <2>1, <2>2
<1>6. wire.resp = None
      BY <1>2 DEF IInv, WireInv
<1>7. Asking = FALSE /\ Asking' = TRUE /\ Question' = call.content
      BY <1>2 DEF Asking, Question
<1>8. AnswerSent = "none" /\ AnswerSent' = "none" /\ LastTold = "none" /\ LastTold' = "none"
      BY <1>2, <1>6 DEF AnswerSent, LastTold
<1>9. Exchange!Ask(call.content)
      BY <1>2, <1>5, <1>7, <1>8 DEF Exchange!Ask
<1> QED BY <1>4, <1>9

\* A call that got as far as asking returns with its answer or without.
LEMMA ReturnIsExchange ==
    ASSUME IInv, NEW r \in Results, Return(r), Asking,
           Told(r) = "failed" \/ (Told(r) = AnswerSent /\ AnswerSent # "none")
    PROVE  Exchange!Return
<1>1. /\ Pending' = Pending /\ host' = host
      /\ Asking' = FALSE /\ Question' = None /\ AnswerSent' = "none"
      /\ LastTold' = Told(r)
      BY ReturnFacts
<1> QED BY <1>1 DEF Exchange!Return

LEMMA OutcomeOk ==
    ASSUME NEW r \in Responses, Outcome(r) \in {"Ok", "Applied"}
    PROVE  r.ok
BY DEF Outcome, ApplyOutcome, CheckOk, Responses

LEMMA ToldErrors ==
    /\ Told("HelperUnavailable") = "failed"
    /\ Told("HelperProtocol") = "failed"
    /\ \A r \in Results : Told(r) # "none"
BY NoneAssumption DEF Told, Results

LEMMA DecodeIsExchange ==
    ASSUME IInv, Decode
    PROVE  Exchange!Return
<1>1. pc = "body" /\ Return(Decoded) /\ call \in Requests /\ Asking
      BY DEF Decode, IInv, CallInv, Asking
<1>2. CASE wire.resp # None /\ wire.len = wire.size
      <2>1. Decoded = Outcome(wire.resp) /\ wire.resp \in Responses
            BY <1>2 DEF Decoded, IInv, TypeOK, Wires
      <2>2. Outcome(wire.resp) \in Results
            BY <1>1, <2>1, OutcomeClaims
      <2>3. Told(Decoded) # "failed" => Told(Decoded) = AnswerSent
            BY <1>1, <1>2, <2>1 DEF AnswerSent
      <2>4. Told(Decoded) # "none"
            BY <2>1, <2>2, ToldErrors
      <2> QED BY <1>1, <2>1, <2>2, <2>3, <2>4, ReturnIsExchange
<1>3. CASE ~(wire.resp # None /\ wire.len = wire.size)
      <2>1. Decoded = "HelperProtocol" /\ "HelperProtocol" \in Results
            BY <1>3 DEF Decoded, Results
      <2> QED BY <1>1, <2>1, ToldErrors, ReturnIsExchange
<1> QED BY <1>2, <1>3

\* The steps of the client.
LEMMA ClientIsExchange ==
    ASSUME IInv, Client
    PROVE  Exchange!ExchangeNext \/ UNCHANGED Exchange!exchangeVars
<1>0. "HelperUnavailable" \in Results /\ "HelperProtocol" \in Results
      BY DEF Results
<1>1. CASE Connect
      BY <1>1, ConnectIsExchange DEF Exchange!ExchangeNext
<1>2. CASE ConnectRefused
      <2>1. ~Asking
            BY <1>2 DEF ConnectRefused, Asking
      <2> QED BY <1>2, <2>1, PrepareIsExchange DEF Exchange!ExchangeNext
<1>3. ASSUME Asking, \/ Return("HelperUnavailable")
                     \/ Return("HelperProtocol")
      PROVE  Exchange!ExchangeNext
      BY <1>0, <1>3, ToldErrors, ReturnIsExchange DEF Exchange!ExchangeNext
<1>4. CASE Decode
      BY <1>4, DecodeIsExchange DEF Exchange!ExchangeNext
<1>5. CASE WriteFrame
      <2>1. Asking
            BY <1>5 DEF WriteFrame, Asking
      <2>2. CASE Return("HelperProtocol")
            BY <1>3, <2>1, <2>2
      <2>3. CASE /\ backlog' = [i \in DOMAIN backlog |-> Delivered(backlog[i])]
                 /\ serving' = Delivered(serving)
                 /\ pc' = "header"
                 /\ UNCHANGED <<call, result, up, host, wire>>
            <3>1. backlog \in Seq(Connections) /\ serving \in Connections \cup {None}
                  BY DEF IInv, TypeOK
            <3>2. \A c \in Connections : /\ Delivered(c) \in Connections
                                         /\ Delivered(c).req = c.req
                                         /\ (Delivered(c).ran <=> c.ran)
                  BY ConnectionFields DEF Delivered
            <3>3. /\ DOMAIN backlog = 1..Len(backlog)
                  /\ \A i \in 1..Len(backlog) : backlog[i] \in Connections
                  BY <3>1
            <3>4. backlog' \in [DOMAIN backlog -> Connections]
                  BY <2>3, <3>2, <3>3
            <3>5. backlog' \in Seq(Connections) /\ Len(backlog') = Len(backlog)
                  BY <3>1, <3>4, SameLength
            <3>6. \A i \in 1..Len(backlog) : backlog'[i].req = backlog[i].req
                  BY <2>3, <3>2, <3>3
            <3>7. \/ serving = None /\ serving' = None
                  \/ /\ serving \in Connections /\ serving' \in Connections
                     /\ serving # None /\ serving' # None
                     /\ serving'.req = serving.req /\ (serving'.ran <=> serving.ran)
                  <4>1. Delivered(None) = None
                        BY DEF Delivered, Mine
                  <4> QED BY <2>3, <3>1, <3>2, <4>1, NoneAssumption
            <3>8. Pending' = Pending
                  BY <3>1, <3>5, <3>6, <3>7, SamePending
            <3>9. Asking' /\ pc # "idle" /\ pc' # "idle"
                  BY <1>5, <2>3 DEF WriteFrame, Asking
            <3> QED BY <2>1, <2>3, <3>8, <3>9, Stutters
      <2> QED BY <1>5, <2>2, <2>3 DEF WriteFrame
<1>6. CASE WriteFails
      BY <1>3, <1>6 DEF WriteFails, Asking
<1>7. CASE ReadFails
      BY <1>3, <1>7 DEF ReadFails, Asking
<1>8. CASE ReadHeader
      <2>1. Asking
            BY <1>8 DEF ReadHeader, Asking
      <2>2. CASE Return("HelperProtocol")
            BY <1>3, <2>1, <2>2
      <2>3. CASE pc' = "body" /\ wire' = [wire EXCEPT !.read = 1] /\ UNCHANGED <<call, result, helper>>
            <3>1. wire'.resp = wire.resp
                  BY <2>3 DEF IInv, TypeOK, Wires
            <3>2. Pending' = Pending /\ host' = host
                  BY <2>3 DEF helper, Pending, Unserved, Contents
            <3>3. Asking' /\ pc # "idle" /\ pc' # "idle"
                  BY <1>8, <2>3 DEF ReadHeader, Asking
            <3> QED BY <2>1, <2>3, <3>1, <3>2, <3>3, Stutters
      <2> QED BY <1>8, <2>2, <2>3 DEF ReadHeader
<1>9. CASE ReadBody
      <2>1. PICK n : wire' = [wire EXCEPT !.read = n]
            BY <1>9 DEF ReadBody
      <2>2. wire'.resp = wire.resp
            BY <2>1 DEF IInv, TypeOK, Wires
      <2>3. /\ Pending' = Pending /\ UNCHANGED <<pc, call, result, host>>
            BY <1>9 DEF ReadBody, client, helper, Pending, Unserved, Contents
      <2> QED BY <2>2, <2>3, Stutters DEF Asking
<1> QED BY <1>1, <1>2, <1>4, <1>5, <1>6, <1>7, <1>8, <1>9 DEF Client

\* Carrying a request out serves it.
LEMMA ExecuteIsExchange ==
    ASSUME IInv, Execute
    PROVE  Exchange!Serve
<1>1. /\ serving \in Connections /\ serving # None /\ serving.whole /\ ~serving.ran
      /\ serving.req \in Requests /\ TypeOK
      /\ UNCHANGED <<pc, call, result, up, backlog>>
      BY DEF Execute, client, IInv, TypeOK, Connections
<1>2. PICK a \in Answers(serving.req) :
        /\ host' = a.host
        /\ IF serving.mine
             THEN /\ fate' = a.fate
                  /\ wire' \in Frames(a.resp)
                  /\ serving' = [serving EXCEPT !.ran = TRUE]
             ELSE serving' = None /\ UNCHANGED <<fate, wire>>
      BY DEF Execute
<1>3. /\ Pending # <<>> /\ Head(Pending) = serving.req.content
      /\ Tail(Pending) = Contents(backlog) /\ Len(Pending) = Len(backlog) + 1
      BY <1>1, UnservedFacts
<1>4. serving' = None \/ serving'.ran
      <2>1. [serving EXCEPT !.ran = TRUE].ran
            BY <1>1 DEF Connections
      <2> QED BY <1>2, <2>1
<1>5. Pending' = Tail(Pending)
      BY <1>1, <1>3, <1>4 DEF Pending, Unserved, Contents
<1>6. host' \in {host} \cup ({Head(Pending)} \ {None})
      BY <1>1, <1>2, <1>3, AnswerHosts
<1>7. Asking' = Asking /\ Question' = Question /\ LastTold' = LastTold
      BY <1>1 DEF Asking, Question, LastTold, Told
<1>8. AnswerSent' \in IF Asking /\ Len(Pending) = 1 THEN Exchange!Truthful(Head(Pending))
                      ELSE {AnswerSent}
      <2>1. CASE serving.mine
            <3>1. Asking /\ Len(Pending) = 1 /\ serving.req = call
                  BY <1>1, <1>3, <2>1 DEF IInv, QueueInv, Mine, Own, Asking
            <3>2. wire'.resp \in {a.resp, None} /\ a.resp \in Responses
                  BY <1>1, <1>2, <2>1, AnswerClaims, FrameTypes
            <3>3. CASE AnswerSent' = "none"
                  BY <3>1, <3>3 DEF Exchange!Truthful
            <3>4. CASE AnswerSent' # "none"
                  <4>1. AnswerSent' = Told(Outcome(a.resp)) /\ Told(Outcome(a.resp)) # "failed"
                        BY <1>1, <3>2, <3>4
                        DEF AnswerSent, Outcome, ApplyOutcome, CheckOk, Told
                  <4>2. /\ AnswerSent' = "done" => a.resp.ok
                        /\ AnswerSent' = "rolledBack" => a.resp.outcome = "RolledBack"
                        /\ AnswerSent' = "unauthenticated" => a.resp.detail = "unauthenticated"
                        /\ AnswerSent' \in {"done", "rolledBack", "unauthenticated"}
                        <5>1. /\ Outcome(a.resp) \in Results
                              /\ Outcome(a.resp) \in {"Ok", "Applied"} => a.resp.ok
                              /\ Outcome(a.resp) = "RolledBack" => a.resp.outcome = "RolledBack"
                              /\ Outcome(a.resp) = "HelperUnauthenticated"
                                    => a.resp.detail = "unauthenticated"
                              BY <1>1, <3>1, <3>2, OutcomeClaims, OutcomeOk
                        <5> QED BY <4>1, <5>1, NoneAssumption DEF Told, Results
                  <4>3. /\ AnswerSent' = "done" => Head(Pending) = None \/ host' = Head(Pending)
                        /\ AnswerSent' \in {"rolledBack", "unauthenticated"} => host' = host
                        BY <1>1, <1>2, <1>3, <4>2, AnswerHosts
                  <4> QED BY <3>1, <4>2, <4>3 DEF Exchange!Truthful
            <3> QED BY <3>3, <3>4
      <2>2. CASE ~serving.mine
            <3>1. wire' = wire
                  BY <1>2, <2>2
            <3>2. wire.resp = None
                  BY <1>1 DEF IInv, WireInv, FateInv
            <3>3. AnswerSent = "none" /\ AnswerSent' = "none"
                  BY <3>1, <3>2 DEF AnswerSent
            <3> QED BY <3>3 DEF Exchange!Truthful
      <2> QED BY <2>1, <2>2
<1> QED BY <1>3, <1>5, <1>6, <1>7, <1>8 DEF Exchange!Serve

\* The steps of the helper.
LEMMA HelperIsExchange ==
    ASSUME IInv, Helper
    PROVE  Exchange!ExchangeNext \/ UNCHANGED Exchange!exchangeVars
<1>0. TypeOK /\ wire \in Wires /\ backlog \in Seq(Connections)
      BY DEF IInv, TypeOK
<1>1. CASE Execute
      BY <1>1, ExecuteIsExchange DEF Exchange!ExchangeNext
<1>2. CASE Accept
      <2>1. /\ serving = None /\ backlog # <<>> /\ serving' = Head(backlog) /\ backlog' = Tail(backlog)
            /\ UNCHANGED <<pc, call, result, host, wire>>
            BY <1>2 DEF Accept, client
      <2>2. /\ Len(backlog) \in Nat \ {0} /\ Head(backlog) = backlog[1]
            /\ backlog[1] \in Connections /\ <<Head(backlog)>> \o Tail(backlog) = backlog
            BY <1>0, <2>1, EmptySeq
      <2>3. serving' # None /\ ~serving'.ran
            <3>1. 1 \in 1..Len(backlog)
                  BY <2>2
            <3>2. ~backlog[1].ran
                  BY <3>1 DEF IInv, QueueInv
            <3> QED BY <2>1, <2>2, <3>2, NoneAssumption
      <2>4. Pending' = Pending
            BY <2>1, <2>2, <2>3 DEF Pending, Unserved, Contents
      <2> QED BY <2>1, <2>4, Stutters DEF Asking
<1>3. CASE HangUp
      <2>1. /\ serving # None /\ ~serving.mine /\ serving' = None
            /\ UNCHANGED <<pc, call, result, backlog, host, wire>>
            BY <1>3 DEF HangUp, client
      <2>2. CASE serving.ran
            <3>1. Pending' = Pending
                  BY <2>1, <2>2 DEF Pending, Unserved, Contents
            <3> QED BY <2>1, <3>1, Stutters DEF Asking
      <2>3. CASE ~serving.ran
            <3>1. Pending # <<>> /\ Tail(Pending) = Contents(backlog)
                  BY <1>0, <2>1, <2>3, UnservedFacts
            <3>2. Pending' = Tail(Pending)
                  BY <2>1, <3>1 DEF Pending, Unserved, Contents
            <3>3. wire.resp = None
                  BY <2>1, <2>3 DEF IInv, WireInv, FateInv
            <3>4. AnswerSent = "none" /\ AnswerSent' = "none"
                  BY <2>1, <3>3 DEF AnswerSent
            <3>5. Asking' = Asking /\ Question' = Question /\ LastTold' = LastTold /\ host' = host
                  BY <2>1 DEF Asking, Question, LastTold, Told
            <3>6. Exchange!Serve
                  BY <3>1, <3>2, <3>4, <3>5 DEF Exchange!Serve, Exchange!Truthful
            <3> QED BY <3>6 DEF Exchange!ExchangeNext
      <2> QED BY <2>2, <2>3
<1>4. CASE SendAnswer
      <2>1. UNCHANGED <<pc, call, result, backlog, serving, host>> /\ wire'.resp = wire.resp
            BY <1>0, <1>4 DEF SendAnswer, client, helper, Wires
      <2>2. Pending' = Pending
            BY <2>1 DEF Pending, Unserved, Contents
      <2> QED BY <2>1, <2>2, Stutters DEF Asking
<1>5. CASE CloseAnswered
      <2>1. /\ UNCHANGED <<pc, call, result, backlog, host>> /\ wire'.resp = wire.resp
            /\ serving' = None /\ serving.ran
            BY <1>0, <1>5 DEF CloseAnswered, Answering, client, Wires
      <2>2. Pending' = Pending
            BY <2>1 DEF Pending, Unserved, Contents
      <2> QED BY <2>1, <2>2, Stutters DEF Asking
<1> QED BY <1>1, <1>2, <1>3, <1>4, <1>5 DEF Helper

LEMMA ExchangeStep == IInv /\ [Next]_vars => [Exchange!ExchangeNext]_(Exchange!exchangeVars)
<1> SUFFICES ASSUME IInv, [Next]_vars
             PROVE  Exchange!ExchangeNext \/ UNCHANGED Exchange!exchangeVars
    OBVIOUS
<1>1. CASE NewCall
      <2>1. ~Asking
            BY <1>1 DEF NewCall, Begin, NoToken, Asking
      <2> QED BY <1>1, <2>1, PrepareIsExchange DEF Exchange!ExchangeNext
<1>2. CASE HelperStops
      <2>1. /\ UNCHANGED <<pc, call, result, host>> /\ backlog' = <<>> /\ serving' = None
            BY <1>2 DEF HelperStops, client
      <2>2. wire'.resp = wire.resp
            BY <1>2 DEF HelperStops, IInv, TypeOK, Wires
      <2>3. Pending' = <<>>
            BY <2>1 DEF Pending, Unserved, Contents
      <2>4. Asking' = Asking /\ Question' = Question /\ LastTold' = LastTold
            BY <2>1 DEF Asking, Question, LastTold, Told
      <2>5. AnswerSent' = AnswerSent
            BY <2>1, <2>2, <2>4 DEF AnswerSent, Outcome, ApplyOutcome, CheckOk, Told
      <2>6. Exchange!Lose
            BY <2>1, <2>3, <2>4, <2>5 DEF Exchange!Lose
      <2> QED BY <2>6 DEF Exchange!ExchangeNext
<1>3. CASE HelperStarts \/ RotateHelper \/ RotateFile \/ Stabilise \/ UNCHANGED vars
      <2>1. UNCHANGED <<pc, call, result, backlog, serving, host, wire>>
            BY <1>3 DEF HelperStarts, RotateHelper, RotateFile, Stabilise, vars, client, helper
      <2>2. Pending' = Pending
            BY <2>1 DEF Pending, Unserved, Contents
      <2> QED BY <2>1, <2>2, Stutters DEF Asking
<1> QED BY <1>1, <1>2, <1>3, ClientIsExchange, HelperIsExchange DEF Next

\* HelperClient::call, with its connection, frames, timeouts and tokens, is the
\* exchange that a synchronisation pass takes as one question and its answer
\* (CaSync's SendApply, HelperServes, ReceiveAnswer and AnswerLost).
THEOREM ExchangeImplemented == Spec => ImplementsExchange
<1>1. Init => Exchange!ExchangeInit
      <2> SUFFICES ASSUME Init PROVE Exchange!ExchangeInit
          OBVIOUS
      <2>1. ~Asking /\ Question = None /\ AnswerSent = "none" /\ LastTold = "none"
            BY NoneAssumption DEF Init, Asking, Question, AnswerSent, LastTold, Told, Results
      <2>2. Pending = <<>> /\ host = None
            BY DEF Init, Pending, Unserved, Contents
      <2> QED BY <2>1, <2>2 DEF Exchange!ExchangeInit
<1> QED BY <1>1, InitIInv, NextKeeps, ExchangeStep, PTL
        DEF Spec, ImplementsExchange, Exchange!ExchangeSpec
=============================================================================
