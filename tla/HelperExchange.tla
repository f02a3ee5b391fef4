--------------------------- MODULE HelperExchange ---------------------------
(***************************************************************************)
(* What a synchronisation pass counts on when it asks the helper to        *)
(* install a body: a question, served in its turn or lost, and perhaps an  *)
(* answer.  Questions that were given up stay pending and may still be     *)
(* carried out, before any later one.                                      *)
(*                                                                         *)
(* CaSync has these steps as its own (SendApply, HelperServes,             *)
(* ReceiveAnswer, AnswerLost, HelperUnreachable); HelperChannel, with its  *)
(* socket, frames and tokens, is shown to implement them.                  *)
(***************************************************************************)
EXTENDS Naturals, Sequences

CONSTANTS Bodies, None

VARIABLES
    asking,     \* a question is under way
    question,   \* the body it is about; None when it installs nothing
    pending,    \* the questions the helper may still carry out, oldest first
    answer,     \* the answer to the question under way, "none" if there is none
    told,       \* what the last question came to, "none" before that
    host        \* the body the host trusts

exchangeVars == <<asking, question, pending, answer, told, host>>

ExchangeInit ==
    /\ ~asking /\ question = None /\ pending = <<>>
    /\ answer = "none" /\ told = "none"
    /\ host = None

\* A call begins, or fails before it has a connection.
Prepare ==
    /\ ~asking
    /\ told' \in {"none", "failed"}
    /\ UNCHANGED <<asking, question, pending, answer, host>>

Ask(b) ==
    /\ ~asking /\ told = "none"
    /\ asking' = TRUE /\ question' = b
    /\ pending' = Append(pending, b)
    /\ UNCHANGED <<answer, told, host>>

\* What may be answered when serving b has left the host as it is or changed it.
Truthful(b) ==
    {"none"} \cup (IF b = None \/ host' = b THEN {"done"} ELSE {})
             \cup (IF host' = host THEN {"rolledBack", "unauthenticated"} ELSE {})

\* The oldest question is carried out, or not.  There is an answer only to the
\* question under way, which is the youngest.
Serve ==
    /\ pending # <<>>
    /\ host' \in {host} \cup ({Head(pending)} \ {None})
    /\ pending' = Tail(pending)
    /\ answer' \in IF asking /\ Len(pending) = 1 THEN Truthful(Head(pending)) ELSE {answer}
    /\ UNCHANGED <<asking, question, told>>

\* The helper stops: nothing that is pending will be carried out.
Lose ==
    /\ pending' = <<>>
    /\ UNCHANGED <<asking, question, answer, told, host>>

\* The caller has its answer, or goes without.
Return ==
    /\ asking
    /\ told' \in (IF answer = "none" THEN {} ELSE {answer}) \cup {"failed"}
    /\ asking' = FALSE /\ question' = None /\ answer' = "none"
    /\ UNCHANGED <<pending, host>>

ExchangeNext ==
    \/ Prepare \/ Serve \/ Lose \/ Return
    \/ \E b \in Bodies \cup {None} : Ask(b)

ExchangeSpec == ExchangeInit /\ [][ExchangeNext]_exchangeVars
=============================================================================
