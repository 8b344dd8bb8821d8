--------------------------- MODULE MatchContract ---------------------------
(****************************************************************************)
(* What match.Matcher promises a caller of Enqueue, and nothing about how:  *)
(* every call gets a channel that delivers exactly one room, shared with    *)
(* exactly one other call of another session, or is closed without one.     *)
(* A call is named by a ticket.                                             *)
(****************************************************************************)
CONSTANTS Session, Ticket, Nil

VARIABLES
  caller,   \* ticket -> the session that called Enqueue, or Nil
  answer,   \* ticket -> "none", "waiting", "room" or "cancelled"
  partner   \* ticket -> the session it shares its room with, or Nil

vars == <<caller, answer, partner>>

Init ==
  /\ caller = [t \in Ticket |-> Nil]
  /\ answer = [t \in Ticket |-> "none"]
  /\ partner = [t \in Ticket |-> Nil]

Call(t, s) ==
  /\ answer[t] = "none"
  /\ caller' = [caller EXCEPT ![t] = s]
  /\ answer' = [answer EXCEPT ![t] = "waiting"]
  /\ UNCHANGED partner

Match(t, u) ==
  /\ answer[t] = "waiting" /\ answer[u] = "waiting"
  /\ caller[t] # caller[u]
  /\ answer' = [answer EXCEPT ![t] = "room", ![u] = "room"]
  /\ partner' = [partner EXCEPT ![t] = caller[u], ![u] = caller[t]]
  /\ UNCHANGED caller

Cancel(t) ==
  /\ answer[t] = "waiting"
  /\ answer' = [answer EXCEPT ![t] = "cancelled"]
  /\ UNCHANGED <<caller, partner>>

Next ==
  \/ \E t \in Ticket, s \in Session : Call(t, s)
  \/ \E t, u \in Ticket : Match(t, u)
  \/ \E t \in Ticket : Cancel(t)

Spec == Init /\ [][Next]_vars
=============================================================================
