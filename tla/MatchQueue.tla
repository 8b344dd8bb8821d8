----------------------------- MODULE MatchQueue -----------------------------
(****************************************************************************)
(* The bookkeeping of match.Memory: the queue, the maps byID and pending    *)
(* that are indexed by session, and the channels on which searches wait.    *)
(* Which of the queued candidates are paired is left open here (the policy  *)
(* of scan is another module's subject); that two are taken out together    *)
(* and answered together is not.  All of it happens under Memory.mu.        *)
(*                                                                          *)
(* A ticket names one call of Enqueue: its candidate in the queue and its   *)
(* channel.  Tickets are numbered in the order of the calls, which is the   *)
(* order of the queue, as the code only ever appends.  0 is "no ticket".    *)
(****************************************************************************)
EXTENDS Naturals, FiniteSets

CONSTANTS
  Session,
  MaxTickets,   \* bound on the calls of Enqueue
  OneAtATime,   \* TRUE: callers keep to one search at a time
  Nil

Ticket == 1 .. MaxTickets

ASSUME MatchQueueAssumption ==
  /\ MaxTickets \in Nat
  /\ OneAtATime \in BOOLEAN
  /\ Nil \notin Session

MatchRoom == [id : 0 .. MaxTickets, members : SUBSET Session]
NoRoom == [id |-> 0, members |-> {}]

VARIABLES
  alive,      \* session.Registry: the sessions that are connected
  queue,      \* Memory.queue, as the set of its tickets
  owner,      \* ticket -> the session that drew it, or Nil
  byID,       \* Memory.byID: session -> ticket or 0
  pending,    \* Memory.pending: session -> ticket whose channel it is, or 0
  chan,       \* ticket -> "none", "open", "sent" (room put in, closed), "closed"
  result,     \* ticket -> the match.Room sent, or NoRoom
  issued,     \* tickets drawn so far
  paired      \* rooms made so far; newRoomID never repeats one

vars == <<alive, queue, owner, byID, pending, chan, result, issued, paired>>
----------------------------------------------------------------------------
Init ==
  /\ alive = {}
  /\ queue = {}
  /\ owner = [t \in Ticket |-> Nil]
  /\ byID = [s \in Session |-> 0]
  /\ pending = [s \in Session |-> 0]
  /\ chan = [t \in Ticket |-> "none"]
  /\ result = [t \in Ticket |-> NoRoom]
  /\ issued = 0
  /\ paired = 0

TicketsOf(s) == {t \in queue : owner[t] = s}

\* A connection registers its session before it can search.
Join(s) ==
  /\ alive' = alive \cup {s}
  /\ UNCHANGED <<queue, owner, byID, pending, chan, result, issued, paired>>

Leave(s) ==
  /\ alive' = alive \ {s}
  /\ UNCHANGED <<queue, owner, byID, pending, chan, result, issued, paired>>

Enqueue(s) ==
  LET t == issued + 1 IN
  /\ issued < MaxTickets
  /\ issued' = t
  /\ queue' = queue \cup {t}
  /\ owner' = [owner EXCEPT ![t] = s]
  /\ byID' = [byID EXCEPT ![s] = t]
  /\ pending' = [pending EXCEPT ![s] = t]
  /\ chan' = [chan EXCEPT ![t] = "open"]
  /\ UNCHANGED <<alive, result, paired>>

\* close(ch) of the channel pending for s, if there is one.
CloseChannel(s) ==
  chan' = [t \in Ticket |-> IF t = pending[s] THEN "closed" ELSE chan[t]]

\* Broken variants of a definition stand right before it.
ForgetWithNil(s) ==              \* nil is stored instead of delete()
  /\ byID' = [byID EXCEPT ![s] = 0]
  /\ pending' = [pending EXCEPT ![s] = Nil]

ForgetCandidateOnly(s) ==        \* the channel stays in pending
  /\ byID' = [byID EXCEPT ![s] = 0]
  /\ UNCHANGED pending

Forget(s) ==
  /\ byID' = [byID EXCEPT ![s] = 0]
  /\ pending' = [pending EXCEPT ![s] = 0]

\* removeLocked, run by the cancel function of any of s's tickets: it finds
\* the queue entry by session ID and takes out the first one only.
Remove(s) ==
  /\ IF byID[s] = 0
       THEN UNCHANGED <<queue, byID, pending, chan>>
       ELSE /\ queue' = {t \in queue : owner[t] # s \/ \E u \in TicketsOf(s) : u < t}
            /\ CloseChannel(s)
            /\ Forget(s)
  /\ UNCHANGED <<alive, owner, result, issued, paired>>

DropDeadKeepIndex(t) ==          \* byID still has the candidate
  /\ t \in queue /\ owner[t] \notin alive
  /\ queue' = queue \ {t}
  /\ CloseChannel(owner[t])
  /\ pending' = [pending EXCEPT ![owner[t]] = 0]
  /\ UNCHANGED <<alive, owner, byID, result, issued, paired>>

DropLiving(t) ==                 \* the test of isAlive is inverted
  /\ t \in queue /\ owner[t] \in alive
  /\ queue' = queue \ {t}
  /\ CloseChannel(owner[t])
  /\ Forget(owner[t])
  /\ UNCHANGED <<alive, owner, result, issued, paired>>

DropNobody(t) == FALSE /\ UNCHANGED vars  \* no liveness check is registered

\* dropDeadCandidatesLocked, one candidate whose session isAlive denies.
DropDead(t) ==
  /\ t \in queue
  /\ owner[t] \notin alive
  /\ queue' = queue \ {t}
  /\ CloseChannel(owner[t])
  /\ Forget(owner[t])
  /\ UNCHANGED <<alive, owner, result, issued, paired>>

\* What pairing does, with the room's ID, the channels answered and the next
\* ID: every entry of the two sessions leaves the queue.  Either may be gone
\* meanwhile, as the scan asked isAlive before it began to pair.
PairAs(s, u, id, answered, last) ==
  /\ TicketsOf(s) # {} /\ TicketsOf(u) # {}
  /\ paired < MaxTickets          \* never binds: every pair uses up tickets
  /\ paired' = last
  /\ queue' = queue \ (TicketsOf(s) \cup TicketsOf(u))
  /\ chan' = [t \in Ticket |-> IF t \in answered THEN "sent" ELSE chan[t]]
  /\ result' = [t \in Ticket |->
       IF t \in answered THEN [id |-> id, members |-> {s, u}] ELSE result[t]]
  /\ byID' = [byID EXCEPT ![s] = 0, ![u] = 0]
  /\ pending' = [pending EXCEPT ![s] = 0, ![u] = 0]
  /\ UNCHANGED <<alive, owner, issued>>

PendingOf(s, u) == {pending[s], pending[u]} \ {0}

PairReusingId(s, u) ==           \* a room ID comes up again
  PairAs(s, u, 1, PendingOf(s, u), paired + 1)

PairTellingOne(s, u) ==          \* only one side's channel is served
  PairAs(s, u, paired + 1, {pending[s]} \ {0}, paired + 1)

\* pairLocked
PairUp(s, u) ==
  PairAs(s, u, paired + 1, PendingOf(s, u), paired + 1)

PairWithSelf(s, u) == PairUp(s, u)  \* candidates are compared, not their sessions

\* Every choice of partners is of two different sessions.
Pair(s, u) == s # u /\ PairUp(s, u)

SearchAllowed(s) == s \in alive /\ (OneAtATime => byID[s] = 0)

Next ==
  \/ \E s \in Session : (\A t \in Ticket : owner[t] # s) /\ Join(s)
  \/ \E s \in Session : Leave(s)
  \/ \E s \in Session : SearchAllowed(s) /\ Enqueue(s)
  \/ \E s \in Session : Remove(s)
  \/ \E t \in queue : DropDead(t)
  \/ \E s, u \in Session : Pair(s, u)

Spec == Init /\ [][Next]_vars

DropSomeDead == \E t \in queue : DropDead(t)
----------------------------------------------------------------------------
TypeOK ==
  /\ alive \in SUBSET Session
  /\ queue \in SUBSET Ticket
  /\ owner \in [Ticket -> Session \cup {Nil}]
  /\ byID \in [Session -> Ticket \cup {0}]
  /\ pending \in [Session -> Ticket \cup {0}]
  /\ chan \in [Ticket -> {"none", "open", "sent", "closed"}]
  /\ result \in [Ticket -> MatchRoom]
  /\ issued \in 0 .. MaxTickets
  /\ paired \in 0 .. MaxTickets

\* The channel in pending is its own session's and still open and empty: the
\* matcher, which sends and closes while it holds mu, never blocks there,
\* sends on a closed channel or closes one twice, whatever searches the
\* callers start and cancel in whatever order.
PendingOpen ==
  \A s \in Session :
    pending[s] # 0 => chan[pending[s]] = "open" /\ owner[pending[s]] = s

\* A session that byID knows has an entry in the queue for a scan to find, and
\* the channel that will answer it is the one of its latest search.
IndexedIsQueued ==
  \A s \in Session :
    /\ byID[s] = pending[s]
    /\ byID[s] # 0 => TicketsOf(s) # {}

\* No room pairs a session with itself, although one session may have several
\* entries in the queue, and a room is sent to its two members only.
NoSelfMatch ==
  \A t \in Ticket :
    chan[t] = "sent" =>
      \E p \in Session : p # owner[t] /\ result[t].members = {owner[t], p}

\* Two sessions receive the same room ID only if they are its two members, and
\* no session receives it twice.
RoomSentToItsPair ==
  \A t, u \in Ticket :
    chan[t] = "sent" /\ chan[u] = "sent" /\ result[t].id = result[u].id =>
      /\ result[t] = result[u]
      /\ t # u => owner[t] # owner[u]

\* The bookkeeping implements the contract of match.Matcher.
Answer(t) ==
  CASE chan[t] = "open"   -> "waiting"
    [] chan[t] = "sent"   -> "room"
    [] chan[t] = "closed" -> "cancelled"
    [] OTHER              -> "none"
Partner(t) ==
  IF chan[t] = "sent" THEN CHOOSE p \in result[t].members : p # owner[t] ELSE Nil

Contract == INSTANCE MatchContract WITH
  caller <- owner,
  answer <- [t \in Ticket |-> Answer(t)],
  partner <- [t \in Ticket |-> Partner(t)]
ContractSpec == Contract!Spec
=============================================================================
