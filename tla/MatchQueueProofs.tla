-------------------------- MODULE MatchQueueProofs --------------------------
(****************************************************************************)
(* Proofs about MatchQueue, for every set of sessions, every number of      *)
(* searches, and callers with or without the one-search discipline.         *)
(****************************************************************************)
EXTENDS MatchQueue, TLAPS

\* Tickets and room IDs are drawn in order: nothing refers to one that has not
\* been drawn yet, and a ticket with a channel has an owner.
DrawnInOrder ==
  /\ \A t \in queue : t <= issued /\ owner[t] \in Session
  /\ \A s \in Session : pending[s] <= issued
  /\ \A t \in Ticket : chan[t] # "none" => t <= issued /\ owner[t] \in Session
  /\ \A t \in Ticket : owner[t] # Nil => t <= issued
  /\ \A t \in Ticket : chan[t] = "sent" => result[t].id <= paired /\ result[t].id # 0

QueueInv ==
  /\ TypeOK
  /\ DrawnInOrder
  /\ PendingOpen
  /\ IndexedIsQueued
  /\ NoSelfMatch
  /\ RoomSentToItsPair
----------------------------------------------------------------------------
\* The initial state satisfies the invariant.
LEMMA QInitInv == Init => QueueInv
  BY MatchQueueAssumption
  DEF Init, QueueInv, TypeOK, DrawnInOrder, PendingOpen, IndexedIsQueued, NoSelfMatch,
      RoomSentToItsPair, NoRoom, MatchRoom, Ticket

\* Only connections coming and going: nothing of the matcher changes.
LEMMA AliveStep ==
  ASSUME QueueInv, alive' \in SUBSET Session,
         UNCHANGED <<queue, owner, byID, pending, chan, result, issued, paired>>
  PROVE  QueueInv'
  BY DEF QueueInv, TypeOK, DrawnInOrder, PendingOpen, IndexedIsQueued, NoSelfMatch,
         RoomSentToItsPair, TicketsOf

\* The new ticket is above every other, so no old entry, channel or owner is
\* touched.
LEMMA EnqueueStep ==
  ASSUME QueueInv, NEW s \in Session, Enqueue(s)
  PROVE  QueueInv'
<1> USE MatchQueueAssumption DEF QueueInv
<1> DEFINE n == issued + 1
<1>1. /\ issued < MaxTickets /\ issued' = n
      /\ queue' = queue \cup {n}
      /\ owner' = [owner EXCEPT ![n] = s]
      /\ byID' = [byID EXCEPT ![s] = n]
      /\ pending' = [pending EXCEPT ![s] = n]
      /\ chan' = [chan EXCEPT ![n] = "open"]
      /\ UNCHANGED <<alive, result, paired>>
  BY DEF Enqueue
<1>2. n \in Ticket /\ issued \in Nat /\ \A t \in Ticket : t \in Nat
  BY <1>1 DEF TypeOK, Ticket
<1>3. /\ chan'[n] = "open" /\ owner'[n] = s /\ chan[n] = "none" /\ n \notin queue
      /\ \A t \in Ticket : t # n => chan'[t] = chan[t] /\ owner'[t] = owner[t]
  BY <1>1, <1>2 DEF TypeOK, DrawnInOrder
<1>4. /\ pending'[s] = n /\ byID'[s] = n
      /\ \A u \in Session : u # s => pending'[u] = pending[u] /\ byID'[u] = byID[u]
  BY <1>1, <1>2 DEF TypeOK
<1>5. TypeOK'
  <2>1. issued' \in 0 .. MaxTickets
    BY <1>1, <1>2 DEF TypeOK
  <2> QED
    BY <1>1, <1>2, <2>1 DEF TypeOK
<1>6. DrawnInOrder'
  <2>1. \A u \in Session : pending'[u] <= n
    BY <1>2, <1>4 DEF DrawnInOrder, TypeOK
  <2>2. \A t \in queue' : t <= n /\ owner'[t] \in Session
    BY <1>1, <1>2, <1>3 DEF DrawnInOrder, TypeOK
  <2>3. \A t \in Ticket : chan'[t] # "none" => t <= n /\ owner'[t] \in Session
    BY <1>2, <1>3 DEF DrawnInOrder
  <2>4. \A t \in Ticket : chan'[t] = "sent" => result'[t].id <= paired' /\ result'[t].id # 0
    BY <1>1, <1>3 DEF DrawnInOrder
  <2>5. \A t \in Ticket : owner'[t] # Nil => t <= n
    BY <1>2, <1>3 DEF DrawnInOrder
  <2> QED
    BY <1>1, <2>1, <2>2, <2>3, <2>4, <2>5 DEF DrawnInOrder
<1>7. PendingOpen'
  <2> SUFFICES ASSUME NEW u \in Session, pending'[u] # 0
               PROVE  chan'[pending'[u]] = "open" /\ owner'[pending'[u]] = u
    BY DEF PendingOpen
  <2>1. CASE u = s
    BY <1>3, <1>4, <2>1
  <2>2. CASE u # s
    <3>1. pending'[u] = pending[u] /\ pending[u] \in Ticket /\ pending[u] # n
      BY <1>2, <1>4, <2>2 DEF TypeOK, DrawnInOrder
    <3> QED
      BY <1>3, <3>1 DEF PendingOpen
  <2> QED
    BY <2>1, <2>2
<1>8. IndexedIsQueued'
  <2>1. \A u \in Session : TicketsOf(u) \subseteq TicketsOf(u)'
    BY <1>1, <1>3 DEF TicketsOf, TypeOK
  <2>2. n \in TicketsOf(s)'
    BY <1>1, <1>3 DEF TicketsOf
  <2> QED
    BY <1>4, <2>1, <2>2 DEF IndexedIsQueued
<1>9. NoSelfMatch'
  BY <1>1, <1>3 DEF NoSelfMatch
<1>10. RoomSentToItsPair'
  BY <1>1, <1>3 DEF RoomSentToItsPair
<1> QED
  BY <1>5, <1>6, <1>7, <1>8, <1>9, <1>10

\* Taking out entries of one session and closing its channel, as cancel and
\* the liveness check both do.
LEMMA ForgetStep ==
  ASSUME QueueInv, NEW s \in Session, queue' \subseteq queue,
         \A t \in queue : owner[t] # s => t \in queue',
         CloseChannel(s), Forget(s),
         UNCHANGED <<alive, owner, result, issued, paired>>
  PROVE  QueueInv'
<1> USE DEF QueueInv
<1>1. /\ \A t \in Ticket : chan'[t] = IF t = pending[s] THEN "closed" ELSE chan[t]
      /\ chan' \in [Ticket -> {"none", "open", "sent", "closed"}]
  BY DEF CloseChannel, TypeOK
<1>2. /\ pending'[s] = 0 /\ byID'[s] = 0
      /\ \A u \in Session : u # s => pending'[u] = pending[u] /\ byID'[u] = byID[u]
  BY DEF Forget, TypeOK
<1>3. TypeOK'
  BY <1>1 DEF TypeOK, Forget
<1>4. DrawnInOrder'
  <2>1. \A t \in Ticket : chan'[t] # "none" => t <= issued /\ owner[t] \in Session
    <3> SUFFICES ASSUME NEW t \in Ticket, chan'[t] # "none"
                 PROVE  t <= issued /\ owner[t] \in Session
      OBVIOUS
    <3>1. chan[t] # "none"
      BY <1>1 DEF PendingOpen, Ticket
    <3> QED
      BY <3>1 DEF DrawnInOrder
  <2>2. \A u \in Session : pending'[u] <= issued
    BY <1>2 DEF DrawnInOrder, TypeOK
  <2> QED
    BY <1>1, <2>1, <2>2 DEF DrawnInOrder
<1>5. PendingOpen'
  <2> SUFFICES ASSUME NEW u \in Session, pending'[u] # 0
               PROVE  chan'[pending'[u]] = "open" /\ owner'[pending'[u]] = u
    BY DEF PendingOpen
  <2>1. u # s /\ pending'[u] = pending[u] /\ pending[u] \in Ticket
    BY <1>2 DEF TypeOK
  <2>2. owner[pending[u]] = u /\ chan[pending[u]] = "open"
    BY <2>1 DEF PendingOpen
  <2>3. pending[u] # pending[s]
    BY <2>1, <2>2 DEF PendingOpen
  <2> QED
    BY <1>1, <2>1, <2>2, <2>3
<1>6. IndexedIsQueued'
  <2>1. \A u \in Session : u # s => TicketsOf(u) \subseteq TicketsOf(u)'
    BY DEF TicketsOf
  <2> QED
    BY <1>2, <2>1 DEF IndexedIsQueued
<1>7. NoSelfMatch'
  BY <1>1 DEF NoSelfMatch
<1>8. RoomSentToItsPair'
  BY <1>1 DEF RoomSentToItsPair
<1> QED
  BY <1>3, <1>4, <1>5, <1>6, <1>7, <1>8

\* The cancel function leaves other sessions alone.
LEMMA RemoveStep ==
  ASSUME QueueInv, NEW s \in Session, Remove(s)
  PROVE  QueueInv'
<1>1. CASE byID[s] = 0
  <2>1. UNCHANGED vars
    BY <1>1 DEF Remove, vars
  <2>2. alive' \in SUBSET Session
    BY <2>1 DEF QueueInv, TypeOK, vars
  <2> QED
    BY <2>1, <2>2, AliveStep DEF vars
<1>2. CASE byID[s] # 0
  <2>1. /\ queue' = {t \in queue : owner[t] # s \/ \E u \in TicketsOf(s) : u < t}
        /\ CloseChannel(s)
        /\ Forget(s)
        /\ UNCHANGED <<alive, owner, result, issued, paired>>
    BY <1>2 DEF Remove
  <2>2. queue' \subseteq queue /\ \A t \in queue : owner[t] # s => t \in queue'
    BY <2>1
  <2> QED
    BY <2>1, <2>2, ForgetStep
<1> QED
  BY <1>1, <1>2

\* Neither does a scan that drops a dead candidate.
LEMMA DropDeadStep ==
  ASSUME QueueInv, NEW t \in queue, DropDead(t)
  PROVE  QueueInv'
<1>1. owner[t] \in Session
  BY DEF QueueInv, DrawnInOrder
<1>2. queue' \subseteq queue /\ \A u \in queue : owner[u] # owner[t] => u \in queue'
  BY DEF DropDead
<1> QED
  BY <1>1, <1>2, ForgetStep DEF DropDead

\* The channels answered are those pending for the two sessions: they are open,
\* their owners are the members, and the room's ID has not been used before.
LEMMA PairStep ==
  ASSUME QueueInv, NEW s \in Session, NEW u \in Session, Pair(s, u)
  PROVE  QueueInv'
<1> USE DEF QueueInv
<1> DEFINE room == [id |-> paired + 1, members |-> {s, u}]
<1> DEFINE answered == {pending[s], pending[u]} \ {0}
<1>1. /\ s # u
      /\ paired' = paired + 1
      /\ queue' = queue \ (TicketsOf(s) \cup TicketsOf(u))
      /\ chan' = [t \in Ticket |-> IF t \in answered THEN "sent" ELSE chan[t]]
      /\ result' = [t \in Ticket |-> IF t \in answered THEN room ELSE result[t]]
      /\ byID' = [byID EXCEPT ![s] = 0, ![u] = 0]
      /\ pending' = [pending EXCEPT ![s] = 0, ![u] = 0]
      /\ UNCHANGED <<alive, owner, issued>>
  BY DEF Pair, PairUp, PairAs, PendingOf
<1>2. \A t \in answered :
        /\ chan[t] = "open"
        /\ \/ owner[t] = s /\ t = pending[s]
           \/ owner[t] = u /\ t = pending[u]
  <2>1. pending[s] # 0 => chan[pending[s]] = "open" /\ owner[pending[s]] = s
    BY DEF PendingOpen
  <2>2. pending[u] # 0 => chan[pending[u]] = "open" /\ owner[pending[u]] = u
    BY DEF PendingOpen
  <2> QED
    BY <2>1, <2>2
<1>3. /\ pending'[s] = 0 /\ pending'[u] = 0 /\ byID'[s] = 0 /\ byID'[u] = 0
      /\ \A v \in Session \ {s, u} : pending'[v] = pending[v] /\ byID'[v] = byID[v]
  BY <1>1 DEF TypeOK
<1>4. paired \in Nat /\ paired + 1 \in 0 .. MaxTickets /\ room \in MatchRoom
  <2>1. paired \in 0 .. MaxTickets /\ paired < MaxTickets
    BY DEF TypeOK, Pair, PairUp, PairAs
  <2>2. paired \in Nat /\ paired + 1 \in 0 .. MaxTickets
    BY <2>1, MatchQueueAssumption
  <2> QED
    BY <2>2 DEF MatchRoom
<1>5. TypeOK'
  <2>1. chan' \in [Ticket -> {"none", "open", "sent", "closed"}]
    BY <1>1 DEF TypeOK
  <2>2. result' \in [Ticket -> MatchRoom]
    BY <1>1, <1>4 DEF TypeOK
  <2>3. byID' \in [Session -> Ticket \cup {0}] /\ pending' \in [Session -> Ticket \cup {0}]
    BY <1>1 DEF TypeOK
  <2>4. queue' \in SUBSET Ticket
    BY <1>1 DEF TypeOK
  <2> QED
    BY <1>1, <1>4, <2>1, <2>2, <2>3, <2>4 DEF TypeOK
<1>6. DrawnInOrder'
  <2>1. \A t \in Ticket : chan'[t] = "sent" => result'[t].id <= paired + 1 /\ result'[t].id # 0
    <3> SUFFICES ASSUME NEW t \in Ticket, chan'[t] = "sent"
                 PROVE  result'[t].id <= paired + 1 /\ result'[t].id # 0
      OBVIOUS
    <3>1. CASE t \in answered
      <4>1. result'[t] = room
        BY <1>1, <3>1
      <4> QED
        BY <1>4, <4>1
    <3>2. CASE t \notin answered
      <4>1. chan[t] = "sent" /\ result'[t] = result[t]
        BY <1>1, <3>2
      <4>2. result[t].id <= paired /\ result[t].id \in Nat /\ result[t].id # 0
        BY <4>1 DEF DrawnInOrder, TypeOK, MatchRoom
      <4> QED
        BY <1>4, <4>1, <4>2
    <3> QED
      BY <3>1, <3>2
  <2>2. \A t \in Ticket : chan'[t] # "none" => t <= issued' /\ owner'[t] \in Session
    BY <1>1, <1>2 DEF DrawnInOrder
  <2>3. \A v \in Session : pending'[v] <= issued'
    BY <1>1, <1>3 DEF DrawnInOrder, TypeOK
  <2>4. \A t \in queue' : t <= issued' /\ owner'[t] \in Session
    BY <1>1 DEF DrawnInOrder
  <2> QED
    BY <1>1, <2>1, <2>2, <2>3, <2>4 DEF DrawnInOrder
<1>7. PendingOpen'
  <2> SUFFICES ASSUME NEW v \in Session, pending'[v] # 0
               PROVE  chan'[pending'[v]] = "open" /\ owner'[pending'[v]] = v
    BY DEF PendingOpen
  <2>1. v \in Session \ {s, u} /\ pending'[v] = pending[v] /\ pending[v] \in Ticket
    BY <1>3 DEF TypeOK
  <2>2. owner[pending[v]] = v /\ chan[pending[v]] = "open"
    BY <2>1 DEF PendingOpen
  <2>3. pending[v] \notin answered
    BY <1>2, <2>1, <2>2
  <2> QED
    BY <1>1, <2>1, <2>2, <2>3
<1>8. IndexedIsQueued'
  <2>1. \A v \in Session \ {s, u} : TicketsOf(v) \subseteq TicketsOf(v)'
    BY <1>1 DEF TicketsOf
  <2> QED
    BY <1>3, <2>1 DEF IndexedIsQueued
<1>9. NoSelfMatch'
  <2> SUFFICES ASSUME NEW t \in Ticket, chan'[t] = "sent"
               PROVE  \E p \in Session : p # owner[t] /\ result'[t].members = {owner[t], p}
    BY <1>1 DEF NoSelfMatch
  <2>1. CASE t \in answered
    <3>1. result'[t].members = {s, u} /\ owner[t] \in {s, u}
      BY <1>1, <1>2, <2>1
    <3> QED
      BY <1>1, <3>1
  <2>2. CASE t \notin answered
    <3>1. chan[t] = "sent" /\ result'[t] = result[t]
      BY <1>1, <2>2
    <3> QED
      BY <3>1 DEF NoSelfMatch
  <2> QED
    BY <2>1, <2>2
<1>10. RoomSentToItsPair'
  <2> SUFFICES ASSUME NEW t \in Ticket, NEW w \in Ticket, chan'[t] = "sent", chan'[w] = "sent",
                      result'[t].id = result'[w].id
               PROVE  result'[t] = result'[w] /\ (t # w => owner'[t] # owner'[w])
    BY DEF RoomSentToItsPair
  <2>0. owner' = owner
    BY <1>1
  <2>1. \A x \in Ticket : x \in answered => result'[x] = room /\ result'[x].id = paired + 1
    BY <1>1
  <2>2. \A x \in Ticket : x \notin answered => chan'[x] = chan[x] /\ result'[x] = result[x]
    BY <1>1
  <2>3. \A x \in Ticket : x \notin answered /\ chan'[x] = "sent" => result'[x].id # paired + 1
    <3> SUFFICES ASSUME NEW x \in Ticket, x \notin answered, chan'[x] = "sent"
                 PROVE  result'[x].id # paired + 1
      OBVIOUS
    <3>1. result[x].id <= paired /\ result[x].id \in Nat
      BY <2>2 DEF DrawnInOrder, TypeOK, MatchRoom
    <3> QED
      BY <1>4, <2>2, <3>1
  <2>4. CASE t \in answered
    <3>1. w \in answered
      BY <2>1, <2>3, <2>4
    <3> QED
      BY <1>2, <2>0, <2>1, <2>4, <3>1, <1>1
  <2>5. CASE t \notin answered
    <3>1. w \notin answered
      BY <2>1, <2>3, <2>5
    <3> QED
      BY <2>0, <2>2, <2>5, <3>1 DEF RoomSentToItsPair
  <2> QED
    BY <2>4, <2>5
<1> QED
  BY <1>5, <1>6, <1>7, <1>8, <1>9, <1>10

\* Any operation at all, whoever calls it and when.
AnyStep ==
  \/ \E s \in Session : Join(s) \/ Leave(s) \/ Enqueue(s) \/ Remove(s)
  \/ \E t \in queue : DropDead(t)
  \/ \E s, u \in Session : Pair(s, u)
  \/ UNCHANGED vars

\* The invariant is inductive, and asks nothing of the callers.
LEMMA QStepInv == QueueInv /\ AnyStep => QueueInv'
<1> SUFFICES ASSUME QueueInv, AnyStep PROVE QueueInv'
  OBVIOUS
<1>0. alive \in SUBSET Session
  BY DEF QueueInv, TypeOK
<1>1. ASSUME NEW s \in Session, Join(s) \/ Leave(s) PROVE QueueInv'
  BY <1>0, <1>1, AliveStep DEF Join, Leave
<1>2. ASSUME NEW s \in Session, Enqueue(s) PROVE QueueInv'
  BY <1>2, EnqueueStep
<1>3. ASSUME NEW s \in Session, Remove(s) PROVE QueueInv'
  BY <1>3, RemoveStep
<1>4. ASSUME NEW t \in queue, DropDead(t) PROVE QueueInv'
  BY <1>4, DropDeadStep
<1>5. ASSUME NEW s \in Session, NEW u \in Session, Pair(s, u) PROVE QueueInv'
  BY <1>5, PairStep
<1>6. CASE UNCHANGED vars
  BY <1>0, <1>6, AliveStep DEF vars
<1> QED
  BY <1>1, <1>2, <1>3, <1>4, <1>5, <1>6 DEF AnyStep

LEMMA NextIsAnyStep == [Next]_vars => AnyStep
  BY DEF Next, AnyStep

LEMMA QNextInv == QueueInv /\ [Next]_vars => QueueInv'
  BY QStepInv, NextIsAnyStep

\* A room that was sent stays what it is, and so does its channel.
LEMMA SentIsFinal ==
  ASSUME QueueInv, AnyStep, NEW t \in Ticket, chan[t] = "sent"
  PROVE  chan'[t] = "sent" /\ result'[t] = result[t] /\ owner'[t] = owner[t]
<1> USE DEF QueueInv
<1>1. ASSUME NEW s \in Session, Enqueue(s)
      PROVE  chan'[t] = "sent" /\ result'[t] = result[t] /\ owner'[t] = owner[t]
  <2>1. t <= issued /\ t \in Nat /\ issued \in Nat
    BY MatchQueueAssumption DEF DrawnInOrder, TypeOK, Ticket
  <2>2. t # issued + 1
    BY <2>1
  <2> QED
    BY <1>1, <2>2 DEF Enqueue, TypeOK
<1>2. ASSUME NEW s \in Session, CloseChannel(s), UNCHANGED <<result, owner>>
      PROVE  chan'[t] = "sent" /\ result'[t] = result[t] /\ owner'[t] = owner[t]
  <2>1. t # pending[s]
    BY DEF PendingOpen, Ticket
  <2> QED
    BY <1>2, <2>1 DEF CloseChannel
<1>3. ASSUME NEW s \in Session, Remove(s)
      PROVE  chan'[t] = "sent" /\ result'[t] = result[t] /\ owner'[t] = owner[t]
  BY <1>2, <1>3 DEF Remove
<1>4. ASSUME NEW u \in queue, DropDead(u)
      PROVE  chan'[t] = "sent" /\ result'[t] = result[t] /\ owner'[t] = owner[t]
  BY <1>2, <1>4 DEF DropDead, DrawnInOrder
<1>5. ASSUME NEW s \in Session, NEW u \in Session, Pair(s, u)
      PROVE  chan'[t] = "sent" /\ result'[t] = result[t] /\ owner'[t] = owner[t]
  <2>1. t \notin PendingOf(s, u)
    BY DEF PendingOf, PendingOpen
  <2> QED
    BY <1>5, <2>1 DEF Pair, PairUp, PairAs
<1>6. CASE UNCHANGED <<chan, result, owner>>
  BY <1>6
<1> QED
  BY <1>1, <1>3, <1>4, <1>5, <1>6 DEF AnyStep, Join, Leave, vars

\* In every behaviour the invariant holds in every state.
LEMMA QAlwaysInv == Spec => []QueueInv
  BY QInitInv, QNextInv, PTL DEF Spec
----------------------------------------------------------------------------
\* The types of the matcher's state hold in every state.
THEOREM QueueTypeCorrect == Spec => []TypeOK
<1>1. QueueInv => TypeOK
  BY DEF QueueInv
<1> QED
  BY <1>1, QAlwaysInv, PTL

\* The matcher never sends on or closes a channel that is closed or full.
THEOREM ChannelsUsedOnce == Spec => []PendingOpen
<1>1. QueueInv => PendingOpen
  BY DEF QueueInv
<1> QED
  BY <1>1, QAlwaysInv, PTL

\* byID and pending agree, and who is in them is in the queue.
THEOREM MapsAgree == Spec => []IndexedIsQueued
<1>1. QueueInv => IndexedIsQueued
  BY DEF QueueInv
<1> QED
  BY <1>1, QAlwaysInv, PTL

\* A room goes to two different sessions, its members, and to each once.
THEOREM RoomsAreForTwo == Spec => [](NoSelfMatch /\ RoomSentToItsPair)
<1>1. QueueInv => NoSelfMatch /\ RoomSentToItsPair
  BY DEF QueueInv
<1> QED
  BY <1>1, QAlwaysInv, PTL
----------------------------------------------------------------------------
(* The contract of match.Matcher.  With one search at a time the maps lead  *)
(* to every candidate, so that a pairing finds two channels to answer.      *)

MapsComplete == \A t \in queue : byID[owner[t]] = t

\* A step that leaves queue, owners and channels alone leaves the contract alone.
LEMMA SameContract ==
  ASSUME UNCHANGED <<owner, chan, result>>
  PROVE  UNCHANGED Contract!vars
<1>1. \A t : Answer(t)' = Answer(t) /\ Partner(t)' = Partner(t)
  BY DEF Answer, Partner
<1> QED
  BY <1>1 DEF Contract!vars

LEMMA SameAnswer ==
  ASSUME NEW t \in Ticket, chan'[t] = chan[t], owner'[t] = owner[t], result'[t] = result[t]
  PROVE  Answer(t)' = Answer(t) /\ Partner(t)' = Partner(t)
BY DEF Answer, Partner

\* Whatever the callers do, a candidate of theirs that leaves the queue takes
\* its entry in byID along; one that enters it does so under a free entry.
LEMMA MapsCompleteStep ==
  ASSUME OneAtATime, QueueInv, MapsComplete, [Next]_vars
  PROVE  MapsComplete'
<1> USE DEF QueueInv
<1>1. ASSUME NEW s \in Session, SearchAllowed(s), Enqueue(s) PROVE MapsComplete'
  <2> DEFINE n == issued + 1
  <2>1. /\ queue' = queue \cup {n}
        /\ owner' = [owner EXCEPT ![n] = s]
        /\ byID' = [byID EXCEPT ![s] = n]
        /\ byID[s] = 0
    BY <1>1 DEF Enqueue, SearchAllowed
  <2>2. n \in Ticket /\ 0 \notin Ticket /\ issued \in Nat
    BY <1>1, MatchQueueAssumption DEF Enqueue, TypeOK, Ticket
  <2>3. owner'[n] = s /\ byID'[s] = n
    BY <2>1, <2>2 DEF TypeOK
  <2>4. ASSUME NEW t \in queue PROVE byID'[owner'[t]] = t
    <3>1. t \in Ticket /\ owner[t] \in Session /\ byID[owner[t]] = t
      BY DEF MapsComplete, DrawnInOrder, TypeOK
    <3>2. t # n /\ owner[t] # s
      BY <2>1, <2>2, <3>1 DEF DrawnInOrder, Ticket
    <3> QED
      BY <2>1, <3>1, <3>2 DEF TypeOK
  <2> QED
    BY <2>1, <2>3, <2>4 DEF MapsComplete
<1>2. ASSUME NEW s \in Session, queue' \subseteq queue, \A t \in queue' : owner[t] # s, Forget(s),
             owner' = owner
      PROVE  MapsComplete'
  BY <1>2 DEF MapsComplete, Forget, TypeOK, DrawnInOrder
<1>3. ASSUME NEW s \in Session, Remove(s) PROVE MapsComplete'
  <2>1. CASE byID[s] = 0
    BY <1>3, <2>1 DEF Remove, MapsComplete
  <2>2. CASE byID[s] # 0
    <3>1. /\ queue' = {t \in queue : owner[t] # s \/ \E u \in TicketsOf(s) : u < t}
          /\ Forget(s) /\ owner' = owner
      BY <1>3, <2>2 DEF Remove
    <3>2. \A t \in queue' : owner[t] # s
      <4> SUFFICES ASSUME NEW t \in queue', owner[t] = s PROVE FALSE
        OBVIOUS
      <4>1. PICK u \in queue : owner[u] = s /\ u < t
        BY <3>1 DEF TicketsOf
      <4>2. u = t /\ t \in Nat
        BY <3>1, <4>1 DEF MapsComplete, TypeOK, Ticket
      <4> QED
        BY <4>1, <4>2
    <3> QED
      BY <1>2, <3>1, <3>2
  <2> QED
    BY <2>1, <2>2
<1>4. ASSUME NEW t \in queue, DropDead(t) PROVE MapsComplete'
  <2>1. \A u \in queue' : owner[u] # owner[t]
    BY <1>4 DEF DropDead, MapsComplete
  <2> QED
    BY <1>2, <1>4, <2>1 DEF DropDead, DrawnInOrder
<1>5. ASSUME NEW s \in Session, NEW u \in Session, Pair(s, u) PROVE MapsComplete'
  <2>1. /\ queue' = queue \ (TicketsOf(s) \cup TicketsOf(u))
        /\ byID' = [byID EXCEPT ![s] = 0, ![u] = 0]
        /\ owner' = owner
    BY <1>5 DEF Pair, PairUp, PairAs
  <2>2. \A t \in queue' : t \in queue /\ owner[t] \notin {s, u}
    BY <2>1 DEF TicketsOf
  <2> QED
    BY <2>1, <2>2 DEF MapsComplete, DrawnInOrder, TypeOK
<1>6. CASE UNCHANGED <<queue, owner, byID>>
  BY <1>6 DEF MapsComplete
<1> QED
  BY <1>1, <1>3, <1>4, <1>5, <1>6 DEF Next, vars, Join, Leave

\* Enqueue is Call.
LEMMA EnqueueIsCall ==
  ASSUME QueueInv, NEW s \in Session, Enqueue(s)
  PROVE  Contract!Next
<1> USE DEF QueueInv
<1>0. PICK n \in Ticket : n = issued + 1
  BY MatchQueueAssumption DEF Enqueue, TypeOK, Ticket
<1>1. /\ owner' = [owner EXCEPT ![n] = s]
      /\ chan' = [chan EXCEPT ![n] = "open"]
      /\ result' = result
  BY <1>0 DEF Enqueue
<1>2. chan[n] = "none" /\ chan'[n] = "open"
  BY <1>0, <1>1 DEF TypeOK, Ticket, DrawnInOrder
<1>3. Answer(n) = "none" /\ Partner(n) = Nil
  BY <1>2 DEF Answer, Partner
<1>4. Answer(n)' = "waiting" /\ Partner(n)' = Nil
  BY <1>2 DEF Answer, Partner
<1>5. \A t \in Ticket : t # n => Answer(t)' = Answer(t) /\ Partner(t)' = Partner(t)
  <2>1. ASSUME NEW t \in Ticket, t # n
        PROVE  chan'[t] = chan[t] /\ owner'[t] = owner[t] /\ result'[t] = result[t]
    BY <1>1, <2>1 DEF TypeOK
  <2> QED
    BY <2>1, SameAnswer
<1>6. Contract!Call(n, s)
  BY <1>1, <1>3, <1>4, <1>5 DEF Contract!Call
<1> QED
  BY <1>6 DEF Contract!Next

\* Taking a session out is Cancel, if a channel is pending for it.
LEMMA ForgetIsCancel ==
  ASSUME QueueInv, NEW s \in Session, CloseChannel(s), UNCHANGED <<owner, result>>
  PROVE  [Contract!Next]_(Contract!vars)
<1> USE DEF QueueInv
<1>1. chan' = [t \in Ticket |-> IF t = pending[s] THEN "closed" ELSE chan[t]]
  BY DEF CloseChannel
<1>2. chan \in [Ticket -> {"none", "open", "sent", "closed"}] /\ pending[s] \in Ticket \cup {0}
  BY DEF TypeOK
<1>3. CASE pending[s] = 0
  <2>1. chan' = chan
    BY <1>1, <1>2, <1>3 DEF Ticket
  <2> QED
    BY <2>1, SameContract
<1>4. CASE pending[s] # 0
  <2>1. PICK p \in Ticket : p = pending[s] /\ chan[p] = "open"
    BY <1>2, <1>4 DEF PendingOpen
  <2>2. chan'[p] = "closed"
    BY <1>1, <2>1
  <2>3. Answer(p) = "waiting" /\ Partner(p) = Nil
    BY <2>1 DEF Answer, Partner
  <2>4. Answer(p)' = "cancelled" /\ Partner(p)' = Nil
    BY <2>2 DEF Answer, Partner
  <2>5. \A t \in Ticket : t # p => Answer(t)' = Answer(t) /\ Partner(t)' = Partner(t)
    <3>1. \A t \in Ticket : t # p => chan'[t] = chan[t]
      BY <1>1, <2>1
    <3> QED
      BY <3>1, SameAnswer
  <2>6. Contract!Cancel(p)
    BY <2>3, <2>4, <2>5 DEF Contract!Cancel
  <2> QED
    BY <2>6 DEF Contract!Next
<1> QED
  BY <1>3, <1>4

\* The two channels that pairing answers are there: it is Match.
LEMMA PairIsMatch ==
  ASSUME QueueInv, MapsComplete, NEW s \in Session, NEW u \in Session, Pair(s, u)
  PROVE  Contract!Next
<1> USE DEF QueueInv
<1>1. ASSUME NEW v \in Session, TicketsOf(v) # {}
      PROVE  pending[v] \in Ticket /\ chan[pending[v]] = "open" /\ owner[pending[v]] = v
  <2>1. PICK t \in queue : owner[t] = v
    BY <1>1 DEF TicketsOf
  <2>2. byID[v] = t /\ t \in Ticket /\ t # 0
    BY <2>1, MatchQueueAssumption DEF MapsComplete, TypeOK, Ticket
  <2> QED
    BY <2>2 DEF IndexedIsQueued, PendingOpen
<1>2. /\ s # u /\ TicketsOf(s) # {} /\ TicketsOf(u) # {}
      /\ chan' = [t \in Ticket |-> IF t \in PendingOf(s, u) THEN "sent" ELSE chan[t]]
      /\ result' = [t \in Ticket |-> IF t \in PendingOf(s, u)
                                    THEN [id |-> paired + 1, members |-> {s, u}] ELSE result[t]]
      /\ owner' = owner
  BY DEF Pair, PairUp, PairAs
<1>3. PICK p \in Ticket : p = pending[s] /\ chan[p] = "open" /\ owner[p] = s
  BY <1>1, <1>2
<1>4. PICK q \in Ticket : q = pending[u] /\ chan[q] = "open" /\ owner[q] = u
  BY <1>1, <1>2
<1>5. p # q /\ PendingOf(s, u) = {p, q}
  BY <1>2, <1>3, <1>4 DEF PendingOf, Ticket
<1>6. /\ chan'[p] = "sent" /\ result'[p].members = {s, u} /\ owner'[p] = s
      /\ chan'[q] = "sent" /\ result'[q].members = {s, u} /\ owner'[q] = u
  BY <1>2, <1>3, <1>4, <1>5
<1>7. Answer(p) = "waiting" /\ Answer(q) = "waiting"
  BY <1>3, <1>4 DEF Answer
<1>8. Answer(p)' = "room" /\ Answer(q)' = "room"
  BY <1>6 DEF Answer
<1>9. Partner(p)' = u /\ Partner(q)' = s
  <2>1. (CHOOSE x \in {s, u} : x # s) = u /\ (CHOOSE x \in {s, u} : x # u) = s
    BY <1>2
  <2>2. Partner(p)' = CHOOSE x \in {s, u} : x # s
    BY <1>6 DEF Partner
  <2>3. Partner(q)' = CHOOSE x \in {s, u} : x # u
    BY <1>6 DEF Partner
  <2> QED
    BY <2>1, <2>2, <2>3
<1>10. \A t \in Ticket : t # p /\ t # q => Answer(t)' = Answer(t) /\ Partner(t)' = Partner(t)
  <2>1. \A t \in Ticket : t # p /\ t # q => chan'[t] = chan[t] /\ result'[t] = result[t]
    BY <1>2, <1>5
  <2> QED
    BY <1>2, <2>1, SameAnswer
<1>11. Contract!Match(p, q)
  BY <1>2, <1>3, <1>4, <1>5, <1>7, <1>8, <1>9, <1>10 DEF Contract!Match
<1> QED
  BY <1>11 DEF Contract!Next

LEMMA ContractStep ==
  ASSUME QueueInv, MapsComplete, [Next]_vars
  PROVE  [Contract!Next]_(Contract!vars)
<1>1. ASSUME NEW s \in Session, Enqueue(s) PROVE [Contract!Next]_(Contract!vars)
  BY <1>1, EnqueueIsCall
<1>2. ASSUME NEW s \in Session, Remove(s) PROVE [Contract!Next]_(Contract!vars)
  <2>1. CASE byID[s] = 0
    BY <1>2, <2>1, SameContract DEF Remove
  <2>2. CASE byID[s] # 0
    BY <1>2, <2>2, ForgetIsCancel DEF Remove
  <2> QED
    BY <2>1, <2>2
<1>3. ASSUME NEW t \in queue, DropDead(t) PROVE [Contract!Next]_(Contract!vars)
  BY <1>3, ForgetIsCancel DEF DropDead, QueueInv, DrawnInOrder
<1>4. ASSUME NEW s \in Session, NEW u \in Session, Pair(s, u)
      PROVE  [Contract!Next]_(Contract!vars)
  BY <1>4, PairIsMatch
<1>5. CASE UNCHANGED <<owner, chan, result>>
  BY <1>5, SameContract
<1> QED
  BY <1>1, <1>2, <1>3, <1>4, <1>5 DEF Next, vars, Join, Leave

\* Callers that keep to one search at a time get what match.Matcher promises:
\* every channel is answered with one room, shared with one other session, or
\* closed.
THEOREM ContractKept == OneAtATime /\ Spec => ContractSpec
<1> SUFFICES ASSUME OneAtATime PROVE Spec => ContractSpec
  OBVIOUS
<1>1. Init => MapsComplete /\ Contract!Init
  BY DEF Init, MapsComplete, Contract!Init, Answer, Partner
<1>2. QueueInv /\ MapsComplete /\ [Next]_vars => MapsComplete'
  BY MapsCompleteStep
<1>3. QueueInv /\ MapsComplete /\ [Next]_vars => [Contract!Next]_(Contract!vars)
  BY ContractStep
<1> QED
  BY <1>1, <1>2, <1>3, QAlwaysInv, PTL DEF Spec, ContractSpec, Contract!Spec
=============================================================================
