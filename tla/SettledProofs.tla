--------------------------- MODULE SettledProofs ---------------------------
(****************************************************************************)
(* What holds of Dispatch outside the windows in which its code is known to *)
(* go wrong: the theorems assume that nobody leaves while a match of his is *)
(* under way, and that stop and next come only from a chat.  Everything     *)
(* else is as in DispatchProofs, shutdown and disconnects included.         *)
(****************************************************************************)
EXTENDS DispatchProofs

Settled == {"settled", "stop-in-chat"} \subseteq Assume

\* A room is between the matcher and the end of the goroutine it was sent to.
OnTheWay(t) == chan[t] = "sent" /\ await[t] # "done"

\* Whom byID knows is searching, or about to run the cancel function.
Tracked(s) ==
  byID[s] # 0 =>
    \/ state[s] = "searching" /\ cancelSearch[s] /\ pc[s] \in {"read", "announce", "drop"}
    \/ state[s] = "idle" /\ pc[s] \in {"cancel", "drop-cancel"}

\* Whom a room is on the way to does not search once more, and does not leave.
Held(s) ==
  InFlight(s) => byID[s] = 0 /\ state[s] # "idle" /\ pc[s] \in {"read", "announce", "relay"}

InPlace(s) ==
  /\ Tracked(s)
  /\ Held(s)
  /\ pc[s] \notin Absent => s \in alive
  /\ pc[s] \in {"drop-cancel", "drop-end", "gone"} => state[s] = "idle"

\* A goroutine that was sent a room finds its session searching, and makes it
\* chatting; none has a room to tear down.
AwaitsAgree ==
  /\ \A t \in Ticket : OnTheWay(t) =>
       \/ await[t] \in {"none", "wait"} /\ state[owner[t]] = "searching"
       \/ await[t] \in {"register", "tell"} /\ state[owner[t]] = "chatting"
  /\ \A t \in Ticket : chan[t] = "open" => await[t] \in {"none", "wait"}

\* No session has two rooms on the way.
OneFlight ==
  \A t, u \in Ticket :
    OnTheWay(t) /\ OnTheWay(u) /\ result[t].members \cap result[u].members # {} =>
      result[t] = result[u]

NewHasNone == \A t \in Ticket : owner[t] # Nil => pc[owner[t]] # "new"

FlightInv ==
  /\ DispatchInv
  /\ MapsComplete
  /\ \A s \in Session : InPlace(s)
  /\ AwaitsAgree
  /\ OneFlight
  /\ NewHasNone
----------------------------------------------------------------------------
\* The steps of readers, closing goroutines and main that leave the matcher and
\* the searches alone, with the guards that settled and stop-in-chat put on them.
Moves(s, place) ==
  \/ place = "read" /\ (pc[s] \in {"read", "relay"} \/ (pc[s] = "search" /\ state[s] = "idle"))
  \/ place = "relay" /\ pc[s] = "read" /\ state[s] = "chatting"
  \/ place = "report" /\ pc[s] = "read" /\ state[s] = "chatting" /\ ~InFlight(s)
  \/ place = "reported" /\ pc[s] = "report"
  \/ place = "to-read" /\ pc[s] = "reported"
  \/ place \in {"to-read", "to-search"} /\ pc[s] = "read" /\ state[s] # "searching" /\ ~InFlight(s)
  \/ place = "gone" /\ pc[s] = "drop-end"

MoveStep(s) ==
  /\ UNCHANGED <<matchVars, state, cancelSearch, await>>
  /\ \E place : Moves(s, place) /\ pc' = [pc EXCEPT ![s] = place]

StayStep == UNCHANGED <<matchVars, state, cancelSearch, await, pc>>

LEMMA ReaderMoves ==
  ASSUME Settled, NEW s \in Session, ClientStep(s) \/ ReaderStep(s)
  PROVE  SearchStep(s) \/ MoveStep(s)
<1> USE DEF matchVars, roomVars, rest, GoTo
<1>1. ASSUME Refuse(s), pc[s] = "read" \/ (pc[s] = "search" /\ state[s] = "idle")
      PROVE  MoveStep(s)
  BY <1>1 DEF Refuse, MoveStep, Moves
<1>2. CASE ClientStep(s)
  <2>1. CASE SearchBadTags(s) \/ Refused(s)
    BY <1>1, <2>1 DEF SearchBadTags, Refused, Searches, Reads, Receives
  <2>2. CASE Message(s) \/ Report(s)
    BY <2>2 DEF Settled, Message, Report, RoomOp, MayLeave, Receives, Reads, MoveStep, Moves
  <2>3. CASE Stop(s) \/ NextPartner(s)
    BY <2>3 DEF Settled, Stop, NextPartner, EndChat, MayStop, MayLeave, Receives, Reads,
                MoveStep, Moves
  <2> QED
    BY <1>2, <2>1, <2>2, <2>3 DEF ClientStep, SearchStep, Search
<1>3. CASE ReaderStep(s)
  BY <1>3 DEF ReaderStep, SearchStep, Relay, ReportPartner, ReportEnd, DropRoom, EndChat,
              MoveStep, Moves
<1> QED
  BY <1>2, <1>3

LEMMA SettledKinds ==
  ASSUME Settled, [DNext]_dvars
  PROVE  \/ \E s \in Session : SearchStep(s) \/ MoveStep(s)
         \/ \E t \in Ticket : AwaitMatchStep(t)
         \/ MatcherStep
         \/ StayStep
<1> USE DEF matchVars, roomVars, connVars, rest
<1>1. ASSUME NEW c, CloseRoom(c) PROVE StayStep
  BY <1>1 DEF CloseRoom, StayStep
<1>2. ASSUME ShutDown \/ CloseNextRoom \/ CloseAllConnections \/ UNCHANGED dvars PROVE StayStep
  BY <1>2 DEF ShutDown, CloseNextRoom, CloseAllConnections, dvars, StayStep
<1> QED
  BY <1>1, <1>2, ReaderMoves DEF DNext

\* Who has been sent a room is a member of it.
LEMMA OwnerIsHeld ==
  ASSUME QueueInv, NEW t \in Ticket, OnTheWay(t)
  PROVE  /\ owner[t] \in Session /\ owner[t] \in result[t].members
         /\ InFlight(owner[t]) /\ \A x \in result[t].members : x \in Session /\ InFlight(x)
<1>1. owner[t] \in Session /\ chan[t] = "sent" /\ await[t] # "done"
  BY DEF QueueInv, DrawnInOrder, OnTheWay
<1>2. PICK p \in Session : result[t].members = {owner[t], p}
  BY <1>1 DEF QueueInv, NoSelfMatch
<1> QED
  BY <1>1, <1>2 DEF InFlight

\* Most steps leave what is on the way where it is.
SameFlights ==
  \A t \in Ticket :
    /\ chan'[t] = "sent" <=> chan[t] = "sent"
    /\ chan[t] = "sent" => result'[t] = result[t] /\ owner'[t] = owner[t]
    /\ await'[t] = "done" <=> await[t] = "done"

LEMMA FlightsSame ==
  ASSUME SameFlights
  PROVE  /\ \A t \in Ticket : OnTheWay(t)' <=> OnTheWay(t)
         /\ \A x : InFlight(x)' <=> InFlight(x)
         /\ OneFlight => OneFlight'
<1>1. \A t \in Ticket : OnTheWay(t)' <=> OnTheWay(t)
  BY DEF SameFlights, OnTheWay
<1>2. \A x : InFlight(x)' <=> InFlight(x)
  BY DEF SameFlights, InFlight
<1>3. OneFlight => OneFlight'
  BY DEF OneFlight, SameFlights, OnTheWay
<1> QED
  BY <1>1, <1>2, <1>3

LEMMA ReaderKeepsFlights ==
  ASSUME FlightInv, NEW s \in Session, SearchStep(s) \/ MoveStep(s)
  PROVE  SameFlights
<1> USE DEF FlightInv, DispatchInv, QueueInv, matchVars
<1>1. CASE MoveStep(s) \/ Connect(s) \/ SearchBanned(s) \/ Cancel(s) \/ BackToIdle(s)
           \/ Disconnect(s) \/ DropSearch(s)
  <2>1. UNCHANGED <<chan, result, owner, await>>
    BY <1>1 DEF MoveStep, Connect, Join, SearchBanned, Cancel, BackToIdle, Disconnect, Leave,
                DropSearch
  <2> QED
    BY <2>1 DEF SameFlights
<1>2. CASE SearchEnqueue(s)
  <2>1. PICK n \in Ticket : n = issued + 1
    BY <1>2, MatchQueueAssumption DEF SearchEnqueue, Enqueue, TypeOK, Ticket
  <2>2. chan[n] # "sent"
    BY <2>1, MatchQueueAssumption DEF TypeOK, DrawnInOrder
  <2>3. /\ chan' = [chan EXCEPT ![n] = "open"] /\ owner' = [owner EXCEPT ![n] = s]
        /\ UNCHANGED <<result, await>>
    BY <1>2, <2>1 DEF SearchEnqueue, Enqueue
  <2> QED
    BY <2>2, <2>3 DEF SameFlights, TypeOK
<1>3. CASE Announce(s)
  BY <1>3 DEF Announce, Unannounced, SameFlights, ConnTypes
<1>4. CASE CancelRemove(s)
  <2>1. /\ UNCHANGED <<result, owner, await>>
        /\ chan' = chan \/ (byID[s] # 0 /\ CloseChannel(s))
    BY <1>4 DEF CancelRemove, Remove
  <2>2. chan' = chan \/ \A t \in Ticket : chan'[t] = chan[t] \/ (chan[t] = "open" /\ chan'[t] = "closed")
    BY <2>1 DEF CloseChannel, PendingOpen, IndexedIsQueued
  <2> QED
    BY <2>1, <2>2 DEF SameFlights
<1> QED
  BY <1>1, <1>2, <1>3, <1>4 DEF SearchStep

\* A reader changes nothing of another session.
LEMMA ReaderAlone ==
  ASSUME FlightInv, NEW s \in Session, SearchStep(s) \/ MoveStep(s),
         NEW x \in Session, x # s
  PROVE  /\ byID'[x] = byID[x] /\ cancelSearch'[x] = cancelSearch[x]
         /\ state'[x] = state[x] /\ pc'[x] = pc[x] /\ (x \in alive <=> x \in alive')
<1> USE DEF FlightInv, DispatchInv, QueueInv, TypeOK, ConnTypes, matchVars, GoTo
<1>1. CASE MoveStep(s)
  BY <1>1 DEF MoveStep
<1>2. CASE SearchStep(s)
  BY <1>2 DEF SearchStep, Connect, Join, SearchBanned, SearchEnqueue, Enqueue, Announce, Cancel,
              CancelRemove, Remove, Forget, BackToIdle, Disconnect, Leave, DropSearch
<1> QED
  BY <1>1, <1>2

\* A session that is in flight keeps its state, and one that is not is in place
\* after its reader's step as well.
LEMMA ReaderInPlace ==
  ASSUME Settled, FlightInv, NEW s \in Session, SearchStep(s) \/ MoveStep(s)
  PROVE  InPlace(s)' /\ (InFlight(s) => state'[s] = state[s])
<1> USE DEF FlightInv, DispatchInv, QueueInv, TypeOK, ConnTypes, matchVars, GoTo
<1>1. InPlace(s)
  OBVIOUS
<1>2. InFlight(s)' <=> InFlight(s)
  BY ReaderKeepsFlights, FlightsSame
<1>3. SUFFICES /\ byID'[s] # 0 =>
                    \/ state'[s] = "searching" /\ cancelSearch'[s] /\ pc'[s] \in {"read", "announce", "drop"}
                    \/ state'[s] = "idle" /\ pc'[s] \in {"cancel", "drop-cancel"}
               /\ InFlight(s) => /\ byID'[s] = 0 /\ state'[s] # "idle" /\ state'[s] = state[s]
                                /\ pc'[s] \in {"read", "announce", "relay"}
               /\ pc'[s] \notin Absent => s \in alive'
               /\ pc'[s] \in {"drop-cancel", "drop-end", "gone"} => state'[s] = "idle"
  BY <1>2 DEF InPlace, Tracked, Held, Absent
<1> USE DEF InPlace, Tracked, Held, Absent
<1>4. CASE MoveStep(s)
  <2>1. PICK place : Moves(s, place) /\ pc' = [pc EXCEPT ![s] = place]
    BY <1>4 DEF MoveStep
  <2>2. UNCHANGED <<byID, state, cancelSearch, alive>> /\ pc'[s] = place
    BY <1>4, <2>1 DEF MoveStep
  <2> QED
    BY <1>1, <2>1, <2>2 DEF Moves
<1>5. CASE Connect(s)
  BY <1>1, <1>5 DEF Connect, Join
<1>6. CASE SearchBanned(s) \/ Announce(s) \/ BackToIdle(s) \/ DropSearch(s)
  BY <1>1, <1>6 DEF SearchBanned, Announce, BackToIdle, DropSearch, Searches, Reads
<1>7. CASE SearchEnqueue(s)
  BY <1>1, <1>7 DEF SearchEnqueue, Enqueue, Searches, Reads
<1>8. CASE Cancel(s) \/ Disconnect(s)
  BY <1>1, <1>8 DEF Settled, Cancel, Disconnect, Leave, MayLeave, Receives, Reads
<1>9. CASE CancelRemove(s)
  BY <1>1, <1>9 DEF CancelRemove, Remove, Forget
<1> QED
  BY <1>4, <1>5, <1>6, <1>7, <1>8, <1>9 DEF SearchStep

LEMMA ReaderAwaits ==
  ASSUME Settled, FlightInv, NEW s \in Session, SearchStep(s) \/ MoveStep(s)
  PROVE  AwaitsAgree' /\ NewHasNone'
<1> USE DEF FlightInv, DispatchInv, QueueInv
<1>1. SameFlights
  BY ReaderKeepsFlights
<1>2. \A t \in Ticket : await'[t] = await[t] \/ (await[t] = "none" /\ await'[t] = "wait")
  BY DEF SearchStep, MoveStep, Connect, SearchBanned, SearchEnqueue, Announce, Cancel, CancelRemove,
         Unannounced, BackToIdle, Disconnect, DropSearch, ConnTypes
<1>3. \A t \in Ticket : OnTheWay(t) =>
         /\ owner[t] \in Session /\ owner'[t] = owner[t] /\ state'[owner[t]] = state[owner[t]]
  BY <1>1, OwnerIsHeld, ReaderAlone, ReaderInPlace DEF SameFlights, OnTheWay
<1>4. \A t \in Ticket : OnTheWay(t)' <=> OnTheWay(t)
  BY <1>1, FlightsSame
<1>5. ASSUME NEW t \in Ticket, OnTheWay(t)'
      PROVE  \/ await'[t] \in {"none", "wait"} /\ state'[owner'[t]] = "searching"
             \/ await'[t] \in {"register", "tell"} /\ state'[owner'[t]] = "chatting"
  <2>1. OnTheWay(t) /\ owner'[t] = owner[t] /\ state'[owner[t]] = state[owner[t]]
    BY <1>3, <1>4, <1>5
  <2> QED
    BY <1>2, <2>1 DEF AwaitsAgree
<1>6. ASSUME NEW t \in Ticket, chan'[t] = "open" PROVE await'[t] \in {"none", "wait"}
  <2>1. chan[t] = "open" \/ (SearchEnqueue(s) /\ t = issued + 1)
    BY <1>6 DEF SearchStep, MoveStep, Connect, Join, SearchBanned, SearchEnqueue, Enqueue, Announce,
                Cancel, CancelRemove, Remove, CloseChannel, BackToIdle, Disconnect, Leave, DropSearch,
                matchVars, TypeOK
  <2>2. t = issued + 1 => await[t] = "none"
    BY MatchQueueAssumption DEF AwaitsInOrder, TypeOK
  <2> QED
    BY <1>2, <2>1, <2>2 DEF AwaitsAgree
<1>7. NewHasNone'
  <2> SUFFICES ASSUME NEW t \in Ticket, owner'[t] # Nil PROVE pc'[owner'[t]] # "new"
    BY DEF NewHasNone
  <2>1. owner'[t] = owner[t] \/ (SearchEnqueue(s) /\ owner'[t] = s)
    BY DEF SearchStep, MoveStep, Connect, Join, SearchBanned, SearchEnqueue, Enqueue, Announce,
           Cancel, CancelRemove, Remove, BackToIdle, Disconnect, Leave, DropSearch, matchVars, TypeOK
  <2>2. owner'[t] \in Session /\ (owner[t] # Nil => owner[t] \in Session)
    BY <2>1 DEF TypeOK
  <2>3. pc'[s] # "new"
    BY DEF SearchStep, MoveStep, Moves, Connect, SearchBanned, SearchEnqueue, Announce, Cancel,
           CancelRemove, BackToIdle, Disconnect, DropSearch, GoTo, ConnTypes
  <2> QED
    BY <2>1, <2>2, <2>3, ReaderAlone DEF NewHasNone
<1> QED
  BY <1>5, <1>6, <1>7 DEF AwaitsAgree

LEMMA ReaderFlight ==
  ASSUME Settled, FlightInv, NEW s \in Session, SearchStep(s) \/ MoveStep(s)
  PROVE  /\ \A x \in Session : InPlace(x)'
         /\ AwaitsAgree' /\ OneFlight' /\ NewHasNone'
<1>1. ASSUME NEW x \in Session PROVE InPlace(x)'
  <2>1. CASE x = s
    BY <2>1, ReaderInPlace
  <2>2. CASE x # s
    <3>1. InFlight(x)' <=> InFlight(x)
      BY ReaderKeepsFlights, FlightsSame
    <3>2. InPlace(x)
      BY DEF FlightInv
    <3> QED
      BY <2>2, <3>1, <3>2, ReaderAlone DEF InPlace, Tracked, Held
  <2> QED
    BY <2>1, <2>2
<1>2. OneFlight'
  BY ReaderKeepsFlights, FlightsSame DEF FlightInv
<1> QED
  BY <1>1, <1>2, ReaderAwaits

\* The goroutine of a session in flight makes it chatting, registers the room and
\* tells; the place that it leaves is no other's.
LEMMA AwaitFlight ==
  ASSUME FlightInv, NEW t \in Ticket, AwaitMatchStep(t)
  PROVE  /\ \A x \in Session : InPlace(x)'
         /\ AwaitsAgree' /\ OneFlight' /\ NewHasNone'
<1> USE DEF FlightInv, DispatchInv, QueueInv, ConnTypes
<1>1. UNCHANGED <<matchVars, pc>>
  BY DEF AwaitMatchStep, AwaitCancelled, AwaitMatched, AwaitTeardown, AwaitRegister, AwaitTell, AwaitEnd
<1>2. \A u \in Ticket : u # t => await'[u] = await[u]
  BY DEF AwaitMatchStep, AwaitCancelled, AwaitMatched, AwaitTeardown, AwaitRegister, AwaitTell,
         AwaitEnd, AwaitStep
<1>3. await[t] # "done"
  BY DEF AwaitMatchStep, AwaitCancelled, AwaitMatched, AwaitTeardown, AwaitRegister, AwaitTell,
         AwaitEnd, AwaitStep
<1>4. \A u \in Ticket : OnTheWay(u)' => OnTheWay(u)
  BY <1>1, <1>2, <1>3 DEF OnTheWay, matchVars
<1>5. \A x \in Session : InFlight(x)' => InFlight(x)
  BY <1>1, <1>2, <1>3 DEF InFlight, matchVars
<1>6. OneFlight'
  BY <1>1, <1>2, <1>3 DEF OneFlight, OnTheWay, matchVars
<1>7. NewHasNone'
  BY <1>1 DEF NewHasNone, matchVars
<1>8. CASE AwaitMatched(t)
  <2>1. /\ chan[t] = "sent" /\ await[t] = "wait" /\ await'[t] = "register"
        /\ state' = [state EXCEPT ![owner[t]] = "chatting"]
        /\ cancelSearch' = [cancelSearch EXCEPT ![owner[t]] = FALSE]
    BY <1>8 DEF AwaitMatched, AwaitStep
  <2>2. OnTheWay(t) /\ owner[t] \in Session /\ InFlight(owner[t])
    BY <2>1, OwnerIsHeld DEF OnTheWay
  <2>3. /\ byID[owner[t]] = 0 /\ pc[owner[t]] \in {"read", "announce", "relay"}
    BY <2>2 DEF InPlace, Held
  <2>4. \A x \in Session : InPlace(x)'
    <3>1. ASSUME NEW x \in Session PROVE InPlace(x)'
      <4>1. InPlace(x) /\ (InFlight(x)' => InFlight(x)) /\ UNCHANGED <<byID, alive, pc>>
        BY <1>1, <1>5 DEF matchVars
      <4>2. CASE x = owner[t]
        BY <2>1, <2>3, <4>1, <4>2 DEF InPlace, Tracked, Held, Absent
      <4>3. CASE x # owner[t]
        BY <2>1, <4>1, <4>3 DEF InPlace, Tracked, Held, Absent
      <4> QED
        BY <4>2, <4>3
    <3> QED
      BY <3>1
  <2>5. ASSUME NEW u \in Ticket, u # t, OnTheWay(u) PROVE owner[u] # owner[t] /\ owner[u] \in Session
    <3>1. owner[u] \in result[u].members /\ owner[t] \in result[t].members /\ owner[u] \in Session
      BY <2>2, <2>5, OwnerIsHeld
    <3>2. owner[u] = owner[t] => result[t] = result[u]
      BY <2>2, <2>5, <3>1 DEF OneFlight
    <3> QED
      BY <2>1, <2>5, <3>1, <3>2 DEF RoomSentToItsPair, OnTheWay
  <2>6. AwaitsAgree'
    <3>1. ASSUME NEW u \in Ticket, OnTheWay(u)'
          PROVE  \/ await'[u] \in {"none", "wait"} /\ state'[owner[u]] = "searching"
                 \/ await'[u] \in {"register", "tell"} /\ state'[owner[u]] = "chatting"
      <4>1. CASE u = t
        BY <2>1, <2>2, <4>1
      <4>2. CASE u # t
        BY <1>2, <1>4, <2>1, <2>5, <3>1, <4>2 DEF AwaitsAgree
      <4> QED
        BY <4>1, <4>2
    <3> QED
      BY <1>1, <1>2, <2>1, <3>1 DEF AwaitsAgree, matchVars
  <2> QED
    BY <1>6, <1>7, <2>4, <2>6
<1>9. CASE ~AwaitMatched(t)
  <2>1. UNCHANGED <<state, cancelSearch>>
    BY <1>9 DEF AwaitMatchStep, AwaitCancelled, AwaitTeardown, AwaitRegister, AwaitTell, AwaitEnd
  <2>2. \A x \in Session : InPlace(x)'
    BY <1>1, <1>5, <2>1 DEF InPlace, Tracked, Held, matchVars
  <2>3. OnTheWay(t)' => await'[t] \in {"register", "tell"} /\ await[t] = "register"
    <3>1. CASE AwaitTeardown(t)
      <4>1. OnTheWay(t) /\ await[t] = "wait" /\ ~Wanted(t)
        BY <3>1 DEF AwaitTeardown, AwaitStep, OnTheWay
      <4>2. state[owner[t]] = "searching" /\ owner[t] \in Session
        BY <4>1, OwnerIsHeld DEF AwaitsAgree
      <4>3. owner[t] \in alive
        BY <4>1, <4>2, OwnerIsHeld DEF InPlace, Held, Absent
      <4> QED
        BY <4>1, <4>2, <4>3 DEF Wanted
    <3>2. CASE AwaitRegister(t)
      <4>1. await[t] \in {"register", "teardown"}
        BY <3>2 DEF AwaitRegister, AwaitStep
      <4>2. OnTheWay(t)
        BY <4>1 DEF AwaitsInOrder, OnTheWay
      <4> QED
        BY <3>2, <4>1, <4>2 DEF AwaitRegister, AwaitStep, AwaitsAgree
    <3>3. CASE ~AwaitTeardown(t) /\ ~AwaitRegister(t)
      BY <1>9, <3>3 DEF AwaitMatchStep, AwaitCancelled, AwaitTell, AwaitEnd, AwaitStep, OnTheWay
    <3> QED
      BY <3>1, <3>2, <3>3
  <2>4. chan[t] # "open"
    BY <1>9 DEF AwaitMatchStep, AwaitCancelled, AwaitTeardown, AwaitRegister, AwaitTell, AwaitEnd,
                AwaitStep, AwaitsInOrder
  <2>5. ASSUME NEW u \in Ticket, OnTheWay(u)'
        PROVE  \/ await'[u] \in {"none", "wait"} /\ state[owner[u]] = "searching"
               \/ await'[u] \in {"register", "tell"} /\ state[owner[u]] = "chatting"
    BY <1>2, <1>4, <2>3, <2>5 DEF AwaitsAgree
  <2>6. AwaitsAgree'
    BY <1>1, <1>2, <2>1, <2>4, <2>5 DEF AwaitsAgree, matchVars
  <2> QED
    BY <1>6, <1>7, <2>2, <2>6
<1> QED
  BY <1>8, <1>9

\* Who is paired is at rest in his search, and his one channel gets the room.
Departs(s, p) ==
  /\ owner[p] = s /\ chan[p] = "open" /\ await[p] \in {"none", "wait"} /\ byID[s] = p
  /\ state[s] = "searching" /\ pc[s] \in {"read", "announce"} /\ s \in alive /\ ~InFlight(s)

LEMMA PairDeparts ==
  ASSUME Settled, FlightInv, NEW s \in Session, MayPair(s), TicketsOf(s) # {}
  PROVE  pending[s] \in Ticket /\ Departs(s, pending[s])
<1> USE DEF FlightInv, DispatchInv, QueueInv
<1>1. PICK t \in queue : owner[t] = s
  BY DEF TicketsOf
<1>2. byID[s] = t /\ t \in Ticket /\ t # 0
  BY <1>1, MatchQueueAssumption DEF MapsComplete, TypeOK, Ticket
<1>3. pending[s] = t /\ chan[t] = "open"
  BY <1>2 DEF IndexedIsQueued, PendingOpen
<1>4. state[s] = "searching" /\ pc[s] \in {"read", "announce"} /\ ~InFlight(s)
  BY <1>2 DEF InPlace, Tracked, Held, Settled, MayPair, Leaving
<1>5. s \in alive
  BY <1>4 DEF InPlace, Absent
<1> QED
  BY <1>1, <1>2, <1>3, <1>4, <1>5 DEF Departs, AwaitsAgree

\* Two tickets take off together with a new room, and nothing else changes.
TakeOff(s, u, p, q) ==
  /\ s # u /\ p # q /\ Departs(s, p) /\ Departs(u, q)
  /\ chan' = [t \in Ticket |-> IF t \in {p, q} THEN "sent" ELSE chan[t]]
  /\ result' = [t \in Ticket |-> IF t \in {p, q} THEN [id |-> paired + 1, members |-> {s, u}] ELSE result[t]]
  /\ byID' = [byID EXCEPT ![s] = 0, ![u] = 0]
  /\ UNCHANGED <<alive, owner, roomVars, connVars>>

LEMMA MatcherTakesOff ==
  ASSUME Settled, FlightInv, MatcherStep
  PROVE  \/ \E t \in queue : DropDead(t) /\ UNCHANGED <<roomVars, connVars>>
         \/ \E s, u \in Session, p, q \in Ticket : TakeOff(s, u, p, q)
<1>1. ASSUME NEW s \in Session, NEW u \in Session, MayPair(s), MayPair(u), Pair(s, u),
             UNCHANGED <<roomVars, connVars>>
      PROVE  \E p, q \in Ticket : TakeOff(s, u, p, q)
  <2>1. /\ s # u /\ TicketsOf(s) # {} /\ TicketsOf(u) # {}
        /\ chan' = [t \in Ticket |-> IF t \in PendingOf(s, u) THEN "sent" ELSE chan[t]]
        /\ result' = [t \in Ticket |-> IF t \in PendingOf(s, u)
                                      THEN [id |-> paired + 1, members |-> {s, u}] ELSE result[t]]
        /\ byID' = [byID EXCEPT ![s] = 0, ![u] = 0]
        /\ UNCHANGED <<alive, owner>>
    BY <1>1 DEF Pair, PairUp, PairAs
  <2>2. PICK p \in Ticket : p = pending[s] /\ Departs(s, p)
    BY <1>1, <2>1, PairDeparts
  <2>3. PICK q \in Ticket : q = pending[u] /\ Departs(u, q)
    BY <1>1, <2>1, PairDeparts
  <2>4. p # q /\ PendingOf(s, u) = {p, q}
    BY <2>1, <2>2, <2>3, MatchQueueAssumption DEF Departs, PendingOf, Ticket
  <2> QED
    BY <1>1, <2>1, <2>2, <2>3, <2>4 DEF TakeOff
<1> QED
  BY <1>1 DEF MatcherStep

LEMMA TakeOffFlights ==
  ASSUME FlightInv, NEW s \in Session, NEW u \in Session, NEW p \in Ticket, NEW q \in Ticket,
         TakeOff(s, u, p, q)
  PROVE  /\ \A t \in Ticket : t \notin {p, q} => (OnTheWay(t)' <=> OnTheWay(t)) /\ result'[t] = result[t]
         /\ \A t \in {p, q} : ~OnTheWay(t) /\ OnTheWay(t)' /\ result'[t] = [id |-> paired + 1, members |-> {s, u}]
         /\ \A x \in Session : x \notin {s, u} => (InFlight(x)' <=> InFlight(x))
         /\ \A x \in Session : InFlight(x)' <=> InFlight(x) \/ x \in {s, u}
<1> USE DEF TakeOff, Departs, connVars
<1>1. \A t \in Ticket : t \notin {p, q} =>
        (OnTheWay(t)' <=> OnTheWay(t)) /\ result'[t] = result[t] /\ chan'[t] = chan[t] /\ await'[t] = await[t]
  BY DEF OnTheWay
<1>2. \A t \in {p, q} : ~OnTheWay(t) /\ OnTheWay(t)' /\ result'[t] = [id |-> paired + 1, members |-> {s, u}]
                        /\ chan[t] # "sent" /\ chan'[t] = "sent" /\ await'[t] # "done"
  BY DEF OnTheWay
<1>3. ASSUME NEW x \in Session PROVE InFlight(x)' <=> InFlight(x) \/ x \in {s, u}
  BY <1>1, <1>2 DEF InFlight
<1> QED
  BY <1>1, <1>2, <1>3

LEMMA TakeOffInv ==
  ASSUME FlightInv, NEW s \in Session, NEW u \in Session, NEW p \in Ticket, NEW q \in Ticket,
         TakeOff(s, u, p, q)
  PROVE  /\ \A x \in Session : InPlace(x)'
         /\ AwaitsAgree' /\ OneFlight' /\ NewHasNone'
<1>0. /\ \A t \in Ticket : t \notin {p, q} => (OnTheWay(t)' <=> OnTheWay(t)) /\ result'[t] = result[t]
      /\ \A t \in {p, q} : result'[t] = [id |-> paired + 1, members |-> {s, u}]
      /\ \A x \in Session : x \notin {s, u} => (InFlight(x)' <=> InFlight(x))
  BY TakeOffFlights
<1> USE DEF FlightInv, DispatchInv, QueueInv, ConnTypes, TypeOK
<1>1. /\ Departs(s, p) /\ Departs(u, q) /\ s # u
      /\ UNCHANGED <<alive, owner, state, cancelSearch, pc, await>>
      /\ byID'[s] = 0 /\ byID'[u] = 0
      /\ \A x \in Session : x \notin {s, u} => byID'[x] = byID[x]
      /\ \A t \in Ticket : chan'[t] = "open" => chan[t] = "open"
  BY DEF TakeOff, connVars
<1>2. ASSUME NEW x \in Session PROVE InPlace(x)'
  <2>1. InPlace(x) /\ (x \notin {s, u} => (InFlight(x)' <=> InFlight(x)))
    BY <1>0
  <2>2. CASE x \in {s, u}
    BY <1>1, <2>1, <2>2 DEF InPlace, Tracked, Held, Departs
  <2>3. CASE x \notin {s, u}
    BY <1>1, <2>1, <2>3 DEF InPlace, Tracked, Held
  <2> QED
    BY <2>2, <2>3
<1>3. ASSUME NEW t \in Ticket, OnTheWay(t)'
      PROVE  \/ await[t] \in {"none", "wait"} /\ state[owner[t]] = "searching"
             \/ await[t] \in {"register", "tell"} /\ state[owner[t]] = "chatting"
  <2>1. CASE t \in {p, q}
    BY <1>1, <2>1 DEF Departs
  <2>2. CASE t \notin {p, q}
    BY <1>3, <2>2, <1>0 DEF AwaitsAgree
  <2> QED
    BY <2>1, <2>2
<1>4. AwaitsAgree' /\ NewHasNone'
  BY <1>1, <1>3 DEF AwaitsAgree, NewHasNone
<1>5. ASSUME NEW v \in Ticket, NEW w \in Ticket, OnTheWay(v)', OnTheWay(w)',
             result'[v].members \cap result'[w].members # {}
      PROVE  result'[v] = result'[w]
  <2>1. \A t \in Ticket : t \notin {p, q} /\ OnTheWay(t)' =>
          OnTheWay(t) /\ result'[t] = result[t] /\ s \notin result[t].members /\ u \notin result[t].members
    <3>1. ~InFlight(s) /\ ~InFlight(u)
      BY <1>1 DEF Departs
    <3>2. \A t \in Ticket : OnTheWay(t) => s \notin result[t].members /\ u \notin result[t].members
      BY <3>1 DEF InFlight, OnTheWay
    <3>3. \A t \in Ticket : t \notin {p, q} => (OnTheWay(t)' <=> OnTheWay(t)) /\ result'[t] = result[t]
      BY <1>0
    <3> QED
      BY <3>2, <3>3
  <2>2. \A t \in {p, q} : result'[t] = [id |-> paired + 1, members |-> {s, u}]
    BY <1>0
  <2>3. CASE v \in {p, q} /\ w \in {p, q}
    BY <2>2, <2>3
  <2>4. CASE v \in {p, q} /\ w \notin {p, q}
    BY <1>5, <2>1, <2>2, <2>4
  <2>5. CASE v \notin {p, q} /\ w \in {p, q}
    BY <1>5, <2>1, <2>2, <2>5
  <2>6. CASE v \notin {p, q} /\ w \notin {p, q}
    BY <1>5, <2>1, <2>6 DEF OneFlight
  <2> QED
    BY <2>3, <2>4, <2>5, <2>6
<1>6. OneFlight'
  BY <1>5 DEF OneFlight
<1> QED
  BY <1>2, <1>4, <1>6

LEMMA MatcherFlight ==
  ASSUME Settled, FlightInv, MatcherStep
  PROVE  /\ \A x \in Session : InPlace(x)'
         /\ AwaitsAgree' /\ OneFlight' /\ NewHasNone'
<1> USE DEF FlightInv, DispatchInv, QueueInv, ConnTypes, TypeOK
<1>1. ASSUME NEW t \in queue, DropDead(t), UNCHANGED <<roomVars, connVars>>
      PROVE  /\ \A x \in Session : InPlace(x)'
             /\ AwaitsAgree' /\ OneFlight' /\ NewHasNone'
  <2>1. owner[t] \in Session
    BY DEF DrawnInOrder
  <2>2. /\ UNCHANGED <<alive, owner, result, connVars>>
        /\ \A x \in Session : byID'[x] = byID[x] \/ byID'[x] = 0
        /\ \A v \in Ticket : chan'[v] = chan[v] \/ (chan[v] = "open" /\ chan'[v] = "closed")
    <3>1. UNCHANGED <<alive, owner, result, connVars>> /\ Forget(owner[t]) /\ CloseChannel(owner[t])
      BY <1>1 DEF DropDead
    <3>2. \A v \in Ticket : v # 0
      BY MatchQueueAssumption DEF Ticket
    <3> QED
      BY <2>1, <3>1, <3>2 DEF Forget, CloseChannel, PendingOpen
  <2>3. SameFlights
    BY <2>2 DEF SameFlights, connVars
  <2>4. ASSUME NEW x \in Session PROVE InPlace(x)'
    <3>1. InFlight(x)' <=> InFlight(x)
      BY <2>3, FlightsSame
    <3>2. InPlace(x) /\ UNCHANGED <<alive, state, cancelSearch, pc>> /\ (byID'[x] = byID[x] \/ byID'[x] = 0)
      BY <2>2 DEF connVars
    <3> QED
      BY <3>1, <3>2 DEF InPlace, Tracked, Held
  <2>5. OneFlight' /\ \A v \in Ticket : OnTheWay(v)' <=> OnTheWay(v)
    BY <2>3, FlightsSame
  <2>6. AwaitsAgree' /\ NewHasNone'
    BY <2>2, <2>5 DEF AwaitsAgree, NewHasNone, connVars
  <2> QED
    BY <2>4, <2>5, <2>6
<1> QED
  BY <1>1, TakeOffInv, MatcherTakesOff
----------------------------------------------------------------------------
(* One search at a time, and with it the contract of match.Matcher.         *)
OSP == INSTANCE MatchQueueProofs WITH OneAtATime <- TRUE

LEMMA OneSearchAssumed == OSP!MatchQueueAssumption
  BY MatchQueueAssumption DEF OSP!MatchQueueAssumption

LEMMA StartsOnce ==
  ASSUME FlightInv, NEW s \in Session, SearchEnqueue(s)
  PROVE  s \in alive /\ byID[s] = 0
<1>1. state[s] = "idle" /\ pc[s] \in {"read", "search"} /\ InPlace(s)
  BY DEF SearchEnqueue, Searches, Reads, FlightInv
<1> QED
  BY <1>1 DEF InPlace, Tracked, Absent

LEMMA OneSearchStep ==
  ASSUME Settled, FlightInv, [DNext]_dvars
  PROVE  [OneSearch!Next]_(OneSearch!vars)
<1> USE DEF OneSearch!Next, OneSearch!vars, matchVars
<1>0. UNCHANGED matchVars => UNCHANGED OneSearch!vars
  OBVIOUS
<1>1. ASSUME NEW s \in Session, SearchStep(s) PROVE [OneSearch!Next]_(OneSearch!vars)
  <2>1. CASE Connect(s)
    <3>1. \A t \in Ticket : owner[t] # s
      BY <2>1, MatchQueueAssumption DEF Connect, FlightInv, NewHasNone
    <3>2. OneSearch!Join(s)
      BY <2>1 DEF Connect, Join, OneSearch!Join
    <3> QED
      BY <3>1, <3>2 DEF Ticket, OneSearch!Ticket
  <2>2. CASE SearchEnqueue(s)
    BY <2>2, StartsOnce DEF SearchEnqueue, Enqueue, OneSearch!Enqueue, OneSearch!SearchAllowed
  <2>3. CASE CancelRemove(s)
    <3>1. OneSearch!Remove(s)
      BY <2>3 DEF CancelRemove, Remove, OneSearch!Remove, CloseChannel, OneSearch!CloseChannel,
                  Forget, OneSearch!Forget, TicketsOf, OneSearch!TicketsOf, Ticket, OneSearch!Ticket
    <3> QED
      BY <3>1
  <2>4. CASE Disconnect(s)
    BY <2>4 DEF Disconnect, Leave, OneSearch!Leave
  <2>5. CASE SearchBanned(s) \/ Announce(s) \/ Cancel(s) \/ BackToIdle(s) \/ DropSearch(s)
    BY <1>0, <2>5 DEF SearchBanned, Announce, Cancel, BackToIdle, DropSearch
  <2> QED
    BY <1>1, <2>1, <2>2, <2>3, <2>4, <2>5 DEF SearchStep
<1>2. ASSUME NEW t \in Ticket, AwaitMatchStep(t) PROVE UNCHANGED OneSearch!vars
  BY <1>0, <1>2 DEF AwaitMatchStep, AwaitCancelled, AwaitMatched, AwaitTeardown, AwaitRegister,
                    AwaitTell, AwaitEnd
<1>3. ASSUME MatcherStep PROVE OneSearch!Next
  <2>1. ASSUME NEW t \in queue, DropDead(t) PROVE OneSearch!DropDead(t)
    BY <2>1 DEF DropDead, OneSearch!DropDead, CloseChannel, OneSearch!CloseChannel,
                Forget, OneSearch!Forget, Ticket, OneSearch!Ticket
  <2>2. ASSUME NEW s \in Session, NEW u \in Session, Pair(s, u) PROVE OneSearch!Pair(s, u)
    BY <2>2 DEF Pair, OneSearch!Pair, PairUp, OneSearch!PairUp, PairAs, OneSearch!PairAs,
                PendingOf, OneSearch!PendingOf, TicketsOf, OneSearch!TicketsOf, Ticket, OneSearch!Ticket
  <2> QED
    BY <1>3, <2>1, <2>2 DEF MatcherStep
<1>4. ASSUME NEW s \in Session, MoveStep(s) PROVE UNCHANGED OneSearch!vars
  BY <1>0, <1>4 DEF MoveStep
<1>5. StayStep => UNCHANGED OneSearch!vars
  BY <1>0 DEF StayStep
<1> QED
  BY <1>1, <1>2, <1>3, <1>4, <1>5, SettledKinds

LEMMA MapsStayComplete ==
  ASSUME Settled, FlightInv, [DNext]_dvars
  PROVE  MapsComplete'
<1>1. [OSP!Next]_(OSP!vars)
  <2>1. OneSearch!Next => OSP!Next
    BY DEF OneSearch!Next, OSP!Next, OneSearch!Join, OSP!Join, OneSearch!Leave, OSP!Leave,
           OneSearch!Enqueue, OSP!Enqueue, OneSearch!SearchAllowed, OSP!SearchAllowed,
           OneSearch!Remove, OSP!Remove, OneSearch!CloseChannel, OSP!CloseChannel,
           OneSearch!Forget, OSP!Forget, OneSearch!TicketsOf, OSP!TicketsOf, OneSearch!Ticket,
           OSP!Ticket, OneSearch!DropDead, OSP!DropDead, OneSearch!Pair, OSP!Pair,
           OneSearch!PairUp, OSP!PairUp, OneSearch!PairAs, OSP!PairAs, OneSearch!PendingOf,
           OSP!PendingOf
  <2>2. UNCHANGED OneSearch!vars => UNCHANGED OSP!vars
    BY DEF OneSearch!vars, OSP!vars
  <2> QED
    BY <2>1, <2>2, OneSearchStep
<1>2. OSP!QueueInv /\ OSP!MapsComplete
  <2>1. QueueInv /\ MapsComplete
    BY DEF FlightInv, DispatchInv
  <2> QED
    BY <2>1 DEF QueueInv, OSP!QueueInv, MapsComplete, OSP!MapsComplete, TypeOK, OSP!TypeOK,
       DrawnInOrder, OSP!DrawnInOrder, PendingOpen, OSP!PendingOpen, IndexedIsQueued,
       OSP!IndexedIsQueued, NoSelfMatch, OSP!NoSelfMatch, RoomSentToItsPair, OSP!RoomSentToItsPair,
       Ticket, OSP!Ticket, MatchRoom, OSP!MatchRoom, TicketsOf, OSP!TicketsOf
<1>3. OSP!MapsComplete'
  BY <1>1, <1>2, OneSearchAssumed, OSP!MapsCompleteStep
<1> QED
  BY <1>3 DEF MapsComplete, OSP!MapsComplete

LEMMA FlightStep == Settled /\ FlightInv /\ [DNext]_dvars => FlightInv'
<1> SUFFICES ASSUME Settled, FlightInv, [DNext]_dvars PROVE FlightInv'
  OBVIOUS
<1>1. DispatchInv' /\ MapsComplete'
  BY DStepInv, MapsStayComplete DEF FlightInv
<1>2. ASSUME StayStep
      PROVE  (\A s \in Session : InPlace(s)') /\ AwaitsAgree' /\ OneFlight' /\ NewHasNone'
  <2>1. UNCHANGED <<alive, byID, owner, chan, result, state, cancelSearch, await, pc>>
    BY <1>2 DEF StayStep, matchVars
  <2> QED
    BY <2>1 DEF FlightInv, InPlace, Tracked, Held, InFlight, AwaitsAgree, OneFlight, OnTheWay, NewHasNone
<1>3. (\A s \in Session : InPlace(s)') /\ AwaitsAgree' /\ OneFlight' /\ NewHasNone'
  BY <1>2, SettledKinds, ReaderFlight, AwaitFlight, MatcherFlight
<1> QED
  BY <1>1, <1>3 DEF FlightInv

LEMMA FlightInitially == DInit => FlightInv
<1> SUFFICES ASSUME DInit PROVE FlightInv
  OBVIOUS
<1>1. DispatchInv
  BY DInitInv
<1> QED
  BY <1>1 DEF DInit, Init, FlightInv, MapsComplete, InPlace, Tracked, Held, InFlight, Absent,
              AwaitsAgree, OneFlight, OnTheWay, NewHasNone

\* Outside the windows nobody draws a ticket while the matcher knows an earlier one of
\* his: the composed server keeps to the discipline of MatchQueue.
THEOREM SearchesOneAtATime == Settled => (DSpec => OneSearchSpec)
<1> SUFFICES ASSUME Settled PROVE DSpec => OneSearchSpec
  OBVIOUS
<1>1. DInit => OneSearch!Init
  BY DEF DInit, Init, OneSearch!Init, Ticket, OneSearch!Ticket, NoRoom, OneSearch!NoRoom
<1>2. FlightInv /\ [DNext]_dvars => FlightInv'
  BY FlightStep
<1>3. FlightInv /\ [DNext]_dvars => [OneSearch!Next]_(OneSearch!vars)
  BY OneSearchStep
<1> QED
  BY <1>1, <1>2, <1>3, FlightInitially, PTL DEF DSpec, OneSearchSpec, OneSearch!Spec

\* And so its readers and goroutines get what match.Matcher promises.
THEOREM ServerKeepsContract == Settled => (DSpec => ContractSpec)
<1> SUFFICES ASSUME Settled PROVE DSpec => ContractSpec
  OBVIOUS
<1>1. DInit => Contract!Init
  BY DEF DInit, Init, Contract!Init, Answer, Partner
<1>2. FlightInv /\ [DNext]_dvars => FlightInv'
  BY FlightStep
<1>3. FlightInv /\ [DNext]_dvars => [Contract!Next]_(Contract!vars)
  <2> SUFFICES ASSUME FlightInv, [DNext]_dvars PROVE [Contract!Next]_(Contract!vars)
    OBVIOUS
  <2>1. [Next]_vars
    <3>1. [OneSearch!Next]_(OneSearch!vars)
      BY OneSearchStep
    <3>2. OneSearch!Next => Next
      BY DEF Next, OneSearch!Next, Join, OneSearch!Join, Leave, OneSearch!Leave, Enqueue,
             OneSearch!Enqueue, SearchAllowed, OneSearch!SearchAllowed, Remove, OneSearch!Remove,
             CloseChannel, OneSearch!CloseChannel, Forget, OneSearch!Forget, TicketsOf,
             OneSearch!TicketsOf, Ticket, OneSearch!Ticket, DropDead, OneSearch!DropDead, Pair,
             OneSearch!Pair, PairUp, OneSearch!PairUp, PairAs, OneSearch!PairAs, PendingOf,
             OneSearch!PendingOf
    <3> QED
      BY <3>1, <3>2 DEF vars, OneSearch!vars
  <2> QED
    BY <2>1, ContractStep DEF FlightInv, DispatchInv
<1> QED
  BY <1>1, <1>2, <1>3, FlightInitially, PTL DEF DSpec, ContractSpec, Contract!Spec
----------------------------------------------------------------------------
(* The rooms.                                                               *)

\* A room whose match is under way is not taken out of the registry, and matched
\* is sent after the room was entered.
FlightsRegistered ==
  /\ \A o \in opened, t \in Ticket : OnTheWay(t) /\ o.id = result[t].id => o \in rooms
  /\ \A t \in Ticket : await[t] = "tell" => \E o \in opened : o.id = result[t].id

RoomsMapped == \A o \in rooms : \A x \in o.members : sessionToRoom[x] = o.id

\* Who has a room chats in it, or is about to, or has gone and is about to end it.
InRoom(x) == \E o \in rooms : x \in o.members
Current(x) ==
  InRoom(x) =>
    \/ state[x] = "chatting" /\ pc[x] \notin {"to-read", "to-search"}
    \/ pc[x] \in {"drop-cancel", "drop-end"}
    \/ InFlight(x)

\* While a match is under way its members have no other room.
RoomOfFlight ==
  \A o \in rooms, t \in Ticket :
    OnTheWay(t) /\ o.members \cap result[t].members # {} => o.id = result[t].id

\* Of two partners, one has not been told yet or both chat.
BothFollow ==
  \A t \in Ticket : OnTheWay(t) => \A x \in result[t].members :
    \/ state[x] = "chatting"
    \/ \E u \in Ticket : OnTheWay(u) /\ owner[u] = x /\ await[u] \in {"none", "wait"}

RoomsSettled ==
  /\ FlightsRegistered
  /\ OneRoomPerMatch
  /\ RoomsMapped
  /\ \A x \in Session : Current(x)
  /\ RoomOfFlight
  /\ BothFollow

SettledInv == FlightInv /\ RP!RoomsInv /\ RoomsSettled

LEMMA RegistryFacts ==
  ASSUME RP!RoomsInv
  PROVE  /\ R!TypeOK /\ R!RoomIndexSound /\ R!OneObjectPerId /\ R!ClosedOnce /\ R!UnlinkedIsClosing
         /\ rooms \subseteq opened /\ opened \subseteq built
<1>1. R!TypeOK
  BY DEF RP!RoomsInv, RP!TypeOK, R!TypeOK, R!ChatRoom, RP!ChatRoom, R!Closing, RP!Closing,
         R!Envelope, RP!Envelope, R!RoomEnvelope, RP!RoomEnvelope
<1> QED
  BY <1>1 DEF RP!RoomsInv, RP!RoomIndexSound, R!RoomIndexSound, RP!OneObjectPerId, R!OneObjectPerId,
         RP!ClosedOnce, R!ClosedOnce, RP!UnlinkedIsClosing, R!UnlinkedIsClosing,
         RP!ToClose, R!ToClose, RP!BuiltBefore

\* An opened room is a room of the matcher: those that share its ID share its members.
LEMMA OpenedIsSent ==
  ASSUME DispatchInv, RP!RoomsInv, NEW o \in opened
  PROVE  /\ \E u \in Ticket : chan[u] = "sent" /\ o = RoomOf(u)
         /\ \A t \in Ticket : chan[t] = "sent" /\ result[t].id = o.id => result[t].members = o.members
         /\ o.id <= paired
<1> USE DEF DispatchInv, QueueInv
<1>1. PICK u \in Ticket : chan[u] = "sent" /\ o = RoomOf(u)
  BY RegistryFacts DEF AwaitsInOrder
<1>2. o.id = result[u].id /\ o.members = result[u].members
  BY <1>1 DEF RoomOf
<1> QED
  BY <1>1, <1>2 DEF RoomSentToItsPair, DrawnInOrder

Outward == {"to-read", "to-search", "gone"}

\* A reader that leaves a chat has ended his room, any other leaves the registry alone.
EndStep(s) ==
  /\ MoveStep(s) /\ pc'[s] \in Outward /\ ~InFlight(s)
  /\ \E reason \in {"stop", "next", "disconnect"} : R!EndRoomIfAny(s, s, reason)
  /\ UNCHANGED server

\* What tells whether a room is open, and who has to be told of its end.
endings == <<rooms, sessionToRoom, opened, closed, closing, draining, server>>

LookStep(s) ==
  /\ SearchStep(s) \/ MoveStep(s)
  /\ pc'[s] \notin Outward
  /\ UNCHANGED endings

EnterStep(t) ==
  /\ await[t] = "register" /\ await' = [await EXCEPT ![t] = "tell"]
  /\ R!RegisterRoomIfNew(RoomOf(t))
  /\ UNCHANGED <<matchVars, state, pc, server>>

LEMMA ReaderRegistry ==
  ASSUME Settled, FlightInv, NEW s \in Session, ClientStep(s) \/ ReaderStep(s)
  PROVE  LookStep(s) \/ EndStep(s)
<1> USE DEF Outward, GoTo, FlightInv, DispatchInv, ConnTypes, roomVars, rest, R!registry, endings
<1>0. SearchStep(s) \/ MoveStep(s)
  BY ReaderMoves
<1>1. ASSUME UNCHANGED endings, pc'[s] \notin Outward PROVE LookStep(s)
  BY <1>0, <1>1 DEF LookStep
<1>2. ASSUME NEW reason \in {"stop", "next", "disconnect"}, NEW place \in Outward,
             EndChat(s, reason, place), ~InFlight(s)
      PROVE  EndStep(s)
  <2>1. pc'[s] = place /\ R!EndRoomIfAny(s, s, reason) /\ UNCHANGED server
    BY <1>2 DEF EndChat
  <2>2. ~SearchStep(s)
    BY <2>1 DEF SearchStep, Connect, SearchBanned, SearchEnqueue, Announce, Cancel, CancelRemove,
                BackToIdle, Disconnect, DropSearch
  <2> QED
    BY <1>0, <2>1, <2>2, <1>2 DEF EndStep
<1>3. CASE Stop(s) \/ NextPartner(s)
  <2>1. ~InFlight(s)
    BY <1>3 DEF Settled, Stop, NextPartner, MayStop, MayLeave
  <2> QED
    BY <1>2, <1>3, <2>1 DEF Stop, NextPartner
<1>4. CASE ReportEnd(s) \/ DropRoom(s)
  <2>1. ~InFlight(s)
    BY <1>4 DEF ReportEnd, DropRoom, InPlace, Held
  <2> QED
    BY <1>2, <1>4, <2>1 DEF ReportEnd, DropRoom
<1>5. CASE SearchStep(s)
  BY <1>1, <1>5
  DEF SearchStep, Connect, SearchBanned, SearchEnqueue, Announce, Cancel, CancelRemove,
      BackToIdle, Disconnect, DropSearch, R!SendOther
<1>6. ASSUME Refuse(s) PROVE LookStep(s)
  BY <1>1, <1>6 DEF Refuse, R!SendOther
<1>7. CASE Message(s) \/ Report(s) \/ Relay(s) \/ ReportPartner(s)
  BY <1>1, <1>7 DEF Message, Report, RoomOp, Relay, ReportPartner, R!GetRoom, R!Relay, R!ReadMembers
<1> QED
  BY <1>3, <1>4, <1>5, <1>6, <1>7
  DEF ClientStep, ReaderStep, Search, SearchBadTags, Refused, SearchStep

\* A goroutine enters its room, or leaves the registry alone: none has a room to end.
GoOnStep(t) ==
  /\ AwaitMatchStep(t)
  /\ UNCHANGED endings
  /\ await[t] # "register"

LEMMA AwaitRegistry ==
  ASSUME FlightInv, NEW t \in Ticket, AwaitMatchStep(t)
  PROVE  EnterStep(t) \/ GoOnStep(t)
<1> USE DEF FlightInv, DispatchInv, roomVars, rest, endings, AwaitStep
<1>1. await[t] \notin {"teardown", "end"}
  BY DEF AwaitsInOrder, AwaitsAgree, OnTheWay
<1>2. CASE AwaitRegister(t)
  BY <1>1, <1>2 DEF AwaitRegister, EnterStep
<1>3. CASE ~AwaitRegister(t)
  BY <1>1, <1>3 DEF AwaitMatchStep, AwaitCancelled, AwaitMatched, AwaitTeardown, AwaitTell, AwaitEnd,
                    R!SendOther, R!registry, GoOnStep
<1> QED
  BY <1>2, <1>3

RestStep ==
  /\ UNCHANGED <<alive, owner, result, roomVars, connVars>>
  /\ SameFlights

LEMMA DropRests ==
  ASSUME FlightInv, NEW t \in queue, DropDead(t), UNCHANGED <<roomVars, connVars>>
  PROVE  RestStep
<1>1. UNCHANGED <<alive, owner, result, connVars>> /\ CloseChannel(owner[t])
  BY DEF DropDead
<1>2. owner[t] \in Session /\ \A v \in Ticket : v # 0
  BY MatchQueueAssumption DEF FlightInv, DispatchInv, QueueInv, DrawnInOrder, Ticket
<1>3. \A v \in Ticket : chan'[v] = chan[v] \/ (chan[v] = "open" /\ chan'[v] = "closed")
  BY <1>1, <1>2 DEF CloseChannel, FlightInv, DispatchInv, QueueInv, PendingOpen
<1>4. SameFlights
  BY <1>1, <1>3 DEF SameFlights, connVars
<1> QED
  BY <1>1, <1>4 DEF RestStep

LEMMA RegistryKinds ==
  ASSUME Settled, FlightInv, [DNext]_dvars
  PROVE  \/ \E s \in Session : LookStep(s) \/ EndStep(s)
         \/ \E t \in Ticket : EnterStep(t) \/ GoOnStep(t)
         \/ \E s, u \in Session, p, q \in Ticket : TakeOff(s, u, p, q)
         \/ RestStep
         \/ StayStep /\ UNCHANGED <<rooms, sessionToRoom, opened>>
         \/ ShutDown
<1> USE DEF roomVars, connVars, matchVars, rest
<1>1. ASSUME NEW c, CloseRoom(c) PROVE StayStep /\ UNCHANGED <<rooms, sessionToRoom, opened>>
  BY <1>1 DEF CloseRoom, StayStep, R!CloseStep, R!MarkClosed, R!SendPeerLeft, R!registry
<1>2. ASSUME CloseNextRoom \/ CloseAllConnections \/ UNCHANGED dvars
      PROVE  StayStep /\ UNCHANGED <<rooms, sessionToRoom, opened>>
  BY <1>2 DEF CloseNextRoom, CloseAllConnections, dvars, StayStep, R!DrainNext, R!registry
<1> QED
  BY <1>1, <1>2, DropRests, ReaderRegistry, AwaitRegistry, MatcherTakesOff DEF DNext

\* What a step does to what is on the way.
LEMMA FlightsShrink ==
  ASSUME FlightInv,
         \/ \E s \in Session : LookStep(s) \/ EndStep(s)
         \/ \E t \in Ticket : EnterStep(t) \/ GoOnStep(t)
         \/ RestStep \/ StayStep \/ ShutDown
  PROVE  \A t \in Ticket : OnTheWay(t)' => OnTheWay(t) /\ result'[t] = result[t] /\ owner'[t] = owner[t]
<1> USE DEF FlightInv, DispatchInv, ConnTypes
<1>1. ASSUME NEW t \in Ticket, EnterStep(t) \/ GoOnStep(t)
      PROVE  \A u \in Ticket : OnTheWay(u)' => OnTheWay(u) /\ result'[u] = result[u] /\ owner'[u] = owner[u]
  <2>1. UNCHANGED <<chan, result, owner>> /\ await[t] # "done" /\ \A u \in Ticket : u # t => await'[u] = await[u]
    BY <1>1 DEF EnterStep, GoOnStep, AwaitMatchStep, AwaitCancelled, AwaitMatched, AwaitTeardown,
                AwaitRegister, AwaitTell, AwaitEnd, AwaitStep, matchVars
  <2> QED
    BY <2>1 DEF OnTheWay
<1>2. ASSUME SameFlights
      PROVE  \A u \in Ticket : OnTheWay(u)' => OnTheWay(u) /\ result'[u] = result[u] /\ owner'[u] = owner[u]
  BY <1>2 DEF SameFlights, OnTheWay
<1>3. ASSUME NEW s \in Session, LookStep(s) \/ EndStep(s) PROVE SameFlights
  BY <1>3, ReaderKeepsFlights DEF LookStep, EndStep
<1>4. RestStep \/ StayStep \/ ShutDown => SameFlights
  BY DEF RestStep, StayStep, ShutDown, SameFlights, matchVars
<1> QED
  BY <1>1, <1>2, <1>3, <1>4

\* endRoomIfAny of a session takes its room out of the registry, and no other.
LEMMA EndRemoves ==
  ASSUME SettledInv, NEW s \in Session, EndStep(s)
  PROVE  /\ opened' = opened /\ rooms' \subseteq rooms
         /\ \A o \in rooms \ rooms' : s \in o.members
         /\ \A o \in rooms' : s \notin o.members
         /\ \A o \in rooms', x \in Session : x \in o.members => sessionToRoom'[x] = sessionToRoom[x]
<1> USE DEF SettledInv, RoomsSettled
<1>0. /\ R!RoomIndexSound /\ R!OneObjectPerId
      /\ \A o \in rooms : o.members \subseteq Session /\ o.id # Nil
  BY RegistryFacts, NilAssumption DEF R!TypeOK, R!ChatRoom
<1>1. PICK reason : R!EndRoomIfAny(s, s, reason)
  BY DEF EndStep
<1>2. CASE sessionToRoom[s] = Nil
  <2>1. UNCHANGED <<rooms, sessionToRoom, opened>>
    BY <1>1, <1>2 DEF R!EndRoomIfAny
  <2>2. \A o \in rooms : s \notin o.members
    BY <1>0, <1>2 DEF RoomsMapped
  <2> QED
    BY <2>1, <2>2
<1>3. CASE sessionToRoom[s] # Nil
  <2>1. PICK o \in rooms : /\ o.id = sessionToRoom[s] /\ R!Unlink(o) /\ opened' = opened
    BY <1>1, <1>3 DEF R!EndRoomIfAny
  <2>2. s \in o.members
    BY <1>0, <1>3, <2>1 DEF R!RoomIndexSound, R!OneObjectPerId
  <2>3. \A r \in rooms : r # o => r.members \cap o.members = {}
    BY <1>0, <2>1 DEF RoomsMapped, R!OneObjectPerId
  <2> QED
    BY <2>1, <2>2, <2>3 DEF R!Unlink
<1> QED
  BY <1>2, <1>3

\* What registerRoomIfNew does with the room of a match that is under way.
LEMMA EnterAdds ==
  ASSUME SettledInv, NEW t \in Ticket, EnterStep(t)
  PROVE  /\ RoomOf(t).id = result[t].id /\ RoomOf(t).members = result[t].members
         /\ OnTheWay(t) /\ OnTheWay(t)' /\ result' = result
         /\ \/ /\ UNCHANGED <<rooms, sessionToRoom, opened>>
               /\ \E r \in rooms : r.id = result[t].id
            \/ /\ \A r \in rooms : r.id # result[t].id
               /\ rooms' = rooms \cup {RoomOf(t)} /\ opened' = opened \cup {RoomOf(t)}
               /\ \A x \in Session :
                    sessionToRoom'[x] = IF x \in result[t].members THEN result[t].id ELSE sessionToRoom[x]
<1> USE DEF SettledInv, FlightInv, DispatchInv
<1>1. RoomOf(t).id = result[t].id /\ RoomOf(t).members = result[t].members
  BY DEF RoomOf
<1>2. chan[t] = "sent" /\ await[t] = "register" /\ await'[t] = "tell" /\ UNCHANGED <<chan, result>>
  BY DEF EnterStep, AwaitsInOrder, ConnTypes, matchVars
<1>3. OnTheWay(t) /\ OnTheWay(t)'
  BY <1>2 DEF OnTheWay
<1>4. R!RegisterRoomIfNew(RoomOf(t))
  BY DEF EnterStep
<1>5. CASE \E r \in rooms : r.id = RoomOf(t).id
  BY <1>1, <1>2, <1>3, <1>4, <1>5 DEF R!RegisterRoomIfNew
<1>6. CASE ~\E r \in rooms : r.id = RoomOf(t).id
  BY <1>1, <1>2, <1>3, <1>4, <1>6 DEF R!RegisterRoomIfNew, R!AddRoom
<1> QED
  BY <1>5, <1>6

\* Only the two departures touch neither rooms nor readers, only EnterStep adds a room.
Unchanging ==
  /\ UNCHANGED <<rooms, sessionToRoom, opened>>
  /\ \/ \E s \in Session : LookStep(s)
     \/ \E t \in Ticket : GoOnStep(t)
     \/ RestStep
     \/ StayStep

Stepping ==
  \/ Unchanging
  \/ \E s \in Session : EndStep(s)
  \/ \E t \in Ticket : EnterStep(t)
  \/ ShutDown

LEMMA Kinds ==
  ASSUME Settled, FlightInv, [DNext]_dvars
  PROVE  Stepping \/ \E s, u \in Session, p, q \in Ticket : TakeOff(s, u, p, q)
BY RegistryKinds DEF Stepping, Unchanging, LookStep, GoOnStep, RestStep, roomVars, endings

LEMMA SteppingShrinks ==
  ASSUME FlightInv, Stepping
  PROVE  /\ \A t \in Ticket : OnTheWay(t)' => OnTheWay(t) /\ result'[t] = result[t] /\ owner'[t] = owner[t]
         /\ \A x : InFlight(x)' => InFlight(x)
<1>1. \A t \in Ticket : OnTheWay(t)' => OnTheWay(t) /\ result'[t] = result[t] /\ owner'[t] = owner[t]
  BY FlightsShrink DEF Stepping, Unchanging
<1> QED
  BY <1>1 DEF InFlight, OnTheWay

\* A shutdown waits until nothing is on the way.
LEMMA ShutDownWaits ==
  ASSUME Settled, FlightInv, ShutDown
  PROVE  (\A t \in Ticket : ~OnTheWay(t)) /\ (\A s \in Session : ~InFlight(s))
<1>1. \A s \in Session : ~InFlight(s)
  BY DEF Settled, ShutDown, MayLeave
<1> QED
  BY <1>1, OwnerIsHeld DEF FlightInv, DispatchInv

LEMMA TellsAfterEntry ==
  ASSUME Settled, FlightInv, [DNext]_dvars, NEW t \in Ticket, await'[t] = "tell"
  PROVE  await[t] = "tell" \/ EnterStep(t)
<1> USE DEF FlightInv, DispatchInv, ConnTypes
<1>1. ASSUME NEW s \in Session, SearchStep(s) \/ MoveStep(s) PROVE await[t] = "tell"
  BY <1>1 DEF SearchStep, MoveStep, Connect, SearchBanned, SearchEnqueue, Announce, Cancel, CancelRemove,
              Unannounced, BackToIdle, Disconnect, DropSearch
<1>2. ASSUME NEW u \in Ticket, EnterStep(u) PROVE await[t] = "tell" \/ u = t
  BY <1>2 DEF EnterStep
<1>3. ASSUME NEW u \in Ticket, GoOnStep(u) PROVE await[t] = "tell"
  BY <1>3 DEF GoOnStep, AwaitMatchStep, AwaitCancelled, AwaitMatched, AwaitTeardown, AwaitRegister, AwaitTell,
              AwaitEnd, AwaitStep
<1>4. ASSUME NEW s \in Session, NEW u \in Session, NEW p \in Ticket, NEW q \in Ticket, TakeOff(s, u, p, q)
      PROVE  await[t] = "tell"
  BY <1>4 DEF TakeOff, connVars
<1>5. ASSUME RestStep \/ StayStep \/ ShutDown PROVE await[t] = "tell"
  BY <1>5 DEF RestStep, StayStep, ShutDown, connVars
<1> QED
  BY <1>1, <1>2, <1>3, <1>4, <1>5, RegistryKinds DEF LookStep, EndStep

LEMMA RegisteredStep ==
  ASSUME Settled, SettledInv, [DNext]_dvars
  PROVE  FlightsRegistered'
<1>0. FlightInv /\ FlightsRegistered /\ DispatchInv /\ RP!RoomsInv
  BY DEF SettledInv, RoomsSettled, FlightInv
<1>1. ASSUME NEW o \in opened', NEW t \in Ticket, OnTheWay(t)', o.id = result'[t].id
      PROVE  o \in rooms'
  <2>1. CASE Stepping
    <3>1. OnTheWay(t) /\ result'[t] = result[t]
      BY <1>0, <1>1, <2>1, SteppingShrinks
    <3>2. o \in opened => o \in rooms
      BY <1>0, <1>1, <3>1 DEF FlightsRegistered
    <3>3. CASE Unchanging
      BY <3>2, <3>3 DEF Unchanging
    <3>4. ASSUME NEW s \in Session, EndStep(s) PROVE o \in rooms'
      <4>1. opened' = opened /\ \A r \in rooms \ rooms' : s \in r.members
        BY <3>4, EndRemoves
      <4>2. ~InFlight(s)
        BY <3>4 DEF EndStep
      <4>3. o.members = result[t].members
        BY <1>0, <1>1, <3>1, <4>1, OpenedIsSent DEF OnTheWay
      <4>4. s \notin o.members
        BY <3>1, <4>2, <4>3 DEF InFlight, OnTheWay
      <4> QED
        BY <3>2, <4>1, <4>4
    <3>5. ASSUME NEW u \in Ticket, EnterStep(u) PROVE o \in rooms'
      BY <3>2, <3>5, EnterAdds
    <3>6. CASE ShutDown
      BY <1>0, <3>1, <3>6, ShutDownWaits
    <3> QED
      BY <2>1, <3>3, <3>4, <3>5, <3>6 DEF Stepping
  <2>2. ASSUME NEW s \in Session, NEW u \in Session, NEW p \in Ticket, NEW q \in Ticket, TakeOff(s, u, p, q)
        PROVE  o \in rooms'
    <3>0. /\ \A v \in Ticket : v \notin {p, q} => (OnTheWay(v)' <=> OnTheWay(v)) /\ result'[v] = result[v]
          /\ \A v \in {p, q} : result'[v] = [id |-> paired + 1, members |-> {s, u}]
      BY <1>0, <2>2, TakeOffFlights
    <3>1. o \in opened /\ rooms' = rooms
      BY <1>1, <2>2 DEF TakeOff, roomVars
    <3>2. CASE t \in {p, q}
      <4>1. o.id = paired + 1
        BY <1>1, <3>0, <3>2
      <4>2. o.id <= paired
        BY <1>0, <3>1, OpenedIsSent
      <4>3. paired \in Nat
        BY <1>0 DEF DispatchInv, QueueInv, TypeOK
      <4> QED
        BY <4>1, <4>2, <4>3
    <3>3. CASE t \notin {p, q}
      <4>1. OnTheWay(t) /\ result'[t] = result[t]
        BY <1>1, <3>0, <3>3
      <4> QED
        BY <1>0, <1>1, <3>1, <4>1 DEF FlightsRegistered
    <3> QED
      BY <3>2, <3>3
  <2> QED
    BY <1>0, <2>1, <2>2, Kinds
<1>2. ASSUME NEW t \in Ticket, await'[t] = "tell"
      PROVE  \E o \in opened' : o.id = result'[t].id
  <2>1. FlightInv'
    BY <1>0, FlightStep
  <2>2. OnTheWay(t)'
    <3>1. chan'[t] = "sent"
      BY <1>2, <2>1 DEF FlightInv, DispatchInv, AwaitsInOrder
    <3> QED
      BY <1>2, <3>1 DEF OnTheWay
  <2>3. CASE Stepping
    <3>1. result'[t] = result[t]
      BY <1>0, <2>2, <2>3, SteppingShrinks
    <3>2. CASE EnterStep(t)
      <4>1. \/ opened' = opened /\ \E r \in rooms : r.id = result[t].id
            \/ opened' = opened \cup {RoomOf(t)} /\ RoomOf(t).id = result[t].id
        BY <3>2, EnterAdds
      <4> QED
        BY <1>0, <3>1, <4>1, RegistryFacts
    <3>3. CASE ~EnterStep(t)
      <4>1. await[t] = "tell"
        BY <1>0, <1>2, <3>3, TellsAfterEntry
      <4>2. opened \subseteq opened'
        <5>1. ASSUME NEW s \in Session, EndStep(s) PROVE opened \subseteq opened'
          BY <5>1, EndRemoves
        <5>2. ASSUME NEW u \in Ticket, EnterStep(u) PROVE opened \subseteq opened'
          BY <5>2, EnterAdds
        <5> QED
          BY <2>3, <5>1, <5>2 DEF Stepping, Unchanging, ShutDown, R!CloseAllRooms
      <4> QED
        BY <1>0, <3>1, <4>1, <4>2 DEF FlightsRegistered
    <3> QED
      BY <3>2, <3>3
  <2>4. ASSUME NEW s \in Session, NEW u \in Session, NEW p \in Ticket, NEW q \in Ticket, TakeOff(s, u, p, q)
        PROVE  \E o \in opened' : o.id = result'[t].id
    <3>1. await[t] = "tell" /\ opened' = opened
      BY <1>2, <2>4 DEF TakeOff, connVars, roomVars
    <3>2. t \notin {p, q}
      BY <2>4, <3>1 DEF TakeOff, Departs
    <3>3. result'[t] = result[t]
      BY <1>0, <2>4, <3>2, TakeOffFlights
    <3> QED
      BY <1>0, <3>1, <3>3 DEF FlightsRegistered
  <2> QED
    BY <1>0, <2>3, <2>4, Kinds
<1> QED
  BY <1>1, <1>2 DEF FlightsRegistered

LEMMA OneRoomStep ==
  ASSUME Settled, SettledInv, [DNext]_dvars
  PROVE  OneRoomPerMatch'
<1>0. FlightInv /\ FlightsRegistered /\ OneRoomPerMatch
  BY DEF SettledInv, RoomsSettled
<1>1. ASSUME opened' = opened PROVE OneRoomPerMatch'
  BY <1>0, <1>1 DEF OneRoomPerMatch
<1>2. ASSUME NEW s \in Session, EndStep(s) PROVE OneRoomPerMatch'
  BY <1>1, <1>2, EndRemoves
<1>3. ASSUME NEW t \in Ticket, EnterStep(t) PROVE OneRoomPerMatch'
  <2>1. /\ OnTheWay(t) /\ RoomOf(t).id = result[t].id
        /\ \/ opened' = opened
           \/ opened' = opened \cup {RoomOf(t)} /\ \A r \in rooms : r.id # result[t].id
    BY <1>3, EnterAdds
  <2>2. \A o \in opened : o.id = result[t].id => o \in rooms
    BY <1>0, <2>1 DEF FlightsRegistered
  <2> QED
    BY <1>0, <2>1, <2>2 DEF OneRoomPerMatch
<1>4. ASSUME NEW s \in Session, NEW u \in Session, NEW p \in Ticket, NEW q \in Ticket, TakeOff(s, u, p, q)
      PROVE  OneRoomPerMatch'
  BY <1>1, <1>4 DEF TakeOff, roomVars
<1>5. Unchanging \/ ShutDown => OneRoomPerMatch'
  BY <1>1 DEF Unchanging, ShutDown, R!CloseAllRooms
<1> QED
  BY <1>0, <1>2, <1>3, <1>4, <1>5, Kinds DEF Stepping

LEMMA MappedStep ==
  ASSUME Settled, SettledInv, [DNext]_dvars
  PROVE  RoomsMapped'
<1>0. /\ FlightInv /\ RoomOfFlight /\ RoomsMapped
      /\ \A o \in rooms : o.members \subseteq Session
  BY RegistryFacts DEF SettledInv, RoomsSettled, R!TypeOK, R!ChatRoom
<1>1. ASSUME UNCHANGED <<rooms, sessionToRoom>> PROVE RoomsMapped'
  BY <1>0, <1>1 DEF RoomsMapped
<1>2. ASSUME NEW s \in Session, EndStep(s) PROVE RoomsMapped'
  <2>1. /\ rooms' \subseteq rooms
        /\ \A o \in rooms', x \in Session : x \in o.members => sessionToRoom'[x] = sessionToRoom[x]
    BY <1>2, EndRemoves
  <2> QED
    BY <1>0, <2>1 DEF RoomsMapped
<1>3. ASSUME NEW t \in Ticket, EnterStep(t) PROVE RoomsMapped'
  <2>1. CASE UNCHANGED <<rooms, sessionToRoom>>
    BY <1>1, <2>1
  <2>2. CASE ~UNCHANGED <<rooms, sessionToRoom>>
    <3>1. /\ OnTheWay(t) /\ RoomOf(t).id = result[t].id /\ RoomOf(t).members = result[t].members
          /\ \A r \in rooms : r.id # result[t].id
          /\ rooms' = rooms \cup {RoomOf(t)}
          /\ \A x \in Session :
               sessionToRoom'[x] = IF x \in result[t].members THEN result[t].id ELSE sessionToRoom[x]
      BY <1>3, <2>2, EnterAdds
    <3>2. result[t].members \subseteq Session
      BY <1>0, <3>1, OwnerIsHeld DEF FlightInv, DispatchInv
    <3>3. \A o \in rooms : o.members \cap result[t].members = {}
      BY <1>0, <3>1 DEF RoomOfFlight
    <3>4. ASSUME NEW o \in rooms', NEW x \in o.members PROVE sessionToRoom'[x] = o.id
      <4>1. CASE o \in rooms
        <5>1. x \notin result[t].members /\ x \in Session /\ sessionToRoom[x] = o.id
          BY <1>0, <3>3, <4>1 DEF RoomsMapped
        <5> QED
          BY <3>1, <5>1
      <4>2. CASE o = RoomOf(t)
        BY <3>1, <3>2, <4>2
      <4> QED
        BY <3>1, <4>1, <4>2
    <3> QED
      BY <3>4 DEF RoomsMapped
  <2> QED
    BY <2>1, <2>2
<1>4. ASSUME NEW s \in Session, NEW u \in Session, NEW p \in Ticket, NEW q \in Ticket, TakeOff(s, u, p, q)
      PROVE  RoomsMapped'
  BY <1>1, <1>4 DEF TakeOff, roomVars
<1>5. Unchanging => RoomsMapped'
  BY <1>1 DEF Unchanging
<1>6. ShutDown => RoomsMapped'
  BY DEF ShutDown, R!CloseAllRooms, RoomsMapped
<1> QED
  BY <1>0, <1>2, <1>3, <1>4, <1>5, <1>6, Kinds DEF Stepping

LEMMA RoomOfFlightStep ==
  ASSUME Settled, SettledInv, [DNext]_dvars
  PROVE  RoomOfFlight'
<1>0. /\ FlightInv /\ RoomOfFlight /\ OneFlight /\ \A x \in Session : Current(x)
      /\ \A o \in rooms : o.members \subseteq Session
  BY RegistryFacts DEF SettledInv, FlightInv, RoomsSettled, R!TypeOK, R!ChatRoom
<1>1. ASSUME NEW o \in rooms', NEW t \in Ticket, OnTheWay(t)', o.members \cap result'[t].members # {}
      PROVE  o.id = result'[t].id
  <2>1. CASE Stepping
    <3>1. OnTheWay(t) /\ result'[t] = result[t]
      BY <1>0, <1>1, <2>1, SteppingShrinks
    <3>2. o \in rooms => o.id = result[t].id
      BY <1>0, <1>1, <3>1 DEF RoomOfFlight
    <3>3. ASSUME NEW s \in Session, EndStep(s) PROVE o \in rooms
      BY <3>3, EndRemoves
    <3>4. ASSUME NEW u \in Ticket, EnterStep(u) PROVE o.id = result[t].id
      <4>1. CASE o \in rooms
        BY <3>2, <4>1
      <4>2. CASE o \notin rooms
        <5>1. o = RoomOf(u) /\ o.id = result[u].id /\ o.members = result[u].members /\ OnTheWay(u)
          BY <3>4, <4>2, EnterAdds
        <5> QED
          BY <1>0, <1>1, <3>1, <5>1 DEF OneFlight
      <4> QED
        BY <4>1, <4>2
    <3>5. ShutDown => rooms' = {}
      BY DEF ShutDown, R!CloseAllRooms
    <3> QED
      BY <2>1, <3>1, <3>2, <3>3, <3>4, <3>5 DEF Stepping, Unchanging
  <2>2. ASSUME NEW s \in Session, NEW u \in Session, NEW p \in Ticket, NEW q \in Ticket, TakeOff(s, u, p, q)
        PROVE  o.id = result'[t].id
    <3>0. /\ \A v \in Ticket : v \notin {p, q} => (OnTheWay(v)' <=> OnTheWay(v)) /\ result'[v] = result[v]
          /\ \A v \in {p, q} : result'[v] = [id |-> paired + 1, members |-> {s, u}]
      BY <1>0, <2>2, TakeOffFlights
    <3>1. o \in rooms
      BY <2>2 DEF TakeOff, roomVars
    <3>2. ASSUME NEW x \in {s, u} PROVE x \notin o.members
      <4>1. state[x] = "searching" /\ pc[x] \in {"read", "announce"} /\ ~InFlight(x) /\ x \in Session
        BY <2>2 DEF TakeOff, Departs
      <4> QED
        BY <1>0, <3>1, <4>1 DEF Current, InRoom
    <3>3. t \notin {p, q}
      BY <1>1, <3>0, <3>2
    <3> QED
      BY <1>0, <1>1, <3>0, <3>1, <3>3 DEF RoomOfFlight
  <2> QED
    BY <1>0, <2>1, <2>2, Kinds
<1> QED
  BY <1>1 DEF RoomOfFlight

\* A goroutine gives up its place in flight only when both partners have heard of the
\* match or the other is still to hear of it.
LEMMA GoOnFlights ==
  ASSUME FlightInv, FlightInv', NEW t \in Ticket, GoOnStep(t)
  PROVE  /\ UNCHANGED <<chan, result, owner, pc>>
         /\ \A u \in Ticket : u # t => await'[u] = await[u] /\ (OnTheWay(u)' <=> OnTheWay(u))
         /\ OnTheWay(t) /\ ~OnTheWay(t)' => await[t] = "tell"
         /\ OnTheWay(t) /\ OnTheWay(t)' => AwaitMatched(t)
         /\ \A x \in Session : state'[x] = state[x] \/ (state'[x] = "chatting" /\ x = owner[t] /\ OnTheWay(t))
<1> USE DEF FlightInv, DispatchInv, ConnTypes, matchVars
<1>1. AwaitMatchStep(t) /\ UNCHANGED <<chan, result, owner, pc>>
  BY DEF GoOnStep, AwaitMatchStep, AwaitCancelled, AwaitMatched, AwaitTeardown, AwaitRegister, AwaitTell,
         AwaitEnd
<1>2. \A u \in Ticket : u # t => await'[u] = await[u]
  BY <1>1 DEF AwaitMatchStep, AwaitCancelled, AwaitMatched, AwaitTeardown, AwaitRegister, AwaitTell,
              AwaitEnd, AwaitStep
<1>3. \A u \in Ticket : u # t => (OnTheWay(u)' <=> OnTheWay(u))
  BY <1>1, <1>2 DEF OnTheWay
<1>4. OnTheWay(t) => await[t] \in {"none", "wait", "register", "tell"}
  BY DEF AwaitsAgree
<1>5. OnTheWay(t)' => await'[t] \in {"none", "wait", "register", "tell"}
  BY DEF AwaitsAgree
<1>6. OnTheWay(t) /\ ~OnTheWay(t)' => await[t] = "tell"
  BY <1>1, <1>4 DEF AwaitMatchStep, AwaitCancelled, AwaitMatched, AwaitTeardown, AwaitRegister, AwaitTell,
              AwaitEnd, AwaitStep, OnTheWay
<1>7. OnTheWay(t) /\ OnTheWay(t)' => AwaitMatched(t)
  BY <1>1, <1>4, <1>5 DEF GoOnStep, AwaitMatchStep, AwaitCancelled, AwaitTeardown, AwaitRegister, AwaitTell,
              AwaitEnd, AwaitStep, OnTheWay
<1>8. \A x \in Session : state'[x] = state[x] \/ (state'[x] = "chatting" /\ x = owner[t] /\ OnTheWay(t))
  BY <1>1 DEF AwaitMatchStep, AwaitCancelled, AwaitMatched, AwaitTeardown, AwaitRegister, AwaitTell,
              AwaitEnd, AwaitStep, OnTheWay
<1> QED
  BY <1>1, <1>2, <1>3, <1>6, <1>7, <1>8

\* The own steps of a reader that has a room.
LEMMA ReaderStaysCurrent ==
  ASSUME FlightInv, NEW s \in Session, LookStep(s), Current(s), InRoom(s)
  PROVE  \/ state'[s] = "chatting" /\ pc'[s] \notin {"to-read", "to-search"}
         \/ pc'[s] \in {"drop-cancel", "drop-end"}
         \/ InFlight(s)
<1> USE DEF FlightInv, DispatchInv, ConnTypes, GoTo, Outward
<1>1. /\ SearchStep(s) \/ MoveStep(s)
      /\ pc'[s] \notin Outward
      /\ \/ state[s] = "chatting" /\ pc[s] \notin {"to-read", "to-search"}
         \/ pc[s] \in {"drop-cancel", "drop-end"}
         \/ InFlight(s)
  BY DEF LookStep, Current
<1>2. CASE MoveStep(s)
  BY <1>1, <1>2 DEF MoveStep, Moves
<1>3. CASE Connect(s)
  BY <1>1, <1>3 DEF Connect, ReadersInOrder
<1>4. CASE SearchBanned(s) \/ SearchEnqueue(s) \/ Announce(s)
  BY <1>1, <1>4 DEF SearchBanned, SearchEnqueue, Announce, Searches, Reads
<1>5. CASE Cancel(s) \/ CancelRemove(s) \/ BackToIdle(s) \/ Disconnect(s) \/ DropSearch(s)
  BY <1>1, <1>5 DEF Cancel, CancelRemove, BackToIdle, Disconnect, DropSearch, Receives, Reads
<1> QED
  BY <1>1, <1>2, <1>3, <1>4, <1>5 DEF SearchStep

LEMMA CurrentStep ==
  ASSUME Settled, SettledInv, [DNext]_dvars, NEW x \in Session
  PROVE  Current(x)'
<1>0. /\ FlightInv /\ FlightInv' /\ InPlace(x) /\ Current(x) /\ BothFollow
      /\ state \in [Session -> {"idle", "searching", "chatting"}]
  BY FlightStep DEF SettledInv, FlightInv, DispatchInv, ConnTypes, RoomsSettled
<1>1. SUFFICES ASSUME InRoom(x)'
               PROVE  \/ state'[x] = "chatting" /\ pc'[x] \notin {"to-read", "to-search"}
                      \/ pc'[x] \in {"drop-cancel", "drop-end"}
                      \/ InFlight(x)'
  BY DEF Current
<1>2. ASSUME rooms' = rooms, state'[x] = state[x], pc'[x] = pc[x], InFlight(x) => InFlight(x)'
      PROVE  \/ state'[x] = "chatting" /\ pc'[x] \notin {"to-read", "to-search"}
             \/ pc'[x] \in {"drop-cancel", "drop-end"}
             \/ InFlight(x)'
  <2>1. InRoom(x)
    BY <1>1, <1>2 DEF InRoom
  <2> QED
    BY <1>0, <1>2, <2>1 DEF Current
<1>3. ASSUME NEW s \in Session, LookStep(s)
      PROVE  \/ state'[x] = "chatting" /\ pc'[x] \notin {"to-read", "to-search"}
             \/ pc'[x] \in {"drop-cancel", "drop-end"}
             \/ InFlight(x)'
  <2>1. InFlight(x)' <=> InFlight(x)
    BY <1>0, <1>3, ReaderKeepsFlights, FlightsSame DEF LookStep
  <2>2. rooms' = rooms /\ InRoom(x)
    BY <1>1, <1>3 DEF LookStep, endings, InRoom
  <2>3. CASE x = s
    BY <1>0, <1>3, <2>1, <2>2, <2>3, ReaderStaysCurrent
  <2>4. CASE x # s
    <3>1. state'[x] = state[x] /\ pc'[x] = pc[x]
      BY <1>0, <1>3, <2>4, ReaderAlone DEF LookStep
    <3> QED
      BY <1>2, <2>1, <2>2, <3>1
  <2> QED
    BY <2>3, <2>4
<1>4. ASSUME NEW s \in Session, EndStep(s)
      PROVE  \/ state'[x] = "chatting" /\ pc'[x] \notin {"to-read", "to-search"}
             \/ pc'[x] \in {"drop-cancel", "drop-end"}
             \/ InFlight(x)'
  <2>1. rooms' \subseteq rooms /\ \A o \in rooms' : s \notin o.members
    BY <1>4, EndRemoves
  <2>2. x # s /\ InRoom(x)
    BY <1>1, <2>1 DEF InRoom
  <2>3. state'[x] = state[x] /\ pc'[x] = pc[x]
    BY <1>0, <1>4, <2>2, ReaderAlone DEF EndStep
  <2>4. InFlight(x)' <=> InFlight(x)
    BY <1>0, <1>4, ReaderKeepsFlights, FlightsSame DEF EndStep
  <2> QED
    BY <1>0, <2>2, <2>3, <2>4 DEF Current
<1>5. ASSUME NEW t \in Ticket, EnterStep(t)
      PROVE  \/ state'[x] = "chatting" /\ pc'[x] \notin {"to-read", "to-search"}
             \/ pc'[x] \in {"drop-cancel", "drop-end"}
             \/ InFlight(x)'
  <2>1. /\ OnTheWay(t)' /\ result' = result /\ RoomOf(t).members = result[t].members
        /\ rooms' = rooms \/ rooms' = rooms \cup {RoomOf(t)}
    BY <1>5, EnterAdds
  <2>2. UNCHANGED <<chan, state, pc>> /\ \A u \in Ticket : u # t => await'[u] = await[u]
    BY <1>0, <1>5 DEF EnterStep, matchVars, FlightInv, DispatchInv, ConnTypes
  <2>3. InFlight(x) => InFlight(x)'
    BY <2>1, <2>2 DEF InFlight, OnTheWay
  <2>4. CASE x \in result[t].members
    <3>1. InFlight(x)'
      BY <2>1, <2>4 DEF InFlight, OnTheWay
    <3> QED
      BY <3>1
  <2>5. CASE x \notin result[t].members
    <3>1. InRoom(x)
      BY <1>1, <2>1, <2>5 DEF InRoom
    <3> QED
      BY <1>0, <2>2, <2>3, <3>1 DEF Current
  <2> QED
    BY <2>4, <2>5
<1>6. ASSUME NEW t \in Ticket, GoOnStep(t)
      PROVE  \/ state'[x] = "chatting" /\ pc'[x] \notin {"to-read", "to-search"}
             \/ pc'[x] \in {"drop-cancel", "drop-end"}
             \/ InFlight(x)'
  <2>1. /\ UNCHANGED <<chan, result, owner, pc>>
        /\ \A u \in Ticket : u # t => await'[u] = await[u] /\ (OnTheWay(u)' <=> OnTheWay(u))
        /\ OnTheWay(t) /\ ~OnTheWay(t)' => await[t] = "tell"
        /\ state'[x] = state[x] \/ (state'[x] = "chatting" /\ x = owner[t] /\ OnTheWay(t))
    BY <1>0, <1>6, GoOnFlights
  <2>2. InFlight(x) => pc[x] \in {"read", "announce", "relay"}
    BY <1>0 DEF InPlace, Held
  <2>3. CASE state'[x] # state[x]
    <3>1. InFlight(x)
      BY <1>0, <2>1, <2>3, OwnerIsHeld DEF FlightInv, DispatchInv
    <3> QED
      BY <2>1, <2>2, <2>3, <3>1
  <2>4. CASE state'[x] = state[x] /\ (InFlight(x) => InFlight(x)')
    BY <1>2, <1>6, <2>1, <2>4 DEF GoOnStep, endings
  <2>5. CASE state'[x] = state[x] /\ InFlight(x) /\ ~InFlight(x)'
    <3>1. x \in result[t].members /\ OnTheWay(t) /\ ~OnTheWay(t)'
      BY <2>1, <2>5 DEF InFlight, OnTheWay
    <3>2. CASE state[x] = "chatting"
      BY <2>1, <2>2, <2>5, <3>2
    <3>3. ASSUME NEW u \in Ticket, OnTheWay(u), owner[u] = x, await[u] \in {"none", "wait"}
          PROVE  InFlight(x)'
      <4>1. u # t
        BY <2>1, <3>1, <3>3
      <4>2. x \in result[u].members
        BY <1>0, <3>3, OwnerIsHeld DEF FlightInv, DispatchInv
      <4>3. OnTheWay(u)' /\ x \in result'[u].members
        BY <2>1, <3>3, <4>1, <4>2
      <4> QED
        BY <4>3 DEF InFlight, OnTheWay
    <3> QED
      BY <1>0, <3>1, <3>2, <3>3 DEF BothFollow
  <2> QED
    BY <2>1, <2>3, <2>4, <2>5
<1>7. ASSUME NEW s \in Session, NEW u \in Session, NEW p \in Ticket, NEW q \in Ticket, TakeOff(s, u, p, q)
      PROVE  \/ state'[x] = "chatting" /\ pc'[x] \notin {"to-read", "to-search"}
             \/ pc'[x] \in {"drop-cancel", "drop-end"}
             \/ InFlight(x)'
  <2>1. InFlight(x) => InFlight(x)'
    BY <1>0, <1>7, TakeOffFlights
  <2>2. UNCHANGED <<rooms, state, pc>>
    BY <1>7 DEF TakeOff, roomVars, connVars
  <2> QED
    BY <1>2, <2>1, <2>2
<1>8. ASSUME RestStep \/ StayStep, rooms' = rooms
      PROVE  \/ state'[x] = "chatting" /\ pc'[x] \notin {"to-read", "to-search"}
             \/ pc'[x] \in {"drop-cancel", "drop-end"}
             \/ InFlight(x)'
  <2>1. SameFlights /\ UNCHANGED <<state, pc>>
    BY <1>8 DEF RestStep, StayStep, SameFlights, matchVars, connVars
  <2>2. InFlight(x)' <=> InFlight(x)
    BY <2>1, FlightsSame
  <2> QED
    BY <1>2, <1>8, <2>1, <2>2
<1>9. ~ShutDown
  BY <1>1 DEF ShutDown, R!CloseAllRooms, InRoom
<1> QED
  BY <1>0, <1>3, <1>4, <1>5, <1>6, <1>7, <1>8, <1>9, Kinds DEF Stepping, Unchanging

LEMMA BothFollowStep ==
  ASSUME Settled, SettledInv, [DNext]_dvars
  PROVE  BothFollow'
<1>0. /\ FlightInv /\ FlightInv' /\ BothFollow /\ DispatchInv /\ QueueInv
      /\ state \in [Session -> {"idle", "searching", "chatting"}]
  BY FlightStep DEF SettledInv, FlightInv, DispatchInv, ConnTypes, RoomsSettled
<1>1. SUFFICES ASSUME NEW t \in Ticket, OnTheWay(t)', NEW x \in result'[t].members
               PROVE  \/ state'[x] = "chatting"
                      \/ \E u \in Ticket : OnTheWay(u)' /\ owner'[u] = x /\ await'[u] \in {"none", "wait"}
  BY DEF BothFollow
<1>2. ASSUME OnTheWay(t), x \in result[t].members
      PROVE  /\ x \in Session /\ InFlight(x)
             /\ \/ state[x] = "chatting"
                \/ \E u \in Ticket : OnTheWay(u) /\ owner[u] = x /\ await[u] \in {"none", "wait"}
  BY <1>0, <1>2, OwnerIsHeld DEF BothFollow
<1>3. CASE Stepping
  <2>1. OnTheWay(t) /\ x \in result[t].members
    BY <1>0, <1>1, <1>3, SteppingShrinks
  <2>2. x \in Session /\ InFlight(x)
    BY <1>2, <2>1
  <2>3. ASSUME NEW s \in Session, LookStep(s) \/ EndStep(s)
        PROVE  \/ state'[x] = "chatting"
               \/ \E u \in Ticket : OnTheWay(u)' /\ owner'[u] = x /\ await'[u] \in {"none", "wait"}
    <3>1. SearchStep(s) \/ MoveStep(s)
      BY <2>3 DEF LookStep, EndStep
    <3>2. state'[x] = state[x]
      BY <1>0, <2>2, <3>1, ReaderAlone, ReaderInPlace
    <3>3. SameFlights
      BY <1>0, <3>1, ReaderKeepsFlights
    <3>4. \A u \in Ticket : OnTheWay(u) => OnTheWay(u)' /\ owner'[u] = owner[u]
      BY <3>3, FlightsSame DEF SameFlights, OnTheWay
    <3>5. \A u \in Ticket : await[u] \in {"none", "wait"} => await'[u] \in {"none", "wait"}
      BY <1>0, <3>1 DEF SearchStep, MoveStep, Connect, SearchBanned, SearchEnqueue, Announce, Cancel,
         CancelRemove, Unannounced, BackToIdle, Disconnect, DropSearch, DispatchInv, ConnTypes
    <3> QED
      BY <1>2, <2>1, <3>2, <3>4, <3>5
  <2>4. ASSUME NEW v \in Ticket, EnterStep(v)
        PROVE  \/ state'[x] = "chatting"
               \/ \E u \in Ticket : OnTheWay(u)' /\ owner'[u] = x /\ await'[u] \in {"none", "wait"}
    <3>1. UNCHANGED <<chan, owner, state>> /\ await[v] = "register"
          /\ \A u \in Ticket : u # v => await'[u] = await[u]
      BY <1>0, <2>4 DEF EnterStep, matchVars, DispatchInv, ConnTypes
    <3> QED
      BY <1>2, <2>1, <3>1 DEF OnTheWay
  <2>5. ASSUME NEW v \in Ticket, GoOnStep(v)
        PROVE  \/ state'[x] = "chatting"
               \/ \E u \in Ticket : OnTheWay(u)' /\ owner'[u] = x /\ await'[u] \in {"none", "wait"}
    <3>1. /\ UNCHANGED <<chan, result, owner, pc>>
          /\ \A u \in Ticket : u # v => await'[u] = await[u] /\ (OnTheWay(u)' <=> OnTheWay(u))
          /\ OnTheWay(v) /\ ~OnTheWay(v)' => await[v] = "tell"
          /\ OnTheWay(v) /\ OnTheWay(v)' => AwaitMatched(v)
          /\ state'[x] = state[x] \/ state'[x] = "chatting"
      BY <1>0, <2>2, <2>5, GoOnFlights
    <3>2. ASSUME OnTheWay(v), owner[v] = x, await[v] \in {"none", "wait"} PROVE state'[x] = "chatting"
      <4>1. AwaitMatched(v)
        BY <3>1, <3>2
      <4> QED
        BY <1>0, <2>2, <3>2, <4>1 DEF AwaitMatched
    <3>3. ASSUME NEW u \in Ticket, OnTheWay(u), owner[u] = x, await[u] \in {"none", "wait"}, u # v
          PROVE  OnTheWay(u)' /\ owner'[u] = x /\ await'[u] \in {"none", "wait"}
      BY <3>1, <3>3
    <3> QED
      BY <1>2, <2>1, <3>1, <3>2, <3>3
  <2>6. ASSUME RestStep \/ StayStep
        PROVE  \/ state'[x] = "chatting"
               \/ \E u \in Ticket : OnTheWay(u)' /\ owner'[u] = x /\ await'[u] \in {"none", "wait"}
    <3>1. SameFlights /\ UNCHANGED <<state, await, owner>>
      BY <2>6 DEF RestStep, StayStep, SameFlights, matchVars, connVars
    <3>2. \A u \in Ticket : OnTheWay(u)' <=> OnTheWay(u)
      BY <3>1, FlightsSame
    <3> QED
      BY <1>2, <2>1, <3>1, <3>2
  <2>7. ~ShutDown
    BY <1>0, <2>1, ShutDownWaits
  <2> QED
    BY <1>3, <2>3, <2>4, <2>5, <2>6, <2>7 DEF Stepping, Unchanging
<1>4. ASSUME NEW s \in Session, NEW w \in Session, NEW p \in Ticket, NEW q \in Ticket, TakeOff(s, w, p, q)
      PROVE  \/ state'[x] = "chatting"
             \/ \E u \in Ticket : OnTheWay(u)' /\ owner'[u] = x /\ await'[u] \in {"none", "wait"}
  <2>0. /\ \A v \in Ticket : v \notin {p, q} => (OnTheWay(v)' <=> OnTheWay(v)) /\ result'[v] = result[v]
        /\ \A v \in {p, q} : OnTheWay(v)' /\ result'[v] = [id |-> paired + 1, members |-> {s, w}]
    BY <1>0, <1>4, TakeOffFlights
  <2>1. UNCHANGED <<owner, state, await>> /\ Departs(s, p) /\ Departs(w, q)
    BY <1>4 DEF TakeOff, connVars
  <2>2. CASE t \in {p, q}
    <3>1. x \in {s, w}
      BY <1>1, <2>0, <2>2
    <3> QED
      BY <2>0, <2>1, <3>1 DEF Departs
  <2>3. CASE t \notin {p, q}
    <3>1. OnTheWay(t) /\ x \in result[t].members
      BY <1>1, <2>0, <2>3
    <3>2. \A v \in Ticket : OnTheWay(v) => v \notin {p, q}
      BY <2>1 DEF OnTheWay, Departs
    <3> QED
      BY <1>2, <2>0, <2>1, <3>1, <3>2
  <2> QED
    BY <2>2, <2>3
<1> QED
  BY <1>0, <1>3, <1>4, Kinds

LEMMA SettledStep == Settled /\ SettledInv /\ [DNext]_dvars => SettledInv'
<1> SUFFICES ASSUME Settled, SettledInv, [DNext]_dvars PROVE SettledInv'
  OBVIOUS
<1>1. FlightInv'
  BY FlightStep DEF SettledInv
<1>2. RP!RoomsInv'
  <2>1. DispatchInv /\ RP!RoomsInv
    BY DEF SettledInv, FlightInv
  <2> QED
    BY <2>1, RoomsStep, RoomsInvStep
<1>3. RoomsSettled'
  BY RegisteredStep, OneRoomStep, MappedStep, CurrentStep, RoomOfFlightStep, BothFollowStep
  DEF RoomsSettled
<1> QED
  BY <1>1, <1>2, <1>3 DEF SettledInv

LEMMA SettledInitially == DInit => SettledInv
<1> SUFFICES ASSUME DInit PROVE SettledInv
  OBVIOUS
<1>1. FlightInv
  BY FlightInitially
<1>2. RP!RoomsInv
  BY RoomsInvInitially DEF DInit
<1>3. RoomsSettled
  BY DEF DInit, Init, R!Init, RoomsSettled, FlightsRegistered, OneRoomPerMatch, RoomsMapped, Current,
         InRoom, RoomOfFlight, BothFollow, OnTheWay
<1> QED
  BY <1>1, <1>2, <1>3 DEF SettledInv

LEMMA AlwaysSettled == Settled => (DSpec => []SettledInv)
<1> SUFFICES ASSUME Settled PROVE DSpec => []SettledInv
  OBVIOUS
<1>1. SettledInv /\ [DNext]_dvars => SettledInv'
  BY SettledStep
<1> QED
  BY <1>1, SettledInitially, PTL DEF DSpec

\* Outside the windows the goroutines of two partners never bring two room objects of one
\* match into the registry: the second finds the first, which nobody ends before both are
\* through.  In the window somebody may, and the code then brings the room back.
THEOREM OneRoomOnly == Settled => (DSpec => []OneRoomPerMatch)
<1> SUFFICES ASSUME Settled PROVE DSpec => []OneRoomPerMatch
  OBVIOUS
<1>1. SettledInv => OneRoomPerMatch
  BY DEF SettledInv, RoomsSettled
<1> QED
  BY <1>1, AlwaysSettled, PTL

\* Outside the windows each member of a registered room is mapped to it, and could end it.
THEOREM RoomsHaveMembers == Settled => (DSpec => []NoOrphanRoom)
<1> SUFFICES ASSUME Settled PROVE DSpec => []NoOrphanRoom
  OBVIOUS
<1>1. SettledInv => NoOrphanRoom
  BY DEF SettledInv, RoomsSettled, RoomsMapped, NoOrphanRoom
<1> QED
  BY <1>1, AlwaysSettled, PTL

\* When the shutdown begins with no match under way, the sockets that CloseAllConnections
\* closes leave no room behind once their readers have cleaned up: who has gone is in no
\* registered room, those of matches made after the sweep included.
THEOREM ShutdownLeavesNoRooms == Settled => (DSpec => []ShutdownEndsRooms)
<1> SUFFICES ASSUME Settled PROVE DSpec => []ShutdownEndsRooms
  OBVIOUS
<1>1. SettledInv => ShutdownEndsRooms
  <2> SUFFICES ASSUME SettledInv, Quiet, NEW o \in rooms, NEW s \in cut, s \in o.members
               PROVE  FALSE
    BY DEF ShutdownEndsRooms
  <2>1. s \in Session
    BY RegistryFacts DEF SettledInv, R!TypeOK, R!ChatRoom
  <2>2. pc[s] = "gone"
    BY <2>1 DEF Quiet
  <2>3. InPlace(s) /\ Current(s) /\ InRoom(s)
    BY <2>1 DEF SettledInv, FlightInv, RoomsSettled, InRoom
  <2> QED
    BY <2>2, <2>3 DEF InPlace, Held, Current
<1> QED
  BY <1>1, AlwaysSettled, PTL
----------------------------------------------------------------------------
(* Envelopes: what the handlers hold, and what the last word to a session   *)
(* was.                                                                     *)

\* A handler holds a room that its own session was in.
HeldIsOwn(s) ==
  held[s] # Nil => pc[s] \in {"relay", "report"} /\ held[s] \in opened /\ s \in held[s].members

\* Rooms are closed by members who leave them, and by main; all others are told.
Closers ==
  /\ \A t \in Ticket : closing[t] = Nil
  /\ \A s \in Session : closing[s] # Nil => pc[s] \in Outward /\ s \in closing[s].obj.members
  /\ \A c \in Session \cup {Main} :
       closing[c] # Nil /\ ~closing[c].marked => closing[c].obj.members \ {c} \subseteq closing[c].to
  /\ server # "sweeping" => draining = {} /\ closing[Main] = Nil

\* A search that is not announced is under way with the ticket that is not waited on.
Announcing(s) ==
  pc[s] = "announce" =>
    /\ state[s] = "searching"
    /\ \E t \in Ticket : Unannounced(s, t) /\ (byID[s] = t \/ chan[t] = "sent")
Unwatched ==
  \A t, u \in Ticket : owner[t] # Nil /\ await[t] = "none" =>
    /\ pc[owner[t]] = "announce"
    /\ owner[u] = owner[t] /\ await[u] = "none" => u = t

HandlersInv ==
  /\ \A s \in Session : HeldIsOwn(s)
  /\ Closers
  /\ \A s \in Session : Announcing(s)
  /\ Unwatched

\* The end of a room of s is on its way to him.
Pending(s) ==
  \/ \E c \in Session \cup {Main} : closing[c] # Nil /\ s \in closing[c].to
  \/ \E o \in draining : s \in o.members
Changing(s) == pc[s] \in {"to-read", "to-search"}

\* Who chats has a room, will be told of its end, or has been.
Noticed(s) ==
  s \in alive /\ state[s] = "chatting" =>
    \/ sessionToRoom[s] # Nil \/ InFlight(s)
    \/ Pending(s) \/ Changing(s)
    \/ Told(s, "peer_left") \/ Told(s, "error")

\* Who was told of a match, or of a line in it, is in that room, or its end is on its
\* way to him.
WordsHold(s) ==
  s \in alive /\ state[s] # "idle" /\ (Told(s, "matched") \/ Told(s, "peer_msg")) =>
    \/ \E o \in rooms : s \in o.members /\ o.members = wire[s].obj.members
    \/ Pending(s) \/ Changing(s)
    \/ pc[s] = "announce"

WordsInv == \A s \in Session : Noticed(s) /\ WordsHold(s)

\* A reader that has left a chat waits for the end of its Close.
LEMMA OutwardWaits ==
  ASSUME FlightInv, NEW s \in Session, SearchStep(s) \/ MoveStep(s), pc[s] \in Outward
  PROVE  closing[s] = Nil
BY DEF SearchStep, MoveStep, Moves, Connect, SearchBanned, SearchEnqueue, Announce, Cancel, CancelRemove,
       BackToIdle, Disconnect, DropSearch, Searches, Receives, Reads, Outward

\* Which steps end rooms, and which leave all endings alone.
Closing(c) == R!CloseStep(c) /\ UNCHANGED <<matchVars, connVars>>
Draining == (\E o \in draining : R!DrainNext(o)) /\ UNCHANGED <<matchVars, connVars>>
Entering(t) == EnterStep(t) /\ UNCHANGED <<closed, closing, draining>>
EndingSame == UNCHANGED endings /\ \A s \in Session : pc'[s] = pc[s] \/ LookStep(s)

LEMMA EndingKinds ==
  ASSUME Settled, FlightInv, [DNext]_dvars
  PROVE  \/ EndingSame
         \/ \E s \in Session : EndStep(s)
         \/ \E t \in Ticket : Entering(t)
         \/ \E c \in Session \cup Ticket \cup {Main} : Closing(c)
         \/ Draining
         \/ ShutDown \/ CloseAllConnections
<1> USE DEF roomVars, connVars, matchVars, rest, endings
<1>1. ASSUME NEW s \in Session, LookStep(s) PROVE EndingSame
  BY <1>1, ReaderAlone DEF LookStep, EndingSame
<1>2. ASSUME NEW t \in Ticket, GoOnStep(t) PROVE EndingSame
  <2>1. UNCHANGED <<pc, endings>>
    BY <1>2 DEF GoOnStep, AwaitMatchStep, AwaitCancelled, AwaitMatched, AwaitTeardown, AwaitRegister, AwaitTell,
                AwaitEnd
  <2> QED
    BY <2>1 DEF EndingSame
<1>3. ASSUME NEW t \in Ticket, EnterStep(t) PROVE Entering(t)
  BY <1>3 DEF EnterStep, Entering, R!RegisterRoomIfNew
<1>4. ASSUME MatcherStep \/ UNCHANGED dvars PROVE EndingSame
  BY <1>4 DEF MatcherStep, dvars, EndingSame
<1>5. ASSUME NEW c, CloseRoom(c) PROVE Closing(c)
  BY <1>5 DEF CloseRoom, Closing
<1>6. CloseNextRoom => Draining
  BY DEF CloseNextRoom, Draining
<1> QED
  BY <1>1, <1>2, <1>3, <1>4, <1>5, <1>6, ReaderRegistry, AwaitRegistry DEF DNext, Reader, Awaiter

\* What taking out a room starts.
LEMMA EndCloses ==
  ASSUME SettledInv, NEW s \in Session, EndStep(s)
  PROVE  /\ UNCHANGED <<closed, draining, server>> /\ pc'[s] \in Outward /\ closing[s] = Nil
         /\ \A x \in Session : x # s => pc'[x] = pc[x]
         /\ \/ closing' = closing /\ rooms' = rooms
            \/ \E o \in rooms, to \in SUBSET Session :
                 /\ s \in o.members /\ o.members \ {s} \subseteq to /\ rooms' = rooms \ {o}
                 /\ closing' = [closing EXCEPT ![s] = [obj |-> o, to |-> to, marked |-> FALSE]]
<1>1. PICK reason : R!EndRoomIfAny(s, s, reason)
  BY DEF EndStep
<1>2. \A x \in Session : x # s => pc'[x] = pc[x]
  BY ReaderAlone DEF EndStep, SettledInv
<1>3. CASE sessionToRoom[s] = Nil
  BY <1>1, <1>2, <1>3 DEF R!EndRoomIfAny, EndStep
<1>4. CASE sessionToRoom[s] # Nil
  <2>1. PICK o \in rooms : /\ R!Unlink(o)
                          /\ closing' = [closing EXCEPT ![s] =
                               [obj |-> o, to |-> R!PeerLeftTo(o, s, reason), marked |-> FALSE]]
    BY <1>1, <1>4 DEF R!EndRoomIfAny
  <2>2. rooms' = rooms \ {o}
    BY <2>1 DEF R!Unlink
  <2>3. s \in o.members
    BY <2>2, EndRemoves
  <2>4. o.members \subseteq Session
    BY RegistryFacts DEF SettledInv, R!TypeOK, R!ChatRoom
  <2>5. R!PeerLeftTo(o, s, reason) \in SUBSET Session /\ o.members \ {s} \subseteq R!PeerLeftTo(o, s, reason)
    BY <2>4 DEF R!PeerLeftTo
  <2> QED
    BY <1>1, <1>2, <2>1, <2>2, <2>3, <2>5 DEF R!EndRoomIfAny, EndStep
<1> QED
  BY <1>3, <1>4

\* A closing goroutine marks the room closed, or tells one of those it has to tell.
LEMMA CloseForward ==
  ASSUME SettledInv, NEW c \in Session \cup Ticket \cup {Main}, Closing(c)
  PROVE  /\ UNCHANGED <<rooms, sessionToRoom, opened, draining, matchVars, connVars>>
         /\ closing[c] # Nil
         /\ \A d \in Session \cup Ticket \cup {Main} : d # c => closing'[d] = closing[d]
         /\ closing'[c] # Nil => closing'[c].marked /\ closing'[c].obj = closing[c].obj
         /\ \/ /\ wire' = wire
               /\ closing'[c] # Nil /\ closing'[c].to = closing[c].to
            \/ \E s \in Session :
                 /\ wire' = [wire EXCEPT ![s] = [kind |-> "peer_left", obj |-> closing[c].obj]]
                 /\ closing[c].to \ {s} # {} => closing'[c] # Nil /\ closing'[c].to = closing[c].to \ {s}
<1>1. /\ R!TypeOK /\ R!ClosedOnce
  BY RegistryFacts DEF SettledInv
<1>2. closing \in [Session \cup Ticket \cup {Main} -> R!Closing \cup {Nil}]
  BY <1>1 DEF R!TypeOK, Reader, Awaiter
<1>3. CASE R!MarkClosed(c)
  <2>1. closing[c] # Nil /\ ~closing[c].marked /\ closing[c].obj \notin closed
    BY <1>1, <1>3 DEF R!MarkClosed, R!ClosedOnce, Reader, Awaiter
  <2>2. closing[c] \in R!Closing
    BY <1>2, <2>1
  <2>3. closing' = [closing EXCEPT ![c].marked = TRUE]
    BY <1>3, <2>1 DEF R!MarkClosed
  <2>4. closing'[c] \in R!Closing
    BY <1>2, <2>2, <2>3 DEF R!Closing
  <2>5. closing'[c] # Nil
    BY <2>4, NilAssumption
  <2>6. closing'[c].marked /\ closing'[c].obj = closing[c].obj /\ closing'[c].to = closing[c].to
    BY <1>2, <2>2, <2>3 DEF R!Closing
  <2> QED
    BY <1>2, <1>3, <2>1, <2>3, <2>5, <2>6 DEF R!MarkClosed, R!registry, Closing
<1>4. CASE \E s \in Session : R!SendPeerLeft(c, s)
  <2>1. PICK s \in Session : R!SendPeerLeft(c, s)
    BY <1>4
  <2>2. closing[c] # Nil /\ closing[c] \in R!Closing
    BY <1>2, <2>1 DEF R!SendPeerLeft
  <2>3. CASE closing[c].to \ {s} = {}
    BY <1>2, <2>1, <2>2, <2>3 DEF R!SendPeerLeft, R!registry, Closing
  <2>4. CASE closing[c].to \ {s} # {}
    <3>1. closing' = [closing EXCEPT ![c] = [obj |-> closing[c].obj, to |-> closing[c].to \ {s}, marked |-> TRUE]]
      BY <2>1, <2>4 DEF R!SendPeerLeft
    <3>2. closing'[c] = [obj |-> closing[c].obj, to |-> closing[c].to \ {s}, marked |-> TRUE]
      BY <1>2, <3>1
    <3>3. closing[c].obj \in R!ChatRoom /\ closing[c].to \ {s} \in SUBSET Session
      BY <2>2 DEF R!Closing
    <3>4. closing'[c] \in R!Closing
      BY <3>2, <3>3 DEF R!Closing
    <3>5. closing'[c] # Nil
      BY <3>4, NilAssumption
    <3>6. closing'[c].marked /\ closing'[c].obj = closing[c].obj /\ closing'[c].to = closing[c].to \ {s}
      BY <3>2
    <3>7. UNCHANGED <<rooms, sessionToRoom, opened, draining, matchVars, connVars>>
      BY <2>1 DEF R!SendPeerLeft, R!registry, Closing
    <3>8. wire' = [wire EXCEPT ![s] = [kind |-> "peer_left", obj |-> closing[c].obj]]
      BY <2>1 DEF R!SendPeerLeft
    <3>9. \A d \in Session \cup Ticket \cup {Main} : d # c => closing'[d] = closing[d]
      BY <1>2, <3>1
    <3> QED
      BY <2>2, <3>5, <3>6, <3>7, <3>8, <3>9
  <2> QED
    BY <2>3, <2>4
<1> QED
  BY <1>3, <1>4 DEF Closing, R!CloseStep

LEMMA ClosersStep ==
  ASSUME Settled, SettledInv, Closers, [DNext]_dvars
  PROVE  Closers'
<1>0. /\ FlightInv /\ Main \notin Session \cup Ticket /\ \A t \in Ticket : t \notin Session
      /\ closing \in [Session \cup Ticket \cup {Main} -> R!Closing \cup {Nil}]
  BY RegistryFacts, DispatchAssumption
  DEF SettledInv, R!TypeOK, Reader, Awaiter
<1> USE DEF Closers
<1>1. CASE EndingSame
  <2>1. UNCHANGED <<closing, draining, server>>
    BY <1>1 DEF EndingSame, endings
  <2>2. ASSUME NEW s \in Session, closing[s] # Nil PROVE pc'[s] = pc[s]
    <3>1. pc[s] \in Outward
      BY <2>2
    <3>2. ~LookStep(s)
      BY <1>0, <2>2, <3>1, OutwardWaits DEF LookStep
    <3> QED
      BY <1>1, <3>2 DEF EndingSame
  <2> QED
    BY <2>1, <2>2
<1>2. ASSUME NEW s \in Session, EndStep(s) PROVE Closers'
  <2>1. /\ UNCHANGED <<closed, draining, server>> /\ pc'[s] \in Outward
        /\ \A x \in Session : x # s => pc'[x] = pc[x]
    BY <1>2, EndCloses
  <2>2. CASE closing' = closing
    BY <2>1, <2>2
  <2>3. CASE closing' # closing
    <3>1. PICK o \in rooms, to \in SUBSET Session :
            /\ s \in o.members /\ o.members \ {s} \subseteq to
            /\ closing' = [closing EXCEPT ![s] = [obj |-> o, to |-> to, marked |-> FALSE]]
      BY <1>2, <2>3, EndCloses
    <3>2. closing'[s] = [obj |-> o, to |-> to, marked |-> FALSE]
          /\ \A d \in Session \cup Ticket \cup {Main} : d # s => closing'[d] = closing[d]
      BY <1>0, <3>1
    <3>3. Main # s /\ s \notin Ticket
      BY <1>0
    <3> QED
      BY <2>1, <3>1, <3>2, <3>3
  <2> QED
    BY <2>2, <2>3
<1>3. ASSUME NEW t \in Ticket, Entering(t) PROVE Closers'
  BY <1>3 DEF Entering, EnterStep
<1>4. ASSUME NEW c \in Session \cup Ticket \cup {Main}, Closing(c) PROVE Closers'
  <2>1. /\ UNCHANGED <<draining, connVars>> /\ closing[c] # Nil
        /\ \A d \in Session \cup Ticket \cup {Main} : d # c => closing'[d] = closing[d]
        /\ closing'[c] # Nil => closing'[c].marked /\ closing'[c].obj = closing[c].obj
    BY <1>4, CloseForward DEF SettledInv
  <2>2. UNCHANGED <<pc, server>>
    BY <2>1 DEF connVars, rest
  <2> QED
    BY <1>0, <2>1, <2>2
<1>5. CASE Draining
  <2>1. PICK o \in draining : R!DrainNext(o)
    BY <1>5 DEF Draining
  <2>2. server = "sweeping" /\ UNCHANGED <<pc, server>>
    BY <1>5, <2>1 DEF Draining, connVars, rest
  <2>3. closing'[Main] = [obj |-> o, to |-> o.members, marked |-> FALSE]
        /\ \A d \in Session \cup Ticket : closing'[d] = closing[d]
    BY <1>0, <2>1 DEF R!DrainNext
  <2> QED
    BY <1>0, <2>2, <2>3
<1>6. CASE ShutDown
  BY <1>6 DEF ShutDown, R!CloseAllRooms
<1>7. CASE CloseAllConnections
  BY <1>7 DEF CloseAllConnections, roomVars
<1> QED
  BY <1>0, <1>1, <1>2, <1>3, <1>4, <1>5, <1>6, <1>7, EndingKinds

LEMMA OpenedGrows ==
  ASSUME Settled, SettledInv, [DNext]_dvars
  PROVE  opened \subseteq opened'
<1>1. ASSUME NEW s \in Session, EndStep(s) PROVE opened \subseteq opened'
  BY <1>1, EndRemoves
<1>2. ASSUME NEW t \in Ticket, EnterStep(t) PROVE opened \subseteq opened'
  BY <1>2, EnterAdds
<1>3. ASSUME NEW c \in Session \cup Ticket \cup {Main}, Closing(c) PROVE opened \subseteq opened'
  BY <1>3, CloseForward
<1> QED
  BY <1>1, <1>2, <1>3, EndingKinds
  DEF SettledInv, Entering, EndingSame, endings, Draining, R!DrainNext, R!registry, ShutDown, R!CloseAllRooms,
      CloseAllConnections, roomVars

\* A handler that looks up a room finds one, and is done with it before it reads on.
LEMMA HeldMoves ==
  ASSUME Settled, FlightInv, R!TypeOK, [DNext]_dvars, NEW s \in Session
  PROVE  \/ held'[s] = Nil
         \/ held'[s] = held[s] /\ (pc[s] \in {"relay", "report"} => pc'[s] = pc[s])
         \/ /\ pc'[s] \in {"relay", "report"}
            /\ \E o \in rooms : o.id = sessionToRoom[s] /\ held'[s] = o
<1> USE DEF FlightInv, DispatchInv, ConnTypes, GoTo, roomVars, R!TypeOK
<1>1. ASSUME NEW x \in Session, ClientStep(x) \/ ReaderStep(x)
      PROVE  x # s => held'[s] = held[s] /\ pc'[s] = pc[s]
  <2>1. x # s => pc'[s] = pc[s]
    BY <1>1, ReaderMoves, ReaderAlone
  <2>2. \/ UNCHANGED held \/ held' = [held EXCEPT ![x] = Nil]
        \/ \E o \in rooms : held' = [held EXCEPT ![x] = o]
    BY <1>1
    DEF ClientStep, ReaderStep, Connect, Search, SearchBadTags, SearchBanned, SearchEnqueue, Refused, Refuse,
        Announce, Cancel, CancelRemove, Message, Report, RoomOp, Relay, ReportPartner, ReportEnd, Stop,
        NextPartner, EndChat, BackToIdle, Disconnect, DropSearch, DropRoom, R!SendOther, R!EndRoomIfAny,
        R!GetRoom, R!Relay, R!ReadMembers
  <2> QED
    BY <2>1, <2>2
<1>2. ASSUME ClientStep(s)
      PROVE  \/ held'[s] = held[s] /\ (pc[s] \in {"relay", "report"} => pc'[s] = pc[s])
             \/ /\ pc'[s] \in {"relay", "report"}
                /\ \E o \in rooms : o.id = sessionToRoom[s] /\ held'[s] = o
  <2>1. CASE Message(s) \/ Report(s)
    BY <2>1 DEF Message, Report, RoomOp, R!GetRoom
  <2>2. CASE ~Message(s) /\ ~Report(s)
    BY <1>2, <2>2
    DEF ClientStep, Connect, Search, SearchBadTags, SearchBanned, SearchEnqueue, Refused, Refuse, Cancel,
        Stop, NextPartner, EndChat, Disconnect, Searches, Receives, Reads, R!SendOther, R!EndRoomIfAny
  <2> QED
    BY <2>1, <2>2
<1>3. ASSUME ReaderStep(s)
      PROVE  \/ held'[s] = Nil
             \/ held'[s] = held[s] /\ (pc[s] \in {"relay", "report"} => pc'[s] = pc[s])
  <2>1. CASE Relay(s) \/ ReportPartner(s)
    BY <2>1 DEF Relay, ReportPartner, R!Relay, R!ReadMembers
  <2>2. CASE ~Relay(s) /\ ~ReportPartner(s)
    BY <1>3, <2>2
    DEF ReaderStep, Announce, CancelRemove, ReportEnd, EndChat, BackToIdle, DropSearch, DropRoom,
        R!SendOther, R!EndRoomIfAny
  <2> QED
    BY <2>1, <2>2
<1>4. ASSUME NEW t \in Ticket, AwaitMatchStep(t) PROVE UNCHANGED <<held, pc>>
  BY <1>4 DEF AwaitMatchStep, AwaitCancelled, AwaitMatched, AwaitTeardown, AwaitRegister, AwaitTell, AwaitEnd,
     R!RegisterRoomIfNew, R!SendOther, R!EndRoomIfAny
<1>5. ASSUME NEW c, CloseRoom(c) PROVE UNCHANGED <<held, pc>>
  BY <1>5 DEF CloseRoom, R!CloseStep, R!MarkClosed, R!SendPeerLeft, connVars
<1>6. ASSUME ShutDown \/ CloseNextRoom \/ CloseAllConnections \/ MatcherStep \/ UNCHANGED dvars
      PROVE  UNCHANGED <<held, pc>>
  BY <1>6 DEF ShutDown, CloseNextRoom, CloseAllConnections, MatcherStep, dvars, connVars, R!CloseAllRooms,
     R!DrainNext
<1> QED
  BY <1>1, <1>2, <1>3, <1>4, <1>5, <1>6 DEF DNext

LEMMA HeldStep ==
  ASSUME Settled, SettledInv, [DNext]_dvars, NEW s \in Session, HeldIsOwn(s)
  PROVE  HeldIsOwn(s)'
<1>0. /\ FlightInv /\ R!TypeOK /\ R!RoomIndexSound /\ R!OneObjectPerId /\ rooms \subseteq opened
      /\ opened \subseteq opened'
  BY RegistryFacts, OpenedGrows DEF SettledInv
<1>1. ASSUME NEW o \in rooms, o.id = sessionToRoom[s] PROVE s \in o.members
  <2>1. o.id \in Ticket
    BY <1>0 DEF R!TypeOK, R!ChatRoom
  <2>2. sessionToRoom[s] # Nil
    BY <1>1, <2>1, NilAssumption
  <2> QED
    BY <1>0, <1>1, <2>2 DEF R!RoomIndexSound, R!OneObjectPerId
<1>2. \/ held'[s] = Nil
      \/ held'[s] = held[s] /\ (pc[s] \in {"relay", "report"} => pc'[s] = pc[s])
      \/ /\ pc'[s] \in {"relay", "report"}
         /\ \E o \in rooms : o.id = sessionToRoom[s] /\ held'[s] = o
  BY <1>0, HeldMoves
<1> QED
  BY <1>0, <1>1, <1>2 DEF HeldIsOwn

LEMMA AnnouncedStep ==
  ASSUME Settled, FlightInv, \A s \in Session : Announcing(s), Unwatched, [DNext]_dvars
  PROVE  (\A s \in Session : Announcing(s)') /\ Unwatched'
<1> USE DEF FlightInv, DispatchInv, QueueInv, ConnTypes, TypeOK, GoTo
<1>0. \A t \in Ticket : t # 0
  BY MatchQueueAssumption DEF Ticket
<1>1. ASSUME NEW s \in Session, SearchStep(s) \/ MoveStep(s), ~SearchEnqueue(s), ~Announce(s)
      PROVE  (\A x \in Session : Announcing(x)') /\ Unwatched'
  <2>1. UNCHANGED <<owner, await>> /\ SameFlights
    BY <1>1, ReaderKeepsFlights
    DEF SearchStep, MoveStep, Connect, Join, SearchBanned, Cancel, CancelRemove, Remove, BackToIdle,
        Disconnect, Leave, DropSearch, matchVars
  <2>2. pc[s] # "announce" /\ pc'[s] # "announce"
    BY <1>1 DEF SearchStep, MoveStep, Moves, Connect, SearchBanned, Cancel, CancelRemove, BackToIdle,
       Disconnect, DropSearch, Searches, Receives, Reads
  <2>3. \A x \in Session : x # s => byID'[x] = byID[x] /\ state'[x] = state[x] /\ pc'[x] = pc[x]
    BY <1>1, ReaderAlone
  <2>4. ASSUME NEW x \in Session PROVE Announcing(x)'
    BY <2>1, <2>2, <2>3 DEF Announcing, Unannounced, SameFlights
  <2>5. Unwatched'
    BY <2>1, <2>2, <2>3 DEF Unwatched
  <2> QED
    BY <2>4, <2>5
<1>2. ASSUME NEW s \in Session, SearchEnqueue(s)
      PROVE  (\A x \in Session : Announcing(x)') /\ Unwatched'
  <2>1. PICK n \in Ticket : n = issued + 1
    BY <1>2, MatchQueueAssumption DEF SearchEnqueue, Enqueue, Ticket
  <2>2. /\ owner' = [owner EXCEPT ![n] = s] /\ byID' = [byID EXCEPT ![s] = n]
        /\ state' = [state EXCEPT ![s] = "searching"] /\ pc' = [pc EXCEPT ![s] = "announce"]
        /\ await' = await /\ pc[s] # "announce"
    BY <1>2, <2>1 DEF SearchEnqueue, Enqueue, Searches, Reads
  <2>3. owner[n] = Nil /\ await[n] = "none"
    BY <2>1, MatchQueueAssumption DEF DrawnInOrder, AwaitsInOrder
  <2>4. SameFlights
    BY <1>2, ReaderKeepsFlights DEF SearchStep
  <2>5. ASSUME NEW x \in Session PROVE Announcing(x)'
    <3>1. CASE x = s
      BY <2>2, <2>3, <3>1 DEF Announcing, Unannounced
    <3>2. CASE x # s
      <4>1. x # Nil
        BY MatchQueueAssumption
      <4> QED
        BY <2>2, <2>3, <2>4, <3>2, <4>1 DEF Announcing, Unannounced, SameFlights
    <3> QED
      BY <3>1, <3>2
  <2>6. Unwatched'
    BY <2>2, <2>3, MatchQueueAssumption DEF Unwatched
  <2> QED
    BY <2>5, <2>6
<1>3. ASSUME NEW s \in Session, Announce(s)
      PROVE  (\A x \in Session : Announcing(x)') /\ Unwatched'
  <2>1. PICK t \in Ticket : Unannounced(s, t) /\ await' = [await EXCEPT ![t] = "wait"]
    BY <1>3 DEF Announce
  <2>2. UNCHANGED <<matchVars, state>> /\ pc' = [pc EXCEPT ![s] = "read"]
    BY <1>3 DEF Announce
  <2>3. s # Nil
    BY MatchQueueAssumption
  <2>4. ASSUME NEW x \in Session PROVE Announcing(x)'
    BY <2>1, <2>2 DEF Announcing, Unannounced, matchVars
  <2>5. Unwatched'
    BY <2>1, <2>2, <2>3 DEF Unwatched, Unannounced, matchVars
  <2> QED
    BY <2>4, <2>5
<1>4. ASSUME NEW t \in Ticket, AwaitMatchStep(t)
      PROVE  (\A x \in Session : Announcing(x)') /\ Unwatched'
  <2>1. UNCHANGED <<matchVars, pc>>
    BY <1>4 DEF AwaitMatchStep, AwaitCancelled, AwaitMatched, AwaitTeardown, AwaitRegister, AwaitTell, AwaitEnd
  <2>2. /\ \A u \in Ticket : u # t => await'[u] = await[u]
        /\ await[t] # "none" /\ await'[t] # "none"
    BY <1>4 DEF AwaitMatchStep, AwaitCancelled, AwaitMatched, AwaitTeardown, AwaitRegister, AwaitTell,
       AwaitEnd, AwaitStep
  <2>3. \A x \in Session : state'[x] = state[x] \/ (AwaitMatched(t) /\ x = owner[t])
    BY <1>4 DEF AwaitMatchStep, AwaitCancelled, AwaitMatched, AwaitTeardown, AwaitRegister, AwaitTell, AwaitEnd
  <2>4. AwaitMatched(t) => pc[owner[t]] # "announce"
    <3> SUFFICES ASSUME AwaitMatched(t), pc[owner[t]] = "announce" PROVE FALSE
      OBVIOUS
    <3>1. OnTheWay(t) /\ await[t] = "wait"
      BY DEF AwaitMatched, AwaitStep, OnTheWay
    <3>2. owner[t] \in Session /\ owner[t] \in result[t].members /\ InFlight(owner[t])
      BY <3>1, OwnerIsHeld
    <3>3. byID[owner[t]] = 0
      BY <3>2 DEF InPlace, Held
    <3>4. PICK u \in Ticket : owner[u] = owner[t] /\ await[u] = "none" /\ chan[u] = "sent"
      BY <1>0, <3>2, <3>3 DEF Announcing, Unannounced
    <3>5. OnTheWay(u) /\ owner[u] \in result[u].members
      BY <3>4, OwnerIsHeld DEF OnTheWay
    <3>6. result[u] = result[t]
      BY <3>1, <3>2, <3>4, <3>5 DEF OneFlight
    <3>7. u = t
      BY <3>1, <3>2, <3>4, <3>5, <3>6 DEF RoomSentToItsPair, OnTheWay
    <3> QED
      BY <3>1, <3>4, <3>7
  <2>5. ASSUME NEW x \in Session PROVE Announcing(x)'
    BY <2>1, <2>2, <2>3, <2>4 DEF Announcing, Unannounced, matchVars
  <2>6. Unwatched'
    BY <2>1, <2>2 DEF Unwatched, matchVars
  <2> QED
    BY <2>5, <2>6
<1>5. ASSUME NEW t \in queue, DropDead(t), UNCHANGED <<roomVars, connVars>>
      PROVE  (\A x \in Session : Announcing(x)') /\ Unwatched'
  <2>1. /\ UNCHANGED <<owner, connVars>> /\ SameFlights
        /\ owner[t] \notin alive /\ Forget(owner[t])
    BY <1>5, DropRests DEF RestStep, DropDead
  <2>2. \A x \in Session : x \in alive => byID'[x] = byID[x]
    BY <2>1 DEF Forget
  <2>3. ASSUME NEW x \in Session PROVE Announcing(x)'
    <3>1. pc[x] = "announce" => x \in alive
      BY DEF InPlace, Absent
    <3> QED
      BY <2>1, <2>2, <3>1 DEF Announcing, Unannounced, SameFlights, connVars
  <2>4. Unwatched'
    BY <2>1 DEF Unwatched, connVars
  <2> QED
    BY <2>3, <2>4
<1>6. ASSUME NEW s \in Session, NEW w \in Session, NEW p \in Ticket, NEW q \in Ticket, TakeOff(s, w, p, q)
      PROVE  (\A x \in Session : Announcing(x)') /\ Unwatched'
  <2>1. /\ UNCHANGED <<owner, state, pc, await>> /\ byID[s] = p /\ byID[w] = q
        /\ byID' = [byID EXCEPT ![s] = 0, ![w] = 0]
        /\ chan' = [t \in Ticket |-> IF t \in {p, q} THEN "sent" ELSE chan[t]]
    BY <1>6 DEF TakeOff, Departs, connVars
  <2>2. ASSUME NEW x \in Session PROVE Announcing(x)'
    <3>1. \A t \in Ticket : byID[x] = t \/ chan[t] = "sent" => byID'[x] = t \/ chan'[t] = "sent"
      BY <2>1
    <3> QED
      BY <2>1, <3>1 DEF Announcing, Unannounced
  <2>3. Unwatched'
    BY <2>1 DEF Unwatched
  <2> QED
    BY <2>2, <2>3
<1>7. ASSUME StayStep PROVE (\A x \in Session : Announcing(x)') /\ Unwatched'
  <2>1. UNCHANGED <<owner, byID, chan, state, pc, await>>
    BY <1>7 DEF StayStep, matchVars
  <2> QED
    BY <2>1 DEF Announcing, Unannounced, Unwatched
<1>8. ASSUME NEW s \in Session, SearchStep(s) \/ MoveStep(s)
      PROVE  (\A x \in Session : Announcing(x)') /\ Unwatched'
  BY <1>1, <1>2, <1>3, <1>8
<1> QED
  BY <1>4, <1>5, <1>6, <1>7, <1>8, SettledKinds, MatcherTakesOff

LEMMA HandlersStep ==
  ASSUME Settled, SettledInv, HandlersInv, [DNext]_dvars
  PROVE  HandlersInv'
<1>1. Closers' /\ \A s \in Session : HeldIsOwn(s)'
  BY ClosersStep, HeldStep DEF HandlersInv
<1>2. (\A s \in Session : Announcing(s)') /\ Unwatched'
  BY AnnouncedStep DEF HandlersInv, SettledInv
<1> QED
  BY <1>1, <1>2 DEF HandlersInv

LEMMA HandlersInitially == DInit => HandlersInv
BY DEF DInit, Init, R!Init, HandlersInv, HeldIsOwn, Closers, Announcing, Unwatched, Reader, Awaiter

\* Every way an envelope gets into a Send buffer.
Heard(s) ==
  \/ /\ wire'[s] = Envelope("searching")
     /\ state'[s] = "searching" \/ (pc[s] = "announce" /\ state'[s] = state[s])
  \/ wire'[s] = Envelope("error")
  \/ \E t \in Ticket : AwaitTell(t) /\ owner[t] = s /\ wire'[s] = [kind |-> "matched", obj |-> RoomOf(t)]
  \/ \E r \in Session : /\ pc[r] = "relay" /\ held[r] # Nil /\ held[r] \notin closed
                       /\ s \in held[r].members \ {r}
                       /\ wire'[s] = [kind |-> "peer_msg", obj |-> held[r]]
  \/ \E c \in Session \cup Ticket \cup {Main} :
       Closing(c) /\ wire'[s] = [kind |-> "peer_left", obj |-> closing[c].obj]

LEMMA WireMoves ==
  ASSUME Settled, SettledInv, [DNext]_dvars, NEW s \in Session, wire'[s] # wire[s]
  PROVE  Heard(s)
<1>0. /\ DispatchInv /\ wire \in [Session -> R!Envelope \cup {Nil}]
      /\ state \in [Session -> {"idle", "searching", "chatting"}]
  BY RegistryFacts DEF SettledInv, FlightInv, R!TypeOK, DispatchInv, ConnTypes
<1> USE DEF roomVars
<1>1. ASSUME NEW x \in Session, ClientStep(x) PROVE Heard(s)
  <2>1. ASSUME Refuse(x) PROVE Heard(s)
    BY <1>0, <2>1 DEF Refuse, R!SendOther, Heard
  <2>2. CASE SearchBanned(x)
    BY <1>0, <2>2 DEF SearchBanned, R!SendOther, Heard
  <2>3. CASE ~SearchBanned(x) /\ ~Refuse(x)
    BY <1>1, <2>3
    DEF ClientStep, Connect, Search, SearchBadTags, SearchEnqueue, Refused, Cancel, Message, Report, RoomOp,
        Stop, NextPartner, EndChat, Disconnect, R!GetRoom, R!EndRoomIfAny
  <2> QED
    BY <2>1, <2>2, <2>3
<1>2. ASSUME NEW x \in Session, ReaderStep(x) PROVE Heard(s)
  <2>1. CASE Announce(x)
    BY <1>0, <2>1 DEF Announce, R!SendOther, Heard
  <2>2. CASE Relay(x)
    <3>1. pc[x] = "relay" /\ held[x] # Nil /\ R!RelayFrom(held[x], x)
      BY <2>2 DEF Relay, R!Relay
    <3>2. held[x] \notin closed
      BY <3>1 DEF R!RelayFrom
    <3>3. PICK p \in held[x].members \ {x} : wire' = [wire EXCEPT ![p] = [kind |-> "peer_msg", obj |-> held[x]]]
      BY <3>1, <3>2 DEF R!RelayFrom
    <3>4. p = s
      BY <1>0, <3>3
    <3>5. wire'[s] = [kind |-> "peer_msg", obj |-> held[x]]
      BY <1>0, <3>3, <3>4
    <3> QED
      BY <3>1, <3>2, <3>3, <3>4, <3>5 DEF Heard
  <2>3. CASE ~Announce(x) /\ ~Relay(x)
    BY <1>2, <2>3
    DEF ReaderStep, CancelRemove, ReportPartner, ReportEnd, EndChat, BackToIdle, DropSearch, DropRoom,
        R!ReadMembers, R!EndRoomIfAny
  <2> QED
    BY <2>1, <2>2, <2>3
<1>3. ASSUME NEW t \in Ticket, AwaitMatchStep(t) PROVE Heard(s)
  <2>1. CASE AwaitTell(t)
    <3>1. wire' = [wire EXCEPT ![owner[t]] = [kind |-> "matched", obj |-> RoomOf(t)]]
      BY <2>1 DEF AwaitTell, R!SendOther
    <3>2. owner[t] = s /\ wire'[s] = [kind |-> "matched", obj |-> RoomOf(t)]
      BY <1>0, <3>1
    <3> QED
      BY <2>1, <3>2 DEF Heard
  <2>2. CASE ~AwaitTell(t)
    BY <1>3, <2>2
    DEF AwaitMatchStep, AwaitCancelled, AwaitMatched, AwaitTeardown, AwaitRegister, AwaitEnd,
        R!RegisterRoomIfNew, R!EndRoomIfAny
  <2> QED
    BY <2>1, <2>2
<1>4. ASSUME NEW c \in Session \cup Ticket \cup {Main}, CloseRoom(c) PROVE Heard(s)
  <2>1. Closing(c)
    BY <1>4 DEF CloseRoom, Closing
  <2>2. PICK x \in Session : wire' = [wire EXCEPT ![x] = [kind |-> "peer_left", obj |-> closing[c].obj]]
    BY <2>1, CloseForward
  <2>3. wire'[s] = [kind |-> "peer_left", obj |-> closing[c].obj]
    BY <1>0, <2>2
  <2> QED
    BY <2>1, <2>3 DEF Heard
<1>5. ~(ShutDown \/ CloseNextRoom \/ CloseAllConnections \/ MatcherStep \/ UNCHANGED dvars)
  BY DEF ShutDown, CloseNextRoom, CloseAllConnections, MatcherStep, dvars, R!CloseAllRooms, R!DrainNext
<1> QED
  BY <1>1, <1>2, <1>3, <1>4, <1>5 DEF DNext, Reader, Awaiter

\* A line is relayed in a room that is registered, or one that its recipient has just left
\* or main is about to close.
LEMMA RelayedRoom ==
  ASSUME SettledInv, HandlersInv, NEW r \in Session, NEW s \in Session,
         pc[r] = "relay", held[r] # Nil, held[r] \notin closed, s \in held[r].members \ {r}
  PROVE  \/ held[r] \in rooms /\ sessionToRoom[s] = held[r].id
         \/ pc[s] \in Outward
         \/ /\ server = "sweeping"
            /\ held[r] \in draining \/ (closing[Main] # Nil /\ s \in closing[Main].to)
<1>1. held[r] \in opened /\ r \in held[r].members /\ Closers
  BY DEF HandlersInv, HeldIsOwn
<1>2. /\ R!UnlinkedIsClosing /\ R!ClosedOnce /\ RoomsMapped
  BY RegistryFacts DEF SettledInv, RoomsSettled
<1>3. CASE held[r] \in rooms
  BY <1>2, <1>3 DEF RoomsMapped
<1>4. CASE held[r] \in draining
  BY <1>1, <1>4 DEF Closers
<1>5. CASE held[r] \notin rooms \cup draining
  <2>1. PICK c \in Session \cup Ticket \cup {Main} : held[r] \in R!ToClose(c)
    BY <1>1, <1>2, <1>5 DEF R!UnlinkedIsClosing, Reader, Awaiter
  <2>2. closing[c] # Nil /\ closing[c].obj = held[r]
    BY <2>1 DEF R!ToClose
  <2>3. ~closing[c].marked
    BY <1>2, <2>2 DEF R!ClosedOnce, Reader, Awaiter
  <2>4. c \notin Ticket
    BY <1>1, <2>2 DEF Closers
  <2>5. CASE c \in Session
    <3>1. c \in held[r].members /\ pc[c] \in Outward
      BY <1>1, <2>2, <2>5 DEF Closers
    <3>2. c # r
      BY <3>1 DEF Outward
    <3>3. PICK u \in Ticket : chan[u] = "sent" /\ held[r] = RoomOf(u)
      BY <1>1, OpenedIsSent DEF SettledInv, FlightInv
    <3>4. PICK p \in Session : held[r].members = {owner[u], p}
      BY <3>3 DEF SettledInv, FlightInv, DispatchInv, QueueInv, NoSelfMatch, RoomOf
    <3>5. c = s
      BY <1>1, <3>1, <3>2, <3>4
    <3> QED
      BY <3>1, <3>5
  <2>6. CASE c = Main
    <3>1. s # Main
      BY DispatchAssumption
    <3>2. s \in closing[Main].to
      BY <1>1, <2>2, <2>3, <2>6, <3>1 DEF Closers
    <3>3. server = "sweeping"
      BY <1>1, <2>2, <2>6 DEF Closers
    <3> QED
      BY <2>2, <2>6, <3>2, <3>3
  <2> QED
    BY <2>1, <2>4, <2>5, <2>6
<1> QED
  BY <1>3, <1>4, <1>5

\* Who has left a chat is mapped to no room.
LEMMA OutwardHasNoRoom ==
  ASSUME SettledInv, NEW s \in Session, pc[s] \in Outward
  PROVE  sessionToRoom[s] = Nil
<1>1. R!RoomIndexSound /\ Current(s) /\ InPlace(s)
  BY RegistryFacts DEF SettledInv, RoomsSettled, FlightInv
<1>2. ~InRoom(s)
  BY <1>1 DEF Current, InPlace, Held, Outward
<1> QED
  BY <1>1, <1>2 DEF R!RoomIndexSound, InRoom

LEMMA AlwaysHandled == Settled => (DSpec => [](SettledInv /\ HandlersInv))
<1> SUFFICES ASSUME Settled PROVE DSpec => [](SettledInv /\ HandlersInv)
  OBVIOUS
<1>1. SettledInv /\ HandlersInv /\ [DNext]_dvars => SettledInv' /\ HandlersInv'
  BY SettledStep, HandlersStep
<1>2. DInit => SettledInv /\ HandlersInv
  BY SettledInitially, HandlersInitially
<1> QED
  BY <1>1, <1>2, PTL DEF DSpec

\* Outside the windows no line that a handler relays through a room pointer from before the room's end gets
\* into the chat that its recipient has entered since, as long as it was a member who
\* ended the room: main's CloseAllRooms closes rooms long after it has taken them out.
THEOREM LinesStayInTheirRoom == Settled /\ "shutdown" \notin Ops => (DSpec => NoCrossTalk)
<1> SUFFICES ASSUME Settled, "shutdown" \notin Ops PROVE DSpec => NoCrossTalk
  OBVIOUS
<1> DEFINE Up == server = "up"
<1>1. DInit => Up
  BY DEF DInit
<1>2. Up /\ [DNext]_dvars => Up'
  <2> SUFFICES ASSUME Up, [DNext]_dvars PROVE Up'
    OBVIOUS
  <2>1. ~ShutDown /\ ~CloseAllConnections
    BY DEF ShutDown, CloseAllConnections
  <2>2. UNCHANGED server
    BY <2>1
    DEF DNext, ClientStep, ReaderStep, AwaitMatchStep, CloseRoom, CloseNextRoom, MatcherStep, Connect, Search,
        SearchBadTags, SearchBanned, SearchEnqueue, Refused, Refuse, Announce, Cancel, CancelRemove, Message,
        Report, RoomOp, Relay, ReportPartner, ReportEnd, Stop, NextPartner, EndChat, BackToIdle, Disconnect,
        DropSearch, DropRoom, AwaitCancelled, AwaitMatched, AwaitTeardown, AwaitRegister, AwaitTell, AwaitEnd,
        connVars, rest, dvars
  <2> QED
    BY <2>2
<1>3. SettledInv /\ HandlersInv /\ Up /\ [DNext]_dvars
        => [\A s \in Session : wire'[s] # wire[s] /\ Told(s, "peer_msg")'
              => sessionToRoom[s] \in {wire'[s].obj.id, Nil}]_dvars
  <2> SUFFICES ASSUME SettledInv, HandlersInv, Up, [DNext]_dvars, NEW s \in Session,
                      wire'[s] # wire[s], Told(s, "peer_msg")'
               PROVE  sessionToRoom[s] \in {wire'[s].obj.id, Nil}
    OBVIOUS
  <2>1. wire'[s].kind = "peer_msg"
    BY DEF Told
  <2>2. PICK r \in Session : /\ pc[r] = "relay" /\ held[r] # Nil /\ held[r] \notin closed
                            /\ s \in held[r].members \ {r}
                            /\ wire'[s] = [kind |-> "peer_msg", obj |-> held[r]]
    <3>1. Heard(s)
      BY WireMoves
    <3>2. wire'[s] # Envelope("searching") /\ wire'[s] # Envelope("error")
      BY <2>1 DEF Envelope
    <3>3. \A o : wire'[s] # [kind |-> "matched", obj |-> o] /\ wire'[s] # [kind |-> "peer_left", obj |-> o]
      BY <2>1
    <3> QED
      BY <3>1, <3>2, <3>3, Zenon DEF Heard
  <2>3. (held[r] \in rooms /\ sessionToRoom[s] = held[r].id) \/ pc[s] \in Outward
    BY <2>2, RelayedRoom
  <2> QED
    BY <2>2, <2>3, OutwardHasNoRoom
<1> HIDE DEF Up
<1> QED
  BY <1>1, <1>2, <1>3, AlwaysHandled, PTL DEF DSpec, NoCrossTalk
----------------------------------------------------------------------------
(* Nobody is left in a chat without a room and without notice.              *)

LEMMA PendingStays ==
  ASSUME Settled, SettledInv, HandlersInv, [DNext]_dvars, NEW s \in Session, Pending(s)
  PROVE  Pending(s)' \/ Told(s, "peer_left")'
<1>0. /\ FlightInv /\ Closers /\ Main \notin Session
      /\ closing \in [Session \cup Ticket \cup {Main} -> R!Closing \cup {Nil}]
      /\ wire \in [Session -> R!Envelope \cup {Nil}]
      /\ draining \in SUBSET R!ChatRoom
  BY RegistryFacts, DispatchAssumption DEF SettledInv, HandlersInv, R!TypeOK, Reader, Awaiter
<1>1. ASSUME UNCHANGED <<closing, draining>> PROVE Pending(s)'
  BY <1>1 DEF Pending
<1>2. ASSUME NEW x \in Session, EndStep(x) PROVE Pending(s)'
  <2>1. /\ closing[x] = Nil /\ draining' = draining
        /\ \A c \in Session \cup {Main} : c # x => closing'[c] = closing[c]
    <3>1. closing[x] = Nil /\ draining' = draining
      BY <1>2, EndCloses
    <3>2. \/ closing' = closing
          \/ \E o \in rooms, to \in SUBSET Session :
               closing' = [closing EXCEPT ![x] = [obj |-> o, to |-> to, marked |-> FALSE]]
      BY <1>2, EndCloses
    <3> QED
      BY <1>0, <3>1, <3>2
  <2> QED
    BY <2>1 DEF Pending
<1>3. ASSUME NEW c \in Session \cup Ticket \cup {Main}, Closing(c) PROVE Pending(s)' \/ Told(s, "peer_left")'
  <2>1. /\ draining' = draining
        /\ \A d \in Session \cup Ticket \cup {Main} : d # c => closing'[d] = closing[d]
        /\ \/ closing'[c] # Nil /\ closing'[c].to = closing[c].to
           \/ \E x \in Session :
                /\ wire' = [wire EXCEPT ![x] = [kind |-> "peer_left", obj |-> closing[c].obj]]
                /\ closing[c].to \ {x} # {} => closing'[c] # Nil /\ closing'[c].to = closing[c].to \ {x}
    BY <1>3, CloseForward
  <2>2. ASSUME NEW o \in draining, s \in o.members PROVE Pending(s)'
    BY <2>1, <2>2 DEF Pending
  <2>3. ASSUME NEW d \in Session \cup {Main}, closing[d] # Nil, s \in closing[d].to, d # c PROVE Pending(s)'
    BY <2>1, <2>3 DEF Pending
  <2>4. ASSUME c \in Session \cup {Main}, closing[c] # Nil, s \in closing[c].to
        PROVE  Pending(s)' \/ Told(s, "peer_left")'
    <3>1. CASE closing'[c] # Nil /\ s \in closing'[c].to
      BY <2>4, <3>1 DEF Pending
    <3>2. CASE ~(closing'[c] # Nil /\ s \in closing'[c].to)
      <4>1. wire' = [wire EXCEPT ![s] = [kind |-> "peer_left", obj |-> closing[c].obj]]
        BY <2>1, <2>4, <3>2
      <4>2. wire'[s] = [kind |-> "peer_left", obj |-> closing[c].obj]
        BY <1>0, <4>1
      <4>3. wire'[s] # Nil
        <5>1. closing[c] \in R!Closing
          BY <1>0, <2>4
        <5>2. wire'[s] \in R!Envelope
          BY <4>2, <5>1 DEF R!Closing, R!Envelope, R!RoomEnvelope
        <5> QED
          BY <5>2, NilAssumption
      <4> QED
        BY <4>2, <4>3 DEF Told
    <3> QED
      BY <3>1, <3>2
  <2> QED
    BY <2>2, <2>3, <2>4 DEF Pending
<1>4. CASE Draining
  <2>1. PICK o \in draining : R!DrainNext(o)
    BY <1>4 DEF Draining
  <2>2. /\ draining' = draining \ {o} /\ closing[Main] = Nil
        /\ closing'[Main] = [obj |-> o, to |-> o.members, marked |-> FALSE]
        /\ \A d \in Session : closing'[d] = closing[d]
    BY <1>0, <2>1 DEF R!DrainNext
  <2>3. closing'[Main] # Nil
    <3>1. o \in R!ChatRoom /\ o.members \in SUBSET Session
      BY <1>0 DEF R!ChatRoom
    <3>2. closing'[Main] \in R!Closing
      BY <2>2, <3>1 DEF R!Closing
    <3> QED
      BY <3>2, NilAssumption
  <2>4. closing'[Main].to = o.members
    BY <2>2
  <2> QED
    BY <2>2, <2>3, <2>4 DEF Pending
<1>5. CASE ShutDown
  <2>1. draining = {} /\ closing' = closing
    BY <1>5 DEF ShutDown, R!CloseAllRooms
  <2> QED
    BY <2>1 DEF Pending
<1> QED
  BY <1>0, <1>1, <1>2, <1>3, <1>4, <1>5, EndingKinds
  DEF EndingSame, endings, Entering, CloseAllConnections, roomVars

\* A room that is taken out of the registry is taken out by a member, who changes over, or
\* its end is on its way.
LEMMA RoomKept ==
  ASSUME Settled, SettledInv, [DNext]_dvars, NEW s \in Session, s \in alive',
         NEW o \in rooms, s \in o.members
  PROVE  o \in rooms' \/ Pending(s)' \/ Changing(s)'
<1>0. /\ FlightInv /\ FlightInv'
      /\ closing \in [Session \cup Ticket \cup {Main} -> R!Closing \cup {Nil}]
      /\ o \in R!ChatRoom
  BY RegistryFacts, FlightStep DEF SettledInv, R!TypeOK, Reader, Awaiter
<1>1. ASSUME NEW x \in Session, EndStep(x), o \notin rooms' PROVE Pending(s)' \/ Changing(s)'
  <2>1. CASE x = s
    <3>1. pc'[s] \in Outward
      BY <1>1, <2>1 DEF EndStep
    <3>2. pc'[s] # "gone"
      BY <1>0 DEF FlightInv, DispatchInv, ReadersInOrder, Absent
    <3> QED
      BY <3>1, <3>2 DEF Outward, Changing
  <2>2. CASE x # s
    <3>1. PICK r \in rooms, to \in SUBSET Session :
            /\ r.members \ {x} \subseteq to /\ rooms' = rooms \ {r}
            /\ closing' = [closing EXCEPT ![x] = [obj |-> r, to |-> to, marked |-> FALSE]]
      BY <1>1, EndCloses
    <3>2. r = o
      BY <1>1, <3>1
    <3>3. closing'[x] = [obj |-> o, to |-> to, marked |-> FALSE] /\ s \in to
      BY <1>0, <2>2, <3>1, <3>2
    <3>4. closing'[x] \in R!Closing
      BY <1>0, <3>3 DEF R!Closing
    <3>5. closing'[x] # Nil
      BY <3>4, NilAssumption
    <3>6. s \in closing'[x].to
      BY <3>3
    <3> QED
      BY <3>5, <3>6 DEF Pending
  <2> QED
    BY <2>1, <2>2
<1>2. ASSUME ShutDown PROVE Pending(s)'
  BY <1>2 DEF ShutDown, R!CloseAllRooms, Pending
<1>3. ASSUME NEW t \in Ticket, EnterStep(t) PROVE o \in rooms'
  BY <1>3, EnterAdds
<1>4. ASSUME NEW c \in Session \cup Ticket \cup {Main}, Closing(c) PROVE o \in rooms'
  BY <1>4, CloseForward
<1>5. EndingSame \/ Draining \/ CloseAllConnections => o \in rooms'
  BY DEF EndingSame, endings, Draining, R!DrainNext, R!registry, CloseAllConnections, roomVars
<1> QED
  BY <1>0, <1>1, <1>2, <1>3, <1>4, <1>5, EndingKinds DEF Entering

\* Who is about to be told of his match is in the room.
LEMMA ToldOfItsRoom ==
  ASSUME SettledInv, NEW t \in Ticket, await[t] = "tell"
  PROVE  \E o \in rooms : /\ o.members = result[t].members
                         /\ \A x \in o.members : sessionToRoom[x] = o.id /\ o.id # Nil
<1>1. FlightsRegistered /\ RoomsMapped /\ RP!RoomsInv /\ DispatchInv
  BY DEF SettledInv, RoomsSettled, FlightInv
<1>2. OnTheWay(t)
  BY <1>1 DEF DispatchInv, AwaitsInOrder, OnTheWay
<1>3. PICK o \in opened : o.id = result[t].id
  BY <1>1 DEF FlightsRegistered
<1>4. o \in rooms
  BY <1>1, <1>2, <1>3 DEF FlightsRegistered
<1>5. o.members = result[t].members
  BY <1>1, <1>2, <1>3, OpenedIsSent DEF OnTheWay
<1>6. o.id # Nil
  BY <1>1, <1>4, RegistryFacts, NilAssumption DEF R!TypeOK, R!ChatRoom
<1> QED
  BY <1>1, <1>4, <1>5, <1>6 DEF RoomsMapped

\* How a session's reader and its goroutine take its state forward.
LEMMA StateMoves ==
  ASSUME Settled, SettledInv, HandlersInv, [DNext]_dvars, NEW s \in Session
  PROVE  /\ s \in alive' => s \in alive \/ state'[s] = "idle"
         /\ Changing(s) => Changing(s)' \/ state'[s] = "idle"
         /\ state'[s] = "chatting" => state[s] = "chatting" \/ InFlight(s)'
         /\ state'[s] # "idle" => state[s] # "idle" \/ pc'[s] = "announce" \/ wire'[s] = Envelope("searching")
         /\ pc[s] = "announce" => pc'[s] = "announce" \/ wire'[s] = Envelope("searching")
<1>0. /\ FlightInv /\ DispatchInv /\ ConnTypes /\ TypeOK /\ QueueInv /\ ReadersInOrder
      /\ wire \in [Session -> R!Envelope \cup {Nil}]
  BY RegistryFacts DEF SettledInv, FlightInv, DispatchInv, QueueInv, R!TypeOK
<1> DEFINE Goal == /\ s \in alive' => s \in alive \/ state'[s] = "idle"
                   /\ Changing(s) => Changing(s)' \/ state'[s] = "idle"
                   /\ state'[s] = "chatting" => state[s] = "chatting" \/ InFlight(s)'
                   /\ state'[s] # "idle" =>
                        state[s] # "idle" \/ pc'[s] = "announce" \/ wire'[s] = Envelope("searching")
                   /\ pc[s] = "announce" => pc'[s] = "announce" \/ wire'[s] = Envelope("searching")
<1>1. ASSUME s \in alive' => s \in alive, state'[s] = state[s], pc'[s] = pc[s] PROVE Goal
  BY <1>1 DEF Changing
<1>2. ASSUME NEW x \in Session, SearchStep(x) \/ MoveStep(x) PROVE Goal
  <2>1. CASE x # s
    <3>1. state'[s] = state[s] /\ pc'[s] = pc[s] /\ (s \in alive <=> s \in alive')
      BY <1>0, <1>2, <2>1, ReaderAlone
    <3> QED
      BY <1>1, <3>1
  <2>2. CASE x = s
    <3> USE <1>0, <2>2 DEF ConnTypes, TypeOK, GoTo, Changing, matchVars
    <3>1. CASE Connect(x)
      BY <3>1 DEF Connect, ReadersInOrder
    <3>2. CASE SearchBanned(x) \/ Announce(x)
      BY <3>2 DEF SearchBanned, Announce, Searches, Reads, R!SendOther
    <3>3. CASE SearchEnqueue(x)
      BY <3>3 DEF SearchEnqueue, Enqueue, Searches, Reads
    <3>4. CASE Cancel(x) \/ CancelRemove(x) \/ BackToIdle(x) \/ Disconnect(x) \/ DropSearch(x)
      BY <3>4 DEF Cancel, CancelRemove, Remove, BackToIdle, Disconnect, Leave, DropSearch, Receives, Reads
    <3>5. CASE MoveStep(x)
      BY <3>5 DEF MoveStep, Moves
    <3> QED
      BY <1>2, <3>1, <3>2, <3>3, <3>4, <3>5 DEF SearchStep
  <2> QED
    BY <2>1, <2>2
<1>3. ASSUME NEW t \in Ticket, AwaitMatchStep(t) PROVE Goal
  <2>1. UNCHANGED <<matchVars, pc>> /\ (state'[s] = state[s] \/ (AwaitMatched(t) /\ s = owner[t]))
    <3>1. CASE AwaitMatched(t)
      BY <1>0, <3>1 DEF AwaitMatched, ConnTypes
    <3>2. CASE ~AwaitMatched(t)
      BY <1>3, <3>2 DEF AwaitMatchStep, AwaitCancelled, AwaitTeardown, AwaitRegister, AwaitTell, AwaitEnd
    <3> QED
      BY <3>1, <3>2
  <2>2. CASE state'[s] = state[s]
    BY <1>1, <2>1, <2>2 DEF matchVars
  <2>3. CASE AwaitMatched(t) /\ s = owner[t]
    <3>1. chan[t] = "sent" /\ await[t] = "wait" /\ await'[t] = "register"
          /\ state[s] = "searching" /\ state'[s] = "chatting"
      BY <1>0, <2>3 DEF AwaitMatched, AwaitStep, Wanted, ConnTypes
    <3>2. OnTheWay(t)' /\ s \in result'[t].members
      <4>1. owner[t] \in result[t].members
        BY <1>0, <3>1, OwnerIsHeld DEF OnTheWay
      <4> QED
        BY <2>1, <2>3, <3>1, <4>1 DEF OnTheWay, matchVars
    <3>3. InFlight(s)'
      BY <3>2 DEF InFlight, OnTheWay
    <3> QED
      BY <2>1, <3>1, <3>3 DEF Changing, matchVars
  <2> QED
    BY <2>1, <2>2, <2>3
<1>4. MatcherStep \/ StayStep => Goal
  <2>1. MatcherStep => UNCHANGED <<alive, connVars>>
    BY DEF MatcherStep, DropDead, Pair, PairUp, PairAs
  <2>2. MatcherStep \/ StayStep => UNCHANGED <<alive, state, pc>>
    BY <2>1 DEF connVars, StayStep, matchVars
  <2> QED
    BY <1>1, <2>2
<1> QED
  BY <1>0, <1>2, <1>3, <1>4, SettledKinds

\* A flight ends when its goroutine has told.
LEMMA FlightLands ==
  ASSUME Settled, SettledInv, [DNext]_dvars, NEW s \in Session, InFlight(s)
  PROVE  InFlight(s)' \/ \E t \in Ticket : await[t] = "tell" /\ s \in result[t].members
<1>0. FlightInv /\ FlightInv'
  BY FlightStep DEF SettledInv
<1>1. ASSUME SameFlights PROVE InFlight(s)'
  BY <1>1, FlightsSame
<1>2. ASSUME NEW x \in Session, LookStep(x) \/ EndStep(x) PROVE InFlight(s)'
  BY <1>0, <1>1, <1>2, ReaderKeepsFlights DEF LookStep, EndStep
<1>3. ASSUME NEW t \in Ticket, EnterStep(t) PROVE InFlight(s)'
  <2>1. UNCHANGED <<chan, result>> /\ \A u \in Ticket : await'[u] = await[u] \/ await'[u] # "done"
    BY <1>0, <1>3 DEF EnterStep, matchVars, FlightInv, DispatchInv, ConnTypes
  <2> QED
    BY <2>1 DEF InFlight
<1>4. ASSUME NEW t \in Ticket, GoOnStep(t)
      PROVE  InFlight(s)' \/ \E u \in Ticket : await[u] = "tell" /\ s \in result[u].members
  <2>1. /\ UNCHANGED <<chan, result>>
        /\ \A u \in Ticket : u # t => (OnTheWay(u)' <=> OnTheWay(u))
        /\ OnTheWay(t) /\ ~OnTheWay(t)' => await[t] = "tell"
    BY <1>0, <1>4, GoOnFlights
  <2>2. PICK u \in Ticket : OnTheWay(u) /\ s \in result[u].members
    BY DEF InFlight, OnTheWay
  <2>3. OnTheWay(u)' => InFlight(s)'
    BY <2>1, <2>2 DEF InFlight, OnTheWay
  <2> QED
    BY <2>1, <2>2, <2>3
<1>5. ASSUME NEW x \in Session, NEW w \in Session, NEW p \in Ticket, NEW q \in Ticket, TakeOff(x, w, p, q)
      PROVE  InFlight(s)'
  BY <1>0, <1>5, TakeOffFlights
<1>6. RestStep \/ StayStep \/ ShutDown => SameFlights
  BY DEF RestStep, StayStep, ShutDown, SameFlights, matchVars
<1> QED
  BY <1>0, <1>1, <1>2, <1>3, <1>4, <1>5, <1>6, RegistryKinds

\* Envelopes are none of them Nil.
LEMMA EnvelopesAreSome ==
  ASSUME SettledInv
  PROVE  /\ Envelope("error") # Nil
         /\ \A c \in Session \cup Ticket \cup {Main} :
              closing[c] # Nil => [kind |-> "peer_left", obj |-> closing[c].obj] # Nil
<1>1. Envelope("error") \in R!Envelope
  <2>1. NoObj \in [id : 0 .. MaxTickets, members : SUBSET Session, by : Session \cup {Nil}]
    BY MatchQueueAssumption DEF NoObj
  <2> QED
    BY <2>1 DEF Envelope, Control, R!Envelope
<1>2. ASSUME NEW c \in Session \cup Ticket \cup {Main}, closing[c] # Nil
      PROVE  [kind |-> "peer_left", obj |-> closing[c].obj] \in R!Envelope
  <2>1. closing[c].obj \in R!ChatRoom
    BY <1>2, RegistryFacts DEF SettledInv, R!TypeOK, R!Closing, Reader, Awaiter
  <2> QED
    BY <2>1 DEF R!Envelope, R!RoomEnvelope
<1> QED
  BY <1>1, <1>2, NilAssumption

LEMMA NoticedStep ==
  ASSUME Settled, SettledInv, HandlersInv, [DNext]_dvars, NEW s \in Session, Noticed(s)
  PROVE  Noticed(s)'
<1>0. SettledInv' /\ FlightInv /\ InPlace(s) /\ Announcing(s) /\ ReadersInOrder
  BY SettledStep DEF SettledInv, FlightInv, DispatchInv, HandlersInv
<1> SUFFICES ASSUME s \in alive', state'[s] = "chatting"
             PROVE  \/ sessionToRoom'[s] # Nil \/ InFlight(s)'
                    \/ Pending(s)' \/ Changing(s)'
                    \/ Told(s, "peer_left")' \/ Told(s, "error")'
  BY DEF Noticed
<1> DEFINE Safe == \/ sessionToRoom'[s] # Nil \/ InFlight(s)'
                   \/ Pending(s)' \/ Changing(s)'
                   \/ Told(s, "peer_left")' \/ Told(s, "error")'
<1>1. s \in alive /\ (state[s] = "chatting" \/ InFlight(s)')
  BY StateMoves
<1>2. ASSUME sessionToRoom[s] # Nil PROVE Safe
  <2>1. PICK o \in rooms : o.id = sessionToRoom[s] /\ s \in o.members
    BY <1>2, RegistryFacts DEF SettledInv, R!RoomIndexSound
  <2>2. CASE o \in rooms'
    <3>1. RoomsMapped'
      BY <1>0 DEF SettledInv, RoomsSettled
    <3>2. sessionToRoom'[s] = o.id
      BY <2>1, <2>2, <3>1 DEF RoomsMapped
    <3> QED
      BY <1>2, <2>1, <3>2
  <2>3. CASE o \notin rooms'
    BY <2>1, <2>3, RoomKept
  <2> QED
    BY <2>2, <2>3
<1>3. ASSUME NEW t \in Ticket, await[t] = "tell", s \in result[t].members PROVE Safe
  BY <1>2, <1>3, ToldOfItsRoom
<1>4. InFlight(s) => Safe
  BY <1>3, FlightLands
<1>5. Pending(s) => Safe
  BY PendingStays
<1>6. Changing(s) => Safe
  BY StateMoves
<1>7. ASSUME Told(s, "peer_left") \/ Told(s, "error") PROVE Safe
  <2>1. CASE wire'[s] = wire[s]
    BY <1>7, <2>1 DEF Told
  <2>2. CASE wire'[s] # wire[s]
    <3>1. Heard(s)
      BY <2>2, WireMoves
    <3>2. ASSUME pc[s] = "announce", state'[s] = state[s] PROVE FALSE
      BY <1>0, <3>2 DEF Announcing
    <3>3. ASSUME wire'[s] = Envelope("error") PROVE Safe
      <4>1. wire'[s] # Nil /\ wire'[s].kind = "error"
        BY <3>3, EnvelopesAreSome DEF Envelope
      <4> QED
        BY <4>1 DEF Told
    <3>4. ASSUME NEW t \in Ticket, AwaitTell(t), owner[t] = s PROVE Safe
      <4>1. await[t] = "tell"
        BY <3>4 DEF AwaitTell, AwaitStep
      <4>2. s \in result[t].members
        BY <1>0, <3>4, <4>1, OwnerIsHeld DEF FlightInv, DispatchInv, AwaitsInOrder, OnTheWay
      <4> QED
        BY <1>3, <4>1, <4>2
    <3>5. ASSUME NEW r \in Session, pc[r] = "relay", held[r] # Nil, held[r] \notin closed,
                 s \in held[r].members \ {r}
          PROVE  Safe
      <4>1. CASE held[r] \in rooms /\ sessionToRoom[s] = held[r].id
        <5>1. held[r].id # Nil
          BY <1>0, <4>1, RegistryFacts, NilAssumption DEF SettledInv, R!TypeOK, R!ChatRoom
        <5> QED
          BY <1>2, <4>1, <5>1
      <4>2. CASE pc[s] \in Outward
        <5>1. pc[s] # "gone"
          BY <1>0, <1>1 DEF ReadersInOrder, Absent
        <5> QED
          BY <1>6, <4>2, <5>1 DEF Outward, Changing
      <4>3. CASE held[r] \in draining \/ (closing[Main] # Nil /\ s \in closing[Main].to)
        BY <1>5, <3>5, <4>3 DEF Pending
      <4> QED
        BY <3>5, <4>1, <4>2, <4>3, RelayedRoom
    <3>6. ASSUME NEW c \in Session \cup Ticket \cup {Main}, Closing(c),
                 wire'[s] = [kind |-> "peer_left", obj |-> closing[c].obj]
          PROVE  Safe
      <4>1. closing[c] # Nil
        BY <3>6, CloseForward
      <4>2. wire'[s] # Nil /\ wire'[s].kind = "peer_left"
        BY <3>6, <4>1, EnvelopesAreSome
      <4> QED
        BY <4>2 DEF Told
    <3> QED
      BY <3>1, <3>2, <3>3, <3>4, <3>5, <3>6 DEF Heard
  <2> QED
    BY <2>1, <2>2
<1> QED
  BY <1>1, <1>2, <1>4, <1>5, <1>6, <1>7 DEF Noticed

LEMMA WordsStep ==
  ASSUME Settled, SettledInv, HandlersInv, [DNext]_dvars, NEW s \in Session, WordsHold(s)
  PROVE  WordsHold(s)'
<1>0. SettledInv' /\ FlightInv /\ InPlace(s) /\ Announcing(s) /\ ReadersInOrder /\ rooms \subseteq opened
  BY SettledStep, RegistryFacts DEF SettledInv, FlightInv, DispatchInv, HandlersInv
<1> DEFINE Safe == \/ \E o \in rooms' : s \in o.members /\ o.members = wire'[s].obj.members
                   \/ Pending(s)' \/ Changing(s)'
                   \/ pc'[s] = "announce"
<1> SUFFICES ASSUME s \in alive', state'[s] # "idle", Told(s, "matched")' \/ Told(s, "peer_msg")'
             PROVE  Safe
  BY DEF WordsHold
<1>1. s \in alive
  BY StateMoves
<1>2. wire'[s].kind \in {"matched", "peer_msg"}
  BY DEF Told
<1>3. wire'[s] # Envelope("searching") /\ wire'[s] # Envelope("error")
      /\ \A o : wire'[s] # [kind |-> "peer_left", obj |-> o]
  BY <1>2 DEF Envelope
<1>4. ASSUME NEW o \in rooms, s \in o.members, o.members = wire'[s].obj.members PROVE Safe
  BY <1>4, RoomKept
<1>5. Pending(s) => Safe
  <2>1. ~Told(s, "peer_left")'
    BY <1>2 DEF Told
  <2> QED
    BY <2>1, PendingStays
<1>6. Changing(s) => Safe
  BY StateMoves
<1>7. CASE wire'[s] = wire[s]
  <2>1. Told(s, "matched") \/ Told(s, "peer_msg")
    BY <1>7 DEF Told
  <2>2. state[s] # "idle" \/ pc'[s] = "announce"
    BY <1>3, StateMoves
  <2>3. pc[s] = "announce" => pc'[s] = "announce"
    BY <1>3, StateMoves
  <2> QED
    BY <1>1, <1>4, <1>5, <1>6, <1>7, <2>1, <2>2, <2>3 DEF WordsHold
<1>8. CASE wire'[s] # wire[s]
  <2>1. Heard(s)
    BY <1>8, WireMoves
  <2>2. ASSUME NEW t \in Ticket, AwaitTell(t), owner[t] = s, wire'[s] = [kind |-> "matched", obj |-> RoomOf(t)]
        PROVE  Safe
    <3>1. await[t] = "tell"
      BY <2>2 DEF AwaitTell, AwaitStep
    <3>2. s \in result[t].members
      BY <1>0, <2>2, <3>1, OwnerIsHeld DEF FlightInv, DispatchInv, AwaitsInOrder, OnTheWay
    <3>3. PICK o \in rooms : o.members = result[t].members
      BY <3>1, ToldOfItsRoom
    <3>4. wire'[s].obj.members = result[t].members
      BY <2>2 DEF RoomOf
    <3> QED
      BY <1>4, <3>2, <3>3, <3>4
  <2>3. ASSUME NEW r \in Session, pc[r] = "relay", held[r] # Nil, held[r] \notin closed,
               s \in held[r].members \ {r}, wire'[s] = [kind |-> "peer_msg", obj |-> held[r]]
        PROVE  Safe
    <3>1. CASE held[r] \in rooms
      <4>1. held[r].members = wire'[s].obj.members
        BY <2>3
      <4> QED
        BY <1>4, <2>3, <3>1, <4>1
    <3>2. CASE pc[s] \in Outward
      <4>1. pc[s] # "gone"
        BY <1>0, <1>1 DEF ReadersInOrder, Absent
      <4> QED
        BY <1>6, <3>2, <4>1 DEF Outward, Changing
    <3>3. CASE held[r] \in draining \/ (closing[Main] # Nil /\ s \in closing[Main].to)
      BY <1>5, <2>3, <3>3 DEF Pending
    <3> QED
      BY <2>3, <3>1, <3>2, <3>3, RelayedRoom
  <2> QED
    BY <1>3, <2>1, <2>2, <2>3, Zenon DEF Heard
<1> QED
  BY <1>7, <1>8

LEMMA AlwaysNoticed == Settled => (DSpec => [](SettledInv /\ HandlersInv /\ WordsInv))
<1> SUFFICES ASSUME Settled PROVE DSpec => [](SettledInv /\ HandlersInv /\ WordsInv)
  OBVIOUS
<1>1. DInit => SettledInv /\ HandlersInv /\ WordsInv
  <2>1. DInit => WordsInv
    BY DEF DInit, Init, R!Init, WordsInv, Noticed, WordsHold, Told
  <2> QED
    BY <2>1, SettledInitially, HandlersInitially
<1>2. SettledInv /\ HandlersInv /\ WordsInv /\ [DNext]_dvars => SettledInv' /\ HandlersInv' /\ WordsInv'
  <2> SUFFICES ASSUME SettledInv, HandlersInv, WordsInv, [DNext]_dvars
               PROVE  SettledInv' /\ HandlersInv' /\ WordsInv'
    OBVIOUS
  <2>1. SettledInv' /\ HandlersInv'
    BY SettledStep, HandlersStep
  <2>2. \A s \in Session : Noticed(s)' /\ WordsHold(s)'
    BY NoticedStep, WordsStep DEF WordsInv
  <2> QED
    BY <2>1, <2>2 DEF WordsInv
<1> QED
  BY <1>1, <1>2, PTL DEF DSpec

\* When nothing is left to do, no end of a room is on its way, and no match.
LEMMA QuietHasNothing ==
  ASSUME SettledInv, HandlersInv, Quiet, NEW s \in Session
  PROVE  ~Pending(s) /\ ~InFlight(s)
<1>1. ~Pending(s)
  BY DEF Quiet, HandlersInv, Closers, Pending, Reader, Awaiter
<1>2. ASSUME NEW t \in Ticket, OnTheWay(t) PROVE FALSE
  <2>1. await[t] = "none" /\ owner[t] \in Session
    BY <1>2, OwnerIsHeld DEF Quiet, OnTheWay, SettledInv, FlightInv, DispatchInv
  <2>2. pc[owner[t]] = "announce"
    BY <2>1, MatchQueueAssumption DEF HandlersInv, Unwatched
  <2> QED
    BY <2>1, <2>2 DEF Quiet
<1>3. ~InFlight(s)
  BY <1>2 DEF InFlight, OnTheWay
<1> QED
  BY <1>1, <1>3

\* Outside the windows, once the server has come to rest, a session that chats is in a
\* room, or was told that its partner left, or that its last message was refused.
THEOREM ChatsAreBacked == Settled => (DSpec => []ChatHasRoomOrNotice)
<1> SUFFICES ASSUME Settled PROVE DSpec => []ChatHasRoomOrNotice
  OBVIOUS
<1>1. SettledInv /\ HandlersInv /\ WordsInv => ChatHasRoomOrNotice
  <2> SUFFICES ASSUME SettledInv, HandlersInv, WordsInv, Quiet, NEW s \in alive, state[s] = "chatting"
               PROVE  sessionToRoom[s] # Nil \/ Told(s, "peer_left") \/ Told(s, "error")
    BY DEF ChatHasRoomOrNotice
  <2>1. s \in Session
    BY DEF SettledInv, FlightInv, DispatchInv, QueueInv, TypeOK
  <2>2. ~Pending(s) /\ ~InFlight(s) /\ ~Changing(s)
    BY <2>1, QuietHasNothing DEF Quiet, Changing
  <2> QED
    BY <2>1, <2>2 DEF WordsInv, Noticed
<1> QED
  BY <1>1, AlwaysNoticed, PTL

\* And outside the windows, whose last word was of a chat that he still believes in has
\* partners that are there: their reader has not begun to clean up.
THEOREM GhostsAreAnnounced == Settled => (DSpec => []NoGhostChat)
<1> SUFFICES ASSUME Settled PROVE DSpec => []NoGhostChat
  OBVIOUS
<1>1. SettledInv /\ HandlersInv /\ WordsInv => NoGhostChat
  <2> SUFFICES ASSUME SettledInv, HandlersInv, WordsInv, Quiet, NEW s \in alive, state[s] = "chatting",
                      Told(s, "matched") \/ Told(s, "peer_msg"), NEW x \in wire[s].obj.members
               PROVE  x \in alive
    BY DEF NoGhostChat
  <2>1. s \in Session
    BY DEF SettledInv, FlightInv, DispatchInv, QueueInv, TypeOK
  <2>2. ~Pending(s) /\ ~Changing(s) /\ pc[s] # "announce"
    BY <2>1, QuietHasNothing DEF Quiet, Changing
  <2>3. PICK o \in rooms : o.members = wire[s].obj.members
    BY <2>1, <2>2 DEF WordsInv, WordsHold
  <2>4. x \in Session /\ InRoom(x)
    BY <2>3, RegistryFacts DEF SettledInv, R!TypeOK, R!ChatRoom, InRoom
  <2>5. Current(x) /\ InPlace(x) /\ ~InFlight(x) /\ pc[x] \in {"new", "read", "gone"}
    BY <2>4, QuietHasNothing DEF SettledInv, FlightInv, RoomsSettled, Quiet
  <2>6. state[x] = "chatting" /\ pc[x] # "gone"
    BY <2>4, <2>5 DEF Current, InPlace
  <2>7. pc[x] # "new"
    BY <2>4, <2>6 DEF SettledInv, FlightInv, DispatchInv, ReadersInOrder
  <2> QED
    BY <2>5, <2>6, <2>7 DEF InPlace, Absent
<1> QED
  BY <1>1, AlwaysNoticed, PTL
=============================================================================
