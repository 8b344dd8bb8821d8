--------------------------- MODULE DispatchProofs ---------------------------
(****************************************************************************)
(* Proofs about Dispatch, for every set of sessions, every number of        *)
(* searches, every choice of what clients do, and with or without the       *)
(* assumptions on them.                                                     *)
(****************************************************************************)
EXTENDS Dispatch, MatchQueueProofs

\* Types of what the connections keep, without banned, whose type is a matter
\* of the rooms that the reports are about.
ConnTypes ==
  /\ state \in [Session -> {"idle", "searching", "chatting"}]
  /\ cancelSearch \in [Session -> BOOLEAN]
  /\ pc \in [Session -> {"new", "read", "search", "announce", "cancel", "relay", "report",
                         "reported", "to-read", "to-search", "drop", "drop-cancel",
                         "drop-end", "gone"}]
  /\ await \in [Ticket -> {"none", "wait", "register", "teardown", "tell", "end", "done"}]

\* A goroutine that has got past its channel was sent a room, and what was handed
\* to the room registry is the room of a goroutine that has got past that too.
AwaitsInOrder ==
  /\ \A t \in Ticket : t > issued => await[t] = "none"
  /\ \A t \in Ticket : await[t] \in {"register", "teardown", "tell", "end"} => chan[t] = "sent"
  /\ \A o \in built : \E t \in Ticket :
       chan[t] = "sent" /\ await[t] \in {"tell", "end", "done"} /\ o = RoomOf(t)

Absent == {"new", "drop", "drop-cancel", "drop-end", "gone"}

\* Where a reader is tells whether its session is registered, and that it does
\* not search while its cancel function runs.
ReadersInOrder ==
  /\ \A s \in alive : pc[s] \notin Absent
  /\ \A s \in Session : pc[s] = "new" => state[s] = "idle"
  /\ \A s \in Session : pc[s] = "cancel" => state[s] # "searching"

\* SearchingIsCancellable, wherever the reader is.
AlwaysCancellable == \A s \in Session \ banned : state[s] = "searching" => cancelSearch[s]

DispatchInv ==
  /\ QueueInv
  /\ ConnTypes
  /\ AwaitsInOrder
  /\ ReadersInOrder
  /\ AlwaysCancellable
  /\ NoLostSearcher
----------------------------------------------------------------------------
\* What most steps of readers, closing goroutines and main have in common: they
\* leave the matcher, the searches and the room objects alone.
Glide ==
  /\ UNCHANGED <<matchVars, state, cancelSearch, await, built>>
  /\ banned \subseteq banned'
  /\ \/ pc' = pc
     \/ \E s \in Session, place \in {"read", "relay", "report", "reported", "to-read", "to-search"} :
          pc' = [pc EXCEPT ![s] = place]
     \/ \E s \in Session : pc[s] = "drop-end" /\ pc' = [pc EXCEPT ![s] = "gone"]

\* The other steps, which the proofs below take one at a time.
SearchStep(s) ==
  \/ Connect(s) \/ SearchBanned(s) \/ SearchEnqueue(s) \/ Announce(s) \/ Cancel(s)
  \/ CancelRemove(s) \/ BackToIdle(s) \/ Disconnect(s) \/ DropSearch(s)

LEMMA ReaderKinds ==
  ASSUME NEW s \in Session, ClientStep(s) \/ ReaderStep(s)
  PROVE  SearchStep(s) \/ Glide
<1> USE DEF matchVars, roomVars, rest
<1>1. ASSUME Refuse(s) PROVE Glide
  BY <1>1 DEF Refuse, GoTo, Glide, R!SendOther, R!registry
<1>2. ASSUME NEW op, NEW place \in {"relay", "report"}, RoomOp(s, op, place) PROVE Glide
  BY <1>2 DEF RoomOp, GoTo, Glide, R!GetRoom, R!registry
<1>3. ASSUME NEW reason, NEW place \in {"to-read", "to-search"}, EndChat(s, reason, place)
      PROVE  Glide
  BY <1>3 DEF EndChat, GoTo, Glide, R!EndRoomIfAny
<1>4. ASSUME DropRoom(s) PROVE Glide
  BY <1>4 DEF DropRoom, EndChat, GoTo, Glide, R!EndRoomIfAny
<1>5. ASSUME Relay(s) PROVE Glide
  BY <1>5 DEF Relay, GoTo, Glide, R!Relay, R!registry
<1>6. ASSUME ReportPartner(s) PROVE Glide
  BY <1>6 DEF ReportPartner, GoTo, Glide, R!ReadMembers, R!registry
<1>7. CASE ClientStep(s)
  BY <1>1, <1>2, <1>3, <1>7
  DEF ClientStep, SearchStep, Search, SearchBadTags, Message, Report, Stop, NextPartner, Refused
<1>8. CASE ReaderStep(s)
  BY <1>3, <1>4, <1>5, <1>6, <1>8 DEF ReaderStep, SearchStep, ReportEnd
<1> QED
  BY <1>7, <1>8

LEMMA StepKinds ==
  ASSUME [DNext]_dvars
  PROVE  \/ \E s \in Session : SearchStep(s)
         \/ \E t \in Ticket : AwaitMatchStep(t)
         \/ MatcherStep
         \/ Glide
<1> USE DEF matchVars, roomVars, connVars, rest
<1>1. ASSUME NEW c, CloseRoom(c) PROVE Glide
  BY <1>1 DEF CloseRoom, Glide, R!CloseStep, R!MarkClosed, R!SendPeerLeft, R!registry
<1>2. ASSUME ShutDown PROVE Glide
  BY <1>2 DEF ShutDown, Glide, R!CloseAllRooms
<1>3. ASSUME CloseNextRoom PROVE Glide
  BY <1>3 DEF CloseNextRoom, Glide, R!DrainNext, R!registry
<1>4. ASSUME CloseAllConnections PROVE Glide
  BY <1>4 DEF CloseAllConnections, Glide
<1>5. ASSUME UNCHANGED dvars PROVE Glide
  BY <1>5 DEF dvars, Glide
<1> QED
  BY <1>1, <1>2, <1>3, <1>4, <1>5, ReaderKinds DEF DNext

\* For the matcher, every step is one of its operations, or nothing.
LEMMA MatcherSide ==
  ASSUME QueueInv, [DNext]_dvars
  PROVE  AnyStep
<1>1. ASSUME NEW s \in Session, SearchStep(s) PROVE AnyStep
  BY <1>1 DEF SearchStep, Connect, SearchBanned, SearchEnqueue, Announce, Cancel, CancelRemove,
              BackToIdle, Disconnect, DropSearch, AnyStep, matchVars, vars
<1>2. ASSUME NEW t \in Ticket, AwaitMatchStep(t) PROVE AnyStep
  BY <1>2 DEF AwaitMatchStep, AwaitCancelled, AwaitMatched, AwaitTeardown, AwaitRegister,
              AwaitTell, AwaitEnd, AnyStep, matchVars, vars
<1>3. ASSUME MatcherStep PROVE AnyStep
  BY <1>3 DEF MatcherStep, AnyStep
<1>4. ASSUME Glide PROVE AnyStep
  BY <1>4 DEF Glide, AnyStep, matchVars, vars
<1> QED
  BY <1>1, <1>2, <1>3, <1>4, StepKinds
----------------------------------------------------------------------------
LEMMA DInitInv == DInit => DispatchInv
<1> SUFFICES ASSUME DInit PROVE DispatchInv
  OBVIOUS
<1>1. QueueInv /\ alive = {}
  BY QInitInv DEF DInit, Init
<1>2. built = {}
  BY DEF DInit, R!Init
<1> QED
  BY <1>1, <1>2
  DEF DInit, DispatchInv, ConnTypes, AwaitsInOrder, ReadersInOrder, AlwaysCancellable, NoLostSearcher

LEMMA ConnTypesStep ==
  ASSUME DispatchInv, [DNext]_dvars
  PROVE  ConnTypes'
<1> USE DEF DispatchInv, ConnTypes
<1>1. ASSUME NEW s \in Session, SearchStep(s) PROVE ConnTypes'
  BY <1>1 DEF SearchStep, Connect, SearchBanned, SearchEnqueue, Announce, Cancel, CancelRemove,
              BackToIdle, Disconnect, DropSearch, GoTo
<1>2. ASSUME NEW t \in Ticket, AwaitMatchStep(t) PROVE ConnTypes'
  BY <1>2 DEF AwaitMatchStep, AwaitCancelled, AwaitMatched, AwaitTeardown, AwaitRegister,
              AwaitTell, AwaitEnd, AwaitStep
<1>3. ASSUME MatcherStep PROVE ConnTypes'
  BY <1>3 DEF MatcherStep, connVars
<1>4. ASSUME Glide PROVE ConnTypes'
  BY <1>4 DEF Glide
<1> QED
  BY <1>1, <1>2, <1>3, <1>4, StepKinds

\* A new ticket is the next one, and no ticket is taken back.
LEMMA IssuedStep ==
  ASSUME QueueInv, AnyStep
  PROVE  issued \in Nat /\ issued' \in Nat /\ issued <= issued'
<1>1. issued \in Nat
  BY MatchQueueAssumption DEF QueueInv, TypeOK
<1>2. issued' = issued \/ issued' = issued + 1
  BY DEF AnyStep, Join, Leave, Enqueue, Remove, DropDead, Pair, PairUp, PairAs, vars
<1> QED
  BY <1>1, <1>2

\* A goroutine moves on with a room in its channel, which stays there.
LEMMA AwaitsStep ==
  ASSUME DispatchInv, [DNext]_dvars
  PROVE  AwaitsInOrder'
<1> USE DEF DispatchInv, AwaitsInOrder
<1>0. AnyStep
  BY MatcherSide
<1>1. /\ issued \in Nat /\ issued' \in Nat /\ issued <= issued'
      /\ \A t \in Ticket : t \in Nat
  BY <1>0, IssuedStep, MatchQueueAssumption DEF Ticket
<1>2. \A t \in Ticket : chan[t] = "sent" => chan'[t] = "sent" /\ RoomOf(t)' = RoomOf(t)
  BY <1>0, SentIsFinal DEF RoomOf
<1>3. CASE UNCHANGED <<await, built>>
  BY <1>1, <1>2, <1>3
<1>4. ASSUME NEW s \in Session, Announce(s) PROVE AwaitsInOrder'
  <2>1. PICK t \in Ticket : owner[t] = s /\ await[t] = "none" /\ await' = [await EXCEPT ![t] = "wait"]
    BY <1>4 DEF Announce, Unannounced
  <2>2. UNCHANGED <<matchVars, built>>
    BY <1>4 DEF Announce, R!SendOther, R!registry
  <2>3. t <= issued
    BY <2>1, MatchQueueAssumption DEF QueueInv, DrawnInOrder
  <2> QED
    BY <1>1, <1>2, <2>1, <2>2, <2>3 DEF matchVars, ConnTypes
<1>5. ASSUME NEW t \in Ticket, NEW place \in {"wait", "register", "teardown", "tell", "end", "done"},
             AwaitStep(t, await[t], place), await[t] # "none",
             place \in {"register", "teardown", "tell", "end"} => chan[t] = "sent",
             await[t] \in {"tell", "end", "done"} => place \in {"tell", "end", "done"},
             built' = built \/ (built' = built \cup {RoomOf(t)} /\ place \in {"tell", "end"})
      PROVE  AwaitsInOrder'
  <2>1. /\ await'[t] = place
        /\ \A u \in Ticket : u # t => await'[u] = await[u]
    BY <1>5 DEF AwaitStep, ConnTypes
  <2>2. \A u \in Ticket : u > issued' => await'[u] = "none"
    BY <1>1, <1>5, <2>1
  <2>3. \A u \in Ticket : await'[u] \in {"register", "teardown", "tell", "end"} => chan'[u] = "sent"
    BY <1>2, <1>5, <2>1
  <2>4. \A u \in Ticket : await[u] \in {"tell", "end", "done"} => await'[u] \in {"tell", "end", "done"}
    BY <1>5, <2>1
  <2>5. ASSUME NEW o \in built'
        PROVE  \E u \in Ticket :
                 chan'[u] = "sent" /\ await'[u] \in {"tell", "end", "done"} /\ o = RoomOf(u)'
    <3>1. CASE o \in built
      BY <1>2, <2>4, <3>1
    <3>2. CASE o \notin built
      <4>1. o = RoomOf(t) /\ chan[t] = "sent" /\ await'[t] \in {"tell", "end", "done"}
        BY <1>5, <2>1, <2>5, <3>2
      <4> QED
        BY <1>2, <4>1
    <3> QED
      BY <3>1, <3>2
  <2> QED
    BY <2>2, <2>3, <2>5
<1>6. ASSUME NEW t \in Ticket, AwaitMatchStep(t) PROVE AwaitsInOrder'
  <2>1. CASE AwaitCancelled(t)
    BY <1>5, <2>1 DEF AwaitCancelled, AwaitStep, roomVars
  <2>2. CASE AwaitMatched(t)
    BY <1>5, <2>2 DEF AwaitMatched, AwaitStep, roomVars
  <2>3. CASE AwaitTeardown(t)
    BY <1>5, <2>3 DEF AwaitTeardown, AwaitStep, roomVars
  <2>4. CASE AwaitRegister(t)
    BY <1>5, <2>4 DEF AwaitRegister, AwaitStep, R!RegisterRoomIfNew
  <2>5. CASE AwaitTell(t)
    BY <1>5, <2>5 DEF AwaitTell, AwaitStep, roomVars, R!SendOther, R!registry
  <2>6. CASE AwaitEnd(t)
    BY <1>5, <2>6 DEF AwaitEnd, AwaitStep, R!EndRoomIfAny
  <2> QED
    BY <1>6, <2>1, <2>2, <2>3, <2>4, <2>5, <2>6 DEF AwaitMatchStep
<1>7. ASSUME NEW s \in Session, SearchStep(s), ~Announce(s) PROVE AwaitsInOrder'
  <2>1. UNCHANGED <<await, built>>
    BY <1>7 DEF SearchStep, Connect, SearchBanned, SearchEnqueue, Cancel, CancelRemove,
                BackToIdle, Disconnect, DropSearch, roomVars, R!SendOther, R!registry
  <2> QED
    BY <1>3, <2>1
<1>8. MatcherStep \/ Glide => UNCHANGED <<await, built>>
  BY DEF MatcherStep, Glide, roomVars, connVars
<1> QED
  BY <1>3, <1>4, <1>6, <1>7, <1>8, StepKinds

\* A reader is Absent exactly from before Join and from Leave on; only a reader
\* that is at rest starts a search.
LEMMA ReadersStep ==
  ASSUME DispatchInv, [DNext]_dvars
  PROVE  ReadersInOrder'
<1> USE DEF DispatchInv, ReadersInOrder, ConnTypes, Absent
<1>0. alive \subseteq Session
  BY DEF QueueInv, TypeOK
<1>1. ASSUME NEW s \in Session, SearchStep(s) PROVE ReadersInOrder'
  <2>1. CASE Connect(s)
    BY <1>0, <2>1 DEF Connect, GoTo, Join
  <2>2. CASE SearchBanned(s) \/ SearchEnqueue(s) \/ Announce(s) \/ Cancel(s) \/ BackToIdle(s)
    BY <1>0, <2>2 DEF SearchBanned, SearchEnqueue, Announce, Cancel, BackToIdle, GoTo,
                      Searches, Reads, Receives, Enqueue, matchVars
  <2>3. CASE CancelRemove(s)
    BY <1>0, <2>3 DEF CancelRemove, GoTo, Remove
  <2>4. CASE Disconnect(s)
    BY <1>0, <2>4 DEF Disconnect, GoTo, Leave
  <2>5. CASE DropSearch(s)
    BY <1>0, <2>5 DEF DropSearch, GoTo, matchVars
  <2> QED
    BY <1>1, <2>1, <2>2, <2>3, <2>4, <2>5 DEF SearchStep
<1>2. ASSUME NEW t \in Ticket, AwaitMatchStep(t) PROVE ReadersInOrder'
  <2>1. UNCHANGED <<alive, pc>>
    BY <1>2 DEF AwaitMatchStep, AwaitCancelled, AwaitMatched, AwaitTeardown, AwaitRegister,
                AwaitTell, AwaitEnd, matchVars
  <2>2. state' = state \/ (Wanted(t) /\ state' = [state EXCEPT ![owner[t]] = "chatting"])
    BY <1>2 DEF AwaitMatchStep, AwaitCancelled, AwaitMatched, AwaitTeardown, AwaitRegister,
                AwaitTell, AwaitEnd
  <2> QED
    BY <1>0, <2>1, <2>2 DEF Wanted
<1>3. ASSUME MatcherStep PROVE ReadersInOrder'
  <2>1. UNCHANGED <<alive, pc, state>>
    BY <1>3 DEF MatcherStep, DropDead, Pair, PairUp, PairAs, connVars
  <2> QED
    BY <2>1
<1>4. ASSUME Glide PROVE ReadersInOrder'
  BY <1>0, <1>4 DEF Glide, matchVars
<1> QED
  BY <1>1, <1>2, <1>3, <1>4, StepKinds

\* Whoever takes the cancel function away changes the state in the same step.
LEMMA CancellableStep ==
  ASSUME DispatchInv, [DNext]_dvars
  PROVE  AlwaysCancellable'
<1> USE DEF DispatchInv, AlwaysCancellable, ConnTypes
<1>1. ASSUME NEW s \in Session, SearchStep(s) PROVE AlwaysCancellable'
  BY <1>1 DEF SearchStep, Connect, SearchBanned, SearchEnqueue, Announce, Cancel, CancelRemove,
              BackToIdle, Disconnect, DropSearch, rest
<1>2. ASSUME NEW t \in Ticket, AwaitMatchStep(t) PROVE AlwaysCancellable'
  <2>1. CASE AwaitMatched(t)
    BY <2>1 DEF AwaitMatched, Wanted, QueueInv, TypeOK, rest
  <2>2. CASE ~AwaitMatched(t)
    BY <1>2, <2>2 DEF AwaitMatchStep, AwaitCancelled, AwaitTeardown, AwaitRegister, AwaitTell,
                      AwaitEnd, rest
  <2> QED
    BY <2>1, <2>2
<1>3. ASSUME MatcherStep PROVE AlwaysCancellable'
  BY <1>3 DEF MatcherStep, connVars, rest
<1>4. ASSUME Glide PROVE AlwaysCancellable'
  BY <1>4 DEF Glide
<1> QED
  BY <1>1, <1>2, <1>3, <1>4, StepKinds

\* What a search that goes on needs of a step: its ticket's goroutine is where it
\* was, and its channel as good as it was.
HasAnswer(s, t) ==
  /\ owner[t] = s /\ await[t] \in {"none", "wait"}
  /\ chan[t] = "sent" \/ (pending[s] = t /\ TicketsOf(s) # {})

\* The operations of the matcher for one session leave the search of another one.
LEMMA ForgetOther ==
  ASSUME QueueInv, NEW s \in Session, NEW v \in Session, s # v, CloseChannel(s), Forget(s),
         \A u \in queue : owner[u] # s => u \in queue', owner' = owner,
         NEW t \in Ticket, HasAnswer(v, t), await'[t] \in {"none", "wait"}
  PROVE  HasAnswer(v, t)'
<1> USE DEF QueueInv
<1>1. t # pending[s]
  BY DEF PendingOpen, HasAnswer, Ticket
<1>2. chan'[t] = chan[t] /\ pending'[v] = pending[v]
  BY <1>1 DEF CloseChannel, Forget, TypeOK
<1>3. TicketsOf(v) \subseteq TicketsOf(v)'
  BY DEF TicketsOf
<1> QED
  BY <1>2, <1>3 DEF HasAnswer

\* A pair that contains the session puts a room in its channel, any other pair
\* leaves it alone.
LEMMA PairKeepsAnswer ==
  ASSUME QueueInv, NEW s \in Session, NEW u \in Session, Pair(s, u),
         NEW v \in Session, NEW t \in Ticket, HasAnswer(v, t), await'[t] \in {"none", "wait"}
  PROVE  HasAnswer(v, t)'
<1> USE DEF QueueInv
<1>1. /\ chan' = [x \in Ticket |-> IF x \in PendingOf(s, u) THEN "sent" ELSE chan[x]]
      /\ pending' = [pending EXCEPT ![s] = 0, ![u] = 0]
      /\ queue' = queue \ (TicketsOf(s) \cup TicketsOf(u))
      /\ owner' = owner
  BY DEF Pair, PairUp, PairAs
<1>2. CASE chan[t] = "sent" \/ t \in PendingOf(s, u)
  BY <1>1, <1>2 DEF HasAnswer
<1>3. CASE chan[t] # "sent" /\ t \notin PendingOf(s, u)
  <2>1. pending[v] = t /\ TicketsOf(v) # {} /\ t # 0
    BY <1>3 DEF HasAnswer, Ticket
  <2>2. v # s /\ v # u
    BY <1>3, <2>1 DEF PendingOf
  <2>3. pending'[v] = t
    BY <1>1, <2>1, <2>2 DEF TypeOK
  <2>4. TicketsOf(v) \subseteq TicketsOf(v)'
    BY <1>1, <2>2 DEF TicketsOf
  <2> QED
    BY <1>1, <2>1, <2>3, <2>4 DEF HasAnswer
<1> QED
  BY <1>2, <1>3

LEMMA NoLostStep ==
  ASSUME DispatchInv, [DNext]_dvars
  PROVE  NoLostSearcher'
<1> USE DEF DispatchInv
<1>0. alive \subseteq Session
  BY DEF QueueInv, TypeOK
<1>1. \A v \in alive \ banned :
        state[v] = "searching" => \E t \in Ticket : HasAnswer(v, t)
  BY DEF NoLostSearcher, HasAnswer
<1>2. SUFFICES ASSUME NEW v \in Session, v \in alive', v \notin banned', state'[v] = "searching"
               PROVE  \E t \in Ticket : HasAnswer(v, t)'
  <2>1. alive' \subseteq Session
    BY MatcherSide, QStepInv DEF QueueInv, TypeOK
  <2> QED
    BY <2>1 DEF NoLostSearcher, HasAnswer
<1>3. ASSUME v \in alive \ banned, state[v] = "searching",
             UNCHANGED <<queue, owner, pending, chan>>,
             \A t \in Ticket : HasAnswer(v, t) => await'[t] \in {"none", "wait"}
      PROVE  \E t \in Ticket : HasAnswer(v, t)'
  <2>1. PICK t \in Ticket : HasAnswer(v, t)
    BY <1>1, <1>3
  <2> QED
    BY <1>3, <2>1 DEF HasAnswer, TicketsOf
<1>4. ASSUME NEW s \in Session, SearchStep(s) PROVE \E t \in Ticket : HasAnswer(v, t)'
  <2> USE DEF ConnTypes, matchVars, rest
  <2>1. CASE Connect(s)
    <3>1. v # s
      BY <2>1, <1>2 DEF Connect, ReadersInOrder
    <3> QED
      BY <1>2, <1>3, <2>1, <3>1 DEF Connect, Join, HasAnswer
  <2>2. CASE SearchBanned(s)
    <3>1. v # s
      BY <2>2, <1>2 DEF SearchBanned
    <3> QED
      BY <1>2, <1>3, <2>2, <3>1 DEF SearchBanned, HasAnswer
  <2>3. CASE SearchEnqueue(s)
    <3>1. PICK n \in Ticket : n = issued + 1
      BY <2>3, MatchQueueAssumption DEF SearchEnqueue, Enqueue, QueueInv, TypeOK, Ticket
    <3>2. /\ owner' = [owner EXCEPT ![n] = s] /\ queue' = queue \cup {n}
          /\ chan' = [chan EXCEPT ![n] = "open"]
          /\ pending' = [pending EXCEPT ![s] = n]
          /\ UNCHANGED <<alive, banned, await>>
          /\ state' = [state EXCEPT ![s] = "searching"]
      BY <2>3, <3>1 DEF SearchEnqueue, Enqueue
    <3>3. CASE v = s
      <4>1. owner'[n] = s /\ pending'[s] = n /\ n \in TicketsOf(s)'
        BY <3>2 DEF QueueInv, TypeOK, TicketsOf
      <4>2. await'[n] = "none"
        BY <3>1, <3>2, MatchQueueAssumption DEF AwaitsInOrder, QueueInv, TypeOK
      <4> QED
        BY <3>3, <4>1, <4>2 DEF HasAnswer
    <3>4. CASE v # s
      <4>1. PICK t \in Ticket : HasAnswer(v, t)
        BY <1>1, <1>2, <3>2, <3>4
      <4>2. t # n
        BY <3>1, <4>1, MatchQueueAssumption DEF HasAnswer, QueueInv, DrawnInOrder, TypeOK
      <4>3. n \notin queue
        BY <3>1, MatchQueueAssumption DEF QueueInv, DrawnInOrder, TypeOK
      <4>4. TicketsOf(v) \subseteq TicketsOf(v)'
        BY <3>2, <4>3 DEF TicketsOf, QueueInv, TypeOK
      <4> QED
        BY <3>2, <3>4, <4>1, <4>2, <4>4 DEF HasAnswer, QueueInv, TypeOK
    <3> QED
      BY <3>3, <3>4
  <2>4. CASE Announce(s)
    BY <1>2, <1>3, <2>4 DEF Announce, HasAnswer
  <2>5. CASE Cancel(s) \/ BackToIdle(s) \/ DropSearch(s)
    <3>1. v # s /\ UNCHANGED <<matchVars, banned, await>> /\ state'[v] = state[v]
      BY <1>2, <2>5 DEF Cancel, BackToIdle, DropSearch
    <3> QED
      BY <1>2, <1>3, <3>1 DEF HasAnswer
  <2>6. CASE CancelRemove(s)
    <3>1. v # s /\ v \in alive \ banned /\ state[v] = "searching" /\ await' = await /\ Remove(s)
      BY <1>2, <2>6 DEF CancelRemove, Remove, ReadersInOrder, Absent
    <3>2. PICK t \in Ticket : HasAnswer(v, t)
      BY <1>1, <3>1
    <3>3. await'[t] \in {"none", "wait"}
      BY <3>1, <3>2 DEF HasAnswer
    <3>4. CASE byID[s] = 0
      BY <3>1, <3>2, <3>4 DEF Remove, HasAnswer, TicketsOf
    <3>5. CASE byID[s] # 0
      BY <3>1, <3>2, <3>3, <3>5, ForgetOther DEF Remove
    <3> QED
      BY <3>4, <3>5
  <2>7. CASE Disconnect(s)
    BY <1>2, <1>3, <2>7 DEF Disconnect, Leave, HasAnswer
  <2> QED
    BY <1>4, <2>1, <2>2, <2>3, <2>4, <2>5, <2>6, <2>7 DEF SearchStep
<1>5. ASSUME NEW t \in Ticket, AwaitMatchStep(t) PROVE \E u \in Ticket : HasAnswer(v, u)'
  <2> USE DEF ConnTypes, matchVars, rest
  <2>1. UNCHANGED <<matchVars, banned>> /\ v \in alive \ banned
    BY <1>2, <1>5 DEF AwaitMatchStep, AwaitCancelled, AwaitMatched, AwaitTeardown, AwaitRegister,
                      AwaitTell, AwaitEnd
  <2>2. CASE AwaitMatched(t)
    <3>1. owner[t] # v /\ state[v] = "searching"
      BY <1>2, <2>2 DEF AwaitMatched
    <3> QED
      BY <1>3, <2>1, <2>2, <3>1 DEF AwaitMatched, AwaitStep, HasAnswer
  <2>3. CASE ~AwaitMatched(t)
    <3>1. state' = state
      BY <1>5, <2>3 DEF AwaitMatchStep, AwaitCancelled, AwaitTeardown, AwaitRegister, AwaitTell,
                        AwaitEnd
    <3>2. \A u \in Ticket : u # t => await'[u] = await[u]
      BY <1>5, <2>3 DEF AwaitMatchStep, AwaitCancelled, AwaitTeardown, AwaitRegister, AwaitTell,
                        AwaitEnd, AwaitStep
    <3>3. ASSUME HasAnswer(v, t) PROVE await'[t] \in {"none", "wait"}
      <4>1. Wanted(t) /\ (chan[t] = "sent" \/ chan[t] = "open")
        BY <1>2, <2>1, <3>1, <3>3 DEF Wanted, HasAnswer, QueueInv, PendingOpen, Ticket
      <4> QED
        BY <1>5, <2>3, <3>3, <4>1
        DEF AwaitMatchStep, AwaitCancelled, AwaitTeardown, AwaitRegister, AwaitTell,
            AwaitEnd, AwaitStep, HasAnswer
    <3> QED
      BY <1>2, <1>3, <2>1, <3>1, <3>2, <3>3 DEF HasAnswer
  <2> QED
    BY <2>2, <2>3
<1>6. ASSUME MatcherStep PROVE \E t \in Ticket : HasAnswer(v, t)'
  <2>1. UNCHANGED <<alive, state, await, banned>>
    BY <1>6 DEF MatcherStep, DropDead, Pair, PairUp, PairAs, connVars, rest
  <2>2. PICK t \in Ticket : HasAnswer(v, t)
    BY <1>1, <1>2, <2>1
  <2>3. await'[t] \in {"none", "wait"}
    BY <2>1, <2>2 DEF HasAnswer
  <2>4. ASSUME NEW u \in queue, DropDead(u) PROVE HasAnswer(v, t)'
    <3>1. owner[u] \in Session /\ owner[u] # v
      BY <1>2, <2>1, <2>4 DEF DropDead, QueueInv, DrawnInOrder
    <3> QED
      BY <2>2, <2>3, <2>4, <3>1, ForgetOther DEF DropDead
  <2>5. ASSUME NEW s \in Session, NEW u \in Session, Pair(s, u) PROVE HasAnswer(v, t)'
    BY <2>2, <2>3, <2>5, PairKeepsAnswer
  <2> QED
    BY <1>6, <2>4, <2>5 DEF MatcherStep
<1>7. ASSUME Glide PROVE \E t \in Ticket : HasAnswer(v, t)'
  BY <1>2, <1>3, <1>7 DEF Glide, matchVars, HasAnswer
<1> QED
  BY <1>4, <1>5, <1>6, <1>7, StepKinds

LEMMA DStepInv == DispatchInv /\ [DNext]_dvars => DispatchInv'
<1> SUFFICES ASSUME DispatchInv, [DNext]_dvars PROVE DispatchInv'
  OBVIOUS
<1>1. QueueInv'
  BY MatcherSide, QStepInv DEF DispatchInv
<1> QED
  BY <1>1, ConnTypesStep, AwaitsStep, ReadersStep, CancellableStep, NoLostStep DEF DispatchInv

LEMMA DAlwaysInv == DSpec => []DispatchInv
  BY DInitInv, DStepInv, PTL DEF DSpec

\* Whoever searches, and is not shadowbanned, has an answer coming.
THEOREM NoSearchLost == DSpec => []NoLostSearcher
<1>1. DispatchInv => NoLostSearcher
  BY DEF DispatchInv
<1> QED
  BY <1>1, DAlwaysInv, PTL

\* Whoever searches, and is not shadowbanned, may cancel.
THEOREM SearchCanBeCancelled == DSpec => []SearchingIsCancellable
<1>1. DispatchInv => SearchingIsCancellable
  BY DEF DispatchInv, AlwaysCancellable, SearchingIsCancellable
<1> QED
  BY <1>1, DAlwaysInv, PTL

\* The matcher's rules hold however readers and goroutines use it: a room goes to
\* its two members only, and to each once.
THEOREM RoomsReachTheirPair == DSpec => []RoomSentToItsPair
<1>1. DispatchInv => RoomSentToItsPair
  BY DEF DispatchInv, QueueInv
<1> QED
  BY <1>1, DAlwaysInv, PTL
----------------------------------------------------------------------------
(* The composition keeps the rules of Rooms.                                *)

\* What awaitMatch hands to registerRoomIfNew is an object of its own, of the
\* pair that the matcher made.
LEMMA RoomIsFresh ==
  ASSUME DispatchInv, NEW t \in Ticket, await[t] \in {"register", "teardown"}
  PROVE  RoomOf(t) \in R!ChatRoom /\ R!Fresh(RoomOf(t))
<1> USE DEF DispatchInv, QueueInv
<1>1. chan[t] = "sent" /\ owner[t] \in Session
  BY DEF AwaitsInOrder, DrawnInOrder
<1>2. PICK p \in Session : p # owner[t] /\ result[t].members = {owner[t], p}
  BY <1>1 DEF NoSelfMatch
<1>3. result[t].id \in Ticket
  BY <1>1, MatchQueueAssumption DEF DrawnInOrder, TypeOK, MatchRoom, Ticket
<1>4. RoomOf(t) \in R!ChatRoom
  BY <1>1, <1>2, <1>3 DEF RoomOf, R!ChatRoom
<1>5. ASSUME NEW o \in built
      PROVE  o # RoomOf(t) /\ (o.id = result[t].id => o.members = result[t].members)
  <2>1. PICK u \in Ticket : /\ chan[u] = "sent" /\ await[u] \in {"tell", "end", "done"}
                            /\ o = RoomOf(u)
    BY DEF AwaitsInOrder
  <2>2. u # t
    BY <2>1
  <2>3. o.id = result[t].id => result[u] = result[t] /\ owner[u] # owner[t]
    BY <1>1, <2>1, <2>2 DEF RoomOf, RoomSentToItsPair
  <2> QED
    BY <2>1, <2>3 DEF RoomOf
<1>6. R!Fresh(RoomOf(t))
  BY <1>1, <1>2, <1>5 DEF R!Fresh, RoomOf
<1> QED
  BY <1>4, <1>6

LEMMA RoomsStep ==
  ASSUME DispatchInv, [DNext]_dvars
  PROVE  [R!Next]_(R!vars)
<1> USE DEF roomVars
<1>0. UNCHANGED roomVars => UNCHANGED R!vars
  BY DEF R!vars, R!registry
<1>1. ASSUME NEW s \in Session, NEW e, R!SendOther(s, e) PROVE R!Next
  BY <1>1 DEF R!SendOther, R!Next
<1>2. ASSUME NEW c \in Session \cup Ticket, NEW s \in Session,
             NEW reason \in {"stop", "next", "disconnect"}, R!EndRoomIfAny(c, s, reason)
      PROVE  R!Next
  <2>1. c \in Reader \cup Awaiter \cup {Main} /\ c # Main
    BY DispatchAssumption DEF Reader, Awaiter
  <2> QED
    BY <1>2, <2>1 DEF R!EndStep, R!Next
<1>3. ASSUME NEW s \in Session, ClientStep(s) PROVE [R!Next]_(R!vars)
  <2>1. CASE Connect(s) \/ Cancel(s) \/ Disconnect(s) \/ SearchEnqueue(s)
    BY <1>0, <2>1 DEF Connect, Cancel, Disconnect, SearchEnqueue
  <2>2. CASE SearchBadTags(s) \/ SearchBanned(s) \/ Refused(s)
    BY <1>1, <2>2 DEF SearchBadTags, SearchBanned, Refused, Refuse
  <2>3. CASE Message(s) \/ Report(s)
    BY <2>3 DEF Message, Report, RoomOp, R!Next
  <2>4. CASE Stop(s) \/ NextPartner(s)
    BY <1>2, <2>4 DEF Stop, NextPartner, EndChat
  <2> QED
    BY <1>3, <2>1, <2>2, <2>3, <2>4 DEF ClientStep, Search
<1>4. ASSUME NEW s \in Session, ReaderStep(s) PROVE [R!Next]_(R!vars)
  <2>1. CASE Announce(s)
    BY <1>1, <2>1 DEF Announce
  <2>2. CASE CancelRemove(s) \/ BackToIdle(s) \/ DropSearch(s)
    BY <1>0, <2>2 DEF CancelRemove, BackToIdle, DropSearch
  <2>3. CASE Relay(s)
    BY <2>3 DEF Relay, R!Next
  <2>4. CASE ReportPartner(s)
    BY <2>4 DEF ReportPartner, R!Next
  <2>5. CASE ReportEnd(s) \/ DropRoom(s)
    BY <1>2, <2>5 DEF ReportEnd, DropRoom, EndChat
  <2> QED
    BY <1>4, <2>1, <2>2, <2>3, <2>4, <2>5 DEF ReaderStep
<1>5. ASSUME NEW t \in Ticket, AwaitMatchStep(t) PROVE [R!Next]_(R!vars)
  <2>1. CASE AwaitCancelled(t) \/ AwaitMatched(t) \/ AwaitTeardown(t)
    BY <1>0, <2>1 DEF AwaitCancelled, AwaitMatched, AwaitTeardown
  <2>2. CASE AwaitRegister(t)
    <3>1. await[t] \in {"register", "teardown"} /\ R!RegisterRoomIfNew(RoomOf(t))
      BY <2>2 DEF AwaitRegister, AwaitStep
    <3> QED
      BY <3>1, RoomIsFresh DEF R!Next
  <2>3. await[t] \in {"tell", "end"} => owner[t] \in Session
    BY DEF DispatchInv, AwaitsInOrder, QueueInv, DrawnInOrder
  <2>4. CASE AwaitTell(t)
    BY <1>0, <1>1, <2>3, <2>4 DEF AwaitTell, AwaitStep
  <2>5. CASE AwaitEnd(t)
    BY <1>2, <2>3, <2>5 DEF AwaitEnd, AwaitStep
  <2> QED
    BY <1>5, <2>1, <2>2, <2>4, <2>5 DEF AwaitMatchStep
<1>6. ASSUME NEW c \in Reader \cup Awaiter \cup {Main}, CloseRoom(c) PROVE R!Next
  BY <1>6 DEF CloseRoom, R!CloseStep, R!EndStep, R!Next
<1>7. ASSUME ShutDown \/ CloseNextRoom PROVE R!Next
  BY <1>7 DEF ShutDown, CloseNextRoom, R!Next
<1>8. ASSUME CloseAllConnections \/ MatcherStep \/ UNCHANGED dvars PROVE UNCHANGED R!vars
  BY <1>0, <1>8 DEF CloseAllConnections, MatcherStep, dvars
<1> QED
  BY <1>3, <1>4, <1>5, <1>6, <1>7, <1>8 DEF DNext

\* Whatever searches, stops and disconnects do, the goroutines use the room
\* registry as Rooms allows.
THEOREM RoomsRefined == DSpec => RoomsSpec
<1>1. DInit => R!Init
  BY DEF DInit
<1> QED
  BY <1>1, RoomsStep, DAlwaysInv, PTL DEF DSpec, RoomsSpec, R!Spec
----------------------------------------------------------------------------
(* What RoomsProofs shows of every system that uses the registry as Rooms   *)
(* allows holds here.                                                       *)
RP == INSTANCE RoomsProofs WITH
  RoomId <- Ticket,
  Caller <- Reader \cup Awaiter \cup {Main},
  OtherEnvelope <- [kind : Control, obj : [id : 0 .. MaxTickets, members : SUBSET Session,
                                          by : Session \cup {Nil}]]

LEMMA RoomsAssumed == RP!RoomsAssumption
<1>1. \A e \in [kind : Control, obj : [id : 0 .. MaxTickets, members : SUBSET Session,
                                     by : Session \cup {Nil}]] : e.kind # "peer_msg"
  BY DEF Control
<1>2. /\ RP!ChatRoom = R!ChatRoom
      /\ RP!Closing = R!Closing
      /\ RP!Envelope = R!Envelope
  BY DEF RP!ChatRoom, R!ChatRoom, RP!Closing, R!Closing, RP!Envelope, R!Envelope,
         RP!RoomEnvelope, R!RoomEnvelope
<1> QED
  BY <1>1, <1>2, NilAssumption DEF RP!RoomsAssumption

LEMMA RoomsInvInitially == R!Init => RP!RoomsInv
<1>1. R!Init => RP!Init
  BY DEF R!Init, RP!Init
<1> QED
  BY <1>1, RoomsAssumed, RP!InitInv

LEMMA RoomsNextSame == [R!Next]_(R!vars) => [RP!Next]_(RP!vars)
<1>1. R!Next => RP!Next
  BY DEF R!Next, RP!Next, R!ChatRoom, RP!ChatRoom, R!Fresh, RP!Fresh, R!RegisterRoomIfNew,
         RP!RegisterRoomIfNew, R!AddRoom, RP!AddRoom, R!EndStep, RP!EndStep, R!EndRoomIfAny,
         RP!EndRoomIfAny, R!Unlink, RP!Unlink, R!PeerLeftTo, RP!PeerLeftTo, R!MarkClosed,
         RP!MarkClosed, R!SendPeerLeft, RP!SendPeerLeft, R!CloseAllRooms, RP!CloseAllRooms,
         R!DrainNext, RP!DrainNext, R!GetRoom, RP!GetRoom, R!Relay, RP!Relay, R!RelayFrom,
         RP!RelayFrom, R!ReadMembers, RP!ReadMembers, R!SendOther, RP!SendOther,
         R!registry, RP!registry
<1>2. UNCHANGED R!vars => UNCHANGED RP!vars
  BY DEF R!vars, RP!vars, R!registry, RP!registry
<1> QED
  BY <1>1, <1>2

LEMMA RoomsInvStep == RP!RoomsInv /\ [R!Next]_(R!vars) => RP!RoomsInv'
  BY RoomsNextSame, RoomsAssumed, RP!NextInv

LEMMA RoomsInvAlways == DSpec => []RP!RoomsInv
<1>1. RoomsSpec => []RP!RoomsInv
  BY RoomsInvInitially, RoomsInvStep, PTL DEF RoomsSpec, R!Spec
<1> QED
  BY <1>1, RoomsRefined, PTL

\* In the server as a whole, no handler finds a session mapped to a room that is
\* not there, no two goroutines close one room, none is unlinked and forgotten,
\* and no line is delivered after the notice that the partner left.
THEOREM RegistryRulesHold ==
  DSpec => [](/\ R!RoomIndexSound /\ R!OneObjectPerId /\ R!ClosedOnce
              /\ R!UnlinkedIsClosing /\ R!NoLineAfterPeerLeft)
<1>1. RP!RoomsInv => R!RoomIndexSound /\ R!OneObjectPerId /\ R!ClosedOnce /\ R!UnlinkedIsClosing
  BY DEF RP!RoomsInv, RP!RoomIndexSound, R!RoomIndexSound, RP!OneObjectPerId, R!OneObjectPerId,
         RP!ClosedOnce, R!ClosedOnce, RP!UnlinkedIsClosing, R!UnlinkedIsClosing,
         RP!ToClose, R!ToClose
<1>2. R!Init => R!NoLineAfterPeerLeft
  BY DEF R!Init, R!NoLineAfterPeerLeft
<1>3. RP!RoomsInv /\ R!NoLineAfterPeerLeft /\ [R!Next]_(R!vars) => R!NoLineAfterPeerLeft'
  <2>1. RP!NoLineAfterPeerLeft <=> R!NoLineAfterPeerLeft
    BY DEF RP!NoLineAfterPeerLeft, R!NoLineAfterPeerLeft
  <2>2. RP!NoLineAfterPeerLeft' <=> R!NoLineAfterPeerLeft'
    BY DEF RP!NoLineAfterPeerLeft, R!NoLineAfterPeerLeft
  <2> QED
    BY <2>1, <2>2, RoomsNextSame, RoomsAssumed, RP!LineStep
<1>4. RoomsSpec => []RP!RoomsInv
  BY RoomsInvInitially, RoomsInvStep, PTL DEF RoomsSpec, R!Spec
<1>5. RoomsSpec => [](/\ R!RoomIndexSound /\ R!OneObjectPerId /\ R!ClosedOnce
                      /\ R!UnlinkedIsClosing /\ R!NoLineAfterPeerLeft)
  BY <1>1, <1>2, <1>3, <1>4, PTL DEF RoomsSpec, R!Spec
<1> QED
  BY <1>5, RoomsRefined, PTL

\* The types of the composition hold in every state.  Who is banned is a session,
\* as rooms have sessions for members.
THEOREM DispatchTypesCorrect == DSpec => []DTypeOK
<1> DEFINE Rest == /\ banned \in SUBSET Session
                   /\ server \in {"up", "sweeping", "closed"}
                   /\ cut \in SUBSET Session
<1>1. DInit => Rest
  BY DEF DInit
<1>2. RP!RoomsInv => R!TypeOK
  BY DEF RP!RoomsInv, RP!TypeOK, R!TypeOK, R!ChatRoom, RP!ChatRoom, R!Closing, RP!Closing,
         R!Envelope, RP!Envelope, R!RoomEnvelope, RP!RoomEnvelope
<1>3. R!TypeOK /\ Rest /\ [DNext]_dvars => Rest'
  <2> SUFFICES ASSUME R!TypeOK, Rest, [DNext]_dvars PROVE Rest'
    OBVIOUS
  <2> USE DEF rest
  <2>1. ASSUME NEW s \in Session, ReportPartner(s) PROVE Rest'
    <3>1. held[s] \in R!ChatRoom
      BY <2>1 DEF ReportPartner, R!ReadMembers, R!TypeOK
    <3>2. held[s].members \subseteq Session
      BY <3>1 DEF R!ChatRoom
    <3> QED
      BY <2>1, <3>2 DEF ReportPartner
  <2>2. ASSUME NEW s \in Session, ClientStep(s) PROVE Rest'
    <3>1. UNCHANGED rest
      BY <2>2 DEF ClientStep, Connect, Search, SearchBadTags, SearchBanned, SearchEnqueue, Refuse,
                  Cancel, Message, Report, RoomOp, Stop, NextPartner, EndChat, Refused, Disconnect
    <3> QED
      BY <3>1
  <2>3. ASSUME NEW s \in Session, ReaderStep(s), ~ReportPartner(s) PROVE Rest'
    <3>1. UNCHANGED rest
      BY <2>3 DEF ReaderStep, Announce, CancelRemove, Relay, ReportEnd, EndChat, BackToIdle,
                  DropSearch, DropRoom
    <3> QED
      BY <3>1
  <2>4. ASSUME NEW t \in Ticket, AwaitMatchStep(t) PROVE Rest'
    BY <2>4 DEF AwaitMatchStep, AwaitCancelled, AwaitMatched, AwaitTeardown, AwaitRegister,
                AwaitTell, AwaitEnd
  <2>5. ASSUME ShutDown \/ CloseAllConnections PROVE Rest'
    BY <2>5 DEF ShutDown, CloseAllConnections
  <2>6. ASSUME NEW c, CloseRoom(c) PROVE Rest'
    BY <2>6 DEF CloseRoom, connVars
  <2>7. ASSUME CloseNextRoom \/ MatcherStep \/ UNCHANGED dvars PROVE Rest'
    BY <2>7 DEF CloseNextRoom, MatcherStep, dvars, connVars
  <2> QED
    BY <2>1, <2>2, <2>3, <2>4, <2>5, <2>6, <2>7 DEF DNext
<1>4. DispatchInv /\ R!TypeOK /\ Rest => DTypeOK
  BY DEF DispatchInv, QueueInv, ConnTypes, DTypeOK
<1> QED
  BY <1>1, <1>2, <1>3, <1>4, RoomsInvAlways, DAlwaysInv, PTL DEF DSpec
=============================================================================
