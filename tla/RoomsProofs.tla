---------------------------- MODULE RoomsProofs ----------------------------
(****************************************************************************)
(* Proofs about Rooms, for every set of sessions, IDs and goroutines.       *)
(****************************************************************************)
EXTENDS Rooms, TLAPS

\* What the step needs to know of the objects: all have been built before, so
\* that a new one is in none of the other sets, and only closed rooms have
\* been announced as left.
BuiltBefore ==
  /\ rooms \subseteq opened
  /\ opened \subseteq built
  /\ closed \subseteq built
  /\ draining \subseteq built
  /\ \A c \in Caller : ToClose(c) \subseteq built
  /\ \A o \in ChatRoom, s \in Session : <<o, s>> \in peerLeft => o \in closed

RoomsInv ==
  /\ TypeOK
  /\ BuiltBefore
  /\ RoomIndexSound
  /\ OneObjectPerId
  /\ ClosedOnce
  /\ UnlinkedIsClosing
----------------------------------------------------------------------------
\* The initial state satisfies the invariant.
LEMMA InitInv == Init => RoomsInv
  BY RoomsAssumption
  DEF Init, RoomsInv, TypeOK, BuiltBefore, RoomIndexSound, OneObjectPerId, ClosedOnce,
      UnlinkedIsClosing, ToClose

\* Each action keeps every variable of its type.
LEMMA TypeStep == TypeOK /\ [Next]_vars => TypeOK'
<1> USE RoomsAssumption
<1> SUFFICES ASSUME TypeOK, [Next]_vars PROVE TypeOK'
  OBVIOUS
<1>1. ASSUME NEW o \in ChatRoom, RegisterRoomIfNew(o) PROVE TypeOK'
  <2>1. o.id \in RoomId
    BY DEF ChatRoom
  <2> QED
    BY <1>1, <2>1 DEF TypeOK, RegisterRoomIfNew, AddRoom
<1>2. ASSUME NEW c \in Caller, NEW s \in Session,
             NEW reason \in {"stop", "next", "disconnect"}, EndRoomIfAny(c, s, reason)
      PROVE TypeOK'
  <2>1. CASE sessionToRoom[s] = Nil
    BY <1>2, <2>1 DEF TypeOK, EndRoomIfAny
  <2>2. CASE sessionToRoom[s] # Nil
    <3>1. PICK o \in rooms : 
             /\ Unlink(o)
             /\ closing' = [closing EXCEPT ![c] =
                  [obj |-> o, to |-> PeerLeftTo(o, s, reason), marked |-> FALSE]]
      BY <1>2, <2>2 DEF EndRoomIfAny
    <3>2. o \in ChatRoom /\ o.members \in SUBSET Session
      BY DEF TypeOK, ChatRoom
    <3>3. [obj |-> o, to |-> PeerLeftTo(o, s, reason), marked |-> FALSE] \in Closing
      BY <3>2 DEF Closing, PeerLeftTo
    <3> QED
      BY <1>2, <3>1, <3>3 DEF TypeOK, EndRoomIfAny, Unlink
  <2> QED
    BY <2>1, <2>2
<1>3. ASSUME NEW c \in Caller, MarkClosed(c) PROVE TypeOK'
  <2>1. closing[c] \in Closing
    BY <1>3 DEF TypeOK, MarkClosed
  <2>2. [closing[c] EXCEPT !.marked = TRUE] \in Closing /\ closing[c].obj \in ChatRoom
    BY <2>1 DEF Closing
  <2> QED
    BY <1>3, <2>1, <2>2 DEF TypeOK, MarkClosed, registry
<1>4. ASSUME NEW c \in Caller, NEW s \in Session, SendPeerLeft(c, s) PROVE TypeOK'
  <2>1. closing[c] \in Closing
    BY <1>4 DEF TypeOK, SendPeerLeft
  <2>2. /\ closing[c].obj \in ChatRoom
        /\ [obj |-> closing[c].obj, to |-> closing[c].to \ {s}, marked |-> TRUE] \in Closing
    BY <2>1 DEF Closing
  <2>3. [kind |-> "peer_left", obj |-> closing[c].obj] \in Envelope
    BY <2>2 DEF Envelope, RoomEnvelope
  <2> QED
    BY <1>4, <2>1, <2>2, <2>3 DEF TypeOK, SendPeerLeft, registry
<1>5. CASE CloseAllRooms
  BY <1>5 DEF TypeOK, CloseAllRooms
<1>6. ASSUME NEW o \in draining, DrainNext(o) PROVE TypeOK'
  <2>1. [obj |-> o, to |-> o.members, marked |-> FALSE] \in Closing
    BY DEF TypeOK, ChatRoom, Closing
  <2> QED
    BY <1>6, <2>1 DEF TypeOK, DrainNext, registry
<1>7. ASSUME NEW s \in Session, GetRoom(s) PROVE TypeOK'
  BY <1>7 DEF TypeOK, GetRoom, registry
<1>8. ASSUME NEW s \in Session, Relay(s) PROVE TypeOK'
  <2>1. held[s] \in ChatRoom
    BY <1>8 DEF TypeOK, Relay
  <2>2. [kind |-> "peer_msg", obj |-> held[s]] \in Envelope
    BY <2>1 DEF Envelope, RoomEnvelope
  <2>3. wire' \in [Session -> Envelope \cup {Nil}]
    <3>1. CASE held[s] \in closed
      BY <1>8, <3>1 DEF TypeOK, Relay, RelayFrom
    <3>2. CASE held[s] \notin closed
      <4>1. PICK p \in held[s].members :
               wire' = [wire EXCEPT ![p] = [kind |-> "peer_msg", obj |-> held[s]]]
        BY <1>8, <3>2 DEF Relay, RelayFrom
      <4> QED
        BY <2>2, <4>1 DEF TypeOK
    <3> QED
      BY <3>1, <3>2
  <2> QED
    BY <1>8, <2>3 DEF TypeOK, Relay, registry
<1>9. ASSUME NEW s \in Session, ReadMembers(s) PROVE TypeOK'
  BY <1>9 DEF TypeOK, ReadMembers, registry
<1>10. ASSUME NEW s \in Session, NEW e \in OtherEnvelope, SendOther(s, e) PROVE TypeOK'
  BY <1>10 DEF TypeOK, SendOther, registry, Envelope
<1>11. CASE UNCHANGED vars
  BY <1>11 DEF TypeOK, vars, registry
<1> QED
  BY <1>1, <1>2, <1>3, <1>4, <1>5, <1>6, <1>7, <1>8, <1>9, <1>10, <1>11 DEF Next, EndStep
----------------------------------------------------------------------------
(* The step lemma, one lemma per group of actions.                          *)

\* A new object is in none of the sets, so registering it disturbs nothing;
\* the members' old entries are overwritten together with the new room.
LEMMA RegisterStep ==
  ASSUME RoomsInv, TypeOK', NEW o \in ChatRoom, Fresh(o), RegisterRoomIfNew(o)
  PROVE  RoomsInv'
<1> USE DEF RoomsInv
<1>1. o \notin built
  BY DEF Fresh
<1>2. \A c \in Caller : ToClose(c)' = ToClose(c)
  BY DEF RegisterRoomIfNew, ToClose
<1>3. CASE \E r \in rooms : r.id = o.id
  <2>1. UNCHANGED <<rooms, sessionToRoom, opened, closed, closing, draining, peerLeft>>
    BY <1>3 DEF RegisterRoomIfNew
  <2>2. built \subseteq built'
    BY DEF RegisterRoomIfNew
  <2> QED
    BY <1>2, <2>1, <2>2 DEF BuiltBefore, RoomIndexSound, OneObjectPerId, ClosedOnce, UnlinkedIsClosing
<1>4. CASE ~\E r \in rooms : r.id = o.id
  <2>1. /\ rooms' = rooms \cup {o}
        /\ sessionToRoom' = [s \in Session |-> IF s \in o.members THEN o.id ELSE sessionToRoom[s]]
        /\ opened' = opened \cup {o}
        /\ built' = built \cup {o}
        /\ UNCHANGED <<closed, closing, draining, peerLeft>>
    BY <1>4 DEF RegisterRoomIfNew, AddRoom
  <2>2. BuiltBefore'
    BY <1>2, <2>1 DEF BuiltBefore
  <2>3. RoomIndexSound'
    BY <2>1 DEF RoomIndexSound
  <2>4. OneObjectPerId'
    BY <1>4, <2>1 DEF OneObjectPerId
  <2>5. ClosedOnce'
    BY <1>1, <1>2, <2>1 DEF ClosedOnce, BuiltBefore
  <2>6. UnlinkedIsClosing'
    BY <1>2, <2>1 DEF UnlinkedIsClosing
  <2> QED
    BY <2>2, <2>3, <2>4, <2>5, <2>6
<1> QED
  BY <1>3, <1>4

\* The unlinked room is registered, hence on nobody's way to a close, and the
\* sessions of other rooms keep their entries.
LEMMA EndRoomStep ==
  ASSUME RoomsInv, TypeOK', NEW c \in Caller, NEW s \in Session,
         NEW reason \in {"stop", "next", "disconnect"}, EndRoomIfAny(c, s, reason)
  PROVE  RoomsInv'
<1> USE RoomsAssumption DEF RoomsInv
<1>0. UNCHANGED <<built, opened, closed, draining, peerLeft>> /\ closing[c] = Nil
  BY DEF EndRoomIfAny
<1>1. CASE sessionToRoom[s] = Nil
  <2>1. UNCHANGED <<rooms, sessionToRoom, closing>>
    BY <1>1 DEF EndRoomIfAny
  <2>2. \A d \in Caller : ToClose(d)' = ToClose(d)
    BY <2>1 DEF ToClose
  <2> QED
    BY <1>0, <2>1, <2>2 DEF BuiltBefore, RoomIndexSound, OneObjectPerId, ClosedOnce, UnlinkedIsClosing
<1>2. CASE sessionToRoom[s] # Nil
  <2>1. PICK o \in rooms :
           /\ o.id = sessionToRoom[s]
           /\ Unlink(o)
           /\ closing' = [closing EXCEPT ![c] =
                [obj |-> o, to |-> PeerLeftTo(o, s, reason), marked |-> FALSE]]
    BY <1>2 DEF EndRoomIfAny
  <2> DEFINE job == [obj |-> o, to |-> PeerLeftTo(o, s, reason), marked |-> FALSE]
  <2>2. o \in built /\ job # Nil
    <3>1. o \in ChatRoom /\ o \in built
      BY DEF TypeOK, BuiltBefore
    <3>2. PeerLeftTo(o, s, reason) \in SUBSET Session
      BY <3>1 DEF ChatRoom, PeerLeftTo
    <3>3. job \in Closing
      BY <3>1, <3>2 DEF Closing
    <3>4. Nil \notin Closing
      BY DEF RoomsAssumption
    <3> QED
      BY <3>1, <3>3, <3>4
  <2>3. /\ closing'[c] # Nil /\ closing'[c].obj = o /\ closing'[c].marked = FALSE
        /\ \A d \in Caller : d # c => closing'[d] = closing[d]
    BY <2>1, <2>2 DEF TypeOK
  <2>4. /\ ToClose(c)' = {o}
        /\ ToClose(c) = {}
        /\ \A d \in Caller : d # c => ToClose(d)' = ToClose(d)
    BY <1>0, <2>2, <2>3 DEF ToClose
  <2>5. /\ rooms' = rooms \ {o}
        /\ \A t \in Session : sessionToRoom'[t] = IF t \in o.members THEN Nil ELSE sessionToRoom[t]
    BY <2>1 DEF Unlink
  <2>6. BuiltBefore'
    BY <1>0, <2>2, <2>4, <2>5 DEF BuiltBefore
  <2>7. RoomIndexSound'
    BY <2>5 DEF RoomIndexSound
  <2>8. OneObjectPerId'
    BY <2>5 DEF OneObjectPerId
  <2>9. ClosedOnce'
    <3>1. \A d \in Caller : ToClose(d)' \cap (rooms \cup draining)' = {}
      <4>1. o \notin draining
        BY DEF ClosedOnce
      <4> QED
        BY <1>0, <2>4, <2>5, <4>1 DEF ClosedOnce
    <3>2. \A d, e \in Caller : d # e => ToClose(d)' \cap ToClose(e)' = {}
      BY <2>4 DEF ClosedOnce
    <3>3. \A d \in Caller : closing'[d] # Nil =>
            (closing'[d].marked <=> closing'[d].obj \in closed')
      BY <1>0, <2>3 DEF ClosedOnce
    <3>4. closed' \cap (rooms \cup draining)' = {} /\ rooms' \cap draining' = {}
      BY <1>0, <2>5 DEF ClosedOnce
    <3> QED
      BY <3>1, <3>2, <3>3, <3>4 DEF ClosedOnce
  <2>10. UnlinkedIsClosing'
    BY <1>0, <2>4, <2>5 DEF UnlinkedIsClosing
  <2> QED
    BY <2>6, <2>7, <2>8, <2>9, <2>10
<1> QED
  BY <1>1, <1>2

\* The goroutine's own object becomes closed, or was closed and is dropped.
LEMMA MarkClosedStep ==
  ASSUME RoomsInv, TypeOK', NEW c \in Caller, MarkClosed(c)
  PROVE  RoomsInv'
<1> USE RoomsAssumption DEF RoomsInv
<1> DEFINE o == closing[c].obj
<1>1. /\ UNCHANGED <<rooms, sessionToRoom, built, opened, draining, peerLeft>>
      /\ closing[c] # Nil
      /\ ~closing[c].marked
  BY DEF MarkClosed, registry
<1>2. o \notin closed /\ ToClose(c) = {o}
  BY <1>1 DEF ClosedOnce, ToClose
<1>3. /\ closed' = closed \cup {o}
      /\ closing' = [closing EXCEPT ![c].marked = TRUE]
  BY <1>2 DEF MarkClosed
<1>4. /\ closing[c] \in Closing
      /\ closing'[c] # Nil /\ closing'[c].obj = o /\ closing'[c].marked = TRUE
      /\ \A d \in Caller : d # c => closing'[d] = closing[d]
  <2>1. closing[c] \in Closing
    BY <1>1 DEF TypeOK
  <2>2. [closing[c] EXCEPT !.marked = TRUE] \in Closing
    BY <2>1 DEF Closing
  <2> QED
    BY <1>3, <2>1, <2>2 DEF TypeOK, Closing
<1>5. \A d \in Caller : ToClose(d)' = ToClose(d)
  BY <1>1, <1>4 DEF ToClose
<1>6. BuiltBefore'
  BY <1>1, <1>2, <1>3, <1>5 DEF BuiltBefore
<1>7. ClosedOnce'
  <2>1. o \notin rooms \cup draining
    BY <1>2 DEF ClosedOnce
  <2>2. \A d \in Caller : closing'[d] # Nil =>
          (closing'[d].marked <=> closing'[d].obj \in closed')
    <3> SUFFICES ASSUME NEW d \in Caller, d # c, closing[d] # Nil
                 PROVE  closing[d].marked <=> closing[d].obj \in closed'
      BY <1>3, <1>4
    <3>1. closing[d].obj # o
      BY <1>2 DEF ClosedOnce, ToClose
    <3> QED
      BY <1>3, <3>1 DEF ClosedOnce
  <2> QED
    BY <1>1, <1>3, <1>5, <2>1, <2>2 DEF ClosedOnce
<1>8. UnlinkedIsClosing'
  BY <1>1, <1>3, <1>5 DEF UnlinkedIsClosing
<1> QED
  BY <1>1, <1>6, <1>7, <1>8 DEF RoomIndexSound, OneObjectPerId

\* The object announced is closed; when the last member has been told, the
\* goroutine has nothing left to close.
LEMMA SendPeerLeftStep ==
  ASSUME RoomsInv, TypeOK', NEW c \in Caller, NEW s \in Session, SendPeerLeft(c, s)
  PROVE  RoomsInv'
<1> USE RoomsAssumption DEF RoomsInv
<1> DEFINE o == closing[c].obj
<1> DEFINE rest == [obj |-> o, to |-> closing[c].to \ {s}, marked |-> TRUE]
<1>1. /\ UNCHANGED <<rooms, sessionToRoom, built, opened, closed, draining>>
      /\ closing[c] # Nil
      /\ closing[c].marked
      /\ peerLeft' = peerLeft \cup {<<o, s>>}
      /\ closing' = [closing EXCEPT ![c] = IF closing[c].to \ {s} = {} THEN Nil ELSE rest]
  BY DEF SendPeerLeft, registry
<1>2. o \in closed /\ ToClose(c) = {o}
  BY <1>1 DEF ClosedOnce, ToClose
<1>3. closing'[c] = Nil \/ closing'[c] = rest
  BY <1>1 DEF TypeOK
<1>4. \A d \in Caller : d # c => closing'[d] = closing[d]
  BY <1>1 DEF TypeOK
<1>5. /\ ToClose(c)' \subseteq {o}
      /\ \A d \in Caller : d # c => ToClose(d)' = ToClose(d)
  BY <1>3, <1>4 DEF ToClose
<1>6. BuiltBefore'
  BY <1>1, <1>2, <1>5 DEF BuiltBefore
<1>7. ClosedOnce'
  <2>1. \A d \in Caller : ToClose(d)' \subseteq ToClose(d)
    BY <1>2, <1>5
  <2>2. \A d \in Caller : closing'[d] # Nil =>
          (closing'[d].marked <=> closing'[d].obj \in closed')
    BY <1>1, <1>2, <1>3, <1>4 DEF ClosedOnce
  <2> QED
    BY <1>1, <2>1, <2>2 DEF ClosedOnce
<1>8. UnlinkedIsClosing'
  BY <1>1, <1>2, <1>5 DEF UnlinkedIsClosing
<1> QED
  BY <1>1, <1>6, <1>7, <1>8 DEF RoomIndexSound, OneObjectPerId

\* Every registered room moves to the list that CloseAllRooms works off.
LEMMA CloseAllStep == RoomsInv /\ TypeOK' /\ CloseAllRooms => RoomsInv'
<1> SUFFICES ASSUME RoomsInv, TypeOK', CloseAllRooms PROVE RoomsInv'
  OBVIOUS
<1> USE DEF RoomsInv
<1>1. /\ UNCHANGED <<built, opened, closed, closing, peerLeft>>
      /\ rooms' = {} /\ draining = {} /\ draining' = rooms
      /\ \A s \in Session : sessionToRoom'[s] = Nil
  BY DEF CloseAllRooms
<1>2. \A d \in Caller : ToClose(d)' = ToClose(d)
  BY <1>1 DEF ToClose
<1>3. BuiltBefore'
  BY <1>1, <1>2 DEF BuiltBefore
<1>4. ClosedOnce'
  BY <1>1, <1>2 DEF ClosedOnce
<1>5. UnlinkedIsClosing'
  BY <1>1, <1>2 DEF UnlinkedIsClosing
<1> QED
  BY <1>1, <1>3, <1>4, <1>5 DEF RoomIndexSound, OneObjectPerId

\* A room on that list becomes the one Main is closing.
LEMMA DrainStep ==
  ASSUME RoomsInv, TypeOK', NEW o \in draining, DrainNext(o)
  PROVE  RoomsInv'
<1> USE RoomsAssumption DEF RoomsInv
<1> DEFINE job == [obj |-> o, to |-> o.members, marked |-> FALSE]
<1>1. /\ UNCHANGED <<rooms, sessionToRoom, built, opened, closed, peerLeft>>
      /\ closing[Main] = Nil
      /\ draining' = draining \ {o}
      /\ closing' = [closing EXCEPT ![Main] = job]
  BY DEF DrainNext, registry
<1>2. job # Nil
  <2>1. job \in Closing
    BY DEF TypeOK, ChatRoom, Closing
  <2> QED
    BY <2>1
<1>3. /\ closing'[Main] = job
      /\ \A d \in Caller : d # Main => closing'[d] = closing[d]
  BY <1>1 DEF TypeOK
<1>4. /\ ToClose(Main)' = {o}
      /\ ToClose(Main) = {}
      /\ \A d \in Caller : d # Main => ToClose(d)' = ToClose(d)
  BY <1>1, <1>2, <1>3 DEF ToClose
<1>5. BuiltBefore'
  BY <1>1, <1>4 DEF BuiltBefore
<1>6. ClosedOnce'
  <2>1. \A d \in Caller : ToClose(d)' \cap (rooms \cup draining)' = {}
    BY <1>1, <1>4 DEF ClosedOnce
  <2>2. \A d, e \in Caller : d # e => ToClose(d)' \cap ToClose(e)' = {}
    BY <1>4 DEF ClosedOnce
  <2>3. \A d \in Caller : closing'[d] # Nil =>
          (closing'[d].marked <=> closing'[d].obj \in closed')
    BY <1>1, <1>3 DEF ClosedOnce
  <2>4. closed' \cap (rooms \cup draining)' = {} /\ rooms' \cap draining' = {}
    BY <1>1 DEF ClosedOnce
  <2> QED
    BY <2>1, <2>2, <2>3, <2>4 DEF ClosedOnce
<1>7. UnlinkedIsClosing'
  BY <1>1, <1>4 DEF UnlinkedIsClosing
<1> QED
  BY <1>1, <1>5, <1>6, <1>7 DEF RoomIndexSound, OneObjectPerId

\* The actions that touch neither the registry nor a close.
LEMMA OtherStep ==
  ASSUME RoomsInv, TypeOK',
         UNCHANGED <<rooms, sessionToRoom, built, opened, closed, closing, draining, peerLeft>>
  PROVE  RoomsInv'
<1>1. \A d \in Caller : ToClose(d)' = ToClose(d)
  BY DEF ToClose
<1> QED
  BY <1>1 DEF RoomsInv, BuiltBefore, RoomIndexSound, OneObjectPerId, ClosedOnce, UnlinkedIsClosing

\* The invariant is inductive.
LEMMA NextInv == RoomsInv /\ [Next]_vars => RoomsInv'
<1> SUFFICES ASSUME RoomsInv, [Next]_vars PROVE RoomsInv'
  OBVIOUS
<1>0. TypeOK'
  BY TypeStep DEF RoomsInv
<1>1. ASSUME NEW o \in ChatRoom, Fresh(o) /\ RegisterRoomIfNew(o) PROVE RoomsInv'
  BY <1>0, <1>1, RegisterStep
<1>2. ASSUME NEW c \in Caller, NEW s \in Session,
             NEW reason \in {"stop", "next", "disconnect"}, EndRoomIfAny(c, s, reason)
      PROVE RoomsInv'
  BY <1>0, <1>2, EndRoomStep
<1>3. ASSUME NEW c \in Caller, MarkClosed(c) PROVE RoomsInv'
  BY <1>0, <1>3, MarkClosedStep
<1>4. ASSUME NEW c \in Caller, NEW s \in Session, SendPeerLeft(c, s) PROVE RoomsInv'
  BY <1>0, <1>4, SendPeerLeftStep
<1>5. CASE CloseAllRooms
  BY <1>0, <1>5, CloseAllStep
<1>6. ASSUME NEW o \in draining, DrainNext(o) PROVE RoomsInv'
  BY <1>0, <1>6, DrainStep
<1>7. ASSUME NEW s \in Session, GetRoom(s) \/ Relay(s) \/ ReadMembers(s) PROVE RoomsInv'
  BY <1>0, <1>7, OtherStep DEF GetRoom, Relay, ReadMembers, registry
<1>8. ASSUME NEW s \in Session, NEW e \in OtherEnvelope, SendOther(s, e) PROVE RoomsInv'
  BY <1>0, <1>8, OtherStep DEF SendOther, registry
<1>9. CASE UNCHANGED vars
  BY <1>0, <1>9, OtherStep DEF vars, registry
<1> QED
  BY <1>1, <1>2, <1>3, <1>4, <1>5, <1>6, <1>7, <1>8, <1>9 DEF Next, EndStep

\* In every behaviour the invariant holds in every state.
LEMMA AlwaysInv == Spec => []RoomsInv
  BY InitInv, NextInv, PTL DEF Spec
----------------------------------------------------------------------------
\* The types of the registry's state hold in every state.
THEOREM TypeCorrect == Spec => []TypeOK
<1>1. RoomsInv => TypeOK
  BY DEF RoomsInv
<1> QED
  BY <1>1, AlwaysInv, PTL

\* A mapped session is a member of a registered room: the dereference in
\* endRoomIfAny and the member test in handleReport never fail.
THEOREM IndexSound == Spec => []RoomIndexSound
<1>1. RoomsInv => RoomIndexSound
  BY DEF RoomsInv
<1> QED
  BY <1>1, AlwaysInv, PTL

\* No two goroutines close the same room object, however many end rooms at once.
THEOREM CloseOnce == Spec => []ClosedOnce
<1>1. RoomsInv => ClosedOnce
  BY DEF RoomsInv
<1> QED
  BY <1>1, AlwaysInv, PTL

\* No room is unlinked and forgotten.
THEOREM NothingForgotten == Spec => []UnlinkedIsClosing
<1>1. RoomsInv => UnlinkedIsClosing
  BY DEF RoomsInv
<1> QED
  BY <1>1, AlwaysInv, PTL

----------------------------------------------------------------------------
\* A line goes out only while its room is not closed, and a closed room is the
\* only one that has been announced as left.
LEMMA LineStep ==
  RoomsInv /\ NoLineAfterPeerLeft /\ [Next]_vars => NoLineAfterPeerLeft'
<1> SUFFICES ASSUME RoomsInv, NoLineAfterPeerLeft, [Next]_vars,
                    NEW t \in Session, wire'[t] # Nil, wire'[t].kind = "peer_msg"
             PROVE  <<wire'[t].obj, t>> \notin peerLeft'
  BY DEF NoLineAfterPeerLeft
<1> USE RoomsAssumption
<1>t. wire \in [Session -> Envelope \cup {Nil}] /\ held \in [Session -> ChatRoom \cup {Nil}]
  BY DEF RoomsInv, TypeOK
<1>1. CASE UNCHANGED <<wire, peerLeft>>
  BY <1>1 DEF NoLineAfterPeerLeft
<1>2. ASSUME NEW c \in Caller, NEW s \in Session, SendPeerLeft(c, s)
      PROVE  <<wire'[t].obj, t>> \notin peerLeft'
  <2>1. t # s
    BY <1>t, <1>2 DEF SendPeerLeft
  <2>2. wire'[t] = wire[t]
    BY <1>t, <1>2, <2>1 DEF SendPeerLeft
  <2>3. <<wire[t].obj, t>> \notin peerLeft
    BY <2>2 DEF NoLineAfterPeerLeft
  <2> QED
    BY <1>2, <2>1, <2>2, <2>3 DEF SendPeerLeft
<1>3. ASSUME NEW s \in Session, Relay(s) PROVE <<wire'[t].obj, t>> \notin peerLeft'
  <2>1. CASE held[s] \in closed
    BY <1>1, <1>3, <2>1 DEF Relay, RelayFrom
  <2>2. CASE held[s] \notin closed
    <3>1. held[s] \in ChatRoom /\ peerLeft' = peerLeft
      BY <1>t, <1>3 DEF Relay
    <3>2. PICK p \in held[s].members \ {s} :
             wire' = [wire EXCEPT ![p] = [kind |-> "peer_msg", obj |-> held[s]]]
      BY <1>3, <2>2 DEF Relay, RelayFrom
    <3>3. CASE p = t
      <4>1. wire'[t].obj = held[s]
        BY <1>t, <3>2, <3>3
      <4> QED
        BY <2>2, <3>1, <4>1 DEF RoomsInv, BuiltBefore
    <3>4. CASE p # t
      <4>1. wire'[t] = wire[t]
        BY <1>t, <3>2, <3>4
      <4> QED
        BY <3>1, <4>1 DEF NoLineAfterPeerLeft
    <3> QED
      BY <3>3, <3>4
  <2> QED
    BY <2>1, <2>2
<1>4. ASSUME NEW s \in Session, NEW e \in OtherEnvelope, SendOther(s, e)
      PROVE  <<wire'[t].obj, t>> \notin peerLeft'
  <2>1. t # s
    BY <1>t, <1>4 DEF SendOther
  <2>2. wire'[t] = wire[t] /\ peerLeft' = peerLeft
    BY <1>t, <1>4, <2>1 DEF SendOther
  <2> QED
    BY <2>2 DEF NoLineAfterPeerLeft
<1> QED
  BY <1>1, <1>2, <1>3, <1>4
  DEF Next, EndStep, RegisterRoomIfNew, EndRoomIfAny, MarkClosed, CloseAllRooms, DrainNext,
      GetRoom, ReadMembers, vars

\* After peer_left of a room has gone into a session's Send buffer, no line of
\* that room follows it there.
THEOREM LinesBeforePeerLeft == Spec => []NoLineAfterPeerLeft
<1>1. Init => NoLineAfterPeerLeft
  BY DEF Init, NoLineAfterPeerLeft
<1> QED
  BY <1>1, LineStep, AlwaysInv, PTL DEF Spec
=============================================================================
