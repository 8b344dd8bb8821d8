------------------------------- MODULE Rooms -------------------------------
(****************************************************************************)
(* The room registry of the WebSocket server (the maps rooms and            *)
(* sessionToRoom of ws.Server, guarded by roomsMu) and the chat rooms it    *)
(* holds (chat.Room, each guarded by its own mu).                           *)
(*                                                                          *)
(* Every mutex section is one action.  A call that takes two locks in a     *)
(* row is two or more actions, so that other goroutines run in between:     *)
(* endRoomIfAny unlinks the room under roomsMu and only then closes it,     *)
(* and a message handler looks the room up under roomsMu and relays         *)
(* through it later.                                                        *)
(****************************************************************************)
EXTENDS FiniteSets

CONSTANTS
  Session,        \* session IDs
  RoomId,         \* match.Room IDs
  Caller,         \* goroutines that may end a room, or all of them
  Main,           \* the one that runs the shutdown sequence
  OtherEnvelope,  \* what the connection layer itself puts in a Send buffer
  Nil

(****************************************************************************)
(* A chat.Room object.  Each awaitMatch goroutine that receives a           *)
(* match.Room builds an object of its own from it, so that one ID can name  *)
(* two objects; `by' is the session whose goroutine built this one.         *)
(****************************************************************************)
ChatRoom == [id : RoomId, members : SUBSET Session, by : Session]

RoomEnvelope == [kind : {"peer_msg", "peer_left"}, obj : ChatRoom]
Envelope == RoomEnvelope \cup OtherEnvelope

\* What is left of a Close: `marked' once r.closed is set, `to' the members
\* that have not been sent peer_left yet.
Closing == [obj : ChatRoom, to : SUBSET Session, marked : BOOLEAN]

ASSUME RoomsAssumption ==
  /\ Main \in Caller
  /\ Nil \notin RoomId
  /\ Nil \notin ChatRoom
  /\ Nil \notin Closing
  /\ Nil \notin Envelope
  /\ \A e \in OtherEnvelope : e.kind # "peer_msg"

VARIABLES
  rooms,          \* the objects registered in Server.rooms
  sessionToRoom,  \* Server.sessionToRoom: session -> room ID or Nil
  built,          \* objects handed to registerRoomIfNew so far
  opened,         \* those among them it registered
  closed,         \* objects whose r.closed is set
  closing,        \* per goroutine: the Close it is executing, or Nil
  draining,       \* rooms CloseAllRooms has collected and not closed yet
  held,           \* per session: the room its reader got from getRoom, or Nil
  peerLeft,       \* pairs <<object, session>>: peer_left was sent
  wire            \* per session: the last envelope put in its Send buffer

registry == <<rooms, sessionToRoom, built, opened>>
vars == <<registry, closed, closing, draining, held, peerLeft, wire>>
----------------------------------------------------------------------------
Init ==
  /\ rooms = {}
  /\ sessionToRoom = [s \in Session |-> Nil]
  /\ built = {}
  /\ opened = {}
  /\ closed = {}
  /\ closing = [c \in Caller |-> Nil]
  /\ draining = {}
  /\ held = [s \in Session |-> Nil]
  /\ peerLeft = {}
  /\ wire = [s \in Session |-> Nil]

(****************************************************************************)
(* What the matcher guarantees of a new object: two different members, one  *)
(* of whom built it, each building one object at most, and one pair per ID. *)
(****************************************************************************)
Fresh(o) ==
  /\ \E x, y \in Session : x # y /\ o.members = {x, y}
  /\ o.by \in o.members
  /\ o \notin built
  /\ \A p \in built : p.id = o.id => p.members = o.members

AddRoom(o) ==
  /\ rooms' = rooms \cup {o}
  /\ sessionToRoom' = [s \in Session |-> IF s \in o.members THEN o.id ELSE sessionToRoom[s]]
  /\ opened' = opened \cup {o}

\* Broken variants of a definition, each right before it, that the properties
\* below must tell from the code.
RegisterRoomAnyway(o) ==             \* no test for an existing entry
  /\ built' = built \cup {o}
  /\ rooms' = {r \in rooms : r.id # o.id} \cup {o}
  /\ sessionToRoom' = [s \in Session |-> IF s \in o.members THEN o.id ELSE sessionToRoom[s]]
  /\ opened' = opened \cup {o}
  /\ UNCHANGED <<closed, closing, draining, held, peerLeft, wire>>

RegisterRoomIfNew(o) ==
  /\ built' = built \cup {o}
  /\ IF \E r \in rooms : r.id = o.id
       THEN UNCHANGED <<rooms, sessionToRoom, opened>>
       ELSE AddRoom(o)
  /\ UNCHANGED <<closed, closing, draining, held, peerLeft, wire>>

PeerLeftToLeaver(o, s, reason) ==    \* peer() gives the wrong side
  IF reason \in {"stop", "next"} THEN {s} ELSE o.members

\* Close notifies both members, ClosePeerOnly the one who did not ask.
PeerLeftTo(o, s, reason) ==
  IF reason \in {"stop", "next"} THEN o.members \ {s} ELSE o.members

UnlinkRoomOnly(o) ==                 \* sessionToRoom is not cleaned up
  /\ rooms' = rooms \ {o}
  /\ UNCHANGED sessionToRoom

Unlink(o) ==
  /\ rooms' = rooms \ {o}
  /\ sessionToRoom' = [s \in Session |-> IF s \in o.members THEN Nil ELSE sessionToRoom[s]]

\* endRoomIfAny(s, reason) up to roomsMu.Unlock: without a room it returns,
\* with one goroutine c still has to close it.
EndRoomIfAny(c, s, reason) ==
  /\ closing[c] = Nil
  /\ IF sessionToRoom[s] = Nil
       THEN UNCHANGED <<rooms, sessionToRoom, closing>>
       ELSE \E o \in rooms :
              /\ o.id = sessionToRoom[s]
              /\ Unlink(o)
              /\ closing' = [closing EXCEPT ![c] =
                   [obj |-> o, to |-> PeerLeftTo(o, s, reason), marked |-> FALSE]]
  /\ UNCHANGED <<built, opened, closed, draining, held, peerLeft, wire>>

MarkClosedInverted(c) ==             \* returns if the room is open
  /\ closing[c] # Nil
  /\ ~closing[c].marked
  /\ IF closing[c].obj \notin closed
       THEN closing' = [closing EXCEPT ![c] = Nil] /\ UNCHANGED closed
       ELSE /\ closed' = closed \cup {closing[c].obj}
            /\ closing' = [closing EXCEPT ![c].marked = TRUE]
  /\ UNCHANGED <<registry, draining, held, peerLeft, wire>>

\* The locked part of Close and ClosePeerOnly: a room closed before is left alone.
MarkClosed(c) ==
  /\ closing[c] # Nil
  /\ ~closing[c].marked
  /\ IF closing[c].obj \in closed
       THEN closing' = [closing EXCEPT ![c] = Nil] /\ UNCHANGED closed
       ELSE /\ closed' = closed \cup {closing[c].obj}
            /\ closing' = [closing EXCEPT ![c].marked = TRUE]
  /\ UNCHANGED <<registry, draining, held, peerLeft, wire>>

\* trySend of peer_left to one recipient.  Their order is left open.
SendPeerLeft(c, s) ==
  LET others == closing[c].to \ {s} IN
  /\ closing[c] # Nil
  /\ closing[c].marked
  /\ s \in closing[c].to
  /\ wire' = [wire EXCEPT ![s] = [kind |-> "peer_left", obj |-> closing[c].obj]]
  /\ peerLeft' = peerLeft \cup {<<closing[c].obj, s>>}
  /\ closing' = [closing EXCEPT ![c] =
       IF others = {} THEN Nil
       ELSE [obj |-> closing[c].obj, to |-> others, marked |-> TRUE]]
  /\ UNCHANGED <<registry, closed, draining, held>>

CloseAllKeepMaps ==                  \* the maps are not replaced
  /\ draining = {}
  /\ closing[Main] = Nil
  /\ draining' = rooms
  /\ UNCHANGED <<registry, closed, closing, held, peerLeft, wire>>

CloseAllRooms ==
  /\ draining = {}
  /\ closing[Main] = Nil
  /\ rooms' = {}
  /\ sessionToRoom' = [s \in Session |-> Nil]
  /\ draining' = rooms
  /\ UNCHANGED <<built, opened, closed, closing, held, peerLeft, wire>>

\* The loop at the end of CloseAllRooms: one r.Close after the other.
DrainNext(o) ==
  /\ closing[Main] = Nil
  /\ o \in draining
  /\ draining' = draining \ {o}
  /\ closing' = [closing EXCEPT ![Main] = [obj |-> o, to |-> o.members, marked |-> FALSE]]
  /\ UNCHANGED <<registry, closed, held, peerLeft, wire>>

GetRoom(s) ==
  /\ held[s] = Nil
  /\ \E o \in rooms :
       /\ o.id = sessionToRoom[s]
       /\ held' = [held EXCEPT ![s] = o]
  /\ UNCHANGED <<registry, closed, closing, draining, peerLeft, wire>>

RelayRegardless(o, s) ==             \* r.closed is not looked at
  \E p \in o.members \ {s} : wire' = [wire EXCEPT ![p] = [kind |-> "peer_msg", obj |-> o]]

\* RelayMessage, RelayTyping and RelayPresence: nothing once the room is
\* closed, otherwise one envelope to the other member.
RelayFrom(o, s) ==
  IF o \in closed
    THEN UNCHANGED wire
    ELSE \E p \in o.members \ {s} :
           wire' = [wire EXCEPT ![p] = [kind |-> "peer_msg", obj |-> o]]

Relay(s) ==
  /\ held[s] # Nil
  /\ RelayFrom(held[s], s)
  /\ held' = [held EXCEPT ![s] = Nil]
  /\ UNCHANGED <<registry, closed, closing, draining, peerLeft>>

\* handleReport reads the members of the room and relays nothing.
ReadMembers(s) ==
  /\ held[s] # Nil
  /\ held' = [held EXCEPT ![s] = Nil]
  /\ UNCHANGED <<registry, closed, closing, draining, peerLeft, wire>>

\* The connection layer writes to the same Send buffer.
SendOther(s, e) ==
  /\ e \in OtherEnvelope
  /\ wire' = [wire EXCEPT ![s] = e]
  /\ UNCHANGED <<registry, closed, closing, draining, held, peerLeft>>

EndStep(c) ==
  \/ \E s \in Session, reason \in {"stop", "next", "disconnect"} :
       c # Main /\ EndRoomIfAny(c, s, reason)
  \/ MarkClosed(c)
  \/ \E s \in Session : SendPeerLeft(c, s)

Next ==
  \/ \E o \in ChatRoom : Fresh(o) /\ RegisterRoomIfNew(o)
  \/ \E c \in Caller : EndStep(c)
  \/ CloseAllRooms
  \/ \E o \in draining : DrainNext(o)
  \/ \E s \in Session : GetRoom(s) \/ Relay(s) \/ ReadMembers(s)
  \/ \E s \in Session, e \in OtherEnvelope : SendOther(s, e)

Spec == Init /\ [][Next]_vars

\* What a goroutine that has unlinked a room goes on to do.
CloseStep(c) == MarkClosed(c) \/ \E s \in Session : SendPeerLeft(c, s)
----------------------------------------------------------------------------
TypeOK ==
  /\ rooms \in SUBSET ChatRoom
  /\ sessionToRoom \in [Session -> RoomId \cup {Nil}]
  /\ built \in SUBSET ChatRoom
  /\ opened \in SUBSET ChatRoom
  /\ closed \in SUBSET ChatRoom
  /\ closing \in [Caller -> Closing \cup {Nil}]
  /\ draining \in SUBSET ChatRoom
  /\ held \in [Session -> ChatRoom \cup {Nil}]
  /\ peerLeft \in SUBSET (ChatRoom \X Session)
  /\ wire \in [Session -> Envelope \cup {Nil}]

\* A session that sessionToRoom maps to an ID is a member of a registered
\* room of that ID.  endRoomIfAny dereferences s.rooms[roomID] and
\* handleReport looks for its own session among the members on the strength
\* of this, although two overlapping rooms rewrite each other's entries.
RoomIndexSound ==
  \A s \in Session :
    sessionToRoom[s] # Nil =>
      \E o \in rooms : o.id = sessionToRoom[s] /\ s \in o.members

\* The set rooms is the graph of a map: the room of an ID is the room of it.
OneObjectPerId == \A o, p \in rooms : o.id = p.id => o = p

\* The object a goroutine is about to close is on no other goroutine's way to
\* a close, no longer in the registry, and not closed before: the r.closed
\* test of Close never finds the work done, and peer_left goes out once.
ToClose(c) == IF closing[c] = Nil THEN {} ELSE {closing[c].obj}
ClosedOnce ==
  /\ \A c \in Caller : ToClose(c) \cap (rooms \cup draining) = {}
  /\ \A c, d \in Caller : c # d => ToClose(c) \cap ToClose(d) = {}
  /\ \A c \in Caller : closing[c] # Nil =>
       (closing[c].marked <=> closing[c].obj \in closed)
  /\ closed \cap (rooms \cup draining) = {} /\ rooms \cap draining = {}

\* A room that left the registry is being closed or has been: no member is
\* kept in a chat whose room can no longer be found.
UnlinkedIsClosing ==
  \A o \in opened \ rooms :
    o \in closed \cup draining \/ \E c \in Caller : o \in ToClose(c)

\* Once a session was told that its partner left, no line of that room
\* reaches it any more: RelayMessage tests r.closed under the lock that
\* Close takes before the first peer_left.
NoLineAfterPeerLeft ==
  \A s \in Session :
    wire[s] # Nil /\ wire[s].kind = "peer_msg" => <<wire[s].obj, s>> \notin peerLeft
=============================================================================
