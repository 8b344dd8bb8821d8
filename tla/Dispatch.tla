------------------------------ MODULE Dispatch ------------------------------
(****************************************************************************)
(* The search/chat state machine of every connection (ws/dispatch.go),      *)
(* composed with the matcher's bookkeeping (MatchQueue), the session        *)
(* registry and the room registry (Rooms).                                  *)
(*                                                                          *)
(* Goroutines: per session the reader, which takes one client message after *)
(* the other through handle and ends in the deferred cleanup of             *)
(* HandleUpgrade (its position is pc[s]); per ticket the awaitMatch that    *)
(* handleSearch starts (await[t]); the matcher; and main, which shuts the   *)
(* server down.  They interleave between mutex sections.  A test of         *)
(* ds.state that is followed by getRoom is one step with it: once chatting, *)
(* only the session's own reader changes ds.state.  The registry test of    *)
(* awaitMatch is one step with its ds.mu section: what can happen in        *)
(* between, the removal of the session, commutes with the section.          *)
(*                                                                          *)
(* wire[s] is the last envelope put in s's Send buffer.  Full buffers,      *)
(* message contents and rate limits are not in this module, pause and       *)
(* typing are relayed like a message, and an answer `error' changes nothing *)
(* else.                                                                    *)
(****************************************************************************)
EXTENDS MatchQueue

CONSTANTS
  Main,
  Ops,      \* what the clients of a run do, beside searching
  Assume    \* what the run assumes of its clients, see below

ASSUME DispatchAssumption ==
  /\ Ops \subseteq {"bad-tags", "cancel", "message", "stop", "next", "report", "disconnect", "shutdown"}
  /\ Assume \subseteq {"settled", "stop-in-chat", "no-refusals"}
  /\ Main \notin Session \cup Ticket
  /\ Session \cap Ticket = {}    \* a reader is no awaitMatch goroutine

VARIABLES
  state,          \* dispatchState.state: "idle", "searching" or "chatting"
  cancelSearch,   \* dispatchState.cancelSearch # nil
  pc,             \* where the reader of the session is
  await,          \* where the awaitMatch goroutine of the ticket is
  banned,         \* sessions whose IP the shadowban store has banned
  server,         \* main: "up", "sweeping" in CloseAllRooms, or "closed" after it
  cut,            \* sessions whose socket CloseAllConnections has closed
  rooms, sessionToRoom, built, opened, closed, closing, draining, held,
  peerLeft, wire  \* see Rooms

Control == {"searching", "matched", "error"}
Reader == Session
Awaiter == Ticket
NoObj == [id |-> 0, members |-> {}, by |-> Nil]

R == INSTANCE Rooms WITH
  RoomId <- Ticket,
  Caller <- Reader \cup Awaiter \cup {Main},
  OtherEnvelope <- [kind : Control, obj : [id : 0 .. MaxTickets, members : SUBSET Session,
                                          by : Session \cup {Nil}]]

ASSUME NilAssumption == Nil \notin Ticket \cup R!ChatRoom \cup R!Closing \cup R!Envelope

matchVars == <<alive, queue, owner, byID, pending, chan, result, issued, paired>>
roomVars == <<rooms, sessionToRoom, built, opened, closed, closing, draining,
              held, peerLeft, wire>>
rest == <<banned, server, cut>>
connVars == <<state, cancelSearch, pc, await, rest>>
dvars == <<matchVars, roomVars, connVars>>

Envelope(kind) == [kind |-> kind, obj |-> NoObj]
RoomOf(t) == [id |-> result[t].id, members |-> result[t].members, by |-> owner[t]]
----------------------------------------------------------------------------
DInit ==
  /\ Init
  /\ R!Init
  /\ state = [s \in Session |-> "idle"]
  /\ cancelSearch = [s \in Session |-> FALSE]
  /\ pc = [s \in Session |-> "new"]
  /\ await = [t \in Ticket |-> "none"]
  /\ banned = {}
  /\ server = "up"
  /\ cut = {}

GoTo(s, place) == pc' = [pc EXCEPT ![s] = place]

\* HandleUpgrade up to conn.run.
Connect(s) ==
  /\ pc[s] = "new"
  /\ Join(s)
  /\ GoTo(s, "read")
  /\ UNCHANGED <<roomVars, state, cancelSearch, await, rest>>

(****************************************************************************)
(* What a run may assume of its clients.                                    *)
(*   settled: nobody leaves a search or chat (cancel, stop, next, report,   *)
(*     loss of the connection) while a room that names him is between the   *)
(*     matcher and the end of an awaitMatch, and the server is not shut     *)
(*     down then.  Nothing in the code guarantees this; runs without it     *)
(*     show what goes wrong in that window.                                 *)
(*     Likewise the matcher pairs nobody who is in the middle of leaving.   *)
(*   no-refusals: no message is sent that the server answers with an error. *)
(*   stop-in-chat: stop and next are not sent while searching, as the       *)
(*     bundled page does not.                                               *)
(****************************************************************************)
InFlight(s) ==
  \E t \in Ticket : chan[t] = "sent" /\ await[t] # "done" /\ s \in result[t].members
MayLeave(s) == "settled" \in Assume => ~InFlight(s)
Leaving == {"cancel", "reported", "to-read", "to-search", "drop", "drop-cancel", "drop-end", "gone"}
MayPair(s) == "settled" \in Assume => pc[s] \notin Leaving
MayStop(s) == MayLeave(s) /\ ("stop-in-chat" \in Assume => state[s] # "searching")

\* A message of the client is taken up by its reader.
Reads(s) == pc[s] = "read" /\ s \notin cut
Receives(s, op) == Reads(s) /\ op \in Ops

\* handleSearch starts on a search message, and at the end of handleNext.
Searches(s) == Reads(s) \/ pc[s] = "search"

Refuse(s) ==
  /\ "no-refusals" \notin Assume
  /\ R!SendOther(s, Envelope("error"))
  /\ GoTo(s, "read")
  /\ UNCHANGED <<matchVars, state, cancelSearch, await, rest>>

SearchBadTags(s) == Searches(s) /\ "bad-tags" \in Ops /\ state[s] = "idle" /\ Refuse(s)

\* A banned session is told `searching' and never enqueued.
SearchBanned(s) ==
  /\ Searches(s) /\ state[s] = "idle" /\ s \in banned
  /\ state' = [state EXCEPT ![s] = "searching"]
  /\ R!SendOther(s, Envelope("searching"))
  /\ GoTo(s, "read")
  /\ UNCHANGED <<matchVars, cancelSearch, await, rest>>

\* The ds.mu section of handleSearch; Enqueue runs inside it.
SearchEnqueue(s) ==
  /\ Searches(s) /\ state[s] = "idle" /\ s \notin banned
  /\ Enqueue(s)
  /\ state' = [state EXCEPT ![s] = "searching"]
  /\ cancelSearch' = [cancelSearch EXCEPT ![s] = TRUE]
  /\ GoTo(s, "announce")
  /\ UNCHANGED <<roomVars, await, rest>>

\* The ticket of the search that s has not announced yet.
Unannounced(s, t) == owner[t] = s /\ await[t] = "none"

Announce(s) ==
  /\ pc[s] = "announce"
  /\ R!SendOther(s, Envelope("searching"))
  /\ \E t \in Ticket :
       Unannounced(s, t) /\ await' = [await EXCEPT ![t] = "wait"]
  /\ GoTo(s, "read")
  /\ UNCHANGED <<matchVars, state, cancelSearch, rest>>

AwaitStep(t, from, to) ==
  /\ await[t] = from
  /\ await' = [await EXCEPT ![t] = to]

\* The channel was closed without a room.
AwaitCancelled(t) ==
  /\ chan[t] = "closed"
  /\ AwaitStep(t, "wait", "done")
  /\ UNCHANGED <<matchVars, roomVars, state, cancelSearch, pc, rest>>

Wanted(t) == owner[t] \in alive /\ state[owner[t]] = "searching"

AwaitMatched(t) ==
  /\ chan[t] = "sent" /\ Wanted(t)
  /\ AwaitStep(t, "wait", "register")
  /\ state' = [state EXCEPT ![owner[t]] = "chatting"]
  /\ cancelSearch' = [cancelSearch EXCEPT ![owner[t]] = FALSE]
  /\ UNCHANGED <<matchVars, roomVars, pc, rest>>

AwaitGiveUp(t) ==               \* the goroutine just returns, as for a closed channel
  /\ chan[t] = "sent" /\ ~Wanted(t)
  /\ AwaitStep(t, "wait", "done")
  /\ UNCHANGED <<matchVars, roomVars, state, cancelSearch, pc, rest>>

\* The session is gone, or searches no more: the room is set up to be ended.
AwaitTeardown(t) ==
  /\ chan[t] = "sent" /\ ~Wanted(t)
  /\ AwaitStep(t, "wait", "teardown")
  /\ UNCHANGED <<matchVars, roomVars, state, cancelSearch, pc, rest>>

AwaitRegister(t) ==
  /\ \/ AwaitStep(t, "register", "tell")
     \/ AwaitStep(t, "teardown", "end")
  /\ R!RegisterRoomIfNew(RoomOf(t))
  /\ UNCHANGED <<matchVars, state, cancelSearch, pc, rest>>

\* sendCritical: the envelope gets into the buffer, or the socket is closed.
AwaitTell(t) ==
  /\ AwaitStep(t, "tell", "done")
  /\ \/ R!SendOther(owner[t], [kind |-> "matched", obj |-> RoomOf(t)])
     \/ UNCHANGED roomVars
  /\ UNCHANGED <<matchVars, state, cancelSearch, pc, rest>>

AwaitEnd(t) ==
  /\ AwaitStep(t, "end", "done")
  /\ R!EndRoomIfAny(t, owner[t], "disconnect")
  /\ UNCHANGED <<matchVars, state, cancelSearch, pc, rest>>

CancelKeepState(s) ==           \* the state is not set back
  /\ Receives(s, "cancel") /\ MayLeave(s)
  /\ state[s] = "searching" /\ cancelSearch[s]
  /\ cancelSearch' = [cancelSearch EXCEPT ![s] = FALSE]
  /\ GoTo(s, "cancel")
  /\ UNCHANGED <<matchVars, roomVars, state, await, rest>>

Cancel(s) ==
  /\ Receives(s, "cancel") /\ MayLeave(s)
  /\ state[s] = "searching" /\ cancelSearch[s]
  /\ state' = [state EXCEPT ![s] = "idle"]
  /\ cancelSearch' = [cancelSearch EXCEPT ![s] = FALSE]
  /\ GoTo(s, "cancel")
  /\ UNCHANGED <<matchVars, roomVars, await, rest>>

CancelForget(s) ==              \* the cancel function is not called
  /\ \/ pc[s] = "cancel" /\ GoTo(s, "read")
     \/ pc[s] = "drop-cancel" /\ GoTo(s, "drop-end")
  /\ UNCHANGED <<matchVars, roomVars, state, cancelSearch, await, rest>>

CancelRemove(s) ==
  /\ \/ pc[s] = "cancel" /\ GoTo(s, "read")
     \/ pc[s] = "drop-cancel" /\ GoTo(s, "drop-end")
  /\ Remove(s)
  /\ UNCHANGED <<roomVars, state, cancelSearch, await, rest>>

NoChat(s) == state[s] # "chatting" \/ sessionToRoom[s] = Nil

\* A message that does not fit the state is answered with an error: a search
\* of who is not idle, a cancel without a cancel function, or what needs a room.
Refused(s) ==
  /\ \/ Reads(s) /\ state[s] # "idle"
     \/ Receives(s, "cancel") /\ MayLeave(s) /\ (state[s] # "searching" \/ ~cancelSearch[s])
     \/ (Receives(s, "message") \/ Receives(s, "report")) /\ NoChat(s)
  /\ Refuse(s)

\* The room is looked up; what is done with it comes after roomsMu is free.
RoomOp(s, op, place) ==
  /\ Receives(s, op)
  /\ state[s] = "chatting"
  /\ R!GetRoom(s)
  /\ GoTo(s, place)
  /\ UNCHANGED <<matchVars, state, cancelSearch, await, rest>>

Message(s) == RoomOp(s, "message", "relay")
Report(s) == MayLeave(s) /\ RoomOp(s, "report", "report")

Relay(s) ==
  /\ pc[s] = "relay"
  /\ R!Relay(s)
  /\ GoTo(s, "read")
  /\ UNCHANGED <<matchVars, state, cancelSearch, await, rest>>

\* Whether this report is the one that bans the partner is left open.
ReportPartner(s) ==
  /\ pc[s] = "report"
  /\ banned' \in {banned, banned \cup (held[s].members \ {s})}
  /\ R!ReadMembers(s)
  /\ GoTo(s, "reported")
  /\ UNCHANGED <<matchVars, state, cancelSearch, await, server, cut>>

\* endRoomIfAny of stop, next and report; the reader returns from it when
\* the room is closed and the partner told.
EndChat(s, reason, place) ==
  /\ R!EndRoomIfAny(s, s, reason)
  /\ GoTo(s, place)
  /\ UNCHANGED <<matchVars, state, cancelSearch, await, rest>>

NextAlone(s) ==                 \* the room is not ended
  /\ Receives(s, "next") /\ MayStop(s)
  /\ GoTo(s, "to-search")
  /\ UNCHANGED <<matchVars, roomVars, state, cancelSearch, await, rest>>

Stop(s) == Receives(s, "stop") /\ MayStop(s) /\ EndChat(s, "stop", "to-read")
NextPartner(s) == Receives(s, "next") /\ MayStop(s) /\ EndChat(s, "next", "to-search")
ReportEnd(s) == pc[s] = "reported" /\ EndChat(s, "stop", "to-read")

\* The ds.mu section after it.  cancelSearch is not touched.
BackToIdle(s) ==
  /\ closing[s] = Nil
  /\ \/ pc[s] = "to-read" /\ GoTo(s, "read")
     \/ pc[s] = "to-search" /\ GoTo(s, "search")
  /\ state' = [state EXCEPT ![s] = "idle"]
  /\ UNCHANGED <<matchVars, roomVars, cancelSearch, await, rest>>

\* The socket is lost or closed, the read pump returns and the deferred
\* function of HandleUpgrade begins: off the session registry first.
Disconnect(s) ==
  /\ pc[s] = "read" /\ ("disconnect" \in Ops \/ s \in cut) /\ MayLeave(s)
  /\ Leave(s)
  /\ GoTo(s, "drop")
  /\ UNCHANGED <<roomVars, state, cancelSearch, await, rest>>

\* cancelPendingSearch up to its Unlock.
DropSearch(s) ==
  /\ pc[s] = "drop"
  /\ GoTo(s, IF cancelSearch[s] THEN "drop-cancel" ELSE "drop-end")
  /\ state' = [state EXCEPT ![s] = "idle"]
  /\ cancelSearch' = [cancelSearch EXCEPT ![s] = FALSE]
  /\ UNCHANGED <<matchVars, roomVars, await, rest>>

DropQuietly(s) ==               \* the cleanup does not end the room
  /\ pc[s] = "drop-end" /\ GoTo(s, "gone")
  /\ UNCHANGED <<matchVars, roomVars, state, cancelSearch, await, rest>>

DropRoom(s) == pc[s] = "drop-end" /\ EndChat(s, "disconnect", "gone")

CloseRoom(c) ==
  /\ R!CloseStep(c)
  /\ UNCHANGED <<matchVars, connVars>>

\* main after a signal: CloseAllRooms, a pause that is not in the model, and
\* CloseAllConnections, which closes the sockets on a list it has made before.
ShutDown ==
  /\ "shutdown" \in Ops /\ server = "up"
  /\ \A s \in Session : MayLeave(s)
  /\ R!CloseAllRooms
  /\ server' = "sweeping"
  /\ UNCHANGED <<matchVars, state, cancelSearch, pc, await, banned, cut>>

CloseNextRoom ==
  /\ \E o \in draining : R!DrainNext(o)
  /\ UNCHANGED <<matchVars, connVars>>

CloseAllConnections ==
  /\ server = "sweeping" /\ draining = {} /\ closing[Main] = Nil
  /\ server' = "closed"
  /\ cut' = {s \in Session : pc[s] \notin {"new", "gone"}}
  /\ UNCHANGED <<matchVars, roomVars, state, cancelSearch, pc, await, banned>>

MatcherStep ==
  /\ \/ \E t \in queue : DropDead(t)
     \/ \E s, u \in Session : MayPair(s) /\ MayPair(u) /\ Pair(s, u)
  /\ UNCHANGED <<roomVars, connVars>>

Search(s) == SearchBadTags(s) \/ SearchBanned(s) \/ SearchEnqueue(s)

ClientStep(s) ==
  \/ Connect(s)
  \/ Search(s) \/ Cancel(s)
  \/ Message(s) \/ Report(s)
  \/ Stop(s) \/ NextPartner(s)
  \/ Refused(s)
  \/ Disconnect(s)

\* What the reader does without waiting for a client message.
ReaderStep(s) ==
  \/ Announce(s)
  \/ CancelRemove(s)
  \/ Relay(s)
  \/ ReportPartner(s) \/ ReportEnd(s) \/ BackToIdle(s)
  \/ DropSearch(s) \/ DropRoom(s)

AwaitMatchStep(t) ==
  \/ AwaitCancelled(t) \/ AwaitMatched(t) \/ AwaitTeardown(t)
  \/ AwaitRegister(t) \/ AwaitTell(t) \/ AwaitEnd(t)

DNext ==
  \/ \E s \in Session : ClientStep(s) \/ ReaderStep(s)
  \/ \E t \in Ticket : AwaitMatchStep(t)
  \/ \E c \in Reader \cup Awaiter \cup {Main} : CloseRoom(c)
  \/ ShutDown \/ CloseNextRoom \/ CloseAllConnections
  \/ MatcherStep

DSpec == DInit /\ [][DNext]_dvars

(* Every goroutine finishes what it began: the reader its handler and the   *)
(* Close in it, awaitMatch its ticket and the Close in it; the matcher goes *)
(* on scanning.  Clients need not send anything, and nobody has to be       *)
(* paired.                                                                  *)
DFairness ==
  /\ \A s \in Session :
       WF_dvars(ReaderStep(s) \/ CloseRoom(s) \/ (pc[s] = "search" /\ Search(s)))
  /\ \A t \in Ticket : WF_dvars(AwaitMatchStep(t) \/ CloseRoom(t))
  /\ WF_dvars(DropSomeDead /\ UNCHANGED <<roomVars, connVars>>)
FairDSpec == DSpec /\ DFairness
----------------------------------------------------------------------------
DTypeOK ==
  /\ TypeOK /\ R!TypeOK
  /\ state \in [Session -> {"idle", "searching", "chatting"}]
  /\ cancelSearch \in [Session -> BOOLEAN]
  /\ pc \in [Session -> {"new", "read", "search", "announce", "cancel", "relay", "report",
                         "reported", "to-read", "to-search", "drop", "drop-cancel",
                         "drop-end", "gone"}]
  /\ await \in [Ticket -> {"none", "wait", "register", "teardown", "tell", "end", "done"}]
  /\ banned \in SUBSET Session
  /\ server \in {"up", "sweeping", "closed"}
  /\ cut \in SUBSET Session

\* The composition keeps the rules of Rooms: whatever searches, stops and
\* disconnects do, the goroutines hand registerRoomIfNew rooms of two sessions,
\* one pair per ID and no object twice, and relay through rooms they looked up.
RoomsSpec == R!Spec

\* The callers of Enqueue keep to one search at a time: nobody draws a ticket
\* while the matcher still knows an earlier one of his.  What MatchQueue says
\* of that discipline, the contract of match.Matcher, then holds here.
OneSearch == INSTANCE MatchQueue WITH OneAtATime <- TRUE
OneSearchSpec == OneSearch!Spec

\* A connected session that searches, and is not shadowbanned, has an answer
\* coming: it is in the queue under a channel that a goroutine waits on, or
\* a room is in the channel of one of its goroutines.
NoLostSearcher ==
  \A s \in alive \ banned :
    state[s] = "searching" =>
      \E t \in Ticket :
        /\ owner[t] = s /\ await[t] \in {"none", "wait"}
        /\ chan[t] = "sent" \/ (pending[s] = t /\ TicketsOf(s) # {})

\* Nothing is left to do for any goroutine until a client or the matcher acts.
Quiet ==
  /\ \A s \in Session : pc[s] \in {"new", "read", "gone"} /\ (s \in cut => pc[s] = "gone")
  /\ server # "sweeping"
  /\ \A t \in Ticket : await[t] = "wait" => chan[t] = "open"
  /\ \A t \in Ticket : await[t] \in {"none", "wait", "done"}
  /\ \A c \in Reader \cup Awaiter : closing[c] = Nil

Told(s, kind) == wire[s] # Nil /\ wire[s].kind = kind

\* Nobody chats with a ghost: a session whose last word from the server is that
\* it was matched, or a line of that chat, has a partner that is connected.
NoGhostChat ==
  Quiet =>
    \A s \in alive :
      state[s] = "chatting" /\ (Told(s, "matched") \/ Told(s, "peer_msg"))
        => wire[s].obj.members \subseteq alive

\* A room is in the registry only as long as both members are mapped to it, so
\* that either can end it and RoomCount counts chats.
NoOrphanRoom ==
  Quiet => \A o \in rooms, s \in Session : s \in o.members => sessionToRoom[s] = o.id

\* A session that is chatting has a room, or was told that its partner left.
ChatHasRoomOrNotice ==
  Quiet => \A s \in alive :
    state[s] = "chatting" =>
      sessionToRoom[s] # Nil \/ Told(s, "peer_left") \/ Told(s, "error")

\* A shutdown leaves no room behind: one that is registered after CloseAllRooms
\* has replaced the maps is ended by the cleanup of its members, if their
\* sockets were there for CloseAllConnections to close.
ShutdownEndsRooms ==
  server = "closed" /\ Quiet => \A o \in rooms : o.members \cap cut = {}

\* No two room objects of one ID are ever put in the registry.
OneRoomPerMatch == \A o, p \in opened : o.id = p.id => o = p

\* A line reaches its recipient only while the room it was written in is still
\* the recipient's, or he is between two rooms: a handler that holds a room
\* pointer from before its end cannot write into the chat that came after.
NoCrossTalk ==
  [][\A s \in Session :
       wire'[s] # wire[s] /\ Told(s, "peer_msg")'
         => sessionToRoom[s] \in {wire'[s].obj.id, Nil}]_dvars

\* A client that searches may cancel: no handler and no late goroutine of an
\* earlier search takes the cancel function away and leaves the state behind.
\* Only a search that is banned is without one.
SearchingIsCancellable ==
  \A s \in Session \ banned : pc[s] = "read" /\ state[s] = "searching" => cancelSearch[s]

\* The page lets a user who was told that his partner left look for a new one.
SearchAfterPeerLeft ==
  [][\A s \in Session : Told(s, "peer_left") => ~Told(s, "error")']_dvars

(* The liveness properties are of the form `again and again nothing is      *)
(* overdue'.  What they wait for never becomes undone, so that each single  *)
(* item is then eventually dealt with.                                      *)

\* A goroutine that receives a room hands it to the room registry, to chat in
\* it or to end it, even if its own session has no use for it any more: this
\* is how the partner gets to hear of it.
MatchIsEntered ==
  []<>(\A t \in Ticket :
         chan[t] = "sent" => \E o \in built : o.id = result[t].id /\ o.by = owner[t])

\* Every room taken out of the registry is closed and announced to a member at
\* least, whichever goroutine took it out.
EndedRoomIsTold ==
  []<>(\A o \in opened \ rooms : \E s \in o.members : <<o, s>> \in peerLeft)

\* A disconnected session leaves the matcher's queue with all its entries,
\* those of abandoned searches included.
GoneLeavesQueue == []<>(\A t \in queue : pc[owner[t]] # "gone")
=============================================================================
