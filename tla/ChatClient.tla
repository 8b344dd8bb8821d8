----------------------------- MODULE ChatClient -----------------------------
(****************************************************************************)
(* The chat page in the browser (+page.svelte, lib/store.ts, lib/ws.ts) at  *)
(* the other end of one connection after the other.  The store shows what   *)
(* the user asked for at once, and what the server says when it arrives:    *)
(* this module is about what the two make of each other.                    *)
(*                                                                          *)
(* The server's side is that of Dispatch for one session that is not        *)
(* banned.  A handler is one step here; what other goroutines send later is *)
(* not: `matched' by awaitMatch (telling), and peer_left by whoever ends a  *)
(* room, after it was taken out of the registry (owed).  Match, the         *)
(* stranger's steps and the loss of connections are the environment.  up is *)
(* what the socket carries to readPump, down the Send buffer together with  *)
(* what the writer has put on the socket.                                   *)
(*                                                                          *)
(* Message texts, typing, pings, the error display and the tag editor are   *)
(* left out.  The page stays open.                                          *)
(****************************************************************************)
EXTENDS Naturals, Sequences

CONSTANTS
  MaxConn,    \* bound: connections a page has, the last of which is not lost
  MaxUp,      \* bound: client messages under way when the user acts
  SendCap     \* envelopes that fit into down; 32 in session.New

ASSUME ChatClientAssumption == MaxConn \in Nat \ {0} /\ MaxUp \in Nat /\ SendCap \in Nat \ {0}

VARIABLES
  view,      \* ChatStoreState.state
  sess,      \* ChatStoreState.sessionId, 0 for null
  away,      \* ChatStoreState.peerAway
  hidden,    \* document.visibilityState = "hidden"
  socket,    \* the page's WebSocket: "closed" (the timer runs), "connecting", "open"
  conn,      \* the session the server has on that socket
  up, down,  \* messages in the two directions
  srv,       \* dispatchState.state of the session, "none" when it is gone
  telling,   \* awaitMatch is in sendCritical with `matched'
  room,      \* sessionToRoom has the session
  paused,    \* connection.paused
  peerAway,  \* the stranger in the room told it that he paused
  owed,      \* a room of the session was taken out, its peer_left is not sent yet
  astray     \* what of Noted the session was sent in vain, into a full buffer,
             \* or, for peer_left, out of place: see Misplaced

page == <<view, sess, away, hidden>>
server == <<srv, room, paused, peerAway>>
cvars == <<page, socket, conn, up, down, server, telling, owed, astray>>

View == {"connecting", "idle", "searching", "chatting", "peer-left"}
ClientType == {"search", "cancel", "message", "stop", "report", "pause", "resume"}
\* `other': peer_msg, peer_typing and error, which leave the state of the page alone.
ServerType == {"welcome", "searching", "matched", "peer_paused", "peer_resumed",
               "peer_left", "other"}
Noted == {"searching", "peer_resumed", "peer_left"}

CInit ==
  /\ view = "idle" /\ sess = 0 /\ away = FALSE /\ hidden \in BOOLEAN
  /\ socket = "closed" /\ conn = 0 /\ up = <<>> /\ down = <<>>
  /\ srv = "none" /\ telling = FALSE /\ room = FALSE
  /\ paused = FALSE /\ peerAway = FALSE /\ owed = FALSE /\ astray = {}
----------------------------------------------------------------------------
(* ws.ts: the socket.                                                       *)

ConnectOnce ==                  \* no timer after a loss
  /\ socket = "closed" /\ conn = 0
  /\ socket' = "connecting"
  /\ UNCHANGED <<page, conn, up, down, server, telling, owed, astray>>

\* onMount, and the timer that onclose sets.  `connecting' is not shown.
Connect ==
  /\ socket = "closed"
  /\ socket' = "connecting"
  /\ UNCHANGED <<page, conn, up, down, server, telling, owed, astray>>

NewSession ==
  /\ socket = "connecting"
  /\ socket' = "open"
  /\ conn' = conn + 1
  /\ srv' = "idle"
  /\ UNCHANGED <<room, paused, peerAway, telling, owed, astray>>
  /\ down' = <<"welcome">>
  /\ view' = IF view \in {"connecting", "idle"} THEN "idle" ELSE view
  /\ UNCHANGED <<sess, away, hidden>>

OpenSilently == NewSession /\ up' = <<>>    \* a hidden page does not tell

\* The upgrade and onopen.
Open == NewSession /\ up' = IF hidden THEN <<"pause">> ELSE <<>>

SessionGone ==
  /\ srv' = "none" /\ room' = FALSE /\ telling' = FALSE
  /\ paused' = FALSE /\ peerAway' = FALSE /\ owed' = FALSE /\ astray' = {}

\* onclose of a socket that never opened, or was open.  What was under way
\* is lost; the server notices sooner (ServerLoses) or later.
ClosedKeepsView ==
  /\ socket = "connecting" \/ (socket = "open" /\ conn < MaxConn)
  /\ socket' = "closed"
  /\ up' = <<>> /\ down' = <<>> /\ SessionGone
  /\ UNCHANGED <<page, conn>>

Closed ==
  /\ socket = "connecting" \/ (socket = "open" /\ conn < MaxConn)
  /\ socket' = "closed"
  /\ view' = "connecting"
  /\ up' = <<>> /\ down' = <<>> /\ SessionGone
  /\ UNCHANGED <<sess, away, hidden, conn>>

\* Nobody reads what is sent when the server's side is gone.
Post(type) == up' = IF socket = "open" /\ srv # "none" THEN Append(up, type) ELSE up
Acts == Len(up) < MaxUp

\* visibilitychange.
ChangeVisibility ==
  /\ Acts
  /\ hidden' = ~hidden
  /\ Post(IF hidden THEN "resume" ELSE "pause")
  /\ UNCHANGED <<view, sess, away, socket, conn, down, server, telling, owed, astray>>
----------------------------------------------------------------------------
(* store.ts and +page.svelte: what the user does.                           *)

UserSends(from, to, type) ==
  /\ Acts /\ view \in from
  /\ view' = to
  /\ Post(type)
  /\ UNCHANGED <<sess, hidden, socket, conn, down, server, telling, owed, astray>>

CancelLocally ==                \* the server is not told
  /\ view = "searching"
  /\ view' = "idle"
  /\ UNCHANGED <<sess, away, hidden, socket, conn, up, down, server, telling, owed, astray>>

\* `Find someone' or Esc.
Search == UserSends({"connecting", "idle", "peer-left"}, "searching", "search") /\ UNCHANGED away
Cancel == UserSends({"searching"}, "idle", "cancel") /\ UNCHANGED away
SendMessage == UserSends({"chatting"}, "chatting", "message") /\ UNCHANGED away
Stop == UserSends({"chatting"}, "idle", "stop") /\ UNCHANGED away
Report == UserSends({"chatting"}, "idle", "report") /\ away' = FALSE

Receives(type) ==
  /\ down # <<>> /\ Head(down) = type
  /\ down' = Tail(down)
  /\ UNCHANGED <<hidden, socket, conn, up, server, telling, owed, astray>>

OnWelcome == Receives("welcome") /\ view' = "idle" /\ sess' = conn /\ UNCHANGED away
OnSearching == Receives("searching") /\ view' = "searching" /\ UNCHANGED <<sess, away>>
OnMatchedStillAway ==           \* peerAway is not reset
  Receives("matched") /\ view' = "chatting" /\ UNCHANGED <<sess, away>>
OnMatched == Receives("matched") /\ view' = "chatting" /\ away' = FALSE /\ UNCHANGED sess
OnPeerPresence ==
  /\ \/ Receives("peer_paused") /\ away' = TRUE
     \/ Receives("peer_resumed") /\ away' = FALSE
  /\ UNCHANGED <<view, sess>>
OnPeerLeftIgnored ==            \* the view stays
  Receives("peer_left") /\ away' = FALSE /\ UNCHANGED <<view, sess>>
OnPeerLeft == Receives("peer_left") /\ view' = "peer-left" /\ away' = FALSE /\ UNCHANGED sess
\* A line goes to the list, an error to lastError, which nothing shows.
OnLineOrError == Receives("other") /\ UNCHANGED <<view, sess, away>>

OnEnvelope ==
  \/ OnWelcome \/ OnSearching \/ OnMatched \/ OnPeerPresence \/ OnPeerLeft \/ OnLineOrError
----------------------------------------------------------------------------
(* The server.                                                              *)

\* trySend and sendError: dropped when the buffer is full.
SendOrDrop(type) ==
  IF Len(down) < SendCap
  THEN /\ down' = Append(down, type)
       /\ UNCHANGED astray
  ELSE /\ astray' = astray \cup ({type} \cap Noted)
       /\ UNCHANGED down

Handles(type) ==
  /\ srv # "none" /\ up # <<>> /\ Head(up) = type
  /\ up' = Tail(up)
  /\ UNCHANGED <<page, socket, conn, telling>>

HandleSearch ==
  /\ Handles("search") /\ srv = "idle"
  /\ srv' = "searching"
  /\ SendOrDrop("searching")
  /\ UNCHANGED <<room, paused, peerAway, owed>>

\* The matcher may have sent a room already: awaitMatch then ends it, which
\* tells both members.
HandleCancel ==
  /\ Handles("cancel") /\ srv = "searching"
  /\ srv' = "idle"
  /\ owed' \in {owed, TRUE}
  /\ UNCHANGED <<room, paused, peerAway, down, astray>>

NoChat == srv # "chatting" \/ ~room

\* The room is ended; its peer_left goes to the stranger alone.
HandleEnd ==
  /\ Handles("stop") \/ (Handles("report") /\ ~NoChat)
  /\ srv' = "idle" /\ room' = FALSE /\ peerAway' = FALSE
  /\ UNCHANGED <<paused, owed, down, astray>>

HandleMessage ==
  /\ Handles("message") /\ ~NoChat
  /\ UNCHANGED <<server, owed, down, astray>>

\* A search is refused for its tags too, which the page does not check, and a
\* message for its rate, length and characters.
HandleRefused ==
  /\ \/ Handles("search") \/ Handles("message")
     \/ Handles("cancel") /\ srv # "searching"
     \/ Handles("report") /\ NoChat
  /\ SendOrDrop("other")
  /\ UNCHANGED <<server, owed>>

HandlePresence ==
  /\ \/ Handles("pause") /\ paused' = TRUE
     \/ Handles("resume") /\ paused' = FALSE
  /\ UNCHANGED <<srv, room, peerAway, owed, down, astray>>

Handle ==
  \/ HandleSearch \/ HandleCancel \/ HandleEnd \/ HandleMessage \/ HandleRefused
  \/ HandlePresence

\* awaitMatch has the room, registers it and goes on to say so.
Match ==
  /\ srv = "searching" /\ ~telling
  /\ srv' = "chatting" /\ room' = TRUE /\ telling' = TRUE
  /\ UNCHANGED <<page, socket, conn, up, down, paused, peerAway, owed, astray>>

TellOrDrop ==                   \* `matched' is sent like any other envelope
  /\ telling
  /\ telling' = FALSE
  /\ SendOrDrop("matched")
  /\ UNCHANGED <<page, socket, conn, up, server, owed>>

TellOverfull ==                 \* `matched' is sent whatever the buffer holds
  /\ telling
  /\ telling' = FALSE
  /\ down' = Append(down, "matched")
  /\ UNCHANGED <<page, socket, conn, up, server, owed, astray>>

Tell ==
  /\ telling /\ Len(down) < SendCap
  /\ telling' = FALSE
  /\ down' = Append(down, "matched")
  /\ UNCHANGED <<page, socket, conn, up, server, owed, astray>>

EndSession == SessionGone /\ up' = <<>> /\ UNCHANGED <<page, socket, conn, down>>

\* sendCritical gives up and closes the socket.
TellTimeout == telling /\ Len(down) = SendCap /\ conn < MaxConn /\ EndSession

\* The server finds the socket closed, or does so itself after a heartbeat.
ServerLoses == srv # "none" /\ conn < MaxConn /\ EndSession

\* The stranger writes, hides or shows his page, leaves.  Bound: one notice of
\* a room's end is owed at a time.
PeerSends(type) ==
  /\ room
  /\ SendOrDrop(type)
  /\ UNCHANGED <<page, socket, conn, up, srv, room, paused, telling, owed>>

PeerWrites == PeerSends("other") /\ UNCHANGED peerAway
PeerPresence ==
  /\ PeerSends(IF peerAway THEN "peer_resumed" ELSE "peer_paused")
  /\ peerAway' = ~peerAway
PeerLeaves ==
  /\ room /\ ~owed
  /\ room' = FALSE /\ peerAway' = FALSE /\ owed' = TRUE
  /\ UNCHANGED <<page, socket, conn, up, down, srv, paused, telling, astray>>

\* The notice of an ended room comes while the session has gone on: it is in
\* another room or search, or its `matched' is still to be sent.
Misplaced == telling \/ room \/ srv = "searching"

\* Close and ClosePeerOnly, at last.
Notice ==
  /\ owed
  /\ owed' = FALSE
  /\ IF Len(down) < SendCap
     THEN down' = Append(down, "peer_left") ELSE UNCHANGED down
  /\ astray' = IF Len(down) = SendCap \/ Misplaced THEN astray \cup {"peer_left"} ELSE astray
  /\ UNCHANGED <<page, socket, conn, up, server, telling>>

UserStep == Search \/ Cancel \/ SendMessage \/ Stop \/ Report \/ ChangeVisibility
SocketStep == Connect \/ Open \/ Closed
ServerStep == Handle \/ Tell \/ TellTimeout \/ Notice \/ ServerLoses
PeerStep == Match \/ PeerWrites \/ PeerPresence \/ PeerLeaves

CNext == UserStep \/ SocketStep \/ OnEnvelope \/ ServerStep \/ PeerStep

(* Browser and server process what they receive, timers fire, a socket      *)
(* whose server side is gone is closed, and of many attempts to connect one *)
(* succeeds.  Users and strangers need not do anything.                     *)
CFairness ==
  /\ WF_cvars(Connect) /\ SF_cvars(Open)
  /\ WF_cvars(srv = "none" /\ socket = "open" /\ Closed)
  /\ WF_cvars(OnEnvelope) /\ WF_cvars(Handle) /\ WF_cvars(Tell \/ TellTimeout) /\ WF_cvars(Notice)
CSpec == CInit /\ [][CNext]_cvars /\ CFairness
----------------------------------------------------------------------------
CTypeOK ==
  /\ view \in View /\ sess \in 0 .. MaxConn /\ away \in BOOLEAN /\ hidden \in BOOLEAN
  /\ socket \in {"closed", "connecting", "open"} /\ conn \in 0 .. MaxConn
  /\ up \in Seq(ClientType) /\ Len(up) <= MaxUp + 1
  /\ down \in Seq(ServerType) /\ Len(down) <= SendCap
  /\ srv \in {"none", "idle", "searching", "chatting"}
  /\ telling \in BOOLEAN /\ owed \in BOOLEAN /\ room \in BOOLEAN /\ paused \in BOOLEAN /\ peerAway \in BOOLEAN
  /\ astray \subseteq Noted

\* The page and the server have heard everything the other had to say.
Settled == socket = "open" /\ srv # "none" /\ up = <<>> /\ down = <<>> /\ ~telling /\ ~owed

\* Whoever sees the chat, with its message field, is in the chatting state at
\* the server, or his session is gone: the page never shows a chat that the
\* server has not begun, that the page itself has ended, or that belonged to an
\* earlier connection.
ChatIsBacked == view = "chatting" => srv \in {"chatting", "none"}

\* A stranger who was given a partner has one that sees the chat: no full
\* buffer and no other step leaves the page elsewhere, except for the notice of
\* an earlier room that comes too late.
PartnerIsSeen == Settled /\ room /\ "peer_left" \notin astray => view = "chatting"

\* Who waits in the server's queue sees that he is searching, so that he can
\* cancel, unless the buffer was too full to say so or such a notice came.
SearchIsSeen ==
  Settled /\ srv = "searching" /\ astray \cap {"searching", "peer_left"} = {}
    => view = "searching"

\* The page shows a chat without a partner only when peer_left could not get
\* through: dropped by a full buffer, or put ahead of `matched'.
DeadChatIsMissedNotice ==
  Settled /\ view = "chatting" /\ ~room => "peer_left" \in astray

\* `Stranger is away' in a chat is about the stranger of this chat.
AwayIsTrue ==
  Settled /\ room /\ away => peerAway \/ "peer_resumed" \in astray

\* The heartbeat's grace period goes with the visibility of the page, also
\* across reconnects in the background.
PausedIsHidden == Settled => paused = hidden

\* The page always comes back from a lost connection: again and again it is
\* connected, and knows the session it has.
Reconnects == []<>(socket = "open" /\ sess = conn /\ view # "connecting")
=============================================================================
