# A TLA+ model of omegle.lol

omegle.lol pairs strangers for one-to-one text chats.  A Go server (`backend/`)
keeps a WebSocket per visitor, a matcher and a table of chat rooms; a Svelte page
(`frontend/`) talks to it.  Everything lives in memory, in one process.

The specifications in this directory model the parts that keep the control
state of a chat: the matcher, the room registry, the per-connection state
machine, the goroutines and timers of a connection, the limiters, and the page that
mirrors it all.  TLC checks them on small instances.  TLAPS proves most of the safety
properties of every part, two refinements included, for every number of sessions, rooms,
tickets, goroutines, tags, messages and connections, every rate, timer and length of time.

- [The system](#the-system) · [Modules](#modules) · [Runs](#runs) · [Fairness](#fairness)
- [Proofs](#proofs) · [What the checks found](#what-the-checks-found)
- [What is not modelled](#what-is-not-modelled) · [Plan](#plan)

Paths below are relative to `backend/internal/` or `frontend/src/` unless they
begin with one of the two.

## The system

| Part | State | Operations | Talks to |
|---|---|---|---|
| Session registry `session/registry.go` | set of live sessions, RWMutex | Add, Remove, Get, Count | upgrade, matcher's liveness check, `awaitMatch` |
| Matcher `match/inmemory.go` | `queue`, `byID`, `pending`, `tagIndex` under `mu`; one loop goroutine | Enqueue, cancel, scan (every tick or when kicked), Close, Snapshot | gives each search a channel, on which one room arrives or which is closed |
| Search/chat state machine `ws/dispatch.go` | per connection: `state` (idle, searching, chatting), `cancelSearch`, under `ds.mu` | search, cancel, message, typing, stop, next, report, pause, resume; `awaitMatch` goroutine per search; `cancelPendingSearch` | all others |
| Room registry `ws/handler.go` | `rooms`, `sessionToRoom` under `roomsMu` | registerRoomIfNew, getRoom, endRoomIfAny, CloseAllRooms | dispatch, cleanup, shutdown |
| Chat room `chat/room.go` | `closed` under its own `mu` | RelayMessage, RelayTyping, RelayPresence, Close, ClosePeerOnly | the members' Send buffers |
| Connection `ws/connection.go` | Send buffer of 32, `lastPong`, `paused` | read pump, write pump, heartbeat, sendError, sendCritical | the socket |
| Upgrade and cleanup `ws/handler.go` | `activeConns`, per-IP buckets | HandleUpgrade and its deferred cleanup, CloseAllConnections | everything a session has to be removed from |
| Shadowban `ws/shadowban.go` | `reports`, `bans` per IP | Report, IsBanned, prune | search, report |
| Rate limiter `ws/ratelimit.go` | tokens | Allow | message, upgrade |
| Page store `lib/store.ts`, `lib/ws.ts`, `routes/+page.svelte` | `state`, `sessionId`, `peerAway`, messages; socket, reconnect timer | search, cancel, sendMessage, stop, report; envelopes; reconnect; visibility | the server over one socket after the other |
| Shutdown `backend/cmd/server/main.go` | | CloseAllRooms, sleep, CloseAllConnections, Shutdown | rooms, connections |

What makes this hard:

- **Goroutines that share four mutexes.**  Per connection there are a reader, a
  writer and a heartbeat, plus an `awaitMatch` for every search it ever made; the
  matcher has its loop.  No handler holds two locks except `handleSearch`, which
  calls Enqueue under `ds.mu`.  Between two sections of one handler anything may
  happen.  A room in particular is taken out of the maps first, closed later, and
  announced after that.
- **A match has two receivers.**  Both partners' goroutines build a `chat.Room` of
  their own from the same `match.Room`, and whoever is first registers it.  Either
  may find that its session is gone, or is searching no longer, and tears the room
  down while the other sets it up.
- **Two searches of one session.**  stop and next set the state back to idle
  without cancelling, so that a session can be in the queue twice, in maps that
  are indexed by session.
- **Timers that hold one another up.**  A connection ends by a lost read, a late write, a
  silence that the heartbeat finds, a critical send that gives up, or the shutdown; how much
  silence is too much depends on a flag that the read pump changes meanwhile; and whichever
  goroutine ends first must take the others along.
- **The page believes itself first.**  The store changes its view when the user
  clicks; envelopes that were under way change it again.  Send buffers drop what
  does not fit, and a reconnect is a new session.

What must hold, by part.  *Rooms*: the two maps agree where the code relies on it; a
room is closed once; no room is forgotten; nothing follows peer_left.  *Matcher*: every
search gets one room or a closed channel, nobody meets himself, the maps agree, the
best pairs go first, nobody waits for ever among others.  *State machine*: a searching
session has an answer on the way; a chatting session has a room or was told; no line
crosses chats; what a disconnected session left behind disappears, and what was there at a
shutdown too.  *Connection*: who is silent or takes nothing is cut off, within a
limit, nobody else is, and nothing of it is left over.  *Limits*: as much is allowed, and
as many are banned, as the numbers say, at every boundary.  *Page*: what it shows is what
the server holds.

## Modules

| Module | Models | Extends / instantiates |
|---|---|---|
| `Rooms` | room registry and rooms | |
| `RoomsProofs` | proofs about `Rooms` | `Rooms` |
| `MatchContract` | what `match.Matcher` promises (abstract) | |
| `MatchQueue` | the matcher's bookkeeping, any pairing | instance of `MatchContract` |
| `MatchQueueProofs` | proofs about `MatchQueue` | `MatchQueue` |
| `Matcher` | tags, waiting times, the scan | `MatchQueue` |
| `MatcherProofs` | proofs about `Matcher` | `Matcher`, `MatchQueueProofs` |
| `Dispatch` | state machine, goroutines, cleanup, shutdown | `MatchQueue`, instance of `Rooms` |
| `DispatchProofs` | proofs about `Dispatch` | `Dispatch`, `MatchQueueProofs`, instance of `RoomsProofs` |
| `SettledProofs` | proofs about `Dispatch` outside the windows | `DispatchProofs` |
| `Connection` | pumps, heartbeat, timers, page in reach or not | |
| `ConnectionProofs` | proofs about `Connection` | `Connection` |
| `Clock` | the clock the limiters read | |
| `TokenBucket` | one token bucket | `Clock` |
| `Shadowban` | reports and bans by address | `Clock` |
| `Limits` | both side by side, for one address | `TokenBucket`, `Shadowban` |
| `LimitsProofs` | proofs about all three | `Limits` |
| `ChatClient` | the page and its connections | |
| `ChatClientProofs` | proofs about `ChatClient` | `ChatClient` |
| `MCRooms`, `MCMatcher`, `MCDispatch` | values and symmetry for TLC | |

In each module the definitions named like a broken variant (`CancelForget`,
`WriteFailsAlone`, `AllowUncapped`, ...; marked by a remark on the same line or above
them) are not part of the specification.  They stand before the definition that
they distort, and show, when put in its place, that a property notices.

### Rooms

One action per mutex section of `ws/handler.go:174-244` and `chat/room.go`.
`EndRoomIfAny` is endRoomIfAny up to `roomsMu.Unlock`; what the goroutine still has to
do is kept in `closing`: `MarkClosed` is the locked part of Close and ClosePeerOnly,
`SendPeerLeft` one trySend.  `GetRoom` and `Relay` are the two halves of a message,
typing or presence handler, `held` the pointer between them.  `CloseAllRooms` and
`DrainNext` are the shutdown.  `rooms` is the set of objects, not a map: that an ID names
one object at a time is `OneObjectPerId`, part of the proved invariant.  Objects
are named by ID, members and the session whose goroutine built them (`by`), as every
awaitMatch makes its own.  `wire` is the last envelope put in a session's Send buffer.

The module asks of its environment (`Fresh`) only what the matcher provides: two
different members, one pair per ID, each member building one object.  `RoomsSpec` in
`Dispatch` checks that the composed system keeps to it.

### MatchContract, MatchQueue, Matcher

A *ticket* is one call of Enqueue: its candidate and its channel.  Tickets are numbered
in the order of the calls, so the slice `queue` is a set of tickets and its order
their numbers.  `MatchQueue` has Enqueue, Remove (the cancel function; it takes the
first candidate *of the session* out, which need not be the caller's), DropDead (one
candidate of `dropDeadCandidatesLocked`) and Pair.  Which two are paired is left open,
so everything that holds there holds for any policy.  With `OneAtATime` callers
draw a ticket only when the matcher has forgotten their last one.  Under that
discipline `MatchQueue` implements `MatchContract` (`ContractSpec`); without it a channel can
be orphaned, see below.

`Matcher` adds the tags, the tag index and the clock and refines Pair into the scan:
`ScanBegin`, `WalkOn`/`WalkEnd` (the liveness walk), `PairBest` (the greedy choice by common
tags), `PairOverdue` (`applyTimeoutFallbacksLocked`) and `ScanEnd`.  The scan is cut into steps because
sessions come and go while the matcher's lock is held: only Enqueue and cancel are kept
out.  Two simplifications, both invisible under the lock: paired candidates leave the
queue at once instead of at the end of the scan, and a scan takes no time.  Random map
order in the choice of a partner is a free choice among the equally good.

### Dispatch

The reader of session `s` is at `pc[s]`, the goroutine of ticket `t` at `await[t]`.  A client
message is taken up when `pc[s] = "read"`; every mutex section of its handler is an
action:

| Code | Actions |
|---|---|
| HandleUpgrade | `Connect`; deferred: `Disconnect`, `DropSearch`, `CancelRemove`, `DropRoom`, `CloseRoom` |
| handleSearch | `Refused`, `SearchBadTags`, `SearchBanned`, `SearchEnqueue`, `Announce` |
| awaitMatch | `AwaitCancelled`; `AwaitMatched`, `AwaitRegister`, `AwaitTell`; `AwaitTeardown`, `AwaitRegister`, `AwaitEnd`, `CloseRoom` |
| handleCancel | `Refused`, `Cancel`, `CancelRemove` |
| handleMessage, handleTyping, handlePresence | `Refused`, `Message`, `Relay` |
| handleReport | `Refused`, `Report`, `ReportPartner`, `ReportEnd`, `CloseRoom`, `BackToIdle` |
| handleStop, handleNext | `Stop` / `NextPartner`, `CloseRoom`, `BackToIdle`, then handleSearch again |
| scan | `MatcherStep` |
| main after a signal | `ShutDown` (the swap of the maps in CloseAllRooms), `CloseNextRoom` and `CloseRoom(Main)` (its loop), `CloseAllConnections` |

Two pairs of sections are merged; the module's head says why nothing is lost.
Whether a report is the one that bans is left open.

`Assume` lists what a run takes for granted of its clients.  Each assumption cuts out
a window in which the code is known to go wrong (next sections but one), so that the
properties can be checked everywhere else:

- `settled`: nobody leaves a search or a chat, and no shutdown begins, between the matcher's
  send and the end of the two awaitMatch goroutines.  Nothing guarantees it; the run `ghost_chat` drops it.
- `stop-in-chat`: stop and next come only from a chat.  The page keeps to this.
- `no-refusals`: no message that is answered with an error.  This only makes runs
  smaller; `dispatch_three` has the refusals.

A session in `cut` takes up no further message; its reader finishes the one it is at and
goes into the cleanup.

### Connection

One connection with its three goroutines (`ws/connection.go`), the context that ends them
together, and the page and the network at the other end.  `reader`, `writer` and `heart`
say where the goroutines are, `cancelled` is the context, `socket` the TCP connection, `over`
the return of HandleUpgrade.

| Code | Actions |
|---|---|
| readPump | `ReadTakes`, `ReadHandles` (handle: the paused flag), `ReadEnds`; then `CleanUp` |
| writePump | `WriteTakes`, `WriteDone`, `WriteFails` (deadline, context or socket), `WriteEnds` |
| heartbeat | `HeartPing`, `HeartLoad` and `HeartJudge` (the two loads of a check), `HeartEnds` |
| trySend, sendCritical | `TrySend`, `SendCriticalFails` |
| page, network, shutdown (not under `ws/`) | `PageSends`, `NetFails`, `SocketCloses` |

Every timer is kept as what has run of it or is left of it, and `silence` stops growing
beyond the longest limit: the clock needs no bound, so that liveness is not cut short.
What goroutines can do takes no time (`Still`), so that the model is exact up to the
scheduler's latency.  A network that stalls lets nothing through to the page; one that is
lost takes the messages under way with it, and the server's writes may go on succeeding into
the kernel's buffers.  The page answers pings within `Delay`; hidden, it may or may not.

The partner's relays fill the buffer at any moment (`TrySend`): messages are limited to a burst of 5,
but handleTyping and handlePresence relay without a limiter (`ws/dispatch.go:85-108`, `274-285`), so that the 32
places can be taken before the writer gets to run, whatever the network does.  A ping that comes then
is dropped (`ws/connection.go:130-134`).  `missed`, `wasMissed` and the other `was...` variables are history: they
say, for `OnlySilentAreCut`, what the heartbeat that gives up a connection had to go by.

### TokenBucket, Shadowban, Limits

Each call is one step, as each is one mutex section; `Clock` ticks in between, any number of
calls to an instant.  Tokens are counted in fractions, `Grain` to the token: exact where the code has
float64.  `granted` and `counted` are histories, against which the two properties state what
the limiters are for without their state.  `BucketSpec` and `ShadowSpec` are the components on
their own, `LSpec` runs both on one clock.

### ChatClient

The page, one connection after the other, and one server session for each.  `view` is the
store's state, `up` and `down` the two directions; `down` holds `SendCap` envelopes, beyond which
trySend and sendError drop and sendCritical waits (`telling`) until it gives up and closes.
Page actions are the buttons and keys of `+page.svelte` with what the store does on them;
`On...` are the envelope handlers; `Connect`, `Open`, `Closed` and `ChangeVisibility` are
`ws.ts`.  A handler of the server is one step; what other goroutines send later is
not: `matched`, and peer_left (`owed`), which comes after the room has left the registry, or
after a cancel that was too late.  `astray` remembers, for the current session, envelopes
that were dropped, and peer_left that came when the session was already elsewhere.

## Runs

Every `.cfg` names its properties; no run replaces a definition.  Deadlock is checked in
`rooms_safety` only: elsewhere tickets, connections or the clock are bounded and run out,
a connection that has ended stops, and clients may fall silent.

| Run | Instance | Properties | States |
|---|---|---|---|
| `rooms_safety` | 3 sessions, 2 IDs, 2 objects built, 2 goroutines and the shutdown | `RoomIndexSound` `ClosedOnce` `UnlinkedIsClosing` `NoLineAfterPeerLeft` | 79 000 |
| `matcher` | 3 sessions, 3 tickets, 2 tags, clock to 2, any callers | `PendingOpen` `IndexedIsQueued` `IndexComplete` `BestPairFirst` `ScanLeavesNoPair` | 1 410 000 |
| `matcher_live` | 3 sessions, 3 tickets, 1 tag, one search at a time, fair | `ContractSpec` `NoEndlessWait` | 97 000 |
| `dispatch_race` | 2 sessions, 3 tickets, cancel and stop at any time | `DTypeOK` `NoLostSearcher` `SearchingIsCancellable` `RoomsSpec` | 472 000 |
| `dispatch_settled` | 2 sessions, 3 tickets, every operation and the shutdown; settled, stop-in-chat, no-refusals | `NoGhostChat` `ChatHasRoomOrNotice` `ShutdownEndsRooms` `OneSearchSpec` | 980 000 |
| `dispatch_three` | 3 sessions, 4 tickets, bad tags, message and next; settled, stop-in-chat | `NoOrphanRoom` `OneRoomPerMatch` `RoomSentToItsPair` `NoCrossTalk` | 1 070 000 |
| `dispatch_live` | 2 sessions, 2 tickets, cancel, stop, disconnect at any time, fair | `MatchIsEntered` `EndedRoomIsTold` `GoneLeavesQueue` | 268 000 |
| `chat_client` | 2 connections, 2 messages up, 2 envelopes down, fair | `CTypeOK` `ChatIsBacked` `PartnerIsSeen` `SearchIsSeen` `DeadChatIsMissedNotice` `AwayIsTrue` `PausedIsHidden` `Reconnects` | 701 000 |
| `connection` | interval 2, timeout 1, check 1, grace 5, write deadline 2, delay 1, buffer 2, 2 messages under way, fair | `SilentIsCut` `PumpsEndTogether` `OnlySilentAreCut` `StalledIsCut` | 658 000 |
| `limits` | clock to 7; rate 2/3, burst 2; window 2, 3 reports, ban 3, 6 reports at most | `AllowIsExact` `BannedIffReported` | 1 770 000 |
| `ghost_chat` | 2 sessions, disconnect at any time | `NoGhostChat` — violated | |
| `search_refused` | 2 sessions, disconnect; settled | `SearchAfterPeerLeft` — violated | |

What they show:

- `rooms_safety`: whatever stops, disconnects and the shutdown do to each other, endRoomIfAny
  finds the room it dereferences, no room is closed twice or by two goroutines, none is
  forgotten between the maps and its Close, and the room's mutex keeps lines from
  following peer_left.
- `matcher`: with callers that overlap their searches (which stop and next of a bare
  client do) the matcher never sends on or closes a channel twice (either would panic, or
  block the loop under the lock).  Where no search overlaps another, a scan pairs the best
  pair first and leaves no pair with a common tag, nor anybody who has waited for the timeout
  beside anybody else.
- `matcher_live`: with one search at a time no channel is lost, the contract holds, and nobody
  waits for ever while others do too.
- `dispatch_race`: the state machine in the windows as well as outside.  A
  connected searching session always has an answer coming, even through a goroutine of an
  older search that adopts the newer one.  The matcher and registry are used as the two
  lower modules ask.
- `dispatch_settled`, `dispatch_three`: outside the windows, chat state, rooms and notices
  agree, a handler with a room pointer of an ended chat writes into no other, and a
  shutdown ends every room whose members it could see, at whatever point of their
  searches and chats it begins.
- `dispatch_live`: goroutines that do not stop finish what they began.
- `connection`: a connection lives or dies as a whole; a page that is gone is cut off one
  period of the check after its limit, whatever it had said before; a page that is there is
  not, with the two exceptions that the property names, a pause or resume between the two
  loads of a check and a ping that found the buffer full; and a page that takes nothing is cut
  off however much it talks.
- `limits`: no sequence of calls gets more, or less, out of a bucket than its bound, and a
  ban is in effect exactly when three reports came within one window and the ban has not
  run out, at every boundary of the comparisons and whenever the store is pruned.
- `chat_client`: the page and the server agree once everything has arrived, across lost
  connections and full buffers, with the exceptions the properties name.

**Bounds.**  Two sessions are a chat.  The third is what makes overlapping rooms, a partner
change and a bystander possible; a room or a pairing never concerns more than two, and every
property speaks of at most two sessions and one room ID at a time.  Three tickets let a
session overlap two searches against one of the partner, or search again after a chat; four let
two pairs, or the same pair twice, go through a whole life.  One tag suffices where only index membership matters;
two are needed for scores that differ.  `Timeout = 1` and a clock of 1 or 2 reach the
moment before, at and after the deadline; nobody enqueues when the clock could not reach his
deadline.  Two connections are one reconnect.  A buffer of 2, instead of 32, overflows in
two steps; `MaxUp = 2` lets a search and its cancel be under way together.  Message
contents do not matter to any property.  The times of `connection` keep the order of those in
use (delay of an answer <= timeout < interval < interval + timeout < grace), with room between them for one more
ping, check or message; the clock itself has no bound.  `limits` runs long enough for a window to pass, a ban
to end and a second one to begin; the two thirds of a token that flow in per tick make the
bucket meet its cap and its grain at different moments.  One address suffices: the
addresses share nothing but the pruning.  Sessions are symmetric in the safety runs, and
symmetry is off in the runs with liveness.

## Fairness

- `FairMSpec` (matcher): weak fairness of the scan's steps, which the loop runs without
  waiting once begun and begins on every tick of its timer; strong fairness of the clock,
  since time cannot be held up by goroutines that lock and unlock the matcher.
- `FairDSpec` (dispatch): weak fairness per goroutine, for a reader in the middle of a handler
  or of the cleanup, for an awaitMatch including its Close, and for the matcher's removal of
  the dead.  The Go scheduler runs every runnable goroutine, mutexes are fair after a
  millisecond of starvation, and no section loops or blocks: sends are non-blocking, and
  sendCritical gives up.  Clients need not send anything and nobody has to be paired.
- `FairConnSpec` (connection): weak fairness of each of the three goroutines, and strong fairness of
  the clock.  Time is not held up by goroutines that are busy, but a step of the
  model's clock waits for them; that page or partner keep a goroutine busy at one instant
  for ever is thus excluded.  The page, the network and the partner owe nothing.
- `CFairness` (page): browser and server process what has arrived, the reconnect timer fires, a
  socket whose server side is gone is closed in the end, and an endless series of attempts
  has a successful one (strong fairness of `Open`).  Users and strangers owe nothing.

Liveness properties over many items are of the form `[]<>(no item is overdue)`.  The items only
ever leave the overdue state by being dealt with, so that each one is.

## Proofs

The `...Proofs` modules are checked by TLAPS (SMT, Zenon and, for the temporal steps, LS4).  Each
states an inductive invariant, one lemma per action or kind of action that keeps it, and
the theorems that follow.  Nothing is bounded but by constants of which only the type
is known.  The assumptions, all checked by TLC on every run:

| Assumption | |
|---|---|
| `RoomsAssumption`, `NilAssumption`, `MatchQueueAssumption` | the null value is none of the objects; the connection layer's own envelopes are no peer lines; a natural number of tickets |
| `DispatchAssumption` | main, readers and awaitMatch goroutines are different goroutines; the names of a run's options |
| `MatcherAssumption` | a natural timeout, finitely many tags, so that common tags can be counted |
| `ConnectionAssumption` | positive times, the page's answer within the timeout and the timeout within the interval |
| `BucketAssumption`, `ClockAssumption`, `ShadowbanAssumption` | natural rate and burst, a positive grain, window and threshold; a ban no shorter than the window |
| `ChatClientAssumption` | at least one connection and room for one envelope |

**Rooms.**  `RoomsInv` is the conjunction of `TypeOK`, `BuiltBefore`, `RoomIndexSound`,
`OneObjectPerId`, `ClosedOnce` and `UnlinkedIsClosing`, and is inductive: one lemma per action.
It is stronger than the properties for two reasons.  `RoomIndexSound` survives an Unlink
only if the ID in `sessionToRoom` names one registered object (`OneObjectPerId`): otherwise
another object of the same ID, unlinked by its own member, would take entries with it.
`ClosedOnce` survives a registration only if the object is new (`BuiltBefore`): otherwise a
room on its way to being closed could be registered again.  `NoLineAfterPeerLeft`
needs both that `peerLeft` holds only closed rooms and the invariant, in `LineStep`.

| Theorem | |
|---|---|
| `TypeCorrect` | `Spec => []TypeOK` |
| `IndexSound` | `Spec => []RoomIndexSound` |
| `CloseOnce` | `Spec => []ClosedOnce` |
| `NothingForgotten` | `Spec => []UnlinkedIsClosing` |
| `LinesBeforePeerLeft` | `Spec => []NoLineAfterPeerLeft` |

**MatchQueue.**  `QueueInv` is the conjunction of `TypeOK`, `DrawnInOrder`, `PendingOpen`,
`IndexedIsQueued`, `NoSelfMatch` and `RoomSentToItsPair`.  `DrawnInOrder` is the strengthening:
nothing refers to a ticket above `issued` or a room above `paired`, so that the ticket an Enqueue
draws and the room a pairing makes are new.  The work is in Pair, which forgets two
sessions and answers two channels in one step: that it does not touch a third session's
entries follows from the entries being filed under their owners.

| Theorem | |
|---|---|
| `QueueTypeCorrect` | `Spec => []TypeOK` |
| `ChannelsUsedOnce` | `Spec => []PendingOpen` |
| `MapsAgree` | `Spec => []IndexedIsQueued` |
| `RoomsAreForTwo` | `Spec => [](NoSelfMatch /\ RoomSentToItsPair)` |
| `ContractKept` | `OneAtATime /\ Spec => ContractSpec` |

The first four hold whatever the callers do and for every pairing policy.  `ContractKept` is the
refinement of `MatchContract` and needs callers that keep to one search at a time.  Its
strengthening is `MapsComplete`: every candidate in the queue is the one that byID and pending
have for its session.  That is what makes Pair answer both channels and Remove take out the
caller's own search; with overlapping searches it is false, and so is the contract.

**Matcher.**  `MatcherInv` adds `ScanTypes` and `IndexComplete` to `QueueInv`.  `ScanIsPairing` shows that
every step of a scan, with tags, index and clock, is a step of `MatchQueue`, so that all the
theorems above, the contract included, are theorems of the real scan.  The policy is then shown of
single steps.  `BestPairsComeFirst` compares the pair of a step with every pair in the queue: the scan finds
partners through the index, so that `IndexComplete` is what excludes a better pair it did not see.
`ScanIsThorough` needs, for an overdue candidate who is left over, the *oldest* such candidate: the
least element of a set of naturals, from the well-foundedness of `<`, takes the place of induction.

| Theorem | |
|---|---|
| `IndexMissesNobody` | `MSpec => []IndexComplete` |
| `ScanIsPairing` | `MSpec => Spec` |
| `ScanUsesChannelsOnce` | `MSpec => [](PendingOpen /\ IndexedIsQueued)` |
| `ScanKeepsContract` | `OneAtATime /\ MSpec => ContractSpec` |
| `ScanIsThorough` | `MSpec => ScanLeavesNoPair` |
| `BestPairsComeFirst` | `MSpec => BestPairFirst` |

**Dispatch.**  `DispatchInv` is `QueueInv`, `ConnTypes`, `AwaitsInOrder` (a goroutine is where its channel's
answer allows), `ReadersInOrder` (what a reader at a place inside a handler may count on),
`AlwaysCancellable` and `NoLostSearcher`.  `NoLostSearcher` is close to inductive because it already says
which of the session's goroutines will answer.  `RoomsRefined` shows that every step of handlers,
awaitMatch, cleanup and shutdown is a step of `Rooms`, or none of its: in particular that what
awaitMatch registers is `Fresh`, from the matcher's `RoomSentToItsPair`.  `RegistryRulesHold` then takes over
the theorems of `RoomsProofs` through the instance `RP`.

| Theorem | |
|---|---|
| `NoSearchLost` | `DSpec => []NoLostSearcher` |
| `SearchCanBeCancelled` | `DSpec => []SearchingIsCancellable` |
| `RoomsReachTheirPair` | `DSpec => []RoomSentToItsPair` |
| `RoomsRefined` | `DSpec => RoomsSpec` |
| `RegistryRulesHold` | `DSpec => []` of the five invariants of the registry |
| `DispatchTypesCorrect` | `DSpec => []DTypeOK` |

None of these assumes anything of the clients: `Ops` and `Assume` are any sets of options, the windows
of `ghost_chat` included.

**Dispatch outside the windows** (`SettledProofs`).  The other properties of the composition are not true in
the windows that `settled` and `stop-in-chat` cut out, and these theorems have the two as their
hypothesis: `Settled` says that both are in `Assume`.  Each is needed.  Without either, TLC finds
`NoGhostChat`, `ChatHasRoomOrNotice` and `OneRoomPerMatch` violated after 12 to 22 steps of two sessions; without
`settled` also `ShutdownEndsRooms`; and without `stop-in-chat` `NoOrphanRoom`, after 30 steps of three sessions: a
session that stops a search and starts another is matched twice, and mapped to one of two rooms.
Everything else may happen: disconnects, reports, refused messages and the shutdown, for any number of
sessions and tickets.  Four invariants build on each
other; TLC checked each on the instances of `dispatch_settled` and `dispatch_three` before its proof.

- `FlightInv`: a match is *on the way* (`OnTheWay`) until the awaitMatch goroutine it was sent to is through.
  Whom byID knows is searching or about to cancel (`Tracked`); whom a match is on the way to neither searches nor
  leaves (`Held`), and no other match is on the way to him (`OneFlight`); his goroutine finds the state it
  expects (`AwaitsAgree`).  So `MapsComplete` of `MatchQueueProofs` holds, and with it the contract.
- `SettledInv` adds the registry: the room of a match on the way is the only one its members are in
  (`RoomOfFlight`), stays registered until both goroutines are through (`FlightsRegistered`), and
  both members are mapped to it (`RoomsMapped`); who has a room chats in it, or is on the way in or out
  (`Current`); of two partners one has not been told yet, or both chat (`BothFollow`).  The five invariants of
  `RoomsProofs` are part of it, through `RoomsRefined`.
- `HandlersInv` says what the pointers mean that goroutines keep between two sections: `HeldIsOwn` for the
  rooms got by getRoom, `Closers` for the rooms being closed (who closes one has left it, and all others
  will be told), `Announcing` and `Unwatched` for the search whose goroutine has not been started.
- `WordsInv` is about the last envelope of each session, with the closing of a room in between: who
  chats has a room, or the notice of its end is under way or was the last word (`Noticed`); whose last word was
  of a chat is in that room, or its end is on the way to him (`WordsHold`).  At rest nothing is on the way, and
  what is left are `ChatHasRoomOrNotice` and `NoGhostChat`.

| Theorem | |
|---|---|
| `SearchesOneAtATime` | `Settled => (DSpec => OneSearchSpec)` |
| `ServerKeepsContract` | `Settled => (DSpec => ContractSpec)` |
| `OneRoomOnly` | `Settled => (DSpec => []OneRoomPerMatch)` |
| `RoomsHaveMembers` | `Settled => (DSpec => []NoOrphanRoom)` |
| `ShutdownLeavesNoRooms` | `Settled => (DSpec => []ShutdownEndsRooms)` |
| `LinesStayInTheirRoom` | `Settled /\ "shutdown" \notin Ops => (DSpec => NoCrossTalk)` |
| `ChatsAreBacked` | `Settled => (DSpec => []ChatHasRoomOrNotice)` |
| `GhostsAreAnnounced` | `Settled => (DSpec => []NoGhostChat)` |

`LinesStayInTheirRoom` needs its second hypothesis: CloseAllRooms closes a room only after it has taken all
rooms out of the maps, and in between the property is false (see below).

**TokenBucket.**  `BucketInv` is `AllowIsExact` with the types of the variables and is inductive.
The property relates what the bucket holds *now*, not what it held at the last call, to the
grants (`LeftSince`), so that a tick changes both sides alike until the bucket is full, and a
grant takes one token off both.  What remains is to keep the products apart: the lemmas
`FullNat`, `Products` and `OneMore` are all that the steps use of multiplication.

| Theorem | |
|---|---|
| `GrantsAreExact` | `BucketSpec => []AllowIsExact` |

**Shadowban, Limits.**  The store keeps numbers of reports, the property speaks of all that were ever made.
`ShadowInv` relates the two for each address (`History`): the reports are in order (`InOrder`), every
one that still matters is remembered (`Remembered`), two that banned are a ban apart (`Apart`), and the ban on
record is that of the last of them (`LastBan`).  `Apart` is the part that is not obvious: reports
during a ban do not count towards the next, which is why the assumption has the ban at least as long as
the window.  `LimitsAreIndependent` carries both theorems to the composition on one clock.

| Theorem | |
|---|---|
| `BansAreEarned` | `ShadowSpec => []BannedIffReported` |
| `BothLimitsHold` | `LSpec => [](AllowIsExact /\ BannedIffReported)` |

**Connection.**  `ConnInv` has the types, `EndsByContext` (a goroutine that has ended has cancelled the context), and the
property `SilentIsCut`, which needs only `ChecksInTime`.  The other direction needs a chain of
bounds on time: a page in reach owes a pong for every ping but one that was `missed` for want of room
(`SignsOfLife`), a hidden page has told so (`HiddenIsTold`), and therefore `SeenInTime`.

| Theorem | |
|---|---|
| `SilenceIsBounded` | `ConnSpec => []SilentIsCut` |
| `LiveOrDieTogether` | `ConnSpec => []PumpsEndTogether` |
| `AnsweringIsKept` | `Interval + Delay <= PauseGrace` implies `ConnSpec => OnlySilentAreCut` |

The hypothesis of the last is about the numbers of the configuration, 25 s and at most 10 s against 120 s
(`config/config.go:54-58`).  It is needed: with a shorter grace a page that is hidden between the two loads of a check
meets a limit that its last sign of life, though in time, does not.

**ChatClient.**  `ChatInv` is `CTypeOK`, `Connected` (which connection and session belong together) and the parts of
`Followed`, each of the form: *either the page shows what the server holds, or the envelope or message
that will correct it is under way and none behind it undoes that*.  `MatchedIsLast`, `PartnerFollowed`,
`SearchFollowed`, `NoticeFollowed`, `AwayFollowed` and `PresenceFollowed` say this of one relation each;
`ChatAtOnePlace` says that at most one of page, `up` and `down` holds the word on a chat.
Once nothing is under way only the first half is left, which is the property.  The directions are sequences: `Has`,
`Ends` and `Follows` say what of their order matters, and the lemmas `Joins` and `Taken` how it changes when
one envelope is appended or taken.

| Theorem | |
|---|---|
| `ClientTypesCorrect` | `CSpec => []CTypeOK` |
| `ChatsAreBacked` | `CSpec => []ChatIsBacked` |
| `PartnersAreSeen`, `PartnersAreThere` | `CSpec => []PartnerIsSeen`, `CSpec => []DeadChatIsMissedNotice` |
| `SearchesAreSeen` | `CSpec => []SearchIsSeen` |
| `AwayIsKnown`, `PresenceIsKnown` | `CSpec => []AwayIsTrue`, `CSpec => []PausedIsHidden` |

`TypeCorrect`, `QueueTypeCorrect` and NoSelfMatch have no run of their own any more, as the proofs cover all
instances; `DTypeOK` contains both type invariants, as a check of the composition.

**Only model-checked:**

- All liveness (`NoEndlessWait`, `MatchIsEntered`, `EndedRoomIsTold`, `GoneLeavesQueue`, `StalledIsCut`,
  `Reconnects`): it rests on fairness and ENABLED, which are out of the prover's reach.
- The two properties that the code violates, and the places outside the hypotheses above at which
  others fail; these are counterexamples, not proofs.

Every safety property that a passing run checks is thus also a theorem.

## What the checks found

Shown by runs that must fail:

1. **A chat with a ghost** (`ghost_chat`).  When one of two matched clients disconnects around
   the match, its side can register and end the room before the partner's awaitMatch sends
   `matched`.  The partner hears peer_left, then `matched`, and chats with nobody.  The
   comment at `ws/dispatch.go:169-172` says that this is prevented.  If the room was
   already ended, registerRoomIfNew moreover brings it back, for it knows only rooms
   registered at the moment; the room then has a dead member.
2. **Search after peer_left** (`search_refused`).  The partner's leaving does not change the
   state of the one who stays.  He is "chatting" until he sends stop or next, but the page
   sends neither from its peer-left view: "Find someone" sends a search, which is refused.
   The page shows "searching" and never displays the error.

Seen while modelling, not (yet) shown by a run:

- Search and cancel within one round trip: the `searching` envelope of the search arrives
  after the page went back to idle and puts it into "searching" for good, while the server
  is idle.  A search refused for its tags (the tag editor does not check characters) ends
  the same way.  `SearchIsSeen` is therefore stated in one direction only.
- The line "Connection lost..." (`lib/store.ts:101-112`) is added when the view is
  chatting or searching as the new welcome arrives.  By then `closed` has made it "connecting"
  and `open` "idle", so that after a real loss it never appears.  The store's test calls the
  handlers without the status callbacks.
- peerAway outlives stop, next and a reconnect in the store, and is shown outside chats until
  the next `matched` (`AwayIsTrue` holds only inside).
- A second Enqueue of a session overwrites `byID` and `pending`; when the older candidate is the one removed, a
  goroutine waits on a channel nobody will close, until the matcher itself goes.  Only clients that send
  stop or next while searching reach this.
- The peer_left of a room that its partner ended may be sent after the session has gone on to a new search or
  room, and the page believes it.
- cancel of a shadowbanned search is answered with an error (`ws/dispatch.go:131`), since it has no
  cancel function: the one visible difference to a search that just finds nobody, where
  `ws/shadowban.go:8-13` wants none.  `SearchingIsCancellable` is stated for the others.
- heartbeat loads lastPong and then the paused flag (`ws/connection.go:137-139`).  When the page comes
  back after more than interval + timeout of silence and its resume is handled between the two
  loads, the old silence meets the new limit, and a page that has just spoken is cut off; the
  comment at `ws/connection.go:26-28` promises a paused page the longer limit.
  `OnlySilentAreCut` holds but for this case.
- A ping that finds the Send buffer full is dropped, and the pong with it.  Typing and presence are relayed
  without a limit, so that a partner can fill the buffer of a page that is in reach and merely listens.  One dropped ping
  is enough for the heartbeat to cut it off, for interval + timeout is over before the pong of the next ping is in.
  `OnlySilentAreCut` holds but for this case too; without the exception TLC finds it violated.
- A silent connection leaves the registry up to 40 s after its last message (interval + timeout + one
  check; 125 s when hidden), not 35 s, as `match/inmemory.go:48-50` and
  `backend/cmd/server/main.go:31-34` suggest; until then it can be matched (`SilentIsCut`).
- When both partners leave within the match window, the second awaitMatch can register its room
  after both cleanups have looked for one: the room stays in the registry, and in
  RoomCount, for good.  `settled` excludes it.
- A match that is under way at a shutdown is registered after CloseAllRooms, whose replaced
  maps do not contain it.  `ShutdownEndsRooms` shows that the cleanup of its sockets ends it,
  provided they were connected when CloseAllConnections copied its list.
- CloseAllRooms replaces the maps at once and closes the rooms one by one.  Who sends next in between finds no
  room to end, searches, and can be matched while his old partner, who got the room's pointer before, relays a
  line through the room that is still open: the line arrives in the new chat.  With "shutdown" among the `Ops` of
  `dispatch_three`, TLC finds `NoCrossTalk` violated after 26 steps; no document promises otherwise.
- connectRate keeps a bucket for every address it has ever seen (`ws/handler.go:127`).
- findFallback is described as taking the oldest; it takes the first in queue order, which differs from
  EnqueuedAt when two goroutines reach the lock in the other order.

## What is not modelled

- **In connections**: binary, oversized and malformed messages, which are skipped or end the read pump
  like any error; the library's handshake; X-Forwarded-For.
- **In the limiters**: the rounding of float64; the table of buckets by address, which
  only grows.  `Dispatch` lets any report ban, and `ChatClient` any message be refused, so that
  neither depends on the numbers.
- **Tags and texts**: NormalizeTags and sanitizeMessageText are pure functions on strings, with
  tables of tests; of their outcome only the refusal matters to the state, and that is an action.
- **At the end of the process**: the 500 ms between CloseAllRooms and CloseAllConnections (any
  duration, in `Dispatch`), srv.Shutdown, the matcher's Close and the shadowban store's.  They
  stop goroutines of a process that exits.
- **In the page**: the message list, typing, the tag editor, the two-tap Esc, the title
  flicker of `lib/notify.ts`, the admin page; store.next, dismissPeerLeft and clearMessages,
  which no component calls.
- **No state of their own**: admin statistics, metrics, configuration, protocol types, static
  files, styling, deployment.

## Plan

Done: all the models, in the order of their weight for the chat itself, and a theorem for every
safety property of the passing runs.  What is left of the code is listed above with the reason.  Next:

1. Weaker hypotheses for `SettledProofs`: `settled` is one assumption for disconnects, cancels, stops and the
   shutdown, and not every theorem needs it of each.  On two sessions `NoOrphanRoom` and `ShutdownEndsRooms` hold
   without `stop-in-chat`, which asks for the condition on three under which they do.
2. `NoCrossTalk` with a shutdown, for the lines of all rooms but those that CloseAllRooms has yet to close.
3. More action properties of `Connection`, if they say more than its actions do.
4. `OnlySilentAreCut` without the hypothesis on the grace period, by what is left over when it fails.
