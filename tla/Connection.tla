----------------------------- MODULE Connection -----------------------------
(****************************************************************************)
(* The three goroutines of one WebSocket connection (ws/connection.go) on a *)
(* clock: the read pump, the write pump and the heartbeat, the context that *)
(* ends them together, and the page and the network at the other end.       *)
(*                                                                          *)
(* Instants are not numbered; each timer is kept as what has run or is left *)
(* of it, so that the clock needs no bound.  Whatever the goroutines can do *)
(* takes no time: Tick waits until they are all blocked.  A message of the  *)
(* page arrives within Delay while the network carries it.  heartbeat loads *)
(* lastPong and then paused, with anything the read pump does in between.   *)
(*                                                                          *)
(* The page's messages are text and within the size limit.  What handle     *)
(* does with them, beside pause and resume, is in Dispatch.                 *)
(****************************************************************************)
EXTENDS Naturals, Sequences

CONSTANTS
  Interval, Timeout,  \* Config.HeartbeatInterval, Config.HeartbeatTimeout
  CheckEvery,         \* Timeout / 2
  PauseGrace,         \* Config.PauseGrace
  WriteDeadline,      \* the 10 s of writePump
  Delay,              \* the slowest answer of a page in reach
  SendCap,            \* the capacity of Session.Send
  MaxWire             \* bound on the page's messages under way

ASSUME ConnectionAssumption ==
  /\ {Interval, Timeout, CheckEvery, PauseGrace, WriteDeadline, Delay, SendCap, MaxWire} \subseteq Nat \ {0}
  /\ Delay <= Timeout /\ Timeout < Interval

VARIABLES
  page, net, wire,            \* "visible" or "hidden"; "up", "stalled" (nothing gets to
                              \* the page) or "lost"; the page's messages under way
  reader, silence, paused,    \* "read", "done" or the message in handle; now - lastPong
  sendQ, writer, writeAge,    \* Session.Send; "idle", "done" or the envelope in Write
  heart, seen,                \* "wait", "judge" or "done"; what heartbeat loaded
  missed,                     \* since the last message a ping found no place (history)
  wasPaused, wasMissed,       \* paused and missed when heartbeat loaded (history)
  pingIn, checkIn,            \* what is left of the two tickers
  cancelled, socket, over     \* ctx; "open" or "closed"; HandleUpgrade has returned

pageVars  == <<page, net, wire>>
readVars  == <<reader, silence, paused>>
writeVars == <<sendQ, writer, writeAge>>
heartVars == <<heart, seen, pingIn, checkIn>>
pastVars  == <<missed, wasPaused, wasMissed>>
endVars   == <<cancelled, socket, over>>
cvars == <<pageVars, readVars, writeVars, heartVars, pastVars, endVars>>

ActiveSilence == Interval + Timeout
Limit == IF paused THEN PauseGrace ELSE ActiveSilence
Longest == (IF PauseGrace > ActiveSilence THEN PauseGrace ELSE ActiveSilence) + CheckEvery + 1
----------------------------------------------------------------------------
\* The welcome is in the buffer before the goroutines start.
ConnInit ==
  /\ page = "visible" /\ net = "up" /\ wire = <<>>
  /\ reader = "read" /\ silence = 0 /\ paused = FALSE
  /\ sendQ = <<"envelope">> /\ writer = "idle" /\ writeAge = 0
  /\ heart = "wait" /\ seen = 0 /\ missed = FALSE /\ wasPaused = FALSE /\ wasMissed = FALSE
  /\ pingIn = Interval /\ checkIn = CheckEvery
  /\ cancelled = FALSE /\ socket = "open" /\ over = FALSE

\* The page and the network.
Post(kind) == wire' = IF net = "lost" THEN wire ELSE Append(wire, [kind |-> kind, age |-> 0])

PageSends ==
  /\ socket = "open" /\ Len(wire) < MaxWire
  /\ \/ page = "visible" /\ page' = "hidden" /\ Post("pause")
     \/ page = "hidden" /\ page' = "visible" /\ Post("resume")
     \/ page = "visible" /\ page' = page /\ net # "lost" /\ Post("talk")
  /\ UNCHANGED <<net, readVars, writeVars, heartVars, pastVars, endVars>>

NetFails ==
  /\ \/ net = "up" /\ net' = "stalled" /\ UNCHANGED wire
     \/ net # "lost" /\ net' = "lost" /\ wire' = <<>>
  /\ UNCHANGED <<page, readVars, writeVars, heartVars, pastVars, endVars>>

\* The page closes the socket, or CloseAllConnections does at shutdown.
SocketCloses ==
  /\ socket = "open" /\ socket' = "closed"
  /\ UNCHANGED <<pageVars, readVars, writeVars, heartVars, pastVars, cancelled, over>>

(* The read pump.                                                           *)
Takes(heard) ==
  /\ reader = "read" /\ ~cancelled /\ socket = "open" /\ wire # <<>>
  /\ reader' = Head(wire).kind
  /\ wire' = Tail(wire)
  /\ silence' = IF heard THEN 0 ELSE silence
  /\ missed' = (missed /\ ~heard)
  /\ UNCHANGED <<page, net, paused, wasPaused, wasMissed, writeVars, heartVars, endVars>>

ReadTakesPongs == Takes(wire # <<>> /\ Head(wire).kind = "pong")  \* only a pong counts
ReadTakes == Takes(TRUE)

\* handlePresence, and nothing for the other messages.
ReadHandles ==
  /\ reader \notin {"read", "done"}
  /\ paused' = (reader = "pause" \/ (paused /\ reader # "resume"))
  /\ reader' = "read"
  /\ UNCHANGED <<silence, pageVars, writeVars, heartVars, pastVars, endVars>>

ReadEnds ==
  /\ reader = "read"
  /\ cancelled \/ socket = "closed"
  /\ reader' = "done" /\ cancelled' = TRUE
  /\ UNCHANGED <<silence, paused, pageVars, writeVars, heartVars, pastVars, socket, over>>

\* run returns from readPump, and HandleUpgrade with its deferred cleanup.
CleanUp ==
  /\ reader = "done" /\ ~over
  /\ over' = TRUE /\ socket' = "closed" /\ cancelled' = TRUE
  /\ UNCHANGED <<pageVars, readVars, writeVars, heartVars, pastVars>>

(* The write pump, and those who put envelopes in the buffer.               *)
Writing == writer \notin {"idle", "done"}

\* Nothing limits how fast a partner's typing and presence come.
TrySend ==
  /\ ~over /\ Len(sendQ) < SendCap
  /\ sendQ' = Append(sendQ, "envelope")
  /\ UNCHANGED <<writer, writeAge, pageVars, readVars, heartVars, pastVars, endVars>>

\* The buffer stays full for as long as sendCritical waits.
SendCriticalFails ==
  /\ ~over /\ Len(sendQ) = SendCap /\ Writing /\ net # "up"
  /\ socket' = "closed"
  /\ UNCHANGED <<cancelled, over, pageVars, readVars, writeVars, heartVars, pastVars>>

WriteTakes ==
  /\ writer = "idle" /\ sendQ # <<>>
  /\ writer' = Head(sendQ) /\ sendQ' = Tail(sendQ) /\ writeAge' = 0
  /\ UNCHANGED <<pageVars, readVars, heartVars, pastVars, endVars>>

\* Bytes for a page out of reach may be taken all the same.  A page in reach
\* answers a ping; while it is hidden it may not.
WriteDone ==
  /\ Writing /\ socket = "open" /\ net # "stalled"
  /\ writer' = "idle" /\ writeAge' = 0
  /\ \/ writer = "ping" /\ Post("pong")
     \/ (writer # "ping" \/ page = "hidden") /\ UNCHANGED wire
  /\ UNCHANGED <<page, net, sendQ, readVars, heartVars, pastVars, endVars>>

\* The library closes a socket whose Write or Read loses its context.
WriteOver(late, ctx) ==
  /\ Writing
  /\ late \/ cancelled \/ socket = "closed"
  /\ writer' = "done" /\ writeAge' = 0
  /\ cancelled' = ctx /\ socket' = IF ctx THEN "closed" ELSE socket
  /\ UNCHANGED <<sendQ, over, pageVars, readVars, heartVars, pastVars>>

WriteFailsAlone == WriteOver(writeAge >= WriteDeadline, cancelled)  \* no deferred cancel
WriteFailsNever == WriteOver(FALSE, TRUE)                           \* no deadline
WriteFails == WriteOver(writeAge >= WriteDeadline, TRUE)

WriteEnds ==
  /\ writer = "idle" /\ cancelled
  /\ writer' = "done"
  /\ UNCHANGED <<sendQ, writeAge, pageVars, readVars, heartVars, pastVars, endVars>>

(* The heartbeat.                                                           *)
HeartPing ==
  /\ heart = "wait" /\ pingIn = 0
  /\ pingIn' = Interval
  /\ \/ ~paused /\ Len(sendQ) < SendCap /\ sendQ' = Append(sendQ, "ping") /\ UNCHANGED missed
     \/ ~paused /\ Len(sendQ) = SendCap /\ missed' = TRUE /\ UNCHANGED sendQ
     \/ paused /\ UNCHANGED <<sendQ, missed>>
  /\ UNCHANGED <<writer, writeAge, heart, seen, wasPaused, wasMissed, checkIn, pageVars, readVars, endVars>>

HeartLoad ==
  /\ heart = "wait" /\ checkIn = 0
  /\ checkIn' = CheckEvery
  /\ heart' = "judge" /\ seen' = silence
  /\ wasPaused' = paused /\ wasMissed' = missed
  /\ UNCHANGED <<missed, pingIn, pageVars, readVars, writeVars, endVars>>

Judge(cut) ==
  /\ heart = "judge"
  /\ heart' = IF cut THEN "done" ELSE "wait"
  /\ cancelled' = (cancelled \/ cut)
  /\ seen' = 0 /\ wasPaused' = FALSE /\ wasMissed' = FALSE
  /\ UNCHANGED <<missed, pingIn, checkIn, socket, over, pageVars, readVars, writeVars>>

JudgePausedForEver == Judge(seen > Limit /\ ~paused)  \* a paused page is never cut off
HeartJudge == Judge(seen > Limit)

HeartEnds ==
  /\ heart = "wait" /\ cancelled
  /\ heart' = "done"
  /\ UNCHANGED <<seen, pastVars, pingIn, checkIn, pageVars, readVars, writeVars, endVars>>

Reads  == ReadTakes \/ ReadHandles \/ ReadEnds \/ CleanUp
Writes == WriteTakes \/ WriteDone \/ WriteFails \/ WriteEnds
Beats  == HeartPing \/ HeartLoad \/ HeartJudge \/ HeartEnds

(* Time passes when every goroutine waits for it or for the network.        *)
Still ==
  /\ reader = "done" => over
  /\ reader # "done" =>
       /\ reader = "read" /\ ~cancelled /\ socket = "open"
       /\ wire # <<>> => Head(wire).age < Delay
  /\ writer = "idle" => sendQ = <<>> /\ ~cancelled
  /\ Writing => /\ net # "up" /\ socket = "open" /\ ~cancelled
                /\ writeAge < WriteDeadline
  /\ heart = "wait" => pingIn > 0 /\ checkIn > 0 /\ ~cancelled
  /\ heart # "judge"

Tick ==
  /\ Still /\ ~over
  /\ silence' = IF silence < Longest THEN silence + 1 ELSE silence
  /\ wire' = [i \in DOMAIN wire |-> [wire[i] EXCEPT !.age = @ + 1]]
  /\ writeAge' = IF Writing THEN writeAge + 1 ELSE 0
  /\ pingIn' = pingIn - 1 /\ checkIn' = checkIn - 1
  /\ UNCHANGED <<page, net, reader, paused, sendQ, writer, heart, seen, pastVars, endVars>>

ConnNext ==
  \/ PageSends \/ NetFails \/ SocketCloses
  \/ TrySend \/ SendCriticalFails
  \/ Reads \/ Writes \/ Beats
  \/ Tick

ConnSpec == ConnInit /\ [][ConnNext]_cvars

\* Goroutines run and time passes, however busy the connection is.
FairConnSpec ==
  ConnSpec /\ WF_cvars(Reads) /\ WF_cvars(Writes) /\ WF_cvars(Beats) /\ SF_cvars(Tick)
----------------------------------------------------------------------------
\* The heartbeat cuts off nobody it can reach and who answers what he gets:
\* neither a page that was visible when the check began, nor one that is hidden
\* and within its grace.  Two cases are left: a page whose ping was dropped
\* because its partner had filled the buffer, and which has not been heard
\* since, and a resume between the two loads of a check, after a pause that was
\* longer than the silence of an active page may be.
OnlySilentAreCut ==
  [][heart = "judge" /\ heart' = "done" =>
       \/ net # "up"
       \/ wasMissed
       \/ wasPaused /\ (paused => seen > PauseGrace)]_cvars

\* However the page was lost, and whatever it had paused, resumed or sent, its
\* session is gone one period of the check after its limit: 40 s in use, and
\* 125 s for a page that was hidden.
SilentIsCut == ~over => silence <= Limit + CheckEvery

\* No connection goes on with part of its goroutines: whichever ends first, for
\* whatever reason, takes the others and the session along without delay.
PumpsEndTogether ==
  Still =>
    \/ reader = "read" /\ writer # "done" /\ heart = "wait" /\ socket = "open" /\ ~over
    \/ reader = "done" /\ writer = "done" /\ heart = "done" /\ over

\* A session whose page takes no more envelopes ends, even if the page goes on
\* talking and so keeps the heartbeat content; only one that keeps pausing, so
\* that there is nothing to write to it, may stay.
StalledIsCut ==
  <>[](net # "up") => <>over \/ ([]<>(page = "hidden") /\ []<>(page = "visible"))
=============================================================================
