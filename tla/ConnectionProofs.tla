-------------------------- MODULE ConnectionProofs --------------------------
(****************************************************************************)
(* The safety properties of Connection for all intervals, limits and sizes. *)
(* ConnInv says why they hold: nothing ends without the context; a check    *)
(* comes before the silence exceeds what is left of its period; and as long *)
(* as the page is in reach and not paused, and no ping has been dropped, a  *)
(* ping is due, on its way, or answered by a message that is.               *)
(****************************************************************************)
EXTENDS Connection, SequenceTheorems, TLAPS

Kind == {"pause", "resume", "talk", "pong"}
Posted == [kind : Kind, age : Nat]

ConnTypes ==
  /\ page \in {"visible", "hidden"} /\ net \in {"up", "stalled", "lost"}
  /\ wire \in Seq(Posted)
  /\ reader \in Kind \cup {"read", "done"} /\ silence \in Nat /\ paused \in BOOLEAN
  /\ sendQ \in Seq({"envelope", "ping"})
  /\ writer \in {"idle", "done", "envelope", "ping"} /\ writeAge \in Nat
  /\ heart \in {"wait", "judge", "done"} /\ seen \in Nat
  /\ missed \in BOOLEAN /\ wasPaused \in BOOLEAN /\ wasMissed \in BOOLEAN
  /\ pingIn \in 0 .. Interval /\ checkIn \in 0 .. CheckEvery
  /\ cancelled \in BOOLEAN /\ socket \in {"open", "closed"} /\ over \in BOOLEAN

\* Who ends has cancelled the context, or found it cancelled.
EndsByContext ==
  /\ "done" \in {reader, writer, heart} => cancelled
  /\ over => reader = "done"

\* Before a check, what is left of its period is left of the limit as well.  A
\* pause or resume that is being handled was read at this very instant, and so
\* was what came between the loads of a check and its end.
ChecksInTime ==
  /\ reader \notin {"read", "done"} => silence = 0
  /\ heart = "wait" /\ ~cancelled => silence + checkIn <= Limit + CheckEvery
  /\ heart = "judge" => checkIn = CheckEvery /\ (silence = seen \/ silence = 0)

\* While the page is hidden, a pause is in effect or under way.
PauseUnderWay(q) ==
  \E i \in DOMAIN q : q[i].kind = "pause" /\ \A j \in DOMAIN q : j > i => q[j].kind # "resume"

NoResume(q) == \A j \in DOMAIN q : q[j].kind # "resume"

HiddenIsTold ==
  net = "up" /\ page = "hidden" /\ reader # "done" =>
    \/ PauseUnderWay(wire)
    \/ NoResume(wire) /\ (reader = "pause" \/ (paused /\ reader # "resume"))

\* While the page is in reach and not paused, and no ping has found the buffer
\* full since the last message, the next sign of life is at most an interval and
\* the time of an answer away.
PingDue == silence + pingIn <= Interval
PingOut == (writer = "ping" \/ \E i \in DOMAIN sendQ : sendQ[i] = "ping") /\ silence <= Interval
AnswerDue == wire # <<>> /\ silence <= Interval + wire[1].age

SignsOfLife ==
  net = "up" /\ ~paused /\ ~missed =>
    /\ silence <= Interval + Delay
    /\ ~cancelled /\ socket = "open" => PingDue \/ PingOut \/ AnswerDue

SeenInTime == heart = "judge" /\ net = "up" /\ ~wasPaused /\ ~wasMissed => seen <= Interval + Delay

ConnInv ==
  /\ ConnTypes /\ EndsByContext /\ ChecksInTime /\ SilentIsCut
  /\ HiddenIsTold /\ SignsOfLife /\ SeenInTime
----------------------------------------------------------------------------
LEMMA TimesAreNat ==
  /\ Interval \in Nat /\ Interval > 0 /\ Timeout \in Nat /\ CheckEvery \in Nat /\ CheckEvery > 0
  /\ PauseGrace \in Nat /\ Delay \in Nat /\ Delay > 0 /\ Delay <= Timeout
  /\ SendCap \in Nat /\ SendCap > 0
<1>1. \A n \in Nat \ {0} : n \in Nat /\ n > 0
  OBVIOUS
<1> QED
  BY <1>1, ConnectionAssumption

LEMMA LimitsAreNat ==
  /\ Limit \in Nat /\ Longest \in Nat /\ ActiveSilence \in Nat
  /\ Limit' \in Nat
  BY TimesAreNat DEF Limit, Longest, ActiveSilence

\* What happens to the page's messages and to the buffer, element by element.
LEMMA Posting ==
  ASSUME wire \in Seq(Posted), NEW kind \in Kind, net # "lost", Post(kind)
  PROVE  /\ wire' \in Seq(Posted) /\ Len(wire') = Len(wire) + 1
         /\ \A i \in DOMAIN wire : i \in DOMAIN wire' /\ wire'[i] = wire[i]
         /\ wire'[Len(wire) + 1] = [kind |-> kind, age |-> 0]
<1>1. [kind |-> kind, age |-> 0] \in Posted
  BY DEF Posted
<1>2. wire' = Append(wire, [kind |-> kind, age |-> 0])
  BY DEF Post
<1> QED
  BY <1>1, <1>2, AppendProperties

LEMMA FirstStays ==
  ASSUME wire \in Seq(Posted), wire # <<>>,
         UNCHANGED wire \/ \E kind \in Kind : Post(kind)
  PROVE  wire' # <<>> /\ wire'[1] = wire[1]
<1>1. CASE UNCHANGED wire
  BY <1>1
<1>2. CASE net # "lost" /\ \E kind \in Kind : Post(kind)
  <2>1. 1 \in DOMAIN wire
    BY EmptySeq, LenProperties
  <2>2. 1 \in DOMAIN wire' /\ wire'[1] = wire[1]
    BY <1>2, <2>1, Posting
  <2> QED
    BY <2>2
<1>3. CASE net = "lost" /\ \E kind \in Kind : Post(kind)
  BY <1>3 DEF Post
<1> QED
  BY <1>1, <1>2, <1>3

LEMMA Taking ==
  ASSUME NEW S, NEW q \in Seq(S), q # <<>>
  PROVE  /\ Tail(q) \in Seq(S) /\ Head(q) = q[1] /\ q[1] \in S
         /\ Len(Tail(q)) = Len(q) - 1 /\ 1 \in DOMAIN q
         /\ \A i \in DOMAIN Tail(q) : i + 1 \in DOMAIN q /\ Tail(q)[i] = q[i + 1]
  BY HeadTailProperties

LEMMA OneOlder ==
  ASSUME NEW m \in Posted
  PROVE  [m EXCEPT !.age = @ + 1] = [kind |-> m.kind, age |-> m.age + 1]
  BY DEF Posted

LEMMA Ageing ==
  ASSUME wire \in Seq(Posted), wire' = [i \in DOMAIN wire |-> [wire[i] EXCEPT !.age = @ + 1]]
  PROVE  /\ wire' \in Seq(Posted) /\ DOMAIN wire' = DOMAIN wire
         /\ \A i \in DOMAIN wire : wire'[i].kind = wire[i].kind /\ wire'[i].age = wire[i].age + 1
<1>1. \A i \in DOMAIN wire : wire[i] \in Posted
  BY ElementOfSeq
<1>2. ASSUME NEW i \in DOMAIN wire
      PROVE  wire'[i] \in Posted /\ wire'[i].kind = wire[i].kind /\ wire'[i].age = wire[i].age + 1
  <2>1. wire'[i] = [kind |-> wire[i].kind, age |-> wire[i].age + 1]
    BY <1>1, OneOlder, Zenon
  <2> QED
    BY <1>1, <2>1 DEF Posted
<1>3. wire' \in [1 .. Len(wire) -> Posted]
  BY <1>2, LenProperties
<1> QED
  BY <1>2, <1>3, SeqDef, LenProperties

\* Time passes while nothing has ended, and nothing is left to do; of a network
\* that is up, nothing to send either.
LEMMA TickWaits ==
  ASSUME ConnTypes, EndsByContext, Tick
  PROVE  /\ reader = "read" /\ ~cancelled /\ socket = "open" /\ ~over
         /\ heart = "wait" /\ pingIn > 0 /\ checkIn > 0
         /\ wire # <<>> => Head(wire).age < Delay
         /\ net = "up" => writer = "idle" /\ sendQ = <<>>
<1>1. Still /\ ~over
  BY DEF Tick
<1>2. reader # "done" /\ reader = "read" /\ ~cancelled /\ socket = "open"
  BY <1>1 DEF Still
<1>3. heart = "wait" /\ pingIn > 0 /\ checkIn > 0
  BY <1>1, <1>2 DEF Still, ConnTypes, EndsByContext
<1>4. net = "up" => writer = "idle" /\ sendQ = <<>>
  BY <1>1, <1>2 DEF Still, Writing, EndsByContext
<1> QED
  BY <1>1, <1>2, <1>3, <1>4 DEF Still

\* What a tick does, apart from the messages.
LEMMA TickCounts ==
  ASSUME ConnTypes, Tick
  PROVE  /\ silence' \in Nat /\ silence' \in {silence, silence + 1}
         /\ pingIn' = pingIn - 1 /\ checkIn' = checkIn - 1
         /\ UNCHANGED <<page, net, reader, paused, sendQ, writer, heart, seen, pastVars, endVars>>
<1>1. silence' = silence + 1 \/ silence' = silence
  BY Zenon DEF Tick
<1>2. silence' \in Nat /\ silence' \in {silence, silence + 1}
  BY <1>1 DEF ConnTypes
<1> QED
  BY <1>2, Zenon DEF Tick

\* What ReadTakes does, apart from the messages.
LEMMA TakeClears ==
  ASSUME ConnTypes, ReadTakes
  PROVE  /\ reader' = wire[1].kind /\ reader' \in Kind /\ silence' = 0 /\ missed' = FALSE
         /\ wire # <<>> /\ wire' = Tail(wire) /\ reader = "read" /\ ~cancelled
         /\ UNCHANGED <<page, net, paused, wasPaused, wasMissed, writeVars, heartVars, endVars>>
<1>1. /\ reader' = Head(wire).kind /\ silence' = 0 /\ missed' = FALSE
      /\ wire # <<>> /\ wire' = Tail(wire) /\ reader = "read" /\ ~cancelled
      /\ UNCHANGED <<page, net, paused, wasPaused, wasMissed, writeVars, heartVars, endVars>>
  BY Zenon DEF ReadTakes, Takes
<1>2. wire \in Seq(Posted)
  BY DEF ConnTypes
<1>3. Head(wire) = wire[1] /\ wire[1] \in Posted
  BY <1>1, <1>2, Taking
<1> QED
  BY <1>1, <1>3 DEF Posted

LEMMA CInitially == ConnInit => ConnInv
<1> SUFFICES ASSUME ConnInit PROVE ConnInv
  OBVIOUS
<1>1. ConnTypes
  <2>1. wire \in Seq(Posted)
    BY EmptySeq DEF ConnInit
  <2>2. sendQ \in Seq({"envelope", "ping"})
    BY DEF ConnInit
  <2>3. pingIn \in 0 .. Interval /\ checkIn \in 0 .. CheckEvery /\ silence \in Nat /\ seen \in Nat /\ writeAge \in Nat
    BY TimesAreNat DEF ConnInit
  <2>4. /\ page \in {"visible", "hidden"} /\ net \in {"up", "stalled", "lost"}
        /\ reader \in Kind \cup {"read", "done"} /\ paused \in BOOLEAN
        /\ writer \in {"idle", "done", "envelope", "ping"}
        /\ heart \in {"wait", "judge", "done"}
        /\ missed \in BOOLEAN /\ wasPaused \in BOOLEAN /\ wasMissed \in BOOLEAN
        /\ cancelled \in BOOLEAN /\ socket \in {"open", "closed"} /\ over \in BOOLEAN
    BY DEF ConnInit
  <2> QED
    BY <2>1, <2>2, <2>3, <2>4 DEF ConnTypes
<1>2. EndsByContext /\ HiddenIsTold /\ SeenInTime
  BY TimesAreNat DEF ConnInit, EndsByContext, HiddenIsTold, SeenInTime
<1>3. ChecksInTime /\ SilentIsCut
  BY ConnectionAssumption, LimitsAreNat DEF ConnInit, ChecksInTime, SilentIsCut
<1>4. SignsOfLife
  BY TimesAreNat DEF ConnInit, SignsOfLife, PingDue
<1> QED
  BY <1>1, <1>2, <1>3, <1>4 DEF ConnInv

\* Every action keeps the types.
LEMMA ConnTypesStep == ConnTypes /\ EndsByContext /\ [ConnNext]_cvars => ConnTypes'
<1> SUFFICES ASSUME ConnTypes, EndsByContext, [ConnNext]_cvars PROVE ConnTypes'
  OBVIOUS
<1> USE DEF ConnTypes, pageVars, readVars, writeVars, heartVars, pastVars, endVars
<1>1. CASE UNCHANGED cvars
  BY <1>1 DEF cvars
<1>2. CASE PageSends
  <2>1. wire' \in Seq(Posted)
    <3>1. CASE net = "lost"
      BY <1>2, <3>1 DEF PageSends, Post
    <3>2. CASE net # "lost"
      BY <1>2, <3>2, Posting DEF PageSends, Kind
    <3> QED
      BY <3>1, <3>2
  <2> QED
    BY <1>2, <2>1 DEF PageSends
<1>3. CASE NetFails \/ SocketCloses \/ SendCriticalFails \/ ReadEnds \/ CleanUp \/ WriteEnds \/ HeartEnds
  BY <1>3, EmptySeq DEF NetFails, SocketCloses, SendCriticalFails, ReadEnds, CleanUp, WriteEnds, HeartEnds
<1>4. CASE TrySend
  BY <1>4, AppendProperties DEF TrySend
<1>5. CASE ReadTakes
  <2>1. Tail(wire) \in Seq(Posted) /\ Head(wire) \in Posted
    BY <1>5, Taking DEF ReadTakes, Takes
  <2> QED
    BY <1>5, <2>1 DEF ReadTakes, Takes, Posted
<1>6. CASE ReadHandles
  BY <1>6 DEF ReadHandles
<1>7. CASE WriteTakes
  <2>1. Tail(sendQ) \in Seq({"envelope", "ping"}) /\ Head(sendQ) \in {"envelope", "ping"}
    BY <1>7, Taking DEF WriteTakes
  <2> QED
    BY <1>7, <2>1 DEF WriteTakes
<1>8. CASE WriteDone
  <2>1. wire' \in Seq(Posted)
    <3>1. CASE net = "lost" \/ UNCHANGED wire
      BY <1>8, <3>1 DEF WriteDone, Post
    <3>2. CASE net # "lost" /\ Post("pong")
      BY <3>2, Posting DEF Kind
    <3> QED
      BY <1>8, <3>1, <3>2 DEF WriteDone
  <2> QED
    BY <1>8, <2>1 DEF WriteDone
<1>9. CASE WriteFails
  BY <1>9 DEF WriteFails, WriteOver
<1>10. CASE HeartPing
  <2>1. Append(sendQ, "ping") \in Seq({"envelope", "ping"}) /\ Interval \in 0 .. Interval
    BY TimesAreNat, AppendProperties
  <2>2. sendQ' \in Seq({"envelope", "ping"}) /\ pingIn' = Interval
    BY <1>10, <2>1 DEF HeartPing
  <2>3. missed' \in BOOLEAN
    BY <1>10, Zenon DEF HeartPing
  <2>4. UNCHANGED <<writer, writeAge, heart, seen, wasPaused, wasMissed, checkIn, pageVars, readVars, endVars>>
    BY <1>10 DEF HeartPing
  <2> QED
    BY <2>1, <2>2, <2>3, <2>4
<1>11. CASE HeartLoad \/ HeartJudge
  <2>1. cancelled' \in BOOLEAN
    BY <1>11, Zenon DEF HeartLoad, HeartJudge, Judge
  <2>2. CASE HeartLoad
    BY <2>2, TimesAreNat DEF HeartLoad
  <2>3. CASE HeartJudge
    <3>1. heart' \in {"wait", "done"}
      BY <2>3, Zenon DEF HeartJudge, Judge
    <3>2. seen' = 0 /\ wasPaused' = FALSE /\ wasMissed' = FALSE
          /\ UNCHANGED <<missed, pingIn, checkIn, socket, over, pageVars, readVars, writeVars>>
      BY <2>3, Zenon DEF HeartJudge, Judge
    <3> QED
      BY <2>1, <3>1, <3>2
  <2> QED
    BY <1>11, <2>2, <2>3
<1>12. CASE Tick
  <2>1. wire' \in Seq(Posted)
    BY <1>12, Ageing DEF Tick
  <2>2. heart = "wait" /\ pingIn > 0 /\ checkIn > 0
    BY <1>12, TickWaits
  <2>3. silence' \in Nat /\ writeAge' \in Nat
    BY <1>12 DEF Tick
  <2> QED
    BY <1>12, <2>1, <2>2, <2>3, TimesAreNat DEF Tick
<1> QED
  BY <1>1, <1>2, <1>3, <1>4, <1>5, <1>6, <1>7, <1>8, <1>9, <1>10, <1>11, <1>12
  DEF ConnNext, Reads, Writes, Beats

LEMMA EndsStep == ConnTypes /\ EndsByContext /\ [ConnNext]_cvars => EndsByContext'
<1> SUFFICES ASSUME ConnTypes, EndsByContext, [ConnNext]_cvars PROVE EndsByContext'
  OBVIOUS
<1> USE DEF EndsByContext, pageVars, readVars, writeVars, heartVars, pastVars, endVars
<1>1. CASE UNCHANGED cvars \/ PageSends \/ NetFails \/ SocketCloses \/ TrySend \/ SendCriticalFails
  BY <1>1 DEF cvars, PageSends, NetFails, SocketCloses, TrySend, SendCriticalFails
<1>2. CASE Reads
  <2>1. CASE ReadTakes
    BY <2>1, TakeClears DEF Kind
  <2> QED
    BY <1>2, <2>1 DEF Reads, ReadHandles, ReadEnds, CleanUp
<1>3. CASE Writes
  <2>1. WriteTakes => writer' # "done"
    BY Taking DEF WriteTakes, ConnTypes
  <2> QED
    BY <1>3, <2>1 DEF Writes, WriteTakes, WriteDone, WriteFails, WriteOver, WriteEnds
<1>4. CASE Beats
  <2>1. CASE HeartJudge
    <3>1. (cancelled => cancelled') /\ (heart' = "done" => cancelled')
      BY <2>1, Zenon DEF HeartJudge, Judge
    <3> QED
      BY <2>1, <3>1 DEF HeartJudge, Judge
  <2> QED
    BY <1>4, <2>1 DEF Beats, HeartPing, HeartLoad, HeartEnds
<1>5. CASE Tick
  BY <1>5 DEF Tick
<1> QED
  BY <1>1, <1>2, <1>3, <1>4, <1>5 DEF ConnNext

LEMMA ChecksStep == ConnTypes /\ EndsByContext /\ ChecksInTime /\ [ConnNext]_cvars => ChecksInTime'
<1> SUFFICES ASSUME ConnTypes, EndsByContext, ChecksInTime, [ConnNext]_cvars PROVE ChecksInTime'
  OBVIOUS
<1> USE DEF pageVars, readVars, writeVars, heartVars, pastVars, endVars
<1>0. /\ silence \in Nat /\ checkIn \in 0 .. CheckEvery /\ seen \in Nat
      /\ CheckEvery \in Nat /\ PauseGrace \in Nat /\ Interval \in Nat /\ Timeout \in Nat
  BY TimesAreNat DEF ConnTypes
<1>1. CASE UNCHANGED <<silence, paused, reader, heart, seen, checkIn>> /\ (cancelled => cancelled')
  BY <1>1 DEF ChecksInTime, Limit
<1>2. CASE ReadTakes
  <2>1. silence' = 0 /\ UNCHANGED <<heart, checkIn, seen>>
    BY <1>2, TakeClears
  <2> QED
    BY <1>0, <2>1 DEF ChecksInTime, Limit, ActiveSilence
<1>3. CASE ReadHandles
  <2>1. silence = 0 /\ silence' = 0 /\ UNCHANGED <<heart, checkIn, seen>> /\ reader' = "read"
    BY <1>3 DEF ReadHandles, ChecksInTime
  <2> QED
    BY <1>0, <2>1 DEF ChecksInTime, Limit, ActiveSilence
<1>4. CASE ReadEnds
  BY <1>4 DEF ReadEnds, Limit, ChecksInTime
<1>5. CASE HeartPing
  BY <1>5 DEF HeartPing, Limit, ChecksInTime
<1>6. CASE HeartLoad
  BY <1>6 DEF HeartLoad, ChecksInTime
<1>7. CASE HeartJudge
  <2>1. UNCHANGED <<silence, paused, reader, checkIn>> /\ heart = "judge" /\ heart' # "judge"
    BY <1>7, Zenon DEF HeartJudge, Judge
  <2>2. heart' = "wait" => ~(seen > Limit)
    BY <1>7, Zenon DEF HeartJudge, Judge
  <2> QED
    BY <1>0, <2>1, <2>2 DEF ChecksInTime, Limit, ActiveSilence
<1>8. CASE HeartEnds
  BY <1>8 DEF HeartEnds, ChecksInTime
<1>9. CASE Tick
  <2>1. /\ reader = "read" /\ ~cancelled /\ heart = "wait" /\ checkIn > 0
    BY <1>9, TickWaits
  <2>2. /\ silence' \in {silence, silence + 1} /\ checkIn' = checkIn - 1
        /\ UNCHANGED <<reader, paused, heart, cancelled>>
    BY <1>9, TickCounts
  <2>3. silence + checkIn <= Limit + CheckEvery
    BY <2>1 DEF ChecksInTime
  <2>4. silence' + checkIn' <= Limit' + CheckEvery
    <3>1. Limit' = Limit /\ Limit \in Nat
      BY <2>2, LimitsAreNat DEF Limit
    <3>2. /\ silence + (checkIn - 1) <= Limit + CheckEvery
          /\ (silence + 1) + (checkIn - 1) <= Limit + CheckEvery
      BY <1>0, <2>1, <2>3, <3>1
    <3> QED
      BY <2>2, <3>1, <3>2, Zenon
  <2> QED
    BY <2>1, <2>2, <2>4 DEF ChecksInTime
<1>10. UNCHANGED cvars \/ PageSends \/ NetFails \/ SocketCloses \/ TrySend \/ SendCriticalFails \/ CleanUp \/ Writes
       => UNCHANGED <<silence, paused, reader, heart, seen, checkIn>> /\ (cancelled => cancelled')
  BY DEF cvars, PageSends, NetFails, SocketCloses, TrySend, SendCriticalFails, CleanUp,
         Writes, WriteTakes, WriteDone, WriteFails, WriteOver, WriteEnds
<1> QED
  BY <1>1, <1>2, <1>3, <1>4, <1>5, <1>6, <1>7, <1>8, <1>9, <1>10 DEF ConnNext, Reads, Beats

\* A silence that has grown was below the limit, with the rest of a period to come.
LEMMA SilentStep == ConnInv /\ [ConnNext]_cvars => SilentIsCut'
<1> SUFFICES ASSUME ConnInv, [ConnNext]_cvars PROVE SilentIsCut'
  OBVIOUS
<1> USE DEF pageVars, readVars, writeVars, heartVars, pastVars, endVars
<1>0. /\ silence \in Nat /\ checkIn \in 0 .. CheckEvery
      /\ CheckEvery \in Nat /\ PauseGrace \in Nat /\ Interval \in Nat /\ Timeout \in Nat
  BY TimesAreNat DEF ConnTypes, ConnInv
<1>1. CASE silence' = silence /\ paused' = paused /\ (over => over')
  BY <1>1 DEF SilentIsCut, Limit, ConnInv
<1>2. CASE silence' = 0
  BY <1>0, <1>2 DEF SilentIsCut, Limit, ActiveSilence
<1>3. CASE Tick
  <2>1. /\ ~cancelled /\ heart = "wait" /\ checkIn > 0
    BY <1>3, TickWaits DEF ConnInv
  <2>2. silence' \in {silence, silence + 1} /\ paused' = paused
    BY <1>3, TickCounts DEF ConnInv
  <2> QED
    BY <1>0, <2>1, <2>2 DEF SilentIsCut, ChecksInTime, ConnInv, Limit, ActiveSilence
<1>4. ReadTakes => silence' = 0
  BY TakeClears DEF ConnInv
<1>5. ReadHandles => silence' = 0
  BY DEF ReadHandles, ChecksInTime, ConnInv
<1>6. UNCHANGED cvars \/ PageSends \/ NetFails \/ SocketCloses \/ TrySend \/ SendCriticalFails
      \/ ReadEnds \/ CleanUp \/ Writes \/ Beats
      => silence' = silence /\ paused' = paused /\ (over => over')
  BY DEF cvars, PageSends, NetFails, SocketCloses, TrySend, SendCriticalFails, ReadEnds, CleanUp,
         Writes, WriteTakes, WriteDone, WriteFails, WriteOver, WriteEnds,
         Beats, HeartPing, HeartLoad, HeartJudge, Judge, HeartEnds
<1> QED
  BY <1>1, <1>2, <1>3, <1>4, <1>5, <1>6 DEF ConnNext, Reads

\* A pause stays the last of the page's changes until the next resume.
LEMMA PauseKept ==
  ASSUME wire \in Seq(Posted), NEW kind \in Kind \ {"resume"}, net # "lost", Post(kind)
  PROVE  /\ PauseUnderWay(wire) => PauseUnderWay(wire')
         /\ NoResume(wire) => NoResume(wire')
         /\ kind = "pause" => PauseUnderWay(wire')
<1>1. /\ Len(wire) \in Nat /\ Len(wire') = Len(wire) + 1 /\ wire' \in Seq(Posted)
      /\ \A i \in 1 .. Len(wire) : wire'[i] = wire[i]
      /\ wire'[Len(wire) + 1].kind = kind
  <2>1. kind \in Kind
    OBVIOUS
  <2>2. /\ wire' \in Seq(Posted) /\ Len(wire') = Len(wire) + 1
        /\ \A i \in DOMAIN wire : i \in DOMAIN wire' /\ wire'[i] = wire[i]
        /\ wire'[Len(wire) + 1] = [kind |-> kind, age |-> 0]
    BY <2>1, Posting, Zenon
  <2> QED
    BY <2>2, LenProperties
<1>2. DOMAIN wire = 1 .. Len(wire) /\ DOMAIN wire' = 1 .. Len(wire) + 1
  BY <1>1, LenProperties
<1>3. ASSUME PauseUnderWay(wire)
      PROVE  PauseUnderWay(wire')
  <2>1. PICK i \in 1 .. Len(wire) : wire[i].kind = "pause" /\ \A j \in 1 .. Len(wire) : j > i => wire[j].kind # "resume"
    BY <1>2, <1>3 DEF PauseUnderWay
  <2>2. i \in DOMAIN wire' /\ wire'[i].kind = "pause"
    BY <1>1, <1>2, <2>1
  <2>3. \A j \in DOMAIN wire' : j > i => wire'[j].kind # "resume"
    BY <1>1, <1>2, <2>1
  <2> QED
    BY <2>2, <2>3 DEF PauseUnderWay
<1>4. NoResume(wire) => NoResume(wire')
  BY <1>1, <1>2 DEF NoResume
<1>5. ASSUME kind = "pause"
      PROVE  PauseUnderWay(wire')
  <2>1. Len(wire) + 1 \in DOMAIN wire' /\ \A j \in DOMAIN wire' : ~(j > Len(wire) + 1)
    BY <1>1, <1>2
  <2> QED
    BY <1>1, <1>5, <2>1 DEF PauseUnderWay
<1> QED
  BY <1>3, <1>4, <1>5

LEMMA HiddenStep == ConnTypes /\ EndsByContext /\ HiddenIsTold /\ [ConnNext]_cvars => HiddenIsTold'
<1> SUFFICES ASSUME ConnTypes, EndsByContext, HiddenIsTold, [ConnNext]_cvars PROVE HiddenIsTold'
  OBVIOUS
<1> USE DEF pageVars, readVars, writeVars, heartVars, pastVars, endVars
<1>0. wire \in Seq(Posted)
  BY DEF ConnTypes
<1>1. CASE UNCHANGED <<page, net, wire, reader, paused>>
  BY <1>1 DEF HiddenIsTold
<1>2. CASE net' # "up"
  BY <1>2 DEF HiddenIsTold
<1>3. CASE reader' = "done"
  BY <1>3 DEF HiddenIsTold
<1>4. CASE PageSends /\ net' = "up"
  <2>1. net # "lost" /\ UNCHANGED <<net, reader, paused>>
    BY <1>4 DEF PageSends
  <2>2. page' = "hidden" => Post("pause")
    BY <1>4 DEF PageSends
  <2> QED
    BY <1>0, <2>1, <2>2, PauseKept DEF HiddenIsTold, Kind
<1>5. CASE ReadTakes /\ net' = "up"
  <2>1. /\ reader' = wire[1].kind /\ reader = "read" /\ wire # <<>> /\ wire' = Tail(wire)
        /\ UNCHANGED <<page, net, paused>>
    BY <1>5, TakeClears
  <2>2. /\ wire' \in Seq(Posted) /\ Len(wire) \in Nat /\ Len(wire) > 0 /\ Len(wire') = Len(wire) - 1
        /\ DOMAIN wire = 1 .. Len(wire) /\ DOMAIN wire' = 1 .. Len(wire')
        /\ \A i \in 1 .. Len(wire') : wire'[i] = wire[i + 1]
    BY <1>0, <2>1, Taking, LenProperties, EmptySeq
  <2>3. NoResume(wire) => NoResume(wire') /\ reader' # "resume"
    BY <2>1, <2>2 DEF NoResume
  <2>4. PauseUnderWay(wire) => PauseUnderWay(wire') \/ (NoResume(wire') /\ reader' = "pause")
    <3>1. SUFFICES ASSUME PauseUnderWay(wire)
                   PROVE  PauseUnderWay(wire') \/ (NoResume(wire') /\ reader' = "pause")
      OBVIOUS
    <3>2. PICK i \in 1 .. Len(wire) : wire[i].kind = "pause" /\ \A j \in 1 .. Len(wire) : j > i => wire[j].kind # "resume"
      BY <2>2, <3>1 DEF PauseUnderWay
    <3>3. CASE i = 1
      BY <2>1, <2>2, <3>2, <3>3 DEF NoResume
    <3>4. CASE i > 1
      <4>1. i - 1 \in 1 .. Len(wire') /\ wire'[i - 1] = wire[i]
        BY <2>2, <3>4
      <4>2. \A j \in 1 .. Len(wire') : j > i - 1 => wire'[j].kind # "resume"
        BY <2>2, <3>2
      <4> QED
        BY <2>2, <3>2, <4>1, <4>2 DEF PauseUnderWay
    <3> QED
      BY <3>3, <3>4
  <2> QED
    BY <2>1, <2>3, <2>4 DEF HiddenIsTold
<1>6. CASE ReadHandles
  <2>1. paused' <=> (reader = "pause" \/ (paused /\ reader # "resume"))
    BY <1>6, Zenon DEF ReadHandles
  <2>2. reader # "done" /\ reader' = "read" /\ UNCHANGED <<page, net, wire>>
    BY <1>6 DEF ReadHandles
  <2> QED
    BY <2>1, <2>2, Zenon DEF HiddenIsTold
<1>7. CASE WriteDone
  <2>1. UNCHANGED <<page, net, reader, paused>>
    BY <1>7 DEF WriteDone
  <2>2. UNCHANGED wire \/ Post("pong")
    BY <1>7 DEF WriteDone
  <2>3. CASE Post("pong") /\ net' = "up"
    BY <1>0, <2>1, <2>3, PauseKept DEF HiddenIsTold, Kind
  <2> QED
    BY <1>1, <1>2, <2>1, <2>2, <2>3
<1>8. CASE Tick
  <2>1. UNCHANGED <<page, net, reader, paused>>
    BY <1>8, TickCounts
  <2>2. DOMAIN wire' = DOMAIN wire /\ \A i \in DOMAIN wire : wire'[i].kind = wire[i].kind
    BY <1>0, <1>8, Ageing DEF Tick
  <2>3. (PauseUnderWay(wire) => PauseUnderWay(wire')) /\ (NoResume(wire) => NoResume(wire'))
    BY <2>2 DEF PauseUnderWay, NoResume
  <2> QED
    BY <2>1, <2>3 DEF HiddenIsTold
<1>9. UNCHANGED cvars \/ SocketCloses \/ TrySend \/ SendCriticalFails \/ WriteTakes \/ WriteFails \/ WriteEnds \/ Beats
      => UNCHANGED <<page, net, wire, reader, paused>>
  BY DEF cvars, SocketCloses, TrySend, SendCriticalFails, WriteTakes, WriteFails, WriteOver, WriteEnds,
         Beats, HeartPing, HeartLoad, HeartJudge, Judge, HeartEnds
<1>10. (NetFails => net' # "up") /\ (ReadEnds \/ CleanUp => reader' = "done")
  BY DEF NetFails, ReadEnds, CleanUp
<1>11. net' = "up" \/ net' # "up"
  OBVIOUS
<1> QED
  BY <1>1, <1>2, <1>3, <1>4, <1>5, <1>6, <1>7, <1>8, <1>9, <1>10, <1>11 DEF ConnNext, Reads, Writes

\* While the page answers, the silence ends in time: by cases of what comes next.
LEMMA SignsStep == ConnInv /\ [ConnNext]_cvars => SignsOfLife'
<1> SUFFICES ASSUME ConnInv, [ConnNext]_cvars, net' = "up", ~paused', ~missed'
             PROVE  /\ silence' <= Interval + Delay
                    /\ ~cancelled' /\ socket' = "open" => PingDue' \/ PingOut' \/ AnswerDue'
  BY DEF SignsOfLife
<1> USE DEF pageVars, readVars, writeVars, heartVars, pastVars, endVars
<1>0. /\ ConnTypes /\ EndsByContext /\ ChecksInTime /\ HiddenIsTold /\ SignsOfLife
      /\ silence \in Nat /\ pingIn \in 0 .. Interval /\ Interval \in Nat /\ Delay \in Nat
      /\ wire \in Seq(Posted) /\ sendQ \in Seq({"envelope", "ping"})
  BY TimesAreNat DEF ConnInv, ConnTypes
\* Nothing happens to what the page is about to say.
<1>1. CASE /\ UNCHANGED <<silence, missed, pingIn, wire, paused, net>>
           /\ PingOut => PingOut' \/ cancelled'
           /\ cancelled => cancelled'
           /\ socket' = "open" => socket = "open"
  BY <1>0, <1>1 DEF SignsOfLife, PingDue, AnswerDue
\* Something was read at this instant.
<1>2. CASE silence' = 0 /\ UNCHANGED pingIn
  <2>1. 0 <= Interval + Delay /\ 0 + pingIn <= Interval
    BY <1>0
  <2> QED
    BY <1>2, <2>1, Zenon DEF PingDue
<1>3. UNCHANGED cvars \/ SocketCloses \/ SendCriticalFails \/ WriteFails \/ WriteEnds
      => /\ UNCHANGED <<silence, missed, pingIn, wire, paused, net>>
         /\ PingOut => PingOut' \/ cancelled'
         /\ cancelled => cancelled'
         /\ socket' = "open" => socket = "open"
  BY DEF cvars, SocketCloses, SendCriticalFails, WriteFails, WriteOver, WriteEnds, PingOut
<1>4. ReadEnds \/ CleanUp \/ HeartLoad \/ HeartEnds
      => /\ UNCHANGED <<silence, missed, pingIn, wire, paused, net, sendQ, writer>>
         /\ cancelled => cancelled'
         /\ socket' = "open" => socket = "open"
  BY DEF ReadEnds, CleanUp, HeartLoad, HeartEnds
<1>5. HeartJudge
      => /\ UNCHANGED <<silence, missed, pingIn, wire, paused, net, sendQ, writer, socket>>
         /\ cancelled => cancelled'
  BY Zenon DEF HeartJudge, Judge
<1>6. UNCHANGED <<silence, sendQ, writer>> => (PingOut => PingOut')
  BY DEF PingOut
<1>7. TrySend
      => /\ UNCHANGED <<silence, missed, pingIn, wire, paused, net, cancelled, socket>>
         /\ PingOut => PingOut'
  <2>1. SUFFICES ASSUME TrySend
                 PROVE  /\ UNCHANGED <<silence, missed, pingIn, wire, paused, net, cancelled, socket>>
                        /\ PingOut => PingOut'
    OBVIOUS
  <2>2. \A i \in DOMAIN sendQ : i \in DOMAIN sendQ' /\ sendQ'[i] = sendQ[i]
    BY <1>0, <2>1, AppendProperties, LenProperties DEF TrySend
  <2> QED
    BY <2>1, <2>2 DEF TrySend, PingOut
<1>8. WriteTakes
      => /\ UNCHANGED <<silence, missed, pingIn, wire, paused, net, cancelled, socket>>
         /\ PingOut => PingOut'
  <2>1. SUFFICES ASSUME WriteTakes
                 PROVE  /\ UNCHANGED <<silence, missed, pingIn, wire, paused, net, cancelled, socket>>
                        /\ PingOut => PingOut'
    OBVIOUS
  <2>2. /\ writer = "idle" /\ writer' = sendQ[1] /\ sendQ' \in Seq({"envelope", "ping"})
        /\ Len(sendQ') = Len(sendQ) - 1 /\ Len(sendQ) \in Nat
        /\ \A i \in DOMAIN sendQ' : sendQ'[i] = sendQ[i + 1]
    BY <1>0, <2>1, Taking, LenProperties DEF WriteTakes
  <2>3. DOMAIN sendQ = 1 .. Len(sendQ) /\ DOMAIN sendQ' = 1 .. (Len(sendQ) - 1)
    BY <1>0, <2>2, LenProperties, Zenon
  <2>4. ASSUME NEW i \in DOMAIN sendQ, sendQ[i] = "ping"
        PROVE  writer' = "ping" \/ \E j \in DOMAIN sendQ' : sendQ'[j] = "ping"
    <3>1. CASE i = 1
      BY <2>2, <2>4, <3>1
    <3>2. CASE i # 1
      <4>1. i - 1 \in DOMAIN sendQ' /\ (i - 1) + 1 = i
        BY <2>2, <2>3, <3>2
      <4> QED
        BY <2>2, <2>4, <4>1
    <3> QED
      BY <3>1, <3>2
  <2> QED
    BY <2>1, <2>2, <2>4 DEF WriteTakes, PingOut
<1>9. CASE PageSends
  <2>1. /\ UNCHANGED <<silence, missed, pingIn, paused, net, cancelled, socket, sendQ, writer>>
        /\ \E kind \in Kind : Post(kind)
    BY <1>9 DEF PageSends, Kind
  <2>2. wire # <<>> => wire' # <<>> /\ wire'[1] = wire[1]
    BY <1>0, <2>1, FirstStays
  <2> QED
    BY <1>0, <1>6, <2>1, <2>2 DEF SignsOfLife, PingDue, AnswerDue
<1>10. ReadTakes => silence' = 0 /\ UNCHANGED pingIn
  BY <1>0, TakeClears
<1>11. ReadHandles => silence' = 0 /\ UNCHANGED pingIn
  BY <1>0 DEF ReadHandles, ChecksInTime
\* The page answers a ping, or has just told that it is hidden.
<1>12. CASE WriteDone
  <2>1. UNCHANGED <<silence, missed, pingIn, paused, net, cancelled, socket, sendQ>> /\ writer # "done" /\ writer # "idle"
    BY <1>12 DEF WriteDone, Writing
  <2>2. silence <= Interval + Delay
    BY <1>0, <2>1 DEF SignsOfLife
  <2>3. UNCHANGED wire \/ Post("pong")
    BY <1>12 DEF WriteDone
  <2>4. wire # <<>> => wire' # <<>> /\ wire'[1] = wire[1]
    BY <1>0, <2>1, <2>3, FirstStays DEF Kind
  <2>5. CASE wire' # <<>> /\ silence <= Interval
    <3>1. wire'[1].age \in Nat
      <4>1. wire' \in Seq(Posted)
        BY <1>0, ConnTypesStep DEF ConnTypes
      <4>2. wire'[1] \in Posted
        BY <2>5, <4>1, Taking
      <4> QED
        BY <4>2 DEF Posted
    <3>2. \A n \in Nat : silence <= Interval + n
      BY <1>0, <2>5
    <3>3. silence <= Interval + wire'[1].age
      BY <3>1, <3>2, Zenon
    <3> QED
      BY <2>1, <2>2, <2>5, <3>3 DEF AnswerDue
  <2>6. CASE ~cancelled /\ socket = "open" /\ PingOut
    <3>1. CASE writer = "ping" /\ UNCHANGED wire /\ wire = <<>>
      <4>1. page = "hidden"
        <5>1. ~Post("pong")
          BY <1>0, <2>1, <3>1, Posting, LenProperties DEF Kind
        <5> QED
          BY <1>12, <3>1, <5>1 DEF WriteDone
      <4>2. ~PauseUnderWay(wire)
        BY <3>1 DEF PauseUnderWay
      <4>3. reader # "done"
        BY <1>0, <2>6 DEF EndsByContext
      <4>4. reader = "pause"
        BY <1>0, <2>1, <4>1, <4>2, <4>3 DEF HiddenIsTold
      <4>5. silence = 0
        BY <1>0, <4>4 DEF ChecksInTime
      <4> QED
        BY <1>2, <2>1, <4>5
    <3>2. CASE writer = "ping" /\ ~(UNCHANGED wire /\ wire = <<>>)
      <4>1. wire' # <<>>
        BY <1>0, <2>1, <2>3, <2>4, <3>2, Posting, EmptySeq, LenProperties DEF Kind
      <4> QED
        BY <2>5, <2>6, <4>1 DEF PingOut
    <3>3. CASE writer # "ping"
      BY <2>1, <2>2, <2>6, <3>3 DEF PingOut
    <3> QED
      BY <3>1, <3>2, <3>3
  <2>7. ~cancelled /\ socket = "open" => PingDue \/ PingOut \/ AnswerDue
    BY <1>0, <2>1 DEF SignsOfLife
  <2>8. PingDue => PingDue'
    BY <2>1 DEF PingDue
  <2>9. AnswerDue => AnswerDue'
    BY <2>1, <2>4 DEF AnswerDue
  <2> QED
    BY <2>1, <2>2, <2>6, <2>7, <2>8, <2>9
<1>13. CASE HeartPing
  <2>1. /\ UNCHANGED <<silence, wire, paused, net, cancelled, socket, writer>> /\ pingIn = 0
        /\ sendQ' = Append(sendQ, "ping") /\ ~missed
    <3>1. /\ UNCHANGED <<silence, wire, paused, net, cancelled, socket, writer>> /\ pingIn = 0
          /\ missed' = TRUE \/ paused \/ (sendQ' = Append(sendQ, "ping") /\ UNCHANGED missed)
      BY <1>13 DEF HeartPing
    <3> QED
      BY <3>1
  <2>2. silence <= Interval + Delay
    BY <1>0, <2>1 DEF SignsOfLife
  <2>3. ASSUME ~cancelled, socket = "open"
        PROVE  PingOut' \/ AnswerDue'
    <3>1. \E i \in DOMAIN sendQ' : sendQ'[i] = "ping"
      <4>1. Len(sendQ) + 1 \in DOMAIN sendQ' /\ sendQ'[Len(sendQ) + 1] = "ping"
        BY <1>0, <2>1, AppendProperties, LenProperties
      <4> QED
        BY <4>1
    <3>2. CASE silence <= Interval
      BY <2>1, <3>1, <3>2 DEF PingOut
    <3>3. CASE AnswerDue
      BY <2>1, <3>3 DEF AnswerDue
    <3>4. PingDue \/ PingOut => silence <= Interval
      BY <1>0, <2>1 DEF PingDue, PingOut
    <3> QED
      BY <1>0, <2>1, <2>3, <3>2, <3>3, <3>4 DEF SignsOfLife
  <2> QED
    BY <2>1, <2>2, <2>3
<1>14. CASE Tick
  <2>1. /\ silence' \in {silence, silence + 1} /\ pingIn' = pingIn - 1
        /\ UNCHANGED <<net, missed, paused, cancelled, socket>>
    BY <1>0, <1>14, TickCounts
  <2>2. /\ ~cancelled /\ socket = "open" /\ pingIn > 0
        /\ wire # <<>> => Head(wire).age < Delay
        /\ writer = "idle" /\ sendQ = <<>>
    BY <1>0, <1>14, <2>1, TickWaits
  <2>3. CASE PingDue
    <3>1. /\ silence + (pingIn - 1) <= Interval /\ (silence + 1) + (pingIn - 1) <= Interval
          /\ silence <= Interval + Delay /\ silence + 1 <= Interval + Delay
      BY <1>0, <2>2, <2>3 DEF PingDue
    <3> QED
      BY <2>1, <3>1, Zenon DEF PingDue
  <2>4. CASE AnswerDue
    <3>1. 1 \in DOMAIN wire /\ Head(wire) = wire[1] /\ wire[1].age \in Nat /\ wire[1].age < Delay
      <4>1. 1 \in DOMAIN wire /\ Head(wire) = wire[1] /\ wire[1] \in Posted
        BY <1>0, <2>4, Taking DEF AnswerDue
      <4> QED
        BY <2>2, <2>4, <4>1 DEF AnswerDue, Posted
    <3>2. wire' # <<>> /\ wire'[1].age = wire[1].age + 1
      <4>1. DOMAIN wire' = DOMAIN wire /\ wire'[1].age = wire[1].age + 1
        BY <1>0, <1>14, <3>1, Ageing DEF Tick
      <4> QED
        BY <3>1, <4>1
    <3>3. /\ silence <= Interval + (wire[1].age + 1) /\ silence + 1 <= Interval + (wire[1].age + 1)
          /\ silence <= Interval + Delay /\ silence + 1 <= Interval + Delay
      BY <1>0, <2>4, <3>1 DEF AnswerDue
    <3> QED
      BY <2>1, <3>2, <3>3, Zenon DEF AnswerDue
  <2>5. ~PingOut
    BY <2>2 DEF PingOut
  <2> QED
    BY <1>0, <2>1, <2>2, <2>3, <2>4, <2>5 DEF SignsOfLife
<1>15. NetFails => net' # "up"
  BY DEF NetFails
<1> QED
  BY <1>1, <1>2, <1>3, <1>4, <1>5, <1>6, <1>7, <1>8, <1>9, <1>10, <1>11, <1>12, <1>13, <1>14, <1>15
  DEF ConnNext, Reads, Writes, Beats

\* What a check has loaded is the silence at that moment.
LEMMA SeenStep == ConnInv /\ [ConnNext]_cvars => SeenInTime'
<1> SUFFICES ASSUME ConnInv, [ConnNext]_cvars PROVE SeenInTime'
  OBVIOUS
<1> USE DEF pageVars, readVars, writeVars, heartVars, pastVars, endVars
<1>1. CASE UNCHANGED <<heart, net, seen, wasPaused, wasMissed>>
  BY <1>1 DEF ConnInv, SeenInTime
<1>2. CASE net' # "up" \/ heart' # "judge"
  BY <1>2 DEF SeenInTime
<1>3. CASE HeartLoad
  <2>1. seen' = silence /\ wasPaused' = paused /\ wasMissed' = missed /\ net' = net
    BY <1>3 DEF HeartLoad
  <2> QED
    BY <2>1 DEF ConnInv, SeenInTime, SignsOfLife
<1>4. UNCHANGED cvars \/ PageSends \/ SocketCloses \/ TrySend \/ SendCriticalFails \/ Reads \/ Writes \/ HeartPing
      => UNCHANGED <<heart, net, seen, wasPaused, wasMissed>>
  BY DEF cvars, PageSends, SocketCloses, TrySend, SendCriticalFails, Reads, ReadTakes, Takes, ReadHandles,
         ReadEnds, CleanUp, Writes, WriteTakes, WriteDone, WriteFails, WriteOver, WriteEnds, HeartPing
<1>5. NetFails => net' # "up"
  BY DEF NetFails
<1>6. HeartJudge \/ HeartEnds => heart' # "judge"
  BY Zenon DEF HeartJudge, Judge, HeartEnds
<1>7. Tick => UNCHANGED <<heart, net, seen, wasPaused, wasMissed>>
  BY TickCounts DEF ConnInv
<1> QED
  BY <1>1, <1>2, <1>3, <1>4, <1>5, <1>6, <1>7 DEF ConnNext, Beats

LEMMA ConnStep == ConnInv /\ [ConnNext]_cvars => ConnInv'
<1> SUFFICES ASSUME ConnInv, [ConnNext]_cvars PROVE ConnInv'
  OBVIOUS
<1>1. ConnTypes' /\ EndsByContext' /\ ChecksInTime'
  BY ConnTypesStep, EndsStep, ChecksStep DEF ConnInv
<1>2. SilentIsCut' /\ SignsOfLife' /\ SeenInTime'
  BY SilentStep, SignsStep, SeenStep
<1>3. HiddenIsTold'
  BY HiddenStep DEF ConnInv
<1> QED
  BY <1>1, <1>2, <1>3 DEF ConnInv

\* In every behaviour the invariant holds in every state.
LEMMA ConnAlwaysInv == ConnSpec => []ConnInv
  BY CInitially, ConnStep, PTL DEF ConnSpec
----------------------------------------------------------------------------
\* However the page was lost, its session ends one period of the check after the
\* limit of the moment, for any limits and periods.
THEOREM SilenceIsBounded == ConnSpec => []SilentIsCut
<1>1. ConnInv => SilentIsCut
  BY DEF ConnInv
<1> QED
  BY <1>1, ConnAlwaysInv, PTL

\* Once nothing is left to do at an instant, either the three goroutines, the
\* socket and the session are all there, or all are gone.
THEOREM LiveOrDieTogether == ConnSpec => []PumpsEndTogether
<1>1. ASSUME ConnInv, Still
      PROVE  \/ reader = "read" /\ writer # "done" /\ heart = "wait" /\ socket = "open" /\ ~over
             \/ reader = "done" /\ writer = "done" /\ heart = "done" /\ over
  <2>1. ConnTypes /\ EndsByContext
    BY <1>1 DEF ConnInv
  <2>2. CASE reader = "done"
    <3>1. cancelled /\ over
      BY <1>1, <2>1, <2>2 DEF Still, EndsByContext
    <3>2. writer = "done" /\ heart = "done"
      BY <1>1, <2>1, <3>1 DEF Still, Writing, ConnTypes
    <3> QED
      BY <2>2, <3>1, <3>2
  <2>3. CASE reader # "done"
    <3>1. reader = "read" /\ ~cancelled /\ socket = "open"
      BY <1>1, <2>3 DEF Still
    <3>2. writer # "done" /\ heart # "done" /\ ~over
      BY <2>1, <2>3, <3>1 DEF EndsByContext
    <3>3. heart = "wait"
      BY <1>1, <2>1, <3>2 DEF Still, ConnTypes
    <3> QED
      BY <3>1, <3>2, <3>3
  <2> QED
    BY <2>2, <2>3
<1>2. ConnInv => PumpsEndTogether
  BY <1>1 DEF PumpsEndTogether
<1> QED
  BY <1>2, ConnAlwaysInv, PTL

\* A page in reach that answers is not cut off, for any times such that the grace
\* of a paused page covers an interval and an answer, as by default it does: the
\* pause may come between the two loads of a check.  The two exceptions are in the
\* property.
THEOREM AnsweringIsKept ==
  ASSUME Interval + Delay <= PauseGrace
  PROVE  ConnSpec => OnlySilentAreCut
<1>1. ASSUME ConnInv, [ConnNext]_cvars, heart = "judge", heart' = "done", net = "up", ~wasMissed
      PROVE  wasPaused /\ (paused => seen > PauseGrace)
  <2>1. HeartJudge
    BY <1>1 DEF ConnNext, cvars, pageVars, readVars, writeVars, heartVars, pastVars, endVars,
         PageSends, NetFails, SocketCloses, TrySend, SendCriticalFails,
         Reads, ReadTakes, Takes, ReadHandles, ReadEnds, CleanUp,
         Writes, WriteTakes, WriteDone, WriteFails, WriteOver, WriteEnds,
         Beats, HeartPing, HeartLoad, HeartEnds, Tick
  <2>2. seen > Limit
    BY <1>1, <2>1, Zenon DEF HeartJudge, Judge
  <2>3. ASSUME ~wasPaused
        PROVE  FALSE
    <3>1. seen <= Interval + Delay /\ seen \in Nat
      BY <1>1, <2>3 DEF ConnInv, SeenInTime, ConnTypes
    <3>2. Interval + Delay <= Limit
      BY TimesAreNat DEF Limit, ActiveSilence
    <3> QED
      BY <2>2, <3>1, <3>2, TimesAreNat, LimitsAreNat
  <2>4. paused => seen > PauseGrace
    BY <2>2 DEF Limit
  <2> QED
    BY <2>3, <2>4
<1>2. ConnInv /\ [ConnNext]_cvars
      => [heart = "judge" /\ heart' = "done" =>
            \/ net # "up"
            \/ wasMissed
            \/ wasPaused /\ (paused => seen > PauseGrace)]_cvars
  BY <1>1, Zenon
<1> QED
  BY <1>2, ConnAlwaysInv, PTL DEF ConnSpec, OnlySilentAreCut
=============================================================================
