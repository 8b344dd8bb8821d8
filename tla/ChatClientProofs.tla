-------------------------- MODULE ChatClientProofs --------------------------
(****************************************************************************)
(* The safety properties of ChatClient for any number of connections, any   *)
(* number of messages under way, and any size of the Send buffer.           *)
(*                                                                          *)
(* The properties speak of what page and server make of each other once     *)
(* nothing is under way.  ChatInv says why they come to that: it follows a  *)
(* chat, a search, a notice and a presence from the server through down to  *)
(* the page, or from the page through up to the server, and says that each  *)
(* is at one of these places.                                               *)
(****************************************************************************)
EXTENDS ChatClient, SequenceTheorems, TLAPS

\* One of T is under way in q; one of T is, and none of L behind it; one of L is,
\* behind one of T.
Has(q, T) == \E i \in DOMAIN q : q[i] \in T
Ends(q, T, L) == \E i \in DOMAIN q : q[i] \in T /\ \A j \in DOMAIN q : j > i => q[j] \notin L
Follows(q, T, L) == \E i, j \in DOMAIN q : i < j /\ q[i] \in T /\ q[j] \in L

\* A server session lives on an open socket, and a page without one shows no chat.
Connected ==
  /\ socket # "open" =>
       srv = "none" /\ view \notin {"chatting", "peer-left"} /\ conn < MaxConn /\ down = <<>>
  /\ srv = "none" => up = <<>> /\ ~telling /\ ~room /\ ~owed /\ ~paused
  /\ room => srv = "chatting"

\* A chat that the server has begun is at one place: to be told, told, shown, or
\* left by the page.
ChatAtOnePlace ==
  srv # "none" =>
    /\ telling \/ view = "chatting" \/ Has(down, {"matched"}) \/ Has(up, {"stop", "report"})
         => srv = "chatting"
    /\ telling => view # "chatting" /\ ~Has(down, {"matched"}) /\ ~Has(up, {"stop", "report"})
    /\ view = "chatting" => ~Has(down, {"matched"}) /\ ~Has(up, {"stop", "report"})
    /\ Has(down, {"matched"}) => ~Has(up, {"stop", "report"})
    /\ ~Follows(down, {"matched"}, {"matched"})
    /\ ~Follows(up, {"stop", "report"}, {"stop", "report"})

\* What the page hears before `matched' belongs before the chat.
MatchedIsLast ==
  srv # "none" =>
    /\ ~Follows(down, {"matched"}, {"welcome", "searching"})
    /\ view = "chatting" => ~Has(down, {"welcome", "searching"})

PartnerFollowed ==
  srv # "none" /\ room /\ "peer_left" \notin astray =>
    \/ telling
    \/ Ends(down, {"matched"}, {"peer_left"})
    \/ view = "chatting" /\ ~Has(down, {"peer_left"})
    \/ Has(up, {"stop", "report"})

SearchFollowed ==
  srv = "searching" /\ astray \cap {"searching", "peer_left"} = {} =>
    \/ Has(up, {"cancel"})
    \/ Ends(down, {"searching"}, {"welcome", "matched", "peer_left"})
    \/ view = "searching" /\ ~Has(down, {"welcome", "matched", "peer_left"})

NoticeFollowed ==
  srv # "none" /\ ~room /\ "peer_left" \notin astray /\ ~owed =>
    /\ ~telling
    /\ Has(down, {"matched"}) => Follows(down, {"matched"}, {"peer_left"})
    /\ view = "chatting" => Has(down, {"peer_left"})

AwayFollowed ==
  srv # "none" /\ room /\ ~peerAway /\ "peer_resumed" \notin astray =>
    \/ telling
    \/ Ends(down, {"matched", "peer_left", "peer_resumed"}, {"peer_paused"})
    \/ ~away /\ ~Has(down, {"peer_paused"})

PresenceFollowed ==
  srv # "none" =>
    \/ hidden /\ Ends(up, {"pause"}, {"pause", "resume"})
    \/ ~hidden /\ Ends(up, {"resume"}, {"pause", "resume"})
    \/ paused = hidden /\ ~Has(up, {"pause", "resume"})

Followed ==
  /\ ChatAtOnePlace /\ MatchedIsLast /\ PartnerFollowed
  /\ SearchFollowed /\ NoticeFollowed /\ AwayFollowed /\ PresenceFollowed

ChatInv == CTypeOK /\ Connected /\ Followed
----------------------------------------------------------------------------
(* What becomes of one message that is under way when another joins, or     *)
(* when the first is taken.                                                 *)

LEMMA Joins ==
  ASSUME NEW S, NEW q \in Seq(S), NEW x \in S
  PROVE  /\ Append(q, x) \in Seq(S) /\ Len(Append(q, x)) = Len(q) + 1
         /\ \A T : Has(Append(q, x), T) <=> Has(q, T) \/ x \in T
         /\ \A T, L : Ends(Append(q, x), T, L) <=> x \in T \/ (Ends(q, T, L) /\ x \notin L)
         /\ \A T, L : Follows(Append(q, x), T, L) <=> Follows(q, T, L) \/ (Has(q, T) /\ x \in L)
<1> DEFINE r == Append(q, x)
<1>1. /\ r \in Seq(S) /\ Len(r) = Len(q) + 1 /\ Len(q) \in Nat
      /\ DOMAIN q = 1 .. Len(q) /\ DOMAIN r = 1 .. Len(q) + 1
      /\ r[Len(q) + 1] = x /\ \A i \in 1 .. Len(q) : r[i] = q[i]
  BY AppendProperties, LenProperties
<1> HIDE DEF r
<1>2. ASSUME NEW T PROVE Has(r, T) <=> Has(q, T) \/ x \in T
  BY <1>1 DEF Has
<1>3. ASSUME NEW T, NEW L PROVE Ends(r, T, L) <=> x \in T \/ (Ends(q, T, L) /\ x \notin L)
  BY <1>1 DEF Ends
<1>4. ASSUME NEW T, NEW L PROVE Follows(r, T, L) <=> Follows(q, T, L) \/ (Has(q, T) /\ x \in L)
  BY <1>1 DEF Follows, Has
<1> QED
  BY <1>1, <1>2, <1>3, <1>4 DEF r

LEMMA Taken ==
  ASSUME NEW S, NEW q \in Seq(S), q # <<>>
  PROVE  /\ Tail(q) \in Seq(S) /\ Len(Tail(q)) = Len(q) - 1
         /\ \A T : Has(q, T) <=> Head(q) \in T \/ Has(Tail(q), T)
         /\ \A T, L : Ends(q, T, L) <=> Ends(Tail(q), T, L) \/ (Head(q) \in T /\ ~Has(Tail(q), L))
         /\ \A T, L : Follows(q, T, L) <=> Follows(Tail(q), T, L) \/ (Head(q) \in T /\ Has(Tail(q), L))
<1> DEFINE r == Tail(q)
<1>1. /\ r \in Seq(S) /\ Len(r) = Len(q) - 1 /\ Len(q) \in Nat /\ Len(q) > 0
      /\ DOMAIN q = 1 .. Len(q) /\ DOMAIN r = 1 .. Len(q) - 1
      /\ Head(q) = q[1] /\ \A i \in 1 .. Len(q) - 1 : r[i] = q[i + 1]
  BY HeadTailProperties, LenProperties, EmptySeq
<1> HIDE DEF r
<1>2. ASSUME NEW i \in DOMAIN r PROVE i + 1 \in DOMAIN q /\ q[i + 1] = r[i] /\ i \in Nat /\ i > 0
  BY <1>1
<1>3. ASSUME NEW j \in DOMAIN q PROVE j \in Nat /\ (j = 1 \/ \E i \in DOMAIN r : j = i + 1)
  <2>1. j # 1 => j - 1 \in DOMAIN r /\ j = (j - 1) + 1
    BY <1>1
  <2> QED
    BY <1>1, <2>1
<1>4. 1 \in DOMAIN q /\ q[1] = Head(q)
  BY <1>1
<1>5. ASSUME NEW T PROVE Has(q, T) <=> Head(q) \in T \/ Has(r, T)
  <2>1. ASSUME Has(q, T) PROVE Head(q) \in T \/ Has(r, T)
    <3>1. PICK j \in DOMAIN q : q[j] \in T
      BY <2>1 DEF Has
    <3> QED
      BY <1>2, <1>3, <1>4, <3>1 DEF Has
  <2>2. ASSUME Has(r, T) PROVE Has(q, T)
    BY <1>2, <2>2 DEF Has
  <2> QED
    BY <1>4, <2>1, <2>2 DEF Has
<1>6. ASSUME NEW L, NEW i \in DOMAIN r
      PROVE  (\A j \in DOMAIN q : j > i + 1 => q[j] \notin L) <=> (\A k \in DOMAIN r : k > i => r[k] \notin L)
  <2>1. ASSUME \A j \in DOMAIN q : j > i + 1 => q[j] \notin L, NEW k \in DOMAIN r, k > i
        PROVE  r[k] \notin L
    <3>1. k + 1 \in DOMAIN q /\ q[k + 1] = r[k] /\ k + 1 > i + 1
      BY <1>2, <2>1
    <3> QED
      BY <2>1, <3>1
  <2>2. ASSUME \A k \in DOMAIN r : k > i => r[k] \notin L, NEW j \in DOMAIN q, j > i + 1
        PROVE  q[j] \notin L
    <3>1. PICK k \in DOMAIN r : j = k + 1
      BY <1>2, <1>3, <2>2
    <3>2. k > i /\ q[j] = r[k]
      BY <1>2, <2>2, <3>1
    <3> QED
      BY <2>2, <3>2
  <2> QED
    BY <2>1, <2>2
<1>7. ASSUME NEW L PROVE (\A j \in DOMAIN q : j > 1 => q[j] \notin L) <=> ~Has(r, L)
  <2>1. ASSUME \A j \in DOMAIN q : j > 1 => q[j] \notin L, NEW k \in DOMAIN r
        PROVE  r[k] \notin L
    <3>1. k + 1 \in DOMAIN q /\ q[k + 1] = r[k] /\ k + 1 > 1
      BY <1>2
    <3> QED
      BY <2>1, <3>1
  <2>2. ASSUME ~Has(r, L), NEW j \in DOMAIN q, j > 1
        PROVE  q[j] \notin L
    <3>1. PICK k \in DOMAIN r : j = k + 1
      BY <1>3, <2>2
    <3> QED
      BY <1>2, <2>2, <3>1 DEF Has
  <2> QED
    BY <2>1, <2>2 DEF Has
<1>8. ASSUME NEW T, NEW L PROVE Ends(q, T, L) <=> Ends(r, T, L) \/ (Head(q) \in T /\ ~Has(r, L))
  <2>1. ASSUME Ends(q, T, L) PROVE Ends(r, T, L) \/ (Head(q) \in T /\ ~Has(r, L))
    <3>1. PICK j \in DOMAIN q : q[j] \in T /\ \A k \in DOMAIN q : k > j => q[k] \notin L
      BY <2>1 DEF Ends
    <3>2. CASE j = 1
      BY <1>4, <1>7, <3>1, <3>2
    <3>3. ASSUME NEW i \in DOMAIN r, j = i + 1 PROVE Ends(r, T, L)
      <4>1. r[i] \in T /\ \A k \in DOMAIN r : k > i => r[k] \notin L
        BY <1>2, <1>6, <3>1, <3>3
      <4> QED
        BY <4>1 DEF Ends
    <3> QED
      BY <1>3, <3>2, <3>3
  <2>2. ASSUME Ends(r, T, L) PROVE Ends(q, T, L)
    <3>1. PICK i \in DOMAIN r : r[i] \in T /\ \A k \in DOMAIN r : k > i => r[k] \notin L
      BY <2>2 DEF Ends
    <3>2. i + 1 \in DOMAIN q /\ q[i + 1] \in T /\ \A k \in DOMAIN q : k > i + 1 => q[k] \notin L
      BY <1>2, <1>6, <3>1
    <3> QED
      BY <3>2 DEF Ends
  <2>3. ASSUME Head(q) \in T, ~Has(r, L) PROVE Ends(q, T, L)
    BY <1>4, <1>7, <2>3 DEF Ends
  <2> QED
    BY <2>1, <2>2, <2>3
<1>9. ASSUME NEW T, NEW L PROVE Follows(q, T, L) <=> Follows(r, T, L) \/ (Head(q) \in T /\ Has(r, L))
  <2>1. ASSUME Follows(q, T, L) PROVE Follows(r, T, L) \/ (Head(q) \in T /\ Has(r, L))
    <3>1. PICK i, j \in DOMAIN q : i < j /\ q[i] \in T /\ q[j] \in L
      BY <2>1 DEF Follows
    <3>2. PICK l \in DOMAIN r : j = l + 1
      <4>1. i \in Nat /\ i > 0
        BY <1>1
      <4> QED
        BY <1>3, <3>1, <4>1
    <3>3. r[l] \in L
      BY <1>2, <3>1, <3>2
    <3>4. CASE i = 1
      BY <1>4, <3>1, <3>3, <3>4 DEF Has
    <3>5. ASSUME NEW k \in DOMAIN r, i = k + 1 PROVE Follows(r, T, L)
      <4>1. k < l /\ r[k] \in T
        BY <1>2, <3>1, <3>2, <3>5
      <4> QED
        BY <3>3, <4>1 DEF Follows
    <3> QED
      BY <1>3, <3>4, <3>5
  <2>2. ASSUME Follows(r, T, L) PROVE Follows(q, T, L)
    <3>1. PICK k, l \in DOMAIN r : k < l /\ r[k] \in T /\ r[l] \in L
      BY <2>2 DEF Follows
    <3>2. k + 1 < l + 1 /\ k + 1 \in DOMAIN q /\ l + 1 \in DOMAIN q /\ q[k + 1] \in T /\ q[l + 1] \in L
      BY <1>2, <3>1
    <3> QED
      BY <3>2 DEF Follows
  <2>3. ASSUME Head(q) \in T, Has(r, L) PROVE Follows(q, T, L)
    <3>1. PICK l \in DOMAIN r : r[l] \in L
      BY <2>3 DEF Has
    <3>2. 1 < l + 1 /\ l + 1 \in DOMAIN q /\ q[l + 1] \in L
      BY <1>2, <3>1
    <3> QED
      BY <1>4, <2>3, <3>2 DEF Follows
  <2> QED
    BY <2>1, <2>2, <2>3
<1> QED
  BY <1>1, <1>5, <1>8, <1>9 DEF r

LEMMA BothUnderWay == \A q, T, L : Follows(q, T, L) => Has(q, T) /\ Has(q, L)
  BY DEF Follows, Has

LEMMA NothingUnderWay ==
  /\ \A T : ~Has(<<>>, T)
  /\ \A T, L : ~Ends(<<>>, T, L) /\ ~Follows(<<>>, T, L)
  BY DEF Has, Ends, Follows

LEMMA OneUnderWay ==
  ASSUME NEW x
  PROVE  /\ \A T : Has(<<x>>, T) <=> x \in T
         /\ \A T, L : Ends(<<x>>, T, L) <=> x \in T
         /\ \A T, L : ~Follows(<<x>>, T, L)
  BY DEF Has, Ends, Follows

LEMMA BoundsOfChat == MaxConn \in Nat /\ MaxConn > 0 /\ MaxUp \in Nat /\ SendCap \in Nat /\ SendCap > 0
<1>1. \A n \in Nat \ {0} : n \in Nat /\ n > 0
  OBVIOUS
<1> QED
  BY <1>1, ChatClientAssumption

LEMMA ChatInitially == CInit => ChatInv
<1> SUFFICES ASSUME CInit PROVE ChatInv
  OBVIOUS
<1>1. CTypeOK
  <2>1. up \in Seq(ClientType) /\ Len(up) = 0 /\ down \in Seq(ServerType) /\ Len(down) = 0
    BY EmptySeq DEF CInit
  <2>2. 0 \in 0 .. MaxConn /\ 0 <= MaxUp + 1 /\ 0 <= SendCap
    BY BoundsOfChat
  <2>3. {} \subseteq Noted
    OBVIOUS
  <2> QED
    BY <2>1, <2>2, <2>3 DEF CInit, CTypeOK, View
<1>2. Connected /\ ChatAtOnePlace /\ MatchedIsLast /\ PartnerFollowed
  BY BoundsOfChat DEF CInit, Connected, ChatAtOnePlace, MatchedIsLast, PartnerFollowed
<1>3. SearchFollowed /\ NoticeFollowed /\ AwayFollowed /\ PresenceFollowed
  BY DEF CInit, SearchFollowed, NoticeFollowed, AwayFollowed, PresenceFollowed
<1> QED
  BY <1>1, <1>2, <1>3 DEF ChatInv, Followed

\* Where there is no server session there is nothing to follow.
LEMMA NobodyThere == srv' = "none" => Followed'
  BY DEF Followed, ChatAtOnePlace, MatchedIsLast, PartnerFollowed, SearchFollowed, NoticeFollowed,
         AwayFollowed, PresenceFollowed

\* A message of the page reaches up if there is a session to read it.
LEMMA Posting ==
  ASSUME CTypeOK, Connected, NEW x \in ClientType, Post(x)
  PROVE  /\ up' \in Seq(ClientType)
         /\ Len(up') <= Len(up) + 1 /\ Len(up) \in Nat
         /\ srv = "none" => up' = up
         /\ srv # "none" =>
              /\ \A T : Has(up', T) <=> Has(up, T) \/ x \in T
              /\ \A T, L : Ends(up', T, L) <=> x \in T \/ (Ends(up, T, L) /\ x \notin L)
              /\ \A T, L : Follows(up', T, L) <=> Follows(up, T, L) \/ (Has(up, T) /\ x \in L)
<1>1. up \in Seq(ClientType) /\ Len(up) \in Nat
  BY LenProperties DEF CTypeOK
<1>2. CASE srv = "none"
  BY <1>1, <1>2 DEF Post
<1>3. CASE srv # "none"
  <2>1. up' = Append(up, x)
    BY <1>3 DEF Post, Connected
  <2> QED
    BY <1>1, <1>3, <2>1, Joins
<1> QED
  BY <1>2, <1>3

LEMMA UserStepInv == ChatInv /\ UserStep => ChatInv'
<1> SUFFICES ASSUME ChatInv, UserStep PROVE ChatInv'
  OBVIOUS
<1> USE DEF page, server
<1>0. CTypeOK /\ Connected /\ Followed
  BY DEF ChatInv
<1>1. PICK x \in ClientType :
        /\ Acts /\ Post(x)
        /\ UNCHANGED <<sess, socket, conn, down, server, telling, owed, astray>>
        /\ \/ /\ x = "search" /\ view \in {"connecting", "idle", "peer-left"} /\ view' = "searching"
              /\ UNCHANGED <<away, hidden>>
           \/ /\ x = "cancel" /\ view = "searching" /\ view' = "idle" /\ UNCHANGED <<away, hidden>>
           \/ /\ x = "message" /\ UNCHANGED <<view, away, hidden>>
           \/ /\ x \in {"stop", "report"} /\ view = "chatting" /\ view' = "idle"
              /\ away' \in {away, FALSE} /\ UNCHANGED hidden
           \/ /\ x = (IF hidden THEN "resume" ELSE "pause") /\ hidden' = ~hidden /\ UNCHANGED <<view, away>>
  <2>1. CASE Search
    BY <2>1 DEF Search, UserSends, ClientType
  <2>2. CASE Cancel
    BY <2>2 DEF Cancel, UserSends, ClientType
  <2>3. CASE SendMessage
    BY <2>3 DEF SendMessage, UserSends, ClientType
  <2>4. CASE Stop \/ Report
    BY <2>4 DEF Stop, Report, UserSends, ClientType
  <2>5. CASE ChangeVisibility
    BY <2>5 DEF ChangeVisibility, ClientType
  <2> QED
    BY <2>1, <2>2, <2>3, <2>4, <2>5 DEF UserStep
<1>2. CTypeOK'
  <2>1. up' \in Seq(ClientType) /\ Len(up') <= MaxUp + 1
    <3>1. Len(up') \in Nat /\ up' \in Seq(ClientType) /\ Len(up') <= Len(up) + 1 /\ Len(up) \in Nat /\ Len(up) < MaxUp
      BY <1>0, <1>1, Posting, LenProperties DEF Acts
    <3> QED
      BY <3>1, BoundsOfChat
  <2>2. view' \in View /\ away' \in BOOLEAN /\ hidden' \in BOOLEAN
    BY <1>0, <1>1 DEF CTypeOK, View
  <2> QED
    BY <1>0, <1>1, <2>1, <2>2 DEF CTypeOK
<1>3. Connected'
  BY <1>0, <1>1, Posting DEF Connected
<1>4. CASE srv = "none"
  BY <1>1, <1>2, <1>3, <1>4, NobodyThere DEF ChatInv
<1>5. CASE srv # "none"
  <2>1. /\ \A T : Has(up', T) <=> Has(up, T) \/ x \in T
        /\ \A T, L : Ends(up', T, L) <=> x \in T \/ (Ends(up, T, L) /\ x \notin L)
        /\ \A T, L : Follows(up', T, L) <=> Follows(up, T, L) \/ (Has(up, T) /\ x \in L)
    BY <1>0, <1>1, <1>5, Posting
  <2>2. ChatAtOnePlace'
    <3> DEFINE End == {"stop", "report"}
    <3>1. /\ Has(up', End) <=> Has(up, End) \/ x \in End
          /\ Follows(up', End, End) <=> Follows(up, End, End) \/ (Has(up, End) /\ x \in End)
      BY <2>1
    <3>2. x \in End => view = "chatting" /\ view' # "chatting"
      BY <1>1
    <3>3. view' = "chatting" => view = "chatting" /\ x \notin End
      BY <1>1
    <3> HIDE DEF End
    <3>4. ChatAtOnePlace
      BY <1>0 DEF Followed
    <3> QED
      BY <1>1, <1>5, <3>1, <3>2, <3>3, <3>4 DEF ChatAtOnePlace, End
  <2>3. MatchedIsLast'
    BY <1>0, <1>1, <1>5, <2>1 DEF Followed, MatchedIsLast
  <2>4. PartnerFollowed'
    BY <1>0, <1>1, <1>5, <2>1 DEF Followed, PartnerFollowed
  <2>5. SearchFollowed'
    BY <1>0, <1>1, <1>5, <2>1 DEF Followed, SearchFollowed
  <2>6. NoticeFollowed'
    BY <1>0, <1>1, <1>5, <2>1 DEF Followed, NoticeFollowed
  <2>7. AwayFollowed'
    BY <1>0, <1>1, <1>5, <2>1 DEF Followed, AwayFollowed
  <2>8. PresenceFollowed'
    <3>1. CASE x \in {"pause", "resume"}
      BY <1>1, <1>5, <2>1, <3>1 DEF PresenceFollowed
    <3>2. CASE x \notin {"pause", "resume"}
      <4>1. hidden' = hidden /\ paused' = paused
        BY <1>1, <3>2
      <4> QED
        BY <1>0, <1>1, <1>5, <2>1, <3>2, <4>1 DEF Followed, PresenceFollowed
    <3> QED
      BY <3>1, <3>2
  <2> QED
    BY <1>2, <1>3, <2>2, <2>3, <2>4, <2>5, <2>6, <2>7, <2>8 DEF ChatInv, Followed
<1> QED
  BY <1>4, <1>5

\* What the server sends while there is room for it.
LEMMA Sending ==
  ASSUME CTypeOK, NEW x \in ServerType, Len(down) < SendCap, down' = Append(down, x)
  PROVE  /\ down' \in Seq(ServerType) /\ Len(down') <= SendCap
         /\ \A T : Has(down', T) <=> Has(down, T) \/ x \in T
         /\ \A T, L : Ends(down', T, L) <=> x \in T \/ (Ends(down, T, L) /\ x \notin L)
         /\ \A T, L : Follows(down', T, L) <=> Follows(down, T, L) \/ (Has(down, T) /\ x \in L)
<1>1. down \in Seq(ServerType) /\ Len(down) \in Nat
  BY LenProperties DEF CTypeOK
<1>2. Len(down) + 1 <= SendCap
  BY <1>1, BoundsOfChat
<1> QED
  BY <1>1, <1>2, Joins

\* What the server reads.
LEMMA Reading ==
  ASSUME CTypeOK, NEW x, Handles(x)
  PROVE  /\ srv # "none" /\ x \in ClientType
         /\ up' \in Seq(ClientType) /\ Len(up') <= MaxUp + 1
         /\ \A T : Has(up, T) <=> x \in T \/ Has(up', T)
         /\ \A T, L : Ends(up, T, L) <=> Ends(up', T, L) \/ (x \in T /\ ~Has(up', L))
         /\ \A T, L : Follows(up, T, L) <=> Follows(up', T, L) \/ (x \in T /\ Has(up', L))
         /\ UNCHANGED <<view, sess, away, hidden, socket, conn, telling>>
<1>1. /\ up \in Seq(ClientType) /\ up # <<>> /\ up' = Tail(up) /\ x = Head(up) /\ Len(up) \in Nat
      /\ Len(up) <= MaxUp + 1 /\ srv # "none"
  BY LenProperties DEF CTypeOK, Handles
<1>2. x \in ClientType
  BY <1>1, HeadTailProperties
<1>3. Len(up') <= MaxUp + 1
  <2>1. Len(up') = Len(up) - 1
    BY <1>1, Taken
  <2>2. Len(up) - 1 <= MaxUp + 1
    BY <1>1, BoundsOfChat
  <2> QED
    BY <2>1, <2>2
<1> QED
  BY <1>1, <1>2, <1>3, Taken DEF Handles, page

\* What the page reads.
LEMMA Receiving ==
  ASSUME CTypeOK, NEW x, Receives(x)
  PROVE  /\ down' \in Seq(ServerType) /\ Len(down') <= SendCap
         /\ \A T : Has(down, T) <=> x \in T \/ Has(down', T)
         /\ \A T, L : Ends(down, T, L) <=> Ends(down', T, L) \/ (x \in T /\ ~Has(down', L))
         /\ \A T, L : Follows(down, T, L) <=> Follows(down', T, L) \/ (x \in T /\ Has(down', L))
         /\ down # <<>>
         /\ UNCHANGED <<hidden, socket, conn, up, srv, room, paused, peerAway, telling, owed, astray>>
<1>1. /\ down \in Seq(ServerType) /\ down # <<>> /\ down' = Tail(down) /\ x = Head(down)
      /\ Len(down) \in Nat /\ Len(down) <= SendCap
  BY LenProperties DEF CTypeOK, Receives
<1>2. Len(down') <= SendCap
  <2>1. Len(down') = Len(down) - 1
    BY <1>1, Taken
  <2>2. Len(down) - 1 <= SendCap
    BY <1>1, BoundsOfChat
  <2> QED
    BY <2>1, <2>2
<1> QED
  BY <1>1, <1>2, Taken DEF Receives, server

LEMMA SocketStepInv == ChatInv /\ SocketStep => ChatInv'
<1> SUFFICES ASSUME ChatInv, SocketStep PROVE ChatInv'
  OBVIOUS
<1> USE DEF page, server
<1>0. CTypeOK /\ Connected /\ Followed
  BY DEF ChatInv
<1>1. CASE Connect
  <2>1. srv' = "none" /\ CTypeOK' /\ Connected'
    BY <1>0, <1>1 DEF Connect, CTypeOK, Connected
  <2> QED
    BY <2>1, NobodyThere DEF ChatInv
<1>2. CASE Closed
  <2>1. up' \in Seq(ClientType) /\ Len(up') = 0 /\ down' \in Seq(ServerType) /\ Len(down') = 0
    BY <1>2, EmptySeq DEF Closed
  <2>2. 0 <= MaxUp + 1 /\ 0 <= SendCap
    BY BoundsOfChat
  <2>3. CTypeOK'
    BY <1>0, <1>2, <2>1, <2>2 DEF Closed, SessionGone, CTypeOK, View
  <2>4. Connected' /\ srv' = "none"
    BY <1>0, <1>2 DEF Closed, SessionGone, Connected
  <2> QED
    BY <2>3, <2>4, NobodyThere DEF ChatInv
<1>3. CASE Open
  <2>1. /\ up' = IF hidden THEN <<"pause">> ELSE <<>>
        /\ socket = "connecting" /\ socket' = "open" /\ conn' = conn + 1 /\ srv' = "idle"
        /\ UNCHANGED <<room, paused, peerAway, telling, owed, astray, sess, away, hidden>>
        /\ down' = <<"welcome">>
        /\ view' = IF view \in {"connecting", "idle"} THEN "idle" ELSE view
    BY <1>3 DEF Open, NewSession
  <2>2. /\ conn \in Nat /\ conn < MaxConn /\ ~telling /\ ~room /\ ~owed /\ ~paused
        /\ view \notin {"chatting", "peer-left"}
    BY <1>0, <2>1, BoundsOfChat DEF Connected, CTypeOK
  <2>3. conn' \in 0 .. MaxConn
    <3>1. conn + 1 \in 0 .. MaxConn
      BY <2>2, BoundsOfChat
    <3> QED
      BY <2>1, <3>1
  <2>4. up' \in Seq(ClientType) /\ Len(up') <= MaxUp + 1
    <3>1. <<>> \in Seq(ClientType) /\ Len(<<>>) = 0 /\ <<"pause">> \in Seq(ClientType) /\ Len(<<"pause">>) = 1
      BY EmptySeq DEF ClientType
    <3>2. 0 <= MaxUp + 1 /\ 1 <= MaxUp + 1
      BY BoundsOfChat
    <3> QED
      BY <2>1, <3>1, <3>2
  <2>5. down' \in Seq(ServerType) /\ Len(down') <= SendCap
    <3>1. <<"welcome">> \in Seq(ServerType) /\ Len(<<"welcome">>) = 1
      BY DEF ServerType
    <3> QED
      BY <2>1, <3>1, BoundsOfChat
  <2>6. CTypeOK'
    BY <1>0, <2>1, <2>3, <2>4, <2>5 DEF CTypeOK, View
  <2>7. Connected'
    BY <2>1, <2>2 DEF Connected
  <2>8. /\ \A T, L : ~Follows(down', T, L) /\ ~Follows(up', T, L)
        /\ \A T : Has(down', T) <=> "welcome" \in T
        /\ \A T : Has(up', T) <=> hidden /\ "pause" \in T
        /\ \A T, L : Ends(up', T, L) <=> hidden /\ "pause" \in T
    <3>1. /\ \A T, L : ~Follows(down', T, L)
          /\ \A T : Has(down', T) <=> "welcome" \in T
      BY <2>1, OneUnderWay
    <3>2. CASE hidden
      <4>1. up' = <<"pause">>
        BY <2>1, <3>2
      <4> QED
        BY <3>1, <3>2, <4>1, OneUnderWay
    <3>3. CASE ~hidden
      <4>1. up' = <<>>
        BY <2>1, <3>3
      <4> QED
        BY <3>1, <3>3, <4>1, NothingUnderWay
    <3> QED
      BY <3>2, <3>3
  <2>9. ChatAtOnePlace' /\ MatchedIsLast'
    BY <2>1, <2>2, <2>8 DEF ChatAtOnePlace, MatchedIsLast
  <2>10. PartnerFollowed' /\ SearchFollowed' /\ NoticeFollowed' /\ AwayFollowed'
    BY <2>1, <2>2, <2>8 DEF PartnerFollowed, SearchFollowed, NoticeFollowed, AwayFollowed
  <2>11. PresenceFollowed'
    BY <1>0, <2>1, <2>2, <2>8 DEF PresenceFollowed, CTypeOK
  <2> QED
    BY <2>6, <2>7, <2>9, <2>10, <2>11 DEF ChatInv, Followed
<1> QED
  BY <1>1, <1>2, <1>3 DEF SocketStep

LEMMA EnvelopeInv == ChatInv /\ OnEnvelope => ChatInv'
<1> SUFFICES ASSUME ChatInv, OnEnvelope PROVE ChatInv'
  OBVIOUS
<1>0. CTypeOK /\ Connected /\ Followed
  BY DEF ChatInv
<1>1. PICK x \in ServerType :
        /\ Receives(x)
        /\ \/ x = "welcome" /\ view' = "idle" /\ sess' = conn /\ UNCHANGED away
           \/ x = "searching" /\ view' = "searching" /\ UNCHANGED <<sess, away>>
           \/ x = "matched" /\ view' = "chatting" /\ away' = FALSE /\ UNCHANGED sess
           \/ x = "peer_paused" /\ away' = TRUE /\ UNCHANGED <<view, sess>>
           \/ x = "peer_resumed" /\ away' = FALSE /\ UNCHANGED <<view, sess>>
           \/ x = "peer_left" /\ view' = "peer-left" /\ away' = FALSE /\ UNCHANGED sess
           \/ x = "other" /\ UNCHANGED <<view, sess, away>>
  <2>1. CASE OnWelcome
    BY <2>1 DEF OnWelcome, ServerType
  <2>2. CASE OnSearching
    BY <2>2 DEF OnSearching, ServerType
  <2>3. CASE OnMatched
    BY <2>3 DEF OnMatched, ServerType
  <2>4. CASE OnPeerPresence
    BY <2>4 DEF OnPeerPresence, ServerType
  <2>5. CASE OnPeerLeft
    BY <2>5 DEF OnPeerLeft, ServerType
  <2>6. CASE OnLineOrError
    BY <2>6 DEF OnLineOrError, ServerType
  <2> QED
    BY <2>1, <2>2, <2>3, <2>4, <2>5, <2>6 DEF OnEnvelope
<1>2. /\ down' \in Seq(ServerType) /\ Len(down') <= SendCap /\ down # <<>>
      /\ UNCHANGED <<hidden, socket, conn, up, srv, room, paused, peerAway, telling, owed, astray>>
  BY <1>0, <1>1, Receiving
<1>3. /\ \A T : Has(down, T) <=> x \in T \/ Has(down', T)
      /\ \A T, L : Ends(down, T, L) <=> Ends(down', T, L) \/ (x \in T /\ ~Has(down', L))
      /\ \A T, L : Follows(down, T, L) <=> Follows(down', T, L) \/ (x \in T /\ Has(down', L))
  BY <1>0, <1>1, Receiving
<1>4. CTypeOK'
  <2>1. view' \in View /\ away' \in BOOLEAN /\ sess' \in 0 .. MaxConn
    BY <1>0, <1>1 DEF CTypeOK, View
  <2> QED
    BY <1>0, <1>2, <2>1 DEF CTypeOK
<1>5. Connected'
  BY <1>0, <1>2 DEF Connected
<1>6. ChatAtOnePlace'
  BY <1>0, <1>1, <1>2, <1>3 DEF Followed, ChatAtOnePlace
<1>7. MatchedIsLast'
  BY <1>0, <1>1, <1>2, <1>3 DEF Followed, MatchedIsLast
<1>8. PartnerFollowed'
  BY <1>0, <1>1, <1>2, <1>3 DEF Followed, PartnerFollowed, MatchedIsLast, ChatAtOnePlace
<1>9. SearchFollowed'
  BY <1>0, <1>1, <1>2, <1>3 DEF Followed, SearchFollowed, ChatAtOnePlace
<1>10. NoticeFollowed'
  BY <1>0, <1>1, <1>2, <1>3, BothUnderWay DEF Followed, NoticeFollowed, ChatAtOnePlace
<1>11. AwayFollowed'
  BY <1>0, <1>1, <1>2, <1>3 DEF Followed, AwayFollowed
<1>12. PresenceFollowed'
  BY <1>0, <1>2 DEF Followed, PresenceFollowed
<1> QED
  BY <1>4, <1>5, <1>6, <1>7, <1>8, <1>9, <1>10, <1>11, <1>12 DEF ChatInv, Followed

\* What handle does, apart from up and from what it sends.
LEMMA HandleStepInv == ChatInv /\ Handle => ChatInv'
<1> SUFFICES ASSUME ChatInv, Handle PROVE ChatInv'
  OBVIOUS
<1> USE DEF page, server
<1>0. CTypeOK /\ Connected /\ Followed
  BY DEF ChatInv
<1>1. CASE HandleSearch
  <2>1. /\ Handles("search") /\ srv = "idle" /\ srv' = "searching"
        /\ UNCHANGED <<room, paused, peerAway, owed>>
        /\ \/ Len(down) < SendCap /\ down' = Append(down, "searching") /\ UNCHANGED astray
           \/ UNCHANGED down /\ astray' = astray \cup {"searching"}
    BY <1>1 DEF HandleSearch, SendOrDrop, Noted
  <2>2. /\ up' \in Seq(ClientType) /\ Len(up') <= MaxUp + 1
        /\ UNCHANGED <<view, sess, away, hidden, socket, conn, telling>>
        /\ \A T : Has(up, T) <=> "search" \in T \/ Has(up', T)
        /\ \A T, L : Ends(up, T, L) <=> Ends(up', T, L) \/ ("search" \in T /\ ~Has(up', L))
        /\ \A T, L : Follows(up, T, L) <=> Follows(up', T, L) \/ ("search" \in T /\ Has(up', L))
    BY <1>0, <2>1, Reading
  <2>3. /\ ~telling /\ view # "chatting" /\ ~Has(down, {"matched"}) /\ ~Has(up, {"stop", "report"})
        /\ ~room
    BY <1>0, <2>1 DEF Followed, ChatAtOnePlace, Connected
  <2>4. PresenceFollowed'
    BY <1>0, <2>1, <2>2 DEF Followed, PresenceFollowed
  <2>5. Connected'
    BY <1>0, <2>1, <2>2 DEF Connected
  <2>6. CASE UNCHANGED down /\ astray' = astray \cup {"searching"}
    <3>1. CTypeOK'
      BY <1>0, <2>1, <2>2, <2>6 DEF CTypeOK, Noted
    <3>2. ChatAtOnePlace' /\ MatchedIsLast'
      BY <1>0, <2>1, <2>2, <2>3, <2>6 DEF Followed, ChatAtOnePlace, MatchedIsLast
    <3>3. PartnerFollowed' /\ SearchFollowed' /\ NoticeFollowed' /\ AwayFollowed'
      BY <1>0, <2>1, <2>2, <2>3, <2>6
      DEF PartnerFollowed, SearchFollowed, NoticeFollowed, AwayFollowed
    <3> QED
      BY <2>4, <2>5, <3>1, <3>2, <3>3 DEF ChatInv, Followed
  <2>7. CASE Len(down) < SendCap /\ down' = Append(down, "searching") /\ UNCHANGED astray
    <3>1. /\ down' \in Seq(ServerType) /\ Len(down') <= SendCap
          /\ \A T : Has(down', T) <=> Has(down, T) \/ "searching" \in T
          /\ \A T, L : Ends(down', T, L) <=> "searching" \in T \/ (Ends(down, T, L) /\ "searching" \notin L)
          /\ \A T, L : Follows(down', T, L) <=> Follows(down, T, L) \/ (Has(down, T) /\ "searching" \in L)
      BY <1>0, <2>7, Sending DEF ServerType
    <3>2. CTypeOK'
      BY <1>0, <2>1, <2>2, <2>7, <3>1 DEF CTypeOK
    <3>3. ChatAtOnePlace' /\ MatchedIsLast'
      BY <1>0, <2>1, <2>2, <2>3, <3>1 DEF Followed, ChatAtOnePlace, MatchedIsLast
    <3>4. PartnerFollowed' /\ SearchFollowed' /\ NoticeFollowed' /\ AwayFollowed'
      BY <1>0, <2>1, <2>2, <2>3, <3>1
      DEF PartnerFollowed, SearchFollowed, NoticeFollowed, AwayFollowed
    <3> QED
      BY <2>4, <2>5, <3>2, <3>3, <3>4 DEF ChatInv, Followed
  <2> QED
    BY <2>1, <2>6, <2>7
<1>2. CASE HandleRefused
  <2>1. PICK x \in ClientType :
          /\ Handles(x) /\ UNCHANGED <<srv, room, paused, peerAway, owed, astray>>
          /\ x \in {"search", "message", "cancel", "report"}
          /\ x = "cancel" => srv # "searching"
          /\ x = "report" => NoChat
          /\ \/ Len(down) < SendCap /\ down' = Append(down, "other")
             \/ UNCHANGED down
    <3>1. \/ Len(down) < SendCap /\ down' = Append(down, "other") /\ UNCHANGED astray
          \/ UNCHANGED down /\ astray' = astray
      BY <1>2 DEF HandleRefused, SendOrDrop, Noted
    <3> QED
      BY <1>2, <3>1 DEF HandleRefused, ClientType
  <2>2. /\ srv # "none"
        /\ up' \in Seq(ClientType) /\ Len(up') <= MaxUp + 1
        /\ UNCHANGED <<view, sess, away, hidden, socket, conn, telling>>
        /\ \A T : Has(up, T) <=> x \in T \/ Has(up', T)
        /\ \A T, L : Ends(up, T, L) <=> Ends(up', T, L) \/ (x \in T /\ ~Has(up', L))
        /\ \A T, L : Follows(up, T, L) <=> Follows(up', T, L) \/ (x \in T /\ Has(up', L))
    BY <1>0, <2>1, Reading
  <2>3. x = "report" => ~room
    BY <1>0, <2>1 DEF NoChat, Connected
  <2>4. PresenceFollowed'
    BY <1>0, <2>1, <2>2 DEF Followed, PresenceFollowed
  <2>5. Connected'
    BY <1>0, <2>1, <2>2 DEF Connected
  <2>6. /\ down' \in Seq(ServerType) /\ Len(down') <= SendCap
        /\ \A T : "other" \notin T => (Has(down', T) <=> Has(down, T))
        /\ \A T, L : "other" \notin T /\ "other" \notin L => (Ends(down', T, L) <=> Ends(down, T, L))
        /\ \A T, L : "other" \notin L => (Follows(down', T, L) <=> Follows(down, T, L))
    <3>1. CASE UNCHANGED down
      BY <1>0, <3>1 DEF CTypeOK
    <3>2. CASE Len(down) < SendCap /\ down' = Append(down, "other")
      BY <1>0, <3>2, Sending DEF ServerType
    <3> QED
      BY <2>1, <3>1, <3>2
  <2>7. CTypeOK'
    BY <1>0, <2>1, <2>2, <2>6 DEF CTypeOK
  <2>8. ChatAtOnePlace'
    BY <1>0, <2>1, <2>2, <2>6 DEF Followed, ChatAtOnePlace
  <2>9. MatchedIsLast'
    BY <1>0, <2>1, <2>2, <2>6 DEF Followed, MatchedIsLast
  <2>10. PartnerFollowed'
    BY <1>0, <2>1, <2>2, <2>3, <2>6 DEF Followed, PartnerFollowed
  <2>11. SearchFollowed'
    BY <1>0, <2>1, <2>2, <2>6 DEF Followed, SearchFollowed
  <2>12. NoticeFollowed'
    BY <1>0, <2>1, <2>2, <2>6 DEF Followed, NoticeFollowed
  <2>13. AwayFollowed'
    BY <1>0, <2>1, <2>2, <2>6 DEF Followed, AwayFollowed
  <2> QED
    BY <2>4, <2>5, <2>7, <2>8, <2>9, <2>10, <2>11, <2>12, <2>13 DEF ChatInv, Followed
<1>3. CASE HandleCancel
  <2>1. /\ Handles("cancel") /\ srv = "searching" /\ srv' = "idle" /\ owed' \in {owed, TRUE}
        /\ UNCHANGED <<room, paused, peerAway, down, astray>>
    BY <1>3 DEF HandleCancel
  <2>2. /\ srv # "none"
        /\ up' \in Seq(ClientType) /\ Len(up') <= MaxUp + 1
        /\ UNCHANGED <<view, sess, away, hidden, socket, conn, telling>>
        /\ \A T : Has(up, T) <=> "cancel" \in T \/ Has(up', T)
        /\ \A T, L : Ends(up, T, L) <=> Ends(up', T, L) \/ ("cancel" \in T /\ ~Has(up', L))
        /\ \A T, L : Follows(up, T, L) <=> Follows(up', T, L) \/ ("cancel" \in T /\ Has(up', L))
    BY <1>0, <2>1, Reading
  <2>3. CTypeOK' /\ Connected'
    BY <1>0, <2>1, <2>2 DEF CTypeOK, Connected
  <2>4. ~telling /\ view # "chatting" /\ ~Has(down, {"matched"}) /\ ~Has(up, {"stop", "report"}) /\ ~room
    BY <1>0, <2>1 DEF Followed, ChatAtOnePlace, Connected
  <2>5. ChatAtOnePlace' /\ MatchedIsLast'
    BY <1>0, <2>1, <2>2, <2>4 DEF Followed, ChatAtOnePlace, MatchedIsLast
  <2>6. PartnerFollowed' /\ SearchFollowed' /\ NoticeFollowed' /\ AwayFollowed'
    BY <2>1, <2>2, <2>4 DEF PartnerFollowed, SearchFollowed, NoticeFollowed, AwayFollowed
  <2>7. PresenceFollowed'
    BY <1>0, <2>1, <2>2 DEF Followed, PresenceFollowed
  <2> QED
    BY <2>3, <2>5, <2>6, <2>7 DEF ChatInv, Followed
<1>4. CASE HandleEnd
  <2>1. PICK x \in {"stop", "report"} :
          /\ Handles(x) /\ srv' = "idle" /\ room' = FALSE /\ peerAway' = FALSE
          /\ UNCHANGED <<paused, owed, down, astray>>
    BY <1>4 DEF HandleEnd
  <2>2. /\ srv # "none"
        /\ up' \in Seq(ClientType) /\ Len(up') <= MaxUp + 1
        /\ UNCHANGED <<view, sess, away, hidden, socket, conn, telling>>
        /\ \A T : Has(up, T) <=> x \in T \/ Has(up', T)
        /\ \A T, L : Ends(up, T, L) <=> Ends(up', T, L) \/ (x \in T /\ ~Has(up', L))
        /\ \A T, L : Follows(up, T, L) <=> Follows(up', T, L) \/ (x \in T /\ Has(up', L))
    BY <1>0, <2>1, Reading
  <2>3. CTypeOK' /\ Connected'
    BY <1>0, <2>1, <2>2 DEF CTypeOK, Connected
  <2>4. Has(up, {"stop", "report"}) /\ ~Has(up', {"stop", "report"})
    BY <1>0, <2>1, <2>2 DEF Followed, ChatAtOnePlace
  <2>5. ~telling /\ view # "chatting" /\ ~Has(down, {"matched"})
    BY <1>0, <2>2, <2>4 DEF Followed, ChatAtOnePlace
  <2>6. ~Follows(up', {"stop", "report"}, {"stop", "report"}) /\ ~Follows(down, {"matched"}, {"matched"})
    BY <1>0, <2>1, <2>2 DEF Followed, ChatAtOnePlace
  <2>7. ChatAtOnePlace' /\ MatchedIsLast'
    BY <1>0, <2>1, <2>2, <2>4, <2>5, <2>6 DEF Followed, ChatAtOnePlace, MatchedIsLast
  <2>8. PartnerFollowed' /\ SearchFollowed' /\ NoticeFollowed' /\ AwayFollowed'
    BY <2>1, <2>2, <2>5 DEF PartnerFollowed, SearchFollowed, NoticeFollowed, AwayFollowed
  <2>9. PresenceFollowed'
    BY <1>0, <2>1, <2>2 DEF Followed, PresenceFollowed
  <2> QED
    BY <2>3, <2>7, <2>8, <2>9 DEF ChatInv, Followed
<1>5. CASE HandleMessage \/ HandlePresence
  <2>1. PICK x \in {"message", "pause", "resume"} :
          /\ Handles(x) /\ UNCHANGED <<srv, room, peerAway, owed, down, astray>>
          /\ \/ x = "message" /\ UNCHANGED paused
             \/ x = "pause" /\ paused' = TRUE
             \/ x = "resume" /\ paused' = FALSE
    BY <1>5 DEF HandleMessage, HandlePresence
  <2>2. /\ srv # "none"
        /\ up' \in Seq(ClientType) /\ Len(up') <= MaxUp + 1
        /\ UNCHANGED <<view, sess, away, hidden, socket, conn, telling>>
        /\ \A T : Has(up, T) <=> x \in T \/ Has(up', T)
        /\ \A T, L : Ends(up, T, L) <=> Ends(up', T, L) \/ (x \in T /\ ~Has(up', L))
        /\ \A T, L : Follows(up, T, L) <=> Follows(up', T, L) \/ (x \in T /\ Has(up', L))
    BY <1>0, <2>1, Reading
  <2>3. CTypeOK' /\ Connected'
    BY <1>0, <2>1, <2>2 DEF CTypeOK, Connected
  <2>4. ChatAtOnePlace' /\ MatchedIsLast'
    BY <1>0, <2>1, <2>2 DEF Followed, ChatAtOnePlace, MatchedIsLast
  <2>5. PartnerFollowed' /\ SearchFollowed'
    BY <1>0, <2>1, <2>2 DEF Followed, PartnerFollowed, SearchFollowed
  <2>6. NoticeFollowed' /\ AwayFollowed'
    BY <1>0, <2>1, <2>2 DEF Followed, NoticeFollowed, AwayFollowed
  <2>7. PresenceFollowed'
    <3>1. CASE x = "message"
      BY <1>0, <2>1, <2>2, <3>1 DEF Followed, PresenceFollowed
    <3>2. CASE x = "pause"
      BY <1>0, <2>1, <2>2, <3>2 DEF Followed, PresenceFollowed, CTypeOK
    <3>3. CASE x = "resume"
      BY <1>0, <2>1, <2>2, <3>3 DEF Followed, PresenceFollowed, CTypeOK
    <3> QED
      BY <2>1, <3>1, <3>2, <3>3
  <2> QED
    BY <2>3, <2>4, <2>5, <2>6, <2>7 DEF ChatInv, Followed
<1> QED
  BY <1>1, <1>2, <1>3, <1>4, <1>5 DEF Handle

\* The server's other goroutines.
LEMMA ServerStepInv == ChatInv /\ (Tell \/ TellTimeout \/ Notice \/ ServerLoses) => ChatInv'
<1> SUFFICES ASSUME ChatInv, Tell \/ TellTimeout \/ Notice \/ ServerLoses PROVE ChatInv'
  OBVIOUS
<1> USE DEF page, server
<1>0. CTypeOK /\ Connected /\ Followed
  BY DEF ChatInv
<1>1. CASE Tell
  <2>1. /\ telling /\ telling' = FALSE /\ Len(down) < SendCap /\ down' = Append(down, "matched")
        /\ UNCHANGED <<view, sess, away, hidden, socket, conn, up, srv, room, paused, peerAway, owed, astray>>
    BY <1>1 DEF Tell
  <2>2. /\ down' \in Seq(ServerType) /\ Len(down') <= SendCap
        /\ \A T : Has(down', T) <=> Has(down, T) \/ "matched" \in T
        /\ \A T, L : Ends(down', T, L) <=> "matched" \in T \/ (Ends(down, T, L) /\ "matched" \notin L)
        /\ \A T, L : Follows(down', T, L) <=> Follows(down, T, L) \/ (Has(down, T) /\ "matched" \in L)
    BY <1>0, <2>1, Sending DEF ServerType
  <2>3. /\ srv = "chatting" /\ view # "chatting"
        /\ ~Has(down, {"matched"}) /\ ~Has(up, {"stop", "report"})
    BY <1>0, <2>1 DEF Connected, Followed, ChatAtOnePlace
  <2>4. CTypeOK' /\ Connected'
    BY <1>0, <2>1, <2>2, <2>3 DEF CTypeOK, Connected
  <2>5. ChatAtOnePlace' /\ MatchedIsLast'
    BY <1>0, <2>1, <2>2, <2>3 DEF Followed, ChatAtOnePlace, MatchedIsLast
  <2>6. PartnerFollowed' /\ SearchFollowed' /\ AwayFollowed'
    BY <2>1, <2>2, <2>3 DEF PartnerFollowed, SearchFollowed, AwayFollowed
  <2>7. NoticeFollowed' /\ PresenceFollowed'
    BY <1>0, <2>1, <2>2, <2>3 DEF Followed, NoticeFollowed, PresenceFollowed
  <2> QED
    BY <2>4, <2>5, <2>6, <2>7 DEF ChatInv, Followed
<1>2. CASE TellTimeout \/ ServerLoses
  <2>1. SessionGone /\ up' = <<>> /\ conn < MaxConn
        /\ UNCHANGED <<view, sess, away, hidden, socket, conn, down>>
    BY <1>2 DEF TellTimeout, ServerLoses, EndSession
  <2>2. up' \in Seq(ClientType) /\ Len(up') <= MaxUp + 1
    <3>1. up' \in Seq(ClientType) /\ Len(up') = 0
      BY <2>1, EmptySeq
    <3> QED
      BY <3>1, BoundsOfChat
  <2>3. CTypeOK' /\ Connected' /\ srv' = "none"
    BY <1>0, <2>1, <2>2 DEF SessionGone, CTypeOK, Connected
  <2> QED
    BY <2>3, NobodyThere DEF ChatInv
<1>3. CASE Notice
  <2>1. /\ owed /\ owed' = FALSE
        /\ UNCHANGED <<view, sess, away, hidden, socket, conn, up, srv, room, paused, peerAway, telling>>
        /\ astray \subseteq astray' /\ astray' \subseteq astray \cup {"peer_left"}
        /\ telling \/ room \/ srv = "searching" => "peer_left" \in astray'
        /\ \/ Len(down) < SendCap /\ down' = Append(down, "peer_left")
           \/ UNCHANGED down /\ "peer_left" \in astray'
    <3>1. Len(down) < SendCap \/ Len(down) = SendCap
      <4>1. Len(down) \in Nat /\ Len(down) <= SendCap /\ SendCap \in Nat
        BY <1>0, BoundsOfChat, LenProperties DEF CTypeOK
      <4> QED
        BY <4>1
    <3>2. /\ astray' = IF Len(down) = SendCap \/ Misplaced THEN astray \cup {"peer_left"} ELSE astray
          /\ IF Len(down) < SendCap THEN down' = Append(down, "peer_left") ELSE UNCHANGED down
      BY <1>3 DEF Notice
    <3> QED
      BY <1>3, <3>1, <3>2 DEF Notice, Misplaced
  <2>2. srv # "none"
    BY <1>0, <2>1 DEF Connected
  <2>3. /\ down' \in Seq(ServerType) /\ Len(down') <= SendCap
        /\ \A T : "peer_left" \notin T => (Has(down', T) <=> Has(down, T))
        /\ \A T, L : "peer_left" \notin L => (Follows(down', T, L) <=> Follows(down, T, L))
        /\ \A T, L : Ends(down, T, L) /\ "peer_left" \notin L => Ends(down', T, L)
    <3>1. CASE UNCHANGED down
      BY <1>0, <3>1 DEF CTypeOK
    <3>2. CASE Len(down) < SendCap /\ down' = Append(down, "peer_left")
      BY <1>0, <3>2, Sending DEF ServerType
    <3> QED
      BY <2>1, <3>1, <3>2
  <2>4. CTypeOK'
    BY <1>0, <2>1, <2>3 DEF CTypeOK, Noted
  <2>5. Connected'
    BY <1>0, <2>1, <2>2 DEF Connected
  <2>6. ChatAtOnePlace' /\ MatchedIsLast'
    BY <1>0, <2>1, <2>3 DEF Followed, ChatAtOnePlace, MatchedIsLast
  <2>7. PartnerFollowed' /\ SearchFollowed' /\ PresenceFollowed'
    BY <1>0, <2>1 DEF Followed, PartnerFollowed, SearchFollowed, PresenceFollowed
  <2>8. AwayFollowed'
    <3>1. ~Has(down, {"peer_paused"}) => ~Has(down', {"peer_paused"})
      BY <2>3
    <3>2. Ends(down, {"matched", "peer_left", "peer_resumed"}, {"peer_paused"}) =>
            Ends(down', {"matched", "peer_left", "peer_resumed"}, {"peer_paused"})
      BY <2>3
    <3> QED
      BY <1>0, <2>1, <3>1, <3>2 DEF Followed, AwayFollowed
  <2>9. NoticeFollowed'
    <3>1. CASE UNCHANGED down /\ "peer_left" \in astray'
      BY <3>1 DEF NoticeFollowed
    <3>2. CASE Len(down) < SendCap /\ down' = Append(down, "peer_left")
      <4>1. /\ \A T : Has(down', T) <=> Has(down, T) \/ "peer_left" \in T
            /\ \A T, L : Follows(down', T, L) <=> Follows(down, T, L) \/ (Has(down, T) /\ "peer_left" \in L)
        BY <1>0, <3>2, Sending DEF ServerType
      <4> QED
        BY <2>1, <4>1 DEF NoticeFollowed
    <3> QED
      BY <2>1, <3>1, <3>2
  <2> QED
    BY <2>4, <2>5, <2>6, <2>7, <2>8, <2>9 DEF ChatInv, Followed
<1> QED
  BY <1>1, <1>2, <1>3

LEMMA PeerStepInv == ChatInv /\ PeerStep => ChatInv'
<1> SUFFICES ASSUME ChatInv, PeerStep PROVE ChatInv'
  OBVIOUS
<1> USE DEF page, server
<1>0. CTypeOK /\ Connected /\ Followed
  BY DEF ChatInv
<1>1. CASE Match
  <2>1. /\ srv = "searching" /\ srv' = "chatting" /\ room' = TRUE /\ telling' = TRUE
        /\ UNCHANGED <<view, sess, away, hidden, socket, conn, up, down, paused, peerAway, owed, astray>>
    BY <1>1 DEF Match
  <2>2. CTypeOK' /\ Connected'
    BY <1>0, <2>1 DEF CTypeOK, Connected
  <2>3. ChatAtOnePlace' /\ MatchedIsLast'
    BY <1>0, <2>1 DEF Followed, ChatAtOnePlace, MatchedIsLast
  <2>4. PartnerFollowed' /\ SearchFollowed' /\ NoticeFollowed' /\ AwayFollowed'
    BY <2>1 DEF PartnerFollowed, SearchFollowed, NoticeFollowed, AwayFollowed
  <2>5. PresenceFollowed'
    BY <1>0, <2>1 DEF Followed, PresenceFollowed
  <2> QED
    BY <2>2, <2>3, <2>4, <2>5 DEF ChatInv, Followed
<1>2. CASE PeerLeaves
  <2>1. /\ room /\ room' = FALSE /\ peerAway' = FALSE /\ owed' = TRUE
        /\ UNCHANGED <<view, sess, away, hidden, socket, conn, up, down, srv, paused, telling, astray>>
    BY <1>2 DEF PeerLeaves
  <2>2. srv = "chatting"
    BY <1>0, <2>1 DEF Connected
  <2>3. CTypeOK' /\ Connected'
    BY <1>0, <2>1, <2>2 DEF CTypeOK, Connected
  <2>4. ChatAtOnePlace' /\ MatchedIsLast' /\ PresenceFollowed'
    BY <1>0, <2>1 DEF Followed, ChatAtOnePlace, MatchedIsLast, PresenceFollowed
  <2>5. PartnerFollowed' /\ SearchFollowed' /\ NoticeFollowed' /\ AwayFollowed'
    BY <2>1, <2>2 DEF PartnerFollowed, SearchFollowed, NoticeFollowed, AwayFollowed
  <2> QED
    BY <2>3, <2>4, <2>5 DEF ChatInv, Followed
<1>3. CASE PeerWrites \/ PeerPresence
  <2>1. PICK x \in {"other", "peer_paused", "peer_resumed"} :
          /\ room /\ UNCHANGED <<view, sess, away, hidden, socket, conn, up, srv, room, paused, telling, owed>>
          /\ \/ x = "other" /\ peerAway' = peerAway
             \/ x = "peer_paused" /\ peerAway' = TRUE
             \/ x = "peer_resumed" /\ peerAway' = FALSE
          /\ SendOrDrop(x)
    <3>1. CASE PeerWrites
      BY <3>1 DEF PeerWrites, PeerSends
    <3>2. CASE PeerPresence /\ peerAway
      BY <3>2 DEF PeerPresence, PeerSends
    <3>3. CASE PeerPresence /\ ~peerAway
      BY <3>3 DEF PeerPresence, PeerSends
    <3> QED
      BY <1>3, <3>1, <3>2, <3>3
  <2>2. srv = "chatting"
    BY <1>0, <2>1 DEF Connected
  <2>3. /\ \/ Len(down) < SendCap /\ down' = Append(down, x) /\ UNCHANGED astray
           \/ /\ UNCHANGED down /\ astray \subseteq astray' /\ astray' \subseteq astray \cup {"peer_resumed"}
              /\ x = "peer_resumed" => "peer_resumed" \in astray'
    BY <2>1 DEF SendOrDrop, Noted
  <2>4. /\ down' \in Seq(ServerType) /\ Len(down') <= SendCap
        /\ \A T : x \notin T => (Has(down', T) <=> Has(down, T))
        /\ \A T, L : x \notin T /\ x \notin L => (Ends(down', T, L) <=> Ends(down, T, L))
        /\ \A T, L : x \notin L => (Follows(down', T, L) <=> Follows(down, T, L))
    <3>1. CASE UNCHANGED down
      BY <1>0, <3>1 DEF CTypeOK
    <3>2. CASE Len(down) < SendCap /\ down' = Append(down, x)
      BY <1>0, <2>1, <3>2, Sending DEF ServerType
    <3> QED
      BY <2>3, <3>1, <3>2
  <2>5. CTypeOK'
    <3>1. peerAway' \in BOOLEAN /\ astray' \subseteq Noted
      BY <1>0, <2>1, <2>3 DEF CTypeOK, Noted
    <3> QED
      BY <1>0, <2>1, <2>4, <3>1 DEF CTypeOK
  <2>6. Connected'
    BY <1>0, <2>1, <2>2 DEF Connected
  <2>7. x \notin {"matched"} /\ x \notin {"welcome", "searching"} /\ x \notin {"peer_left"}
    BY <2>1
  <2>8. "peer_left" \in astray <=> "peer_left" \in astray'
    BY <2>3
  <2>9. ChatAtOnePlace' /\ MatchedIsLast'
    BY <1>0, <2>1, <2>4, <2>7 DEF Followed, ChatAtOnePlace, MatchedIsLast
  <2>10. PartnerFollowed'
    BY <1>0, <2>1, <2>4, <2>7, <2>8 DEF Followed, PartnerFollowed
  <2>11. SearchFollowed' /\ NoticeFollowed' /\ PresenceFollowed'
    BY <1>0, <2>1, <2>2 DEF Followed, SearchFollowed, NoticeFollowed, PresenceFollowed
  <2>12. AwayFollowed'
    <3>1. CASE x = "peer_paused"
      BY <2>1, <3>1 DEF AwayFollowed
    <3>2. CASE x = "peer_resumed" /\ "peer_resumed" \in astray'
      BY <3>2 DEF AwayFollowed
    <3>3. CASE x = "peer_resumed" /\ Len(down) < SendCap /\ down' = Append(down, x)
      <4>1. Ends(down', {"matched", "peer_left", "peer_resumed"}, {"peer_paused"})
        BY <1>0, <3>3, Sending DEF ServerType
      <4> QED
        BY <4>1 DEF AwayFollowed
    <3>4. CASE x = "other"
      <4>1. /\ Ends(down', {"matched", "peer_left", "peer_resumed"}, {"peer_paused"})
                 <=> Ends(down, {"matched", "peer_left", "peer_resumed"}, {"peer_paused"})
            /\ Has(down', {"peer_paused"}) <=> Has(down, {"peer_paused"})
        BY <2>4, <3>4
      <4>2. "peer_resumed" \in astray => "peer_resumed" \in astray'
        BY <2>3
      <4> QED
        BY <1>0, <2>1, <3>4, <4>1, <4>2 DEF Followed, AwayFollowed
    <3> QED
      BY <2>1, <2>3, <3>1, <3>2, <3>3, <3>4
  <2> QED
    BY <2>5, <2>6, <2>9, <2>10, <2>11, <2>12 DEF ChatInv, Followed
<1> QED
  BY <1>1, <1>2, <1>3 DEF PeerStep

LEMMA NothingHappens == ChatInv /\ UNCHANGED cvars => ChatInv'
  BY DEF ChatInv, CTypeOK, Connected, Followed, ChatAtOnePlace, MatchedIsLast, PartnerFollowed,
         SearchFollowed, NoticeFollowed, AwayFollowed, PresenceFollowed, cvars, page, server

LEMMA ChatAlwaysInv == CSpec => []ChatInv
<1>1. ChatInv /\ [CNext]_cvars => ChatInv'
  BY UserStepInv, SocketStepInv, EnvelopeInv, HandleStepInv, ServerStepInv, PeerStepInv, NothingHappens
  DEF CNext, ServerStep
<1> QED
  BY <1>1, ChatInitially, PTL DEF CSpec
----------------------------------------------------------------------------
\* Page, socket, buffers and session are well typed, and no buffer overflows.
THEOREM ClientTypesCorrect == CSpec => []CTypeOK
<1>1. ChatInv => CTypeOK
  BY DEF ChatInv
<1> QED
  BY <1>1, ChatAlwaysInv, PTL

\* A chat on the page is the server's chat, across reconnects, full buffers and
\* whatever is under way.
THEOREM ChatsAreBacked == CSpec => []ChatIsBacked
<1>1. ChatInv => ChatIsBacked
  BY DEF ChatInv, Followed, ChatAtOnePlace, ChatIsBacked
<1> QED
  BY <1>1, ChatAlwaysInv, PTL

\* Where all has arrived, a stranger who has a partner sees the chat, except after the
\* notice of an earlier room that came too late.
THEOREM PartnersAreSeen == CSpec => []PartnerIsSeen
<1>1. ChatInv => PartnerIsSeen
  BY NothingUnderWay DEF ChatInv, Followed, PartnerFollowed, PartnerIsSeen, Settled
<1> QED
  BY <1>1, ChatAlwaysInv, PTL

\* And a chat that is seen has a partner, but for notices that were lost or came
\* too late.
THEOREM PartnersAreThere == CSpec => []DeadChatIsMissedNotice
<1>1. ChatInv => DeadChatIsMissedNotice
  BY NothingUnderWay DEF ChatInv, Followed, NoticeFollowed, DeadChatIsMissedNotice, Settled
<1> QED
  BY <1>1, ChatAlwaysInv, PTL

\* Where all has arrived, who waits in the queue sees it.
THEOREM SearchesAreSeen == CSpec => []SearchIsSeen
<1>1. ChatInv => SearchIsSeen
  BY NothingUnderWay DEF ChatInv, Followed, SearchFollowed, SearchIsSeen, Settled
<1> QED
  BY <1>1, ChatAlwaysInv, PTL

\* Where all has arrived, no stranger is shown as away who is there.
THEOREM AwayIsKnown == CSpec => []AwayIsTrue
<1>1. ChatInv => AwayIsTrue
  BY NothingUnderWay DEF ChatInv, Followed, AwayFollowed, AwayIsTrue, Settled
<1> QED
  BY <1>1, ChatAlwaysInv, PTL

\* And the server knows whether the page is hidden.
THEOREM PresenceIsKnown == CSpec => []PausedIsHidden
<1>1. ChatInv => PausedIsHidden
  BY NothingUnderWay DEF ChatInv, Followed, PresenceFollowed, PausedIsHidden, Settled
<1> QED
  BY <1>1, ChatAlwaysInv, PTL
=============================================================================
