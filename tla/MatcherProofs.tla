--------------------------- MODULE MatcherProofs ---------------------------
(****************************************************************************)
(* Proofs about Matcher, for every set of sessions and tags, every timeout  *)
(* and every number of searches.                                            *)
(****************************************************************************)
EXTENDS Matcher, MatchQueueProofs, FiniteSetTheorems, WellFoundedInduction

\* The least element, which the library's well-foundedness theorems give without
\* an induction.
LEMMA SmallestExists ==
  ASSUME NEW S, S \subseteq Nat, S # {}
  PROVE  \E m \in S : \A x \in S : m <= x
<1>1. PICK m \in S : \A x \in S : <<x, m>> \notin OpToRel(<, Nat)
  BY NatLessThanWellFounded, WFMin
<1>2. \A x \in S : ~(x < m)
  BY <1>1 DEF OpToRel
<1> QED
  BY <1>2

LEMMA MinOfNat ==
  ASSUME NEW S, S \subseteq Nat, S # {}
  PROVE  Min(S) \in S /\ \A x \in S : Min(S) <= x
BY SmallestExists DEF Min

\* A function into the naturals takes its least value somewhere.
LEMMA LeastValue ==
  ASSUME NEW S, S # {}, NEW f \in [S -> Nat]
  PROVE  \E x \in S : \A y \in S : f[x] <= f[y]
<1>1. {f[x] : x \in S} \subseteq Nat /\ {f[x] : x \in S} # {}
  OBVIOUS
<1>2. PICK m \in {f[x] : x \in S} : \A v \in {f[x] : x \in S} : m <= v
  BY <1>1, SmallestExists
<1> QED
  BY <1>2
----------------------------------------------------------------------------
ScanTypes ==
  /\ tags \in [Ticket -> SUBSET Tag]
  /\ at \in [Ticket -> Nat]
  /\ tagIndex \in [Tag -> SUBSET Session]
  /\ now \in Nat

MatcherInv ==
  /\ QueueInv
  /\ ScanTypes
  /\ IndexComplete

\* What a scan pairs are two candidates of different sessions.
LEMMA FoundIsOther ==
  ASSUME MatcherInv, NEW t \in Ticket, NEW u \in Found(t)
  PROVE  u \in Ticket /\ owner[u] \in Session /\ owner[u] # owner[t] /\ byID[owner[u]] = u
<1>1. PICK v : (\E g \in tags[t] : v \in tagIndex[g]) /\ v # owner[t] /\ u = byID[v] /\ u # 0
  BY DEF Found
<1>2. v \in Session
  <2>1. PICK g \in tags[t] : v \in tagIndex[g]
    BY <1>1
  <2>2. tags[t] \in SUBSET Tag
    BY DEF MatcherInv, ScanTypes
  <2>3. tagIndex[g] \in SUBSET Session
    BY <2>1, <2>2 DEF MatcherInv, ScanTypes
  <2> QED
    BY <2>1, <2>3
<1> QED
  BY <1>1, <1>2 DEF MatcherInv, QueueInv, TypeOK, PendingOpen, IndexedIsQueued

LEMMA PairTicketsIsPair ==
  ASSUME NEW t, NEW u, owner[t] # owner[u], PairTickets(t, u)
  PROVE  Pair(owner[t], owner[u])
BY DEF PairTickets, Pair

LEMMA PairsStrangers ==
  ASSUME MatcherInv, PairBest \/ PairOverdue
  PROVE  \E t \in queue, u \in Ticket :
           /\ owner[t] \in Session /\ owner[u] \in Session /\ owner[t] # owner[u]
           /\ PairTickets(t, u)
<1>0. \A t \in queue : t \in Ticket /\ t \in Nat /\ owner[t] \in Session
  BY MatchQueueAssumption DEF MatcherInv, QueueInv, TypeOK, DrawnInOrder, Ticket
<1>1. CASE PairBest
  <2>1. PICK t \in BestSeeker : \E u \in BestPartners(t) : PairTickets(t, u)
    BY <1>1 DEF PairBest
  <2>2. t \in queue /\ \A u \in BestPartners(t) : u \in Found(t)
    BY <2>1 DEF BestSeeker, BestPartners
  <2> QED
    BY <1>0, <2>1, <2>2, FoundIsOther
<1>2. CASE PairOverdue
  <2>1. PICK t \in Overdue : Others(t) # {} /\ PairTickets(t, Min(Others(t)))
    BY <1>2 DEF PairOverdue
  <2>2. Min(Others(t)) \in Others(t)
    BY <1>0, <2>1, MinOfNat DEF Others
  <2> QED
    BY <1>0, <2>1, <2>2 DEF Overdue, Others
<1> QED
  BY <1>1, <1>2

\* The scan and the callers do to the bookkeeping what MatchQueue allows.
LEMMA MatcherIsQueue ==
  ASSUME MatcherInv, [MNext]_mvars
  PROVE  [Next]_vars
<1>1. ASSUME NEW s \in Session, \A t \in Ticket : owner[t] # s, Arrive(s) PROVE Next
  BY <1>1 DEF Arrive, Next
<1>2. ASSUME NEW s \in Session, Depart(s) PROVE Next
  BY <1>2 DEF Depart, Next
<1>3. ASSUME NEW s \in Session, NEW gs, SearchAllowed(s), EnqueueTagged(s, gs) PROVE Next
  BY <1>3 DEF EnqueueTagged, Next
<1>4. ASSUME NEW s \in Session, Cancel(s) PROVE Next
  BY <1>4 DEF Cancel, Next
<1>5. ASSUME WalkOn PROVE [Next]_vars
  BY <1>5 DEF WalkOn, DropDead, Next
<1>6. ASSUME PairBest \/ PairOverdue PROVE Next
  BY <1>6, PairsStrangers, PairTicketsIsPair DEF Next
<1>7. ASSUME ScanBegin \/ WalkEnd \/ ScanEnd \/ Tick \/ UNCHANGED mvars PROVE UNCHANGED vars
  BY <1>7 DEF ScanBegin, WalkEnd, ScanEnd, Tick, mvars
<1> QED
  BY <1>1, <1>2, <1>3, <1>4, <1>5, <1>6, <1>7 DEF MNext, Scan

LEMMA ScanTypesStep ==
  ASSUME MatcherInv, [MNext]_mvars
  PROVE  ScanTypes'
<1> USE DEF MatcherInv, ScanTypes
<1>1. ASSUME NEW s \in Session, NEW gs \in SUBSET Tag, EnqueueTagged(s, gs) PROVE ScanTypes'
  <2>1. tagIndex' \in [Tag -> SUBSET Session]
    BY <1>1 DEF EnqueueTagged
  <2>2. tags' \in [Ticket -> SUBSET Tag] /\ at' \in [Ticket -> Nat] /\ now' = now
    BY <1>1 DEF EnqueueTagged, scanVars
  <2> QED
    BY <2>1, <2>2
<1>2. \A t : Unindexed(t) \in [Tag -> SUBSET Session]
  BY DEF Unindexed
<1>3. ASSUME NEW s \in Session, Cancel(s) PROVE ScanTypes'
  BY <1>2, <1>3 DEF Cancel, scanVars
<1>4. ASSUME WalkOn PROVE ScanTypes'
  BY <1>2, <1>4 DEF WalkOn
<1>5. ASSUME NEW t, NEW u, PairTickets(t, u) PROVE ScanTypes'
  <2>1. tagIndex' \in [Tag -> SUBSET Session]
    BY <1>2, <1>5 DEF PairTickets
  <2> QED
    BY <1>5, <2>1 DEF PairTickets, scanVars
<1>6. ASSUME PairBest \/ PairOverdue PROVE ScanTypes'
  BY <1>5, <1>6, PairsStrangers
<1>7. ASSUME Tick PROVE ScanTypes'
  BY <1>7 DEF Tick
<1>8. ASSUME NEW s \in Session, Arrive(s) \/ Depart(s) PROVE ScanTypes'
  BY <1>8 DEF Arrive, Depart, scanVars
<1>9. ASSUME ScanBegin \/ WalkEnd \/ ScanEnd \/ UNCHANGED mvars PROVE ScanTypes'
  BY <1>9 DEF ScanBegin, WalkEnd, ScanEnd, mvars
<1> QED
  BY <1>1, <1>3, <1>4, <1>6, <1>7, <1>8, <1>9 DEF MNext, Scan

\* Taking a candidate out of the index touches the entries of its own session
\* only, which byID forgets in the same step.
LEMMA ForgottenIndex ==
  ASSUME MatcherInv, NEW a \in Session, NEW b \in Session,
         byID' = [byID EXCEPT ![a] = 0, ![b] = 0],
         \A g \in Tag, v \in Session : v \notin {a, b} /\ v \in tagIndex[g] => v \in tagIndex'[g],
         tags' = tags
  PROVE  IndexComplete'
<1> SUFFICES ASSUME NEW v \in Session, byID'[v] # 0, NEW g \in tags'[byID'[v]]
             PROVE  v \in tagIndex'[g]
  BY DEF IndexComplete
<1>0. byID \in [Session -> Ticket \cup {0}]
  BY DEF MatcherInv, QueueInv, TypeOK
<1>1. v \notin {a, b} /\ byID'[v] = byID[v] /\ byID[v] # 0
  BY <1>0
<1>2. byID[v] \in Ticket
  BY <1>0, <1>1
<1>3. g \in Tag
  BY <1>1, <1>2 DEF MatcherInv, ScanTypes
<1> QED
  BY <1>1, <1>3 DEF MatcherInv, IndexComplete

\* The owner of the candidate in byID is the session it is found under.
LEMMA IndexOwner ==
  ASSUME QueueInv, NEW s \in Session, byID[s] # 0
  PROVE  byID[s] \in Ticket /\ owner[byID[s]] = s
BY DEF QueueInv, TypeOK, PendingOpen, IndexedIsQueued

LEMMA IndexCompleteStep ==
  ASSUME MatcherInv, [MNext]_mvars
  PROVE  IndexComplete'
<1> USE DEF MatcherInv
<1>0. byID \in [Session -> Ticket \cup {0}] /\ owner \in [Ticket -> Session \cup {Nil}]
  BY DEF QueueInv, TypeOK
<1>1. ASSUME NEW s \in Session, NEW gs \in SUBSET Tag, EnqueueTagged(s, gs)
      PROVE  IndexComplete'
  <2>1. PICK n \in Ticket : n = issued + 1
    BY <1>1, MatchQueueAssumption DEF EnqueueTagged, Enqueue, QueueInv, TypeOK, Ticket
  <2>2. /\ byID' = [byID EXCEPT ![s] = n]
        /\ tags' = [tags EXCEPT ![n] = gs]
        /\ tagIndex' = [g \in Tag |-> IF g \in gs THEN tagIndex[g] \cup {s} ELSE tagIndex[g]]
    BY <1>1, <2>1 DEF EnqueueTagged, Enqueue
  <2>3. SUFFICES ASSUME NEW v \in Session, byID'[v] # 0, NEW g \in tags'[byID'[v]]
                 PROVE  v \in tagIndex'[g]
    BY DEF IndexComplete
  <2>4. CASE v = s
    <3>1. byID'[v] = n /\ g \in gs
      BY <1>0, <2>2, <2>4 DEF ScanTypes
    <3> QED
      BY <2>2, <2>4, <3>1
  <2>5. CASE v # s
    <3>0. byID'[v] = byID[v]
      BY <1>0, <2>2, <2>5
    <3>1. byID'[v] = byID[v] /\ byID[v] # 0 /\ byID[v] \in Ticket
      BY <1>0, <2>3, <3>0
    <3>2. byID[v] # n
      BY <2>1, <3>1, MatchQueueAssumption DEF QueueInv, IndexedIsQueued, DrawnInOrder, TypeOK
    <3>3. g \in tags[byID[v]] /\ tags[byID[v]] \in SUBSET Tag
      BY <2>2, <3>1, <3>2 DEF ScanTypes
    <3>4. v \in tagIndex[g] /\ g \in Tag
      BY <3>1, <3>3 DEF IndexComplete
    <3> QED
      BY <2>2, <3>4
  <2> QED
    BY <2>4, <2>5
<1>2. ASSUME NEW t, NEW g \in Tag, NEW v \in tagIndex[g], v # owner[t]
      PROVE  v \in Unindexed(t)[g]
  BY <1>2 DEF Unindexed
<1>3. ASSUME NEW s \in Session, Cancel(s) PROVE IndexComplete'
  <2>1. CASE byID[s] = 0
    BY <1>3, <2>1 DEF Cancel, Remove, IndexComplete
  <2>2. CASE byID[s] # 0
    <3>1. /\ byID' = [byID EXCEPT ![s] = 0]
          /\ tags' = tags
          /\ tagIndex' = Unindexed(byID[s])
      BY <1>3, <2>2 DEF Cancel, Remove, Forget
    <3>2. owner[byID[s]] = s
      BY <2>2, IndexOwner
    <3>3. \A g \in Tag, v \in Session : v \notin {s, s} /\ v \in tagIndex[g] => v \in tagIndex'[g]
      BY <1>2, <3>1, <3>2
    <3>4. byID' = [byID EXCEPT ![s] = 0, ![s] = 0]
      BY <1>0, <3>1
    <3> QED
      BY <3>1, <3>3, <3>4, ForgottenIndex
  <2> QED
    BY <2>1, <2>2
<1>4. ASSUME WalkOn PROVE IndexComplete'
  <2>1. CASE UNCHANGED <<vars, tagIndex>>
    BY <1>4, <2>1 DEF WalkOn, IndexComplete, vars
  <2>2. CASE \E t : DropDead(t) /\ tagIndex' = Unindexed(t)
    <3>1. PICK t : DropDead(t) /\ tagIndex' = Unindexed(t)
      BY <2>2
    <3>2. owner[t] \in Session
      BY <3>1 DEF DropDead, QueueInv, DrawnInOrder
    <3>3. byID' = [byID EXCEPT ![owner[t]] = 0] /\ tags' = tags
      BY <1>4, <3>1 DEF DropDead, Forget, WalkOn
    <3>4. \A g \in Tag, v \in Session :
            v \notin {owner[t], owner[t]} /\ v \in tagIndex[g] => v \in tagIndex'[g]
      BY <1>2, <3>1
    <3>5. byID' = [byID EXCEPT ![owner[t]] = 0, ![owner[t]] = 0]
      BY <1>0, <3>2, <3>3
    <3> QED
      BY <3>2, <3>3, <3>4, <3>5, ForgottenIndex
  <2> QED
    BY <1>4, <2>1, <2>2 DEF WalkOn
<1>5. ASSUME PairBest \/ PairOverdue PROVE IndexComplete'
  <2>1. PICK t \in queue, u \in Ticket :
          /\ owner[t] \in Session /\ owner[u] \in Session /\ owner[t] # owner[u]
          /\ PairTickets(t, u)
    BY <1>5, PairsStrangers
  <2>2. /\ byID' = [byID EXCEPT ![owner[t]] = 0, ![owner[u]] = 0]
        /\ tags' = tags
        /\ tagIndex' = [g \in Tag |-> Unindexed(t)[g] \cap Unindexed(u)[g]]
    BY <2>1 DEF PairTickets, PairUp, PairAs
  <2>3. \A g \in Tag, v \in Session :
          v \notin {owner[t], owner[u]} /\ v \in tagIndex[g] => v \in tagIndex'[g]
    BY <1>2, <2>2
  <2> QED
    BY <2>1, <2>2, <2>3, ForgottenIndex
<1>6. CASE UNCHANGED <<byID, tags, tagIndex>>
  BY <1>6 DEF IndexComplete
<1>7. ASSUME NEW s \in Session, Arrive(s) \/ Depart(s) PROVE UNCHANGED <<byID, tags, tagIndex>>
  BY <1>7 DEF Arrive, Depart, Join, Leave
<1>8. ASSUME ScanBegin \/ WalkEnd \/ ScanEnd \/ Tick \/ UNCHANGED mvars
      PROVE  UNCHANGED <<byID, tags, tagIndex>>
  BY <1>8 DEF ScanBegin, WalkEnd, ScanEnd, Tick, mvars, vars
<1> QED
  BY <1>1, <1>3, <1>4, <1>5, <1>6, <1>7, <1>8 DEF MNext, Scan

LEMMA MInitInv == MInit => MatcherInv
<1>1. MInit => QueueInv
  BY QInitInv DEF MInit
<1> QED
  BY <1>1 DEF MInit, Init, MatcherInv, ScanTypes, IndexComplete

LEMMA MStepInv == MatcherInv /\ [MNext]_mvars => MatcherInv'
  BY MatcherIsQueue, QNextInv, ScanTypesStep, IndexCompleteStep DEF MatcherInv

LEMMA MAlwaysInv == MSpec => []MatcherInv
  BY MInitInv, MStepInv, PTL DEF MSpec

\* A candidate that byID knows is found under every one of its tags.
THEOREM IndexMissesNobody == MSpec => []IndexComplete
<1>1. MatcherInv => IndexComplete
  BY DEF MatcherInv
<1> QED
  BY <1>1, MAlwaysInv, PTL

\* The scan implements the bookkeeping, and with it what is proved of that.
THEOREM ScanIsPairing == MSpec => Spec
<1>1. MInit => Init
  BY DEF MInit
<1> QED
  BY <1>1, MatcherIsQueue, MAlwaysInv, PTL DEF MSpec, Spec

\* A real scan never sends on a channel that is closed or full, and its maps agree.
THEOREM ScanUsesChannelsOnce == MSpec => [](PendingOpen /\ IndexedIsQueued)
  BY ScanIsPairing, ChannelsUsedOnce, MapsAgree, PTL

\* Callers that keep to one search at a time get from a real scan what
\* match.Matcher promises.
THEOREM ScanKeepsContract == OneAtATime /\ MSpec => ContractSpec
  BY ScanIsPairing, ContractKept, PTL
----------------------------------------------------------------------------
(* The policy of a scan, for sessions that keep to one search at a time.    *)

LEMMA OverlapFacts ==
  ASSUME MatcherInv, NEW t \in Ticket, NEW u \in Ticket
  PROVE  /\ Overlap(t, u) \in Nat
         /\ Overlap(t, u) > 0 <=> tags[t] \cap tags[u] # {}
         /\ Cardinality(Tag) \in Nat /\ Overlap(t, u) <= Cardinality(Tag)
<1>1. tags[t] \cap tags[u] \in SUBSET Tag
  BY DEF MatcherInv, ScanTypes
<1>2. IsFiniteSet(tags[t] \cap tags[u]) /\ Overlap(t, u) <= Cardinality(Tag)
  BY <1>1, MatcherAssumption, FS_Subset DEF Overlap
<1>3. Overlap(t, u) \in Nat /\ Cardinality(Tag) \in Nat
  BY <1>2, MatcherAssumption, FS_CardinalityType DEF Overlap
<1>4. Overlap(t, u) = 0 <=> tags[t] \cap tags[u] = {}
  BY <1>2, FS_EmptySet DEF Overlap
<1> QED
  BY <1>2, <1>3, <1>4

LEMMA QueueIsTickets ==
  ASSUME MatcherInv, NEW t \in queue
  PROVE  t \in Ticket /\ t \in Nat /\ owner[t] \in Session /\ at[t] \in Nat
<1>1. t \in Ticket /\ owner[t] \in Session
  BY DEF MatcherInv, QueueInv, TypeOK, DrawnInOrder
<1>2. at[t] \in Nat
  BY <1>1 DEF MatcherInv, ScanTypes
<1> QED
  BY <1>1, <1>2, MatchQueueAssumption DEF Ticket

\* The detour over tags and sessions comes to the candidates of other sessions with
\* a tag in common, and to no others than those in the queue.
LEMMA FoundIsQueued ==
  ASSUME MatcherInv, OneEach, NEW t \in queue
  PROVE  /\ \A u \in Found(t) : u \in queue /\ owner[u] # owner[t]
         /\ \A u \in queue : owner[u] # owner[t] /\ Overlap(t, u) > 0 => u \in Found(t)
<1>1. ASSUME NEW u \in Found(t) PROVE u \in queue /\ owner[u] # owner[t]
  <2>1. /\ u \in Ticket /\ owner[u] \in Session /\ owner[u] # owner[t] /\ byID[owner[u]] = u
        /\ u # 0
    BY QueueIsTickets, FoundIsOther, MatchQueueAssumption DEF Ticket
  <2>2. PICK w \in queue : owner[w] = owner[u]
    BY <2>1 DEF MatcherInv, QueueInv, IndexedIsQueued, TicketsOf
  <2> QED
    BY <2>1, <2>2 DEF OneEach
<1>2. ASSUME NEW u \in queue, owner[u] # owner[t], Overlap(t, u) > 0 PROVE u \in Found(t)
  <2>1. u \in Ticket /\ u # 0 /\ t \in Ticket /\ owner[u] \in Session /\ byID[owner[u]] = u
    BY QueueIsTickets, MatchQueueAssumption DEF OneEach, Ticket
  <2>2. PICK g \in tags[t] : g \in tags[u]
    BY <1>2, <2>1, OverlapFacts
  <2>3. owner[u] \in tagIndex[g]
    BY <2>1, <2>2 DEF MatcherInv, IndexComplete
  <2>4. owner[u] \in (UNION {tagIndex[h] : h \in tags[t]}) \ {owner[t]}
    BY <1>2, <2>2, <2>3
  <2> QED
    BY <2>1, <2>4 DEF Found
<1> QED
  BY <1>1, <1>2

\* Who finds somebody with a tag in common has a best partner.
LEMMA BestPartnerExists ==
  ASSUME MatcherInv, NEW t \in Ticket, NEW w \in Found(t), Overlap(t, w) > 0
  PROVE  BestPartners(t) # {}
<1> DEFINE f == [u \in Found(t) |-> Cardinality(Tag) - Overlap(t, u)]
<1>1. \A u \in Found(t) : u \in Ticket /\ at[u] \in Nat
  BY FoundIsOther DEF MatcherInv, ScanTypes
<1>2. \A u \in Found(t) : /\ Overlap(t, u) \in Nat
                          /\ Cardinality(Tag) \in Nat /\ Overlap(t, u) <= Cardinality(Tag)
  BY <1>1, OverlapFacts
<1>3. f \in [Found(t) -> Nat]
  BY <1>2
<1> HIDE DEF f
<1>4. PICK x \in Found(t) : \A u \in Found(t) : f[x] <= f[u]
  BY <1>3, LeastValue
<1>5. \A u \in Found(t) : Overlap(t, u) <= Overlap(t, x)
  BY <1>2, <1>4 DEF f
<1> DEFINE M == {u \in Found(t) : Overlap(t, u) = Overlap(t, x)}
           g == [u \in M |-> at[u]]
<1>6. g \in [M -> Nat] /\ x \in M
  BY <1>1
<1> HIDE DEF g
<1>7. PICK y \in M : \A u \in M : g[y] <= g[u]
  BY <1>6, LeastValue
<1>8. \A u \in M : at[y] <= at[u]
  BY <1>7 DEF g
<1>9. ASSUME NEW v \in Found(t)
      PROVE  \/ Overlap(t, v) < Overlap(t, y)
             \/ Overlap(t, v) = Overlap(t, y) /\ at[y] <= at[v]
  BY <1>2, <1>5, <1>8
<1>10. Overlap(t, y) > 0
  BY <1>2, <1>5
<1>11. y \in BestPartners(t)
  BY <1>9, <1>10 DEF BestPartners
<1> QED
  BY <1>11

\* The score of a candidate is what it has in common with the best partner.
LEMMA ScoreFacts ==
  ASSUME MatcherInv, NEW t \in Ticket
  PROVE  /\ Score(t) \in Nat /\ Score(t) <= Cardinality(Tag)
         /\ \A u \in BestPartners(t) : Score(t) = Overlap(t, u)
         /\ \A v \in Found(t) : Overlap(t, v) <= Score(t)
<1>1. \A u \in Found(t) : /\ u \in Ticket /\ Overlap(t, u) \in Nat
                          /\ Overlap(t, u) <= Cardinality(Tag)
  BY FoundIsOther, OverlapFacts
<1>2. Cardinality(Tag) \in Nat
  BY MatcherAssumption, FS_CardinalityType
<1>3. CASE BestPartners(t) = {}
  <2>1. {Overlap(t, u) : u \in BestPartners(t)} \cup {0} = {0}
    BY <1>3
  <2>2. Score(t) = 0
    BY <2>1 DEF Score, Max
  <2>3. \A v \in Found(t) : Overlap(t, v) = 0
    BY <1>1, <1>3, BestPartnerExists
  <2> QED
    BY <1>2, <1>3, <2>2, <2>3
<1>4. CASE BestPartners(t) # {}
  <2>1. PICK u : u \in BestPartners(t)
    BY <1>4
  <2>2. u \in Found(t) /\ Overlap(t, u) > 0 /\ \A v \in Found(t) : Overlap(t, v) <= Overlap(t, u)
    BY <1>1, <2>1 DEF BestPartners
  <2>3. \A v \in BestPartners(t) : Overlap(t, v) = Overlap(t, u)
    BY <1>1, <2>1 DEF BestPartners
  <2>4. {Overlap(t, v) : v \in BestPartners(t)} \cup {0} = {Overlap(t, u), 0}
    BY <2>1, <2>3
  <2>5. Score(t) = Overlap(t, u)
    <3>1. \E x \in {Overlap(t, u), 0} : \A y \in {Overlap(t, u), 0} : x >= y
      BY <1>1, <2>2
    <3> QED
      BY <1>1, <2>2, <2>4, <3>1 DEF Score, Max
  <2> QED
    BY <1>1, <2>2, <2>3, <2>5
<1> QED
  BY <1>3, <1>4

\* As long as somebody has a partner, somebody is the best seeker.
LEMMA SeekerExists ==
  ASSUME MatcherInv, NEW w \in queue, Score(w) > 0
  PROVE  BestSeeker # {}
<1> DEFINE f == [u \in queue |-> Cardinality(Tag) - Score(u)]
<1>1. \A u \in queue : u \in Ticket /\ u \in Nat /\ at[u] \in Nat
  BY QueueIsTickets
<1>2. \A u \in queue : /\ Score(u) \in Nat
                      /\ Cardinality(Tag) \in Nat /\ Score(u) <= Cardinality(Tag)
  BY <1>1, ScoreFacts, MatcherAssumption, FS_CardinalityType
<1>3. f \in [queue -> Nat]
  BY <1>2
<1> HIDE DEF f
<1>4. PICK x \in queue : \A u \in queue : f[x] <= f[u]
  BY <1>3, LeastValue
<1>5. \A u \in queue : Score(u) <= Score(x)
  BY <1>2, <1>4 DEF f
<1> DEFINE M == {u \in queue : Score(u) = Score(x)}
           g == [u \in M |-> at[u]]
<1>6. g \in [M -> Nat] /\ x \in M
  BY <1>1
<1> HIDE DEF g
<1>7. PICK y \in M : \A u \in M : g[y] <= g[u]
  BY <1>6, LeastValue
<1>8. \A u \in M : at[y] <= at[u]
  BY <1>7 DEF g
<1> DEFINE L == {u \in M : at[u] = at[y]}
<1>9. L \subseteq Nat /\ y \in L
  BY <1>1
<1>10. PICK t \in L : \A u \in L : t <= u
  BY <1>9, SmallestExists
<1>11. ASSUME NEW u \in queue \ {t}
       PROVE  \/ Score(u) < Score(t)
              \/ Score(u) = Score(t) /\ (at[t] < at[u] \/ (at[t] = at[u] /\ t < u))
  <2>1. Score(u) <= Score(t)
    BY <1>5
  <2>2. Score(u) = Score(t) => at[t] <= at[u]
    BY <1>8
  <2>3. Score(u) = Score(t) /\ at[u] = at[t] => t <= u
    BY <1>10
  <2> QED
    BY <1>1, <1>2, <2>1, <2>2, <2>3
<1>12. Score(t) > 0
  BY <1>2, <1>5
<1>13. t \in BestSeeker
  BY <1>11, <1>12 DEF BestSeeker
<1> QED
  BY <1>13

\* When no seeker is left, nobody waits beside somebody with a tag in common.
LEMMA NoSeekerNoOverlap ==
  ASSUME MatcherInv, OneEach, BestSeeker = {}, NEW t \in queue, NEW u \in queue,
         owner[t] # owner[u]
  PROVE  Overlap(t, u) = 0
<1>1. t \in Ticket /\ u \in Ticket
  BY QueueIsTickets
<1>2. Overlap(t, u) \in Nat
  BY <1>1, OverlapFacts
<1>3. Overlap(t, u) > 0 => u \in Found(t)
  BY FoundIsQueued
<1>4. Score(t) = 0
  BY <1>1, ScoreFacts, SeekerExists
<1>5. \A v \in Found(t) : Overlap(t, v) <= Score(t)
  BY <1>1, ScoreFacts
<1> QED
  BY <1>2, <1>3, <1>4, <1>5

LEMMA ScanEndLeavesNoPair ==
  ASSUME MatcherInv, OneEach, ScanEnd, NEW t \in queue, NEW u \in queue, owner[t] # owner[u]
  PROVE  Overlap(t, u) = 0 /\ now - at[t] < Timeout
<1>1. Overlap(t, u) = 0
  BY NoSeekerNoOverlap DEF ScanEnd
<1>2. t \notin Overdue
  BY DEF ScanEnd, Others
<1>3. at[t] \in Nat /\ now \in Nat /\ Timeout \in Nat
  BY QueueIsTickets, MatcherAssumption DEF MatcherInv, ScanTypes
<1> QED
  BY <1>1, <1>2, <1>3 DEF Overdue

\* The end of a scan leaves nobody in the queue who could have been paired, whatever
\* the tags and however many wait: the greedy search never stops too early.
THEOREM ScanIsThorough == MSpec => ScanLeavesNoPair
<1>1. ASSUME MatcherInv, [MNext]_mvars, phase = "pair", phase' = "free"
      PROVE  ScanEnd
  <2>1. ~UNCHANGED phase
    BY <1>1
  <2>2. ASSUME NEW s, Arrive(s) \/ Depart(s) \/ Cancel(s) \/ \E gs : EnqueueTagged(s, gs)
        PROVE  UNCHANGED phase
    BY <2>2 DEF Arrive, Depart, Cancel, EnqueueTagged, scanVars
  <2>3. ASSUME WalkOn \/ Tick \/ PairBest \/ PairOverdue \/ UNCHANGED mvars PROVE UNCHANGED phase
    BY <2>3 DEF WalkOn, Tick, PairBest, PairOverdue, PairTickets, mvars, scanVars
  <2>4. ~ScanBegin /\ ~WalkEnd
    BY <1>1 DEF ScanBegin, WalkEnd
  <2> QED
    BY <1>1, <2>1, <2>2, <2>3, <2>4 DEF MNext, Scan
<1>2. ASSUME MatcherInv, [MNext]_mvars, phase = "pair", phase' = "free", OneEach,
             NEW t \in queue, NEW u \in queue, owner[t] # owner[u]
      PROVE  Overlap(t, u) = 0 /\ now - at[t] < Timeout
  BY <1>1, <1>2, ScanEndLeavesNoPair
<1>3. MatcherInv /\ [MNext]_mvars =>
        [phase = "pair" /\ phase' = "free" /\ OneEach =>
           \A t, u \in queue :
             owner[t] # owner[u] => Overlap(t, u) = 0 /\ now - at[t] < Timeout]_mvars
  BY <1>2
<1> QED
  BY <1>3, MAlwaysInv, PTL DEF MSpec, ScanLeavesNoPair

\* A channel is answered only by a pairing.
LEMMA OnlyPairsAnswer ==
  ASSUME MatcherInv, [MNext]_mvars, NEW t \in Ticket, chan[t] = "open", chan'[t] = "sent"
  PROVE  PairBest \/ PairOverdue
<1>1. chan' # chan
  OBVIOUS
<1>2. ASSUME NEW s \in Session, CloseChannel(s) PROVE FALSE
  BY <1>2 DEF CloseChannel
<1>3. ASSUME NEW s \in Session, NEW gs, EnqueueTagged(s, gs) PROVE FALSE
  <2>1. chan' = [chan EXCEPT ![issued + 1] = "open"]
    BY <1>3 DEF EnqueueTagged, Enqueue
  <2>2. chan'[t] = "open" \/ chan'[t] = chan[t]
    BY <2>1 DEF MatcherInv, QueueInv, TypeOK
  <2> QED
    BY <2>2
<1>4. ASSUME NEW s \in Session, Arrive(s) \/ Depart(s) PROVE FALSE
  BY <1>1, <1>4 DEF Arrive, Depart, Join, Leave
<1>5. ASSUME NEW s \in Session, Cancel(s) PROVE FALSE
  BY <1>1, <1>2, <1>5 DEF Cancel, Remove
<1>6. ASSUME WalkOn PROVE FALSE
  <2>1. \A u : DropDead(u) => owner[u] \in Session /\ CloseChannel(owner[u])
    BY DEF DropDead, MatcherInv, QueueInv, DrawnInOrder
  <2> QED
    BY <1>1, <1>2, <1>6, <2>1 DEF WalkOn, vars
<1>7. ASSUME ScanBegin \/ WalkEnd \/ ScanEnd \/ Tick \/ UNCHANGED mvars PROVE FALSE
  BY <1>1, <1>7 DEF ScanBegin, WalkEnd, ScanEnd, Tick, mvars, vars
<1> QED
  BY <1>3, <1>4, <1>5, <1>6, <1>7 DEF MNext, Scan

\* With one search each, the channels that a pairing answers are those of the two
\* candidates it has chosen.
LEMMA AnsweredAreChosen ==
  ASSUME MatcherInv, OneEach, NEW a \in queue, NEW b \in queue, PairTickets(a, b),
         NEW t \in Ticket, NEW u \in Ticket, Paired(t, u)
  PROVE  {t, u} = {a, b}
<1>1. a \in Ticket /\ b \in Ticket /\ owner[a] \in Session /\ owner[b] \in Session
  BY QueueIsTickets
<1>2. pending[owner[a]] = a /\ pending[owner[b]] = b
  BY <1>1 DEF OneEach, MatcherInv, QueueInv, IndexedIsQueued
<1>3. chan' = [x \in Ticket |-> IF x \in PendingOf(owner[a], owner[b]) THEN "sent" ELSE chan[x]]
  BY DEF PairTickets, PairUp, PairAs
<1>4. \A x \in Ticket : chan'[x] = "sent" => chan[x] = "sent" \/ x \in {a, b}
  BY <1>2, <1>3 DEF PendingOf
<1>5. /\ chan[t] = "open" /\ chan'[t] = "sent"
      /\ chan[u] = "open" /\ chan'[u] = "sent" /\ t # u
  BY DEF Paired
<1> QED
  BY <1>4, <1>5

LEMMA BestPairStep ==
  ASSUME MatcherInv, [MNext]_mvars, OneEach, NEW t \in Ticket, NEW u \in Ticket, Paired(t, u)
  PROVE  /\ \A v, w \in queue : owner[v] # owner[w] => Overlap(v, w) <= Overlap(t, u)
         /\ Overlap(t, u) = 0 => {t, u} \cap Overdue # {}
<1>0. \A v, w \in queue : Overlap(v, w) \in Nat /\ Overlap(v, w) = Overlap(w, v)
  <2>1. ASSUME NEW v \in queue, NEW w \in queue
        PROVE  Overlap(v, w) \in Nat /\ Overlap(v, w) = Overlap(w, v)
    <3>1. tags[v] \cap tags[w] = tags[w] \cap tags[v]
      OBVIOUS
    <3> QED
      BY <3>1, QueueIsTickets, OverlapFacts DEF Overlap
  <2> QED
    BY <2>1
<1>1. PairBest \/ PairOverdue
  BY OnlyPairsAnswer DEF Paired
<1>2. CASE PairBest
  <2>1. PICK a \in BestSeeker : \E x \in BestPartners(a) : PairTickets(a, x)
    BY <1>2 DEF PairBest
  <2>2. PICK b \in BestPartners(a) : PairTickets(a, b)
    BY <2>1
  <2>3. a \in queue /\ Score(a) > 0 /\ b \in Found(a) /\ \A v \in queue : Score(v) <= Score(a)
    <3>1. a \in queue /\ Score(a) > 0 /\ b \in Found(a)
      BY <2>1 DEF BestSeeker, BestPartners
    <3>2. ASSUME NEW v \in queue PROVE Score(v) <= Score(a)
      <4>1. Score(v) \in Nat /\ Score(a) \in Nat
        BY <3>1, QueueIsTickets, ScoreFacts
      <4>2. v = a \/ Score(v) < Score(a) \/ Score(v) = Score(a)
        BY <2>1 DEF BestSeeker
      <4> QED
        BY <4>1, <4>2
    <3> QED
      BY <3>1, <3>2
  <2>4. b \in queue
    BY <2>3, FoundIsQueued
  <2>5. {t, u} = {a, b} /\ Overlap(t, u) = Overlap(a, b)
    <3>1. {t, u} = {a, b}
      BY <2>2, <2>3, <2>4, AnsweredAreChosen
    <3> QED
      BY <1>0, <2>3, <2>4, <3>1
  <2>6. Overlap(a, b) = Score(a)
    BY <2>2, <2>3, QueueIsTickets, ScoreFacts
  <2>7. ASSUME NEW v \in queue, NEW w \in queue, owner[v] # owner[w]
        PROVE  Overlap(v, w) <= Score(a)
    <3>1. Score(v) \in Nat /\ Score(a) \in Nat /\ \A x \in Found(v) : Overlap(v, x) <= Score(v)
      BY <2>3, QueueIsTickets, ScoreFacts
    <3>2. Overlap(v, w) > 0 => w \in Found(v)
      BY <2>7, FoundIsQueued
    <3> QED
      BY <1>0, <2>3, <3>1, <3>2
  <2> QED
    BY <2>3, <2>5, <2>6, <2>7
<1>3. CASE PairOverdue
  <2>1. PICK a \in Overdue : Others(a) # {} /\ PairTickets(a, Min(Others(a)))
    BY <1>3 DEF PairOverdue
  <2>2. a \in queue /\ Others(a) \subseteq Nat
    BY <2>1, QueueIsTickets DEF Overdue, Others
  <2>3. PICK b \in Others(a) : b = Min(Others(a))
    BY <2>1, <2>2, MinOfNat
  <2>4. b \in queue /\ owner[b] # owner[a]
    BY <2>3 DEF Others
  <2>5. {t, u} = {a, b}
    BY <2>1, <2>2, <2>3, <2>4, AnsweredAreChosen
  <2>6. \A v, w \in queue : owner[v] # owner[w] => Overlap(v, w) = 0
    BY <1>3, NoSeekerNoOverlap DEF PairOverdue
  <2>7. t \in queue /\ u \in queue /\ Overlap(t, u) \in Nat
    BY <1>0, <2>2, <2>4, <2>5
  <2> QED
    BY <2>1, <2>5, <2>6, <2>7
<1> QED
  BY <1>1, <1>2, <1>3

\* Every pair a scan makes is the best there is at that moment, among candidates of
\* any number and with any tags; strangers are paired after the timeout only.
THEOREM BestPairsComeFirst == MSpec => BestPairFirst
<1>1. MatcherInv /\ [MNext]_mvars =>
        [\A t, u \in Ticket :
           Paired(t, u) /\ OneEach =>
             /\ \A v, w \in queue : owner[v] # owner[w] => Overlap(v, w) <= Overlap(t, u)
             /\ Overlap(t, u) = 0 => {t, u} \cap Overdue # {}]_mvars
  BY BestPairStep
<1> QED
  BY <1>1, MAlwaysInv, PTL DEF MSpec, BestPairFirst
=============================================================================
