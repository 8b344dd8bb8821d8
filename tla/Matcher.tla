------------------------------ MODULE Matcher ------------------------------
(****************************************************************************)
(* Which candidates match.Memory pairs: the tags and waiting times of the   *)
(* queued candidates, the index of tags, and the scan of the loop goroutine *)
(* over the bookkeeping of MatchQueue.                                      *)
(*                                                                          *)
(* A scan holds Memory.mu from its first step to its last, so that nobody   *)
(* enters or leaves the queue meanwhile; sessions come and go all the same. *)
(* It drops the dead one candidate at a time, pairs by common tags, best    *)
(* pair first, until no pair is left, and then pairs those who have waited  *)
(* long enough with anybody.  The code takes paired candidates out of the   *)
(* queue when the scan ends and skips them until then; here they leave at   *)
(* once.  A scan takes no time on the clock of this module.                 *)
(****************************************************************************)
EXTENDS MatchQueue, FiniteSetsExt

CONSTANTS
  Tag,
  Timeout,   \* Memory.timeout
  LastTick   \* bound on the clock

ASSUME MatcherAssumption == Timeout \in Nat /\ LastTick \in Nat /\ IsFiniteSet(Tag)

VARIABLES
  tags,      \* ticket -> Candidate.Tags
  at,        \* ticket -> Candidate.EnqueuedAt
  tagIndex,  \* Memory.tagIndex: tag -> sessions
  phase,     \* of the loop goroutine: "free", "drop" or "pair"
  walked,    \* the last candidate the walk over the dead has come to
  now

scanVars == <<phase, walked>>
mvars == <<vars, tags, at, tagIndex, scanVars, now>>
----------------------------------------------------------------------------
MInit ==
  /\ Init
  /\ tags = [t \in Ticket |-> {}]
  /\ at = [t \in Ticket |-> 0]
  /\ tagIndex = [g \in Tag |-> {}]
  /\ phase = "free"
  /\ walked = 0
  /\ now = 0

Unlocked == phase = "free"

EnqueueFirstOfTag(s, gs) ==      \* only a new tag is indexed
  /\ Unlocked
  /\ now + Timeout <= LastTick
  /\ Enqueue(s)
  /\ tags' = [tags EXCEPT ![issued + 1] = gs]
  /\ at' = [at EXCEPT ![issued + 1] = now]
  /\ tagIndex' = [g \in Tag |-> IF g \in gs /\ tagIndex[g] = {} THEN {s} ELSE tagIndex[g]]
  /\ UNCHANGED <<scanVars, now>>

\* The candidate was stamped before its goroutine got the lock.  Nobody comes
\* when the clock has too little left for his timeout.
EnqueueTagged(s, gs) ==
  /\ Unlocked
  /\ now + Timeout <= LastTick
  /\ Enqueue(s)
  /\ tags' = [tags EXCEPT ![issued + 1] = gs]
  /\ \E stamp \in {now - 1, now} \cap Nat : at' = [at EXCEPT ![issued + 1] = stamp]
  /\ tagIndex' = [g \in Tag |-> IF g \in gs THEN tagIndex[g] \cup {s} ELSE tagIndex[g]]
  /\ UNCHANGED <<scanVars, now>>

\* The tag index forgets a session under the tags of one of its candidates.
Unindexed(t) ==
  [g \in Tag |-> IF g \in tags[t] THEN tagIndex[g] \ {owner[t]} ELSE tagIndex[g]]

Cancel(s) ==
  /\ Unlocked
  /\ Remove(s)
  /\ tagIndex' = IF byID[s] = 0 THEN tagIndex ELSE Unindexed(byID[s])
  /\ UNCHANGED <<tags, at, scanVars, now>>

ScanBegin ==
  /\ Unlocked
  /\ queue # {}                       \* a scan of nothing does nothing
  /\ phase' = "drop"
  /\ walked' = 0
  /\ UNCHANGED <<vars, tags, at, tagIndex, now>>

ToWalk == {t \in queue : t > walked}

WalkOn ==
  /\ phase = "drop" /\ ToWalk # {}
  /\ LET t == Min(ToWalk) IN
       /\ walked' = t
       /\ IF owner[t] \in alive
            THEN UNCHANGED <<vars, tagIndex>>
            ELSE DropDead(t) /\ tagIndex' = Unindexed(t)
  /\ UNCHANGED <<tags, at, phase, now>>

WalkEnd ==
  /\ phase = "drop" /\ ToWalk = {}
  /\ phase' = "pair"
  /\ UNCHANGED <<vars, tags, at, tagIndex, walked, now>>

Overlap(t, u) == Cardinality(tags[t] \cap tags[u])

\* The candidates findBestPartnerLocked comes across: by tag to the session,
\* by session to its latest candidate.
Found(t) ==
  LET sharers == (UNION {tagIndex[g] : g \in tags[t]}) \ {owner[t]} IN
  {byID[v] : v \in sharers} \ {0}

\* Most tags in common, then the longest wait.  Of equal ones the order in
\* which a Go map is walked decides.
BestPartners(t) ==
  {u \in Found(t) :
     /\ Overlap(t, u) > 0
     /\ \A v \in Found(t) :
          \/ Overlap(t, v) < Overlap(t, u)
          \/ Overlap(t, v) = Overlap(t, u) /\ at[u] <= at[v]}

Score(t) == Max({Overlap(t, u) : u \in BestPartners(t)} \cup {0})

FirstSeeker ==                   \* the first of the queue with a partner
  {t \in queue : Score(t) > 0 /\ \A u \in queue : u < t => Score(u) = 0}

\* findGlobalBestPairLocked: the best score, then the longest wait, then the
\* place in the queue.
BestSeeker ==
  {t \in queue :
     /\ Score(t) > 0
     /\ \A u \in queue \ {t} :
          \/ Score(u) < Score(t)
          \/ Score(u) = Score(t) /\ (at[t] < at[u] \/ (at[t] = at[u] /\ t < u))}

\* pairLocked
PairTickets(t, u) ==
  /\ PairUp(owner[t], owner[u])
  /\ tagIndex' = [g \in Tag |-> Unindexed(t)[g] \cap Unindexed(u)[g]]
  /\ UNCHANGED <<tags, at, scanVars, now>>

PairBest ==
  /\ phase = "pair"
  /\ \E t \in BestSeeker : \E u \in BestPartners(t) : PairTickets(t, u)

NeverOverdue == {}               \* no fallback
OverdueStrict == {t \in queue : now - at[t] > Timeout}

Overdue == {t \in queue : now - at[t] >= Timeout}

Others(t) == {u \in queue : owner[u] # owner[t]}

\* applyTimeoutFallbacksLocked, once no pair has a tag in common: in the order
\* of the queue, with the first other candidate.  Who finds none leaves none
\* for those after him.
PairOverdue ==
  /\ phase = "pair" /\ BestSeeker = {}
  /\ \E t \in Overdue :
       /\ \A u \in Overdue : t <= u
       /\ Others(t) # {}
       /\ PairTickets(t, Min(Others(t)))

ScanEnd ==
  /\ phase = "pair" /\ BestSeeker = {}
  /\ \A t \in Overdue : Others(t) = {}
  /\ phase' = "free"
  /\ walked' = 0
  /\ UNCHANGED <<vars, tags, at, tagIndex, now>>

Tick ==
  /\ Unlocked
  /\ now < LastTick
  /\ now' = now + 1
  /\ UNCHANGED <<vars, tags, at, tagIndex, scanVars>>

\* session.Registry is not under the lock.
Arrive(s) == Join(s) /\ UNCHANGED <<tags, at, tagIndex, scanVars, now>>
Depart(s) == Leave(s) /\ UNCHANGED <<tags, at, tagIndex, scanVars, now>>

Scan == ScanBegin \/ WalkOn \/ WalkEnd \/ PairBest \/ PairOverdue \/ ScanEnd

MNext ==
  \/ \E s \in Session : (\A t \in Ticket : owner[t] # s) /\ Arrive(s)
  \/ \E s \in Session : Depart(s)
  \/ \E s \in Session, gs \in SUBSET Tag : SearchAllowed(s) /\ EnqueueTagged(s, gs)
  \/ \E s \in Session : Cancel(s)
  \/ Scan
  \/ Tick

MSpec == MInit /\ [][MNext]_mvars

\* The ticker starts scans, a scan runs to its end, and time passes between
\* scans however many there are.
FairMSpec == MSpec /\ WF_mvars(Scan) /\ SF_mvars(Tick)
----------------------------------------------------------------------------
\* A candidate that byID knows can be found under every one of its tags,
\* whatever overlapping searches of its session have come and gone: the
\* detour over the index misses no partner.
IndexComplete ==
  \A s \in Session :
    byID[s] # 0 => \A g \in tags[byID[s]] : s \in tagIndex[g]

\* No session has overlapping searches in the queue: the maps, which are by
\* session, lead to every candidate.
OneEach == \A t \in queue : byID[owner[t]] = t

\* Two tickets that this step answers with one room.
Paired(t, u) == t # u /\ {chan[t], chan[u]} = {"open"} /\ chan'[t] = "sent" /\ chan'[u] = "sent"

\* With one search at a time, no pair is made while a pair of waiting candidates
\* has more tags in common, so that nobody loses a better partner to a worse
\* one; and strangers without a common tag are paired only if one of them has
\* waited for the timeout.
BestPairFirst ==
  [][\A t, u \in Ticket :
       Paired(t, u) /\ OneEach =>
         /\ \A v, w \in queue : owner[v] # owner[w] => Overlap(v, w) <= Overlap(t, u)
         /\ Overlap(t, u) = 0 => {t, u} \cap Overdue # {}]_mvars

\* When a scan ends, no two waiting candidates have a tag in common, and nobody
\* has waited for the timeout while anybody else is waiting, if the sessions
\* keep to one search at a time.
ScanLeavesNoPair ==
  [][phase = "pair" /\ phase' = "free" /\ OneEach =>
       \A t, u \in queue :
         owner[t] # owner[u] => Overlap(t, u) = 0 /\ now - at[t] < Timeout]_mvars

\* No two sessions wait side by side for ever: the timeout sees to it that one
\* of them is answered, or leaves.
NoEndlessWait ==
  \A pair \in {p \in SUBSET Session : Cardinality(p) = 2} :
    (\A s \in pair : TicketsOf(s) # {}) ~> (\E s \in pair : TicketsOf(s) = {})
=============================================================================
