----------------------------- MODULE LimitsProofs ----------------------------
(****************************************************************************)
(* AllowIsExact for every rate, burst and grain, and BannedIffReported for  *)
(* every threshold, window and ban, any number of addresses and reports, on *)
(* a clock without bound.                                                   *)
(*                                                                          *)
(* The bucket.  With the types of the variables AllowIsExact is inductive:  *)
(* a grant takes a token from Refilled and from LeftSince of every grant    *)
(* alike, and a tick adds to them alike, until the bucket is full.          *)
(****************************************************************************)
EXTENDS Limits, Integers, FiniteSetTheorems, SequenceTheorems, TLAPS

BucketTypeOK ==
  /\ now \in Nat
  /\ tokens \in 0 .. Full
  /\ lastFill \in 0 .. now
  /\ granted \in Seq(0 .. now)

BucketInv == BucketTypeOK /\ AllowIsExact

\* The products in the bounds are integers.
LEMMA FullNat == Full \in Nat
  BY BucketAssumption DEF Full

LEMMA Products ==
  /\ \A x \in Int : x * Rate \in Int /\ x * Grain \in Int
  /\ \A x \in Nat : x * Rate \in Nat
  BY BucketAssumption

\* What one more tick or one more grant does to them.
LEMMA OneMore ==
  ASSUME NEW x \in Int
  PROVE  /\ (x + 1) * Rate = x * Rate + Rate
         /\ (x + 1) * Grain = x * Grain + Grain
  BY BucketAssumption

\* Refilled is a natural number, and the bounds are integers.
LEMMA BoundsTyped ==
  ASSUME BucketTypeOK
  PROVE  /\ Uncapped \in Nat /\ Refilled \in Nat /\ Refilled <= Full
         /\ \A i \in DOMAIN granted : granted[i] \in 0 .. now /\ LeftSince(i) \in Int
<1>1. now - lastFill \in Nat
  BY DEF BucketTypeOK
<1>2. (now - lastFill) * Rate \in Nat
  BY <1>1, Products
<1>3. Uncapped \in Nat /\ Refilled \in Nat /\ Refilled <= Full
  BY <1>2, FullNat DEF BucketTypeOK, Uncapped, Refilled
<1>4. ASSUME NEW i \in DOMAIN granted
      PROVE  granted[i] \in 0 .. now /\ LeftSince(i) \in Int
  <2>1. /\ granted[i] \in 0 .. now
        /\ now - granted[i] \in Int /\ Len(granted) + 1 - i \in Int
    BY DEF BucketTypeOK
  <2>2. (now - granted[i]) * Rate \in Int /\ (Len(granted) + 1 - i) * Grain \in Int
    BY <2>1, Products
  <2>3. QED
    BY <2>1, <2>2, FullNat DEF LeftSince
<1>5. QED
  BY <1>3, <1>4

LEMMA BucketInitially == BucketInit => BucketInv
<1>1. SUFFICES ASSUME BucketInit PROVE BucketInv
  OBVIOUS
<1>2. BucketTypeOK
  BY <1>1, FullNat DEF BucketInit, BucketTypeOK
<1>3. Uncapped = Full
  BY <1>1, FullNat, BucketAssumption DEF BucketInit, Uncapped
<1>4. QED
  BY <1>1, <1>2, <1>3, FullNat DEF BucketInit, BucketInv, AllowIsExact, Refilled

\* Allow has filled the bucket up to now: what it leaves is what is there.
LEMMA AfterAllow ==
  ASSUME BucketInv, Allow, now' = now
  PROVE  BucketTypeOK' /\ Refilled' = tokens' /\ tokens' <= Full
<1>1. Refilled \in Nat /\ Refilled <= Full
  BY BoundsTyped DEF BucketInv
<1>2. tokens' \in 0 .. Full /\ lastFill' = now
  BY <1>1, FullNat, BucketAssumption DEF Allow, AllowFrom
<1>3. BucketTypeOK'
  <2>1. granted' \in Seq(0 .. now)
    <3>1. granted \in Seq(0 .. now) /\ now \in 0 .. now
      BY DEF BucketInv, BucketTypeOK
    <3>2. granted' = Append(granted, now) \/ granted' = granted
      BY DEF Allow, AllowFrom
    <3>3. QED
      BY <3>1, <3>2
  <2>2. Full' = Full
    BY DEF Full
  <2>3. QED
    BY <1>2, <2>1, <2>2 DEF BucketInv, BucketTypeOK
<1>4. (now - now) * Rate = 0
  BY BucketAssumption DEF BucketInv, BucketTypeOK
<1>5. Uncapped' = tokens'
  BY <1>2, <1>4, FullNat DEF Uncapped
<1>6. Full' = Full
  BY DEF Full
<1>7. QED
  BY <1>2, <1>3, <1>5, <1>6, FullNat DEF Refilled

LEMMA AllowKeepsInv ==
  ASSUME BucketInv, Allow, now' = now
  PROVE  BucketInv'
<1> USE DEF BucketInv
<1>1. BucketTypeOK' /\ Refilled' = tokens' /\ tokens' <= Full
  BY AfterAllow
<1>2. Full' = Full
  BY DEF Full
<1>3. CASE Refilled >= Grain
  <2>1. tokens' = Refilled - Grain /\ granted' = Append(granted, now)
    BY <1>3 DEF Allow, AllowFrom
  <2>2. /\ Len(granted) \in Nat /\ DOMAIN granted = 1 .. Len(granted)
        /\ Len(granted') = Len(granted) + 1 /\ DOMAIN granted' = 1 .. Len(granted) + 1
        /\ granted'[Len(granted) + 1] = now
        /\ \A i \in DOMAIN granted : granted'[i] = granted[i]
    BY <2>1 DEF BucketTypeOK
  <2>3. ASSUME NEW i \in DOMAIN granted
        PROVE  LeftSince(i)' = LeftSince(i) - Grain
    <3>1. (Len(granted) + 1 - i + 1) * Grain = (Len(granted) + 1 - i) * Grain + Grain
      BY <2>2, OneMore
    <3>2. Len(granted') + 1 - i = Len(granted) + 1 - i + 1
      BY <2>2
    <3>3. now - granted[i] \in Int /\ Len(granted) + 1 - i \in Int
      BY <2>2, BoundsTyped DEF BucketTypeOK
    <3>4. /\ (now - granted[i]) * Rate \in Int
          /\ (Len(granted) + 1 - i) * Grain \in Int
      BY <3>3, Products
    <3>5. LeftSince(i)' = Full + (now - granted[i]) * Rate - (Len(granted) + 1 - i + 1) * Grain
      BY <1>2, <2>2, <3>2 DEF LeftSince
    <3>6. QED
      BY <3>1, <3>4, <3>5, FullNat, BucketAssumption DEF LeftSince
  <2>4. ASSUME NEW i, i = Len(granted) + 1
        PROVE  LeftSince(i)' = Full - Grain
    <3>1. now - granted'[i] = 0 /\ Len(granted') + 1 - i = 1
      BY <2>2, <2>4 DEF BucketTypeOK
    <3>2. LeftSince(i)' = Full + 0 * Rate - 1 * Grain
      BY <1>2, <3>1 DEF LeftSince
    <3>3. QED
      BY <3>2, FullNat, BucketAssumption
  <2>5. \A i \in DOMAIN granted' : i \in DOMAIN granted \/ i = Len(granted) + 1
    BY <2>2
  <2>6. /\ Refilled \in Nat /\ Refilled <= Full
        /\ \A i \in DOMAIN granted : LeftSince(i) \in Int
    BY BoundsTyped
  <2>7. \A i \in DOMAIN granted' : Refilled' <= LeftSince(i)'
    <3>1. SUFFICES ASSUME NEW i \in DOMAIN granted'
                   PROVE  Refilled - Grain <= LeftSince(i)'
      BY <1>1, <2>1
    <3>2. CASE i = Len(granted) + 1
      BY <2>4, <2>6, <3>2, FullNat, BucketAssumption
    <3>3. CASE i \in DOMAIN granted
      <4>1. Refilled <= LeftSince(i)
        BY <3>3 DEF AllowIsExact
      <4>2. QED
        BY <2>3, <2>6, <3>3, <4>1, BucketAssumption
    <3>4. QED
      BY <2>5, <3>2, <3>3
  <2>8. \E i \in DOMAIN granted' : Refilled' = LeftSince(i)'
    <3>1. CASE Refilled = Full
      <4>1. PICK i \in DOMAIN granted' : i = Len(granted) + 1
        BY <2>2
      <4>2. QED
        BY <1>1, <2>1, <2>4, <3>1, <4>1
    <3>2. CASE \E i \in DOMAIN granted : Refilled = LeftSince(i)
      BY <1>1, <2>1, <2>2, <2>3, <3>2
    <3>3. QED
      BY <3>1, <3>2 DEF AllowIsExact
  <2>9. QED
    BY <1>1, <1>2, <2>7, <2>8 DEF AllowIsExact
<1>4. CASE ~(Refilled >= Grain)
  <2>1. tokens' = Refilled /\ granted' = granted
    BY <1>4 DEF Allow, AllowFrom
  <2>2. \A i : LeftSince(i)' = LeftSince(i)
    BY <1>2, <2>1 DEF LeftSince
  <2>3. QED
    BY <1>1, <1>2, <2>1, <2>2 DEF AllowIsExact
<1>5. QED
  BY <1>3, <1>4

LEMMA TickKeepsInv ==
  ASSUME BucketInv, Tick, UNCHANGED bucketVars
  PROVE  BucketInv'
<1> USE DEF BucketInv
<1>1. /\ now' = now + 1 /\ tokens' = tokens /\ lastFill' = lastFill /\ granted' = granted
      /\ Full' = Full
  BY DEF Tick, bucketVars, Full
<1>2. BucketTypeOK'
  BY <1>1 DEF BucketTypeOK
<1>3. Uncapped' = Uncapped + Rate
  <2>1. now' - lastFill = now - lastFill + 1
    BY <1>1 DEF BucketTypeOK
  <2>2. (now - lastFill + 1) * Rate = (now - lastFill) * Rate + Rate
    BY OneMore DEF BucketTypeOK
  <2>3. (now - lastFill) * Rate \in Int
    BY Products DEF BucketTypeOK
  <2>4. QED
    BY <1>1, <2>1, <2>2, <2>3, BucketAssumption DEF Uncapped, BucketTypeOK
<1>4. ASSUME NEW i \in DOMAIN granted
      PROVE  LeftSince(i)' = LeftSince(i) + Rate
  <2>1. granted[i] \in Int /\ now - granted[i] \in Int /\ Len(granted) + 1 - i \in Int
    BY BoundsTyped DEF BucketTypeOK
  <2>2. (now - granted[i] + 1) * Rate = (now - granted[i]) * Rate + Rate
    BY <2>1, OneMore DEF BucketTypeOK
  <2>3. now' - granted[i] = now - granted[i] + 1
    BY <1>1, <2>1 DEF BucketTypeOK
  <2>4. (now - granted[i]) * Rate \in Int /\ (Len(granted) + 1 - i) * Grain \in Int
    BY <2>1, Products
  <2>5. LeftSince(i)' = Full + (now - granted[i] + 1) * Rate - (Len(granted) + 1 - i) * Grain
    BY <1>1, <2>3 DEF LeftSince
  <2>6. QED
    BY <2>2, <2>4, <2>5, BucketAssumption, FullNat DEF LeftSince
<1>5. /\ Uncapped \in Nat /\ Rate \in Nat /\ Full \in Nat
      /\ \A i \in DOMAIN granted : LeftSince(i) \in Int
  BY BoundsTyped, FullNat, BucketAssumption
<1>6. Refilled' = IF Uncapped + Rate > Full THEN Full ELSE Uncapped + Rate
  BY <1>1, <1>3 DEF Refilled
<1>7. Refilled = IF Uncapped > Full THEN Full ELSE Uncapped
  BY DEF Refilled
<1>8. Refilled' <= Full /\ Refilled \in Nat /\ Refilled' \in Nat /\ Refilled' <= Refilled + Rate
  BY <1>5, <1>6, <1>7
<1>9. \A i \in DOMAIN granted : Refilled <= LeftSince(i)
  BY DEF AllowIsExact
<1>10. \A i \in DOMAIN granted : Refilled' <= LeftSince(i)'
  BY <1>4, <1>5, <1>8, <1>9
<1>11. Refilled' = Full \/ \E i \in DOMAIN granted : Refilled' = LeftSince(i)'
  <2>1. CASE Refilled = Full
    BY <1>5, <1>6, <1>7, <2>1
  <2>2. CASE \E i \in DOMAIN granted : Refilled = LeftSince(i)
    <3>1. PICK i \in DOMAIN granted : Refilled = LeftSince(i)
      BY <2>2
    <3>2. LeftSince(i)' = Refilled + Rate
      BY <1>4, <3>1
    <3>3. Refilled' = Full \/ Refilled' = Refilled + Rate
      BY <1>5, <1>6, <1>7
    <3>4. QED
      BY <3>2, <3>3
  <2>3. QED
    BY <2>1, <2>2 DEF AllowIsExact
<1>12. QED
  BY <1>1, <1>2, <1>8, <1>10, <1>11 DEF AllowIsExact

\* In no stretch of time does Allow grant more than the burst and what flows in
\* meanwhile, and it refuses nobody whom that bound would let through.
THEOREM GrantsAreExact == BucketSpec => []AllowIsExact
<1>1. BucketInv /\ [BucketNext]_<<now, bucketVars>> => BucketInv'
  <2>1. SUFFICES ASSUME BucketInv, [BucketNext]_<<now, bucketVars>>
                 PROVE  BucketInv'
    OBVIOUS
  <2>2. CASE Allow /\ UNCHANGED now
    BY <2>1, <2>2, AllowKeepsInv
  <2>3. CASE Tick /\ UNCHANGED bucketVars
    BY <2>1, <2>3, TickKeepsInv
  <2>4. CASE UNCHANGED <<now, bucketVars>>
    BY <2>1, <2>4 DEF bucketVars, BucketInv, BucketTypeOK, AllowIsExact, Refilled,
                      Uncapped, LeftSince, Full
  <2>5. QED
    BY <2>1, <2>2, <2>3, <2>4 DEF BucketNext
<1>2. BucketInv => AllowIsExact
  BY DEF BucketInv
<1>3. QED
  BY BucketInitially, <1>1, <1>2, PTL DEF BucketSpec

------------------------------------------------------------------------------
(****************************************************************************)
(* The store.  All that it holds about an address follows from its history: *)
(* a report bans if and only if it is the last of enough within a window    *)
(* (Banning), the next one comes when the ban is over, and so none counts for *)
(* two bans.                                                                *)
(*                                                                          *)
(* The invariant is stated of one address: the times c of its reports, the  *)
(* numbers r of those the store remembers, the end b of its ban, at time t. *)
(****************************************************************************)

\* The numbers of the reports that completed a threshold.
Banning(c) == {e \in DOMAIN c : e >= Threshold /\ c[e] - c[e - Threshold + 1] < Window}

\* Reports are numbered in the order of their times.
InOrder(c, t) == \A i, j \in DOMAIN c : i <= j => c[i] <= c[j] /\ c[j] <= t

\* The store remembers reports since the last ban only, and all that are fresh.
Remembered(c, r, t) ==
  /\ r \subseteq DOMAIN c
  /\ \A e \in Banning(c), k \in r : e < k
  /\ \A k \in DOMAIN c : c[k] > t - Window /\ (\A e \in Banning(c) : e < k) => k \in r

\* While a ban is in effect no report counts.
Apart(c) == \A e \in Banning(c), k \in DOMAIN c : e < k => c[e] + Ban <= c[k]

\* What bans holds is the end of the last ban; what it does not hold is over.
LastBan(c, b, t) ==
  /\ b # NoBan => \E e \in Banning(c) : b = c[e] + Ban /\ \A d \in Banning(c) : d <= e
  /\ b = NoBan => \A e \in Banning(c) : c[e] + Ban < t

History(c, r, b, t) == InOrder(c, t) /\ Remembered(c, r, t) /\ Apart(c) /\ LastBan(c, b, t)

\* The numbers of those in r, and of all, that are within the window.
FreshOf(c, r, t) == {i \in r : c[i] > t - Window}
Within(c, t) == FreshOf(c, DOMAIN c, t)

ShadowTypes ==
  /\ now \in Nat
  /\ reports \in [Ip -> SUBSET Nat]
  /\ bans \in [Ip -> Nat \cup {NoBan}]
  /\ counted \in [Ip -> Seq(Nat)]

ShadowInv ==
  /\ ShadowTypes
  /\ \A ip \in Ip : History(counted[ip], reports[ip], bans[ip], now)
----------------------------------------------------------------------------
LEMMA LimitsTyped ==
  /\ Window \in Nat /\ Window > 0 /\ Threshold \in Nat /\ Threshold > 0
  /\ Ban \in Nat /\ Window <= Ban /\ NoBan \in Int /\ NoBan < 0
  BY ShadowbanAssumption DEF NoBan

LEMMA BanningTyped ==
  ASSUME NEW c \in Seq(Nat), NEW e \in Banning(c)
  PROVE  /\ e \in DOMAIN c /\ e \in Nat /\ c[e] \in Nat /\ e >= Threshold
         /\ e - Threshold + 1 \in DOMAIN c /\ e - Threshold + 1 <= e
<1>1. e \in 1 .. Len(c) /\ Len(c) \in Nat /\ e >= Threshold /\ DOMAIN c = 1 .. Len(c)
  BY LenProperties DEF Banning
<1> QED
  BY <1>1, LimitsTyped, ElementOfSeq

\* As time passes, and when what is over is forgotten, nothing is lost.
LEMMA HistoryLater ==
  ASSUME NEW c \in Seq(Nat), NEW r \in SUBSET Nat, NEW b \in Nat \cup {NoBan}, NEW t \in Nat,
         History(c, r, b, t)
  PROVE  History(c, r, b, t + 1)
<1>1. \A k \in DOMAIN c : c[k] \in Nat
  BY ElementOfSeq
<1>2. InOrder(c, t + 1)
  BY <1>1 DEF History, InOrder
<1>3. Remembered(c, r, t + 1)
  BY <1>1, LimitsTyped DEF History, Remembered
<1>4. LastBan(c, b, t + 1)
  BY BanningTyped, LimitsTyped DEF History, LastBan
<1> QED
  BY <1>2, <1>3, <1>4 DEF History

LEMMA HistoryForgets ==
  ASSUME NEW c \in Seq(Nat), NEW r \in SUBSET Nat, NEW b \in Nat \cup {NoBan}, NEW t \in Nat,
         History(c, r, b, t), b < t
  PROVE  History(c, r, NoBan, t)
<1>1. \A e \in Banning(c) : c[e] + Ban < t
  <2>1. CASE b = NoBan
    BY <2>1 DEF History, LastBan
  <2>2. CASE b # NoBan
    <3>1. PICK e \in Banning(c) : b = c[e] + Ban /\ \A d \in Banning(c) : d <= e
      BY <2>2 DEF History, LastBan
    <3>2. ASSUME NEW d \in Banning(c)
          PROVE  c[d] + Ban < t
      <4>1. c[d] <= c[e] /\ c[d] \in Nat /\ c[e] \in Nat
        BY <3>1, BanningTyped DEF History, InOrder
      <4> QED
        BY <3>1, <4>1, LimitsTyped
    <3> QED
      BY <3>2
  <2> QED
    BY <2>1, <2>2
<1> QED
  BY <1>1 DEF History, LastBan

LEMMA HistoryPruned ==
  ASSUME NEW c \in Seq(Nat), NEW r \in SUBSET Nat, NEW b \in Nat \cup {NoBan}, NEW t \in Nat,
         History(c, r, b, t)
  PROVE  History(c, FreshOf(c, r, t), b, t)
  BY DEF History, Remembered, FreshOf

\* The history with one more report.
LEMMA OneMoreReport ==
  ASSUME NEW c \in Seq(Nat), NEW t \in Nat
  PROVE  /\ Append(c, t) \in Seq(Nat) /\ Len(c) \in Nat
         /\ DOMAIN c = 1 .. Len(c) /\ DOMAIN Append(c, t) = 1 .. (Len(c) + 1)
         /\ \A i \in 1 .. Len(c) : Append(c, t)[i] = c[i] /\ c[i] \in Nat
         /\ Append(c, t)[Len(c) + 1] = t
  BY AppendProperties, LenProperties, ElementOfSeq

LEMMA StaysInOrder ==
  ASSUME NEW c \in Seq(Nat), NEW t \in Nat, InOrder(c, t)
  PROVE  InOrder(Append(c, t), t)
<1>1. PICK n \in Nat : n = Len(c) + 1
  BY OneMoreReport
<1>2. PICK d \in Seq(Nat) : d = Append(c, t)
  BY OneMoreReport
<1>3. /\ DOMAIN c = 1 .. Len(c) /\ DOMAIN d = 1 .. n /\ d[n] = t /\ Len(c) \in Nat
      /\ \A i \in DOMAIN c : d[i] = c[i] /\ c[i] \in Nat
  BY <1>1, <1>2, OneMoreReport
<1>4. \A k \in DOMAIN d : k \in DOMAIN c \/ k = n
  BY <1>1, <1>3
<1>5. ASSUME NEW i \in DOMAIN d, NEW j \in DOMAIN d, i <= j
      PROVE  d[i] <= d[j] /\ d[j] <= t
  <2>1. CASE i \in DOMAIN c /\ j \in DOMAIN c
    BY <1>3, <1>5, <2>1 DEF InOrder
  <2>2. CASE i \in DOMAIN c /\ j = n
    BY <1>3, <2>2 DEF InOrder
  <2>3. CASE i = n
    <3>1. j = n
      BY <1>3, <1>5, <2>3
    <3> QED
      BY <1>3, <2>3, <3>1
  <2> QED
    BY <1>4, <2>1, <2>2, <2>3
<1> QED
  BY <1>2, <1>5 DEF InOrder

LEMMA BanningOneMore ==
  ASSUME NEW c \in Seq(Nat), NEW t \in Nat, NEW e \in 1 .. Len(c)
  PROVE  e \in Banning(Append(c, t)) <=> e \in Banning(c)
<1>1. CASE e >= Threshold
  <2>1. e \in DOMAIN c /\ e \in DOMAIN Append(c, t) /\ Append(c, t)[e] = c[e]
    BY OneMoreReport
  <2>2. e - Threshold + 1 \in 1 .. Len(c)
    BY <1>1, LimitsTyped, OneMoreReport
  <2>3. Append(c, t)[e - Threshold + 1] = c[e - Threshold + 1]
    BY <2>2, OneMoreReport
  <2> QED
    BY <2>1, <2>3 DEF Banning
<1>2. CASE ~(e >= Threshold)
  BY <1>2 DEF Banning
<1> QED
  BY <1>1, <1>2

\* A report counts when all bans are over: those since the last ban are not sorted
\* out by anything but their age.
LEMMA BansAreOver ==
  ASSUME NEW c \in Seq(Nat), NEW r \in SUBSET Nat, NEW b \in Nat \cup {NoBan}, NEW t \in Nat,
         History(c, r, b, t), b <= t, NEW e \in Banning(c)
  PROVE  c[e] + Ban <= t
<1>0. c[e] \in Nat
  BY BanningTyped
<1>1. CASE b = NoBan
  BY <1>0, <1>1, LimitsTyped DEF History, LastBan
<1>2. CASE b # NoBan
  <2>1. PICK d \in Banning(c) : b = c[d] + Ban /\ e <= d
    BY <1>2 DEF History, LastBan
  <2>2. c[e] <= c[d] /\ c[d] \in Nat
    BY <2>1, BanningTyped DEF History, InOrder
  <2> QED
    BY <1>0, <2>1, <2>2, LimitsTyped
<1> QED
  BY <1>1, <1>2

LEMMA LiveIsFresh ==
  ASSUME NEW c \in Seq(Nat), NEW r \in SUBSET Nat, NEW b \in Nat \cup {NoBan}, NEW t \in Nat,
         History(c, r, b, t), b <= t
  PROVE  FreshOf(c, r, t) \cup {Len(c) + 1} = Within(Append(c, t), t)
<1>1. ASSUME NEW k \in 1 .. Len(c)
      PROVE  k \in r /\ c[k] > t - Window <=> Append(c, t)[k] > t - Window
  <2>1. k \in DOMAIN c /\ c[k] \in Nat /\ Append(c, t)[k] = c[k]
    BY OneMoreReport
  <2>2. ASSUME c[k] > t - Window, NEW e \in Banning(c)
        PROVE  e < k
    <3>1. c[e] + Ban <= t /\ c[e] \in Nat /\ e \in Nat /\ e \in DOMAIN c
      BY BansAreOver, BanningTyped
    <3>2. k <= e => c[k] <= c[e]
      BY <2>1, <3>1 DEF History, InOrder
    <3>3. ~(c[k] <= c[e])
      BY <2>1, <2>2, <3>1, LimitsTyped
    <3> QED
      BY <3>1, <3>2, <3>3, OneMoreReport
  <2> QED
    BY <2>1, <2>2 DEF History, Remembered
<1>2. Append(c, t)[Len(c) + 1] > t - Window
  BY OneMoreReport, LimitsTyped
<1>3. r \subseteq 1 .. Len(c) /\ Len(c) \in Nat
  BY OneMoreReport DEF History, Remembered
<1>5. \A k \in 1 .. (Len(c) + 1) : k \in 1 .. Len(c) \/ k = Len(c) + 1
  BY <1>3
<1>4. ASSUME NEW k
      PROVE  k \in FreshOf(c, r, t) \cup {Len(c) + 1} <=> k \in Within(Append(c, t), t)
  <2>1. DOMAIN Append(c, t) = 1 .. (Len(c) + 1)
    BY OneMoreReport
  <2>2. CASE k \in 1 .. Len(c)
    BY <1>1, <1>3, <2>1, <2>2 DEF FreshOf, Within
  <2>3. CASE k = Len(c) + 1
    BY <1>2, <1>3, <2>1, <2>3 DEF FreshOf, Within
  <2>4. CASE k \notin 1 .. Len(c) /\ k # Len(c) + 1
    <3>1. k \notin r /\ k \notin 1 .. (Len(c) + 1)
      BY <1>3, <1>5, <2>4, Zenon
    <3> QED
      BY <2>1, <2>4, <3>1, Zenon DEF FreshOf, Within
  <2> QED
    BY <2>2, <2>3, <2>4
<1> QED
  BY <1>4, Zenon

\* Of a series of times in order, those within the window are an end, which is as
\* long as the threshold if and only if the first of the last Threshold is in it.
LEMMA EnoughInWindow ==
  ASSUME NEW n \in Nat, NEW d, NEW t \in Nat,
         \A k \in 1 .. n : d[k] \in Nat,
         \A j, k \in 1 .. n : j <= k => d[j] <= d[k],
         NEW live, live = {k \in 1 .. n : d[k] > t - Window}
  PROVE  Cardinality(live) >= Threshold <=> n >= Threshold /\ t - d[n - Threshold + 1] < Window
<1>1. /\ IsFiniteSet(1 .. n) /\ Cardinality(1 .. n) = n
      /\ IsFiniteSet(live) /\ Cardinality(live) \in Nat /\ Cardinality(live) <= n
  <2>1. IsFiniteSet(1 .. n) /\ Cardinality(1 .. n) = n
    BY FS_Interval
  <2>2. live \in SUBSET (1 .. n)
    OBVIOUS
  <2>3. IsFiniteSet(live) /\ Cardinality(live) <= Cardinality(1 .. n)
    BY <2>1, <2>2, FS_Subset
  <2> QED
    BY <2>1, <2>3, FS_CardinalityType
<1>2. PICK m \in Nat : m = Cardinality(live) /\ m <= n
  BY <1>1
<1>3. CASE n >= Threshold
  <2>1. PICK first \in 1 .. n : first = n - Threshold + 1
    BY <1>3, LimitsTyped
  <2>2. PICK x \in Nat : x = d[first]
    OBVIOUS
  <2>3. CASE t - x < Window
    <3>1. first .. n \in SUBSET live
      <4>1. ASSUME NEW k \in first .. n
            PROVE  k \in live
        <5>1. k \in 1 .. n /\ first <= k
          OBVIOUS
        <5>2. PICK y \in Nat : y = d[k] /\ x <= y
          BY <2>2, <5>1
        <5>3. y > t - Window
          BY <2>3, <5>2, LimitsTyped
        <5> QED
          BY <5>1, <5>2, <5>3
      <4> QED
        BY <4>1
    <3>2. Cardinality(first .. n) = Threshold
      <4>1. Cardinality(first .. n) = n - first + 1
        BY FS_Interval
      <4>2. n - first + 1 = Threshold
        BY <2>1, LimitsTyped
      <4> QED
        BY <4>1, <4>2
    <3>3. Threshold <= m
      BY <1>1, <1>2, <3>1, <3>2, FS_Subset
    <3> QED
      BY <1>2, <1>3, <2>1, <2>2, <2>3, <3>3, LimitsTyped
  <2>4. CASE ~(t - x < Window)
    <3>1. live \in SUBSET ((first + 1) .. n)
      <4>1. ASSUME NEW k \in live
            PROVE  k \in (first + 1) .. n
        <5>1. k \in 1 .. n
          OBVIOUS
        <5>2. PICK y \in Nat : y = d[k] /\ y > t - Window
          OBVIOUS
        <5>3. k <= first => y <= x
          BY <2>2, <5>1, <5>2
        <5>4. ~(y <= x)
          BY <2>4, <5>2, LimitsTyped
        <5> QED
          BY <5>1, <5>3, <5>4
      <4> QED
        BY <4>1
    <3>2. IsFiniteSet((first + 1) .. n) /\ Cardinality((first + 1) .. n) = Threshold - 1
      <4>1. first + 1 \in Int /\ n \in Int
        OBVIOUS
      <4>2. IsFiniteSet((first + 1) .. n)
            /\ Cardinality((first + 1) .. n) = IF first + 1 > n THEN 0 ELSE n - (first + 1) + 1
        BY <4>1, FS_Interval
      <4>3. (IF first + 1 > n THEN 0 ELSE n - (first + 1) + 1) = Threshold - 1
        BY <2>1, LimitsTyped
      <4> QED
        BY <4>2, <4>3
    <3>3. m <= Threshold - 1
      BY <1>2, <3>1, <3>2, FS_Subset
    <3>4. ~(m >= Threshold)
      BY <3>3, LimitsTyped
    <3> QED
      BY <1>2, <2>1, <2>2, <2>4, <3>4
  <2> QED
    BY <2>3, <2>4
<1>4. CASE ~(n >= Threshold)
  <2>1. ~(m >= Threshold)
    BY <1>2, <1>4, LimitsTyped
  <2> QED
    BY <1>2, <1>4, <2>1
<1> QED
  BY <1>3, <1>4

\* What the store counts decides as the history does.
LEMMA EnoughIsEarned ==
  ASSUME NEW c \in Seq(Nat), NEW t \in Nat, InOrder(c, t)
  PROVE  Cardinality(Within(Append(c, t), t)) >= Threshold <=> Len(c) + 1 \in Banning(Append(c, t))
<1>1. PICK n \in Nat : n = Len(c) + 1
  BY OneMoreReport
<1>2. PICK d \in Seq(Nat) : d = Append(c, t)
  BY OneMoreReport
<1>3. /\ DOMAIN c = 1 .. Len(c) /\ DOMAIN d = 1 .. n /\ d[n] = t /\ n > 0 /\ Len(c) \in Nat
      /\ \A i \in 1 .. Len(c) : d[i] = c[i] /\ c[i] \in Nat
  BY <1>1, <1>2, OneMoreReport
<1>4. \A k \in 1 .. n : k \in 1 .. Len(c) \/ k = n
  BY <1>1, <1>3
<1>5. \A k \in 1 .. n : d[k] \in Nat
  BY <1>3, <1>4
<1>6. \A j, k \in 1 .. n : j <= k => d[j] <= d[k]
  BY <1>2, <1>3, StaysInOrder DEF InOrder
<1>7. Within(d, t) = {k \in 1 .. n : d[k] > t - Window}
  BY <1>3 DEF Within, FreshOf
<1>8. Cardinality(Within(d, t)) >= Threshold <=> n >= Threshold /\ t - d[n - Threshold + 1] < Window
  BY <1>5, <1>6, <1>7, EnoughInWindow
<1>9. n \in Banning(d) <=> n >= Threshold /\ t - d[n - Threshold + 1] < Window
  <2>1. n \in DOMAIN d
    BY <1>3
  <2> QED
    BY <1>3, <2>1, Zenon DEF Banning
<1> QED
  BY <1>1, <1>2, <1>8, <1>9

\* A report that counts either completes a threshold, and all that was remembered
\* is dropped, or is remembered.
LEMMA HistoryReported ==
  ASSUME NEW c \in Seq(Nat), NEW r \in SUBSET Nat, NEW b \in Nat \cup {NoBan}, NEW t \in Nat,
         History(c, r, b, t), b <= t,
         NEW live, live = FreshOf(c, r, t) \cup {Len(c) + 1}
  PROVE  IF Cardinality(live) >= Threshold
           THEN History(Append(c, t), {}, t + Ban, t)
           ELSE History(Append(c, t), live, b, t)
<1>1. PICK n \in Nat : n = Len(c) + 1
  BY OneMoreReport
<1>2. PICK d \in Seq(Nat) : d = Append(c, t)
  BY OneMoreReport
<1>3. /\ DOMAIN c = 1 .. Len(c) /\ DOMAIN d = 1 .. n /\ d[n] = t /\ n > 0 /\ Len(c) \in Nat
      /\ \A i \in DOMAIN c : d[i] = c[i] /\ c[i] \in Nat /\ i \in DOMAIN d /\ i < n
  BY <1>1, <1>2, OneMoreReport
<1>4. \A k \in DOMAIN d : k \in DOMAIN c \/ k = n
  BY <1>1, <1>3
<1>5. live = Within(d, t)
  BY <1>2, LiveIsFresh
<1>6. InOrder(d, t)
  BY <1>2, StaysInOrder DEF History
<1>7. Cardinality(live) >= Threshold <=> n \in Banning(d)
  BY <1>1, <1>2, <1>5, EnoughIsEarned DEF History
<1>8. \A e \in DOMAIN c : e \in Banning(d) <=> e \in Banning(c)
  BY <1>2, <1>3, BanningOneMore
<1>9. \A e \in Banning(c) : e \in DOMAIN c /\ c[e] + Ban <= t
  BY BansAreOver, BanningTyped
<1>10. \A e \in Banning(d) : (e \in DOMAIN c /\ e \in Banning(c)) \/ e = n
  BY <1>4, <1>8 DEF Banning
<1>11. Apart(d)
  <2>1. ASSUME NEW e \in Banning(d), NEW k \in DOMAIN d, e < k
        PROVE  d[e] + Ban <= d[k]
    <3>1. e # n
      <4>1. k <= n
        BY <1>3
      <4> QED
        BY <1>3, <2>1, <4>1
    <3>2. e \in DOMAIN c /\ e \in Banning(c)
      BY <1>10, <3>1
    <3>3. CASE k \in DOMAIN c
      BY <1>3, <2>1, <3>2, <3>3 DEF History, Apart
    <3>4. CASE k = n
      BY <1>3, <1>9, <3>2, <3>4
    <3> QED
      BY <1>4, <3>3, <3>4
  <2> QED
    BY <2>1 DEF Apart
<1>12. CASE n \in Banning(d)
  <2>1. Remembered(d, {}, t)
    BY <1>3, <1>12 DEF Remembered
  <2>2. LastBan(d, t + Ban, t)
    <3>1. t + Ban # NoBan
      BY LimitsTyped
    <3>2. \A e \in Banning(d) : e <= n
      BY <1>3, <1>10
    <3> QED
      BY <1>3, <1>12, <3>1, <3>2 DEF LastBan
  <2> QED
    BY <1>2, <1>6, <1>7, <1>11, <1>12, <2>1, <2>2 DEF History
<1>13. CASE n \notin Banning(d)
  <2>1. Banning(d) = Banning(c)
    BY <1>8, <1>9, <1>10, <1>13
  <2>2. Remembered(d, live, t)
    <3>1. live = {k \in DOMAIN d : d[k] > t - Window}
      BY <1>5 DEF Within, FreshOf
    <3>2. ASSUME NEW e \in Banning(d), NEW k \in live
          PROVE  e < k
      <4>1. e \in Banning(c) /\ e < n
        BY <1>3, <1>9, <2>1
      <4>2. k \in r \/ k = n
        BY <1>1 DEF FreshOf
      <4> QED
        BY <4>1, <4>2 DEF History, Remembered
    <3> QED
      BY <3>1, <3>2 DEF Remembered
  <2>3. LastBan(d, b, t)
    <3>1. \A e \in Banning(c) : d[e] = c[e]
      BY <1>3, <1>9
    <3> QED
      BY <2>1, <3>1 DEF History, LastBan
  <2> QED
    BY <1>2, <1>6, <1>7, <1>11, <1>13, <2>2, <2>3 DEF History
<1> QED
  BY <1>12, <1>13

\* The ban in the store is the one that the history asks for.
LEMMA BanIsEarned ==
  ASSUME NEW c \in Seq(Nat), NEW r \in SUBSET Nat, NEW b \in Nat \cup {NoBan}, NEW t \in Nat,
         History(c, r, b, t)
  PROVE  b # NoBan /\ b >= t <=> \E e \in Banning(c) : t <= c[e] + Ban
<1>1. ASSUME b # NoBan, b >= t
      PROVE  \E e \in Banning(c) : t <= c[e] + Ban
  <2>1. PICK e \in Banning(c) : b = c[e] + Ban
    BY <1>1 DEF History, LastBan
  <2>2. t <= c[e] + Ban
    BY <1>1, <2>1, BanningTyped, LimitsTyped
  <2> QED
    BY <2>2
<1>2. ASSUME NEW e \in Banning(c), t <= c[e] + Ban
      PROVE  b # NoBan /\ b >= t
  <2>0. c[e] \in Nat
    BY BanningTyped
  <2>1. b # NoBan
    BY <1>2, <2>0, LimitsTyped DEF History, LastBan
  <2>2. PICK d \in Banning(c) : b = c[d] + Ban /\ e <= d
    BY <2>1 DEF History, LastBan
  <2>3. c[e] <= c[d] /\ c[d] \in Nat
    BY <2>2, BanningTyped DEF History, InOrder
  <2> QED
    BY <1>2, <2>0, <2>1, <2>2, <2>3, LimitsTyped
<1> QED
  BY <1>1, <1>2
----------------------------------------------------------------------------
LEMMA ShadowInitially == ShadowInit => ShadowInv
<1> SUFFICES ASSUME ShadowInit PROVE ShadowInv
  OBVIOUS
<1>1. <<>> \in Seq(Nat) /\ DOMAIN <<>> = {}
  BY EmptySeq, LenProperties
<1>2. Banning(<<>>) = {}
  BY <1>1 DEF Banning
<1>3. \A ip \in Ip : History(counted[ip], reports[ip], bans[ip], now)
  BY <1>1, <1>2 DEF ShadowInit, History, InOrder, Remembered, Apart, LastBan
<1>4. ShadowTypes
  BY <1>1 DEF ShadowInit, ShadowTypes
<1> QED
  BY <1>3, <1>4 DEF ShadowInv

LEMMA ReportKeeps ==
  ASSUME ShadowInv, NEW ip \in Ip, Report(ip), now' = now
  PROVE  ShadowInv'
<1>1. /\ counted[ip] \in Seq(Nat) /\ reports[ip] \in SUBSET Nat /\ bans[ip] \in Nat \cup {NoBan}
      /\ now \in Nat /\ History(counted[ip], reports[ip], bans[ip], now)
  BY DEF ShadowInv, ShadowTypes
<1> DEFINE live == Fresh(ip) \cup {Len(counted[ip]) + 1}
<1>2. Fresh(ip) = FreshOf(counted[ip], reports[ip], now)
  BY DEF Fresh, FreshOf
<1>3. live \in SUBSET Nat
  <2>1. Len(counted[ip]) + 1 \in Nat
    BY <1>1, LenProperties
  <2> QED
    BY <1>1, <2>1 DEF Fresh
<1>4. now + Ban \in Nat
  BY <1>1, LimitsTyped
<1>5. Append(counted[ip], now) \in Seq(Nat)
  BY <1>1, AppendProperties
<1>6. /\ bans[ip] <= now
      /\ counted' = [counted EXCEPT ![ip] = Append(@, now)]
      /\ \/ /\ Cardinality(live) >= Threshold
            /\ bans' = [bans EXCEPT ![ip] = now + Ban]
            /\ reports' = [reports EXCEPT ![ip] = {}]
         \/ /\ ~(Cardinality(live) >= Threshold)
            /\ bans' = bans
            /\ reports' = [reports EXCEPT ![ip] = live]
  BY Zenon DEF Report, ReportOn
<1>7. IF Cardinality(live) >= Threshold
        THEN History(Append(counted[ip], now), {}, now + Ban, now)
        ELSE History(Append(counted[ip], now), live, bans[ip], now)
  BY <1>1, <1>2, <1>6, HistoryReported
<1> HIDE DEF live
<1>8. ShadowTypes'
  BY <1>3, <1>4, <1>5, <1>6 DEF ShadowInv, ShadowTypes
<1>9. ASSUME NEW q \in Ip
      PROVE  History(counted'[q], reports'[q], bans'[q], now')
  <2>1. CASE q = ip
    <3>1. counted'[ip] = Append(counted[ip], now)
      BY <1>6 DEF ShadowInv, ShadowTypes
    <3>2. CASE Cardinality(live) >= Threshold
      <4>1. bans'[ip] = now + Ban /\ reports'[ip] = {}
        BY <1>6, <3>2 DEF ShadowInv, ShadowTypes
      <4> QED
        BY <1>7, <2>1, <3>1, <3>2, <4>1
    <3>3. CASE ~(Cardinality(live) >= Threshold)
      <4>1. bans'[ip] = bans[ip] /\ reports'[ip] = live
        BY <1>6, <3>3 DEF ShadowInv, ShadowTypes
      <4> QED
        BY <1>7, <2>1, <3>1, <3>3, <4>1
    <3> QED
      BY <3>2, <3>3
  <2>2. CASE q # ip
    <3>1. counted'[q] = counted[q] /\ reports'[q] = reports[q] /\ bans'[q] = bans[q]
      BY <1>6, <2>2 DEF ShadowInv, ShadowTypes
    <3> QED
      BY <3>1 DEF ShadowInv
  <2> QED
    BY <2>1, <2>2
<1> QED
  BY <1>8, <1>9 DEF ShadowInv

LEMMA IsBannedKeeps ==
  ASSUME ShadowInv, NEW ip \in Ip, IsBanned(ip), now' = now
  PROVE  ShadowInv'
<1>1. bans[ip] < now /\ bans' = [bans EXCEPT ![ip] = NoBan] /\ reports' = reports /\ counted' = counted
  BY DEF IsBanned
<1>2. ShadowTypes'
  BY <1>1 DEF ShadowInv, ShadowTypes
<1>3. ASSUME NEW q \in Ip
      PROVE  History(counted'[q], reports'[q], bans'[q], now')
  <2>1. /\ counted[q] \in Seq(Nat) /\ reports[q] \in SUBSET Nat /\ bans[q] \in Nat \cup {NoBan}
        /\ now \in Nat /\ History(counted[q], reports[q], bans[q], now)
    BY DEF ShadowInv, ShadowTypes
  <2>2. CASE q = ip
    <3>1. bans'[ip] = NoBan
      BY <1>1 DEF ShadowInv, ShadowTypes
    <3>2. History(counted[q], reports[q], NoBan, now)
      BY <1>1, <2>1, <2>2, HistoryForgets
    <3> QED
      BY <1>1, <2>2, <3>1, <3>2
  <2>3. CASE q # ip
    <3>1. bans'[q] = bans[q]
      BY <1>1, <2>3 DEF ShadowInv, ShadowTypes
    <3> QED
      BY <1>1, <2>1, <3>1
  <2> QED
    BY <2>2, <2>3
<1> QED
  BY <1>2, <1>3 DEF ShadowInv

LEMMA PruneKeeps ==
  ASSUME ShadowInv, Prune, now' = now
  PROVE  ShadowInv'
<1>1. /\ reports' = [ip \in Ip |-> Fresh(ip)] /\ counted' = counted
      /\ bans' = [ip \in Ip |-> IF bans[ip] < now THEN NoBan ELSE bans[ip]]
  BY DEF Prune
<1>2. ShadowTypes'
  BY <1>1 DEF ShadowInv, ShadowTypes, Fresh
<1>3. ASSUME NEW q \in Ip
      PROVE  History(counted'[q], reports'[q], bans'[q], now')
  <2>1. /\ counted[q] \in Seq(Nat) /\ reports[q] \in SUBSET Nat /\ bans[q] \in Nat \cup {NoBan}
        /\ now \in Nat /\ History(counted[q], reports[q], bans[q], now)
    BY DEF ShadowInv, ShadowTypes
  <2>2. reports'[q] = FreshOf(counted[q], reports[q], now)
    BY <1>1 DEF Fresh, FreshOf
  <2>3. FreshOf(counted[q], reports[q], now) \in SUBSET Nat
    BY <2>1 DEF FreshOf
  <2>4. History(counted[q], FreshOf(counted[q], reports[q], now), bans[q], now)
    BY <2>1, HistoryPruned
  <2>5. CASE bans[q] < now
    <3>1. bans'[q] = NoBan
      BY <1>1, <2>5
    <3> QED
      BY <1>1, <2>1, <2>2, <2>3, <2>4, <2>5, <3>1, HistoryForgets
  <2>6. CASE ~(bans[q] < now)
    <3>1. bans'[q] = bans[q]
      BY <1>1, <2>6
    <3> QED
      BY <1>1, <2>2, <2>4, <3>1
  <2> QED
    BY <2>5, <2>6
<1> QED
  BY <1>2, <1>3 DEF ShadowInv

LEMMA TickKeeps ==
  ASSUME ShadowInv, now' = now + 1, UNCHANGED shadowVars
  PROVE  ShadowInv'
<1>1. ShadowTypes'
  BY DEF ShadowInv, ShadowTypes, shadowVars
<1>2. ASSUME NEW q \in Ip
      PROVE  History(counted'[q], reports'[q], bans'[q], now')
  <2>1. /\ counted[q] \in Seq(Nat) /\ reports[q] \in SUBSET Nat /\ bans[q] \in Nat \cup {NoBan}
        /\ now \in Nat /\ History(counted[q], reports[q], bans[q], now)
    BY DEF ShadowInv, ShadowTypes
  <2>2. History(counted[q], reports[q], bans[q], now + 1)
    BY <2>1, HistoryLater
  <2> QED
    BY <2>2, Zenon DEF shadowVars
<1> QED
  BY <1>1, <1>2 DEF ShadowInv

LEMMA ShadowStepInv == ShadowInv /\ [ShadowNext]_<<now, shadowVars>> => ShadowInv'
<1> SUFFICES ASSUME ShadowInv, [ShadowNext]_<<now, shadowVars>> PROVE ShadowInv'
  OBVIOUS
<1>1. CASE UNCHANGED <<now, shadowVars>>
  BY <1>1 DEF ShadowInv, ShadowTypes, shadowVars
<1>2. CASE ShadowStep /\ now' = now
  BY <1>2, ReportKeeps, IsBannedKeeps, PruneKeeps DEF ShadowStep
<1>3. CASE Tick /\ UNCHANGED shadowVars
  BY <1>3, TickKeeps DEF Tick
<1> QED
  BY <1>1, <1>2, <1>3 DEF ShadowNext

\* The invariant is about the whole history; what the property says follows.
LEMMA HistoryDecides == ShadowInv => BannedIffReported
<1> SUFFICES ASSUME ShadowInv, NEW ip \in Ip
             PROVE  Banned(ip) <=>
                      \E i \in DOMAIN counted[ip] :
                        Earned(ip, i) /\ now <= counted[ip][i + Threshold - 1] + Ban
  BY DEF BannedIffReported
<1>1. /\ counted[ip] \in Seq(Nat) /\ reports[ip] \in SUBSET Nat /\ bans[ip] \in Nat \cup {NoBan}
      /\ now \in Nat /\ History(counted[ip], reports[ip], bans[ip], now)
  BY DEF ShadowInv, ShadowTypes
<1>2. Banned(ip) <=> \E e \in Banning(counted[ip]) : now <= counted[ip][e] + Ban
  BY <1>1, BanIsEarned DEF Banned
<1>3. ASSUME NEW e \in Banning(counted[ip]), now <= counted[ip][e] + Ban
      PROVE  \E i \in DOMAIN counted[ip] : Earned(ip, i) /\ now <= counted[ip][i + Threshold - 1] + Ban
  <2>1. PICK i \in DOMAIN counted[ip] : i = e - Threshold + 1
    BY <1>1, BanningTyped
  <2>2. i + Threshold - 1 = e /\ e \in DOMAIN counted[ip]
    BY <1>1, <2>1, BanningTyped, LimitsTyped
  <2>3. counted[ip][e] - counted[ip][i] < Window
    BY <2>1 DEF Banning
  <2> QED
    BY <1>3, <2>2, <2>3 DEF Earned
<1>4. ASSUME NEW i \in DOMAIN counted[ip], Earned(ip, i), now <= counted[ip][i + Threshold - 1] + Ban
      PROVE  \E e \in Banning(counted[ip]) : now <= counted[ip][e] + Ban
  <2>1. PICK e \in DOMAIN counted[ip] : e = i + Threshold - 1
    BY <1>4 DEF Earned
  <2>2. i \in Nat /\ i > 0
    BY <1>1, LenProperties
  <2>3. e >= Threshold /\ e - Threshold + 1 = i
    BY <2>1, <2>2, LimitsTyped
  <2>4. e \in Banning(counted[ip])
    BY <1>4, <2>1, <2>3 DEF Earned, Banning
  <2> QED
    BY <1>4, <2>1, <2>4
<1> QED
  BY <1>2, <1>3, <1>4

\* A ban is in effect exactly when enough reports came within one window and the ban
\* has not run out, for any threshold, window and ban and any calls and pruning.
THEOREM BansAreEarned == ShadowSpec => []BannedIffReported
<1>1. ShadowSpec => []ShadowInv
  BY ShadowInitially, ShadowStepInv, PTL DEF ShadowSpec
<1> QED
  BY <1>1, HistoryDecides, PTL

\* Beside the bucket of its connections the store of an address does what it does on
\* its own, and so does the bucket.
LEMMA LimitsAreIndependent == LSpec => ShadowSpec /\ BucketSpec
<1>1. LInit => ShadowInit /\ BucketInit
  BY DEF LInit
<1>2. [LNext]_<<now, bucketVars, shadowVars>> => [ShadowNext]_<<now, shadowVars>>
  BY DEF LNext, ShadowNext, Allow, AllowFrom
<1>3. [LNext]_<<now, bucketVars, shadowVars>> => [BucketNext]_<<now, bucketVars>>
  BY DEF LNext, BucketNext
<1> QED
  BY <1>1, <1>2, <1>3, PTL DEF LSpec, ShadowSpec, BucketSpec

\* An address meets both limits, in any interleaving of the calls of the two.
THEOREM BothLimitsHold == LSpec => [](AllowIsExact /\ BannedIffReported)
  BY LimitsAreIndependent, BansAreEarned, GrantsAreExact, PTL
=============================================================================
