---------------------------- MODULE TokenBucket ----------------------------
(****************************************************************************)
(* One token bucket (ws/ratelimit.go): the message limiter of a connection, *)
(* or the bucket of an IP address in Server.connectRate, which Init makes   *)
(* when the address is first seen.                                          *)
(*                                                                          *)
(* Tokens are counted in fractions, Grain to the token, and Rate fractions  *)
(* flow in per tick: exact numbers where the code has float64.  granted is  *)
(* a history variable, the times at which Allow said yes.                   *)
(****************************************************************************)
EXTENDS Clock, Sequences

CONSTANTS Rate, Burst, Grain

ASSUME BucketAssumption == Rate \in Nat /\ Burst \in Nat /\ Grain \in Nat \ {0}

VARIABLES tokens, lastFill, granted

bucketVars == <<tokens, lastFill, granted>>

Full == Burst * Grain
----------------------------------------------------------------------------
\* NewTokenBucket
BucketInit == now = 0 /\ tokens = Full /\ lastFill = now /\ granted = <<>>

Uncapped == tokens + (now - lastFill) * Rate
Refilled == IF Uncapped > Full THEN Full ELSE Uncapped

AllowFrom(filled) ==
  /\ lastFill' = now
  /\ IF filled >= Grain
       THEN tokens' = filled - Grain /\ granted' = Append(granted, now)
       ELSE tokens' = filled /\ UNCHANGED granted

AllowUncapped == AllowFrom(Uncapped)
Allow == AllowFrom(Refilled)

BucketNext == (Allow /\ UNCHANGED now) \/ (Tick /\ UNCHANGED bucketVars)

BucketSpec == BucketInit /\ [][BucketNext]_<<now, bucketVars>>
----------------------------------------------------------------------------
\* What the i-th grant and those after it leave of a full bucket and of what
\* has flowed in since.
LeftSince(i) == Full + (now - granted[i]) * Rate - (Len(granted) + 1 - i) * Grain

\* Allow refuses exactly what it must.  In no stretch of time, however the calls
\* fall, does it grant more than the burst and what flows in meanwhile; and it
\* refuses nobody whom that bound would let through.
AllowIsExact ==
  /\ Refilled <= Full
  /\ \A i \in DOMAIN granted : Refilled <= LeftSince(i)
  /\ Refilled = Full \/ \E i \in DOMAIN granted : Refilled = LeftSince(i)
=============================================================================
