------------------------------- MODULE Limits -------------------------------
(****************************************************************************)
(* What the server remembers of an IP address, on one clock: the bucket     *)
(* that limits its connections, and the reports and bans of its users.  The *)
(* two know nothing of one another.                                         *)
(****************************************************************************)
EXTENDS TokenBucket, Shadowban

LInit == BucketInit /\ ShadowInit

LNext ==
  \/ Allow /\ UNCHANGED <<now, shadowVars>>
  \/ ShadowStep /\ UNCHANGED <<now, bucketVars>>
  \/ Tick /\ UNCHANGED <<bucketVars, shadowVars>>

LSpec == LInit /\ [][LNext]_<<now, bucketVars, shadowVars>>
=============================================================================
