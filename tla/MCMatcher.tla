----------------------------- MODULE MCMatcher -----------------------------
(* Instances of Matcher for TLC.                                            *)
EXTENDS Matcher, TLC

Symmetry == Permutations(Session) \cup Permutations(Tag)
=============================================================================
