----------------------------- MODULE MCDispatch -----------------------------
(* Instances of Dispatch for TLC.  What the clients do beside searching and *)
(* what is assumed of them is chosen in each configuration.                 *)
EXTENDS Dispatch, TLC

Symmetry == Permutations(Session)
=============================================================================
