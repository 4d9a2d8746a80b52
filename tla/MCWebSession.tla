----------------------------- MODULE MCWebSession -----------------------------
(* WebSession with two calls at a time, which are alike. *)
EXTENDS WebSession, TLC

Symmetry == Permutations(Calls)

\* The safety properties promise nothing of the states that are cut off.
Unspoiled == ~lost /\ ~restored
=============================================================================
