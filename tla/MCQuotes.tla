------------------------------- MODULE MCQuotes -------------------------------
(* FreightQuotes and its promise on small sets of quotes and carriers. *)
EXTENDS QuoteRefinement, Pricing, TLC

\* Quotes and carriers are interchangeable: no safety property names one.
Symmetry == Permutations(Quotes) \cup Permutations(Carriers)
=============================================================================
