---------------------------- MODULE MCQuoteScreen ----------------------------
(* QuoteScreen on one quote: the other quotes of the tenant only delay it. *)
EXTENDS QuoteScreen
=============================================================================
