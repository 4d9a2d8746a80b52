--------------------------- MODULE MCIntegrations ---------------------------
(* Three calls of one integration: the integrations share no state, so one  *)
(* stands for each.                                                         *)
EXTENDS Integrations

CONSTANTS a1, a2, a3, cnpj

OneTarget == [c \in {a1, a2, a3} |-> cnpj]
=============================================================================
