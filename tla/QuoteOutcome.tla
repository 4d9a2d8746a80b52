---------------------------- MODULE QuoteOutcome ----------------------------
(***************************************************************************)
(* What the calculation of freight quotes promises, without workers,       *)
(* queues or failures: an accepted quote is tried a bounded number of      *)
(* times, a try offers each carrier at most once, and the calculation      *)
(* concludes once, as completed by a try that made its offers or as        *)
(* failed, after which the offers of the quote stand.                      *)
(***************************************************************************)
EXTENDS Naturals

CONSTANTS Quotes, Carriers, MaxTries

VARIABLES
  outcome,   \* "none", "accepted", "completed" or "failed"
  tries,     \* how often the quote was tried
  stage,     \* of the current try: "idle" (no try), "trying" or "offered"
  offers     \* offers of a quote, per carrier

outcomeVars == <<outcome, tries, stage, offers>>

OutcomeInit ==
  /\ outcome = [q \in Quotes |-> "none"]
  /\ tries = [q \in Quotes |-> 0]
  /\ stage = [q \in Quotes |-> "idle"]
  /\ offers = [q \in Quotes |-> [c \in Carriers |-> 0]]

Accept(q) ==
  /\ outcome[q] = "none"
  /\ outcome' = [outcome EXCEPT ![q] = "accepted"]
  /\ UNCHANGED <<tries, stage, offers>>

Try(q) ==
  /\ outcome[q] = "accepted"
  /\ stage[q] = "idle"
  /\ tries[q] < MaxTries
  /\ tries' = [tries EXCEPT ![q] = @ + 1]
  /\ stage' = [stage EXCEPT ![q] = "trying"]
  /\ UNCHANGED <<outcome, offers>>

\* The try makes its offers, all at once; there may be none to make.
Offer(q, S) ==
  /\ outcome[q] = "accepted"
  /\ stage[q] = "trying"
  /\ offers' = [offers EXCEPT ![q] =
       [c \in Carriers |-> offers[q][c] + (IF c \in S THEN 1 ELSE 0)]]
  /\ stage' = [stage EXCEPT ![q] = "offered"]
  /\ UNCHANGED <<outcome, tries>>

\* One try fails, or all of them are lost with the process.
Abandon(P) ==
  /\ stage' = [q \in Quotes |-> IF q \in P THEN "idle" ELSE stage[q]]
  /\ UNCHANGED <<outcome, tries, offers>>

Complete(q) ==
  /\ outcome[q] = "accepted"
  /\ stage[q] = "offered"
  /\ outcome' = [outcome EXCEPT ![q] = "completed"]
  /\ stage' = [stage EXCEPT ![q] = "idle"]
  /\ UNCHANGED <<tries, offers>>

Fail(q) ==
  /\ outcome[q] = "accepted"
  /\ stage[q] = "idle"
  /\ tries[q] > 0
  /\ outcome' = [outcome EXCEPT ![q] = "failed"]
  /\ UNCHANGED <<tries, stage, offers>>

OutcomeNext ==
  \/ \E q \in Quotes :
       \/ Accept(q) \/ Try(q) \/ Complete(q) \/ Fail(q)
       \/ \E S \in SUBSET Carriers : Offer(q, S)
  \/ \E P \in SUBSET Quotes : Abandon(P)

OutcomeSpec == OutcomeInit /\ [][OutcomeNext]_outcomeVars
=============================================================================
