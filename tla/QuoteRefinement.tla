--------------------------- MODULE QuoteRefinement ---------------------------
(* FreightQuotes implements QuoteOutcome. *)
EXTENDS FreightQuotes

OutcomeOf(j) == IF j \in {"waiting", "active"} THEN "accepted" ELSE j

StageOf(r) ==
  IF r \in {"read", "processing", "carriers", "options"} THEN "trying"
  ELSE IF r \in {"done", "emit", "ack"} THEN "offered" ELSE "idle"

Promise == INSTANCE QuoteOutcome WITH
  MaxTries <- MaxStalledCount + 1,
  outcome <- [q \in Quotes |-> OutcomeOf(job[q])],
  tries <- attempts,
  stage <- [q \in Quotes |-> StageOf(run[q])],
  offers <- options

\* The worker, BullMQ and their failures keep the promise of QuoteOutcome:
\* bounded tries, one set of offers per try, one conclusion that stands.
KeepsPromise == Promise!OutcomeSpec
=============================================================================
