---------------------------- MODULE QuoteNumbers ----------------------------
(***************************************************************************)
(* A quote's numbers on their way from the form to the options: converted  *)
(* by the page, checked by the API, rounded by the columns, read by the    *)
(* worker and perhaps changed by a PATCH meanwhile.                        *)
(*                                                                         *)
(* The weight stands for the dimensions, too: the page rounds them to what *)
(* a column holds, while it sends the cargo's value as it was typed.  A    *)
(* column holds multiples of Unit below its limit.                         *)
(***************************************************************************)
EXTENDS Naturals

CONSTANTS
  Weights, Values,          \* bounds: what is typed or patched
  WeightLimit, ValueLimit,  \* the first numbers that columns cannot hold
  PriceLimit,
  MaxPatches                \* bound

Unit == 10

ASSUME NumbersAssumption ==
  /\ Weights \subseteq Nat /\ Values \subseteq Nat
  /\ {WeightLimit, ValueLimit, PriceLimit} \subseteq Nat \ {0} /\ MaxPatches \in Nat

VARIABLES
  posted,  \* the POST's numbers, or NoNumbers
  status,  \* "none" before the row, "refused", "PENDING", "PROCESSING", "DONE", "ERROR"
  row,     \* the quote's columns
  quote,   \* the worker's copy of the row
  isRead,  \* whether the worker has read it
  price,   \* of the quote's option
  patches,
  patched  \* history: "no", "before" the worker read the row, or "since"

numbersVars == <<posted, status, row, quote, isRead, price, patches, patched>>

Numbers == [weight : Nat, value : Nat]
NoNumbers == [weight |-> 0, value |-> 0]
Typed == [weight : Weights, value : Values]

\* The nearest multiple of Unit, as Math.round and MySQL find it.
ToColumn(n) == ((n + Unit \div 2) \div Unit) * Unit

NumbersInit ==
  /\ posted = NoNumbers /\ row = NoNumbers /\ quote = NoNumbers
  /\ status = "none" /\ isRead = FALSE /\ price = 0
  /\ patches = 0 /\ patched = "no"
-----------------------------------------------------------------------------
\* tonsToKg and metersToCm; Number(cargoValue)
Converted(typed) == [typed EXCEPT !.weight = ToColumn(@)]

PageSubmits(typed) ==
  /\ status = "none" /\ posted = NoNumbers
  /\ posted' = Converted(typed)
  /\ UNCHANGED <<status, row, quote, isRead, price, patches, patched>>

\* @IsPositive
Positive(n) == n > 0
Valid(n) == Positive(n.weight) /\ Positive(n.value)

Stored(n) == [weight |-> ToColumn(n.weight), value |-> ToColumn(n.value)]
Fits(n) == Stored(n).weight < WeightLimit /\ Stored(n).value < ValueLimit

RowCreated ==
  /\ status = "none" /\ posted # NoNumbers
  /\ IF Valid(posted) /\ Fits(posted)
     THEN row' = Stored(posted) /\ status' = "PENDING"
     ELSE status' = "refused" /\ UNCHANGED row
  /\ UNCHANGED <<posted, quote, isRead, price, patches, patched>>

\* The options are not computed again.
RowPatched(n) ==
  /\ status \in {"PENDING", "PROCESSING", "DONE", "ERROR"}
  /\ patches < MaxPatches
  /\ Valid(n) /\ Fits(n)
  /\ row' = Stored(n)
  /\ patches' = patches + 1
  /\ patched' = IF isRead THEN "since" ELSE "before"
  /\ UNCHANGED <<posted, status, quote, isRead, price>>

\* Mutant: the job carries the numbers of the POST.
ReadsFromJob ==
  /\ status = "PENDING" /\ ~isRead
  /\ quote' = posted /\ isRead' = TRUE
  /\ UNCHANGED <<posted, status, row, price, patches, patched>>

WorkerReads ==
  /\ status = "PENDING" /\ ~isRead
  /\ quote' = row /\ isRead' = TRUE
  /\ UNCHANGED <<posted, status, row, price, patches, patched>>

\* The status is written some time after the row was read; the row is not read
\* again.
MarkedProcessing ==
  /\ status = "PENDING" /\ isRead
  /\ status' = "PROCESSING"
  /\ UNCHANGED <<posted, row, quote, isRead, price, patches, patched>>

\* A carrier that charges by weight and by value; Pricing has the formula.
PriceOf(n) == n.weight + n.value

\* createMany rejects a price its column cannot hold, and the listener of the
\* failed job writes ERROR.
OptionPriced ==
  /\ status = "PROCESSING"
  /\ IF PriceOf(quote) < PriceLimit
     THEN price' = PriceOf(quote) /\ status' = "DONE"
     ELSE status' = "ERROR" /\ UNCHANGED price
  /\ UNCHANGED <<posted, row, quote, isRead, patches, patched>>

NumbersNext ==
  \/ \E n \in Typed : PageSubmits(n) \/ RowPatched(n)
  \/ RowCreated \/ WorkerReads \/ MarkedProcessing \/ OptionPriced

NumbersSpec == NumbersInit /\ [][NumbersNext]_numbersVars
-----------------------------------------------------------------------------
NumbersTypeOK ==
  /\ {posted, row, quote} \subseteq Numbers
  /\ status \in {"none", "refused", "PENDING", "PROCESSING", "DONE", "ERROR"}
  /\ status \in {"none", "refused"} => row = NoNumbers
  /\ isRead \in BOOLEAN /\ (status \in {"PROCESSING", "DONE", "ERROR"} => isRead)
  /\ row.weight < WeightLimit /\ row.value < ValueLimit /\ price < PriceLimit
  /\ patches \in 0..MaxPatches /\ patched \in {"no", "before", "since"}

\* What the page sends is what is stored: a weight or a dimension is not
\* rounded a second time, and is positive; the value, which the page does not
\* round, is off by less than a unit.
StoredAsSent ==
  patched = "no" /\ status \notin {"none", "refused"} =>
    /\ row.weight = posted.weight /\ row.weight > 0
    /\ row.value < posted.value + Unit /\ posted.value < row.value + Unit

\* The options are those of the row as it is, a PATCH before the worker took
\* the quote included; they are of older numbers only after a later PATCH.
PricedAsStored == status = "DONE" /\ patched # "since" => price = PriceOf(row)

\* From the form to the option no number is lost on the way.
NumbersArePassedOn == StoredAsSent /\ PricedAsStored
=============================================================================
