----------------------------- MODULE PagesProofs -----------------------------
(***************************************************************************)
(* Proofs about the pages, for any number of quotes, tokens, searches,     *)
(* tabs and submissions.  A step of Pages is a step of one page and        *)
(* changes nothing of the others, so what a page preserves is preserved.   *)
(***************************************************************************)
EXTENDS Pages, WellFoundedInduction, TLAPS

\* A step of the composition, seen from each page.
LEMMA PagesStep ==
  ASSUME [PagesNext]_pagesVars
  PROVE  /\ [QuotePageNext]_quotePageVars
         /\ [NumbersNext]_numbersVars
         /\ [CepNext]_cepVars
         /\ [ListNext]_listVars
         /\ [ChartNext]_chartVars
         /\ [FormsNext]_formsVars
BY DEF PagesNext, pagesVars, OthersOf

\* Whatever is fair, a behaviour of the pages takes steps of the pages.
LEMMA PagesSafe == PagesSpec => PagesInit /\ [][PagesNext]_pagesVars
BY PTL DEF PagesSpec
-----------------------------------------------------------------------------
(* The forms *)

Pending == {"sent", "stored", "challenged", "refused", "lost"}

\* Where the last submission is.
Now(at) == sent > 0 /\ request[sent] = at

\* Only the last submission can be under way, and while it is the button is
\* disabled; a form that thanked has none.
LastUnderWay ==
  /\ \A i \in Submissions : request[i] \in Pending => i = sent /\ isSubmitting
  /\ formAt = "thanked" => \A i \in Submissions : request[i] \notin Pending

\* Until the form has been answered, there is no mfaToken but its own and every
\* row but its own is of a lost answer; from then on a further one takes a
\* submission of its own.
Counted ==
  /\ losses <= rows /\ rows + mfaTokens <= sent /\ again <= sent
  /\ Now("sent") => rows + mfaTokens < sent
  /\ Now("stored") => rows > losses
  /\ Now("challenged") => mfaTokens > 0 /\ form # "contact"
  /\ formAt = "form" =>
       /\ again = 0 /\ leads = "nowhere"
       /\ rows = IF Now("stored") THEN losses + 1 ELSE losses
       /\ mfaTokens = IF Now("challenged") THEN 1 ELSE 0
  /\ formAt # "form" =>
       /\ rows + mfaTokens > losses /\ rows + mfaTokens <= 1 + losses + again
       /\ Now("sent") => rows + mfaTokens <= losses + again
  /\ formAt = "thanked" \/ leads = "inside" => rows > losses
  /\ leads = "verify" => mfaTokens > 0

FormBook == LastUnderWay /\ Counted

FormInv == FormsTypeOK /\ FormBook

LEMMA FormStart == FormsInit => FormInv
<1> SUFFICES ASSUME FormsInit PROVE FormInv
  OBVIOUS
<1> USE FormsAssumption DEF FormsInit
<1>1. FormsTypeOK
  <2>1. form \in Forms /\ accepted \in BOOLEAN /\ isSubmitting \in BOOLEAN
    OBVIOUS
  <2>2. /\ sent \in 0..MaxSubmissions /\ formError \in 0..MaxSubmissions
        /\ again \in 0..MaxSubmissions /\ rows \in 0..MaxSubmissions /\ losses \in 0..MaxLosses
    OBVIOUS
  <2>3. /\ formAt \in IF form = "contact" THEN {"form", "thanked"} ELSE {"form", "leaving", "left"}
        /\ leads \in {"nowhere", "inside", "verify"} /\ mfaTokens \in 0..MaxSubmissions
    OBVIOUS
  <2>4. /\ body \in [Submissions -> BOOLEAN]
        /\ request \in [Submissions -> {"none", "sent", "stored", "challenged", "refused", "lost", "over"}]
    OBVIOUS
  <2> QED BY <2>1, <2>2, <2>3, <2>4 DEF FormsTypeOK
<1>2. FormBook
  BY DEF FormBook, LastUnderWay, Counted, Pending, Now, Submissions
<1> QED BY <1>1, <1>2 DEF FormInv

\* Every step of a form keeps the types and the book.
LEMMA FormStep ==
  ASSUME FormInv, [FormsNext]_formsVars
  PROVE  FormInv'
<1> USE FormsAssumption DEF FormInv, FormsTypeOK, FormBook, LastUnderWay, Counted, Pending, Now, Submissions
<1>1. CASE Edits
  BY <1>1 DEF Edits
<1>2. CASE HandleSubmit
  <2>1. FormsTypeOK'
    BY <1>2 DEF HandleSubmit, Begins
  <2>2. sent' \in Submissions /\ sent' = sent + 1 /\ request' = [request EXCEPT ![sent'] = "sent"]
    BY <1>2 DEF HandleSubmit, Begins
  <2>3. \A i \in Submissions : request[i] \notin Pending
    BY <1>2 DEF HandleSubmit
  <2>4. LastUnderWay'
    BY <1>2, <2>2, <2>3 DEF HandleSubmit, Begins
  <2>5. \A at \in Pending : ~Now(at) /\ (Now(at)' => at = "sent")
    BY <2>2, <2>3
  <2>6. Counted'
    <3>1. /\ formAt \in {"form", "leaving"} /\ formAt' = formAt /\ leads' = leads
          /\ rows' = rows /\ mfaTokens' = mfaTokens /\ losses' = losses
          /\ again' = IF formAt = "leaving" THEN again + 1 ELSE again
      BY <1>2 DEF HandleSubmit, Begins
    <3> HIDE DEF Now
    <3> QED BY <2>2, <2>5, <3>1
  <2> QED BY <2>1, <2>4, <2>6
<1>3. ASSUME NEW i \in Submissions, Stores(i) PROVE FormInv'
  <2>1. i = sent /\ i > 0 /\ request[sent] = "sent" /\ formAt # "thanked" /\ isSubmitting
    BY <1>3 DEF Stores
  <2>2. PICK at \in {"stored", "lost"} :
          /\ request' = [request EXCEPT ![sent] = at]
          /\ losses' = IF at = "lost" THEN losses + 1 ELSE losses
    BY <1>3, <2>1 DEF Stores
  <2>3. rows' = rows + 1 /\ rows + mfaTokens < sent /\ rows' \in 0..MaxSubmissions /\ losses' \in 0..MaxLosses
    BY <1>3, <2>1 DEF Stores
  <2>4. FormsTypeOK'
    <3>1. request' \in [Submissions -> {"none", "sent", "stored", "challenged", "refused", "lost", "over"}]
      BY <2>2
    <3> QED BY <1>3, <2>3, <3>1 DEF Stores
  <2>5. LastUnderWay'
    BY <1>3, <2>1, <2>2 DEF Stores
  <2>6. Counted'
    <3>1. Now("sent") /\ ~Now("stored") /\ ~Now("challenged")
      BY <2>1
    <3>2. ~Now("sent")' /\ ~Now("challenged")' /\ (Now("stored")' <=> at = "stored")
      BY <1>3, <2>1, <2>2 DEF Stores
    <3>3. /\ sent' = sent /\ again' = again /\ mfaTokens' = mfaTokens
          /\ formAt' = formAt /\ leads' = leads
      BY <1>3 DEF Stores
    <3> HIDE DEF Now
    <3> QED BY <2>1, <2>2, <2>3, <3>1, <3>2, <3>3
  <2> QED BY <2>4, <2>5, <2>6
<1>4. ASSUME NEW i \in Submissions, Refuses(i) PROVE FormInv'
  BY <1>4 DEF Refuses
<1>5. ASSUME NEW i \in Submissions, Succeeds(i) PROVE FormInv'
  <2>1. i = sent /\ i > 0
    BY <1>5 DEF Succeeds
  <2>2. FormsTypeOK'
    BY <1>5 DEF Succeeds
  <2>3. FormBook'
    BY <1>5, <2>1 DEF Succeeds
  <2> QED BY <2>2, <2>3
<1>6. ASSUME NEW i \in Submissions, SubmissionFails(i) PROVE FormInv'
  <2>1. i = sent /\ i > 0
    BY <1>6 DEF SubmissionFails
  <2>2. FormsTypeOK'
    BY <1>6 DEF SubmissionFails
  <2>3. FormBook'
    BY <1>6, <2>1 DEF SubmissionFails
  <2> QED BY <2>2, <2>3
<1>7. CASE NavigationEnds
  BY <1>7 DEF NavigationEnds
<1>8. ASSUME NEW i \in Submissions, Challenges(i) PROVE FormInv'
  <2>1. i = sent /\ i > 0
    BY <1>8 DEF Challenges
  <2>2. FormsTypeOK'
    BY <1>8, <2>1 DEF Challenges
  <2>3. FormBook'
    BY <1>8, <2>1 DEF Challenges
  <2> QED BY <2>2, <2>3
<1>9. CASE UNCHANGED formsVars
  BY <1>9 DEF formsVars
<1> QED BY <1>1, <1>2, <1>3, <1>4, <1>5, <1>6, <1>7, <1>8, <1>9 DEF FormsNext, FormProceeds

\* For any number of submissions and losses, a form thanks or leads inside only
\* for a row that is stored and answered and asks for a code only with an
\* mfaToken, and a second row or mfaToken needs a lost answer or a form used
\* while it is left.
THEOREM RowsStayMeant == PagesSpec => []RowsAreMeant
<1>1. FormInv => RowsAreMeant
  <2> SUFFICES ASSUME FormInv PROVE RowsAreMeant
    OBVIOUS
  <2> USE FormsAssumption DEF FormInv, FormsTypeOK, FormBook, Counted
  <2>1. ~(Now("stored") /\ Now("challenged"))
    BY DEF Now
  <2>2. rows + mfaTokens <= 1 + losses + again
    BY <2>1
  <2> QED BY <2>2 DEF RowsAreMeant
<1>2. PagesInit => FormInv
  BY FormStart DEF PagesInit
<1>3. FormInv /\ [PagesNext]_pagesVars => FormInv'
  BY PagesStep, FormStep
<1> QED BY <1>1, <1>2, <1>3, PagesSafe, PTL
-----------------------------------------------------------------------------
(* The numbers of a quote *)

\* A number that a column holds is not rounded by a column.
LEMMA ColumnIsExact ==
  ASSUME NEW n \in Nat
  PROVE  /\ ToColumn(n) \in Nat /\ ToColumn(ToColumn(n)) = ToColumn(n)
         /\ ToColumn(n) < n + Unit /\ n < ToColumn(n) + Unit
BY DEF ToColumn, Unit

Held == {"PENDING", "PROCESSING", "DONE", "ERROR"}

\* The row is the POST's until a PATCH changes it, the worker's copy is the row
\* unless the PATCH came later, and the price is the copy's.
NumbersBook ==
  /\ posted \in Numbers /\ row \in Numbers /\ quote \in Numbers
  /\ status \in Held \cup {"none", "refused"}
  /\ ToColumn(posted.weight) = posted.weight
  /\ status \in Held /\ patched = "no" => row = Stored(posted) /\ Valid(posted)
  /\ isRead <=> isRead = TRUE
  /\ isRead => status \in Held
  /\ isRead /\ patched # "since" => quote = row
  /\ status \in {"PROCESSING", "DONE", "ERROR"} => isRead
  /\ status = "DONE" => price = PriceOf(quote)

LEMMA NumbersStart == NumbersInit => NumbersBook
BY DEF NumbersInit, NumbersBook, NoNumbers, Numbers, Held, ToColumn, Unit

\* Every step keeps the numbers' book.
LEMMA NumbersStep ==
  ASSUME NumbersBook, [NumbersNext]_numbersVars
  PROVE  NumbersBook'
<1> USE NumbersAssumption DEF NumbersBook, Numbers, Held
<1>1. ASSUME NEW n \in Typed, PageSubmits(n) PROVE NumbersBook'
  <2>1. n.weight \in Nat /\ n.value \in Nat /\ Converted(n) = [weight |-> ToColumn(n.weight), value |-> n.value]
    BY DEF Typed, Converted
  <2> QED BY <1>1, <2>1, ColumnIsExact DEF PageSubmits
<1>2. ASSUME NEW n \in Typed, RowPatched(n) PROVE NumbersBook'
  <2>1. n.weight \in Nat /\ n.value \in Nat
    BY DEF Typed
  <2>2. Stored(n) \in Numbers
    BY <2>1, ColumnIsExact DEF Stored
  <2> QED BY <1>2, <2>2 DEF RowPatched
<1>3. CASE RowCreated
  <2>1. Stored(posted) \in Numbers
    BY ColumnIsExact DEF Stored
  <2> QED BY <1>3, <2>1 DEF RowCreated
<1>4. CASE WorkerReads
  BY <1>4 DEF WorkerReads
<1>5. CASE MarkedProcessing
  BY <1>5 DEF MarkedProcessing
<1>6. CASE OptionPriced
  BY <1>6 DEF OptionPriced
<1>7. CASE UNCHANGED numbersVars
  BY <1>7 DEF numbersVars, PriceOf, Stored, Valid, Positive
<1> QED BY <1>1, <1>2, <1>3, <1>4, <1>5, <1>6, <1>7 DEF NumbersNext

\* For all numbers and limits: what the page sends is what is stored, and the
\* options are of the row unless it was changed after the worker took it.
THEOREM NumbersStayTrue == PagesSpec => []NumbersArePassedOn
<1>1. NumbersBook => NumbersArePassedOn
  <2> SUFFICES ASSUME NumbersBook PROVE NumbersArePassedOn
    OBVIOUS
  <2> USE DEF NumbersBook, Numbers, Held
  <2>1. StoredAsSent
    BY ColumnIsExact DEF StoredAsSent, Stored, Valid, Positive
  <2>2. PricedAsStored
    BY DEF PricedAsStored
  <2> QED BY <2>1, <2>2 DEF NumbersArePassedOn
<1>2. PagesInit => NumbersBook
  BY NumbersStart DEF PagesInit
<1>3. NumbersBook /\ [PagesNext]_pagesVars => NumbersBook'
  BY PagesStep, NumbersStep
<1> QED BY <1>1, <1>2, <1>3, PagesSafe, PTL
-----------------------------------------------------------------------------
(* The quote on the page *)

\* A run without a quote waits for nothing.
Idle(f) == f.get = "over" /\ f.socket = "closed" /\ f.wire = {}

\* There is no effect before a quote is shown, and none takes quote 0 for its
\* own, which is another user's.
EffectBook ==
  /\ QuotePageTypeOK
  /\ post = "sent" => created < MaxQuotes
  /\ post = "created" => created > 0
  /\ shown = 0 => quoteEffect.quote = 0
  /\ quoteEffect.quote = 0 => Idle(quoteEffect)

LEMMA EffectStart == QuotePageInit => EffectBook
<1> SUFFICES ASSUME QuotePageInit PROVE EffectBook
  OBVIOUS
<1> USE QuotePageAssumption DEF QuotePageInit, Tried
<1>1. quoteEffect \in Effect
  BY DEF NoEffect, Effect
<1>2. outcome \in [Tried -> States] /\ shownAs \in States
  BY DEF States
<1>3. waitError \in BOOLEAN
  OBVIOUS
<1>4. created \in Tried /\ shown \in Tried /\ lateGets \subseteq Tried
  OBVIOUS
<1>5. token \in 1..MaxTokens /\ quoteLosses \in 0..MaxQuoteLosses
  OBVIOUS
<1>6. QuotePageTypeOK
  BY <1>1, <1>2, <1>3, <1>4, <1>5 DEF QuotePageTypeOK
<1> QED BY <1>6 DEF EffectBook, NoEffect, Idle

\* A handler that leaves a run of the quote it found leaves the book in order.
LEMMA FlushKeepsBook ==
  ASSUME EffectBook, NEW f \in Effect, f.quote = quoteEffect.quote, f.quote = 0 => Idle(f),
         Flush(f), shown' = 0 => shown = 0
  PROVE  /\ quoteEffect' \in Effect /\ lateGets' \subseteq Tried
         /\ shown' = 0 => quoteEffect'.quote = 0
         /\ quoteEffect'.quote = 0 => Idle(quoteEffect')
<1> USE DEF EffectBook, QuotePageTypeOK
<1>1. CASE EffectDue
  <2>1. f.quote \in Tried
    BY DEF Effect
  <2>2. Started \in Effect
    BY QuotePageAssumption DEF Started, Effect, Tried
  <2>3. Started.quote = shown /\ shown # 0
    BY <1>1 DEF Started, EffectDue
  <2>4. quoteEffect' = Started /\ lateGets' \subseteq lateGets \cup {f.quote}
    BY <1>1 DEF Flush
  <2> QED BY <2>1, <2>2, <2>3, <2>4
<1>2. CASE ~EffectDue
  <2>1. quoteEffect' = f /\ lateGets' = lateGets
    BY <1>2 DEF Flush
  <2>2. shown' = 0 => f.quote = 0
    OBVIOUS
  <2> QED BY <2>1, <2>2
<1> QED BY <1>1, <1>2

\* Every step keeps the book, and replaces the quote as the page means to.
LEMMA EffectStep ==
  ASSUME EffectBook, [QuotePageNext]_quotePageVars
  PROVE  EffectBook' /\ (shown' # shown => EffectDue \/ (post = "created" /\ shown' = created))
<1> DEFINE Replaces == shown' # shown => EffectDue \/ (post = "created" /\ shown' = created)
<1> SUFFICES EffectBook' /\ Replaces
  OBVIOUS
<1> USE QuotePageAssumption DEF EffectBook, QuotePageTypeOK, Tried
<1>1. CASE Submit
  BY <1>1, FlushKeepsBook DEF Submit
<1>2. CASE ApiCreates
  BY <1>2 DEF ApiCreates
<1>3. CASE ApiRefuses
  BY <1>3 DEF ApiRefuses
<1>4. CASE PostAnswered
  <2>1. shown' # 0 /\ created > 0 /\ shown' = created
    BY <1>4 DEF PostAnswered
  <2> QED BY <1>4, <2>1, FlushKeepsBook DEF PostAnswered, States
<1>5. CASE PostFailed
  BY <1>5, FlushKeepsBook DEF PostFailed
<1>6. CASE TokenRotates
  <2>1. Flush(quoteEffect) /\ shown' = shown /\ token' \in 1..MaxTokens
    BY <1>6 DEF TokenRotates, formState
  <2>2. /\ quoteEffect' \in Effect /\ lateGets' \subseteq Tried
        /\ shown' = 0 => quoteEffect'.quote = 0
        /\ quoteEffect'.quote = 0 => Idle(quoteEffect')
    BY <2>1, FlushKeepsBook
  <2> QED BY <1>6, <2>1, <2>2 DEF TokenRotates, formState
<1>7. CASE RunEffect
  BY <1>7, FlushKeepsBook DEF RunEffect, formState
<1>8. ASSUME NEW q \in Tried, Concludes(q) \/ (q = 0 /\ ConcludesOther) PROVE EffectBook' /\ Replaces
  <2>1. quoteEffect' \in Effect /\ quoteEffect'.quote = quoteEffect.quote
        /\ (quoteEffect.quote = 0 => Idle(quoteEffect'))
    <3>1. Emitted(q)
      BY <1>8 DEF Concludes, ConcludesOther
    <3> QED BY <3>1 DEF Emitted, Effect, Idle
  <2>2. outcome' \in [Tried -> States]
    BY <1>8 DEF Concludes, ConcludesOther, States
  <2> QED BY <1>8, <2>1, <2>2 DEF Concludes, ConcludesOther, formState
<1>9. ASSUME NEW q \in Tried, LateGet(q) PROVE EffectBook' /\ Replaces
  BY <1>9 DEF LateGet, formState
<1>10. CASE GatewayDecides
  <2>1. quoteEffect' \in Effect /\ quoteEffect'.quote = quoteEffect.quote /\ quoteEffect.quote # 0
    BY <1>10 DEF GatewayDecides, Effect, Idle
  <2> QED BY <1>10, <2>1 DEF GatewayDecides, formState
<1>11. CASE ApiAnswers
  <2>1. outcome[quoteEffect.quote] \in States
    BY DEF Effect
  <2>2. quoteEffect' \in Effect /\ quoteEffect'.quote = quoteEffect.quote /\ quoteEffect.quote # 0
    BY <1>11, <2>1 DEF ApiAnswers, Effect, Idle
  <2> QED BY <1>11, <2>2 DEF ApiAnswers, formState
<1>12. CASE GetResolves
  <2> DEFINE f == [quoteEffect EXCEPT !.get = "over", !.settled = TRUE]
  <2>1. f \in Effect /\ f.quote = quoteEffect.quote /\ quoteEffect.quote \in Tried
    BY DEF Effect
  <2>2. quoteEffect.quote # 0
    BY <1>12 DEF GetResolves, Idle, States
  <2>3. shown' \in Tried /\ shownAs' \in States /\ shown' # 0 /\ shown' = quoteEffect.quote
    BY <1>12, <2>1, <2>2 DEF GetResolves
  <2>4. Flush(f)
    BY <1>12 DEF GetResolves
  <2>5. quoteEffect' \in Effect /\ lateGets' \subseteq Tried /\ (quoteEffect'.quote = 0 => Idle(quoteEffect'))
    BY <2>1, <2>2, <2>3, <2>4, FlushKeepsBook
  <2> QED BY <1>12, <2>2, <2>3, <2>5 DEF GetResolves, EffectDue, Follows
<1>13. CASE GetRejects
  <2> DEFINE f == [quoteEffect EXCEPT !.get = "over"]
             g == [quoteEffect EXCEPT !.get = "over", !.settled = TRUE]
  <2>1. f \in Effect /\ g \in Effect /\ f.quote = quoteEffect.quote /\ g.quote = quoteEffect.quote
    BY DEF Effect
  <2>2. quoteEffect.quote # 0
    BY <1>13 DEF GetRejects, Idle
  <2>3. CASE quoteEffect.get = "lost"
    BY <1>13, <2>1, <2>2, <2>3 DEF GetRejects
  <2>4. CASE quoteEffect.get # "lost"
    <3>1. Flush(g) /\ shown' = shown /\ waitError' = TRUE
      BY <1>13, <2>4 DEF GetRejects
    <3>2. quoteEffect' \in Effect /\ lateGets' \subseteq Tried /\ (shown' = 0 => quoteEffect'.quote = 0)
          /\ (quoteEffect'.quote = 0 => Idle(quoteEffect'))
      BY <2>1, <2>2, <3>1, FlushKeepsBook
    <3> QED BY <1>13, <3>1, <3>2 DEF GetRejects
  <2> QED BY <2>3, <2>4
<1>14. ASSUME NEW q \in Tried, EventArrives(q) PROVE EffectBook' /\ Replaces
  <2> DEFINE f == [quoteEffect EXCEPT !.wire = @ \ {q}, !.settled = TRUE]
             g == [quoteEffect EXCEPT !.wire = @ \ {q}]
  <2>1. f \in Effect /\ g \in Effect /\ f.quote = quoteEffect.quote /\ g.quote = quoteEffect.quote
    BY DEF Effect
  <2>2. quoteEffect.quote # 0
    BY <1>14 DEF EventArrives, Idle
  <2>3. CASE q # quoteEffect.quote
    BY <1>14, <2>1, <2>2, <2>3 DEF EventArrives
  <2>4. CASE q = quoteEffect.quote
    <3>1. Flush(f) /\ shown' = q /\ shownAs' = outcome[q]
      BY <1>14, <2>4 DEF EventArrives
    <3>2. quoteEffect' \in Effect /\ lateGets' \subseteq Tried /\ (quoteEffect'.quote = 0 => Idle(quoteEffect'))
      BY <2>1, <2>2, <2>4, <3>1, FlushKeepsBook
    <3> QED BY <1>14, <2>2, <2>4, <3>1, <3>2 DEF EventArrives, EffectDue, Follows
  <2> QED BY <2>3, <2>4
<1>15. CASE SocketErrorArrives
  <2> DEFINE f == [quoteEffect EXCEPT !.socket = "closed", !.settled = TRUE]
  <2>1. f \in Effect /\ f.quote = quoteEffect.quote /\ quoteEffect.quote # 0
    BY <1>15 DEF Effect, SocketErrorArrives, Idle
  <2>2. Flush(f) /\ shown' = shown
    BY <1>15 DEF SocketErrorArrives
  <2>3. quoteEffect' \in Effect /\ lateGets' \subseteq Tried /\ (shown' = 0 => quoteEffect'.quote = 0)
        /\ (quoteEffect'.quote = 0 => Idle(quoteEffect'))
    BY <2>1, <2>2, FlushKeepsBook
  <2> QED BY <1>15, <2>2, <2>3 DEF SocketErrorArrives
<1>16. CASE TimeoutFires
  <2> DEFINE f == [quoteEffect EXCEPT !.timer = FALSE]
  <2>1. f \in Effect /\ f.quote = quoteEffect.quote /\ (f.quote = 0 => Idle(f))
    BY DEF Effect, Idle
  <2>2. CASE quoteEffect.settled
    BY <1>16, <2>1, <2>2 DEF TimeoutFires
  <2>3. CASE ~quoteEffect.settled
    <3>1. Flush(f) /\ shown' = shown
      BY <1>16, <2>3 DEF TimeoutFires
    <3>2. quoteEffect' \in Effect /\ lateGets' \subseteq Tried /\ (shown' = 0 => quoteEffect'.quote = 0)
          /\ (quoteEffect'.quote = 0 => Idle(quoteEffect'))
      BY <2>1, <3>1, FlushKeepsBook
    <3> QED BY <1>16, <2>3, <3>1, <3>2 DEF TimeoutFires
  <2> QED BY <2>2, <2>3
<1>17. CASE UNCHANGED quotePageVars
  BY <1>17 DEF quotePageVars, formState
<1> QED BY <1>1, <1>2, <1>3, <1>4, <1>5, <1>6, <1>7, <1>8, <1>9, <1>10, <1>11, <1>12,
           <1>13, <1>14, <1>15, <1>16, <1>17 DEF QuotePageNext, Handles

\* For any number of quotes and tokens, the quote on the page is replaced by
\* that of a later submission only, or between a render and its effect.
THEOREM OnlyNewerReplace == PagesSpec => OnlyNewerQuotesReplace
<1>1. PagesInit => EffectBook
  BY EffectStart DEF PagesInit
<1>2. EffectBook /\ [PagesNext]_pagesVars => EffectBook'
  BY PagesStep, EffectStep
<1>3. EffectBook /\ [PagesNext]_pagesVars
        => [shown' # shown => EffectDue \/ (post = "created" /\ shown' = created)]_quotePageVars
  BY PagesStep, EffectStep
<1> QED BY <1>1, <1>2, <1>3, PagesSafe, PTL DEF OnlyNewerQuotesReplace
-----------------------------------------------------------------------------
(* The search of a CEP *)

\* The widget shows what it took of a search.  While no searches overlap only
\* the last one is not taken, and until it is the widget shows nothing.
CepBook ==
  /\ searches \in Seq(Search)
  /\ results \in {0} \cup Calls /\ searchError \in {0} \cup Calls
  /\ isSearching \in BOOLEAN /\ overlapped \in BOOLEAN
  /\ fields \in Addresses \cup {Partial}
  /\ message = "none" <=> searchError = 0
  /\ searchError # 0 => searches[searchError].answer = "taken"
  /\ message = "not found" => searches[searchError].viacep \in {"no address", "an object"}
  /\ \A i \in Calls : searches[i].answer = "no address" => searches[i].viacep \in {"no address", "an object"}
  /\ ~overlapped =>
       /\ \A i \in Calls : searches[i].answer # "taken" => i = Len(searches)
       /\ isSearching <=> \E i \in Calls : searches[i].answer # "taken"
       /\ isSearching => results = 0 /\ searchError = 0
       /\ results # 0 => results = Len(searches) /\ searchError = 0
       /\ searchError # 0 => searchError = Len(searches)

LEMMA CepStart == CepInit => CepBook
<1> SUFFICES ASSUME CepInit PROVE CepBook
  OBVIOUS
<1> USE DEF CepInit
<1>1. searches \in Seq(Search) /\ Len(searches) = 0
  OBVIOUS
<1>2. isSearching \in BOOLEAN /\ overlapped \in BOOLEAN /\ fields \in Addresses \cup {Partial}
  OBVIOUS
<1> QED BY <1>1, <1>2 DEF CepBook, Calls

LEMMA IsSearch ==
  ASSUME NEW s \in Seq(Search), NEW i \in 1..Len(s)
  PROVE  s[i] \in Search
OBVIOUS

LEMMA NoCallIsZero ==
  ASSUME searches \in Seq(Search), NEW i \in Calls
  PROVE  i # 0
BY DEF Calls

\* A search is replaced and the others stay.
Becomes(i, e) ==
  /\ searches' \in Seq(Search) /\ Len(searches') = Len(searches) /\ Len(searches) \in Nat
  /\ searches'[i] = e /\ \A j \in Calls : j # i => searches'[j] = searches[j]

LEMMA Replaced ==
  ASSUME searches \in Seq(Search), NEW i \in Calls, NEW e \in Search
  PROVE  searches' = [searches EXCEPT ![i] = e] => Becomes(i, e)
BY DEF Becomes, Calls

\* An appended search is the last one.
LEMMA Appended ==
  ASSUME NEW s \in Seq(Search), NEW e \in Search, NEW u, u = Append(s, e)
  PROVE  /\ u \in Seq(Search) /\ Len(u) \in 1..Len(u) /\ u[Len(u)] = e
         /\ \A j \in 1..Len(u) : j # Len(u) => j \in 1..Len(s) /\ u[j] = s[j]
OBVIOUS

\* A call of handleSearch keeps the book.
LEMMA HandleSearchKeepsBook ==
  ASSUME CepBook, HandleSearch
  PROVE  CepBook'
<1> DEFINE new == [address |-> fields, viacep |-> "not asked", answer |-> "awaited"]
           n == Len(searches')
<1>1. new \in Search /\ new.answer = "awaited"
  BY DEF Search, CepBook
<1>2. searches' = Append(searches, new)
  BY DEF HandleSearch, Sends
<1> HIDE DEF new
<1>3. searches \in Seq(Search)
  BY DEF CepBook
<1>4. /\ searches' \in Seq(Search) /\ n \in 1..n /\ searches'[n] = new
      /\ \A j \in 1..n : j # n => j \in Calls /\ searches'[j] = searches[j]
  BY <1>1, <1>2, <1>3, Appended DEF Calls
<1>5. results' = 0 /\ searchError' = 0 /\ message' = "none" /\ fields' = fields
  BY DEF HandleSearch
<1>6. isSearching' = TRUE /\ overlapped' \in BOOLEAN
  BY DEF HandleSearch, Sends, CepBook
<1>7. \A j \in 1..n : searches'[j].answer = "no address" => searches'[j].viacep \in {"no address", "an object"}
  <2> SUFFICES ASSUME NEW j \in 1..n, searches'[j].answer = "no address"
               PROVE  searches'[j].viacep \in {"no address", "an object"}
    OBVIOUS
  <2>1. j # n
    BY <1>1, <1>4
  <2> QED BY <1>4, <2>1 DEF CepBook
<1>8. ~overlapped' => \A j \in Calls : searches[j].answer = "taken"
  BY DEF HandleSearch, Sends
<1>9. ~overlapped' => \A j \in 1..n : searches'[j].answer # "taken" => j = n
  BY <1>4, <1>8
<1>10. searches'[n].answer # "taken"
  BY <1>1, <1>4
<1>11. fields' \in Addresses \cup {Partial}
  BY <1>5 DEF CepBook
<1> QED BY <1>4, <1>5, <1>6, <1>7, <1>9, <1>10, <1>11 DEF CepBook, Calls

\* A search whose answer is another one now is a search.
LEMMA AnswerTyped ==
  ASSUME NEW e \in Search
  PROVE  /\ \A a \in {"awaited", "addresses", "no address", "failure", "taken"} :
               LET f == [e EXCEPT !.answer = a] IN f \in Search /\ f.answer = a /\ f.viacep = e.viacep
         /\ \A v \in ViaCepSays :
               LET f == [e EXCEPT !.viacep = v, !.answer = SearchByAddress(v)]
               IN f \in Search /\ f.answer = SearchByAddress(v) /\ f.viacep = v
BY DEF Search, ViaCepSays, SearchByAddress

\* A search that is answered is another one with the same past.
LEMMA AnswerGiven ==
  ASSUME CepBook, NEW i \in Calls, NEW a \in {"failure", "taken"}, Answer(i, a)
  PROVE  \E e \in Search : Becomes(i, e) /\ e.answer = a /\ e.viacep = searches[i].viacep
<1> DEFINE e == [searches[i] EXCEPT !.answer = a]
<1>1. searches[i] \in Search /\ searches \in Seq(Search)
  BY IsSearch DEF CepBook, Calls
<1>2. a \in {"awaited", "addresses", "no address", "failure", "taken"}
  OBVIOUS
<1>3. e \in Search /\ e.answer = a /\ e.viacep = searches[i].viacep
  BY <1>1, <1>2, AnswerTyped
<1>4. searches' = [searches EXCEPT ![i] = e]
  BY DEF Answer
<1> HIDE DEF e
<1> QED BY <1>1, <1>3, <1>4, Replaced

\* The end of a call in the API keeps the book.
LEMMA EndKeepsBook ==
  ASSUME CepBook, NEW i \in Calls, searches[i].answer = "awaited",
         NEW e \in Search, e.answer \notin {"awaited", "taken"},
         e.answer = "no address" => e.viacep \in {"no address", "an object"},
         Becomes(i, e), UNCHANGED <<widget, zipCode, overlapped>>
  PROVE  CepBook'
<1> USE DEF CepBook, Calls, widget, Becomes
<1>1. \A j \in Calls : searches[j].answer # "taken" <=> searches'[j].answer # "taken"
  OBVIOUS
<1>2. searchError # 0 => searchError # i /\ searchError \in Calls
  OBVIOUS
<1>3. \A j \in Calls : searches'[j].answer = "no address" => searches'[j].viacep \in {"no address", "an object"}
  OBVIOUS
<1>4. message = "not found" => searchError # 0
  OBVIOUS
<1> QED BY <1>1, <1>2, <1>3, <1>4

\* What is true as the widget takes an answer.
LEMMA TakenBook ==
  ASSUME CepBook, NEW i \in Calls, searches[i].answer # "taken",
         NEW e \in Search, e.answer = "taken", e.viacep = searches[i].viacep, Becomes(i, e)
  PROVE  /\ \A j \in Calls : searches'[j].answer = "no address" => searches'[j].viacep \in {"no address", "an object"}
         /\ searchError # 0 => searchError \in Calls /\ searchError # i /\ searches'[searchError] = searches[searchError]
         /\ ~overlapped => /\ i = Len(searches) /\ results = 0 /\ searchError = 0
                           /\ \A j \in Calls : searches'[j].answer = "taken"
<1>1. \A j \in Calls : searches'[j].answer = "no address" => searches'[j].viacep \in {"no address", "an object"}
  BY DEF CepBook, Becomes
<1>2. searchError # 0 => searchError \in Calls /\ searchError # i
  BY DEF CepBook, Becomes, Calls
<1>3. ~overlapped => i = Len(searches) /\ results = 0 /\ searchError = 0
  BY DEF CepBook
<1>4. ~overlapped => \A j \in Calls : j # i => searches[j].answer = "taken"
  BY <1>3 DEF CepBook
<1>5. ~overlapped => \A j \in Calls : searches'[j].answer = "taken"
  BY <1>4 DEF Becomes
<1> QED BY <1>1, <1>2, <1>3, <1>5 DEF Becomes

\* An answer that is taken as results or as an error keeps the book.
LEMMA TakeKeepsBook ==
  ASSUME CepBook, NEW i \in Calls, searches[i].answer # "taken",
         NEW e \in Search, e.answer = "taken", e.viacep = searches[i].viacep, Becomes(i, e),
         isSearching' = FALSE, UNCHANGED <<fields, overlapped>>,
         \/ results' = i /\ UNCHANGED <<searchError, message>>
         \/ /\ results' \in {0, results} /\ searchError' = i /\ message' \in {"failure", "not found"}
            /\ message' = "not found" => searches[i].answer = "no address"
  PROVE  CepBook'
<1> USE TakenBook
<1>1. searches' \in Seq(Search) /\ Calls' = Calls /\ Len(searches') = Len(searches)
  BY DEF Becomes, Calls
<1>2. /\ results' \in {0} \cup Calls /\ searchError' \in {0} \cup Calls
      /\ fields' \in Addresses \cup {Partial}
  BY DEF CepBook
<1>3. isSearching' \in BOOLEAN /\ overlapped' \in BOOLEAN
  BY DEF CepBook
<1>4. /\ message' = "none" <=> searchError' = 0
      /\ searchError' # 0 => searches'[searchError'].answer = "taken"
      /\ message' = "not found" => searches'[searchError'].viacep \in {"no address", "an object"}
  <2>1. CASE results' = i /\ UNCHANGED <<searchError, message>>
    BY <2>1 DEF CepBook
  <2>2. CASE searchError' = i /\ message' \in {"failure", "not found"}
             /\ (message' = "not found" => searches[i].answer = "no address")
    <3>1. searches'[i].answer = "taken" /\ searches'[i].viacep = searches[i].viacep
      BY DEF Becomes
    <3>2. searches[i].answer = "no address" => searches[i].viacep \in {"no address", "an object"}
      BY DEF CepBook
    <3>3. i # 0
      BY NoCallIsZero DEF CepBook
    <3> QED BY <2>2, <3>1, <3>2, <3>3
  <2> QED BY <2>1, <2>2
<1>5. ~overlapped => /\ results' # 0 => results' = Len(searches) /\ searchError' = 0
                     /\ searchError' # 0 => searchError' = Len(searches)
  OBVIOUS
<1>6. \A j \in Calls : searches'[j].answer = "no address" => searches'[j].viacep \in {"no address", "an object"}
  OBVIOUS
<1>7. ~overlapped => \A j \in Calls : searches'[j].answer = "taken"
  OBVIOUS
<1> QED BY <1>1, <1>2, <1>3, <1>4, <1>5, <1>6, <1>7 DEF CepBook

\* Every step of the search keeps its book.
LEMMA CepStep ==
  ASSUME CepBook, [CepNext]_cepVars
  PROVE  CepBook'
<1>1. CASE Toggles
  BY <1>1 DEF Toggles, CepBook, Calls
<1>2. ASSUME NEW a \in Addresses \cup {Partial}, Types(a) PROVE CepBook'
  BY <1>2 DEF Types, CepBook, Calls
<1>3. CASE Selects
  BY <1>3 DEF Selects, CepBook, Calls
<1>4. CASE Clicks \/ PressesEnter
  BY <1>4, HandleSearchKeepsBook DEF Clicks, PressesEnter
<1>5. ASSUME NEW i \in Calls, AsksViaCep(i) PROVE CepBook'
  <2> DEFINE e(v) == [searches[i] EXCEPT !.viacep = v, !.answer = SearchByAddress(v)]
  <2>1. searches[i] \in Search /\ searches \in Seq(Search)
    BY IsSearch DEF CepBook, Calls
  <2>2. \A v \in ViaCepSays : e(v) \in Search /\ e(v).answer = SearchByAddress(v) /\ e(v).viacep = v
    BY <2>1, AnswerTyped
  <2>3. PICK v \in ViaCepSays : searches' = [searches EXCEPT ![i] = e(v)]
    BY <1>5 DEF AsksViaCep
  <2> HIDE DEF e
  <2>4. Becomes(i, e(v))
    BY <2>1, <2>2, <2>3, Replaced
  <2>5. /\ SearchByAddress(v) \notin {"awaited", "taken"}
        /\ SearchByAddress(v) = "no address" => v \in {"no address", "an object"}
    BY DEF SearchByAddress, ViaCepSays
  <2>6. searches[i].answer = "awaited" /\ UNCHANGED <<widget, zipCode, overlapped>>
    BY <1>5 DEF AsksViaCep
  <2> QED BY <2>2, <2>4, <2>5, <2>6, EndKeepsBook
<1>6. ASSUME NEW i \in Calls, SearchFails(i) PROVE CepBook'
  <2>1. PICK e \in Search : Becomes(i, e) /\ e.answer = "failure"
    BY <1>6, AnswerGiven DEF SearchFails
  <2>2. searches[i].answer = "awaited" /\ UNCHANGED <<widget, zipCode, overlapped>>
    BY <1>6 DEF SearchFails
  <2> QED BY <2>1, <2>2, EndKeepsBook
<1>7. ASSUME NEW i \in Calls, ShowsResults(i) PROVE CepBook'
  <2>1. /\ searches[i].answer \in {"addresses", "no address"}
        /\ isSearching' = FALSE /\ UNCHANGED <<fields, overlapped>>
    BY <1>7 DEF ShowsResults
  <2>2. PICK e \in Search : Becomes(i, e) /\ e.answer = "taken" /\ e.viacep = searches[i].viacep
    BY <1>7, AnswerGiven DEF ShowsResults
  <2>3. searches[i].answer = "addresses" => results' = i /\ searchError' = searchError /\ message' = message
    BY <1>7 DEF ShowsResults
  <2>4. searches[i].answer = "no address" => results' = 0 /\ searchError' = i /\ message' = "not found"
    BY <1>7 DEF ShowsResults
  <2> QED BY <2>1, <2>2, <2>3, <2>4, TakeKeepsBook
<1>8. ASSUME NEW i \in Calls, ShowsSearchError(i) PROVE CepBook'
  <2>1. /\ searches[i].answer = "failure"
        /\ searchError' = i /\ message' = "failure" /\ results' = results
        /\ isSearching' = FALSE /\ UNCHANGED <<fields, overlapped>>
    BY <1>8 DEF ShowsSearchError
  <2>2. PICK e \in Search : Becomes(i, e) /\ e.answer = "taken" /\ e.viacep = searches[i].viacep
    BY <1>8, AnswerGiven DEF ShowsSearchError
  <2> QED BY <2>1, <2>2, TakeKeepsBook
<1>9. CASE UNCHANGED cepVars
  BY <1>9 DEF cepVars, widget, CepBook, Calls
<1> QED BY <1>1, <1>2, <1>3, <1>4, <1>5, <1>6, <1>7, <1>8, <1>9 DEF CepNext, Ends

\* For any number of searches and addresses: without overlapping searches the
\* widget shows the last one only, and it never takes a failure for a CEP that
\* does not exist.
THEOREM LastSearchIsShown == PagesSpec => []ShowsLastSearch
<1>1. CepBook => ShowsLastSearch
  BY DEF CepBook, ShowsLastSearch
<1>2. PagesInit => CepBook
  BY CepStart DEF PagesInit
<1>3. CepBook /\ [PagesNext]_pagesVars => CepBook'
  BY PagesStep, CepStep
<1> QED BY <1>1, <1>2, <1>3, PagesSafe, PTL
-----------------------------------------------------------------------------
(* The lists *)

\* The part of the types that the books need.
ListTypes ==
  /\ issued \in Pairs /\ stored \in {issued, None}
  /\ usedBy \in [Pairs -> Tabs \cup {"nobody"}]
  /\ tabAt \in [Tabs -> {"closed", "hydrating", "page", "login"}]
  /\ load \in [Tabs -> {"none", "sent", "answered", "over"}]
  /\ snapshot \in [Tabs -> Pairs \cup {None}] /\ loadedWith \in [Tabs -> Pairs \cup {None}]
  /\ loadError \in [Tabs -> Pairs \cup {None}]
  /\ ended \in [Tabs -> Pairs \cup {None}] /\ found \in [Tabs -> Pairs \cup {None}]
  /\ DOMAIN listAnswer = Tabs /\ DOMAIN result = Tabs

\* What became of the pairs: those before the last one issued are used, no tab
\* holds a pair that it used itself, and a tab without a pair found none or had
\* its own taken by another tab.
PairsBook ==
  /\ \A p \in Pairs : usedBy[p] = "nobody" <=> p >= issued
  /\ \A t \in Tabs :
       /\ snapshot[t] <= issued
       /\ snapshot[t] # None => usedBy[snapshot[t]] # t
       /\ ended[t] # None => usedBy[ended[t]] \notin {t, "nobody"}
       /\ tabAt[t] \in {"page", "login"} /\ snapshot[t] = None => found[t] = None \/ ended[t] # None

\* What became of the load of the effect that is mounted.
LoadsBook ==
  \A t \in Tabs :
    /\ tabAt[t] = "login" => snapshot[t] = None
    /\ load[t] \in {"sent", "answered"} =>
         tabAt[t] = "page" /\ snapshot[t] = loadedWith[t] /\ loadedWith[t] # None
    /\ load[t] = "answered" => listAnswer[t].pair = loadedWith[t]
    /\ load[t] = "over" =>
         /\ loadedWith[t] # None
         /\ loadError[t] = loadedWith[t] \/ (loadError[t] = None /\ result[t].pair = loadedWith[t])

ListBook == ListTypes /\ PairsBook /\ LoadsBook

LEMMA ListStart == ListInit => ListBook
<1> SUFFICES ASSUME ListInit PROVE ListBook
  OBVIOUS
<1>1. ListTypes
  BY ListAssumption DEF ListInit, ListTypes, Pairs, None
<1>2. PairsBook
  BY ListAssumption DEF ListInit, PairsBook, Pairs, None
<1>3. LoadsBook
  BY DEF ListInit, LoadsBook
<1> QED BY <1>1, <1>2, <1>3 DEF ListBook

\* What neither pairs nor loads depend on.
LEMMA ListStutter ==
  ASSUME ListBook, UNCHANGED <<stored, issued, usedBy, tabAt, snapshot, loadedWith, load, listAnswer, listState, history>>
  PROVE  ListBook'
BY DEF ListBook, ListTypes, PairsBook, LoadsBook, listState, history

\* Every step of the lists keeps the books.
LEMMA ListStep ==
  ASSUME ListBook, [ListNext]_listVars
  PROVE  ListBook'
<1> USE ListAssumption DEF ListBook, api, tab, listState, history, None
<1>1. ASSUME NEW t \in Tabs, Opens(t) PROVE ListBook'
  <2>1. ListTypes'
    BY <1>1 DEF Opens, ListTypes, Pairs
  <2>2. PairsBook'
    BY <1>1 DEF Opens, PairsBook, ListTypes
  <2>3. LoadsBook'
    BY <1>1 DEF Opens, LoadsBook
  <2> QED BY <2>1, <2>2, <2>3
<1>2. ASSUME NEW t \in Tabs, Hydrates(t) PROVE ListBook'
  <2>1. ListTypes'
    BY <1>2 DEF Hydrates, ListTypes, Pairs
  <2>2. PairsBook'
    BY <1>2 DEF Hydrates, PairsBook, ListTypes, Pairs
  <2>3. LoadsBook'
    BY <1>2 DEF Hydrates, LoadsBook, ListTypes
  <2> QED BY <2>1, <2>2, <2>3
<1>3. ASSUME NEW t \in Tabs, Redirects(t) PROVE ListBook'
  <2>1. ListTypes'
    BY <1>3 DEF Redirects, ListTypes
  <2>2. PairsBook'
    BY <1>3 DEF Redirects, PairsBook, ListTypes
  <2>3. LoadsBook'
    BY <1>3 DEF Redirects, LoadsBook
  <2> QED BY <2>1, <2>2, <2>3
<1>4. ASSUME NEW t \in Tabs, Closes(t) PROVE ListBook'
  <2>1. ListTypes'
    BY <1>4 DEF Closes, ListTypes
  <2>2. PairsBook'
    BY <1>4 DEF Closes, PairsBook, ListTypes, Pairs
  <2>3. LoadsBook'
    BY <1>4 DEF Closes, LoadsBook, ListTypes
  <2> QED BY <2>1, <2>2, <2>3
<1>5. ASSUME NEW t \in Tabs, EffectRuns(t) PROVE ListBook'
  <2>1. ListTypes'
    BY <1>5 DEF EffectRuns, ListTypes
  <2>2. PairsBook'
    BY <1>5 DEF EffectRuns, PairsBook
  <2>3. LoadsBook'
    BY <1>5 DEF EffectRuns, LoadsBook, ListTypes
  <2> QED BY <2>1, <2>2, <2>3
<1>6. ASSUME NEW t \in Tabs, ApiReads(t) PROVE ListBook'
  <2>1. ListTypes'
    BY <1>6 DEF ApiReads, ListTypes
  <2>2. PairsBook'
    BY <1>6 DEF ApiReads, PairsBook
  <2>3. LoadsBook'
    BY <1>6 DEF ApiReads, LoadsBook, ListTypes
  <2> QED BY <2>1, <2>2, <2>3
<1>7. ASSUME NEW t \in Tabs, ShowsList(t) PROVE ListBook'
  <2>1. ListTypes'
    BY <1>7 DEF ShowsList, ListTypes
  <2>2. PairsBook'
    BY <1>7 DEF ShowsList, PairsBook
  <2>3. LoadsBook'
    BY <1>7 DEF ShowsList, LoadsBook, ListTypes
  <2> QED BY <2>1, <2>2, <2>3
<1>8. ASSUME NEW t \in Tabs, ShowsLoadError(t) PROVE ListBook'
  <2>1. ListTypes'
    BY <1>8 DEF ShowsLoadError, ListTypes
  <2>2. PairsBook'
    BY <1>8 DEF ShowsLoadError, PairsBook
  <2>3. LoadsBook'
    BY <1>8 DEF ShowsLoadError, LoadsBook, ListTypes
  <2> QED BY <2>1, <2>2, <2>3
<1>9. ASSUME NEW t \in Tabs, NEW a \in lateLists[t], LateList(t, a) PROVE ListBook'
  BY <1>9, ListStutter DEF LateList
<1>10. ASSUME NEW t \in Tabs, Refreshed(t) PROVE ListBook'
  <2>1. tabAt[t] = "page" /\ snapshot[t] = issued /\ issued + 1 \in Pairs
    BY <1>10 DEF Refreshed, ListTypes, PairsBook, LoadsBook, Pairs
  <2>2. /\ issued' = issued + 1 /\ stored' = issued + 1
        /\ usedBy' = [usedBy EXCEPT ![issued] = t]
        /\ snapshot' = [snapshot EXCEPT ![t] = issued + 1]
        /\ load' = [load EXCEPT ![t] = "none"]
        /\ UNCHANGED <<tabAt, loadedWith, listAnswer, result, loadError, ended, found>>
    BY <1>10, <2>1 DEF Refreshed
  <2>3. ListTypes'
    BY <2>1, <2>2 DEF ListTypes
  <2>4. PairsBook'
    <3>1. \A p \in Pairs : usedBy'[p] = IF p = issued THEN t ELSE usedBy[p]
      BY <2>2 DEF ListTypes
    <3>2. \A p \in Pairs : usedBy'[p] = "nobody" <=> p >= issued'
      BY <2>1, <2>2, <3>1 DEF PairsBook, ListTypes, Pairs
    <3>3. ASSUME NEW u \in Tabs
          PROVE  /\ snapshot'[u] <= issued'
                 /\ snapshot'[u] # None => usedBy'[snapshot'[u]] # u
                 /\ ended'[u] # None => usedBy'[ended'[u]] \notin {u, "nobody"}
                 /\ tabAt'[u] \in {"page", "login"} /\ snapshot'[u] = None => found'[u] = None \/ ended'[u] # None
      <4>1. ended[u] \in Pairs \cup {None} /\ snapshot[u] \in Pairs \cup {None} /\ issued \in Pairs
        BY DEF ListTypes
      <4>2. ended'[u] # None => usedBy'[ended'[u]] \notin {u, "nobody"}
        <5>1. ended[u] # None => ended[u] < issued
          BY <4>1 DEF PairsBook, Pairs
        <5> QED BY <2>2, <3>1, <4>1, <5>1 DEF PairsBook, Pairs
      <4>3. CASE u = t
        BY <2>1, <2>2, <3>2, <4>1, <4>2, <4>3 DEF ListTypes, PairsBook, Pairs
      <4>4. CASE u # t
        <5>1. snapshot'[u] = snapshot[u]
          BY <2>2, <4>4 DEF ListTypes
        <5>2. snapshot'[u] <= issued'
          BY <2>1, <2>2, <4>1, <5>1 DEF PairsBook, Pairs
        <5> QED BY <2>2, <3>1, <4>1, <4>2, <4>4, <5>1, <5>2 DEF PairsBook
      <4> QED BY <4>3, <4>4
    <3> QED BY <3>2, <3>3 DEF PairsBook
  <2>5. LoadsBook'
    BY <2>1, <2>2 DEF LoadsBook, ListTypes
  <2> QED BY <2>3, <2>4, <2>5
<1>11. ASSUME NEW t \in Tabs, RefreshRefused(t) PROVE ListBook'
  <2>1. snapshot[t] \in Pairs /\ snapshot[t] = loadedWith[t] /\ usedBy[snapshot[t]] \notin {t, "nobody"}
    BY <1>11 DEF RefreshRefused, ListTypes, PairsBook, LoadsBook
  <2>2. ListTypes'
    BY <1>11, <2>1 DEF RefreshRefused, ListTypes
  <2>3. PairsBook'
    BY <1>11, <2>1 DEF RefreshRefused, ListTypes, PairsBook, Pairs
  <2>4. LoadsBook'
    BY <1>11, <2>1 DEF RefreshRefused, ListTypes, LoadsBook, Pairs
  <2> QED BY <2>2, <2>3, <2>4
<1>12. ASSUME NEW p \in Pairs, AccessExpires(p) PROVE ListBook'
  BY <1>12, ListStutter DEF AccessExpires
<1>13. CASE ListChanges
  BY <1>13, ListStutter DEF ListChanges
<1>14. CASE UNCHANGED listVars
  BY <1>14, ListStutter DEF listVars
<1> QED BY <1>1, <1>2, <1>3, <1>4, <1>5, <1>6, <1>7, <1>8, <1>9, <1>10, <1>11, <1>12, <1>13, <1>14
        DEF ListNext, TabProceeds

LEMMA ListBookHolds == PagesSpec => []ListBook
<1>1. PagesInit => ListBook
  BY ListStart DEF PagesInit
<1>2. ListBook /\ [PagesNext]_pagesVars => ListBook'
  BY PagesStep, ListStep
<1> QED BY <1>1, <1>2, PagesSafe, PTL

\* For any number of tabs and tokens: once the load with a tab's newest access
\* token is over, the page shows what that load brought.
THEOREM NewestLoadShown == PagesSpec => []NewestLoadIsShown
<1>1. ListBook => NewestLoadIsShown
  <2> SUFFICES ASSUME ListBook, NEW t \in Tabs, load[t] = "over", tabAt[t] = "page", snapshot[t] # None
               PROVE  IF TabRendered(t) = "list" THEN result[t].pair = loadedWith[t] ELSE loadError[t] = loadedWith[t]
    BY DEF NewestLoadIsShown, TabRendered, ListBook, ListTypes
  <2>1. /\ loadedWith[t] # None
        /\ loadError[t] = loadedWith[t] \/ (loadError[t] = None /\ result[t].pair = loadedWith[t])
    BY DEF ListBook, LoadsBook
  <2>2. CASE loadError[t] = loadedWith[t]
    BY <2>1, <2>2 DEF TabRendered
  <2>3. CASE loadError[t] = None /\ result[t].pair = loadedWith[t]
    <3>1. result[t] # Nothing
      BY <2>1, <2>3 DEF Nothing
    <3> QED BY <2>1, <2>3, <3>1 DEF TabRendered
  <2> QED BY <2>1, <2>2, <2>3
<1> QED BY <1>1, ListBookHolds, PTL

\* For any number of tabs and tokens: no tab is sent to /login by the first
\* render or by a refresh of its own.
THEOREM LoginHasAReason == PagesSpec => []LoginForAReason
<1>1. ListBook => LoginForAReason
  BY DEF ListBook, PairsBook, LoadsBook, LoginForAReason
<1> QED BY <1>1, ListBookHolds, PTL
-----------------------------------------------------------------------------
(* The chart on the dashboard *)

\* Among natural numbers there is a least one.
LEMMA LeastNatural ==
  ASSUME NEW T, T \subseteq Nat, T # {}
  PROVE  \E m \in T : \A n \in T : m <= n
<1> DEFINE R == {p \in Nat \X Nat : p[1] < p[2]}
<1>1. IsWellFoundedOn(R, Nat)
  BY NatLessThanWellFounded DEF OpToRel
<1>2. \A x, y \in Nat : <<x, y>> \in R <=> x < y
  OBVIOUS
<1> HIDE DEF R
<1>3. PICK m \in T : \A y \in T : ~ (<<y, m>> \in R)
  BY <1>1, WFMin
<1>4. ASSUME NEW n \in T PROVE m <= n
  <2>1. m \in Nat /\ n \in Nat
    OBVIOUS
  <2>2. ~ (n < m)
    BY <1>2, <1>3, <2>1
  <2> QED BY <2>1, <2>2
<1> QED BY <1>4

\* The distance of a column from the pointer is a length.
LEMMA DistanceIsLength ==
  ASSUME NEW n \in Nat \ {0}, NEW x \in Nat, NEW i \in 1..n
  PROVE  Distance(i, x, n) \in Nat
<1>1. \E m \in {1, n - 1} : \A k \in {1, n - 1} : m >= k
  OBVIOUS
<1>2. Max({1, n - 1}) \in {1, n - 1}
  BY <1>1 DEF Max
<1>3. Max({1, n - 1}) \in Nat
  BY <1>2
<1> DEFINE w == Max({1, n - 1})
           d == Across(i, n) - x * w
<1> HIDE DEF w
<1>4. Across(i, n) \in Int /\ x * w \in Int
  BY <1>3 DEF Across, PlotLeft, PlotWidth, TrendWidth, w
<1>5. d \in Int
  BY <1>4
<1>6. Distance(i, x, n) = IF d < 0 THEN -d ELSE d
  BY DEF Distance, w
<1> HIDE DEF d
<1> QED BY <1>5, <1>6

\* Whatever the pointer and the number of points, there is a nearest column,
\* and the page finds it.
LEMMA NearestIsColumn ==
  ASSUME NEW n \in Nat \ {0}, NEW x \in Nat
  PROVE  Nearest(x, n) \in 1..n
<1> DEFINE D(i) == Distance(i, x, n)
           Near == {i \in 1..n : \A j \in 1..n : D(i) <= D(j)}
           Lengths == {D(i) : i \in 1..n}
<1>1. \A i \in 1..n : D(i) \in Nat
  BY DistanceIsLength
<1>2. Nearest(x, n) = Min(Near)
  BY DEF Nearest
<1> HIDE DEF D
<1>3. Lengths \subseteq Nat /\ D(1) \in Lengths
  BY <1>1
<1>4. PICK m \in Lengths : \A l \in Lengths : m <= l
  BY <1>3, LeastNatural
<1>5. PICK i \in 1..n : D(i) = m
  OBVIOUS
<1>6. i \in Near
  BY <1>4, <1>5
<1>7. Near \subseteq Nat /\ Near # {}
  BY <1>6
<1>8. \E k \in Near : \A l \in Near : k <= l
  BY <1>7, LeastNatural
<1>9. Min(Near) \in Near
  BY <1>8 DEF Min
<1> QED BY <1>2, <1>9

Counts == [Days -> 0..MaxPerDay]
Points == [1..TrendDays -> [date : Days, count : 0..MaxPerDay]]

\* The clock only goes on, so the days of the trend are among those that were
\* read; and what is drawn is of one reading, day by day.
ChartBook ==
  /\ today \in TrendDays..MaxDay /\ start \in 0..FirstDay(today)
  /\ quotes \in Counts
  /\ \/ recent = Unread /\ taken = Unread
     \/ /\ recent \in Counts /\ taken \in Counts /\ start # 0
        /\ \A d \in Days : d >= start => recent[d] = taken[d]
  /\ \/ trend = Unread /\ told = Unread /\ hoverIndex = 0
     \/ /\ trend \in Points /\ told \in Counts
        /\ \A i \in 1..TrendDays :
             /\ trend[i].date = trend[TrendDays].date - (TrendDays - i)
             /\ trend[i].count = told[trend[i].date]
  /\ pointer \in Pointers \cup {Away} /\ hoverIndex \in 0..TrendDays
  /\ hoverIndex # 0 => hoverIndex = Nearest(pointer, TrendDays)

LEMMA ChartStart == ChartInit => ChartBook
BY ChartAssumption DEF ChartInit, ChartBook, FirstDay, Counts, Days

\* What was read is not Unread.
LEMMA CountsAreRead == Unread \notin Counts /\ Unread \notin Points
<1>1. 1 \in Days /\ 1 \in 1..TrendDays
  BY ChartAssumption DEF Days
<1>2. \A f \in Counts : DOMAIN f = Days
  BY DEF Counts
<1>3. \A f \in Points : DOMAIN f = 1..TrendDays
  BY DEF Points
<1>4. DOMAIN Unread = {}
  BY DEF Unread
<1> QED BY <1>1, <1>2, <1>3, <1>4

\* What Draws shows is the trend of what was read.
LEMMA TrendOfRead ==
  ASSUME ChartBook, recent # Unread
  PROVE  /\ Trend \in Points
         /\ \A i \in 1..TrendDays :
              /\ Trend[i].date = Trend[TrendDays].date - (TrendDays - i)
              /\ Trend[i].count = taken[Trend[i].date]
<1> USE ChartAssumption DEF ChartBook
<1>1. ASSUME NEW i \in 1..TrendDays
      PROVE  /\ today - TrendDays + i \in Days /\ today - TrendDays + i >= start
             /\ Trend[i] = [date |-> today - TrendDays + i, count |-> recent[today - TrendDays + i]]
  BY DEF Days, FirstDay, Trend
<1>2. \A i \in 1..TrendDays : recent[today - TrendDays + i] \in 0..MaxPerDay
  BY <1>1 DEF Counts
<1>3. Trend \in Points
  BY <1>1, <1>2 DEF Points, Trend
<1>4. ASSUME NEW i \in 1..TrendDays
      PROVE  Trend[i].date = today - TrendDays + i /\ Trend[i].count = taken[Trend[i].date]
  <2> DEFINE d == today - TrendDays + i
  <2>1. d \in Days /\ d >= start /\ Trend[i] = [date |-> d, count |-> recent[d]]
    BY <1>1
  <2>2. taken[d] = recent[d]
    BY <2>1
  <2> HIDE DEF d
  <2>3. Trend[i].date = d /\ Trend[i].count = taken[d]
    BY <2>1, <2>2
  <2> QED BY <2>3 DEF d
<1>5. TrendDays \in 1..TrendDays
  OBVIOUS
<1>7. \A i \in 1..TrendDays : Trend[i].date = Trend[TrendDays].date - (TrendDays - i)
  BY <1>4, <1>5
<1> QED BY <1>3, <1>4, <1>7

\* Every step keeps the chart's book.
LEMMA ChartStep ==
  ASSUME ChartBook, [ChartNext]_chartVars
  PROVE  ChartBook'
<1> USE ChartAssumption DEF ChartBook
<1>1. CASE QuoteCreated
  <2>1. today \in Days
    BY DEF Days
  <2>2. quotes' \in Counts
    BY <1>1, <2>1 DEF QuoteCreated, Counts
  <2> QED BY <1>1, <2>2 DEF QuoteCreated
<1>2. ASSUME NEW d \in Days, QuoteRemoved(d) PROVE ChartBook'
  <2>1. quotes' \in Counts
    BY <1>2 DEF QuoteRemoved, Counts
  <2> QED BY <1>2, <2>1 DEF QuoteRemoved
<1>3. CASE Midnight
  BY <1>3 DEF Midnight, FirstDay
<1>4. CASE StartsMetrics
  BY <1>4 DEF StartsMetrics, FirstDay
<1>5. CASE ReadsRecent
  <2>1. recent' \in Counts
    BY <1>5 DEF ReadsRecent, Counts
  <2>2. \A d \in Days : d >= start => recent'[d] = taken'[d]
    BY <1>5 DEF ReadsRecent
  <2> QED BY <1>5, <2>1, <2>2 DEF ReadsRecent
<1>6. CASE Draws
  <2>1. recent # Unread
    BY <1>6 DEF Draws
  <2>2. taken \in Counts
    BY <2>1
  <2> QED BY <1>6, <2>1, <2>2, TrendOfRead DEF Draws, FirstDay
<1>7. ASSUME NEW x \in Pointers, PointerMoves(x) PROVE ChartBook'
  <2>1. trend \in Points /\ trend # Unread
    BY <1>7, CountsAreRead DEF PointerMoves
  <2>2. Len(trend) = TrendDays
    BY <2>1 DEF Points
  <2>3. hoverIndex' = Nearest(x, TrendDays)
    BY <1>7, <2>1, <2>2 DEF PointerMoves, Unread
  <2>4. Nearest(x, TrendDays) \in 1..TrendDays
    BY NearestIsColumn
  <2> QED BY <1>7, <2>1, <2>3, <2>4 DEF PointerMoves
<1>8. CASE PointerLeaves
  BY <1>8 DEF PointerLeaves
<1>9. CASE UNCHANGED chartVars
  BY <1>9 DEF chartVars
<1> QED BY <1>1, <1>2, <1>3, <1>4, <1>5, <1>6, <1>7, <1>8, <1>9 DEF ChartNext

LEMMA ChartBookHolds == PagesSpec => []ChartBook
<1>1. PagesInit => ChartBook
  BY ChartStart DEF PagesInit
<1>2. ChartBook /\ [PagesNext]_pagesVars => ChartBook'
  BY PagesStep, ChartStep
<1> QED BY <1>1, <1>2, PagesSafe, PTL

\* For any number of days, quotes and pointer positions: whatever happened between
\* the queries, buildTrend and the pointer's last move, every day of the trend has
\* the quotes that were read, and the hovered column is there, the nearest one.
THEOREM TooltipIsOfItsDay == PagesSpec => []TooltipTellsItsDay
<1>1. ChartBook => TooltipTellsItsDay
  <2> SUFFICES ASSUME ChartBook PROVE TooltipTellsItsDay
    OBVIOUS
  <2> USE ChartAssumption DEF ChartBook
  <2>1. CASE trend = Unread
    <3>1. Len(trend) = 0
      BY <2>1 DEF Unread
    <3>2. trend \notin Points
      BY <2>1, CountsAreRead
    <3> QED BY <3>1, <3>2 DEF TooltipTellsItsDay
  <2>2. CASE trend # Unread
    <3>1. trend \in Points
      BY <2>2
    <3>2. Len(trend) = TrendDays
      BY <3>1 DEF Points
    <3>3. \A i \in 1..TrendDays : trend[i].count = told[trend[i].date]
      BY <2>2
    <3>4. ASSUME hoverIndex # 0
          PROVE  /\ Tooltip.date = trend[TrendDays].date - (TrendDays - hoverIndex)
                 /\ Dots \subseteq 1..TrendDays
      BY <2>2, <3>2, <3>4 DEF Tooltip, Dots
    <3> QED BY <3>2, <3>3, <3>4 DEF TooltipTellsItsDay
  <2> QED BY <2>1, <2>2
<1> QED BY <1>1, ChartBookHolds, PTL
-----------------------------------------------------------------------------
(* The types of all pages *)

\* What the numbers' book leaves open of their types: columns hold less than
\* their limits.
NumbersRest ==
  /\ status \in {"none", "refused"} => row = NoNumbers
  /\ row.weight < WeightLimit /\ row.value < ValueLimit
  /\ price \in Nat /\ price < PriceLimit
  /\ patches \in 0..MaxPatches /\ patched \in {"no", "before", "since"}

LEMMA NumbersRestStart == NumbersInit => NumbersRest
BY NumbersAssumption DEF NumbersInit, NumbersRest, NoNumbers

ReadFlag == isRead \in BOOLEAN

LEMMA ReadFlagKept ==
  /\ NumbersInit => ReadFlag
  /\ ReadFlag /\ [NumbersNext]_numbersVars => ReadFlag'
<1>1. NumbersInit => isRead \in BOOLEAN
  BY DEF NumbersInit
<1>2. [NumbersNext]_numbersVars => isRead' = isRead \/ isRead' = TRUE
  BY DEF NumbersNext, PageSubmits, RowPatched, RowCreated, WorkerReads, MarkedProcessing, OptionPriced, numbersVars
<1> QED BY <1>1, <1>2 DEF ReadFlag

LEMMA NumbersRestStep ==
  ASSUME NumbersBook, NumbersRest, [NumbersNext]_numbersVars
  PROVE  NumbersRest'
<1> USE NumbersAssumption DEF NumbersRest
<1>1. ASSUME NEW n \in Typed, PageSubmits(n) PROVE NumbersRest'
  BY <1>1 DEF PageSubmits
<1>2. ASSUME NEW n \in Typed, RowPatched(n) PROVE NumbersRest'
  <2>1. Fits(n) /\ row' = Stored(n)
    BY <1>2 DEF RowPatched
  <2>2. row'.weight < WeightLimit /\ row'.value < ValueLimit
    BY <2>1 DEF Fits
  <2> QED BY <1>2, <2>2 DEF RowPatched
<1>3. CASE RowCreated
  <2>1. (row' = Stored(posted) /\ Fits(posted)) \/ row' = row
    BY <1>3 DEF RowCreated
  <2>2. row'.weight < WeightLimit /\ row'.value < ValueLimit
    BY <2>1 DEF Fits
  <2>3. status' \in {"none", "refused"} => row' = NoNumbers
    BY <1>3 DEF RowCreated
  <2> QED BY <1>3, <2>2, <2>3 DEF RowCreated
<1>4. CASE WorkerReads
  BY <1>4 DEF WorkerReads
<1>5. CASE MarkedProcessing
  BY <1>5 DEF MarkedProcessing
<1>6. CASE OptionPriced
  <2>1. PriceOf(quote) \in Nat
    BY DEF PriceOf, NumbersBook, Numbers
  <2> QED BY <1>6, <2>1 DEF OptionPriced
<1>7. CASE UNCHANGED numbersVars
  BY <1>7 DEF numbersVars
<1> QED BY <1>1, <1>2, <1>3, <1>4, <1>5, <1>6, <1>7 DEF NumbersNext

LEMMA NumbersTyped ==
  ASSUME NumbersBook, NumbersRest, ReadFlag
  PROVE  NumbersTypeOK
<1>4. status \in {"PROCESSING", "DONE", "ERROR"} => isRead
  BY DEF NumbersBook
<1>2. {posted, row, quote} \subseteq Numbers
  BY DEF NumbersBook
<1>3. status \in {"none", "refused", "PENDING", "PROCESSING", "DONE", "ERROR"}
  BY DEF NumbersBook, Held
<1>1. isRead \in BOOLEAN
  BY DEF ReadFlag
<1> QED BY <1>1, <1>2, <1>3, <1>4 DEF NumbersTypeOK, NumbersRest
\* What the search's book leaves open.
CepRest ==
  /\ isOpen \in BOOLEAN
  /\ Len(searches) <= MaxSearches /\ zipCode \in {0} \cup Calls
  /\ message \in {"none", "not found", "failure"}

LEMMA CepRestStart == CepInit => CepRest
<1> SUFFICES ASSUME CepInit PROVE CepRest
  OBVIOUS
<1>1. isOpen \in BOOLEAN
  BY DEF CepInit
<1>2. Len(searches) = 0 /\ zipCode = 0 /\ message = "none"
  BY DEF CepInit
<1> QED BY <1>1, <1>2, CepAssumption DEF CepRest

\* A step that keeps the calls, or adds one below the bound.
LEMMA CallsGrow ==
  ASSUME CepBook, CepRest, [CepNext]_cepVars
  PROVE  /\ Len(searches) \in Nat /\ Len(searches') \in Nat
         /\ Len(searches) <= Len(searches') /\ Len(searches') <= MaxSearches
<1>1. /\ searches \in Seq(Search) /\ searches' \in Seq(Search) /\ MaxSearches \in Nat
      /\ Len(searches) \in Nat /\ Len(searches') \in Nat /\ Len(searches) <= MaxSearches
  <2>1. searches \in Seq(Search) /\ searches' \in Seq(Search)
    BY CepStep DEF CepBook
  <2>2. Len(searches) <= MaxSearches
    BY DEF CepRest
  <2> QED BY <2>1, <2>2, CepAssumption
<1>2. CASE Sends
  <2>1. Len(searches) < MaxSearches /\ \E e : searches' = Append(searches, e)
    BY <1>2 DEF Sends
  <2>2. Len(searches') = Len(searches) + 1
    BY <1>1, <2>1
  <2> QED BY <1>1, <2>1, <2>2
<1>3. CASE \E i \in Calls, e \in Search : searches' = [searches EXCEPT ![i] = e]
  <2>1. Len(searches') = Len(searches)
    BY <1>1, <1>3
  <2> QED BY <1>1, <2>1
<1>4. CASE UNCHANGED searches
  BY <1>1, <1>4
<1>5. ASSUME NEW i \in Calls, NEW a \in {"failure", "taken"}, Answer(i, a)
      PROVE  \E e \in Search : searches' = [searches EXCEPT ![i] = e]
  <2> DEFINE e == [searches[i] EXCEPT !.answer = a]
  <2>1. searches[i] \in Search
    BY <1>1, IsSearch DEF Calls
  <2>2. e \in Search
    BY <2>1, AnswerTyped
  <2>3. searches' = [searches EXCEPT ![i] = e]
    BY <1>5 DEF Answer
  <2> QED BY <2>2, <2>3
<1>6. ASSUME NEW i \in Calls, AsksViaCep(i)
      PROVE  \E e \in Search : searches' = [searches EXCEPT ![i] = e]
  <2> DEFINE e(v) == [searches[i] EXCEPT !.viacep = v, !.answer = SearchByAddress(v)]
  <2>1. searches[i] \in Search
    BY <1>1, IsSearch DEF Calls
  <2>2. \A v \in ViaCepSays : e(v) \in Search
    BY <2>1, AnswerTyped
  <2>3. \E v \in ViaCepSays : searches' = [searches EXCEPT ![i] = e(v)]
    BY <1>6 DEF AsksViaCep
  <2> HIDE DEF e
  <2> QED BY <2>2, <2>3
<1>7. ASSUME NEW i \in Calls, Ends(i)
      PROVE  \E j \in Calls, e \in Search : searches' = [searches EXCEPT ![j] = e]
  <2>1. AsksViaCep(i) \/ Answer(i, "failure") \/ Answer(i, "taken")
    BY <1>7 DEF Ends, SearchFails, ShowsResults, ShowsSearchError
  <2>2. "failure" \in {"failure", "taken"} /\ "taken" \in {"failure", "taken"}
    OBVIOUS
  <2> QED BY <2>1, <2>2, <1>5, <1>6
<1>8. Clicks \/ PressesEnter => Sends
  BY DEF Clicks, PressesEnter, HandleSearch
<1>9. Toggles \/ Selects \/ (\E a \in Addresses \cup {Partial} : Types(a)) \/ UNCHANGED cepVars => UNCHANGED searches
  BY DEF Toggles, Selects, Types, cepVars
<1> QED BY <1>2, <1>3, <1>4, <1>7, <1>8, <1>9 DEF CepNext

LEMMA CepRestStep ==
  ASSUME CepBook, CepRest, [CepNext]_cepVars
  PROVE  CepRest'
<1>1. /\ Len(searches') <= MaxSearches /\ \A i \in {0} \cup Calls : i \in {0} \cup Calls'
  BY CallsGrow DEF Calls
<1>2. zipCode' \in {zipCode, results}
  BY DEF CepNext, Toggles, Clicks, PressesEnter, Selects, Types, Ends, AsksViaCep, SearchFails, ShowsResults,
         ShowsSearchError, HandleSearch, cepVars
<1>3. zipCode' \in {0} \cup Calls
  BY <1>2 DEF CepBook, CepRest
<1>4. message' \in {message, "none", "not found", "failure"}
  BY DEF CepNext, Toggles, Clicks, PressesEnter, Selects, Types, Ends, AsksViaCep, SearchFails, ShowsResults,
         ShowsSearchError, HandleSearch, cepVars, widget
<1>5. isOpen' \in BOOLEAN
  <2>1. isOpen' = isOpen \/ isOpen' = FALSE \/ isOpen' = ~isOpen
    BY DEF CepNext, Toggles, Clicks, PressesEnter, Selects, Types, Ends, AsksViaCep, SearchFails, ShowsResults,
           ShowsSearchError, HandleSearch, cepVars, widget
  <2> QED BY <2>1 DEF CepRest
<1> QED BY <1>1, <1>3, <1>4, <1>5 DEF CepRest

LEMMA CepTyped ==
  ASSUME CepBook, CepRest
  PROVE  CepTypeOK
<1>1. isOpen \in BOOLEAN /\ isSearching \in BOOLEAN /\ overlapped \in BOOLEAN
  BY DEF CepBook, CepRest
<1>2. \A i \in Calls : searches[i] \in Search
  BY IsSearch DEF CepBook, Calls
<1>3. {results, searchError, zipCode} \subseteq {0} \cup Calls
  BY DEF CepBook, CepRest
<1>4. message = "none" <=> searchError = 0
  BY DEF CepBook
<1>5. fields \in Addresses \cup {Partial}
  BY DEF CepBook
<1> QED BY <1>1, <1>2, <1>3, <1>4, <1>5 DEF CepTypeOK, CepRest
\* What the lists' books leave open: the answers of the API.
ListRest ==
  /\ expired \subseteq Pairs /\ list \in 0..MaxChanges
  /\ listAnswer \in [Tabs -> Answers] /\ result \in [Tabs -> Answers]
  /\ lateLists \in [Tabs -> SUBSET Answers]
  /\ failures \in [Tabs -> 0..MaxFailures]

LEMMA ListRestStart == ListInit => ListRest
BY ListAssumption DEF ListInit, ListRest, Answers

LEMMA ListRestStep ==
  ASSUME ListBook, ListRest, [ListNext]_listVars
  PROVE  ListRest'
<1> USE ListAssumption DEF ListRest, api, tab, listState
<1>1. Nothing \in Answers
  BY DEF Answers
<1>2. ASSUME NEW t \in Tabs, load[t] \in {"sent", "answered"}
      PROVE  [number |-> list, pair |-> loadedWith[t]] \in Answers
  BY <1>2 DEF ListBook, ListTypes, LoadsBook, Answers, None
<1>3. ASSUME NEW t \in Tabs, Opens(t) \/ Hydrates(t) \/ Redirects(t) PROVE ListRest'
  BY <1>3 DEF Opens, Hydrates, Redirects
<1>4. ASSUME NEW t \in Tabs, Closes(t) PROVE ListRest'
  BY <1>1, <1>4 DEF Closes
<1>5. ASSUME NEW t \in Tabs, EffectRuns(t) PROVE ListRest'
  BY <1>1, <1>5 DEF EffectRuns
<1>6. ASSUME NEW t \in Tabs, ApiReads(t) PROVE ListRest'
  BY <1>2, <1>6 DEF ApiReads
<1>7. ASSUME NEW t \in Tabs, ShowsList(t) PROVE ListRest'
  BY <1>7 DEF ShowsList
<1>8. ASSUME NEW t \in Tabs, ShowsLoadError(t) PROVE ListRest'
  BY <1>8 DEF ShowsLoadError
<1>9. ASSUME NEW t \in Tabs, NEW a \in lateLists[t], LateList(t, a) PROVE ListRest'
  BY <1>9 DEF LateList
<1>10. ASSUME NEW t \in Tabs, Refreshed(t) PROVE ListRest'
  BY <1>2, <1>10 DEF Refreshed
<1>11. ASSUME NEW t \in Tabs, RefreshRefused(t) PROVE ListRest'
  BY <1>11 DEF RefreshRefused
<1>12. ASSUME NEW p \in Pairs, AccessExpires(p) PROVE ListRest'
  BY <1>12 DEF AccessExpires
<1>13. CASE ListChanges
  BY <1>13 DEF ListChanges
<1>14. CASE UNCHANGED listVars
  BY <1>14 DEF listVars
<1> QED BY <1>3, <1>4, <1>5, <1>6, <1>7, <1>8, <1>9, <1>10, <1>11, <1>12, <1>13, <1>14
        DEF ListNext, TabProceeds

LEMMA ListTyped ==
  ASSUME ListBook, ListRest
  PROVE  ListTypeOK
BY DEF ListBook, ListTypes, ListRest, ListTypeOK

LEMMA ChartTyped == ChartBook => ChartTypeOK
<1> SUFFICES ASSUME ChartBook PROVE ChartTypeOK
  OBVIOUS
<1> USE ChartAssumption DEF ChartBook, Days
<1>1. today \in Days /\ start \in 0..MaxDay
  BY DEF FirstDay
<1>2. {recent, taken, told} \subseteq Counts \cup {Unread}
  OBVIOUS
<1>3. trend = Unread \/ trend \in Points
  OBVIOUS
<1> QED BY <1>1, <1>2, <1>3 DEF ChartTypeOK, Counts, Points

\* All pages keep their books.
PagesBook ==
  /\ pageAtWork \in PageNames
  /\ EffectBook /\ NumbersBook /\ NumbersRest /\ ReadFlag /\ CepBook /\ CepRest
  /\ ListBook /\ ListRest /\ ChartBook /\ FormInv

\* For any constants, no step of a page takes a variable of any page out of its
\* type: no call or column beyond the last, no number a column cannot hold.
THEOREM PagesTypeCorrect == PagesSpec => []PagesTypeOK
<1>1. PagesInit => PagesBook
  BY EffectStart, NumbersStart, NumbersRestStart, CepStart, CepRestStart, ListStart, ListRestStart, ChartStart,
     FormStart, ReadFlagKept DEF PagesInit, PagesBook
<1>2. PagesBook /\ [PagesNext]_pagesVars => PagesBook'
  <2> SUFFICES ASSUME PagesBook, [PagesNext]_pagesVars PROVE PagesBook'
    OBVIOUS
  <2>1. pageAtWork' = pageAtWork
    BY DEF PagesNext, pagesVars
  <2>2. EffectBook' /\ FormInv' /\ ChartBook'
    BY PagesStep, EffectStep, FormStep, ChartStep DEF PagesBook
  <2>3. NumbersBook' /\ NumbersRest' /\ ReadFlag'
    BY PagesStep, NumbersStep, NumbersRestStep, ReadFlagKept DEF PagesBook
  <2>4. CepBook' /\ CepRest'
    BY PagesStep, CepStep, CepRestStep DEF PagesBook
  <2>5. ListBook' /\ ListRest'
    BY PagesStep, ListStep, ListRestStep DEF PagesBook
  <2> QED BY <2>1, <2>2, <2>3, <2>4, <2>5 DEF PagesBook
<1>3. PagesBook => PagesTypeOK
  <2> SUFFICES ASSUME PagesBook PROVE PagesTypeOK
    OBVIOUS
  <2>1. QuotePageTypeOK /\ FormsTypeOK /\ pageAtWork \in PageNames
    BY DEF PagesBook, EffectBook, FormInv
  <2>2. NumbersTypeOK /\ CepTypeOK /\ ListTypeOK /\ ChartTypeOK
    BY NumbersTyped, CepTyped, ListTyped, ChartTyped DEF PagesBook
  <2> QED BY <2>1, <2>2 DEF PagesTypeOK
<1> QED BY <1>1, <1>2, <1>3, PagesSafe, PTL
-----------------------------------------------------------------------------
(* What fits into the charts *)

\* Among natural numbers that have a bound there is a largest one.
LEMMA GreatestNatural ==
  ASSUME NEW N \in Nat, NEW T, T \subseteq 0..N, T # {}
  PROVE  \E m \in T : \A n \in T : m >= n
<1> DEFINE U == {N - n : n \in T}
<1>1. \A n \in T : n \in Nat /\ N - n \in Nat
  <2> TAKE n \in T
  <2>1. n \in 0..N
    OBVIOUS
  <2> QED BY <2>1
<1>2. U \subseteq Nat /\ U # {}
  BY <1>1
<1>3. PICK u \in U : \A v \in U : u <= v
  BY <1>2, LeastNatural
<1>4. PICK m \in T : u = N - m
  OBVIOUS
<1>5. ASSUME NEW n \in T PROVE m >= n
  <2>1. N - m <= N - n
    BY <1>3, <1>4
  <2> QED BY <2>1, <1>1
<1> QED BY <1>5

\* The scale is a count, or 1, and no count exceeds it.
LEMMA ScaleIsLargest ==
  ASSUME NEW N \in Nat, NEW C, C \subseteq 0..N
  PROVE  Scale(C) \in Nat /\ Scale(C) >= 1 /\ \A c \in C : c <= Scale(C)
<1> DEFINE T == {1} \cup C
<1>1. T \subseteq 0..(N + 1) /\ 1 \in T
  OBVIOUS
<1>2. N + 1 \in Nat /\ \A n \in T : n \in Nat
  BY <1>1
<1> HIDE DEF T
<1>3. \E m \in T : \A n \in T : m >= n
  BY <1>1, <1>2, GreatestNatural
<1>4. Max(T) \in T /\ \A n \in T : Max(T) >= n
  BY <1>3 DEF Max
<1>5. Max(T) \in Nat /\ Max(T) >= 1
  BY <1>1, <1>2, <1>4
<1> QED BY <1>4, <1>5 DEF Scale, T

\* A bar, its corners and its label, and a point of the trend, below the scale.
LEMMA CountFits ==
  ASSUME NEW c \in Nat, NEW m \in Nat, m >= 1, c <= m
  PROVE  /\ BarEnd(c) <= TrackWidth * m
         /\ BarLabel(c, m) < BarChartWidth * m
         /\ CornerRadius(c, m) <= BarEnd(c)
         /\ Down(c, m) >= PlotTop * m /\ Down(c, m) <= (PlotTop + PlotHeight) * m
<1>1. BarEnd(c) = c * 402 /\ TrackWidth = 402
  BY DEF BarEnd, TrackWidth, BarChartWidth, BarLabelWidth
<1>2. BarLabel(c, m) = 118 * m + c * 402 /\ BarChartWidth = 560
  BY <1>1 DEF BarLabel, BarLabelWidth, BarChartWidth
<1>3. Down(c, m) = 136 * m - c * 124 /\ PlotTop = 12 /\ PlotHeight = 124
  BY DEF Down, PlotTop, PlotHeight
<1>4. CornerRadius(c, m) <= BarEnd(c)
  <2> DEFINE p == BarRadius * m
             q == (BarHeight \div 2) * m
             r == BarEnd(c)
  <2>1. p \in Nat /\ q \in Nat /\ r \in Nat
    BY <1>1 DEF BarRadius, BarHeight
  <2>2. CornerRadius(c, m) = Min({p, q, r})
    BY DEF CornerRadius
  <2> HIDE DEF p, q, r
  <2>3. \E x \in {p, q, r} : \A y \in {p, q, r} : x <= y
    BY <2>1
  <2>4. \A y \in {p, q, r} : Min({p, q, r}) <= y
    BY <2>3 DEF Min
  <2> QED BY <2>2, <2>4 DEF r
<1> QED BY <1>1, <1>2, <1>3, <1>4

\* Whatever the statuses, the counts groupBy returns for them and their size,
\* every bar, label and corner of the status chart and every point of the trend
\* stays inside its chart: the scale is never below a count and never 0.
THEOREM EveryChartFits ==
  ASSUME NEW N \in Nat, NEW statuses
  PROVE  ChartsFit(0..N, statuses)
<1> SUFFICES ASSUME NEW S \in SUBSET statuses, NEW groups \in [S -> (0..N) \ {0}], NEW s \in statuses
             PROVE  LET counts == StatusCounts(groups, statuses)
                        scale == Scale({counts[u] : u \in statuses})
                    IN  /\ BarEnd(counts[s]) <= TrackWidth * scale
                        /\ BarLabel(counts[s], scale) < BarChartWidth * scale
                        /\ counts[s] > 0 => CornerRadius(counts[s], scale) <= BarEnd(counts[s])
                        /\ Down(counts[s], scale) >= PlotTop * scale
                        /\ Down(counts[s], scale) <= (PlotTop + PlotHeight) * scale
  BY DEF ChartsFit
<1> DEFINE counts == StatusCounts(groups, statuses)
           C == {counts[u] : u \in statuses}
<1>1. \A u \in statuses : counts[u] \in 0..N
  BY DEF StatusCounts
<1>2. C \subseteq 0..N /\ counts[s] \in C
  BY <1>1
<1> HIDE DEF counts
<1>3. Scale(C) \in Nat /\ Scale(C) >= 1 /\ counts[s] \in Nat /\ counts[s] <= Scale(C)
  BY <1>2, ScaleIsLargest
<1> QED BY <1>3, CountFits DEF counts
=============================================================================
