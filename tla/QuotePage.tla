------------------------------ MODULE QuotePage ------------------------------
(***************************************************************************)
(* The page "new quote" over several submissions and access tokens.        *)
(* QuoteScreen follows one submission into the backend; here the backend   *)
(* only concludes quotes, and the page is modelled with React's rules: an  *)
(* effect runs some time after the render that changed what it depends on, *)
(* its clean-up runs just before the next one, and every handler that sets *)
(* state first lets an effect run that is due.                             *)
(*                                                                         *)
(* Quotes of this page are numbered in the order of their POSTs; quote 0   *)
(* stands for those of other users, announced in the same room.  The       *)
(* message of a POST that failed is left out: the quote on the page does   *)
(* not depend on it.                                                       *)
(***************************************************************************)
EXTENDS Naturals

CONSTANTS
  Outcomes,       \* what a quote may come to, as the page renders it
  MaxQuotes,      \* bound: submissions that create a quote
  MaxTokens,      \* bound: access tokens
  MaxQuoteLosses  \* bound: failed POSTs, lost answers

ASSUME QuotePageAssumption ==
  /\ Outcomes \cap {"open", "sent", "lost", "unauthorized", "over"} = {}
  /\ MaxQuotes \in Nat /\ MaxTokens \in Nat \ {0} /\ MaxQuoteLosses \in Nat

VARIABLES
  created,      \* the quotes the API has created for this page
  outcome,      \* what a quote came to, or "open"
  post,         \* the POST: "none", "sent", "created", "failed"
  shown,        \* createdQuote.id, 0 before the first answer
  shownAs,      \* createdQuote.status
  waitError,    \* whether state `statusError` holds a message
  token,        \* the session's access token
  quoteEffect,  \* the run of the effect that is not cleaned up
  lateGets,     \* quotes whose GET was sent by a run that is cleaned up
  quoteLosses

formState == <<post, shown, shownAs, waitError>>
quotePageVars == <<created, outcome, formState, token, quoteEffect, lateGets, quoteLosses>>

States == Outcomes \cup {"open"}
Tried == 0..MaxQuotes

Effect ==
  [quote : Tried, token : 0..MaxTokens,
   get : {"sent", "lost", "unauthorized", "over"} \cup States,
   socket : {"connecting", "joined", "refused", "closed"},
   wire : SUBSET Tried, settled : BOOLEAN, timer : BOOLEAN]

NoEffect ==
  [quote |-> 0, token |-> 0, get |-> "over", socket |-> "closed",
   wire |-> {}, settled |-> FALSE, timer |-> FALSE]

QuotePageInit ==
  /\ created = 0
  /\ outcome = [q \in Tried |-> "open"]
  /\ post = "none"
  /\ shown = 0 /\ shownAs = "open"
  /\ waitError = FALSE
  /\ token = 1
  /\ quoteEffect = NoEffect
  /\ lateGets = {}
  /\ quoteLosses = 0
-----------------------------------------------------------------------------
(* The effect *)

\* Mutant: the effect depends on createdQuote.id alone.
FollowsId == quoteEffect.quote = shown

\* The effect depends on createdQuote.id and accessToken.
Follows == quoteEffect.quote = shown /\ quoteEffect.token = token
EffectDue == shown # 0 /\ ~Follows

\* It sends the GET, opens the socket and arms the timeout.
Started ==
  [quote |-> shown, token |-> token, get |-> "sent", socket |-> "connecting",
   wire |-> {}, settled |-> FALSE, timer |-> TRUE]

\* A handler leaves the current run as f.  A run that is due takes its place:
\* the clean-up clears the timeout and disconnects the socket of f, whose GET
\* goes on.
Flush(f) ==
  IF EffectDue
  THEN /\ quoteEffect' = Started
       /\ lateGets' = lateGets \cup (IF f.get = "over" THEN {} ELSE {f.quote})
  ELSE quoteEffect' = f /\ UNCHANGED lateGets

RunEffect ==
  /\ EffectDue
  /\ Flush(quoteEffect)
  /\ UNCHANGED <<created, outcome, formState, token, quoteLosses>>
-----------------------------------------------------------------------------
(* The form *)

\* The button is disabled while a submission is on its way.
Submit ==
  /\ post = "none"
  /\ created < MaxQuotes
  /\ post' = "sent"
  /\ waitError' = FALSE
  /\ Flush(quoteEffect)
  /\ UNCHANGED <<created, outcome, shown, shownAs, token, quoteLosses>>

\* FreightQuotesService.create, or a failure before or after it.
ApiCreates ==
  /\ post = "sent"
  /\ created' = created + 1
  /\ \/ post' = "created" /\ UNCHANGED quoteLosses
     \/ quoteLosses < MaxQuoteLosses /\ quoteLosses' = quoteLosses + 1 /\ post' = "failed"
  /\ UNCHANGED <<outcome, shown, shownAs, waitError, token, quoteEffect, lateGets>>

ApiRefuses ==
  /\ post = "sent"
  /\ quoteLosses < MaxQuoteLosses
  /\ quoteLosses' = quoteLosses + 1
  /\ post' = "failed"
  /\ UNCHANGED <<created, outcome, shown, shownAs, waitError, token, quoteEffect, lateGets>>

PostAnswered ==
  /\ post = "created"
  /\ shown' = created /\ shownAs' = "open"
  /\ post' = "none"
  /\ Flush(quoteEffect)
  /\ UNCHANGED <<created, outcome, waitError, token, quoteLosses>>

\* The quote of the last submission stays on the page, below the form's error.
PostFailed ==
  /\ post = "failed"
  /\ post' = "none"
  /\ Flush(quoteEffect)
  /\ UNCHANGED <<created, outcome, shown, shownAs, waitError, token, quoteLosses>>

\* A refresh that any request of the browser made.
TokenRotates ==
  /\ token < MaxTokens
  /\ token' = token + 1
  /\ Flush(quoteEffect)
  /\ UNCHANGED <<created, outcome, formState, quoteLosses>>
-----------------------------------------------------------------------------
(* The backend *)

\* An event is emitted to the sockets that are in the tenant's room.
Emitted(q) ==
  quoteEffect' = IF quoteEffect.socket = "joined" THEN [quoteEffect EXCEPT !.wire = @ \cup {q}] ELSE quoteEffect

\* The worker concludes a quote of this page.
Concludes(q) ==
  /\ q \in 1..created
  /\ outcome[q] = "open"
  /\ \E o \in Outcomes : outcome' = [outcome EXCEPT ![q] = o]
  /\ Emitted(q)
  /\ UNCHANGED <<created, formState, token, lateGets, quoteLosses>>

\* It concludes a quote of another user of the tenant.
ConcludesOther ==
  /\ Emitted(0)
  /\ UNCHANGED <<created, outcome, formState, token, lateGets, quoteLosses>>

\* The gateway accepts the socket, or emits "error" and disconnects it.
GatewayDecides ==
  /\ quoteEffect.socket = "connecting"
  /\ \E s \in {"joined", "refused"} : quoteEffect' = [quoteEffect EXCEPT !.socket = s]
  /\ UNCHANGED <<created, outcome, formState, token, lateGets, quoteLosses>>

\* The GET is answered with the row as it is now, with a 401 or not at all.
ApiAnswers ==
  /\ quoteEffect.get = "sent"
  /\ \E g \in {outcome[quoteEffect.quote], "unauthorized", "lost"} : quoteEffect' = [quoteEffect EXCEPT !.get = g]
  /\ UNCHANGED <<created, outcome, formState, token, lateGets, quoteLosses>>
-----------------------------------------------------------------------------
(* The handlers of the effect *)

\* Mutant: the body of a refused GET is taken for a quote.
GetResolvesAnything ==
  /\ quoteEffect.get \in States \cup {"unauthorized"}
  /\ shown' = quoteEffect.quote /\ shownAs' = quoteEffect.get
  /\ Flush([quoteEffect EXCEPT !.get = "over", !.settled = TRUE])
  /\ UNCHANGED <<created, outcome, post, waitError, token, quoteLosses>>

GetResolves ==
  /\ quoteEffect.get \in States
  /\ shown' = quoteEffect.quote /\ shownAs' = quoteEffect.get
  /\ Flush([quoteEffect EXCEPT !.get = "over", !.settled = TRUE])
  /\ UNCHANGED <<created, outcome, post, waitError, token, quoteLosses>>

\* Only a 401 is acted on: handleUnrecoverable.
GetRejects ==
  /\ quoteEffect.get \in {"unauthorized", "lost"}
  /\ IF quoteEffect.get = "lost"
     THEN quoteEffect' = [quoteEffect EXCEPT !.get = "over"] /\ UNCHANGED <<waitError, lateGets>>
     ELSE /\ waitError' = TRUE
          /\ Flush([quoteEffect EXCEPT !.get = "over", !.settled = TRUE])
  /\ UNCHANGED <<created, outcome, post, shown, shownAs, token, quoteLosses>>

\* Mutant: .then and .catch do not look at `cancelled`.
LateAnswerShown(q) ==
  /\ q \in lateGets
  /\ lateGets' = lateGets \ {q}
  /\ shown' = q /\ shownAs' = outcome[q]
  /\ UNCHANGED <<created, outcome, post, waitError, token, quoteEffect, quoteLosses>>

\* An answer to a run that is cleaned up: `cancelled` is set.
LateGet(q) ==
  /\ q \in lateGets
  /\ lateGets' = lateGets \ {q}
  /\ UNCHANGED <<created, outcome, formState, token, quoteEffect, quoteLosses>>

EventArrives(q) ==
  /\ q \in quoteEffect.wire
  /\ IF q = quoteEffect.quote
     THEN /\ shown' = q /\ shownAs' = outcome[q]
          /\ Flush([quoteEffect EXCEPT !.wire = @ \ {q}, !.settled = TRUE])
     ELSE /\ quoteEffect' = [quoteEffect EXCEPT !.wire = @ \ {q}]
          /\ UNCHANGED <<shown, shownAs, lateGets>>
  /\ UNCHANGED <<created, outcome, post, waitError, token, quoteLosses>>

SocketErrorArrives ==
  /\ quoteEffect.socket = "refused"
  /\ waitError' = TRUE
  /\ Flush([quoteEffect EXCEPT !.socket = "closed", !.settled = TRUE])
  /\ UNCHANGED <<created, outcome, post, shown, shownAs, token, quoteLosses>>

TimeoutFires ==
  /\ quoteEffect.timer
  /\ IF quoteEffect.settled
     THEN quoteEffect' = [quoteEffect EXCEPT !.timer = FALSE] /\ UNCHANGED <<waitError, lateGets>>
     ELSE waitError' = TRUE /\ Flush([quoteEffect EXCEPT !.timer = FALSE])
  /\ UNCHANGED <<created, outcome, post, shown, shownAs, token, quoteLosses>>
-----------------------------------------------------------------------------
Handles ==
  \/ GatewayDecides \/ ApiAnswers \/ GetResolves \/ GetRejects
  \/ SocketErrorArrives \/ TimeoutFires
  \/ \E q \in Tried : EventArrives(q)

QuotePageNext ==
  \/ Submit \/ ApiCreates \/ ApiRefuses \/ PostAnswered \/ PostFailed
  \/ TokenRotates \/ RunEffect \/ Handles \/ ConcludesOther
  \/ \E q \in Tried : Concludes(q) \/ LateGet(q)

\* React runs the effect and the browser its timer; a request may stay without
\* an answer and a socket undecided.
QuotePageFairness == WF_quotePageVars(RunEffect \/ TimeoutFires)

QuotePageSpec == QuotePageInit /\ [][QuotePageNext]_quotePageVars /\ QuotePageFairness
-----------------------------------------------------------------------------
QuotePageTypeOK ==
  /\ created \in Tried
  /\ outcome \in [Tried -> States]
  /\ post \in {"none", "sent", "created", "failed"}
  /\ shown \in Tried /\ shownAs \in States
  /\ waitError \in BOOLEAN
  /\ token \in 1..MaxTokens
  /\ quoteEffect \in Effect
  /\ lateGets \subseteq Tried
  /\ quoteLosses \in 0..MaxQuoteLosses

\* What the page renders for the quote it shows.
Rendered ==
  IF shownAs # "open" THEN shownAs
  ELSE IF waitError THEN "wait error" ELSE "calculating"

\* The quote on the page is replaced by that of a later submission and by
\* nothing else: no other user's quote, no late answer of an earlier run.
\* Only between the render of a new quote and its effect may a handler of the
\* old run still put the old quote back.
OnlyNewerQuotesReplace ==
  [][shown' # shown => EffectDue \/ (post = "created" /\ shown' = created)]_quotePageVars

\* A new access token asks again: a page that still waits for a quote that is
\* concluded stops waiting after the token changed, whatever it missed before.
NewTokenEndsTheWait ==
  \A q \in 1..MaxQuotes :
    (shown = q /\ shownAs = "open" /\ outcome[q] # "open" /\ quoteEffect.token # token)
      ~> (shown # q \/ Rendered # "calculating")

=============================================================================
