-------------------------------- MODULE Forms --------------------------------
(***************************************************************************)
(* How the forms of "contact", "login", "register" and "verify" (the code  *)
(* of the second factor) submit what was typed into them.  All disable     *)
(* their button while a submission is under way; the contact form then     *)
(* thanks its user, the others leave for another page, which takes a while *)
(* in which the form can be used again.                                    *)
(*                                                                         *)
(* What a submission brings about in the API is one row each: a lead, a    *)
(* refresh token or a tenant.  Only the login of an account with a second  *)
(* factor brings about none: it is answered with an mfaToken, and its form *)
(* leaves for "verify".  TenantSlug says what the fields may hold.         *)
(***************************************************************************)
EXTENDS Naturals, TenantSlug

CONSTANTS
  Forms,           \* of {"contact", "login", "register", "verify"}
  MaxSubmissions,  \* bound: submissions of a form
  MaxLosses        \* bound: answers of a form that are lost

ASSUME FormsAssumption ==
  /\ Forms \subseteq {"contact", "login", "register", "verify"}
  /\ MaxSubmissions \in Nat /\ MaxLosses \in Nat

VARIABLES
  form,       \* the form this is about
  accepted,   \* whether the API takes what the fields hold
  formAt,     \* "form", "thanked", "leaving" after router.push, or "left"
  leads,      \* where the last router.push leads: "inside" or to "verify"
  isSubmitting,
  formError,  \* state `error`: the submission that set it, 0 for null
  sent,       \* submissions so far
  body,       \* whether the API takes what a submission carries
  request,    \* where a submission is
  rows,       \* rows that submissions of the form have stored
  mfaTokens,  \* mfaTokens that a login was answered with
  losses,
  again       \* history: submissions made while the form was being left

formsVars ==
  <<form, accepted, formAt, leads, isSubmitting, formError, sent, body, request, rows, mfaTokens, losses, again>>

Submissions == 1..MaxSubmissions

FormsInit ==
  /\ form \in Forms
  /\ accepted = FALSE
  /\ formAt = "form"
  /\ leads = "nowhere"
  /\ isSubmitting = FALSE
  /\ formError = 0
  /\ sent = 0
  /\ body = [i \in Submissions |-> FALSE]
  /\ request = [i \in Submissions |-> "none"]
  /\ rows = 0
  /\ mfaTokens = 0
  /\ losses = 0
  /\ again = 0
-----------------------------------------------------------------------------
(* The form *)

Edits ==
  /\ formAt \in {"form", "leaving"}
  /\ accepted' = ~accepted
  /\ UNCHANGED <<form, formAt, leads, isSubmitting, formError, sent, body, request, rows, mfaTokens, losses, again>>

Begins ==
  /\ formAt \in {"form", "leaving"}
  /\ sent < MaxSubmissions
  /\ sent' = sent + 1
  /\ body' = [body EXCEPT ![sent + 1] = accepted]
  /\ request' = [request EXCEPT ![sent + 1] = "sent"]
  /\ isSubmitting' = TRUE
  /\ again' = IF formAt = "leaving" THEN again + 1 ELSE again
  /\ UNCHANGED <<form, accepted, formAt, leads, rows, mfaTokens, losses>>

\* Mutant: the button is not disabled.
HandleSubmitTwice ==
  /\ Begins
  /\ formError' = 0

HandleSubmit ==
  /\ ~isSubmitting
  /\ Begins
  /\ formError' = 0

\* The await returns: the form thanks, or router.push starts, to the code page
\* with an mfaToken and inside otherwise; then `finally`.  A form that was left
\* meanwhile stays left, and still pushes.
Succeeds(i) ==
  /\ request[i] \in {"stored", "challenged"}
  /\ request' = [request EXCEPT ![i] = "over"]
  /\ \/ form = "contact" /\ formAt' = "thanked" /\ leads' = leads
     \/ /\ form # "contact"
        /\ formAt' = IF formAt = "left" THEN "left" ELSE "leaving"
        /\ leads' = IF request[i] = "stored" THEN "inside" ELSE "verify"
  /\ isSubmitting' = FALSE
  /\ UNCHANGED <<form, accepted, formError, sent, body, rows, mfaTokens, losses, again>>

\* Mutant: no `finally`.
FailsForGood(i) ==
  /\ request[i] \in {"refused", "lost"} /\ formAt # "left"
  /\ request' = [request EXCEPT ![i] = "over"]
  /\ formError' = i
  /\ UNCHANGED <<form, accepted, formAt, leads, isSubmitting, sent, body, rows, mfaTokens, losses, again>>

\* The await throws.
SubmissionFails(i) ==
  /\ request[i] \in {"refused", "lost"} /\ formAt # "left"
  /\ request' = [request EXCEPT ![i] = "over"]
  /\ formError' = i
  /\ isSubmitting' = FALSE
  /\ UNCHANGED <<form, accepted, formAt, leads, sent, body, rows, mfaTokens, losses, again>>

\* The other page is there.  A submission that is still under way goes on
\* without a form, and nobody sees an error of it.
NavigationEnds ==
  /\ formAt = "leaving"
  /\ formAt' = "left"
  /\ UNCHANGED <<form, accepted, leads, isSubmitting, formError, sent, body, request, rows, mfaTokens, losses, again>>
-----------------------------------------------------------------------------
(* The API *)

\* A tenant's slug is unique.
Takes(i) == body[i] /\ (form = "register" => rows = 0)

Stores(i) ==
  /\ request[i] = "sent"
  /\ Takes(i)
  /\ rows' = rows + 1
  /\ \/ request' = [request EXCEPT ![i] = "stored"] /\ UNCHANGED losses
     \/ /\ losses < MaxLosses
        /\ losses' = losses + 1
        /\ request' = [request EXCEPT ![i] = "lost"]
  /\ UNCHANGED <<form, accepted, formAt, leads, isSubmitting, formError, sent, body, mfaTokens, again>>

\* A login of an account with a second factor: no refresh token, an mfaToken.
\* Which accounts have one the form cannot know.  Of an answer that is lost
\* nothing stays: that is Refuses.
Challenges(i) ==
  /\ form = "login"
  /\ request[i] = "sent"
  /\ Takes(i)
  /\ mfaTokens' = mfaTokens + 1
  /\ request' = [request EXCEPT ![i] = "challenged"]
  /\ UNCHANGED <<form, accepted, formAt, leads, isSubmitting, formError, sent, body, rows, losses, again>>

\* What the API does not take it refuses, and any call may fail on its way.
Refuses(i) ==
  /\ request[i] = "sent"
  /\ request' = [request EXCEPT ![i] = "refused"]
  /\ UNCHANGED <<form, accepted, formAt, leads, isSubmitting, formError, sent, body, rows, mfaTokens, losses, again>>

FormProceeds ==
  \/ NavigationEnds
  \/ \E i \in Submissions : Stores(i) \/ Challenges(i) \/ Refuses(i) \/ Succeeds(i) \/ SubmissionFails(i)

FormsNext == Edits \/ HandleSubmit \/ FormProceeds

\* Calls are answered or fail, and the router ends what it began.
FormsFairness == WF_formsVars(FormProceeds)

FormsSpec == FormsInit /\ [][FormsNext]_formsVars /\ FormsFairness
-----------------------------------------------------------------------------
FormsTypeOK ==
  /\ form \in Forms
  /\ accepted \in BOOLEAN /\ isSubmitting \in BOOLEAN
  /\ formAt \in IF form = "contact" THEN {"form", "thanked"} ELSE {"form", "leaving", "left"}
  /\ leads \in {"nowhere", "inside", "verify"}
  /\ {sent, formError, again, rows, mfaTokens} \subseteq 0..MaxSubmissions
  /\ body \in [Submissions -> BOOLEAN]
  /\ request \in [Submissions -> {"none", "sent", "stored", "challenged", "refused", "lost", "over"}]
  /\ losses \in 0..MaxLosses

\* What a form says agrees with what the API did.  It thanks, or leads inside,
\* only for a lead, a session or a tenant that is stored and answered, and asks
\* for a code only with an mfaToken.  And a user that means one row, or one
\* mfaToken, gets one: a second one, or one of each, needs an answer that was
\* lost or a form used while it is left.
RowsAreMeant ==
  /\ formAt = "thanked" \/ leads = "inside" => rows > losses
  /\ leads = "verify" => mfaTokens > 0
  /\ rows + mfaTokens <= 1 + losses + again
=============================================================================
