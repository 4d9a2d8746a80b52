------------------------------ MODULE WebSession ------------------------------
(***************************************************************************)
(* The session of one browser tab and the refresh tokens of its user.      *)
(* Calls of the API run concurrently.  One that is refused with 401 waits  *)
(* for the refresh of the session, which all such calls share, and is sent *)
(* once more with the new token.  The handler of POST /auth/refresh goes   *)
(* on in the API when the tab has given it up or was reloaded.             *)
(*                                                                         *)
(* A pair is an access token and the refresh token issued with it.  The    *)
(* stored session is modelled as its pair, the user's data left out.       *)
(***************************************************************************)
EXTENDS Naturals

CONSTANTS
  Calls,        \* calls of the API in progress at the same time
  Uses,         \* kinds of calls that are made in a session
  MaxPairs,     \* bound: pairs of tokens that are issued
  MaxRefreshes  \* bound: requests to POST /auth/refresh

Kind == {"page", "mfa", "mfaWrong", "logout", "login"}

ASSUME SessionAssumption ==
  Uses \subseteq Kind \ {"login"} /\ MaxPairs \in Nat \ {0} /\ MaxRefreshes \in Nat

Pairs == 1..MaxPairs
Requests == 1..MaxRefreshes
None == 0

VARIABLES
  token,      \* RefreshToken rows, by pair
  login,      \* the pair a chain of rotations began with
  expired,    \* pairs whose access token has expired
  session,    \* what getSnapshot() returns, and localStorage holds
  pc,         \* what a call does next
  kind,       \* the function of auth-context.tsx the call belongs to
  sent,       \* the pair whose access token the call carries
  current,    \* the local variable `current` of that function, or the result
  refreshPromise, \* the request whose answer the shared promise awaits
  request,    \* where a request to POST /auth/refresh is
  carried,    \* the pair it presents and, once answered, the pair it brings
  lost,       \* history: the answer of a refresh was lost on its way
  restored    \* history: enableMfa or disableMfa put an older session back

server == <<token, login, expired>>
calls == <<pc, kind, sent, current>>
refreshing == <<refreshPromise, request, carried>>
history == <<lost, restored>>
vars == <<server, session, calls, refreshing, history>>

TokenState == {"unissued", "valid", "rotated", "loggedOut"}
CallStep == {"idle", "sent", "resent", "unauthorized", "waiting", "ok", "failed"}
RequestStep == {"unused", "lookup", "revoke", "issue", "answered", "reading",
                "refused", "broken", "over"}

Init ==
  /\ token = [p \in Pairs |-> IF p = 1 THEN "valid" ELSE "unissued"]
  /\ login = [p \in Pairs |-> IF p = 1 THEN 1 ELSE None]
  /\ expired = {}
  /\ session = 1
  /\ pc = [c \in Calls |-> "idle"]
  /\ kind = [c \in Calls |-> "page"]
  /\ sent = [c \in Calls |-> None]
  /\ current = [c \in Calls |-> None]
  /\ refreshPromise = None
  /\ request = [r \in Requests |-> "unused"]
  /\ carried = [r \in Requests |-> None]
  /\ lost = FALSE
  /\ restored = FALSE

\* generateTokens: the next pair, in the chain that began with `first`.
Issue(p, first) ==
  /\ token[p] = "unissued"
  /\ \A o \in Pairs : o < p => token[o] # "unissued"
  /\ token' = [token EXCEPT ![p] = "valid"]
  /\ login' = [login EXCEPT ![p] = first]
-----------------------------------------------------------------------------
(* Calls of the API: apiFetchWithRefresh and its callers *)

\* login, register, verifyMfa and exchangeOAuthCode send no token.
SignIn(c) ==
  /\ pc[c] = "idle"
  /\ pc' = [pc EXCEPT ![c] = "sent"]
  /\ kind' = [kind EXCEPT ![c] = "login"]
  /\ UNCHANGED <<server, session, sent, current, refreshing, history>>

\* A page's call; enableMfa or disableMfa, with a right or a wrong code; logout.
Request(c, k) ==
  /\ pc[c] = "idle"
  /\ session # None
  /\ pc' = [pc EXCEPT ![c] = "sent"]
  /\ kind' = [kind EXCEPT ![c] = k]
  /\ sent' = [sent EXCEPT ![c] = session]
  /\ current' = [current EXCEPT ![c] = IF k \in {"mfa", "logout"} THEN session ELSE None]
  /\ UNCHANGED <<server, session, refreshing, history>>

SignInServed(c) ==
  /\ pc[c] = "sent"
  /\ kind[c] = "login"
  /\ \E p \in Pairs : Issue(p, p) /\ current' = [current EXCEPT ![c] = p]
  /\ pc' = [pc EXCEPT ![c] = "ok"]
  /\ UNCHANGED <<expired, session, kind, sent, refreshing, history>>

\* An answered call has done with its token.
Answered(c, step) ==
  /\ pc' = [pc EXCEPT ![c] = step]
  /\ sent' = [sent EXCEPT ![c] = None]
  /\ UNCHANGED <<login, expired, session, kind, current, refreshing, history>>

\* AuthService.logout revokes the refresh token of the body, unless it was
\* revoked already; the other handlers leave the tokens alone.
Handled(c) ==
  IF kind[c] = "logout" /\ token[current[c]] = "valid"
  THEN [token EXCEPT ![current[c]] = "loggedOut"] ELSE token

Served(c) ==
  /\ pc[c] \in {"sent", "resent"}
  /\ kind[c] \notin {"login", "mfaWrong"}
  /\ sent[c] \notin expired
  /\ token' = Handled(c)
  /\ Answered(c, "ok")

\* JwtAuthGuard answers 401, and so does the handler that is given a wrong
\* code.  A 401 is retried at most once.
Unauthorized(c) ==
  /\ pc[c] \in {"sent", "resent"}
  /\ kind[c] = "mfaWrong" \/ sent[c] \in expired
  /\ Answered(c, IF pc[c] = "sent" THEN "unauthorized" ELSE "failed")
  /\ UNCHANGED token

\* The network or the handler fails, a logout's perhaps after its update.
CallFails(c) ==
  /\ pc[c] \in {"sent", "resent"}
  /\ token' \in {token, Handled(c)}
  /\ Answered(c, "failed")

\* The session that the function of auth-context.tsx stores, if it stores one.
Stored(c) ==
  CASE kind[c] = "logout" -> None
    [] kind[c] \in {"mfa", "login"} /\ pc[c] = "ok" -> current[c]
    [] OTHER -> session

\* The locals of a call that is over are forgotten.
Return(c) ==
  /\ pc[c] \in {"ok", "failed"}
  /\ session' = Stored(c)
  /\ restored' = (restored \/ (kind[c] = "mfa" /\ Stored(c) # session))
  /\ pc' = [pc EXCEPT ![c] = "idle"]
  /\ kind' = [kind EXCEPT ![c] = "page"]
  /\ current' = [current EXCEPT ![c] = None]
  /\ UNCHANGED <<server, sent, refreshing, lost>>

\* The tab is reloaded: readSession finds the session in localStorage, and the
\* calls and the shared promise are gone.
Reload ==
  /\ pc' = [c \in Calls |-> "idle"]
  /\ kind' = [c \in Calls |-> "page"]
  /\ sent' = [c \in Calls |-> None]
  /\ current' = [c \in Calls |-> None]
  /\ refreshPromise' = None
  /\ lost' = (lost \/ refreshPromise # None)
  /\ UNCHANGED <<server, session, request, carried, restored>>
-----------------------------------------------------------------------------
(* refreshAccessToken *)

Begin(c, r) ==
  /\ request[r] = "unused"
  /\ \A o \in Requests : o < r => request[o] # "unused"
  /\ refreshPromise' = r
  /\ request' = [request EXCEPT ![r] = "lookup"]
  /\ carried' = [carried EXCEPT ![r] = session]
  /\ pc' = [pc EXCEPT ![c] = "waiting"]
  /\ UNCHANGED <<server, session, kind, sent, current, history>>

\* Mutant: every call that is refused starts a refresh of its own.
StartRefreshAlways(c) ==
  /\ pc[c] = "unauthorized"
  /\ session # None
  /\ \E r \in Requests : Begin(c, r)

StartRefresh(c) ==
  /\ pc[c] = "unauthorized"
  /\ refreshPromise = None
  /\ session # None
  /\ \E r \in Requests : Begin(c, r)

JoinRefresh(c) ==
  /\ pc[c] = "unauthorized"
  /\ refreshPromise # None
  /\ pc' = [pc EXCEPT ![c] = "waiting"]
  /\ UNCHANGED <<server, session, kind, sent, current, refreshing, history>>

\* getSnapshot() is null: the refresh returns null at once.  So does, in this
\* model only, one beyond the bound.
NoRefresh(c) ==
  /\ pc[c] = "unauthorized"
  /\ refreshPromise = None
  /\ session = None \/ \A r \in Requests : request[r] # "unused"
  /\ pc' = [pc EXCEPT ![c] = "failed"]
  /\ UNCHANGED <<server, session, kind, sent, current, refreshing, history>>

\* The shared promise settles: the calls that awaited it go on before anything
\* else happens.
Settle(step) ==
  /\ refreshPromise' = None
  /\ pc' = [c \in Calls |-> IF pc[c] = "waiting" THEN step ELSE pc[c]]
  /\ UNCHANGED <<server, kind, current>>

Close(r) ==
  /\ request' = [request EXCEPT ![r] = "over"]
  /\ carried' = [carried EXCEPT ![r] = None]

\* Any answer but a 2xx ends the session.
RefreshRefused ==
  /\ refreshPromise # None
  /\ request[refreshPromise] \in {"refused", "broken"}
  /\ Settle("failed")
  /\ session' = None
  /\ Close(refreshPromise)
  /\ UNCHANGED <<sent, history>>

\* Mutant: no timeout; only an answer of the API settles the promise.
RefreshNeverAborted == FALSE

\* Mutant: a refresh that is given up leaves the session as it is.
RefreshGivenUp ==
  /\ refreshPromise # None
  /\ request[refreshPromise] # "reading"
  /\ Settle("failed")
  /\ UNCHANGED <<session, sent, request, carried, history>>

\* The network fails, or REFRESH_TIMEOUT_MS passed without an answer.
RefreshAborted ==
  /\ refreshPromise # None
  /\ request[refreshPromise] # "reading"
  /\ Settle("failed")
  /\ session' = None
  /\ UNCHANGED <<sent, request, carried, history>>

\* fetch returns the answer, which clears the timeout; its body is awaited.
RefreshAnswered ==
  /\ refreshPromise # None
  /\ request[refreshPromise] = "answered"
  /\ request' = [request EXCEPT ![refreshPromise] = "reading"]
  /\ UNCHANGED <<server, session, calls, refreshPromise, carried, history>>

RefreshRead ==
  /\ refreshPromise # None
  /\ request[refreshPromise] = "reading"
  /\ Settle("resent")
  /\ session' = carried[refreshPromise]
  /\ sent' = [c \in Calls |->
                IF pc[c] = "waiting" THEN carried[refreshPromise] ELSE sent[c]]
  /\ Close(refreshPromise)
  /\ UNCHANGED history

\* response.json() throws: the promise rejects and the session stays as it is.
RefreshBodyLost ==
  /\ refreshPromise # None
  /\ request[refreshPromise] = "reading"
  /\ Settle("failed")
  /\ Close(refreshPromise)
  /\ lost' = TRUE
  /\ UNCHANGED <<session, sent, restored>>
-----------------------------------------------------------------------------
(* AuthService.refresh.  The user's row is read between the lookup and the *)
(* revocation; no code of the API changes a user's status.                 *)

\* The token is refused when it is revoked or, at any time, expired.
Lookup(r) ==
  /\ request[r] = "lookup"
  /\ \E step \in {"revoke", "refused"} :
       /\ step = "revoke" => token[carried[r]] = "valid"
       /\ request' = [request EXCEPT ![r] = step]
  /\ UNCHANGED <<server, session, calls, refreshPromise, carried, history>>

\* Mutant: the token that was used stays valid.
RevokeNothing(r) ==
  /\ request[r] = "revoke"
  /\ request' = [request EXCEPT ![r] = "issue"]
  /\ UNCHANGED <<server, session, calls, refreshPromise, carried, history>>

Revoke(r) ==
  /\ request[r] = "revoke"
  /\ request' = [request EXCEPT ![r] = "issue"]
  /\ token' = [token EXCEPT ![carried[r]] =
                 IF @ = "loggedOut" THEN @ ELSE "rotated"]
  /\ UNCHANGED <<login, expired, session, calls, refreshPromise, carried, history>>

IssueFresh(r) ==
  /\ request[r] = "issue"
  /\ \E p \in Pairs :
       Issue(p, login[carried[r]]) /\ carried' = [carried EXCEPT ![r] = p]
  /\ request' = [request EXCEPT ![r] = "answered"]
  /\ UNCHANGED <<expired, session, calls, refreshPromise, history>>

HandlerFails(r) ==
  /\ request[r] \in {"lookup", "revoke", "issue"}
  /\ request' = [request EXCEPT ![r] = "broken"]
  /\ UNCHANGED <<server, session, calls, refreshPromise, carried, history>>
-----------------------------------------------------------------------------
\* Of the access tokens in use: the other ones make no difference.
AccessExpires(p) ==
  /\ p = session \/ \E c \in Calls : p = sent[c]
  /\ p \notin expired
  /\ expired' = expired \cup {p}
  /\ UNCHANGED <<token, login, session, calls, refreshing, history>>
-----------------------------------------------------------------------------
Goes(c) == StartRefresh(c) \/ JoinRefresh(c) \/ NoRefresh(c) \/ Return(c)

Answers(c) == SignInServed(c) \/ Served(c) \/ Unauthorized(c) \/ CallFails(c)

Settles ==
  RefreshRefused \/ RefreshAborted \/ RefreshAnswered \/ RefreshRead \/ RefreshBodyLost

Handles(r) == Lookup(r) \/ Revoke(r) \/ IssueFresh(r) \/ HandlerFails(r)

Next ==
  \/ \E c \in Calls :
       \/ SignIn(c) \/ Goes(c) \/ Answers(c)
       \/ \E k \in Uses : Request(c, k)
  \/ Settles
  \/ \E r \in Requests : Handles(r)
  \/ \E p \in Pairs : AccessExpires(p)
  \/ Reload

Spec == Init /\ [][Next]_vars

\* The tab's event loop goes on and the network ends every call and every body;
\* nothing is asked of the handler of POST /auth/refresh.
Fairness ==
  /\ \A c \in Calls : WF_vars(Goes(c) \/ Answers(c))
  /\ WF_vars(Settles)

FairSpec == Spec /\ Fairness
-----------------------------------------------------------------------------
TypeOK ==
  /\ token \in [Pairs -> TokenState]
  /\ login \in [Pairs -> Pairs \cup {None}]
  /\ expired \subseteq Pairs
  /\ session \in Pairs \cup {None}
  /\ pc \in [Calls -> CallStep]
  /\ kind \in [Calls -> Kind]
  /\ sent \in [Calls -> Pairs \cup {None}]
  /\ current \in [Calls -> Pairs \cup {None}]
  /\ refreshPromise \in Requests \cup {None}
  /\ request \in [Requests -> RequestStep]
  /\ carried \in [Requests -> Pairs \cup {None}]
  /\ \A r \in Requests : carried[r] = None <=> request[r] \in {"unused", "over"}
  /\ lost \in BOOLEAN
  /\ restored \in BOOLEAN

\* The refresh of the tab is refused because of another that used its token.
ReuseRefused ==
  /\ refreshPromise # None
  /\ request[refreshPromise] = "refused"
  /\ token[carried[refreshPromise]] = "rotated"

\* api-client.ts: refusals share one refresh, as one made with a token that was
\* used before would be refused and force a spurious logout.  The property asks
\* for that unless the answer of a refresh was lost: its body broke off, or the
\* tab was reloaded.
NoSpuriousLogout == lost \/ ~ReuseRefused

\* It holds unless enableMfa or disableMfa put an older session back: however
\* many calls are refused, and whenever, with sign-ins, logouts and aborted
\* refreshes in between.
NoStaleRefresh == restored \/ NoSpuriousLogout

OneValid ==
  \A p, q \in Pairs :
    token[p] = "valid" /\ token[q] = "valid" /\ login[p] = login[q] => p = q

\* Each use of a refresh token invalidates it: a login has at most one that is
\* valid, even while the handler of a refresh the tab gave up is still at work.
OneValidPerLogin == lost \/ restored \/ OneValid
-----------------------------------------------------------------------------
(* Why that is so: who holds which pair, and how far its chain came. *)

Open(r) == carried[r] # None

\* A sign-in whose pair is not stored yet.
SigningIn(c) == kind[c] = "login" /\ pc[c] = "ok"

\* Chains begin with pairs that were issued, and only issued pairs are held.
IssueBook ==
  /\ \A p \in Pairs : token[p] = "unissued" <=> login[p] = None
  /\ \A p \in Pairs : login[p] # None => token[login[p]] # "unissued"
  /\ session # None => token[session] # "unissued"
  /\ \A r \in Requests : Open(r) => token[carried[r]] # "unissued"
  /\ \A c \in Calls : SigningIn(c) => current[c] # None
  /\ \A c \in Calls : current[c] # None => token[current[c]] # "unissued"

\* Requests, sign-ins and the session are in chains of their own, but that the
\* shared promise awaits the refresh of the session.
ChainBook ==
  /\ \A r, o \in Requests :
       Open(r) /\ Open(o) /\ login[carried[r]] = login[carried[o]] => r = o
  /\ \A r \in Requests :
       Open(r) /\ session # None /\ login[carried[r]] = login[session] =>
         refreshPromise = r
  /\ \A c \in Calls, r \in Requests :
       SigningIn(c) /\ Open(r) => login[current[c]] # login[carried[r]]
  /\ \A c \in Calls :
       SigningIn(c) /\ session # None => login[current[c]] # login[session]
  /\ \A c, d \in Calls :
       SigningIn(c) /\ SigningIn(d) /\ login[current[c]] = login[current[d]] => c = d

\* What is valid in a chain while its refresh is between two writes.
BetweenWrites ==
  \A r \in Requests, p \in Pairs :
    Open(r) /\ token[p] = "valid" /\ login[p] = login[carried[r]] =>
      /\ request[r] = "revoke" => p = carried[r]
      /\ request[r] # "issue"

\* Which pairs were not used before.
NotUsed ==
  /\ \A r \in Requests :
       Open(r) /\ token[carried[r]] = "rotated" => request[r] \in {"issue", "broken"}
  /\ session # None /\ token[session] = "rotated" => refreshPromise # None
  /\ \A c \in Calls : SigningIn(c) => token[current[c]] # "rotated"

UseBook == OneValid /\ BetweenWrites /\ NotUsed

\* Every pair of tokens is in one place: the session, a refresh or a sign-in;
\* a refresh that was given up holds a chain the tab no longer knows.
Custody == IssueBook /\ (lost \/ restored \/ (ChainBook /\ UseBook))

-----------------------------------------------------------------------------
(* WebSession implements TokenRotation. *)

Rotation == INSTANCE TokenRotation WITH
  valid <- {p \in Pairs : token[p] = "valid"},
  spoiled <- lost \/ restored

\* Tab, calls and the handlers of POST /auth/refresh and /auth/logout together
\* keep the promise of TokenRotation: a used token is never valid again, no
\* token continues a login but the newest one, once it is used, and the tab
\* stores only the newest one, while no answer of a refresh was lost and no
\* older session put back.
KeepsRotation == Rotation!RotationSpec

\* Why that is so: pairs are issued in their order, a refresh issues one after
\* it revoked one, and whoever holds a pair holds the newest of its login, but
\* for the tab while its own refresh is at work.
Newest == {p \in Pairs : \A q \in Pairs : login[q] = login[p] => q <= p}

IssueOrder ==
  /\ \A p, q \in Pairs : q < p /\ token[p] # "unissued" => token[q] # "unissued"
  /\ \A r \in Requests : request[r] = "issue" => token[carried[r]] # "valid"

NewestBook ==
  /\ \A r \in Requests : Open(r) => carried[r] \in Newest
  /\ \A c \in Calls : SigningIn(c) => current[c] \in Newest
  /\ session # None =>
       \/ session \in Newest
       \/ /\ refreshPromise # None /\ Open(refreshPromise)
          /\ login[carried[refreshPromise]] = login[session]

LineBook == IssueOrder /\ (lost \/ restored \/ NewestBook)
-----------------------------------------------------------------------------
\* A refresh that is never answered blocks no call: every call returns.
EveryCallReturns == \A c \in Calls : pc[c] # "idle" ~> pc[c] = "idle"
=============================================================================
