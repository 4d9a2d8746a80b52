------------------------------ MODULE ListPages ------------------------------
(***************************************************************************)
(* The pages that list carriers and clients, each in a tab of its own.     *)
(* The tabs share the session in localStorage, but each reads it only when *)
(* it is opened and keeps its own copy from then on.                       *)
(*                                                                         *)
(* WebSession is about the calls of one tab.  Here a tab has one page,     *)
(* whose effect loads the list again with every new access token, and the  *)
(* question is what the page shows and when it sends its user to /login.   *)
(* A pair is an access token and the refresh token issued with it.         *)
(***************************************************************************)
EXTENDS Naturals

CONSTANTS
  Tabs,
  MaxPairs,    \* bound: pairs of tokens that are issued
  MaxChanges,  \* bound: changes of the list
  MaxFailures  \* bound: loads that fail, by tab

ASSUME ListAssumption ==
  "nobody" \notin Tabs /\ MaxPairs \in Nat \ {0} /\ MaxChanges \in Nat /\ MaxFailures \in Nat

VARIABLES
  stored,      \* localStorage: a pair, or None
  issued,      \* pairs issued so far
  usedBy,      \* the tab whose refresh revoked a pair, or "nobody"
  expired,     \* pairs whose access token has expired
  list,        \* the number of the list's contents
  tabAt,       \* what the tab shows: "closed", "hydrating", "page", "login"
  snapshot,    \* cachedSnapshot of the tab
  loadedWith,  \* the pair whose access token the mounted effect took, or None
  load,        \* where the load of that effect is
  listAnswer,  \* what the API answered it
  lateLists,   \* answers to effects that were cleaned up
  result,      \* state `result`: the list's number and the pair it was asked with
  loadError,   \* state `error`: the pair the failed load was sent with, or None
  failures,
  ended,       \* history: the pair whose refusal ended the tab's session
  found        \* history: what localStorage held when the tab opened or read it

api == <<issued, usedBy, expired, list>>
tab == <<tabAt, snapshot, loadedWith, load, listAnswer, lateLists>>
listState == <<result, loadError>>
history == <<ended, found>>
listVars == <<stored, api, tab, listState, failures, history>>

None == 0
Pairs == 1..MaxPairs
Nothing == [number |-> 0, pair |-> None]
Answers == [number : 0..MaxChanges, pair : Pairs] \cup {Nothing}

ListInit ==
  /\ stored = 1 /\ issued = 1
  /\ usedBy = [p \in Pairs |-> "nobody"]
  /\ expired = {}
  /\ list = 0
  /\ tabAt = [t \in Tabs |-> "closed"]
  /\ snapshot = [t \in Tabs |-> None]
  /\ loadedWith = [t \in Tabs |-> None]
  /\ load = [t \in Tabs |-> "none"]
  /\ listAnswer = [t \in Tabs |-> Nothing]
  /\ lateLists = [t \in Tabs |-> {}]
  /\ result = [t \in Tabs |-> Nothing]
  /\ loadError = [t \in Tabs |-> None]
  /\ failures = [t \in Tabs |-> 0]
  /\ ended = [t \in Tabs |-> None]
  /\ found = [t \in Tabs |-> None]
-----------------------------------------------------------------------------
(* The tab *)

\* The server renders the page without a session; the tab has state of its own.
Opens(t) ==
  /\ tabAt[t] = "closed"
  /\ tabAt' = [tabAt EXCEPT ![t] = "hydrating"]
  /\ found' = [found EXCEPT ![t] = stored]
  /\ UNCHANGED <<stored, api, snapshot, loadedWith, load, listAnswer, lateLists, listState, failures, ended>>

\* The first getSnapshot() of the tab reads localStorage.
Hydrates(t) ==
  /\ tabAt[t] = "hydrating"
  /\ tabAt' = [tabAt EXCEPT ![t] = "page"]
  /\ snapshot' = [snapshot EXCEPT ![t] = stored]
  /\ found' = [found EXCEPT ![t] = stored]
  /\ UNCHANGED <<stored, api, loadedWith, load, listAnswer, lateLists, listState, failures, ended>>

\* Mutant: a user that is null is taken for logged out before hydration.
RedirectsEarly(t) ==
  /\ tabAt[t] \in {"hydrating", "page"}
  /\ snapshot[t] = None
  /\ tabAt' = [tabAt EXCEPT ![t] = "login"]
  /\ UNCHANGED <<stored, api, snapshot, loadedWith, load, listAnswer, lateLists, listState, failures, history>>

\* The effect on `initialized` and `user`.
Redirects(t) ==
  /\ tabAt[t] = "page"
  /\ snapshot[t] = None
  /\ tabAt' = [tabAt EXCEPT ![t] = "login"]
  /\ UNCHANGED <<stored, api, snapshot, loadedWith, load, listAnswer, lateLists, listState, failures, history>>

\* The page is left or reloaded: its state and the tab's copy are gone.
Closes(t) ==
  /\ tabAt[t] \in {"page", "login"}
  /\ tabAt' = [tabAt EXCEPT ![t] = "closed"]
  /\ snapshot' = [snapshot EXCEPT ![t] = None]
  /\ loadedWith' = [loadedWith EXCEPT ![t] = None]
  /\ load' = [load EXCEPT ![t] = "none"]
  /\ listAnswer' = [listAnswer EXCEPT ![t] = Nothing]
  /\ lateLists' = [lateLists EXCEPT ![t] = {}]
  /\ result' = [result EXCEPT ![t] = Nothing]
  /\ loadError' = [loadError EXCEPT ![t] = None]
  /\ ended' = [ended EXCEPT ![t] = None]
  /\ found' = [found EXCEPT ![t] = None]
  /\ UNCHANGED <<stored, api, failures>>
-----------------------------------------------------------------------------
(* The effect and its load *)

\* The effect depends on accessToken.  Its clean-up sets `cancelled` of the
\* load before, whose answer still comes; without a token nothing is loaded.
EffectRuns(t) ==
  /\ tabAt[t] = "page"
  /\ loadedWith[t] # snapshot[t]
  /\ loadedWith' = [loadedWith EXCEPT ![t] = snapshot[t]]
  /\ load' = [load EXCEPT ![t] = IF snapshot[t] = None THEN "none" ELSE "sent"]
  /\ listAnswer' = [listAnswer EXCEPT ![t] = Nothing]
  /\ lateLists' = [lateLists EXCEPT ![t] = IF load[t] = "answered" THEN @ \cup {listAnswer[t]} ELSE @]
  /\ UNCHANGED <<stored, api, tabAt, snapshot, listState, failures, history>>

\* findAll: the list as it is now.
ApiReads(t) ==
  /\ load[t] = "sent"
  /\ loadedWith[t] \notin expired
  /\ load' = [load EXCEPT ![t] = "answered"]
  /\ listAnswer' = [listAnswer EXCEPT ![t] = [number |-> list, pair |-> loadedWith[t]]]
  /\ UNCHANGED <<stored, api, tabAt, snapshot, loadedWith, lateLists, listState, failures, history>>

ShowsList(t) ==
  /\ load[t] = "answered"
  /\ load' = [load EXCEPT ![t] = "over"]
  /\ result' = [result EXCEPT ![t] = listAnswer[t]]
  /\ loadError' = [loadError EXCEPT ![t] = None]
  /\ UNCHANGED <<stored, api, tabAt, snapshot, loadedWith, listAnswer, lateLists, failures, history>>

\* The list of an earlier load stays below the message.
ShowsLoadError(t) ==
  /\ load[t] \in {"sent", "answered"}
  /\ failures[t] < MaxFailures
  /\ failures' = [failures EXCEPT ![t] = @ + 1]
  /\ load' = [load EXCEPT ![t] = "over"]
  /\ loadError' = [loadError EXCEPT ![t] = loadedWith[t]]
  /\ UNCHANGED <<stored, api, tabAt, snapshot, loadedWith, listAnswer, lateLists, result, history>>

\* Mutant: the load does not look at `cancelled`.
LateListShown(t, a) ==
  /\ a \in lateLists[t]
  /\ lateLists' = [lateLists EXCEPT ![t] = @ \ {a}]
  /\ result' = [result EXCEPT ![t] = a]
  /\ loadError' = [loadError EXCEPT ![t] = None]
  /\ UNCHANGED <<stored, api, tabAt, snapshot, loadedWith, load, listAnswer, failures, history>>

LateList(t, a) ==
  /\ a \in lateLists[t]
  /\ lateLists' = [lateLists EXCEPT ![t] = @ \ {a}]
  /\ UNCHANGED <<stored, api, tabAt, snapshot, loadedWith, load, listAnswer, listState, failures, history>>

\* The load is refused, refreshes the tab's copy of the session, stores the
\* new pair for all tabs and is sent once more; the new token runs the effect
\* again, so that the answer to the repeated load is a late one.
Refreshed(t) ==
  /\ load[t] = "sent" /\ loadedWith[t] \in expired
  /\ usedBy[snapshot[t]] = "nobody"
  /\ issued < MaxPairs
  /\ issued' = issued + 1
  /\ usedBy' = [usedBy EXCEPT ![snapshot[t]] = t]
  /\ snapshot' = [snapshot EXCEPT ![t] = issued + 1]
  /\ stored' = issued + 1
  /\ load' = [load EXCEPT ![t] = "none"]
  /\ lateLists' = [lateLists EXCEPT ![t] = @ \cup {[number |-> list, pair |-> loadedWith[t]]}]
  /\ UNCHANGED <<expired, list, tabAt, loadedWith, listAnswer, listState, failures, history>>

\* The tab's copy holds a refresh token that was used already: setSession(null)
\* also empties localStorage, and the load fails.
RefreshRefused(t) ==
  /\ load[t] = "sent" /\ loadedWith[t] \in expired
  /\ usedBy[snapshot[t]] # "nobody"
  /\ snapshot' = [snapshot EXCEPT ![t] = None]
  /\ stored' = None
  /\ load' = [load EXCEPT ![t] = "over"]
  /\ loadError' = [loadError EXCEPT ![t] = loadedWith[t]]
  /\ ended' = [ended EXCEPT ![t] = snapshot[t]]
  /\ UNCHANGED <<api, tabAt, loadedWith, listAnswer, lateLists, result, failures, found>>
-----------------------------------------------------------------------------
(* The rest of the system *)

\* The last pair that may be issued is one that does not expire any more.
AccessExpires(p) ==
  /\ p \in 1..issued \ expired
  /\ p < MaxPairs
  /\ expired' = expired \cup {p}
  /\ UNCHANGED <<stored, issued, usedBy, list, tab, listState, failures, history>>

ListChanges ==
  /\ list < MaxChanges
  /\ list' = list + 1
  /\ UNCHANGED <<stored, issued, usedBy, expired, tab, listState, failures, history>>

TabProceeds(t) ==
  \/ Hydrates(t) \/ Redirects(t) \/ EffectRuns(t) \/ ApiReads(t) \/ ShowsList(t)
  \/ Refreshed(t) \/ RefreshRefused(t)

ListNext ==
  \/ \E t \in Tabs : \/ Opens(t) \/ Closes(t) \/ TabProceeds(t) \/ ShowsLoadError(t)
                     \/ \E a \in lateLists[t] : LateList(t, a)
  \/ (\E p \in Pairs : AccessExpires(p)) \/ ListChanges

\* A tab that is open goes on, and so does the API.
ListFairness == \A t \in Tabs : WF_listVars(TabProceeds(t))

ListSpec == ListInit /\ [][ListNext]_listVars /\ ListFairness
-----------------------------------------------------------------------------
ListTypeOK ==
  /\ stored \in Pairs \cup {None}
  /\ issued \in Pairs /\ expired \subseteq Pairs
  /\ usedBy \in [Pairs -> Tabs \cup {"nobody"}]
  /\ list \in 0..MaxChanges
  /\ tabAt \in [Tabs -> {"closed", "hydrating", "page", "login"}]
  /\ load \in [Tabs -> {"none", "sent", "answered", "over"}]
  /\ {snapshot, loadedWith, loadError, ended, found} \subseteq [Tabs -> Pairs \cup {None}]
  /\ {listAnswer, result} \subseteq [Tabs -> Answers]
  /\ lateLists \in [Tabs -> SUBSET Answers]
  /\ failures \in [Tabs -> 0..MaxFailures]

\* What a tab renders: without a user nothing.
TabRendered(t) ==
  CASE tabAt[t] # "page" -> "another page"
    [] tabAt[t] = "page" /\ snapshot[t] = None -> "nothing"
    [] tabAt[t] = "page" /\ snapshot[t] # None ->
         IF result[t] = Nothing THEN IF loadError[t] = None THEN "loading" ELSE "error"
         ELSE IF loadError[t] = None THEN "list" ELSE "list and error"

\* However answers overtake each other, once the load of the newest access
\* token is over the page shows what that load brought, its list or its error.
NewestLoadIsShown ==
  \A t \in Tabs :
    load[t] = "over" /\ TabRendered(t) \notin {"nothing", "another page"} =>
      IF TabRendered(t) = "list" THEN result[t].pair = loadedWith[t] ELSE loadError[t] = loadedWith[t]

\* A tab is sent to /login only for a reason: localStorage held no session as it
\* opened, or another tab used its pair first.  It is not sent there because
\* every page is first rendered without a session, nor by its own refreshes.
LoginForAReason ==
  \A t \in Tabs :
    /\ tabAt[t] = "login" => found[t] = None \/ ended[t] # None
    /\ ended[t] # None => usedBy[ended[t]] # t
=============================================================================
