------------------------------ MODULE Dashboard ------------------------------
(***************************************************************************)
(* The dashboard of one tenant: the page that asks for the metrics when it *)
(* opens and then at every interval, whether or not earlier requests were  *)
(* answered, and the endpoint that keeps what it computed in Redis.        *)
(*                                                                         *)
(* `truth` numbers the contents of the tables.  Metrics are the numbers of *)
(* the contents their queries read, one after the other.                   *)
(***************************************************************************)
EXTENDS Naturals

CONSTANTS
  Loads,              \* requests that may be on their way at the same time
  Tables,             \* what the metrics are computed from
  MaxChanges,         \* bound: changes of the tables
  MaxRotations,       \* bound: new access tokens
  MaxDashboardFaults  \* bound: failed calls, lost answers, stops of the API

ASSUME DashboardAssumption ==
  MaxChanges \in Nat /\ MaxRotations \in Nat /\ MaxDashboardFaults \in Nat

VARIABLES
  truth,    \* the contents of each table
  cache,    \* the value of the tenant's key
  load,     \* where a request is
  metrics,  \* what it has read so far, or answers
  mine,     \* whether the effect that sent it is still mounted (~cancelled)
  open,     \* whether the page is open
  shown,    \* state `metrics` of the page
  failed,   \* whether the page shows an error
  rotations,
  dashboardFaults

page == <<open, shown, failed, rotations>>
dashboardVars == <<truth, cache, load, metrics, mine, page, dashboardFaults>>

Unread == MaxChanges + 1
Nothing == [t \in Tables |-> Unread]
Metrics == [Tables -> 0..Unread]

DashboardInit ==
  /\ truth = [t \in Tables |-> 0]
  /\ cache = Nothing
  /\ load = [l \in Loads |-> "none"]
  /\ metrics = [l \in Loads |-> Nothing]
  /\ mine = [l \in Loads |-> FALSE]
  /\ open = FALSE
  /\ shown = Nothing
  /\ failed = FALSE
  /\ rotations = 0
  /\ dashboardFaults = 0

LoadAt(l, step) == load' = [load EXCEPT ![l] = step]

\* Quotes, carriers and clients change while the page is open.
TableChanges(t) ==
  /\ truth[t] < MaxChanges
  /\ truth' = [truth EXCEPT ![t] = @ + 1]
  /\ UNCHANGED <<cache, load, metrics, mine, page, dashboardFaults>>
-----------------------------------------------------------------------------
(* The page *)

Sends(l) ==
  /\ load[l] = "none"
  /\ LoadAt(l, "get")
  /\ mine' = [mine EXCEPT ![l] = TRUE]

\* The effect loads at once.
Opens ==
  /\ ~open
  /\ open' = TRUE
  /\ \E l \in Loads : Sends(l)
  /\ UNCHANGED <<truth, cache, metrics, shown, failed, rotations, dashboardFaults>>

IntervalFires(l) ==
  /\ open
  /\ Sends(l)
  /\ UNCHANGED <<truth, cache, metrics, page, dashboardFaults>>

\* A new access token runs the effect again; what is shown stays.
TokenRotates(l) ==
  /\ open
  /\ load[l] = "none"
  /\ LoadAt(l, "get")
  /\ mine' = [k \in Loads |-> k = l]
  /\ rotations < MaxRotations
  /\ rotations' = rotations + 1
  /\ UNCHANGED <<truth, cache, metrics, open, shown, failed, dashboardFaults>>

\* The page is left: its state is gone, and its requests are nobody's.
Leaves ==
  /\ open
  /\ open' = FALSE
  /\ shown' = Nothing
  /\ failed' = FALSE
  /\ mine' = [l \in Loads |-> FALSE]
  /\ UNCHANGED <<truth, cache, load, metrics, rotations, dashboardFaults>>

\* Mutant: good metrics leave the error of an earlier request.
AnsweredKeepsError(l, m, isError) ==
  /\ LoadAt(l, "none")
  /\ metrics' = [metrics EXCEPT ![l] = Nothing]
  /\ mine' = [mine EXCEPT ![l] = FALSE]
  /\ shown' = IF mine[l] /\ ~isError THEN m ELSE shown
  /\ failed' = (failed \/ (mine[l] /\ isError))
  /\ UNCHANGED <<truth, open, rotations>>

Answered(l, m, isError) ==
  /\ LoadAt(l, "none")
  /\ metrics' = [metrics EXCEPT ![l] = Nothing]
  /\ mine' = [mine EXCEPT ![l] = FALSE]
  /\ shown' = IF mine[l] /\ ~isError THEN m ELSE shown
  /\ failed' = IF mine[l] THEN isError ELSE failed
  /\ UNCHANGED <<truth, open, rotations>>
-----------------------------------------------------------------------------
(* getMetrics *)

GetsCache(l) ==
  /\ load[l] = "get"
  /\ IF cache # Nothing
     THEN LoadAt(l, "answer") /\ metrics' = [metrics EXCEPT ![l] = cache]
     ELSE LoadAt(l, "compute") /\ UNCHANGED metrics
  /\ UNCHANGED <<truth, cache, mine, page, dashboardFaults>>

\* One of the queries of computeMetrics.
ReadsTable(l, t) ==
  /\ load[l] = "compute"
  /\ metrics[l][t] = Unread
  /\ metrics' = [metrics EXCEPT ![l][t] = truth[t]]
  /\ UNCHANGED <<truth, cache, load, mine, page, dashboardFaults>>

SetsCache(l) ==
  /\ load[l] = "compute"
  /\ \A t \in Tables : metrics[l][t] # Unread
  /\ cache' = metrics[l]
  /\ LoadAt(l, "answer")
  /\ UNCHANGED <<truth, metrics, mine, page, dashboardFaults>>

Answers200(l) ==
  /\ load[l] = "answer"
  /\ Answered(l, metrics[l], FALSE)
  /\ UNCHANGED <<cache, dashboardFaults>>

LoadFails(l) ==
  /\ load[l] # "none"
  /\ dashboardFaults < MaxDashboardFaults
  /\ dashboardFaults' = dashboardFaults + 1
  /\ Answered(l, Nothing, TRUE)
  /\ UNCHANGED cache

\* The key lives CACHE_TTL_SECONDS.
CacheExpires ==
  /\ cache # Nothing
  /\ cache' = Nothing
  /\ UNCHANGED <<truth, load, metrics, mine, page, dashboardFaults>>

Proceeds(l) == GetsCache(l) \/ (\E t \in Tables : ReadsTable(l, t)) \/ SetsCache(l) \/ Answers200(l)

DashboardNext ==
  \/ \E t \in Tables : TableChanges(t)
  \/ Opens \/ Leaves \/ CacheExpires
  \/ \E l \in Loads : IntervalFires(l) \/ TokenRotates(l) \/ Proceeds(l) \/ LoadFails(l)

DashboardSpec == DashboardInit /\ [][DashboardNext]_dashboardVars

\* Handlers go on, the key's time passes, and the interval fires again.
DashboardFairness ==
  /\ \A l \in Loads : WF_dashboardVars(Proceeds(l))
  /\ WF_dashboardVars(CacheExpires)
  /\ WF_dashboardVars(\E l \in Loads : IntervalFires(l))
-----------------------------------------------------------------------------
DashboardTypeOK ==
  /\ truth \in [Tables -> 0..MaxChanges]
  /\ cache \in Metrics
  /\ load \in [Loads -> {"none", "get", "compute", "answer"}]
  /\ metrics \in [Loads -> Metrics]
  /\ mine \in [Loads -> BOOLEAN]
  /\ open \in BOOLEAN /\ failed \in BOOLEAN
  /\ shown \in Metrics
  /\ rotations \in 0..MaxRotations
  /\ dashboardFaults \in 0..MaxDashboardFaults

\* However slow computations write old metrics over newer ones and answers
\* overtake each other, a page that stays open ends up showing what is in the
\* tables, with no error beside it, once they no longer change.
DashboardCatchesUp == (<>[]open) => <>[](shown = truth /\ ~failed)
=============================================================================
