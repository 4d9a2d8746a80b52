----------------------------- MODULE TenantView -----------------------------
(***************************************************************************)
(* What one tenant can tell of the shared tables, the bucket and the audit *)
(* trail: its rows, its folder and its requests, as if the others and all  *)
(* that is theirs were not there.                                          *)
(***************************************************************************)
EXTENDS Records

CONSTANT Observer  \* the tenant

ASSUME ObserverAssumption == Observer \in Tenants

OwnOnly(t) == IF t = Observer THEN Observer ELSE NoId

SeenOwner == [i \in Ids |-> OwnOnly(owner[i])]
SeenLinked == [f \in Files |-> IF owner[f] = Observer THEN linked[f] ELSE NoId]
SeenGone == {i \in gone : owner[i] = Observer}
SeenObjects == [f \in Files |-> OwnOnly(objects[f])]
SeenAudit == {a \in audit : a.tenant = Observer}
SeenRequest == [r \in Requests |-> IF request[r].tenant = Observer THEN request[r] ELSE Idle]
SeenFaults == [t \in {Observer} |-> recordFaults[t]]

Alone == INSTANCE Records WITH
  Tenants <- {Observer}, owner <- SeenOwner, linked <- SeenLinked, gone <- SeenGone,
  objects <- SeenObjects, audit <- SeenAudit, request <- SeenRequest, recordFaults <- SeenFaults

\* Tenants do not notice each other: whatever the requests of the others are
\* sent, find, write and fail at, in any interleaving, all that a tenant reads
\* and all that becomes of its rows, files and trail could have happened in a
\* database it has to itself.  (It is Alone!RecordsSpec, in a form in which TLC
\* looks first whether the step is one the tenant does not see.)
TenantsAreApart ==
  Alone!RecordsInit
    /\ [][UNCHANGED Alone!recordVars \/ Alone!RecordsNext]_(Alone!recordVars)
=============================================================================
