------------------------------- MODULE Records -------------------------------
(***************************************************************************)
(* The rows that carriers, clients, attachments, webhooks and the audit    *)
(* trail keep for several tenants in the same tables, the bucket with the  *)
(* attached files, and the requests that read and write them.              *)
(*                                                                         *)
(* A request runs in the tenant of its token.  Each of its awaits is a     *)
(* step, so a row it found may have changed when it writes.  Columns that  *)
(* only carry data are left out; a document that is already taken is the   *)
(* refusal of `Refuses`.                                                   *)
(***************************************************************************)
EXTENDS Naturals, FiniteSets

CONSTANTS
  Requests,         \* requests at work at the same time
  Tenants,
  Signers,          \* who signs events: tenants with a webhookSecret, others
  Carriers, Clients, Files,  \* ids of the rows that may come to be
  MaxRecordFaults   \* bound: requests of a tenant that an error or a stop ends

NoId == "none"
Ids == Carriers \cup Clients \cup Files

ASSUME RecordsAssumption ==
  /\ Carriers \cap Clients = {} /\ Files \cap (Carriers \cup Clients) = {}
  /\ (Tenants \cup Signers) \cap Ids = {}
  /\ NoId \notin Tenants \cup Signers \cup Ids
  /\ MaxRecordFaults \in Nat

VARIABLES
  owner,    \* tenantId of a row; NoId while there is no such row
  linked,   \* entityId of an attachment
  gone,     \* rows with a deletedAt
  objects,  \* whose folder of the bucket the object of a file is in, or NoId
  audit,    \* the audit trail
  request,  \* the requests
  recordFaults  \* by tenant

rows == <<owner, linked, gone, objects, audit>>
recordVars == <<rows, request, recordFaults>>

\* Where the handler of an operation starts.
FirstStep == [create |-> "insert", update |-> "find", remove |-> "find",
              list |-> "find", upload |-> "find", download |-> "find",
              discard |-> "find", event |-> "find"]
Operation == DOMAIN FirstStep

\* `on` is the id in the URL or the body, or the one the handler made up;
\* `to` the entity of an upload, or who signed an event; `found` the rows the
\* handler has read and goes on to return or to write.
Idle == [op |-> "idle", step |-> "none", tenant |-> NoId, on |-> NoId,
         to |-> NoId, found |-> {}]

RecordsInit ==
  /\ owner = [i \in Ids |-> NoId]
  /\ linked = [f \in Files |-> NoId]
  /\ gone = {}
  /\ objects = [f \in Files |-> NoId]
  /\ audit = {}
  /\ request = [r \in Requests |-> Idle]
  /\ recordFaults = [t \in Tenants |-> 0]
-----------------------------------------------------------------------------
(* What the queries of a request see and write: applyTenantScope *)

Scoped(t, i) == owner[i] = t
\* Mutant: a query without the tenant's scope.
ExistingAnywhere(t, i) == owner[i] # NoId /\ i \notin gone

Existing(t, i) == Scoped(t, i) /\ i \notin gone

At(r, op, step) == request[r].op = op /\ request[r].step = step
Goes(r, step) == request' = [request EXCEPT ![r].step = step]
Ends(r) == request' = [request EXCEPT ![r] = Idle]
Log(action, t, i) == audit' = audit \cup {[action |-> action, tenant |-> t, id |-> i]}

\* findFirst and the handler's next step, or its NotFoundException.
Finds(r, i, step) ==
  IF Existing(request[r].tenant, i)
  THEN request' = [request EXCEPT ![r].found = {i}, ![r].step = step]
  ELSE Ends(r)

\* An id the database or randomUUID has not yet given to anything.
Unused(i) ==
  /\ owner[i] = NoId
  /\ i \in Files => objects[i] = NoId
  /\ \A r \in Requests : request[r].on # i
-----------------------------------------------------------------------------
\* A request arrives with the token of tenant t.
Arrives(r, op, t, on, to) ==
  /\ request[r] = Idle
  /\ request' = [request EXCEPT ![r] =
       [op |-> op, step |-> FirstStep[op], tenant |-> t, on |-> on, to |-> to, found |-> {}]]
  /\ UNCHANGED <<rows, recordFaults>>

\* The routes of carriers, clients and attachments; any id may be asked for.
Called(r, t) ==
  \/ Arrives(r, "create", t, NoId, NoId)
  \/ \E i \in Carriers \cup Clients, op \in {"update", "remove"} : Arrives(r, op, t, i, NoId)
  \/ Arrives(r, "list", t, NoId, NoId)
  \/ \E f \in Files : Unused(f) /\ \E i \in Carriers \cup Clients : Arrives(r, "upload", t, f, i)
  \/ \E f \in Files, op \in {"download", "discard"} : Arrives(r, op, t, f, NoId)

\* An event for the slug of t, signed with the secret of `signer`.
Delivered(r, t, signer) == Arrives(r, "event", t, NoId, signer)

Inserts(r, i) ==
  /\ At(r, "create", "insert")
  /\ Unused(i)
  /\ owner' = [owner EXCEPT ![i] = request[r].tenant]
  /\ request' = [request EXCEPT ![r].on = i, ![r].step = "trace"]
  /\ UNCHANGED <<linked, gone, objects, audit, recordFaults>>

InsertsCarrier(r) == \E i \in Carriers : Inserts(r, i)
InsertsClient(r) == \E i \in Clients : Inserts(r, i)

\* update and remove look for the row first.
FindsRow(r) ==
  /\ \/ At(r, "update", "find") /\ Finds(r, request[r].on, "write")
     \/ At(r, "remove", "find") /\ Finds(r, request[r].on, "mark")
  /\ UNCHANGED <<rows, recordFaults>>

\* The update filters the tenant again, but not deletedAt.
Writes(r) ==
  /\ At(r, "update", "write")
  /\ IF Scoped(request[r].tenant, request[r].on) THEN Goes(r, "trace") ELSE Ends(r)
  /\ UNCHANGED <<rows, recordFaults>>

\* Mutant: an updateMany that lost its where.
MarksEverything(r) ==
  /\ \/ At(r, "remove", "mark") /\ Goes(r, "log")
     \/ At(r, "discard", "mark") /\ Goes(r, "drop")
  /\ gone' = {i \in Ids : owner[i] # NoId}
  /\ UNCHANGED <<owner, linked, objects, audit, recordFaults>>

Marks(r) ==
  /\ \/ At(r, "remove", "mark") /\ Goes(r, "log")
     \/ At(r, "discard", "mark") /\ Goes(r, "drop")
  /\ Scoped(request[r].tenant, request[r].on)
  /\ gone' = gone \cup {request[r].on}
  /\ UNCHANGED <<owner, linked, objects, audit, recordFaults>>

\* findMany, then the count of another query; carriers, clients, attachments.
ListsPage(r) ==
  /\ At(r, "list", "find")
  /\ \E kind \in {Carriers, Clients, Files} :
       request' = [request EXCEPT ![r].step = "count",
                    ![r].found = {i \in kind : Existing(request[r].tenant, i)}]
  /\ UNCHANGED <<rows, recordFaults>>

\* Mutant: the row is written without the object.
FindsForFileUnstored(r) ==
  /\ \/ At(r, "upload", "find") /\ Finds(r, request[r].to, "attach")
     \/ At(r, "download", "find") /\ Finds(r, request[r].on, "sign")
     \/ At(r, "discard", "find") /\ Finds(r, request[r].on, "mark")
  /\ UNCHANGED <<rows, recordFaults>>

\* assertEntityExists and findOne of the attachments.
FindsForFile(r) ==
  /\ \/ At(r, "upload", "find") /\ Finds(r, request[r].to, "put")
     \/ At(r, "download", "find") /\ Finds(r, request[r].on, "sign")
     \/ At(r, "discard", "find") /\ Finds(r, request[r].on, "mark")
  /\ UNCHANGED <<rows, recordFaults>>

PutsObject(r) ==
  /\ At(r, "upload", "put")
  /\ objects' = [objects EXCEPT ![request[r].on] = request[r].tenant]
  /\ Goes(r, "attach")
  /\ UNCHANGED <<owner, linked, gone, audit, recordFaults>>

Attaches(r) ==
  /\ At(r, "upload", "attach")
  /\ owner' = [owner EXCEPT ![request[r].on] = request[r].tenant]
  /\ linked' = [linked EXCEPT ![request[r].on] = request[r].to]
  /\ Goes(r, "trace")
  /\ UNCHANGED <<gone, objects, audit, recordFaults>>

DropsObject(r) ==
  /\ At(r, "discard", "drop")
  /\ objects' = [objects EXCEPT ![request[r].on] = NoId]
  /\ Goes(r, "log")
  /\ UNCHANGED <<owner, linked, gone, audit, recordFaults>>

\* Mutant: a removal leaves no audit row.
LogsNothing(r) ==
  /\ request[r].op \in {"remove", "discard"} /\ request[r].step = "log"
  /\ Ends(r)
  /\ UNCHANGED <<rows, recordFaults>>

\* The audit row a removal writes itself.
LogsRemoval(r) ==
  /\ request[r].op \in {"remove", "discard"} /\ request[r].step = "log"
  /\ Log("removed", request[r].tenant, request[r].on)
  /\ Ends(r)
  /\ UNCHANGED <<owner, linked, gone, objects, recordFaults>>

\* recordMutation, which the interceptor starts when the handler returned and
\* does not await: the answer may be out before.
RecordsMutation(r) ==
  /\ request[r].step = "trace"
  /\ Log("mutation", request[r].tenant, request[r].on)
  /\ Ends(r)
  /\ UNCHANGED <<owner, linked, gone, objects, recordFaults>>

\* A listing's total is counted, a download's URL signed, without the bucket.
Returns(r) ==
  /\ request[r].step \in {"count", "sign"}
  /\ Ends(r)
  /\ UNCHANGED <<rows, recordFaults>>

\* The tenant of the slug has a secret, and the signature was made with it.
Verifies(r) ==
  /\ At(r, "event", "find")
  /\ IF request[r].tenant \in Signers /\ request[r].to = request[r].tenant THEN Goes(r, "log") ELSE Ends(r)
  /\ UNCHANGED <<rows, recordFaults>>

RecordsEvent(r) ==
  /\ At(r, "event", "log")
  /\ Log("event", request[r].tenant, request[r].to)
  /\ Ends(r)
  /\ UNCHANGED <<owner, linked, gone, objects, recordFaults>>

\* Validation, a document that is taken, a first await that rejects.
Refuses(r) ==
  /\ request[r].step \in {"insert", "find"}
  /\ Ends(r)
  /\ UNCHANGED <<rows, recordFaults>>

\* A later await rejects, or the process stops: no handler undoes a step.
GivesUp(r) ==
  /\ request[r].step \notin {"none", "insert", "find"}
  /\ recordFaults[request[r].tenant] < MaxRecordFaults
  /\ recordFaults' = [recordFaults EXCEPT ![request[r].tenant] = @ + 1]
  /\ Ends(r)
  /\ UNCHANGED rows

Handler(r) ==
  \/ InsertsCarrier(r) \/ InsertsClient(r) \/ FindsRow(r) \/ Writes(r) \/ Marks(r)
  \/ ListsPage(r) \/ FindsForFile(r) \/ PutsObject(r) \/ Attaches(r) \/ DropsObject(r)
  \/ LogsRemoval(r) \/ RecordsMutation(r) \/ Returns(r) \/ Verifies(r) \/ RecordsEvent(r)
  \/ Refuses(r) \/ GivesUp(r)

RecordsNext == \E r \in Requests :
  \/ \E t \in Tenants : Called(r, t) \/ \E signer \in Signers : Delivered(r, t, signer)
  \/ Handler(r)

RecordsSpec == RecordsInit /\ [][RecordsNext]_recordVars
-----------------------------------------------------------------------------
Request == [op : Operation \cup {"idle"},
            step : {"none", "insert", "find", "write", "mark", "count", "put", "attach",
                    "drop", "log", "trace", "sign"},
            tenant : Tenants \cup {NoId}, on : Ids \cup {NoId},
            to : Carriers \cup Clients \cup Signers \cup {NoId}, found : SUBSET Ids]
AuditRow == [action : {"removed", "mutation", "event"}, tenant : Tenants, id : Tenants \cup Ids]

RecordsTypeOK ==
  /\ owner \in [Ids -> Tenants \cup {NoId}]
  /\ linked \in [Files -> Carriers \cup Clients \cup {NoId}]
  /\ gone \in SUBSET Ids
  /\ objects \in [Files -> Tenants \cup {NoId}]
  /\ audit \in SUBSET AuditRow
  /\ request \in [Requests -> Request]
  /\ recordFaults \in [Tenants -> 0..MaxRecordFaults]

\* No request reads, links or logs across tenants, whichever ids it is sent
\* and however it interleaves with others: what a handler has found is its
\* tenant's, a file hangs on an entity of its own tenant, and an audit row is
\* kept where its subject, a row or the signer of an event, belongs.
RecordsInTenant ==
  /\ \A r \in Requests : \A i \in request[r].found : owner[i] = request[r].tenant
  /\ \A f \in Files : linked[f] # NoId => owner[linked[f]] = owner[f]
  /\ \A a \in audit : a.tenant = IF a.id \in Tenants THEN a.id ELSE owner[a.id]

\* A listed attachment can be downloaded, whatever failed before; an object
\* without one is on its way in or out by a request of its tenant, or was left
\* behind by one that failed.
FilesAreAccountedFor == \A f \in Files :
  /\ owner[f] # NoId /\ f \notin gone => objects[f] = owner[f]
  /\ objects[f] # NoId =>
       \/ owner[f] = objects[f] /\ f \notin gone
       \/ \E r \in Requests : request[r].on = f /\ request[r].tenant = objects[f]
       \/ recordFaults[objects[f]] > 0

\* Every row that was created and every row that was removed has its audit
\* row, or a request that is about to write it: also when two requests remove
\* it together, and whatever fails for other tenants.
Logged(action, i) ==
  \/ [action |-> action, tenant |-> owner[i], id |-> i] \in audit
  \/ \E r \in Requests : request[r].on = i /\ request[r].step \in {"drop", "log", "trace"}
ChangesLeaveTrace == \A i \in Ids :
  owner[i] # NoId /\ recordFaults[owner[i]] = 0 =>
    /\ Logged("mutation", i)
    /\ i \in gone => Logged("removed", i)
=============================================================================
