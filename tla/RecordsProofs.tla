---------------------------- MODULE RecordsProofs ----------------------------
(***************************************************************************)
(* Proofs about Records, for any number of requests, tenants and rows.     *)
(***************************************************************************)
EXTENDS TenantView, TLAPS

\* What an operator that changes one request leaves.
LEMMA RequestChanges ==
  ASSUME request \in [Requests -> Request], NEW r \in Requests, NEW q \in Request,
         request' = [request EXCEPT ![r] = q]
  PROVE  /\ request' \in [Requests -> Request]
         /\ request'[r] = q
         /\ \A o \in Requests \ {r} : request'[o] = request[o]
OBVIOUS

LEMMA IdleRequest == Idle \in Request
BY DEF Idle, Request

LEMMA RequestEnds ==
  ASSUME request \in [Requests -> Request], NEW r \in Requests, Ends(r)
  PROVE  /\ request' \in [Requests -> Request]
         /\ request'[r] = Idle
         /\ \A o \in Requests \ {r} : request'[o] = request[o]
BY IdleRequest DEF Ends

Steps == {"none", "insert", "find", "write", "mark", "count", "put", "attach",
          "drop", "log", "trace", "sign"}

LEMMA RequestGoes ==
  ASSUME request \in [Requests -> Request], NEW r \in Requests, NEW s \in Steps, Goes(r, s)
  PROVE  /\ request' \in [Requests -> Request]
         /\ request'[r].step = s
         /\ request'[r].op = request[r].op /\ request'[r].tenant = request[r].tenant
         /\ request'[r].on = request[r].on /\ request'[r].to = request[r].to
         /\ request'[r].found = request[r].found
         /\ \A o \in Requests \ {r} : request'[o] = request[o]
<1> DEFINE q == [request[r] EXCEPT !.step = s]
<1>1. q \in Request
  BY DEF Request, Steps
<1>2. request' = [request EXCEPT ![r] = q]
  BY DEF Goes
<1> QED BY <1>1, <1>2, RequestChanges DEF Request

LEMMA RequestFinds ==
  ASSUME request \in [Requests -> Request], NEW r \in Requests, NEW s \in Steps,
         NEW found \in SUBSET Ids,
         request' = [request EXCEPT ![r].found = found, ![r].step = s]
  PROVE  /\ request' \in [Requests -> Request]
         /\ request'[r].step = s /\ request'[r].found = found
         /\ request'[r].op = request[r].op /\ request'[r].tenant = request[r].tenant
         /\ request'[r].on = request[r].on /\ request'[r].to = request[r].to
         /\ \A o \in Requests \ {r} : request'[o] = request[o]
<1> DEFINE q == [request[r] EXCEPT !.found = found, !.step = s]
<1>1. q \in Request
  BY DEF Request, Steps
<1>2. request' = [request EXCEPT ![r] = q]
  OBVIOUS
<1> QED BY <1>1, <1>2, RequestChanges DEF Request

LEMMA RequestLists ==
  ASSUME request \in [Requests -> Request], NEW r \in Requests, NEW found \in SUBSET Ids,
         request' = [request EXCEPT ![r].step = "count", ![r].found = found]
  PROVE  /\ request' \in [Requests -> Request]
         /\ request'[r].step = "count" /\ request'[r].found = found
         /\ request'[r].op = request[r].op /\ request'[r].tenant = request[r].tenant
         /\ \A o \in Requests \ {r} : request'[o] = request[o]
<1> DEFINE q == [request[r] EXCEPT !.step = "count", !.found = found]
<1>1. q \in Request
  BY DEF Request
<1>2. request' = [request EXCEPT ![r] = q]
  OBVIOUS
<1> QED BY <1>1, <1>2, RequestChanges DEF Request

LEMMA RequestInserts ==
  ASSUME request \in [Requests -> Request], NEW r \in Requests, NEW i \in Ids,
         request' = [request EXCEPT ![r].on = i, ![r].step = "trace"]
  PROVE  /\ request' \in [Requests -> Request]
         /\ request'[r].step = "trace" /\ request'[r].on = i
         /\ request'[r].op = request[r].op /\ request'[r].tenant = request[r].tenant
         /\ request'[r].to = request[r].to /\ request'[r].found = request[r].found
         /\ \A o \in Requests \ {r} : request'[o] = request[o]
<1> DEFINE q == [request[r] EXCEPT !.on = i, !.step = "trace"]
<1>1. q \in Request
  BY DEF Request
<1>2. request' = [request EXCEPT ![r] = q]
  OBVIOUS
<1> QED BY <1>1, <1>2, RequestChanges DEF Request
-----------------------------------------------------------------------------
(* What a request stands for *)

\* An upload whose row is not stored.
Early(r) == request[r].op = "upload" /\ request[r].step \in {"find", "put", "attach"}

RequestBook(r) ==
  /\ request[r].op = "idle" => request[r].step = "none" /\ request[r].found = {}
  /\ request[r].op # "idle" => request[r].tenant \in Tenants
  /\ request[r].op \in {"update", "remove"} => request[r].on \in Carriers \cup Clients
  /\ request[r].op \in {"upload", "download", "discard"} => request[r].on \in Files
  /\ request[r].op = "upload" => request[r].to \in Carriers \cup Clients
  /\ Early(r) => owner[request[r].on] = NoId
  /\ request[r].op = "upload" /\ request[r].step \in {"put", "attach"}
       => request[r].to \in request[r].found
  /\ request[r].op = "upload" /\ request[r].step \in {"find", "put"} => objects[request[r].on] = NoId
  /\ request[r].op = "upload" /\ request[r].step = "attach"
       => objects[request[r].on] = request[r].tenant
  /\ request[r].op # "event" /\ request[r].step \in {"mark", "drop", "log", "trace"}
       => request[r].on \in Ids /\ owner[request[r].on] = request[r].tenant
  /\ request[r].op = "discard" /\ request[r].step \in {"drop", "log"} => request[r].on \in gone
  /\ request[r].op = "event" => request[r].step \in {"find", "log"}
  /\ request[r].op = "event" /\ request[r].step = "log" => request[r].to = request[r].tenant
  /\ \A i \in request[r].found : owner[i] = request[r].tenant

\* An id is made up once.
UploadsDiffer == \A r \in Requests : \A o \in Requests \ {r} :
  Early(r) /\ Early(o) => request[r].on # request[o].on

\* What is attached or removed exists.
RowsBook ==
  /\ \A f \in Files : linked[f] # NoId => owner[f] # NoId
  /\ \A i \in gone : owner[i] # NoId
  /\ \A f \in Files : owner[f] # NoId => objects[f] \in {NoId, owner[f]}

RecordsBook == (\A r \in Requests : RequestBook(r)) /\ UploadsDiffer /\ RowsBook

\* The rows only come to be, and are only marked; `i` is the one that does.
Grows(i) ==
  /\ owner' \in [Ids -> Tenants \cup {NoId}]
  /\ \A j \in Ids \ {i} : owner'[j] = owner[j]
  /\ owner[i] # NoId => owner'[i] = owner[i]
  /\ gone \subseteq gone'

\* A request that another leaves alone.
LEMMA RequestIsKept ==
  ASSUME RecordsAssumption, RecordsTypeOK, NEW o \in Requests, RequestBook(o),
         request'[o] = request[o], NEW i \in Ids \cup {NoId}, Grows(i),
         Early(o) /\ request[o].on = i => owner'[i] = NoId,
         Early(o) => objects'[request[o].on] = objects[request[o].on]
  PROVE  RequestBook(o)'
<1> USE DEF RecordsAssumption, Grows
<1>0. request[o] \in Request
  BY DEF RecordsTypeOK
<1>1. request[o].found \in SUBSET Ids /\ request[o].on \in Ids \cup {NoId}
  BY <1>0 DEF Request
<1>2. \A j \in Ids : owner[j] \in Tenants => owner'[j] = owner[j]
  BY DEF RecordsTypeOK
<1>3. Early(o) => owner'[request[o].on] = NoId
  BY DEF RequestBook, Early, Ids
<1>4. \A j \in request[o].found : owner'[j] = request[o].tenant
  BY <1>1, <1>2 DEF RequestBook
<1>5. request[o].op # "event" /\ request[o].step \in {"mark", "drop", "log", "trace"}
        => request[o].on \in Ids /\ owner'[request[o].on] = request[o].tenant
  BY <1>2 DEF RequestBook
<1> QED BY <1>3, <1>4, <1>5 DEF RequestBook, Early

\* An upload is an old one, or one with an id nobody uses.
MadeUp(r) == Early(r)' => \/ Early(r) /\ request'[r].on = request[r].on
                          \/ \A o \in Requests : request[o].on # request'[r].on

LEMMA UploadsKeepDiffering ==
  ASSUME NEW r \in Requests, UploadsDiffer, MadeUp(r),
         \A o \in Requests \ {r} : request'[o] = request[o]
  PROVE  UploadsDiffer'
BY DEF UploadsDiffer, MadeUp, Early

\* A step of one request that touches no row.
LEMMA RowsAreKept ==
  ASSUME RecordsAssumption, RecordsTypeOK, RecordsBook, NEW r \in Requests, UNCHANGED rows,
         request' \in [Requests -> Request], recordFaults' \in [Tenants -> 0..MaxRecordFaults],
         \A o \in Requests \ {r} : request'[o] = request[o],
         RequestBook(r)', MadeUp(r)
  PROVE  RecordsTypeOK' /\ RecordsBook'
<1>1. RecordsTypeOK'
  BY DEF RecordsTypeOK, rows
<1>2. ASSUME NEW o \in Requests \ {r} PROVE RequestBook(o)'
  BY <1>2 DEF RecordsBook, RequestBook, Early, rows
<1>3. UploadsDiffer' /\ RowsBook'
  BY UploadsKeepDiffering DEF RecordsBook, RowsBook, rows
<1> QED BY <1>1, <1>2, <1>3 DEF RecordsBook

LEMMA AnyRequestEnds ==
  ASSUME RecordsAssumption, RecordsTypeOK, RecordsBook, NEW r \in Requests, UNCHANGED rows,
         recordFaults' \in [Tenants -> 0..MaxRecordFaults], Ends(r)
  PROVE  RecordsTypeOK' /\ RecordsBook'
<1>1. /\ request' \in [Requests -> Request] /\ request'[r] = Idle
      /\ \A o \in Requests \ {r} : request'[o] = request[o]
  BY RequestEnds DEF RecordsTypeOK
<1>2. RequestBook(r)' /\ MadeUp(r)
  BY <1>1 DEF RequestBook, Early, Idle, MadeUp
<1> QED BY <1>1, <1>2, RowsAreKept

LEMMA RequestArrives ==
  ASSUME RecordsAssumption, RecordsTypeOK, RecordsBook, NEW r \in Requests,
         NEW op \in Operation, NEW t \in Tenants, NEW on \in Ids \cup {NoId},
         NEW to \in Carriers \cup Clients \cup Signers \cup {NoId}, Arrives(r, op, t, on, to),
         op \in {"update", "remove"} => on \in Carriers \cup Clients,
         op \in {"upload", "download", "discard"} => on \in Files,
         op = "upload" => to \in Carriers \cup Clients /\ Unused(on)
  PROVE  RecordsTypeOK' /\ RecordsBook'
<1> DEFINE q == [op |-> op, step |-> FirstStep[op], tenant |-> t, on |-> on, to |-> to, found |-> {}]
<1>1. /\ FirstStep[op] \in {"insert", "find"} /\ op # "idle"
      /\ FirstStep[op] = "insert" <=> op = "create"
  BY DEF FirstStep, Operation
<1>2. q \in Request
  BY <1>1 DEF Request
<1>3. request' = [request EXCEPT ![r] = q] /\ UNCHANGED rows /\ UNCHANGED recordFaults
  BY DEF Arrives
<1> HIDE DEF q
<1>4. /\ request' \in [Requests -> Request] /\ request'[r] = q
      /\ \A o \in Requests \ {r} : request'[o] = request[o]
  BY <1>2, <1>3, RequestChanges DEF RecordsTypeOK
<1>5. /\ q.op = op /\ q.step = FirstStep[op] /\ q.tenant = t /\ q.on = on /\ q.to = to /\ q.found = {}
  BY DEF q
<1>6. RequestBook(r)'
  BY <1>1, <1>3, <1>4, <1>5 DEF RequestBook, Early, rows, Unused
<1>7. MadeUp(r)
  BY <1>4, <1>5 DEF MadeUp, Early, Unused
<1>8. recordFaults' \in [Tenants -> 0..MaxRecordFaults]
  BY <1>3 DEF RecordsTypeOK
<1> QED BY <1>3, <1>4, <1>6, <1>7, <1>8, RowsAreKept

LEMMA CallArrives ==
  ASSUME RecordsTypeOK, RecordsBook, NEW r \in Requests, NEW t \in Tenants,
         Called(r, t) \/ \E signer \in Signers : Delivered(r, t, signer)
  PROVE  RecordsTypeOK' /\ RecordsBook'
<1> USE RecordsAssumption
<1> DEFINE Held == RecordsTypeOK' /\ RecordsBook'
<1>0. Operation = {"create", "update", "remove", "list", "upload", "download", "discard", "event"}
  BY DEF Operation, FirstStep
<1>1. CASE Arrives(r, "create", t, NoId, NoId) \/ Arrives(r, "list", t, NoId, NoId)
  BY <1>0, <1>1, RequestArrives
<1>2. ASSUME NEW i \in Carriers \cup Clients, NEW op \in {"update", "remove"}, Arrives(r, op, t, i, NoId)
      PROVE  Held
  BY <1>0, <1>2, RequestArrives DEF Ids
<1>3. ASSUME NEW f \in Files, Unused(f), NEW i \in Carriers \cup Clients, Arrives(r, "upload", t, f, i)
      PROVE  Held
  BY <1>0, <1>3, RequestArrives DEF Ids
<1>4. ASSUME NEW f \in Files, NEW op \in {"download", "discard"}, Arrives(r, op, t, f, NoId)
      PROVE  Held
  BY <1>0, <1>4, RequestArrives DEF Ids
<1>5. ASSUME NEW signer \in Signers, Delivered(r, t, signer) PROVE Held
  BY <1>0, <1>5, RequestArrives DEF Delivered
<1> QED BY <1>1, <1>2, <1>3, <1>4, <1>5 DEF Called

\* A handler that goes from reading to another step, or ends.
LEMMA HandlerFinds ==
  ASSUME RecordsTypeOK, RecordsBook, NEW r \in Requests, NEW i \in Ids, NEW s \in Steps,
         Finds(r, i, s), request[r].step = "find", UNCHANGED rows, UNCHANGED recordFaults,
         \/ request[r].op \in {"update", "remove", "download", "discard"} /\ i = request[r].on
            /\ s \in {"write", "mark", "sign"}
         \/ request[r].op = "upload" /\ i = request[r].to /\ s = "put"
  PROVE  RecordsTypeOK' /\ RecordsBook'
<1> USE RecordsAssumption
<1>0. recordFaults' \in [Tenants -> 0..MaxRecordFaults]
  BY DEF RecordsTypeOK
<1>1. CASE ~Existing(request[r].tenant, i)
  BY <1>0, <1>1, AnyRequestEnds DEF Finds
<1>2. CASE Existing(request[r].tenant, i)
  <2>1. /\ request' \in [Requests -> Request]
        /\ request'[r].step = s /\ request'[r].found = {i}
        /\ request'[r].op = request[r].op /\ request'[r].tenant = request[r].tenant
        /\ request'[r].on = request[r].on /\ request'[r].to = request[r].to
        /\ \A o \in Requests \ {r} : request'[o] = request[o]
    <3>1. {i} \in SUBSET Ids /\ request \in [Requests -> Request]
      BY DEF RecordsTypeOK
    <3>2. request' = [request EXCEPT ![r].found = {i}, ![r].step = s]
      BY <1>2 DEF Finds
    <3> QED BY <3>1, <3>2, RequestFinds
  <2>2. RequestBook(r)'
    BY <1>2, <2>1 DEF RecordsBook, RequestBook, Early, Existing, Scoped, rows
  <2>3. MadeUp(r)
    BY <2>1 DEF MadeUp, Early
  <2> QED BY <1>0, <2>1, <2>2, <2>3, RowsAreKept
<1> QED BY <1>1, <1>2

LEMMA FindsHold ==
  ASSUME RecordsTypeOK, RecordsBook, NEW r \in Requests, FindsRow(r) \/ FindsForFile(r)
  PROVE  RecordsTypeOK' /\ RecordsBook'
<1> USE RecordsAssumption DEF At, Steps, Ids
<1>0. RequestBook(r)
  BY DEF RecordsBook
<1>1. CASE FindsRow(r)
  <2>1. CASE At(r, "update", "find") /\ Finds(r, request[r].on, "write")
    BY <1>0, <1>1, <2>1, HandlerFinds DEF FindsRow, RequestBook
  <2>2. CASE At(r, "remove", "find") /\ Finds(r, request[r].on, "mark")
    BY <1>0, <1>1, <2>2, HandlerFinds DEF FindsRow, RequestBook
  <2> QED BY <1>1, <2>1, <2>2 DEF FindsRow
<1>2. CASE FindsForFile(r)
  <2>1. CASE At(r, "upload", "find") /\ Finds(r, request[r].to, "put")
    BY <1>0, <1>2, <2>1, HandlerFinds DEF FindsForFile, RequestBook
  <2>2. CASE At(r, "download", "find") /\ Finds(r, request[r].on, "sign")
    BY <1>0, <1>2, <2>2, HandlerFinds DEF FindsForFile, RequestBook
  <2>3. CASE At(r, "discard", "find") /\ Finds(r, request[r].on, "mark")
    BY <1>0, <1>2, <2>3, HandlerFinds DEF FindsForFile, RequestBook
  <2> QED BY <1>2, <2>1, <2>2, <2>3 DEF FindsForFile
<1> QED BY <1>1, <1>2

LEMMA StepsHold ==
  ASSUME RecordsTypeOK, RecordsBook, NEW r \in Requests,
         Writes(r) \/ ListsPage(r) \/ Returns(r) \/ Verifies(r) \/ Refuses(r) \/ GivesUp(r)
  PROVE  RecordsTypeOK' /\ RecordsBook'
<1> USE RecordsAssumption
<1>0. RequestBook(r) /\ request \in [Requests -> Request] /\ recordFaults \in [Tenants -> 0..MaxRecordFaults]
  BY DEF RecordsBook, RecordsTypeOK
<1> DEFINE Held == RecordsTypeOK' /\ RecordsBook'
<1>1. ASSUME Ends(r), UNCHANGED rows, recordFaults' \in [Tenants -> 0..MaxRecordFaults] PROVE Held
  BY <1>1, AnyRequestEnds
<1>2. CASE Writes(r)
  <2>1. UNCHANGED rows /\ recordFaults' \in [Tenants -> 0..MaxRecordFaults]
    BY <1>0, <1>2 DEF Writes
  <2>2. CASE Scoped(request[r].tenant, request[r].on)
    <3>1. Goes(r, "trace") /\ request[r].op = "update" /\ "trace" \in Steps
      BY <1>2, <2>2 DEF Writes, At, Steps
    <3>2. RequestBook(r)' /\ MadeUp(r)
      BY <1>0, <2>1, <2>2, <3>1, RequestGoes DEF RequestBook, Early, Scoped, rows, Ids, MadeUp
    <3> QED BY <1>0, <2>1, <3>1, <3>2, RequestGoes, RowsAreKept
  <2> QED BY <1>1, <1>2, <2>1, <2>2 DEF Writes
<1>3. ASSUME ListsPage(r) PROVE Held
  <2>1. PICK kind \in {Carriers, Clients, Files} :
          request' = [request EXCEPT ![r].step = "count",
                        ![r].found = {i \in kind : Existing(request[r].tenant, i)}]
    BY <1>3 DEF ListsPage
  <2>2. request[r].op = "list" /\ UNCHANGED rows /\ recordFaults' \in [Tenants -> 0..MaxRecordFaults]
    BY <1>0, <1>3 DEF ListsPage, At
  <2> DEFINE page == {i \in kind : Existing(request[r].tenant, i)}
  <2>3. page \in SUBSET Ids /\ \A i \in page : owner[i] = request[r].tenant
    BY DEF Ids, Existing, Scoped
  <2>4. request' = [request EXCEPT ![r].step = "count", ![r].found = page]
    BY <2>1
  <2> HIDE DEF page
  <2>5. /\ request' \in [Requests -> Request]
        /\ request'[r].step = "count" /\ request'[r].found = page
        /\ request'[r].op = request[r].op /\ request'[r].tenant = request[r].tenant
        /\ \A o \in Requests \ {r} : request'[o] = request[o]
    BY <1>0, <2>3, <2>4, RequestLists
  <2>6. RequestBook(r)' /\ MadeUp(r)
    BY <1>0, <2>2, <2>3, <2>5 DEF RequestBook, Early, rows, MadeUp
  <2> QED BY <2>2, <2>5, <2>6, RowsAreKept
<1>4. CASE Returns(r)
  BY <1>0, <1>1, <1>4 DEF Returns
<1>5. CASE Verifies(r)
  <2>1. UNCHANGED rows /\ recordFaults' \in [Tenants -> 0..MaxRecordFaults]
    BY <1>0, <1>5 DEF Verifies
  <2>2. CASE request[r].tenant \in Signers /\ request[r].to = request[r].tenant
    <3>1. Goes(r, "log") /\ request[r].op = "event" /\ "log" \in Steps
      BY <1>5, <2>2 DEF Verifies, At, Steps
    <3>2. RequestBook(r)' /\ MadeUp(r)
      BY <1>0, <2>1, <2>2, <3>1, RequestGoes DEF RequestBook, Early, rows, MadeUp
    <3> QED BY <1>0, <2>1, <3>1, <3>2, RequestGoes, RowsAreKept
  <2> QED BY <1>1, <1>5, <2>1, <2>2 DEF Verifies
<1>6. CASE Refuses(r)
  BY <1>0, <1>1, <1>6 DEF Refuses
<1>7. CASE GivesUp(r)
  <2>1. Ends(r) /\ UNCHANGED rows /\ request[r].tenant \in Tenants
    BY <1>0, <1>7 DEF GivesUp, RequestBook
  <2>2. recordFaults[request[r].tenant] + 1 \in 0..MaxRecordFaults
    BY <1>0, <1>7, <2>1 DEF GivesUp
  <2>3. recordFaults' \in [Tenants -> 0..MaxRecordFaults]
    BY <1>0, <1>7, <2>1, <2>2 DEF GivesUp
  <2> QED BY <1>1, <2>1, <2>3
<1> QED BY <1>2, <1>3, <1>4, <1>5, <1>6, <1>7

LEMMA RowComesToBe ==
  ASSUME RecordsTypeOK, RecordsBook, NEW r \in Requests,
         InsertsCarrier(r) \/ InsertsClient(r) \/ Attaches(r)
  PROVE  RecordsTypeOK' /\ RecordsBook'
<1> USE RecordsAssumption
<1>0. /\ RequestBook(r) /\ request \in [Requests -> Request] /\ request[r] \in Request
      /\ owner \in [Ids -> Tenants \cup {NoId}] /\ recordFaults \in [Tenants -> 0..MaxRecordFaults]
      /\ linked \in [Files -> Carriers \cup Clients \cup {NoId}]
      /\ UploadsDiffer /\ RowsBook
  BY DEF RecordsBook, RecordsTypeOK
<1>1. ASSUME NEW i \in Carriers \cup Clients, Inserts(r, i) PROVE RecordsTypeOK' /\ RecordsBook'
  <2>0. i \in Ids /\ i \notin Files
    BY DEF Ids
  <2>1. /\ request[r].op = "create" /\ owner[i] = NoId /\ request[r].tenant \in Tenants
        /\ owner' = [owner EXCEPT ![i] = request[r].tenant]
        /\ UNCHANGED <<linked, gone, objects, audit, recordFaults>>
    BY <1>0, <1>1 DEF Inserts, At, Unused, RequestBook
  <2>2. /\ request' \in [Requests -> Request]
        /\ request'[r].step = "trace" /\ request'[r].on = i
        /\ request'[r].op = request[r].op /\ request'[r].tenant = request[r].tenant
        /\ request'[r].found = request[r].found
        /\ \A o \in Requests \ {r} : request'[o] = request[o]
    BY <1>0, <1>1, <2>0, RequestInserts DEF Inserts
  <2>3. Grows(i)
    BY <1>0, <2>0, <2>1 DEF Grows
  <2>4. ASSUME NEW o \in Requests \ {r} PROVE RequestBook(o)'
    <3>1. RequestBook(o)
      BY DEF RecordsBook
    <3>2. request[o].op = "upload" => request[o].on # i
      BY <2>0, <3>1 DEF RequestBook
    <3> QED BY <2>0, <2>1, <2>2, <2>3, <3>1, <3>2, RequestIsKept DEF Early, RequestBook
  <2>5. RequestBook(r)'
    <3>1. \A j \in request'[r].found : owner'[j] = request'[r].tenant
      BY <1>0, <2>0, <2>1, <2>2 DEF RequestBook, Request
    <3> QED BY <1>0, <2>0, <2>1, <2>2, <3>1 DEF RequestBook, Early
  <2>6. UploadsDiffer'
    BY <1>0, <2>1, <2>2, UploadsKeepDiffering DEF MadeUp, Early
  <2>7. RowsBook'
    BY <1>0, <2>0, <2>1 DEF RowsBook, RecordsTypeOK, Ids
  <2>8. RecordsTypeOK'
    BY <1>0, <2>0, <2>1, <2>2 DEF RecordsTypeOK
  <2> QED BY <2>4, <2>5, <2>6, <2>7, <2>8 DEF RecordsBook
<1>2. CASE Attaches(r)
  <2> DEFINE f == request[r].on
  <2>0. f \in Files /\ f \in Ids /\ owner[f] = NoId /\ request[r].op = "upload" /\ request[r].step = "attach"
        /\ request[r].to \in Carriers \cup Clients /\ request[r].tenant \in Tenants
    BY <1>0, <1>2 DEF Attaches, At, RequestBook, Early, Ids
  <2>1. /\ owner' = [owner EXCEPT ![f] = request[r].tenant]
        /\ linked' = [linked EXCEPT ![f] = request[r].to]
        /\ UNCHANGED <<gone, objects, audit, recordFaults>> /\ Goes(r, "trace") /\ "trace" \in Steps
    BY <1>2 DEF Attaches, Steps
  <2>2. /\ request' \in [Requests -> Request]
        /\ request'[r].step = "trace" /\ request'[r].on = f /\ request'[r].to = request[r].to
        /\ request'[r].op = request[r].op /\ request'[r].tenant = request[r].tenant
        /\ request'[r].found = request[r].found
        /\ \A o \in Requests \ {r} : request'[o] = request[o]
    BY <1>0, <2>1, RequestGoes
  <2> HIDE DEF f
  <2>3. Grows(f)
    BY <1>0, <2>0, <2>1 DEF Grows
  <2>4. ASSUME NEW o \in Requests \ {r} PROVE RequestBook(o)'
    <3>1. RequestBook(o)
      BY DEF RecordsBook
    <3>2. Early(o) => request[o].on # f
      BY <1>0, <2>0 DEF UploadsDiffer, Early, f
    <3> QED BY <2>0, <2>1, <2>2, <2>3, <3>1, <3>2, RequestIsKept DEF Early, RequestBook
  <2>5. RequestBook(r)'
    <3>1. \A j \in request'[r].found : owner'[j] = request'[r].tenant
      BY <1>0, <2>0, <2>1, <2>2 DEF RequestBook, Request
    <3> QED BY <1>0, <2>0, <2>1, <2>2, <3>1 DEF RequestBook, Early
  <2>6. UploadsDiffer'
    BY <1>0, <2>1, <2>2, UploadsKeepDiffering DEF MadeUp, Early
  <2>7. RowsBook'
    <3>1. objects[f] = request[r].tenant /\ owner'[f] = request[r].tenant
      BY <1>0, <2>0, <2>1 DEF RequestBook, f
    <3>2. \A g \in Files : g # f => owner'[g] = owner[g] /\ linked'[g] = linked[g]
      BY <1>0, <2>0, <2>1 DEF Ids
    <3> QED BY <1>0, <2>0, <2>1, <3>1, <3>2 DEF RowsBook, RecordsTypeOK, Ids
  <2>8. RecordsTypeOK'
    BY <1>0, <2>0, <2>1, <2>2 DEF RecordsTypeOK
  <2> QED BY <2>4, <2>5, <2>6, <2>7, <2>8 DEF RecordsBook
<1> QED BY <1>1, <1>2 DEF InsertsCarrier, InsertsClient

LEMMA RowChanges ==
  ASSUME RecordsTypeOK, RecordsBook, NEW r \in Requests,
         Marks(r) \/ PutsObject(r) \/ DropsObject(r)
  PROVE  RecordsTypeOK' /\ RecordsBook'
<1> USE RecordsAssumption
<1>0. /\ RequestBook(r) /\ request \in [Requests -> Request] /\ request[r] \in Request
      /\ UploadsDiffer /\ RowsBook
  BY DEF RecordsBook, RecordsTypeOK
<1> DEFINE i == request[r].on
<1>1. PICK s \in {"log", "drop", "attach"} : Goes(r, s)
  BY DEF Marks, PutsObject, DropsObject
<1>2. /\ request' \in [Requests -> Request]
      /\ request'[r].step = s /\ request'[r].on = i /\ request'[r].to = request[r].to
      /\ request'[r].op = request[r].op /\ request'[r].tenant = request[r].tenant
      /\ request'[r].found = request[r].found
      /\ \A o \in Requests \ {r} : request'[o] = request[o]
  BY <1>0, <1>1, RequestGoes DEF Steps
<1>3. UNCHANGED <<owner, linked, audit, recordFaults>> /\ gone \subseteq gone'
  BY DEF Marks, PutsObject, DropsObject
<1>4. i \in Ids
  BY <1>0 DEF Marks, PutsObject, DropsObject, At, RequestBook, Ids
<1>5. objects' \in [Files -> Tenants \cup {NoId}] /\ gone' \in SUBSET Ids
  BY <1>0, <1>4 DEF Marks, PutsObject, DropsObject, At, RequestBook, RecordsTypeOK
<1>6. RecordsTypeOK'
  BY <1>2, <1>3, <1>5 DEF RecordsTypeOK
<1>7. \A j \in gone' : owner[j] # NoId
  BY <1>0, <1>4 DEF Marks, PutsObject, DropsObject, At, RequestBook, RowsBook, Scoped
<1>8. RequestBook(r)'
  <2>1. CASE Marks(r)
    <3>1. s = IF request[r].op = "remove" THEN "log" ELSE "drop"
      BY <1>0, <1>2, <2>1, RequestGoes DEF Marks, At, Steps
    <3>2. /\ request[r].op \in {"remove", "discard"} /\ owner[i] = request[r].tenant
          /\ i \in gone'
      BY <2>1 DEF Marks, At, Scoped
    <3> QED BY <1>0, <1>2, <1>3, <1>4, <3>1, <3>2 DEF RequestBook, Early
  <2>2. CASE PutsObject(r)
    <3>1. s = "attach"
      BY <1>0, <1>2, <2>2, RequestGoes DEF PutsObject, At, Steps
    <3>2. /\ request[r].op = "upload" /\ request[r].step = "put" /\ i \in Files
          /\ objects' = [objects EXCEPT ![i] = request[r].tenant]
      BY <1>0, <2>2 DEF PutsObject, At, RequestBook
    <3>3. objects'[i] = request[r].tenant
      BY <3>2 DEF RecordsTypeOK
    <3> QED BY <3>3, <1>0, <1>2, <1>3, <1>4, <3>1, <3>2 DEF RequestBook, Early
  <2>3. CASE DropsObject(r)
    <3>1. s = "log"
      BY <1>0, <1>2, <2>3, RequestGoes DEF DropsObject, At, Steps
    <3>2. /\ request[r].op = "discard" /\ request[r].step = "drop" /\ UNCHANGED gone
      BY <2>3 DEF DropsObject, At
    <3> QED BY <1>0, <1>2, <1>3, <1>4, <3>1, <3>2 DEF RequestBook, Early
  <2> QED BY <2>1, <2>2, <2>3
<1>9. ASSUME NEW o \in Requests \ {r} PROVE RequestBook(o)'
  <2>1. RequestBook(o) /\ Grows(i)
    BY <1>3 DEF RecordsBook, Grows, RecordsTypeOK
  <2>2. Early(o) => objects'[request[o].on] = objects[request[o].on]
    <3>1. CASE DropsObject(r)
      <4>1. owner[i] = request[r].tenant /\ request[r].tenant \in Tenants /\ objects' = [objects EXCEPT ![i] = NoId]
        BY <1>0, <3>1 DEF DropsObject, At, RequestBook
      <4> QED BY <2>1, <4>1 DEF RequestBook, Early
    <3>2. CASE PutsObject(r)
      <4>1. Early(r) /\ objects' = [objects EXCEPT ![i] = request[r].tenant]
        BY <3>2 DEF PutsObject, At, Early
      <4>2. Early(o) => request[o].on # i
        BY <1>0, <4>1 DEF UploadsDiffer
      <4> QED BY <4>1, <4>2 DEF RecordsTypeOK
    <3>3. CASE Marks(r)
      BY <3>3 DEF Marks
    <3> QED BY <3>1, <3>2, <3>3
  <2> QED BY <1>2, <1>3, <1>4, <2>1, <2>2, RequestIsKept DEF RequestBook, Early
<1>10. MadeUp(r)
  BY <1>2 DEF MadeUp, Early, Marks, PutsObject, DropsObject, At
<1>11. UploadsDiffer'
  BY <1>0, <1>2, <1>10, UploadsKeepDiffering
<1>12. ASSUME NEW f \in Files, owner[f] # NoId PROVE objects'[f] \in {NoId, owner[f]}
  <2>1. CASE PutsObject(r)
    <3>1. owner[i] = NoId /\ objects' = [objects EXCEPT ![i] = request[r].tenant]
      BY <1>0, <2>1 DEF PutsObject, At, RequestBook, Early
    <3> QED BY <1>0, <1>12, <3>1 DEF RowsBook, RecordsTypeOK
  <2>2. CASE ~PutsObject(r)
    <3>1. objects'[f] \in {objects[f], NoId}
      BY <2>2 DEF Marks, DropsObject, RecordsTypeOK
    <3> QED BY <1>0, <1>12, <3>1 DEF RowsBook
  <2> QED BY <2>1, <2>2
<1>13. RowsBook'
  BY <1>0, <1>3, <1>7, <1>12 DEF RowsBook
<1> QED BY <1>6, <1>8, <1>9, <1>11, <1>13 DEF RecordsBook

LEMMA LogIsWritten ==
  ASSUME RecordsTypeOK, RecordsBook, NEW r \in Requests,
         LogsRemoval(r) \/ RecordsMutation(r) \/ RecordsEvent(r)
  PROVE  /\ Ends(r) /\ UNCHANGED <<owner, linked, gone, objects, recordFaults>>
         /\ RecordsTypeOK' /\ RecordsBook'
<1> USE RecordsAssumption
<1>0. /\ RequestBook(r) /\ request \in [Requests -> Request] /\ request[r] \in Request
      /\ request[r].tenant \in Tenants
  BY DEF RecordsBook, RecordsTypeOK, RequestBook, LogsRemoval, RecordsMutation, RecordsEvent, At
<1>1. Ends(r) /\ UNCHANGED <<owner, linked, gone, objects, recordFaults>>
  BY DEF LogsRemoval, RecordsMutation, RecordsEvent
<1>2. /\ request' \in [Requests -> Request] /\ request'[r] = Idle
      /\ \A o \in Requests \ {r} : request'[o] = request[o]
  BY <1>0, <1>1, RequestEnds
<1>3. audit' \in SUBSET AuditRow
  <2>1. CASE LogsRemoval(r) \/ RecordsMutation(r)
    <3>1. request[r].on \in Ids
      BY <1>0, <2>1 DEF LogsRemoval, RecordsMutation, RequestBook
    <3> QED BY <1>0, <2>1, <3>1 DEF LogsRemoval, RecordsMutation, Log, AuditRow, RecordsTypeOK
  <2>2. CASE RecordsEvent(r)
    <3>1. request[r].to \in Tenants
      BY <1>0, <2>2 DEF RecordsEvent, At, RequestBook
    <3> QED BY <1>0, <2>2, <3>1 DEF RecordsEvent, Log, AuditRow, RecordsTypeOK
  <2> QED BY <2>1, <2>2
<1>4. RecordsTypeOK'
  BY <1>1, <1>2, <1>3 DEF RecordsTypeOK
<1>5. RequestBook(r)' /\ MadeUp(r)
  BY <1>2 DEF RequestBook, Early, Idle, MadeUp
<1>6. ASSUME NEW o \in Requests \ {r} PROVE RequestBook(o)'
  BY <1>1, <1>2, <1>6 DEF RecordsBook, RequestBook, Early
<1>7. UploadsDiffer' /\ RowsBook'
  BY <1>1, <1>2, <1>5, UploadsKeepDiffering DEF RecordsBook, RowsBook
<1> QED BY <1>1, <1>4, <1>5, <1>6, <1>7 DEF RecordsBook

\* Every step keeps the types and the book.
LEMMA RecordsStep ==
  ASSUME RecordsTypeOK, RecordsBook, [RecordsNext]_recordVars
  PROVE  RecordsTypeOK' /\ RecordsBook'
<1>1. ASSUME NEW r \in Requests, NEW t \in Tenants, Called(r, t) \/ \E signer \in Signers : Delivered(r, t, signer)
      PROVE  RecordsTypeOK' /\ RecordsBook'
  BY <1>1, CallArrives
<1>2. ASSUME NEW r \in Requests, Handler(r) PROVE RecordsTypeOK' /\ RecordsBook'
  BY <1>2, RowComesToBe, FindsHold, StepsHold, RowChanges, LogIsWritten DEF Handler
<1>3. CASE UNCHANGED recordVars
  BY <1>3 DEF recordVars, rows, RecordsTypeOK, RecordsBook, RequestBook, Early, UploadsDiffer, RowsBook
<1> QED BY <1>1, <1>2, <1>3 DEF RecordsNext
-----------------------------------------------------------------------------
(* Tenants *)

LEMMA TenantStep ==
  ASSUME RecordsTypeOK, RecordsBook, RecordsInTenant, [RecordsNext]_recordVars
  PROVE  RecordsInTenant'
<1> USE RecordsAssumption
<1>0. RecordsTypeOK' /\ RecordsBook'
  BY RecordsStep
<1>1. \A r \in Requests : \A i \in request'[r].found : owner'[i] = request'[r].tenant
  BY <1>0 DEF RecordsBook, RequestBook
<1> DEFINE Linked == \A f \in Files : linked'[f] # NoId => owner'[linked'[f]] = owner'[f]
           Audited == \A a \in audit' : a.tenant = IF a.id \in Tenants THEN a.id ELSE owner'[a.id]
<1>2. Linked /\ Audited => RecordsInTenant'
  BY <1>1 DEF RecordsInTenant
<1>3. ASSUME UNCHANGED <<owner, linked>> PROVE Linked
  BY <1>3 DEF RecordsInTenant
<1>4. ASSUME UNCHANGED <<owner, audit>> PROVE Audited
  BY <1>4 DEF RecordsInTenant
<1>5. ASSUME NEW i \in Ids, owner[i] = NoId, UNCHANGED audit, \A j \in Ids \ {i} : owner'[j] = owner[j]
      PROVE  Audited
  <2> SUFFICES ASSUME NEW a \in audit PROVE a.tenant = IF a.id \in Tenants THEN a.id ELSE owner'[a.id]
    BY <1>5
  <2>1. a.tenant \in Tenants /\ a.id \in Tenants \cup Ids
    BY DEF RecordsTypeOK, AuditRow
  <2>2. a.tenant = IF a.id \in Tenants THEN a.id ELSE owner[a.id]
    BY DEF RecordsInTenant
  <2> QED BY <1>5, <2>1, <2>2
<1>6. ASSUME NEW r \in Requests, NEW i \in Carriers \cup Clients, Inserts(r, i) PROVE RecordsInTenant'
  <2>1. /\ owner[i] = NoId /\ i \in Ids /\ UNCHANGED <<linked, audit>>
        /\ \A j \in Ids \ {i} : owner'[j] = owner[j]
    BY <1>6 DEF Inserts, Unused, Ids, RecordsTypeOK
  <2>2. Linked
    <3>1. i \notin Files /\ \A f \in Files : linked[f] # NoId => linked[f] # i /\ linked[f] \in Ids
      BY <2>1 DEF RecordsInTenant, RecordsBook, RowsBook, RecordsTypeOK, Ids
    <3> QED BY <2>1, <3>1 DEF RecordsInTenant, Ids
  <2> QED BY <1>2, <1>5, <2>1, <2>2
<1>7. ASSUME NEW r \in Requests, Attaches(r) PROVE RecordsInTenant'
  <2> DEFINE i == request[r].on
             to == request[r].to
  <2>1. /\ request[r].op = "upload" /\ request[r].step = "attach" /\ UNCHANGED audit
        /\ owner' = [owner EXCEPT ![i] = request[r].tenant] /\ linked' = [linked EXCEPT ![i] = to]
    BY <1>7 DEF Attaches, At
  <2>2. i \in Files /\ i \in Ids /\ owner[i] = NoId /\ to \in Carriers \cup Clients /\ owner[to] = request[r].tenant
    BY <2>1 DEF RecordsBook, RequestBook, Early, Ids
  <2> HIDE DEF i, to
  <2>3. \A j \in Ids \ {i} : owner'[j] = owner[j]
    BY <2>1, <2>2 DEF RecordsTypeOK
  <2>4. Linked
    <3>1. owner'[i] = request[r].tenant /\ linked'[i] = to /\ owner'[to] = owner[to]
      BY <2>1, <2>2 DEF RecordsTypeOK, Ids
    <3>2. ASSUME NEW f \in Files \ {i}, linked'[f] # NoId PROVE owner'[linked'[f]] = owner'[f]
      <4>1. linked'[f] = linked[f] /\ linked[f] \in Carriers \cup Clients
        BY <2>1, <2>2, <3>2 DEF RecordsTypeOK
      <4> QED BY <2>2, <2>3, <3>2, <4>1 DEF RecordsInTenant, Ids
    <3> QED BY <2>2, <3>1, <3>2
  <2> QED BY <1>2, <1>5, <2>1, <2>2, <2>3, <2>4
<1>8. ASSUME NEW r \in Requests, LogsRemoval(r) \/ RecordsMutation(r) PROVE RecordsInTenant'
  <2>1. UNCHANGED <<owner, linked>>
    BY <1>8 DEF LogsRemoval, RecordsMutation
  <2>2. PICK action \in {"removed", "mutation"} : Log(action, request[r].tenant, request[r].on)
    BY <1>8 DEF LogsRemoval, RecordsMutation
  <2>3. request[r].on \in Ids /\ owner[request[r].on] = request[r].tenant
    BY <1>8 DEF LogsRemoval, RecordsMutation, RecordsBook, RequestBook
  <2>4. Audited
    BY <2>1, <2>2, <2>3 DEF Log, RecordsInTenant
  <2> QED BY <1>2, <1>3, <2>1, <2>4
<1>9. ASSUME NEW r \in Requests, RecordsEvent(r) PROVE RecordsInTenant'
  <2>1. UNCHANGED <<owner, linked>> /\ Log("event", request[r].tenant, request[r].to)
    BY <1>9 DEF RecordsEvent
  <2>2. request[r].to = request[r].tenant /\ request[r].tenant \in Tenants
    BY <1>9 DEF RecordsEvent, At, RecordsBook, RequestBook
  <2>3. Audited
    BY <2>1, <2>2 DEF Log, RecordsInTenant
  <2> QED BY <1>2, <1>3, <2>1, <2>3
<1>10. ASSUME NEW r \in Requests,
              \/ FindsRow(r) \/ Writes(r) \/ Marks(r) \/ ListsPage(r) \/ FindsForFile(r) \/ PutsObject(r)
              \/ DropsObject(r) \/ Returns(r) \/ Verifies(r) \/ Refuses(r) \/ GivesUp(r)
       PROVE  RecordsInTenant'
  <2>1. UNCHANGED <<owner, linked, audit>>
    BY <1>10 DEF FindsRow, Writes, Marks, ListsPage, FindsForFile, PutsObject, DropsObject, Returns,
                 Verifies, Refuses, GivesUp, rows
  <2> QED BY <1>2, <1>3, <1>4, <2>1
<1>11. ASSUME NEW r \in Requests, NEW t \in Tenants, Called(r, t) \/ \E signer \in Signers : Delivered(r, t, signer)
       PROVE  RecordsInTenant'
  <2>1. UNCHANGED <<owner, linked, audit>>
    BY <1>11 DEF Called, Delivered, Arrives, rows
  <2> QED BY <1>2, <1>3, <1>4, <2>1
<1>12. CASE UNCHANGED recordVars
  BY <1>2, <1>3, <1>4, <1>12 DEF recordVars, rows
<1> QED
  BY <1>6, <1>7, <1>8, <1>9, <1>10, <1>11, <1>12
     DEF RecordsNext, Handler, InsertsCarrier, InsertsClient
-----------------------------------------------------------------------------
(* Files *)

\* A step of one request leaves the others alone.
LEMMA OthersAreKept ==
  ASSUME RecordsTypeOK, NEW r \in Requests,
         \/ \E t \in Tenants : Called(r, t) \/ \E signer \in Signers : Delivered(r, t, signer)
         \/ Handler(r)
  PROVE  \A o \in Requests \ {r} : request'[o] = request[o]
<1> USE DEF RecordsTypeOK, Ends, Goes
<1>1. CASE \E t \in Tenants : Called(r, t) \/ \E signer \in Signers : Delivered(r, t, signer)
  BY <1>1 DEF Called, Delivered, Arrives
<1>2. CASE InsertsCarrier(r) \/ InsertsClient(r) \/ Attaches(r)
  BY <1>2 DEF InsertsCarrier, InsertsClient, Inserts, Attaches
<1>3. CASE FindsRow(r) \/ FindsForFile(r)
  BY <1>3 DEF FindsRow, FindsForFile, Finds
<1>4. CASE Writes(r) \/ Marks(r) \/ ListsPage(r) \/ PutsObject(r) \/ DropsObject(r)
  BY <1>4 DEF Writes, Marks, ListsPage, PutsObject, DropsObject
<1>5. CASE LogsRemoval(r) \/ RecordsMutation(r) \/ Returns(r) \/ Verifies(r) \/ RecordsEvent(r)
           \/ Refuses(r) \/ GivesUp(r)
  BY <1>5 DEF LogsRemoval, RecordsMutation, Returns, Verifies, RecordsEvent, Refuses, GivesUp
<1> QED BY <1>1, <1>2, <1>3, <1>4, <1>5 DEF Handler

\* The request that is about to attach the object, or to drop it.
HasObject(r, f) ==
  /\ request[r].on = f
  /\ \/ request[r].op = "upload" /\ request[r].step = "attach"
     \/ request[r].op = "discard" /\ request[r].step = "drop"

FileBook(f) ==
  /\ owner[f] # NoId /\ f \notin gone => objects[f] = owner[f]
  /\ objects[f] # NoId => \/ owner[f] = objects[f] /\ f \notin gone
                          \/ \E r \in Requests : HasObject(r, f)
                          \/ recordFaults[objects[f]] > 0

FilesBook == \A f \in Files : FileBook(f)

\* It is of the tenant in whose folder the object is.
LEMMA ObjectOfTenant ==
  ASSUME RecordsTypeOK, RecordsBook, NEW r \in Requests, NEW f \in Files, HasObject(r, f), objects[f] # NoId
  PROVE  request[r].tenant = objects[f] /\ objects[f] \in Tenants
<1>1. RequestBook(r) /\ RowsBook /\ objects[f] \in Tenants
  BY DEF RecordsBook, RecordsTypeOK
<1>2. CASE request[r].op = "upload" /\ request[r].step = "attach"
  BY <1>1, <1>2 DEF HasObject, RequestBook
<1>3. CASE request[r].op = "discard" /\ request[r].step = "drop"
  <2>1. owner[f] = request[r].tenant /\ request[r].tenant \in Tenants
    BY <1>1, <1>3 DEF HasObject, RequestBook
  <2> QED BY RecordsAssumption, <1>1, <2>1 DEF RowsBook
<1> QED BY <1>2, <1>3 DEF HasObject

LEMMA FilesStep ==
  ASSUME RecordsTypeOK, RecordsBook, FilesBook, [RecordsNext]_recordVars
  PROVE  FilesBook'
<1> USE RecordsAssumption
<1>0. RecordsTypeOK' /\ RecordsBook'
  BY RecordsStep
<1>a. /\ owner \in [Ids -> Tenants \cup {NoId}] /\ objects \in [Files -> Tenants \cup {NoId}]
      /\ Files \subseteq Ids /\ recordFaults \in [Tenants -> 0..MaxRecordFaults]
  BY <1>0 DEF RecordsTypeOK, Ids
\* A file that a step does not touch.
<1>1. ASSUME NEW f \in Files, owner'[f] = owner[f], (f \in gone') <=> (f \in gone), objects'[f] = objects[f],
             \A t \in Tenants : recordFaults'[t] >= recordFaults[t],
             \A r \in Requests : HasObject(r, f) => HasObject(r, f)'
      PROVE  FileBook(f)'
  <2>1. objects[f] # NoId => objects[f] \in Tenants
    BY <1>a
  <2>2. objects[f] # NoId /\ recordFaults[objects[f]] > 0 => recordFaults'[objects[f]] > 0
    BY <1>0, <1>1, <1>a, <2>1 DEF RecordsTypeOK
  <2>3. FileBook(f)
    BY DEF FilesBook
  <2> QED BY <1>1, <2>2, <2>3 DEF FileBook
<1>2. UNCHANGED recordFaults => \A t \in Tenants : recordFaults'[t] >= recordFaults[t]
  BY <1>a
<1>b. ASSUME NEW r \in Requests, ~(request[r].op = "upload" /\ request[r].step = "attach"),
             ~(request[r].op = "discard" /\ request[r].step = "drop"),
             \A o \in Requests \ {r} : request'[o] = request[o]
      PROVE  \A o \in Requests : \A f \in Files : HasObject(o, f) => HasObject(o, f)'
  BY <1>b DEF HasObject
<1>3. ASSUME NEW r \in Requests, NEW t \in Tenants, Called(r, t) \/ \E signer \in Signers : Delivered(r, t, signer)
      PROVE  FilesBook'
  <2>1. UNCHANGED <<owner, gone, objects, recordFaults>> /\ request[r] = Idle
    BY <1>3 DEF Called, Delivered, Arrives, rows
  <2>2. \A o \in Requests : \A f \in Files : HasObject(o, f) => HasObject(o, f)'
    BY <1>b, <1>3, <2>1, OthersAreKept DEF Idle
  <2> QED BY <1>1, <1>2, <2>1, <2>2 DEF FilesBook
<1>4. ASSUME NEW r \in Requests,
             \/ FindsRow(r) \/ Writes(r) \/ ListsPage(r) \/ FindsForFile(r) \/ LogsRemoval(r)
             \/ RecordsMutation(r) \/ Returns(r) \/ Verifies(r) \/ RecordsEvent(r) \/ Refuses(r)
      PROVE  FilesBook'
  <2>1. UNCHANGED <<owner, gone, objects, recordFaults>> /\ request[r].step \notin {"attach", "drop"}
    BY <1>4 DEF FindsRow, Writes, ListsPage, FindsForFile, LogsRemoval, RecordsMutation, Returns,
                Verifies, RecordsEvent, Refuses, At, rows
  <2>2. \A o \in Requests \ {r} : request'[o] = request[o]
    BY <1>4, OthersAreKept DEF Handler
  <2>3. \A o \in Requests : \A f \in Files : HasObject(o, f) => HasObject(o, f)'
    BY <1>b, <2>1, <2>2
  <2> QED BY <1>1, <1>2, <2>1, <2>3 DEF FilesBook
<1>5. ASSUME NEW r \in Requests, GivesUp(r), NEW f \in Files PROVE FileBook(f)'
  <2> DEFINE t == request[r].tenant
  <2>1. t \in Tenants /\ request[r].step # "none"
    BY <1>5 DEF GivesUp, RecordsBook, RequestBook
  <2>2. /\ recordFaults' = [recordFaults EXCEPT ![t] = recordFaults[t] + 1]
        /\ UNCHANGED <<owner, gone, objects>> /\ \A o \in Requests \ {r} : request'[o] = request[o]
    BY <1>5, OthersAreKept DEF GivesUp, rows, Handler
  <2> HIDE DEF t
  <2>3. recordFaults'[t] = recordFaults[t] + 1 /\ \A u \in Tenants \ {t} : recordFaults'[u] = recordFaults[u]
    BY <1>a, <2>1, <2>2
  <2>4. recordFaults'[t] > 0 /\ \A u \in Tenants : recordFaults'[u] >= recordFaults[u]
    BY <1>a, <2>1, <2>3
  <2>5. CASE HasObject(r, f)
    <3>1. objects[f] # NoId => objects[f] = t
      BY <2>5, ObjectOfTenant DEF t
    <3>2. FileBook(f)
      BY DEF FilesBook
    <3> QED BY <2>2, <2>4, <3>1, <3>2 DEF FileBook
  <2>6. CASE ~HasObject(r, f)
    <3>1. \A o \in Requests : HasObject(o, f) => HasObject(o, f)'
      BY <2>2, <2>6 DEF HasObject
    <3> QED BY <1>1, <2>2, <2>4, <3>1
  <2> QED BY <2>5, <2>6
<1>6. ASSUME NEW r \in Requests, NEW i \in Carriers \cup Clients, Inserts(r, i) PROVE FilesBook'
  <2>1. UNCHANGED <<gone, objects, recordFaults>> /\ request[r].step = "insert"
        /\ \A f \in Files : owner'[f] = owner[f]
    BY <1>a, <1>6 DEF Inserts, At
  <2>2. \A o \in Requests \ {r} : request'[o] = request[o]
    BY <1>6 DEF Inserts, RecordsTypeOK
  <2>3. \A o \in Requests : \A f \in Files : HasObject(o, f) => HasObject(o, f)'
    BY <1>b, <2>1, <2>2
  <2> QED BY <1>1, <1>2, <2>1, <2>3 DEF FilesBook
<1>7. ASSUME NEW r \in Requests, Attaches(r), NEW f \in Files PROVE FileBook(f)'
  <2> DEFINE i == request[r].on
  <2>1. /\ i \in Files /\ objects[i] = request[r].tenant /\ i \notin gone /\ request[r].tenant \in Tenants
        /\ owner' = [owner EXCEPT ![i] = request[r].tenant] /\ UNCHANGED <<gone, objects, recordFaults>>
    BY <1>7 DEF Attaches, At, RecordsBook, RequestBook, RowsBook, Early
  <2>2. \A o \in Requests \ {r} : request'[o] = request[o]
    BY <1>7 DEF Attaches, Goes, RecordsTypeOK
  <2>3. CASE f # i
    <3>1. owner'[f] = owner[f] /\ \A o \in Requests : HasObject(o, f) => HasObject(o, f)'
      BY <1>a, <2>1, <2>2, <2>3 DEF HasObject
    <3> QED BY <1>1, <1>2, <2>1, <3>1
  <2>4. CASE f = i
    <3>1. owner'[f] = request[r].tenant
      BY <1>a, <2>1, <2>4
    <3> QED BY <2>1, <2>4, <3>1 DEF FileBook
  <2> QED BY <2>3, <2>4
<1>8. ASSUME NEW r \in Requests, Marks(r), NEW f \in Files PROVE FileBook(f)'
  <2> DEFINE i == request[r].on
  <2>1. /\ UNCHANGED <<owner, objects, recordFaults>> /\ gone' = gone \cup {i} /\ request[r].step = "mark"
    BY <1>8 DEF Marks, At
  <2>2. \A o \in Requests \ {r} : request'[o] = request[o]
    BY <1>8 DEF Marks, Goes, RecordsTypeOK
  <2>3. \A o \in Requests : HasObject(o, f) => HasObject(o, f)'
    BY <1>b, <2>1, <2>2
  <2>4. CASE f # i
    BY <1>1, <1>2, <2>1, <2>3, <2>4
  <2>5. CASE f = i
    <3>1. At(r, "discard", "mark") /\ Goes(r, "drop")
      BY <1>8, <2>5 DEF Marks, At, RecordsBook, RequestBook, Ids
    <3>2. "drop" \in Steps /\ request \in [Requests -> Request]
      BY DEF Steps, RecordsTypeOK
    <3>3. request'[r].step = "drop" /\ request'[r].op = request[r].op /\ request'[r].on = request[r].on
      BY <3>1, <3>2, RequestGoes
    <3>4. HasObject(r, f)' /\ f \in gone'
      BY <2>1, <2>5, <3>1, <3>3 DEF At, HasObject
    <3> QED BY <3>4 DEF FileBook
  <2> QED BY <2>4, <2>5
<1>9. ASSUME NEW r \in Requests, PutsObject(r), NEW f \in Files PROVE FileBook(f)'
  <2> DEFINE i == request[r].on
  <2>1. /\ UNCHANGED <<owner, gone, recordFaults>> /\ objects' = [objects EXCEPT ![i] = request[r].tenant]
        /\ i \in Files /\ owner[i] = NoId
        /\ request[r].op = "upload" /\ request[r].step = "put" /\ Goes(r, "attach")
    BY <1>9 DEF PutsObject, At, RecordsBook, RequestBook, Early
  <2>2. "attach" \in Steps /\ request \in [Requests -> Request]
    BY DEF Steps, RecordsTypeOK
  <2>3. /\ request'[r].step = "attach" /\ request'[r].op = request[r].op /\ request'[r].on = request[r].on
        /\ \A o \in Requests \ {r} : request'[o] = request[o]
    BY <2>1, <2>2, RequestGoes
  <2>4. CASE f # i
    <3>1. objects'[f] = objects[f] /\ \A o \in Requests : HasObject(o, f) => HasObject(o, f)'
      BY <1>a, <1>b, <2>1, <2>3, <2>4
    <3> QED BY <1>1, <1>2, <2>1, <3>1
  <2>5. CASE f = i
    <3>1. HasObject(r, f)' /\ owner'[f] = NoId
      BY <2>1, <2>3, <2>5 DEF HasObject
    <3> QED BY <3>1 DEF FileBook
  <2> QED BY <2>4, <2>5
<1>10. ASSUME NEW r \in Requests, DropsObject(r), NEW f \in Files PROVE FileBook(f)'
  <2> DEFINE i == request[r].on
  <2>1. /\ UNCHANGED <<owner, gone, recordFaults>> /\ objects' = [objects EXCEPT ![i] = NoId] /\ i \in gone
    BY <1>10 DEF DropsObject, At, RecordsBook, RequestBook
  <2>2. \A o \in Requests \ {r} : request'[o] = request[o]
    BY <1>10 DEF DropsObject, Goes, RecordsTypeOK
  <2>3. CASE f # i
    <3>1. objects'[f] = objects[f] /\ \A o \in Requests : HasObject(o, f) => HasObject(o, f)'
      BY <1>a, <2>1, <2>2, <2>3 DEF HasObject
    <3> QED BY <1>1, <1>2, <2>1, <3>1
  <2>4. CASE f = i
    <3>1. objects'[f] = NoId /\ f \in gone'
      BY <1>a, <2>1, <2>4
    <3> QED BY <3>1 DEF FileBook
  <2> QED BY <2>3, <2>4
<1>11. CASE UNCHANGED recordVars
  BY <1>11 DEF recordVars, rows, FilesBook, FileBook, HasObject
<1>12. ASSUME NEW r \in Requests,
              GivesUp(r) \/ Attaches(r) \/ Marks(r) \/ PutsObject(r) \/ DropsObject(r)
       PROVE  FilesBook'
  BY <1>5, <1>7, <1>8, <1>9, <1>10, <1>12 DEF FilesBook
<1> QED
  BY <1>3, <1>4, <1>6, <1>11, <1>12 DEF RecordsNext, Handler, InsertsCarrier, InsertsClient
-----------------------------------------------------------------------------
(* The audit trail *)

Entry(action, i) == [action |-> action, tenant |-> owner[i], id |-> i]
Tracing(r, i) == request[r].on = i /\ request[r].step = "trace"
Removing(r, i) ==
  request[r].on = i /\ request[r].op \in {"remove", "discard"} /\ request[r].step \in {"drop", "log"}

TraceBook == \A i \in Ids :
  owner[i] # NoId /\ recordFaults[owner[i]] = 0 =>
    /\ Entry("mutation", i) \in audit \/ \E r \in Requests : Tracing(r, i)
    /\ i \in gone => Entry("removed", i) \in audit \/ \E r \in Requests : Removing(r, i)

LEMMA TraceStep ==
  ASSUME RecordsTypeOK, RecordsBook, TraceBook, [RecordsNext]_recordVars
  PROVE  TraceBook'
<1> USE RecordsAssumption
<1>0. RecordsTypeOK' /\ RecordsBook'
  BY RecordsStep
<1>a. /\ owner \in [Ids -> Tenants \cup {NoId}] /\ gone \subseteq Ids
      /\ recordFaults \in [Tenants -> 0..MaxRecordFaults]
      /\ request \in [Requests -> Request] /\ Steps = Steps \cup {"trace", "log", "drop"}
      /\ \A i \in gone : owner[i] # NoId
  BY DEF RecordsTypeOK, Steps, RecordsBook, RowsBook
<1> DEFINE Keeps == \A o \in Requests : \A i \in Ids :
                      /\ Tracing(o, i) => Tracing(o, i)'
                      /\ Removing(o, i) => Removing(o, i)'
<1>1. ASSUME UNCHANGED <<owner, gone, audit, recordFaults>>, Keeps PROVE TraceBook'
  <2>1. \A i \in Ids, action \in {"mutation", "removed"} : Entry(action, i)' = Entry(action, i)
    BY <1>1 DEF Entry
  <2> QED BY <1>a, <1>1, <2>1 DEF TraceBook
<1>2. ASSUME NEW r \in Requests, request[r].step \notin {"trace", "drop", "log"},
             \A o \in Requests \ {r} : request'[o] = request[o]
      PROVE  Keeps
  BY <1>2 DEF Tracing, Removing
<1>3. ASSUME NEW r \in Requests, NEW t \in Tenants, Called(r, t) \/ \E signer \in Signers : Delivered(r, t, signer)
      PROVE  TraceBook'
  <2>1. UNCHANGED <<owner, gone, audit, recordFaults>> /\ request[r] = Idle
    BY <1>3 DEF Called, Delivered, Arrives, rows
  <2> QED BY <1>1, <1>2, <1>3, <2>1, OthersAreKept DEF Idle
<1>4. ASSUME NEW r \in Requests,
             \/ FindsRow(r) \/ Writes(r) \/ ListsPage(r) \/ FindsForFile(r) \/ PutsObject(r)
             \/ Returns(r) \/ Verifies(r) \/ Refuses(r)
      PROVE  TraceBook'
  <2>1. UNCHANGED <<owner, gone, audit, recordFaults>> /\ request[r].step \notin {"trace", "drop", "log"}
    BY <1>4 DEF FindsRow, Writes, ListsPage, FindsForFile, PutsObject, Returns, Verifies, Refuses, At, rows
  <2>2. \A o \in Requests \ {r} : request'[o] = request[o]
    BY <1>4, OthersAreKept DEF Handler
  <2> QED BY <1>1, <1>2, <2>1, <2>2
<1>5. ASSUME NEW r \in Requests, GivesUp(r) PROVE TraceBook'
  <2> DEFINE t == request[r].tenant
  <2>1. RequestBook(r) /\ t \in Tenants
    BY <1>5 DEF GivesUp, RecordsBook, RequestBook
  <2>2. /\ recordFaults' = [recordFaults EXCEPT ![t] = recordFaults[t] + 1]
        /\ UNCHANGED <<owner, gone, audit>>
    BY <1>5 DEF GivesUp, rows
  <2>3. \A o \in Requests \ {r} : request'[o] = request[o]
    BY <1>5, OthersAreKept DEF Handler
  <2>4. ASSUME NEW i \in Ids, owner'[i] # NoId, recordFaults'[owner'[i]] = 0
        PROVE  owner[i] \in Tenants /\ owner[i] # t /\ recordFaults[owner[i]] = 0
    BY <1>a, <2>1, <2>2, <2>4
  <2>5. ASSUME NEW i \in Ids, owner[i] # t PROVE ~Tracing(r, i) /\ ~Removing(r, i)
    BY <2>1, <2>5 DEF RequestBook, Tracing, Removing
  <2>6. \A i \in Ids, action \in {"mutation", "removed"} : Entry(action, i)' = Entry(action, i)
    BY <2>2 DEF Entry
  <2> HIDE DEF t
  <2>7. ASSUME NEW i \in Ids, owner[i] # t
        PROVE  \A o \in Requests : (Tracing(o, i) => Tracing(o, i)') /\ (Removing(o, i) => Removing(o, i)')
    BY <2>3, <2>5, <2>7 DEF Tracing, Removing
  <2> QED BY <2>2, <2>4, <2>6, <2>7 DEF TraceBook
<1>6. ASSUME NEW r \in Requests, NEW i \in Ids, request[r].step \notin {"trace", "drop", "log"},
             owner[i] = NoId, \A j \in Ids \ {i} : owner'[j] = owner[j],
             UNCHANGED <<gone, audit, recordFaults>>, Tracing(r, i)',
             \A o \in Requests \ {r} : request'[o] = request[o]
      PROVE  TraceBook'
  <2>1. Keeps
    BY <1>2, <1>6
  <2>2. i \notin gone
    BY <1>a, <1>6
  <2>3. ASSUME NEW j \in Ids \ {i}, NEW action \in {"mutation", "removed"} PROVE Entry(action, j)' = Entry(action, j)
    BY <1>6 DEF Entry
  <2>4. \A j \in Ids \ {i} : owner'[j] # NoId /\ recordFaults'[owner'[j]] = 0 =>
          /\ Entry("mutation", j)' \in audit' \/ \E o \in Requests : Tracing(o, j)'
          /\ j \in gone' => Entry("removed", j)' \in audit' \/ \E o \in Requests : Removing(o, j)'
    <3> SUFFICES ASSUME NEW j \in Ids \ {i}, owner[j] # NoId, recordFaults[owner[j]] = 0
                 PROVE  /\ Entry("mutation", j) \in audit \/ \E o \in Requests : Tracing(o, j)'
                        /\ j \in gone => Entry("removed", j) \in audit \/ \E o \in Requests : Removing(o, j)'
      BY <1>6, <2>3
    <3>1. /\ Entry("mutation", j) \in audit \/ \E o \in Requests : Tracing(o, j)
          /\ j \in gone => Entry("removed", j) \in audit \/ \E o \in Requests : Removing(o, j)
      BY DEF TraceBook
    <3> QED BY <2>1, <3>1
  <2> QED BY <1>6, <2>2, <2>4 DEF TraceBook
<1>7. ASSUME NEW r \in Requests, NEW i \in Carriers \cup Clients, Inserts(r, i) PROVE TraceBook'
  <2>1. /\ i \in Ids /\ owner[i] = NoId /\ request[r].step = "insert"
        /\ UNCHANGED <<gone, audit, recordFaults>> /\ \A j \in Ids \ {i} : owner'[j] = owner[j]
    BY <1>a, <1>7 DEF Inserts, At, Unused, Ids
  <2>2. /\ \A o \in Requests \ {r} : request'[o] = request[o]
        /\ request'[r].on = i /\ request'[r].step = "trace"
    BY <1>a, <1>7, <2>1, RequestInserts DEF Inserts
  <2> QED BY <1>6, <2>1, <2>2 DEF Tracing
<1>8. ASSUME NEW r \in Requests, NEW i \in Ids, i = request[r].on, Attaches(r) PROVE TraceBook'
  <2>1. /\ owner[i] = NoId /\ request[r].step = "attach" /\ Goes(r, "trace")
        /\ UNCHANGED <<gone, audit, recordFaults>> /\ \A j \in Ids \ {i} : owner'[j] = owner[j]
    BY <1>a, <1>8 DEF Attaches, At, RecordsBook, RequestBook, Early
  <2>2. /\ \A o \in Requests \ {r} : request'[o] = request[o]
        /\ request'[r].on = i /\ request'[r].step = "trace"
    BY <1>a, <1>8, <2>1, RequestGoes DEF Steps
  <2> QED BY <1>6, <2>1, <2>2 DEF Tracing
<1>9. ASSUME NEW r \in Requests, NEW i \in Ids, i = request[r].on, NEW s \in {"drop", "log"}, Goes(r, s),
             request[r].op \in {"remove", "discard"}, request[r].step # "trace",
             request[r].step \in {"drop", "log"} => gone' = gone,
             UNCHANGED <<owner, audit, recordFaults>>, gone \subseteq gone', gone' \subseteq gone \cup {i}
      PROVE  TraceBook'
  <2>1. s \in Steps
    BY DEF Steps
  <2>2. /\ \A o \in Requests \ {r} : request'[o] = request[o]
        /\ request'[r].on = i /\ request'[r].step = s /\ request'[r].op = request[r].op
    BY <1>a, <1>9, <2>1, RequestGoes
  <2>3. Removing(r, i)'
    BY <1>9, <2>2 DEF Removing
  <2>4. Keeps
    BY <1>9, <2>2, <2>3 DEF Tracing, Removing
  <2>5. \A j \in Ids, action \in {"mutation", "removed"} : Entry(action, j)' = Entry(action, j)
    BY <1>9 DEF Entry
  <2> QED BY <1>a, <1>9, <2>3, <2>4, <2>5 DEF TraceBook
<1>10. ASSUME NEW r \in Requests, Marks(r) \/ DropsObject(r) PROVE TraceBook'
  <2>1. request[r].on \in Ids
    BY <1>10 DEF Marks, DropsObject, At, RecordsBook, RequestBook
  <2> QED BY <1>9, <1>10, <2>1 DEF Marks, DropsObject, At
<1>11. ASSUME NEW r \in Requests, NEW i \in Ids, i = request[r].on, NEW action \in {"mutation", "removed"},
              Log(action, request[r].tenant, i), owner[i] = request[r].tenant, Ends(r),
              action = "removed" <=> request[r].step = "log", request[r].step \in {"trace", "log"},
              UNCHANGED <<owner, gone, recordFaults>>
       PROVE  TraceBook'
  <2>1. \A o \in Requests \ {r} : request'[o] = request[o]
    BY <1>11 DEF Ends, RecordsTypeOK
  <2>2. \A j \in Ids, a \in {"mutation", "removed"} : Entry(a, j)' = Entry(a, j)
    BY <1>11 DEF Entry
  <2>3. audit \subseteq audit' /\ Entry(action, i) \in audit'
    BY <1>11 DEF Log, Entry
  <2>4. ASSUME NEW j \in Ids, NEW o \in Requests, Tracing(o, j)
        PROVE  Tracing(o, j)' \/ Entry("mutation", j) \in audit'
    BY <1>11, <2>1, <2>3, <2>4 DEF Tracing
  <2>5. ASSUME NEW j \in Ids, NEW o \in Requests, Removing(o, j)
        PROVE  Removing(o, j)' \/ Entry("removed", j) \in audit'
    BY <1>11, <2>1, <2>3, <2>5 DEF Removing
  <2> QED BY <1>a, <1>11, <2>2, <2>3, <2>4, <2>5 DEF TraceBook
<1>12. ASSUME NEW r \in Requests, LogsRemoval(r) \/ RecordsMutation(r) PROVE TraceBook'
  <2>1. request[r].on \in Ids /\ owner[request[r].on] = request[r].tenant
    BY <1>12 DEF LogsRemoval, RecordsMutation, RecordsBook, RequestBook
  <2>2. CASE LogsRemoval(r)
    BY <1>11, <2>1, <2>2 DEF LogsRemoval
  <2>3. CASE RecordsMutation(r)
    BY <1>11, <2>1, <2>3 DEF RecordsMutation
  <2> QED BY <1>12, <2>2, <2>3
<1>13. ASSUME NEW r \in Requests, RecordsEvent(r) PROVE TraceBook'
  <2>1. /\ UNCHANGED <<owner, gone, recordFaults>> /\ audit \subseteq audit'
        /\ request[r].op = "event" /\ request[r].step = "log" /\ Ends(r)
    BY <1>13 DEF RecordsEvent, At, Log
  <2>2. \A o \in Requests \ {r} : request'[o] = request[o]
    BY <2>1 DEF Ends, RecordsTypeOK
  <2>3. Keeps
    BY <2>1, <2>2 DEF Tracing, Removing
  <2>4. \A j \in Ids, a \in {"mutation", "removed"} : Entry(a, j)' = Entry(a, j)
    BY <2>1 DEF Entry
  <2> QED BY <1>a, <2>1, <2>3, <2>4 DEF TraceBook
<1>14. CASE UNCHANGED recordVars
  BY <1>14 DEF recordVars, rows, TraceBook, Entry, Tracing, Removing
<1>15. ASSUME NEW r \in Requests, Attaches(r) PROVE TraceBook'
  <2>1. request[r].on \in Ids
    BY <1>15 DEF Attaches, At, RecordsBook, RequestBook, Ids
  <2> QED BY <1>8, <1>15, <2>1
<1> QED
  BY <1>3, <1>4, <1>5, <1>7, <1>10, <1>12, <1>13, <1>14, <1>15
     DEF RecordsNext, Handler, InsertsCarrier, InsertsClient
-----------------------------------------------------------------------------
RecordsInv == RecordsTypeOK /\ RecordsBook /\ RecordsInTenant /\ FilesBook /\ TraceBook

\* What holds at the start.
LEMMA RecordsStart == RecordsInit => RecordsInv
<1> SUFFICES ASSUME RecordsInit PROVE RecordsInv
  OBVIOUS
<1> USE RecordsAssumption DEF RecordsInit
<1>1. RecordsTypeOK
  BY IdleRequest DEF RecordsTypeOK
<1>2. RecordsBook
  BY DEF RecordsBook, RequestBook, UploadsDiffer, RowsBook, Early, Idle
<1>3. RecordsInTenant
  BY DEF RecordsInTenant, Idle
<1>4. FilesBook /\ TraceBook
  BY DEF FilesBook, FileBook, TraceBook, Ids
<1> QED BY <1>1, <1>2, <1>3, <1>4 DEF RecordsInv

\* Every step keeps the invariant, and so does one that leaves the records.
LEMMA RecordsKeep == RecordsInv /\ [RecordsNext]_recordVars => RecordsInv'
BY RecordsStep, TenantStep, FilesStep, TraceStep DEF RecordsInv

LEMMA RecordsInvHolds == RecordsInv => RecordsInTenant /\ FilesAreAccountedFor /\ ChangesLeaveTrace
<1> SUFFICES ASSUME RecordsInv PROVE FilesAreAccountedFor /\ ChangesLeaveTrace
  BY DEF RecordsInv
<1>1. FilesAreAccountedFor
  <2>1. RecordsTypeOK /\ RecordsBook /\ FilesBook
    BY DEF RecordsInv
  <2>2. ASSUME NEW f \in Files, NEW r \in Requests, HasObject(r, f), objects[f] # NoId
        PROVE  request[r].on = f /\ request[r].tenant = objects[f]
    BY <2>1, <2>2, ObjectOfTenant DEF HasObject
  <2> QED BY <2>1, <2>2 DEF FilesBook, FileBook, FilesAreAccountedFor
<1>2. ChangesLeaveTrace
  BY DEF RecordsInv, TraceBook, ChangesLeaveTrace, Logged, Entry, Tracing, Removing
<1> QED BY <1>1, <1>2

\* Whichever ids the requests are sent and however they interleave, none
\* reads, links or logs across tenants.
THEOREM RecordsStayInTenant == RecordsSpec => []RecordsInTenant
<1>1. RecordsInv => RecordsInTenant
  BY RecordsInvHolds
<1> QED BY <1>1, RecordsStart, RecordsKeep, PTL DEF RecordsSpec

\* A file that is listed has its object in its tenant's folder, and an object
\* without a file is on its way or was left by a failure, of that tenant.
THEOREM FilesHaveObjects == RecordsSpec => []FilesAreAccountedFor
<1>1. RecordsInv => FilesAreAccountedFor
  BY RecordsInvHolds
<1> QED BY <1>1, RecordsStart, RecordsKeep, PTL DEF RecordsSpec

\* What was created or removed is in the audit trail, or is about to be, unless
\* a request of that tenant failed.
THEOREM ChangesAreAudited == RecordsSpec => []ChangesLeaveTrace
<1>1. RecordsInv => ChangesLeaveTrace
  BY RecordsInvHolds
<1> QED BY <1>1, RecordsStart, RecordsKeep, PTL DEF RecordsSpec
-----------------------------------------------------------------------------
(* What one tenant can tell *)

LEMMA SameNames ==
  /\ Alone!NoId = NoId /\ Alone!Ids = Ids /\ Alone!Idle = Idle /\ Alone!FirstStep = FirstStep
BY DEF Alone!NoId, NoId, Alone!Ids, Ids, Alone!Idle, Idle, Alone!FirstStep, FirstStep

LEMMA ObserverIsNoId == Observer \in Tenants /\ Observer # NoId /\ NoId \notin Ids
BY RecordsAssumption, ObserverAssumption

seenRows == <<SeenOwner, SeenLinked, SeenGone, SeenObjects, SeenAudit>>

LEMMA RowsUnchanged == UNCHANGED rows => UNCHANGED seenRows
BY DEF rows, seenRows, SeenOwner, SeenLinked, SeenGone, SeenObjects, SeenAudit, OwnOnly

\* The requests of the observer, and what a step of one does to them.
LEMMA RequestSeen ==
  ASSUME request \in [Requests -> Request], NEW r \in Requests, NEW q \in Request,
         request' = [request EXCEPT ![r] = q], q.tenant = Observer \/ q = Idle
  PROVE  SeenRequest' = [SeenRequest EXCEPT ![r] = q]
<1>1. Idle.tenant # Observer
  BY ObserverIsNoId DEF Idle
<1>2. \A o \in Requests : request'[o] = IF o = r THEN q ELSE request[o]
  OBVIOUS
<1> QED BY <1>1, <1>2 DEF SeenRequest

LEMMA RequestUnseen ==
  ASSUME request \in [Requests -> Request], request' \in [Requests -> Request], NEW r \in Requests,
         \A o \in Requests \ {r} : request'[o] = request[o],
         request[r].tenant # Observer, request'[r].tenant # Observer
  PROVE  SeenRequest' = SeenRequest
BY DEF SeenRequest

LEMMA Own ==
  ASSUME NEW r \in Requests, request[r].tenant = Observer
  PROVE  SeenRequest[r] = request[r]
BY DEF SeenRequest

\* A request of the observer goes on as one of the system alone does.
LEMMA OwnGoes ==
  ASSUME request \in [Requests -> Request], NEW r \in Requests, request[r].tenant = Observer,
         NEW s \in Steps, Goes(r, s)
  PROVE  Alone!Goes(r, s)
<1> DEFINE q == [request[r] EXCEPT !.step = s]
<1>1. q \in Request /\ q.tenant = Observer
  BY DEF Request, Steps
<1>2. request' = [request EXCEPT ![r] = q]
  BY DEF Goes
<1>3. q = [SeenRequest[r] EXCEPT !.step = s]
  BY Own
<1> HIDE DEF q
<1>4. SeenRequest' = [SeenRequest EXCEPT ![r] = q]
  BY <1>1, <1>2, RequestSeen
<1> QED BY <1>3, <1>4 DEF Alone!Goes

LEMMA AnyEnds ==
  ASSUME request \in [Requests -> Request], NEW r \in Requests, Ends(r)
  PROVE  Alone!Ends(r)
<1>1. SeenRequest' = [SeenRequest EXCEPT ![r] = Idle]
  BY IdleRequest, RequestSeen DEF Ends
<1> QED BY <1>1, SameNames DEF Alone!Ends

\* It finds the same rows.
LEMMA OwnRows ==
  ASSUME NEW i \in Ids
  PROVE  /\ Alone!Scoped(Observer, i) <=> Scoped(Observer, i)
         /\ Alone!Existing(Observer, i) <=> Existing(Observer, i)
<1>1. SeenOwner[i] = Observer <=> owner[i] = Observer
  BY ObserverIsNoId DEF SeenOwner, OwnOnly
<1>2. owner[i] = Observer => (i \in SeenGone <=> i \in gone)
  BY DEF SeenGone
<1> QED BY <1>1, <1>2 DEF Scoped, Existing, Alone!Scoped, Alone!Existing

LEMMA OwnFinds ==
  ASSUME request \in [Requests -> Request], NEW r \in Requests, request[r].tenant = Observer,
         NEW i \in Ids, NEW s \in Steps, Finds(r, i, s)
  PROVE  Alone!Finds(r, i, s)
<1> DEFINE q == [request[r] EXCEPT !.found = {i}, !.step = s]
<1>1. CASE Existing(Observer, i)
  <2>1. q \in Request /\ q.tenant = Observer
    BY DEF Request, Steps
  <2>2. request' = [request EXCEPT ![r] = q]
    BY <1>1 DEF Finds
  <2>3. q = [SeenRequest[r] EXCEPT !.found = {i}, !.step = s]
    BY Own
  <2> HIDE DEF q
  <2>4. SeenRequest' = [SeenRequest EXCEPT ![r] = q]
    BY <2>1, <2>2, RequestSeen
  <2>5. SeenRequest' = [SeenRequest EXCEPT ![r].found = {i}, ![r].step = s]
    BY <2>3, <2>4
  <2> QED BY <1>1, <2>5, OwnRows, Own DEF Alone!Finds
<1>2. CASE ~Existing(Observer, i)
  <2>1. Alone!Ends(r)
    BY <1>2, AnyEnds DEF Finds
  <2> QED BY <1>2, <2>1, OwnRows, Own DEF Alone!Finds
<1> QED BY <1>1, <1>2

LEMMA UnusedSeen ==
  ASSUME NEW i \in Ids, Unused(i)
  PROVE  Alone!Unused(i)
<1>1. SeenOwner[i] = NoId /\ (i \in Files => SeenObjects[i] = NoId)
  BY ObserverIsNoId DEF Unused, SeenOwner, SeenObjects, OwnOnly
<1>2. \A r \in Requests : SeenRequest[r].on # i
  BY ObserverIsNoId DEF Unused, SeenRequest, Idle
<1> QED BY <1>1, <1>2, SameNames DEF Alone!Unused

LEMMA OwnAt ==
  ASSUME NEW r \in Requests, request[r].tenant = Observer, NEW op, NEW s, At(r, op, s)
  PROVE  Alone!At(r, op, s)
BY Own DEF At, Alone!At

\* What the observer's steps write, it sees.
LEMMA RowSeen ==
  ASSUME RecordsTypeOK, RecordsBook, NEW i \in Ids, owner[i] = NoId,
         owner' = [owner EXCEPT ![i] = Observer], UNCHANGED gone
  PROVE  SeenOwner' = [SeenOwner EXCEPT ![i] = Observer] /\ UNCHANGED SeenGone
<1>1. \A j \in Ids : owner'[j] = IF j = i THEN Observer ELSE owner[j]
  BY DEF RecordsTypeOK
<1>2. SeenOwner' = [SeenOwner EXCEPT ![i] = Observer]
  BY <1>1 DEF SeenOwner, OwnOnly
<1>3. i \notin gone /\ gone \subseteq Ids
  BY DEF RecordsBook, RowsBook, RecordsTypeOK
<1> QED BY <1>1, <1>2, <1>3 DEF SeenGone

LEMMA TraceSeen ==
  ASSUME NEW action, NEW i, Log(action, Observer, i)
  PROVE  Alone!Log(action, Observer, i)
BY DEF Log, Alone!Log, SeenAudit

LEMMA LinksSeen == UNCHANGED <<owner, linked>> => UNCHANGED <<SeenOwner, SeenLinked>>
BY DEF SeenOwner, SeenLinked, OwnOnly

LEMMA GoneSeen == UNCHANGED <<owner, gone>> => UNCHANGED SeenGone
BY DEF SeenGone

LEMMA RestSeen ==
  /\ UNCHANGED objects => UNCHANGED SeenObjects
  /\ UNCHANGED audit => UNCHANGED SeenAudit
  /\ UNCHANGED recordFaults => UNCHANGED SeenFaults
BY DEF SeenObjects, SeenAudit, SeenFaults, OwnOnly

LEMMA OwnArrives ==
  ASSUME RecordsTypeOK, NEW r \in Requests, NEW op \in Operation,
         NEW on \in Ids \cup {NoId}, NEW to \in Carriers \cup Clients \cup Signers \cup {NoId},
         Arrives(r, op, Observer, on, to)
  PROVE  Alone!Arrives(r, op, Observer, on, to)
<1> DEFINE q == [op |-> op, step |-> FirstStep[op], tenant |-> Observer, on |-> on, to |-> to, found |-> {}]
<1>1. FirstStep[op] \in {"insert", "find"}
  BY DEF FirstStep, Operation
<1>2. q \in Request /\ q.tenant = Observer
  BY <1>1, ObserverIsNoId DEF Request
<1>3. request \in [Requests -> Request] /\ request' = [request EXCEPT ![r] = q]
  BY DEF Arrives, RecordsTypeOK
<1>4. SeenRequest' = [SeenRequest EXCEPT ![r] = q]
  <2> HIDE DEF q
  <2> QED BY <1>2, <1>3, RequestSeen
<1>5. SeenRequest[r] = Idle
  BY DEF Arrives, SeenRequest
<1>6. UNCHANGED <<seenRows, SeenFaults>>
  BY RowsUnchanged, RestSeen DEF Arrives
<1> QED BY <1>4, <1>5, <1>6, SameNames DEF Alone!Arrives, Alone!rows, seenRows

LEMMA OwnCalled ==
  ASSUME RecordsTypeOK, NEW r \in Requests, Called(r, Observer)
  PROVE  Alone!Called(r, Observer)
<1>0. Operation = {"create", "update", "remove", "list", "upload", "download", "discard", "event"}
  BY DEF Operation, FirstStep
<1> USE <1>0 DEF Ids
<1>1. CASE Arrives(r, "create", Observer, NoId, NoId)
  BY <1>1, OwnArrives, SameNames DEF Alone!Called
<1>2. CASE Arrives(r, "list", Observer, NoId, NoId)
  BY <1>2, OwnArrives, SameNames DEF Alone!Called
<1>3. ASSUME NEW i \in Carriers \cup Clients, NEW op \in {"update", "remove"}, Arrives(r, op, Observer, i, NoId)
      PROVE  Alone!Called(r, Observer)
  <2>1. Alone!Arrives(r, op, Observer, i, NoId)
    BY <1>3, OwnArrives
  <2> QED BY <2>1, SameNames DEF Alone!Called
<1>4. ASSUME NEW f \in Files, Unused(f), NEW i \in Carriers \cup Clients, Arrives(r, "upload", Observer, f, i)
      PROVE  Alone!Called(r, Observer)
  <2>1. Alone!Arrives(r, "upload", Observer, f, i) /\ Alone!Unused(f)
    BY <1>4, OwnArrives, UnusedSeen
  <2> QED BY <2>1 DEF Alone!Called
<1>5. ASSUME NEW f \in Files, NEW op \in {"download", "discard"}, Arrives(r, op, Observer, f, NoId)
      PROVE  Alone!Called(r, Observer)
  <2>1. Alone!Arrives(r, op, Observer, f, NoId)
    BY <1>5, OwnArrives
  <2> QED BY <2>1, SameNames DEF Alone!Called
<1> QED BY <1>1, <1>2, <1>3, <1>4, <1>5 DEF Called

LEMMA OwnDelivered ==
  ASSUME RecordsTypeOK, NEW r \in Requests, NEW signer \in Signers, Delivered(r, Observer, signer)
  PROVE  Alone!Delivered(r, Observer, signer)
<1>1. "event" \in Operation
  BY DEF Operation, FirstStep
<1> QED BY <1>1, OwnArrives, SameNames DEF Delivered, Alone!Delivered

\* The observer's handlers step as those of the system alone.
LEMMA OwnInserts ==
  ASSUME RecordsTypeOK, RecordsBook, NEW r \in Requests, request[r].tenant = Observer,
         NEW i \in Carriers \cup Clients, Inserts(r, i)
  PROVE  Alone!Inserts(r, i)
<1>1. i \in Ids /\ i \notin Files
  BY RecordsAssumption DEF Ids
<1>2. Alone!At(r, "create", "insert") /\ Alone!Unused(i)
  BY <1>1, OwnAt, UnusedSeen DEF Inserts
<1>3. owner[i] = NoId /\ owner' = [owner EXCEPT ![i] = Observer] /\ UNCHANGED <<gone, linked, objects, audit, recordFaults>>
  BY DEF Inserts, Unused
<1>4. SeenOwner' = [SeenOwner EXCEPT ![i] = Observer] /\ UNCHANGED SeenGone
  BY <1>1, <1>3, RowSeen
<1>5. UNCHANGED SeenLinked
  <2>1. \A f \in Files : owner'[f] = owner[f]
    BY <1>1, <1>3 DEF RecordsTypeOK, Ids
  <2> QED BY <1>3, <2>1 DEF SeenLinked
<1>6. SeenRequest' = [SeenRequest EXCEPT ![r].on = i, ![r].step = "trace"]
  <2> DEFINE q == [request[r] EXCEPT !.on = i, !.step = "trace"]
  <2>1. request \in [Requests -> Request] /\ q \in Request /\ q.tenant = Observer
    BY <1>1 DEF RecordsTypeOK, Request
  <2>2. request' = [request EXCEPT ![r] = q]
    BY DEF Inserts
  <2>3. q = [SeenRequest[r] EXCEPT !.on = i, !.step = "trace"]
    BY Own
  <2> HIDE DEF q
  <2>4. SeenRequest' = [SeenRequest EXCEPT ![r] = q]
    BY <2>1, <2>2, RequestSeen
  <2> QED BY <2>3, <2>4
<1> QED BY <1>2, <1>3, <1>4, <1>5, <1>6, RestSeen, Own DEF Alone!Inserts

LEMMA OwnAttaches ==
  ASSUME RecordsTypeOK, RecordsBook, NEW r \in Requests, request[r].tenant = Observer, Attaches(r)
  PROVE  Alone!Attaches(r)
<1> DEFINE f == request[r].on
           e == request[r].to
<1>1. f \in Files /\ f \in Ids /\ owner[f] = NoId /\ request \in [Requests -> Request]
  BY DEF Attaches, At, RecordsBook, RequestBook, Early, Ids, RecordsTypeOK
<1>2. /\ owner' = [owner EXCEPT ![f] = Observer] /\ linked' = [linked EXCEPT ![f] = e]
      /\ Goes(r, "trace") /\ UNCHANGED <<gone, objects, audit, recordFaults>>
  BY DEF Attaches
<1>3. Alone!At(r, "upload", "attach") /\ SeenRequest[r].on = f /\ SeenRequest[r].to = e /\ SeenRequest[r].tenant = Observer
  BY OwnAt, Own DEF Attaches
<1> HIDE DEF f, e
<1>4. SeenOwner' = [SeenOwner EXCEPT ![f] = Observer] /\ UNCHANGED SeenGone
  BY <1>1, <1>2, RowSeen
<1>5. SeenLinked' = [SeenLinked EXCEPT ![f] = e]
  <2>1. \A g \in Files : /\ owner'[g] = IF g = f THEN Observer ELSE owner[g]
                         /\ linked'[g] = IF g = f THEN e ELSE linked[g]
    BY <1>1, <1>2 DEF RecordsTypeOK, Ids
  <2> QED BY <2>1 DEF SeenLinked
<1>6. Alone!Goes(r, "trace")
  BY <1>1, <1>2, OwnGoes DEF Steps
<1> QED BY <1>2, <1>3, <1>4, <1>5, <1>6, RestSeen DEF Alone!Attaches

LEMMA OwnRequest ==
  ASSUME RecordsTypeOK, RecordsBook, NEW r \in Requests, request[r].tenant = Observer
  PROVE  /\ request \in [Requests -> Request] /\ RequestBook(r) /\ RowsBook
         /\ request[r].op \in {"update", "remove", "download", "discard"} => request[r].on \in Ids
         /\ request[r].op = "upload" => request[r].to \in Ids
BY DEF RecordsTypeOK, RecordsBook, RequestBook, Ids

LEMMA OwnReads ==
  ASSUME RecordsTypeOK, RecordsBook, NEW r \in Requests, request[r].tenant = Observer
  PROVE  /\ FindsRow(r) => Alone!FindsRow(r)
         /\ FindsForFile(r) => Alone!FindsForFile(r)
<1>1. ASSUME UNCHANGED <<rows, recordFaults>> PROVE UNCHANGED <<Alone!rows, SeenFaults>>
  BY <1>1, RowsUnchanged, RestSeen DEF Alone!rows, seenRows
<1>2. ASSUME NEW op \in {"update", "remove", "download", "discard"}, NEW s \in Steps,
             At(r, op, "find"), Finds(r, request[r].on, s)
      PROVE  Alone!At(r, op, "find") /\ Alone!Finds(r, SeenRequest[r].on, s)
  <2>1. request[r].op = op
    BY <1>2 DEF At
  <2>2. PICK i \in Ids : i = request[r].on
    BY <2>1, OwnRequest
  <2>3. Alone!Finds(r, i, s)
    BY <1>2, <2>2, OwnRequest, OwnFinds
  <2> QED BY <1>2, <2>2, <2>3, OwnAt, Own
<1>3. ASSUME At(r, "upload", "find"), Finds(r, request[r].to, "put")
      PROVE  Alone!At(r, "upload", "find") /\ Alone!Finds(r, SeenRequest[r].to, "put")
  <2>1. request[r].op = "upload" /\ "put" \in Steps
    BY <1>3 DEF At, Steps
  <2>2. PICK i \in Ids : i = request[r].to
    BY <2>1, OwnRequest
  <2>3. Alone!Finds(r, i, "put")
    BY <1>3, <2>1, <2>2, OwnRequest, OwnFinds
  <2> QED BY <1>3, <2>2, <2>3, OwnAt, Own
<1>4. "write" \in Steps /\ "mark" \in Steps /\ "sign" \in Steps
  BY DEF Steps
<1>5. FindsRow(r) => Alone!FindsRow(r)
  BY <1>1, <1>2, <1>4 DEF FindsRow, Alone!FindsRow
<1>6. FindsForFile(r) => Alone!FindsForFile(r)
  BY <1>1, <1>2, <1>3, <1>4 DEF FindsForFile, Alone!FindsForFile
<1> QED BY <1>5, <1>6

LEMMA OwnWrites ==
  ASSUME RecordsTypeOK, RecordsBook, NEW r \in Requests, request[r].tenant = Observer, Writes(r)
  PROVE  Alone!Writes(r)
<1>1. UNCHANGED <<Alone!rows, SeenFaults>>
  BY RowsUnchanged, RestSeen DEF Alone!rows, seenRows, Writes
<1>2. request[r].op = "update" /\ Alone!At(r, "update", "write") /\ "trace" \in Steps
  BY OwnAt DEF Writes, At, Steps
<1>3. PICK i \in Ids : i = request[r].on
  BY <1>2, OwnRequest
<1>4. Goes(r, "trace") => Alone!Goes(r, "trace")
  BY <1>2, OwnRequest, OwnGoes
<1>5. Ends(r) => Alone!Ends(r)
  BY OwnRequest, AnyEnds
<1>6. Alone!Scoped(SeenRequest[r].tenant, SeenRequest[r].on) <=> Scoped(request[r].tenant, request[r].on)
  BY <1>3, OwnRows, Own
<1> QED BY <1>1, <1>2, <1>4, <1>5, <1>6 DEF Writes, Alone!Writes

LEMMA OwnMarks ==
  ASSUME RecordsTypeOK, RecordsBook, NEW r \in Requests, request[r].tenant = Observer, Marks(r)
  PROVE  Alone!Marks(r)
<1>1. request[r].op \in {"remove", "discard"} /\ "log" \in Steps /\ "drop" \in Steps
  BY DEF Marks, At, Steps
<1>2. PICK i \in Ids : i = request[r].on
  BY <1>1, OwnRequest
<1>3. owner[i] = Observer /\ gone' = gone \cup {i} /\ UNCHANGED <<owner, linked, objects, audit, recordFaults>>
  BY <1>2 DEF Marks, Scoped
<1>4. SeenGone' = SeenGone \cup {i}
  BY <1>3 DEF SeenGone
<1>5. /\ At(r, "remove", "mark") /\ Goes(r, "log") => Alone!At(r, "remove", "mark") /\ Alone!Goes(r, "log")
      /\ At(r, "discard", "mark") /\ Goes(r, "drop") => Alone!At(r, "discard", "mark") /\ Alone!Goes(r, "drop")
  BY <1>1, OwnRequest, OwnAt, OwnGoes
<1>6. Alone!Scoped(SeenRequest[r].tenant, SeenRequest[r].on) /\ SeenRequest[r].on = i
  BY <1>2, <1>3, OwnRows, Own DEF Scoped
<1>7. UNCHANGED <<SeenOwner, SeenLinked, SeenObjects, SeenAudit, SeenFaults>>
  BY <1>3, LinksSeen, RestSeen
<1> QED BY <1>4, <1>5, <1>6, <1>7 DEF Marks, Alone!Marks

LEMMA OwnLists ==
  ASSUME RecordsTypeOK, RecordsBook, NEW r \in Requests, request[r].tenant = Observer, ListsPage(r)
  PROVE  Alone!ListsPage(r)
<1>1. UNCHANGED <<Alone!rows, SeenFaults>>
  BY RowsUnchanged, RestSeen DEF Alone!rows, seenRows, ListsPage
<1>2. PICK kind \in {Carriers, Clients, Files} :
        request' = [request EXCEPT ![r].step = "count", ![r].found = {i \in kind : Existing(request[r].tenant, i)}]
  BY DEF ListsPage
<1>3. {i \in kind : Existing(request[r].tenant, i)} = {i \in kind : Alone!Existing(SeenRequest[r].tenant, i)}
  BY OwnRows, Own DEF Ids
<1> DEFINE found == {i \in kind : Existing(request[r].tenant, i)}
           q == [request[r] EXCEPT !.step = "count", !.found = found]
<1>4. found \in SUBSET Ids
  BY DEF Ids
<1> HIDE DEF found
<1>5. request \in [Requests -> Request] /\ q \in Request /\ q.tenant = Observer
  BY <1>4 DEF RecordsTypeOK, Request
<1>6. request' = [request EXCEPT ![r] = q]
  BY <1>2 DEF found
<1>7. q = [SeenRequest[r] EXCEPT !.step = "count", !.found = found]
  BY Own
<1> HIDE DEF q
<1>8. SeenRequest' = [SeenRequest EXCEPT ![r] = q]
  BY <1>5, <1>6, RequestSeen
<1>9. SeenRequest' = [SeenRequest EXCEPT ![r].step = "count", ![r].found = found]
  BY <1>7, <1>8
<1>10. found = {i \in kind : Alone!Existing(SeenRequest[r].tenant, i)}
  BY <1>3 DEF found
<1>11. Alone!At(r, "list", "find")
  BY OwnAt DEF ListsPage
<1> QED BY <1>1, <1>9, <1>10, <1>11 DEF Alone!ListsPage

LEMMA OwnObjects ==
  ASSUME RecordsTypeOK, RecordsBook, NEW r \in Requests, request[r].tenant = Observer
  PROVE  /\ PutsObject(r) => Alone!PutsObject(r)
         /\ DropsObject(r) => Alone!DropsObject(r)
<1>0. "attach" \in Steps /\ "log" \in Steps /\ request \in [Requests -> Request]
  BY OwnRequest DEF Steps
<1>1. ASSUME NEW f, NEW t \in {Observer, NoId}, objects' = [objects EXCEPT ![f] = t]
      PROVE  SeenObjects' = [SeenObjects EXCEPT ![f] = t]
  BY <1>1 DEF SeenObjects, OwnOnly, RecordsTypeOK
<1>2. ASSUME PutsObject(r) PROVE Alone!PutsObject(r)
  <2>1. /\ SeenObjects' = [SeenObjects EXCEPT ![request[r].on] = Observer]
        /\ UNCHANGED <<owner, linked, gone, audit, recordFaults>> /\ Goes(r, "attach")
    BY <1>1, <1>2 DEF PutsObject
  <2>2. Alone!At(r, "upload", "put") /\ Alone!Goes(r, "attach")
    BY <1>0, <1>2, <2>1, OwnAt, OwnGoes DEF PutsObject
  <2>3. UNCHANGED <<SeenOwner, SeenLinked, SeenGone, SeenAudit, SeenFaults>>
    BY <2>1, LinksSeen, GoneSeen, RestSeen
  <2> QED BY <2>1, <2>2, <2>3, Own DEF Alone!PutsObject
<1>3. ASSUME DropsObject(r) PROVE Alone!DropsObject(r)
  <2>1. /\ SeenObjects' = [SeenObjects EXCEPT ![request[r].on] = NoId]
        /\ UNCHANGED <<owner, linked, gone, audit, recordFaults>> /\ Goes(r, "log")
    BY <1>1, <1>3 DEF DropsObject
  <2>2. Alone!At(r, "discard", "drop") /\ Alone!Goes(r, "log")
    BY <1>0, <1>3, <2>1, OwnAt, OwnGoes DEF DropsObject
  <2>3. UNCHANGED <<SeenOwner, SeenLinked, SeenGone, SeenAudit, SeenFaults>>
    BY <2>1, LinksSeen, GoneSeen, RestSeen
  <2> QED BY <2>1, <2>2, <2>3, Own, SameNames DEF Alone!DropsObject
<1> QED BY <1>2, <1>3

LEMMA OwnLogs ==
  ASSUME RecordsTypeOK, RecordsBook, NEW r \in Requests, request[r].tenant = Observer
  PROVE  /\ LogsRemoval(r) => Alone!LogsRemoval(r)
         /\ RecordsMutation(r) => Alone!RecordsMutation(r)
         /\ RecordsEvent(r) => Alone!RecordsEvent(r)
<1>1. Ends(r) => Alone!Ends(r)
  BY OwnRequest, AnyEnds
<1>2. UNCHANGED <<owner, linked, gone, objects, recordFaults>>
        => UNCHANGED <<SeenOwner, SeenLinked, SeenGone, SeenObjects, SeenFaults>>
  BY LinksSeen, GoneSeen, RestSeen
<1>3. \A action, i : Log(action, request[r].tenant, i) => Alone!Log(action, Observer, i)
  BY TraceSeen
<1>4. /\ Log("removed", request[r].tenant, request[r].on) => Alone!Log("removed", SeenRequest[r].tenant, SeenRequest[r].on)
      /\ Log("mutation", request[r].tenant, request[r].on) => Alone!Log("mutation", SeenRequest[r].tenant, SeenRequest[r].on)
      /\ Log("event", request[r].tenant, request[r].to) => Alone!Log("event", SeenRequest[r].tenant, SeenRequest[r].to)
  BY <1>3, Own DEF Log, Alone!Log, SeenAudit
<1>5. LogsRemoval(r) => Alone!LogsRemoval(r)
  BY <1>1, <1>2, <1>4, Own DEF LogsRemoval, Alone!LogsRemoval
<1>6. RecordsMutation(r) => Alone!RecordsMutation(r)
  BY <1>1, <1>2, <1>4, Own DEF RecordsMutation, Alone!RecordsMutation
<1>7. RecordsEvent(r) => Alone!RecordsEvent(r)
  BY <1>1, <1>2, <1>4, OwnAt DEF RecordsEvent, Alone!RecordsEvent
<1> QED BY <1>5, <1>6, <1>7

LEMMA OwnEnds ==
  ASSUME RecordsTypeOK, RecordsBook, NEW r \in Requests, request[r].tenant = Observer
  PROVE  /\ Returns(r) => Alone!Returns(r)
         /\ Verifies(r) => Alone!Verifies(r)
         /\ Refuses(r) => Alone!Refuses(r)
         /\ GivesUp(r) => Alone!GivesUp(r)
<1>1. Ends(r) => Alone!Ends(r)
  BY OwnRequest, AnyEnds
<1>2. UNCHANGED rows => UNCHANGED Alone!rows
  BY RowsUnchanged DEF Alone!rows, seenRows
<1>3. UNCHANGED <<rows, recordFaults>> => UNCHANGED <<Alone!rows, SeenFaults>>
  BY <1>2, RestSeen
<1>4. Returns(r) => Alone!Returns(r)
  BY <1>1, <1>3, Own DEF Returns, Alone!Returns
<1>5. Refuses(r) => Alone!Refuses(r)
  BY <1>1, <1>3, Own DEF Refuses, Alone!Refuses
<1>6. ASSUME Verifies(r) PROVE Alone!Verifies(r)
  <2>1. Goes(r, "log") => Alone!Goes(r, "log")
    BY OwnRequest, OwnGoes DEF Steps
  <2>2. Alone!At(r, "event", "find")
    BY <1>6, OwnAt DEF Verifies
  <2> QED BY <1>1, <1>3, <1>6, <2>1, <2>2, Own DEF Verifies, Alone!Verifies
<1>7. ASSUME GivesUp(r) PROVE Alone!GivesUp(r)
  <2>1. /\ recordFaults[Observer] < MaxRecordFaults /\ UNCHANGED rows /\ Ends(r)
        /\ recordFaults' = [recordFaults EXCEPT ![Observer] = recordFaults[Observer] + 1]
    BY <1>7 DEF GivesUp
  <2>2. SeenFaults' = [SeenFaults EXCEPT ![Observer] = recordFaults[Observer] + 1]
    BY <2>1, ObserverIsNoId DEF SeenFaults, RecordsTypeOK
  <2>3. SeenFaults[Observer] = recordFaults[Observer]
    BY DEF SeenFaults
  <2>4. SeenRequest[r].step \notin {"none", "insert", "find"} /\ SeenRequest[r].tenant = Observer
    BY <1>7, Own DEF GivesUp
  <2> QED BY <1>1, <1>2, <2>1, <2>2, <2>3, <2>4 DEF Alone!GivesUp
<1> QED BY <1>4, <1>5, <1>6, <1>7

LEMMA OwnHandler ==
  ASSUME RecordsTypeOK, RecordsBook, NEW r \in Requests, request[r].tenant = Observer, Handler(r)
  PROVE  Alone!Handler(r)
<1>1. CASE InsertsCarrier(r) \/ InsertsClient(r)
  <2>1. InsertsCarrier(r) => Alone!InsertsCarrier(r)
    BY OwnInserts DEF InsertsCarrier, Alone!InsertsCarrier
  <2>2. InsertsClient(r) => Alone!InsertsClient(r)
    BY OwnInserts DEF InsertsClient, Alone!InsertsClient
  <2> QED BY <1>1, <2>1, <2>2 DEF Alone!Handler
<1>2. CASE FindsRow(r) \/ FindsForFile(r) \/ PutsObject(r) \/ DropsObject(r)
  BY <1>2, OwnReads, OwnObjects DEF Alone!Handler
<1>3. CASE Writes(r) \/ Marks(r) \/ ListsPage(r) \/ Attaches(r)
  BY <1>3, OwnWrites, OwnMarks, OwnLists, OwnAttaches DEF Alone!Handler
<1>4. CASE LogsRemoval(r) \/ RecordsMutation(r) \/ RecordsEvent(r)
  BY <1>4, OwnLogs DEF Alone!Handler
<1>5. CASE Returns(r) \/ Verifies(r) \/ Refuses(r) \/ GivesUp(r)
  BY <1>5, OwnEnds DEF Alone!Handler
<1> QED BY <1>1, <1>2, <1>3, <1>4, <1>5 DEF Handler

\* What the requests of the others do, the observer does not see.
LEMMA OtherArrives ==
  ASSUME RecordsTypeOK, RecordsTypeOK', NEW r \in Requests, NEW op \in Operation, NEW t \in Tenants, t # Observer,
         NEW on, NEW to, Arrives(r, op, t, on, to)
  PROVE  UNCHANGED Alone!recordVars
<1>1. request \in [Requests -> Request] /\ request' \in [Requests -> Request]
  BY DEF RecordsTypeOK
<1>2. request[r].tenant # Observer /\ request'[r].tenant = t /\ \A o \in Requests \ {r} : request'[o] = request[o]
  BY <1>1, ObserverIsNoId DEF Arrives, Idle
<1>3. UNCHANGED SeenRequest
  BY <1>1, <1>2, RequestUnseen
<1> QED BY <1>3, RowsUnchanged, RestSeen DEF Arrives, Alone!recordVars, Alone!rows, seenRows

LEMMA OtherCall ==
  ASSUME RecordsTypeOK, RecordsTypeOK', NEW r \in Requests, NEW t \in Tenants, t # Observer,
         Called(r, t) \/ \E signer \in Signers : Delivered(r, t, signer)
  PROVE  UNCHANGED Alone!recordVars
<1>1. Operation = {"create", "update", "remove", "list", "upload", "download", "discard", "event"}
  BY DEF Operation, FirstStep
<1>2. PICK op \in Operation, on \in Ids \cup {NoId}, to \in Ids \cup Signers \cup {NoId} : Arrives(r, op, t, on, to)
  BY <1>1 DEF Called, Delivered, Ids
<1> QED BY <1>2, OtherArrives

\* A request stays with its tenant.
LEMMA TenantIsKept ==
  ASSUME RecordsTypeOK, NEW r \in Requests, Handler(r)
  PROVE  request'[r].tenant \in {request[r].tenant, NoId}
<1> USE DEF Steps
<1>0. request \in [Requests -> Request]
  BY DEF RecordsTypeOK
<1>1. Ends(r) => request'[r].tenant = NoId
  BY <1>0 DEF Ends, Idle
<1>2. \A s \in Steps : Goes(r, s) => request'[r].tenant = request[r].tenant
  BY <1>0, RequestGoes
<1>3. CASE InsertsCarrier(r) \/ InsertsClient(r)
  BY <1>0, <1>3, RequestInserts DEF InsertsCarrier, InsertsClient, Inserts, Ids
<1>4. CASE FindsRow(r) \/ FindsForFile(r)
  <2>1. PICK i, s : Finds(r, i, s)
    BY <1>4 DEF FindsRow, FindsForFile
  <2> QED BY <1>0, <1>1, <2>1 DEF Finds, Request
<1>5. CASE ListsPage(r)
  BY <1>0, <1>5 DEF ListsPage, Request
<1>6. CASE Writes(r) \/ Marks(r) \/ PutsObject(r) \/ Attaches(r) \/ DropsObject(r) \/ Verifies(r)
  BY <1>1, <1>2, <1>6 DEF Writes, Marks, PutsObject, Attaches, DropsObject, Verifies
<1>7. CASE \/ LogsRemoval(r) \/ RecordsMutation(r) \/ Returns(r) \/ RecordsEvent(r)
           \/ Refuses(r) \/ GivesUp(r)
  BY <1>1, <1>7 DEF LogsRemoval, RecordsMutation, Returns, RecordsEvent, Refuses, GivesUp
<1> QED BY <1>3, <1>4, <1>5, <1>6, <1>7 DEF Handler

LEMMA OtherRow ==
  ASSUME RecordsTypeOK, RecordsBook, NEW i \in Ids, owner[i] = NoId, NEW t, t # Observer,
         owner' = [owner EXCEPT ![i] = t], UNCHANGED gone,
         \A f \in Files \ {i} : linked'[f] = linked[f]
  PROVE  UNCHANGED <<SeenOwner, SeenLinked, SeenGone>>
<1>1. \A j \in Ids : owner'[j] = IF j = i THEN t ELSE owner[j]
  BY DEF RecordsTypeOK
<1>2. UNCHANGED SeenOwner
  BY <1>1, ObserverIsNoId DEF SeenOwner, OwnOnly
<1>3. UNCHANGED SeenGone
  BY <1>1, ObserverIsNoId DEF SeenGone, RecordsTypeOK
<1>4. UNCHANGED SeenLinked
  BY <1>1, ObserverIsNoId DEF SeenLinked, Ids
<1> QED BY <1>2, <1>3, <1>4

LEMMA OtherRows ==
  ASSUME RecordsTypeOK, RecordsBook, NEW r \in Requests, request[r].tenant # Observer, Handler(r)
  PROVE  UNCHANGED <<seenRows, SeenFaults>>
<1>0. RequestBook(r) /\ RowsBook
  BY DEF RecordsBook
<1> DEFINE Unseen == UNCHANGED <<seenRows, SeenFaults>>
<1>1. ASSUME UNCHANGED rows, UNCHANGED recordFaults PROVE Unseen
  BY <1>1, RowsUnchanged, RestSeen
<1>2. ASSUME NEW i \in Carriers \cup Clients, Inserts(r, i) PROVE Unseen
  <2>1. /\ i \in Ids /\ owner[i] = NoId /\ owner' = [owner EXCEPT ![i] = request[r].tenant]
        /\ UNCHANGED <<linked, gone, objects, audit, recordFaults>>
    BY <1>2 DEF Inserts, Unused, Ids
  <2> QED BY <2>1, OtherRow, RestSeen DEF seenRows
<1>3. ASSUME Attaches(r) PROVE Unseen
  <2>1. PICK i \in Ids : i = request[r].on /\ owner[i] = NoId
    BY <1>0, <1>3 DEF Attaches, At, RequestBook, Early, Ids
  <2>2. /\ owner' = [owner EXCEPT ![i] = request[r].tenant] /\ \A f \in Files \ {i} : linked'[f] = linked[f]
        /\ UNCHANGED <<gone, objects, audit, recordFaults>>
    BY <1>3, <2>1 DEF Attaches, RecordsTypeOK
  <2> QED BY <2>1, <2>2, OtherRow, RestSeen DEF seenRows
<1>4. ASSUME Marks(r) PROVE Unseen
  <2>1. UNCHANGED <<owner, linked, objects, audit, recordFaults>> /\ gone' = gone \cup {request[r].on}
        /\ owner[request[r].on] = request[r].tenant
    BY <1>4 DEF Marks, Scoped
  <2>2. UNCHANGED SeenGone
    BY <2>1 DEF SeenGone
  <2> QED BY <2>1, <2>2, LinksSeen, RestSeen DEF seenRows
<1>5. ASSUME NEW f, NEW t \in Tenants \cup {NoId}, objects' = [objects EXCEPT ![f] = t],
             t # Observer, f \in Files, objects[f] # Observer,
             UNCHANGED <<owner, linked, gone, audit, recordFaults>>
      PROVE  Unseen
  <2>1. UNCHANGED SeenObjects
    BY <1>5 DEF SeenObjects, OwnOnly, RecordsTypeOK
  <2> QED BY <1>5, <2>1, LinksSeen, GoneSeen, RestSeen DEF seenRows
<1>6. ASSUME PutsObject(r) PROVE Unseen
  <2>1. /\ request[r].on \in Files /\ objects[request[r].on] = NoId /\ request[r].tenant \in Tenants
        /\ objects' = [objects EXCEPT ![request[r].on] = request[r].tenant]
        /\ UNCHANGED <<owner, linked, gone, audit, recordFaults>>
    BY <1>0, <1>6 DEF PutsObject, At, RequestBook
  <2> QED BY <1>5, <2>1, ObserverIsNoId
<1>7. ASSUME DropsObject(r) PROVE Unseen
  <2>1. /\ request[r].on \in Files /\ owner[request[r].on] = request[r].tenant /\ request[r].tenant \in Tenants
        /\ objects' = [objects EXCEPT ![request[r].on] = NoId]
        /\ UNCHANGED <<owner, linked, gone, audit, recordFaults>>
    BY <1>0, <1>7 DEF DropsObject, At, RequestBook
  <2>2. objects[request[r].on] # Observer
    BY <1>0, <2>1, ObserverIsNoId, RecordsAssumption DEF RowsBook
  <2> QED BY <1>5, <2>1, <2>2, ObserverIsNoId
<1>8. ASSUME LogsRemoval(r) \/ RecordsMutation(r) \/ RecordsEvent(r) PROVE Unseen
  <2>1. PICK action, i : Log(action, request[r].tenant, i)
    BY <1>8 DEF LogsRemoval, RecordsMutation, RecordsEvent
  <2>2. UNCHANGED SeenAudit
    BY <2>1 DEF Log, SeenAudit
  <2>3. UNCHANGED <<owner, linked, gone, objects, recordFaults>>
    BY <1>8 DEF LogsRemoval, RecordsMutation, RecordsEvent
  <2> QED BY <2>2, <2>3, LinksSeen, GoneSeen, RestSeen DEF seenRows
<1>9. ASSUME GivesUp(r) PROVE Unseen
  <2>1. UNCHANGED rows /\ recordFaults' = [recordFaults EXCEPT ![request[r].tenant] = @ + 1]
    BY <1>9 DEF GivesUp
  <2>2. UNCHANGED SeenFaults
    BY <2>1 DEF SeenFaults, RecordsTypeOK
  <2> QED BY <2>1, <2>2, RowsUnchanged
<1>10. ASSUME \/ FindsRow(r) \/ Writes(r) \/ ListsPage(r) \/ FindsForFile(r) \/ Returns(r)
              \/ Verifies(r) \/ Refuses(r)
       PROVE  Unseen
  <2>1. UNCHANGED rows /\ UNCHANGED recordFaults
    BY <1>10 DEF FindsRow, Writes, ListsPage, FindsForFile, Returns, Verifies, Refuses
  <2> QED BY <1>1, <2>1
<1> HIDE DEF Unseen
<1>11. Unseen
  BY <1>2, <1>3, <1>4, <1>6, <1>7, <1>8, <1>9, <1>10 DEF Handler, InsertsCarrier, InsertsClient
<1> QED BY <1>11 DEF Unseen

LEMMA OtherHandler ==
  ASSUME RecordsTypeOK, RecordsTypeOK', RecordsBook, NEW r \in Requests, request[r].tenant # Observer, Handler(r)
  PROVE  UNCHANGED Alone!recordVars
<1>1. UNCHANGED <<seenRows, SeenFaults>>
  BY OtherRows
<1>2. \A o \in Requests \ {r} : request'[o] = request[o]
  BY OthersAreKept
<1>3. request'[r].tenant # Observer
  BY TenantIsKept, ObserverIsNoId
<1>4. UNCHANGED SeenRequest
  BY <1>2, <1>3, RequestUnseen DEF RecordsTypeOK
<1> QED BY <1>1, <1>4 DEF Alone!recordVars, Alone!rows, seenRows

LEMMA SeenStart == RecordsInit => Alone!RecordsInit
<1> SUFFICES ASSUME RecordsInit PROVE Alone!RecordsInit
  OBVIOUS
<1>1. SeenOwner = [i \in Ids |-> NoId] /\ SeenLinked = [f \in Files |-> NoId] /\ SeenGone = {}
  BY ObserverIsNoId DEF RecordsInit, SeenOwner, SeenLinked, SeenGone, OwnOnly, Ids
<1>2. SeenObjects = [f \in Files |-> NoId] /\ SeenAudit = {}
  BY ObserverIsNoId DEF RecordsInit, SeenObjects, SeenAudit, OwnOnly
<1>3. SeenRequest = [r \in Requests |-> Idle] /\ SeenFaults = [t \in {Observer} |-> 0]
  BY ObserverIsNoId DEF RecordsInit, SeenRequest, SeenFaults
<1> QED BY <1>1, <1>2, <1>3, SameNames DEF Alone!RecordsInit

LEMMA SeenStep ==
  ASSUME RecordsTypeOK, RecordsBook, [RecordsNext]_recordVars
  PROVE  [Alone!RecordsNext]_(Alone!recordVars)
<1>0. RecordsTypeOK'
  BY RecordsStep
<1> DEFINE Apart == UNCHANGED Alone!recordVars \/ Alone!RecordsNext
<1>1. ASSUME NEW r \in Requests, NEW t \in Tenants, Called(r, t) \/ \E signer \in Signers : Delivered(r, t, signer)
      PROVE  Apart
  <2>1. CASE t # Observer
    BY <1>0, <1>1, <2>1, OtherCall
  <2>2. CASE t = Observer
    <3>1. Called(r, Observer) => Alone!Called(r, Observer)
      BY OwnCalled
    <3>2. \A signer \in Signers : Delivered(r, Observer, signer) => Alone!Delivered(r, Observer, signer)
      BY OwnDelivered
    <3> QED BY <1>1, <2>2, <3>1, <3>2 DEF Alone!RecordsNext, Called, Delivered
  <2> QED BY <2>1, <2>2
<1>2. ASSUME NEW r \in Requests, Handler(r) PROVE Apart
  <2>1. CASE request[r].tenant # Observer
    BY <1>0, <1>2, <2>1, OtherHandler
  <2>2. CASE request[r].tenant = Observer
    BY <1>2, <2>2, OwnHandler DEF Alone!RecordsNext
  <2> QED BY <2>1, <2>2
<1>3. ASSUME UNCHANGED recordVars PROVE Apart
  <2>1. UNCHANGED <<rows, recordFaults>> /\ UNCHANGED request
    BY <1>3 DEF recordVars
  <2>2. UNCHANGED SeenRequest
    BY <2>1 DEF SeenRequest
  <2> QED BY <2>1, <2>2, RowsUnchanged, RestSeen DEF Alone!recordVars, Alone!rows, seenRows
<1> QED BY <1>1, <1>2, <1>3 DEF RecordsNext

\* Whatever the requests of the other tenants are sent and fail at, what a
\* tenant reads and what becomes of its rows, files and trail could have
\* happened in a database of its own.
THEOREM TenantsWorkAlone == RecordsSpec => TenantsAreApart
<1>1. RecordsInv /\ [RecordsNext]_recordVars
        => [UNCHANGED Alone!recordVars \/ Alone!RecordsNext]_(Alone!recordVars)
  BY SeenStep DEF RecordsInv
<1> QED BY <1>1, SeenStart, RecordsStart, RecordsKeep, PTL DEF RecordsSpec, TenantsAreApart
=============================================================================
