---------------------------- MODULE FreightQuotes ----------------------------
(***************************************************************************)
(* The life of a freight quote of one tenant.  An HTTP handler stores the  *)
(* row and enqueues a BullMQ job; the worker of the same API process       *)
(* (concurrency 1) prices the quote against the active carriers; the       *)
(* listener onFailed turns failures into ERROR; both announce the row to   *)
(* the tenant's sockets.  PATCH and DELETE handlers run beside them.       *)
(* Every action is the code between two awaits of one of these actors.     *)
(*                                                                         *)
(* Any awaited MySQL or Redis call may fail (a fault); one that took       *)
(* effect before its reply was lost is the step followed by a fault at the *)
(* next await.  The process may crash: its handlers, its run and its       *)
(* listeners are lost, the rows and the jobs stay.                         *)
(***************************************************************************)
EXTENDS Naturals

CONSTANTS
  Quotes,           \* the quotes that may be requested
  Carriers,         \* the tenant's carriers
  PatchValues,      \* the statuses a PATCH of the run may carry
  MaxStalledCount,  \* BullMQ: how often a job may stall before it fails
  MaxRemovals,      \* bound: DELETE requests per quote
  MaxToggles,       \* bound: edits of the set of active carriers
  MaxFaults,        \* bound: awaited calls that fail
  MaxCrashes        \* bound: crashes of the API process

Status == {"PENDING", "PROCESSING", "DONE", "ERROR"}

ASSUME BoundsAssumption ==
  /\ MaxStalledCount \in Nat
  /\ MaxRemovals \in Nat
  /\ MaxToggles \in Nat
  /\ MaxFaults \in Nat
  /\ MaxCrashes \in Nat

ASSUME PatchAssumption == PatchValues \subseteq Status

VARIABLES
  status,     \* FreightQuote.status, "absent" before the row exists
  deleted,    \* quotes whose row has a deletedAt
  options,    \* FreightQuoteOption rows of a quote, per carrier
  audit,      \* FREIGHT_QUOTE_DELETED rows of a quote
  carriers,   \* carriers with active = true and no deletedAt
  job,        \* where BullMQ keeps the quote's job
  stalls,     \* how often the job was found stalled
  creating,   \* the POST handler: what it does next, or how it ended
  run,        \* the worker's run of process(job): what it does next
  found,      \* the local variable `carriers` of the last run
  failing,    \* the onFailed listener: what it does next
  patch,      \* the status a PATCH handler past its findOne will write
  removing,   \* DELETE handlers past their findOne
  auditing,   \* DELETE handlers past their update of deletedAt
  announced,  \* the status last emitted to the tenant's room
  attempts,   \* history: how often process(job) was called
  patched,    \* history: a PATCH wrote the status
  toggles, faults, crashes

rows == <<status, deleted, options, audit, carriers>>
queue == <<job, stalls>>
worker == <<run, found, attempts>>
requests == <<patch, removing, auditing, patched>>
bounds == <<toggles, faults, crashes>>
vars == <<rows, queue, creating, worker, failing, requests, announced, bounds>>

JobState == {"none", "waiting", "active", "completed", "failed"}
CreateStep == {"idle", "enqueue", "reply", "replied", "refused"}
RunStep == {"idle", "read", "processing", "carriers", "options", "done",
            "emit", "ack", "failed"}
FailStep == {"idle", "mark", "emit"}

Concluded(q) == job[q] \in {"completed", "failed"}

Init ==
  /\ status = [q \in Quotes |-> "absent"]
  /\ deleted = {}
  /\ options = [q \in Quotes |-> [c \in Carriers |-> 0]]
  /\ audit = [q \in Quotes |-> 0]
  /\ carriers \in SUBSET Carriers
  /\ job = [q \in Quotes |-> "none"]
  /\ stalls = [q \in Quotes |-> 0]
  /\ creating = [q \in Quotes |-> "idle"]
  /\ run = [q \in Quotes |-> "idle"]
  /\ found = [q \in Quotes |-> {}]
  /\ failing = [q \in Quotes |-> "idle"]
  /\ patch = [q \in Quotes |-> "absent"]
  /\ removing = [q \in Quotes |-> 0]
  /\ auditing = [q \in Quotes |-> 0]
  /\ announced = [q \in Quotes |-> "absent"]
  /\ attempts = [q \in Quotes |-> 0]
  /\ patched = [q \in Quotes |-> FALSE]
  /\ toggles = 0
  /\ faults = 0
  /\ crashes = 0

\* One more awaited call fails.
Fault == faults < MaxFaults /\ faults' = faults + 1
-----------------------------------------------------------------------------
(* FreightQuotesService.create *)

CreateRow(q) ==
  /\ creating[q] = "idle"
  /\ status' = [status EXCEPT ![q] = "PENDING"]
  /\ creating' = [creating EXCEPT ![q] = "enqueue"]
  /\ UNCHANGED <<deleted, options, audit, carriers, queue, worker, failing,
                 requests, announced, bounds>>

Enqueue(q) ==
  /\ creating[q] = "enqueue"
  /\ job' = [job EXCEPT ![q] = "waiting"]
  /\ creating' = [creating EXCEPT ![q] = "reply"]
  /\ UNCHANGED <<rows, stalls, worker, failing, requests, announced, bounds>>

\* return this.findOne(quote.id): a quote deleted meanwhile is a 404.
Reply(q) ==
  /\ creating[q] = "reply"
  /\ creating' = [creating EXCEPT ![q] =
                    IF q \in deleted THEN "refused" ELSE "replied"]
  /\ UNCHANGED <<rows, queue, worker, failing, requests, announced, bounds>>

CreateThrows(q) ==
  /\ creating[q] \in {"enqueue", "reply"}
  /\ Fault
  /\ creating' = [creating EXCEPT ![q] = "refused"]
  /\ UNCHANGED <<rows, queue, worker, failing, requests, announced,
                 toggles, crashes>>
-----------------------------------------------------------------------------
(* BullMQ: hands waiting jobs to the only run slot, records how a run      *)
(* ended, and puts a job whose run vanished back to wait.                  *)

Busy == \E q \in Quotes : run[q] # "idle"

TakeJob(q) ==
  /\ job[q] = "waiting"
  /\ ~Busy
  /\ stalls[q] <= MaxStalledCount
  /\ job' = [job EXCEPT ![q] = "active"]
  /\ run' = [run EXCEPT ![q] = "read"]
  /\ attempts' = [attempts EXCEPT ![q] = @ + 1]
  /\ UNCHANGED <<rows, stalls, creating, found, failing, requests, announced, bounds>>

\* A job that stalled too often fails without another call of process.
FailStalledJob(q) ==
  /\ job[q] = "waiting"
  /\ ~Busy
  /\ stalls[q] > MaxStalledCount
  /\ job' = [job EXCEPT ![q] = "failed"]
  /\ failing' = [failing EXCEPT ![q] = "mark"]
  /\ UNCHANGED <<rows, stalls, creating, worker, requests, announced, bounds>>

\* A run that is at `step` ends: its job and its listener go on from there.
End(q, step, to, listener) ==
  /\ run[q] = step
  /\ run' = [run EXCEPT ![q] = "idle"]
  /\ job' = [job EXCEPT ![q] = to]
  /\ failing' = [failing EXCEPT ![q] = listener]
  /\ UNCHANGED <<rows, stalls, creating, found, attempts, requests, announced, bounds>>

Complete(q) == End(q, "ack", "completed", "idle")

\* Mutant: attempts: 2, a run that threw is tried again, while the listener
\* hears of every failed attempt.
FailRetrying(q) == End(q, "failed", "waiting", "mark")

\* Mutant: the listener is not registered.
FailUnheard(q) == End(q, "failed", "failed", "idle")

\* attempts: 1, so a run that threw is final; "failed" calls the listener.
Fail(q) == End(q, "failed", "failed", "mark")

\* Redis refuses to record the end of the run: the job stays active, without
\* a lock, and no event is emitted.
LoseAck(q) ==
  /\ run[q] \in {"ack", "failed"}
  /\ Fault
  /\ run' = [run EXCEPT ![q] = "idle"]
  /\ UNCHANGED <<rows, queue, creating, found, attempts, failing, requests,
                 announced, toggles, crashes>>

\* BullMQ finds a job that is active but has no live run, and lets it wait.
StalledCheck(q) ==
  /\ job[q] = "active"
  /\ run[q] = "idle"
  /\ job' = [job EXCEPT ![q] = "waiting"]
  /\ stalls' = [stalls EXCEPT ![q] = @ + 1]
  /\ UNCHANGED <<rows, creating, worker, failing, requests, announced, bounds>>
-----------------------------------------------------------------------------
(* FreightQuoteCalculationProcessor.process and generateOptions *)

\* One await of the run returns.
Advance(q, step, to) ==
  /\ run[q] = step
  /\ run' = [run EXCEPT ![q] = to]
  /\ UNCHANGED <<deleted, audit, carriers, queue, creating, attempts, failing,
                 requests, toggles, crashes>>

SetStatus(q, s) ==
  status' = [status EXCEPT ![q] = s] /\ UNCHANGED <<options, found, announced, faults>>

\* findFirstOrThrow without a deletedAt filter: rows are never removed.
ReadQuote(q) ==
  /\ Advance(q, "read", "processing")
  /\ UNCHANGED <<status, options, found, announced, faults>>

MarkProcessing(q) ==
  Advance(q, "processing", "carriers") /\ SetStatus(q, "PROCESSING")

\* Mutant: a run that finds no carrier looks again.
ReadCarriersPolls(q) ==
  /\ Advance(q, "carriers", IF carriers = {} THEN "carriers" ELSE "options")
  /\ found' = [found EXCEPT ![q] = carriers]
  /\ UNCHANGED <<status, options, announced, faults>>

ReadCarriers(q) ==
  /\ Advance(q, "carriers", IF carriers = {} THEN "done" ELSE "options")
  /\ found' = [found EXCEPT ![q] = carriers]
  /\ UNCHANGED <<status, options, announced, faults>>

AddOptions(q) ==
  /\ options' = [options EXCEPT ![q] =
       [c \in Carriers |-> options[q][c] + (IF c \in found[q] THEN 1 ELSE 0)]]
  /\ UNCHANGED <<status, found, announced>>

\* Mutant: an insertion whose reply is lost is tried again.
CreateOptionsRetried(q) ==
  /\ AddOptions(q)
  /\ \/ Advance(q, "options", "options") /\ Fault
     \/ Advance(q, "options", "done") /\ UNCHANGED faults

CreateOptions(q) ==
  Advance(q, "options", "done") /\ AddOptions(q) /\ UNCHANGED faults

\* Mutant: process ends without emitCurrentState.
MarkDoneSilently(q) == Advance(q, "done", "ack") /\ SetStatus(q, "DONE")

MarkDone(q) == Advance(q, "done", "emit") /\ SetStatus(q, "DONE")

\* emitCurrentState re-reads the row and emits what it read.
Emit(q) ==
  /\ Advance(q, "emit", "ack")
  /\ announced' = [announced EXCEPT ![q] = status[q]]
  /\ UNCHANGED <<status, options, found, faults>>

\* An await of the run, or BullMQ's record of its success, throws.
RunThrows(q) ==
  /\ run[q] \notin {"idle", "failed"}
  /\ Fault
  /\ run' = [run EXCEPT ![q] = "failed"]
  /\ UNCHANGED <<rows, queue, creating, found, attempts, failing, requests,
                 announced, toggles, crashes>>
-----------------------------------------------------------------------------
(* The listener onFailed: BullMQ does not await it, so the worker may take *)
(* another job meanwhile.                                                  *)

OnFailedMark(q) ==
  /\ failing[q] = "mark"
  /\ status' = [status EXCEPT ![q] = "ERROR"]
  /\ failing' = [failing EXCEPT ![q] = "emit"]
  /\ UNCHANGED <<deleted, options, audit, carriers, queue, creating, worker,
                 requests, announced, bounds>>

OnFailedEmit(q) ==
  /\ failing[q] = "emit"
  /\ announced' = [announced EXCEPT ![q] = status[q]]
  /\ failing' = [failing EXCEPT ![q] = "idle"]
  /\ UNCHANGED <<rows, queue, creating, worker, requests, bounds>>

\* Its rejection is handled by nobody (Node.js may also stop: see Crash).
OnFailedThrows(q) ==
  /\ failing[q] # "idle"
  /\ Fault
  /\ failing' = [failing EXCEPT ![q] = "idle"]
  /\ UNCHANGED <<rows, queue, creating, worker, requests, announced, toggles,
                 crashes>>
-----------------------------------------------------------------------------
(* FreightQuotesService.update and remove: findOne, then the writes.  One  *)
(* PATCH per quote is in flight; one that carries no status changes        *)
(* nothing this module keeps.                                              *)

Visible(q) == status[q] # "absent" /\ q \notin deleted

PatchCheck(q) ==
  /\ patch[q] = "absent"
  /\ Visible(q)
  /\ \E s \in PatchValues : patch' = [patch EXCEPT ![q] = s]
  /\ UNCHANGED <<rows, queue, creating, worker, failing, removing, auditing,
                 patched, announced, bounds>>

PatchApply(q) ==
  /\ patch[q] # "absent"
  /\ status' = [status EXCEPT ![q] = patch[q]]
  /\ patch' = [patch EXCEPT ![q] = "absent"]
  /\ patched' = [patched EXCEPT ![q] = TRUE]
  /\ UNCHANGED <<deleted, options, audit, carriers, queue, creating, worker,
                 failing, removing, auditing, announced, bounds>>

RemoveCheck(q) ==
  /\ Visible(q)
  /\ removing[q] + auditing[q] + audit[q] < MaxRemovals
  /\ removing' = [removing EXCEPT ![q] = @ + 1]
  /\ UNCHANGED <<rows, queue, creating, worker, failing, patch, auditing,
                 patched, announced, bounds>>

\* Mutant: remove returns after the update of deletedAt.
RemoveApplyUnaudited(q) ==
  /\ removing[q] > 0
  /\ deleted' = deleted \cup {q}
  /\ removing' = [removing EXCEPT ![q] = @ - 1]
  /\ UNCHANGED <<status, options, audit, carriers, queue, creating, worker,
                 failing, patch, auditing, patched, announced, bounds>>

RemoveApply(q) ==
  /\ removing[q] > 0
  /\ deleted' = deleted \cup {q}
  /\ removing' = [removing EXCEPT ![q] = @ - 1]
  /\ auditing' = [auditing EXCEPT ![q] = @ + 1]
  /\ UNCHANGED <<status, options, audit, carriers, queue, creating, worker,
                 failing, patch, patched, announced, bounds>>

RemoveAudit(q) ==
  /\ auditing[q] > 0
  /\ auditing' = [auditing EXCEPT ![q] = @ - 1]
  /\ audit' = [audit EXCEPT ![q] = @ + 1]
  /\ UNCHANGED <<status, deleted, options, carriers, queue, creating, worker,
                 failing, patch, removing, patched, announced, bounds>>

RemoveThrows(q) ==
  /\ Fault
  /\ \/ /\ removing[q] > 0
        /\ removing' = [removing EXCEPT ![q] = @ - 1]
        /\ UNCHANGED auditing
     \/ /\ auditing[q] > 0
        /\ auditing' = [auditing EXCEPT ![q] = @ - 1]
        /\ UNCHANGED removing
  /\ UNCHANGED <<rows, queue, creating, worker, failing, patch, patched,
                 announced, toggles, crashes>>
-----------------------------------------------------------------------------
(* The carriers page edits, removes or adds a carrier. *)
ToggleCarrier(c) ==
  /\ toggles < MaxToggles
  /\ toggles' = toggles + 1
  /\ carriers' = IF c \in carriers THEN carriers \ {c} ELSE carriers \cup {c}
  /\ UNCHANGED <<status, deleted, options, audit, queue, creating, worker,
                 failing, requests, announced, faults, crashes>>

(* The process stops and is started again. *)
Crash ==
  /\ crashes < MaxCrashes
  /\ crashes' = crashes + 1
  /\ creating' = [q \in Quotes |-> IF creating[q] \in {"enqueue", "reply"}
                                   THEN "refused" ELSE creating[q]]
  /\ run' = [q \in Quotes |-> "idle"]
  /\ failing' = [q \in Quotes |-> "idle"]
  /\ patch' = [q \in Quotes |-> "absent"]
  /\ removing' = [q \in Quotes |-> 0]
  /\ auditing' = [q \in Quotes |-> 0]
  /\ UNCHANGED <<rows, queue, found, attempts, patched, announced, toggles,
                 faults>>
-----------------------------------------------------------------------------
\* The steps that emit "freight-quote.updated" to the tenant's room.
Announce(q) == Emit(q) \/ OnFailedEmit(q)

RunNext(q) ==
  \/ ReadQuote(q) \/ MarkProcessing(q) \/ ReadCarriers(q) \/ CreateOptions(q)
  \/ MarkDone(q) \/ Complete(q) \/ Fail(q)

Silent(q) ==
  \/ CreateRow(q) \/ Enqueue(q) \/ CreateThrows(q)
  \/ TakeJob(q) \/ FailStalledJob(q) \/ StalledCheck(q)
  \/ RunNext(q) \/ RunThrows(q) \/ LoseAck(q)
  \/ OnFailedMark(q) \/ OnFailedThrows(q)
  \/ PatchCheck(q) \/ PatchApply(q)
  \/ RemoveCheck(q) \/ RemoveApply(q) \/ RemoveAudit(q) \/ RemoveThrows(q)

Next ==
  \/ \E q \in Quotes : Announce(q) \/ Reply(q) \/ Silent(q)
  \/ \E c \in Carriers : ToggleCarrier(c)
  \/ Crash

Spec == Init /\ [][Next]_vars

\* A handler that was started goes on; BullMQ keeps polling for waiting jobs
\* and for stalled ones.
Fairness ==
  \A q \in Quotes :
    /\ WF_vars(Enqueue(q) \/ Reply(q))
    /\ WF_vars(TakeJob(q) \/ FailStalledJob(q))
    /\ WF_vars(StalledCheck(q))
    /\ WF_vars(RunNext(q) \/ Emit(q))
    /\ WF_vars(OnFailedMark(q) \/ OnFailedEmit(q))

FairSpec == Spec /\ Fairness
-----------------------------------------------------------------------------
\* More went wrong than one failed call.
Disturbed == faults > 1 \/ crashes > 0

TypeOK ==
  /\ status \in [Quotes -> Status \cup {"absent"}]
  /\ deleted \subseteq Quotes
  /\ options \in [Quotes -> [Carriers -> Nat]]
  /\ audit \in [Quotes -> Nat]
  /\ carriers \subseteq Carriers
  /\ job \in [Quotes -> JobState]
  /\ stalls \in [Quotes -> Nat]
  /\ creating \in [Quotes -> CreateStep]
  /\ run \in [Quotes -> RunStep]
  /\ found \in [Quotes -> SUBSET Carriers]
  /\ failing \in [Quotes -> FailStep]
  /\ patch \in [Quotes -> PatchValues \cup {"absent"}]
  /\ removing \in [Quotes -> Nat]
  /\ auditing \in [Quotes -> Nat]
  /\ announced \in [Quotes -> Status \cup {"absent"}]
  /\ attempts \in [Quotes -> Nat]
  /\ patched \in [Quotes -> BOOLEAN]
  /\ toggles \in Nat
  /\ faults \in Nat
  /\ crashes \in Nat

\* A quote shows no carrier more often than its job was handed to the
\* processor, and BullMQ hands a job out at most MaxStalledCount + 1 times:
\* generateOptions inserts options once per call of process and never
\* repeats the insertion by itself.
OptionsBoundedByAttempts ==
  \A q \in Quotes :
    /\ attempts[q] <= MaxStalledCount + 1
    /\ \A c \in Carriers : options[q][c] <= attempts[q]

\* A quote that the background code shows as DONE has an option for every
\* carrier its last findMany returned: no reader sees DONE before the options
\* are stored, not even when a second run prices the quote again.
DoneMeansQuoted ==
  \A q \in Quotes :
    status[q] = "DONE" /\ ~patched[q] =>
      \A c \in found[q] : options[q][c] > 0

\* Unless somebody PATCHed the status, a completed job left the row DONE and
\* DONE is the last thing the tenant's room was told about it.
CompletedMeansAnnounced ==
  \A q \in Quotes :
    job[q] = "completed" /\ ~patched[q] =>
      status[q] = "DONE" /\ announced[q] = "DONE"

\* The background code shows ERROR only for a job that failed for good: a
\* quote never turns from ERROR into anything else by itself.
ErrorOnlyAfterFailure ==
  \A q \in Quotes :
    status[q] = "ERROR" /\ ~patched[q] => job[q] = "failed"

\* With one failed call and no crash, a job that failed and whose listener
\* has returned is shown as ERROR, on the row and in the room.
SingleFaultIsReported ==
  \A q \in Quotes :
    job[q] = "failed" /\ failing[q] = "idle" /\ ~patched[q] /\ ~Disturbed
    => status[q] = "ERROR" /\ announced[q] = "ERROR"

\* A removal leaves its audit row unless a failure came between the two
\* writes; and nothing is audited that was not removed.
RemovalsAudited ==
  \A q \in Quotes :
    /\ audit[q] + auditing[q] > 0 => q \in deleted
    /\ q \in deleted /\ faults = 0 /\ crashes = 0 => audit[q] + auditing[q] > 0

\* Once its job has concluded nothing in the background adds options to a
\* quote, runs it again, or takes the conclusion back.
ConclusionIsFinal ==
  [][\A q \in Quotes : Concluded(q) =>
       /\ options'[q] = options[q]
       /\ job'[q] = job[q]
       /\ attempts'[q] = attempts[q]]_vars

\* The inductive invariant behind the invariants above, per quote.
\* Where the job is, and how often it was handed out.
JobBook(q) ==
  /\ creating[q] \in {"idle", "enqueue"} => job[q] = "none"
  /\ run[q] # "idle" => job[q] = "active"
  /\ failing[q] # "idle" => job[q] = "failed"
  /\ job[q] \in {"none", "waiting"} => attempts[q] = stalls[q]
  /\ job[q] = "active" =>
       attempts[q] = stalls[q] + 1 /\ stalls[q] <= MaxStalledCount
  /\ attempts[q] <= MaxStalledCount + 1

\* A run that has yet to store its options has not used up its attempt.
OptionBook(q) ==
  \A c \in Carriers :
    /\ options[q][c] <= attempts[q]
    /\ run[q] \in {"read", "processing", "carriers", "options"} =>
         options[q][c] < attempts[q]

\* What the row and the room show while nobody PATCHes the status.
StatusBook(q) ==
  ~patched[q] =>
    /\ status[q] = "ERROR" => job[q] = "failed"
    /\ run[q] \in {"carriers", "options", "done"} => status[q] = "PROCESSING"
    /\ run[q] \in {"emit", "ack"} \/ job[q] = "completed" => status[q] = "DONE"
    /\ run[q] = "ack" \/ job[q] = "completed" => announced[q] = "DONE"
    /\ status[q] = "DONE" \/ run[q] = "done" =>
         \A c \in found[q] : options[q][c] > 0

\* Nothing fails without a cause, and one cause does not silence the listener.
FaultBook(q) ==
  /\ \/ run[q] = "failed" \/ job[q] = "failed" \/ stalls[q] > 0
     \/ job[q] = "active" /\ run[q] = "idle"
     => faults + crashes > 0
  /\ ~patched[q] /\ job[q] = "failed" /\ ~Disturbed =>
       /\ failing[q] # "mark" => status[q] = "ERROR"
       /\ failing[q] = "idle" => announced[q] = "ERROR"

Bookkeeping ==
  \A q \in Quotes :
    JobBook(q) /\ OptionBook(q) /\ StatusBook(q) /\ FaultBook(q)

\* An enqueued job is completed or failed in the end, whatever fails.
EnqueuedJobConcludes ==
  \A q \in Quotes : job[q] = "waiting" ~> Concluded(q)

\* With at most one failed call, a quote whose POST was answered, and any other
\* that was enqueued, ends as DONE or ERROR for good.
QuoteSettles ==
  \A q \in Quotes :
    creating[q] = "replied" \/ job[q] = "waiting"
      ~> Disturbed \/ [](status[q] \in {"DONE", "ERROR"})

\* ADR-006 sets attempts to 1 because a second run would duplicate the
\* options of a quote: no carrier appears twice.
NoDuplicateOptions ==
  \A q \in Quotes : \A c \in Carriers : options[q][c] <= 1
=============================================================================
