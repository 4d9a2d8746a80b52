--------------------------- MODULE QuoteScreenProofs ---------------------------
(***************************************************************************)
(* What the page shows of its quote, for any tenant, any failures and any  *)
(* number of runs of the job.  A status that was read stays true: what     *)
(* DONE or ERROR stand for is kept by every later step of the backend, so  *)
(* that an answer or event may be as late as it likes.                     *)
(***************************************************************************)
EXTENDS QuoteScreen, FreightQuotesProofs

\* What DONE and ERROR stand for from the moment that a row shows them.
DoneStands(q) ==
  ~patched[q] =>
    /\ attempts[q] >= 1
    /\ attempts[q] = 1 =>
         /\ run[q] \notin {"read", "processing", "carriers", "options", "done"}
         /\ \A c \in found[q] : options[q][c] > 0

ErrorStands(q) == ~patched[q] => job[q] = "failed"

Stands(s, q) == (s = "DONE" => DoneStands(q)) /\ (s = "ERROR" => ErrorStands(q))

\* A row shows what stands, and is there once its POST is under way.
RowBook(q) ==
  /\ Stands(status[q], q)
  /\ status[q] = "absent" => creating[q] = "idle"

\* What is on its way to the page, or on it, once was the row's status.
ScreenBook ==
  /\ RowBook(Mine)
  /\ Stands(shown, Mine) /\ Stands(response, Mine) /\ Stands(fetch, Mine)
  /\ \A i \in 1..Len(wire) : Stands(wire[i], Mine)
  /\ response # "absent" \/ fetch # "idle" => status[Mine] # "absent"

ScreenInv == IInv /\ ScreenTypeOK /\ ScreenBook
-----------------------------------------------------------------------------
\* What a row showed still stands after any step of the backend.
LEMMA StandsStep ==
  ASSUME IInv, [Next]_vars, NEW q \in Quotes
  PROVE  /\ DoneStands(q) => DoneStands(q)'
         /\ ErrorStands(q) => ErrorStands(q)'
<1>. USE DEF DoneStands, ErrorStands, TypeOK, JobBook, vars, rows, queue, worker, requests, bounds
<1>1. TypeOK /\ JobBook(q)
  BY DEF IInv, Bookkeeping
<1>2. ASSUME NEW p \in Quotes, Announce(p) \/ Reply(p) \/ Silent(p)
      PROVE  (DoneStands(q) => DoneStands(q)') /\ (ErrorStands(q) => ErrorStands(q)')
  <2>1. CASE Announce(p) \/ Reply(p) \/ CreateRow(p) \/ Enqueue(p) \/ CreateThrows(p)
    BY <1>1, <2>1 DEF Announce, Emit, Advance, OnFailedEmit, Reply, CreateRow, Enqueue, CreateThrows
  <2>2. CASE TakeJob(p)
    BY <1>1, <2>2 DEF TakeJob
  <2>3. CASE FailStalledJob(p) \/ StalledCheck(p) \/ RunThrows(p) \/ LoseAck(p)
    BY <1>1, <2>3 DEF FailStalledJob, StalledCheck, RunThrows, LoseAck
  <2>4. CASE ReadQuote(p) \/ MarkProcessing(p) \/ ReadCarriers(p) \/ MarkDone(p)
    BY <1>1, <2>4 DEF ReadQuote, MarkProcessing, ReadCarriers, MarkDone, Advance, SetStatus
  <2>5. CASE CreateOptions(p)
    BY <1>1, <2>5 DEF CreateOptions, Advance, AddOptions
  <2>6. CASE Complete(p) \/ Fail(p)
    BY <1>1, <2>6 DEF Complete, Fail, End
  <2>7. CASE OnFailedMark(p) \/ OnFailedThrows(p) \/ PatchCheck(p) \/ PatchApply(p)
    BY <1>1, <2>7 DEF OnFailedMark, OnFailedThrows, PatchCheck, PatchApply
  <2>8. CASE RemoveCheck(p) \/ RemoveApply(p) \/ RemoveAudit(p) \/ RemoveThrows(p)
    BY <1>1, <2>8 DEF RemoveCheck, RemoveApply, RemoveAudit, RemoveThrows
  <2> QED BY <1>2, <2>1, <2>2, <2>3, <2>4, <2>5, <2>6, <2>7, <2>8 DEF Silent, RunNext
<1>3. CASE \E c \in Carriers : ToggleCarrier(c)
  BY <1>3 DEF ToggleCarrier
<1>4. CASE Crash
  BY <1>1, <1>4 DEF Crash
<1>5. CASE UNCHANGED vars
  BY <1>5
<1> QED BY <1>2, <1>3, <1>4, <1>5 DEF Next

\* A row shows what stands after any step of the backend, and stays.
LEMMA RowStep ==
  ASSUME IInv, [Next]_vars, NEW q \in Quotes, RowBook(q)
  PROVE  /\ RowBook(q)'
         /\ status[q] # "absent" => status'[q] # "absent"
<1> DEFINE Goal == RowBook(q)' /\ (status[q] # "absent" => status'[q] # "absent")
<1> SUFFICES Goal
  OBVIOUS
<1>1. TypeOK /\ JobBook(q) /\ StatusBook(q)
  BY DEF IInv, Bookkeeping
<1>2. (DoneStands(q) => DoneStands(q)') /\ (ErrorStands(q) => ErrorStands(q)')
  BY StandsStep
<1>3. ASSUME status'[q] = status[q], status[q] = "absent" => creating'[q] = creating[q]
      PROVE  Goal
  BY <1>2, <1>3 DEF RowBook, Stands
<1>4. ASSUME status'[q] \in {"PENDING", "PROCESSING"} PROVE Goal
  BY <1>4 DEF RowBook, Stands
<1>5. ASSUME status'[q] \in Status, patched'[q] PROVE Goal
  BY <1>5 DEF RowBook, Stands, DoneStands, ErrorStands, Status
<1>. USE DEF TypeOK, vars, rows, queue, worker, requests, bounds
<1>6. ASSUME NEW p \in Quotes, MarkDone(p) PROVE Goal
  <2>1. CASE p # q
    BY <1>1, <1>3, <1>6, <2>1 DEF MarkDone, Advance, SetStatus
  <2>2. CASE p = q
    <3>1. run[q] = "done" /\ run'[q] = "emit" /\ status'[q] = "DONE"
          /\ UNCHANGED <<attempts, found, options, patched>>
      BY <1>1, <1>6, <2>2 DEF MarkDone, Advance, SetStatus
    <3>2. attempts[q] >= 1
      BY <1>1, <3>1 DEF JobBook
    <3>3. DoneStands(q)'
      BY <1>1, <3>1, <3>2 DEF DoneStands, StatusBook
    <3> QED BY <3>1, <3>3 DEF RowBook, Stands
  <2> QED BY <2>1, <2>2
<1>7. ASSUME NEW p \in Quotes, OnFailedMark(p) PROVE Goal
  <2>1. CASE p # q
    BY <1>1, <1>3, <1>7, <2>1 DEF OnFailedMark
  <2>2. CASE p = q
    <3>1. job'[q] = "failed" /\ status'[q] = "ERROR"
      BY <1>1, <1>7, <2>2 DEF OnFailedMark, JobBook
    <3> QED BY <3>1 DEF RowBook, Stands, ErrorStands
  <2> QED BY <2>1, <2>2
<1>8. ASSUME NEW p \in Quotes, PatchApply(p) PROVE Goal
  <2>1. CASE p # q
    BY <1>1, <1>3, <1>8, <2>1 DEF PatchApply
  <2>2. CASE p = q
    BY <1>1, <1>5, <1>8, <2>2, PatchAssumption DEF PatchApply
  <2> QED BY <2>1, <2>2
<1>9. ASSUME NEW p \in Quotes, CreateRow(p) PROVE Goal
  BY <1>1, <1>3, <1>4, <1>9 DEF CreateRow
<1>10. ASSUME NEW p \in Quotes, MarkProcessing(p) PROVE Goal
  BY <1>1, <1>3, <1>4, <1>10 DEF MarkProcessing, Advance, SetStatus
<1>11. ASSUME NEW p \in Quotes, Enqueue(p) \/ CreateThrows(p) \/ Reply(p) PROVE Goal
  BY <1>1, <1>3, <1>11 DEF Enqueue, CreateThrows, Reply, RowBook
<1>12. ASSUME NEW p \in Quotes,
              \/ Announce(p) \/ TakeJob(p) \/ FailStalledJob(p) \/ StalledCheck(p) \/ RunThrows(p)
              \/ LoseAck(p) \/ OnFailedThrows(p) \/ Complete(p) \/ Fail(p)
       PROVE  Goal
  BY <1>3, <1>12 DEF Announce, Emit, OnFailedEmit, Advance, TakeJob, FailStalledJob, StalledCheck,
       RunThrows, LoseAck, OnFailedThrows, Complete, Fail, End
<1>13. ASSUME NEW p \in Quotes, ReadQuote(p) \/ ReadCarriers(p) \/ CreateOptions(p) PROVE Goal
  BY <1>3, <1>13 DEF ReadQuote, ReadCarriers, CreateOptions, AddOptions, Advance
<1>14. ASSUME NEW p \in Quotes,
              PatchCheck(p) \/ RemoveCheck(p) \/ RemoveApply(p) \/ RemoveAudit(p) \/ RemoveThrows(p)
       PROVE  Goal
  BY <1>3, <1>14 DEF PatchCheck, RemoveCheck, RemoveApply, RemoveAudit, RemoveThrows
<1>15. CASE \E c \in Carriers : ToggleCarrier(c)
  BY <1>3, <1>15 DEF ToggleCarrier
<1>16. CASE Crash
  BY <1>1, <1>3, <1>16 DEF Crash, RowBook
<1>17. CASE UNCHANGED vars
  BY <1>3, <1>17
<1> QED BY <1>6, <1>7, <1>8, <1>9, <1>10, <1>11, <1>12, <1>13, <1>14, <1>15, <1>16, <1>17
        DEF Next, Silent, RunNext

-----------------------------------------------------------------------------
\* Whatever the page and the network do, the backend takes its own steps.
LEMMA BackendStep ==
  ASSUME [ScreenNext]_allVars
  PROVE  [Next]_vars
<1>1. CASE BackendAnnounces \/ BackendReplies \/ BackendWorks \/ BackendCrashes
  BY <1>1 DEF BackendAnnounces, BackendReplies, BackendWorks, BackendCrashes, Next
<1>2. CASE NetworkStep
  BY <1>2 DEF NetworkStep, GatewayJoins, GatewayRejects, ApiAnswers
<1>3. CASE PageStep
  BY <1>3 DEF PageStep, PostAnswered, FetchResolves, FetchRejects, EventArrives, SocketErrorArrives, TimeoutFires
<1>4. CASE UNCHANGED allVars
  BY <1>4 DEF allVars
<1> QED BY <1>1, <1>2, <1>3, <1>4 DEF ScreenNext

LEMMA ScreenStart == ScreenInit => ScreenInv
<1> SUFFICES ASSUME ScreenInit PROVE ScreenInv
  OBVIOUS
<1>1. IInv
  BY InitIInv DEF ScreenInit
<1>2. ScreenTypeOK
  <2>1. TypeOK
    BY <1>1 DEF IInv
  <2>2. statusError \in BOOLEAN /\ settled \in BOOLEAN
    BY DEF ScreenInit
  <2>3. /\ shown \in Status \cup {"absent"} /\ response \in Status \cup {"absent"}
        /\ fetch \in FetchState /\ socket \in SocketState /\ timer \in {"off", "armed", "fired"}
    BY DEF ScreenInit, FetchState, SocketState
  <2>4. wire \in Seq(Status)
    BY DEF ScreenInit
  <2> QED BY <2>1, <2>2, <2>3, <2>4 DEF ScreenTypeOK
<1>3. status[Mine] = "absent" /\ creating[Mine] = "idle"
  BY ScreenAssumption DEF ScreenInit, Init
<1>4. ScreenBook
  BY <1>3 DEF ScreenInit, ScreenBook, RowBook, Stands
<1> QED BY <1>1, <1>2, <1>4 DEF ScreenInv

\* The steps keep the types of the page and the network.
LEMMA ScreenTypeStep ==
  ASSUME ScreenInv, TypeOK', [ScreenNext]_allVars
  PROVE  ScreenTypeOK'
<1> USE DEF ScreenTypeOK, FetchState, SocketState, page, network, screenVars
<1>1. ScreenTypeOK /\ TypeOK /\ ScreenBook
  BY DEF ScreenInv, IInv
<1>2. CASE BackendAnnounces
  <2>1. PICK q \in Quotes :
          /\ Announce(q)
          /\ wire' = IF q = Mine /\ socket = "joined" THEN Append(wire, status[q]) ELSE wire
          /\ UNCHANGED <<page, response, fetch, socket, timer>>
    BY <1>2 DEF BackendAnnounces
  <2>2. q = Mine => status[q] \in Status
    <3>1. run[q] = "emit" \/ failing[q] = "emit"
      BY <2>1 DEF Announce, Emit, OnFailedEmit, Advance
    <3>2. JobBook(q)
      BY DEF ScreenInv, IInv, Bookkeeping
    <3>3. q = Mine => creating[q] # "idle"
      BY <3>1, <3>2 DEF JobBook
    <3> QED BY <1>1, <3>3 DEF ScreenBook, RowBook, TypeOK
  <2>3. wire' \in Seq(Status)
    BY <1>1, <2>1, <2>2
  <2> QED BY <1>1, <2>1, <2>3
<1>3. CASE BackendReplies
  BY <1>1, <1>3 DEF BackendReplies, TypeOK
<1>4. CASE BackendWorks
  BY <1>1, <1>4 DEF BackendWorks
<1>5. CASE BackendCrashes
  <2>1. wire' = wire \/ wire' = << >>
    BY <1>5 DEF BackendCrashes
  <2>2. socket' \in SocketState /\ fetch' \in FetchState
    BY <1>1, <1>5 DEF BackendCrashes
  <2>3. << >> \in Seq(Status)
    OBVIOUS
  <2>4. wire \in Seq(Status)
    BY <1>1
  <2>5. wire' \in Seq(Status)
    BY <2>1, <2>3, <2>4
  <2> QED BY <1>1, <1>5, <2>2, <2>5 DEF BackendCrashes
<1>6. CASE GatewayJoins \/ GatewayRejects
  BY <1>1, <1>6 DEF GatewayJoins, GatewayRejects
<1>7. CASE ApiAnswers
  BY <1>1, <1>7, ScreenAssumption DEF ApiAnswers, ScreenBook, TypeOK
<1>8. CASE PostAnswered
  BY <1>1, <1>8 DEF PostAnswered
<1>9. CASE FetchResolves \/ FetchRejects
  BY <1>1, <1>9 DEF FetchResolves, FetchRejects
<1>10. CASE EventArrives
  BY <1>1, <1>10 DEF EventArrives
<1>11. CASE SocketErrorArrives \/ TimeoutFires
  BY <1>1, <1>11 DEF SocketErrorArrives, TimeoutFires
<1>12. CASE UNCHANGED allVars
  BY <1>1, <1>12 DEF allVars
<1> QED BY <1>2, <1>3, <1>4, <1>5, <1>6, <1>7, <1>8, <1>9, <1>10, <1>11, <1>12
        DEF ScreenNext, NetworkStep, PageStep

\* What is on the wire after an event is sent, or taken.
LEMMA AppendedEvent ==
  ASSUME NEW w \in Seq(Status), NEW e
  PROVE  \A i \in 1..Len(Append(w, e)) :
           Append(w, e)[i] = e \/ \E j \in 1..Len(w) : Append(w, e)[i] = w[j]
OBVIOUS

LEMMA TakenEvent ==
  ASSUME NEW w \in Seq(Status), w # << >>
  PROVE  /\ \E j \in 1..Len(w) : Head(w) = w[j]
         /\ \A i \in 1..Len(Tail(w)) : \E j \in 1..Len(w) : Tail(w)[i] = w[j]
OBVIOUS

\* The steps keep the book of what is on its way.
LEMMA ScreenBookStep ==
  ASSUME ScreenInv, [ScreenNext]_allVars
  PROVE  ScreenBook'
<1>1. ScreenTypeOK /\ ScreenBook /\ IInv /\ Mine \in Quotes
  BY ScreenAssumption DEF ScreenInv
<1>2. [Next]_vars
  BY BackendStep
<1>3. (DoneStands(Mine) => DoneStands(Mine)') /\ (ErrorStands(Mine) => ErrorStands(Mine)')
  BY <1>1, <1>2, StandsStep
<1>4. RowBook(Mine)' /\ (status[Mine] # "absent" => status'[Mine] # "absent")
  BY <1>1, <1>2, RowStep DEF ScreenBook
<1>5. \A s : Stands(s, Mine) => (s = "DONE" => DoneStands(Mine)') /\ (s = "ERROR" => ErrorStands(Mine)')
  BY <1>3 DEF Stands
<1>6. Stands(status[Mine], Mine)
  BY <1>1 DEF ScreenBook, RowBook
<1> USE <1>1, <1>4, <1>5 DEF ScreenBook, Stands, ScreenTypeOK, page, network, screenVars
<1>7. CASE BackendAnnounces
  <2>1. PICK q \in Quotes :
          /\ Announce(q)
          /\ wire' = IF q = Mine /\ socket = "joined" THEN Append(wire, status[q]) ELSE wire
          /\ UNCHANGED <<page, response, fetch, socket, timer>>
    BY <1>7 DEF BackendAnnounces
  <2>2. CASE wire' = wire
    BY <2>1, <2>2
  <2>3. CASE q = Mine /\ wire' = Append(wire, status[Mine])
    <3>1. \A i \in 1..Len(wire') : wire'[i] = status[Mine] \/ \E j \in 1..Len(wire) : wire'[i] = wire[j]
      BY <2>3, AppendedEvent
    <3> QED BY <1>6, <2>1, <3>1
  <2> QED BY <2>1, <2>2, <2>3
<1>8. CASE BackendReplies
  BY <1>6, <1>8 DEF BackendReplies
<1>9. CASE BackendWorks
  BY <1>9 DEF BackendWorks
<1>10. CASE BackendCrashes
  <2>1. /\ wire' = wire \/ wire' = << >>
        /\ fetch' = "failed" \/ fetch' = fetch
        /\ fetch' # "idle" => fetch # "idle"
        /\ UNCHANGED <<shown, response>>
    BY <1>10 DEF BackendCrashes
  <2>2. \A i \in 1..Len(wire') : \E j \in 1..Len(wire) : wire'[i] = wire[j]
    BY <2>1
  <2> QED BY <2>1, <2>2
<1>11. CASE GatewayJoins \/ GatewayRejects
  BY <1>11 DEF GatewayJoins, GatewayRejects
<1>12. CASE ApiAnswers
  BY <1>6, <1>12 DEF ApiAnswers
<1>13. CASE PostAnswered
  BY <1>13 DEF PostAnswered
<1>14. CASE FetchResolves \/ FetchRejects
  <2>1. /\ shown' = fetch \/ shown' = shown
        /\ fetch' \in {"over", "lost"} /\ fetch # "idle"
        /\ UNCHANGED <<response, wire>>
    BY <1>14 DEF FetchResolves, FetchRejects, Status
  <2> QED BY <2>1
<1>15. CASE EventArrives
  <2>1. \A i \in 1..Len(wire') : \E j \in 1..Len(wire) : wire'[i] = wire[j]
    BY <1>15, TakenEvent DEF EventArrives
  <2>2. \E j \in 1..Len(wire) : shown' = wire[j]
    BY <1>15, TakenEvent DEF EventArrives
  <2> QED BY <1>15, <2>1, <2>2 DEF EventArrives
<1>16. CASE SocketErrorArrives \/ TimeoutFires
  BY <1>16 DEF SocketErrorArrives, TimeoutFires
<1>17. CASE UNCHANGED allVars
  BY <1>17 DEF allVars
<1> QED BY <1>7, <1>8, <1>9, <1>10, <1>11, <1>12, <1>13, <1>14, <1>15, <1>16, <1>17
        DEF ScreenNext, NetworkStep, PageStep

-----------------------------------------------------------------------------
LEMMA ScreenStep ==
  ASSUME ScreenInv, [ScreenNext]_allVars
  PROVE  ScreenInv'
<1>1. IInv'
  BY BackendStep, NextIInv DEF ScreenInv
<1>2. ScreenTypeOK'
  BY <1>1, ScreenTypeStep DEF IInv
<1>3. ScreenBook'
  BY ScreenBookStep
<1> QED BY <1>1, <1>2, <1>3 DEF ScreenInv

LEMMA ScreenInvHolds == ScreenSpec => []ScreenInv
<1>1. ScreenInv /\ [ScreenNext]_allVars => ScreenInv'
  BY ScreenStep
<1> QED BY <1>1, ScreenStart, PTL DEF ScreenSpec

\* The page, its requests, socket and timer keep their types beside any backend.
THEOREM ScreenTypeCorrect == ScreenSpec => []ScreenTypeOK
<1>1. ScreenInv => ScreenTypeOK
  BY DEF ScreenInv
<1> QED BY <1>1, ScreenInvHolds, PTL

\* For any number of runs, failures and crashes: a result that the page shows is
\* one that the backend reached and still stands by, however late it came.
THEOREM ShownResultStands == ScreenSpec => []ShownResultIsReal
<1>1. ScreenInv => ShownResultIsReal
  BY DEF ScreenInv, ScreenBook, Stands, DoneStands, ErrorStands, ShownResultIsReal
<1> QED BY <1>1, ScreenInvHolds, PTL
=============================================================================
