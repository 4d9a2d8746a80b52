------------------------ MODULE FreightQuotesProofs ------------------------
(***************************************************************************)
(* What FreightQuotes guarantees for every set of quotes and carriers and  *)
(* every bound.  TypeOK is inductive by itself; Bookkeeping is inductive   *)
(* next to it, one book at a time and each book per quote: a step on one   *)
(* quote, or on the whole process, keeps the books of every quote p.  The  *)
(* safety properties are read off the books, and so is that the service    *)
(* implements QuoteOutcome.  At the end, what is in an option.             *)
(***************************************************************************)
EXTENDS QuoteRefinement, Pricing, TLAPS

IInv == TypeOK /\ Bookkeeping

\* Every step keeps every variable in its type: what the handlers write is
\* always a status, a step or a count, whatever fails in between.
LEMMA TypeStep ==
  ASSUME TypeOK, [Next]_vars
  PROVE  TypeOK'
<1>. USE BoundsAssumption, PatchAssumption
     DEF TypeOK, Status, JobState, CreateStep, RunStep, FailStep, vars, rows,
         queue, worker, requests, bounds
<1>1. ASSUME NEW q \in Quotes, CreateRow(q) PROVE TypeOK'
  BY <1>1 DEF CreateRow
<1>2. ASSUME NEW q \in Quotes, Enqueue(q) PROVE TypeOK'
  BY <1>2 DEF Enqueue
<1>3. ASSUME NEW q \in Quotes, Reply(q) PROVE TypeOK'
  BY <1>3 DEF Reply
<1>4. ASSUME NEW q \in Quotes, CreateThrows(q) PROVE TypeOK'
  BY <1>4 DEF CreateThrows, Fault
<1>5. ASSUME NEW q \in Quotes, TakeJob(q) PROVE TypeOK'
  BY <1>5 DEF TakeJob
<1>6. ASSUME NEW q \in Quotes, FailStalledJob(q) PROVE TypeOK'
  BY <1>6 DEF FailStalledJob
<1>7. ASSUME NEW q \in Quotes, Complete(q) PROVE TypeOK'
  BY <1>7 DEF Complete, End
<1>8. ASSUME NEW q \in Quotes, Fail(q) PROVE TypeOK'
  BY <1>8 DEF Fail, End
<1>9. ASSUME NEW q \in Quotes, LoseAck(q) PROVE TypeOK'
  BY <1>9 DEF LoseAck, Fault
<1>10. ASSUME NEW q \in Quotes, StalledCheck(q) PROVE TypeOK'
  BY <1>10 DEF StalledCheck
<1>11. ASSUME NEW q \in Quotes, ReadQuote(q) PROVE TypeOK'
  BY <1>11 DEF ReadQuote, Advance
<1>12. ASSUME NEW q \in Quotes, MarkProcessing(q) PROVE TypeOK'
  BY <1>12 DEF MarkProcessing, Advance, SetStatus
<1>13. ASSUME NEW q \in Quotes, ReadCarriers(q) PROVE TypeOK'
  BY <1>13 DEF ReadCarriers, Advance
<1>14. ASSUME NEW q \in Quotes, CreateOptions(q) PROVE TypeOK'
  BY <1>14 DEF CreateOptions, Advance, AddOptions
<1>15. ASSUME NEW q \in Quotes, MarkDone(q) PROVE TypeOK'
  BY <1>15 DEF MarkDone, Advance, SetStatus
<1>16. ASSUME NEW q \in Quotes, Emit(q) PROVE TypeOK'
  BY <1>16 DEF Emit, Advance
<1>17. ASSUME NEW q \in Quotes, RunThrows(q) PROVE TypeOK'
  BY <1>17 DEF RunThrows, Fault
<1>18. ASSUME NEW q \in Quotes, OnFailedMark(q) PROVE TypeOK'
  BY <1>18 DEF OnFailedMark
<1>19. ASSUME NEW q \in Quotes, OnFailedEmit(q) PROVE TypeOK'
  BY <1>19 DEF OnFailedEmit
<1>20. ASSUME NEW q \in Quotes, OnFailedThrows(q) PROVE TypeOK'
  BY <1>20 DEF OnFailedThrows, Fault
<1>21. ASSUME NEW q \in Quotes, PatchCheck(q) PROVE TypeOK'
  BY <1>21 DEF PatchCheck
<1>22. ASSUME NEW q \in Quotes, PatchApply(q) PROVE TypeOK'
  BY <1>22 DEF PatchApply
<1>23. ASSUME NEW q \in Quotes, RemoveCheck(q) PROVE TypeOK'
  BY <1>23 DEF RemoveCheck
<1>24. ASSUME NEW q \in Quotes, RemoveApply(q) PROVE TypeOK'
  BY <1>24 DEF RemoveApply
<1>25. ASSUME NEW q \in Quotes, RemoveAudit(q) PROVE TypeOK'
  BY <1>25 DEF RemoveAudit
<1>26. ASSUME NEW q \in Quotes, RemoveThrows(q) PROVE TypeOK'
  <2>1. CASE removing[q] > 0 /\ removing' = [removing EXCEPT ![q] = @ - 1]
             /\ UNCHANGED auditing
    BY <1>26, <2>1 DEF RemoveThrows, Fault
  <2>2. CASE auditing[q] > 0 /\ auditing' = [auditing EXCEPT ![q] = @ - 1]
             /\ UNCHANGED removing
    BY <1>26, <2>2 DEF RemoveThrows, Fault
  <2>3. QED
    BY <1>26, <2>1, <2>2 DEF RemoveThrows
<1>27. ASSUME NEW c \in Carriers, ToggleCarrier(c) PROVE TypeOK'
  BY <1>27 DEF ToggleCarrier
<1>28. CASE Crash
  BY <1>28 DEF Crash
<1>29. CASE UNCHANGED vars
  BY <1>29
<1>30. QED
  BY <1>1, <1>2, <1>3, <1>4, <1>5, <1>6, <1>7, <1>8, <1>9, <1>10, <1>11,
     <1>12, <1>13, <1>14, <1>15, <1>16, <1>17, <1>18, <1>19, <1>20, <1>21,
     <1>22, <1>23, <1>24, <1>25, <1>26, <1>27, <1>28, <1>29
     DEF Next, Announce, Silent, RunNext

-----------------------------------------------------------------------------
\* A step keeps the record of where the job of a quote is and how often it
\* was handed out: only BullMQ's own moves touch it.
LEMMA JobBookStep ==
  ASSUME TypeOK, NEW p \in Quotes, JobBook(p), [Next]_vars
  PROVE  JobBook(p)'
<1>. USE BoundsAssumption, PatchAssumption
     DEF TypeOK, JobBook, JobState, CreateStep, RunStep, FailStep, vars,
         rows, queue, worker, requests, bounds
<1>1. ASSUME NEW q \in Quotes, CreateRow(q) PROVE JobBook(p)'
  BY <1>1 DEF CreateRow
<1>2. ASSUME NEW q \in Quotes, Enqueue(q) PROVE JobBook(p)'
  BY <1>2 DEF Enqueue
<1>3. ASSUME NEW q \in Quotes, Reply(q) PROVE JobBook(p)'
  BY <1>3 DEF Reply
<1>4. ASSUME NEW q \in Quotes, CreateThrows(q) PROVE JobBook(p)'
  BY <1>4 DEF CreateThrows, Fault
<1>5. ASSUME NEW q \in Quotes, TakeJob(q) PROVE JobBook(p)'
  BY <1>5 DEF TakeJob
<1>6. ASSUME NEW q \in Quotes, FailStalledJob(q) PROVE JobBook(p)'
  BY <1>6 DEF FailStalledJob
<1>7. ASSUME NEW q \in Quotes, Complete(q) PROVE JobBook(p)'
  BY <1>7 DEF Complete, End
<1>8. ASSUME NEW q \in Quotes, Fail(q) PROVE JobBook(p)'
  BY <1>8 DEF Fail, End
<1>9. ASSUME NEW q \in Quotes, LoseAck(q) PROVE JobBook(p)'
  BY <1>9 DEF LoseAck, Fault
<1>10. ASSUME NEW q \in Quotes, StalledCheck(q) PROVE JobBook(p)'
  BY <1>10 DEF StalledCheck
<1>11. ASSUME NEW q \in Quotes, ReadQuote(q) PROVE JobBook(p)'
  BY <1>11 DEF ReadQuote, Advance
<1>12. ASSUME NEW q \in Quotes, MarkProcessing(q) PROVE JobBook(p)'
  BY <1>12 DEF MarkProcessing, Advance, SetStatus
<1>13. ASSUME NEW q \in Quotes, ReadCarriers(q) PROVE JobBook(p)'
  BY <1>13 DEF ReadCarriers, Advance
<1>14. ASSUME NEW q \in Quotes, CreateOptions(q) PROVE JobBook(p)'
  BY <1>14 DEF CreateOptions, Advance, AddOptions
<1>15. ASSUME NEW q \in Quotes, MarkDone(q) PROVE JobBook(p)'
  BY <1>15 DEF MarkDone, Advance, SetStatus
<1>16. ASSUME NEW q \in Quotes, Emit(q) PROVE JobBook(p)'
  BY <1>16 DEF Emit, Advance
<1>17. ASSUME NEW q \in Quotes, RunThrows(q) PROVE JobBook(p)'
  BY <1>17 DEF RunThrows, Fault
<1>18. ASSUME NEW q \in Quotes, OnFailedMark(q) PROVE JobBook(p)'
  BY <1>18 DEF OnFailedMark
<1>19. ASSUME NEW q \in Quotes, OnFailedEmit(q) PROVE JobBook(p)'
  BY <1>19 DEF OnFailedEmit
<1>20. ASSUME NEW q \in Quotes, OnFailedThrows(q) PROVE JobBook(p)'
  BY <1>20 DEF OnFailedThrows, Fault
<1>21. ASSUME NEW q \in Quotes, PatchCheck(q) PROVE JobBook(p)'
  BY <1>21 DEF PatchCheck
<1>22. ASSUME NEW q \in Quotes, PatchApply(q) PROVE JobBook(p)'
  BY <1>22 DEF PatchApply
<1>23. ASSUME NEW q \in Quotes, RemoveCheck(q) PROVE JobBook(p)'
  BY <1>23 DEF RemoveCheck
<1>24. ASSUME NEW q \in Quotes, RemoveApply(q) PROVE JobBook(p)'
  BY <1>24 DEF RemoveApply
<1>25. ASSUME NEW q \in Quotes, RemoveAudit(q) PROVE JobBook(p)'
  BY <1>25 DEF RemoveAudit
<1>26. ASSUME NEW q \in Quotes, RemoveThrows(q) PROVE JobBook(p)'
  BY <1>26 DEF RemoveThrows, Fault
<1>27. ASSUME NEW c \in Carriers, ToggleCarrier(c) PROVE JobBook(p)'
  BY <1>27 DEF ToggleCarrier
<1>28. CASE Crash
  BY <1>28 DEF Crash
<1>29. CASE UNCHANGED vars
  BY <1>29
<1>30. QED
  BY <1>1, <1>2, <1>3, <1>4, <1>5, <1>6, <1>7, <1>8, <1>9, <1>10, <1>11,
     <1>12, <1>13, <1>14, <1>15, <1>16, <1>17, <1>18, <1>19, <1>20, <1>21,
     <1>22, <1>23, <1>24, <1>25, <1>26, <1>27, <1>28, <1>29
     DEF Next, Announce, Silent, RunNext

\* A step keeps the options of a quote within its attempts: only
\* CreateOptions adds any, and it ends the part of a run that may.
LEMMA OptionBookStep ==
  ASSUME TypeOK, NEW p \in Quotes, JobBook(p), OptionBook(p), [Next]_vars
  PROVE  OptionBook(p)'
<1>. USE BoundsAssumption, PatchAssumption
     DEF TypeOK, OptionBook, JobBook, JobState, RunStep, vars, rows, queue,
         worker, requests, bounds
<1>1. ASSUME NEW q \in Quotes, CreateRow(q) PROVE OptionBook(p)'
  BY <1>1 DEF CreateRow
<1>2. ASSUME NEW q \in Quotes, Enqueue(q) PROVE OptionBook(p)'
  BY <1>2 DEF Enqueue
<1>3. ASSUME NEW q \in Quotes, Reply(q) PROVE OptionBook(p)'
  BY <1>3 DEF Reply
<1>4. ASSUME NEW q \in Quotes, CreateThrows(q) PROVE OptionBook(p)'
  BY <1>4 DEF CreateThrows, Fault
<1>5. ASSUME NEW q \in Quotes, TakeJob(q) PROVE OptionBook(p)'
  BY <1>5 DEF TakeJob
<1>6. ASSUME NEW q \in Quotes, FailStalledJob(q) PROVE OptionBook(p)'
  BY <1>6 DEF FailStalledJob
<1>7. ASSUME NEW q \in Quotes, Complete(q) PROVE OptionBook(p)'
  BY <1>7 DEF Complete, End
<1>8. ASSUME NEW q \in Quotes, Fail(q) PROVE OptionBook(p)'
  BY <1>8 DEF Fail, End
<1>9. ASSUME NEW q \in Quotes, LoseAck(q) PROVE OptionBook(p)'
  BY <1>9 DEF LoseAck, Fault
<1>10. ASSUME NEW q \in Quotes, StalledCheck(q) PROVE OptionBook(p)'
  BY <1>10 DEF StalledCheck
<1>11. ASSUME NEW q \in Quotes, ReadQuote(q) PROVE OptionBook(p)'
  BY <1>11 DEF ReadQuote, Advance
<1>12. ASSUME NEW q \in Quotes, MarkProcessing(q) PROVE OptionBook(p)'
  BY <1>12 DEF MarkProcessing, Advance, SetStatus
<1>13. ASSUME NEW q \in Quotes, ReadCarriers(q) PROVE OptionBook(p)'
  BY <1>13 DEF ReadCarriers, Advance
<1>14. ASSUME NEW q \in Quotes, CreateOptions(q) PROVE OptionBook(p)'
  BY <1>14 DEF CreateOptions, Advance, AddOptions
<1>15. ASSUME NEW q \in Quotes, MarkDone(q) PROVE OptionBook(p)'
  BY <1>15 DEF MarkDone, Advance, SetStatus
<1>16. ASSUME NEW q \in Quotes, Emit(q) PROVE OptionBook(p)'
  BY <1>16 DEF Emit, Advance
<1>17. ASSUME NEW q \in Quotes, RunThrows(q) PROVE OptionBook(p)'
  BY <1>17 DEF RunThrows, Fault
<1>18. ASSUME NEW q \in Quotes, OnFailedMark(q) PROVE OptionBook(p)'
  BY <1>18 DEF OnFailedMark
<1>19. ASSUME NEW q \in Quotes, OnFailedEmit(q) PROVE OptionBook(p)'
  BY <1>19 DEF OnFailedEmit
<1>20. ASSUME NEW q \in Quotes, OnFailedThrows(q) PROVE OptionBook(p)'
  BY <1>20 DEF OnFailedThrows, Fault
<1>21. ASSUME NEW q \in Quotes, PatchCheck(q) PROVE OptionBook(p)'
  BY <1>21 DEF PatchCheck
<1>22. ASSUME NEW q \in Quotes, PatchApply(q) PROVE OptionBook(p)'
  BY <1>22 DEF PatchApply
<1>23. ASSUME NEW q \in Quotes, RemoveCheck(q) PROVE OptionBook(p)'
  BY <1>23 DEF RemoveCheck
<1>24. ASSUME NEW q \in Quotes, RemoveApply(q) PROVE OptionBook(p)'
  BY <1>24 DEF RemoveApply
<1>25. ASSUME NEW q \in Quotes, RemoveAudit(q) PROVE OptionBook(p)'
  BY <1>25 DEF RemoveAudit
<1>26. ASSUME NEW q \in Quotes, RemoveThrows(q) PROVE OptionBook(p)'
  BY <1>26 DEF RemoveThrows, Fault
<1>27. ASSUME NEW c \in Carriers, ToggleCarrier(c) PROVE OptionBook(p)'
  BY <1>27 DEF ToggleCarrier
<1>28. CASE Crash
  BY <1>28 DEF Crash
<1>29. CASE UNCHANGED vars
  BY <1>29
<1>30. QED
  BY <1>1, <1>2, <1>3, <1>4, <1>5, <1>6, <1>7, <1>8, <1>9, <1>10, <1>11,
     <1>12, <1>13, <1>14, <1>15, <1>16, <1>17, <1>18, <1>19, <1>20, <1>21,
     <1>22, <1>23, <1>24, <1>25, <1>26, <1>27, <1>28, <1>29
     DEF Next, Announce, Silent, RunNext

\* A step keeps the agreement between the run, the row and the room: the
\* listener writes only when no run is left, the run only in its order.
LEMMA StatusBookStep ==
  ASSUME TypeOK, NEW p \in Quotes, JobBook(p), StatusBook(p), [Next]_vars
  PROVE  StatusBook(p)'
<1>. USE BoundsAssumption, PatchAssumption
     DEF TypeOK, StatusBook, JobBook, JobState, CreateStep, RunStep,
         FailStep, Status, vars, rows, queue, worker, requests, bounds
<1>1. ASSUME NEW q \in Quotes, CreateRow(q) PROVE StatusBook(p)'
  BY <1>1 DEF CreateRow
<1>2. ASSUME NEW q \in Quotes, Enqueue(q) PROVE StatusBook(p)'
  BY <1>2 DEF Enqueue
<1>3. ASSUME NEW q \in Quotes, Reply(q) PROVE StatusBook(p)'
  BY <1>3 DEF Reply
<1>4. ASSUME NEW q \in Quotes, CreateThrows(q) PROVE StatusBook(p)'
  BY <1>4 DEF CreateThrows, Fault
<1>5. ASSUME NEW q \in Quotes, TakeJob(q) PROVE StatusBook(p)'
  BY <1>5 DEF TakeJob
<1>6. ASSUME NEW q \in Quotes, FailStalledJob(q) PROVE StatusBook(p)'
  BY <1>6 DEF FailStalledJob
<1>7. ASSUME NEW q \in Quotes, Complete(q) PROVE StatusBook(p)'
  BY <1>7 DEF Complete, End
<1>8. ASSUME NEW q \in Quotes, Fail(q) PROVE StatusBook(p)'
  BY <1>8 DEF Fail, End
<1>9. ASSUME NEW q \in Quotes, LoseAck(q) PROVE StatusBook(p)'
  BY <1>9 DEF LoseAck, Fault
<1>10. ASSUME NEW q \in Quotes, StalledCheck(q) PROVE StatusBook(p)'
  BY <1>10 DEF StalledCheck
<1>11. ASSUME NEW q \in Quotes, ReadQuote(q) PROVE StatusBook(p)'
  BY <1>11 DEF ReadQuote, Advance
<1>12. ASSUME NEW q \in Quotes, MarkProcessing(q) PROVE StatusBook(p)'
  BY <1>12 DEF MarkProcessing, Advance, SetStatus
<1>13. ASSUME NEW q \in Quotes, ReadCarriers(q) PROVE StatusBook(p)'
  BY <1>13 DEF ReadCarriers, Advance
<1>14. ASSUME NEW q \in Quotes, CreateOptions(q) PROVE StatusBook(p)'
  BY <1>14 DEF CreateOptions, Advance, AddOptions
<1>15. ASSUME NEW q \in Quotes, MarkDone(q) PROVE StatusBook(p)'
  BY <1>15 DEF MarkDone, Advance, SetStatus
<1>16. ASSUME NEW q \in Quotes, Emit(q) PROVE StatusBook(p)'
  BY <1>16 DEF Emit, Advance
<1>17. ASSUME NEW q \in Quotes, RunThrows(q) PROVE StatusBook(p)'
  BY <1>17 DEF RunThrows, Fault
<1>18. ASSUME NEW q \in Quotes, OnFailedMark(q) PROVE StatusBook(p)'
  BY <1>18 DEF OnFailedMark
<1>19. ASSUME NEW q \in Quotes, OnFailedEmit(q) PROVE StatusBook(p)'
  BY <1>19 DEF OnFailedEmit
<1>20. ASSUME NEW q \in Quotes, OnFailedThrows(q) PROVE StatusBook(p)'
  BY <1>20 DEF OnFailedThrows, Fault
<1>21. ASSUME NEW q \in Quotes, PatchCheck(q) PROVE StatusBook(p)'
  BY <1>21 DEF PatchCheck
<1>22. ASSUME NEW q \in Quotes, PatchApply(q) PROVE StatusBook(p)'
  BY <1>22 DEF PatchApply
<1>23. ASSUME NEW q \in Quotes, RemoveCheck(q) PROVE StatusBook(p)'
  BY <1>23 DEF RemoveCheck
<1>24. ASSUME NEW q \in Quotes, RemoveApply(q) PROVE StatusBook(p)'
  BY <1>24 DEF RemoveApply
<1>25. ASSUME NEW q \in Quotes, RemoveAudit(q) PROVE StatusBook(p)'
  BY <1>25 DEF RemoveAudit
<1>26. ASSUME NEW q \in Quotes, RemoveThrows(q) PROVE StatusBook(p)'
  BY <1>26 DEF RemoveThrows, Fault
<1>27. ASSUME NEW c \in Carriers, ToggleCarrier(c) PROVE StatusBook(p)'
  BY <1>27 DEF ToggleCarrier
<1>28. CASE Crash
  BY <1>28 DEF Crash
<1>29. CASE UNCHANGED vars
  BY <1>29
<1>30. QED
  BY <1>1, <1>2, <1>3, <1>4, <1>5, <1>6, <1>7, <1>8, <1>9, <1>10, <1>11,
     <1>12, <1>13, <1>14, <1>15, <1>16, <1>17, <1>18, <1>19, <1>20, <1>21,
     <1>22, <1>23, <1>24, <1>25, <1>26, <1>27, <1>28, <1>29
     DEF Next, Announce, Silent, RunNext

\* A step keeps the account of failures: a job stalls or fails only after a
\* fault or a crash, and losing the listener takes another one.
LEMMA FaultBookStep ==
  ASSUME TypeOK, NEW p \in Quotes, JobBook(p), StatusBook(p), FaultBook(p), [Next]_vars
  PROVE  FaultBook(p)'
<1>. USE BoundsAssumption, PatchAssumption
     DEF TypeOK, FaultBook, Disturbed, StatusBook, JobBook, JobState, CreateStep, RunStep,
     FailStep, Status, vars, rows, queue, worker, requests, bounds
<1>1. ASSUME NEW q \in Quotes, CreateRow(q) PROVE FaultBook(p)'
  BY <1>1 DEF CreateRow
<1>2. ASSUME NEW q \in Quotes, Enqueue(q) PROVE FaultBook(p)'
  BY <1>2 DEF Enqueue
<1>3. ASSUME NEW q \in Quotes, Reply(q) PROVE FaultBook(p)'
  BY <1>3 DEF Reply
<1>4. ASSUME NEW q \in Quotes, CreateThrows(q) PROVE FaultBook(p)'
  BY <1>4 DEF CreateThrows, Fault
<1>5. ASSUME NEW q \in Quotes, TakeJob(q) PROVE FaultBook(p)'
  BY <1>5 DEF TakeJob
<1>6. ASSUME NEW q \in Quotes, FailStalledJob(q) PROVE FaultBook(p)'
  BY <1>6 DEF FailStalledJob
<1>7. ASSUME NEW q \in Quotes, Complete(q) PROVE FaultBook(p)'
  BY <1>7 DEF Complete, End
<1>8. ASSUME NEW q \in Quotes, Fail(q) PROVE FaultBook(p)'
  BY <1>8 DEF Fail, End
<1>9. ASSUME NEW q \in Quotes, LoseAck(q) PROVE FaultBook(p)'
  BY <1>9 DEF LoseAck, Fault
<1>10. ASSUME NEW q \in Quotes, StalledCheck(q) PROVE FaultBook(p)'
  BY <1>10 DEF StalledCheck
<1>11. ASSUME NEW q \in Quotes, ReadQuote(q) PROVE FaultBook(p)'
  BY <1>11 DEF ReadQuote, Advance
<1>12. ASSUME NEW q \in Quotes, MarkProcessing(q) PROVE FaultBook(p)'
  BY <1>12 DEF MarkProcessing, Advance, SetStatus
<1>13. ASSUME NEW q \in Quotes, ReadCarriers(q) PROVE FaultBook(p)'
  BY <1>13 DEF ReadCarriers, Advance
<1>14. ASSUME NEW q \in Quotes, CreateOptions(q) PROVE FaultBook(p)'
  BY <1>14 DEF CreateOptions, Advance, AddOptions
<1>15. ASSUME NEW q \in Quotes, MarkDone(q) PROVE FaultBook(p)'
  BY <1>15 DEF MarkDone, Advance, SetStatus
<1>16. ASSUME NEW q \in Quotes, Emit(q) PROVE FaultBook(p)'
  BY <1>16 DEF Emit, Advance
<1>17. ASSUME NEW q \in Quotes, RunThrows(q) PROVE FaultBook(p)'
  BY <1>17 DEF RunThrows, Fault
<1>18. ASSUME NEW q \in Quotes, OnFailedMark(q) PROVE FaultBook(p)'
  BY <1>18 DEF OnFailedMark
<1>19. ASSUME NEW q \in Quotes, OnFailedEmit(q) PROVE FaultBook(p)'
  BY <1>19 DEF OnFailedEmit
<1>20. ASSUME NEW q \in Quotes, OnFailedThrows(q) PROVE FaultBook(p)'
  BY <1>20 DEF OnFailedThrows, Fault
<1>21. ASSUME NEW q \in Quotes, PatchCheck(q) PROVE FaultBook(p)'
  BY <1>21 DEF PatchCheck
<1>22. ASSUME NEW q \in Quotes, PatchApply(q) PROVE FaultBook(p)'
  BY <1>22 DEF PatchApply
<1>23. ASSUME NEW q \in Quotes, RemoveCheck(q) PROVE FaultBook(p)'
  BY <1>23 DEF RemoveCheck
<1>24. ASSUME NEW q \in Quotes, RemoveApply(q) PROVE FaultBook(p)'
  BY <1>24 DEF RemoveApply
<1>25. ASSUME NEW q \in Quotes, RemoveAudit(q) PROVE FaultBook(p)'
  BY <1>25 DEF RemoveAudit
<1>26. ASSUME NEW q \in Quotes, RemoveThrows(q) PROVE FaultBook(p)'
  BY <1>26 DEF RemoveThrows, Fault
<1>27. ASSUME NEW c \in Carriers, ToggleCarrier(c) PROVE FaultBook(p)'
  BY <1>27 DEF ToggleCarrier
<1>28. CASE Crash
  BY <1>28 DEF Crash
<1>29. CASE UNCHANGED vars
  BY <1>29
<1>30. QED
  BY <1>1, <1>2, <1>3, <1>4, <1>5, <1>6, <1>7, <1>8, <1>9, <1>10, <1>11,
     <1>12, <1>13, <1>14, <1>15, <1>16, <1>17, <1>18, <1>19, <1>20, <1>21,
     <1>22, <1>23, <1>24, <1>25, <1>26, <1>27, <1>28, <1>29
     DEF Next, Announce, Silent, RunNext

-----------------------------------------------------------------------------
\* The type invariant and the books hold initially.
LEMMA InitIInv == Init => IInv
<1>. SUFFICES ASSUME Init PROVE IInv
  OBVIOUS
<1>1. TypeOK
  BY BoundsAssumption, PatchAssumption
     DEF Init, TypeOK, Status, JobState, CreateStep, RunStep, FailStep
<1>2. ASSUME NEW q \in Quotes
      PROVE  JobBook(q) /\ OptionBook(q) /\ StatusBook(q) /\ FaultBook(q)
  <2>1. /\ job[q] = "none" /\ run[q] = "idle" /\ failing[q] = "idle"
        /\ attempts[q] = 0 /\ stalls[q] = 0 /\ status[q] = "absent"
        /\ \A c \in Carriers : options[q][c] = 0
    BY DEF Init
  <2>2. JobBook(q) /\ OptionBook(q)
    BY <2>1, BoundsAssumption DEF JobBook, OptionBook
  <2>3. StatusBook(q) /\ FaultBook(q)
    BY <2>1 DEF StatusBook, FaultBook
  <2>4. QED
    BY <2>2, <2>3
<1>3. QED
  BY <1>1, <1>2 DEF IInv, Bookkeeping

\* Every step keeps the type invariant and all books of all quotes.
LEMMA NextIInv == IInv /\ [Next]_vars => IInv'
<1>. SUFFICES ASSUME IInv, [Next]_vars PROVE IInv'
  OBVIOUS
<1>1. TypeOK'
  BY TypeStep DEF IInv
<1>2. ASSUME NEW p \in Quotes
      PROVE  JobBook(p)' /\ OptionBook(p)' /\ StatusBook(p)' /\ FaultBook(p)'
  <2>1. TypeOK /\ JobBook(p) /\ OptionBook(p) /\ StatusBook(p) /\ FaultBook(p)
    BY DEF IInv, Bookkeeping
  <2>2. QED
    BY <2>1, JobBookStep, OptionBookStep, StatusBookStep, FaultBookStep
<1>3. QED
  BY <1>1, <1>2 DEF IInv, Bookkeeping

\* The books are an invariant of the whole service: whatever calls fail and
\* whenever the process crashes.
THEOREM BooksHold == Spec => []IInv
BY InitIInv, NextIInv, PTL DEF Spec

\* The books of every quote are kept through every interleaving and failure.
THEOREM BooksAreKept == Spec => []Bookkeeping
<1>1. IInv => Bookkeeping
  BY DEF IInv
<1>2. QED
  BY <1>1, BooksHold, PTL

\* Every variable keeps its type.
THEOREM TypeCorrect == Spec => []TypeOK
<1>1. IInv => TypeOK
  BY DEF IInv
<1>2. QED
  BY <1>1, BooksHold, PTL

\* No carrier appears on a quote more often than process was called for it,
\* and that is at most MaxStalledCount + 1 times.
THEOREM OptionsAreBounded == Spec => []OptionsBoundedByAttempts
<1>1. IInv => OptionsBoundedByAttempts
  BY DEF IInv, Bookkeeping, JobBook, OptionBook, OptionsBoundedByAttempts
<1>2. QED
  BY <1>1, BooksHold, PTL

\* DONE is never visible before the options of the carriers the run read.
THEOREM DoneIsQuoted == Spec => []DoneMeansQuoted
<1>1. IInv => DoneMeansQuoted
  BY DEF IInv, Bookkeeping, StatusBook, DoneMeansQuoted
<1>2. QED
  BY <1>1, BooksHold, PTL

\* A completed job left DONE on the row and in the room.
THEOREM CompletedIsAnnounced == Spec => []CompletedMeansAnnounced
<1>1. IInv => CompletedMeansAnnounced
  BY DEF IInv, Bookkeeping, StatusBook, CompletedMeansAnnounced
<1>2. QED
  BY <1>1, BooksHold, PTL

\* The background code shows ERROR only for a job that failed for good.
THEOREM ErrorIsFinal == Spec => []ErrorOnlyAfterFailure
<1>1. IInv => ErrorOnlyAfterFailure
  BY DEF IInv, Bookkeeping, StatusBook, ErrorOnlyAfterFailure
<1>2. QED
  BY <1>1, BooksHold, PTL

\* One failed call, in whichever step, is reported on the row and in the room.
THEOREM SingleFaultReported == Spec => []SingleFaultIsReported
<1>1. IInv => SingleFaultIsReported
  BY DEF IInv, Bookkeeping, FaultBook, Disturbed, SingleFaultIsReported
<1>2. QED
  BY <1>1, BooksHold, PTL

-----------------------------------------------------------------------------
\* A step keeps the agreement between deletedAt and the audit rows.
LEMMA RemovalStep ==
  ASSUME TypeOK, RemovalsAudited, [Next]_vars
  PROVE  RemovalsAudited'
<1>. USE BoundsAssumption
     DEF TypeOK, RemovalsAudited, Fault, vars, rows, queue, worker, requests,
         bounds
<1>1. ASSUME NEW q \in Quotes, RemoveApply(q) PROVE RemovalsAudited'
  BY <1>1 DEF RemoveApply
<1>2. ASSUME NEW q \in Quotes, RemoveAudit(q) PROVE RemovalsAudited'
  BY <1>2 DEF RemoveAudit
<1>3. ASSUME NEW q \in Quotes, RemoveThrows(q) PROVE RemovalsAudited'
  <2>1. faults' > 0 /\ deleted' = deleted /\ audit' = audit
    BY <1>3 DEF RemoveThrows
  <2>2. CASE removing[q] > 0 /\ removing' = [removing EXCEPT ![q] = @ - 1]
             /\ UNCHANGED auditing
    BY <2>1, <2>2
  <2>3. CASE auditing[q] > 0 /\ auditing' = [auditing EXCEPT ![q] = @ - 1]
             /\ UNCHANGED removing
    BY <2>1, <2>3
  <2>4. QED
    BY <1>3, <2>2, <2>3 DEF RemoveThrows
<1>4. CASE Crash
  BY <1>4 DEF Crash
<1>5. CASE UNCHANGED <<deleted, audit, auditing, crashes>> /\ faults' >= faults
  BY <1>5
<1>6. ASSUME NEW q \in Quotes, Announce(q) \/ Reply(q) \/ Silent(q)
      PROVE  RemovalsAudited'
  <2>1. CASE Announce(q) \/ Reply(q) \/ CreateRow(q) \/ Enqueue(q) \/ CreateThrows(q)
    BY <1>5, <2>1 DEF Announce, Emit, Advance, OnFailedEmit, Reply, CreateRow, Enqueue, CreateThrows
  <2>2. CASE \/ TakeJob(q) \/ FailStalledJob(q) \/ StalledCheck(q) \/ RunThrows(q)
             \/ LoseAck(q) \/ OnFailedMark(q) \/ OnFailedThrows(q)
    BY <1>5, <2>2 DEF TakeJob, FailStalledJob, StalledCheck,
                RunThrows,
                LoseAck, OnFailedMark, OnFailedThrows
  <2>3. CASE RunNext(q)
    BY <1>5, <2>3 DEF RunNext, ReadQuote, MarkProcessing, ReadCarriers, CreateOptions,
                MarkDone, Complete, Fail, Advance, SetStatus,
                AddOptions, End
  <2>4. CASE PatchCheck(q) \/ PatchApply(q) \/ RemoveCheck(q)
    BY <1>5, <2>4 DEF PatchCheck, PatchApply, RemoveCheck
  <2>5. CASE RemoveApply(q)
    BY <1>1, <2>5
  <2>6. CASE RemoveAudit(q)
    BY <1>2, <2>6
  <2>7. CASE RemoveThrows(q)
    BY <1>3, <2>7
  <2>8. QED
    BY <1>6, <2>1, <2>2, <2>3, <2>4, <2>5, <2>6, <2>7 DEF Silent
<1>7. ASSUME NEW c \in Carriers, ToggleCarrier(c) PROVE RemovalsAudited'
  BY <1>7 DEF ToggleCarrier
<1>8. CASE UNCHANGED vars
  BY <1>8
<1>9. QED
  BY <1>1, <1>2, <1>3, <1>4, <1>5, <1>6, <1>7, <1>8 DEF Next

\* Without a failure every deletion has its audit row, written or about to be
\* written, and nothing is audited that was not deleted.
THEOREM RemovalsAreAudited == Spec => []RemovalsAudited
<1>1. Init => RemovalsAudited
  <2>. SUFFICES ASSUME Init PROVE RemovalsAudited
    OBVIOUS
  <2>1. ASSUME NEW q \in Quotes
        PROVE  audit[q] = 0 /\ auditing[q] = 0 /\ q \notin deleted
    BY DEF Init
  <2>2. ASSUME NEW q \in Quotes
        PROVE  ~(audit[q] + auditing[q] > 0)
    BY <2>1
  <2>3. QED
    BY <2>1, <2>2 DEF RemovalsAudited
<1>2. TypeOK /\ RemovalsAudited /\ [Next]_vars => RemovalsAudited'
  BY RemovalStep
<1>3. QED
  BY <1>1, <1>2, TypeCorrect, PTL DEF Spec

-----------------------------------------------------------------------------
\* Of a quote whose job has concluded, every step leaves the options, the
\* conclusion and the number of attempts alone.
LEMMA ConclusionStep ==
  ASSUME IInv, [Next]_vars, NEW p \in Quotes, Concluded(p)
  PROVE  options'[p] = options[p] /\ job'[p] = job[p] /\ attempts'[p] = attempts[p]
<1>. USE DEF TypeOK, Concluded, JobBook, rows, queue, worker, vars
<1>1. TypeOK /\ JobBook(p)
  BY DEF IInv, Bookkeeping
<1>2. run[p] = "idle" /\ creating[p] \notin {"idle", "enqueue"}
  BY <1>1
<1>3. ASSUME NEW q \in Quotes, Announce(q) \/ Reply(q) \/ Silent(q)

         PROVE  options'[p] = options[p] /\ job'[p] = job[p] /\ attempts'[p] = attempts[p]
  <2>1. CASE Announce(q) \/ Reply(q) \/ CreateRow(q) \/ Enqueue(q) \/ CreateThrows(q)
    BY <1>1, <1>2, <2>1
       DEF Announce, Emit, Advance, OnFailedEmit, Reply, CreateRow, Enqueue, CreateThrows
  <2>2. CASE \/ TakeJob(q) \/ FailStalledJob(q) \/ StalledCheck(q) \/ RunThrows(q)
             \/ LoseAck(q) \/ OnFailedMark(q) \/ OnFailedThrows(q)
    BY <1>1, <1>2, <2>2
       DEF TakeJob, FailStalledJob, StalledCheck,
                RunThrows,
           LoseAck, OnFailedMark, OnFailedThrows
  <2>3. CASE RunNext(q)
    BY <1>1, <1>2, <2>3
       DEF RunNext, ReadQuote, MarkProcessing, ReadCarriers, CreateOptions,
           MarkDone, Complete, Fail, Advance, SetStatus,
                AddOptions, End
  <2>4. CASE \/ PatchCheck(q) \/ PatchApply(q) \/ RemoveCheck(q)
             \/ RemoveApply(q) \/ RemoveAudit(q) \/ RemoveThrows(q)
    BY <1>1, <1>2, <2>4
     DEF PatchCheck, PatchApply, RemoveCheck, RemoveApply, RemoveAudit,
         RemoveThrows
  <2>5. QED
    BY <1>3, <2>1, <2>2, <2>3, <2>4 DEF Silent
<1>4. CASE \E c \in Carriers : ToggleCarrier(c)
  BY <1>4 DEF ToggleCarrier
<1>5. CASE Crash
  BY <1>5 DEF Crash
<1>6. CASE UNCHANGED vars
  BY <1>6
<1>7. QED
  BY <1>3, <1>4, <1>5, <1>6 DEF Next

\* A concluded quote is left alone by everything but its users.
THEOREM ConclusionStands == Spec => ConclusionIsFinal
<1>1. IInv /\ [Next]_vars =>
        [\A q \in Quotes : Concluded(q) =>
           /\ options'[q] = options[q]
           /\ job'[q] = job[q]
           /\ attempts'[q] = attempts[q]]_vars
  BY ConclusionStep
<1>2. QED
  BY <1>1, BooksHold, PTL DEF Spec, ConclusionIsFinal
-----------------------------------------------------------------------------
(* The promise *)

\* A step that moves no job, stores no option and leaves the stage of every
\* run alone is invisible to the promise.
LEMMA InvisibleStep ==
  ASSUME job' = job, attempts' = attempts, options' = options,
         \A q \in Quotes : StageOf(run'[q]) = StageOf(run[q])
  PROVE  UNCHANGED Promise!outcomeVars
BY DEF Promise!outcomeVars

\* The run's own steps, except the one that stores the options.
LEMMA RunStepImplements ==
  ASSUME IInv, NEW q \in Quotes, RunNext(q)
  PROVE  [Promise!OutcomeNext]_(Promise!outcomeVars)
<1>1. TypeOK /\ JobBook(q)
  BY DEF IInv, Bookkeeping
<1>. USE <1>1 DEF TypeOK, JobBook, JobState, RunStep, rows, queue, worker
<1>2. CASE ReadQuote(q) \/ MarkProcessing(q) \/ MarkDone(q)
  BY <1>2, InvisibleStep
     DEF ReadQuote, MarkProcessing, MarkDone, Advance, SetStatus, StageOf
<1>3. CASE ReadCarriers(q) /\ carriers # {}
  BY <1>3, InvisibleStep DEF ReadCarriers, Advance, StageOf
<1>4. CASE ReadCarriers(q) /\ carriers = {}
  <2>1. options[q] = [c \in Carriers |-> options[q][c] + (IF c \in {} THEN 1 ELSE 0)]
    OBVIOUS
  <2>2. Promise!Offer(q, {})
    BY <1>4, <2>1 DEF ReadCarriers, Advance, Promise!Offer, OutcomeOf, StageOf
  <2>3. QED
    BY <2>2 DEF Promise!OutcomeNext
<1>5. CASE CreateOptions(q)
  <2>1. Promise!Offer(q, found[q]) /\ found[q] \in SUBSET Carriers
    BY <1>5 DEF CreateOptions, Advance, AddOptions, Promise!Offer, OutcomeOf, StageOf
  <2>2. QED
    BY <2>1 DEF Promise!OutcomeNext
<1>6. CASE Complete(q)
  <2>1. Promise!Complete(q)
    BY <1>6 DEF Complete, End, Promise!Complete, OutcomeOf, StageOf
  <2>2. QED
    BY <2>1 DEF Promise!OutcomeNext
<1>7. CASE Fail(q)
  <2>1. OutcomeOf(job[q]) = "accepted" /\ StageOf(run[q]) = "idle" /\ attempts[q] > 0
    BY <1>7 DEF Fail, End, OutcomeOf, StageOf
  <2>2. /\ \A p \in Quotes : StageOf(run'[p]) = StageOf(run[p])
        /\ attempts' = attempts /\ options' = options
    BY <1>7 DEF Fail, End, StageOf
  <2>3. \A p \in Quotes : OutcomeOf(job'[p]) = IF p = q THEN "failed" ELSE OutcomeOf(job[p])
    BY <1>7 DEF Fail, End, OutcomeOf
  <2>4. Promise!Fail(q)
    BY <2>1, <2>2, <2>3 DEF Promise!Fail
  <2>5. QED
    BY <2>4 DEF Promise!OutcomeNext
<1>8. QED
  BY <1>2, <1>3, <1>4, <1>5, <1>6, <1>7 DEF RunNext

\* What BullMQ does with a job: hands it out, requeues it, gives it up; and
\* a run that throws or whose end is lost.
LEMMA QueueStepImplements ==
  ASSUME IInv, NEW q \in Quotes,
         \/ TakeJob(q) \/ FailStalledJob(q) \/ StalledCheck(q)
         \/ RunThrows(q) \/ LoseAck(q)
  PROVE  [Promise!OutcomeNext]_(Promise!outcomeVars)
<1>1. TypeOK /\ JobBook(q)
  BY DEF IInv, Bookkeeping
<1>. USE <1>1, BoundsAssumption DEF TypeOK, JobBook, JobState, RunStep, rows, queue, worker
<1>2. CASE TakeJob(q)
  <2>1. Promise!Try(q)
    BY <1>2 DEF TakeJob, Busy, Promise!Try, OutcomeOf, StageOf
  <2>2. QED
    BY <2>1 DEF Promise!OutcomeNext
<1>3. CASE FailStalledJob(q)
  <2>1. OutcomeOf(job[q]) = "accepted" /\ StageOf(run[q]) = "idle" /\ attempts[q] > 0
    BY <1>3 DEF FailStalledJob, Busy, OutcomeOf, StageOf
  <2>2. /\ \A p \in Quotes : StageOf(run'[p]) = StageOf(run[p])
        /\ attempts' = attempts /\ options' = options
    BY <1>3 DEF FailStalledJob, Busy, StageOf
  <2>3. \A p \in Quotes : OutcomeOf(job'[p]) = IF p = q THEN "failed" ELSE OutcomeOf(job[p])
    BY <1>3 DEF FailStalledJob, Busy, OutcomeOf
  <2>4. Promise!Fail(q)
    BY <2>1, <2>2, <2>3 DEF Promise!Fail
  <2>5. QED
    BY <2>4 DEF Promise!OutcomeNext
<1>4. CASE StalledCheck(q)
  BY <1>4 DEF StalledCheck, OutcomeOf, Promise!outcomeVars
<1>5. CASE RunThrows(q) \/ LoseAck(q)
  <2>1. Promise!Abandon({q})
    BY <1>5 DEF RunThrows, LoseAck, Promise!Abandon, StageOf
  <2>2. QED
    BY <2>1 DEF Promise!OutcomeNext
<1>6. QED
  BY <1>2, <1>3, <1>4, <1>5

\* Every step of the service is a step of the promise, or invisible to it.
LEMMA StepImplements ==
  ASSUME IInv, [Next]_vars
  PROVE  [Promise!OutcomeNext]_(Promise!outcomeVars)
<1>1. TypeOK /\ \A q \in Quotes : JobBook(q)
  BY DEF IInv, Bookkeeping
<1>2. ASSUME NEW q \in Quotes, Announce(q) \/ Reply(q) \/ Silent(q)
      PROVE  [Promise!OutcomeNext]_(Promise!outcomeVars)
  <2>. USE <1>1 DEF TypeOK, RunStep, rows, queue, worker
  <2>1. CASE Announce(q) \/ Reply(q) \/ CreateRow(q) \/ CreateThrows(q)
    BY <2>1, InvisibleStep
       DEF Announce, Emit, Advance, OnFailedEmit, Reply, CreateRow, CreateThrows, StageOf
  <2>2. CASE Enqueue(q)
    <3>1. Promise!Accept(q)
      BY <2>2 DEF Enqueue, JobBook, JobState, Promise!Accept, OutcomeOf
    <3>2. QED
      BY <3>1 DEF Promise!OutcomeNext
  <2>3. CASE \/ TakeJob(q) \/ FailStalledJob(q) \/ StalledCheck(q)
             \/ RunThrows(q) \/ LoseAck(q)
    BY <2>3, QueueStepImplements
  <2>4. CASE RunNext(q)
    BY <2>4, RunStepImplements
  <2>5. CASE OnFailedMark(q) \/ OnFailedThrows(q) \/ PatchCheck(q) \/ PatchApply(q)
    BY <2>5, InvisibleStep DEF OnFailedMark, OnFailedThrows, PatchCheck, PatchApply
  <2>6. CASE RemoveCheck(q) \/ RemoveApply(q) \/ RemoveAudit(q) \/ RemoveThrows(q)
    BY <2>6, InvisibleStep DEF RemoveCheck, RemoveApply, RemoveAudit, RemoveThrows
  <2>7. QED
    BY <1>2, <2>1, <2>2, <2>3, <2>4, <2>5, <2>6 DEF Silent
<1>3. CASE \E c \in Carriers : ToggleCarrier(c)
  BY <1>3, InvisibleStep DEF ToggleCarrier, queue, worker
<1>4. CASE Crash
  <2>1. Promise!Abandon(Quotes)
    BY <1>1, <1>4 DEF Crash, Promise!Abandon, TypeOK, StageOf, rows, queue
  <2>2. QED
    BY <2>1 DEF Promise!OutcomeNext
<1>5. CASE UNCHANGED vars
  BY <1>5, InvisibleStep DEF vars, rows, queue, worker
<1>6. QED
  BY <1>2, <1>3, <1>4, <1>5 DEF Next

\* The service keeps the promise of QuoteOutcome: bounded tries, one set of
\* offers per try, one conclusion that stands.
THEOREM ServiceKeepsPromise == Spec => KeepsPromise
<1>1. Init => Promise!OutcomeInit
  BY DEF Init, Promise!OutcomeInit, OutcomeOf, StageOf
<1>2. IInv /\ [Next]_vars => [Promise!OutcomeNext]_(Promise!outcomeVars)
  BY StepImplements
<1>3. QED
  BY <1>1, <1>2, BooksHold, PTL DEF Spec, KeepsPromise, Promise!OutcomeSpec
-----------------------------------------------------------------------------
(* What is in an option *)

\* What division by a natural number leaves, and that products keep an order.
LEMMA Quotient ==
  ASSUME NEW n \in Nat, NEW d \in Nat, d > 0
  PROVE  n \div d \in Nat /\ d * (n \div d) <= n /\ n < d * (n \div d) + d
OBVIOUS

LEMMA ProductGrows ==
  ASSUME NEW k \in Nat, NEW a \in Nat, NEW b \in Nat, a <= b
  PROVE  k * a \in Nat /\ k * b \in Nat /\ k * a <= k * b
OBVIOUS

\* A region is one of the table's, whose rows are its columns.
Postal == 0..PrefixRange

LEMMA RangeOfPrefixes == PrefixRange = 99999
BY DEF PrefixRange

LEMMA PostalIsNatural ==
  ASSUME NEW p \in Postal
  PROVE  p \in Nat /\ p <= PrefixRange
<1>1. PrefixRange \in Nat
  BY DEF PrefixRange
<1> QED BY <1>1 DEF Postal

LEMMA RegionOfPrefix ==
  ASSUME NEW p \in Postal
  PROVE  Region(p) + 1 \in 1..10
<1>1. p \in Nat /\ p <= 99999
  BY PostalIsNatural, RangeOfPrefixes
<1> QED BY <1>1 DEF Region

LEMMA TableOfRegions ==
  ASSUME NEW r \in 1..10, NEW s \in 1..10
  PROVE  RegionDistance[r][s] \in Nat \ {0} /\ RegionDistance[r][s] = RegionDistance[s][r]
<1> DEFINE Fine(x, y) == RegionDistance[x][y] \in Nat \ {0} /\ RegionDistance[x][y] = RegionDistance[y][x]
<1>1. \A y \in 1..10 : Fine(1, y)
  BY DEF RegionDistance
<1>2. \A y \in 1..10 : Fine(2, y)
  BY DEF RegionDistance
<1>3. \A y \in 1..10 : Fine(3, y)
  BY DEF RegionDistance
<1>4. \A y \in 1..10 : Fine(4, y)
  BY DEF RegionDistance
<1>5. \A y \in 1..10 : Fine(5, y)
  BY DEF RegionDistance
<1>6. \A y \in 1..10 : Fine(6, y)
  BY DEF RegionDistance
<1>7. \A y \in 1..10 : Fine(7, y)
  BY DEF RegionDistance
<1>8. \A y \in 1..10 : Fine(8, y)
  BY DEF RegionDistance
<1>9. \A y \in 1..10 : Fine(9, y)
  BY DEF RegionDistance
<1>10. \A y \in 1..10 : Fine(10, y)
  BY DEF RegionDistance
<1> HIDE DEF Fine
<1>11. Fine(r, s)
  BY <1>1, <1>2, <1>3, <1>4, <1>5, <1>6, <1>7, <1>8, <1>9, <1>10
<1> QED BY <1>11 DEF Fine

LEMMA DifferenceOfPrefixes ==
  ASSUME NEW a \in Postal, NEW b \in Postal
  PROVE  Absolute(a - b) \in Postal /\ Absolute(a - b) = Absolute(b - a)
<1>1. a \in Nat /\ b \in Nat /\ a <= PrefixRange /\ b <= PrefixRange
  BY PostalIsNatural
<1>2. PrefixRange \in Nat
  BY DEF PrefixRange
<1> QED BY <1>1, <1>2 DEF Absolute, Postal

\* What lies between whole kilometres is rounded to the nearer one.
LEMMA NearestKilometre ==
  ASSUME NEW t \in Nat \ {0}, NEW u \in Postal
  PROVE  LET x == t * PrefixRange + u * MaxAdjustment
             k == Rounded(x, PrefixRange)
         IN  k > 0 /\ Absolute(k * PrefixRange - x) * 2 <= PrefixRange /\ k <= t + MaxAdjustment
<1> DEFINE x == t * PrefixRange + u * MaxAdjustment
           k == Rounded(x, PrefixRange)
<1>1. x \in Nat /\ x >= 99999 /\ x <= (t + 150) * 99999
  <2>1. x = t * 99999 + u * 150
    BY RangeOfPrefixes DEF MaxAdjustment
  <2>2. u \in Nat /\ u <= 99999
    BY PostalIsNatural, RangeOfPrefixes
  <2> HIDE DEF x
  <2> QED BY <2>1, <2>2, SMTT(30)
<1>2. k = (2 * x + 99999) \div 199998
  BY RangeOfPrefixes DEF Rounded
<1> HIDE DEF x, k
<1>3. k \in Nat /\ 199998 * k <= 2 * x + 99999 /\ 2 * x + 99999 < 199998 * k + 199998
  BY <1>1, <1>2, SMTT(30)
<1>4. k > 0 /\ k <= t + 150
  BY <1>1, <1>3, SMTT(30)
<1>5. k * 99999 - x \in Int /\ (k * 99999 - x) * 2 <= 99999 /\ -(k * 99999 - x) * 2 <= 99999
  BY <1>1, <1>3, SMTT(30)
<1>6. Absolute(k * 99999 - x) * 2 <= 99999
  BY <1>5, SMTT(30) DEF Absolute
<1> QED BY <1>4, <1>6, RangeOfPrefixes DEF x, k, MaxAdjustment

\* For any two CEPs: the way back is as long as the way there, and the distance
\* is the kilometre nearest to the table's, adjusted.
THEOREM DistancesAreRight == SymmetricDistance(Postal) /\ NearestDistance(Postal)
<1>1. ASSUME NEW a \in Postal, NEW b \in Postal
      PROVE  Distance(a, b) = Distance(b, a) /\ Distance(a, b) > 0
  <2>1. RegionDistance[Region(a) + 1][Region(b) + 1] \in Nat \ {0}
    BY RegionOfPrefix, TableOfRegions
  <2>2. RegionDistance[Region(a) + 1][Region(b) + 1] = RegionDistance[Region(b) + 1][Region(a) + 1]
    BY RegionOfPrefix, TableOfRegions
  <2>3. Absolute(a - b) \in Postal /\ Absolute(a - b) = Absolute(b - a)
    BY DifferenceOfPrefixes
  <2>4. Distance(a, b) > 0
    BY <2>1, <2>3, NearestKilometre DEF Distance
  <2> QED BY <2>2, <2>3, <2>4 DEF Distance
<1>2. NearestDistance(Postal)
  <2> SUFFICES ASSUME NEW a \in Postal, NEW b \in Postal
               PROVE  LET exact == RegionDistance[Region(a) + 1][Region(b) + 1] * PrefixRange
                                     + Absolute(a - b) * MaxAdjustment
                      IN /\ Absolute(Distance(a, b) * PrefixRange - exact) * 2 <= PrefixRange
                         /\ Distance(a, b) <= RegionDistance[Region(a) + 1][Region(b) + 1] + MaxAdjustment
    BY DEF NearestDistance
  <2>1. RegionDistance[Region(a) + 1][Region(b) + 1] \in Nat \ {0}
    BY RegionOfPrefix, TableOfRegions
  <2>2. Absolute(a - b) \in Postal
    BY DifferenceOfPrefixes
  <2> QED BY <2>1, <2>2, NearestKilometre DEF Distance
<1> QED BY <1>1, <1>2 DEF SymmetricDistance

\* What the DTOs of carriers and quotes accept.
CarrierTerms == [basePrice : Nat, pricePerKm : Nat, pricePerKg : Nat, insuranceRate : Nat,
                 avgSpeedKmPerDay : Nat \ {0}, handlingDays : Nat]
Parcels == [origin : Postal, destination : Postal, weight : Nat, length : Nat, width : Nat, height : Nat,
            value : Nat]

LEMMA ProductIsNatural ==
  ASSUME NEW a \in Nat, NEW b \in Nat
  PROVE  a * b \in Nat
OBVIOUS

\* The carrier needs as many whole days as its speed asks for, and one at least.
LEMMA DaysCoverDistance ==
  ASSUME NEW n \in Nat, NEW v \in Nat \ {0}
  PROVE  LET days == Larger(1, (n + v - 1) \div v)
         IN  /\ days \in Nat /\ days >= 1 /\ days * v >= n
             /\ days > 1 => (days - 1) * v < n
<1> DEFINE q == (n + v - 1) \div v
<1>1. n + v - 1 \in Nat
  OBVIOUS
<1>2. q \in Nat /\ v * q <= n + v - 1 /\ n + v - 1 < v * q + v
  BY <1>1, Quotient
<1> HIDE DEF q
<1>3. v * q \in Nat /\ q * v = v * q /\ (q - 1) * v = v * q - v /\ 1 * v = v
  BY <1>2
<1>4. CASE 1 > q
  <2>1. Larger(1, q) = 1
    BY <1>4 DEF Larger
  <2>2. q = 0 /\ v * q = 0
    BY <1>2, <1>4
  <2> QED BY <1>2, <1>3, <2>1, <2>2 DEF q
<1>5. CASE ~(1 > q)
  <2>1. Larger(1, q) = q
    BY <1>5 DEF Larger
  <2>2. q >= 1
    BY <1>2, <1>5
  <2> QED BY <1>2, <1>3, <2>1, <2>2 DEF q
<1> QED BY <1>4, <1>5

LEMMA AbsoluteWithin ==
  ASSUME NEW n \in Int, NEW d \in Nat, n * 2 <= d, (-n) * 2 <= d
  PROVE  Absolute(n) \in Nat /\ Absolute(n) * 2 <= d
BY DEF Absolute

\* Half a unit above or below is as far as rounding goes, and it keeps the order.
LEMMA NearestUnit ==
  ASSUME NEW x \in Nat, NEW y \in Nat, x <= y, NEW d \in Nat, d > 0
  PROVE  /\ Rounded(x, d) \in Nat /\ Absolute(Rounded(x, d) * d - x) \in Nat
         /\ Absolute(Rounded(x, d) * d - x) * 2 <= d
         /\ Rounded(x, d) <= Rounded(y, d)
<1> DEFINE k == Rounded(x, d)
           l == Rounded(y, d)
           e == 2 * d
<1>1. e \in Nat /\ e > 0 /\ k = (2 * x + d) \div e /\ l = (2 * y + d) \div e
  BY DEF Rounded
<1>2. e = 2 * d
  OBVIOUS
<1> HIDE DEF k, l, e
<1>3. k \in Nat /\ e * k <= 2 * x + d /\ 2 * x + d < e * k + e
  <2>1. 2 * x + d \in Nat
    OBVIOUS
  <2> QED BY <1>1, <2>1, Quotient
<1>4. l \in Nat /\ e * l <= 2 * y + d /\ 2 * y + d < e * l + e
  <2>1. 2 * y + d \in Nat
    OBVIOUS
  <2> QED BY <1>1, <2>1, Quotient
<1>5. k <= l
  <2> SUFFICES ASSUME l + 1 <= k PROVE FALSE
    BY <1>3, <1>4
  <2>1. e * (l + 1) <= e * k
    BY <1>1, <1>3, <1>4, ProductGrows
  <2>2. e * (l + 1) = e * l + e /\ e * l \in Nat /\ e * k \in Nat
    BY <1>1, <1>3, <1>4
  <2> DEFINE el == e * l
             ek == e * k
  <2>3. el \in Nat /\ ek \in Nat /\ el + e <= ek /\ ek <= 2 * x + d /\ 2 * y + d < el + e
    BY <1>3, <1>4, <2>1, <2>2
  <2> HIDE DEF el, ek
  <2> QED BY <1>1, <2>3
<1> DEFINE m == k * d
<1>6. m \in Nat /\ e * k = 2 * m
  BY <1>2, <1>3
<1> HIDE DEF m
<1>7. m - x \in Int /\ (m - x) * 2 <= d /\ (-(m - x)) * 2 <= d
  BY <1>2, <1>3, <1>6
<1>8. Absolute(m - x) \in Nat /\ Absolute(m - x) * 2 <= d
  BY <1>7, AbsoluteWithin
<1> QED BY <1>3, <1>5, <1>8 DEF k, l, m

LEMMA CentIsPositive == Cent \in Nat /\ Cent > 0
BY DEF Cent, VolumetricDivisor

\* The sum of a price's parts, in hundredths of a cent times VolumetricDivisor.
Parts(carrier, chargeable, distance, value) ==
  (carrier.basePrice + carrier.pricePerKm * distance + carrier.insuranceRate * value) * VolumetricDivisor
    + carrier.pricePerKg * chargeable

\* More to carry, to insure or to drive never lowers the sum.
LEMMA PartsGrow ==
  ASSUME NEW c \in CarrierTerms, NEW g \in Nat, NEW h \in Nat, NEW m \in Nat, NEW n \in Nat,
         NEW v \in Nat, NEW w \in Nat, g <= h, m <= n, v <= w
  PROVE  /\ Parts(c, g, m, v) \in Nat /\ Parts(c, h, n, w) \in Nat
         /\ Parts(c, g, m, v) <= Parts(c, h, n, w)
<1>1. c.basePrice \in Nat /\ c.pricePerKm \in Nat /\ c.pricePerKg \in Nat /\ c.insuranceRate \in Nat
  BY DEF CarrierTerms
<1> DEFINE b == c.basePrice
           k1 == c.pricePerKm * m
           k2 == c.pricePerKm * n
           i1 == c.insuranceRate * v
           i2 == c.insuranceRate * w
           w1 == c.pricePerKg * g
           w2 == c.pricePerKg * h
<1>2. k1 \in Nat /\ k2 \in Nat /\ k1 <= k2
  BY <1>1, ProductGrows
<1>3. i1 \in Nat /\ i2 \in Nat /\ i1 <= i2
  BY <1>1, ProductGrows
<1>4. w1 \in Nat /\ w2 \in Nat /\ w1 <= w2
  BY <1>1, ProductGrows
<1>5. Parts(c, g, m, v) = (b + k1 + i1) * 6000 + w1 /\ Parts(c, h, n, w) = (b + k2 + i2) * 6000 + w2
  BY DEF Parts, VolumetricDivisor
<1>6. b \in Nat
  BY <1>1
<1> HIDE DEF b, k1, k2, i1, i2, w1, w2
<1>7. /\ Parts(c, g, m, v) \in Nat /\ Parts(c, h, n, w) \in Nat
      /\ Parts(c, g, m, v) <= Parts(c, h, n, w)
  BY <1>2, <1>3, <1>4, <1>5, <1>6
<1> QED BY <1>7

LEMMA SumOfParts ==
  ASSUME NEW c \in CarrierTerms, NEW g \in Nat, NEW m \in Nat, NEW v \in Nat
  PROVE  Parts(c, g, m, v) = c.basePrice * 6000 + c.pricePerKm * m * 6000 + c.insuranceRate * v * 6000
                               + c.pricePerKg * g
<1>1. c.basePrice \in Nat /\ c.pricePerKm \in Nat /\ c.pricePerKg \in Nat /\ c.insuranceRate \in Nat
  BY DEF CarrierTerms
<1> DEFINE b == c.basePrice
           k == c.pricePerKm * m
           i == c.insuranceRate * v
           w == c.pricePerKg * g
<1>2. b \in Nat /\ k \in Nat /\ i \in Nat /\ w \in Nat
  BY <1>1, ProductIsNatural
<1>3. Parts(c, g, m, v) = (b + k + i) * 6000 + w
  BY DEF Parts, VolumetricDivisor
<1> HIDE DEF b, k, i, w
<1>4. Parts(c, g, m, v) = b * 6000 + k * 6000 + i * 6000 + w
  BY <1>2, <1>3
<1> QED BY <1>4 DEF b, k, i, w

\* The chargeable weight is the weight or the volume, and grows with both.
LEMMA ChargeableGrows ==
  ASSUME NEW a \in Parcels, NEW b \in Parcels, a.weight <= b.weight,
         a.length <= b.length, a.width <= b.width, a.height <= b.height
  PROVE  LET Charged(p) == ChargeableWeight(p.weight, VolumetricWeight(p.length, p.width, p.height))
         IN  /\ Charged(a) \in Nat /\ Charged(b) \in Nat /\ Charged(a) <= Charged(b)
             /\ Charged(a) >= a.weight * VolumetricDivisor
             /\ Charged(a) >= a.length * a.width * a.height
<1> DEFINE v1 == VolumetricWeight(a.length, a.width, a.height)
           v2 == VolumetricWeight(b.length, b.width, b.height)
<1>1. /\ a.weight \in Nat /\ a.length \in Nat /\ a.width \in Nat /\ a.height \in Nat
      /\ b.weight \in Nat /\ b.length \in Nat /\ b.width \in Nat /\ b.height \in Nat
  BY DEF Parcels
<1>2. a.length * a.width \in Nat /\ b.length * b.width \in Nat /\ a.length * a.width <= b.length * b.width
  <2>1. a.length * a.width \in Nat /\ a.length * b.width \in Nat /\ a.length * a.width <= a.length * b.width
    BY <1>1, ProductGrows
  <2>2. b.width * a.length \in Nat /\ b.width * b.length \in Nat /\ b.width * a.length <= b.width * b.length
    BY <1>1, ProductGrows
  <2>3. b.width * a.length = a.length * b.width /\ b.width * b.length = b.length * b.width
    BY <1>1
  <2> QED BY <2>1, <2>2, <2>3
<1>3. v1 \in Nat /\ v2 \in Nat /\ v1 <= v2
  <2> DEFINE s1 == a.length * a.width
             s2 == b.length * b.width
  <2>1. s1 \in Nat /\ s2 \in Nat /\ s1 <= s2 /\ v1 = s1 * a.height /\ v2 = s2 * b.height
    BY <1>2 DEF VolumetricWeight
  <2> HIDE DEF s1, s2, v1, v2
  <2>2. s1 * a.height \in Nat /\ s1 * b.height \in Nat /\ s1 * a.height <= s1 * b.height
    BY <1>1, <2>1, ProductGrows
  <2>3. b.height * s1 \in Nat /\ b.height * s2 \in Nat /\ b.height * s1 <= b.height * s2
    BY <1>1, <2>1, ProductGrows
  <2>4. b.height * s1 = s1 * b.height /\ b.height * s2 = s2 * b.height
    BY <1>1, <2>1
  <2> QED BY <2>1, <2>2, <2>3, <2>4
<1>4. v1 = a.length * a.width * a.height
  BY DEF VolumetricWeight
<1> HIDE DEF v1, v2
<1>5. a.weight * 6000 \in Nat /\ b.weight * 6000 \in Nat /\ a.weight * 6000 <= b.weight * 6000
  BY <1>1
<1>6. /\ ChargeableWeight(a.weight, v1) = Larger(a.weight * 6000, v1)
      /\ ChargeableWeight(b.weight, v2) = Larger(b.weight * 6000, v2)
  BY DEF ChargeableWeight, VolumetricDivisor
<1>7. /\ ChargeableWeight(a.weight, v1) \in Nat /\ ChargeableWeight(b.weight, v2) \in Nat
      /\ ChargeableWeight(a.weight, v1) <= ChargeableWeight(b.weight, v2)
      /\ ChargeableWeight(a.weight, v1) >= a.weight * 6000 /\ ChargeableWeight(a.weight, v1) >= v1
  BY <1>3, <1>5, <1>6 DEF Larger
<1> QED BY <1>4, <1>7 DEF v1, v2, VolumetricDivisor

\* A price is the rounded sum of the parts.
LEMMA PriceOfParts ==
  ASSUME NEW c, NEW g, NEW m, NEW v
  PROVE  Price(c, g, m, v) = Rounded(Parts(c, g, m, v), Cent)
BY DEF Price, Parts, Cent

LEMMA DistanceIsNatural ==
  ASSUME NEW a \in Postal, NEW b \in Postal
  PROVE  Distance(a, b) \in Nat
<1>1. RegionDistance[Region(a) + 1][Region(b) + 1] \in Nat
  BY RegionOfPrefix, TableOfRegions
<1>2. Absolute(a - b) \in Nat
  BY DifferenceOfPrefixes, PostalIsNatural
<1>3. RegionDistance[Region(a) + 1][Region(b) + 1] * 99999 + Absolute(a - b) * 150 \in Nat
  BY <1>1, <1>2
<1> QED BY <1>3, RangeOfPrefixes DEF Distance, Rounded, MaxAdjustment

\* For any parcel and any carrier computeFreightOption gives the first day on
\* which the carrier can be there and the cent nearest to the sum of the parts,
\* and a parcel that is larger, more valuable or goes farther never costs less.
THEOREM OptionsAreExact == ExactOption(Parcels, CarrierTerms) /\ MonotonePrice(Parcels, CarrierTerms)
<1> DEFINE Way(p) == Distance(p.origin, p.destination)
           Charged(p) == ChargeableWeight(p.weight, VolumetricWeight(p.length, p.width, p.height))
<1>1. ASSUME NEW p \in Parcels PROVE Way(p) \in Nat /\ p.value \in Nat
  <2>1. p.origin \in Postal /\ p.destination \in Postal /\ p.value \in Nat
    BY DEF Parcels
  <2> QED BY <2>1, DistanceIsNatural
<1>2. ASSUME NEW p \in Parcels, NEW c \in CarrierTerms
      PROVE  Option(p, c) = [price |-> Rounded(Parts(c, Charged(p), Way(p), p.value), Cent),
                             estimatedDays |-> EstimatedDays(c, Way(p)),
                             distance |-> Way(p), chargeable |-> Charged(p)]
  BY PriceOfParts DEF Option
<1>3. ASSUME NEW p \in Parcels
      PROVE  /\ Charged(p) \in Nat /\ Charged(p) >= p.weight * VolumetricDivisor
             /\ Charged(p) >= p.length * p.width * p.height
  <2>1. /\ p.weight \in Nat /\ p.length \in Nat /\ p.width \in Nat /\ p.height \in Nat
    BY DEF Parcels
  <2>2. p.weight <= p.weight /\ p.length <= p.length /\ p.width <= p.width /\ p.height <= p.height
    BY <2>1
  <2> QED BY <2>2, ChargeableGrows
<1> HIDE DEF Way, Charged
<1>4. ASSUME NEW p \in Parcels, NEW c \in CarrierTerms
      PROVE  LET o == Option(p, c)
                 days == o.estimatedDays - c.handlingDays
             IN /\ days >= 1 /\ days * c.avgSpeedKmPerDay >= o.distance
                /\ days > 1 => (days - 1) * c.avgSpeedKmPerDay < o.distance
                /\ o.chargeable >= p.weight * VolumetricDivisor
                /\ o.chargeable >= p.length * p.width * p.height
                /\ Absolute(o.price * Cent
                     - (c.basePrice * 6000 + c.pricePerKm * o.distance * 6000
                         + c.insuranceRate * p.value * 6000 + c.pricePerKg * o.chargeable)) * 2 <= Cent
  <2> DEFINE n == Way(p)
             d == Larger(1, (n + c.avgSpeedKmPerDay - 1) \div c.avgSpeedKmPerDay)
             x == Parts(c, Charged(p), n, p.value)
  <2>1. c.avgSpeedKmPerDay \in Nat \ {0} /\ c.handlingDays \in Nat /\ n \in Nat /\ p.value \in Nat /\ Charged(p) \in Nat
    BY <1>1, <1>3 DEF CarrierTerms
  <2>2. d \in Nat /\ d >= 1 /\ d * c.avgSpeedKmPerDay >= n /\ (d > 1 => (d - 1) * c.avgSpeedKmPerDay < n)
    BY <2>1, DaysCoverDistance
  <2>3. EstimatedDays(c, n) = c.handlingDays + d
    BY DEF EstimatedDays
  <2>4. n <= n /\ p.value <= p.value /\ Charged(p) <= Charged(p)
    BY <2>1
  <2> HIDE DEF d, n
  <2>5. x \in Nat /\ x = c.basePrice * 6000 + c.pricePerKm * n * 6000 + c.insuranceRate * p.value * 6000
                           + c.pricePerKg * Charged(p)
    <3>1. x \in Nat
      BY <2>1, <2>4, PartsGrow
    <3>2. x = c.basePrice * 6000 + c.pricePerKm * n * 6000 + c.insuranceRate * p.value * 6000
                + c.pricePerKg * Charged(p)
      BY <2>1, SumOfParts
    <3> QED BY <3>1, <3>2
  <2>6. x <= x
    BY <2>5
  <2>7. Absolute(Rounded(x, Cent) * Cent - x) * 2 <= Cent
    BY <2>5, <2>6, CentIsPositive, NearestUnit
  <2>8. /\ Option(p, c).price = Rounded(x, Cent) /\ Option(p, c).estimatedDays = EstimatedDays(c, n)
        /\ Option(p, c).distance = n /\ Option(p, c).chargeable = Charged(p)
    BY <1>2 DEF n
  <2> HIDE DEF x
  <2>9. Option(p, c).estimatedDays - c.handlingDays = d
    BY <2>1, <2>2, <2>3, <2>8
  <2> QED BY <1>3, <2>2, <2>5, <2>7, <2>8, <2>9
<1>5. ExactOption(Parcels, CarrierTerms)
  BY <1>4 DEF ExactOption
<1>6. ASSUME NEW a \in Parcels, NEW b \in Parcels, NEW c \in CarrierTerms,
             Distance(a.origin, a.destination) <= Distance(b.origin, b.destination),
             a.weight <= b.weight, a.value <= b.value,
             a.length <= b.length, a.width <= b.width, a.height <= b.height
      PROVE  Option(a, c).price <= Option(b, c).price
  <2> DEFINE x == Parts(c, Charged(a), Way(a), a.value)
             y == Parts(c, Charged(b), Way(b), b.value)
  <2>1. Charged(a) \in Nat /\ Charged(b) \in Nat /\ Charged(a) <= Charged(b)
    BY <1>6, ChargeableGrows DEF Charged
  <2>2. Way(a) \in Nat /\ Way(b) \in Nat /\ Way(a) <= Way(b) /\ a.value \in Nat /\ b.value \in Nat
    BY <1>1, <1>6 DEF Way
  <2>3. x \in Nat /\ y \in Nat /\ x <= y
    BY <1>6, <2>1, <2>2, PartsGrow
  <2>4. Option(a, c).price = Rounded(x, Cent) /\ Option(b, c).price = Rounded(y, Cent)
    BY <1>2
  <2> HIDE DEF x, y
  <2> QED BY <2>3, <2>4, CentIsPositive, NearestUnit
<1>7. MonotonePrice(Parcels, CarrierTerms)
  BY <1>6 DEF MonotonePrice
<1> QED BY <1>5, <1>7
=============================================================================
