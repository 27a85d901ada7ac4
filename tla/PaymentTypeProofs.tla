-------------------------- MODULE PaymentTypeProofs --------------------------
(***************************************************************************)
(* The type invariant of PaymentWorker, proved for every value of the      *)
(* constants together with the two facts it rests on: CurOK, that a worker *)
(* without a job is blank, and JobsBounded, that a job which has not failed*)
(* has attempts and stalls left.                                           *)
(***************************************************************************)
EXTENDS PaymentProperties, TLAPS

-----------------------------------------------------------------------------
(***************************************************************************)
(* Types: what the statements of the database and of the queue preserve    *)
(***************************************************************************)

\* The INSERT adds a PENDING row.
LEMMA InsertTyped ==
  ASSUME RowsTypeOK, NEW t \in Txs, InsertPending(t)
  PROVE  RowsTypeOK'
BY DEF RowsTypeOK, InsertPending, Statuses

\* The commit of phase 1 changes a status and releases locks.
LEMMA ProcessingTyped ==
  ASSUME RowsTypeOK, NEW w \in Workers, NEW t \in Txs, CommitProcessing(w, t)
  PROVE  RowsTypeOK'
BY PartiesAssumption
DEF RowsTypeOK, CommitProcessing, Statuses, ReleaseAll, LetGo

\* The UPDATE that fails a payment writes one of the codes.
LEMMA FailedTyped ==
  ASSUME RowsTypeOK, NEW t \in Txs, NEW from, NEW c \in ResultCodes \cup {NoCode},
         MarkFailed(t, from, c)
  PROVE  RowsTypeOK'
BY DEF RowsTypeOK, MarkFailed, Statuses, Terminal

\* The balance was looked at under the lock, so the debit overdraws nobody.
LEMMA PaymentTyped ==
  ASSUME RowsTypeOK, NEW w \in Workers, NEW t \in Txs, CommitPayment(w, t),
         userBalance[Payer[t]] >= Amount[t]
  PROVE  RowsTypeOK'
BY PartiesAssumption, RowsAssumption
DEF RowsTypeOK, CommitPayment, Statuses, Terminal, ReleaseAll, LetGo, ResultCodes, Success

\* Releasing a session's locks, alone or with a failed phase's bookkeeping.
LEMMA LocksTyped ==
  ASSUME RowsTypeOK, NEW w \in Workers, ReleaseAll(w),
         UNCHANGED <<status, resultCode, userBalance, merchantBalance>>
  PROVE  RowsTypeOK'
BY PartiesAssumption DEF RowsTypeOK, ReleaseAll, LetGo

\* BullMQ's bookkeeping stays within its bounds.
LEMMA JobTyped ==
  ASSUME QueueTypeOK, JobsBounded, NEW t \in Txs
  PROVE  AddJob(t) \/ RecoverStalled(t) => QueueTypeOK' /\ JobsBounded'
<1> USE PartiesAssumption, QueueAssumption DEF QueueTypeOK, JobsBounded, JobStates
<1>1. AddJob(t) => QueueTypeOK' /\ JobsBounded'
  BY DEF AddJob
<1>2. RecoverStalled(t) => QueueTypeOK' /\ JobsBounded'
  BY DEF RecoverStalled
<1> QED BY <1>1, <1>2

\* So does what a worker does to its job.
LEMMA OwnedJobTyped ==
  ASSUME QueueTypeOK, JobsBounded, NEW w \in Workers, NEW t \in Txs
  PROVE  TakeJob(w, t) \/ CompleteJob(w, t) \/ FailJob(w, t)
           => QueueTypeOK' /\ JobsBounded'
<1> USE PartiesAssumption, QueueAssumption DEF QueueTypeOK, JobsBounded, JobStates
<1>1. TakeJob(w, t) => QueueTypeOK' /\ JobsBounded'
  BY DEF TakeJob
<1>2. CompleteJob(w, t) => QueueTypeOK' /\ JobsBounded'
  BY DEF CompleteJob
<1>3. FailJob(w, t) => QueueTypeOK' /\ JobsBounded'
  BY DEF FailJob
<1> QED BY <1>1, <1>2, <1>3

\* So does the loss of its lock.
LEMMA ExpiryTyped ==
  ASSUME QueueTypeOK, JobsBounded, NEW w \in Workers, ExpireLocks(w)
  PROVE  QueueTypeOK' /\ JobsBounded'
BY PartiesAssumption DEF QueueTypeOK, JobsBounded, ExpireLocks

\* Every step leaves the database well typed.
LEMMA RowsStep ==
  ASSUME TypeOK, CurOK, JobsBounded, [Next]_vars
  PROVE  RowsTypeOK'
<1> USE PartiesAssumption, WorkerAssumption DEF TypeOK, RunTypeOK, CurOK, At
<1>1. ASSUME NEW t \in Txs, Insert(t)
      PROVE  RowsTypeOK'
  BY <1>1, InsertTyped DEF Insert
<1>2. ASSUME NEW t \in Txs, Enqueue(t) \/ CancelTransaction(t) \/ StalledJob(t)
             \/ EnqueueFails(t)
      PROVE  RowsTypeOK'
  BY <1>2 DEF Enqueue, CancelTransaction, StalledJob, EnqueueFails, rowVars,
     RowsTypeOK
<1>3. ASSUME NEW t \in Txs, NEW s \in PinSignals, VerifyPin(t, s) \/ PublishPin(t, s)
      PROVE  RowsTypeOK'
  BY <1>3 DEF VerifyPin, PublishPin, rowVars, RowsTypeOK
<1>4. ASSUME NEW w \in Workers, NEW t \in Txs, StartJob(w, t)
      PROVE  RowsTypeOK'
  BY <1>4 DEF StartJob, rowVars, RowsTypeOK
<1>5. ASSUME NEW w \in Workers, ReadStatus(w) \/ Announce(w) \/ ActOnPin(w)
             \/ RejectSettled(w) \/ BuildPayload(w) \/ CreateDispatch(w)
      PROVE  RowsTypeOK'
  BY <1>5 DEF ReadStatus, Announce, ActOnPin, RejectSettled, BuildPayload,
     CreateDispatch, rowVars, RowsTypeOK
<1>6. ASSUME NEW w \in Workers, AddWebhookJob(w) \/ Finish(w) \/ Throw(w) \/ Listen(w)
             \/ PinTimeout(w) \/ Resolve(w)
      PROVE  RowsTypeOK'
  BY <1>6 DEF AddWebhookJob, Finish, Throw, Listen, PinTimeout, Resolve, rowVars,
     RowsTypeOK
<1>7. ASSUME NEW w \in Workers, QueryFails(w) \/ MarkFailedLost(w) \/ LoseLock(w)
      PROVE  RowsTypeOK'
  BY <1>7 DEF QueryFails, MarkFailedLost, LoseLock, rowVars, RowsTypeOK
<1>8. ASSUME NEW w \in Workers, RejectConflict(w) \/ RejectFunds(w)
             \/ DeadlockAbortsPhase1(w) \/ DeadlockAbortsPhase2(w) \/ Phase1Fails(w)
             \/ Phase2Fails(w)
      PROVE  RowsTypeOK'
  BY <1>8, LocksTyped DEF RejectConflict, RejectFunds, DeadlockAbortsPhase1,
     DeadlockAbortsPhase2, Phase1Fails, Phase2Fails, Abandon
<1>9. ASSUME NEW w \in Workers, Validate(w) \/ LockTx(w)
      PROVE  RowsTypeOK'
  BY <1>9 DEF Validate, LockTx, RowsTypeOK, Take
<1>10. ASSUME NEW w \in Workers, CommitPhase1(w) \/ Phase1AckLost(w)
      PROVE  RowsTypeOK'
  BY <1>10, ProcessingTyped DEF CommitPhase1, Phase1AckLost
<1>11. ASSUME NEW w \in Workers, FailPending(w) \/ FailProcessing(w)
      PROVE  RowsTypeOK'
  BY <1>11, FailedTyped DEF FailPending, FailProcessing
<1>12. ASSUME NEW w \in Workers, Settle(w)
      PROVE  RowsTypeOK'
  BY <1>12, PaymentTyped, LocksTyped DEF Settle, Abandon
<1>13. ASSUME NEW w \in Workers, Phase2AckLost(w)
      PROVE  RowsTypeOK'
  BY <1>13, PaymentTyped DEF Phase2AckLost
<1>14. ASSUME NEW w \in Workers, Crash(w)
      PROVE  RowsTypeOK'
  BY <1>14, LocksTyped DEF Crash
<1>15. CASE UNCHANGED vars
  BY <1>15 DEF vars, rowVars, RowsTypeOK
<1> QED
  BY <1>1, <1>2, <1>3, <1>4, <1>5, <1>6, <1>7, <1>8, <1>9, <1>10, <1>11, <1>12, <1>13,
     <1>14, <1>15
  DEF Next, ApiStep, WorkerStep, PinWait, WorkerFault, BreakDeadlock

\* Every step leaves the queue well typed and within its bounds.
LEMMA QueueStep ==
  ASSUME TypeOK, CurOK, JobsBounded, [Next]_vars
  PROVE  QueueTypeOK' /\ JobsBounded'
<1> USE PartiesAssumption, WorkerAssumption DEF TypeOK, RunTypeOK, CurOK, At
<1>1. ASSUME NEW t \in Txs, Insert(t) \/ CancelTransaction(t) \/ EnqueueFails(t)
      PROVE  QueueTypeOK' /\ JobsBounded'
  BY <1>1 DEF Insert, CancelTransaction, EnqueueFails, queueVars, QueueTypeOK,
     JobsBounded
<1>2. ASSUME NEW t \in Txs, Enqueue(t) \/ StalledJob(t)
      PROVE  QueueTypeOK' /\ JobsBounded'
  BY <1>2, JobTyped DEF Enqueue, StalledJob
<1>3. ASSUME NEW t \in Txs, NEW s \in PinSignals, VerifyPin(t, s) \/ PublishPin(t, s)
      PROVE  QueueTypeOK' /\ JobsBounded'
  BY <1>3 DEF VerifyPin, PublishPin, queueVars, QueueTypeOK, JobsBounded
<1>4. ASSUME NEW w \in Workers, NEW t \in Txs, StartJob(w, t)
      PROVE  QueueTypeOK' /\ JobsBounded'
  BY <1>4, OwnedJobTyped DEF StartJob
<1>5. ASSUME NEW w \in Workers, ReadStatus(w) \/ RejectConflict(w) \/ RejectFunds(w)
             \/ Validate(w) \/ CommitPhase1(w) \/ FailPending(w)
      PROVE  QueueTypeOK' /\ JobsBounded'
  BY <1>5 DEF ReadStatus, RejectConflict, RejectFunds, Validate, CommitPhase1,
     FailPending, queueVars, QueueTypeOK, JobsBounded
<1>6. ASSUME NEW w \in Workers, Announce(w) \/ ActOnPin(w) \/ LockTx(w)
             \/ RejectSettled(w) \/ Settle(w) \/ FailProcessing(w)
      PROVE  QueueTypeOK' /\ JobsBounded'
  BY <1>6 DEF Announce, ActOnPin, LockTx, RejectSettled, Settle, FailProcessing,
     queueVars, QueueTypeOK, JobsBounded
<1>7. ASSUME NEW w \in Workers, BuildPayload(w) \/ CreateDispatch(w)
             \/ AddWebhookJob(w) \/ Listen(w) \/ PinTimeout(w) \/ Resolve(w)
      PROVE  QueueTypeOK' /\ JobsBounded'
  BY <1>7 DEF BuildPayload, CreateDispatch, AddWebhookJob, Listen, PinTimeout,
     Resolve, queueVars, QueueTypeOK, JobsBounded
<1>8. ASSUME NEW w \in Workers, DeadlockAbortsPhase1(w) \/ DeadlockAbortsPhase2(w)
             \/ QueryFails(w) \/ Phase1Fails(w) \/ Phase2Fails(w) \/ Phase1AckLost(w)
      PROVE  QueueTypeOK' /\ JobsBounded'
  BY <1>8 DEF DeadlockAbortsPhase1, DeadlockAbortsPhase2, QueryFails, Phase1Fails,
     Phase2Fails, Phase1AckLost, queueVars, QueueTypeOK, JobsBounded
<1>9. ASSUME NEW w \in Workers, Phase2AckLost(w) \/ MarkFailedLost(w)
      PROVE  QueueTypeOK' /\ JobsBounded'
  BY <1>9 DEF Phase2AckLost, MarkFailedLost, queueVars, QueueTypeOK, JobsBounded
<1>10. ASSUME NEW w \in Workers, Finish(w) \/ Throw(w)
      PROVE  QueueTypeOK' /\ JobsBounded'
  BY <1>10, OwnedJobTyped DEF Finish, Throw
<1>11. ASSUME NEW w \in Workers, Crash(w) \/ LoseLock(w)
      PROVE  QueueTypeOK' /\ JobsBounded'
  BY <1>11, ExpiryTyped DEF Crash, LoseLock
<1>12. CASE UNCHANGED vars
  BY <1>12 DEF vars, queueVars, QueueTypeOK, JobsBounded
<1> QED
  BY <1>1, <1>2, <1>3, <1>4, <1>5, <1>6, <1>7, <1>8, <1>9, <1>10, <1>11, <1>12
  DEF Next, ApiStep, WorkerStep, PinWait, WorkerFault, BreakDeadlock

\* A run that ends leaves its worker blank.
LEMMA RetireBlank ==
  ASSUME RunTypeOK, CurOK, NEW w \in Workers, Retire(w)
  PROVE  RunTypeOK' /\ CurOK'
BY WorkerAssumption
DEF RunTypeOK, CurOK, At, Goto, Steps, Retire, Bodies, NoBody, NoCode, Statuses

\* Every step leaves the workers' runs well typed, and an idle worker blank.
LEMMA RunStep ==
  ASSUME TypeOK, CurOK, JobsBounded, [Next]_vars
  PROVE  RunTypeOK' /\ CurOK'
<1> USE WorkerAssumption DEF TypeOK, RunTypeOK, CurOK, At, Goto, Steps
<1>1. ASSUME NEW t \in Txs, Insert(t) \/ Enqueue(t) \/ StalledJob(t)
             \/ EnqueueFails(t)
      PROVE  RunTypeOK' /\ CurOK'
  BY <1>1 DEF Insert, Enqueue, StalledJob, EnqueueFails, runVars
<1>2. ASSUME NEW t \in Txs, NEW s \in PinSignals, VerifyPin(t, s)
      PROVE  RunTypeOK' /\ CurOK'
  BY <1>2 DEF VerifyPin, runVars
<1>3. ASSUME NEW t \in Txs, NEW s \in PinSignals, PublishPin(t, s)
      PROVE  RunTypeOK' /\ CurOK'
  BY <1>3 DEF PublishPin, Deliver, Hears, Signals, PinSignals
<1>4. ASSUME NEW t \in Txs, CancelTransaction(t)
      PROVE  RunTypeOK' /\ CurOK'
  BY <1>4 DEF CancelTransaction, Deliver, Hears, Signals, PinSignals
<1>5. ASSUME NEW w \in Workers, NEW t \in Txs, StartJob(w, t)
      PROVE  RunTypeOK' /\ CurOK'
  BY <1>5 DEF StartJob
<1>6. ASSUME NEW w \in Workers, ReadStatus(w) \/ CommitPhase1(w)
      PROVE  RunTypeOK' /\ CurOK'
  BY <1>6 DEF ReadStatus, CommitPhase1, StartWaiting
<1>7. ASSUME NEW w \in Workers, RejectConflict(w) \/ RejectFunds(w) \/ Phase1Fails(w)
             \/ Phase2Fails(w)
      PROVE  RunTypeOK' /\ CurOK'
  BY <1>7 DEF RejectConflict, RejectFunds, Phase1Fails, Phase2Fails, Abandon,
     ResultCodes, Conflict, InsufficientFunds, SystemError
<1>8. ASSUME NEW w \in Workers, Validate(w) \/ Announce(w) \/ LockTx(w)
             \/ CreateDispatch(w) \/ AddWebhookJob(w) \/ Listen(w)
      PROVE  RunTypeOK' /\ CurOK'
  BY <1>8 DEF Validate, Announce, LockTx, CreateDispatch, AddWebhookJob, Listen
<1>9. ASSUME NEW w \in Workers, PinTimeout(w) \/ Resolve(w) \/ QueryFails(w)
      PROVE  RunTypeOK' /\ CurOK'
  BY <1>9 DEF PinTimeout, Resolve, QueryFails
<1>10. ASSUME NEW w \in Workers, FailPending(w)
      PROVE  RunTypeOK' /\ CurOK'
  BY <1>10 DEF FailPending, AfterPhase1Error, Events
<1>11. ASSUME NEW w \in Workers, ActOnPin(w)
      PROVE  RunTypeOK' /\ CurOK'
  BY <1>11 DEF ActOnPin, FailureCode, ResultCodes, WrongPin, Cancelled, TimedOut
<1>12. ASSUME NEW w \in Workers, RejectSettled(w)
      PROVE  RunTypeOK' /\ CurOK'
  BY <1>12 DEF RejectSettled, Events
<1>13. ASSUME NEW w \in Workers, Settle(w)
      PROVE  RunTypeOK' /\ CurOK'
  BY <1>13 DEF Settle, Completed, Events, Abandon, ResultCodes, InsufficientFunds
<1>14. ASSUME NEW w \in Workers, FailProcessing(w)
      PROVE  RunTypeOK' /\ CurOK'
  BY <1>14 DEF FailProcessing, Completed, Events
<1>15. ASSUME NEW w \in Workers, BuildPayload(w)
      PROVE  RunTypeOK' /\ CurOK'
  <2>1. cur[w] \in Txs
    BY <1>15 DEF BuildPayload
  <2>2. [status |-> status[cur[w]], resultCode |-> resultCode[cur[w]]] \in Bodies
    BY <2>1 DEF Bodies, RowsTypeOK
  <2>3. body' \in [Workers -> Bodies]
    BY <1>15, <2>2 DEF BuildPayload
  <2>4. pc' \in [Workers -> Steps]
    BY <1>15 DEF BuildPayload
  <2> QED BY <1>15, <2>3, <2>4 DEF BuildPayload
<1>16. ASSUME NEW w \in Workers, Finish(w) \/ Throw(w) \/ Crash(w)
      PROVE  RunTypeOK' /\ CurOK'
  BY <1>16, RetireBlank DEF Finish, Throw, Crash
<1>17. ASSUME NEW w \in Workers, DeadlockAbortsPhase1(w) \/ DeadlockAbortsPhase2(w)
      PROVE  RunTypeOK' /\ CurOK'
  BY <1>17 DEF DeadlockAbortsPhase1, DeadlockAbortsPhase2, Deadlocked, Abandon,
     ResultCodes, SystemError
<1>18. ASSUME NEW w \in Workers, Phase1AckLost(w) \/ Phase2AckLost(w)
      PROVE  RunTypeOK' /\ CurOK'
  BY <1>18 DEF Phase1AckLost, Phase2AckLost, ResultCodes, SystemError
<1>19. ASSUME NEW w \in Workers, MarkFailedLost(w)
      PROVE  RunTypeOK' /\ CurOK'
  BY <1>19 DEF MarkFailedLost, AfterPhase1Error, Completed, Events
<1>20. ASSUME NEW w \in Workers, LoseLock(w)
      PROVE  RunTypeOK' /\ CurOK'
  BY <1>20 DEF LoseLock, runVars
<1>21. CASE UNCHANGED vars
  BY <1>21 DEF vars, runVars
<1> QED
  BY <1>1, <1>2, <1>3, <1>4, <1>5, <1>6, <1>7, <1>8, <1>9, <1>10, <1>11, <1>12, <1>13,
     <1>14, <1>15, <1>16, <1>17, <1>18, <1>19, <1>20, <1>21
  DEF Next, ApiStep, WorkerStep, PinWait, WorkerFault, BreakDeadlock

\* Every step leaves the PIN requests and the webhooks well typed.
LEMMA RestStep ==
  ASSUME TypeOK, CurOK, JobsBounded, [Next]_vars
  PROVE  PinTypeOK' /\ refused' \subseteq Txs /\ dispatches' \subseteq Dispatches
         /\ webhookJobs' \subseteq Dispatches /\ faults' \in 0..MaxFaults
<1> USE WorkerAssumption DEF TypeOK, PinTypeOK, RunTypeOK, CurOK, At, Fault, Dispatches
<1>1. ASSUME NEW t \in Txs, Insert(t) \/ Enqueue(t) \/ StalledJob(t)
             \/ EnqueueFails(t)
      PROVE  PinTypeOK' /\ refused' \subseteq Txs /\ dispatches' \subseteq Dispatches
             /\ webhookJobs' \subseteq Dispatches /\ faults' \in 0..MaxFaults
  BY <1>1 DEF Insert, Enqueue, StalledJob, EnqueueFails, pinVars, hookVars
<1>2. ASSUME NEW t \in Txs, NEW s \in PinSignals, VerifyPin(t, s) \/ PublishPin(t, s)
      PROVE  PinTypeOK' /\ refused' \subseteq Txs /\ dispatches' \subseteq Dispatches
             /\ webhookJobs' \subseteq Dispatches /\ faults' \in 0..MaxFaults
  BY <1>2 DEF VerifyPin, PublishPin, Signals, PinSignals, hookVars
<1>3. ASSUME NEW t \in Txs, CancelTransaction(t)
      PROVE  PinTypeOK' /\ refused' \subseteq Txs /\ dispatches' \subseteq Dispatches
             /\ webhookJobs' \subseteq Dispatches /\ faults' \in 0..MaxFaults
  BY <1>3 DEF CancelTransaction, Signals, PinSignals, hookVars
<1>4. ASSUME NEW w \in Workers, NEW t \in Txs, StartJob(w, t)
      PROVE  PinTypeOK' /\ refused' \subseteq Txs /\ dispatches' \subseteq Dispatches
             /\ webhookJobs' \subseteq Dispatches /\ faults' \in 0..MaxFaults
  BY <1>4 DEF StartJob, pinVars, hookVars
<1>5. ASSUME NEW w \in Workers, ReadStatus(w) \/ RejectConflict(w) \/ RejectFunds(w)
             \/ Validate(w) \/ CommitPhase1(w) \/ FailPending(w)
      PROVE  PinTypeOK' /\ refused' \subseteq Txs /\ dispatches' \subseteq Dispatches
             /\ webhookJobs' \subseteq Dispatches /\ faults' \in 0..MaxFaults
  BY <1>5 DEF ReadStatus, RejectConflict, RejectFunds, Validate, CommitPhase1,
     FailPending, pinVars, hookVars
<1>6. ASSUME NEW w \in Workers, Announce(w) \/ ActOnPin(w) \/ LockTx(w)
             \/ RejectSettled(w) \/ Settle(w) \/ FailProcessing(w)
      PROVE  PinTypeOK' /\ refused' \subseteq Txs /\ dispatches' \subseteq Dispatches
             /\ webhookJobs' \subseteq Dispatches /\ faults' \in 0..MaxFaults
  BY <1>6 DEF Announce, ActOnPin, LockTx, RejectSettled, Settle, FailProcessing,
     pinVars, hookVars
<1>7. ASSUME NEW w \in Workers, BuildPayload(w) \/ Finish(w) \/ Throw(w) \/ Listen(w)
             \/ PinTimeout(w) \/ Resolve(w)
      PROVE  PinTypeOK' /\ refused' \subseteq Txs /\ dispatches' \subseteq Dispatches
             /\ webhookJobs' \subseteq Dispatches /\ faults' \in 0..MaxFaults
  BY <1>7 DEF BuildPayload, Finish, Throw, Listen, PinTimeout, Resolve, pinVars,
     hookVars
<1>8. ASSUME NEW w \in Workers, DeadlockAbortsPhase1(w) \/ DeadlockAbortsPhase2(w)
             \/ QueryFails(w) \/ Phase1Fails(w) \/ Phase2Fails(w) \/ Phase1AckLost(w)
      PROVE  PinTypeOK' /\ refused' \subseteq Txs /\ dispatches' \subseteq Dispatches
             /\ webhookJobs' \subseteq Dispatches /\ faults' \in 0..MaxFaults
  BY <1>8 DEF DeadlockAbortsPhase1, DeadlockAbortsPhase2, QueryFails, Phase1Fails,
     Phase2Fails, Phase1AckLost, pinVars, hookVars
<1>9. ASSUME NEW w \in Workers, Phase2AckLost(w) \/ MarkFailedLost(w) \/ Crash(w)
             \/ LoseLock(w)
      PROVE  PinTypeOK' /\ refused' \subseteq Txs /\ dispatches' \subseteq Dispatches
             /\ webhookJobs' \subseteq Dispatches /\ faults' \in 0..MaxFaults
  BY <1>9 DEF Phase2AckLost, MarkFailedLost, Crash, LoseLock, pinVars, hookVars
<1>10. ASSUME NEW w \in Workers, CreateDispatch(w) \/ AddWebhookJob(w)
      PROVE  PinTypeOK' /\ refused' \subseteq Txs /\ dispatches' \subseteq Dispatches
             /\ webhookJobs' \subseteq Dispatches /\ faults' \in 0..MaxFaults
  BY <1>10 DEF CreateDispatch, AddWebhookJob, Dispatch, pinVars
<1>11. CASE UNCHANGED vars
  BY <1>11 DEF vars, pinVars, hookVars
<1> QED
  BY <1>1, <1>2, <1>3, <1>4, <1>5, <1>6, <1>7, <1>8, <1>9, <1>10, <1>11
  DEF Next, ApiStep, WorkerStep, PinWait, WorkerFault, BreakDeadlock

\* The types hold initially.
LEMMA TypeInit == Init => TypeOK /\ CurOK /\ JobsBounded
BY PartiesAssumption, RowsAssumption, QueueAssumption, WorkerAssumption
DEF Init, RowsInit, QueueInit, TypeOK, RowsTypeOK, QueueTypeOK, RunTypeOK, PinTypeOK,
    CurOK, JobsBounded, At, Statuses, JobStates, Steps, Bodies, NoBody, NoCode

\* Every step preserves the types and what they rest on.
LEMMA TypeStep ==
  TypeOK /\ CurOK /\ JobsBounded /\ [Next]_vars => (TypeOK /\ CurOK /\ JobsBounded)'
<1> SUFFICES ASSUME TypeOK, CurOK, JobsBounded, [Next]_vars
             PROVE  (TypeOK /\ CurOK /\ JobsBounded)'
  OBVIOUS
<1> QED BY RowsStep, QueueStep, RunStep, RestStep DEF TypeOK

\* Every variable keeps its type: the queue's counters their bounds, the rows
\* their states, whatever the workers, the API and the faults do.
THEOREM TypeCorrect == Spec => []TypeOK
<1>1. Spec => [](TypeOK /\ CurOK /\ JobsBounded)
  BY TypeInit, TypeStep, PTL DEF Spec
<1> QED BY <1>1, PTL
=============================================================================
