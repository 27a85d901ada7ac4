---------------------------- MODULE PaymentProofs ----------------------------
(***************************************************************************)
(* Proofs, for every value of the constants, about PaymentWorker: the      *)
(* inductive invariant IInv with the safety properties in it, that payments*)
(* only move forward, and that every behaviour is one of the abstract      *)
(* Transfer.  One lemma per part of IInv shows that every step preserves   *)
(* it; InvStep puts them together.                                         *)
(***************************************************************************)
EXTENDS PaymentTypeProofs

-----------------------------------------------------------------------------
(*****************************************************************************)
(* The phases: row locks and payments in flight                              *)
(*****************************************************************************)

\* Row locks protect what phase 1 and phase 2 checked.
LEMMA PhaseStep ==
  ASSUME TypeOK, CurOK, Phase1Locked, Phase2Locked, OneProcessingPerUser,
         ProcessingFunded, [Next]_vars
  PROVE  Phase1Locked' /\ Phase2Locked'
<1> USE PartiesAssumption, RowsAssumption, WorkerAssumption
    DEF TypeOK, RowsTypeOK, RunTypeOK, CurOK, At, Goto, Phase1Locked, Phase2Locked,
        HasActiveTransaction, OneProcessingPerUser, ProcessingFunded
<1>1. ASSUME NEW t \in Txs, Insert(t)
      PROVE  Phase1Locked' /\ Phase2Locked'
  BY <1>1 DEF Insert, InsertPending, runVars
<1>2. ASSUME NEW t \in Txs, Enqueue(t) \/ StalledJob(t) \/ EnqueueFails(t)
      PROVE  Phase1Locked' /\ Phase2Locked'
  BY <1>2 DEF Enqueue, StalledJob, EnqueueFails, runVars, rowVars
<1>3. ASSUME NEW t \in Txs, NEW s \in PinSignals, VerifyPin(t, s)
      PROVE  Phase1Locked' /\ Phase2Locked'
  BY <1>3 DEF VerifyPin, runVars, rowVars
<1>4. ASSUME NEW t \in Txs, NEW s \in PinSignals, PublishPin(t, s)
      PROVE  Phase1Locked' /\ Phase2Locked'
  BY <1>4 DEF PublishPin, Deliver, rowVars
<1>5. ASSUME NEW t \in Txs, CancelTransaction(t)
      PROVE  Phase1Locked' /\ Phase2Locked'
  BY <1>5 DEF CancelTransaction, Deliver, rowVars
<1>6. ASSUME NEW w \in Workers, NEW t \in Txs, StartJob(w, t)
      PROVE  Phase1Locked' /\ Phase2Locked'
  BY <1>6 DEF StartJob, rowVars
<1>7. ASSUME NEW w \in Workers, ReadStatus(w)
      PROVE  Phase1Locked' /\ Phase2Locked'
  BY <1>7 DEF ReadStatus, StartWaiting, rowVars
<1>8. ASSUME NEW w \in Workers, RejectConflict(w) \/ RejectFunds(w) \/ Phase1Fails(w)
             \/ Phase2Fails(w)
      PROVE  Phase1Locked' /\ Phase2Locked'
  BY <1>8 DEF RejectConflict, RejectFunds, Phase1Fails, Phase2Fails, Abandon,
     ReleaseAll, LetGo
<1>9. ASSUME NEW w \in Workers, Validate(w) \/ LockTx(w)
      PROVE  Phase1Locked' /\ Phase2Locked'
  BY <1>9 DEF Validate, LockTx, Take
<1>10. ASSUME NEW w \in Workers, CommitPhase1(w)
      PROVE  Phase1Locked' /\ Phase2Locked'
  BY <1>10 DEF CommitPhase1, CommitProcessing, StartWaiting, ReleaseAll, LetGo
<1>11. ASSUME NEW w \in Workers, FailPending(w)
      PROVE  Phase1Locked' /\ Phase2Locked'
  BY <1>11 DEF FailPending, MarkFailed, AfterPhase1Error
<1>12. ASSUME NEW w \in Workers, Announce(w) \/ ActOnPin(w) \/ RejectSettled(w)
             \/ BuildPayload(w) \/ CreateDispatch(w) \/ AddWebhookJob(w)
      PROVE  Phase1Locked' /\ Phase2Locked'
  BY <1>12 DEF Announce, ActOnPin, RejectSettled, BuildPayload, CreateDispatch,
     AddWebhookJob, rowVars
<1>13. ASSUME NEW w \in Workers, Listen(w) \/ PinTimeout(w) \/ Resolve(w)
             \/ QueryFails(w)
      PROVE  Phase1Locked' /\ Phase2Locked'
  BY <1>13 DEF Listen, PinTimeout, Resolve, QueryFails, rowVars
<1>14. ASSUME NEW w \in Workers, Settle(w)
      PROVE  Phase1Locked' /\ Phase2Locked'
  <2>1. cur[w] \in Txs /\ status[cur[w]] = "PROCESSING"
    BY <1>14 DEF Settle
  <2>2. userBalance[Payer[cur[w]]] >= Amount[cur[w]]
    BY <2>1
  <2>3. CommitPayment(w, cur[w]) /\ Completed(w) /\ UNCHANGED cur
    BY <1>14, <2>2 DEF Settle
  <2>4. ASSUME NEW v \in Workers, pc'[v] = "markProcessing"
        PROVE  v # w /\ pc[v] = "markProcessing" /\ Payer[cur[v]] # Payer[cur[w]]
    BY <1>14, <2>3, <2>4 DEF Settle, Completed
  <2>5. Phase1Locked'
    BY <2>1, <2>3, <2>4 DEF CommitPayment, ReleaseAll, LetGo
  <2>6. ASSUME NEW v \in Workers, pc'[v] = "settle"
        PROVE  v # w /\ pc[v] = "settle" /\ cur[v] # cur[w]
    BY <1>14, <2>3, <2>6 DEF Settle, Completed
  <2>7. Phase2Locked'
    BY <2>1, <2>3, <2>6 DEF CommitPayment, ReleaseAll, LetGo
  <2> QED BY <2>5, <2>7
<1>15. ASSUME NEW w \in Workers, FailProcessing(w)
      PROVE  Phase1Locked' /\ Phase2Locked'
  BY <1>15 DEF FailProcessing, MarkFailed, Completed
<1>16. ASSUME NEW w \in Workers, Finish(w) \/ Throw(w)
      PROVE  Phase1Locked' /\ Phase2Locked'
  <2>1. /\ UNCHANGED rowVars
        /\ pc'[w] = "idle"
        /\ \A v \in Workers \ {w} : pc'[v] = pc[v] /\ cur'[v] = cur[v]
    BY <1>16 DEF Finish, Throw, Retire
  <2>2. ASSUME NEW v \in Workers, pc'[v] \in {"markProcessing", "settle"}
        PROVE  pc[v] = pc'[v] /\ cur'[v] = cur[v]
    BY <2>1, <2>2
  <2>3. Phase1Locked'
    BY <2>1, <2>2 DEF rowVars
  <2>4. Phase2Locked'
    BY <2>1, <2>2 DEF rowVars
  <2> QED BY <2>3, <2>4
<1>17. ASSUME NEW w \in Workers, DeadlockAbortsPhase1(w) \/ DeadlockAbortsPhase2(w)
      PROVE  Phase1Locked' /\ Phase2Locked'
  BY <1>17 DEF DeadlockAbortsPhase1, DeadlockAbortsPhase2, Abandon, ReleaseAll, LetGo,
     Deadlocked
<1>18. ASSUME NEW w \in Workers, Phase1AckLost(w)
      PROVE  Phase1Locked' /\ Phase2Locked'
  BY <1>18 DEF Phase1AckLost, CommitProcessing, ReleaseAll, LetGo
<1>19. ASSUME NEW w \in Workers, Phase2AckLost(w)
      PROVE  Phase1Locked' /\ Phase2Locked'
  BY <1>19 DEF Phase2AckLost, CommitPayment, ReleaseAll, LetGo
<1>20. ASSUME NEW w \in Workers, MarkFailedLost(w)
      PROVE  Phase1Locked' /\ Phase2Locked'
  BY <1>20 DEF MarkFailedLost, AfterPhase1Error, Completed, rowVars
<1>21. ASSUME NEW w \in Workers, Crash(w)
      PROVE  Phase1Locked' /\ Phase2Locked'
  BY <1>21 DEF Crash, Retire, ReleaseAll, LetGo
<1>22. ASSUME NEW w \in Workers, LoseLock(w)
      PROVE  Phase1Locked' /\ Phase2Locked'
  BY <1>22 DEF LoseLock, runVars, rowVars
<1>23. CASE UNCHANGED vars
  BY <1>23 DEF vars, rowVars, runVars
<1> QED
  BY <1>1, <1>2, <1>3, <1>4, <1>5, <1>6, <1>7, <1>8, <1>9, <1>10, <1>11, <1>12, <1>13,
     <1>14, <1>15, <1>16, <1>17, <1>18, <1>19, <1>20, <1>21, <1>22, <1>23
  DEF Next, ApiStep, WorkerStep, PinWait, WorkerFault, BreakDeadlock

\* At most one payment of a user is in flight, and it is covered.
LEMMA FlightStep ==
  ASSUME TypeOK, CurOK, Phase1Locked, Phase2Locked, OneProcessingPerUser,
         ProcessingFunded, [Next]_vars
  PROVE  OneProcessingPerUser' /\ ProcessingFunded'
<1> USE PartiesAssumption, RowsAssumption, WorkerAssumption
    DEF TypeOK, RowsTypeOK, RunTypeOK, CurOK, At, Goto, Phase1Locked, Phase2Locked,
        HasActiveTransaction, OneProcessingPerUser, ProcessingFunded
<1>1. ASSUME NEW t \in Txs, Insert(t)
      PROVE  OneProcessingPerUser' /\ ProcessingFunded'
  BY <1>1 DEF Insert, InsertPending, runVars
<1>2. ASSUME NEW t \in Txs, Enqueue(t) \/ StalledJob(t) \/ EnqueueFails(t)
      PROVE  OneProcessingPerUser' /\ ProcessingFunded'
  BY <1>2 DEF Enqueue, StalledJob, EnqueueFails, runVars, rowVars
<1>3. ASSUME NEW t \in Txs, NEW s \in PinSignals, VerifyPin(t, s)
      PROVE  OneProcessingPerUser' /\ ProcessingFunded'
  BY <1>3 DEF VerifyPin, runVars, rowVars
<1>4. ASSUME NEW t \in Txs, NEW s \in PinSignals, PublishPin(t, s)
      PROVE  OneProcessingPerUser' /\ ProcessingFunded'
  BY <1>4 DEF PublishPin, Deliver, rowVars
<1>5. ASSUME NEW t \in Txs, CancelTransaction(t)
      PROVE  OneProcessingPerUser' /\ ProcessingFunded'
  BY <1>5 DEF CancelTransaction, Deliver, rowVars
<1>6. ASSUME NEW w \in Workers, NEW t \in Txs, StartJob(w, t)
      PROVE  OneProcessingPerUser' /\ ProcessingFunded'
  BY <1>6 DEF StartJob, rowVars
<1>7. ASSUME NEW w \in Workers, ReadStatus(w)
      PROVE  OneProcessingPerUser' /\ ProcessingFunded'
  BY <1>7 DEF ReadStatus, StartWaiting, rowVars
<1>8. ASSUME NEW w \in Workers, RejectConflict(w) \/ RejectFunds(w) \/ Phase1Fails(w)
             \/ Phase2Fails(w)
      PROVE  OneProcessingPerUser' /\ ProcessingFunded'
  BY <1>8 DEF RejectConflict, RejectFunds, Phase1Fails, Phase2Fails, Abandon,
     ReleaseAll, LetGo
<1>9. ASSUME NEW w \in Workers, Validate(w) \/ LockTx(w)
      PROVE  OneProcessingPerUser' /\ ProcessingFunded'
  BY <1>9 DEF Validate, LockTx, Take
<1>10. ASSUME NEW w \in Workers, CommitPhase1(w)
      PROVE  OneProcessingPerUser' /\ ProcessingFunded'
  BY <1>10 DEF CommitPhase1, CommitProcessing, StartWaiting, ReleaseAll, LetGo
<1>11. ASSUME NEW w \in Workers, FailPending(w)
      PROVE  OneProcessingPerUser' /\ ProcessingFunded'
  BY <1>11 DEF FailPending, MarkFailed, AfterPhase1Error
<1>12. ASSUME NEW w \in Workers, Announce(w) \/ ActOnPin(w) \/ RejectSettled(w)
             \/ BuildPayload(w) \/ CreateDispatch(w) \/ AddWebhookJob(w)
      PROVE  OneProcessingPerUser' /\ ProcessingFunded'
  BY <1>12 DEF Announce, ActOnPin, RejectSettled, BuildPayload, CreateDispatch,
     AddWebhookJob, rowVars
<1>13. ASSUME NEW w \in Workers, Listen(w) \/ PinTimeout(w) \/ Resolve(w)
             \/ QueryFails(w)
      PROVE  OneProcessingPerUser' /\ ProcessingFunded'
  BY <1>13 DEF Listen, PinTimeout, Resolve, QueryFails, rowVars
<1>14. ASSUME NEW w \in Workers, Settle(w)
      PROVE  OneProcessingPerUser' /\ ProcessingFunded'
  <2>1. w \in Workers /\ cur[w] \in Txs /\ status[cur[w]] = "PROCESSING"
    BY <1>14 DEF Settle
  <2>2. CASE CommitPayment(w, cur[w])
    <3>1. status' = [status EXCEPT ![cur[w]] = "SUCCESS"]
      BY <2>1, <2>2 DEF CommitPayment
    <3>2. userBalance' = [userBalance EXCEPT ![Payer[cur[w]]] = @ - Amount[cur[w]]]
      BY <2>2 DEF CommitPayment
    <3>3. \A t \in Txs : status'[t] = "PROCESSING" =>
            /\ status[t] = "PROCESSING"
            /\ Payer[t] # Payer[cur[w]]
      BY <2>1, <3>1
    <3> QED BY <2>1, <3>2, <3>3
  <2>3. CASE Abandon(w, "failProcessing", InsufficientFunds)
    BY <2>3 DEF Abandon
  <2> QED BY <1>14, <2>2, <2>3 DEF Settle
<1>15. ASSUME NEW w \in Workers, FailProcessing(w)
      PROVE  OneProcessingPerUser' /\ ProcessingFunded'
  <2>1. MarkFailed(cur[w], "PROCESSING", code[w]) /\ cur[w] \in Txs
    BY <1>15 DEF FailProcessing
  <2>2. \A t \in Txs : status'[t] = "PROCESSING" => status[t] = "PROCESSING"
    BY <2>1 DEF MarkFailed
  <2>3. UNCHANGED userBalance
    BY <2>1 DEF MarkFailed
  <2> QED BY <2>2, <2>3
<1>16. ASSUME NEW w \in Workers, Finish(w) \/ Throw(w)
      PROVE  OneProcessingPerUser' /\ ProcessingFunded'
  BY <1>16 DEF Finish, Throw, Retire, rowVars
<1>17. ASSUME NEW w \in Workers, DeadlockAbortsPhase1(w) \/ DeadlockAbortsPhase2(w)
      PROVE  OneProcessingPerUser' /\ ProcessingFunded'
  BY <1>17 DEF DeadlockAbortsPhase1, DeadlockAbortsPhase2, Abandon, ReleaseAll, LetGo,
     Deadlocked
<1>18. ASSUME NEW w \in Workers, Phase1AckLost(w)
      PROVE  OneProcessingPerUser' /\ ProcessingFunded'
  BY <1>18 DEF Phase1AckLost, CommitProcessing, ReleaseAll, LetGo
<1>19. ASSUME NEW w \in Workers, Phase2AckLost(w)
      PROVE  OneProcessingPerUser' /\ ProcessingFunded'
  BY <1>19 DEF Phase2AckLost, CommitPayment, ReleaseAll, LetGo
<1>20. ASSUME NEW w \in Workers, MarkFailedLost(w)
      PROVE  OneProcessingPerUser' /\ ProcessingFunded'
  BY <1>20 DEF MarkFailedLost, AfterPhase1Error, Completed, rowVars
<1>21. ASSUME NEW w \in Workers, Crash(w)
      PROVE  OneProcessingPerUser' /\ ProcessingFunded'
  BY <1>21 DEF Crash, Retire, ReleaseAll, LetGo
<1>22. ASSUME NEW w \in Workers, LoseLock(w)
      PROVE  OneProcessingPerUser' /\ ProcessingFunded'
  BY <1>22 DEF LoseLock, runVars, rowVars
<1>23. CASE UNCHANGED vars
  BY <1>23 DEF vars, rowVars, runVars
<1> QED
  BY <1>1, <1>2, <1>3, <1>4, <1>5, <1>6, <1>7, <1>8, <1>9, <1>10, <1>11, <1>12, <1>13,
     <1>14, <1>15, <1>16, <1>17, <1>18, <1>19, <1>20, <1>21, <1>22, <1>23
  DEF Next, ApiStep, WorkerStep, PinWait, WorkerFault, BreakDeadlock

-----------------------------------------------------------------------------
(*****************************************************************************)
(* Signals, result codes and reports                                         *)
(*****************************************************************************)

\* A worker only ever acts on a signal the API accepted for its transaction.
LEMMA SignalStep ==
  ASSUME TypeOK, CurOK, SignalsAccepted, [Next]_vars
  PROVE  SignalsAccepted'
<1> USE WorkerAssumption DEF TypeOK, RunTypeOK, CurOK, PinTypeOK, At, Goto, SignalsAccepted
<1>1. ASSUME NEW t \in Txs, Insert(t) \/ Enqueue(t) \/ StalledJob(t)
             \/ EnqueueFails(t)
      PROVE  SignalsAccepted'
  BY <1>1 DEF Insert, Enqueue, StalledJob, EnqueueFails, runVars, pinVars
<1>2. ASSUME NEW t \in Txs, NEW s \in PinSignals, VerifyPin(t, s)
      PROVE  SignalsAccepted'
  BY <1>2 DEF VerifyPin, Signals, PinSignals, runVars
<1>3. ASSUME NEW t \in Txs, NEW s \in PinSignals, PublishPin(t, s)
      PROVE  SignalsAccepted'
  BY <1>3 DEF PublishPin, Signals, PinSignals, Hears, Deliver
<1>4. ASSUME NEW t \in Txs, CancelTransaction(t)
      PROVE  SignalsAccepted'
  BY <1>4 DEF CancelTransaction, Signals, PinSignals, Hears, Deliver
<1>5. ASSUME NEW w \in Workers, NEW t \in Txs, StartJob(w, t)
      PROVE  SignalsAccepted'
  BY <1>5 DEF StartJob, pinVars
<1>6. ASSUME NEW w \in Workers, ReadStatus(w) \/ CommitPhase1(w)
      PROVE  SignalsAccepted'
  BY <1>6 DEF ReadStatus, CommitPhase1, StartWaiting, pinVars
<1>7. ASSUME NEW w \in Workers, RejectConflict(w) \/ RejectFunds(w) \/ Phase1Fails(w)
             \/ Phase2Fails(w)
      PROVE  SignalsAccepted'
  BY <1>7 DEF RejectConflict, RejectFunds, Phase1Fails, Phase2Fails, Abandon, pinVars
<1>8. ASSUME NEW w \in Workers, Validate(w) \/ Announce(w) \/ ActOnPin(w) \/ LockTx(w)
             \/ RejectSettled(w) \/ BuildPayload(w)
      PROVE  SignalsAccepted'
  BY <1>8 DEF Validate, Announce, ActOnPin, LockTx, RejectSettled, BuildPayload,
     pinVars
<1>9. ASSUME NEW w \in Workers, CreateDispatch(w) \/ AddWebhookJob(w) \/ Listen(w)
             \/ PinTimeout(w) \/ Resolve(w) \/ QueryFails(w)
      PROVE  SignalsAccepted'
  BY <1>9 DEF CreateDispatch, AddWebhookJob, Listen, PinTimeout, Resolve, QueryFails,
     pinVars
<1>10. ASSUME NEW w \in Workers, Phase1AckLost(w) \/ Phase2AckLost(w)
      PROVE  SignalsAccepted'
  BY <1>10 DEF Phase1AckLost, Phase2AckLost, pinVars
<1>11. ASSUME NEW w \in Workers, FailPending(w)
      PROVE  SignalsAccepted'
  BY <1>11 DEF FailPending, AfterPhase1Error, pinVars
<1>12. ASSUME NEW w \in Workers, Settle(w)
      PROVE  SignalsAccepted'
  BY <1>12 DEF Settle, Completed, Abandon, pinVars
<1>13. ASSUME NEW w \in Workers, FailProcessing(w)
      PROVE  SignalsAccepted'
  BY <1>13 DEF FailProcessing, Completed, pinVars
<1>14. ASSUME NEW w \in Workers, Finish(w) \/ Throw(w) \/ Crash(w)
      PROVE  SignalsAccepted'
  BY <1>14 DEF Finish, Throw, Crash, Retire, pinVars
<1>15. ASSUME NEW w \in Workers, DeadlockAbortsPhase1(w) \/ DeadlockAbortsPhase2(w)
      PROVE  SignalsAccepted'
  BY <1>15 DEF DeadlockAbortsPhase1, DeadlockAbortsPhase2, Abandon, Deadlocked,
     pinVars
<1>16. ASSUME NEW w \in Workers, MarkFailedLost(w)
      PROVE  SignalsAccepted'
  BY <1>16 DEF MarkFailedLost, AfterPhase1Error, Completed, pinVars
<1>17. ASSUME NEW w \in Workers, LoseLock(w)
      PROVE  SignalsAccepted'
  BY <1>17 DEF LoseLock, runVars, pinVars
<1>18. CASE UNCHANGED vars
  BY <1>18 DEF vars, pinVars, runVars
<1> QED
  BY <1>1, <1>2, <1>3, <1>4, <1>5, <1>6, <1>7, <1>8, <1>9, <1>10, <1>11, <1>12, <1>13,
     <1>14, <1>15, <1>16, <1>17, <1>18
  DEF Next, ApiStep, WorkerStep, PinWait, WorkerFault, BreakDeadlock

\* what ForwardOnly says of one step
Forward ==
  \A t \in Txs :
    /\ status'[t] # status[t] => <<status[t], status'[t]>> \in StatusOrder
    /\ status[t] \in Terminal => resultCode'[t] = resultCode[t]

\* A payment moves forward only.
LEMMA ForwardStep ==
  ASSUME TypeOK, CurOK, Phase2Locked, [Next]_vars
  PROVE  Forward
<1> USE WorkerAssumption
    DEF TypeOK, RowsTypeOK, RunTypeOK, CurOK, At, Phase2Locked, Forward, StatusOrder,
        Terminal, Statuses
<1>1. ASSUME NEW t \in Txs, Insert(t)
      PROVE  Forward
  BY <1>1 DEF Insert, InsertPending
<1>2. ASSUME NEW t \in Txs, Enqueue(t) \/ CancelTransaction(t) \/ StalledJob(t)
             \/ EnqueueFails(t)
      PROVE  Forward
  BY <1>2 DEF Enqueue, CancelTransaction, StalledJob, EnqueueFails, rowVars
<1>3. ASSUME NEW t \in Txs, NEW s \in PinSignals, VerifyPin(t, s) \/ PublishPin(t, s)
      PROVE  Forward
  BY <1>3 DEF VerifyPin, PublishPin, rowVars
<1>4. ASSUME NEW w \in Workers, NEW t \in Txs, StartJob(w, t)
      PROVE  Forward
  BY <1>4 DEF StartJob, rowVars
<1>5. ASSUME NEW w \in Workers, ReadStatus(w) \/ Announce(w) \/ ActOnPin(w)
             \/ RejectSettled(w) \/ BuildPayload(w) \/ CreateDispatch(w)
      PROVE  Forward
  BY <1>5 DEF ReadStatus, Announce, ActOnPin, RejectSettled, BuildPayload,
     CreateDispatch, rowVars
<1>6. ASSUME NEW w \in Workers, AddWebhookJob(w) \/ Finish(w) \/ Throw(w) \/ Listen(w)
             \/ PinTimeout(w) \/ Resolve(w)
      PROVE  Forward
  BY <1>6 DEF AddWebhookJob, Finish, Throw, Listen, PinTimeout, Resolve, rowVars
<1>7. ASSUME NEW w \in Workers, QueryFails(w) \/ MarkFailedLost(w) \/ LoseLock(w)
      PROVE  Forward
  BY <1>7 DEF QueryFails, MarkFailedLost, LoseLock, rowVars
<1>8. ASSUME NEW w \in Workers, RejectConflict(w) \/ RejectFunds(w)
             \/ DeadlockAbortsPhase1(w) \/ DeadlockAbortsPhase2(w) \/ Phase1Fails(w)
             \/ Phase2Fails(w)
      PROVE  Forward
  BY <1>8 DEF RejectConflict, RejectFunds, DeadlockAbortsPhase1, DeadlockAbortsPhase2,
     Phase1Fails, Phase2Fails, Abandon
<1>9. ASSUME NEW w \in Workers, Validate(w) \/ LockTx(w) \/ Crash(w)
      PROVE  Forward
  BY <1>9 DEF Validate, LockTx, Crash
<1>10. ASSUME NEW w \in Workers, CommitPhase1(w) \/ Phase1AckLost(w)
      PROVE  Forward
  BY <1>10 DEF CommitPhase1, Phase1AckLost, CommitProcessing
<1>11. ASSUME NEW w \in Workers, FailPending(w) \/ FailProcessing(w)
      PROVE  Forward
  BY <1>11 DEF FailPending, FailProcessing, MarkFailed
<1>12. ASSUME NEW w \in Workers, Settle(w)
      PROVE  Forward
  BY <1>12 DEF Settle, Abandon, CommitPayment
<1>13. ASSUME NEW w \in Workers, Phase2AckLost(w)
      PROVE  Forward
  BY <1>13 DEF Phase2AckLost, CommitPayment
<1>14. CASE UNCHANGED vars
  BY <1>14 DEF vars, rowVars
<1> QED
  BY <1>1, <1>2, <1>3, <1>4, <1>5, <1>6, <1>7, <1>8, <1>9, <1>10, <1>11, <1>12, <1>13,
     <1>14
  DEF Next, ApiStep, WorkerStep, PinWait, WorkerFault, BreakDeadlock

\* What the reasons of codes rest on is never taken back: answers, fired timers,
\* money spent, and which payments are or were in flight.
NothingForgotten ==
  /\ accepted \subseteq accepted'
  /\ timedOut \subseteq timedOut'
  /\ \A u \in Users : userBalance'[u] <= userBalance[u]
  /\ \A o \in Txs : WasInFlight(o) => WasInFlight(o)'

\* so a code's reason stays
LEMMA ReasonsLast ==
  ASSUME NothingForgotten, RowsTypeOK, RowsTypeOK', NEW t \in Txs, NEW c
  PROVE  HasReason(t, c) => HasReason(t, c)'
<1>1. userBalance'[Payer[t]] <= userBalance[Payer[t]]
      /\ userBalance'[Payer[t]] \in Nat /\ userBalance[Payer[t]] \in Nat /\ Amount[t] \in Nat
  BY RowsAssumption DEF NothingForgotten, RowsTypeOK
<1>2. userBalance[Payer[t]] < Amount[t] => userBalance'[Payer[t]] < Amount[t]
  BY <1>1
<1> QED BY <1>2 DEF NothingForgotten, HasReason

\* how one step may change a row, and its result code with it
RowMoves(t) ==
  \/ /\ resultCode'[t] = resultCode[t]
     /\ \/ status'[t] = status[t]
        \/ status[t] \in {"ABSENT", "PENDING"} /\ status'[t] \in {"PENDING", "PROCESSING"}
  \/ resultCode'[t] = Success /\ status'[t] = "SUCCESS"
  \/ /\ status'[t] = "FAILED" /\ resultCode'[t] # Success
     /\ HasReason(t, resultCode'[t])
     /\ status[t] = "PROCESSING" => resultCode'[t] \in FlightCodes

\* A row that fails gets the code a worker carried, for which there is a reason.
LEMMA RowsMove ==
  ASSUME TypeOK, CurOK, Phase2Locked, CodeKnown, [Next]_vars
  PROVE  /\ \A t \in Txs : RowMoves(t)
         /\ \A u \in Users : userBalance'[u] <= userBalance[u]
<1> DEFINE Moves == /\ \A t \in Txs : RowMoves(t)
                    /\ \A u \in Users : userBalance'[u] <= userBalance[u]
<1> USE WorkerAssumption, RowsAssumption
    DEF TypeOK, RowsTypeOK, RunTypeOK, CurOK, At, Phase2Locked
<1>0. ASSUME UNCHANGED <<status, resultCode, userBalance>>
      PROVE  Moves
  BY <1>0 DEF RowMoves
<1>1. ASSUME NEW t \in Txs, Insert(t)
      PROVE  Moves
  BY <1>1 DEF Insert, InsertPending, RowMoves
<1>2. ASSUME NEW t \in Txs, Enqueue(t) \/ CancelTransaction(t) \/ StalledJob(t)
             \/ EnqueueFails(t)
      PROVE  Moves
  BY <1>0, <1>2 DEF Enqueue, CancelTransaction, StalledJob, EnqueueFails, rowVars
<1>3. ASSUME NEW t \in Txs, NEW s \in PinSignals, VerifyPin(t, s) \/ PublishPin(t, s)
      PROVE  Moves
  BY <1>0, <1>3 DEF VerifyPin, PublishPin, rowVars
<1>4. ASSUME NEW w \in Workers, NEW t \in Txs, StartJob(w, t)
      PROVE  Moves
  BY <1>0, <1>4 DEF StartJob, rowVars
<1>5. ASSUME NEW w \in Workers, ReadStatus(w) \/ Announce(w) \/ ActOnPin(w)
             \/ RejectSettled(w) \/ BuildPayload(w) \/ CreateDispatch(w)
      PROVE  Moves
  BY <1>0, <1>5 DEF ReadStatus, Announce, ActOnPin, RejectSettled, BuildPayload,
     CreateDispatch, rowVars
<1>6. ASSUME NEW w \in Workers, AddWebhookJob(w) \/ Finish(w) \/ Throw(w) \/ Listen(w)
             \/ PinTimeout(w) \/ Resolve(w)
      PROVE  Moves
  BY <1>0, <1>6 DEF AddWebhookJob, Finish, Throw, Listen, PinTimeout, Resolve, rowVars
<1>7. ASSUME NEW w \in Workers, QueryFails(w) \/ MarkFailedLost(w) \/ LoseLock(w)
      PROVE  Moves
  BY <1>0, <1>7 DEF QueryFails, MarkFailedLost, LoseLock, rowVars
<1>8. ASSUME NEW w \in Workers, RejectConflict(w) \/ RejectFunds(w)
             \/ DeadlockAbortsPhase1(w) \/ DeadlockAbortsPhase2(w) \/ Phase1Fails(w)
             \/ Phase2Fails(w)
      PROVE  Moves
  BY <1>0, <1>8 DEF RejectConflict, RejectFunds, DeadlockAbortsPhase1,
     DeadlockAbortsPhase2, Phase1Fails, Phase2Fails, Abandon
<1>9. ASSUME NEW w \in Workers, Validate(w) \/ LockTx(w) \/ Crash(w)
      PROVE  Moves
  BY <1>0, <1>9 DEF Validate, LockTx, Crash
<1>10. ASSUME NEW w \in Workers, CommitPhase1(w) \/ Phase1AckLost(w)
      PROVE  Moves
  BY <1>10 DEF CommitPhase1, Phase1AckLost, CommitProcessing, RowMoves
<1>11. ASSUME NEW w \in Workers, NEW from, MarkFailed(cur[w], from, code[w]),
              cur[w] \in Txs, from = "PROCESSING" => code[w] \in FlightCodes
      PROVE  Moves
  <2>1. HasReason(cur[w], code[w]) /\ code[w] # Success
    BY DEF CodeKnown
  <2>2. CASE status[cur[w]] = from
    <3>1. \A t \in Txs \ {cur[w]} : UNCHANGED <<status[t], resultCode[t]>>
      BY <1>11, <2>2 DEF MarkFailed
    <3>2. status'[cur[w]] = "FAILED" /\ resultCode'[cur[w]] = code[w]
      BY <1>11, <2>2 DEF MarkFailed
    <3>3. RowMoves(cur[w])
      BY <1>11, <2>1, <2>2, <3>2 DEF RowMoves
    <3>4. \A t \in Txs \ {cur[w]} : RowMoves(t)
      BY <3>1 DEF RowMoves
    <3> QED BY <1>11, <3>3, <3>4 DEF MarkFailed
  <2>3. CASE status[cur[w]] # from
    BY <1>0, <1>11, <2>3 DEF MarkFailed
  <2> QED BY <2>2, <2>3
<1>12. ASSUME NEW w \in Workers, FailPending(w) \/ FailProcessing(w)
      PROVE  Moves
  BY <1>11, <1>12 DEF FailPending, FailProcessing, CodeKnown
<1>13. ASSUME NEW w \in Workers, CommitPayment(w, cur[w]), cur[w] \in Txs
      PROVE  Moves
  BY <1>13 DEF CommitPayment, RowMoves
<1>14. ASSUME NEW w \in Workers, Settle(w) \/ Phase2AckLost(w)
      PROVE  Moves
  <2>1. CASE CommitPayment(w, cur[w])
    BY <1>13, <1>14, <2>1 DEF Settle, Phase2AckLost
  <2>2. CASE Abandon(w, "failProcessing", InsufficientFunds)
    BY <1>0, <2>2 DEF Abandon
  <2> QED BY <1>14, <2>1, <2>2 DEF Settle, Phase2AckLost
<1>15. CASE UNCHANGED vars
  BY <1>0, <1>15 DEF vars, rowVars
<1> HIDE DEF Moves
<1> QED
  BY <1>1, <1>2, <1>3, <1>4, <1>5, <1>6, <1>7, <1>8, <1>9, <1>10, <1>12, <1>14, <1>15
  DEF Next, ApiStep, WorkerStep, PinWait, WorkerFault, BreakDeadlock, Moves

\* Nor does any step take back an answer or a timeout.
LEMMA MemoryStep ==
  ASSUME TypeOK, CurOK, Phase2Locked, CodeKnown, [Next]_vars
  PROVE  NothingForgotten
<1> USE DEF pinVars
<1>1. accepted \subseteq accepted' /\ timedOut \subseteq timedOut'
  <2>1. ASSUME NEW t \in Txs, ApiStep(t) \/ StalledJob(t) \/ EnqueueFails(t)
        PROVE  accepted \subseteq accepted' /\ timedOut \subseteq timedOut'
    BY <2>1 DEF ApiStep, Insert, Enqueue, VerifyPin, PublishPin, CancelTransaction,
                StalledJob, EnqueueFails
  <2>2. ASSUME NEW w \in Workers, WorkerStep(w)
        PROVE  UNCHANGED pinVars
    BY <2>2 DEF WorkerStep, StartJob, ReadStatus, RejectConflict, RejectFunds, Validate,
                CommitPhase1, FailPending, Announce, ActOnPin, LockTx, RejectSettled,
                Settle, FailProcessing, BuildPayload, CreateDispatch, AddWebhookJob,
                Finish, Throw
  <2>3. ASSUME NEW w \in Workers, PinWait(w)
        PROVE  accepted \subseteq accepted' /\ timedOut \subseteq timedOut'
    BY <2>3 DEF PinWait, Listen, PinTimeout, Resolve
  <2>4. ASSUME NEW w \in Workers, WorkerFault(w)
        PROVE  UNCHANGED pinVars
    BY <2>4 DEF WorkerFault, QueryFails, Phase1Fails, Phase2Fails, Phase1AckLost,
                Phase2AckLost, MarkFailedLost, Crash, LoseLock
  <2>5. ASSUME BreakDeadlock
        PROVE  UNCHANGED pinVars
    BY <2>5 DEF BreakDeadlock, DeadlockAbortsPhase1, DeadlockAbortsPhase2
  <2>6. CASE UNCHANGED vars
    BY <2>6 DEF vars
  <2> QED BY <2>1, <2>2, <2>3, <2>4, <2>5, <2>6 DEF Next
<1>2. ASSUME NEW o \in Txs, WasInFlight(o)
      PROVE  WasInFlight(o)'
  <2>1. /\ status'[o] # status[o] => <<status[o], status'[o]>> \in StatusOrder
        /\ status[o] \in Terminal => resultCode'[o] = resultCode[o]
    BY ForwardStep DEF Forward
  <2>2. status[o] = "PROCESSING" /\ status'[o] = "FAILED" => resultCode'[o] \in FlightCodes
    BY RowsMove DEF RowMoves
  <2> QED BY <1>2, <2>1, <2>2 DEF WasInFlight, StatusOrder, Terminal
<1> QED BY <1>1, <1>2, RowsMove DEF NothingForgotten

\* what a worker carries after a step: nothing, or a code of its payment's for
\* which there is a reason
CodeFits(v) ==
  /\ \/ code'[v] = NoCode
     \/ cur'[v] = cur[v] /\ cur[v] \in Txs /\ code'[v] # Success /\ HasReason(cur[v], code'[v])
  /\ pc'[v] = "failProcessing" => code'[v] \in FlightCodes

\* A worker that no step touched still fits.
LEMMA UntouchedFits ==
  ASSUME TypeOK, CurOK, CodeKnown, NEW v \in Workers, code'[v] = code[v],
         cur'[v] = cur[v], pc'[v] = "failProcessing" => pc[v] = "failProcessing"
  PROVE  CodeFits(v)
BY DEF TypeOK, RunTypeOK, CurOK, CodeKnown, CodeFits, At

\* A worker that abandons a database transaction does so for a reason.
LEMMA AbandonFits ==
  ASSUME TypeOK, CurOK, CodeKnown, NEW w \in Workers, NEW c \in ResultCodes,
         NEW step \in {"failPending", "failProcessing"}, Abandon(w, step, c),
         ~At(w, "idle"), c # Success, HasReason(cur[w], c),
         step = "failProcessing" => c \in FlightCodes
  PROVE  \A v \in Workers : CodeFits(v)
<1>1. CodeFits(w)
  BY DEF Abandon, Goto, TypeOK, RunTypeOK, CurOK, CodeFits, At
<1>2. ASSUME NEW v \in Workers \ {w}
      PROVE  CodeFits(v)
  BY <1>2, UntouchedFits DEF Abandon, Goto, TypeOK, RunTypeOK
<1> QED BY <1>1, <1>2

\* Every code a step lets a worker carry has its reason.
LEMMA CodesFit ==
  ASSUME TypeOK, CurOK, Phase2Locked, ProcessingFunded, SignalsAccepted, CodeKnown, [Next]_vars
  PROVE  \A v \in Workers : CodeFits(v)
<1> DEFINE Fits == \A v \in Workers : CodeFits(v)
<1> USE WorkerAssumption
<1>0. ASSUME UNCHANGED <<code, cur>>,
             \A v \in Workers : pc'[v] = "failProcessing" => pc[v] = "failProcessing"
      PROVE  Fits
  BY <1>0, UntouchedFits
<1> USE DEF TypeOK, RunTypeOK, At, Goto
<1>1. ASSUME NEW t \in Txs, Insert(t) \/ Enqueue(t) \/ StalledJob(t) \/ EnqueueFails(t)
      PROVE  Fits
  BY <1>0, <1>1 DEF Insert, Enqueue, StalledJob, EnqueueFails, runVars
<1>2. ASSUME NEW t \in Txs, NEW s \in PinSignals, VerifyPin(t, s) \/ PublishPin(t, s)
      PROVE  Fits
  BY <1>0, <1>2 DEF VerifyPin, PublishPin, Deliver, runVars
<1>3. ASSUME NEW t \in Txs, CancelTransaction(t)
      PROVE  Fits
  BY <1>0, <1>3 DEF CancelTransaction, Deliver
<1>4. ASSUME NEW w \in Workers, NEW t \in Txs, StartJob(w, t)
      PROVE  Fits
  <2>1. CodeFits(w)
    BY <1>4 DEF StartJob, CurOK, CodeFits
  <2>2. ASSUME NEW v \in Workers \ {w}
        PROVE  CodeFits(v)
    BY <1>4, <2>2, UntouchedFits DEF StartJob
  <2> QED BY <2>1, <2>2
<1>5. ASSUME NEW w \in Workers, ReadStatus(w) \/ CommitPhase1(w)
      PROVE  Fits
  BY <1>0, <1>5 DEF ReadStatus, CommitPhase1, StartWaiting
<1>6. ASSUME NEW w \in Workers, RejectConflict(w)
      PROVE  Fits
  <2>1. cur[w] \in Txs /\ HasReason(cur[w], Conflict)
    BY <1>6 DEF RejectConflict, CurOK, HasActiveTransaction, HasReason, WasInFlight, Conflict,
       WrongPin, Cancelled, TimedOut, InsufficientFunds
  <2> QED BY <1>6, <2>1, AbandonFits DEF RejectConflict, ResultCodes, Conflict, Success
<1>7. ASSUME NEW w \in Workers, RejectFunds(w)
      PROVE  Fits
  <2>1. cur[w] \in Txs /\ HasReason(cur[w], InsufficientFunds)
    BY <1>7 DEF RejectFunds, CurOK, HasReason, Conflict, WrongPin, Cancelled, TimedOut,
       InsufficientFunds
  <2> QED BY <1>7, <2>1, AbandonFits DEF RejectFunds, ResultCodes, InsufficientFunds, Success
<1>8. ASSUME NEW w \in Workers, Phase1Fails(w) \/ Phase2Fails(w)
             \/ DeadlockAbortsPhase1(w) \/ DeadlockAbortsPhase2(w)
      PROVE  Fits
  <2>1. HasReason(cur[w], SystemError)
    BY DEF HasReason, Conflict, WrongPin, Cancelled, TimedOut, InsufficientFunds, SystemError
  <2>2. SystemError \in ResultCodes /\ SystemError \in FlightCodes /\ SystemError # Success
    BY DEF ResultCodes, FlightCodes, SystemError, Success
  <2>3. ~At(w, "idle")
    BY <1>8 DEF Phase1Fails, Phase2Fails, DeadlockAbortsPhase1, DeadlockAbortsPhase2, Deadlocked
  <2>4. Abandon(w, "failPending", SystemError) \/ Abandon(w, "failProcessing", SystemError)
    BY <1>8 DEF Phase1Fails, Phase2Fails, DeadlockAbortsPhase1, DeadlockAbortsPhase2
  <2> QED BY <2>1, <2>2, <2>3, <2>4, AbandonFits
<1>9. ASSUME NEW w \in Workers, Validate(w) \/ Announce(w) \/ LockTx(w) \/ RejectSettled(w)
             \/ BuildPayload(w) \/ CreateDispatch(w) \/ AddWebhookJob(w)
      PROVE  Fits
  BY <1>0, <1>9 DEF Validate, Announce, LockTx, RejectSettled, BuildPayload,
     CreateDispatch, AddWebhookJob
<1>10. ASSUME NEW w \in Workers, Listen(w) \/ PinTimeout(w) \/ Resolve(w) \/ QueryFails(w)
              \/ LoseLock(w)
      PROVE  Fits
  BY <1>0, <1>10 DEF Listen, PinTimeout, Resolve, QueryFails, LoseLock, runVars
<1>11. ASSUME NEW w \in Workers, FailPending(w) \/ FailProcessing(w) \/ MarkFailedLost(w)
      PROVE  Fits
  BY <1>0, <1>11 DEF FailPending, FailProcessing, MarkFailedLost, AfterPhase1Error, Completed
<1>12. ASSUME NEW w \in Workers, ActOnPin(w)
      PROVE  Fits
  <2>1. \A v \in Workers \ {w} : CodeFits(v)
    BY <1>12, UntouchedFits DEF ActOnPin
  <2>2. UNCHANGED cur /\ cur[w] \in Txs
    BY <1>12 DEF ActOnPin, CurOK
  <2>3. CASE UNCHANGED code /\ pc' = [pc EXCEPT ![w] = "lockTx"]
    BY <1>0, <2>2, <2>3
  <2>4. ASSUME NEW r \in heard[w], r # "CORRECT",
               code' = [code EXCEPT ![w] = FailureCode(r)]
        PROVE  CodeFits(w)
    <3>1. /\ r = "TIMEOUT" => cur[w] \in timedOut
          /\ r # "TIMEOUT" => <<cur[w], r>> \in accepted
          /\ r \in {"WRONG_PIN", "CANCELLED", "TIMEOUT"}
      BY <2>4 DEF SignalsAccepted, Signals, PinSignals
    <3>2. FailureCode(r) = IF r = "WRONG_PIN" THEN WrongPin
                           ELSE IF r = "CANCELLED" THEN Cancelled ELSE TimedOut
      BY <3>1 DEF FailureCode
    <3>3. /\ FailureCode(r) \in FlightCodes /\ FailureCode(r) # Success
          /\ HasReason(cur[w], FailureCode(r))
      BY <3>1, <3>2 DEF HasReason, FlightCodes, Conflict, WrongPin, Cancelled, TimedOut,
         InsufficientFunds, SystemError, Success
    <3>4. code'[w] = FailureCode(r)
      BY <2>4
    <3> QED BY <2>2, <3>3, <3>4 DEF CodeFits
  <2> QED BY <1>12, <2>1, <2>3, <2>4 DEF ActOnPin
<1>13. ASSUME NEW w \in Workers, Settle(w)
      PROVE  Fits
  <2>1. userBalance[Payer[cur[w]]] >= Amount[cur[w]]
    BY <1>13 DEF Settle, CurOK, Phase2Locked, ProcessingFunded
  <2> QED BY <1>0, <1>13, <2>1 DEF Settle, Completed
<1>14. ASSUME NEW w \in Workers, Phase1AckLost(w) \/ Phase2AckLost(w)
      PROVE  Fits
  <2>1. HasReason(cur[w], SystemError) /\ SystemError \in FlightCodes /\ SystemError # Success
    BY DEF HasReason, Conflict, WrongPin, Cancelled, TimedOut, InsufficientFunds, SystemError,
       FlightCodes, Success
  <2>2. code' = [code EXCEPT ![w] = SystemError] /\ UNCHANGED cur /\ cur[w] \in Txs
    BY <1>14 DEF Phase1AckLost, Phase2AckLost, CurOK
  <2>3. CodeFits(w)
    BY <2>1, <2>2 DEF CodeFits
  <2>4. \A v \in Workers \ {w} : CodeFits(v)
    BY <1>14, UntouchedFits DEF Phase1AckLost, Phase2AckLost
  <2> QED BY <2>3, <2>4
<1>15. ASSUME NEW w \in Workers, Retire(w)
      PROVE  Fits
  <2>1. CodeFits(w)
    BY <1>15 DEF Retire, CodeFits
  <2>2. \A v \in Workers \ {w} : CodeFits(v)
    BY <1>15, UntouchedFits DEF Retire
  <2> QED BY <2>1, <2>2
<1>16. ASSUME NEW w \in Workers, Finish(w) \/ Throw(w) \/ Crash(w)
      PROVE  Fits
  BY <1>15, <1>16 DEF Finish, Throw, Crash
<1>17. CASE UNCHANGED vars
  BY <1>0, <1>17 DEF vars, runVars
<1> HIDE DEF Fits
<1> QED
  BY <1>1, <1>2, <1>3, <1>4, <1>5, <1>6, <1>7, <1>8, <1>9, <1>10, <1>11, <1>12, <1>13,
     <1>14, <1>16, <1>17
  DEF Next, ApiStep, WorkerStep, PinWait, WorkerFault, BreakDeadlock, Fits

\* Result codes, waiting and written, have their reasons.
LEMMA CodeStep ==
  ASSUME TypeOK, RowsTypeOK', CurOK, Phase2Locked, ProcessingFunded, SignalsAccepted,
         CodeKnown, CodesReasoned, [Next]_vars
  PROVE  CodeKnown' /\ CodesReasoned'
<1>1. NothingForgotten /\ RowsTypeOK
  BY MemoryStep DEF TypeOK
<1>2. \A t \in Txs : \A c : HasReason(t, c) => HasReason(t, c)'
  BY <1>1, ReasonsLast
<1>3. ASSUME NEW v \in Workers
      PROVE  /\ HasReason(cur[v], code[v])'
             /\ code'[v] # Success
             /\ pc'[v] = "failProcessing" => code'[v] \in FlightCodes
  <2>1. CodeFits(v)
    BY CodesFit
  <2>2. CASE code'[v] = NoCode
    BY <2>1, <2>2 DEF CodeFits, HasReason, NoCode, Success, Conflict, WrongPin, Cancelled,
       TimedOut, InsufficientFunds
  <2>3. CASE code'[v] # NoCode
    BY <1>2, <2>1, <2>3 DEF CodeFits, HasReason
  <2> QED BY <2>2, <2>3
<1>4. CodeKnown'
  BY <1>3 DEF CodeKnown, At
<1>5. ASSUME NEW t \in Txs
      PROVE  /\ HasReason(t, resultCode[t])'
             /\ resultCode'[t] = Success <=> status'[t] = "SUCCESS"
  <2>1. RowMoves(t)
    BY RowsMove
  <2>2. /\ HasReason(t, resultCode[t])
        /\ resultCode[t] = Success <=> status[t] = "SUCCESS"
    BY DEF CodesReasoned
  <2>3. HasReason(t, Success)
    BY DEF HasReason, Success, Conflict, WrongPin, Cancelled, TimedOut, InsufficientFunds
  <2>4. HasReason(t, resultCode'[t])
    BY <2>1, <2>2, <2>3 DEF RowMoves
  <2> QED BY <1>2, <2>1, <2>2, <2>4 DEF RowMoves, HasReason
<1>6. CodesReasoned'
  BY <1>5 DEF CodesReasoned
<1> QED BY <1>4, <1>6

\* Only a payment with a verified PIN becomes a paid one.
LEMMA PaidStep ==
  ASSUME TypeOK, CurOK, SignalsAccepted, PaidOnlyWithPin, [Next]_vars
  PROVE  PaidOnlyWithPin'
<1> USE WorkerAssumption
    DEF TypeOK, RowsTypeOK, RunTypeOK, CurOK, At, PinTypeOK, SignalsAccepted,
        PaidOnlyWithPin
<1>1. ASSUME NEW t \in Txs, Insert(t)
      PROVE  PaidOnlyWithPin'
  BY <1>1 DEF Insert, InsertPending, pinVars
<1>2. ASSUME NEW t \in Txs, Enqueue(t) \/ StalledJob(t) \/ EnqueueFails(t)
      PROVE  PaidOnlyWithPin'
  BY <1>2 DEF Enqueue, StalledJob, EnqueueFails, rowVars, pinVars
<1>3. ASSUME NEW t \in Txs, NEW s \in PinSignals, VerifyPin(t, s) \/ PublishPin(t, s)
      PROVE  PaidOnlyWithPin'
  BY <1>3 DEF VerifyPin, PublishPin, rowVars
<1>4. ASSUME NEW t \in Txs, CancelTransaction(t)
      PROVE  PaidOnlyWithPin'
  BY <1>4 DEF CancelTransaction, rowVars
<1>5. ASSUME NEW w \in Workers, NEW t \in Txs, StartJob(w, t)
      PROVE  PaidOnlyWithPin'
  BY <1>5 DEF StartJob, rowVars, pinVars
<1>6. ASSUME NEW w \in Workers, ReadStatus(w) \/ Announce(w) \/ ActOnPin(w)
             \/ RejectSettled(w) \/ BuildPayload(w) \/ CreateDispatch(w)
      PROVE  PaidOnlyWithPin'
  BY <1>6 DEF ReadStatus, Announce, ActOnPin, RejectSettled, BuildPayload,
     CreateDispatch, rowVars, pinVars
<1>7. ASSUME NEW w \in Workers, AddWebhookJob(w) \/ Finish(w) \/ Throw(w) \/ Listen(w)
             \/ PinTimeout(w) \/ Resolve(w)
      PROVE  PaidOnlyWithPin'
  BY <1>7 DEF AddWebhookJob, Finish, Throw, Listen, PinTimeout, Resolve, rowVars,
     pinVars
<1>8. ASSUME NEW w \in Workers, QueryFails(w) \/ MarkFailedLost(w) \/ LoseLock(w)
      PROVE  PaidOnlyWithPin'
  BY <1>8 DEF QueryFails, MarkFailedLost, LoseLock, rowVars, pinVars
<1>9. ASSUME NEW w \in Workers, RejectConflict(w) \/ RejectFunds(w)
             \/ DeadlockAbortsPhase1(w) \/ DeadlockAbortsPhase2(w) \/ Phase1Fails(w)
             \/ Phase2Fails(w)
      PROVE  PaidOnlyWithPin'
  BY <1>9 DEF RejectConflict, RejectFunds, DeadlockAbortsPhase1, DeadlockAbortsPhase2,
     Phase1Fails, Phase2Fails, Abandon, pinVars
<1>10. ASSUME NEW w \in Workers, Validate(w) \/ LockTx(w) \/ Crash(w)
      PROVE  PaidOnlyWithPin'
  BY <1>10 DEF Validate, LockTx, Crash, pinVars
<1>11. ASSUME NEW w \in Workers, CommitPhase1(w) \/ Phase1AckLost(w)
      PROVE  PaidOnlyWithPin'
  BY <1>11 DEF CommitPhase1, Phase1AckLost, CommitProcessing, pinVars
<1>12. ASSUME NEW w \in Workers, FailPending(w) \/ FailProcessing(w)
      PROVE  PaidOnlyWithPin'
  BY <1>12 DEF FailPending, FailProcessing, MarkFailed, pinVars
<1>13. ASSUME NEW w \in Workers, Settle(w)
      PROVE  PaidOnlyWithPin'
  BY <1>13 DEF Settle, Abandon, CommitPayment, pinVars
<1>14. ASSUME NEW w \in Workers, Phase2AckLost(w)
      PROVE  PaidOnlyWithPin'
  BY <1>14 DEF Phase2AckLost, CommitPayment, pinVars
<1>15. CASE UNCHANGED vars
  BY <1>15 DEF vars, rowVars, pinVars
<1> QED
  BY <1>1, <1>2, <1>3, <1>4, <1>5, <1>6, <1>7, <1>8, <1>9, <1>10, <1>11, <1>12, <1>13,
     <1>14, <1>15
  DEF Next, ApiStep, WorkerStep, PinWait, WorkerFault, BreakDeadlock

\* What was reported, or is about to be, stays true.
LEMMA ReportStep ==
  ASSUME TypeOK, CurOK, Phase2Locked, BodyTruthful, DispatchTruthful, [Next]_vars
  PROVE  BodyTruthful' /\ DispatchTruthful'
<1>0. \A t \in Txs : status[t] \in Terminal =>
           status'[t] = status[t] /\ resultCode'[t] = resultCode[t]
  BY ForwardStep DEF Forward, StatusOrder, Terminal
<1> USE <1>0, WorkerAssumption
    DEF TypeOK, RunTypeOK, CurOK, At, Goto, BodyTruthful, DispatchTruthful, Dispatches
<1>1. ASSUME NEW t \in Txs, Insert(t) \/ Enqueue(t) \/ StalledJob(t)
             \/ EnqueueFails(t)
      PROVE  BodyTruthful' /\ DispatchTruthful'
  BY <1>1 DEF Insert, Enqueue, StalledJob, EnqueueFails, runVars, hookVars
<1>2. ASSUME NEW t \in Txs, NEW s \in PinSignals, VerifyPin(t, s)
      PROVE  BodyTruthful' /\ DispatchTruthful'
  BY <1>2 DEF VerifyPin, runVars, hookVars
<1>3. ASSUME NEW t \in Txs, NEW s \in PinSignals, PublishPin(t, s)
      PROVE  BodyTruthful' /\ DispatchTruthful'
  BY <1>3 DEF PublishPin, Deliver, hookVars
<1>4. ASSUME NEW t \in Txs, CancelTransaction(t)
      PROVE  BodyTruthful' /\ DispatchTruthful'
  BY <1>4 DEF CancelTransaction, Deliver, hookVars
<1>5. ASSUME NEW w \in Workers, NEW t \in Txs, StartJob(w, t)
      PROVE  BodyTruthful' /\ DispatchTruthful'
  BY <1>5 DEF StartJob, hookVars
<1>6. ASSUME NEW w \in Workers, ReadStatus(w) \/ CommitPhase1(w)
      PROVE  BodyTruthful' /\ DispatchTruthful'
  BY <1>6 DEF ReadStatus, CommitPhase1, StartWaiting, hookVars
<1>7. ASSUME NEW w \in Workers, RejectConflict(w) \/ RejectFunds(w) \/ Phase1Fails(w)
             \/ Phase2Fails(w)
      PROVE  BodyTruthful' /\ DispatchTruthful'
  BY <1>7 DEF RejectConflict, RejectFunds, Phase1Fails, Phase2Fails, Abandon, hookVars
<1>8. ASSUME NEW w \in Workers, Validate(w) \/ Announce(w) \/ ActOnPin(w) \/ LockTx(w)
             \/ RejectSettled(w) \/ Listen(w)
      PROVE  BodyTruthful' /\ DispatchTruthful'
  BY <1>8 DEF Validate, Announce, ActOnPin, LockTx, RejectSettled, Listen, hookVars
<1>9. ASSUME NEW w \in Workers, PinTimeout(w) \/ Resolve(w) \/ QueryFails(w)
             \/ Phase1AckLost(w) \/ Phase2AckLost(w)
      PROVE  BodyTruthful' /\ DispatchTruthful'
  BY <1>9 DEF PinTimeout, Resolve, QueryFails, Phase1AckLost, Phase2AckLost, hookVars
<1>10. ASSUME NEW w \in Workers, FailPending(w)
      PROVE  BodyTruthful' /\ DispatchTruthful'
  BY <1>10 DEF FailPending, AfterPhase1Error, hookVars
<1>11. ASSUME NEW w \in Workers, Settle(w)
      PROVE  BodyTruthful' /\ DispatchTruthful'
  BY <1>11 DEF Settle, Completed, Abandon, hookVars
<1>12. ASSUME NEW w \in Workers, FailProcessing(w)
      PROVE  BodyTruthful' /\ DispatchTruthful'
  BY <1>12 DEF FailProcessing, Completed, hookVars
<1>13. ASSUME NEW w \in Workers, BuildPayload(w)
      PROVE  BodyTruthful' /\ DispatchTruthful'
  BY <1>13 DEF BuildPayload, hookVars, rowVars
<1>14. ASSUME NEW w \in Workers, CreateDispatch(w) \/ AddWebhookJob(w)
      PROVE  BodyTruthful' /\ DispatchTruthful'
  BY <1>14 DEF CreateDispatch, AddWebhookJob, Dispatch
<1>15. ASSUME NEW w \in Workers, Finish(w) \/ Throw(w) \/ Crash(w)
      PROVE  BodyTruthful' /\ DispatchTruthful'
  BY <1>15 DEF Finish, Throw, Crash, Retire, hookVars
<1>16. ASSUME NEW w \in Workers, DeadlockAbortsPhase1(w) \/ DeadlockAbortsPhase2(w)
      PROVE  BodyTruthful' /\ DispatchTruthful'
  BY <1>16 DEF DeadlockAbortsPhase1, DeadlockAbortsPhase2, Abandon, Deadlocked,
     hookVars
<1>17. ASSUME NEW w \in Workers, MarkFailedLost(w)
      PROVE  BodyTruthful' /\ DispatchTruthful'
  BY <1>17 DEF MarkFailedLost, AfterPhase1Error, Completed, hookVars
<1>18. ASSUME NEW w \in Workers, LoseLock(w)
      PROVE  BodyTruthful' /\ DispatchTruthful'
  BY <1>18 DEF LoseLock, runVars, hookVars
<1>19. CASE UNCHANGED vars
  BY <1>19 DEF vars, rowVars, runVars, hookVars
<1> QED
  BY <1>1, <1>2, <1>3, <1>4, <1>5, <1>6, <1>7, <1>8, <1>9, <1>10, <1>11, <1>12, <1>13,
     <1>14, <1>15, <1>16, <1>17, <1>18, <1>19
  DEF Next, ApiStep, WorkerStep, PinWait, WorkerFault, BreakDeadlock

\* A completed job left a settled payment and a queued webhook.
LEMMA CompletionStep ==
  ASSUME TypeOK, CurOK, JobsBounded, Phase2Locked, BodyTruthful, FinishReported,
         CompletedIsReported, [Next]_vars
  PROVE  FinishReported' /\ CompletedIsReported'
<1>0. \A t \in Txs : status[t] \in Terminal =>
           status'[t] = status[t] /\ resultCode'[t] = resultCode[t]
  BY ForwardStep DEF Forward, StatusOrder, Terminal
<1> USE <1>0, PartiesAssumption, WorkerAssumption
    DEF TypeOK, QueueTypeOK, RunTypeOK, CurOK, At, Goto, JobsBounded, BodyTruthful,
        FinishReported, CompletedIsReported
<1>1. ASSUME NEW t \in Txs, Insert(t) \/ EnqueueFails(t)
      PROVE  FinishReported' /\ CompletedIsReported'
  BY <1>1 DEF Insert, EnqueueFails, runVars, hookVars, queueVars
<1>2. ASSUME NEW t \in Txs, Enqueue(t)
      PROVE  FinishReported' /\ CompletedIsReported'
  BY <1>2 DEF Enqueue, runVars, AddJob, hookVars
<1>3. ASSUME NEW t \in Txs, NEW s \in PinSignals, VerifyPin(t, s)
      PROVE  FinishReported' /\ CompletedIsReported'
  BY <1>3 DEF VerifyPin, runVars, hookVars, queueVars
<1>4. ASSUME NEW t \in Txs, NEW s \in PinSignals, PublishPin(t, s)
      PROVE  FinishReported' /\ CompletedIsReported'
  BY <1>4 DEF PublishPin, Deliver, hookVars, queueVars
<1>5. ASSUME NEW t \in Txs, CancelTransaction(t)
      PROVE  FinishReported' /\ CompletedIsReported'
  BY <1>5 DEF CancelTransaction, Deliver, hookVars, queueVars
<1>6. ASSUME NEW w \in Workers, NEW t \in Txs, StartJob(w, t)
      PROVE  FinishReported' /\ CompletedIsReported'
  BY <1>6 DEF StartJob, TakeJob, hookVars
<1>7. ASSUME NEW w \in Workers, ReadStatus(w) \/ CommitPhase1(w)
      PROVE  FinishReported' /\ CompletedIsReported'
  BY <1>7 DEF ReadStatus, CommitPhase1, StartWaiting, hookVars, queueVars
<1>8. ASSUME NEW w \in Workers, RejectConflict(w) \/ RejectFunds(w) \/ Phase1Fails(w)
             \/ Phase2Fails(w)
      PROVE  FinishReported' /\ CompletedIsReported'
  BY <1>8 DEF RejectConflict, RejectFunds, Phase1Fails, Phase2Fails, Abandon,
     hookVars, queueVars
<1>9. ASSUME NEW w \in Workers, Validate(w) \/ Announce(w) \/ ActOnPin(w) \/ LockTx(w)
             \/ RejectSettled(w) \/ BuildPayload(w)
      PROVE  FinishReported' /\ CompletedIsReported'
  BY <1>9 DEF Validate, Announce, ActOnPin, LockTx, RejectSettled, BuildPayload,
     hookVars, queueVars
<1>10. ASSUME NEW w \in Workers, Listen(w) \/ PinTimeout(w) \/ Resolve(w)
             \/ QueryFails(w) \/ Phase1AckLost(w) \/ Phase2AckLost(w)
      PROVE  FinishReported' /\ CompletedIsReported'
  BY <1>10 DEF Listen, PinTimeout, Resolve, QueryFails, Phase1AckLost, Phase2AckLost,
     hookVars, queueVars
<1>11. ASSUME NEW w \in Workers, FailPending(w)
      PROVE  FinishReported' /\ CompletedIsReported'
  BY <1>11 DEF FailPending, AfterPhase1Error, hookVars, queueVars
<1>12. ASSUME NEW w \in Workers, Settle(w)
      PROVE  FinishReported' /\ CompletedIsReported'
  BY <1>12 DEF Settle, Completed, Abandon, hookVars, queueVars
<1>13. ASSUME NEW w \in Workers, FailProcessing(w)
      PROVE  FinishReported' /\ CompletedIsReported'
  BY <1>13 DEF FailProcessing, Completed, hookVars, queueVars
<1>14. ASSUME NEW w \in Workers, CreateDispatch(w)
      PROVE  FinishReported' /\ CompletedIsReported'
  BY <1>14 DEF CreateDispatch, Dispatch, queueVars
<1>15. ASSUME NEW w \in Workers, AddWebhookJob(w)
      PROVE  FinishReported' /\ CompletedIsReported'
  <2>1. Dispatch(w) \in webhookJobs' /\ Dispatch(w).tx = cur[w]
    BY <1>15 DEF AddWebhookJob, Dispatch
  <2>2. webhookJobs \subseteq webhookJobs' /\ UNCHANGED <<job, cur>>
    BY <1>15 DEF AddWebhookJob, queueVars
  <2>3. cur[w] \in Txs /\ status[cur[w]] \in Terminal
    BY <1>15 DEF AddWebhookJob
  <2>4. \A v \in Workers : v # w => pc'[v] = pc[v]
    BY <1>15 DEF AddWebhookJob
  <2>5. FinishReported'
    BY <2>1, <2>2, <2>3, <2>4
  <2>6. CompletedIsReported'
    BY <2>2
  <2> QED BY <2>5, <2>6
<1>16. ASSUME NEW w \in Workers, Finish(w)
      PROVE  FinishReported' /\ CompletedIsReported'
  BY <1>16 DEF Finish, Retire, CompleteJob, hookVars
<1>17. ASSUME NEW w \in Workers, Throw(w)
      PROVE  FinishReported' /\ CompletedIsReported'
  BY <1>17, SMTT(30) DEF Throw, Retire, FailJob, hookVars
<1>18. ASSUME NEW w \in Workers, DeadlockAbortsPhase1(w) \/ DeadlockAbortsPhase2(w)
      PROVE  FinishReported' /\ CompletedIsReported'
  BY <1>18 DEF DeadlockAbortsPhase1, DeadlockAbortsPhase2, Abandon, Deadlocked,
     hookVars, queueVars
<1>19. ASSUME NEW t \in Txs, StalledJob(t)
      PROVE  FinishReported' /\ CompletedIsReported'
  BY <1>19 DEF StalledJob, runVars, RecoverStalled, hookVars
<1>20. ASSUME NEW w \in Workers, MarkFailedLost(w)
      PROVE  FinishReported' /\ CompletedIsReported'
  BY <1>20 DEF MarkFailedLost, AfterPhase1Error, Completed, hookVars, queueVars
<1>21. ASSUME NEW w \in Workers, Crash(w)
      PROVE  FinishReported' /\ CompletedIsReported'
  BY <1>21 DEF Crash, Retire, ExpireLocks, hookVars
<1>22. ASSUME NEW w \in Workers, LoseLock(w)
      PROVE  FinishReported' /\ CompletedIsReported'
  BY <1>22 DEF LoseLock, runVars, ExpireLocks, hookVars
<1>23. CASE UNCHANGED vars
  BY <1>23 DEF vars, rowVars, queueVars, runVars, hookVars
<1> QED
  BY <1>1, <1>2, <1>3, <1>4, <1>5, <1>6, <1>7, <1>8, <1>9, <1>10, <1>11, <1>12, <1>13,
     <1>14, <1>15, <1>16, <1>17, <1>18, <1>19, <1>20, <1>21, <1>22, <1>23
  DEF Next, ApiStep, WorkerStep, PinWait, WorkerFault, BreakDeadlock

-----------------------------------------------------------------------------
(*****************************************************************************)
(* The inductive invariant and what follows from it                          *)
(*****************************************************************************)

\* The inductive invariant holds before the first request.
LEMMA InvInit == Init => IInv
<1> SUFFICES ASSUME Init PROVE IInv
  OBVIOUS
<1>1. TypeOK /\ CurOK /\ JobsBounded
  BY TypeInit
<1>2. OneProcessingPerUser /\ ProcessingFunded /\ PaidOnlyWithPin /\ CompletedIsReported
  BY DEF Init, RowsInit, QueueInit, OneProcessingPerUser, ProcessingFunded, PaidOnlyWithPin,
         CompletedIsReported
<1>3. Phase1Locked /\ Phase2Locked /\ BodyTruthful /\ FinishReported
  BY DEF Init, Phase1Locked, Phase2Locked, BodyTruthful, FinishReported, At
<1>4. DispatchTruthful /\ SignalsAccepted
  BY DEF Init, DispatchTruthful, SignalsAccepted
<1>5. CodeKnown /\ CodesReasoned
  BY DEF Init, RowsInit, CodeKnown, CodesReasoned, HasReason, At, NoCode, Success, WrongPin,
     Cancelled, TimedOut, InsufficientFunds, Conflict
<1> QED BY <1>1, <1>2, <1>3, <1>4, <1>5 DEF IInv

\* Every step preserves it.
LEMMA InvStep == IInv /\ [Next]_vars => IInv'
<1> SUFFICES ASSUME IInv, [Next]_vars PROVE IInv'
  OBVIOUS
<1>1. (TypeOK /\ CurOK /\ JobsBounded)'
  BY TypeStep DEF IInv
<1>2. OneProcessingPerUser' /\ ProcessingFunded' /\ Phase1Locked' /\ Phase2Locked'
  BY PhaseStep, FlightStep DEF IInv
<1>3. SignalsAccepted' /\ CodeKnown' /\ CodesReasoned' /\ PaidOnlyWithPin'
  BY <1>1, SignalStep, CodeStep, PaidStep DEF IInv, TypeOK
<1>4. BodyTruthful' /\ DispatchTruthful' /\ FinishReported' /\ CompletedIsReported'
  BY ReportStep, CompletionStep DEF IInv
<1> QED BY <1>1, <1>2, <1>3, <1>4 DEF IInv

\* The inductive invariant holds in every reachable state: locks, signals, codes
\* and reports of all workers fit the rows they were taken from.
THEOREM Invariance == Spec => []IInv
BY InvInit, InvStep, PTL DEF Spec

\* A user never has two payments in flight, however many workers, crashes and
\* repeated runs there are.
THEOREM SingleFlight == Spec => []OneProcessingPerUser
<1>1. IInv => OneProcessingPerUser
  BY DEF IInv
<1> QED BY <1>1, Invariance, PTL

\* A payment in flight stays covered by its payer's balance although no lock is
\* held while the PIN is awaited.
THEOREM FlightCovered == Spec => []ProcessingFunded
<1>1. IInv => ProcessingFunded
  BY DEF IInv
<1> QED BY <1>1, Invariance, PTL

\* Nothing is paid before the API found its PIN right.
THEOREM PaidVerified == Spec => []PaidOnlyWithPin
<1>1. IInv => PaidOnlyWithPin
  BY DEF IInv
<1> QED BY <1>1, Invariance, PTL

\* A webhook always carries the payment's final status and code.
THEOREM ReportsTrue == Spec => []DispatchTruthful
<1>1. IInv => DispatchTruthful
  BY DEF IInv
<1> QED BY <1>1, Invariance, PTL

\* A completed job left a settled payment and queued its webhook.
THEOREM CompletionReported == Spec => []CompletedIsReported
<1>1. IInv => CompletedIsReported
  BY DEF IInv
<1> QED BY <1>1, Invariance, PTL

\* A settled payment is settled for good, and no payment moves backwards.
THEOREM Forwards == Spec => ForwardOnly
<1>1. IInv /\ [Next]_vars =>
        [\A t \in Txs :
           /\ status'[t] # status[t] => <<status[t], status'[t]>> \in StatusOrder
           /\ status[t] \in Terminal => resultCode'[t] = resultCode[t]]_<<status, resultCode>>
  BY ForwardStep DEF IInv, Forward
<1> QED BY <1>1, Invariance, PTL DEF Spec, ForwardOnly

-----------------------------------------------------------------------------
(*****************************************************************************)
(* The detailed system implements the abstract transfer                      *)
(*****************************************************************************)

\* The UPDATE that fails a payment declines it, when it changes anything.
LEMMA FailingDeclines ==
  ASSUME RowsTypeOK, NEW t \in Txs, NEW from \in {"PENDING", "PROCESSING"}, NEW c,
         MarkFailed(t, from, c), UNCHANGED accepted
  PROVE  [Abstract!TransferNext]_(Abstract!transferVars)
<1>1. CASE status[t] = from
  <2>1. Outcome[t] = "open"
    BY <1>1 DEF Outcome
  <2>2. Outcome' = [Outcome EXCEPT ![t] = "declined"]
    <3>1. status' = [status EXCEPT ![t] = "FAILED"]
      BY <1>1 DEF MarkFailed
    <3> QED BY <3>1 DEF Outcome, RowsTypeOK
  <2>3. Abstract!Decline(t)
    BY <2>1, <2>2 DEF MarkFailed, Abstract!Decline, Verified
  <2> QED BY <2>3 DEF Abstract!TransferNext
<1>2. CASE status[t] # from
  BY <1>2 DEF MarkFailed, Abstract!transferVars, Outcome, Verified
<1> QED BY <1>1, <1>2

\* The commit of phase 2 pays.
LEMMA PaymentPays ==
  ASSUME RowsTypeOK, NEW w \in Workers, NEW t \in Txs, status[t] = "PROCESSING",
         <<t, "CORRECT">> \in accepted, userBalance[Payer[t]] >= Amount[t],
         CommitPayment(w, t), UNCHANGED accepted
  PROVE  Abstract!TransferNext
<1>1. Outcome[t] = "open" /\ t \in Verified
  BY DEF Outcome, Verified
<1>2. Outcome' = [Outcome EXCEPT ![t] = "paid"]
  BY DEF Outcome, CommitPayment, RowsTypeOK
<1>3. Abstract!Pay(t)
  BY <1>1, <1>2 DEF CommitPayment, Abstract!Pay, Verified
<1> QED BY <1>3 DEF Abstract!TransferNext

\* Every step verifies, pays or declines one payment, or leaves the abstract
\* state alone.
LEMMA RefinementStep ==
  ASSUME TypeOK, CurOK, Phase2Locked, SignalsAccepted, ProcessingFunded, [Next]_vars
  PROVE  [Abstract!TransferNext]_(Abstract!transferVars)
<1> USE WorkerAssumption
    DEF TypeOK, RowsTypeOK, RunTypeOK, CurOK, At, PinTypeOK, Phase2Locked, SignalsAccepted
<1>1. ASSUME NEW t \in Txs, Insert(t)
      PROVE  [Abstract!TransferNext]_(Abstract!transferVars)
  BY <1>1 DEF Insert, InsertPending, pinVars, Abstract!transferVars, Outcome, Verified
<1>2. ASSUME NEW t \in Txs, Enqueue(t) \/ StalledJob(t) \/ EnqueueFails(t)
      PROVE  [Abstract!TransferNext]_(Abstract!transferVars)
  BY <1>2 DEF Enqueue, StalledJob, EnqueueFails, rowVars, pinVars,
     Abstract!transferVars, Outcome, Verified
<1>3. ASSUME NEW t \in Txs, NEW s \in PinSignals, VerifyPin(t, s)
      PROVE  [Abstract!TransferNext]_(Abstract!transferVars)
  BY <1>3 DEF VerifyPin, rowVars, Abstract!transferVars, Outcome, Verified,
     PinSignals, Abstract!TransferNext, Abstract!Verify
<1>4. ASSUME NEW t \in Txs, NEW s \in PinSignals, PublishPin(t, s)
      PROVE  [Abstract!TransferNext]_(Abstract!transferVars)
  BY <1>4 DEF PublishPin, rowVars, pinVars, Abstract!transferVars, Outcome, Verified
<1>5. ASSUME NEW t \in Txs, CancelTransaction(t)
      PROVE  [Abstract!TransferNext]_(Abstract!transferVars)
  BY <1>5 DEF CancelTransaction, rowVars, Abstract!transferVars, Outcome, Verified
<1>6. ASSUME NEW w \in Workers, NEW t \in Txs, StartJob(w, t)
      PROVE  [Abstract!TransferNext]_(Abstract!transferVars)
  BY <1>6 DEF StartJob, rowVars, pinVars, Abstract!transferVars, Outcome, Verified
<1>7. ASSUME NEW w \in Workers, ReadStatus(w) \/ Announce(w) \/ ActOnPin(w)
             \/ RejectSettled(w) \/ BuildPayload(w) \/ CreateDispatch(w)
      PROVE  [Abstract!TransferNext]_(Abstract!transferVars)
  BY <1>7 DEF ReadStatus, Announce, ActOnPin, RejectSettled, BuildPayload,
     CreateDispatch, rowVars, pinVars, Abstract!transferVars, Outcome, Verified
<1>8. ASSUME NEW w \in Workers, AddWebhookJob(w) \/ Finish(w) \/ Throw(w) \/ Listen(w)
             \/ PinTimeout(w) \/ Resolve(w)
      PROVE  [Abstract!TransferNext]_(Abstract!transferVars)
  BY <1>8 DEF AddWebhookJob, Finish, Throw, Listen, PinTimeout, Resolve, rowVars,
     pinVars, Abstract!transferVars, Outcome, Verified
<1>9. ASSUME NEW w \in Workers, QueryFails(w) \/ MarkFailedLost(w) \/ LoseLock(w)
      PROVE  [Abstract!TransferNext]_(Abstract!transferVars)
  BY <1>9 DEF QueryFails, MarkFailedLost, LoseLock, rowVars, pinVars,
     Abstract!transferVars, Outcome, Verified
<1>10. ASSUME NEW w \in Workers, RejectConflict(w) \/ RejectFunds(w)
             \/ DeadlockAbortsPhase1(w) \/ DeadlockAbortsPhase2(w) \/ Phase1Fails(w)
             \/ Phase2Fails(w)
      PROVE  [Abstract!TransferNext]_(Abstract!transferVars)
  BY <1>10 DEF RejectConflict, RejectFunds, DeadlockAbortsPhase1,
     DeadlockAbortsPhase2, Phase1Fails, Phase2Fails, Abandon, pinVars,
     Abstract!transferVars, Outcome, Verified
<1>11. ASSUME NEW w \in Workers, Validate(w) \/ LockTx(w) \/ Crash(w)
      PROVE  [Abstract!TransferNext]_(Abstract!transferVars)
  BY <1>11 DEF Validate, LockTx, Crash, pinVars, Abstract!transferVars, Outcome,
     Verified
<1>12. ASSUME NEW w \in Workers, CommitPhase1(w) \/ Phase1AckLost(w)
      PROVE  [Abstract!TransferNext]_(Abstract!transferVars)
  BY <1>12 DEF CommitPhase1, Phase1AckLost, CommitProcessing, pinVars,
     Abstract!transferVars, Outcome, Verified
<1>13. ASSUME NEW w \in Workers, FailPending(w) \/ FailProcessing(w)
      PROVE  [Abstract!TransferNext]_(Abstract!transferVars)
  BY <1>13, FailingDeclines DEF FailPending, FailProcessing, pinVars
<1>14. ASSUME NEW w \in Workers, Settle(w)
      PROVE  [Abstract!TransferNext]_(Abstract!transferVars)
  <2>1. cur[w] \in Txs /\ status[cur[w]] = "PROCESSING"
    BY <1>14 DEF Settle
  <2>2. userBalance[Payer[cur[w]]] >= Amount[cur[w]]
    BY <2>1 DEF ProcessingFunded
  <2>3. CommitPayment(w, cur[w]) /\ UNCHANGED accepted
    BY <1>14, <2>2 DEF Settle, pinVars
  <2>4. <<cur[w], "CORRECT">> \in accepted
    BY <1>14 DEF Settle
  <2> QED BY <2>1, <2>2, <2>3, <2>4, PaymentPays
<1>15. ASSUME NEW w \in Workers, Phase2AckLost(w)
      PROVE  [Abstract!TransferNext]_(Abstract!transferVars)
  <2>1. cur[w] \in Txs /\ status[cur[w]] = "PROCESSING"
    BY <1>15 DEF Phase2AckLost
  <2>2. userBalance[Payer[cur[w]]] >= Amount[cur[w]] /\ CommitPayment(w, cur[w])
    BY <1>15 DEF Phase2AckLost
  <2>3. <<cur[w], "CORRECT">> \in accepted /\ UNCHANGED accepted
    BY <1>15 DEF Phase2AckLost, pinVars
  <2> QED BY <2>1, <2>2, <2>3, PaymentPays
<1>16. CASE UNCHANGED vars
  BY <1>16 DEF vars, rowVars, pinVars,
     Abstract!transferVars, Outcome, Verified
<1> QED
  BY <1>1, <1>2, <1>3, <1>4, <1>5, <1>6, <1>7, <1>8, <1>9, <1>10, <1>11, <1>12, <1>13,
     <1>14, <1>15, <1>16
  DEF Next, ApiStep, WorkerStep, PinWait, WorkerFault, BreakDeadlock

\* Whatever the queue, the locks and the faults do, what the users and merchants
\* see is one atomic, PIN-authorised transfer per payment.
THEOREM Implementation == Spec => ImplementsTransfer
<1>1. Init => Abstract!TransferInit
  BY DEF Init, RowsInit, Abstract!TransferInit, Outcome, Verified
<1>2. IInv /\ [Next]_vars => [Abstract!TransferNext]_(Abstract!transferVars)
  BY RefinementStep DEF IInv
<1> QED BY <1>1, <1>2, Invariance, PTL DEF Spec, ImplementsTransfer, Abstract!TransferSpec
=============================================================================
