-------------------------- MODULE PaymentOnceProofs --------------------------
(***************************************************************************)
(* Proofs, for every value of the constants, of what PaymentWorker does    *)
(* once: a settled payment moves its amount exactly once, from its payer to*)
(* its payee, and a run in which nothing failed reports it once and writes *)
(* no error code.  They rest on IInv.                                      *)
(***************************************************************************)
EXTENDS PaymentProofs, FiniteSetTheorems

-----------------------------------------------------------------------------
(***************************************************************************)
(* Sums of amounts                                                         *)
(***************************************************************************)

\* No payment, no cents.
LEMMA NothingIsFree == IsFiniteSet(Cents({})) /\ AmountsOf({}) = 0
<1>1. Cents({}) = {}
  BY DEF Cents
<1> QED BY <1>1, FS_EmptySet DEF AmountsOf

\* A payment that is new to a set of payments adds its amount to theirs.
LEMMA AmountAdds ==
  ASSUME NEW S \in SUBSET Txs, NEW t \in Txs, t \notin S, IsFiniteSet(Cents(S))
  PROVE  /\ IsFiniteSet(Cents(S \cup {t}))
         /\ AmountsOf(S \cup {t}) = AmountsOf(S) + Amount[t]
<1> DEFINE new == {t} \X (1..Amount[t])
<1>1. Amount[t] \in Nat \ {0}
  BY RowsAssumption
<1>2. IsFiniteSet(1..Amount[t]) /\ Cardinality(1..Amount[t]) = Amount[t]
  <2>1. 1 \in Int /\ Amount[t] \in Int /\ 1 <= Amount[t] /\ Amount[t] - 1 + 1 = Amount[t]
    BY <1>1
  <2> QED BY <2>1, FS_Interval, SMTT(30)
<1>3. IsFiniteSet({t}) /\ Cardinality({t}) = 1
  BY FS_Singleton
<1>4. IsFiniteSet(new) /\ Cardinality(new) = Cardinality({t}) * Cardinality(1..Amount[t])
  BY <1>2, <1>3, FS_Product
<1>5. Cardinality(new) = Amount[t]
  BY <1>1, <1>2, <1>3, <1>4
<1>6. Cents(S \cup {t}) = Cents(S) \cup new
  BY DEF Cents
<1>7. Cents(S) \cap new = {}
  BY DEF Cents
<1>8. IsFiniteSet(Cents(S) \cup new)
      /\ Cardinality(Cents(S) \cup new)
           = Cardinality(Cents(S)) + Cardinality(new) - Cardinality(Cents(S) \cap new)
  BY <1>4, FS_Union
<1>9. Cardinality(Cents(S)) \in Nat /\ Cardinality({}) = 0
  BY FS_CardinalityType, FS_EmptySet
<1> HIDE DEF new
<1>10. Cardinality(Cents(S) \cap new) = 0
  BY <1>7, <1>9
<1>11. Cardinality(Cents(S) \cup new) = Cardinality(Cents(S)) + Amount[t]
  BY <1>1, <1>5, <1>8, <1>9, <1>10
<1> QED BY <1>6, <1>8, <1>11 DEF AmountsOf

-----------------------------------------------------------------------------
(***************************************************************************)
(* What the users lost is what the merchants got                           *)
(***************************************************************************)

\* The books balance, and only finitely much was ever moved.
BooksKept ==
  /\ \A u \in Users : IsFiniteSet(Cents(Spent(u)))
  /\ \A m \in Merchants : IsFiniteSet(Cents(Earned(m)))
  /\ MoneyConserved

\* The books balance before the first payment.
LEMMA BooksInit == Init => BooksKept
<1> SUFFICES ASSUME Init PROVE BooksKept
  OBVIOUS
<1>1. \A u \in Users : Spent(u) = {}
  BY DEF Init, RowsInit, Spent
<1>2. \A m \in Merchants : Earned(m) = {}
  BY DEF Init, RowsInit, Earned
<1>3. \A u \in Users : userBalance[u] = OpeningBalance[u] /\ OpeningBalance[u] \in Nat
  BY RowsAssumption DEF Init, RowsInit
<1>4. \A m \in Merchants : merchantBalance[m] = 0
  BY DEF Init, RowsInit
<1>5. ASSUME NEW u \in Users
      PROVE  userBalance[u] = OpeningBalance[u] - AmountsOf(Spent(u))
  <2>1. AmountsOf(Spent(u)) = 0
    BY <1>1, NothingIsFree
  <2> QED BY <1>3, <2>1
<1>6. ASSUME NEW m \in Merchants
      PROVE  merchantBalance[m] = AmountsOf(Earned(m))
  BY <1>2, <1>4, NothingIsFree
<1> QED BY <1>1, <1>2, <1>5, <1>6, NothingIsFree DEF BooksKept, MoneyConserved

\* The payments that count are those the abstract payment calls paid.
LEMMA PaidCounts ==
  /\ \A u : Spent(u) = {t \in Txs : Payer[t] = u /\ Outcome[t] = "paid"}
  /\ \A m : Earned(m) = {t \in Txs : Payee[t] = m /\ Outcome[t] = "paid"}
BY DEF Spent, Earned, Outcome

\* Paying moves the amount, and the payment into the books of both sides.
LEMMA PayBalances ==
  ASSUME RowsTypeOK, RowsTypeOK', BooksKept, NEW t \in Txs, Abstract!Pay(t)
  PROVE  BooksKept'
<1>1. Outcome[t] # "paid" /\ Outcome \in [Txs -> {"paid", "declined", "open"}]
  BY DEF Abstract!Pay, Outcome
<1>2. \A x \in Txs : Outcome'[x] = IF x = t THEN "paid" ELSE Outcome[x]
  BY <1>1 DEF Abstract!Pay
<1>3. ASSUME NEW u \in Users
      PROVE  IsFiniteSet(Cents(Spent(u)'))
             /\ userBalance'[u] = OpeningBalance[u] - AmountsOf(Spent(u)')
  <2>1. IsFiniteSet(Cents(Spent(u))) /\ AmountsOf(Spent(u)) \in Nat
    BY FS_CardinalityType DEF BooksKept, AmountsOf
  <2>2. userBalance[u] = OpeningBalance[u] - AmountsOf(Spent(u))
    BY DEF BooksKept, MoneyConserved
  <2>3. OpeningBalance[u] \in Nat /\ Amount[t] \in Nat /\ userBalance[u] \in Nat
    BY RowsAssumption DEF RowsTypeOK
  <2>4. CASE Payer[t] = u
    <3>1. Spent(u)' = Spent(u) \cup {t}
      BY <1>2, <2>4, PaidCounts DEF Spent, Outcome
    <3>2. Spent(u) \in SUBSET Txs /\ t \notin Spent(u)
      BY <1>1, PaidCounts
    <3>3. IsFiniteSet(Cents(Spent(u)'))
          /\ AmountsOf(Spent(u)') = AmountsOf(Spent(u)) + Amount[t]
      BY <2>1, <3>1, <3>2, AmountAdds
    <3>4. userBalance'[u] = userBalance[u] - Amount[t]
      BY <2>4 DEF Abstract!Pay, RowsTypeOK
    <3> QED BY <2>1, <2>2, <2>3, <3>3, <3>4
  <2>5. CASE Payer[t] # u
    <3>1. Spent(u)' = Spent(u)
      BY <1>2, <2>5, PaidCounts DEF Spent, Outcome
    <3>2. userBalance'[u] = userBalance[u]
      BY <2>5 DEF Abstract!Pay, RowsTypeOK
    <3> QED BY <2>1, <2>2, <3>1, <3>2
  <2> QED BY <2>4, <2>5
<1>4. ASSUME NEW m \in Merchants
      PROVE  IsFiniteSet(Cents(Earned(m)')) /\ merchantBalance'[m] = AmountsOf(Earned(m)')
  <2>1. IsFiniteSet(Cents(Earned(m))) /\ merchantBalance[m] = AmountsOf(Earned(m))
    BY DEF BooksKept, MoneyConserved
  <2>2. CASE Payee[t] = m
    <3>1. Earned(m)' = Earned(m) \cup {t}
      BY <1>2, <2>2, PaidCounts DEF Earned, Outcome
    <3>2. Earned(m) \in SUBSET Txs /\ t \notin Earned(m)
      BY <1>1, PaidCounts
    <3>3. IsFiniteSet(Cents(Earned(m)'))
          /\ AmountsOf(Earned(m)') = AmountsOf(Earned(m)) + Amount[t]
      BY <2>1, <3>1, <3>2, AmountAdds
    <3>4. merchantBalance'[m] = merchantBalance[m] + Amount[t]
      BY <2>2 DEF Abstract!Pay, RowsTypeOK
    <3> QED BY <2>1, <3>3, <3>4
  <2>3. CASE Payee[t] # m
    <3>1. Earned(m)' = Earned(m)
      BY <1>2, <2>3, PaidCounts DEF Earned, Outcome
    <3>2. merchantBalance'[m] = merchantBalance[m]
      BY <2>3 DEF Abstract!Pay, RowsTypeOK
    <3> QED BY <2>1, <3>1, <3>2
  <2> QED BY <2>2, <2>3
<1> QED BY <1>3, <1>4 DEF BooksKept, MoneyConserved, AmountsOf, Cents

\* No step of the system does anything to the books but pay.
LEMMA BooksStep ==
  ASSUME IInv, RowsTypeOK', BooksKept, [Next]_vars
  PROVE  BooksKept'
<1>1. [Abstract!TransferNext]_(Abstract!transferVars)
  BY RefinementStep DEF IInv
<1>2. CASE \E t \in Txs : Abstract!Pay(t)
  BY <1>2, PayBalances DEF IInv, TypeOK
<1>3. ASSUME \A t \in Txs : Outcome'[t] = "paid" <=> Outcome[t] = "paid",
             UNCHANGED <<userBalance, merchantBalance>>
      PROVE  BooksKept'
  <2>1. \A u : Spent(u)' = Spent(u)
    BY <1>3, PaidCounts DEF Spent, Outcome
  <2>2. \A m : Earned(m)' = Earned(m)
    BY <1>3, PaidCounts DEF Earned, Outcome
  <2> QED BY <1>3, <2>1, <2>2 DEF BooksKept, MoneyConserved, AmountsOf, Cents
<1>4. CASE \E t \in Txs : Abstract!Verify(t)
  BY <1>3, <1>4 DEF Abstract!Verify
<1>5. CASE \E t \in Txs : Abstract!Decline(t)
  <2>1. PICK t \in Txs : Abstract!Decline(t)
    BY <1>5
  <2>2. \A x \in Txs : Outcome'[x] = IF x = t THEN "declined" ELSE Outcome[x]
    BY <2>1 DEF Abstract!Decline, Outcome
  <2> QED BY <1>3, <2>1, <2>2 DEF Abstract!Decline
<1>6. CASE UNCHANGED Abstract!transferVars
  BY <1>3, <1>6 DEF Abstract!transferVars
<1> QED BY <1>1, <1>2, <1>4, <1>5, <1>6 DEF Abstract!TransferNext

\* Whatever retries, crashes and overlapping runs there are, every user lost and
\* every merchant got exactly the sum of their paid payments.
THEOREM MoneyKept == Spec => []MoneyConserved
<1>1. IInv /\ RowsTypeOK' /\ BooksKept /\ [Next]_vars => BooksKept'
  BY BooksStep
<1>2. IInv => RowsTypeOK
  BY DEF IInv, TypeOK
<1>3. BooksKept => MoneyConserved
  BY DEF BooksKept
<1> QED BY <1>1, <1>2, <1>3, BooksInit, Invariance, PTL DEF Spec

-----------------------------------------------------------------------------
(***************************************************************************)
(* As long as nothing fails, one dispatch                                  *)
(***************************************************************************)

\* Every worker holds the lock of its job, and every active job has a worker.
Attended ==
  /\ \A w \in Workers : ~At(w, "idle") => owner[cur[w]] = w
  /\ \A t \in Txs : job[t] = "active" => owner[t] # NoWorker

\* A dispatched payment's job is done, or about to be.
DispatchedOnce ==
  \A d \in dispatches :
    \/ job[d.tx] = "completed"
    \/ \E w \in Workers : cur[w] = d.tx /\ pc[w] \in {"enqueue", "finish"}

Undisturbed == faults = 0 => Attended /\ DispatchedOnce

\* Once something failed, something failed; and every fault is counted.
LEMMA FaultsCount ==
  ASSUME TypeOK, [Next]_vars, faults' = 0
  PROVE  /\ faults = 0
         /\ \A w \in Workers : ~WorkerFault(w)
         /\ \A t \in Txs : ~EnqueueFails(t)
<1>1. faults \in Nat
  BY WorkerAssumption DEF TypeOK
<1>2. \A k : ~Fault(k)
  BY <1>1 DEF Fault
<1>3. \A w \in Workers : ~WorkerFault(w)
  BY <1>2 DEF WorkerFault, QueryFails, Phase1Fails, Phase2Fails, Phase1AckLost,
     Phase2AckLost, MarkFailedLost, Crash, LoseLock
<1>4. \A t \in Txs : ~EnqueueFails(t)
  BY <1>2 DEF EnqueueFails
<1>5. ASSUME NEW t \in Txs, ApiStep(t) \/ StalledJob(t)
      PROVE  faults' = faults
  BY <1>5 DEF ApiStep, Insert, Enqueue, VerifyPin, PublishPin, CancelTransaction, StalledJob
<1>6. ASSUME NEW w \in Workers, WorkerStep(w)
      PROVE  faults' = faults
  BY <1>6 DEF WorkerStep, StartJob, ReadStatus, RejectConflict, RejectFunds, Validate,
     CommitPhase1, FailPending, Announce, ActOnPin, LockTx, RejectSettled, Settle,
     FailProcessing, BuildPayload, CreateDispatch, AddWebhookJob, Finish, Throw
<1>7. ASSUME NEW w \in Workers, PinWait(w)
      PROVE  faults' = faults
  BY <1>7 DEF PinWait, Listen, PinTimeout, Resolve
<1>8. BreakDeadlock => faults' = faults
  BY DEF BreakDeadlock, DeadlockAbortsPhase1, DeadlockAbortsPhase2
<1>9. UNCHANGED vars => faults' = faults
  BY DEF vars
<1> QED BY <1>3, <1>4, <1>5, <1>6, <1>7, <1>8, <1>9 DEF Next

\* A step that neither takes nor ends a job, queues no new dispatch and lets no
\* reporting run go back keeps both facts.
LEMMA QuietStep ==
  ASSUME Attended, DispatchedOnce, UNCHANGED <<job, owner, cur, dispatches>>,
         \A v \in Workers : pc'[v] = "idle" <=> pc[v] = "idle",
         \A v \in Workers : pc[v] \in {"enqueue", "finish"}
                              => pc'[v] \in {"enqueue", "finish"}
  PROVE  Attended' /\ DispatchedOnce'
BY DEF Attended, DispatchedOnce, At

\* Every step that is no fault leaves every job to its worker.
LEMMA UndisturbedStep ==
  ASSUME IInv, Attended, DispatchedOnce, [Next]_vars, faults' = 0
  PROVE  Attended' /\ DispatchedOnce'
<1> USE PartiesAssumption, WorkerAssumption
    DEF IInv, TypeOK, QueueTypeOK, RunTypeOK, CurOK, At, Goto
<1>1. ASSUME NEW t \in Txs, Insert(t)
      PROVE  Attended' /\ DispatchedOnce'
  BY <1>1, QuietStep DEF Insert, queueVars, runVars, hookVars
<1>2. ASSUME NEW t \in Txs, Enqueue(t)
      PROVE  Attended' /\ DispatchedOnce'
  BY <1>2 DEF Enqueue, AddJob, Attended, DispatchedOnce, runVars, hookVars, Dispatches
<1>3. ASSUME NEW t \in Txs, NEW s \in PinSignals, VerifyPin(t, s)
      PROVE  Attended' /\ DispatchedOnce'
  BY <1>3, QuietStep DEF VerifyPin, queueVars, runVars, hookVars
<1>4. ASSUME NEW t \in Txs, NEW s \in PinSignals, PublishPin(t, s)
      PROVE  Attended' /\ DispatchedOnce'
  BY <1>4, QuietStep DEF PublishPin, Deliver, queueVars, hookVars
<1>5. ASSUME NEW t \in Txs, CancelTransaction(t)
      PROVE  Attended' /\ DispatchedOnce'
  BY <1>5, QuietStep DEF CancelTransaction, Deliver, queueVars, hookVars
<1>6. ASSUME NEW t \in Txs, StalledJob(t)
      PROVE  Attended' /\ DispatchedOnce'
  BY <1>6 DEF StalledJob, RecoverStalled, Attended
<1>7. ASSUME NEW w \in Workers, NEW t \in Txs, StartJob(w, t)
      PROVE  Attended' /\ DispatchedOnce'
  BY <1>7 DEF StartJob, TakeJob, Attended, DispatchedOnce, JobsBounded, hookVars, Dispatches
<1>8. ASSUME NEW w \in Workers, ReadStatus(w) \/ CommitPhase1(w)
      PROVE  Attended' /\ DispatchedOnce'
  BY <1>8, QuietStep DEF ReadStatus, CommitPhase1, StartWaiting, queueVars, hookVars
<1>9. ASSUME NEW w \in Workers, RejectConflict(w) \/ RejectFunds(w)
             \/ DeadlockAbortsPhase1(w) \/ DeadlockAbortsPhase2(w)
      PROVE  Attended' /\ DispatchedOnce'
  BY <1>9, QuietStep DEF RejectConflict, RejectFunds, DeadlockAbortsPhase1,
     DeadlockAbortsPhase2, Deadlocked, Abandon, queueVars, hookVars
<1>10. ASSUME NEW w \in Workers, Validate(w) \/ Announce(w) \/ ActOnPin(w) \/ LockTx(w)
              \/ RejectSettled(w) \/ BuildPayload(w)
      PROVE  Attended' /\ DispatchedOnce'
  BY <1>10, QuietStep DEF Validate, Announce, ActOnPin, LockTx, RejectSettled,
     BuildPayload, queueVars, hookVars
<1>11. ASSUME NEW w \in Workers, Listen(w) \/ PinTimeout(w) \/ Resolve(w)
      PROVE  Attended' /\ DispatchedOnce'
  BY <1>11, QuietStep DEF Listen, PinTimeout, Resolve, queueVars, hookVars
<1>12. ASSUME NEW w \in Workers, FailPending(w)
      PROVE  Attended' /\ DispatchedOnce'
  BY <1>12, QuietStep DEF FailPending, AfterPhase1Error, queueVars, hookVars
<1>13. ASSUME NEW w \in Workers, Settle(w) \/ FailProcessing(w)
      PROVE  Attended' /\ DispatchedOnce'
  BY <1>13, QuietStep DEF Settle, FailProcessing, Completed, Abandon, queueVars, hookVars
<1>14. ASSUME NEW w \in Workers, CreateDispatch(w)
      PROVE  Attended' /\ DispatchedOnce'
  BY <1>14 DEF CreateDispatch, Dispatch, Attended, DispatchedOnce, queueVars
<1>15. ASSUME NEW w \in Workers, AddWebhookJob(w)
      PROVE  Attended' /\ DispatchedOnce'
  BY <1>15, QuietStep DEF AddWebhookJob, queueVars
<1>16. ASSUME NEW w \in Workers, Finish(w)
      PROVE  Attended' /\ DispatchedOnce'
  BY <1>16 DEF Finish, Retire, CompleteJob, Attended, DispatchedOnce, hookVars, Dispatches
<1>17. ASSUME NEW w \in Workers, Throw(w)
      PROVE  Attended' /\ DispatchedOnce'
  BY <1>17, SMTT(30) DEF Throw, Retire, FailJob, Attended, DispatchedOnce, hookVars,
     Dispatches, JobsBounded
<1>18. CASE UNCHANGED vars
  BY <1>18, QuietStep DEF vars, queueVars, runVars, hookVars
<1> QED
  BY <1>1, <1>2, <1>3, <1>4, <1>5, <1>6, <1>7, <1>8, <1>9, <1>10, <1>11, <1>12, <1>13,
     <1>14, <1>15, <1>16, <1>17, <1>18, FaultsCount
  DEF Next, ApiStep, WorkerStep, PinWait, BreakDeadlock

\* A worker about to dispatch works on a job that is not done, and nobody else does.
LEMMA DispatchIsNew ==
  ASSUME IInv, Attended, DispatchedOnce, NEW w \in Workers, At(w, "dispatch")
  PROVE  \A d \in dispatches : d.tx # cur[w]
<1>1. cur[w] \in Txs /\ owner[cur[w]] = w /\ job[cur[w]] = "active"
  BY PartiesAssumption
  DEF IInv, TypeOK, RunTypeOK, CurOK, JobsBounded, Attended, At
<1>2. \A v \in Workers : cur[v] = cur[w] => v = w
  BY <1>1, WorkerAssumption DEF IInv, CurOK, Attended
<1> QED BY <1>1, <1>2 DEF DispatchedOnce, At

\* In a run without faults no merchant is told twice of one payment.
THEOREM ToldOnce == Spec => OneDispatchEach
<1>1. Init => Undisturbed
  BY DEF Init, QueueInit, Undisturbed, Attended, DispatchedOnce, At
<1>2. IInv /\ Undisturbed /\ [Next]_vars => Undisturbed'
  <2> SUFFICES ASSUME IInv, Undisturbed, [Next]_vars, faults' = 0
               PROVE  (Attended /\ DispatchedOnce)'
    BY DEF Undisturbed
  <2>1. faults = 0
    BY FaultsCount DEF IInv
  <2> QED BY <2>1, UndisturbedStep DEF Undisturbed
<1>3. IInv /\ Undisturbed /\ [Next]_vars =>
        [\A w \in Workers :
           faults' = 0 /\ At(w, "dispatch") /\ pc'[w] = "enqueue" =>
             \A d \in dispatches : d.tx # cur[w]]_vars
  BY FaultsCount, DispatchIsNew DEF IInv, Undisturbed
<1> QED BY <1>1, <1>2, <1>3, Invariance, PTL DEF Spec, OneDispatchEach

-----------------------------------------------------------------------------
(***************************************************************************)
(* Every result code has its reason                                        *)
(***************************************************************************)

\* No worker carries 9999, and no row has it.
NoErrors ==
  /\ \A w \in Workers : code[w] # SystemError
  /\ \A t \in Txs : resultCode[t] # SystemError

\* As long as every job is its worker's alone, no two runs of it deadlock.
LEMMA NoDeadlock ==
  ASSUME IInv, Attended
  PROVE  ~BreakDeadlock
<1> SUFFICES ASSUME NEW w \in Workers, NEW v \in Workers, Deadlocked(w, v)
             PROVE  FALSE
  BY DEF BreakDeadlock, DeadlockAbortsPhase1, DeadlockAbortsPhase2
<1>1. owner[cur[w]] = w /\ owner[cur[v]] = v /\ cur[w] = cur[v] /\ w # v
  BY DEF Deadlocked, Attended, At
<1> QED BY <1>1

\* A step that is no fault writes no 9999.
LEMMA NoErrorsStep ==
  ASSUME IInv, Attended, NoErrors, [Next]_vars, faults' = 0
  PROVE  NoErrors'
<1> USE WorkerAssumption
    DEF IInv, TypeOK, RowsTypeOK, RunTypeOK, NoErrors, SystemError, NoCode, Success,
        InsufficientFunds, Conflict, Cancelled, TimedOut, WrongPin
<1>1. ASSUME NEW t \in Txs, ApiStep(t) \/ StalledJob(t)
      PROVE  NoErrors'
  <2>1. CASE Insert(t) \/ Enqueue(t) \/ CancelTransaction(t) \/ StalledJob(t)
    BY <2>1 DEF Insert, InsertPending, Enqueue, CancelTransaction, Deliver, StalledJob,
       rowVars, runVars
  <2>2. ASSUME NEW s \in PinSignals, VerifyPin(t, s) \/ PublishPin(t, s)
        PROVE  NoErrors'
    BY <2>2 DEF VerifyPin, PublishPin, Deliver, rowVars, runVars
  <2> QED BY <1>1, <2>1, <2>2 DEF ApiStep
<1>2. ASSUME NEW w \in Workers, NEW t \in Txs, StartJob(w, t)
      PROVE  NoErrors'
  BY <1>2 DEF StartJob, rowVars
<1>3. ASSUME NEW w \in Workers, ReadStatus(w) \/ Validate(w) \/ Announce(w) \/ LockTx(w)
             \/ RejectSettled(w) \/ BuildPayload(w) \/ CreateDispatch(w) \/ AddWebhookJob(w)
      PROVE  NoErrors'
  BY <1>3 DEF ReadStatus, Validate, Announce, LockTx, RejectSettled, BuildPayload,
     CreateDispatch, AddWebhookJob, rowVars
<1>4. ASSUME NEW w \in Workers, RejectConflict(w) \/ RejectFunds(w)
      PROVE  NoErrors'
  BY <1>4 DEF RejectConflict, RejectFunds, Abandon
<1>5. ASSUME NEW w \in Workers, CommitPhase1(w)
      PROVE  NoErrors'
  BY <1>5 DEF CommitPhase1, CommitProcessing
<1>6. ASSUME NEW w \in Workers, FailPending(w) \/ FailProcessing(w)
      PROVE  NoErrors'
  BY <1>6 DEF FailPending, FailProcessing, MarkFailed
<1>7. ASSUME NEW w \in Workers, ActOnPin(w)
      PROVE  NoErrors'
  BY <1>7 DEF ActOnPin, FailureCode, rowVars
<1>8. ASSUME NEW w \in Workers, Settle(w)
      PROVE  NoErrors'
  BY <1>8 DEF Settle, CommitPayment, Abandon
<1>9. ASSUME NEW w \in Workers, Finish(w) \/ Throw(w)
      PROVE  NoErrors'
  BY <1>9 DEF Finish, Throw, Retire, rowVars
<1>10. ASSUME NEW w \in Workers, PinWait(w)
      PROVE  NoErrors'
  BY <1>10 DEF PinWait, Listen, PinTimeout, Resolve, rowVars
<1>11. CASE UNCHANGED vars
  BY <1>11 DEF vars, rowVars, runVars
<1> QED
  BY <1>1, <1>2, <1>3, <1>4, <1>5, <1>6, <1>7, <1>8, <1>9, <1>10, <1>11, FaultsCount,
     NoDeadlock
  DEF Next, WorkerStep

\* Every result code tells the truth: a PIN was wrong, a timer fired, the payer
\* cancelled, the money was missing, another payment was in flight, or something
\* failed.  9999 is never written while nothing has: the one way to it without a
\* failed statement, a deadlock, takes two runs of one job.
THEOREM CodesExplained == Spec => []CodeExplained
<1> DEFINE Clean == faults = 0 => NoErrors
<1>1. Init => Undisturbed /\ Clean
  BY DEF Init, QueueInit, RowsInit, Undisturbed, Attended, DispatchedOnce, NoErrors, At,
     NoCode, SystemError
<1>2. IInv /\ Undisturbed /\ Clean /\ [Next]_vars => Undisturbed' /\ Clean'
  <2>1. ASSUME IInv, Undisturbed, Clean, [Next]_vars, faults' = 0
        PROVE  (Attended /\ DispatchedOnce /\ NoErrors)'
    <3>1. faults = 0
      BY <2>1, FaultsCount DEF IInv
    <3> QED BY <2>1, <3>1, UndisturbedStep, NoErrorsStep DEF Undisturbed
  <2> QED BY <2>1 DEF Undisturbed
<1>3. IInv /\ Clean => CodeExplained
  BY DEF IInv, TypeOK, NoErrors, CodeExplained, ErrorsFollowFaults
<1> HIDE DEF Clean
<1> QED BY <1>1, <1>2, <1>3, Invariance, PTL DEF Spec
=============================================================================
