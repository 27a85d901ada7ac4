---------------------------- MODULE PaymentWorker ---------------------------
(***************************************************************************)
(* One STK push from the API's INSERT to the merchant's webhook job: the   *)
(* worker of apps/worker (transaction.processor, transaction.service and   *)
(* the repository calls it makes), the PIN endpoints of apps/api that      *)
(* signal it over Redis, the queue between them and the rows they share.   *)
(*                                                                         *)
(* A worker is one process's job slot (BullMQ concurrency 1).  Each action *)
(* is what happens between two points where another session, worker or     *)
(* request can get in: one statement that may wait for a lock, one message,*)
(* one call to Redis.  Faults are environment steps, each kind present only*)
(* when Faults names it, at most MaxFaults of them in a behaviour.         *)
(***************************************************************************)
EXTENDS PaymentRows, JobQueue

CONSTANTS NoTx,
          Faults,      \* the kinds of fault the environment may inject
          MaxFaults,   \* and how many in one behaviour
          MaxRequests  \* PIN and cancel requests in one behaviour

FaultKinds == {"enqueue", "query", "mark", "ack", "crash", "lock"}

ASSUME WorkerAssumption ==
  /\ NoTx \notin Txs
  /\ Faults \subseteq FaultKinds
  /\ MaxFaults \in Nat
  /\ MaxRequests \in Nat

VARIABLES
  pc,          \* where each worker's processor is
  cur,         \* the transaction it processes
  subscriber,  \* the Redis subscriber of waitForPin
  heard,       \* the outcomes that may still decide waitForPin's promise
  code,        \* the result code the next markTransactionFailed carries
  event,       \* the webhook event of this run
  body,        \* the row as getBuiltPayload read it
  accepted,    \* history: the signals the API ever decided to publish
  inflight,    \* those not published yet
  requests,    \* how many there were
  timedOut,    \* history: the payments whose PIN timer fired in some run
  refused,     \* requests answered 502: the row is there, the job is not
  dispatches,  \* webhook_dispatches
  webhookJobs, \* what addWebhookJob put in the webhook queue
  faults       \* how many faults there were

runVars == <<pc, cur, subscriber, heard, code, event, body>>
pinVars == <<accepted, inflight, requests, timedOut>>
hookVars == <<dispatches, webhookJobs>>
vars == <<rowVars, queueVars, runVars, pinVars, refused, hookVars, faults>>

PinSignals == {"CORRECT", "WRONG_PIN"}
Signals == PinSignals \cup {"CANCELLED"}
Events == {"transaction.completed", "transaction.failed"}
NoBody == [status |-> "ABSENT", resultCode |-> NoCode]
Bodies == [status : Statuses, resultCode : ResultCodes \cup {NoCode}]
Dispatches == [tx : Txs, event : Events, body : Bodies]

Steps == {"idle", "readStatus", "lockUser", "markProcessing", "failPending",
          "announce", "pin", "lockTx", "settle", "failProcessing", "build",
          "dispatch", "enqueue", "finish", "throw"}

Goto(w, step) == pc' = [pc EXCEPT ![w] = step]
At(w, step) == pc[w] = step

Init ==
  /\ RowsInit
  /\ QueueInit
  /\ pc = [w \in Workers |-> "idle"]
  /\ cur = [w \in Workers |-> NoTx]
  /\ subscriber = [w \in Workers |-> "off"]
  /\ heard = [w \in Workers |-> {}]
  /\ code = [w \in Workers |-> NoCode]
  /\ event = [w \in Workers |-> "none"]
  /\ body = [w \in Workers |-> NoBody]
  /\ accepted = {}
  /\ inflight = {}
  /\ requests = 0
  /\ timedOut = {}
  /\ refused = {}
  /\ dispatches = {}
  /\ webhookJobs = {}
  /\ faults = 0

-----------------------------------------------------------------------------
(***************************************************************************)
(* apps/api: the STK push, the PIN and the cancel endpoint                 *)
(***************************************************************************)

\* processRequest up to the committed INSERT.
Insert(t) ==
  /\ InsertPending(t)
  /\ UNCHANGED <<queueVars, runVars, pinVars, refused, hookVars, faults>>

\* queuePaymentTask; the request is then answered 200.
Enqueue(t) ==
  /\ status[t] # "ABSENT"
  /\ t \notin refused
  /\ AddJob(t)
  /\ UNCHANGED <<rowVars, runVars, pinVars, refused, hookVars, faults>>

\* verifyPin reads the row and compares the PIN; it publishes only later.
VerifyPin(t, s) ==
  /\ requests < MaxRequests
  /\ status[t] = "PROCESSING"
  /\ requests' = requests + 1
  /\ accepted' = accepted \cup {<<t, s>>}
  /\ inflight' = inflight \cup {<<t, s>>}
  /\ UNCHANGED <<rowVars, queueVars, runVars, timedOut, refused, hookVars, faults>>

\* Redis hands a message to whoever is subscribed at that moment.  The first
\* one starts the subscriber's cleanup; one that arrives before the
\* unsubscribe is acknowledged starts a second cleanup, and either may resolve
\* the promise.
Hears(w, t) == cur[w] = t /\ subscriber[w] \in {"listening", "closing"}

Deliver(t, s) ==
  /\ heard' = [w \in Workers |-> IF Hears(w, t) THEN heard[w] \cup {s} ELSE heard[w]]
  /\ subscriber' = [w \in Workers |-> IF Hears(w, t) THEN "closing" ELSE subscriber[w]]
  /\ UNCHANGED <<pc, cur, code, event, body>>

\* publishPinSignal of a request that passed verifyPin's checks.
PublishPin(t, s) ==
  /\ <<t, s>> \in inflight
  /\ inflight' = inflight \ {<<t, s>>}
  /\ Deliver(t, s)
  /\ UNCHANGED <<rowVars, queueVars, accepted, requests, timedOut, refused, hookVars, faults>>

\* cancelTransaction publishes whatever the transaction's status is.
CancelTransaction(t) ==
  /\ requests < MaxRequests
  /\ status[t] # "ABSENT"
  /\ requests' = requests + 1
  /\ accepted' = accepted \cup {<<t, "CANCELLED">>}
  /\ Deliver(t, "CANCELLED")
  /\ UNCHANGED <<rowVars, queueVars, inflight, timedOut, refused, hookVars, faults>>

ApiStep(t) ==
  \/ Insert(t)
  \/ Enqueue(t)
  \/ \E s \in PinSignals : VerifyPin(t, s)
  \/ \E s \in PinSignals : PublishPin(t, s)
  \/ CancelTransaction(t)

-----------------------------------------------------------------------------
(***************************************************************************)
(* Phase 1: lockRowsValidate                                               *)
(***************************************************************************)

StartJob(w, t) ==
  /\ At(w, "idle")
  /\ TakeJob(w, t)
  /\ cur' = [cur EXCEPT ![w] = t]
  /\ Goto(w, "readStatus")
  /\ UNCHANGED <<rowVars, subscriber, heard, code, event, body, pinVars, refused,
                 hookVars, faults>>

\* waitForPin is started, not awaited, and the status is published next.
StartWaiting(w) ==
  /\ Goto(w, "announce")
  /\ subscriber' = [subscriber EXCEPT ![w] = "connecting"]

\* The status read outside the database transaction.  A settled payment and
\* one in flight skip phase 1, and go on to wait for a PIN all the same.
ReadStatus(w) ==
  /\ At(w, "readStatus")
  /\ IF status[cur[w]] = "PENDING"
       THEN Goto(w, "lockUser") /\ UNCHANGED subscriber
       ELSE StartWaiting(w)
  /\ UNCHANGED <<rowVars, queueVars, cur, heard, code, event, body, pinVars, refused,
                 hookVars, faults>>

\* mutant: the catch records the error without a ROLLBACK
AbandonUnreleased(w, step, c) ==
  /\ code' = [code EXCEPT ![w] = c]
  /\ Goto(w, step)
  /\ UNCHANGED <<rowVars, cur, subscriber, heard, event, body>>

\* ROLLBACK, with the error that caused it still to be recorded.
Abandon(w, step, c) ==
  /\ ReleaseAll(w)
  /\ code' = [code EXCEPT ![w] = c]
  /\ Goto(w, step)
  /\ UNCHANGED <<status, resultCode, userBalance, merchantBalance, cur, subscriber,
                 heard, event, body>>

RejectConflict(w) ==
  /\ At(w, "lockUser")
  /\ userLock[Payer[cur[w]]] = NoWorker
  /\ HasActiveTransaction(cur[w])
  /\ Abandon(w, "failPending", Conflict)
  /\ UNCHANGED <<queueVars, pinVars, refused, hookVars, faults>>

RejectFunds(w) ==
  /\ At(w, "lockUser")
  /\ userLock[Payer[cur[w]]] = NoWorker
  /\ ~HasActiveTransaction(cur[w])
  /\ userBalance[Payer[cur[w]]] < Amount[cur[w]]
  /\ Abandon(w, "failPending", InsufficientFunds)
  /\ UNCHANGED <<queueVars, pinVars, refused, hookVars, faults>>

\* mutants: the balance is not compared; the user is read without FOR UPDATE
ValidateUnfunded(w) ==
  /\ At(w, "lockUser")
  /\ userLock[Payer[cur[w]]] = NoWorker
  /\ ~HasActiveTransaction(cur[w])
  /\ userLock' = Take(userLock, Payer[cur[w]], w)
  /\ Goto(w, "markProcessing")
  /\ UNCHANGED <<status, resultCode, userBalance, merchantBalance, txLock, queueVars,
                 cur, subscriber, heard, code, event, body, pinVars, refused, hookVars,
                 faults>>

ValidateUnlocked(w) ==
  /\ At(w, "lockUser")
  /\ ~HasActiveTransaction(cur[w])
  /\ userBalance[Payer[cur[w]]] >= Amount[cur[w]]
  /\ Goto(w, "markProcessing")
  /\ UNCHANGED <<rowVars, queueVars, cur, subscriber, heard, code, event, body, pinVars,
                 refused, hookVars, faults>>

Validate(w) ==
  /\ At(w, "lockUser")
  /\ userLock[Payer[cur[w]]] = NoWorker
  /\ ~HasActiveTransaction(cur[w])
  /\ userBalance[Payer[cur[w]]] >= Amount[cur[w]]
  /\ userLock' = Take(userLock, Payer[cur[w]], w)
  /\ Goto(w, "markProcessing")
  /\ UNCHANGED <<status, resultCode, userBalance, merchantBalance, txLock, queueVars,
                 cur, subscriber, heard, code, event, body, pinVars, refused, hookVars,
                 faults>>

CommitPhase1(w) ==
  /\ At(w, "markProcessing")
  /\ CommitProcessing(w, cur[w])
  /\ StartWaiting(w)
  /\ UNCHANGED <<queueVars, cur, heard, code, event, body, pinVars, refused, hookVars,
                 faults>>

\* After the ROLLBACK the failure is written by a statement of its own; only
\* then does the error reach the processor, which knows insufficient funds for
\* a business error and retries everything else, a conflict included.
AfterPhase1Error(w) ==
  IF code[w] = InsufficientFunds
    THEN Goto(w, "build") /\ event' = [event EXCEPT ![w] = "transaction.failed"]
    ELSE Goto(w, "throw") /\ UNCHANGED event

FailPending(w) ==
  /\ At(w, "failPending")
  /\ MarkFailed(cur[w], "PENDING", code[w])
  /\ AfterPhase1Error(w)
  /\ UNCHANGED <<queueVars, cur, subscriber, heard, code, body, pinVars, refused,
                 hookVars, faults>>

-----------------------------------------------------------------------------
(***************************************************************************)
(* waitForPin and the switch on what it heard                              *)
(***************************************************************************)

\* connect() and SUBSCRIBE went through and the timer runs.
Listen(w) ==
  /\ subscriber[w] = "connecting"
  /\ subscriber' = [subscriber EXCEPT ![w] = "listening"]
  /\ UNCHANGED <<rowVars, queueVars, pc, cur, heard, code, event, body, pinVars,
                 refused, hookVars, faults>>

PinTimeout(w) ==
  /\ subscriber[w] = "listening"
  /\ subscriber' = [subscriber EXCEPT ![w] = "closing"]
  /\ heard' = [heard EXCEPT ![w] = {"TIMEOUT"}]
  /\ timedOut' = timedOut \cup {cur[w]}
  /\ UNCHANGED <<rowVars, queueVars, pc, cur, code, event, body, accepted, inflight,
                 requests, refused, hookVars, faults>>

\* A cleanup ended: its handler resolves the promise.
Resolve(w) ==
  /\ subscriber[w] = "closing"
  /\ subscriber' = [subscriber EXCEPT ![w] = "closed"]
  /\ \E r \in heard[w] : heard' = [heard EXCEPT ![w] = {r}]
  /\ UNCHANGED <<rowVars, queueVars, pc, cur, code, event, body, pinVars, refused,
                 hookVars, faults>>

PinWait(w) == Listen(w) \/ PinTimeout(w) \/ Resolve(w)

\* publish: the status is on the dashboard, and the visibility delay runs.
Announce(w) ==
  /\ At(w, "announce")
  /\ Goto(w, "pin")
  /\ UNCHANGED <<rowVars, queueVars, cur, subscriber, heard, code, event, body, pinVars,
                 refused, hookVars, faults>>

\* mutant: two codes swapped
FailureCodeSwapped(r) ==
  CASE r = "WRONG_PIN" -> Cancelled
    [] r = "CANCELLED" -> WrongPin
    [] OTHER -> TimedOut

FailureCode(r) ==
  CASE r = "WRONG_PIN" -> WrongPin
    [] r = "CANCELLED" -> Cancelled
    [] OTHER -> TimedOut

\* mutant: whatever is not a wrong PIN is taken for the right one
ActOnPinByDefault(w) ==
  /\ At(w, "pin")
  /\ subscriber[w] = "closed"
  /\ \E r \in heard[w] :
       IF r # "WRONG_PIN"
         THEN Goto(w, "lockTx") /\ UNCHANGED code
         ELSE /\ Goto(w, "failProcessing")
              /\ code' = [code EXCEPT ![w] = FailureCode(r)]
  /\ UNCHANGED <<rowVars, queueVars, cur, subscriber, heard, event, body, pinVars,
                 refused, hookVars, faults>>

ActOnPin(w) ==
  /\ At(w, "pin")
  /\ subscriber[w] = "closed"
  /\ \E r \in heard[w] :
       IF r = "CORRECT"
         THEN Goto(w, "lockTx") /\ UNCHANGED code
         ELSE /\ Goto(w, "failProcessing")
              /\ code' = [code EXCEPT ![w] = FailureCode(r)]
  /\ UNCHANGED <<rowVars, queueVars, cur, subscriber, heard, event, body, pinVars,
                 refused, hookVars, faults>>

-----------------------------------------------------------------------------
(***************************************************************************)
(* Phase 2: finalizeTransaction, and markTransactionFailed from PROCESSING *)
(***************************************************************************)

\* mutant: the status is not looked at again
LockTxUnchecked(w) ==
  /\ At(w, "lockTx")
  /\ txLock[cur[w]] = NoWorker
  /\ txLock' = Take(txLock, cur[w], w)
  /\ Goto(w, "settle")
  /\ UNCHANGED <<status, resultCode, userBalance, merchantBalance, userLock, queueVars,
                 cur, subscriber, heard, code, event, body, pinVars, refused, hookVars,
                 faults>>

LockTx(w) ==
  /\ At(w, "lockTx")
  /\ txLock[cur[w]] = NoWorker
  /\ status[cur[w]] = "PROCESSING"
  /\ txLock' = Take(txLock, cur[w], w)
  /\ Goto(w, "settle")
  /\ UNCHANGED <<status, resultCode, userBalance, merchantBalance, userLock, queueVars,
                 cur, subscriber, heard, code, event, body, pinVars, refused, hookVars,
                 faults>>

\* InvalidStateError: somebody else settled the payment.  The processor takes
\* it for a business error and reports "transaction.failed".
RejectSettled(w) ==
  /\ At(w, "lockTx")
  /\ txLock[cur[w]] = NoWorker
  /\ status[cur[w]] # "PROCESSING"
  /\ event' = [event EXCEPT ![w] = "transaction.failed"]
  /\ Goto(w, "build")
  /\ UNCHANGED <<rowVars, queueVars, cur, subscriber, heard, code, body, pinVars,
                 refused, hookVars, faults>>

Completed(w) ==
  /\ Goto(w, "build")
  /\ event' = [event EXCEPT ![w] = "transaction.completed"]

Settle(w) ==
  /\ At(w, "settle")
  /\ userLock[Payer[cur[w]]] = NoWorker
  /\ IF userBalance[Payer[cur[w]]] >= Amount[cur[w]]
       THEN /\ CommitPayment(w, cur[w])
            /\ Completed(w)
            /\ UNCHANGED <<cur, subscriber, heard, code, body>>
       ELSE Abandon(w, "failProcessing", InsufficientFunds)
  /\ UNCHANGED <<queueVars, pinVars, refused, hookVars, faults>>

\* A wrong PIN, a cancellation, a timeout, or the catch of finalizeTransaction,
\* which swallows the error and returns.
FailProcessing(w) ==
  /\ At(w, "failProcessing")
  /\ MarkFailed(cur[w], "PROCESSING", code[w])
  /\ Completed(w)
  /\ UNCHANGED <<queueVars, cur, subscriber, heard, code, body, pinVars, refused,
                 hookVars, faults>>

-----------------------------------------------------------------------------
(***************************************************************************)
(* The merchant's webhook: payload, dispatch row, webhook job              *)
(***************************************************************************)

\* mutant: a payload is built for any status
BuildPayloadAlways(w) ==
  /\ At(w, "build")
  /\ body' = [body EXCEPT ![w] = [status |-> status[cur[w]],
                                 resultCode |-> resultCode[cur[w]]]]
  /\ Goto(w, "dispatch")
  /\ UNCHANGED <<rowVars, queueVars, cur, subscriber, heard, code, event, pinVars,
                 refused, hookVars, faults>>

\* getBuiltPayload: payloadBuilder throws for a payment that is not settled.
\* The metadata update that follows names a request_id its query never read,
\* so it changes no row.
BuildPayload(w) ==
  /\ At(w, "build")
  /\ IF status[cur[w]] \in Terminal
       THEN /\ body' = [body EXCEPT ![w] = [status |-> status[cur[w]],
                                          resultCode |-> resultCode[cur[w]]]]
            /\ Goto(w, "dispatch")
       ELSE Goto(w, "throw") /\ UNCHANGED body
  /\ UNCHANGED <<rowVars, queueVars, cur, subscriber, heard, code, event, pinVars,
                 refused, hookVars, faults>>

Dispatch(w) == [tx |-> cur[w], event |-> event[w], body |-> body[w]]

CreateDispatch(w) ==
  /\ At(w, "dispatch")
  /\ dispatches' = dispatches \cup {Dispatch(w)}
  /\ Goto(w, "enqueue")
  /\ UNCHANGED <<rowVars, queueVars, cur, subscriber, heard, code, event, body, pinVars,
                 refused, webhookJobs, faults>>

AddWebhookJob(w) ==
  /\ At(w, "enqueue")
  /\ webhookJobs' = webhookJobs \cup {Dispatch(w)}
  /\ Goto(w, "finish")
  /\ UNCHANGED <<rowVars, queueVars, cur, subscriber, heard, code, event, body, pinVars,
                 refused, dispatches, faults>>

\* The processor's run is over and its slot free again.
Retire(w) ==
  /\ Goto(w, "idle")
  /\ cur' = [cur EXCEPT ![w] = NoTx]
  /\ subscriber' = [subscriber EXCEPT ![w] = "off"]
  /\ heard' = [heard EXCEPT ![w] = {}]
  /\ code' = [code EXCEPT ![w] = NoCode]
  /\ event' = [event EXCEPT ![w] = "none"]
  /\ body' = [body EXCEPT ![w] = NoBody]

\* mutant: the catch block has no return, so a business error is thrown on
FinishWithoutReturn(w) ==
  /\ At(w, "finish")
  /\ IF event[w] = "transaction.failed" THEN FailJob(w, cur[w]) ELSE CompleteJob(w, cur[w])
  /\ Retire(w)
  /\ UNCHANGED <<rowVars, pinVars, refused, hookVars, faults>>

Finish(w) ==
  /\ At(w, "finish")
  /\ CompleteJob(w, cur[w])
  /\ Retire(w)
  /\ UNCHANGED <<rowVars, pinVars, refused, hookVars, faults>>

Throw(w) ==
  /\ At(w, "throw")
  /\ FailJob(w, cur[w])
  /\ Retire(w)
  /\ UNCHANGED <<rowVars, pinVars, refused, hookVars, faults>>

WorkerStep(w) ==
  \/ \E t \in Txs : StartJob(w, t)
  \/ ReadStatus(w) \/ RejectConflict(w) \/ RejectFunds(w) \/ Validate(w)
  \/ CommitPhase1(w) \/ FailPending(w)
  \/ Announce(w) \/ ActOnPin(w)
  \/ LockTx(w) \/ RejectSettled(w) \/ Settle(w) \/ FailProcessing(w)
  \/ BuildPayload(w) \/ CreateDispatch(w) \/ AddWebhookJob(w)
  \/ Finish(w) \/ Throw(w)

-----------------------------------------------------------------------------
(***************************************************************************)
(* What the database, the queue and the environment do on their own        *)
(***************************************************************************)

\* Phase 1 locks the user and then writes the transaction, phase 2 locks the
\* transaction and then the user.  Two runs of one job can block each other;
\* PostgreSQL then aborts one of the two database transactions.
Deadlocked(w, v) ==
  /\ At(w, "markProcessing")
  /\ At(v, "settle")
  /\ cur[w] = cur[v]

DeadlockAbortsPhase1(w) ==
  /\ \E v \in Workers : Deadlocked(w, v)
  /\ Abandon(w, "failPending", SystemError)
  /\ UNCHANGED <<queueVars, pinVars, refused, hookVars, faults>>

DeadlockAbortsPhase2(v) ==
  /\ \E w \in Workers : Deadlocked(w, v)
  /\ Abandon(v, "failProcessing", SystemError)
  /\ UNCHANGED <<queueVars, pinVars, refused, hookVars, faults>>

BreakDeadlock == \E w \in Workers : DeadlockAbortsPhase1(w) \/ DeadlockAbortsPhase2(w)

StalledJob(t) ==
  /\ RecoverStalled(t)
  /\ UNCHANGED <<rowVars, runVars, pinVars, refused, hookVars, faults>>

Fault(kind) ==
  /\ kind \in Faults
  /\ faults < MaxFaults
  /\ faults' = faults + 1

\* The enqueue, or the publication before it, fails: the lock on the
\* fingerprint is released and the request answered with an error.
EnqueueFails(t) ==
  /\ Fault("enqueue")
  /\ status[t] # "ABSENT"
  /\ job[t] = "none"
  /\ refused' = refused \cup {t}
  /\ UNCHANGED <<rowVars, queueVars, runVars, pinVars, hookVars>>

\* A query or Redis call outside the two catch blocks of the repository fails,
\* the connect of waitForPin among them once its promise is awaited.
QueryFails(w) ==
  /\ Fault("query")
  /\ \/ pc[w] \in {"readStatus", "lockUser", "lockTx", "build", "dispatch", "enqueue"}
     \/ At(w, "pin") /\ subscriber[w] = "connecting"
  /\ Goto(w, "throw")
  /\ UNCHANGED <<rowVars, queueVars, cur, subscriber, heard, code, event, body, pinVars,
                 refused, hookVars>>

Phase1Fails(w) ==
  /\ Fault("query")
  /\ pc[w] \in {"lockUser", "markProcessing"}
  /\ Abandon(w, "failPending", SystemError)
  /\ UNCHANGED <<queueVars, pinVars, refused, hookVars>>

Phase2Fails(w) ==
  /\ Fault("query")
  /\ pc[w] \in {"lockTx", "settle"}
  /\ Abandon(w, "failProcessing", SystemError)
  /\ UNCHANGED <<queueVars, pinVars, refused, hookVars>>

\* The COMMIT took effect, its acknowledgement was lost: the code takes the
\* error for a failed phase.
Phase1AckLost(w) ==
  /\ Fault("ack")
  /\ At(w, "markProcessing")
  /\ CommitProcessing(w, cur[w])
  /\ Goto(w, "failPending")
  /\ code' = [code EXCEPT ![w] = SystemError]
  /\ UNCHANGED <<queueVars, cur, subscriber, heard, event, body, pinVars, refused,
                 hookVars>>

Phase2AckLost(w) ==
  /\ Fault("ack")
  /\ At(w, "settle")
  /\ userLock[Payer[cur[w]]] = NoWorker
  /\ userBalance[Payer[cur[w]]] >= Amount[cur[w]]
  /\ CommitPayment(w, cur[w])
  /\ Goto(w, "failProcessing")
  /\ code' = [code EXCEPT ![w] = SystemError]
  /\ UNCHANGED <<queueVars, cur, subscriber, heard, event, body, pinVars, refused,
                 hookVars>>

\* markTransactionFailed swallows the error of its own UPDATE.
MarkFailedLost(w) ==
  /\ Fault("mark")
  /\ \/ At(w, "failPending") /\ AfterPhase1Error(w)
     \/ At(w, "failProcessing") /\ Completed(w)
  /\ UNCHANGED <<rowVars, queueVars, cur, subscriber, heard, code, body, pinVars,
                 refused, hookVars>>

\* The process dies (a rejected waitForPin nobody awaits yet kills it too): the
\* server drops its database session, its job's lock expires.
Crash(w) ==
  /\ Fault("crash")
  /\ ~At(w, "idle")
  /\ Retire(w)
  /\ ReleaseAll(w)
  /\ ExpireLocks(w)
  /\ UNCHANGED <<status, resultCode, userBalance, merchantBalance, pinVars, refused,
                 hookVars>>

\* The worker does not renew its lock for lockDuration, and runs on.
LoseLock(w) ==
  /\ Fault("lock")
  /\ ~At(w, "idle")
  /\ owner[cur[w]] = w
  /\ ExpireLocks(w)
  /\ UNCHANGED <<rowVars, runVars, pinVars, refused, hookVars>>

WorkerFault(w) ==
  \/ QueryFails(w) \/ Phase1Fails(w) \/ Phase2Fails(w) \/ Phase1AckLost(w)
  \/ Phase2AckLost(w) \/ MarkFailedLost(w) \/ Crash(w) \/ LoseLock(w)

Next ==
  \/ \E t \in Txs : ApiStep(t) \/ StalledJob(t) \/ EnqueueFails(t)
  \/ \E w \in Workers : WorkerStep(w) \/ PinWait(w) \/ WorkerFault(w)
  \/ BreakDeadlock

Spec == Init /\ [][Next]_vars

\* The event loop runs what it can run, timers fire, PostgreSQL's deadlock
\* detector and BullMQ's stalled-job check run periodically.  Nothing obliges
\* a user to enter a PIN, or a client to send a request.
Fairness ==
  /\ \A w \in Workers : WF_vars(WorkerStep(w)) /\ WF_vars(PinWait(w))
  /\ \A t \in Txs : WF_vars(StalledJob(t))
  /\ WF_vars(BreakDeadlock)

FairSpec == Spec /\ Fairness
=============================================================================
