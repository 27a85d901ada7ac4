--------------------------- MODULE WebhookDelivery ---------------------------
(***************************************************************************)
(* The delivery of a merchant's webhook: the "webhook-tasks" worker of     *)
(* apps/worker (webhook.processor, webhook.service), the rows it keeps of  *)
(* it (webhook_dispatches, webhook_attempts, transactions.metadata) and    *)
(* the merchant's callback endpoint.                                       *)
(*                                                                         *)
(* A dispatch is POSTed, the answer is logged, the dashboard's metadata is *)
(* updated, and the dispatch is marked delivered, or failed after the last *)
(* attempt.  The mark is sent and not awaited: it is a message to          *)
(* PostgreSQL that may arrive after the job is over, in any order with     *)
(* other marks, or not at all.  The merchant may answer as it likes, and   *)
(* as late as it likes: axios is given no timeout.                         *)
(***************************************************************************)
EXTENDS Integers, Sequences

CONSTANTS Txs,         \* transactions
          Deliveries,  \* rows of webhook_dispatches, each with a job of its own
          TxOf,        \* webhook_dispatches.transaction_id
          Workers,     \* job slots of the worker processes
          NoWorker, NoDelivery,
          MaxAttempts, \* attempts of a webhook job: 5
          MaxStalled,  \* BullMQ's maxStalledCount
          Faults,      \* the kinds of fault the environment may inject
          MaxFaults    \* and how many in one behaviour

FaultKinds == {"query", "crash", "lock"}

ASSUME DeliveryAssumption ==
  /\ TxOf \in [Deliveries -> Txs]
  /\ NoWorker \notin Workers
  /\ NoDelivery \notin Deliveries
  /\ MaxAttempts \in Nat \ {0}
  /\ MaxStalled \in Nat
  /\ Faults \subseteq FaultKinds
  /\ MaxFaults \in Nat

VARIABLES
  job, owner, attemptsMade, stalls,  \* the queue, as in JobQueue
  dispatchStatus, \* webhook_dispatches.status
  lastAttempt,    \* webhook_dispatches.last_attempt_number
  attempts,       \* webhook_attempts of each dispatch, in the order of their ids
  callback,       \* transactions.metadata.callback: attempts and lastResponse
  marks,          \* the UPDATEs of webhook_dispatches that are on their way
  pc, cur, number, \* where a worker is, its dispatch and its attempt number
  ok,             \* whether the response counts as a success
  received,       \* history: how often the merchant received each dispatch
  acknowledged,   \* history: the dispatches it answered with 2xx
  faults

queueVars == <<job, owner, attemptsMade, stalls>>
rowVars == <<dispatchStatus, lastAttempt, attempts, callback>>
runVars == <<pc, cur, number, ok>>
merchantVars == <<received, acknowledged>>
vars == <<queueVars, rowVars, marks, runVars, merchantVars, faults>>

Queue == INSTANCE JobQueue WITH Txs <- Deliveries

Steps == {"idle", "post", "answer", "log", "metadata", "mark", "finish", "throw"}
Attempts == [number : 1..MaxAttempts, ok : BOOLEAN]
NoCallback == [number |-> 0, ok |-> FALSE]
Marks == [by : Workers, delivery : Deliveries, status : {"delivered", "failed"},
          number : 1..MaxAttempts]

At(w, step) == pc[w] = step
Goto(w, step) == pc' = [pc EXCEPT ![w] = step]
Attempt(w) == [number |-> number[w], ok |-> ok[w]]

\* The rows are there (createWebhookDispatch), their jobs are not yet.
Init ==
  /\ Queue!QueueInit
  /\ dispatchStatus = [d \in Deliveries |-> "pending"]
  /\ lastAttempt = [d \in Deliveries |-> 0]
  /\ attempts = [d \in Deliveries |-> <<>>]
  /\ callback = [t \in Txs |-> NoCallback]
  /\ marks = {}
  /\ pc = [w \in Workers |-> "idle"]
  /\ cur = [w \in Workers |-> NoDelivery]
  /\ number = [w \in Workers |-> 0]
  /\ ok = [w \in Workers |-> FALSE]
  /\ received = [d \in Deliveries |-> 0]
  /\ acknowledged = {}
  /\ faults = 0

AddWebhookJob(d) ==
  /\ Queue!AddJob(d)
  /\ UNCHANGED <<rowVars, marks, runVars, merchantVars, faults>>

-----------------------------------------------------------------------------
(***************************************************************************)
(* webhookProcessor                                                        *)
(***************************************************************************)

\* mutant: the number is that of the attempts already made
StartDeliveryLate(w, d) ==
  /\ At(w, "idle")
  /\ Queue!TakeJob(w, d)
  /\ cur' = [cur EXCEPT ![w] = d]
  /\ number' = [number EXCEPT ![w] = attemptsMade[d]]
  /\ Goto(w, "post")
  /\ UNCHANGED <<rowVars, marks, ok, merchantVars, faults>>

StartDelivery(w, d) ==
  /\ At(w, "idle")
  /\ Queue!TakeJob(w, d)
  /\ cur' = [cur EXCEPT ![w] = d]
  /\ number' = [number EXCEPT ![w] = attemptsMade[d] + 1]
  /\ Goto(w, "post")
  /\ UNCHANGED <<rowVars, marks, ok, merchantVars, faults>>

\* dispatchWebhook reaches the merchant, or does not.
Post(w) ==
  /\ At(w, "post")
  /\ received' = [received EXCEPT ![cur[w]] = @ + 1]
  /\ Goto(w, "answer")
  /\ UNCHANGED <<queueVars, rowVars, marks, cur, number, ok, acknowledged, faults>>

Unreachable(w) ==
  /\ At(w, "post")
  /\ Goto(w, "log")
  /\ UNCHANGED <<queueVars, rowVars, marks, cur, number, ok, merchantVars, faults>>

\* A 2xx answer is a success; it may also get lost.  Any other status, and any
\* error of the connection, is a failure.
Answer(w) ==
  /\ At(w, "answer")
  /\ Goto(w, "log")
  /\ \/ /\ acknowledged' = acknowledged \cup {cur[w]}
        /\ \E heard \in BOOLEAN : ok' = [ok EXCEPT ![w] = heard]
     \/ UNCHANGED <<ok, acknowledged>>
  /\ UNCHANGED <<queueVars, rowVars, marks, cur, number, received, faults>>

\* logWebhookAttempt: first the row of webhook_attempts ...
LogAttempt(w) ==
  /\ At(w, "log")
  /\ attempts' = [attempts EXCEPT ![cur[w]] = Append(@, Attempt(w))]
  /\ Goto(w, "metadata")
  /\ UNCHANGED <<queueVars, dispatchStatus, lastAttempt, callback, marks, cur, number,
                 ok, merchantVars, faults>>

\* ... then the transaction's metadata, read and written back.  Only deliveries
\* write the metadata of a settled transaction, and each overwrites all of
\* "callback", so that a write in between the two loses nothing else.
UpdateCallback(w) ==
  /\ At(w, "metadata")
  /\ callback' = [callback EXCEPT ![TxOf[cur[w]]] = Attempt(w)]
  /\ Goto(w, "mark")
  /\ UNCHANGED <<queueVars, dispatchStatus, lastAttempt, attempts, marks, cur, number,
                 ok, merchantVars, faults>>

IsFinalAttempt(w) == number[w] >= MaxAttempts

SendMark(w, s) ==
  marks' = marks \cup {[by |-> w, delivery |-> cur[w], status |-> s, number |-> number[w]]}

\* mutants: the last attempt is taken for one too early; a failure is never marked
MarkEarly(w) ==
  /\ At(w, "mark")
  /\ IF ok[w]
       THEN SendMark(w, "delivered") /\ Goto(w, "finish")
       ELSE /\ Goto(w, "throw")
            /\ IF number[w] + 1 >= MaxAttempts THEN SendMark(w, "failed") ELSE UNCHANGED marks
  /\ UNCHANGED <<queueVars, rowVars, cur, number, ok, merchantVars, faults>>
MarkDeliveredOnly(w) ==
  /\ At(w, "mark")
  /\ IF ok[w]
       THEN SendMark(w, "delivered") /\ Goto(w, "finish")
       ELSE Goto(w, "throw") /\ UNCHANGED marks
  /\ UNCHANGED <<queueVars, rowVars, cur, number, ok, merchantVars, faults>>

\* The mark is sent and not awaited; a failed attempt then throws.
Mark(w) ==
  /\ At(w, "mark")
  /\ IF ok[w]
       THEN SendMark(w, "delivered") /\ Goto(w, "finish")
       ELSE /\ Goto(w, "throw")
            /\ IF IsFinalAttempt(w) THEN SendMark(w, "failed") ELSE UNCHANGED marks
  /\ UNCHANGED <<queueVars, rowVars, cur, number, ok, merchantVars, faults>>

Retire(w) ==
  /\ Goto(w, "idle")
  /\ cur' = [cur EXCEPT ![w] = NoDelivery]
  /\ number' = [number EXCEPT ![w] = 0]
  /\ ok' = [ok EXCEPT ![w] = FALSE]

Finish(w) ==
  /\ At(w, "finish")
  /\ Queue!CompleteJob(w, cur[w])
  /\ Retire(w)
  /\ UNCHANGED <<rowVars, marks, merchantVars, faults>>

Throw(w) ==
  /\ At(w, "throw")
  /\ Queue!FailJob(w, cur[w])
  /\ Retire(w)
  /\ UNCHANGED <<rowVars, marks, merchantVars, faults>>

\* What the worker does by itself; that the merchant answers is not up to it.
WorkerStep(w) ==
  \/ \E d \in Deliveries : StartDelivery(w, d)
  \/ Post(w) \/ Unreachable(w) \/ LogAttempt(w) \/ UpdateCallback(w) \/ Mark(w)
  \/ Finish(w) \/ Throw(w)

-----------------------------------------------------------------------------
(***************************************************************************)
(* PostgreSQL, the queue and the environment                               *)
(***************************************************************************)

\* mutant: the UPDATE has no guard
ApplyMarkUnguarded(m) ==
  /\ m \in marks
  /\ marks' = marks \ {m}
  /\ dispatchStatus' = [dispatchStatus EXCEPT ![m.delivery] = m.status]
  /\ lastAttempt' = [lastAttempt EXCEPT ![m.delivery] = m.number]
  /\ UNCHANGED <<queueVars, attempts, callback, runVars, merchantVars, faults>>

\* markWebhookDispatchDelivered and markWebhookDispatchFailed
ApplyMark(m) ==
  /\ m \in marks
  /\ marks' = marks \ {m}
  /\ IF lastAttempt[m.delivery] < m.number /\ dispatchStatus[m.delivery] # "delivered"
       THEN /\ dispatchStatus' = [dispatchStatus EXCEPT ![m.delivery] = m.status]
            /\ lastAttempt' = [lastAttempt EXCEPT ![m.delivery] = m.number]
       ELSE UNCHANGED <<dispatchStatus, lastAttempt>>
  /\ UNCHANGED <<queueVars, attempts, callback, runVars, merchantVars, faults>>

StalledJob(d) ==
  /\ Queue!RecoverStalled(d)
  /\ UNCHANGED <<rowVars, marks, runVars, merchantVars, faults>>

Fault(kind) ==
  /\ kind \in Faults
  /\ faults < MaxFaults
  /\ faults' = faults + 1

\* A query (or the publication to the dashboard) fails: the processor throws.
QueryFails(w) ==
  /\ Fault("query")
  /\ pc[w] \in {"post", "log", "metadata", "mark"}
  /\ Goto(w, "throw")
  /\ UNCHANGED <<queueVars, rowVars, marks, cur, number, ok, merchantVars>>

\* The process dies, also because a mark nobody awaits failed: marks of its own
\* may have been sent or not.
Crash(w) ==
  /\ Fault("crash")
  /\ ~At(w, "idle") \/ \E m \in marks : m.by = w
  /\ Retire(w)
  /\ \E lost \in SUBSET {m \in marks : m.by = w} : marks' = marks \ lost
  /\ Queue!ExpireLocks(w)
  /\ UNCHANGED <<rowVars, merchantVars>>

\* The worker does not renew its lock in time, and runs on.
LoseLock(w) ==
  /\ Fault("lock")
  /\ ~At(w, "idle")
  /\ owner[cur[w]] = w
  /\ Queue!ExpireLocks(w)
  /\ UNCHANGED <<rowVars, marks, runVars, merchantVars>>

Next ==
  \/ \E d \in Deliveries : AddWebhookJob(d) \/ StalledJob(d)
  \/ \E w \in Workers :
       WorkerStep(w) \/ Answer(w) \/ QueryFails(w) \/ Crash(w) \/ LoseLock(w)
  \/ \E m \in marks : ApplyMark(m)

Spec == Init /\ [][Next]_vars

\* Workers run what they can, BullMQ looks for stalled jobs, PostgreSQL answers.
\* Nothing obliges a merchant to answer: FairSpec does not, MerchantSpec does.
Fairness ==
  /\ \A w \in Workers : WF_vars(WorkerStep(w))
  /\ \A d \in Deliveries : WF_vars(StalledJob(d))
  /\ WF_vars(\E m \in marks : ApplyMark(m))

FairSpec == Spec /\ Fairness
MerchantSpec == FairSpec /\ \A w \in Workers : WF_vars(Answer(w))

-----------------------------------------------------------------------------
(***************************************************************************)
(* Properties                                                              *)
(***************************************************************************)

\* What the variables hold.
TypeOK ==
  /\ Queue!QueueTypeOK
  /\ dispatchStatus \in [Deliveries -> {"pending", "delivered", "failed"}]
  /\ lastAttempt \in [Deliveries -> 0..MaxAttempts]
  /\ attempts \in [Deliveries -> Seq(Attempts)]
  /\ callback \in [Txs -> Attempts \cup {NoCallback}]
  /\ marks \subseteq Marks
  /\ pc \in [Workers -> Steps]
  /\ cur \in [Workers -> Deliveries \cup {NoDelivery}]
  /\ number \in [Workers -> 0..MaxAttempts]
  /\ ok \in [Workers -> BOOLEAN]
  /\ received \in [Deliveries -> Nat]
  /\ acknowledged \subseteq Deliveries
  /\ faults \in 0..MaxFaults

Logged(d, n, success) ==
  \E i \in DOMAIN attempts[d] : attempts[d][i] = [number |-> n, ok |-> success]

\* A dispatch is delivered only if the merchant said so, and failed only after
\* the last attempt failed; in both cases the attempt that decided it is in
\* webhook_attempts, whatever crashed, overlapped or arrived late.
OutcomeLogged ==
  \A d \in Deliveries :
    /\ dispatchStatus[d] = "delivered" =>
         d \in acknowledged /\ Logged(d, lastAttempt[d], TRUE)
    /\ dispatchStatus[d] = "failed" =>
         lastAttempt[d] = MaxAttempts /\ Logged(d, MaxAttempts, FALSE)

\* However often a worker stalls or two of them overlap on one job, the merchant
\* is bothered a bounded number of times.
PostsBounded ==
  \A d \in Deliveries :
    /\ received[d] <= MaxAttempts + MaxStalled
    /\ Len(attempts[d]) <= MaxAttempts + MaxStalled

\* Neither verdict on a dispatch is ever taken back by a late mark.
VerdictFinal ==
  [][\A d \in Deliveries :
       dispatchStatus[d] # "pending" => dispatchStatus'[d] = dispatchStatus[d]]_dispatchStatus

\* While nothing fails, the attempts of a dispatch are logged as 1, 2, 3, ...
\* and none follows a success.
AttemptsInOrder ==
  faults = 0 => \A d \in Deliveries : \A i \in DOMAIN attempts[d] :
    /\ attempts[d][i].number = i
    /\ attempts[d][i].ok => i = Len(attempts[d])

\* If merchants answer and nothing fails, a queued webhook gets its verdict.
DeliverySettles ==
  \A d \in Deliveries :
    job[d] = "waiting" ~> dispatchStatus[d] \in {"delivered", "failed"} \/ faults > 0

\* ... and the verdict agrees with the queue's: completed jobs were delivered.
VerdictMatchesJob ==
  \A d \in Deliveries :
    /\ job[d] = "completed" ~> dispatchStatus[d] = "delivered" \/ faults > 0
    /\ job[d] = "failed" ~> dispatchStatus[d] = "failed" \/ faults > 0
=============================================================================
