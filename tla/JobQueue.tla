------------------------------ MODULE JobQueue -------------------------------
(***************************************************************************)
(* A BullMQ queue as packages/queue configures "payment-tasks" and         *)
(* "webhook-tasks" and the workers use them: one job per transaction (the  *)
(* jobId is the checkout_id) or per dispatch, a number of attempts, and    *)
(* BullMQ's own stalled-job recovery, which puts a job whose worker no     *)
(* longer holds its lock back once (maxStalledCount, left at its default)  *)
(* and fails it the next time.  A failed attempt waits out its backoff; the*)
(* delay is not modelled, so "waiting" covers BullMQ's waiting and delayed.*)
(***************************************************************************)
EXTENDS Integers, Parties

CONSTANTS MaxAttempts,  \* attempts: 3 for a payment, 5 for a webhook
          MaxStalled    \* BullMQ's maxStalledCount, 1 by default

ASSUME QueueAssumption ==
  /\ MaxAttempts \in Nat \ {0}
  /\ MaxStalled \in Nat

VARIABLES job,           \* the state of each job
          owner,         \* the worker whose token locks an active job
          attemptsMade,
          stalls         \* how often the job was found stalled

queueVars == <<job, owner, attemptsMade, stalls>>

JobStates == {"none", "waiting", "active", "completed", "failed"}

QueueInit ==
  /\ job = [t \in Txs |-> "none"]
  /\ owner = [t \in Txs |-> NoWorker]
  /\ attemptsMade = [t \in Txs |-> 0]
  /\ stalls = [t \in Txs |-> 0]

AddJob(t) ==
  /\ job[t] = "none"
  /\ job' = [job EXCEPT ![t] = "waiting"]
  /\ UNCHANGED <<owner, attemptsMade, stalls>>

TakeJob(w, t) ==
  /\ job[t] = "waiting"
  /\ job' = [job EXCEPT ![t] = "active"]
  /\ owner' = [owner EXCEPT ![t] = w]
  /\ UNCHANGED <<attemptsMade, stalls>>

\* The processor returned.  A worker that lost the job's lock is refused.
CompleteJob(w, t) ==
  /\ IF owner[t] = w
       THEN /\ job' = [job EXCEPT ![t] = "completed"]
            /\ owner' = [owner EXCEPT ![t] = NoWorker]
       ELSE UNCHANGED <<job, owner>>
  /\ UNCHANGED <<attemptsMade, stalls>>

\* mutant: the job is added without attempts, so the first failure is the last
FailJobForGood(w, t) ==
  /\ IF owner[t] = w
       THEN /\ attemptsMade' = [attemptsMade EXCEPT ![t] = @ + 1]
            /\ job' = [job EXCEPT ![t] = "failed"]
            /\ owner' = [owner EXCEPT ![t] = NoWorker]
       ELSE UNCHANGED <<job, owner, attemptsMade>>
  /\ UNCHANGED stalls

\* The processor threw: another attempt, or the last one was used up.
FailJob(w, t) ==
  /\ IF owner[t] = w
       THEN /\ attemptsMade' = [attemptsMade EXCEPT ![t] = @ + 1]
            /\ job' = [job EXCEPT ![t] =
                         IF attemptsMade[t] + 1 < MaxAttempts THEN "waiting" ELSE "failed"]
            /\ owner' = [owner EXCEPT ![t] = NoWorker]
       ELSE UNCHANGED <<job, owner, attemptsMade>>
  /\ UNCHANGED stalls

\* A lock expires when its worker died or was unable to renew it in time.
ExpireLocks(w) ==
  /\ owner' = [t \in Txs |-> IF owner[t] = w THEN NoWorker ELSE owner[t]]
  /\ UNCHANGED <<job, attemptsMade, stalls>>

\* mutant: off by one
RecoverStalledTooOften(t) ==
  /\ job[t] = "active"
  /\ owner[t] = NoWorker
  /\ stalls' = [stalls EXCEPT ![t] = @ + 1]
  /\ job' = [job EXCEPT ![t] = IF stalls[t] > MaxStalled THEN "failed" ELSE "waiting"]
  /\ UNCHANGED <<owner, attemptsMade>>

RecoverStalled(t) ==
  /\ job[t] = "active"
  /\ owner[t] = NoWorker
  /\ stalls' = [stalls EXCEPT ![t] = @ + 1]
  /\ job' = [job EXCEPT ![t] = IF stalls[t] + 1 > MaxStalled THEN "failed" ELSE "waiting"]
  /\ UNCHANGED <<owner, attemptsMade>>

QueueTypeOK ==
  /\ job \in [Txs -> JobStates]
  /\ owner \in [Txs -> Workers \cup {NoWorker}]
  /\ attemptsMade \in [Txs -> 0..MaxAttempts]
  /\ stalls \in [Txs -> 0..(MaxStalled + 1)]
=============================================================================
