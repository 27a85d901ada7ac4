------------------------------ MODULE Ingestion ------------------------------
(***************************************************************************)
(* POST /stkpush in apps/api (processRequest): the lock on the request's   *)
(* fingerprint in Redis, the transaction's row in PostgreSQL, the job in   *)
(* the payment queue, and the connections of the API's database pool.      *)
(*                                                                         *)
(* A request is named r, and so is the token of the lock it sets and the   *)
(* row it inserts.  What a request does between two awaits is one action.  *)
(* A lock is gone after 60 seconds, whatever its request is doing by then. *)
(***************************************************************************)
EXTENDS Integers

CONSTANTS Requests,      \* HTTP requests
          Fingerprints,
          FingerprintOf, \* the SHA-256 of phone, short code, amount and reference
          NoRequest,     \* nobody's lock
          PoolSize,      \* connections of pg's pool, 10 by default
          MaxExpiries,   \* how often a lock may expire in a behaviour
          Faults,        \* the kinds of fault the environment may inject
          MaxFaults      \* and how many in one behaviour

FaultKinds == {"lock", "insert", "publish", "enqueue", "release", "crash"}

ASSUME IngestionAssumption ==
  /\ FingerprintOf \in [Requests -> Fingerprints]
  /\ NoRequest \notin Requests
  /\ PoolSize \in Nat \ {0}
  /\ MaxExpiries \in Nat
  /\ Faults \subseteq FaultKinds
  /\ MaxFaults \in Nat

VARIABLES
  pc,       \* where each request is, or how it was answered
  lock,     \* the token under each fingerprint's key
  leaked,   \* connections checked out by insertNewTransaction: never released
  rows,     \* the requests with a committed, PENDING transaction
  jobs,     \* those with a job in the payment queue
  window,   \* history: how often each fingerprint's lock has expired
  admitted, \* history: the window in which each request got its lock
  expiries, faults

vars == <<pc, lock, leaked, rows, jobs, window, admitted, expiries, faults>>

Running == {"connect", "insert", "publish", "enqueue", "releaseLock"}
\* An error after which the lock may be left is told apart: one of the request's
\* own calls for its lock failed.
Answers == {"accepted", "duplicate", "error", "redisError"}

At(r, step) == pc[r] = step
Goto(r, step) == pc' = [pc EXCEPT ![r] = step]
LockOf(r) == lock[FingerprintOf[r]]

Init ==
  /\ pc = [r \in Requests |-> "new"]
  /\ lock = [f \in Fingerprints |-> NoRequest]
  /\ leaked = 0
  /\ rows = {}
  /\ jobs = {}
  /\ window = [f \in Fingerprints |-> 0]
  /\ admitted = [r \in Requests |-> 0]
  /\ expiries = 0
  /\ faults = 0

-----------------------------------------------------------------------------
(***************************************************************************)
(* processRequest                                                          *)
(***************************************************************************)

\* mutant: SET without NX
TryLockAlways(r) ==
  /\ At(r, "new")
  /\ lock' = [lock EXCEPT ![FingerprintOf[r]] = r]
  /\ admitted' = [admitted EXCEPT ![r] = window[FingerprintOf[r]]]
  /\ Goto(r, "connect")
  /\ UNCHANGED <<leaked, rows, jobs, window, expiries, faults>>

\* tryLockTransaction: SET NX EX 60.
TryLock(r) ==
  /\ At(r, "new")
  /\ IF LockOf(r) = NoRequest
       THEN /\ lock' = [lock EXCEPT ![FingerprintOf[r]] = r]
            /\ admitted' = [admitted EXCEPT ![r] = window[FingerprintOf[r]]]
            /\ Goto(r, "connect")
       ELSE Goto(r, "duplicate") /\ UNCHANGED <<lock, admitted>>
  /\ UNCHANGED <<leaked, rows, jobs, window, expiries, faults>>

\* insertNewTransaction: a connection of its own, which it never gives back ...
Connect(r) ==
  /\ At(r, "connect")
  /\ leaked < PoolSize
  /\ leaked' = leaked + 1
  /\ Goto(r, "insert")
  /\ UNCHANGED <<lock, rows, jobs, window, admitted, expiries, faults>>

\* ... the row and its outbox event, committed together ...
Insert(r) ==
  /\ At(r, "insert")
  /\ rows' = rows \cup {r}
  /\ Goto(r, "publish")
  /\ UNCHANGED <<lock, leaked, jobs, window, admitted, expiries, faults>>

\* mutant: reading the row back leaks a connection, too
PublishLeaking(r) ==
  /\ At(r, "publish")
  /\ leaked < PoolSize
  /\ leaked' = leaked + 1
  /\ Goto(r, "enqueue")
  /\ UNCHANGED <<lock, rows, jobs, window, admitted, expiries, faults>>

\* ... and the row read back for the dashboard, through the pool.
Publish(r) ==
  /\ At(r, "publish")
  /\ leaked < PoolSize
  /\ Goto(r, "enqueue")
  /\ UNCHANGED <<lock, leaked, rows, jobs, window, admitted, expiries, faults>>

\* mutant: the answer does not wait for the job
EnqueueUnawaited(r) ==
  /\ At(r, "enqueue")
  /\ \/ jobs' = jobs \cup {r}
     \/ UNCHANGED jobs
  /\ Goto(r, "accepted")
  /\ UNCHANGED <<lock, leaked, rows, window, admitted, expiries, faults>>

\* queuePaymentTask; the request is answered 200 and keeps its lock.
Enqueue(r) ==
  /\ At(r, "enqueue")
  /\ jobs' = jobs \cup {r}
  /\ Goto(r, "accepted")
  /\ UNCHANGED <<lock, leaked, rows, window, admitted, expiries, faults>>

\* mutants: DEL without looking at the token; the lock is forgotten
ReleaseLockOfAnyone(r) ==
  /\ At(r, "releaseLock")
  /\ lock' = [lock EXCEPT ![FingerprintOf[r]] = NoRequest]
  /\ Goto(r, "error")
  /\ UNCHANGED <<leaked, rows, jobs, window, admitted, expiries, faults>>
ReleaseLockNever(r) ==
  /\ At(r, "releaseLock")
  /\ Goto(r, "error")
  /\ UNCHANGED <<lock, leaked, rows, jobs, window, admitted, expiries, faults>>

\* releaseLock deletes the key only if it still holds the request's token.
ReleaseLock(r) ==
  /\ At(r, "releaseLock")
  /\ lock' = [lock EXCEPT ![FingerprintOf[r]] = IF @ = r THEN NoRequest ELSE @]
  /\ Goto(r, "error")
  /\ UNCHANGED <<leaked, rows, jobs, window, admitted, expiries, faults>>

RequestStep(r) ==
  TryLock(r) \/ Connect(r) \/ Insert(r) \/ Publish(r) \/ Enqueue(r) \/ ReleaseLock(r)

-----------------------------------------------------------------------------
(***************************************************************************)
(* Time and faults                                                         *)
(***************************************************************************)

Expire(f) ==
  /\ expiries < MaxExpiries
  /\ lock[f] # NoRequest
  /\ lock' = [lock EXCEPT ![f] = NoRequest]
  /\ window' = [window EXCEPT ![f] = @ + 1]
  /\ expiries' = expiries + 1
  /\ UNCHANGED <<pc, leaked, rows, jobs, admitted, faults>>

Fault(kind) ==
  /\ kind \in Faults
  /\ faults < MaxFaults
  /\ faults' = faults + 1

\* SET NX is rejected or only its reply is lost.  Nothing catches that: the
\* request is answered with an error, and a lock it did get is not released.
TryLockFails(r) ==
  /\ Fault("lock")
  /\ At(r, "new")
  /\ \/ UNCHANGED lock
     \/ /\ LockOf(r) = NoRequest
        /\ lock' = [lock EXCEPT ![FingerprintOf[r]] = r]
  /\ Goto(r, "redisError")
  /\ UNCHANGED <<leaked, rows, jobs, window, admitted, expiries>>

\* PostgreSQL gives no connection; the INSERT is refused (no such merchant or
\* user) or fails; or the acknowledgement of the COMMIT is lost, and the row there.
InsertFails(r) ==
  /\ Fault("insert")
  /\ \/ /\ At(r, "connect") /\ leaked < PoolSize
        /\ UNCHANGED rows
     \/ /\ At(r, "insert")
        /\ rows' \in {rows, rows \cup {r}}
  /\ Goto(r, "releaseLock")
  /\ UNCHANGED <<lock, leaked, jobs, window, admitted, expiries>>

\* The row is committed, the read or the publication after it fails.
PublishFails(r) ==
  /\ Fault("publish")
  /\ At(r, "publish")
  /\ leaked < PoolSize
  /\ Goto(r, "releaseLock")
  /\ UNCHANGED <<lock, leaked, rows, jobs, window, admitted, expiries>>

\* The job is not added, or it is and the API does not learn of it.
EnqueueFails(r) ==
  /\ Fault("enqueue")
  /\ At(r, "enqueue")
  /\ jobs' \in {jobs, jobs \cup {r}}
  /\ Goto(r, "releaseLock")
  /\ UNCHANGED <<lock, leaked, rows, window, admitted, expiries>>

\* The script that releases the lock fails, or its reply is lost.
ReleaseFails(r) ==
  /\ Fault("release")
  /\ At(r, "releaseLock")
  /\ \/ UNCHANGED lock
     \/ lock' = [lock EXCEPT ![FingerprintOf[r]] = IF @ = r THEN NoRequest ELSE @]
  /\ Goto(r, "redisError")
  /\ UNCHANGED <<leaked, rows, jobs, window, admitted, expiries>>

\* The process dies, also of a ROLLBACK whose rejection nobody handles, with the
\* requests it was serving, and starts with a new pool.
Crash ==
  /\ Fault("crash")
  /\ pc' = [r \in Requests |-> IF pc[r] \in Running THEN "dropped" ELSE pc[r]]
  /\ leaked' = 0
  /\ UNCHANGED <<lock, rows, jobs, window, admitted, expiries>>

RequestFault(r) ==
  \/ TryLockFails(r) \/ InsertFails(r)
  \/ PublishFails(r) \/ EnqueueFails(r) \/ ReleaseFails(r)

Next ==
  \/ \E r \in Requests : RequestStep(r) \/ RequestFault(r)
  \/ \E f \in Fingerprints : Expire(f)
  \/ Crash

Spec == Init /\ [][Next]_vars

\* The event loop runs every request that can run.
FairSpec == Spec /\ \A r \in Requests : WF_vars(RequestStep(r))

-----------------------------------------------------------------------------
(***************************************************************************)
(* Properties                                                              *)
(***************************************************************************)

\* What the variables hold.
TypeOK ==
  /\ pc \in [Requests -> {"new", "dropped"} \cup Running \cup Answers]
  /\ lock \in [Fingerprints -> Requests \cup {NoRequest}]
  /\ leaked \in 0..PoolSize
  /\ rows \subseteq Requests
  /\ jobs \subseteq Requests
  /\ window \in [Fingerprints -> Nat]
  /\ admitted \in [Requests -> Nat]
  /\ expiries \in 0..MaxExpiries
  /\ faults \in 0..MaxFaults

\* "Exactly-once ingestion of identical requests" within the life of a lock: of
\* the requests with one fingerprint that got the lock before it next expired,
\* at most one is answered 200, also when an earlier, slow one fails meanwhile.
OneAcceptedPerWindow ==
  \A r, s \in Requests :
    /\ At(r, "accepted") /\ At(s, "accepted")
    /\ FingerprintOf[r] = FingerprintOf[s]
    /\ admitted[r] = admitted[s]
    => r = s

\* A payment that was acknowledged is recorded and queued, and one that is
\* queued is recorded: the worker never meets a job without its row.
AcceptedIsQueued ==
  /\ \A r \in Requests : At(r, "accepted") => r \in jobs
  /\ jobs \subseteq rows

\* Every lock is accounted for: it is held for a request that is under way or was
\* accepted, or was left by one whose own call for the lock failed or whose
\* process died.  So an attempt is refused as a duplicate of nothing only after
\* such a failure, and an error in PostgreSQL or in the queue, at whatever point
\* of the request, can be followed by a retry at once.
LocksAccounted ==
  \A f \in Fingerprints :
    lock[f] # NoRequest =>
      /\ FingerprintOf[lock[f]] = f
      /\ pc[lock[f]] \in Running \cup {"accepted", "redisError", "dropped"}

\* The strengthening OneAcceptedPerWindow rests on: a request that got through
\* in the current window still has its lock, as has one that is on its way.
Admitted(r) ==
  /\ pc[r] \in Running \cup {"accepted"}
  /\ admitted[r] = window[FingerprintOf[r]]
WindowLocked ==
  \A r \in Requests :
    /\ admitted[r] <= window[FingerprintOf[r]]
    /\ Admitted(r) => LockOf(r) = r
OneAdmitted ==
  \A r, s \in Requests :
    /\ {pc[r], pc[s]} \subseteq Running \cup {"accepted"}
    /\ FingerprintOf[r] = FingerprintOf[s]
    /\ admitted[r] = admitted[s]
    => r = s

\* A request on its way to the queue has its row committed.
RowFirst == \A r \in Requests : pc[r] \in {"publish", "enqueue"} => r \in rows

IInv ==
  TypeOK /\ WindowLocked /\ OneAdmitted /\ RowFirst /\ AcceptedIsQueued /\ LocksAccounted

\* "Return a ResponseCode: 0 acknowledgment to the caller within 100ms": every
\* request that got its lock is answered in the end, as long as the pool lasts
\* and its process lives.
Answered == \A r \in Requests : At(r, "connect") ~> pc[r] \in Answers \cup {"dropped"}
=============================================================================
