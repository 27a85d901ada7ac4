--------------------------- MODULE IngestionProofs ---------------------------
(***************************************************************************)
(* Within the life of a fingerprint's lock at most one request is accepted,*)
(* and what is accepted is recorded and queued, for any number of requests,*)
(* fingerprints, expiries and faults.                                      *)
(***************************************************************************)
EXTENDS Ingestion, TLAPS

\* Every step leaves the variables well typed.
LEMMA TypeStep ==
  ASSUME TypeOK, [Next]_vars
  PROVE  TypeOK'
<1> USE IngestionAssumption DEF TypeOK, At, Goto, Running, Answers, Fault, LockOf
<1>1. ASSUME NEW r \in Requests, TryLock(r)
      PROVE  TypeOK'
  BY <1>1 DEF TryLock
<1>2. ASSUME NEW r \in Requests, Connect(r) \/ Insert(r) \/ Publish(r)
      PROVE  TypeOK'
  BY <1>2 DEF Connect, Insert, Publish
<1>3. ASSUME NEW r \in Requests, Enqueue(r) \/ ReleaseLock(r)
      PROVE  TypeOK'
  BY <1>3 DEF Enqueue, ReleaseLock
<1>4. ASSUME NEW r \in Requests, RequestFault(r)
      PROVE  TypeOK'
  BY <1>4 DEF RequestFault, TryLockFails, InsertFails, PublishFails, EnqueueFails, ReleaseFails
<1>5. ASSUME NEW f \in Fingerprints, Expire(f)
      PROVE  TypeOK'
  BY <1>5 DEF Expire
<1>6. CASE Crash
  BY <1>6 DEF Crash
<1>7. CASE UNCHANGED vars
  BY <1>7 DEF vars
<1> QED BY <1>1, <1>2, <1>3, <1>4, <1>5, <1>6, <1>7 DEF Next, RequestStep

\* Only TryLock admits a request, and it finds the lock free: nobody admitted
\* in this window can still be there.
LEMMA AdmissionStep ==
  ASSUME TypeOK, WindowLocked, OneAdmitted, [Next]_vars
  PROVE  WindowLocked' /\ OneAdmitted'
<1> USE IngestionAssumption
    DEF TypeOK, WindowLocked, OneAdmitted, Admitted, At, Goto, LockOf, Running, Answers
<1>1. ASSUME NEW r \in Requests, TryLock(r)
      PROVE  WindowLocked' /\ OneAdmitted'
  <2>1. CASE LockOf(r) = NoRequest
    <3>1. \A s \in Requests :
            pc[s] \in Running \cup {"accepted"} /\ FingerprintOf[s] = FingerprintOf[r]
              => admitted[s] < window[FingerprintOf[r]]
      BY <2>1
    <3>2. /\ lock' = [lock EXCEPT ![FingerprintOf[r]] = r]
          /\ admitted' = [admitted EXCEPT ![r] = window[FingerprintOf[r]]]
          /\ pc' = [pc EXCEPT ![r] = "connect"]
          /\ UNCHANGED window
      BY <1>1, <2>1 DEF TryLock
    <3>3. WindowLocked'
      BY <3>1, <3>2
    <3>4. OneAdmitted'
      BY <3>1, <3>2
    <3> QED BY <3>3, <3>4
  <2>2. CASE LockOf(r) # NoRequest
    BY <1>1, <2>2 DEF TryLock
  <2> QED BY <2>1, <2>2
<1>2. ASSUME NEW r \in Requests, Connect(r) \/ Insert(r) \/ Publish(r) \/ Enqueue(r)
      PROVE  WindowLocked' /\ OneAdmitted'
  BY <1>2 DEF Connect, Insert, Publish, Enqueue
<1>3. ASSUME NEW r \in Requests, ReleaseLock(r)
      PROVE  WindowLocked' /\ OneAdmitted'
  BY <1>3 DEF ReleaseLock
<1>4. ASSUME NEW r \in Requests, RequestFault(r)
      PROVE  WindowLocked' /\ OneAdmitted'
  BY <1>4 DEF RequestFault, TryLockFails, InsertFails, PublishFails, EnqueueFails, ReleaseFails
<1>5. ASSUME NEW f \in Fingerprints, Expire(f)
      PROVE  WindowLocked' /\ OneAdmitted'
  BY <1>5 DEF Expire
<1>6. CASE Crash
  BY <1>6 DEF Crash
<1>7. CASE UNCHANGED vars
  BY <1>7 DEF vars
<1> QED BY <1>1, <1>2, <1>3, <1>4, <1>5, <1>6, <1>7 DEF Next, RequestStep

\* The row is committed before the job is added, the job before the answer.
LEMMA QueuedStep ==
  ASSUME TypeOK, RowFirst, AcceptedIsQueued, [Next]_vars
  PROVE  RowFirst' /\ AcceptedIsQueued'
<1> USE DEF TypeOK, RowFirst, AcceptedIsQueued, At, Goto
<1>1. ASSUME NEW r \in Requests, RequestStep(r)
      PROVE  RowFirst' /\ AcceptedIsQueued'
  BY <1>1 DEF RequestStep, TryLock, Connect, Insert, Publish, Enqueue, ReleaseLock
<1>2. ASSUME NEW r \in Requests, RequestFault(r)
      PROVE  RowFirst' /\ AcceptedIsQueued'
  BY <1>2 DEF RequestFault, TryLockFails, InsertFails, PublishFails, EnqueueFails, ReleaseFails
<1>3. ASSUME NEW f \in Fingerprints, Expire(f)
      PROVE  RowFirst' /\ AcceptedIsQueued'
  BY <1>3 DEF Expire
<1>4. CASE Crash
  BY <1>4 DEF Crash
<1>5. CASE UNCHANGED vars
  BY <1>5 DEF vars
<1> QED BY <1>1, <1>2, <1>3, <1>4, <1>5 DEF Next

\* A request takes a lock under its own fingerprint, in its first step, and comes
\* to a plain error only by way of ReleaseLock.
LEMMA UnlockStep ==
  ASSUME TypeOK, LocksAccounted, [Next]_vars
  PROVE  LocksAccounted'
<1> USE IngestionAssumption DEF TypeOK, LocksAccounted, At, Goto, LockOf, Running
<1>1. ASSUME NEW r \in Requests, TryLock(r) \/ ReleaseLock(r)
      PROVE  LocksAccounted'
  BY <1>1 DEF TryLock, ReleaseLock
<1>2. ASSUME NEW r \in Requests, Connect(r) \/ Insert(r) \/ Publish(r) \/ Enqueue(r)
      PROVE  LocksAccounted'
  BY <1>2 DEF Connect, Insert, Publish, Enqueue
<1>3. ASSUME NEW r \in Requests, RequestFault(r)
      PROVE  LocksAccounted'
  BY <1>3 DEF RequestFault, TryLockFails, InsertFails, PublishFails, EnqueueFails, ReleaseFails
<1>4. ASSUME NEW f \in Fingerprints, Expire(f)
      PROVE  LocksAccounted'
  BY <1>4 DEF Expire
<1>5. CASE Crash
  BY <1>5 DEF Crash
<1>6. CASE UNCHANGED vars
  BY <1>6 DEF vars
<1> QED BY <1>1, <1>2, <1>3, <1>4, <1>5, <1>6 DEF Next, RequestStep

\* The inductive invariant: types, the lock of whoever was admitted in this
\* window, the order of row, job and answer, and of release and error.
THEOREM IngestionInvariance == Spec => []IInv
<1>1. Init => IInv
  BY IngestionAssumption
  DEF Init, IInv, TypeOK, WindowLocked, OneAdmitted, Admitted, RowFirst,
      AcceptedIsQueued, LocksAccounted, LockOf, At, Running, Answers
<1>2. IInv /\ [Next]_vars => IInv'
  BY TypeStep, AdmissionStep, QueuedStep, UnlockStep DEF IInv
<1> QED BY <1>1, <1>2, PTL DEF Spec

\* Of identical requests admitted within the life of one lock, one is accepted.
THEOREM OneAccepted == Spec => []OneAcceptedPerWindow
<1>1. IInv => OneAcceptedPerWindow
  BY DEF IInv, OneAdmitted, OneAcceptedPerWindow, At
<1> QED BY <1>1, IngestionInvariance, PTL

\* What was acknowledged is recorded and queued.
THEOREM AcceptedQueued == Spec => []AcceptedIsQueued
<1>1. IInv => AcceptedIsQueued
  BY DEF IInv
<1> QED BY <1>1, IngestionInvariance, PTL

\* A lock is held for a request under way or accepted, or was left by a failed
\* call for it or a crash: no other error keeps a retry out.
THEOREM LocksExplained == Spec => []LocksAccounted
<1>1. IInv => LocksAccounted
  BY DEF IInv
<1> QED BY <1>1, IngestionInvariance, PTL
=============================================================================
