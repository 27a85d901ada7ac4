---------------------------- MODULE WebhookProofs ----------------------------
(***************************************************************************)
(* What a dispatch is finally said to be, how often its merchant is        *)
(* bothered and in which order its attempts are logged, for any number of  *)
(* dispatches and workers, any bounds and any faults.                      *)
(***************************************************************************)
EXTENDS WebhookDelivery, FiniteSetTheorems, TLAPS

\* A job that did not fail has an attempt and a stall left, and only an active one
\* is anybody's.
JobsBounded ==
  \A d \in Deliveries :
    /\ job[d] # "failed" => attemptsMade[d] < MaxAttempts /\ stalls[d] <= MaxStalled
    /\ attemptsMade[d] + stalls[d] <= MaxAttempts + MaxStalled
    /\ owner[d] # NoWorker => job[d] = "active"

\* A worker has a dispatch and an attempt's number, or is blank.
RunOK ==
  \A w \in Workers :
    /\ At(w, "idle") => ~ok[w] /\ cur[w] = NoDelivery
    /\ ~At(w, "idle") => cur[w] \in Deliveries /\ number[w] \in 1..MaxAttempts

\* What a worker and a mark on its way say of a dispatch is logged, and success is
\* what the merchant said.
RunLogged(w) ==
  /\ ok[w] => cur[w] \in acknowledged
  /\ pc[w] \in {"metadata", "mark"} => Logged(cur[w], number[w], ok[w])
MarkLogged(m) ==
  /\ m.status = "delivered" =>
       m.delivery \in acknowledged /\ Logged(m.delivery, m.number, TRUE)
  /\ m.status = "failed" =>
       m.number = MaxAttempts /\ Logged(m.delivery, MaxAttempts, FALSE)
VerdictsLogged ==
  /\ \A w \in Workers : RunLogged(w)
  /\ \A m \in marks : MarkLogged(m)

\* The attempts at d that a job of it has begun: one for each that failed, for
\* each worker it was taken from, and for the one that has it.
Begun(d) ==
  attemptsMade[d] + stalls[d] + (IF job[d] \in {"active", "completed"} THEN 1 ELSE 0)

\* The workers that are still to get something of d done.
Pending(d, steps) == {w \in Workers : cur[w] = d /\ pc[w] \in steps}
Unposted(d) == Pending(d, {"post"})
Unlogged(d) == Pending(d, {"post", "answer", "log"})

\* Every worker that posts, or logs, has an attempt of its own to do it in: the n
\* things done and the workers S about to do one are at most k.
Counted(n, S, k) == IsFiniteSet(S) /\ n + Cardinality(S) <= k
CountOK(d) ==
  /\ Counted(received[d], Unposted(d), Begun(d))
  /\ Counted(Len(attempts[d]), Unlogged(d), Begun(d))
PostsCounted == \A d \in Deliveries : CountOK(d)

\* While nothing fails a job is its worker's until it is over, and the log is as
\* long as the number of the attempt says.
AllFailed(d) == \A i \in DOMAIN attempts[d] : ~attempts[d][i].ok
JobAttended(d) ==
  /\ job[d] = "active" => owner[d] # NoWorker
  /\ job[d] \in {"none", "waiting"} => Len(attempts[d]) = attemptsMade[d] /\ AllFailed(d)
RunAttended(w) ==
  ~At(w, "idle") =>
    /\ owner[cur[w]] = w
    /\ number[w] = attemptsMade[cur[w]] + 1
    /\ pc[w] \in {"post", "answer", "log"} =>
         Len(attempts[cur[w]]) = number[w] - 1 /\ AllFailed(cur[w])
    /\ pc[w] \in {"metadata", "mark", "finish", "throw"} =>
         /\ Len(attempts[cur[w]]) = number[w]
         /\ attempts[cur[w]][number[w]] = Attempt(w)
    /\ At(w, "throw") => ~ok[w]
LogInOrder(d) ==
  \A i \in DOMAIN attempts[d] :
    attempts[d][i].number = i /\ (attempts[d][i].ok => i = Len(attempts[d]))
Attended ==
  faults = 0 =>
    /\ \A d \in Deliveries : JobAttended(d) /\ LogInOrder(d)
    /\ \A w \in Workers : RunAttended(w)

IInv ==
  /\ TypeOK
  /\ JobsBounded
  /\ RunOK
  /\ VerdictsLogged
  /\ OutcomeLogged
  /\ PostsCounted
  /\ Attended

-----------------------------------------------------------------------------
(***************************************************************************)
(* The queue                                                               *)
(***************************************************************************)

\* A step of the queue stays within its bounds; only taking a job begins an attempt.
QueueKept ==
  /\ Queue!QueueTypeOK' /\ JobsBounded'
  /\ \A e \in Deliveries : Begun(e)' = Begun(e)

\* Adding a job, and putting a stalled one back, begin no attempt.
LEMMA JobStep ==
  ASSUME Queue!QueueTypeOK, JobsBounded, NEW d \in Deliveries,
         Queue!AddJob(d) \/ Queue!RecoverStalled(d)
  PROVE  QueueKept
<1> USE DeliveryAssumption
    DEF Queue!QueueTypeOK, Queue!JobStates, JobsBounded, Begun, QueueKept
<1>1. CASE Queue!AddJob(d)
  BY <1>1 DEF Queue!AddJob
<1>2. CASE Queue!RecoverStalled(d)
  BY <1>2 DEF Queue!RecoverStalled
<1> QED BY <1>1, <1>2

\* Nor does ending one, by a return or by a throw.
LEMMA OverStep ==
  ASSUME Queue!QueueTypeOK, JobsBounded, NEW w \in Workers, NEW d \in Deliveries,
         Queue!CompleteJob(w, d) \/ Queue!FailJob(w, d)
  PROVE  QueueKept
<1> USE DeliveryAssumption
    DEF Queue!QueueTypeOK, Queue!JobStates, JobsBounded, Begun, QueueKept
<1>1. CASE Queue!CompleteJob(w, d)
  BY <1>1 DEF Queue!CompleteJob
<1>2. CASE Queue!FailJob(w, d)
  BY <1>2 DEF Queue!FailJob
<1> QED BY <1>1, <1>2

\* Nor does the loss of a lock.
LEMMA ExpireStep ==
  ASSUME Queue!QueueTypeOK, JobsBounded, NEW w \in Workers, Queue!ExpireLocks(w)
  PROVE  QueueKept
BY DeliveryAssumption
DEF Queue!ExpireLocks, Queue!QueueTypeOK, Queue!JobStates, JobsBounded, Begun, QueueKept

\* Taking a job begins one attempt, at that job's dispatch.
LEMMA TakeStep ==
  ASSUME Queue!QueueTypeOK, JobsBounded, NEW w \in Workers, NEW d \in Deliveries,
         Queue!TakeJob(w, d)
  PROVE  /\ Queue!QueueTypeOK' /\ JobsBounded'
         /\ \A e \in Deliveries : Begun(e)' = Begun(e) + (IF e = d THEN 1 ELSE 0)
BY DeliveryAssumption
DEF Queue!TakeJob, Queue!QueueTypeOK, Queue!JobStates, JobsBounded, Begun

\* Most steps leave the queue alone.
LEMMA NoJobStep ==
  ASSUME Queue!QueueTypeOK, JobsBounded, UNCHANGED queueVars
  PROVE  QueueKept
BY DEF queueVars, Queue!QueueTypeOK, JobsBounded, Begun, QueueKept

\* attempts and maxStalledCount bound how often a job is begun.
LEMMA BegunBounded ==
  ASSUME Queue!QueueTypeOK, JobsBounded, NEW d \in Deliveries
  PROVE  Begun(d) \in Nat /\ Begun(d) <= MaxAttempts + MaxStalled
BY DeliveryAssumption DEF Queue!QueueTypeOK, Queue!JobStates, JobsBounded, Begun

-----------------------------------------------------------------------------
(***************************************************************************)
(* Types                                                                   *)
(***************************************************************************)

\* A job that can still be taken has an attempt left: its number is in bounds.
LEMMA AttemptLeft ==
  ASSUME Queue!QueueTypeOK, JobsBounded, NEW d \in Deliveries, job[d] # "failed"
  PROVE  attemptsMade[d] + 1 \in 1..MaxAttempts
BY DeliveryAssumption DEF JobsBounded, Queue!QueueTypeOK

\* Every step leaves the queue well typed and within its bounds.
LEMMA QueueTypeStep ==
  ASSUME TypeOK, JobsBounded, RunOK, [Next]_vars
  PROVE  Queue!QueueTypeOK' /\ JobsBounded'
<1> USE DEF TypeOK, QueueKept
<1>1. ASSUME NEW d \in Deliveries, AddWebhookJob(d) \/ StalledJob(d)
      PROVE  QueueKept
  BY <1>1, JobStep DEF AddWebhookJob, StalledJob
<1>2. ASSUME NEW w \in Workers, NEW d \in Deliveries, StartDelivery(w, d)
      PROVE  Queue!QueueTypeOK' /\ JobsBounded'
  BY <1>2, TakeStep DEF StartDelivery
<1>3. ASSUME NEW w \in Workers, Finish(w) \/ Throw(w)
      PROVE  QueueKept
  <2>1. cur[w] \in Deliveries
    BY <1>3 DEF Finish, Throw, RunOK, At
  <2> QED BY <1>3, <2>1, OverStep DEF Finish, Throw
<1>4. ASSUME NEW w \in Workers, Crash(w) \/ LoseLock(w)
      PROVE  QueueKept
  BY <1>4, ExpireStep DEF Crash, LoseLock
<1>5. ASSUME NEW w \in Workers,
             Post(w) \/ Unreachable(w) \/ LogAttempt(w) \/ UpdateCallback(w) \/ Mark(w)
             \/ Answer(w) \/ QueryFails(w)
      PROVE  QueueKept
  BY <1>5, NoJobStep
  DEF Post, Unreachable, LogAttempt, UpdateCallback, Mark, Answer, QueryFails
<1>6. ASSUME NEW m \in marks, ApplyMark(m)
      PROVE  QueueKept
  BY <1>6, NoJobStep DEF ApplyMark
<1>7. CASE UNCHANGED vars
  BY <1>7, NoJobStep DEF vars
<1> QED BY <1>1, <1>2, <1>3, <1>4, <1>5, <1>6, <1>7 DEF Next, WorkerStep

\* The history of d in the log after another attempt.
LEMMA AppendedAttempts ==
  ASSUME attempts \in [Deliveries -> Seq(Attempts)], NEW d \in Deliveries,
         NEW a \in Attempts, attempts' = [attempts EXCEPT ![d] = Append(@, a)]
  PROVE  /\ attempts' \in [Deliveries -> Seq(Attempts)]
         /\ \A e \in Deliveries \ {d} : attempts'[e] = attempts[e]
         /\ Len(attempts'[d]) = Len(attempts[d]) + 1
         /\ \A i \in DOMAIN attempts[d] :
              i \in DOMAIN attempts'[d] /\ attempts'[d][i] = attempts[d][i]
         /\ attempts'[d][Len(attempts[d]) + 1] = a
         /\ DOMAIN attempts'[d] = DOMAIN attempts[d] \cup {Len(attempts[d]) + 1}
<1>1. attempts[d] \in Seq(Attempts) /\ attempts'[d] = Append(attempts[d], a)
  OBVIOUS
<1>2. attempts' \in [Deliveries -> Seq(Attempts)]
  BY <1>1
<1> QED BY <1>1, <1>2

\* Every step leaves the rows, the log and the workers well typed.
LEMMA RowTypeStep ==
  ASSUME TypeOK, JobsBounded, RunOK, [Next]_vars
  PROVE  TypeOK' /\ RunOK'
<1> USE DeliveryAssumption
    DEF TypeOK, RunOK, At, Goto, Steps, rowVars, merchantVars, Fault
<1>0. Queue!QueueTypeOK'
  BY QueueTypeStep
<1>1. ASSUME NEW d \in Deliveries, AddWebhookJob(d) \/ StalledJob(d)
      PROVE  TypeOK' /\ RunOK'
  BY <1>0, <1>1 DEF AddWebhookJob, StalledJob, runVars
<1>2. ASSUME NEW w \in Workers, NEW d \in Deliveries, StartDelivery(w, d)
      PROVE  TypeOK' /\ RunOK'
  <2>1. attemptsMade[d] + 1 \in 1..MaxAttempts
    BY <1>2, AttemptLeft DEF StartDelivery, Queue!TakeJob
  <2> QED BY <1>0, <1>2, <2>1 DEF StartDelivery
<1>3. ASSUME NEW w \in Workers, Finish(w) \/ Throw(w)
      PROVE  TypeOK' /\ RunOK'
  <2>1. CASE Finish(w)
    BY <1>0, <2>1 DEF Finish, Retire
  <2>2. CASE Throw(w)
    BY <1>0, <2>2 DEF Throw, Retire
  <2> QED BY <1>3, <2>1, <2>2
<1>4. ASSUME NEW w \in Workers, Crash(w)
      PROVE  TypeOK' /\ RunOK'
  BY <1>0, <1>4 DEF Crash, Retire
<1>5. ASSUME NEW w \in Workers, LoseLock(w)
      PROVE  TypeOK' /\ RunOK'
  BY <1>0, <1>5 DEF LoseLock, runVars
<1>6. ASSUME NEW w \in Workers, Post(w) \/ Unreachable(w) \/ Answer(w) \/ QueryFails(w)
      PROVE  TypeOK' /\ RunOK'
  <2>1. CASE Post(w)
    <3>1. received' \in [Deliveries -> Nat]
      BY <2>1 DEF Post
    <3>2. pc' = [pc EXCEPT ![w] = "answer"]
      BY <2>1 DEF Post
    <3>3. UNCHANGED <<rowVars, marks, cur, number, ok, acknowledged, faults>> /\ ~At(w, "idle")
      BY <2>1 DEF Post
    <3> QED BY <1>0, <3>1, <3>2, <3>3
  <2>2. CASE Unreachable(w)
    BY <1>0, <2>2 DEF Unreachable
  <2>3. CASE Answer(w)
    BY <1>0, <2>3 DEF Answer
  <2>4. CASE QueryFails(w)
    BY <1>0, <2>4 DEF QueryFails
  <2> QED BY <1>6, <2>1, <2>2, <2>3, <2>4
<1>7. ASSUME NEW w \in Workers, LogAttempt(w)
      PROVE  TypeOK' /\ RunOK'
  <2>1. cur[w] \in Deliveries /\ Attempt(w) \in Attempts
    BY <1>7 DEF LogAttempt, Attempt, Attempts
  <2>2. attempts' \in [Deliveries -> Seq(Attempts)]
    BY <1>7, <2>1, AppendedAttempts DEF LogAttempt
  <2> QED BY <1>0, <1>7, <2>2 DEF LogAttempt
<1>8. ASSUME NEW w \in Workers, UpdateCallback(w)
      PROVE  TypeOK' /\ RunOK'
  <2>1. Attempt(w) \in Attempts
    BY <1>8 DEF UpdateCallback, Attempt, Attempts
  <2> QED BY <1>0, <1>8, <2>1 DEF UpdateCallback
<1>9. ASSUME NEW w \in Workers, Mark(w)
      PROVE  TypeOK' /\ RunOK'
  <2>1. marks' \subseteq Marks
    BY <1>9 DEF Mark, SendMark, Marks
  <2>2. At(w, "mark") /\ (Goto(w, "finish") \/ Goto(w, "throw"))
    BY <1>9 DEF Mark
  <2>3. pc' \in [Workers -> Steps]
    BY <2>2
  <2>4. UNCHANGED <<queueVars, rowVars, cur, number, ok, merchantVars, faults>>
    BY <1>9 DEF Mark
  <2>5. RunOK'
    BY <2>2, <2>4
  <2>6. TypeOK'
    BY <1>0, <2>1, <2>3, <2>4
  <2> QED BY <2>5, <2>6
<1>10. ASSUME NEW m \in marks, ApplyMark(m)
      PROVE  TypeOK' /\ RunOK'
  <2>1. m \in Marks
    OBVIOUS
  <2>2. m.status \in {"delivered", "failed"} /\ m.number \in 0..MaxAttempts
    BY <2>1 DEF Marks
  <2>3. dispatchStatus' \in [Deliveries -> {"pending", "delivered", "failed"}]
    BY <1>10, <2>2 DEF ApplyMark
  <2>4. lastAttempt' \in [Deliveries -> 0..MaxAttempts]
    BY <1>10, <2>2 DEF ApplyMark
  <2>5. marks' \subseteq Marks
    BY <1>10 DEF ApplyMark
  <2>6. UNCHANGED <<attempts, callback, runVars, merchantVars, faults>>
    BY <1>10 DEF ApplyMark
  <2> QED BY <1>0, <2>3, <2>4, <2>5, <2>6 DEF runVars
<1>11. CASE UNCHANGED vars
  BY <1>0, <1>11 DEF vars, runVars
<1> QED
  BY <1>1, <1>2, <1>3, <1>4, <1>5, <1>6, <1>7, <1>8, <1>9, <1>10, <1>11
  DEF Next, WorkerStep

-----------------------------------------------------------------------------
(***************************************************************************)
(* Verdicts                                                                *)
(***************************************************************************)

\* Nothing is taken from the log, and no answer is forgotten.
LEMMA LoggedKept ==
  ASSUME TypeOK, RunOK, [Next]_vars
  PROVE  /\ acknowledged \subseteq acknowledged'
         /\ \A d \in Deliveries : \A n, s : Logged(d, n, s) => Logged(d, n, s)'
<1> USE DEF Logged
<1>1. ASSUME NEW w \in Workers, LogAttempt(w)
      PROVE  /\ acknowledged \subseteq acknowledged'
             /\ \A d \in Deliveries : \A n, s : Logged(d, n, s) => Logged(d, n, s)'
  <2>1. cur[w] \in Deliveries /\ Attempt(w) \in Attempts
    BY <1>1 DEF LogAttempt, Attempt, Attempts, RunOK, At, TypeOK
  <2>2. attempts \in [Deliveries -> Seq(Attempts)]
    BY DEF TypeOK
  <2>3. attempts' = [attempts EXCEPT ![cur[w]] = Append(@, Attempt(w))]
    BY <1>1 DEF LogAttempt
  <2>4. /\ \A e \in Deliveries \ {cur[w]} : attempts'[e] = attempts[e]
        /\ \A i \in DOMAIN attempts[cur[w]] :
             /\ i \in DOMAIN attempts'[cur[w]]
             /\ attempts'[cur[w]][i] = attempts[cur[w]][i]
    BY <2>1, <2>2, <2>3, AppendedAttempts
  <2>5. acknowledged' = acknowledged
    BY <1>1 DEF LogAttempt, merchantVars
  <2> QED BY <2>4, <2>5
<1>2. ASSUME UNCHANGED attempts, acknowledged \subseteq acknowledged'
      PROVE  /\ acknowledged \subseteq acknowledged'
             /\ \A d \in Deliveries : \A n, s : Logged(d, n, s) => Logged(d, n, s)'
  BY <1>2
<1>3. ASSUME NEW w \in Workers, WorkerStep(w), ~LogAttempt(w)
      PROVE  UNCHANGED attempts /\ acknowledged \subseteq acknowledged'
  BY <1>3
  DEF WorkerStep, StartDelivery, Post, Unreachable, UpdateCallback, Mark, Finish, Throw,
      rowVars, merchantVars
<1>4. ASSUME NEW w \in Workers, Answer(w) \/ QueryFails(w) \/ Crash(w) \/ LoseLock(w)
      PROVE  UNCHANGED attempts /\ acknowledged \subseteq acknowledged'
  BY <1>4 DEF Answer, QueryFails, Crash, LoseLock, rowVars, merchantVars
<1>5. ASSUME NEW d \in Deliveries, AddWebhookJob(d) \/ StalledJob(d)
      PROVE  UNCHANGED attempts /\ acknowledged \subseteq acknowledged'
  BY <1>5 DEF AddWebhookJob, StalledJob, rowVars, merchantVars
<1>6. ASSUME NEW m \in marks, ApplyMark(m)
      PROVE  UNCHANGED attempts /\ acknowledged \subseteq acknowledged'
  BY <1>6 DEF ApplyMark, merchantVars
<1>7. CASE UNCHANGED vars
  BY <1>7 DEF vars, rowVars, merchantVars
<1> QED BY <1>1, <1>2, <1>3, <1>4, <1>5, <1>6, <1>7 DEF Next

\* A mark that was true when it was sent stays true on its way.
LEMMA MarkStaysLogged ==
  ASSUME TypeOK, RunOK, [Next]_vars, NEW m \in Marks, MarkLogged(m)
  PROVE  MarkLogged(m)'
BY LoggedKept DEF MarkLogged, Marks

\* So does what a worker found, while it goes on with the same attempt.
LEMMA RunStaysLogged ==
  ASSUME TypeOK, RunOK, [Next]_vars, NEW w \in Workers, RunLogged(w),
         UNCHANGED <<cur[w], number[w], ok[w]>>,
         pc'[w] \in {"metadata", "mark"} => pc[w] \in {"metadata", "mark"}
  PROVE  RunLogged(w)'
<1>1. pc[w] \in {"metadata", "mark"} => cur[w] \in Deliveries
  BY DEF RunOK, At
<1> QED BY <1>1, LoggedKept DEF RunLogged

\* What a worker is about to say of its dispatch is logged, after every step.
LEMMA RunLoggedStep ==
  ASSUME TypeOK, JobsBounded, RunOK, NEW w \in Workers, RunLogged(w), [Next]_vars
  PROVE  RunLogged(w)'
<1> USE DEF Goto, At
<1>1. ASSUME NEW v \in Workers, NEW d \in Deliveries, StartDelivery(v, d)
      PROVE  RunLogged(w)'
  <2>1. CASE v = w
    BY <1>1, <2>1 DEF StartDelivery, RunLogged, RunOK, TypeOK
  <2>2. CASE v # w
    BY <1>1, <2>2, RunStaysLogged DEF StartDelivery, TypeOK
  <2> QED BY <2>1, <2>2
<1>2. ASSUME NEW v \in Workers, Post(v) \/ Unreachable(v) \/ UpdateCallback(v) \/ Mark(v)
             \/ QueryFails(v) \/ LoseLock(v)
      PROVE  RunLogged(w)'
  <2>1. UNCHANGED <<cur, number, ok>>
    BY <1>2 DEF Post, Unreachable, UpdateCallback, Mark, QueryFails, LoseLock, runVars
  <2>2. pc'[w] \in {"metadata", "mark"} => pc[w] \in {"metadata", "mark"}
    BY <1>2 DEF Post, Unreachable, UpdateCallback, Mark, QueryFails, LoseLock, runVars,
                TypeOK
  <2> QED BY <2>1, <2>2, RunStaysLogged
<1>3. ASSUME NEW v \in Workers, Answer(v)
      PROVE  RunLogged(w)'
  <2>1. CASE v = w
    BY <1>3, <2>1 DEF Answer, RunLogged, TypeOK
  <2>2. CASE v # w
    BY <1>3, <2>2, RunStaysLogged DEF Answer, TypeOK
  <2> QED BY <2>1, <2>2
<1>4. ASSUME NEW v \in Workers, LogAttempt(v)
      PROVE  RunLogged(w)'
  <2>1. UNCHANGED <<cur, number, ok, acknowledged>>
    BY <1>4 DEF LogAttempt, merchantVars
  <2>2. CASE v = w
    <3>1. cur[w] \in Deliveries /\ Attempt(w) \in Attempts
      BY <1>4, <2>2 DEF LogAttempt, Attempt, Attempts, RunOK, TypeOK
    <3>2. attempts \in [Deliveries -> Seq(Attempts)]
      BY DEF TypeOK
    <3>3. attempts' = [attempts EXCEPT ![cur[w]] = Append(@, Attempt(w))]
      BY <1>4, <2>2 DEF LogAttempt
    <3>4. /\ attempts'[cur[w]][Len(attempts[cur[w]]) + 1] = Attempt(w)
          /\ DOMAIN attempts'[cur[w]]
               = DOMAIN attempts[cur[w]] \cup {Len(attempts[cur[w]]) + 1}
      BY <3>1, <3>2, <3>3, AppendedAttempts
    <3>5. \E i \in DOMAIN attempts'[cur[w]] : attempts'[cur[w]][i] = Attempt(w)
      BY <3>4
    <3>6. Logged(cur[w], number[w], ok[w])'
      BY <2>1, <3>5 DEF Logged, Attempt
    <3> QED BY <2>1, <3>6 DEF RunLogged
  <2>3. CASE v # w
    BY <1>4, <2>1, <2>3, RunStaysLogged DEF LogAttempt, TypeOK
  <2> QED BY <2>2, <2>3
<1>5. ASSUME NEW v \in Workers, Finish(v) \/ Throw(v) \/ Crash(v)
      PROVE  RunLogged(w)'
  <2>1. Retire(v)
    BY <1>5 DEF Finish, Throw, Crash
  <2>2. CASE v = w
    BY <2>1, <2>2 DEF Retire, RunLogged, TypeOK
  <2>3. CASE v # w
    BY <2>1, <2>3, RunStaysLogged DEF Retire, TypeOK
  <2> QED BY <2>2, <2>3
<1>6. ASSUME NEW d \in Deliveries, AddWebhookJob(d) \/ StalledJob(d)
      PROVE  RunLogged(w)'
  BY <1>6, RunStaysLogged DEF AddWebhookJob, StalledJob, runVars
<1>7. ASSUME NEW m \in marks, ApplyMark(m)
      PROVE  RunLogged(w)'
  BY <1>7, RunStaysLogged DEF ApplyMark, runVars
<1>8. CASE UNCHANGED vars
  BY <1>8, RunStaysLogged DEF vars, runVars
<1> QED BY <1>1, <1>2, <1>3, <1>4, <1>5, <1>6, <1>7, <1>8 DEF Next, WorkerStep

\* So is what an un-awaited mark says, also when others are on their way.
LEMMA MarkLoggedStep ==
  ASSUME TypeOK, RunOK, VerdictsLogged, [Next]_vars, NEW m \in marks'
  PROVE  MarkLogged(m)'
<1>1. ASSUME m \in marks
      PROVE  MarkLogged(m)'
  BY <1>1, MarkStaysLogged DEF VerdictsLogged, TypeOK
<1>2. ASSUME NEW w \in Workers, Mark(w), m \notin marks
      PROVE  MarkLogged(m)'
  <2>1. Logged(cur[w], number[w], ok[w]) /\ (ok[w] => cur[w] \in acknowledged)
    BY <1>2 DEF Mark, At, VerdictsLogged, RunLogged
  <2>2. cur[w] \in Deliveries /\ number[w] \in 1..MaxAttempts /\ ok[w] \in BOOLEAN
    BY <1>2 DEF Mark, At, RunOK, TypeOK
  <2>3. \/ ok[w] /\ m = [by |-> w, delivery |-> cur[w], status |-> "delivered",
                          number |-> number[w]]
        \/ /\ ~ok[w] /\ number[w] >= MaxAttempts
           /\ m = [by |-> w, delivery |-> cur[w], status |-> "failed", number |-> number[w]]
    BY <1>2 DEF Mark, SendMark, IsFinalAttempt
  <2>4. m \in Marks
    BY <2>2, <2>3 DEF Marks
  <2>5. MarkLogged(m)
    <3>1. CASE ok[w]
      <4>1. ok[w] = TRUE
        BY <2>2, <3>1
      <4>2. m.status = "delivered" /\ m.delivery = cur[w] /\ m.number = number[w]
        BY <2>3, <3>1
      <4> QED BY <2>1, <4>1, <4>2 DEF MarkLogged
    <3>2. CASE ~ok[w]
      <4>1. ok[w] = FALSE
        BY <2>2, <3>2
      <4>2. m.status = "failed" /\ m.delivery = cur[w] /\ m.number = number[w]
        BY <2>3, <3>2
      <4>3. number[w] = MaxAttempts
        BY <2>2, <2>3, <3>2, DeliveryAssumption
      <4> QED BY <2>1, <4>1, <4>2, <4>3 DEF MarkLogged
    <3> QED BY <3>1, <3>2
  <2> QED BY <2>4, <2>5, MarkStaysLogged
<1>3. (\E w \in Workers : Mark(w)) \/ marks' \subseteq marks
  BY DEF Next, WorkerStep, AddWebhookJob, StalledJob, StartDelivery, Post, Unreachable,
         LogAttempt, UpdateCallback, Finish, Throw, Answer, QueryFails, Crash, LoseLock,
         ApplyMark, vars
<1> QED BY <1>1, <1>2, <1>3

\* A verdict is written only by such a mark, so it is logged as well.
LEMMA VerdictStep ==
  ASSUME TypeOK, JobsBounded, RunOK, VerdictsLogged, OutcomeLogged, [Next]_vars
  PROVE  VerdictsLogged' /\ OutcomeLogged'
<1>1. VerdictsLogged'
  <2>1. \A w \in Workers : RunLogged(w)'
    BY RunLoggedStep DEF VerdictsLogged
  <2>2. \A m \in marks' : MarkLogged(m)'
    BY MarkLoggedStep
  <2> QED BY <2>1, <2>2 DEF VerdictsLogged
<1>2. ASSUME UNCHANGED <<dispatchStatus, lastAttempt>>
      PROVE  OutcomeLogged'
  BY <1>2, LoggedKept DEF OutcomeLogged
<1>3. ASSUME NEW m \in marks, ApplyMark(m)
      PROVE  OutcomeLogged'
  <2>1. MarkLogged(m)' /\ m \in Marks
    BY MarkStaysLogged DEF VerdictsLogged, TypeOK
  <2>2. \/ UNCHANGED <<dispatchStatus, lastAttempt>>
        \/ /\ dispatchStatus' = [dispatchStatus EXCEPT ![m.delivery] = m.status]
           /\ lastAttempt' = [lastAttempt EXCEPT ![m.delivery] = m.number]
    BY <1>3 DEF ApplyMark
  <2>3. ASSUME NEW d \in Deliveries,
               dispatchStatus' = [dispatchStatus EXCEPT ![m.delivery] = m.status],
               lastAttempt' = [lastAttempt EXCEPT ![m.delivery] = m.number]
        PROVE  /\ dispatchStatus'[d] = "delivered" =>
                    d \in acknowledged' /\ Logged(d, lastAttempt[d], TRUE)'
               /\ dispatchStatus'[d] = "failed" =>
                    lastAttempt'[d] = MaxAttempts /\ Logged(d, MaxAttempts, FALSE)'
    <3>1. CASE d = m.delivery
      BY <2>1, <2>3, <3>1 DEF MarkLogged, TypeOK
    <3>2. CASE d # m.delivery
      <4>1. dispatchStatus'[d] = dispatchStatus[d] /\ lastAttempt'[d] = lastAttempt[d]
        BY <2>3, <3>2 DEF TypeOK
      <4> QED BY <4>1, LoggedKept DEF OutcomeLogged
    <3> QED BY <3>1, <3>2
  <2> QED BY <1>2, <2>2, <2>3 DEF OutcomeLogged
<1>4. (\E m \in marks : ApplyMark(m)) \/ UNCHANGED <<dispatchStatus, lastAttempt>>
  BY DEF Next, WorkerStep, AddWebhookJob, StalledJob, StartDelivery, Post, Unreachable,
         LogAttempt, UpdateCallback, Mark, Finish, Throw, Answer, QueryFails, Crash,
         LoseLock, vars, rowVars
<1> QED BY <1>1, <1>2, <1>3, <1>4

\* A mark that comes after a verdict changes nothing: a delivered dispatch is left
\* alone, and a failed one has had the last of its attempts.
LEMMA VerdictKept ==
  ASSUME TypeOK, OutcomeLogged, [Next]_vars, NEW d \in Deliveries,
         dispatchStatus[d] # "pending"
  PROVE  dispatchStatus'[d] = dispatchStatus[d]
<1>1. ASSUME NEW m \in marks, ApplyMark(m)
      PROVE  dispatchStatus'[d] = dispatchStatus[d]
  <2>1. m.number \in 1..MaxAttempts /\ MaxAttempts \in Nat
    BY DeliveryAssumption DEF TypeOK, Marks
  <2>2. dispatchStatus[d] = "delivered" \/ lastAttempt[d] = MaxAttempts
    BY DEF OutcomeLogged, TypeOK
  <2>3. CASE m.delivery = d
    BY <1>1, <2>1, <2>2, <2>3 DEF ApplyMark
  <2>4. CASE m.delivery # d
    BY <1>1, <2>4 DEF ApplyMark, TypeOK
  <2> QED BY <2>3, <2>4
<1>2. (\E m \in marks : ApplyMark(m)) \/ UNCHANGED dispatchStatus
  BY DEF Next, WorkerStep, AddWebhookJob, StalledJob, StartDelivery, Post, Unreachable,
         LogAttempt, UpdateCallback, Mark, Finish, Throw, Answer, QueryFails, Crash,
         LoseLock, vars, rowVars
<1> QED BY <1>1, <1>2

-----------------------------------------------------------------------------
(***************************************************************************)
(* How often a merchant is bothered                                        *)
(***************************************************************************)

\* Some of the workers give up.
LEMMA CountKept ==
  ASSUME NEW n \in Nat, NEW k \in Nat, NEW S, NEW T \in SUBSET S, Counted(n, S, k)
  PROVE  Counted(n, T, k)
<1>1. IsFiniteSet(T) /\ Cardinality(T) <= Cardinality(S)
  BY FS_Subset DEF Counted
<1>2. Cardinality(S) \in Nat /\ Cardinality(T) \in Nat
  BY <1>1, FS_CardinalityType DEF Counted
<1> QED BY <1>1, <1>2 DEF Counted

\* One of them does it.
LEMMA CountDone ==
  ASSUME NEW n \in Nat, NEW k \in Nat, NEW S, NEW x \in S, Counted(n, S, k)
  PROVE  Counted(n + 1, S \ {x}, k)
<1>1. IsFiniteSet(S \ {x}) /\ Cardinality(S \ {x}) = Cardinality(S) - 1
  BY FS_RemoveElement DEF Counted
<1>2. Cardinality(S) \in Nat
  BY FS_CardinalityType DEF Counted
<1> QED BY <1>1, <1>2 DEF Counted

\* Another one comes, with an attempt of its own.
LEMMA CountMore ==
  ASSUME NEW n \in Nat, NEW k \in Nat, NEW S, NEW x, Counted(n, S, k)
  PROVE  Counted(n, S \cup {x}, k + 1)
<1>1. IsFiniteSet(S) /\ Cardinality(S) \in Nat
  BY FS_CardinalityType DEF Counted
<1>2. IsFiniteSet(S \cup {x}) /\ Cardinality(S \cup {x}) <= Cardinality(S) + 1
  <2>1. Cardinality(S \cup {x}) \in {Cardinality(S), Cardinality(S) + 1}
    BY <1>1, FS_AddElement
  <2> QED BY <1>1, <2>1, FS_AddElement
<1>3. Cardinality(S \cup {x}) \in Nat
  BY <1>2, FS_CardinalityType
<1> QED BY <1>1, <1>2, <1>3 DEF Counted

\* What is counted are natural numbers.
LEMMA CountTypes ==
  ASSUME TypeOK, JobsBounded, NEW d \in Deliveries
  PROVE  received[d] \in Nat /\ Len(attempts[d]) \in Nat /\ Begun(d) \in Nat
<1>1. attempts[d] \in Seq(Attempts)
  BY DEF TypeOK
<1> QED BY <1>1, BegunBounded DEF TypeOK

\* A step that begins, sends and logs nothing, and after which nobody has more to do.
LEMMA CountsKept ==
  ASSUME TypeOK, JobsBounded, NEW d \in Deliveries, CountOK(d),
         UNCHANGED <<received[d], attempts[d]>>, Begun(d)' = Begun(d),
         \A w \in Workers : pc'[w] # pc[w] \/ cur'[w] # cur[w] =>
           pc'[w] \notin {"post", "answer", "log"}
  PROVE  CountOK(d)'
<1>1. Unposted(d)' \subseteq Unposted(d) /\ Unlogged(d)' \subseteq Unlogged(d)
  BY DEF Unposted, Unlogged, Pending
<1>2. Counted(received[d], Unposted(d)', Begun(d))
  BY <1>1, CountKept, CountTypes DEF CountOK
<1>3. Counted(Len(attempts[d]), Unlogged(d)', Begun(d))
  BY <1>1, CountKept, CountTypes DEF CountOK
<1> QED BY <1>2, <1>3 DEF CountOK, Counted

\* Every step that posts or logs uses up the attempt that was begun for it.
LEMMA CountStep ==
  ASSUME TypeOK, JobsBounded, RunOK, NEW d \in Deliveries, CountOK(d), [Next]_vars
  PROVE  CountOK(d)'
<1> USE DEF Goto, At
<1>1. ASSUME NEW w \in Workers, NEW e \in Deliveries, StartDelivery(w, e)
      PROVE  CountOK(d)'
  <2>1. Begun(d)' = Begun(d) + (IF d = e THEN 1 ELSE 0)
    BY <1>1, TakeStep DEF StartDelivery, TypeOK
  <2>2. UNCHANGED <<received, attempts>>
    BY <1>1 DEF StartDelivery, rowVars, merchantVars
  <2>3. cur' = [cur EXCEPT ![w] = e] /\ pc' = [pc EXCEPT ![w] = "post"]
    BY <1>1 DEF StartDelivery
  <2>4. CASE d = e
    <3>1. Unposted(d)' = Unposted(d) \cup {w} /\ Unlogged(d)' = Unlogged(d) \cup {w}
      BY <2>3, <2>4 DEF Unposted, Unlogged, Pending, TypeOK
    <3>2. Counted(received[d], Unposted(d) \cup {w}, Begun(d) + 1)
      BY CountMore, CountTypes DEF CountOK
    <3>3. Counted(Len(attempts[d]), Unlogged(d) \cup {w}, Begun(d) + 1)
      BY CountMore, CountTypes DEF CountOK
    <3> QED BY <2>1, <2>2, <2>4, <3>1, <3>2, <3>3 DEF CountOK, Counted
  <2>5. CASE d # e
    <3>1. Unposted(d)' \subseteq Unposted(d) /\ Unlogged(d)' \subseteq Unlogged(d)
      BY <2>3, <2>5 DEF Unposted, Unlogged, Pending, TypeOK
    <3>2. Counted(received[d], Unposted(d)', Begun(d))
      BY <3>1, CountKept, CountTypes DEF CountOK
    <3>3. Counted(Len(attempts[d]), Unlogged(d)', Begun(d))
      BY <3>1, CountKept, CountTypes DEF CountOK
    <3>4. Begun(d)' = Begun(d)
      BY <2>1, <2>5, CountTypes
    <3> QED BY <2>2, <3>2, <3>3, <3>4 DEF CountOK, Counted
  <2> QED BY <2>4, <2>5
<1>2. ASSUME NEW w \in Workers, Post(w)
      PROVE  CountOK(d)'
  <2>1. Begun(d)' = Begun(d)
    BY <1>2, NoJobStep DEF Post, QueueKept, TypeOK
  <2>2. /\ received' = [received EXCEPT ![cur[w]] = @ + 1] /\ attempts' = attempts
        /\ pc[w] = "post" /\ pc' = [pc EXCEPT ![w] = "answer"] /\ cur' = cur
    BY <1>2 DEF Post, rowVars
  <2>3. Unlogged(d)' = Unlogged(d)
    BY <2>2 DEF Unlogged, Pending, TypeOK
  <2>4. CASE cur[w] = d
    <3>1. Unposted(d)' = Unposted(d) \ {w} /\ w \in Unposted(d)
      BY <2>2, <2>4 DEF Unposted, Pending, TypeOK
    <3>2. Counted(received[d] + 1, Unposted(d) \ {w}, Begun(d))
      BY <3>1, CountDone, CountTypes DEF CountOK
    <3>3. received'[d] = received[d] + 1
      BY <2>2, <2>4 DEF TypeOK
    <3> QED BY <2>1, <2>2, <2>3, <3>1, <3>2, <3>3 DEF CountOK, Counted
  <2>5. CASE cur[w] # d
    <3>1. Unposted(d)' = Unposted(d) /\ received'[d] = received[d]
      BY <2>2, <2>5 DEF Unposted, Pending, TypeOK
    <3> QED BY <2>1, <2>2, <2>3, <3>1 DEF CountOK, Counted
  <2> QED BY <2>4, <2>5
<1>3. ASSUME NEW w \in Workers, LogAttempt(w)
      PROVE  CountOK(d)'
  <2>1. Begun(d)' = Begun(d)
    BY <1>3, NoJobStep DEF LogAttempt, QueueKept, TypeOK
  <2>2. /\ received' = received
        /\ attempts' = [attempts EXCEPT ![cur[w]] = Append(@, Attempt(w))]
        /\ pc[w] = "log" /\ pc' = [pc EXCEPT ![w] = "metadata"] /\ cur' = cur
    BY <1>3 DEF LogAttempt, merchantVars
  <2>3. Unposted(d)' = Unposted(d)
    BY <2>2 DEF Unposted, Pending, TypeOK
  <2>4. CASE cur[w] = d
    <3>1. Unlogged(d)' = Unlogged(d) \ {w} /\ w \in Unlogged(d)
      BY <2>2, <2>4 DEF Unlogged, Pending, TypeOK
    <3>2. Counted(Len(attempts[d]) + 1, Unlogged(d) \ {w}, Begun(d))
      BY <3>1, CountDone, CountTypes DEF CountOK
    <3>3. Attempt(w) \in Attempts
      BY <2>2 DEF Attempt, Attempts, RunOK, TypeOK
    <3>4. attempts \in [Deliveries -> Seq(Attempts)]
      BY DEF TypeOK
    <3>5. Len(attempts'[d]) = Len(attempts[d]) + 1
      BY <2>2, <2>4, <3>3, <3>4, AppendedAttempts
    <3> QED BY <2>1, <2>2, <2>3, <3>1, <3>2, <3>5 DEF CountOK, Counted
  <2>5. CASE cur[w] # d
    <3>1. Unlogged(d)' = Unlogged(d) /\ attempts'[d] = attempts[d]
      BY <2>2, <2>5 DEF Unlogged, Pending, TypeOK
    <3> QED BY <2>1, <2>2, <2>3, <3>1 DEF CountOK, Counted
  <2> QED BY <2>4, <2>5
<1>4. ASSUME NEW w \in Workers, Answer(w)
      PROVE  CountOK(d)'
  <2>1. Begun(d)' = Begun(d)
    BY <1>4, NoJobStep DEF Answer, QueueKept, TypeOK
  <2>2. UNCHANGED <<received, attempts, cur>>
    BY <1>4 DEF Answer, rowVars
  <2>3. Unposted(d)' = Unposted(d) /\ Unlogged(d)' = Unlogged(d)
    BY <1>4, <2>2 DEF Answer, Unposted, Unlogged, Pending, TypeOK
  <2> QED BY <2>1, <2>2, <2>3 DEF CountOK, Counted
<1>5. ASSUME NEW w \in Workers, Unreachable(w)
      PROVE  CountOK(d)'
  <2>1. Begun(d)' = Begun(d)
    BY <1>5, NoJobStep DEF Unreachable, QueueKept, TypeOK
  <2>2. UNCHANGED <<received, attempts, cur>>
    BY <1>5 DEF Unreachable, rowVars, merchantVars
  <2>3. Unposted(d)' \subseteq Unposted(d) /\ Unlogged(d)' = Unlogged(d)
    BY <1>5, <2>2 DEF Unreachable, Unposted, Unlogged, Pending, TypeOK
  <2>4. Counted(received[d], Unposted(d)', Begun(d))
    BY <2>3, CountKept, CountTypes DEF CountOK
  <2> QED BY <2>1, <2>2, <2>3, <2>4 DEF CountOK, Counted
<1>6. ASSUME NEW w \in Workers, UpdateCallback(w) \/ Mark(w) \/ QueryFails(w)
      PROVE  CountOK(d)'
  <2>1. Begun(d)' = Begun(d)
    BY <1>6, NoJobStep DEF UpdateCallback, Mark, QueryFails, QueueKept, TypeOK
  <2>2. UNCHANGED <<received, attempts, cur>>
    BY <1>6 DEF UpdateCallback, Mark, QueryFails, rowVars, merchantVars
  <2>3. \A v \in Workers : pc'[v] # pc[v] => pc'[v] \notin {"post", "answer", "log"}
    BY <1>6 DEF UpdateCallback, Mark, QueryFails, TypeOK
  <2> QED BY <2>1, <2>2, <2>3, CountsKept
<1>7. ASSUME NEW w \in Workers, Finish(w) \/ Throw(w) \/ Crash(w)
      PROVE  CountOK(d)'
  <2>1. Begun(d)' = Begun(d)
    <3>1. Finish(w) \/ Throw(w) => cur[w] \in Deliveries
      BY DEF Finish, Throw, RunOK
    <3> QED BY <1>7, <3>1, OverStep, ExpireStep DEF Finish, Throw, Crash, QueueKept, TypeOK
  <2>2. UNCHANGED <<received, attempts>> /\ Retire(w)
    BY <1>7 DEF Finish, Throw, Crash, rowVars, merchantVars
  <2>3. \A v \in Workers : pc'[v] # pc[v] \/ cur'[v] # cur[v] =>
                             pc'[v] \notin {"post", "answer", "log"}
    BY <2>2 DEF Retire, TypeOK
  <2> QED BY <2>1, <2>2, <2>3, CountsKept
<1>8. ASSUME NEW w \in Workers, LoseLock(w)
      PROVE  CountOK(d)'
  <2>1. Begun(d)' = Begun(d)
    BY <1>8, ExpireStep DEF LoseLock, QueueKept, TypeOK
  <2> QED BY <1>8, <2>1, CountsKept DEF LoseLock, rowVars, runVars, merchantVars
<1>9. ASSUME NEW e \in Deliveries, AddWebhookJob(e) \/ StalledJob(e)
      PROVE  CountOK(d)'
  <2>1. Begun(d)' = Begun(d)
    BY <1>9, JobStep DEF AddWebhookJob, StalledJob, QueueKept, TypeOK
  <2> QED BY <1>9, <2>1, CountsKept DEF AddWebhookJob, StalledJob, rowVars, runVars,
                                        merchantVars
<1>10. ASSUME NEW m \in marks, ApplyMark(m)
      PROVE  CountOK(d)'
  <2>1. Begun(d)' = Begun(d)
    BY <1>10, NoJobStep DEF ApplyMark, QueueKept, TypeOK
  <2> QED BY <1>10, <2>1, CountsKept DEF ApplyMark, runVars, merchantVars
<1>11. CASE UNCHANGED vars
  <2>1. Begun(d)' = Begun(d)
    BY <1>11, NoJobStep DEF vars, QueueKept, TypeOK
  <2> QED BY <1>11, <2>1, CountsKept DEF vars, rowVars, runVars, merchantVars
<1> QED
  BY <1>1, <1>2, <1>3, <1>4, <1>5, <1>6, <1>7, <1>8, <1>9, <1>10, <1>11
  DEF Next, WorkerStep

-----------------------------------------------------------------------------
(***************************************************************************)
(* The order of the attempts while nothing fails                           *)
(***************************************************************************)

\* Two workers never attend to one dispatch.
LEMMA OneAttends ==
  ASSUME NEW v \in Workers, NEW w \in Workers, v # w, RunAttended(v), RunAttended(w),
         ~At(v, "idle"), ~At(w, "idle")
  PROVE  cur[v] # cur[w]
BY DEF RunAttended

\* A worker whose dispatch is left alone keeps attending to it.
LEMMA AttendsOn ==
  ASSUME NEW w \in Workers, RunAttended(w),
         UNCHANGED <<pc[w], cur[w], number[w], ok[w]>>,
         ~At(w, "idle") =>
           UNCHANGED <<owner[cur[w]], attemptsMade[cur[w]], attempts[cur[w]]>>
  PROVE  RunAttended(w)'
<1>1. CASE At(w, "idle")
  BY <1>1 DEF RunAttended, At
<1>2. CASE ~At(w, "idle")
  <2> DEFINE d == cur[w]
  <2>1. d' = d /\ owner'[d] = owner[d] /\ attemptsMade'[d] = attemptsMade[d]
        /\ attempts'[d] = attempts[d]
    BY <1>2
  <2>2. AllFailed(d)' <=> AllFailed(d)
    BY <2>1 DEF AllFailed
  <2> QED BY <1>2, <2>1, <2>2 DEF RunAttended, At, Attempt
<1> QED BY <1>1, <1>2

\* A dispatch that is left alone.
LEMMA JobAsBefore ==
  ASSUME NEW d \in Deliveries, JobAttended(d), LogInOrder(d),
         UNCHANGED <<job[d], owner[d], attemptsMade[d], attempts[d]>>
  PROVE  JobAttended(d)' /\ LogInOrder(d)'
<1>1. AllFailed(d)' <=> AllFailed(d)
  BY DEF AllFailed
<1> QED BY <1>1 DEF JobAttended, LogInOrder

\* What holds in a state without a fault, and of the steps that are none.
LEMMA QuietStep ==
  ASSUME TypeOK, Attended, [Next]_vars, faults' = 0
  PROVE  /\ faults = 0
         /\ \A w \in Workers : ~QueryFails(w) /\ ~Crash(w) /\ ~LoseLock(w)
<1>1. ASSUME NEW w \in Workers, QueryFails(w) \/ Crash(w) \/ LoseLock(w)
      PROVE  FALSE
  BY <1>1 DEF QueryFails, Crash, LoseLock, Fault, TypeOK
<1>2. faults' = faults
  BY <1>1 DEF Next, WorkerStep, AddWebhookJob, StalledJob, StartDelivery, Post, Unreachable,
              LogAttempt, UpdateCallback, Mark, Finish, Throw, Answer, ApplyMark, vars
<1> QED BY <1>1, <1>2

\* Without a fault no worker loses its dispatch, so nobody logs out of turn.
LEMMA AttendedStep ==
  ASSUME TypeOK, JobsBounded, RunOK, Attended, [Next]_vars
  PROVE  Attended'
<1> DEFINE Good == /\ \A d \in Deliveries : JobAttended(d) /\ LogInOrder(d)
                   /\ \A w \in Workers : RunAttended(w)
<1> SUFFICES ASSUME faults' = 0
             PROVE  Good'
  BY DEF Attended
<1>0. Good /\ \A w \in Workers : ~QueryFails(w) /\ ~Crash(w) /\ ~LoseLock(w)
  BY QuietStep DEF Attended
<1> USE DEF At, Goto
<1>1. ASSUME NEW v \in Workers, NEW e \in Deliveries, StartDelivery(v, e)
      PROVE  Good'
  <2>1. /\ job[e] = "waiting" /\ At(v, "idle")
        /\ job' = [job EXCEPT ![e] = "active"] /\ owner' = [owner EXCEPT ![e] = v]
        /\ UNCHANGED <<attemptsMade, attempts, ok>>
        /\ cur' = [cur EXCEPT ![v] = e] /\ pc' = [pc EXCEPT ![v] = "post"]
        /\ number' = [number EXCEPT ![v] = attemptsMade[e] + 1]
    BY <1>1 DEF StartDelivery, Queue!TakeJob, rowVars
  <2>2. ASSUME NEW d \in Deliveries
        PROVE  JobAttended(d)' /\ LogInOrder(d)'
    <3>1. CASE d = e
      <4>1. job'[d] = "active" /\ owner'[d] = v
        BY <2>1, <3>1 DEF TypeOK, Queue!QueueTypeOK
      <4>2. LogInOrder(d)'
        BY <1>0, <2>1 DEF LogInOrder
      <4> QED BY <4>1, <4>2, DeliveryAssumption DEF JobAttended
    <3>2. CASE d # e
      BY <1>0, <2>1, <3>2, JobAsBefore DEF TypeOK, Queue!QueueTypeOK
    <3> QED BY <3>1, <3>2
  <2>3. ASSUME NEW w \in Workers
        PROVE  RunAttended(w)'
    <3>1. CASE w = v
      <4>1. cur'[w] = e /\ pc'[w] = "post" /\ owner'[e] = w
            /\ number'[w] = attemptsMade[e] + 1
        BY <2>1, <3>1 DEF TypeOK, Queue!QueueTypeOK
      <4>2. Len(attempts[e]) = attemptsMade[e] /\ AllFailed(e)
        BY <1>0, <2>1 DEF JobAttended
      <4>3. attemptsMade[e] \in Nat
        BY DEF TypeOK, Queue!QueueTypeOK
      <4> QED BY <2>1, <4>1, <4>2, <4>3 DEF RunAttended, AllFailed
    <3>2. CASE w # v
      <4>1. ~At(w, "idle") => cur[w] \in Deliveries \ {e}
        BY <1>0, <2>1, DeliveryAssumption DEF RunAttended, JobsBounded, RunOK
      <4> QED BY <1>0, <2>1, <3>2, <4>1, AttendsOn DEF TypeOK, Queue!QueueTypeOK
    <3> QED BY <3>1, <3>2
  <2> QED BY <2>2, <2>3
<1>2. ASSUME NEW v \in Workers,
             Post(v) \/ Unreachable(v) \/ Answer(v) \/ UpdateCallback(v) \/ Mark(v)
      PROVE  Good'
  <2>1. UNCHANGED <<job, owner, attemptsMade, attempts, cur, number>> /\ ~At(v, "idle")
    BY <1>2 DEF Post, Unreachable, Answer, UpdateCallback, Mark, queueVars, rowVars
  <2>2. \A d \in Deliveries : JobAttended(d)' /\ LogInOrder(d)'
    BY <1>0, <2>1, JobAsBefore
  <2>3. \A d : AllFailed(d)' <=> AllFailed(d)
    BY <2>1 DEF AllFailed
  <2>4. ASSUME NEW w \in Workers
        PROVE  RunAttended(w)'
    <3>1. CASE w # v
      <4>1. UNCHANGED <<pc[w], ok[w]>>
        BY <1>2, <3>1 DEF Post, Unreachable, Answer, UpdateCallback, Mark, TypeOK
      <4> QED BY <1>0, <2>1, <4>1, AttendsOn
    <3>2. CASE w = v /\ (Post(v) \/ Unreachable(v) \/ Answer(v))
      <4>1. pc[v] \in {"post", "answer"} /\ pc'[v] \in {"answer", "log"}
        BY <3>2 DEF Post, Unreachable, Answer, TypeOK
      <4> QED BY <1>0, <2>1, <2>3, <3>2, <4>1 DEF RunAttended
    <3>3. CASE w = v /\ (UpdateCallback(v) \/ Mark(v))
      <4>1. /\ pc[v] \in {"metadata", "mark"} /\ pc'[v] \in {"mark", "finish", "throw"}
            /\ pc'[v] = "throw" => ~ok[v]
        BY <3>3 DEF UpdateCallback, Mark, TypeOK
      <4>2. ok' = ok
        BY <3>3 DEF UpdateCallback, Mark
      <4> QED BY <1>0, <2>1, <2>3, <3>3, <4>1, <4>2 DEF RunAttended, Attempt
    <3> QED BY <1>2, <3>1, <3>2, <3>3
  <2> QED BY <2>2, <2>4
<1>3. ASSUME NEW v \in Workers, LogAttempt(v)
      PROVE  Good'
  <2> DEFINE e == cur[v]
  <2>1. /\ UNCHANGED <<job, owner, attemptsMade, cur, number, ok>>
        /\ pc[v] = "log" /\ pc' = [pc EXCEPT ![v] = "metadata"]
        /\ attempts' = [attempts EXCEPT ![e] = Append(@, Attempt(v))]
    BY <1>3 DEF LogAttempt, queueVars
  <2>2. e \in Deliveries /\ number[v] \in 1..MaxAttempts /\ Attempt(v) \in Attempts
    BY <2>1 DEF RunOK, Attempt, Attempts, TypeOK
  <2>3. /\ owner[e] = v /\ Len(attempts[e]) = number[v] - 1 /\ AllFailed(e)
    BY <1>0, <2>1 DEF RunAttended
  <2>4. attempts \in [Deliveries -> Seq(Attempts)] /\ attempts[e] \in Seq(Attempts)
    BY <2>2 DEF TypeOK
  <2>5. /\ \A d \in Deliveries \ {e} : attempts'[d] = attempts[d]
        /\ Len(attempts'[e]) = number[v] /\ attempts'[e][number[v]] = Attempt(v)
        /\ \A i \in DOMAIN attempts[e] : attempts'[e][i] = attempts[e][i]
        /\ DOMAIN attempts'[e] = DOMAIN attempts[e] \cup {number[v]}
    <3> HIDE DEF e
    <3>1. Len(attempts[e]) + 1 = number[v]
      BY <2>2, <2>3, DeliveryAssumption
    <3> QED BY <2>1, <2>2, <2>4, <3>1, AppendedAttempts
  <2>6. ASSUME NEW d \in Deliveries
        PROVE  JobAttended(d)' /\ LogInOrder(d)'
    <3>1. CASE d = e
      <4>1. job[d] = "active"
        BY <2>2, <2>3, <3>1, DeliveryAssumption DEF JobsBounded
      <4>2. JobAttended(d)'
        BY <1>0, <2>1, <4>1 DEF JobAttended
      <4>3. LogInOrder(d)'
        BY <1>0, <2>3, <2>5, <3>1 DEF LogInOrder, AllFailed, Attempt
      <4> QED BY <4>2, <4>3
    <3>2. CASE d # e
      BY <1>0, <2>1, <2>5, <3>2, JobAsBefore
    <3> QED BY <3>1, <3>2
  <2>7. ASSUME NEW w \in Workers
        PROVE  RunAttended(w)'
    <3>1. CASE w = v
      BY <1>0, <2>1, <2>5, <3>1 DEF RunAttended, Attempt, TypeOK
    <3>2. CASE w # v
      <4>1. ~At(w, "idle") => cur[w] \in Deliveries \ {e}
        BY <1>0, <2>1, <3>2, OneAttends DEF RunOK
      <4> QED BY <1>0, <2>1, <2>5, <3>2, <4>1, AttendsOn DEF TypeOK
    <3> QED BY <3>1, <3>2
  <2> QED BY <2>6, <2>7
<1>4. ASSUME NEW v \in Workers, Finish(v) \/ Throw(v)
      PROVE  Good'
  <2> DEFINE e == cur[v]
  <2>1. /\ UNCHANGED attempts /\ Retire(v) /\ pc[v] \in {"finish", "throw"}
        /\ e \in Deliveries /\ number[v] \in 1..MaxAttempts
    BY <1>4 DEF Finish, Throw, rowVars, RunOK
  <2>2. /\ owner[e] = v /\ number[v] = attemptsMade[e] + 1
        /\ Len(attempts[e]) = number[v] /\ attempts[e][number[v]] = Attempt(v)
    BY <1>0, <2>1 DEF RunAttended
  <2>3. /\ job'[e] \in {"completed", "waiting", "failed"}
        /\ \A d \in Deliveries \ {e} :
             UNCHANGED <<job[d], owner[d], attemptsMade[d]>>
    BY <1>4, <2>1, <2>2
    DEF Finish, Throw, Queue!CompleteJob, Queue!FailJob, TypeOK, Queue!QueueTypeOK
  <2>4. job'[e] = "waiting" => Throw(v) /\ attemptsMade'[e] = number[v] /\ ~ok[v]
    <3>1. CASE Finish(v)
      BY <2>1, <2>2, <3>1
      DEF Finish, Queue!CompleteJob, TypeOK, Queue!QueueTypeOK
    <3>2. CASE Throw(v)
      <4>1. attemptsMade' = [attemptsMade EXCEPT ![e] = @ + 1] /\ ~ok[v]
        BY <1>0, <2>2, <3>2 DEF Throw, Queue!FailJob, RunAttended
      <4> QED BY <2>1, <2>2, <3>2, <4>1 DEF TypeOK, Queue!QueueTypeOK
    <3> QED BY <1>4, <3>1, <3>2
  <2>5. ASSUME NEW d \in Deliveries
        PROVE  JobAttended(d)' /\ LogInOrder(d)'
    <3>1. CASE d = e
      <4>1. LogInOrder(d)'
        BY <1>0, <2>1 DEF LogInOrder
      <4>2. job'[d] = "waiting" => AllFailed(d)'
        <5>1. \A i \in DOMAIN attempts[e] : attempts[e][i].ok => i = number[v]
          BY <1>0, <2>1, <2>2 DEF LogInOrder
        <5>2. attempts[e][number[v]].ok = ok[v]
          BY <2>2 DEF Attempt
        <5> QED BY <2>1, <2>4, <3>1, <5>1, <5>2 DEF AllFailed
      <4>3. JobAttended(d)'
        BY <2>1, <2>2, <2>3, <2>4, <3>1, <4>2 DEF JobAttended
      <4> QED BY <4>1, <4>3
    <3>2. CASE d # e
      BY <1>0, <2>1, <2>3, <3>2, JobAsBefore
    <3> QED BY <3>1, <3>2
  <2>6. ASSUME NEW w \in Workers
        PROVE  RunAttended(w)'
    <3>1. CASE w = v
      BY <2>1, <3>1 DEF Retire, RunAttended, TypeOK
    <3>2. CASE w # v
      <4>1. ~At(w, "idle") => cur[w] \in Deliveries \ {e}
        BY <1>0, <2>1, <3>2, OneAttends DEF RunOK
      <4>2. UNCHANGED <<pc[w], cur[w], number[w], ok[w]>>
        BY <2>1, <3>2 DEF Retire, TypeOK
      <4> QED BY <1>0, <2>1, <2>3, <4>1, <4>2, AttendsOn
    <3> QED BY <3>1, <3>2
  <2> QED BY <2>5, <2>6
<1>5. ASSUME NEW e \in Deliveries, AddWebhookJob(e)
      PROVE  Good'
  <2>1. /\ UNCHANGED <<owner, attemptsMade, attempts, pc, cur, number, ok>>
        /\ job[e] = "none" /\ job' = [job EXCEPT ![e] = "waiting"]
    BY <1>5 DEF AddWebhookJob, Queue!AddJob, rowVars, runVars
  <2>2. \A w \in Workers : RunAttended(w)'
    BY <1>0, <2>1, AttendsOn
  <2>3. \A d \in Deliveries : AllFailed(d)' <=> AllFailed(d)
    BY <2>1 DEF AllFailed
  <2>4. \A d \in Deliveries : JobAttended(d)' /\ LogInOrder(d)'
    BY <1>0, <2>1, <2>3 DEF JobAttended, LogInOrder, TypeOK, Queue!QueueTypeOK
  <2> QED BY <2>2, <2>4
<1>6. ASSUME NEW e \in Deliveries, StalledJob(e)
      PROVE  Good'
  BY <1>0, <1>6 DEF StalledJob, Queue!RecoverStalled, JobAttended
<1>7. ASSUME UNCHANGED <<queueVars, attempts, runVars>>
      PROVE  Good'
  <2>1. UNCHANGED <<job, owner, attemptsMade, attempts, pc, cur, number, ok>>
    BY <1>7 DEF queueVars, runVars
  <2> QED BY <1>0, <2>1, AttendsOn, JobAsBefore
<1>8. ASSUME NEW m \in marks, ApplyMark(m)
      PROVE  Good'
  BY <1>7, <1>8 DEF ApplyMark
<1>9. CASE UNCHANGED vars
  BY <1>7, <1>9 DEF vars, rowVars
<1> HIDE DEF Good
<1> QED BY <1>0, <1>1, <1>2, <1>3, <1>4, <1>5, <1>6, <1>8, <1>9 DEF Next, WorkerStep

-----------------------------------------------------------------------------
\* The inductive invariant of the delivery of webhooks.
THEOREM DeliveryInvariance == Spec => []IInv
<1>1. Init => IInv
  <2> SUFFICES ASSUME Init
               PROVE  IInv
    OBVIOUS
  <2>1. TypeOK
    BY DeliveryAssumption
    DEF Init, TypeOK, Queue!QueueInit, Queue!QueueTypeOK, Queue!JobStates, Steps
  <2>2. JobsBounded /\ RunOK
    BY DeliveryAssumption DEF Init, Queue!QueueInit, JobsBounded, RunOK, At
  <2>3. VerdictsLogged /\ OutcomeLogged
    BY DEF Init, VerdictsLogged, RunLogged, MarkLogged, OutcomeLogged
  <2>4. PostsCounted
    <3>1. ASSUME NEW d \in Deliveries
          PROVE  CountOK(d)
      <4>1. Unposted(d) = {} /\ Unlogged(d) = {}
        BY DEF Init, Unposted, Unlogged, Pending
      <4>2. received[d] = 0 /\ Len(attempts[d]) = 0 /\ Begun(d) = 0
        BY DEF Init, Queue!QueueInit, Begun
      <4> QED BY <4>1, <4>2, FS_EmptySet DEF CountOK, Counted
    <3> QED BY <3>1 DEF PostsCounted
  <2>5. Attended
    BY DEF Init, Queue!QueueInit, Attended, JobAttended, LogInOrder, RunAttended,
           AllFailed, At
  <2> QED BY <2>1, <2>2, <2>3, <2>4, <2>5 DEF IInv
<1>2. IInv /\ [Next]_vars => IInv'
  BY QueueTypeStep, RowTypeStep, VerdictStep, CountStep, AttendedStep
  DEF IInv, PostsCounted
<1> QED BY <1>1, <1>2, PTL DEF Spec

\* A worker is at a step of webhookProcessor, with a dispatch and an attempt's number
\* in bounds, and so are the columns and the queue's counters.
THEOREM DeliveryTypes == Spec => []TypeOK
<1>1. IInv => TypeOK
  BY DEF IInv
<1> QED BY <1>1, DeliveryInvariance, PTL

\* A dispatch is delivered only if the merchant answered 2xx, failed only after the
\* last attempt, and the attempt that decided it is logged.
THEOREM VerdictsTrue == Spec => []OutcomeLogged
<1>1. IInv => OutcomeLogged
  BY DEF IInv
<1> QED BY <1>1, DeliveryInvariance, PTL

\* A verdict is never taken back, in whatever order the marks arrive.
THEOREM VerdictsFinal == Spec => VerdictFinal
<1>1. IInv /\ [Next]_vars =>
        [\A d \in Deliveries :
           dispatchStatus[d] # "pending" => dispatchStatus'[d] = dispatchStatus[d]]_dispatchStatus
  BY VerdictKept DEF IInv
<1> QED BY <1>1, DeliveryInvariance, PTL DEF Spec, VerdictFinal

\* A merchant is POSTed to, and an attempt logged, at most MaxAttempts + MaxStalled
\* times for a dispatch.
THEOREM MerchantSpared == Spec => []PostsBounded
<1>1. ASSUME IInv, NEW d \in Deliveries
      PROVE  /\ received[d] <= MaxAttempts + MaxStalled
             /\ Len(attempts[d]) <= MaxAttempts + MaxStalled
  <2>1. CountOK(d) /\ TypeOK /\ JobsBounded
    BY <1>1 DEF IInv, PostsCounted
  <2>2. Cardinality(Unposted(d)) \in Nat /\ Cardinality(Unlogged(d)) \in Nat
    BY <2>1, FS_CardinalityType DEF CountOK, Counted
  <2>3. Begun(d) \in Nat /\ Begun(d) <= MaxAttempts + MaxStalled
    BY <2>1, BegunBounded DEF TypeOK
  <2>4. received[d] \in Nat /\ Len(attempts[d]) \in Nat
    BY <2>1, CountTypes
  <2> QED BY <2>1, <2>2, <2>3, <2>4, DeliveryAssumption DEF CountOK, Counted
<1>2. IInv => PostsBounded
  BY <1>1 DEF PostsBounded
<1> QED BY <1>2, DeliveryInvariance, PTL

\* While nothing fails, the log of a dispatch reads 1, 2, 3, ... and ends with the
\* first success.
THEOREM AttemptsLoggedInOrder == Spec => []AttemptsInOrder
<1>1. IInv => AttemptsInOrder
  BY DEF IInv, Attended, LogInOrder, AttemptsInOrder
<1> QED BY <1>1, DeliveryInvariance, PTL
=============================================================================
