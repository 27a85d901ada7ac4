-------------------------- MODULE PaymentProperties -------------------------
(***************************************************************************)
(* What must hold of PaymentWorker: its type invariant, the safety of the  *)
(* money and of what the merchant is told, the inductive invariant these   *)
(* rest on, the abstract payment it implements, and its liveness.          *)
(***************************************************************************)
EXTENDS PaymentWorker, FiniteSets

RunTypeOK ==
  /\ pc \in [Workers -> Steps]
  /\ cur \in [Workers -> Txs \cup {NoTx}]
  /\ subscriber \in [Workers -> {"off", "connecting", "listening", "closing", "closed"}]
  /\ heard \in [Workers -> SUBSET (Signals \cup {"TIMEOUT"})]
  /\ code \in [Workers -> ResultCodes \cup {NoCode}]
  /\ event \in [Workers -> Events \cup {"none"}]
  /\ body \in [Workers -> Bodies]

PinTypeOK ==
  /\ accepted \subseteq Txs \X Signals
  /\ inflight \subseteq Txs \X PinSignals
  /\ requests \in 0..MaxRequests
  /\ timedOut \subseteq Txs

\* What the variables hold.
TypeOK ==
  /\ RowsTypeOK
  /\ QueueTypeOK
  /\ RunTypeOK
  /\ PinTypeOK
  /\ refused \subseteq Txs
  /\ dispatches \subseteq Dispatches
  /\ webhookJobs \subseteq Dispatches
  /\ faults \in 0..MaxFaults

-----------------------------------------------------------------------------
(***************************************************************************)
(* Safety                                                                  *)
(***************************************************************************)

\* A user has at most one payment in flight (the EXISTS check of
\* lockRowsValidate under the user's row lock), whatever crashes and retries.
OneProcessingPerUser ==
  \A t, o \in Txs :
    status[t] = "PROCESSING" /\ status[o] = "PROCESSING" /\ Payer[t] = Payer[o] => t = o

\* What phase 1 validated still holds when phase 2 debits: a payment in flight
\* is covered by its payer's balance, although no lock is held in between.
ProcessingFunded ==
  \A t \in Txs : status[t] = "PROCESSING" => userBalance[Payer[t]] >= Amount[t]

\* Only a payment whose PIN the API found right is ever paid.
PaidOnlyWithPin ==
  \A t \in Txs : status[t] = "SUCCESS" => <<t, "CORRECT">> \in accepted

\* A payment is or was in flight when it is PROCESSING or paid, or failed with
\* a code that is given to payments in flight (9999 also to others).
FlightCodes == {WrongPin, Cancelled, TimedOut, SystemError}
WasInFlight(t) ==
  \/ status[t] \in {"PROCESSING", "SUCCESS"}
  \/ status[t] = "FAILED" /\ resultCode[t] \in FlightCodes

\* What a result code says of its payment is so.
HasReason(t, c) ==
  /\ c = WrongPin => <<t, "WRONG_PIN">> \in accepted
  /\ c = Cancelled => <<t, "CANCELLED">> \in accepted
  /\ c = TimedOut => t \in timedOut
  /\ c = InsufficientFunds => userBalance[Payer[t]] < Amount[t]
  /\ c = Conflict => \E o \in Txs \ {t} : Payer[o] = Payer[t] /\ WasInFlight(o)

CodesReasoned ==
  \A t \in Txs :
    /\ HasReason(t, resultCode[t])
    /\ resultCode[t] = Success <=> status[t] = "SUCCESS"
ErrorsFollowFaults == \A t \in Txs : resultCode[t] = SystemError => faults > 0

\* The result code a merchant sees names something that happened: a wrong PIN
\* was submitted (2001), the payer cancelled (1032), the timer of a wait fired
\* (1037), the balance does not cover the amount (1), another payment of the
\* user was in flight (1001), or something failed (9999: the deadlock of two
\* runs of one job takes a lost job lock); and a paid one, only, carries 0.
CodeExplained == CodesReasoned /\ ErrorsFollowFaults

\* Every webhook ever prepared carries the payment's final status and code,
\* also when runs of the same job overlap.
DispatchTruthful ==
  \A d \in dispatches \cup webhookJobs :
    /\ d.body.status \in Terminal
    /\ d.body.status = status[d.tx]
    /\ d.body.resultCode = resultCode[d.tx]

\* A job BullMQ counts as completed left a settled payment and a webhook job.
CompletedIsReported ==
  \A t \in Txs :
    job[t] = "completed" =>
      /\ status[t] \in Terminal
      /\ \E d \in webhookJobs : d.tx = t

\* A payment moves forward only, and once settled neither its status nor its
\* result code changes, by whatever late run of its job.
StatusOrder == {<<"ABSENT", "PENDING">>, <<"PENDING", "PROCESSING">>, <<"PENDING", "FAILED">>,
                <<"PROCESSING", "SUCCESS">>, <<"PROCESSING", "FAILED">>}
ForwardOnly ==
  [][\A t \in Txs :
       /\ status'[t] # status[t] => <<status[t], status'[t]>> \in StatusOrder
       /\ status[t] \in Terminal => resultCode'[t] = resultCode[t]]_<<status, resultCode>>

\* As long as nothing fails, a merchant hears of a payment once.
OneDispatchEach ==
  [][\A w \in Workers :
       faults' = 0 /\ At(w, "dispatch") /\ pc'[w] = "enqueue" =>
         \A d \in dispatches : d.tx # cur[w]]_vars

\* What the users lost is what the merchants got, payment by payment.  A sum of
\* amounts is counted cent by cent.
Spent(u) == {t \in Txs : Payer[t] = u /\ status[t] = "SUCCESS"}
Earned(m) == {t \in Txs : Payee[t] = m /\ status[t] = "SUCCESS"}
Cents(S) == UNION {{t} \X (1..Amount[t]) : t \in S}
AmountsOf(S) == Cardinality(Cents(S))
MoneyConserved ==
  /\ \A u \in Users : userBalance[u] = OpeningBalance[u] - AmountsOf(Spent(u))
  /\ \A m \in Merchants : merchantBalance[m] = AmountsOf(Earned(m))

-----------------------------------------------------------------------------
(***************************************************************************)
(* The inductive invariant                                                 *)
(***************************************************************************)

\* A worker works on a transaction exactly when it is not idle, starts with no
\* signal or code left over from an earlier one, and knows its event when it reports.
CurOK ==
  \A w \in Workers :
    /\ cur[w] = NoTx <=> At(w, "idle")
    /\ At(w, "idle") => heard[w] = {} /\ subscriber[w] = "off" /\ code[w] = NoCode
    /\ pc[w] \in {"build", "dispatch", "enqueue"} => event[w] # "none"

\* Only an active job is owned, and only a failed one has used up its attempts
\* or its stalls.
JobsBounded ==
  \A t \in Txs :
    /\ owner[t] # NoWorker => job[t] = "active"
    /\ job[t] # "failed" => attemptsMade[t] < MaxAttempts /\ stalls[t] <= MaxStalled

\* A session in phase 1 past its checks holds the user's row, and nobody else
\* of that user can be in flight until it commits; one in phase 2 past its
\* check holds the transaction's row, which is still PROCESSING.
Phase1Locked ==
  \A w \in Workers : At(w, "markProcessing") =>
    /\ userLock[Payer[cur[w]]] = w
    /\ ~HasActiveTransaction(cur[w])
    /\ userBalance[Payer[cur[w]]] >= Amount[cur[w]]
Phase2Locked ==
  \A w \in Workers : At(w, "settle") =>
    /\ txLock[cur[w]] = w
    /\ status[cur[w]] = "PROCESSING"

\* The payload a worker carries is the settled row, whatever happens meanwhile.
BodyTruthful ==
  \A w \in Workers : pc[w] \in {"dispatch", "enqueue"} =>
    /\ body[w].status \in Terminal
    /\ body[w].status = status[cur[w]]
    /\ body[w].resultCode = resultCode[cur[w]]

\* A signal on its way to the switch was accepted by the API, a timeout fired.
SignalsAccepted ==
  /\ inflight \subseteq accepted
  /\ \A w \in Workers : \A r \in heard[w] :
       IF r = "TIMEOUT" THEN cur[w] \in timedOut ELSE <<cur[w], r>> \in accepted
  /\ \A w \in Workers : pc[w] \in {"lockTx", "settle"} => <<cur[w], "CORRECT">> \in accepted

\* A failure code waiting to be written has its reason.
CodeKnown ==
  \A w \in Workers :
    /\ HasReason(cur[w], code[w])
    /\ code[w] # Success
    /\ At(w, "failProcessing") => code[w] \in FlightCodes

\* A worker about to return has queued the webhook of a settled payment.
FinishReported ==
  \A w \in Workers : At(w, "finish") =>
    /\ status[cur[w]] \in Terminal
    /\ \E d \in webhookJobs : d.tx = cur[w]

IInv ==
  /\ TypeOK
  /\ CurOK
  /\ JobsBounded
  /\ OneProcessingPerUser
  /\ ProcessingFunded
  /\ Phase1Locked
  /\ Phase2Locked
  /\ BodyTruthful
  /\ DispatchTruthful
  /\ SignalsAccepted
  /\ CodeKnown
  /\ CodesReasoned
  /\ PaidOnlyWithPin
  /\ FinishReported
  /\ CompletedIsReported

-----------------------------------------------------------------------------
(***************************************************************************)
(* The abstract payment                                                    *)
(***************************************************************************)

Outcome ==
  [t \in Txs |-> CASE status[t] = "SUCCESS" -> "paid"
                   [] status[t] = "FAILED" -> "declined"
                   [] OTHER -> "open"]
Verified == {t \in Txs : <<t, "CORRECT">> \in accepted}

Abstract == INSTANCE Transfer WITH outcome <- Outcome, verified <- Verified

\* Workers, retries, locks and messages together are one atomic payment: every
\* step verifies, pays or declines one payment, or changes nothing that counts.
ImplementsTransfer == Abstract!TransferSpec

-----------------------------------------------------------------------------
(***************************************************************************)
(* Liveness                                                                *)
(***************************************************************************)

Reported(t) == status[t] \in Terminal /\ \E d \in webhookJobs : d.tx = t

\* A queued payment is settled in the end and its merchant's webhook queued,
\* unless its job stalled more often than BullMQ recovers it.
JobsSettle ==
  \A t \in Txs : job[t] = "waiting" ~> Reported(t) \/ stalls[t] > MaxStalled

-----------------------------------------------------------------------------
(***************************************************************************)
(* What the repository says of itself, and the code does not do            *)
(***************************************************************************)

\* "Start waiting for PIN BEFORE publishing status to UI": once the status is
\* published, a PIN that is sent ends the worker's wait.
AnnouncedIsHeard ==
  [][\A w \in Workers, s \in PinSignals :
       At(w, "pin") /\ <<cur[w], s>> \in inflight \ inflight' =>
         subscriber'[w] \in {"closing", "closed"}]_vars
=============================================================================
