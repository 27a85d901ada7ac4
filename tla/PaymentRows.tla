---------------------------- MODULE PaymentRows -----------------------------
(***************************************************************************)
(* The rows of the PostgreSQL database that a payment reads and writes     *)
(* (packages/db): the transactions, users and merchants tables, the row    *)
(* locks taken with SELECT ... FOR UPDATE, and the SQL statements of       *)
(* packages/db/src/queries as operators.  PostgreSQL runs READ COMMITTED:  *)
(* a statement sees what was committed when it began, an UPDATE waits for  *)
(* the row's lock and then evaluates its WHERE clause on the new version.  *)
(*                                                                         *)
(* Amounts are NUMERIC(10,2): they are counted here in cents.  The merchant*)
(* row's lock is left out: a worker takes it after every row it shares with*)
(* another payment, so it delays but never decides.  So are the share locks*)
(* that the foreign keys of an INSERT take.                                *)
(***************************************************************************)
EXTENDS Integers, Parties

CONSTANTS Users,           \* users.phone_number
          Merchants,       \* merchants.short_code
          Payer, Payee,    \* transactions.phone_number and .short_code
          Amount,          \* transactions.amount, in cents
          OpeningBalance   \* users.balance before the first payment

ASSUME RowsAssumption ==
  /\ Payer \in [Txs -> Users]
  /\ Payee \in [Txs -> Merchants]
  /\ Amount \in [Txs -> Nat \ {0}]
  /\ OpeningBalance \in [Users -> Nat]

VARIABLES status,           \* transactions.status; "ABSENT" before the INSERT
          resultCode,       \* transactions.result_code; NoCode for NULL
          userBalance,      \* users.balance
          merchantBalance,  \* merchants.balance
          userLock,         \* the session holding a user's row
          txLock            \* the session holding a transaction's row

rowVars == <<status, resultCode, userBalance, merchantBalance, userLock, txLock>>

NoCode == -1

\* result codes: RESULT_CODES and getResultCode, and the literals of the worker
Success == 0
InsufficientFunds == 1
Conflict == 1001
Cancelled == 1032
TimedOut == 1037
WrongPin == 2001
SystemError == 9999
ResultCodes == {Success, InsufficientFunds, Conflict, Cancelled, TimedOut,
                WrongPin, SystemError}

Terminal == {"SUCCESS", "FAILED"}
Statuses == {"ABSENT", "PENDING", "PROCESSING"} \cup Terminal

\* A session that takes a lock, and one that lets go of everything it holds
\* (COMMIT, ROLLBACK, or the server noticing that the connection is gone).
Take(lock, r, w) == [lock EXCEPT ![r] = w]
LetGo(lock, w) == [r \in DOMAIN lock |-> IF lock[r] = w THEN NoWorker ELSE lock[r]]

ReleaseAll(w) ==
  /\ userLock' = LetGo(userLock, w)
  /\ txLock' = LetGo(txLock, w)

\* mutant: the check is forgotten
HasActiveTransactionForgotten(t) == FALSE

\* hasActiveTransactionForUser: another payment of the same user is in flight.
HasActiveTransaction(t) ==
  \E o \in Txs \ {t} : Payer[o] = Payer[t] /\ status[o] = "PROCESSING"

RowsInit ==
  /\ status = [t \in Txs |-> "ABSENT"]
  /\ resultCode = [t \in Txs |-> NoCode]
  /\ userBalance = OpeningBalance
  /\ merchantBalance = [m \in Merchants |-> 0]
  /\ userLock = [u \in Users |-> NoWorker]
  /\ txLock = [t \in Txs |-> NoWorker]

\* insertNewTransaction: the row, as PENDING, committed.
InsertPending(t) ==
  /\ status[t] = "ABSENT"
  /\ status' = [status EXCEPT ![t] = "PENDING"]
  /\ UNCHANGED <<resultCode, userBalance, merchantBalance, userLock, txLock>>

\* mutant: the UPDATE has no status guard
CommitProcessingUnguarded(w, t) ==
  /\ txLock[t] = NoWorker
  /\ status' = [status EXCEPT ![t] = "PROCESSING"]
  /\ ReleaseAll(w)
  /\ UNCHANGED <<resultCode, userBalance, merchantBalance>>

\* markTransactionProcessing and COMMIT.  The UPDATE is guarded by the status
\* but its row count is never looked at.
CommitProcessing(w, t) ==
  /\ txLock[t] = NoWorker
  /\ status' = [status EXCEPT ![t] = IF @ = "PENDING" THEN "PROCESSING" ELSE @]
  /\ ReleaseAll(w)
  /\ UNCHANGED <<resultCode, userBalance, merchantBalance>>

\* mutant: the UPDATE has no status guard
MarkFailedUnguarded(t, from, code) ==
  /\ txLock[t] = NoWorker
  /\ status' = [status EXCEPT ![t] = "FAILED"]
  /\ resultCode' = [resultCode EXCEPT ![t] = code]
  /\ UNCHANGED <<userBalance, merchantBalance, userLock, txLock>>

\* markTransactionFailed in a statement of its own: it waits for the row and
\* changes it only when the status is still the one named.
MarkFailed(t, from, code) ==
  /\ txLock[t] = NoWorker
  /\ IF status[t] = from
       THEN /\ status' = [status EXCEPT ![t] = "FAILED"]
            /\ resultCode' = [resultCode EXCEPT ![t] = code]
       ELSE UNCHANGED <<status, resultCode>>
  /\ UNCHANGED <<userBalance, merchantBalance, userLock, txLock>>

\* debitUser, creditMerchant, markTransactionSuccess and COMMIT: the debit and
\* the credit carry no guard, the status does.
CommitPayment(w, t) ==
  /\ userBalance' = [userBalance EXCEPT ![Payer[t]] = @ - Amount[t]]
  /\ merchantBalance' = [merchantBalance EXCEPT ![Payee[t]] = @ + Amount[t]]
  /\ IF status[t] = "PROCESSING"
       THEN /\ status' = [status EXCEPT ![t] = "SUCCESS"]
            /\ resultCode' = [resultCode EXCEPT ![t] = Success]
       ELSE UNCHANGED <<status, resultCode>>
  /\ ReleaseAll(w)

\* A balance is never negative: the table's CHECK (balance >= 0), which this
\* module leaves out, would never have had to refuse a debit.
RowsTypeOK ==
  /\ status \in [Txs -> Statuses]
  /\ resultCode \in [Txs -> ResultCodes \cup {NoCode}]
  /\ userBalance \in [Users -> Nat]
  /\ merchantBalance \in [Merchants -> Nat]
  /\ userLock \in [Users -> Workers \cup {NoWorker}]
  /\ txLock \in [Txs -> Workers \cup {NoWorker}]
=============================================================================
