------------------------------ MODULE Transfer ------------------------------
(***************************************************************************)
(* What sim-pesa promises about one STK push, with nothing of how it is    *)
(* done: a payment is open until it is either paid, which moves its amount *)
(* from the payer to the payee in one step, or declined, which moves       *)
(* nothing.  A payment is paid only after its PIN was verified and only    *)
(* from a sufficient balance, and a settled payment never changes again.   *)
(***************************************************************************)
EXTENDS Integers

CONSTANTS Txs,            \* payments, one per CheckoutRequestID
          Users,          \* payers (phone numbers)
          Merchants,      \* payees (short codes)
          Payer, Payee,   \* the user and the merchant of each payment
          Amount,         \* the amount of each payment
          OpeningBalance  \* what each user holds at the start

VARIABLES outcome,         \* "open", "paid" or "declined", per payment
          verified,        \* payments whose PIN was verified
          userBalance,
          merchantBalance

transferVars == <<outcome, verified, userBalance, merchantBalance>>

TransferInit ==
  /\ outcome = [t \in Txs |-> "open"]
  /\ verified = {}
  /\ userBalance = OpeningBalance
  /\ merchantBalance = [m \in Merchants |-> 0]

Verify(t) ==
  /\ outcome[t] = "open"
  /\ verified' = verified \cup {t}
  /\ UNCHANGED <<outcome, userBalance, merchantBalance>>

Pay(t) ==
  /\ outcome[t] = "open"
  /\ t \in verified
  /\ userBalance[Payer[t]] >= Amount[t]
  /\ outcome' = [outcome EXCEPT ![t] = "paid"]
  /\ userBalance' = [userBalance EXCEPT ![Payer[t]] = @ - Amount[t]]
  /\ merchantBalance' = [merchantBalance EXCEPT ![Payee[t]] = @ + Amount[t]]
  /\ UNCHANGED verified

Decline(t) ==
  /\ outcome[t] = "open"
  /\ outcome' = [outcome EXCEPT ![t] = "declined"]
  /\ UNCHANGED <<verified, userBalance, merchantBalance>>

TransferNext == \E t \in Txs : Verify(t) \/ Pay(t) \/ Decline(t)

TransferSpec == TransferInit /\ [][TransferNext]_transferVars
=============================================================================
