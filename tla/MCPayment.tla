----------------------------- MODULE MCPayment ------------------------------
(***************************************************************************)
(* Small instances of PaymentWorker.                                       *)
(***************************************************************************)
EXTENDS PaymentProperties, TLC

CONSTANTS t1, t2, u1, m1, w1, w2

\* Both payments are the same user's, who can pay for either but not for both.
OneUser == [t \in Txs |-> u1]
OneMerchant == [t \in Txs |-> m1]
Amounts == [t \in Txs |-> IF t = t1 THEN 2 ELSE 1]
Balances == [u \in Users |-> 2]

\* The two workers are interchangeable (for safety only).
WorkerSymmetry == Permutations(Workers)
=============================================================================
