---------------------------- MODULE WalletLedger ----------------------------
(***************************************************************************)
(* What a wallet service promises its callers: a balance and an            *)
(* append-only ledger that change together, in one indivisible step that   *)
(* never overdraws.  With Fresh = TRUE every call starts from the newest   *)
(* balance: the promise of services/wallet.service.js ("append a           *)
(* transaction & update wallet balance atomically").  With Fresh = FALSE a *)
(* call may start from any balance of the history: all that Wallet.tla,    *)
(* the program, keeps when calls overlap.                                  *)
(***************************************************************************)
EXTENDS Integers, Sequences

CONSTANTS Txns,       \* identities of the calls of credit, debit and refund
          Amounts,    \* the amounts those calls may ask for
          Fresh       \* a call starts from the newest balance

VARIABLES balance,    \* the owner's credits
          ledger      \* the CreditTransaction rows, oldest first

TxnTypes == {"credit", "debit", "refund"}

Effect(type, amount) == IF type = "debit" THEN 0 - amount ELSE amount

BalanceAfter(i) == IF i = 0 THEN 0 ELSE ledger[i].balanceAfter

Init == balance = 0 /\ ledger = << >>

\* One call takes effect on top of the balance row i left; the new row records
\* the balance it leaves behind.
Post(t, type, amount, i) ==
  /\ amount > 0
  /\ Fresh => i = Len(ledger)
  /\ BalanceAfter(i) + Effect(type, amount) >= 0
  /\ balance' = BalanceAfter(i) + Effect(type, amount)
  /\ ledger' = Append(ledger, [txn |-> t, type |-> type, amount |-> amount,
                               balanceAfter |-> balance'])

Next == \E t \in Txns, type \in TxnTypes, amount \in Amounts, i \in 0..Len(ledger) :
          Post(t, type, amount, i)

Spec == Init /\ [][Next]_<<balance, ledger>>
=============================================================================
