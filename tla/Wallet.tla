------------------------------- MODULE Wallet -------------------------------
(***************************************************************************)
(* One owner's wallet row and its ledger: services/wallet.service.js over  *)
(* PostgreSQL.  Every call of credit, debit or refund is an interactive    *)
(* transaction at the database's default READ COMMITTED level: an upsert   *)
(* with an empty update, which is a plain unlocked read when the row       *)
(* exists; then an UPDATE that writes the absolute balance computed from   *)
(* that read, and the INSERT of the ledger row.  The UPDATE holds the row  *)
(* lock until commit, so update, insert and commit are one step here; the  *)
(* read is a step of its own, and anything may happen between the two.     *)
(***************************************************************************)
EXTENDS Integers, Sequences

CONSTANTS Txns,      \* identities of the calls of credit, debit and refund
          Amounts    \* amounts callers pass, the invalid ones included

ASSUME WalletAssumption == Amounts \subseteq Int

VARIABLES wallet,    \* committed balance, or NoRow before the first use
          ledger,    \* committed CreditTransaction rows, oldest first
          pc,        \* where each call is
          req,       \* what each call asks for
          seen       \* the balance its upsert read

vars == <<wallet, ledger, pc, req, seen>>

NoRow    == 0 - 1
TxnTypes == {"credit", "debit", "refund"}
Request  == [type : TxnTypes, amount : Int]
Row      == [txn : Txns, type : TxnTypes, amount : Nat \ {0}, balanceAfter : Int]
InFlight == {"reading", "writing"}
Ended    == {"committed", "rejected", "aborted"}

\* The sign appendTxnAndUpdate gets: +amount from credit and refund, -amount from debit.
Delta(r) == IF r.type = "debit" THEN 0 - r.amount ELSE r.amount

\* The upsert creates a missing row with balance 0.
Opening(b) == IF b = NoRow THEN 0 ELSE b

Init ==
  /\ wallet = NoRow
  /\ ledger = << >>
  /\ pc   = [t \in Txns |-> "idle"]
  /\ req  = [t \in Txns |-> [type |-> "credit", amount |-> 0]]
  /\ seen = [t \in Txns |-> NoRow]

\* ensureWallet and getBalance, which reads through it: create the row on first use.
EnsureWallet ==
  /\ wallet = NoRow
  /\ wallet' = 0
  /\ UNCHANGED <<ledger, pc, req, seen>>

\* credit, debit, refund: the transaction starts once the amount is valid ...
Call(t, type, amount) ==
  /\ pc[t] = "idle"
  /\ amount > 0
  /\ req' = [req EXCEPT ![t] = [type |-> type, amount |-> amount]]
  /\ pc' = [pc EXCEPT ![t] = "reading"]
  /\ UNCHANGED <<wallet, ledger, seen>>

\* ... and INVALID_AMOUNT is thrown before it when it is not.
CallInvalid(t, type, amount) ==
  /\ pc[t] = "idle"
  /\ amount <= 0
  /\ req' = [req EXCEPT ![t] = [type |-> type, amount |-> amount]]
  /\ pc' = [pc EXCEPT ![t] = "rejected"]
  /\ UNCHANGED <<wallet, ledger, seen>>

\* Mutant of ReadWallet: the INSUFFICIENT_CREDITS check is dropped.
ReadUnchecked(t) ==
  /\ pc[t] = "reading"
  /\ seen' = [seen EXCEPT ![t] = wallet]
  /\ pc' = [pc EXCEPT ![t] = "writing"]
  /\ UNCHANGED <<wallet, ledger, req>>

\* The upsert's read and the check that follows it; INSUFFICIENT_CREDITS rolls back.
ReadWallet(t) ==
  /\ pc[t] = "reading"
  /\ seen' = [seen EXCEPT ![t] = wallet]
  /\ pc' = [pc EXCEPT ![t] = IF Opening(wallet) + Delta(req[t]) < 0
                             THEN "rejected" ELSE "writing"]
  /\ UNCHANGED <<wallet, ledger, req>>

\* Mutant of NewRow: the signed amount is stored, without Math.abs.
NewRowSigned(t, after) == [txn |-> t, type |-> req[t].type, amount |-> Delta(req[t]),
                           balanceAfter |-> after]

\* The ledger row creditTransaction.create inserts for call t.
NewRow(t, after) == [txn |-> t, type |-> req[t].type, amount |-> req[t].amount,
                     balanceAfter |-> after]

\* Mutant of Commit: a relative update ("balance = balance + delta") beside the
\* snapshot balanceAfter computed from the read.
CommitIncrement(t) ==
  /\ pc[t] = "writing"
  /\ seen[t] = NoRow => wallet = NoRow
  /\ wallet' = Opening(wallet) + Delta(req[t])
  /\ ledger' = Append(ledger, NewRow(t, Opening(seen[t]) + Delta(req[t])))
  /\ pc' = [pc EXCEPT ![t] = "committed"]
  /\ UNCHANGED <<req, seen>>

\* Mutant of Commit: an error between update and insert, outside a transaction.
CommitWithoutRow(t) ==
  /\ pc[t] = "writing"
  /\ seen[t] = NoRow => wallet = NoRow
  /\ wallet' = Opening(seen[t]) + Delta(req[t])
  /\ ledger' = ledger
  /\ pc' = [pc EXCEPT ![t] = "committed"]
  /\ UNCHANGED <<req, seen>>

\* Mutant of Commit: the unsigned amount is added, so a debit adds credits.
CommitUnsigned(t) ==
  /\ pc[t] = "writing"
  /\ seen[t] = NoRow => wallet = NoRow
  /\ wallet' = Opening(seen[t]) + req[t].amount
  /\ ledger' = Append(ledger, NewRow(t, wallet'))
  /\ pc' = [pc EXCEPT ![t] = "committed"]
  /\ UNCHANGED <<req, seen>>

\* wallet.update to the absolute balance, creditTransaction.create, COMMIT.
Commit(t) ==
  /\ pc[t] = "writing"
  /\ seen[t] = NoRow => wallet = NoRow
  /\ wallet' = Opening(seen[t]) + Delta(req[t])
  /\ ledger' = Append(ledger, NewRow(t, wallet'))
  /\ pc' = [pc EXCEPT ![t] = "committed"]
  /\ UNCHANGED <<req, seen>>

\* Its own INSERT of the wallet row lost the race: unique violation on ownerId.
CreateConflict(t) ==
  /\ pc[t] = "writing"
  /\ seen[t] = NoRow
  /\ wallet # NoRow
  /\ pc' = [pc EXCEPT ![t] = "aborted"]
  /\ UNCHANGED <<wallet, ledger, req, seen>>

\* Transaction timeout, lost connection or a crash of the process: rollback.
Abort(t) ==
  /\ pc[t] \in InFlight
  /\ pc' = [pc EXCEPT ![t] = "aborted"]
  /\ UNCHANGED <<wallet, ledger, req, seen>>

TxnStep(t) ==
  \/ \E type \in TxnTypes, amount \in Amounts : Call(t, type, amount)
  \/ \E type \in TxnTypes, amount \in Amounts : CallInvalid(t, type, amount)
  \/ ReadWallet(t)
  \/ Commit(t)
  \/ CreateConflict(t)
  \/ Abort(t)

Next == EnsureWallet \/ \E t \in Txns : TxnStep(t)

Spec == Init /\ [][Next]_vars

-----------------------------------------------------------------------------
\* Every variable has its type; a row's amount is positive, whatever the sign of the call.
TypeOK ==
  /\ wallet \in Int
  /\ ledger \in Seq(Row)
  /\ pc \in [Txns -> {"idle"} \cup InFlight \cup Ended]
  /\ req \in [Txns -> Request]
  /\ seen \in [Txns -> Int]

\* The signed amount of a ledger row.
Effect(row) == IF row.type = "debit" THEN 0 - row.amount ELSE row.amount

\* The balance the ledger leaves after its first i rows.
BalanceAt(i) == IF i = 0 THEN 0 ELSE ledger[i].balanceAfter

\* Credits are never overdrawn, however calls interleave: the stale read of a
\* debit (wallet.service.js:40-44) still bounds what that debit writes.
NeverOverdrawn ==
  /\ wallet # NoRow => wallet >= 0
  /\ \A i \in 1..Len(ledger) : ledger[i].balanceAfter >= 0

\* The balance column and the newest row's balanceAfter agree, so the ledger
\* explains the balance: the two writes of a call commit or roll back together.
LedgerExplainsBalance == Opening(wallet) = BalanceAt(Len(ledger))

\* A call leaves a row exactly when it committed, and one row at most: a rejected,
\* aborted or crashed call leaves no trace in the ledger.
OneRowPerCommit ==
  \A t \in Txns :
    LET rows == {i \in 1..Len(ledger) : ledger[i].txn = t}
    IN  /\ pc[t] = "committed" <=> rows # {}
        /\ \A i, j \in rows : i = j

\* Each row continues from the row before it: no credit or debit is lost.  This is
\* what "append a transaction & update wallet balance atomically" comes to.
NoLostUpdate ==
  \A i \in 1..Len(ledger) :
    ledger[i].balanceAfter = BalanceAt(i - 1) + Effect(ledger[i])

-----------------------------------------------------------------------------
Stale  == INSTANCE WalletLedger WITH balance <- Opening(wallet), Fresh <- FALSE
Atomic == INSTANCE WalletLedger WITH balance <- Opening(wallet), Fresh <- TRUE

\* What the service really promises when calls overlap: every call takes effect on
\* a balance the wallet had at some point of its history, and on nothing else.
ImplementsStaleLedger == Stale!Spec

\* A commit whose read is still current takes effect on the newest balance, as
\* the comment of appendTxnAndUpdate says of every call.
FreshCommitIsAtomic ==
  [][\A t \in Txns : Commit(t) /\ seen[t] = wallet => Atomic!Next]_vars

\* No two calls on the wallet overlap; under this assumption every behaviour
\* implements the atomic ledger (a theorem of WalletProofs).
OneAtATime ==
  \A t, u \in Txns : pc[t] \in InFlight /\ pc[u] \in InFlight => t = u
=============================================================================
