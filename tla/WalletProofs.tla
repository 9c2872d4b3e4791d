---------------------------- MODULE WalletProofs ----------------------------
(***************************************************************************)
(* Theorems about Wallet, for any set of calls and any amounts.            *)
(*                                                                         *)
(* NeverOverdrawn is not inductive: a call that is about to write may write*)
(* a negative balance unless its check bounds what it writes, and a row's  *)
(* amount is positive only because the call was validated before it        *)
(* started.  IInv adds both, and says where a stale balance comes from.    *)
(***************************************************************************)
EXTENDS Wallet, TLAPS

\* A call in flight passed the INVALID_AMOUNT check.
ValidRequests ==
  \A t \in Txns : pc[t] \in InFlight => req[t].amount \in Amounts /\ req[t].amount > 0

\* A call about to write passed the INSUFFICIENT_CREDITS check.
WritesBounded ==
  \A t \in Txns : pc[t] = "writing" => Opening(seen[t]) + Delta(req[t]) >= 0

\* What a call about to write has read is a balance of the wallet's history.
SeenInHistory ==
  \A t \in Txns : pc[t] = "writing" =>
    \E i \in 0..Len(ledger) : Opening(seen[t]) = BalanceAt(i)

IInv ==
  /\ TypeOK
  /\ ValidRequests
  /\ WritesBounded
  /\ NeverOverdrawn
  /\ LedgerExplainsBalance
  /\ SeenInHistory

-----------------------------------------------------------------------------
\* What a commit appends: the history grows by one balance and keeps the others.
LEMMA CommitExtendsHistory ==
  ASSUME TypeOK, ValidRequests, NEW t \in Txns, Commit(t)
  PROVE  /\ Len(ledger') = Len(ledger) + 1
         /\ ledger' \in Seq(Row)
         /\ \A i \in 1..Len(ledger) : ledger'[i] = ledger[i]
         /\ ledger'[Len(ledger) + 1] = NewRow(t, wallet')
         /\ \A i \in 0..Len(ledger) : BalanceAt(i)' = BalanceAt(i)
         /\ BalanceAt(Len(ledger))' = wallet'
<1>1. wallet' \in Int
  BY DEF TypeOK, Commit, Opening, Delta, Request, NoRow
<1>2. NewRow(t, wallet') \in Row
  BY <1>1 DEF TypeOK, ValidRequests, Commit, NewRow, Row, Request, InFlight
<1>3. ledger' = Append(ledger, NewRow(t, wallet'))
  BY DEF Commit
<1>4. /\ Len(ledger') = Len(ledger) + 1
      /\ ledger' \in Seq(Row)
      /\ \A i \in 1..Len(ledger) : ledger'[i] = ledger[i]
      /\ ledger'[Len(ledger) + 1] = NewRow(t, wallet')
  BY <1>2, <1>3 DEF TypeOK
<1>5. Len(ledger) \in Nat
  BY DEF TypeOK
<1>6. \A i \in 0..Len(ledger) : BalanceAt(i)' = BalanceAt(i)
  BY <1>4, <1>5 DEF BalanceAt
<1>7. BalanceAt(Len(ledger))' = wallet'
  BY <1>4, <1>5 DEF BalanceAt, NewRow
<1> QED
  BY <1>4, <1>6, <1>7

\* Every balance of the history is an integer.
LEMMA BalanceAtInt ==
  ASSUME TypeOK
  PROVE  \A i \in 0..Len(ledger) : BalanceAt(i) \in Int
<1> SUFFICES ASSUME NEW i \in 0..Len(ledger)
             PROVE  BalanceAt(i) \in Int
  OBVIOUS
<1>1. i # 0 => ledger[i] \in Row
  BY DEF TypeOK
<1> QED
  BY <1>1 DEF BalanceAt, Row

-----------------------------------------------------------------------------
\* The initial state satisfies the inductive invariant.
LEMMA InitEstablishesIInv == Init => IInv
<1> SUFFICES ASSUME Init PROVE IInv
  OBVIOUS
<1>1. TypeOK
  BY DEF Init, TypeOK, Request, TxnTypes, NoRow, Row
<1>2. Len(ledger) = 0
  BY DEF Init
<1>3. ValidRequests /\ WritesBounded /\ SeenInHistory
  BY DEF Init, ValidRequests, WritesBounded, SeenInHistory, InFlight
<1>4. NeverOverdrawn /\ LedgerExplainsBalance
  BY <1>2 DEF Init, NeverOverdrawn, LedgerExplainsBalance, Opening, BalanceAt
<1> QED
  BY <1>1, <1>3, <1>4 DEF IInv

\* A step that commits nothing and creates no row leaves the history alone: the
\* parts of IInv that speak of it carry over.
LEMMA QuietStep ==
  ASSUME IInv, UNCHANGED <<wallet, ledger>>
  PROVE  NeverOverdrawn' /\ LedgerExplainsBalance' /\ (\A i \in 0..Len(ledger) : BalanceAt(i)' = BalanceAt(i))
BY DEF IInv, NeverOverdrawn, LedgerExplainsBalance, BalanceAt

\* Every step keeps the inductive invariant.
LEMMA StepKeepsIInv == IInv /\ [Next]_vars => IInv'
<1> SUFFICES ASSUME IInv, [Next]_vars PROVE IInv'
  OBVIOUS
<1> USE WalletAssumption
<1>1. CASE EnsureWallet
  <2>1. TypeOK'
    BY <1>1 DEF IInv, TypeOK, EnsureWallet
  <2>2. ValidRequests' /\ WritesBounded'
    BY <1>1 DEF IInv, EnsureWallet, ValidRequests, WritesBounded
  <2>3. NeverOverdrawn' /\ LedgerExplainsBalance' /\ SeenInHistory'
    BY <1>1 DEF IInv, EnsureWallet, NeverOverdrawn, LedgerExplainsBalance, SeenInHistory,
                BalanceAt, Opening, NoRow
  <2> QED
    BY <2>1, <2>2, <2>3 DEF IInv
<1>2. ASSUME NEW t \in Txns, NEW type \in TxnTypes, NEW amount \in Amounts,
             Call(t, type, amount)
      PROVE  IInv'
  <2>1. TypeOK'
    BY <1>2 DEF IInv, TypeOK, Call, Request, InFlight
  <2>2. ValidRequests' /\ WritesBounded'
    BY <1>2 DEF IInv, TypeOK, Call, ValidRequests, WritesBounded, InFlight
  <2>3. SeenInHistory'
    BY <1>2, QuietStep DEF IInv, TypeOK, Call, SeenInHistory, InFlight
  <2> QED
    BY <1>2, <2>1, <2>2, <2>3, QuietStep DEF IInv, Call
<1>3. ASSUME NEW t \in Txns, NEW type \in TxnTypes, NEW amount \in Amounts,
             CallInvalid(t, type, amount)
      PROVE  IInv'
  <2>1. TypeOK'
    BY <1>3 DEF IInv, TypeOK, CallInvalid, Request, Ended
  <2>2. ValidRequests' /\ WritesBounded'
    BY <1>3 DEF IInv, TypeOK, CallInvalid, ValidRequests, WritesBounded, InFlight
  <2>3. SeenInHistory'
    BY <1>3, QuietStep DEF IInv, TypeOK, CallInvalid, SeenInHistory, InFlight
  <2> QED
    BY <1>3, <2>1, <2>2, <2>3, QuietStep DEF IInv, CallInvalid
<1>4. ASSUME NEW t \in Txns, ReadWallet(t)
      PROVE  IInv'
  <2>1. TypeOK'
    BY <1>4 DEF IInv, TypeOK, ReadWallet, InFlight, Ended
  <2>2. ValidRequests'
    BY <1>4 DEF IInv, TypeOK, ReadWallet, ValidRequests, InFlight
  <2>3. WritesBounded'
    BY <1>4 DEF IInv, TypeOK, ReadWallet, WritesBounded, Opening, Delta, Request, NoRow
  <2>4. SeenInHistory'
    <3>1. Len(ledger) \in Nat
      BY DEF IInv, TypeOK
    <3>2. Opening(wallet) = BalanceAt(Len(ledger))
      BY DEF IInv, LedgerExplainsBalance
    <3>3. /\ seen' = [seen EXCEPT ![t] = wallet]
          /\ seen \in [Txns -> Int]
          /\ \A u \in Txns : u # t => pc'[u] = pc[u]
          /\ UNCHANGED ledger
      BY <1>4 DEF IInv, TypeOK, ReadWallet
    <3>4. UNCHANGED <<wallet, ledger>>
      BY <1>4 DEF ReadWallet
    <3> SUFFICES ASSUME NEW u \in Txns, pc'[u] = "writing"
                 PROVE  \E i \in 0..Len(ledger) : Opening(seen'[u]) = BalanceAt(i)'
      BY <3>3 DEF SeenInHistory, Opening
    <3>5. CASE u = t
      BY <3>1, <3>2, <3>3, <3>4, <3>5, QuietStep DEF Opening
    <3>6. CASE u # t
      BY <3>3, <3>4, <3>6, QuietStep DEF IInv, SeenInHistory
    <3> QED
      BY <3>5, <3>6
  <2> QED
    BY <1>4, <2>1, <2>2, <2>3, <2>4, QuietStep DEF IInv, ReadWallet
<1>5. ASSUME NEW t \in Txns, Commit(t)
      PROVE  IInv'
  <2>1. /\ Len(ledger) \in Nat
        /\ Len(ledger') = Len(ledger) + 1
        /\ ledger' \in Seq(Row)
        /\ \A i \in 1..Len(ledger) : ledger'[i] = ledger[i]
        /\ ledger'[Len(ledger) + 1] = NewRow(t, wallet')
        /\ \A i \in 0..Len(ledger) : BalanceAt(i)' = BalanceAt(i)
        /\ BalanceAt(Len(ledger))' = wallet'
    BY <1>5, CommitExtendsHistory DEF IInv, TypeOK
  <2>2. /\ wallet' \in Int
        /\ wallet' >= 0
    BY <1>5 DEF IInv, TypeOK, WritesBounded, Commit, Opening, Delta, Request, NoRow
  <2>3. TypeOK'
    BY <1>5, <2>1, <2>2 DEF IInv, TypeOK, Commit, Ended
  <2>4. ValidRequests' /\ WritesBounded'
    BY <1>5 DEF IInv, TypeOK, Commit, ValidRequests, WritesBounded, InFlight
  <2>5. NeverOverdrawn'
    BY <2>1, <2>2 DEF IInv, NeverOverdrawn, NewRow
  <2>6. LedgerExplainsBalance'
    BY <2>1, <2>2 DEF LedgerExplainsBalance, Opening, NoRow
  <2>7. SeenInHistory'
    BY <1>5, <2>1 DEF IInv, TypeOK, Commit, SeenInHistory
  <2> QED
    BY <2>3, <2>4, <2>5, <2>6, <2>7 DEF IInv
<1>6. ASSUME NEW t \in Txns, CreateConflict(t) \/ Abort(t)
      PROVE  IInv'
  <2>1. /\ UNCHANGED <<wallet, ledger, req, seen>>
        /\ pc' = [pc EXCEPT ![t] = "aborted"]
    BY <1>6 DEF CreateConflict, Abort
  <2>2. TypeOK'
    BY <2>1 DEF IInv, TypeOK, Ended
  <2>3. ValidRequests' /\ WritesBounded'
    BY <2>1 DEF IInv, TypeOK, ValidRequests, WritesBounded, InFlight
  <2>4. SeenInHistory'
    BY <2>1, QuietStep DEF IInv, TypeOK, SeenInHistory
  <2> QED
    BY <2>1, <2>2, <2>3, <2>4, QuietStep DEF IInv
<1>7. CASE UNCHANGED vars
  BY <1>7 DEF vars, IInv, TypeOK, ValidRequests, WritesBounded, NeverOverdrawn,
              LedgerExplainsBalance, SeenInHistory, BalanceAt
<1> QED
  BY <1>1, <1>2, <1>3, <1>4, <1>5, <1>6, <1>7 DEF Next, TxnStep

\* IInv holds in every reachable state.
THEOREM InductiveInvariant == Spec => []IInv
<1> QED
  BY InitEstablishesIInv, StepKeepsIInv, PTL DEF Spec

\* Type correctness of the wallet, its ledger and its calls.
THEOREM TypeCorrect == Spec => []TypeOK
<1>1. IInv => TypeOK
  BY DEF IInv
<1> QED
  BY <1>1, InductiveInvariant, PTL

\* No interleaving of credits, debits, refunds, rollbacks and crashes overdraws a
\* wallet (wallet.service.js:40-44).
THEOREM Overdraft == Spec => []NeverOverdrawn
<1>1. IInv => NeverOverdrawn
  BY DEF IInv
<1> QED
  BY <1>1, InductiveInvariant, PTL

\* The balance column always is what the newest ledger row says.
THEOREM LedgerAgrees == Spec => []LedgerExplainsBalance
<1>1. IInv => LedgerExplainsBalance
  BY DEF IInv
<1> QED
  BY <1>1, InductiveInvariant, PTL

-----------------------------------------------------------------------------
\* A step other than a commit leaves what the ledger's clients see unchanged.
LEMMA OtherStepsStutter ==
  ASSUME [Next]_vars, \A t \in Txns : ~ Commit(t)
  PROVE  UNCHANGED <<Opening(wallet), ledger>>
<1>1. CASE EnsureWallet
  BY <1>1 DEF EnsureWallet, Opening
<1>2. ASSUME NEW t \in Txns, TxnStep(t) PROVE UNCHANGED <<Opening(wallet), ledger>>
  BY <1>2 DEF TxnStep, Call, CallInvalid, ReadWallet, CreateConflict, Abort, Opening
<1>3. CASE UNCHANGED vars
  BY <1>3 DEF vars, Opening
<1> QED
  BY <1>1, <1>2, <1>3 DEF Next

-----------------------------------------------------------------------------
(* One row per commit. *)

\* A commit's row is the call's first, and the only one it will have.
LEMMA StepKeepsOneRow ==
  IInv /\ OneRowPerCommit /\ [Next]_vars => OneRowPerCommit'
<1> DEFINE Rows(t) == {i \in 1..Len(ledger) : ledger[i].txn = t}
<1> SUFFICES ASSUME IInv, OneRowPerCommit, [Next]_vars PROVE OneRowPerCommit'
  OBVIOUS
<1>1. CASE \E t \in Txns : Commit(t)
  <2>1. PICK t \in Txns : Commit(t)
    BY <1>1
  <2>2. /\ Len(ledger) \in Nat
        /\ Len(ledger') = Len(ledger) + 1
        /\ \A i \in 1..Len(ledger) : ledger'[i] = ledger[i]
        /\ ledger'[Len(ledger) + 1].txn = t
    <3>1. TypeOK /\ ValidRequests
      BY DEF IInv
    <3>2. Len(ledger) \in Nat
      BY <3>1 DEF TypeOK
    <3>3. /\ Len(ledger') = Len(ledger) + 1
          /\ \A i \in 1..Len(ledger) : ledger'[i] = ledger[i]
          /\ ledger'[Len(ledger) + 1] = NewRow(t, wallet')
      BY <2>1, <3>1, CommitExtendsHistory
    <3>4. NewRow(t, wallet').txn = t
      BY DEF NewRow
    <3> QED
      BY <3>2, <3>3, <3>4
  <2>3. Rows(t) = {}
    BY <2>1 DEF OneRowPerCommit, Commit
  <2>4. Rows(t)' = {Len(ledger) + 1}
    BY <2>2, <2>3
  <2>5. \A u \in Txns \ {t} : Rows(u)' = Rows(u)
    BY <2>2
  <2>6. pc'[t] = "committed" /\ \A u \in Txns \ {t} : pc'[u] = pc[u]
    BY <2>1 DEF IInv, TypeOK, Commit
  <2>7. ASSUME NEW u \in Txns
        PROVE  /\ pc'[u] = "committed" <=> Rows(u)' # {}
               /\ \A i, j \in Rows(u)' : i = j
    <3>1. CASE u = t
      BY <2>4, <2>6, <3>1
    <3>2. CASE u # t
      <4>1. /\ pc[u] = "committed" <=> Rows(u) # {}
            /\ \A i, j \in Rows(u) : i = j
        BY DEF OneRowPerCommit
      <4> HIDE DEF Rows
      <4> QED
        BY <2>5, <2>6, <3>2, <4>1
    <3> QED
      BY <3>1, <3>2
  <2> QED
    BY <2>7 DEF OneRowPerCommit
<1>2. CASE \A t \in Txns : ~ Commit(t)
  <2>1. UNCHANGED ledger
    BY <1>2, OtherStepsStutter
  <2>2. \A t \in Txns : pc'[t] = "committed" <=> pc[t] = "committed"
    BY <1>2 DEF Next, vars, IInv, TypeOK, EnsureWallet, TxnStep, Call, CallInvalid, ReadWallet,
                CreateConflict, Abort, InFlight
  <2> QED
    BY <2>1, <2>2 DEF OneRowPerCommit
<1> QED
  BY <1>1, <1>2

\* A call leaves one ledger row when it committed, and none when it was rejected, rolled
\* back or cut off by a crash (wallet.service.js:46-78).
THEOREM OneRowEach == Spec => []OneRowPerCommit
<1>1. Init => OneRowPerCommit
  <2> SUFFICES ASSUME Init PROVE OneRowPerCommit
    OBVIOUS
  <2>1. Len(ledger) = 0 /\ \A t \in Txns : pc[t] # "committed"
    BY DEF Init
  <2>2. 1..Len(ledger) = {}
    BY <2>1
  <2>3. \A t \in Txns : {i \in 1..Len(ledger) : ledger[i].txn = t} = {}
    BY <2>2, Zenon
  <2> QED
    BY <2>1, <2>3, Zenon DEF OneRowPerCommit
<1> QED
  BY <1>1, StepKeepsOneRow, InductiveInvariant, PTL DEF Spec

-----------------------------------------------------------------------------
(* Refinement. *)

\* A commit posts to the ledger on top of the balance it read.
LEMMA CommitPosts ==
  ASSUME IInv, NEW t \in Txns, Commit(t),
         NEW i \in 0..Len(ledger), Opening(seen[t]) = BalanceAt(i)
  PROVE  /\ Stale!Next
         /\ i = Len(ledger) => Atomic!Next
<1>1. /\ req[t].amount > 0
      /\ req[t].type \in TxnTypes
      /\ req[t].amount \in Amounts
      /\ req[t].amount \in Int
      /\ wallet' \in Int
      /\ wallet' >= 0
      /\ wallet' = BalanceAt(i) + Delta(req[t])
  BY BalanceAtInt DEF IInv, TypeOK, ValidRequests, WritesBounded, Commit, InFlight, Request, Delta
<1>2. Opening(wallet') = wallet'
  BY <1>1 DEF Opening, NoRow
<1>3. ledger' = Append(ledger, NewRow(t, wallet'))
  BY DEF Commit
<1>4. Delta(req[t]) = Stale!Effect(req[t].type, req[t].amount)
  BY DEF Delta, Stale!Effect
<1>5. BalanceAt(i) = Stale!BalanceAfter(i)
  BY DEF BalanceAt, Stale!BalanceAfter
<1>6. Stale!Post(t, req[t].type, req[t].amount, i)
  BY <1>1, <1>2, <1>3, <1>4, <1>5 DEF Stale!Post, NewRow
<1>7. i = Len(ledger) => Atomic!Post(t, req[t].type, req[t].amount, i)
  BY <1>1, <1>2, <1>3, <1>4, <1>5 DEF Atomic!Post, Atomic!Effect, Atomic!BalanceAfter,
                                      Stale!Effect, Stale!BalanceAfter, NewRow
<1>8. req[t].type \in Stale!TxnTypes /\ req[t].type \in Atomic!TxnTypes
  BY <1>1 DEF TxnTypes, Stale!TxnTypes, Atomic!TxnTypes
<1> QED
  BY <1>1, <1>6, <1>7, <1>8 DEF Stale!Next, Atomic!Next

\* The wallet implements the ledger whose calls may start from any balance of its
\* history: that much holds however calls interleave.
THEOREM StaleRefinement == Spec => ImplementsStaleLedger
<1>1. Init => Stale!Init
  BY DEF Init, Stale!Init, Opening
<1>2. IInv /\ [Next]_vars => [Stale!Next]_<<Opening(wallet), ledger>>
  <2> SUFFICES ASSUME IInv, [Next]_vars, NEW t \in Txns, Commit(t)
               PROVE  Stale!Next
    BY OtherStepsStutter
  <2>1. PICK i \in 0..Len(ledger) : Opening(seen[t]) = BalanceAt(i)
    BY DEF IInv, SeenInHistory, Commit
  <2> QED
    BY <2>1, CommitPosts
<1> QED
  BY <1>1, <1>2, InductiveInvariant, PTL DEF Spec, ImplementsStaleLedger, Stale!Spec

\* A commit whose read is still current starts from the newest balance.
THEOREM FreshCommits == Spec => FreshCommitIsAtomic
<1>1. IInv /\ [Next]_vars =>
        [\A t \in Txns : Commit(t) /\ seen[t] = wallet => Atomic!Next]_vars
  <2> SUFFICES ASSUME IInv, NEW t \in Txns, Commit(t), seen[t] = wallet
               PROVE  Atomic!Next
    OBVIOUS
  <2>1. /\ Len(ledger) \in 0..Len(ledger)
        /\ Opening(seen[t]) = BalanceAt(Len(ledger))
    BY DEF IInv, TypeOK, LedgerExplainsBalance
  <2> QED
    BY <2>1, CommitPosts
<1> QED
  BY <1>1, InductiveInvariant, PTL DEF Spec, FreshCommitIsAtomic

\* While calls do not overlap, what a call has read stays the balance.
ReadsCurrent ==
  \A t \in Txns : pc[t] = "writing" => Opening(seen[t]) = Opening(wallet)

\* While no two calls overlap, what a call has read stays the newest balance.
LEMMA StepKeepsReadsCurrent ==
  IInv /\ ReadsCurrent /\ OneAtATime /\ [Next]_vars => ReadsCurrent'
<1> SUFFICES ASSUME IInv, ReadsCurrent, OneAtATime, [Next]_vars PROVE ReadsCurrent'
  OBVIOUS
<1>1. CASE \E t \in Txns : Commit(t)
  BY <1>1 DEF IInv, TypeOK, ReadsCurrent, OneAtATime, Commit, InFlight
<1>2. CASE EnsureWallet
  BY <1>2 DEF ReadsCurrent, EnsureWallet, Opening
<1>3. ASSUME NEW t \in Txns, TxnStep(t), ~ Commit(t) PROVE ReadsCurrent'
  <2>1. CASE ReadWallet(t)
    BY <2>1 DEF IInv, TypeOK, ReadsCurrent, ReadWallet, Opening
  <2>2. /\ ~ ReadWallet(t) => UNCHANGED <<wallet, seen>>
        /\ ~ ReadWallet(t) => \A u \in Txns : pc'[u] = "writing" => pc[u] = "writing"
    BY <1>3 DEF IInv, TypeOK, TxnStep, Call, CallInvalid, CreateConflict, Abort
  <2> QED
    BY <2>1, <2>2 DEF ReadsCurrent, Opening
<1>4. CASE UNCHANGED vars
  BY <1>4 DEF vars, ReadsCurrent, Opening
<1> QED
  BY <1>1, <1>2, <1>3, <1>4 DEF Next

\* Calls that do not overlap get the promise of wallet.service.js:27-30 in full:
\* overlap is the only way to lose an update.
THEOREM SerialRefinement == Spec /\ []OneAtATime => Atomic!Spec
<1>1. Init => Atomic!Init /\ ReadsCurrent
  BY DEF Init, Atomic!Init, Opening, ReadsCurrent
<1>2. IInv /\ ReadsCurrent /\ [Next]_vars => [Atomic!Next]_<<Opening(wallet), ledger>>
  <2> SUFFICES ASSUME IInv, ReadsCurrent, [Next]_vars, NEW t \in Txns, Commit(t)
               PROVE  Atomic!Next
    BY OtherStepsStutter
  <2>1. /\ Len(ledger) \in 0..Len(ledger)
        /\ Opening(seen[t]) = BalanceAt(Len(ledger))
    BY DEF IInv, TypeOK, LedgerExplainsBalance, ReadsCurrent, Commit
  <2> QED
    BY <2>1, CommitPosts
<1> QED
  BY <1>1, <1>2, StepKeepsReadsCurrent, InductiveInvariant, PTL DEF Spec, Atomic!Spec
=============================================================================
