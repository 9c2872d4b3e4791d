----------------------------- MODULE Settlement -----------------------------
(***************************************************************************)
(* What billing promises for every payment: the customer pays, the credits *)
(* arrive once, and a refund takes them back once.  This is the promise of *)
(* docs/STRIPE_INTEGRATION.md ("Prevents duplicate wallet credits") and of *)
(* the idempotency checks in routes/stripe.webhooks.js.                    *)
(***************************************************************************)
EXTENDS Naturals

CONSTANT Payments    \* checkout sessions

VARIABLES paid,      \* payments the customer has made
          credits,   \* ledger rows that credit a payment
          debits     \* ledger rows that take a refunded payment back

Init ==
  /\ paid = {}
  /\ credits = [p \in Payments |-> 0]
  /\ debits = [p \in Payments |-> 0]

Pay(p) ==
  /\ p \notin paid
  /\ paid' = paid \cup {p}
  /\ UNCHANGED <<credits, debits>>

Credit(p) ==
  /\ p \in paid
  /\ credits[p] = 0
  /\ credits' = [credits EXCEPT ![p] = 1]
  /\ UNCHANGED <<paid, debits>>

TakeBack(p) ==
  /\ credits[p] = 1
  /\ debits[p] = 0
  /\ debits' = [debits EXCEPT ![p] = 1]
  /\ UNCHANGED <<paid, credits>>

Next == \E p \in Payments : Pay(p) \/ Credit(p) \/ TakeBack(p)

Spec == Init /\ [][Next]_<<paid, credits, debits>>
=============================================================================
