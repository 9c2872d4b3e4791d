------------------------------- MODULE MCOverlap -------------------------------
(***************************************************************************)
(* Overlap for TLC.                                                        *)
(***************************************************************************)
EXTENDS Overlap, TLC

CONSTANTS b1, b2, t1

\* Two batches of one tenant.  The handlers of Payments, the workers of Subscriptions that
\* overlap, the requests that change an automation and those of Contacts are named like the
\* batches, so that one symmetry serves them all.
Pair  == b1 :> t1 @@ b2 :> t1
Alike == Permutations(Batches)

Required == {"ownerId", "packageId", "amountCents"}
Columns  == Required \cup {"status", "currency", "stripeSessionId", "stripePaymentIntentId",
                           "stripeCustomerId"}

\* One store with a contact and one to come.
OneStore == [c \in Customers |-> "o1"]

\* An import of one customer.
OneLine == {<<[phone |-> "p1", sub |-> TRUE]>>}
=============================================================================
