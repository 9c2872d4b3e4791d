------------------------------- MODULE MCBilling -------------------------------
(***************************************************************************)
(* Stripe for TLC: one-off payments, and the subscription beside them.     *)
(* They share no variable (the wallet they both credit is the subject of   *)
(* Wallet), so that each behaves as it does alone while the other rests:   *)
(* one of them is chosen at the start and moves, and the states are their  *)
(* sum instead of their product.                                           *)
(***************************************************************************)
EXTENDS Payments, Sequences

\* The table Purchase that the routes were written for.
ExpectedColumns == {"ownerId", "packageId", "amountCents", "status", "currency",
                    "stripeSessionId", "stripePaymentIntentId", "stripeCustomerId"}
ExpectedRequired == {"ownerId", "packageId", "amountCents"}

VARIABLES
  part,                                          \* the one that moves
  account, queue, user, rows, req, verifies, updates, sFaults   \* Subscriptions

subscription == <<account, queue, user, rows, req, verifies, updates, sFaults>>

\* One subscription that may renew twice, requests one at a time, events in order.
Subscription == {"s1"}
PlanTypes    == {"starter", "pro"}
Worker       == {"w1"}
Subscriptions == INSTANCE Subscriptions WITH
  stripe <- account, due <- queue, faults <- sFaults,
  Subs <- Subscription, Plans <- PlanTypes, Workers <- Worker,
  Ordered <- TRUE, LateVerify <- FALSE,
  MaxCycles <- 2, MaxVerifies <- 1, MaxUpdates <- 1, MaxFaults <- 1

ASSUME Subscriptions!SubscriptionsAssumption

BillingInit ==
  /\ part \in {"payments", "subscription"}
  /\ Init /\ Subscriptions!Init

BillingNext ==
  \/ part = "payments" /\ Next /\ UNCHANGED <<part, subscription>>
  \/ part = "subscription" /\ Subscriptions!Next /\ UNCHANGED <<part, vars>>

\* The fairness of each module, for the part that moves.
BillingSpec ==
  /\ BillingInit /\ [][BillingNext]_<<part, vars, subscription>>
  /\ \A h \in Handlers : WF_vars(part = "payments" /\ HandlerStep(h))
  /\ \A e \in Event : WF_vars(part = "payments" /\ e \in due /\ \E h \in Handlers : Deliver(h, e))
  /\ SF_subscription(part = "subscription" /\ Subscriptions!Delivery)
  /\ WF_subscription(part = "subscription" /\ Subscriptions!RequestStep("w1"))

\* A subscription cancelled in Stripe does not stay active here
\* (stripe.webhooks.js:878-1061).
CancellationArrives == Subscriptions!CancellationArrives
=============================================================================
