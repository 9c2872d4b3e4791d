------------------------------ MODULE Payments ------------------------------
(***************************************************************************)
(* One-off payments: routes/billing.js opens a Stripe checkout session for *)
(* a credit top-up or a credit package, and routes/stripe.webhooks.js      *)
(* credits the wallet when Stripe reports the payment, and debits it when  *)
(* Stripe reports a refund.  Stripe delivers each event until it has been  *)
(* acknowledged, in any order.  Every query is a step of its own; a        *)
(* transaction is one step (the overlap of two transactions on the balance *)
(* is the subject of Wallet).                                              *)
(***************************************************************************)
EXTENDS Naturals, FiniteSets

CONSTANTS Topups,           \* checkout sessions of POST /billing/topup
          Packages,         \* checkout sessions of POST /billing/purchase
          Mispriced,        \* sessions whose amount is not what was asked for
          Units,            \* credits that a payment buys
          Handlers,         \* webhook requests in progress at one time
          Overlap,          \* Stripe sends an event while one of that payment is handled
          PurchaseColumns,  \* columns of the table Purchase
          RequiredColumns,  \* those that have no default
          MaxCopies,        \* bound: deliveries of events already acknowledged
          MaxSpends,        \* bound: credits spent on messages
          MaxFaults         \* bound: crashes and errors that count as retryable

Sessions == Topups \cup Packages

ASSUME PaymentsAssumption ==
  /\ Topups \cap Packages = {}
  /\ Mispriced \subseteq Sessions
  /\ Units \in Nat \ {0}
  /\ Overlap \in BOOLEAN
  /\ MaxCopies \in Nat /\ MaxSpends \in Nat /\ MaxFaults \in Nat

VARIABLES route,     \* the request that opens each session
          stripe,    \* each session as Stripe knows it
          due,       \* events Stripe delivers until they are acknowledged
          acked,     \* events that were acknowledged
          purchase,  \* Purchase rows of package sessions
          credits,   \* number of CreditTransaction rows that credit a session
          debits,    \* number of stripe:refund rows of its charge
          balance,   \* the wallet
          pc,        \* where each webhook request is
          event,     \* the event it handles
          copies, spends, faults

vars == <<route, stripe, due, acked, purchase, credits, debits, balance, pc, event,
          copies, spends, faults>>

ledger  == <<credits, debits, balance>>
bounds  == <<copies, spends, faults>>
webhook == <<due, acked, pc, event>>

Types  == {"completed", "intentFailed", "intentSucceeded", "refunded"}
Event  == [type : Types, session : Sessions]
NoEvent == [type |-> "none", session |-> "none"]
NoRow  == [status |-> "none", session |-> FALSE, intent |-> FALSE]
Row    == [status : {"none", "pending", "paid", "failed", "refunded"},
           session : BOOLEAN, intent : BOOLEAN]
Steps  == {"idle", "start", "credit", "refund", "answer"}

Ev(type, s) == [type |-> type, session |-> s]
Paid == {s \in Sessions : stripe[s] \in {"paid", "refunded"}}

Init ==
  /\ route    = [s \in Sessions |-> "new"]
  /\ stripe   = [s \in Sessions |-> "none"]
  /\ due      = {}
  /\ acked    = {}
  /\ purchase = [s \in Packages |-> NoRow]
  /\ credits  = [s \in Sessions |-> 0]
  /\ debits   = [s \in Sessions |-> 0]
  /\ balance  = 0
  /\ pc       = [h \in Handlers |-> "idle"]
  /\ event    = [h \in Handlers |-> NoEvent]
  /\ copies = 0 /\ spends = 0 /\ faults = 0

-----------------------------------------------------------------------------
(* The routes that open a session. *)

\* POST /billing/topup: the session, and the answer with its URL.
OpenTopup(s) ==
  /\ s \in Topups
  /\ route[s] = "new"
  /\ route' = [route EXCEPT ![s] = "answered"]
  /\ stripe' = [stripe EXCEPT ![s] = "open"]
  /\ UNCHANGED <<webhook, purchase, ledger, bounds>>

\* The columns that purchase.create names, and whether the table takes such a row.
CreateColumns == {"ownerId", "packageId", "status", "amountCents", "currency"}
RowAccepted ==
  /\ CreateColumns \subseteq PurchaseColumns
  /\ RequiredColumns \subseteq CreateColumns

\* POST /billing/purchase: purchase.create, ...
CreatePurchase(s) ==
  /\ s \in Packages
  /\ route[s] = "new"
  /\ IF RowAccepted
       THEN /\ purchase' = [purchase EXCEPT ![s].status = "pending"]
            /\ route' = [route EXCEPT ![s] = "row"]
       ELSE /\ route' = [route EXCEPT ![s] = "failed"]
            /\ UNCHANGED purchase
  /\ UNCHANGED <<stripe, webhook, ledger, bounds>>

\* ... checkout.sessions.create: nobody but this request knows its URL yet, ...
CreateSession(s) ==
  /\ s \in Packages
  /\ route[s] = "row"
  /\ route' = [route EXCEPT ![s] = "session"]
  /\ stripe' = [stripe EXCEPT ![s] = "hidden"]
  /\ UNCHANGED <<webhook, purchase, ledger, bounds>>

\* ... purchase.update with the session's id, and the answer with the URL.
LinkSession(s) ==
  /\ s \in Packages
  /\ route[s] = "session"
  /\ purchase' = [purchase EXCEPT ![s].session = TRUE]
  /\ route' = [route EXCEPT ![s] = "answered"]
  /\ stripe' = [stripe EXCEPT ![s] = IF @ = "hidden" THEN "open" ELSE @]
  /\ UNCHANGED <<webhook, ledger, bounds>>

\* Stripe, the database or the process fails: the row stays pending without a session.
RouteFails(s) ==
  /\ faults < MaxFaults
  /\ route[s] \in {"row", "session"}
  /\ route' = [route EXCEPT ![s] = "failed"]
  /\ faults' = faults + 1
  /\ UNCHANGED <<stripe, webhook, purchase, ledger, copies, spends>>

-----------------------------------------------------------------------------
(* Stripe and its customer. *)

\* The customer pays on Stripe's page: two events.
Pay(s) ==
  /\ stripe[s] = "open"
  /\ stripe' = [stripe EXCEPT ![s] = "paid"]
  /\ due' = due \cup {Ev("completed", s), Ev("intentSucceeded", s)}
  /\ UNCHANGED <<route, acked, purchase, ledger, pc, event, bounds>>

\* The card is refused; the session stays open.
PaymentFails(s) ==
  /\ stripe[s] = "open"
  /\ Ev("intentFailed", s) \notin due \cup acked
  /\ due' = due \cup {Ev("intentFailed", s)}
  /\ UNCHANGED <<route, stripe, acked, purchase, ledger, pc, event, bounds>>

\* The operator refunds the charge in Stripe.
RefundCharge(s) ==
  /\ stripe[s] = "paid"
  /\ stripe' = [stripe EXCEPT ![s] = "refunded"]
  /\ due' = due \cup {Ev("refunded", s)}
  /\ UNCHANGED <<route, acked, purchase, ledger, pc, event, bounds>>

\* A campaign spends a credit.
Spend ==
  /\ spends < MaxSpends
  /\ balance > 0
  /\ balance' = balance - 1
  /\ spends' = spends + 1
  /\ UNCHANGED <<route, stripe, webhook, purchase, credits, debits, copies, faults>>

\* POST /webhooks/stripe receives an event that is due, or one more copy of another.
Deliver(h, e) ==
  /\ pc[h] = "idle"
  /\ \/ e \in due /\ UNCHANGED copies
     \/ e \in acked /\ copies < MaxCopies /\ copies' = copies + 1
  /\ Overlap \/ \A g \in Handlers : pc[g] # "idle" => event[g].session # e.session
  /\ pc' = [pc EXCEPT ![h] = "start"]
  /\ event' = [event EXCEPT ![h] = e]
  /\ UNCHANGED <<route, stripe, due, acked, purchase, ledger, spends, faults>>

-----------------------------------------------------------------------------
(* The handlers. *)

Goto(h, step) ==
  /\ pc' = [pc EXCEPT ![h] = step]
  /\ UNCHANGED <<route, stripe, due, acked, event, bounds>>

\* "Validate payment amount matches expected amount": of a purchase without the column
\* amountCents the expected amount is undefined, and the comparison never fails.
AmountAgrees(s) ==
  s \in Mispriced => s \in Packages /\ "amountCents" \notin PurchaseColumns

\* Mutant of FindTopup: the idempotency check is dropped.
FindTopupUnchecked(h) ==
  LET s == event[h].session
  IN  /\ pc[h] = "start" /\ event[h].type = "completed" /\ s \in Topups
      /\ Goto(h, IF AmountAgrees(s) THEN "credit" ELSE "answer")
      /\ UNCHANGED <<purchase, ledger>>

\* checkout.session.completed of a top-up: the amount, and a transaction of this session.
FindTopup(h) ==
  LET s == event[h].session
  IN  /\ pc[h] = "start" /\ event[h].type = "completed" /\ s \in Topups
      /\ Goto(h, IF AmountAgrees(s) /\ credits[s] = 0 THEN "credit" ELSE "answer")
      /\ UNCHANGED <<purchase, ledger>>

\* checkout.session.completed of a package: the pending purchase of this session.
FindPurchase(h) ==
  LET s == event[h].session
  IN  /\ pc[h] = "start" /\ event[h].type = "completed" /\ s \in Packages
      /\ Goto(h, IF purchase[s].session /\ purchase[s].status = "pending" /\ AmountAgrees(s)
                 THEN "credit" ELSE "answer")
      /\ UNCHANGED <<purchase, ledger>>

Credited(s) ==
  /\ credits' = [credits EXCEPT ![s] = @ + 1]
  /\ balance' = balance + Units
  /\ UNCHANGED debits

\* The transaction of a top-up.
CreditTopup(h) ==
  LET s == event[h].session
  IN  /\ pc[h] = "credit" /\ s \in Topups
      /\ Credited(s)
      /\ Goto(h, "answer")
      /\ UNCHANGED purchase

\* Mutant of CreditPurchase: a wallet error is swallowed, the purchase is paid all the same.
CreditPurchaseTorn(h) ==
  LET s == event[h].session
  IN  /\ pc[h] = "credit" /\ s \in Packages
      /\ purchase' = [purchase EXCEPT ![s].status = "paid", ![s].intent = TRUE]
      /\ Credited(s) \/ UNCHANGED ledger
      /\ Goto(h, "answer")

\* The transaction of a package: the purchase is paid and linked to its payment intent.
CreditPurchase(h) ==
  LET s == event[h].session
  IN  /\ pc[h] = "credit" /\ s \in Packages
      /\ purchase' = [purchase EXCEPT ![s].status = "paid", ![s].intent = TRUE]
      /\ Credited(s)
      /\ Goto(h, "answer")

\* A pending purchase that names the payment intent of the session.
PendingByIntent(s) == s \in Packages /\ purchase[s].intent /\ purchase[s].status = "pending"

\* payment_intent.succeeded: Stripe does not copy the session's metadata to the intent,
\* so the purchase is looked up by the intent, and handled like a completed session.
IntentSucceeded(h) ==
  LET s == event[h].session
  IN  /\ pc[h] = "start" /\ event[h].type = "intentSucceeded"
      /\ Goto(h, IF PendingByIntent(s) /\ purchase[s].session /\ AmountAgrees(s)
                 THEN "credit" ELSE "answer")
      /\ UNCHANGED <<purchase, ledger>>

\* payment_intent.payment_failed: the purchase, looked up by the intent, has failed.
IntentFailed(h) ==
  LET s == event[h].session
  IN  /\ pc[h] = "start" /\ event[h].type = "intentFailed"
      /\ purchase' = [p \in Packages |-> IF p = s /\ PendingByIntent(s)
                                         THEN [purchase[p] EXCEPT !.status = "failed"]
                                         ELSE purchase[p]]
      /\ Goto(h, "answer")
      /\ UNCHANGED ledger

\* charge.refunded: the transaction that credited it, and no refund of it so far.
FindCredit(h) ==
  LET s == event[h].session
  IN  /\ pc[h] = "start" /\ event[h].type = "refunded"
      /\ Goto(h, IF credits[s] > 0 /\ debits[s] = 0 THEN "refund" ELSE "answer")
      /\ UNCHANGED <<purchase, ledger>>

\* Its transaction: the debit, and the purchase that names the intent.
Refund(h) ==
  LET s == event[h].session
  IN  /\ pc[h] = "refund"
      /\ balance >= Units
      /\ balance' = balance - Units
      /\ debits' = [debits EXCEPT ![s] = @ + 1]
      /\ purchase' = [p \in Packages |-> IF p = s /\ purchase[p].intent
                                         THEN [purchase[p] EXCEPT !.status = "refunded"]
                                         ELSE purchase[p]]
      /\ Goto(h, "answer")
      /\ UNCHANGED credits

\* INSUFFICIENT_CREDITS rolls it back; the error is not retryable, so it is acknowledged.
RefundRejected(h) ==
  /\ pc[h] = "refund"
  /\ balance < Units
  /\ Goto(h, "answer")
  /\ UNCHANGED <<purchase, ledger>>

\* The request is over.
Release(h) ==
  /\ pc' = [pc EXCEPT ![h] = "idle"]
  /\ event' = [event EXCEPT ![h] = NoEvent]

\* The answer 200: Stripe takes the event as delivered.
Acknowledge(h) ==
  /\ pc[h] = "answer"
  /\ Release(h)
  /\ due' = due \ {event[h]}
  /\ acked' = acked \cup {event[h]}
  /\ UNCHANGED <<route, stripe, purchase, ledger, bounds>>

\* Mutant of HandlerFails: an error before the transaction is acknowledged as well.
HandlerFailsAcked(h) ==
  /\ faults < MaxFaults
  /\ pc[h] # "idle"
  /\ Release(h)
  /\ due' = due \ {event[h]}
  /\ acked' = acked \cup {event[h]}
  /\ faults' = faults + 1
  /\ UNCHANGED <<route, stripe, purchase, ledger, copies, spends>>

\* An error that isRetryable recognizes (answer 500), or the death of the process.
HandlerFails(h) ==
  /\ faults < MaxFaults
  /\ pc[h] # "idle"
  /\ Release(h)
  /\ faults' = faults + 1
  /\ UNCHANGED <<route, stripe, due, acked, purchase, ledger, copies, spends>>

-----------------------------------------------------------------------------
HandlerStep(h) ==
  \/ FindTopup(h)
  \/ FindPurchase(h)
  \/ CreditTopup(h)
  \/ CreditPurchase(h)
  \/ IntentSucceeded(h)
  \/ IntentFailed(h)
  \/ FindCredit(h)
  \/ Refund(h)
  \/ RefundRejected(h)
  \/ Acknowledge(h)

RouteStep(s) ==
  \/ OpenTopup(s)
  \/ CreatePurchase(s)
  \/ CreateSession(s)
  \/ LinkSession(s)
  \/ RouteFails(s)

StripeStep ==
  \/ \E s \in Sessions : Pay(s) \/ PaymentFails(s) \/ RefundCharge(s)
  \/ \E h \in Handlers, e \in due \cup acked : Deliver(h, e)

Next ==
  \/ \E s \in Sessions : RouteStep(s)
  \/ StripeStep
  \/ Spend
  \/ \E h \in Handlers : HandlerStep(h) \/ HandlerFails(h)

Spec == Init /\ [][Next]_vars

\* A request that runs is scheduled again, and Stripe repeats what was not acknowledged.
Fairness ==
  /\ \A h \in Handlers : WF_vars(HandlerStep(h))
  /\ \A e \in Event : WF_vars(e \in due /\ \E h \in Handlers : Deliver(h, e))

FairSpec == Spec /\ Fairness

-----------------------------------------------------------------------------
TypeOK ==
  /\ route \in [Sessions -> {"new", "row", "session", "answered", "failed"}]
  /\ stripe \in [Sessions -> {"none", "hidden", "open", "paid", "refunded"}]
  /\ due \subseteq Event
  /\ acked \subseteq Event
  /\ purchase \in [Packages -> Row]
  /\ credits \in [Sessions -> Nat]
  /\ debits \in [Sessions -> Nat]
  /\ balance \in Nat
  /\ pc \in [Handlers -> Steps]
  /\ event \in [Handlers -> Event \cup {NoEvent}]
  /\ copies \in 0..MaxCopies /\ spends \in 0..MaxSpends /\ faults \in 0..MaxFaults

\* A purchase is paid or refunded exactly when its credits were booked: the two rows of
\* stripe.webhooks.js:132-158 never part, whatever overlaps, fails or is delivered twice.
PaidIsCredited ==
  \A s \in Packages : purchase[s].status \in {"paid", "refunded"} <=> credits[s] > 0

\* Credits are booked for nothing but a payment of the right amount
\* (stripe.webhooks.js:111-130 and 394-412).
CreditsArePaidFor ==
  \A s \in Sessions : credits[s] > 0 => s \in Paid \ Mispriced

\* Whoever can pay for a package pays for a session that its purchase names: the webhook
\* can never come too early for the lookup (billing.js:203-247).
PayableIsLinked ==
  \A s \in Packages : stripe[s] \in {"open", "paid", "refunded"} => purchase[s].session

\* Every payment is credited once and taken back once (with Overlap = FALSE).
Promise == INSTANCE Settlement WITH Payments <- Sessions, paid <- Paid
SettlesOnce == Promise!Spec

\* "Prevents duplicate wallet credits" (docs/STRIPE_INTEGRATION.md:203).
\* The code does not keep it (README, section 3).
CreditedOnce == \A s \in Sessions : credits[s] <= 1

\* Every payment of the right amount is credited in the end, through any crash or
\* retryable error (stripe.webhooks.js:1130-1158).
PaymentIsCredited ==
  \A s \in Sessions \ Mispriced : s \in Paid ~> credits[s] > 0

\* "Failed payments update purchase status to `failed`" (docs/STRIPE_INTEGRATION.md:209).
\* The code does not keep it (README, section 3).
FailureIsRecorded ==
  \A s \in Packages : Ev("intentFailed", s) \in acked => purchase[s].status # "pending"

\* charge.refunded: "Deduct credits from wallet (atomic)"
\* (docs/PRICING_MODEL_IMPLEMENTATION_GUIDE.md:678): once it is acknowledged, a payment
\* that had been credited has been taken back.
\* The code does not keep it (README, section 3).
RefundIsDeducted ==
  [][\A s \in Sessions : Ev("refunded", s) \in acked' \ acked /\ credits[s] > 0
                          => debits[s] > 0]_vars

\* POST /billing/purchase: "Creates `Purchase` record with status 'pending'"
\* (docs/PRICING_MODEL_IMPLEMENTATION_GUIDE.md:506).
\* The code does not keep it (README, section 3).
PurchaseIsCreated ==
  \A s \in Packages : route[s] # "new" => purchase[s].status # "none"
=============================================================================
