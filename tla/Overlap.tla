-------------------------------- MODULE Overlap --------------------------------
(***************************************************************************)
(* Requests, webhooks and workers that overlap: the rate limiter, payments *)
(* whose events overlap, subscriptions with events in and out of order,    *)
(* delivery reports and refreshes, automations, and the writers of the     *)
(* contacts of some stores.  They share no variable, so that each behaves  *)
(* as it does alone while the others rest: one of them is chosen at the    *)
(* start and moves, and the states are their sum instead of their product. *)
(***************************************************************************)
EXTENDS RateLimiter

CONSTANTS
  Topups, Packages, Mispriced, Units, Handlers,       \* of Payments
  PurchaseColumns, RequiredColumns, MaxCopies, MaxSpends, PaymentFaults,
  Subs, Plans, Worker, SubscriptionFaults,            \* of Subscriptions: one request at a time,
  SomePlans, Workers,                                 \* and several
  MaxCycles, MaxVerifies, Renewals, PlanChanges,
  N, Limit, Refreshers, BodySize, Outcomes, HasUpdatedAt, Writers, Lost,  \* of DeliveryStatus
  Stores, Customers, StoreOf, Present, Born, Runs,    \* of Automations:
  Editors, Credits, MaxEdits, SendFaults,             \* one sender at a time,
  FewEditors, FewCredits, MaxActive, FewEdits, MoreFaults, \* and several
  Owners, Phones, Forms, Jobs, Files, StopForms, MaxRows, ImportFaults  \* of Contacts

VARIABLES
  part,                                                                       \* the one that moves
  route, session, events, acked, purchase, credits, debits, balance, pc, event,
  copies, spends, pFaults,                                                    \* Payments
  account, queue, user, invoices, req, verifies, updates, sFaults,            \* Subscriptions
  sms, reports, row, campaign, writer, dFaults,                               \* DeliveryStatus
  automation, contact, active, wallet, out, record, sender, hit, edits, aFaults,  \* Automations
  rows, lastId, proc, job, welcomed, wish, gone, cFaults                      \* Contacts

limits        == vars
payments      == <<route, session, events, acked, purchase, credits, debits, balance, pc, event,
                   copies, spends, pFaults>>
subscriptions == <<account, queue, user, invoices, req, verifies, updates, sFaults>>
delivery      == <<sms, reports, row, campaign, writer, dFaults>>
automations   == <<automation, contact, active, wallet, out, record, sender, hit, edits, aFaults>>
contacts      == <<rows, lastId, proc, job, welcomed, wish, gone, cFaults>>
everything    == <<part, limits, payments, subscriptions, delivery, automations, contacts>>

\* Where a module of proofs is named, it brings its theorems with its module.

\* Stripe does not wait for an answer before it sends another event of a payment.
Payments == INSTANCE PaymentsProofs WITH
  stripe <- session, due <- events, faults <- pFaults, Overlap <- TRUE, MaxFaults <- PaymentFaults

\* One subscription request at a time, with crashes; and several, without.  Then one at a
\* time again, with events in order and changes of plan.
Reordered == INSTANCE SubscriptionsProofs WITH
  stripe <- account, due <- queue, rows <- invoices, faults <- sFaults,
  Workers <- {Worker}, Ordered <- FALSE, LateVerify <- TRUE, MaxUpdates <- 0,
  MaxFaults <- SubscriptionFaults
Overlapping == INSTANCE SubscriptionsProofs WITH
  stripe <- account, due <- queue, rows <- invoices, faults <- sFaults,
  Plans <- SomePlans, Ordered <- FALSE, LateVerify <- TRUE, MaxUpdates <- 0, MaxFaults <- 0
InOrder == INSTANCE SubscriptionsProofs WITH
  stripe <- account, due <- queue, rows <- invoices, faults <- sFaults,
  Workers <- {Worker}, Ordered <- TRUE, LateVerify <- FALSE,
  MaxCycles <- Renewals, MaxUpdates <- PlanChanges, MaxFaults <- SubscriptionFaults

\* The writers of a campaign's messages.
Delivery == INSTANCE DeliveryStatus WITH
  proc <- writer, faults <- dFaults, Requests <- Refreshers, MaxActive <- Writers, MaxFaults <- Lost

\* One welcome or birthday run at a time; and several.
OneSender == INSTANCE AutomationsProofs WITH
  sms <- out, proc <- sender, faults <- aFaults,
  Owners <- Stores, Contacts <- Customers, OwnerOf <- StoreOf, Requests <- Editors,
  MaxActive <- 1, MaxFaults <- SendFaults
Senders == INSTANCE AutomationsProofs WITH
  sms <- out, proc <- sender, faults <- aFaults,
  Owners <- Stores, Contacts <- Customers, OwnerOf <- StoreOf, Requests <- FewEditors,
  Credits <- FewCredits, MaxEdits <- FewEdits, MaxFaults <- MoreFaults

Contacts == INSTANCE Contacts WITH
  faults <- cFaults, Requests <- Forms, MaxFaults <- ImportFaults

ASSUME OverlapAssumption ==
  /\ Payments!PaymentsAssumption
  /\ Reordered!SubscriptionsAssumption /\ Overlapping!SubscriptionsAssumption
  /\ InOrder!SubscriptionsAssumption
  /\ Delivery!DeliveryAssumption
  /\ OneSender!AutomationsAssumption /\ Senders!AutomationsAssumption
  /\ Contacts!ContactsAssumption

AllOn == [o \in Stores |-> [k \in {"welcome", "birthday"} |-> "on"]]

OverlapInit ==
  /\ part \in {"limits", "payments", "reordered", "overlapping", "in order", "delivery",
               "one sender", "senders", "contacts"}
  /\ Init /\ Payments!Init /\ Delivery!Init /\ Contacts!Init
  /\ CASE part = "reordered" -> Reordered!Init
       [] part = "in order"  -> InOrder!Init
       [] OTHER              -> Overlapping!Init
  /\ IF part = "senders" THEN Senders!Init ELSE OneSender!Init
  /\ part \in {"one sender", "senders"} \/ automation = AllOn

OverlapNext ==
  \/ /\ part = "limits" /\ Next
     /\ UNCHANGED <<part, payments, subscriptions, delivery, automations, contacts>>
  \/ /\ part = "payments" /\ Payments!Next
     /\ UNCHANGED <<part, limits, subscriptions, delivery, automations, contacts>>
  \/ /\ \/ part = "reordered" /\ Reordered!Next
        \/ part = "overlapping" /\ Overlapping!Next
        \/ part = "in order" /\ InOrder!Next
     /\ UNCHANGED <<part, limits, payments, delivery, automations, contacts>>
  \/ /\ part = "delivery" /\ Delivery!Next
     /\ UNCHANGED <<part, limits, payments, subscriptions, automations, contacts>>
  \/ /\ \/ part = "one sender" /\ OneSender!Next
        \/ part = "senders" /\ Senders!Next
     /\ UNCHANGED <<part, limits, payments, subscriptions, delivery, contacts>>
  \/ /\ part = "contacts" /\ Contacts!Next
     /\ UNCHANGED <<part, limits, payments, subscriptions, delivery, automations>>

OverlapSpec == OverlapInit /\ [][OverlapNext]_everything

-----------------------------------------------------------------------------
\* Nothing is credited that was not paid for.  Also when the events of one payment are
\* handled at the same time, a purchase is paid exactly when its credits were booked, and
\* the payment was of the right amount (stripe.webhooks.js:111-158, 394-450).  In whatever
\* order requests and events come, nobody is active or gets free credits for a checkout
\* that was not paid (stripe.webhooks.js:306-381, billing.js:724), and while requests are
\* handled one at a time, an invoice gives free credits once, through crashes and repeated
\* events (subscription.service.js:179-196).
CreditsAreDue ==
  CASE part = "payments"    -> Payments!TypeOK /\ Payments!PaidIsCredited /\ Payments!CreditsArePaidFor
    [] part = "overlapping" -> Overlapping!TypeOK /\ Overlapping!ActiveWasPaid
    [] part = "reordered"   -> Reordered!TypeOK /\ Reordered!OncePerInvoice
    [] OTHER                -> TRUE

\* Once Stripe has nothing left to say and no request runs, the owner's row agrees with it on
\* the status and the plan of the subscription that the row names, through crashes at any
\* point: events in order, one request at a time (stripe.webhooks.js:878-1061).
RowAgrees == part = "in order" => InOrder!TypeOK /\ InOrder!RowAgrees

\* What a campaign shows is true: a message counts as failed only when the provider gave it
\* up, and when nothing is in progress, the campaign's counters and its status say what its
\* messages say (updateCampaignAggregates, called by every writer of the row).
CampaignAgrees ==
  part = "delivery" => Delivery!TypeOK /\ Delivery!FailedWasReported /\ Delivery!CountersAgree

\* A store is never debited for a message that did not go out, whatever fails and however
\* welcomes and runs interleave; and without failures and with one sender at a time, the
\* credits a store has spent, the messages that went out and the rows that say sent are as
\* many (sendSMSWithCredits, automation.service.js).
SpentWasSent ==
  CASE part = "one sender"  -> OneSender!BooksAgree
    [] part = "senders" -> Senders!TypeOK /\ Senders!NoCreditWithoutMessage
    [] OTHER                -> TRUE

\* What a customer last told a store stands: an opt-out against every import, form or request
\* that was under way, an opt-in whatever the customer tells another store with a link; and
\* a number is on a store's list once (mitto.webhooks.js, contacts.js, nfc.service.js,
\* contactImport.service.js).
ConsentStands ==
  part = "contacts" => Contacts!TypeOK /\ Contacts!OptOutStands /\ Contacts!OptInStands
=============================================================================
