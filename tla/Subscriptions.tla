---------------------------- MODULE Subscriptions ----------------------------
(***************************************************************************)
(* One owner's subscription, kept twice: in Stripe, and in the columns of  *)
(* model User that routes/billing.js, routes/stripe.webhooks.js and        *)
(* services/subscription.service.js write.  Stripe reports its changes by  *)
(* events that carry a snapshot; a request reads the row, asks Stripe and  *)
(* writes the row in separate steps, and other requests may run meanwhile. *)
(***************************************************************************)
EXTENDS Naturals, Sequences, SequencesExt

CONSTANTS Subs,        \* checkout sessions for a subscription, one subscription each
          Plans,       \* starter and pro
          Workers,     \* requests in progress at one time, of Stripe and of the owner
          Ordered,     \* Stripe delivers its events in the order they happened
          LateVerify,  \* the success page is opened again when the subscription is no longer active
          MaxCycles,   \* bound: renewals of a subscription
          MaxVerifies, \* bound: verifications of a session by the owner
          MaxUpdates,  \* bound: changes of plan by the owner
          MaxFaults    \* bound: crashes and errors that count as retryable

\* What is asked of the constants; the modules that instantiate this one assume it.
SubscriptionsAssumption ==
  /\ Ordered \in BOOLEAN /\ LateVerify \in BOOLEAN
  /\ "none" \notin Subs /\ "keep" \notin Plans
  /\ {MaxCycles, MaxVerifies, MaxUpdates, MaxFaults} \subseteq Nat

VARIABLES stripe,    \* each subscription as Stripe knows it
          due,       \* Stripe's events that were not acknowledged, in their order
          user,      \* the columns of the owner's row
          rows,      \* number of credit rows of each invoice and plan
          req,       \* the requests in progress
          verifies, updates, faults

vars == <<stripe, due, user, rows, req, verifies, updates, faults>>
bounds == <<verifies, updates, faults>>

Types == {"completed", "paid", "failed", "updated", "deleted"}
Event == [type : Types, sub : Subs, status : {"active", "past_due", "canceled"},
          plan : Plans, inv : 0..MaxCycles]
NoEvent == [type |-> "none"]

\* The part of the owner's row that a request is about to write.
NoWrite == [status |-> "keep", plan |-> "keep"]
Idle == [at |-> "idle", ev |-> NoEvent, sub |-> "none", plan |-> "none", inv |-> 0,
         write |-> NoWrite]

Init ==
  /\ stripe = [s \in Subs |-> [status |-> "none", plan |-> "none", bought |-> "none",
                               cycle |-> 0]]
  /\ due = <<>>
  /\ user = [status |-> "inactive", plan |-> "none", sub |-> "none"]
  /\ rows = [s \in Subs |-> [i \in 0..MaxCycles |-> [p \in Plans |-> 0]]]
  /\ req = [w \in Workers |-> Idle]
  /\ verifies = 0 /\ updates = 0 /\ faults = 0

-----------------------------------------------------------------------------
(* Stripe. *)

Live(s) == stripe[s].status \in {"active", "past_due"}

\* An event of s that shows the subscription as it is now.
Ev(type, s) == [type |-> type, sub |-> s, status |-> stripe'[s].status,
                plan |-> IF type = "completed" THEN stripe'[s].bought ELSE stripe'[s].plan,
                inv |-> stripe'[s].cycle]
Emit(events) == due' = due \o events

\* The owner pays on the checkout page.
PayCheckout(s) ==
  /\ stripe[s].status = "open"
  /\ stripe' = [stripe EXCEPT ![s].status = "active"]
  /\ Emit(<<Ev("completed", s)>>)
  /\ UNCHANGED <<user, rows, req, bounds>>

\* A cycle ends and its invoice is paid.
Renew(s) ==
  /\ stripe[s].status = "active" /\ stripe[s].cycle < MaxCycles
  /\ stripe' = [stripe EXCEPT ![s].cycle = @ + 1]
  /\ Emit(<<Ev("paid", s), Ev("updated", s)>>)
  /\ UNCHANGED <<user, rows, req, bounds>>

\* A cycle ends and its invoice cannot be collected ...
RenewFails(s) ==
  /\ stripe[s].status = "active" /\ stripe[s].cycle < MaxCycles
  /\ stripe' = [stripe EXCEPT ![s].cycle = @ + 1, ![s].status = "past_due"]
  /\ Emit(<<Ev("failed", s), Ev("updated", s)>>)
  /\ UNCHANGED <<user, rows, req, bounds>>

\* ... until a later attempt.
Recover(s) ==
  /\ stripe[s].status = "past_due"
  /\ stripe' = [stripe EXCEPT ![s].status = "active"]
  /\ Emit(<<Ev("paid", s), Ev("updated", s)>>)
  /\ UNCHANGED <<user, rows, req, bounds>>

\* stripe.subscriptions.cancel, by this program, the dashboard or the dunning rules.
Canceled(s) ==
  /\ Live(s)
  /\ stripe' = [stripe EXCEPT ![s].status = "canceled"]
  /\ Emit(<<Ev("deleted", s)>>)

CancelElsewhere(s) == Canceled(s) /\ UNCHANGED <<user, rows, req, bounds>>

-----------------------------------------------------------------------------
(* Requests: how they start, go on and end. *)

Begin(w, r) == req[w] = Idle /\ req' = [req EXCEPT ![w] = r]
Step(w, at) == req' = [req EXCEPT ![w].at = at]

\* A webhook answers; a request of the owner just ends.
End(w) == req' = [req EXCEPT ![w] = IF @.ev = NoEvent THEN Idle ELSE [@ EXCEPT !.at = "answer"]]

\* POST /webhooks/stripe receives an event that was not acknowledged.
Deliver(w, i) ==
  /\ Ordered => i = 1
  /\ Begin(w, [Idle EXCEPT !.at = due[i].type, !.ev = due[i], !.sub = due[i].sub,
                           !.plan = due[i].plan, !.inv = due[i].inv])
  /\ UNCHANGED <<stripe, due, user, rows, bounds>>

Acknowledge(w) ==
  /\ req[w].at = "answer"
  /\ due' = RemoveFirst(due, req[w].ev)
  /\ req' = [req EXCEPT ![w] = Idle]
  /\ UNCHANGED <<stripe, user, rows, bounds>>

\* Mutant of RequestFails: the answer is 200 whatever the error is.
RequestFailsAcked(w) ==
  /\ faults < MaxFaults
  /\ req[w] # Idle
  /\ due' = RemoveFirst(due, req[w].ev)
  /\ req' = [req EXCEPT ![w] = Idle]
  /\ faults' = faults + 1
  /\ UNCHANGED <<stripe, user, rows, verifies, updates>>

\* An error that counts as retryable, or the death of the process: no acknowledgement.
RequestFails(w) ==
  /\ faults < MaxFaults
  /\ req[w] # Idle
  /\ req' = [req EXCEPT ![w] = Idle]
  /\ faults' = faults + 1
  /\ UNCHANGED <<stripe, due, user, rows, verifies, updates>>

-----------------------------------------------------------------------------
(* services/subscription.service.js. *)

\* The plans for which an invoice has given credits.
Rows(s, i) == {p \in Plans : rows[s][i][p] > 0}

\* activateSubscription, and then free credits for the first cycle.
Activate(w) ==
  /\ req[w].at \in {"completed", "activate"}
  /\ user' = [status |-> "active", plan |-> req[w].plan, sub |-> req[w].sub]
  /\ req' = [req EXCEPT ![w].at = "allocate", ![w].inv = 0]
  /\ UNCHANGED <<stripe, due, rows, bounds>>

\* allocateFreeCredits: the subscription has to be active here, ...
CheckActive(w) ==
  /\ req[w].at = "allocate"
  /\ IF user.status = "active" THEN Step(w, "invoice") ELSE End(w)
  /\ UNCHANGED <<stripe, due, user, rows, bounds>>

\* ... when Stripe did not tell the billing period, none of this month may exist, ...
AllocatedThisMonth(w) ==
  /\ faults < MaxFaults
  /\ req[w].at = "allocate" /\ req[w].ev # NoEvent
  /\ \E s \in Subs, i \in 0..MaxCycles : Rows(s, i) # {}
  /\ End(w)
  /\ faults' = faults + 1
  /\ UNCHANGED <<stripe, due, user, rows, verifies, updates>>

\* ... and no credits for this invoice under this plan, ...
CheckInvoice(w) ==
  LET r == req[w]
  IN  /\ r.at = "invoice"
      /\ IF rows[r.sub][r.inv][r.plan] > 0 THEN End(w) ELSE Step(w, "credit")
      /\ UNCHANGED <<stripe, due, user, rows, bounds>>

\* ... and then the transaction that credits the wallet.
Credit(w) ==
  LET r == req[w]
  IN  /\ r.at = "credit"
      /\ rows' = [rows EXCEPT ![r.sub][r.inv][r.plan] = @ + 1]
      /\ End(w)
      /\ UNCHANGED <<stripe, due, user, bounds>>

\* A row update by the owner's id: it asks for no subscription any more.
WriteUser(w) ==
  LET d == req[w].write
  IN  /\ req[w].at = "write"
      /\ user' = [user EXCEPT !.status = IF d.status = "keep" THEN @ ELSE d.status,
                              !.plan = IF d.plan = "keep" THEN @ ELSE d.plan]
      /\ End(w)
      /\ UNCHANGED <<stripe, due, rows, bounds>>

\* What a handler found to change, if anything.
Plan(w, d) ==
  IF d = NoWrite THEN End(w) ELSE req' = [req EXCEPT ![w].at = "write", ![w].write = d]

-----------------------------------------------------------------------------
(* The other webhook handlers. *)

\* invoice.payment_succeeded of a cycle: the owner of this subscription, if active.
FindRenewal(w) ==
  /\ req[w].at = "paid"
  /\ IF user.sub = req[w].sub /\ user.status = "active"
       THEN req' = [req EXCEPT ![w].at = "allocate", ![w].plan = user.plan]
       ELSE End(w)
  /\ UNCHANGED <<stripe, due, user, rows, bounds>>

\* invoice.payment_failed: the owner's row, ...
FindFailed(w) ==
  /\ req[w].at = "failed"
  /\ IF user.sub = req[w].sub
       THEN req' = [req EXCEPT ![w].at = "ask", ![w].write.status = user.status]
       ELSE End(w)
  /\ UNCHANGED <<stripe, due, user, rows, bounds>>

\* ... and the status in Stripe by now (which spells "canceled" otherwise than the code).
AskStripe(w) ==
  LET r == req[w]
      new == CASE stripe[r.sub].status = "past_due"  -> "inactive"
               [] stripe[r.sub].status = "cancelled" -> "cancelled"
               [] OTHER -> r.write.status
  IN  /\ r.at = "ask"
      /\ Plan(w, [NoWrite EXCEPT !.status = IF new = r.write.status THEN "keep" ELSE new])
      /\ UNCHANGED <<stripe, due, user, rows, bounds>>

\* customer.subscription.deleted: the owner of this subscription, then the update.
FindDeleted(w) ==
  /\ req[w].at = "deleted"
  /\ Plan(w, IF user.sub = req[w].sub THEN [NoWrite EXCEPT !.status = "cancelled"] ELSE NoWrite)
  /\ UNCHANGED <<stripe, due, user, rows, bounds>>

\* customer.subscription.updated: the status of the snapshot in the program's words.
LocalStatus(status) == IF status = "active" THEN "active" ELSE "inactive"

\* Mutant of FindUpdated: only a changed status is written.
FindUpdatedStatus(w) ==
  LET r == req[w]
      status == LocalStatus(r.ev.status)
  IN  /\ r.at = "updated"
      /\ Plan(w, IF user.sub = r.sub
                   THEN [NoWrite EXCEPT !.status = IF status = user.status THEN "keep" ELSE status]
                   ELSE NoWrite)
      /\ UNCHANGED <<stripe, due, user, rows, bounds>>

\* The row is read; what differs from the snapshot will be written.
FindUpdated(w) ==
  LET r == req[w]
      status == LocalStatus(r.ev.status)
  IN  /\ r.at = "updated"
      /\ Plan(w, IF user.sub = r.sub
                   THEN [status |-> IF status = user.status THEN "keep" ELSE status,
                         plan   |-> IF r.plan = user.plan THEN "keep" ELSE r.plan]
                   ELSE NoWrite)
      /\ UNCHANGED <<stripe, due, user, rows, bounds>>

-----------------------------------------------------------------------------
(* The owner's requests, routes/billing.js. *)

\* POST /subscriptions/subscribe: not while a subscription is active, ...
Subscribe(w, s, p) ==
  /\ stripe[s].status = "none"
  /\ \A v \in Workers : req[v].at = "checkout" => req[v].sub # s
  /\ user.status # "active"
  /\ Begin(w, [Idle EXCEPT !.at = "checkout", !.sub = s, !.plan = p])
  /\ UNCHANGED <<stripe, due, user, rows, bounds>>

\* ... and the checkout session.
OpenCheckout(w) ==
  LET r == req[w]
  IN  /\ r.at = "checkout"
      /\ stripe' = [stripe EXCEPT ![r.sub] = [status |-> "open", plan |-> r.plan,
                                              bought |-> r.plan, cycle |-> 0]]
      /\ End(w)
      /\ UNCHANGED <<due, user, rows, bounds>>

\* POST /subscriptions/update: the row, ...
UpdatePlan(w, p) ==
  /\ updates < MaxUpdates
  /\ user.status = "active" /\ user.sub # "none" /\ user.plan # p
  /\ Begin(w, [Idle EXCEPT !.at = "price", !.sub = user.sub, !.plan = p])
  /\ updates' = updates + 1
  /\ UNCHANGED <<stripe, due, user, rows, verifies, faults>>

\* ... Stripe's price and metadata (a subscription that is gone is an error), ...
ChangePrice(w) ==
  LET r == req[w]
  IN  /\ r.at = "price"
      /\ IF Live(r.sub)
           THEN /\ stripe' = [stripe EXCEPT ![r.sub].plan = r.plan]
                /\ Emit(<<Ev("updated", r.sub)>>)
                /\ Step(w, "adopt")
           ELSE End(w) /\ UNCHANGED <<stripe, due>>
      /\ UNCHANGED <<user, rows, bounds>>

\* ... and activateSubscription with what was read.
AdoptPlan(w) ==
  /\ req[w].at = "adopt"
  /\ user' = [status |-> "active", plan |-> req[w].plan, sub |-> req[w].sub]
  /\ End(w)
  /\ UNCHANGED <<stripe, due, rows, bounds>>

\* POST /subscriptions/cancel: the row, ...
Cancel(w) ==
  /\ user.status = "active" /\ user.sub # "none"
  /\ Begin(w, [Idle EXCEPT !.at = "cancel", !.sub = user.sub])
  /\ UNCHANGED <<stripe, due, user, rows, bounds>>

\* ... Stripe, and then the row again (WriteUser).
CancelInStripe(w) ==
  /\ req[w].at = "cancel"
  /\ IF Live(req[w].sub)
       THEN /\ Canceled(req[w].sub)
            /\ Plan(w, [NoWrite EXCEPT !.status = "cancelled"])
       ELSE End(w) /\ UNCHANGED <<stripe, due>>
  /\ UNCHANGED <<user, rows, bounds>>

\* A session that was paid, once.
Paid(s) == stripe[s].status \notin {"none", "open"}

\* POST /subscriptions/verify-session and /billing/verify-payment: Stripe's session has a
\* subscription once it is paid, ...
VerifySession(w, s) ==
  /\ verifies < MaxVerifies
  /\ stripe[s].status = "active" \/ (LateVerify /\ Paid(s))
  /\ Begin(w, [Idle EXCEPT !.at = "verify", !.sub = s, !.plan = stripe[s].bought])
  /\ verifies' = verifies + 1
  /\ UNCHANGED <<stripe, due, user, rows, updates, faults>>

\* ... and the row tells whether it is active here already.
FindVerified(w) ==
  /\ req[w].at = "verify"
  /\ Step(w, IF user.status = "active" /\ user.sub = req[w].sub THEN "allocate" ELSE "activate")
  /\ UNCHANGED <<stripe, due, user, rows, bounds>>

-----------------------------------------------------------------------------
StripeStep(s) ==
  PayCheckout(s) \/ Renew(s) \/ RenewFails(s) \/ Recover(s) \/ CancelElsewhere(s)

OwnerStep(w) ==
  \/ \E s \in Subs, p \in Plans : Subscribe(w, s, p)
  \/ \E p \in Plans : UpdatePlan(w, p)
  \/ Cancel(w)
  \/ \E s \in Subs : VerifySession(w, s)

RequestStep(w) ==
  \/ Activate(w) \/ CheckActive(w) \/ AllocatedThisMonth(w) \/ CheckInvoice(w) \/ Credit(w)
  \/ WriteUser(w) \/ FindRenewal(w) \/ FindFailed(w) \/ AskStripe(w) \/ FindDeleted(w)
  \/ FindUpdated(w) \/ OpenCheckout(w) \/ ChangePrice(w) \/ AdoptPlan(w) \/ CancelInStripe(w)
  \/ FindVerified(w)
  \/ Acknowledge(w)

Delivery == \E w \in Workers : \E i \in DOMAIN due : Deliver(w, i)

Next ==
  \/ \E s \in Subs : StripeStep(s)
  \/ Delivery
  \/ \E w \in Workers : OwnerStep(w) \/ RequestStep(w) \/ RequestFails(w)

Spec == Init /\ [][Next]_vars

\* Requests in progress go on, and Stripe delivers what was not acknowledged.
FairSpec ==
  Spec /\ SF_vars(Delivery) /\ \A w \in Workers : WF_vars(RequestStep(w))

-----------------------------------------------------------------------------
TypeOK ==
  /\ \A s \in Subs :
       /\ stripe[s].status \in {"none", "open", "active", "past_due", "canceled"}
       /\ {stripe[s].plan, stripe[s].bought} \subseteq Plans \cup {"none"}
       /\ stripe[s].cycle \in 0..MaxCycles
  /\ due \in Seq(Event)
  /\ user.status \in {"inactive", "active", "cancelled"}
  /\ user.plan \in Plans \cup {"none"} /\ user.sub \in Subs \cup {"none"}
  /\ rows \in [Subs -> [0..MaxCycles -> [Plans -> Nat]]]

\* Nobody is active, and nobody gets free credits, for a checkout that was not paid,
\* in whatever order requests and events come (stripe.webhooks.js:306-381, billing.js:724).
ActiveWasPaid ==
  /\ user.status = "active" => user.sub \in Subs /\ Paid(user.sub)
  /\ \A s \in Subs, i \in 0..MaxCycles : Rows(s, i) # {} => Paid(s) /\ i <= stripe[s].cycle

\* One allocation of free credits per invoice, through crashes and repeated or reordered
\* events: requests one at a time and no change of plan (subscription.service.js:179-196).
\* Guide: "Prevents duplicate allocations on webhook retries"
\* (docs/PRICING_MODEL_IMPLEMENTATION_GUIDE.md:249).
OncePerInvoice ==
  \A s \in Subs, i \in 0..MaxCycles :
    /\ \A p \in Plans : rows[s][i][p] <= 1
    /\ \A p, q \in Rows(s, i) : p = q

\* Once Stripe has nothing left to say and no request runs, the row agrees with Stripe on
\* the status and the plan of the subscription it names: events in order, one request at a
\* time, with crashes anywhere (stripe.webhooks.js:878-1061).
RowAgrees ==
  due = <<>> /\ (\A w \in Workers : req[w] = Idle) /\ user.sub # "none" =>
    /\ user.status = CASE stripe[user.sub].status = "active"   -> "active"
                       [] stripe[user.sub].status = "past_due" -> "inactive"
                       [] stripe[user.sub].status = "canceled" -> "cancelled"
    /\ Live(user.sub) => user.plan = stripe[user.sub].plan

\* A subscription cancelled in Stripe does not stay active here (the same conditions).
CancellationArrives ==
  \A s \in Subs : stripe[s].status = "canceled" ~> ~(user.status = "active" /\ user.sub = s)

\* POST /subscriptions/cancel "Immediately updates local DB to avoid race conditions with
\* webhook" (billing.js:502): a cancelled subscription does not become active again.
\* The code does not keep it (README, section 3).
CancelledStaysCancelled ==
  [][user.status = "cancelled" /\ user'.sub = user.sub => user'.status # "active"]_vars

\* "100 credits allocated on each billing cycle" (subscription.service.js:16): a paid
\* renewal of a subscription that goes on is not acknowledged without its credits.
\* The code does not keep it (README, section 3).
RenewalIsCredited ==
  [][\A e \in Range(due) \ Range(due') : e.type = "paid" /\ Live(e.sub) =>
       Rows(e.sub, e.inv) # {}]_vars

\* "User must not have active subscription" to subscribe
\* (docs/PRICING_MODEL_IMPLEMENTATION_GUIDE.md:374): one live subscription at a time.
\* The code does not keep it (README, section 3).
OneLiveSubscription ==
  \A s, t \in Subs : Live(s) /\ Live(t) => s = t
=============================================================================
