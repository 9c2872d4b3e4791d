----------------------------- MODULE PaymentsProofs -----------------------------
(***************************************************************************)
(* Proofs about Payments, for any number of sessions, webhook requests,    *)
(* repeated deliveries and faults.  PayInv holds however the requests      *)
(* overlap; OnceInv needs that Stripe sends no event of a payment while    *)
(* another one of it is handled, and with it every payment is settled as   *)
(* Settlement says.                                                        *)
(***************************************************************************)
EXTENDS Payments, TLAPS

LEMMA Natural ==
  /\ Units \in Nat /\ Units > 0 /\ MaxCopies \in Nat /\ MaxSpends \in Nat /\ MaxFaults \in Nat
  /\ \A s \in Topups : s \notin Packages
  /\ Topups \subseteq Sessions /\ Packages \subseteq Sessions
BY PaymentsAssumption DEF Sessions

\* A handler has an event while it is busy.
Busy == \A h \in Handlers : pc[h] # "idle" => event[h] \in Event

LEMMA EventTyped ==
  ASSUME NEW t \in Types, NEW s \in Sessions
  PROVE  Ev(t, s) \in Event /\ Ev(t, s).type = t /\ Ev(t, s).session = s
BY DEF Ev, Event

LEMMA TypeStep ==
  ASSUME TypeOK, Busy, [Next]_vars
  PROVE  TypeOK' /\ Busy'
<1>1. ASSUME NEW s \in Sessions, OpenTopup(s)
      PROVE  TypeOK' /\ Busy'
  BY <1>1 DEF OpenTopup, TypeOK, Busy, webhook, ledger, bounds
<1>2. ASSUME NEW s \in Sessions, CreatePurchase(s)
      PROVE  TypeOK' /\ Busy'
  <2>1. purchase' \in [Packages -> Row]
    BY <1>2 DEF CreatePurchase, TypeOK, Row
  <2> QED  BY <1>2, <2>1 DEF CreatePurchase, TypeOK, Busy, webhook, ledger, bounds
<1>3. ASSUME NEW s \in Sessions, CreateSession(s)
      PROVE  TypeOK' /\ Busy'
  BY <1>3 DEF CreateSession, TypeOK, Busy, webhook, ledger, bounds
<1>4. ASSUME NEW s \in Sessions, LinkSession(s)
      PROVE  TypeOK' /\ Busy'
  <2>1. purchase' \in [Packages -> Row]
    BY <1>4 DEF LinkSession, TypeOK, Row
  <2> QED  BY <1>4, <2>1 DEF LinkSession, TypeOK, Busy, webhook, ledger, bounds
<1>5. ASSUME NEW s \in Sessions, RouteFails(s)
      PROVE  TypeOK' /\ Busy'
  BY <1>5, Natural DEF RouteFails, TypeOK, Busy, webhook, ledger
<1>6. ASSUME NEW s \in Sessions, Pay(s) \/ PaymentFails(s) \/ RefundCharge(s)
      PROVE  TypeOK' /\ Busy'
  <2>1. \A t \in Types : Ev(t, s) \in Event
    BY EventTyped
  <2>2. due' \subseteq Event
    BY <1>6, <2>1 DEF Pay, PaymentFails, RefundCharge, TypeOK, Types
  <2>3. stripe' \in [Sessions -> {"none", "hidden", "open", "paid", "refunded"}]
    BY <1>6 DEF Pay, PaymentFails, RefundCharge, TypeOK
  <2>4. UNCHANGED <<route, acked, purchase, ledger, pc, event, bounds>>
    BY <1>6 DEF Pay, PaymentFails, RefundCharge
  <2> QED  BY <2>2, <2>3, <2>4 DEF TypeOK, Busy, ledger, bounds
<1>7. ASSUME Spend
      PROVE  TypeOK' /\ Busy'
  BY <1>7, Natural DEF Spend, TypeOK, Busy, webhook
<1>8. ASSUME NEW h \in Handlers, NEW e \in due \cup acked, Deliver(h, e)
      PROVE  TypeOK' /\ Busy'
  <2>1. e \in Event /\ copies' \in 0 .. MaxCopies
    BY <1>8, Natural DEF Deliver, TypeOK
  <2> QED  BY <1>8, <2>1 DEF Deliver, TypeOK, Busy, Steps, ledger
<1>9. ASSUME NEW h \in Handlers, NEW step \in Steps, Goto(h, step), pc[h] # "idle",
             purchase' \in [Packages -> Row], credits' \in [Sessions -> Nat],
             debits' \in [Sessions -> Nat], balance' \in Nat
      PROVE  TypeOK' /\ Busy'
  BY <1>9 DEF Goto, TypeOK, Busy, bounds
<1>10. "credit" \in Steps /\ "refund" \in Steps /\ "answer" \in Steps
  BY DEF Steps
<1>11. ASSUME NEW h \in Handlers, FindTopup(h) \/ FindPurchase(h) \/ IntentSucceeded(h) \/ FindCredit(h)
                                   \/ RefundRejected(h)
       PROVE  TypeOK' /\ Busy'
  <2>1. UNCHANGED <<purchase, ledger>> /\ pc[h] # "idle"
    BY <1>11 DEF FindTopup, FindPurchase, IntentSucceeded, FindCredit, RefundRejected
  <2>2. \E step \in Steps : Goto(h, step)
    BY <1>10, <1>11 DEF FindTopup, FindPurchase, IntentSucceeded, FindCredit, RefundRejected
  <2> QED  BY <1>9, <2>1, <2>2 DEF TypeOK, ledger
<1>12. ASSUME NEW h \in Handlers, CreditTopup(h) \/ CreditPurchase(h)
       PROVE  TypeOK' /\ Busy'
  <2> DEFINE s == event[h].session
  <2>1. s \in Sessions /\ pc[h] = "credit" /\ Credited(s) /\ Goto(h, "answer")
    BY <1>12, Natural DEF CreditTopup, CreditPurchase
  <2>2. credits' \in [Sessions -> Nat] /\ debits' \in [Sessions -> Nat] /\ balance' \in Nat
    BY <2>1, Natural DEF Credited, TypeOK
  <2>3. purchase' \in [Packages -> Row]
    BY <1>12 DEF CreditTopup, CreditPurchase, TypeOK, Row
  <2> QED  BY <1>9, <1>10, <2>1, <2>2, <2>3
<1>13. ASSUME NEW h \in Handlers, IntentFailed(h)
       PROVE  TypeOK' /\ Busy'
  <2>1. purchase' \in [Packages -> Row] /\ Goto(h, "answer") /\ UNCHANGED ledger /\ pc[h] # "idle"
    BY <1>13 DEF IntentFailed, TypeOK, Row
  <2> QED  BY <1>9, <1>10, <2>1 DEF ledger, TypeOK
<1>14. ASSUME NEW h \in Handlers, Refund(h)
       PROVE  TypeOK' /\ Busy'
  <2>1. purchase' \in [Packages -> Row] /\ Goto(h, "answer") /\ pc[h] # "idle" /\ credits' = credits
    BY <1>14 DEF Refund, TypeOK, Row
  <2>2. balance' \in Nat /\ debits' \in [Sessions -> Nat]
    <3>1. event[h].session \in Sessions
      BY <1>14 DEF Refund, Busy, Event
    <3> QED  BY <1>14, <3>1, Natural DEF Refund, TypeOK
  <2> QED  BY <1>9, <1>10, <2>1, <2>2 DEF TypeOK
<1>15. ASSUME NEW h \in Handlers, Acknowledge(h) \/ HandlerFails(h)
       PROVE  TypeOK' /\ Busy'
  <2>1. Release(h) /\ pc[h] # "idle" /\ UNCHANGED <<route, stripe, purchase, ledger, copies, spends>>
    BY <1>15 DEF Acknowledge, HandlerFails, bounds
  <2>2. due' \subseteq Event /\ acked' \subseteq Event
    BY <1>15 DEF Acknowledge, HandlerFails, TypeOK, Busy
  <2>3. faults' \in 0 .. MaxFaults
    BY <1>15, Natural DEF Acknowledge, HandlerFails, TypeOK, bounds
  <2> QED  BY <2>1, <2>2, <2>3 DEF Release, TypeOK, Busy, Steps, ledger
<1>16. CASE UNCHANGED vars
  BY <1>16 DEF vars, TypeOK, Busy
<1> QED  BY <1>1, <1>2, <1>3, <1>4, <1>5, <1>6, <1>7, <1>8, <1>11, <1>12, <1>13, <1>14, <1>15, <1>16
         DEF Next, RouteStep, StripeStep, HandlerStep

LEMMA TypeInit == Init => TypeOK /\ Busy
  BY Natural DEF Init, TypeOK, Busy, Row, NoRow, Steps

\* Every variable has its type.
THEOREM TypeCorrect == Spec => []TypeOK
<1>1. TypeOK /\ Busy /\ [Next]_vars => TypeOK' /\ Busy'
  BY TypeStep
<1> QED  BY <1>1, TypeInit, PTL DEF Spec

LEMMA BusyAlways == Spec => [](TypeOK /\ Busy)
<1>1. TypeOK /\ Busy /\ [Next]_vars => TypeOK' /\ Busy'
  BY TypeStep
<1> QED  BY <1>1, TypeInit, PTL DEF Spec

-----------------------------------------------------------------------------
(* What holds however requests overlap *)

RouteInv == \A s \in Sessions :
  /\ route[s] \in {"new", "row"} => stripe[s] = "none"
  /\ s \in Packages => /\ route[s] = "new" => purchase[s].status = "none"
                       /\ route[s] \in {"row", "session"} => RowAccepted /\ purchase[s].status # "none"

\* There is no purchase without the column of its amount, and none is linked that is not there.
RowInv == \A s \in Packages : /\ purchase[s].status # "none" => RowAccepted
                              /\ purchase[s].session => purchase[s].status # "none"

\* Only payments have events, failed attempts left aside.
EventInv ==
  /\ \A e \in due \cup acked : e.type # "intentFailed" => e.session \in Paid
  /\ \A h \in Handlers : pc[h] # "idle" /\ event[h].type # "intentFailed" => event[h].session \in Paid

HandlerInv == \A h \in Handlers :
  /\ pc[h] = "credit" => /\ event[h].session \in Paid \ Mispriced
                         /\ event[h].type \in {"completed", "intentSucceeded"}
  /\ pc[h] = "refund" => credits[event[h].session] > 0

PayInv == /\ RouteInv /\ RowInv /\ EventInv /\ HandlerInv
          /\ PaidIsCredited /\ CreditsArePaidFor /\ PayableIsLinked

LEMMA AcceptedIsPriced == RowAccepted => "amountCents" \in PurchaseColumns
  BY DEF RowAccepted, CreateColumns

\* What is paid stays paid.
LEMMA PaidStays ==
  ASSUME TypeOK, RouteInv, [Next]_vars
  PROVE  Paid \subseteq Paid'
<1>1. ASSUME NEW s \in Sessions, OpenTopup(s) \/ CreateSession(s) \/ LinkSession(s)
      PROVE  Paid \subseteq Paid'
  <2>1. route[s] \in {"new", "row"} => stripe[s] = "none"
    BY DEF RouteInv
  <2> QED  BY <1>1, <2>1 DEF OpenTopup, CreateSession, LinkSession, Paid, TypeOK
<1>2. ASSUME NEW s \in Sessions, Pay(s) \/ RefundCharge(s)
      PROVE  Paid \subseteq Paid'
  BY <1>2 DEF Pay, RefundCharge, Paid, TypeOK
<1>3. ASSUME stripe' = stripe
      PROVE  Paid \subseteq Paid'
  BY <1>3 DEF Paid
<1>4. ASSUME NEW s \in Sessions, CreatePurchase(s) \/ RouteFails(s) \/ PaymentFails(s)
      PROVE  stripe' = stripe
  BY <1>4 DEF CreatePurchase, RouteFails, PaymentFails
<1>5. ASSUME NEW h \in Handlers, HandlerStep(h) \/ HandlerFails(h) \/ \E e \in due \cup acked : Deliver(h, e)
      PROVE  stripe' = stripe
  BY <1>5 DEF HandlerStep, FindTopup, FindPurchase, CreditTopup, CreditPurchase, IntentSucceeded,
              IntentFailed, FindCredit, Refund, RefundRejected, Acknowledge, HandlerFails, Deliver, Goto
<1>6. ASSUME Spend \/ UNCHANGED vars
      PROVE  stripe' = stripe
  BY <1>6 DEF Spend, vars
<1> QED  BY <1>1, <1>2, <1>3, <1>4, <1>5, <1>6 DEF Next, RouteStep, StripeStep

\* A step of a handler that books nothing.
LEMMA HandlerMoves ==
  ASSUME TypeOK, Busy, PayInv, NEW h \in Handlers, NEW step \in Steps, Goto(h, step), pc[h] # "idle",
         UNCHANGED <<purchase, ledger>>,
         step = "credit" => /\ event[h].session \notin Mispriced
                            /\ event[h].type \in {"completed", "intentSucceeded"},
         step = "refund" => credits[event[h].session] > 0
  PROVE  PayInv'
<1>1. /\ UNCHANGED <<route, stripe, due, acked, event, purchase, credits>>
      /\ pc' = [pc EXCEPT ![h] = step]
  BY DEF Goto, ledger
<1>2. Paid' = Paid
  BY <1>1 DEF Paid
<1>3. RouteInv' /\ RowInv' /\ PaidIsCredited' /\ CreditsArePaidFor' /\ PayableIsLinked'
  BY <1>1, <1>2 DEF PayInv, RouteInv, RowInv, PaidIsCredited, CreditsArePaidFor, PayableIsLinked
<1>4. EventInv'
  BY <1>1, <1>2 DEF PayInv, EventInv, TypeOK
<1>5. HandlerInv'
  BY <1>1, <1>2 DEF PayInv, HandlerInv, EventInv, TypeOK
<1> QED  BY <1>3, <1>4, <1>5 DEF PayInv

\* A handler goes to its answer after it changed rows.
LEMMA HandlerBooks ==
  ASSUME TypeOK, Busy, PayInv, NEW h \in Handlers, Goto(h, "answer"), pc[h] # "idle",
         \A s \in Sessions : credits'[s] > 0 <=> (credits[s] > 0 \/ (pc[h] = "credit" /\ s = event[h].session)),
         \A s \in Packages :
           /\ purchase'[s].session = purchase[s].session
           /\ purchase[s].status = "none" <=> purchase'[s].status = "none"
           /\ purchase'[s].status \in {"paid", "refunded"} <=> credits'[s] > 0
  PROVE  PayInv'
<1>1. /\ UNCHANGED <<route, stripe, due, acked, event>>
      /\ pc' = [pc EXCEPT ![h] = "answer"]
  BY DEF Goto
<1>2. Paid' = Paid
  BY <1>1 DEF Paid
<1>3. RouteInv' /\ RowInv' /\ PayableIsLinked'
  BY <1>1 DEF PayInv, RouteInv, RowInv, PayableIsLinked
<1>4. EventInv'
  BY <1>1, <1>2 DEF PayInv, EventInv, TypeOK
<1>5. PaidIsCredited'
  BY Natural DEF PaidIsCredited
<1>6. CreditsArePaidFor'
  <2>1. pc[h] = "credit" => event[h].session \in Paid \ Mispriced
    BY DEF PayInv, HandlerInv
  <2> QED  BY <1>2, <2>1 DEF PayInv, CreditsArePaidFor
<1>7. HandlerInv'
  <2> SUFFICES ASSUME NEW g \in Handlers
               PROVE  /\ pc'[g] = "credit" => /\ event'[g].session \in Paid' \ Mispriced
                                              /\ event'[g].type \in {"completed", "intentSucceeded"}
                      /\ pc'[g] = "refund" => credits'[event'[g].session] > 0
    BY DEF HandlerInv
  <2>1. CASE g = h
    BY <1>1, <2>1 DEF TypeOK
  <2>2. CASE g # h
    <3>1. pc'[g] = pc[g] /\ event'[g] = event[g]
      BY <1>1, <2>2 DEF TypeOK
    <3>2. pc[g] = "refund" => event[g].session \in Sessions
      BY DEF Busy, Event
    <3> QED  BY <1>2, <3>1, <3>2 DEF PayInv, HandlerInv
  <2> QED  BY <2>1, <2>2
<1> QED  BY <1>3, <1>4, <1>5, <1>6, <1>7 DEF PayInv

\* The handlers and the ledger rest.
LEMMA OutsideMoves ==
  ASSUME TypeOK, Busy, PayInv, [Next]_vars, RouteInv', RowInv', PayableIsLinked', PaidIsCredited',
         UNCHANGED <<acked, credits, pc, event>>,
         \A e \in due' \ due : e.type # "intentFailed" => e.session \in Paid'
  PROVE  PayInv'
<1>1. Paid \subseteq Paid'
  BY PaidStays DEF PayInv
<1>2. EventInv'
  BY <1>1 DEF PayInv, EventInv
<1>3. HandlerInv' /\ CreditsArePaidFor'
  BY <1>1 DEF PayInv, HandlerInv, CreditsArePaidFor
<1> QED  BY <1>2, <1>3 DEF PayInv

LEMMA PayStep ==
  ASSUME TypeOK, Busy, PayInv, [Next]_vars
  PROVE  PayInv'
<1>0. /\ RouteInv /\ RowInv /\ PayableIsLinked /\ PaidIsCredited /\ EventInv /\ HandlerInv
      /\ \A s \in Packages : purchase[s] \in Row /\ credits[s] \in Nat
  BY Natural DEF PayInv, TypeOK
<1>1. ASSUME NEW s \in Sessions, OpenTopup(s)
      PROVE  PayInv'
  <2>1. s \in Topups /\ s \notin Packages /\ UNCHANGED <<purchase, due, acked, credits, pc, event>>
    BY <1>1, Natural DEF OpenTopup, webhook, ledger
  <2>2. RouteInv' /\ PayableIsLinked'
    BY <1>0, <1>1, <2>1, Natural DEF OpenTopup, RouteInv, PayableIsLinked, TypeOK
  <2> QED  BY <1>0, <2>1, <2>2, OutsideMoves DEF RowInv, PaidIsCredited
<1>2. ASSUME NEW s \in Sessions, CreatePurchase(s)
      PROVE  PayInv'
  <2>1. s \in Packages /\ route[s] = "new" /\ purchase[s].status = "none" /\ stripe' = stripe
        /\ UNCHANGED <<due, acked, credits, pc, event>>
    BY <1>0, <1>2 DEF CreatePurchase, RouteInv, webhook, ledger
  <2>2. CASE RowAccepted
    <3>1. purchase' = [purchase EXCEPT ![s].status = "pending"] /\ route' = [route EXCEPT ![s] = "row"]
      BY <1>2, <2>2 DEF CreatePurchase
    <3>2. RouteInv' /\ RowInv'
      BY <1>0, <2>1, <2>2, <3>1 DEF RouteInv, RowInv, TypeOK
    <3>3. PayableIsLinked' /\ PaidIsCredited'
      BY <1>0, <2>1, <3>1 DEF PayableIsLinked, PaidIsCredited, TypeOK, Row
    <3> QED  BY <2>1, <3>2, <3>3, OutsideMoves
  <2>3. CASE ~RowAccepted
    <3>1. purchase' = purchase /\ route' = [route EXCEPT ![s] = "failed"]
      BY <1>2, <2>3 DEF CreatePurchase
    <3>2. RouteInv'
      BY <1>0, <2>1, <3>1 DEF RouteInv, TypeOK
    <3> QED  BY <1>0, <2>1, <3>1, <3>2, OutsideMoves DEF RowInv, PayableIsLinked, PaidIsCredited
  <2> QED  BY <2>2, <2>3
<1>3. ASSUME NEW s \in Sessions, CreateSession(s)
      PROVE  PayInv'
  <2>1. /\ s \in Packages /\ route[s] = "row" /\ UNCHANGED <<purchase, due, acked, credits, pc, event>>
        /\ route' = [route EXCEPT ![s] = "session"] /\ stripe' = [stripe EXCEPT ![s] = "hidden"]
    BY <1>3 DEF CreateSession, webhook, ledger
  <2>2. RouteInv' /\ PayableIsLinked'
    BY <1>0, <2>1 DEF RouteInv, PayableIsLinked, TypeOK
  <2> QED  BY <1>0, <2>1, <2>2, OutsideMoves DEF RowInv, PaidIsCredited
<1>4. ASSUME NEW s \in Sessions, LinkSession(s)
      PROVE  PayInv'
  <2>1. /\ s \in Packages /\ route[s] = "session" /\ UNCHANGED <<due, acked, credits, pc, event>>
        /\ purchase' = [purchase EXCEPT ![s].session = TRUE]
        /\ route' = [route EXCEPT ![s] = "answered"]
        /\ stripe' = [stripe EXCEPT ![s] = IF @ = "hidden" THEN "open" ELSE @]
    BY <1>4 DEF LinkSession, webhook, ledger
  <2>2. RowAccepted
    BY <1>0, <2>1 DEF RouteInv
  <2>3. /\ \A p \in Packages : /\ purchase'[p].status = purchase[p].status
                               /\ purchase[p].session => purchase'[p].session
        /\ purchase'[s].session
    BY <1>0, <2>1 DEF TypeOK, Row
  <2>4. RouteInv' /\ RowInv'
    BY <1>0, <2>1, <2>2, <2>3 DEF RouteInv, RowInv, TypeOK
  <2>5. PayableIsLinked' /\ PaidIsCredited'
    BY <1>0, <2>1, <2>3, Natural DEF PayableIsLinked, PaidIsCredited, TypeOK
  <2> QED  BY <2>1, <2>4, <2>5, OutsideMoves
<1>5. ASSUME NEW s \in Sessions, RouteFails(s)
      PROVE  PayInv'
  <2>1. /\ UNCHANGED <<stripe, purchase, due, acked, credits, pc, event>>
        /\ route' = [route EXCEPT ![s] = "failed"]
    BY <1>5 DEF RouteFails, webhook, ledger
  <2>2. RouteInv'
    BY <1>0, <2>1 DEF RouteInv, TypeOK
  <2> QED  BY <1>0, <2>1, <2>2, OutsideMoves DEF RowInv, PayableIsLinked, PaidIsCredited
<1>6. ASSUME NEW s \in Sessions, Pay(s) \/ PaymentFails(s) \/ RefundCharge(s)
      PROVE  PayInv'
  <2>1. UNCHANGED <<route, purchase, acked, credits, pc, event>>
    BY <1>6 DEF Pay, PaymentFails, RefundCharge, ledger
  <2>2. \A p \in Sessions : \/ stripe'[p] = stripe[p]
                            \/ stripe[p] \in {"open", "paid"} /\ stripe'[p] \in {"paid", "refunded"}
    BY <1>6 DEF Pay, PaymentFails, RefundCharge, TypeOK
  <2>3. \A e \in due' \ due : e.type # "intentFailed" => e.session \in Paid'
    <3>1. /\ Ev("completed", s).session = s /\ Ev("intentSucceeded", s).session = s
          /\ Ev("refunded", s).session = s /\ Ev("intentFailed", s).type = "intentFailed"
      BY DEF Ev
    <3>2. Pay(s) \/ RefundCharge(s) => s \in Paid'
      BY DEF Pay, RefundCharge, Paid, TypeOK
    <3> QED  BY <1>6, <3>1, <3>2 DEF Pay, PaymentFails, RefundCharge
  <2>4. RouteInv' /\ PayableIsLinked'
    BY <1>0, <2>1, <2>2, Natural DEF RouteInv, PayableIsLinked
  <2> QED  BY <1>0, <2>1, <2>3, <2>4, OutsideMoves DEF RowInv, PaidIsCredited
<1>7. ASSUME Spend
      PROVE  PayInv'
  BY <1>0, <1>7, OutsideMoves
  DEF Spend, webhook, RouteInv, RowInv, PayableIsLinked, PaidIsCredited
<1>8. ASSUME NEW h \in Handlers, NEW e \in due \cup acked, Deliver(h, e)
      PROVE  PayInv'
  <2>1. /\ UNCHANGED <<route, stripe, due, acked, purchase, credits>>
        /\ pc' = [pc EXCEPT ![h] = "start"] /\ event' = [event EXCEPT ![h] = e]
    BY <1>8 DEF Deliver, ledger
  <2>2. Paid' = Paid
    BY <2>1 DEF Paid
  <2>3. EventInv'
    BY <1>0, <2>1, <2>2 DEF EventInv, TypeOK
  <2>4. HandlerInv'
    BY <1>0, <2>1, <2>2 DEF HandlerInv, TypeOK
  <2>5. RouteInv' /\ RowInv' /\ PaidIsCredited' /\ CreditsArePaidFor' /\ PayableIsLinked'
    BY <2>1, <2>2 DEF PayInv, RouteInv, RowInv, PaidIsCredited, CreditsArePaidFor, PayableIsLinked
  <2> QED  BY <2>3, <2>4, <2>5 DEF PayInv
<1>9. "credit" \in Steps /\ "refund" \in Steps /\ "answer" \in Steps
  BY DEF Steps
<1>10. ASSUME NEW h \in Handlers, FindTopup(h)
       PROVE  PayInv'
  <2>1. pc[h] = "start" /\ event[h].type = "completed" /\ event[h].session \notin Packages
        /\ UNCHANGED <<purchase, ledger>>
    BY <1>10, Natural DEF FindTopup
  <2>2. CASE AmountAgrees(event[h].session) /\ credits[event[h].session] = 0
    BY <1>9, <1>10, <2>1, <2>2, HandlerMoves DEF FindTopup, AmountAgrees
  <2>3. CASE ~(AmountAgrees(event[h].session) /\ credits[event[h].session] = 0)
    BY <1>9, <1>10, <2>1, <2>3, HandlerMoves DEF FindTopup
  <2> QED  BY <2>2, <2>3
<1>11. ASSUME NEW h \in Handlers, FindPurchase(h) \/ IntentSucceeded(h)
       PROVE  PayInv'
  <2> DEFINE s == event[h].session
  <2>1. pc[h] = "start" /\ event[h].type \in {"completed", "intentSucceeded"} /\ UNCHANGED <<purchase, ledger>>
    BY <1>11 DEF FindPurchase, IntentSucceeded
  <2>2. CASE Goto(h, "credit") /\ s \in Packages /\ purchase[s].session /\ AmountAgrees(s)
    <3>1. "amountCents" \in PurchaseColumns
      BY <1>0, <2>2, AcceptedIsPriced DEF RowInv
    <3>2. s \notin Mispriced
      BY <2>2, <3>1 DEF AmountAgrees
    <3> QED  BY <1>9, <2>1, <2>2, <3>2, HandlerMoves
  <2>3. CASE Goto(h, "answer")
    BY <1>9, <2>1, <2>3, HandlerMoves
  <2> QED  BY <1>11, <2>2, <2>3 DEF FindPurchase, IntentSucceeded, PendingByIntent
<1>12. ASSUME NEW h \in Handlers, FindCredit(h)
       PROVE  PayInv'
  <2>1. pc[h] = "start" /\ UNCHANGED <<purchase, ledger>>
    BY <1>12 DEF FindCredit
  <2>2. CASE credits[event[h].session] > 0 /\ debits[event[h].session] = 0
    BY <1>9, <1>12, <2>1, <2>2, HandlerMoves DEF FindCredit
  <2>3. CASE ~(credits[event[h].session] > 0 /\ debits[event[h].session] = 0)
    BY <1>9, <1>12, <2>1, <2>3, HandlerMoves DEF FindCredit
  <2> QED  BY <2>2, <2>3
<1>13. ASSUME NEW h \in Handlers, RefundRejected(h)
       PROVE  PayInv'
  BY <1>9, <1>13, HandlerMoves DEF RefundRejected
<1>14. ASSUME NEW h \in Handlers, CreditTopup(h) \/ CreditPurchase(h)
       PROVE  PayInv'
  <2> DEFINE s == event[h].session
  <2>1. pc[h] = "credit" /\ s \in Sessions /\ Goto(h, "answer") /\ credits' = [credits EXCEPT ![s] = @ + 1]
    BY <1>14, Natural DEF CreditTopup, CreditPurchase, Credited
  <2>2. \A p \in Sessions : credits'[p] > 0 <=> (credits[p] > 0 \/ p = s)
    BY <2>1 DEF TypeOK
  <2>3. CASE CreditTopup(h)
    <3>1. s \notin Packages /\ purchase' = purchase
      BY <2>3, Natural DEF CreditTopup
    <3>2. \A p \in Packages : credits'[p] > 0 <=> credits[p] > 0
      BY <2>2, <3>1, Natural
    <3> QED  BY <1>0, <2>1, <2>2, <3>1, <3>2, HandlerBooks DEF PaidIsCredited
  <2>4. CASE CreditPurchase(h)
    <3>1. s \in Packages /\ purchase' = [purchase EXCEPT ![s].status = "paid", ![s].intent = TRUE]
      BY <2>4 DEF CreditPurchase
    <3>2. s \in Paid
      BY <1>0, <2>1 DEF HandlerInv
    <3>3. stripe[s] \in {"paid", "refunded"}
      BY <3>2 DEF Paid
    <3>4. purchase[s].status # "none"
      BY <1>0, <3>1, <3>3 DEF PayableIsLinked, RowInv
    <3>5. ASSUME NEW p \in Packages
          PROVE  /\ purchase'[p].session = purchase[p].session
                 /\ purchase[p].status = "none" <=> purchase'[p].status = "none"
                 /\ purchase'[p].status \in {"paid", "refunded"} <=> credits'[p] > 0
      <4>1. p \in Sessions /\ (credits'[p] > 0 <=> (credits[p] > 0 \/ p = s))
        BY <2>2, Natural
      <4>2. CASE p = s
        BY <1>0, <3>1, <3>4, <4>1, <4>2 DEF TypeOK, Row
      <4>3. CASE p # s
        BY <1>0, <3>1, <4>1, <4>3 DEF TypeOK, PaidIsCredited
      <4> QED  BY <4>2, <4>3
    <3> QED  BY <2>1, <2>2, <3>5, HandlerBooks
  <2> QED  BY <1>14, <2>3, <2>4
<1>15. ASSUME NEW h \in Handlers, IntentFailed(h)
       PROVE  PayInv'
  <2>1. Goto(h, "answer") /\ credits' = credits /\ pc[h] = "start"
    BY <1>15 DEF IntentFailed, ledger
  <2>2. \A p \in Packages : \/ purchase'[p] = purchase[p]
                            \/ purchase[p].status = "pending" /\ purchase'[p] = [purchase[p] EXCEPT !.status = "failed"]
    BY <1>15 DEF IntentFailed, PendingByIntent
  <2>3. \A p \in Packages :
           /\ purchase'[p].session = purchase[p].session
           /\ purchase[p].status = "none" <=> purchase'[p].status = "none"
           /\ purchase'[p].status \in {"paid", "refunded"} <=> purchase[p].status \in {"paid", "refunded"}
    BY <1>0, <2>2 DEF Row
  <2> QED  BY <1>0, <2>1, <2>3, HandlerBooks DEF PaidIsCredited
<1>16. ASSUME NEW h \in Handlers, Refund(h)
       PROVE  PayInv'
  <2>1. Goto(h, "answer") /\ credits' = credits /\ pc[h] = "refund" /\ credits[event[h].session] > 0
    BY <1>0, <1>16 DEF Refund, HandlerInv
  <2>2. \A p \in Packages : \/ purchase'[p] = purchase[p]
                            \/ p = event[h].session /\ purchase'[p] = [purchase[p] EXCEPT !.status = "refunded"]
    BY <1>16 DEF Refund
  <2>3. \A p \in Packages :
           /\ purchase'[p].session = purchase[p].session
           /\ purchase[p].status = "none" <=> purchase'[p].status = "none"
           /\ purchase'[p].status \in {"paid", "refunded"} <=> purchase[p].status \in {"paid", "refunded"}
    BY <1>0, <2>1, <2>2 DEF Row, PaidIsCredited
  <2> QED  BY <1>0, <2>1, <2>3, HandlerBooks DEF PaidIsCredited
<1>17. ASSUME NEW h \in Handlers, Acknowledge(h) \/ HandlerFails(h)
       PROVE  PayInv'
  <2>1. /\ pc' = [pc EXCEPT ![h] = "idle"] /\ event' = [event EXCEPT ![h] = NoEvent] /\ pc[h] # "idle"
        /\ UNCHANGED <<route, stripe, purchase, credits>>
    BY <1>17 DEF Acknowledge, HandlerFails, Release, ledger
  <2>2. Paid' = Paid /\ due' \cup acked' \subseteq due \cup acked \cup {event[h]}
    BY <1>17, <2>1 DEF Paid, Acknowledge, HandlerFails
  <2>3. EventInv'
    BY <1>0, <2>1, <2>2 DEF EventInv, TypeOK
  <2>4. HandlerInv'
    BY <1>0, <2>1, <2>2 DEF HandlerInv, TypeOK
  <2>5. RouteInv' /\ RowInv' /\ PaidIsCredited' /\ CreditsArePaidFor' /\ PayableIsLinked'
    BY <2>1, <2>2 DEF PayInv, RouteInv, RowInv, PaidIsCredited, CreditsArePaidFor, PayableIsLinked
  <2> QED  BY <2>3, <2>4, <2>5 DEF PayInv
<1>18. CASE UNCHANGED vars
  BY <1>18 DEF vars, PayInv, RouteInv, RowInv, EventInv, HandlerInv, PaidIsCredited, CreditsArePaidFor,
               PayableIsLinked, Paid
<1> QED  BY <1>1, <1>2, <1>3, <1>4, <1>5, <1>6, <1>7, <1>8, <1>10, <1>11, <1>12, <1>13, <1>14, <1>15,
            <1>16, <1>17, <1>18 DEF Next, RouteStep, StripeStep, HandlerStep

LEMMA PayAlways == Spec => []PayInv
<1>1. Init => PayInv
  BY Natural DEF Init, PayInv, RouteInv, RowInv, EventInv, HandlerInv, PaidIsCredited,
                 CreditsArePaidFor, PayableIsLinked, Paid, NoRow
<1> QED  BY <1>1, PayStep, BusyAlways, PTL DEF Spec

\* A purchase is paid or refunded exactly when its credits were booked.
THEOREM RowsNeverPart == Spec => []PaidIsCredited
<1>1. PayInv => PaidIsCredited
  BY DEF PayInv
<1> QED  BY <1>1, PayAlways, PTL

\* Credits are booked for nothing but a payment of the right amount.
THEOREM PaidFor == Spec => []CreditsArePaidFor
<1>1. PayInv => CreditsArePaidFor
  BY DEF PayInv
<1> QED  BY <1>1, PayAlways, PTL

\* Whoever can pay for a package pays for a session that its purchase names.
THEOREM Linked == Spec => []PayableIsLinked
<1>1. PayInv => PayableIsLinked
  BY DEF PayInv
<1> QED  BY <1>1, PayAlways, PTL
-----------------------------------------------------------------------------
(* What holds when no payment has two requests at once *)

\* A handler that is about to book has looked and found nothing, and nobody else can book.
OnceInv ==
  /\ \A g, h \in Handlers : pc[g] # "idle" /\ pc[h] # "idle" /\ event[g].session = event[h].session => g = h
  /\ \A h \in Handlers : /\ pc[h] = "credit" => credits[event[h].session] = 0
                         /\ pc[h] = "refund" => debits[event[h].session] = 0
  /\ \A s \in Sessions : credits[s] \in {0, 1} /\ debits[s] \in {0, 1}

\* A handler that does not book keeps OnceInv when it has looked before it goes to a transaction.
LEMMA OnceMoves ==
  ASSUME TypeOK, OnceInv, NEW h \in Handlers, NEW step \in Steps, Goto(h, step), pc[h] # "idle",
         UNCHANGED <<credits, debits>>,
         step = "credit" => credits[event[h].session] = 0,
         step = "refund" => debits[event[h].session] = 0
  PROVE  OnceInv'
<1>1. event' = event /\ \A g \in Handlers : pc'[g] = IF g = h THEN step ELSE pc[g]
  BY DEF Goto, TypeOK
<1>2. \A g \in Handlers : pc'[g] # "idle" => pc[g] # "idle"
  BY <1>1
<1> QED  BY <1>1, <1>2 DEF OnceInv

\* A handler that books keeps it, because no other one handles that payment.
LEMMA OnceBooks ==
  ASSUME TypeOK, Busy, OnceInv, NEW h \in Handlers, Goto(h, "answer"), pc[h] # "idle",
         \A s \in Sessions : /\ credits'[s] \in {0, 1} /\ debits'[s] \in {0, 1}
                             /\ s # event[h].session => credits'[s] = credits[s] /\ debits'[s] = debits[s]
  PROVE  OnceInv'
<1>1. event' = event /\ \A g \in Handlers : pc'[g] = IF g = h THEN "answer" ELSE pc[g]
  BY DEF Goto, TypeOK
<1>2. \A g \in Handlers : pc'[g] # "idle" => pc[g] # "idle"
  BY <1>1
<1>3. ASSUME NEW g \in Handlers, pc'[g] \in {"credit", "refund"}
      PROVE  /\ pc[g] = pc'[g]
             /\ credits'[event[g].session] = credits[event[g].session]
             /\ debits'[event[g].session] = debits[event[g].session]
  <2>1. g # h /\ pc[g] = pc'[g] /\ pc[g] # "idle"
    BY <1>1, <1>3
  <2>2. event[g].session \in Sessions /\ event[g].session # event[h].session
    BY <2>1 DEF Busy, Event, OnceInv
  <2> QED  BY <2>1, <2>2
<1> QED  BY <1>1, <1>2, <1>3 DEF OnceInv

\* A payment's transaction, as one step of Settlement.
LEMMA CreditsOnce ==
  ASSUME TypeOK, Busy, PayInv, OnceInv, NEW h \in Handlers, CreditTopup(h) \/ CreditPurchase(h)
  PROVE  OnceInv' /\ Promise!Next
<1> DEFINE s == event[h].session
<1>1. /\ pc[h] = "credit" /\ s \in Sessions /\ Goto(h, "answer")
      /\ credits' = [credits EXCEPT ![s] = @ + 1] /\ debits' = debits
  BY Natural DEF CreditTopup, CreditPurchase, Credited
<1>2. credits[s] = 0 /\ s \in Paid
  BY <1>1 DEF OnceInv, PayInv, HandlerInv
<1>3. credits' = [credits EXCEPT ![s] = 1]
  BY <1>1, <1>2 DEF TypeOK
<1>4. OnceInv'
  BY <1>1, <1>3, OnceBooks DEF OnceInv, TypeOK
<1>5. Paid' = Paid
  BY <1>1 DEF Goto, Paid
<1> QED  BY <1>1, <1>2, <1>3, <1>4, <1>5 DEF Promise!Next, Promise!Credit

LEMMA RefundsOnce ==
  ASSUME TypeOK, Busy, PayInv, OnceInv, NEW h \in Handlers, Refund(h)
  PROVE  OnceInv' /\ Promise!Next
<1> DEFINE s == event[h].session
<1>1. /\ pc[h] = "refund" /\ Goto(h, "answer")
      /\ debits' = [debits EXCEPT ![s] = @ + 1] /\ credits' = credits
  BY DEF Refund
<1>2. s \in Sessions
  BY <1>1 DEF Busy, Event
<1>3. debits[s] = 0 /\ credits[s] = 1
  <2>1. debits[s] = 0 /\ credits[s] > 0
    BY <1>1 DEF OnceInv, PayInv, HandlerInv
  <2>2. credits[s] \in {0, 1}
    BY <1>2 DEF OnceInv
  <2> QED  BY <2>1, <2>2
<1>4. debits' = [debits EXCEPT ![s] = 1]
  BY <1>1, <1>2, <1>3 DEF TypeOK
<1>5. OnceInv'
  BY <1>1, <1>2, <1>4, OnceBooks DEF OnceInv, TypeOK
<1>6. Paid' = Paid
  BY <1>1 DEF Goto, Paid
<1> QED  BY <1>1, <1>2, <1>3, <1>4, <1>5, <1>6 DEF Promise!Next, Promise!TakeBack

LEMMA OnceStep ==
  ASSUME ~ Overlap, TypeOK, Busy, PayInv, OnceInv, [Next]_vars
  PROVE  OnceInv' /\ [Promise!Next]_<<Paid, credits, debits>>
<1>1. ASSUME UNCHANGED <<credits, debits, pc, event>>, Paid' = Paid
      PROVE  OnceInv' /\ [Promise!Next]_<<Paid, credits, debits>>
  BY <1>1 DEF OnceInv
<1>2. ASSUME NEW s \in Sessions, RouteStep(s)
      PROVE  OnceInv' /\ [Promise!Next]_<<Paid, credits, debits>>
  <2>1. UNCHANGED <<credits, debits, pc, event>>
    BY <1>2 DEF RouteStep, OpenTopup, CreatePurchase, CreateSession, LinkSession, RouteFails, webhook, ledger
  <2>2. route[s] \in {"new", "row"} => stripe[s] = "none"
    BY DEF PayInv, RouteInv
  <2>3. Paid' = Paid
    BY <1>2, <2>2 DEF RouteStep, OpenTopup, CreatePurchase, CreateSession, LinkSession, RouteFails, Paid, TypeOK
  <2> QED  BY <1>1, <2>1, <2>3
<1>3. ASSUME NEW s \in Sessions, Pay(s)
      PROVE  OnceInv' /\ [Promise!Next]_<<Paid, credits, debits>>
  <2>1. UNCHANGED <<credits, debits, pc, event>>
    BY <1>3 DEF Pay, ledger
  <2>2. s \notin Paid /\ Paid' = Paid \cup {s}
    BY <1>3 DEF Pay, Paid, TypeOK
  <2>3. Promise!Next
    BY <2>1, <2>2 DEF Promise!Next, Promise!Pay
  <2> QED  BY <2>1, <2>3 DEF OnceInv
<1>4. ASSUME NEW s \in Sessions, PaymentFails(s) \/ RefundCharge(s)
      PROVE  OnceInv' /\ [Promise!Next]_<<Paid, credits, debits>>
  <2>1. UNCHANGED <<credits, debits, pc, event>> /\ Paid' = Paid
    BY <1>4 DEF PaymentFails, RefundCharge, ledger, Paid, TypeOK
  <2> QED  BY <1>1, <2>1
<1>5. ASSUME Spend \/ UNCHANGED vars
      PROVE  OnceInv' /\ [Promise!Next]_<<Paid, credits, debits>>
  <2>1. UNCHANGED <<credits, debits, pc, event>> /\ Paid' = Paid
    BY <1>5 DEF Spend, webhook, vars, Paid
  <2> QED  BY <1>1, <2>1
<1>6. ASSUME NEW h \in Handlers, NEW e \in due \cup acked, Deliver(h, e)
      PROVE  OnceInv' /\ [Promise!Next]_<<Paid, credits, debits>>
  <2>1. /\ UNCHANGED <<credits, debits>> /\ Paid' = Paid
        /\ \A g \in Handlers : g # h => pc'[g] = pc[g] /\ event'[g] = event[g]
        /\ pc'[h] = "start" /\ event'[h] = e
    BY <1>6 DEF Deliver, ledger, Paid, TypeOK
  <2>2. \A g \in Handlers : pc[g] # "idle" => event[g].session # e.session
    BY <1>6 DEF Deliver
  <2>3. OnceInv'
    BY <2>1, <2>2 DEF OnceInv
  <2> QED  BY <2>1, <2>3
<1>7. ASSUME NEW h \in Handlers, NEW step \in Steps, Goto(h, step), pc[h] # "idle",
             UNCHANGED <<credits, debits>>,
             step = "credit" => credits[event[h].session] = 0,
             step = "refund" => debits[event[h].session] = 0
      PROVE  OnceInv' /\ [Promise!Next]_<<Paid, credits, debits>>
  <2>1. Paid' = Paid
    BY <1>7 DEF Goto, Paid
  <2> QED  BY <1>7, <2>1, OnceMoves
<1>8. "credit" \in Steps /\ "refund" \in Steps /\ "answer" \in Steps
  BY DEF Steps
<1>9. ASSUME NEW h \in Handlers, FindTopup(h) \/ FindPurchase(h) \/ IntentSucceeded(h)
      PROVE  OnceInv' /\ [Promise!Next]_<<Paid, credits, debits>>
  <2> DEFINE s == event[h].session
  <2>1. pc[h] # "idle" /\ UNCHANGED <<credits, debits>>
    BY <1>9 DEF FindTopup, FindPurchase, IntentSucceeded, ledger
  <2>2. s \in Packages /\ purchase[s].status = "pending" => credits[s] = 0
    <3>1. \A p \in Packages : credits[p] \in {0, 1}
      BY Natural DEF OnceInv
    <3> QED  BY <3>1 DEF PayInv, PaidIsCredited
  <2>3. (Goto(h, "credit") /\ credits[s] = 0) \/ Goto(h, "answer")
    BY <1>9, <2>2 DEF FindTopup, FindPurchase, IntentSucceeded, PendingByIntent
  <2> QED  BY <1>7, <1>8, <2>1, <2>3
<1>10. ASSUME NEW h \in Handlers, FindCredit(h)
       PROVE  OnceInv' /\ [Promise!Next]_<<Paid, credits, debits>>
  <2> DEFINE s == event[h].session
  <2>1. pc[h] # "idle" /\ UNCHANGED <<credits, debits>>
    BY <1>10 DEF FindCredit, ledger
  <2>2. (Goto(h, "refund") /\ debits[s] = 0) \/ Goto(h, "answer")
    BY <1>10 DEF FindCredit
  <2> QED  BY <1>7, <1>8, <2>1, <2>2
<1>11. ASSUME NEW h \in Handlers, IntentFailed(h) \/ RefundRejected(h)
       PROVE  OnceInv' /\ [Promise!Next]_<<Paid, credits, debits>>
  BY <1>7, <1>8, <1>11 DEF IntentFailed, RefundRejected, ledger
<1>12. ASSUME NEW h \in Handlers, Acknowledge(h) \/ HandlerFails(h)
       PROVE  OnceInv' /\ [Promise!Next]_<<Paid, credits, debits>>
  <2>1. /\ UNCHANGED <<credits, debits>> /\ Paid' = Paid
        /\ pc'[h] = "idle" /\ \A g \in Handlers : g # h => pc'[g] = pc[g] /\ event'[g] = event[g]
    BY <1>12 DEF Acknowledge, HandlerFails, Release, ledger, Paid, TypeOK
  <2>2. OnceInv'
    BY <2>1 DEF OnceInv
  <2> QED  BY <2>1, <2>2
<1> QED  BY <1>2, <1>3, <1>4, <1>5, <1>6, <1>9, <1>10, <1>11, <1>12, CreditsOnce, RefundsOnce
         DEF Next, StripeStep, HandlerStep

\* When Stripe does not send an event of a payment while another one of it is handled, every
\* payment is credited once and taken back once, through any crash, error or repetition.
THEOREM SettlementRefinement ==
  ASSUME ~ Overlap
  PROVE  Spec => SettlesOnce
<1>1. Init => OnceInv /\ Promise!Init
  BY DEF Init, OnceInv, Promise!Init, Paid, Sessions
<1>2. TypeOK /\ Busy /\ PayInv /\ OnceInv /\ [Next]_vars
        => OnceInv' /\ [Promise!Next]_<<Paid, credits, debits>>
  BY OnceStep
<1> QED  BY <1>1, <1>2, BusyAlways, PayAlways, PTL DEF Spec, SettlesOnce, Promise!Spec
=============================================================================
