---------------------------- MODULE SubscriptionsProofs ----------------------------
(***************************************************************************)
(* Proofs about Subscriptions: who is active has paid, for any number of   *)
(* requests that overlap and any order of Stripe's events; an invoice      *)
(* gives free credits once, when requests are handled one at a time; and   *)
(* when events are in order besides, the row follows Stripe.               *)
(***************************************************************************)
EXTENDS Subscriptions, SequenceTheorems, WellFoundedInduction, TLAPS

-----------------------------------------------------------------------------
(* Queues of events. *)

LEMMA MinIsMember ==
  ASSUME NEW I \in SUBSET Nat, I # {}
  PROVE  Min(I) \in I /\ \A y \in I : Min(I) <= y
<1>1. PICK x \in I : \A y \in I : ~ (<<y, x>> \in OpToRel(<, Nat))
  BY NatLessThanWellFounded, WFMin
<1>2. ASSUME NEW y \in I
      PROVE  x <= y
  <2>1. <<y, x>> \in Nat \X Nat /\ <<y, x>>[1] = y /\ <<y, x>>[2] = x
    OBVIOUS
  <2>2. ~ (y < x)
    BY <1>1, <2>1 DEF OpToRel
  <2> QED
    BY <2>2
<1> QED
  BY <1>2 DEF Min

\* Acknowledging an event takes nothing but an event out of the queue.
LEMMA Removed ==
  ASSUME NEW S, NEW d \in Seq(S), NEW e
  PROVE  RemoveFirst(d, e) \in Seq(S) /\ Range(RemoveFirst(d, e)) \subseteq Range(d)
<1> DEFINE I == {i \in 1..Len(d) : d[i] = e}
           n == Min(I)
           a == SubSeq(d, 1, n - 1)
           b == SubSeq(d, n + 1, Len(d))
<1>1. CASE I = {}
  BY <1>1 DEF RemoveFirst
<1>2. CASE I # {}
  <2>1. n \in 1..Len(d)
    <3>1. I \in SUBSET Nat
      OBVIOUS
    <3> QED
      BY <3>1, <1>2, MinIsMember
  <2>2. Len(d) \in Nat /\ \A i \in 1..Len(d) : d[i] \in Range(d)
    BY RangeEquality, LenProperties
  <2>3. a \in Seq(Range(d))
    <3>1. \A i \in 1..(n - 1) : d[i] \in Range(d)
      BY <2>1, <2>2
    <3> QED
      BY <2>1, <2>2, <3>1, SubSeqProperties
  <2>4. b \in Seq(Range(d))
    <3>1. \A i \in (n + 1)..Len(d) : d[i] \in Range(d)
      BY <2>1, <2>2
    <3> QED
      BY <2>1, <2>2, <3>1, SubSeqProperties
  <2>5. RemoveFirst(d, e) = a \o b
    BY <1>2 DEF RemoveFirst, RemoveAt, SelectInSeq
  <2>6. a \o b \in Seq(Range(d))
    BY <2>3, <2>4, ConcatProperties
  <2>7. Range(d) \subseteq S
    BY RangeOfSeq
  <2> HIDE DEF a, b, n, I
  <2>8. Range(a \o b) \subseteq Range(d)
    BY <2>6, RangeOfSeq
  <2> QED
    BY <2>5, <2>6, <2>7, <2>8, SeqMonotonic
<1> QED
  BY <1>1, <1>2

LEMMA Added ==
  ASSUME NEW S, NEW d \in Seq(S), NEW e \in S, NEW f \in S
  PROVE  /\ d \o <<e>> \in Seq(S) /\ Range(d \o <<e>>) = Range(d) \cup {e}
         /\ d \o <<e, f>> \in Seq(S) /\ Range(d \o <<e, f>>) = Range(d) \cup {e, f}
<1>1. <<e>> \in Seq(S) /\ <<e, f>> \in Seq(S)
  OBVIOUS
<1>2. Range(<<e>>) = {e} /\ Range(<<e, f>>) = {e, f}
  BY DEF Range
<1>3. ASSUME NEW t \in Seq(S)
      PROVE  d \o t \in Seq(S) /\ Range(d \o t) = Range(d) \cup Range(t)
  <2>1. d \o t \in Seq(S)
    BY ConcatProperties
  <2>2. Range(d \o t) = Range(d) \cup Range(t)
    BY RangeConcatenation
  <2> QED
    BY <2>1, <2>2
<1>4. d \o <<e>> \in Seq(S) /\ Range(d \o <<e>>) = Range(d) \cup {e}
  BY <1>1, <1>2, <1>3
<1>5. d \o <<e, f>> \in Seq(S) /\ Range(d \o <<e, f>>) = Range(d) \cup {e, f}
  BY <1>1, <1>2, <1>3
<1> QED
  BY <1>4, <1>5

-----------------------------------------------------------------------------
(* Types. *)

States == Types \cup {"idle", "answer", "activate", "allocate", "invoice", "credit", "write",
                     "ask", "checkout", "price", "adopt", "cancel", "verify"}
StripeRecord == [status : {"none", "open", "active", "past_due", "canceled"},
                 plan : Plans \cup {"none"}, bought : Plans \cup {"none"}, cycle : 0..MaxCycles]
Owner == [status : {"inactive", "active", "cancelled"}, plan : Plans \cup {"none"},
          sub : Subs \cup {"none"}]
Write == [status : {"keep", "inactive", "active", "cancelled"},
          plan : Plans \cup {"keep", "none"}]
Request == [at : States, ev : Event \cup {NoEvent}, sub : Subs \cup {"none"},
            plan : Plans \cup {"none"}, inv : 0..MaxCycles, write : Write]

\* Every variable has its type, and a subscription that was opened has a plan.
Shape ==
  /\ stripe \in [Subs -> StripeRecord]
  /\ \A s \in Subs : stripe[s].status # "none" => {stripe[s].plan, stripe[s].bought} \subseteq Plans
  /\ due \in Seq(Event)
  /\ user \in Owner
  /\ rows \in [Subs -> [0..MaxCycles -> [Plans -> Nat]]]
  /\ req \in [Workers -> Request]

\* The invoice of a subscription that was paid.
Billed(s, i) == s \in Subs /\ Paid(s) /\ i <= stripe[s].cycle

\* What a request relies on: whatever it is about was paid, and a checkout is not open yet.
Stands(r) ==
  /\ r.at \notin {"idle", "answer", "checkout"} => Billed(r.sub, r.inv)
  /\ r.at = "checkout" => r.sub \in Subs /\ stripe[r.sub].status = "none"
  /\ r.at \in {"checkout", "price"} => r.plan \in Plans
  /\ r.at = "write" /\ r.write.status = "active" => user.sub # "none"

UserPaid ==
  /\ user.sub # "none" => Paid(user.sub)
  /\ user.status = "active" => user.sub # "none"

RowsPaid ==
  \A s \in Subs, i \in 0..MaxCycles, p \in Plans : rows[s][i][p] > 0 => Billed(s, i)

\* No order of requests and events names a subscription that was not paid; two requests
\* never open one checkout.
PaidInv ==
  /\ \A e \in Range(due) : Billed(e.sub, e.inv)
  /\ \A w \in Workers : Stands(req[w])
  /\ \A v, w \in Workers :
       req[v].at = "checkout" /\ req[w].at = "checkout" /\ req[v].sub = req[w].sub => v = w
  /\ UserPaid /\ RowsPaid

LEMMA Bounds ==
  ASSUME SubscriptionsAssumption
  PROVE  MaxCycles \in Nat /\ MaxUpdates \in Nat /\ 0 \in 0..MaxCycles /\ "none" \notin Subs
  BY DEF SubscriptionsAssumption

LEMMA PaidInit ==
  ASSUME SubscriptionsAssumption, Init
  PROVE  Shape /\ PaidInv
<1>1. Shape
  <2>1. stripe \in [Subs -> StripeRecord] /\ \A s \in Subs : stripe[s].status = "none"
    BY Bounds DEF Init, StripeRecord
  <2>2. Idle \in Request
    BY Bounds DEF Idle, Request, States, NoWrite, Write
  <2>3. rows \in [Subs -> [0..MaxCycles -> [Plans -> Nat]]]
    BY DEF Init
  <2> QED
    BY <2>1, <2>2, <2>3 DEF Init, Shape, Owner
<1>2. Range(due) = {}
  BY DEF Init, Range
<1>3. \A w \in Workers : req[w] = Idle
  BY DEF Init
<1>4. \A s \in Subs, i \in 0..MaxCycles, p \in Plans : rows[s][i][p] = 0
  BY DEF Init
<1>5. UserPaid
  BY DEF Init, UserPaid
<1>6. RowsPaid
  BY <1>4 DEF RowsPaid
<1>7. \A w \in Workers : Stands(req[w]) /\ req[w].at # "checkout"
  BY <1>3 DEF Stands, Idle
<1> QED
  BY <1>1, <1>2, <1>5, <1>6, <1>7 DEF PaidInv

\* A request goes on, and writes the owner's row, or a row of credits, for what was paid.
LEMMA Goes ==
  ASSUME SubscriptionsAssumption, Shape, PaidInv, NEW w \in Workers, NEW r \in Request,
         req' = [req EXCEPT ![w] = r], Stands(r), r.at # "checkout",
         stripe' = stripe, due' \in Seq(Event), Range(due') \subseteq Range(due),
         user' \in Owner, UserPaid', user.sub # "none" => user'.sub # "none",
         rows' \in [Subs -> [0..MaxCycles -> [Plans -> Nat]]], RowsPaid'
  PROVE  Shape' /\ PaidInv'
<1>1. Shape'
  BY DEF Shape
<1>2. \A s, i : Billed(s, i)' <=> Billed(s, i)
  BY DEF Billed, Paid
<1>3. \A e \in Range(due') : Billed(e.sub, e.inv)'
  BY <1>2 DEF PaidInv
<1>4. ASSUME NEW v \in Workers
      PROVE  Stands(req[v])' /\ (req'[v].at = "checkout" => req'[v] = req[v])
  <2>1. req'[v] = IF v = w THEN r ELSE req[v]
    BY DEF Shape
  <2>2. Stands(req[v]) /\ Stands(r)
    BY DEF PaidInv
  <2> QED
    BY <2>1, <2>2, <1>2 DEF Stands
<1>5. \A u, v \in Workers :
       req'[u].at = "checkout" /\ req'[v].at = "checkout" /\ req'[u].sub = req'[v].sub => u = v
  BY <1>4 DEF PaidInv
<1> QED
  BY <1>1, <1>3, <1>4, <1>5 DEF PaidInv

\* The same, of a request that writes nothing.
LEMMA Reads ==
  ASSUME SubscriptionsAssumption, Shape, PaidInv, NEW w \in Workers, NEW r \in Request,
         req' = [req EXCEPT ![w] = r], Stands(r), r.at # "checkout",
         UNCHANGED <<stripe, user, rows>>,
         due' \in Seq(Event), Range(due') \subseteq Range(due)
  PROVE  Shape' /\ PaidInv'
<1>1. user' \in Owner /\ rows' \in [Subs -> [0..MaxCycles -> [Plans -> Nat]]]
  BY DEF Shape
<1>2. UserPaid' /\ RowsPaid'
  BY DEF PaidInv, UserPaid, RowsPaid, Paid, Billed
<1> QED
  BY <1>1, <1>2, Goes

\* Stripe's side moves: what was paid stays paid, and new events tell of what was paid.
LEMMA Moves ==
  ASSUME SubscriptionsAssumption, Shape, PaidInv,
         stripe' \in [Subs -> StripeRecord],
         \A t \in Subs : /\ stripe'[t].status # "none"
                              => {stripe'[t].plan, stripe'[t].bought} \subseteq Plans
                         /\ Paid(t) => Paid(t)' /\ stripe[t].cycle <= stripe'[t].cycle
                         /\ stripe[t].status = "none" =>
                              \/ stripe'[t].status = "none"
                              \/ \A v \in Workers : ~ (req'[v].at = "checkout" /\ req'[v].sub = t),
         due' \in Seq(Event), \A e \in Range(due') : e \in Range(due) \/ Billed(e.sub, e.inv)',
         req' \in [Workers -> Request],
         \A v \in Workers : \/ req'[v] = req[v]
                            \/ req'[v].at # "checkout" /\ Stands(req[v])',
         user' = user, rows' = rows
  PROVE  Shape' /\ PaidInv'
<1>1. Shape'
  BY DEF Shape
<1>2. ASSUME NEW t, NEW i \in 0..MaxCycles, Billed(t, i)
      PROVE  Billed(t, i)'
  <2>1. stripe[t].cycle \in Nat /\ stripe'[t].cycle \in Nat /\ i \in Nat
    BY <1>2, Bounds DEF Billed, Shape, StripeRecord
  <2> QED
    BY <1>2, <2>1 DEF Billed
<1>3. \A e \in Range(due') : Billed(e.sub, e.inv)'
  <2>1. ASSUME NEW e \in Range(due)
        PROVE  Billed(e.sub, e.inv)'
    <3>1. e \in Event
      BY RangeOfSeq DEF Shape
    <3> QED
      BY <1>2, <3>1 DEF PaidInv, Event
  <2> QED
    BY <2>1
<1>4. ASSUME NEW v \in Workers
      PROVE  Stands(req[v])'
  <2>1. CASE req'[v] = req[v]
    <3>1. Stands(req[v]) /\ req[v] \in Request
      BY DEF PaidInv, Shape
    <3>2. req[v].inv \in 0..MaxCycles
      BY <3>1 DEF Request
    <3>3. PICK x : x = req[v]
      OBVIOUS
    <3>4. x.at \notin {"idle", "answer", "checkout"} => Billed(x.sub, x.inv)
      BY <3>1, <3>3 DEF Stands
    <3>5. x.at \notin {"idle", "answer", "checkout"} => Billed(x.sub, x.inv)'
      BY <1>2, <3>2, <3>3, <3>4
    <3>6. /\ x.at = "checkout" => x.sub \in Subs /\ stripe'[x.sub].status = "none"
          /\ x.at \in {"checkout", "price"} => x.plan \in Plans
      BY <2>1, <3>1, <3>3 DEF Stands
    <3>7. x.at = "write" /\ x.write.status = "active" => user'.sub # "none"
      BY <3>1, <3>3 DEF Stands
    <3> QED
      BY <2>1, <3>3, <3>5, <3>6, <3>7 DEF Stands
  <2> QED
    BY <2>1
<1>5. \A u, v \in Workers :
       req'[u].at = "checkout" /\ req'[v].at = "checkout" /\ req'[u].sub = req'[v].sub => u = v
  BY DEF PaidInv
<1>6. UserPaid'
  BY DEF PaidInv, UserPaid, Shape, Owner
<1>7. RowsPaid'
  BY <1>2 DEF PaidInv, RowsPaid
<1> QED
  BY <1>1, <1>3, <1>4, <1>5, <1>6, <1>7 DEF PaidInv

\* An event of a subscription that is paid for, as Stripe knows it after the step.
LEMMA Emits ==
  ASSUME SubscriptionsAssumption, NEW s \in Subs, NEW t \in Types,
         stripe' \in [Subs -> StripeRecord], stripe'[s].status \in {"active", "past_due", "canceled"},
         {stripe'[s].plan, stripe'[s].bought} \subseteq Plans
  PROVE  \E e \in Event : e = Ev(t, s) /\ Billed(e.sub, e.inv)'
<1>1. stripe'[s].cycle \in 0..MaxCycles
  BY DEF StripeRecord
<1>2. Ev(t, s) \in Event /\ Ev(t, s).sub = s /\ Ev(t, s).inv = stripe'[s].cycle
  BY <1>1 DEF Ev, Event
<1>3. Paid(s)'
  BY DEF Paid
<1>4. PICK e \in Event : e = Ev(t, s)
  BY <1>2
<1>5. e.sub = s /\ e.inv = stripe'[s].cycle /\ stripe'[s].cycle <= stripe'[s].cycle
  BY <1>1, <1>2, <1>4, Bounds
<1>6. Billed(e.sub, e.inv)'
  BY <1>3, <1>5 DEF Billed
<1> QED
  BY <1>4, <1>6

\* Whatever the events are, one or two of a subscription join the queue.
LEMMA Queued ==
  ASSUME SubscriptionsAssumption, Shape, NEW s \in Subs, NEW t \in Types, NEW u \in Types,
         Emit(<<Ev(t, s)>>) \/ Emit(<<Ev(t, s), Ev(u, s)>>),
         stripe' \in [Subs -> StripeRecord], stripe'[s].status \in {"active", "past_due", "canceled"},
         {stripe'[s].plan, stripe'[s].bought} \subseteq Plans
  PROVE  /\ due' \in Seq(Event)
         /\ \A e \in Range(due') : e \in Range(due) \/ Billed(e.sub, e.inv)'
<1>0. PICK e \in Event : e = Ev(t, s) /\ Billed(e.sub, e.inv)'
  BY Emits
<1>1. PICK f \in Event : f = Ev(u, s) /\ Billed(f.sub, f.inv)'
  BY Emits
<1>2. due \in Seq(Event)
  BY DEF Shape
<1>3. due' = due \o <<e>> \/ due' = due \o <<e, f>>
  BY <1>0, <1>1 DEF Emit
<1>4. due' \in Seq(Event) /\ Range(due') \subseteq Range(due) \cup {e, f}
  <2>1. /\ due \o <<e>> \in Seq(Event) /\ Range(due \o <<e>>) = Range(due) \cup {e}
        /\ due \o <<e, f>> \in Seq(Event) /\ Range(due \o <<e, f>>) = Range(due) \cup {e, f}
    BY <1>2, Added
  <2> QED
    BY <1>3, <2>1
<1> QED
  BY <1>0, <1>1, <1>4

\* How a request ends, and how it goes on.
LEMMA Ends ==
  ASSUME SubscriptionsAssumption, Shape, NEW w \in Workers, End(w)
  PROVE  \E r \in Request : req' = [req EXCEPT ![w] = r] /\ r.at \in {"idle", "answer"}
<1>1. req[w] \in Request
  BY DEF Shape
<1>2. Idle \in Request /\ Idle.at = "idle"
  BY Bounds DEF Idle, Request, States, NoWrite, Write
<1>3. [req[w] EXCEPT !.at = "answer"] \in Request /\ [req[w] EXCEPT !.at = "answer"].at = "answer"
  BY <1>1 DEF Request, States
<1> QED
  BY <1>2, <1>3 DEF End

LEMMA EndHolds ==
  ASSUME SubscriptionsAssumption, Shape, PaidInv, NEW w \in Workers, End(w),
         UNCHANGED <<stripe, due, user, rows>>
  PROVE  Shape' /\ PaidInv'
<1>1. PICK r \in Request : req' = [req EXCEPT ![w] = r] /\ r.at \in {"idle", "answer"}
  BY Ends
<1>2. Stands(r)
  BY <1>1 DEF Stands
<1>3. due' \in Seq(Event) /\ Range(due') \subseteq Range(due)
  BY DEF Shape
<1> QED
  BY <1>1, <1>2, <1>3, Reads

LEMMA StepHolds ==
  ASSUME SubscriptionsAssumption, Shape, PaidInv, NEW w \in Workers,
         NEW at \in States \ {"checkout", "write", "price"}, Step(w, at),
         req[w].at \notin {"idle", "answer", "checkout"},
         UNCHANGED <<stripe, due, user, rows>>
  PROVE  Shape' /\ PaidInv'
<1> DEFINE r == [req[w] EXCEPT !.at = at]
<1>1. req[w] \in Request /\ Stands(req[w])
  BY DEF Shape, PaidInv
<1>2. /\ r \in Request /\ r.at = at /\ r.sub = req[w].sub /\ r.inv = req[w].inv
      /\ req' = [req EXCEPT ![w] = r]
  BY <1>1 DEF Request, Step
<1> HIDE DEF r
<1>3. Stands(r)
  BY <1>1, <1>2 DEF Stands
<1>4. due' \in Seq(Event) /\ Range(due') \subseteq Range(due)
  BY DEF Shape
<1> QED
  BY <1>2, <1>3, <1>4, Reads

LEMMA PlanHolds ==
  ASSUME SubscriptionsAssumption, Shape, PaidInv, NEW w \in Workers, NEW d \in Write, Plan(w, d),
         req[w].at \notin {"idle", "answer", "checkout"},
         d.status = "active" => user.sub # "none",
         UNCHANGED <<stripe, due, user, rows>>
  PROVE  Shape' /\ PaidInv'
<1>1. CASE End(w)
  BY <1>1, EndHolds
<1>2. CASE req' = [req EXCEPT ![w].at = "write", ![w].write = d]
  <2> DEFINE r == [req[w] EXCEPT !.at = "write", !.write = d]
  <2>1. req[w] \in Request /\ Stands(req[w])
    BY DEF Shape, PaidInv
  <2>2. /\ r \in Request /\ r.at = "write" /\ r.sub = req[w].sub /\ r.inv = req[w].inv
        /\ r.write = d /\ req' = [req EXCEPT ![w] = r]
    BY <1>2, <2>1 DEF Request, States, Shape
  <2> HIDE DEF r
  <2>3. Stands(r)
    BY <2>1, <2>2 DEF Stands
  <2>4. due' \in Seq(Event) /\ Range(due') \subseteq Range(due)
    BY DEF Shape
  <2> QED
    BY <2>2, <2>3, <2>4, Reads
<1> QED
  BY <1>1, <1>2 DEF Plan

-----------------------------------------------------------------------------
(* Each action keeps the invariant. *)

\* What Stripe does to a subscription.
LEMMA StripeChanges ==
  ASSUME SubscriptionsAssumption, Shape, NEW s \in Subs, StripeStep(s)
  PROVE  \E a \in StripeRecord :
           /\ stripe' = [stripe EXCEPT ![s] = a]
           /\ a.status \in {"active", "past_due", "canceled"}
           /\ a.plan = stripe[s].plan /\ a.bought = stripe[s].bought /\ stripe[s].cycle <= a.cycle
           /\ stripe[s].status # "none"
<1>6. stripe[s] \in StripeRecord /\ req \in [Workers -> Request] /\ user' = user /\ rows' = rows /\ req' = req
  BY DEF Shape, StripeStep, PayCheckout, Renew, RenewFails, Recover, CancelElsewhere
<1>7. stripe[s].cycle \in Nat /\ stripe[s].cycle <= MaxCycles /\ MaxCycles \in Nat
  BY <1>6, Bounds DEF StripeRecord
<1>1. CASE PayCheckout(s)
  <2> DEFINE a == [stripe[s] EXCEPT !.status = "active"]
  <2>1. stripe' = [stripe EXCEPT ![s] = a] /\ stripe[s].status # "none"
    BY <1>7, <1>1 DEF PayCheckout
  <2>2. a \in StripeRecord /\ a.status \in {"active", "past_due", "canceled"}
    BY <1>6, <1>1, <2>1 DEF PayCheckout, StripeRecord
  <2>3. a.plan = stripe[s].plan /\ a.bought = stripe[s].bought /\ stripe[s].cycle <= a.cycle
    BY <1>7, <1>6 DEF StripeRecord
  <2> HIDE DEF a
  <2> QED
    BY <2>1, <2>2, <2>3
<1>2. CASE Renew(s)
  <2> DEFINE a == [stripe[s] EXCEPT !.cycle = @ + 1]
  <2>1. stripe' = [stripe EXCEPT ![s] = a] /\ stripe[s].status # "none"
            /\ stripe[s].cycle + 1 \in 0..MaxCycles
    BY <1>7, <1>2 DEF Renew
  <2>2. a \in StripeRecord /\ a.status \in {"active", "past_due", "canceled"}
    BY <1>6, <1>2, <2>1 DEF Renew, StripeRecord
  <2>3. a.plan = stripe[s].plan /\ a.bought = stripe[s].bought /\ stripe[s].cycle <= a.cycle
    BY <1>7, <1>6 DEF StripeRecord
  <2> HIDE DEF a
  <2> QED
    BY <2>1, <2>2, <2>3
<1>3. CASE RenewFails(s)
  <2> DEFINE x == [stripe[s] EXCEPT !.cycle = @ + 1]
             g == [stripe EXCEPT ![s] = x]
             a == [x EXCEPT !.status = "past_due"]
  <2>1. /\ stripe' = [stripe EXCEPT ![s] = a] /\ stripe[s].status # "none"
        /\ stripe[s].cycle + 1 \in 0..MaxCycles
    <3>1. stripe' = [g EXCEPT ![s] = [g[s] EXCEPT !.status = "past_due"]]
      BY <1>3 DEF RenewFails
    <3>2. stripe[s].status # "none" /\ stripe[s].cycle + 1 \in 0..MaxCycles
      BY <1>7, <1>3 DEF RenewFails
    <3> HIDE DEF x
    <3>3. g[s] = x /\ \A y : [g EXCEPT ![s] = y] = [stripe EXCEPT ![s] = y]
      BY DEF Shape
    <3> QED
      BY <3>1, <3>2, <3>3
  <2>2. a \in StripeRecord /\ a.status \in {"active", "past_due", "canceled"}
    BY <1>6, <1>3, <2>1 DEF RenewFails, Shape, StripeRecord
  <2>3. a.plan = stripe[s].plan /\ a.bought = stripe[s].bought /\ stripe[s].cycle <= a.cycle
    BY <1>7, <1>6 DEF StripeRecord
  <2> HIDE DEF a
  <2> QED
    BY <2>1, <2>2, <2>3
<1>4. CASE Recover(s)
  <2> DEFINE a == [stripe[s] EXCEPT !.status = "active"]
  <2>1. stripe' = [stripe EXCEPT ![s] = a] /\ stripe[s].status # "none"
    BY <1>7, <1>4 DEF Recover
  <2>2. a \in StripeRecord /\ a.status \in {"active", "past_due", "canceled"}
    BY <1>6, <1>4, <2>1 DEF Recover, StripeRecord
  <2>3. a.plan = stripe[s].plan /\ a.bought = stripe[s].bought /\ stripe[s].cycle <= a.cycle
    BY <1>7, <1>6 DEF StripeRecord
  <2> HIDE DEF a
  <2> QED
    BY <2>1, <2>2, <2>3
<1>5. CASE Canceled(s)
  <2> DEFINE a == [stripe[s] EXCEPT !.status = "canceled"]
  <2>1. stripe' = [stripe EXCEPT ![s] = a] /\ stripe[s].status # "none"
    BY <1>7, <1>5 DEF Canceled, Live
  <2>2. a \in StripeRecord /\ a.status \in {"active", "past_due", "canceled"}
    BY <1>6, <1>5, <2>1 DEF Canceled, Live, StripeRecord
  <2>3. a.plan = stripe[s].plan /\ a.bought = stripe[s].bought /\ stripe[s].cycle <= a.cycle
    BY <1>7, <1>6 DEF StripeRecord
  <2> HIDE DEF a
  <2> QED
    BY <2>1, <2>2, <2>3
<1> QED
  BY <1>1, <1>2, <1>3, <1>4, <1>5 DEF StripeStep, CancelElsewhere

LEMMA StripeHolds ==
  ASSUME SubscriptionsAssumption, Shape, PaidInv, NEW s \in Subs, StripeStep(s)
  PROVE  Shape' /\ PaidInv'
<1>1. user' = user /\ rows' = rows /\ req' = req /\ req \in [Workers -> Request]
  BY DEF Shape, StripeStep, PayCheckout, Renew, RenewFails, Recover, CancelElsewhere
<1>2. PICK a \in StripeRecord :
        /\ stripe' = [stripe EXCEPT ![s] = a]
        /\ a.status \in {"active", "past_due", "canceled"}
        /\ a.plan = stripe[s].plan /\ a.bought = stripe[s].bought /\ stripe[s].cycle <= a.cycle
        /\ stripe[s].status # "none"
  BY StripeChanges
<1>3. /\ stripe' \in [Subs -> StripeRecord] /\ stripe'[s] = a
      /\ \A t \in Subs : t # s => stripe'[t] = stripe[t]
  BY <1>2 DEF Shape
<1>4. {a.plan, a.bought} \subseteq Plans
  BY <1>2 DEF Shape
<1>5. due' \in Seq(Event) /\ \A e \in Range(due') : e \in Range(due) \/ Billed(e.sub, e.inv)'
  <2>1. \E t, u \in Types : Emit(<<Ev(t, s)>>) \/ Emit(<<Ev(t, s), Ev(u, s)>>)
    BY DEF StripeStep, PayCheckout, Renew, RenewFails, Recover, CancelElsewhere, Canceled, Types
  <2> QED
    BY <1>2, <1>3, <1>4, <2>1, Queued
<1>6. \A t \in Subs : /\ stripe'[t].status # "none"
                           => {stripe'[t].plan, stripe'[t].bought} \subseteq Plans
                      /\ Paid(t) => Paid(t)' /\ stripe[t].cycle <= stripe'[t].cycle
                      /\ stripe[t].status = "none" => stripe'[t].status = "none"
  <2>1. \A t \in Subs : stripe[t].cycle <= stripe[t].cycle
    BY Bounds DEF Shape, StripeRecord
  <2> QED
    BY <1>2, <1>3, <1>4, <2>1 DEF Shape, Paid
<1> QED
  BY <1>1, <1>3, <1>5, <1>6, Moves

\* The owner's row and the rows of credits as they were.
LEMMA Same ==
  ASSUME Shape, PaidInv, UNCHANGED <<stripe, user, rows>>
  PROVE  /\ user' \in Owner /\ UserPaid' /\ (user.sub # "none" => user'.sub # "none")
         /\ rows' \in [Subs -> [0..MaxCycles -> [Plans -> Nat]]] /\ RowsPaid'
  BY DEF Shape, PaidInv, UserPaid, RowsPaid, Paid, Billed

\* Activation, and adoption of another plan.
LEMMA ActivationHolds ==
  ASSUME SubscriptionsAssumption, Shape, PaidInv, NEW w \in Workers,
         Activate(w) \/ AdoptPlan(w)
  PROVE  Shape' /\ PaidInv'
<1>1. /\ req[w] \in Request /\ Billed(req[w].sub, req[w].inv)
      /\ user' = [status |-> "active", plan |-> req[w].plan, sub |-> req[w].sub]
      /\ UNCHANGED <<stripe, due, rows>>
  BY DEF Activate, AdoptPlan, Shape, PaidInv, Stands
<1>2. user' \in Owner /\ UserPaid' /\ user'.sub # "none"
  BY <1>1, Bounds DEF Request, Owner, UserPaid, Billed, Paid
<1>3. rows' \in [Subs -> [0..MaxCycles -> [Plans -> Nat]]] /\ RowsPaid'
  BY <1>1 DEF Shape, PaidInv, RowsPaid, Paid, Billed
<1>4. due' \in Seq(Event) /\ Range(due') \subseteq Range(due)
  BY <1>1 DEF Shape
<1>5. CASE Activate(w)
  <2> DEFINE r == [req[w] EXCEPT !.at = "allocate", !.inv = 0]
  <2>1. /\ r \in Request /\ r.at = "allocate" /\ r.sub = req[w].sub /\ r.inv = 0
        /\ req' = [req EXCEPT ![w] = r]
    BY <1>1, <1>5, Bounds DEF Request, States, Activate, Shape
  <2> HIDE DEF r
  <2>2. 0 <= stripe[req[w].sub].cycle
    BY <1>1, Bounds DEF Shape, StripeRecord, Billed
  <2>3. Stands(r)
    BY <1>1, <2>1, <2>2 DEF Stands, Billed
  <2> QED
    BY <1>1, <1>2, <1>3, <1>4, <2>1, <2>3, Goes
<1>6. CASE AdoptPlan(w)
  <2>1. PICK r \in Request : req' = [req EXCEPT ![w] = r] /\ r.at \in {"idle", "answer"}
    BY <1>6, Ends DEF AdoptPlan
  <2>2. Stands(r)
    BY <2>1 DEF Stands
  <2> QED
    BY <1>1, <1>2, <1>3, <1>4, <2>1, <2>2, Goes
<1> QED
  BY <1>5, <1>6

LEMMA CreditHolds ==
  ASSUME SubscriptionsAssumption, Shape, PaidInv, NEW w \in Workers, Credit(w)
  PROVE  Shape' /\ PaidInv'
<1>1. req[w] \in Request /\ Billed(req[w].sub, req[w].inv)
  BY DEF Credit, Shape, PaidInv, Stands
<1>2. PICK r \in Request : req' = [req EXCEPT ![w] = r] /\ r.at \in {"idle", "answer"}
  BY Ends DEF Credit
<1>3. Stands(r)
  BY <1>2 DEF Stands
<1>4. /\ rows' = [rows EXCEPT ![req[w].sub][req[w].inv][req[w].plan] = @ + 1]
      /\ UNCHANGED <<stripe, due, user>>
  BY DEF Credit
<1>5. rows \in [Subs -> [0..MaxCycles -> [Plans -> Nat]]]
  BY DEF Shape
<1>6. rows' \in [Subs -> [0..MaxCycles -> [Plans -> Nat]]]
  <2>1. req[w].inv \in 0..MaxCycles /\ req[w].sub \in Subs
    BY <1>1 DEF Request, Billed
  <2> DEFINE x == rows[req[w].sub][req[w].inv]
             y == [x EXCEPT ![req[w].plan] = @ + 1]
             z == [rows[req[w].sub] EXCEPT ![req[w].inv] = y]
  <2>2. rows' = [rows EXCEPT ![req[w].sub] = z]
    BY <1>4
  <2>3. x \in [Plans -> Nat]
    BY <1>5, <2>1
  <2> HIDE DEF x
  <2>4. y \in [Plans -> Nat]
    <3>1. \A q \in Plans : y[q] = IF q = req[w].plan THEN x[q] + 1 ELSE x[q]
      BY <2>3
    <3>2. DOMAIN y = Plans /\ y = [q \in DOMAIN y |-> y[q]]
      BY <2>3
    <3> HIDE DEF y
    <3>3. \A q \in Plans : y[q] \in Nat
      BY <2>3, <3>1
    <3> QED
      BY <3>2, <3>3
  <2> HIDE DEF y
  <2>5. z \in [0..MaxCycles -> [Plans -> Nat]]
    BY <1>5, <2>1, <2>4
  <2> HIDE DEF z
  <2> QED
    BY <1>5, <2>2, <2>5
<1>7. RowsPaid'
  <2> SUFFICES ASSUME NEW s \in Subs, NEW i \in 0..MaxCycles, NEW p \in Plans, rows'[s][i][p] > 0
               PROVE  Billed(s, i)
    BY <1>4 DEF RowsPaid, Billed, Paid
  <2>1. CASE s = req[w].sub /\ i = req[w].inv
    BY <1>1, <2>1
  <2>2. CASE ~ (s = req[w].sub /\ i = req[w].inv)
    <3>1. rows'[s][i] = rows[s][i]
      BY <1>4, <1>5, <2>2
    <3> QED
      BY <3>1 DEF PaidInv, RowsPaid
  <2> QED
    BY <2>1, <2>2
<1>8. due' \in Seq(Event) /\ Range(due') \subseteq Range(due)
  BY <1>4 DEF Shape
<1>9. user' \in Owner /\ UserPaid'
  BY <1>4 DEF Shape, PaidInv, UserPaid, Paid
<1> QED
  BY <1>2, <1>3, <1>4, <1>6, <1>7, <1>8, <1>9, Goes

LEMMA WriteHolds ==
  ASSUME SubscriptionsAssumption, Shape, PaidInv, NEW w \in Workers, WriteUser(w)
  PROVE  Shape' /\ PaidInv'
<1>1. req[w] \in Request /\ Stands(req[w]) /\ req[w].at = "write" /\ user \in Owner
  BY DEF WriteUser, Shape, PaidInv
<1>2. PICK r \in Request : req' = [req EXCEPT ![w] = r] /\ r.at \in {"idle", "answer"}
  BY Ends DEF WriteUser
<1>3. Stands(r)
  BY <1>2 DEF Stands
<1>4. /\ user'.sub = user.sub
      /\ user'.status = IF req[w].write.status = "keep" THEN user.status ELSE req[w].write.status
      /\ UNCHANGED <<stripe, due, rows>>
  BY <1>1 DEF WriteUser, Owner
<1>5. req[w].write \in Write
  BY <1>1 DEF Request
<1>6. user' \in Owner
  <2> DEFINE st == IF req[w].write.status = "keep" THEN user.status ELSE req[w].write.status
             pl == IF req[w].write.plan = "keep" THEN user.plan ELSE req[w].write.plan
  <2>1. user' = [user EXCEPT !.status = st, !.plan = pl]
    BY DEF WriteUser
  <2>2. st \in {"inactive", "active", "cancelled"} /\ pl \in Plans \cup {"none"}
    BY <1>1, <1>5 DEF Write, Owner
  <2> HIDE DEF st, pl
  <2> QED
    BY <1>1, <2>1, <2>2 DEF Owner
<1>7. UserPaid'
  BY <1>1, <1>4 DEF UserPaid, Stands, PaidInv, Paid
<1>8. due' \in Seq(Event) /\ Range(due') \subseteq Range(due)
  BY <1>4 DEF Shape
<1>9. rows' \in [Subs -> [0..MaxCycles -> [Plans -> Nat]]] /\ RowsPaid'
  BY <1>4 DEF Shape, PaidInv, RowsPaid, Paid, Billed
<1> QED
  BY <1>2, <1>3, <1>4, <1>6, <1>7, <1>8, <1>9, Goes

LEMMA FindHolds ==
  ASSUME SubscriptionsAssumption, Shape, PaidInv, NEW w \in Workers,
         FindRenewal(w) \/ FindFailed(w)
  PROVE  Shape' /\ PaidInv'
<1>0. UNCHANGED <<stripe, due, user, rows>>
  BY DEF FindRenewal, FindFailed
<1>1. CASE End(w)
  BY <1>0, <1>1, EndHolds
<1>2. CASE ~ End(w)
  <2>1. /\ req[w] \in Request /\ req[w].write \in Write /\ user \in Owner
        /\ Billed(req[w].sub, req[w].inv)
    BY DEF FindRenewal, FindFailed, Shape, PaidInv, Stands, Request
  <2>2. PICK r \in Request : /\ req' = [req EXCEPT ![w] = r] /\ r.at \in {"allocate", "ask"}
                             /\ r.sub = req[w].sub /\ r.inv = req[w].inv
    <3>1. CASE FindRenewal(w)
      <4> DEFINE r == [req[w] EXCEPT !.at = "allocate", !.plan = user.plan]
      <4>1. req' = [req EXCEPT ![w] = r]
        BY <1>2, <3>1 DEF FindRenewal, Shape
      <4>2. r \in Request /\ r.at = "allocate" /\ r.sub = req[w].sub /\ r.inv = req[w].inv
        BY <2>1 DEF Request, States, Owner
      <4> QED
        BY <4>1, <4>2
    <3>2. CASE FindFailed(w)
      <4> DEFINE x == [req[w] EXCEPT !.at = "ask"]
                 g == [req EXCEPT ![w] = x]
                 r == [x EXCEPT !.write = [@ EXCEPT !.status = user.status]]
      <4>1. req' = [req EXCEPT ![w] = r]
        <5>1. req' = [g EXCEPT ![w] = [g[w] EXCEPT !.write = [@ EXCEPT !.status = user.status]]]
          BY <1>2, <3>2 DEF FindFailed
        <5> HIDE DEF x
        <5>2. g[w] = x /\ \A y : [g EXCEPT ![w] = y] = [req EXCEPT ![w] = y]
          BY DEF Shape
        <5> QED
          BY <5>1, <5>2
      <4>2. r \in Request /\ r.at = "ask" /\ r.sub = req[w].sub /\ r.inv = req[w].inv
        BY <2>1 DEF Request, States, Owner, Write
      <4> QED
        BY <4>1, <4>2
    <3> QED
      BY <3>1, <3>2
  <2>3. Stands(r)
    BY <2>1, <2>2 DEF Stands
  <2>4. due' \in Seq(Event) /\ Range(due') \subseteq Range(due)
    BY <1>0 DEF Shape
  <2> QED
    BY <1>0, <2>2, <2>3, <2>4, Reads
<1> QED
  BY <1>1, <1>2

LEMMA IdleStands ==
  ASSUME SubscriptionsAssumption
  PROVE  Idle \in Request /\ Stands(Idle) /\ Idle.at # "checkout"
<1>1. Idle \in Request
  BY Bounds DEF Idle, Request, States, NoWrite, Write
<1>2. Idle.at = "idle"
  BY DEF Idle
<1> QED
  BY <1>1, <1>2 DEF Stands

\* A request that is answered, or lost.
LEMMA ForgetHolds ==
  ASSUME SubscriptionsAssumption, Shape, PaidInv, NEW w \in Workers,
         Acknowledge(w) \/ RequestFails(w)
  PROVE  Shape' /\ PaidInv'
<1>1. req' = [req EXCEPT ![w] = Idle] /\ UNCHANGED <<stripe, user, rows>>
  BY DEF Acknowledge, RequestFails
<1>2. due' = RemoveFirst(due, req[w].ev) \/ due' = due
  BY DEF Acknowledge, RequestFails
<1>3. due' \in Seq(Event) /\ Range(due') \subseteq Range(due)
  BY <1>2, Removed DEF Shape
<1> QED
  BY <1>1, <1>3, IdleStands, Reads

\* The steps that only look.
LEMMA CheckHolds ==
  ASSUME SubscriptionsAssumption, Shape, PaidInv, NEW w \in Workers,
         CheckActive(w) \/ AllocatedThisMonth(w) \/ CheckInvoice(w) \/ FindVerified(w)
  PROVE  Shape' /\ PaidInv'
<1>1. UNCHANGED <<stripe, due, user, rows>> /\ req[w].at \notin {"idle", "answer", "checkout"}
  BY DEF CheckActive, AllocatedThisMonth, CheckInvoice, FindVerified
<1>2. CASE End(w)
  BY <1>1, <1>2, EndHolds
<1>3. CASE \E at \in {"invoice", "credit", "allocate", "activate"} : Step(w, at)
  BY <1>1, <1>3, StepHolds DEF States
<1> QED
  BY <1>2, <1>3 DEF CheckActive, AllocatedThisMonth, CheckInvoice, FindVerified

\* The steps that find what to write.
LEMMA AskHolds ==
  ASSUME SubscriptionsAssumption, Shape, PaidInv, NEW w \in Workers,
         AskStripe(w) \/ FindDeleted(w) \/ FindUpdated(w)
  PROVE  Shape' /\ PaidInv'
<1>1. /\ UNCHANGED <<stripe, due, user, rows>> /\ req[w].at \notin {"idle", "answer", "checkout"}
      /\ req[w] \in Request /\ Billed(req[w].sub, req[w].inv) /\ user \in Owner
  BY DEF AskStripe, FindDeleted, FindUpdated, Shape, PaidInv, Stands
<1>2. NoWrite \in Write /\ \A x \in {"keep", "inactive",
          "cancelled"} : [NoWrite EXCEPT !.status = x] \in Write
  BY DEF NoWrite, Write
<1>3. NoWrite.status = "keep" /\ \A x : [NoWrite EXCEPT !.status = x].status = x
  BY DEF NoWrite
<1>4. PICK d \in Write : Plan(w, d) /\ (d.status = "active" => user.sub # "none")
  <2>1. CASE AskStripe(w)
    BY <1>1, <1>2, <1>3, <2>1 DEF AskStripe, Request, Write
  <2>2. CASE FindDeleted(w)
    BY <1>2, <1>3, <2>2 DEF FindDeleted
  <2>3. CASE FindUpdated(w)
    <3>1. CASE user.sub # req[w].sub
      BY <1>2, <1>3, <2>3, <3>1 DEF FindUpdated
    <3>2. CASE user.sub = req[w].sub
      <4> DEFINE st == LocalStatus(req[w].ev.status)
                 d == [status |-> IF st = user.status THEN "keep" ELSE st,
                       plan |-> IF req[w].plan = user.plan THEN "keep" ELSE req[w].plan]
      <4>1. Plan(w, d)
        BY <2>3, <3>2 DEF FindUpdated
      <4>2. d \in Write
        BY <1>1 DEF LocalStatus, Write, Request
      <4>3. user.sub # "none"
        BY <1>1, <3>2, Bounds DEF Billed
      <4> QED
        BY <4>1, <4>2, <4>3
    <3> QED
      BY <3>1, <3>2
  <2> QED
    BY <2>1, <2>2, <2>3
<1> QED
  BY <1>1, <1>4, PlanHolds

LEMMA OpenCheckoutHolds ==
  ASSUME SubscriptionsAssumption, Shape, PaidInv, NEW w \in Workers, OpenCheckout(w)
  PROVE  Shape' /\ PaidInv'
<1> DEFINE s == req[w].sub
           a == [status |-> "open", plan |-> req[w].plan, bought |-> req[w].plan, cycle |-> 0]
<1>1. /\ s \in Subs /\ req[w].plan \in Plans /\ stripe[s].status = "none"
      /\ req[w].at = "checkout" /\ req \in [Workers -> Request] /\ stripe \in [Subs -> StripeRecord]
  BY DEF OpenCheckout, Shape, PaidInv, Stands
<1>2. stripe' = [stripe EXCEPT ![s] = a] /\ UNCHANGED <<due, user, rows>>
  BY DEF OpenCheckout
<1>3. PICK r \in Request : req' = [req EXCEPT ![w] = r] /\ r.at \in {"idle", "answer"}
  BY Ends DEF OpenCheckout
<1>4. a \in StripeRecord /\ a.status = "open" /\ {a.plan, a.bought} \subseteq Plans
  BY <1>1, Bounds DEF StripeRecord
<1> HIDE DEF a
<1>5. /\ stripe' \in [Subs -> StripeRecord] /\ stripe'[s] = a
      /\ \A t \in Subs : t # s => stripe'[t] = stripe[t]
  BY <1>1, <1>2, <1>4
<1>6. \A v \in Workers : req'[v] = IF v = w THEN r ELSE req[v]
  BY <1>1, <1>3
<1>7. \A v \in Workers : ~ (req'[v].at = "checkout" /\ req'[v].sub = s)
  BY <1>1, <1>3, <1>6 DEF PaidInv
<1>8. \A v \in Workers : req'[v] = req[v] \/ (req'[v].at # "checkout" /\ Stands(req[v])')
  BY <1>3, <1>6 DEF Stands
<1>9. \A t \in Subs : /\ stripe'[t].status # "none"
                           => {stripe'[t].plan, stripe'[t].bought} \subseteq Plans
                      /\ Paid(t) => Paid(t)' /\ stripe[t].cycle <= stripe'[t].cycle
                      /\ stripe[t].status = "none" =>
                           \/ stripe'[t].status = "none"
                           \/ \A v \in Workers : ~ (req'[v].at = "checkout" /\ req'[v].sub = t)
  <2>1. \A t \in Subs : stripe[t].cycle <= stripe[t].cycle
    BY Bounds DEF Shape, StripeRecord
  <2> QED
    BY <1>1, <1>4, <1>5, <1>7, <2>1 DEF Shape, Paid
<1>10. due' \in Seq(Event) /\ \A e \in Range(due') : e \in Range(due) \/ Billed(e.sub, e.inv)'
  BY <1>2 DEF Shape
<1>11. req' \in [Workers -> Request]
  BY <1>1, <1>3
<1> QED
  BY <1>2, <1>5, <1>8, <1>9, <1>10, <1>11, Moves

\* A request that changes a subscription that lives, and tells what it found.
LEMMA ChangeHolds ==
  ASSUME SubscriptionsAssumption, Shape, PaidInv, NEW w \in Workers, NEW a \in StripeRecord,
         NEW r \in Request, NEW t \in Types,
         Live(req[w].sub), req[w].at \in {"price", "cancel"},
         stripe' = [stripe EXCEPT ![req[w].sub] = a],
         a.status \in {"active", "past_due", "canceled"}, a.cycle = stripe[req[w].sub].cycle,
         {a.plan, a.bought} \subseteq Plans,
         Emit(<<Ev(t, req[w].sub)>>),
         req' = [req EXCEPT ![w] = r], r.at \in {"idle", "adopt", "write"},
         r.at # "idle" => r.sub = req[w].sub /\ r.inv = req[w].inv,
         r.at = "write" => r.write.status # "active",
         UNCHANGED <<user, rows>>
  PROVE  Shape' /\ PaidInv'
<1> DEFINE s == req[w].sub
<1>1. Billed(s, req[w].inv) /\ s \in Subs /\ req \in [Workers -> Request] /\ stripe \in [Subs -> StripeRecord]
  BY DEF Shape, PaidInv, Stands, Billed
<1>2. /\ stripe' \in [Subs -> StripeRecord] /\ stripe'[s] = a
      /\ \A u \in Subs : u # s => stripe'[u] = stripe[u]
  BY <1>1
<1>3. due' \in Seq(Event) /\ \A e \in Range(due') : e \in Range(due) \/ Billed(e.sub, e.inv)'
  BY <1>1, <1>2, Queued
<1>4. \A u \in Subs : /\ stripe'[u].status # "none"
                           => {stripe'[u].plan, stripe'[u].bought} \subseteq Plans
                      /\ Paid(u) => Paid(u)' /\ stripe[u].cycle <= stripe'[u].cycle
                      /\ stripe[u].status = "none" => stripe'[u].status = "none"
  <2>1. \A u \in Subs : stripe[u].cycle <= stripe[u].cycle
    BY Bounds DEF Shape, StripeRecord
  <2> QED
    BY <1>1, <1>2, <2>1 DEF Shape, Paid, Live
<1>5. PICK u, i : u = s /\ i = req[w].inv
  OBVIOUS
<1>8. Billed(u, i)'
  <2>1. u \in Subs /\ stripe'[u] = a
    BY <1>1, <1>2, <1>5
  <2>2. i <= stripe'[u].cycle
    BY <1>1, <2>1, <1>5 DEF Billed
  <2> QED
    BY <2>1, <2>2 DEF Billed, Paid
<1>6. \A v \in Workers : req'[v] = req[v] \/ (req'[v].at # "checkout" /\ Stands(req[v])')
  <2>1. req'[w] = r /\ \A v \in Workers : v # w => req'[v] = req[v]
    BY <1>1
  <2>2. Stands(req[w])'
    BY <1>5, <1>8, <2>1 DEF Stands
  <2> QED
    BY <2>1, <2>2
<1>7. req' \in [Workers -> Request] /\ user' = user /\ rows' = rows
  BY <1>1
<1> QED
  BY <1>2, <1>3, <1>4, <1>6, <1>7, Moves

LEMMA ChangePriceHolds ==
  ASSUME SubscriptionsAssumption, Shape, PaidInv, NEW w \in Workers, ChangePrice(w)
  PROVE  Shape' /\ PaidInv'
<1>1. CASE ~ Live(req[w].sub)
  BY <1>1, EndHolds DEF ChangePrice
<1>2. CASE Live(req[w].sub)
  <2> DEFINE s == req[w].sub
             a == [stripe[s] EXCEPT !.plan = req[w].plan]
             r == [req[w] EXCEPT !.at = "adopt"]
  <2>1. /\ req[w] \in Request /\ req[w].at = "price" /\ req[w].plan \in Plans
        /\ s \in Subs /\ stripe[s] \in StripeRecord
    BY DEF ChangePrice, Shape, PaidInv, Stands, Billed
  <2>2. /\ stripe' = [stripe EXCEPT ![s] = a] /\ req' = [req EXCEPT ![w] = r]
        /\ Emit(<<Ev("updated", s)>>) /\ UNCHANGED <<user, rows>> /\ "updated" \in Types
    BY <1>2, <2>1 DEF ChangePrice, Step, Shape, Types
  <2>3. /\ a \in StripeRecord /\ a.status = stripe[s].status /\ a.cycle = stripe[s].cycle
        /\ a.plan = req[w].plan /\ a.bought = stripe[s].bought
    BY <2>1 DEF StripeRecord
  <2>4. a.status \in {"active", "past_due", "canceled"} /\ {a.plan, a.bought} \subseteq Plans
    BY <1>2, <2>1, <2>3 DEF Live, Shape
  <2>5. /\ r \in Request /\ r.at = "adopt" /\ r.sub = req[w].sub /\ r.inv = req[w].inv
    BY <2>1 DEF Request, States
  <2> HIDE DEF a, r
  <2> QED
    BY <1>2, <2>1, <2>2, <2>3, <2>4, <2>5, ChangeHolds
<1> QED
  BY <1>1, <1>2

LEMMA CancelInStripeHolds ==
  ASSUME SubscriptionsAssumption, Shape, PaidInv, NEW w \in Workers, CancelInStripe(w)
  PROVE  Shape' /\ PaidInv'
<1>1. CASE ~ Live(req[w].sub)
  BY <1>1, EndHolds DEF CancelInStripe
<1>2. CASE Live(req[w].sub)
  <2> DEFINE s == req[w].sub
             a == [stripe[s] EXCEPT !.status = "canceled"]
             d == [NoWrite EXCEPT !.status = "cancelled"]
             r == [req[w] EXCEPT !.at = "write", !.write = d]
  <2>1. /\ req[w] \in Request /\ req[w].at = "cancel" /\ s \in Subs /\ stripe[s] \in StripeRecord
    BY DEF CancelInStripe, Shape, PaidInv, Stands, Billed
  <2>2. /\ stripe' = [stripe EXCEPT ![s] = a] /\ Emit(<<Ev("deleted", s)>>)
        /\ Plan(w, d) /\ UNCHANGED <<user, rows>> /\ "deleted" \in Types
    BY <1>2, <2>1 DEF CancelInStripe, Canceled, Types
  <2>3. d \in Write /\ d.status = "cancelled" /\ d # NoWrite
    BY DEF NoWrite, Write
  <2>4. req' = [req EXCEPT ![w] = r]
    <3> HIDE DEF d
    <3> QED
      BY <2>2, <2>3 DEF Plan, Shape
  <2>5. /\ a \in StripeRecord /\ a.status = "canceled" /\ a.cycle = stripe[s].cycle
        /\ a.plan = stripe[s].plan /\ a.bought = stripe[s].bought
    BY <2>1 DEF StripeRecord
  <2>6. {a.plan, a.bought} \subseteq Plans
    BY <1>2, <2>1, <2>5 DEF Live, Shape
  <2>7. /\ r \in Request /\ r.at = "write" /\ r.sub = req[w].sub /\ r.inv = req[w].inv
        /\ r.write = d
    <3> HIDE DEF d
    <3> QED
      BY <2>1, <2>3 DEF Request, States
  <2> HIDE DEF a, r, d
  <2> QED
    BY <1>2, <2>1, <2>2, <2>3, <2>4, <2>5, <2>6, <2>7, ChangeHolds
<1> QED
  BY <1>1, <1>2

LEMMA DeliverHolds ==
  ASSUME SubscriptionsAssumption, Shape, PaidInv, NEW w \in Workers, NEW i \in DOMAIN due,
         Deliver(w, i)
  PROVE  Shape' /\ PaidInv'
<1>1. PICK e : e = due[i]
  OBVIOUS
<1>2. e \in Event /\ Billed(e.sub, e.inv)
  <2>1. e \in Range(due) /\ Range(due) \subseteq Event
    BY <1>1, RangeEquality, RangeOfSeq DEF Shape
  <2> QED
    BY <2>1 DEF PaidInv
<1> DEFINE r == [Idle EXCEPT !.at = e.type, !.ev = e, !.sub = e.sub, !.plan = e.plan,
                             !.inv = e.inv]
<1>3. req' = [req EXCEPT ![w] = r] /\ UNCHANGED <<stripe, due, user, rows>>
  BY <1>1 DEF Deliver, Begin
<1>4. /\ r \in Request /\ r.at = e.type /\ r.sub = e.sub /\ r.inv = e.inv /\ r.at \in Types
  BY <1>2, IdleStands DEF Request, States, Event, Idle
<1> HIDE DEF r
<1>5. Stands(r) /\ r.at # "checkout"
  BY <1>2, <1>4 DEF Stands, Types
<1>6. due' \in Seq(Event) /\ Range(due') \subseteq Range(due)
  BY <1>3 DEF Shape
<1> QED
  BY <1>3, <1>4, <1>5, <1>6, Reads

\* The owner asks for a change, or for what a session has paid.
LEMMA AskedHolds ==
  ASSUME SubscriptionsAssumption, Shape, PaidInv, NEW w \in Workers, NEW r, Begin(w, r),
         \E at \in {"price", "cancel", "verify"}, s \in Subs, p \in Plans \cup {"none"} :
           /\ Paid(s) /\ (at = "price" => p \in Plans)
           /\ \/ r = [Idle EXCEPT !.at = at, !.sub = s, !.plan = p]
              \/ at # "price" /\ r = [Idle EXCEPT !.at = at, !.sub = s],
         UNCHANGED <<stripe, due, user, rows>>
  PROVE  Shape' /\ PaidInv'
<1>1. req' = [req EXCEPT ![w] = r]
  BY DEF Begin
<1>2. PICK at \in {"price", "cancel", "verify"}, s \in Subs, p \in Plans \cup {"none"} :
        /\ Paid(s) /\ (at = "price" => p \in Plans)
        /\ \/ r = [Idle EXCEPT !.at = at, !.sub = s, !.plan = p]
           \/ at # "price" /\ r = [Idle EXCEPT !.at = at, !.sub = s]
  OBVIOUS
<1>3. /\ r \in Request /\ r.at = at /\ r.sub = s /\ r.inv = 0
      /\ r.at = "price" => r.plan \in Plans
  BY <1>2, IdleStands DEF Request, States, Idle
<1>4. Billed(s, 0)
  BY <1>2, Bounds DEF Billed, Shape, StripeRecord
<1>5. Stands(r) /\ r.at # "checkout"
  BY <1>3, <1>4 DEF Stands
<1>6. due' \in Seq(Event) /\ Range(due') \subseteq Range(due)
  BY DEF Shape
<1> QED
  BY <1>1, <1>3, <1>5, <1>6, Reads

\* A checkout begins: no other request has one for the same subscription.
LEMMA SubscribeHolds ==
  ASSUME SubscriptionsAssumption, Shape, PaidInv, NEW w \in Workers, NEW s \in Subs,
         NEW p \in Plans, Subscribe(w, s, p)
  PROVE  Shape' /\ PaidInv'
<1> DEFINE r == [Idle EXCEPT !.at = "checkout", !.sub = s, !.plan = p]
<1>1. req' = [req EXCEPT ![w] = r] /\ UNCHANGED <<stripe, due, user, rows>>
  BY DEF Subscribe, Begin
<1>2. r \in Request /\ r.at = "checkout" /\ r.sub = s /\ r.plan = p
  BY IdleStands DEF Request, States, Idle
<1> HIDE DEF r
<1>3. Stands(r)
  BY <1>2 DEF Stands, Subscribe
<1>4. Shape'
  BY <1>1, <1>2 DEF Shape
<1>5. \A v \in Workers : req'[v] = IF v = w THEN r ELSE req[v]
  BY <1>1 DEF Shape
<1>6. \A x, i : Billed(x, i)' <=> Billed(x, i)
  BY <1>1 DEF Billed, Paid
<1>7. \A e \in Range(due') : Billed(e.sub, e.inv)'
  BY <1>1, <1>6 DEF PaidInv
<1>8. \A v \in Workers : Stands(req[v])'
  <2> SUFFICES ASSUME NEW v \in Workers PROVE Stands(req[v])'
    OBVIOUS
  <2>1. Stands(req[v]) /\ Stands(r)
    BY <1>3 DEF PaidInv
  <2> QED
    BY <1>1, <1>5, <1>6, <2>1 DEF Stands
<1>9. \A u, v \in Workers :
       req'[u].at = "checkout" /\ req'[v].at = "checkout" /\ req'[u].sub = req'[v].sub => u = v
  BY <1>2, <1>5 DEF PaidInv, Subscribe
<1>10. UserPaid' /\ RowsPaid'
  BY <1>1, Same
<1> QED
  BY <1>4, <1>7, <1>8, <1>9, <1>10 DEF PaidInv

LEMMA OwnerHolds ==
  ASSUME SubscriptionsAssumption, Shape, PaidInv, NEW w \in Workers, OwnerStep(w)
  PROVE  Shape' /\ PaidInv'
<1>1. ASSUME NEW s \in Subs, NEW p \in Plans, Subscribe(w, s, p)
      PROVE  Shape' /\ PaidInv'
  BY <1>1, SubscribeHolds
<1>2. ASSUME NEW p \in Plans, UpdatePlan(w, p)
      PROVE  Shape' /\ PaidInv'
  <2>1. Paid(user.sub) /\ user.sub \in Subs
    BY <1>2 DEF UpdatePlan, PaidInv, UserPaid, Shape, Owner
  <2> QED
    BY <1>2, <2>1, AskedHolds DEF UpdatePlan
<1>3. CASE Cancel(w)
  <2>1. Paid(user.sub) /\ user.sub \in Subs
    BY <1>3 DEF Cancel, PaidInv, UserPaid, Shape, Owner
  <2> QED
    BY <1>3, <2>1, AskedHolds DEF Cancel
<1>4. ASSUME NEW s \in Subs, VerifySession(w, s)
      PROVE  Shape' /\ PaidInv'
  <2>1. Paid(s)
    BY <1>4 DEF VerifySession, Paid
  <2>2. stripe[s].bought \in Plans \cup {"none"}
    BY DEF Shape, StripeRecord
  <2> QED
    BY <1>4, <2>1, <2>2, AskedHolds DEF VerifySession
<1> QED
  BY <1>1, <1>2, <1>3, <1>4 DEF OwnerStep

LEMMA RequestHolds ==
  ASSUME SubscriptionsAssumption, Shape, PaidInv, NEW w \in Workers, RequestStep(w)
  PROVE  Shape' /\ PaidInv'
  BY ActivationHolds, CheckHolds, CreditHolds, WriteHolds, FindHolds, AskHolds,
     OpenCheckoutHolds, ChangePriceHolds, CancelInStripeHolds, ForgetHolds
     DEF RequestStep

LEMMA PaidStep ==
  ASSUME SubscriptionsAssumption, Shape, PaidInv, [Next]_vars
  PROVE  Shape' /\ PaidInv'
<1>1. ASSUME NEW s \in Subs, StripeStep(s)
      PROVE  Shape' /\ PaidInv'
  BY <1>1, StripeHolds
<1>2. CASE Delivery
  BY <1>2, DeliverHolds DEF Delivery
<1>3. ASSUME NEW w \in Workers, OwnerStep(w) \/ RequestStep(w) \/ RequestFails(w)
      PROVE  Shape' /\ PaidInv'
  BY <1>3, OwnerHolds, RequestHolds, ForgetHolds
<1>4. CASE UNCHANGED vars
  <2>1. UNCHANGED <<stripe, due, user, rows, req>>
    BY <1>4 DEF vars
  <2>2. Shape'
    BY <2>1 DEF Shape
  <2>3. PaidInv'
    BY <2>1 DEF PaidInv, Stands, UserPaid, RowsPaid, Billed, Paid
  <2> QED
    BY <2>2, <2>3
<1> QED
  BY <1>1, <1>2, <1>3, <1>4 DEF Next

\* Every variable has its type.
THEOREM TypeCorrect ==
  ASSUME SubscriptionsAssumption
  PROVE  Spec => []TypeOK
<1>1. Shape => TypeOK
  BY DEF Shape, TypeOK, StripeRecord, Owner
<1>2. Init => Shape /\ PaidInv
  BY PaidInit
<1>3. (Shape /\ PaidInv) /\ [Next]_vars => (Shape /\ PaidInv)'
  BY PaidStep
<1> QED
  BY <1>1, <1>2, <1>3, PTL DEF Spec

\* Whoever is active has paid, and so has whoever got free credits, whatever the number of
\* requests and events in progress and their order (stripe.webhooks.js:306-381).
THEOREM PaidFirst ==
  ASSUME SubscriptionsAssumption
  PROVE  Spec => []ActiveWasPaid
<1>1. Shape /\ PaidInv => ActiveWasPaid
  <2> SUFFICES ASSUME Shape, PaidInv PROVE ActiveWasPaid
    OBVIOUS
  <2>1. user.status = "active" => user.sub \in Subs /\ Paid(user.sub)
    BY DEF PaidInv, UserPaid, Shape, Owner
  <2>2. \A s \in Subs, i \in 0..MaxCycles : Rows(s, i) # {} => Paid(s) /\ i <= stripe[s].cycle
    BY DEF Rows, PaidInv, RowsPaid, Billed
  <2> QED
    BY <2>1, <2>2 DEF ActiveWasPaid
<1>2. Init => Shape /\ PaidInv
  BY PaidInit
<1>3. (Shape /\ PaidInv) /\ [Next]_vars => (Shape /\ PaidInv)'
  BY PaidStep
<1> QED
  BY <1>1, <1>2, <1>3, PTL DEF Spec

-----------------------------------------------------------------------------
(* Free credits, once per invoice. *)

\* Requests are handled one at a time, and no plan is changed.
OneRequest == \A v, w \in Workers : v = w
NoUpdates == MaxUpdates = 0

\* What a request knows of the plan is what was bought, and it credits an invoice that has
\* no credits yet.
Keeps(r) ==
  /\ r.at \in {"completed", "updated", "verify", "activate", "allocate", "invoice", "credit"} =>
       r.plan = stripe[r.sub].bought
  /\ r.at = "credit" => rows[r.sub][r.inv][r.plan] = 0
  /\ r.at \notin {"price", "adopt"} /\ r.write.plan = "keep"

\* Every plan that is written anywhere is the one that was bought.
OnceInv ==
  /\ \A s \in Subs : stripe[s].plan = stripe[s].bought
  /\ \A e \in Range(due) : e.plan = stripe[e.sub].bought
  /\ user.sub # "none" => user.plan = stripe[user.sub].bought
  /\ \A w \in Workers : Keeps(req[w])
  /\ \A s \in Subs, i \in 0..MaxCycles, p \in Plans :
       rows[s][i][p] = 0 \/ (rows[s][i][p] = 1 /\ p = stripe[s].bought)
  /\ updates = 0

LEMMA OnceInit ==
  ASSUME Init
  PROVE  OnceInv
<1>1. Range(due) = {}
  BY DEF Init, Range
<1>2. \A w \in Workers : Keeps(req[w])
  BY DEF Init, Keeps, Idle, NoWrite
<1> QED
  BY <1>1, <1>2 DEF Init, OnceInv

\* Nothing changes what was bought, once it was; what is new agrees with it.
LEMMA Once ==
  ASSUME SubscriptionsAssumption, Shape, PaidInv, OnceInv,
         \A s \in Subs : /\ stripe'[s].plan = stripe'[s].bought
                         /\ stripe[s].status # "none" => stripe'[s].bought = stripe[s].bought,
         \A e \in Range(due') : e \in Range(due) \/ e.plan = stripe'[e.sub].bought,
         \/ user'.sub = user.sub /\ user'.plan = user.plan
         \/ user'.sub \in Subs /\ Paid(user'.sub) /\ user'.plan = stripe[user'.sub].bought,
         \A s \in Subs, i \in 0..MaxCycles, p \in Plans :
           \/ rows'[s][i][p] = rows[s][i][p]
           \/ rows'[s][i][p] = 1 /\ Paid(s) /\ p = stripe[s].bought,
         \A w \in Workers : Keeps(req[w])',
         updates' = updates
  PROVE  OnceInv'
<1>1. \A s \in Subs : Paid(s) => stripe'[s].bought = stripe[s].bought
  BY DEF Paid
<1>2. \A e \in Range(due') : e.plan = stripe'[e.sub].bought
  <2>1. \A e \in Range(due) : e.sub \in Subs /\ Paid(e.sub) /\ e.plan = stripe[e.sub].bought
    BY DEF PaidInv, OnceInv, Billed
  <2> QED
    BY <1>1, <2>1
<1>3. user'.sub # "none" => user'.plan = stripe'[user'.sub].bought
  <2>1. user.sub # "none" => user.sub \in Subs /\ Paid(user.sub)
    BY DEF Shape, Owner, PaidInv, UserPaid
  <2> QED
    BY <1>1, <2>1 DEF OnceInv
<1>4. \A s \in Subs, i \in 0..MaxCycles, p \in Plans :
        rows'[s][i][p] = 0 \/ (rows'[s][i][p] = 1 /\ p = stripe'[s].bought)
  <2> SUFFICES ASSUME NEW s \in Subs, NEW i \in 0..MaxCycles, NEW p \in Plans
               PROVE  rows'[s][i][p] = 0 \/ (rows'[s][i][p] = 1 /\ p = stripe'[s].bought)
    OBVIOUS
  <2>1. rows[s][i][p] > 0 => Paid(s)
    BY DEF PaidInv, RowsPaid, Billed
  <2>2. rows[s][i][p] = 0 \/ (rows[s][i][p] = 1 /\ p = stripe[s].bought)
    BY DEF OnceInv
  <2> QED
    BY <1>1, <2>1, <2>2
<1> QED
  BY <1>2, <1>3, <1>4 DEF OnceInv

\* A request that goes on, and nothing else.
LEMMA OnceReads ==
  ASSUME SubscriptionsAssumption, Shape, PaidInv, OnceInv, NEW w \in Workers, NEW r,
         req' = [req EXCEPT ![w] = r], Keeps(r),
         UNCHANGED <<stripe, user, rows, updates>>, Range(due') \subseteq Range(due)
  PROVE  OnceInv'
<1>1. \A s \in Subs : /\ stripe'[s].plan = stripe'[s].bought
                      /\ stripe[s].status # "none" => stripe'[s].bought = stripe[s].bought
  BY DEF OnceInv
<1>2. \A v \in Workers : Keeps(req[v])'
  <2> SUFFICES ASSUME NEW v \in Workers PROVE Keeps(req[v])'
    OBVIOUS
  <2>1. req'[v] = (IF v = w THEN r ELSE req[v]) /\ Keeps(req[v]) /\ Keeps(r)
    BY DEF Shape, OnceInv
  <2> QED
    BY <2>1 DEF Keeps
<1> QED
  BY <1>1, <1>2, Once

\* A request ends with what it had of a write.
LEMMA OnceEnds ==
  ASSUME SubscriptionsAssumption, Shape, OnceInv, NEW w \in Workers, End(w)
  PROVE  \E r : req' = [req EXCEPT ![w] = r] /\ r.at \in {"idle", "answer"} /\ r.write.plan = "keep"
<1>1. req[w] \in Request /\ Keeps(req[w])
  BY DEF Shape, OnceInv
<1>2. Idle.at = "idle" /\ Idle.write.plan = "keep"
  BY DEF Idle, NoWrite
<1>3. /\ [req[w] EXCEPT !.at = "answer"].at = "answer"
      /\ [req[w] EXCEPT !.at = "answer"].write.plan = "keep"
  BY <1>1 DEF Request, Keeps
<1> QED
  BY <1>2, <1>3 DEF End

LEMMA OnceEndHolds ==
  ASSUME SubscriptionsAssumption, Shape, PaidInv, OnceInv, NEW w \in Workers, End(w),
         UNCHANGED <<stripe, due, user, rows, updates>>
  PROVE  OnceInv'
<1>1. PICK r : req' = [req EXCEPT ![w] = r] /\ r.at \in {"idle", "answer"} /\ r.write.plan = "keep"
  BY OnceEnds
<1>2. Keeps(r)
  BY <1>1 DEF Keeps
<1> QED
  BY <1>1, <1>2, OnceReads

\* A request goes on with the plan it has.
LEMMA OnceStepHolds ==
  ASSUME SubscriptionsAssumption, Shape, PaidInv, OnceInv, NEW w \in Workers, NEW at,
         Step(w, at), at \notin {"price", "adopt"},
         req[w].at \in {"completed", "updated", "verify", "activate", "allocate", "invoice", "credit"},
         at = "credit" => rows[req[w].sub][req[w].inv][req[w].plan] = 0,
         UNCHANGED <<stripe, due, user, rows, updates>>
  PROVE  OnceInv'
<1> DEFINE r == [req[w] EXCEPT !.at = at]
<1>1. req[w] \in Request /\ Keeps(req[w])
  BY DEF Shape, OnceInv
<1>2. /\ r.at = at /\ r.sub = req[w].sub /\ r.inv = req[w].inv /\ r.plan = req[w].plan
      /\ r.write = req[w].write /\ req' = [req EXCEPT ![w] = r]
  BY <1>1 DEF Request, Step
<1> HIDE DEF r
<1>3. Keeps(r)
  BY <1>1, <1>2 DEF Keeps
<1> QED
  BY <1>2, <1>3, OnceReads

LEMMA OncePlanHolds ==
  ASSUME SubscriptionsAssumption, Shape, PaidInv, OnceInv, NEW w \in Workers, NEW d, Plan(w, d),
         d.plan = "keep", UNCHANGED <<stripe, due, user, rows, updates>>
  PROVE  OnceInv'
<1>1. CASE End(w)
  BY <1>1, OnceEndHolds
<1>2. CASE req' = [req EXCEPT ![w].at = "write", ![w].write = d]
  <2> DEFINE r == [req[w] EXCEPT !.at = "write", !.write = d]
  <2>1. r.at = "write" /\ r.write = d /\ req' = [req EXCEPT ![w] = r]
    BY <1>2 DEF Request, Shape
  <2> HIDE DEF r
  <2>2. Keeps(r)
    BY <2>1 DEF Keeps
  <2> QED
    BY <2>1, <2>2, OnceReads
<1> QED
  BY <1>1, <1>2 DEF Plan

LEMMA OnceQueued ==
  ASSUME SubscriptionsAssumption, Shape, NEW s \in Subs, NEW t \in Types, NEW u \in Types,
         Emit(<<Ev(t, s)>>) \/ Emit(<<Ev(t, s), Ev(u, s)>>),
         stripe' \in [Subs -> StripeRecord], stripe'[s].status \in {"active", "past_due", "canceled"},
         {stripe'[s].plan, stripe'[s].bought} \subseteq Plans, stripe'[s].plan = stripe'[s].bought
  PROVE  \A e \in Range(due') : e \in Range(due) \/ e.plan = stripe'[e.sub].bought
<1>1. \A x \in Types : \E e \in Event : e = Ev(x, s)
  BY Emits
<1>2. PICK e, f \in Event : e = Ev(t, s) /\ f = Ev(u, s)
  BY <1>1
<1>3. e.sub = s /\ f.sub = s /\ e.plan = stripe'[s].bought /\ f.plan = stripe'[s].bought
  BY <1>2 DEF Ev
<1>4. due \in Seq(Event)
  BY DEF Shape
<1>5. due' = due \o <<e>> \/ due' = due \o <<e, f>>
  BY <1>2 DEF Emit
<1>6. Range(due') \subseteq Range(due) \cup {e, f}
  <2>1. Range(due \o <<e>>) = Range(due) \cup {e} /\ Range(due \o <<e, f>>) = Range(due) \cup {e, f}
    BY <1>4, Added
  <2> QED
    BY <1>5, <2>1
<1> QED
  BY <1>3, <1>6

LEMMA OnceStripeHolds ==
  ASSUME SubscriptionsAssumption, Shape, PaidInv, OnceInv, NEW s \in Subs, StripeStep(s)
  PROVE  OnceInv'
<1>1. user' = user /\ rows' = rows /\ req' = req /\ updates' = updates
  BY DEF StripeStep, PayCheckout, Renew, RenewFails, Recover, CancelElsewhere, bounds
<1>2. PICK a \in StripeRecord :
        /\ stripe' = [stripe EXCEPT ![s] = a]
        /\ a.status \in {"active", "past_due", "canceled"}
        /\ a.plan = stripe[s].plan /\ a.bought = stripe[s].bought /\ stripe[s].cycle <= a.cycle
        /\ stripe[s].status # "none"
  BY StripeChanges
<1>3. /\ stripe' \in [Subs -> StripeRecord] /\ stripe'[s] = a
      /\ \A t \in Subs : t # s => stripe'[t] = stripe[t]
  BY <1>2 DEF Shape
<1>4. {a.plan, a.bought} \subseteq Plans /\ a.plan = a.bought
  BY <1>2 DEF Shape, OnceInv
<1>5. \A e \in Range(due') : e \in Range(due) \/ e.plan = stripe'[e.sub].bought
  <2>1. \E t, u \in Types : Emit(<<Ev(t, s)>>) \/ Emit(<<Ev(t, s), Ev(u, s)>>)
    BY DEF StripeStep, PayCheckout, Renew, RenewFails, Recover, CancelElsewhere, Canceled, Types
  <2> QED
    BY <1>2, <1>3, <1>4, <2>1, OnceQueued
<1>6. \A t \in Subs : stripe'[t].plan = stripe'[t].bought /\ stripe'[t].bought = stripe[t].bought
  BY <1>2, <1>3, <1>4 DEF OnceInv
<1>7. \A v \in Workers : Keeps(req[v])'
  <2> SUFFICES ASSUME NEW v \in Workers PROVE Keeps(req[v])'
    OBVIOUS
  <2>1. Keeps(req[v]) /\ Stands(req[v])
    BY DEF OnceInv, PaidInv
  <2> QED
    BY <1>1, <1>6, <2>1 DEF Keeps, Stands, Billed
<1> QED
  BY <1>1, <1>5, <1>6, <1>7, Once

LEMMA OnceForgets ==
  ASSUME SubscriptionsAssumption, Shape, PaidInv, OnceInv, NEW w \in Workers,
         Acknowledge(w) \/ RequestFails(w)
  PROVE  OnceInv'
<1>1. req' = [req EXCEPT ![w] = Idle] /\ UNCHANGED <<stripe, user, rows, updates>>
  BY DEF Acknowledge, RequestFails, bounds
<1>2. due' = RemoveFirst(due, req[w].ev) \/ due' = due
  BY DEF Acknowledge, RequestFails
<1>3. Range(due') \subseteq Range(due)
  BY <1>2, Removed DEF Shape
<1>4. Keeps(Idle)
  BY DEF Keeps, Idle, NoWrite
<1> QED
  BY <1>1, <1>3, <1>4, OnceReads

LEMMA OnceChecks ==
  ASSUME SubscriptionsAssumption, Shape, PaidInv, OnceInv, NEW w \in Workers,
         CheckActive(w) \/ AllocatedThisMonth(w) \/ CheckInvoice(w) \/ FindVerified(w)
  PROVE  OnceInv'
<1>1. UNCHANGED <<stripe, due, user, rows, updates>>
  BY DEF CheckActive, AllocatedThisMonth, CheckInvoice, FindVerified, bounds
<1>2. CASE End(w)
  BY <1>1, <1>2, OnceEndHolds
<1>3. CASE CheckActive(w) /\ Step(w, "invoice")
  BY <1>1, <1>3, OnceStepHolds DEF CheckActive
<1>4. CASE FindVerified(w)
  BY <1>1, <1>4, OnceStepHolds DEF FindVerified
<1>5. CASE CheckInvoice(w) /\ Step(w, "credit") /\ ~ (rows[req[w].sub][req[w].inv][req[w].plan] > 0)
  <2>1. req[w] \in Request /\ Billed(req[w].sub, req[w].inv) /\ req[w].plan = stripe[req[w].sub].bought
    BY <1>5 DEF CheckInvoice, Shape, PaidInv, Stands, OnceInv, Keeps
  <2>2. req[w].sub \in Subs /\ req[w].inv \in 0..MaxCycles /\ req[w].plan \in Plans
    BY <2>1 DEF Billed, Paid, Shape, Request
  <2>3. rows[req[w].sub][req[w].inv][req[w].plan] \in Nat
    <3>1. rows[req[w].sub][req[w].inv] \in [Plans -> Nat]
      BY <2>2 DEF Shape
    <3> QED
      BY <2>2, <3>1
  <2>4. rows[req[w].sub][req[w].inv][req[w].plan] = 0
    BY <1>5, <2>3
  <2> QED
    BY <1>1, <1>5, <2>4, OnceStepHolds DEF CheckInvoice
<1> QED
  BY <1>2, <1>3, <1>4, <1>5 DEF CheckActive, AllocatedThisMonth, CheckInvoice

\* What is read is written: another plan never is.
LEMMA OnceAsks ==
  ASSUME SubscriptionsAssumption, Shape, PaidInv, OnceInv, NEW w \in Workers,
         AskStripe(w) \/ FindDeleted(w) \/ FindUpdated(w)
  PROVE  OnceInv'
<1>1. UNCHANGED <<stripe, due, user, rows, updates>>
  BY DEF AskStripe, FindDeleted, FindUpdated, bounds
<1>2. NoWrite.plan = "keep" /\ \A x : [NoWrite EXCEPT !.status = x].plan = "keep"
  BY DEF NoWrite
<1>3. PICK d : Plan(w, d) /\ d.plan = "keep"
  <2>1. CASE AskStripe(w)
    BY <1>2, <2>1 DEF AskStripe
  <2>2. CASE FindDeleted(w)
    BY <1>2, <2>2 DEF FindDeleted
  <2>3. CASE FindUpdated(w)
    <3>1. CASE user.sub # req[w].sub
      BY <1>2, <2>3, <3>1 DEF FindUpdated
    <3>2. CASE user.sub = req[w].sub
      <4> DEFINE st == LocalStatus(req[w].ev.status)
      <4>1. req[w].at = "updated" /\ Keeps(req[w]) /\ Stands(req[w])
        BY <2>3 DEF FindUpdated, OnceInv, PaidInv
      <4>2. req[w].plan = user.plan
        BY <3>2, <4>1, Bounds DEF Keeps, Stands, Billed, OnceInv
      <4>3. Plan(w, [status |-> IF st = user.status THEN "keep" ELSE st, plan |-> "keep"])
        BY <2>3, <3>2, <4>2 DEF FindUpdated
      <4> QED
        BY <4>3
    <3> QED
      BY <3>1, <3>2
  <2> QED
    BY <2>1, <2>2, <2>3
<1> QED
  BY <1>1, <1>3, OncePlanHolds

LEMMA OnceFinds ==
  ASSUME SubscriptionsAssumption, Shape, PaidInv, OnceInv, NEW w \in Workers,
         FindRenewal(w) \/ FindFailed(w)
  PROVE  OnceInv'
<1>0. UNCHANGED <<stripe, due, user, rows, updates>>
  BY DEF FindRenewal, FindFailed, bounds
<1>1. CASE End(w)
  BY <1>0, <1>1, OnceEndHolds
<1>2. req[w] \in Request /\ req[w].write \in Write /\ Stands(req[w]) /\ Keeps(req[w])
  BY DEF Shape, PaidInv, OnceInv, Request
<1>3. CASE FindRenewal(w) /\ ~ End(w)
  <2> DEFINE r == [req[w] EXCEPT !.at = "allocate", !.plan = user.plan]
  <2>1. req' = [req EXCEPT ![w] = r]
    BY <1>3 DEF FindRenewal, Shape
  <2>2. r.at = "allocate" /\ r.plan = user.plan /\ r.sub = req[w].sub /\ r.write = req[w].write
    BY <1>2 DEF Request
  <2>3. user.sub = req[w].sub /\ req[w].sub \in Subs
    BY <1>2, <1>3 DEF FindRenewal, Stands, Billed
  <2> HIDE DEF r
  <2>4. Keeps(r)
    BY <1>2, <2>2, <2>3, Bounds DEF Keeps, OnceInv
  <2> QED
    BY <1>0, <2>1, <2>4, OnceReads
<1>4. CASE FindFailed(w) /\ ~ End(w)
  <2> DEFINE x == [req[w] EXCEPT !.at = "ask"]
             g == [req EXCEPT ![w] = x]
             r == [x EXCEPT !.write = [@ EXCEPT !.status = user.status]]
  <2>1. req' = [req EXCEPT ![w] = r]
    <3>1. req' = [g EXCEPT ![w] = [g[w] EXCEPT !.write = [@ EXCEPT !.status = user.status]]]
      BY <1>4 DEF FindFailed
    <3> HIDE DEF x
    <3>2. g[w] = x /\ \A y : [g EXCEPT ![w] = y] = [req EXCEPT ![w] = y]
      BY DEF Shape
    <3> QED
      BY <3>1, <3>2
  <2>2. r.at = "ask" /\ r.write.plan = req[w].write.plan
    BY <1>2 DEF Request, Write
  <2> HIDE DEF r
  <2>3. Keeps(r)
    BY <1>2, <2>2 DEF Keeps
  <2> QED
    BY <1>0, <2>1, <2>3, OnceReads
<1> QED
  BY <1>1, <1>3, <1>4

\* A request that ends, and has written the owner's row or a row of credits.
LEMMA OnceWrites ==
  ASSUME SubscriptionsAssumption, Shape, PaidInv, OnceInv, NEW w \in Workers, NEW r,
         req' = [req EXCEPT ![w] = r], Keeps(r), r.at # "credit",
         UNCHANGED <<stripe, due, updates>>,
         \/ user'.sub = user.sub /\ user'.plan = user.plan
         \/ user'.sub \in Subs /\ Paid(user'.sub) /\ user'.plan = stripe[user'.sub].bought,
         \/ rows' = rows
         \/ /\ OneRequest
            /\ \A s \in Subs, i \in 0..MaxCycles, p \in Plans :
                 \/ rows'[s][i][p] = rows[s][i][p]
                 \/ rows'[s][i][p] = 1 /\ Paid(s) /\ p = stripe[s].bought
  PROVE  OnceInv'
<1>1. \A s \in Subs : /\ stripe'[s].plan = stripe'[s].bought
                      /\ stripe[s].status # "none" => stripe'[s].bought = stripe[s].bought
  BY DEF OnceInv
<1>2. \A v \in Workers : Keeps(req[v])'
  <2> SUFFICES ASSUME NEW v \in Workers PROVE Keeps(req[v])'
    OBVIOUS
  <2>1. req'[v] = (IF v = w THEN r ELSE req[v]) /\ Keeps(req[v]) /\ Keeps(r)
    BY DEF Shape, OnceInv
  <2> QED
    BY <2>1 DEF Keeps, OneRequest
<1>3. \A e \in Range(due') : e \in Range(due)
  OBVIOUS
<1>4. \A s \in Subs, i \in 0..MaxCycles, p \in Plans :
        \/ rows'[s][i][p] = rows[s][i][p]
        \/ rows'[s][i][p] = 1 /\ Paid(s) /\ p = stripe[s].bought
  OBVIOUS
<1> QED
  BY <1>1, <1>2, <1>3, <1>4, Once

LEMMA OnceUserWritten ==
  ASSUME SubscriptionsAssumption, Shape, PaidInv, OnceInv, NEW w \in Workers,
         Activate(w) \/ AdoptPlan(w) \/ WriteUser(w)
  PROVE  OnceInv'
<1>1. UNCHANGED <<stripe, due, rows, updates>>
  BY DEF Activate, AdoptPlan, WriteUser, bounds
<1>2. req[w] \in Request /\ Keeps(req[w]) /\ Stands(req[w]) /\ user \in Owner
  BY DEF Shape, OnceInv, PaidInv
<1>3. CASE Activate(w)
  <2> DEFINE r == [req[w] EXCEPT !.at = "allocate", !.inv = 0]
  <2>1. /\ r.at = "allocate" /\ r.sub = req[w].sub /\ r.plan = req[w].plan
        /\ r.write = req[w].write /\ req' = [req EXCEPT ![w] = r]
    BY <1>2, <1>3 DEF Request, Activate, Shape
  <2> HIDE DEF r
  <2>2. user'.sub = req[w].sub /\ user'.plan = req[w].plan
    BY <1>3 DEF Activate
  <2>3. Keeps(r) /\ Paid(req[w].sub) /\ req[w].sub \in Subs /\ req[w].plan = stripe[req[w].sub].bought
    BY <1>2, <1>3, <2>1 DEF Activate, Keeps, Stands, Billed
  <2> QED
    BY <1>1, <2>1, <2>2, <2>3, OnceWrites
<1>4. CASE WriteUser(w)
  <2>1. user'.sub = user.sub /\ user'.plan = user.plan
    BY <1>2, <1>4 DEF WriteUser, Keeps, Owner
  <2>2. PICK r : req' = [req EXCEPT ![w] = r] /\ r.at \in {"idle", "answer"} /\ r.write.plan = "keep"
    BY <1>4, OnceEnds DEF WriteUser
  <2>3. Keeps(r)
    BY <2>2 DEF Keeps
  <2> QED
    BY <1>1, <2>1, <2>2, <2>3, OnceWrites
<1>5. CASE AdoptPlan(w)
  BY <1>2, <1>5 DEF AdoptPlan, Keeps
<1> QED
  BY <1>3, <1>4, <1>5

LEMMA OnceCredited ==
  ASSUME SubscriptionsAssumption, OneRequest, Shape, PaidInv, OnceInv, NEW w \in Workers,
         Credit(w)
  PROVE  OnceInv'
<1>1. /\ req[w] \in Request /\ Billed(req[w].sub, req[w].inv)
      /\ req[w].plan = stripe[req[w].sub].bought
      /\ rows[req[w].sub][req[w].inv][req[w].plan] = 0
  BY DEF Credit, Shape, PaidInv, Stands, OnceInv, Keeps
<1>2. PICK r : req' = [req EXCEPT ![w] = r] /\ r.at \in {"idle", "answer"} /\ r.write.plan = "keep"
  BY OnceEnds DEF Credit
<1>3. Keeps(r)
  BY <1>2 DEF Keeps
<1>4. /\ rows' = [rows EXCEPT ![req[w].sub][req[w].inv][req[w].plan] = @ + 1]
      /\ UNCHANGED <<stripe, due, user, updates>>
  BY DEF Credit, bounds
<1>5. \A s \in Subs, i \in 0..MaxCycles, p \in Plans :
        \/ rows'[s][i][p] = rows[s][i][p]
        \/ rows'[s][i][p] = 1 /\ Paid(s) /\ p = stripe[s].bought
  <2>1. req[w].sub \in Subs /\ req[w].inv \in 0..MaxCycles /\ Paid(req[w].sub)
    BY <1>1 DEF Billed, Request
  <2> DEFINE x == rows[req[w].sub][req[w].inv]
             y == [x EXCEPT ![req[w].plan] = @ + 1]
             z == [rows[req[w].sub] EXCEPT ![req[w].inv] = y]
  <2>2. rows' = [rows EXCEPT ![req[w].sub] = z]
    BY <1>4
  <2>3. x \in [Plans -> Nat] /\ x[req[w].plan] = 0
    BY <1>1, <2>1 DEF Shape
  <2>4. \A i \in 0..MaxCycles : z[i] = IF i = req[w].inv THEN y ELSE rows[req[w].sub][i]
    BY <2>1 DEF Shape
  <2>5. \A s \in Subs : rows'[s] = IF s = req[w].sub THEN z ELSE rows[s]
    BY <2>2 DEF Shape
  <2> HIDE DEF z
  <2>6. \A q \in Plans : y[q] = IF q = req[w].plan THEN 1 ELSE x[q]
    <3> HIDE DEF x
    <3> QED
      BY <2>3
  <2> HIDE DEF y
  <2> QED
    BY <1>1, <2>1, <2>4, <2>5, <2>6
<1> QED
  BY <1>2, <1>3, <1>4, <1>5, OnceWrites

\* A checkout opens, or a subscription is cancelled in Stripe, and the request goes on.
LEMMA OnceSells ==
  ASSUME SubscriptionsAssumption, OneRequest, Shape, PaidInv, OnceInv, NEW w \in Workers,
         NEW s \in Subs, NEW a, NEW r,
         stripe' = [stripe EXCEPT ![s] = a], a.plan = a.bought,
         stripe[s].status # "none" => a.bought = stripe[s].bought,
         \A e \in Range(due') : e \in Range(due) \/ e.plan = stripe'[e.sub].bought,
         req' = [req EXCEPT ![w] = r], r.at \in {"idle", "answer", "write"}, r.write.plan = "keep",
         UNCHANGED <<user, rows, updates>>
  PROVE  OnceInv'
<1>1. \A t \in Subs : stripe'[t] = IF t = s THEN a ELSE stripe[t]
  BY DEF Shape
<1>2. \A t \in Subs : /\ stripe'[t].plan = stripe'[t].bought
                      /\ stripe[t].status # "none" => stripe'[t].bought = stripe[t].bought
  BY <1>1 DEF OnceInv
<1>3. \A v \in Workers : Keeps(req[v])'
  <2>1. \A v \in Workers : req'[v] = r
    BY DEF Shape, OneRequest
  <2> QED
    BY <2>1 DEF Keeps
<1> QED
  BY <1>2, <1>3, Once

LEMMA OnceOpens ==
  ASSUME SubscriptionsAssumption, OneRequest, Shape, PaidInv, OnceInv, NEW w \in Workers,
         OpenCheckout(w)
  PROVE  OnceInv'
<1> DEFINE a == [status |-> "open", plan |-> req[w].plan, bought |-> req[w].plan, cycle |-> 0]
<1>1. req[w].sub \in Subs /\ stripe[req[w].sub].status = "none"
  BY DEF OpenCheckout, PaidInv, Stands
<1>2. stripe' = [stripe EXCEPT ![req[w].sub] = a] /\ UNCHANGED <<due, user, rows, updates>>
  BY DEF OpenCheckout, bounds
<1>3. PICK r : req' = [req EXCEPT ![w] = r] /\ r.at \in {"idle", "answer"} /\ r.write.plan = "keep"
  BY OnceEnds DEF OpenCheckout
<1>4. a.plan = a.bought
  OBVIOUS
<1> HIDE DEF a
<1> QED
  BY <1>1, <1>2, <1>3, <1>4, OnceSells

LEMMA OnceCancels ==
  ASSUME SubscriptionsAssumption, OneRequest, Shape, PaidInv, OnceInv, NEW w \in Workers,
         CancelInStripe(w)
  PROVE  OnceInv'
<1>0. UNCHANGED <<user, rows, updates>>
  BY DEF CancelInStripe, bounds
<1>1. CASE ~ Live(req[w].sub)
  BY <1>0, <1>1, OnceEndHolds DEF CancelInStripe
<1>2. CASE Live(req[w].sub)
  <2> DEFINE s == req[w].sub
             a == [stripe[s] EXCEPT !.status = "canceled"]
             d == [NoWrite EXCEPT !.status = "cancelled"]
             r == [req[w] EXCEPT !.at = "write", !.write = d]
  <2>1. req[w] \in Request /\ s \in Subs /\ stripe[s] \in StripeRecord
    BY DEF CancelInStripe, Shape, PaidInv, Stands, Billed
  <2>2. /\ stripe' = [stripe EXCEPT ![s] = a] /\ Emit(<<Ev("deleted", s)>>)
        /\ Plan(w, d) /\ "deleted" \in Types
    BY <1>2, <2>1 DEF CancelInStripe, Canceled, Types
  <2>3. d.plan = "keep" /\ d.status = "cancelled" /\ d # NoWrite
    BY DEF NoWrite
  <2>4. req' = [req EXCEPT ![w] = r] /\ r.at = "write" /\ r.write = d
    <3> HIDE DEF d
    <3> QED
      BY <2>1, <2>2, <2>3 DEF Plan, Shape, Request
  <2>5. /\ a \in StripeRecord /\ a.status = "canceled" /\ a.plan = stripe[s].plan
        /\ a.bought = stripe[s].bought
    BY <2>1 DEF StripeRecord
  <2>6. {a.plan, a.bought} \subseteq Plans /\ a.plan = a.bought
    BY <1>2, <2>1, <2>5 DEF Live, Shape, OnceInv
  <2> HIDE DEF a, r, d
  <2>7. stripe' \in [Subs -> StripeRecord] /\ stripe'[s] = a
    BY <2>1, <2>2, <2>5 DEF Shape
  <2>8. \A e \in Range(due') : e \in Range(due) \/ e.plan = stripe'[e.sub].bought
    BY <2>1, <2>2, <2>5, <2>6, <2>7, OnceQueued
  <2> QED
    BY <1>0, <2>1, <2>2, <2>3, <2>4, <2>5, <2>6, <2>8, OnceSells
<1> QED
  BY <1>1, <1>2

LEMMA OnceBegins ==
  ASSUME SubscriptionsAssumption, Shape, PaidInv, OnceInv, NEW w \in Workers, NEW r,
         Begin(w, r), UNCHANGED <<stripe, due, user, rows, updates>>,
         r.at \in Types \cup {"checkout", "cancel", "verify"}, r.write = NoWrite,
         r.at \in {"completed", "updated", "verify"} => r.plan = stripe[r.sub].bought
  PROVE  OnceInv'
<1>1. req' = [req EXCEPT ![w] = r]
  BY DEF Begin
<1>2. r.write.plan = "keep"
  BY DEF NoWrite
<1>3. Keeps(r)
  BY <1>2 DEF Keeps, Types
<1> QED
  BY <1>1, <1>3, OnceReads

LEMMA OnceDelivers ==
  ASSUME SubscriptionsAssumption, Shape, PaidInv, OnceInv, NEW w \in Workers,
         NEW i \in DOMAIN due, Deliver(w, i)
  PROVE  OnceInv'
<1>1. PICK e : e = due[i]
  OBVIOUS
<1>2. e \in Range(due) /\ Range(due) \subseteq Event
  BY <1>1, RangeEquality, RangeOfSeq DEF Shape
<1>3. e.type \in Types /\ e.plan = stripe[e.sub].bought
  BY <1>2 DEF Event, OnceInv
<1> DEFINE r == [Idle EXCEPT !.at = e.type, !.ev = e, !.sub = e.sub, !.plan = e.plan,
                             !.inv = e.inv]
<1>4. Begin(w, r) /\ UNCHANGED <<stripe, due, user, rows, updates>>
  BY <1>1 DEF Deliver, bounds
<1>5. r.at = e.type /\ r.sub = e.sub /\ r.plan = e.plan /\ r.write = NoWrite
  BY DEF Idle
<1> HIDE DEF r
<1> QED
  BY <1>3, <1>4, <1>5, OnceBegins

LEMMA OnceOwner ==
  ASSUME SubscriptionsAssumption, NoUpdates, Shape, PaidInv, OnceInv, NEW w \in Workers,
         OwnerStep(w)
  PROVE  OnceInv'
<1>1. ASSUME NEW s \in Subs, NEW p \in Plans, Subscribe(w, s, p)
      PROVE  OnceInv'
  <2> DEFINE r == [Idle EXCEPT !.at = "checkout", !.sub = s, !.plan = p]
  <2>1. r.at = "checkout" /\ r.write = NoWrite
    BY DEF Idle
  <2>2. Begin(w, r) /\ UNCHANGED <<stripe, due, user, rows, updates>>
    BY <1>1 DEF Subscribe, bounds
  <2> HIDE DEF r
  <2> QED
    BY <2>1, <2>2, OnceBegins
<1>2. ASSUME NEW p \in Plans, UpdatePlan(w, p)
      PROVE  OnceInv'
  BY <1>2 DEF UpdatePlan, OnceInv, NoUpdates
<1>3. CASE Cancel(w)
  <2> DEFINE r == [Idle EXCEPT !.at = "cancel", !.sub = user.sub]
  <2>1. r.at = "cancel" /\ r.write = NoWrite
    BY DEF Idle
  <2>2. Begin(w, r) /\ UNCHANGED <<stripe, due, user, rows, updates>>
    BY <1>3 DEF Cancel, bounds
  <2> HIDE DEF r
  <2> QED
    BY <2>1, <2>2, OnceBegins
<1>4. ASSUME NEW s \in Subs, VerifySession(w, s)
      PROVE  OnceInv'
  <2> DEFINE r == [Idle EXCEPT !.at = "verify", !.sub = s, !.plan = stripe[s].bought]
  <2>1. r.at = "verify" /\ r.write = NoWrite /\ r.sub = s /\ r.plan = stripe[s].bought
    BY DEF Idle
  <2>2. Begin(w, r) /\ UNCHANGED <<stripe, due, user, rows, updates>>
    BY <1>4 DEF VerifySession, bounds
  <2> HIDE DEF r
  <2> QED
    BY <2>1, <2>2, OnceBegins
<1> QED
  BY <1>1, <1>2, <1>3, <1>4 DEF OwnerStep

LEMMA OnceRequest ==
  ASSUME SubscriptionsAssumption, OneRequest, Shape, PaidInv, OnceInv, NEW w \in Workers,
         RequestStep(w)
  PROVE  OnceInv'
<1>1. ~ ChangePrice(w)
  BY DEF ChangePrice, OnceInv, Keeps
<1> QED
  BY <1>1, OnceUserWritten, OnceChecks, OnceCredited, OnceFinds, OnceAsks, OnceOpens,
     OnceCancels, OnceForgets DEF RequestStep

LEMMA OnceStep ==
  ASSUME SubscriptionsAssumption, OneRequest, NoUpdates, Shape, PaidInv, OnceInv, [Next]_vars
  PROVE  OnceInv'
<1>1. ASSUME NEW s \in Subs, StripeStep(s)
      PROVE  OnceInv'
  BY <1>1, OnceStripeHolds
<1>2. CASE Delivery
  BY <1>2, OnceDelivers DEF Delivery
<1>3. ASSUME NEW w \in Workers, OwnerStep(w) \/ RequestStep(w) \/ RequestFails(w)
      PROVE  OnceInv'
  BY <1>3, OnceOwner, OnceRequest, OnceForgets
<1>4. CASE UNCHANGED vars
  BY <1>4 DEF vars, bounds, OnceInv, Keeps
<1> QED
  BY <1>1, <1>2, <1>3, <1>4 DEF Next

\* One allocation of free credits for an invoice, through crashes at any point and events
\* repeated in any order, when requests do not overlap (subscription.service.js:179-196).
THEOREM CreditedOnce ==
  ASSUME SubscriptionsAssumption, OneRequest, NoUpdates
  PROVE  Spec => []OncePerInvoice
<1>1. OnceInv /\ Shape => OncePerInvoice
  <2> SUFFICES ASSUME OnceInv, Shape PROVE OncePerInvoice
    OBVIOUS
  <2>1. ASSUME NEW s \in Subs, NEW i \in 0..MaxCycles
        PROVE  (\A p \in Plans : rows[s][i][p] <= 1) /\ (\A p, q \in Rows(s, i) : p = q)
    <3>1. \A p \in Plans : rows[s][i][p] = 0 \/ (rows[s][i][p] = 1 /\ p = stripe[s].bought)
      BY DEF OnceInv
    <3>2. \A p \in Rows(s, i) : p = stripe[s].bought
      BY <3>1 DEF Rows
    <3> QED
      BY <3>1, <3>2
  <2> QED
    BY <2>1 DEF OncePerInvoice
<1>2. Init => Shape /\ PaidInv /\ OnceInv
  BY PaidInit, OnceInit
<1>3. (Shape /\ PaidInv /\ OnceInv) /\ [Next]_vars => (Shape /\ PaidInv /\ OnceInv)'
  BY PaidStep, OnceStep
<1> QED
  BY <1>1, <1>2, <1>3, PTL DEF Spec

-----------------------------------------------------------------------------
(* The row and Stripe. *)

\* One subscription at most, if plans are changed at all: of two, the older one may be
\* verified again under the plan that was bought.
OneSubscription == \A s, t \in Subs : s = t

\* An event of s that a handler copies to the row.
Telling == {"completed", "updated", "deleted"}
Tells(e, s) == e.sub = s /\ e.type \in Telling

\* What an event says is still so in Stripe.
Says(e) == /\ stripe[e.sub].status = e.status
           /\ e.type # "deleted" => stripe[e.sub].plan = e.plan

EventForm(e) == /\ e.type = "completed" => e.status = "active"
                /\ e.type = "deleted" <=> e.status = "canceled"

\* The last event of a subscription that tells says how it is.
LastSays ==
  /\ \A i \in DOMAIN due : EventForm(due[i])
  /\ \A i \in DOMAIN due :
       \/ due[i].type \notin Telling
       \/ \E j \in DOMAIN due : i < j /\ Tells(due[j], due[i].sub)
       \/ Says(due[i])

\* The row will be told of s again: by an event in the queue, and by the first one if the
\* request r has not heeded it yet.
Unheeded(r) == r.ev = NoEvent \/ r.at = r.ev.type
Waits(r, s) == \E i \in DOMAIN due : Tells(due[i], s) /\ (i = 1 => Unheeded(r))

\* The status and the plan of the row are those of its subscription in Stripe.
LocalWord(st) == CASE st = "active" -> "active" [] st = "past_due" -> "inactive" [] OTHER -> "cancelled"
Agrees(st, p) ==
  st = LocalWord(stripe[user.sub].status) /\ (Live(user.sub) => p = stripe[user.sub].plan)
After(x, y) == IF y = "keep" THEN x ELSE y

\* The row agrees with Stripe, once the request r has written, or will be told.
RowTrue(r) ==
  user.sub # "none" =>
    \/ Waits(r, user.sub)
    \/ r.at # "write" /\ Agrees(user.status, user.plan)
    \/ r.at = "write" /\ Agrees(After(user.status, r.write.status), After(user.plan, r.write.plan))

\* The event that a request handles is the first of the queue, until it is acknowledged.
Serves(r) ==
  /\ r.ev # NoEvent => /\ due # <<>> /\ r.ev = due[1] /\ r.sub = r.ev.sub
                       /\ r.at \in {r.ev.type, "allocate", "invoice", "credit", "ask", "write", "answer"}
  /\ r.at \in Types \cup {"ask", "answer"} => r.ev # NoEvent
  /\ r.at \in {"completed", "updated"} => r.plan = r.ev.plan
  /\ r.at = "failed" => r.write = NoWrite

\* What a request of the owner, or one about to write, knows of the row and of Stripe.
Knows(r) ==
  /\ r.at \in {"ask", "write", "cancel", "price", "adopt"} => user.sub = r.sub
  /\ r.at = "ask" => r.write = [status |-> user.status, plan |-> "keep"] /\ r.ev.type = "failed"
  /\ r.at = "write" => Waits(r, r.sub) \/ (r.ev # NoEvent /\ r.ev.type \in Telling)
  /\ r.at \in {"verify", "activate"} => r.plan = stripe[r.sub].bought
  /\ r.at = "verify" => Waits(r, r.sub) \/ stripe[r.sub].status = "active"
  /\ r.at = "activate" => \/ Waits(r, r.sub)
                          \/ stripe[r.sub].status = "active" /\ stripe[r.sub].plan = r.plan
  /\ r.at = "adopt" => Waits(r, r.sub)
  /\ r.at \in {"price", "adopt"} => OneSubscription

\* Only the plan of the subscription that the row names has been changed.
Bought ==
  /\ \A s \in Subs : stripe[s].plan = stripe[s].bought \/ (OneSubscription /\ user.sub = s)
  /\ NoUpdates => updates = 0

AgreeInv ==
  /\ LastSays /\ Bought
  /\ \A w \in Workers : Serves(req[w]) /\ Knows(req[w]) /\ RowTrue(req[w])
  /\ Workers = {} => user.sub = "none"

-----------------------------------------------------------------------------
(* What the queue says. *)

\* An acknowledged event was the first one of the queue.
LEMMA Popped ==
  ASSUME NEW S, NEW d \in Seq(S), d # <<>>
  PROVE  /\ Len(RemoveFirst(d, d[1])) = Len(d) - 1
         /\ \A i \in 1..(Len(d) - 1) : RemoveFirst(d, d[1])[i] = d[i + 1]
<1> DEFINE I == {i \in 1..Len(d) : d[i] = d[1]}
           a == SubSeq(d, 1, 0)
           b == SubSeq(d, 2, Len(d))
<1>1. Len(d) \in Nat /\ Len(d) >= 1 /\ \A i \in 1..Len(d) : d[i] \in S
  BY EmptySeq, LenProperties
<1>2. Min(I) = 1
  <2>1. I \in SUBSET Nat /\ 1 \in I
    BY <1>1
  <2> HIDE DEF I
  <2>2. Min(I) \in I /\ Min(I) <= 1
    BY <2>1, MinIsMember
  <2>3. Min(I) \in Nat /\ Min(I) >= 1
    BY <1>1, <2>2 DEF I
  <2> QED
    BY <2>1, <2>2, <2>3
<1>3. RemoveFirst(d, d[1]) = a \o b
  <2>1. \E i \in 1..Len(d) : d[i] = d[1]
    BY <1>1
  <2>2. I # {}
    BY <2>1
  <2>3. SelectInSeq(d, LAMBDA v : v = d[1]) = 1
    BY <1>2, <2>2 DEF SelectInSeq
  <2>4. RemoveAt(d, 1) = a \o b
    BY DEF RemoveAt
  <2> QED
    BY <2>1, <2>3, <2>4 DEF RemoveFirst
<1>4. a = <<>>
  BY SubSeqEmpty
<1>5. /\ b \in Seq(S) /\ Len(b) = Len(d) - 1
      /\ \A i \in 1..(Len(d) - 1) : b[i] = d[i + 1]
  <2>1. /\ b \in Seq(S) /\ Len(b) = IF 2 <= Len(d) THEN Len(d) - 2 + 1 ELSE 0
        /\ \A i \in 1..(Len(d) - 2 + 1) : b[i] = d[2 + i - 1]
    BY <1>1, SubSeqProperties
  <2> HIDE DEF b
  <2>2. Len(b) = Len(d) - 1
    <3>1. PICK n \in Nat : n = Len(d) /\ n >= 1
      BY <1>1
    <3>2. CASE n = 1
      BY <2>1, <3>1, <3>2
    <3>3. CASE n # 1
      <4>1. 2 <= n /\ n - 2 + 1 = n - 1
        BY <3>1, <3>3
      <4> QED
        BY <2>1, <3>1, <4>1
    <3> QED
      BY <3>2, <3>3
  <2>3. ASSUME NEW i \in 1..(Len(d) - 1)
        PROVE  b[i] = d[i + 1]
    <3>1. i \in 1..(Len(d) - 2 + 1) /\ 2 + i - 1 = i + 1
      BY <1>1
    <3> QED
      BY <2>1, <3>1
  <2> QED
    BY <2>1, <2>2, <2>3
<1>6. a \o b = b
  BY <1>4, <1>5, ConcatEmptySeq
<1> QED
  BY <1>3, <1>5, <1>6

\* Events join the queue at its end.
LEMMA Joined ==
  ASSUME NEW S, NEW d \in Seq(S), NEW e \in S, NEW f \in S
  PROVE  /\ Len(d) \in Nat
         /\ Len(d \o <<e>>) = Len(d) + 1 /\ (d \o <<e>>)[Len(d) + 1] = e
         /\ \A i \in 1..Len(d) : (d \o <<e>>)[i] = d[i]
         /\ Len(d \o <<e, f>>) = Len(d) + 2
         /\ (d \o <<e, f>>)[Len(d) + 1] = e /\ (d \o <<e, f>>)[Len(d) + 2] = f
         /\ \A i \in 1..Len(d) : (d \o <<e, f>>)[i] = d[i]
<1>1. Len(d) \in Nat
  BY LenProperties
<1>2. /\ <<e>> \in Seq(S) /\ Len(<<e>>) = 1 /\ <<e>>[1] = e
      /\ <<e, f>> \in Seq(S) /\ Len(<<e, f>>) = 2 /\ <<e, f>>[1] = e /\ <<e, f>>[2] = f
  OBVIOUS
<1>3. ASSUME NEW t \in Seq(S)
      PROVE  /\ Len(d \o t) = Len(d) + Len(t)
             /\ \A i \in 1..(Len(d) + Len(t)) : (d \o t)[i] = IF i <= Len(d) THEN d[i] ELSE t[i - Len(d)]
  BY ConcatProperties
<1>4. /\ Len(d \o <<e>>) = Len(d) + 1
      /\ \A i \in 1..(Len(d) + 1) : (d \o <<e>>)[i] = IF i <= Len(d) THEN d[i] ELSE <<e>>[i - Len(d)]
  BY <1>2, <1>3
<1>5. /\ Len(d \o <<e, f>>) = Len(d) + 2
      /\ \A i \in 1..(Len(d) + 2) : (d \o <<e, f>>)[i] = IF i <= Len(d) THEN d[i] ELSE <<e, f>>[i - Len(d)]
  BY <1>2, <1>3
<1> DEFINE x == d \o <<e>>
           y == d \o <<e, f>>
<1> HIDE DEF x, y
<1>6. /\ Len(x) = Len(d) + 1 /\ x[Len(d) + 1] = <<e>>[1]
      /\ \A i \in 1..Len(d) : x[i] = d[i]
  <2>1. /\ Len(d) + 1 \in 1..(Len(d) + 1) /\ ~ (Len(d) + 1 <= Len(d)) /\ (Len(d) + 1) - Len(d) = 1
        /\ \A i \in 1..Len(d) : i \in 1..(Len(d) + 1) /\ i <= Len(d)
    BY <1>1
  <2> QED
    BY <1>4, <2>1 DEF x
<1>7. /\ Len(y) = Len(d) + 2 /\ y[Len(d) + 1] = <<e, f>>[1] /\ y[Len(d) + 2] = <<e, f>>[2]
      /\ \A i \in 1..Len(d) : y[i] = d[i]
  <2>1. /\ Len(d) + 1 \in 1..(Len(d) + 2) /\ ~ (Len(d) + 1 <= Len(d)) /\ (Len(d) + 1) - Len(d) = 1
        /\ Len(d) + 2 \in 1..(Len(d) + 2) /\ ~ (Len(d) + 2 <= Len(d)) /\ (Len(d) + 2) - Len(d) = 2
        /\ \A i \in 1..Len(d) : i \in 1..(Len(d) + 2) /\ i <= Len(d)
    BY <1>1
  <2> QED
    BY <1>5, <2>1 DEF y
<1> QED
  BY <1>1, <1>2, <1>6, <1>7 DEF x, y

\* Events of a subscription join the queue, and the last one tells how it is now: the row will
\* be told of it, and of every other subscription it was to be told of before.
LEMMA Grows ==
  ASSUME Shape, LastSays, NEW s \in Subs, due' \in Seq(Event),
         Len(due) < Len(due'), \A i \in 1..Len(due) : due'[i] = due[i],
         \A i \in DOMAIN due' : i > Len(due) => EventForm(due'[i]) /\ due'[i].sub = s,
         NEW e \in Event, e = due'[Len(due')], e.type \in Telling, Says(e)',
         \A t \in Subs : t # s => stripe'[t] = stripe[t]
  PROVE  /\ LastSays'
         /\ due # <<>> => due' # <<>> /\ due'[1] = due[1]
         /\ \A r, t : Waits(r, t) => Waits(r, t)'
         /\ \A r : r.ev = NoEvent \/ due # <<>> => Waits(r, s)'
<1> DEFINE n == Len(due)
           m == Len(due')
<1>1. /\ n \in Nat /\ m \in Nat /\ DOMAIN due = 1..n /\ DOMAIN due' = 1..m /\ n < m
      /\ \A i \in 1..n : due[i] \in Event
      /\ due # <<>> => n >= 1
  BY EmptySeq, LenProperties DEF Shape
<1>2. m \in DOMAIN due' /\ due'[m] = e /\ e.sub = s /\ EventForm(e) /\ Tells(e, s)
  BY <1>1 DEF Tells
<1>3. \A i \in DOMAIN due' : EventForm(due'[i])
  BY <1>1 DEF LastSays
<1>4. ASSUME NEW i \in DOMAIN due'
      PROVE  \/ due'[i].type \notin Telling
             \/ \E j \in DOMAIN due' : i < j /\ Tells(due'[j], due'[i].sub)
             \/ Says(due[i])'
  <2>1. CASE i > n
    <3>1. i = m \/ i < m
      BY <1>1
    <3> QED
      BY <1>2, <2>1, <3>1
  <2>2. CASE i <= n
    <3>1. i \in DOMAIN due /\ due'[i] = due[i] /\ due[i].sub \in Subs
      BY <1>1, <2>2 DEF Event
    <3>2. CASE due[i].sub = s
      BY <1>1, <1>2, <2>2, <3>1, <3>2
    <3>3. CASE due[i].type \in Telling /\ due[i].sub # s
      <4>1. CASE \E j \in DOMAIN due : i < j /\ Tells(due[j], due[i].sub)
        BY <1>1, <3>1, <4>1
      <4>2. CASE Says(due[i])
        BY <3>1, <3>3, <4>2 DEF Says
      <4> QED
        BY <3>1, <3>3, <4>1, <4>2 DEF LastSays
    <3> QED
      BY <3>1, <3>2, <3>3
  <2> QED
    BY <1>1, <2>1, <2>2
<1>5. LastSays'
  BY <1>3, <1>4 DEF LastSays, Tells, EventForm
<1>6. due # <<>> => due' # <<>> /\ due'[1] = due[1]
  <2>1. due' # <<>>
    BY <1>1
  <2> QED
    BY <1>1, <2>1
<1>7. ASSUME NEW r, NEW t, Waits(r, t)
      PROVE  Waits(r, t)'
  BY <1>1, <1>7 DEF Waits, Tells, Unheeded
<1>8. ASSUME NEW r, r.ev = NoEvent \/ due # <<>>
      PROVE  Waits(r, s)'
  <2>1. m = 1 => Unheeded(r)
    <3>1. m = 1 => n = 0
      BY <1>1
    <3> QED
      BY <1>1, <1>8, <3>1 DEF Unheeded
  <2> QED
    BY <1>2, <2>1 DEF Waits, Tells, Unheeded
<1> QED
  BY <1>5, <1>6, <1>7, <1>8

-----------------------------------------------------------------------------
(* What a request knows of the queue. *)

LEMMA NoEventIsNone ==
  NoEvent \notin Event
<1> SUFFICES ASSUME NoEvent \in Event PROVE FALSE
  OBVIOUS
<1>1. NoEvent.type \in Types
  BY DEF Event
<1>2. NoEvent.type = "none"
  BY DEF NoEvent
<1> QED
  BY <1>1, <1>2 DEF Types

\* The event of a request.
LEMMA Handles ==
  ASSUME Shape, LastSays, NEW r, Serves(r), r.ev # NoEvent
  PROVE  /\ 1 \in DOMAIN due /\ r.ev = due[1] /\ r.ev \in Event /\ r.sub = r.ev.sub
         /\ r.ev.type \in Types /\ EventForm(r.ev)
         /\ r.at \in {r.ev.type, "allocate", "invoice", "credit", "ask", "write", "answer"}
<1>1. 1 \in DOMAIN due /\ due[1] \in Event
  BY EmptySeq, LenProperties DEF Shape, Serves
<1>2. r.ev \in Event
  BY <1>1 DEF Serves
<1>3. r.ev.type \in Types
  BY <1>2 DEF Event
<1> QED
  BY <1>1, <1>2, <1>3 DEF Serves, LastSays

\* A request goes on, and the row will still be told of s, unless the event of the request has
\* just told it.
LEMMA WaitsOn ==
  ASSUME Shape, LastSays, NEW r, NEW x, NEW s, Serves(r), Waits(r, s), x.ev = r.ev,
         r.at \notin Telling \/ r.ev.sub # s
  PROVE  Waits(x, s)
<1>1. PICK i \in DOMAIN due : Tells(due[i], s) /\ (i = 1 => Unheeded(r))
  BY DEF Waits
<1>2. i = 1 => Unheeded(x)
  <2>1. CASE r.ev = NoEvent
    BY <2>1 DEF Unheeded
  <2>2. CASE r.ev # NoEvent /\ r.at = r.ev.type
    BY <1>1, <2>2, Handles DEF Tells
  <2>3. CASE r.ev # NoEvent /\ r.at # r.ev.type
    BY <1>1, <2>3 DEF Unheeded
  <2> QED
    BY <2>1, <2>2, <2>3
<1> QED
  BY <1>1, <1>2 DEF Waits

\* The event in hand says how its subscription is, or a later one of it does.
LEMMA HeadSays ==
  ASSUME Shape, LastSays, NEW r, Serves(r), r.ev # NoEvent, r.ev.type \in Telling
  PROVE  Says(r.ev) \/ \A x : Waits(x, r.ev.sub)
<1>1. 1 \in DOMAIN due /\ r.ev = due[1] /\ DOMAIN due \subseteq Nat
  BY Handles, LenProperties DEF Shape
<1>2. CASE \E j \in DOMAIN due : 1 < j /\ Tells(due[j], r.ev.sub)
  BY <1>1, <1>2 DEF Waits
<1> QED
  BY <1>1, <1>2 DEF LastSays

-----------------------------------------------------------------------------
(* Each action keeps the row true. *)

\* What is to be shown when there is one request, r, and it becomes x.
LEMMA RowGoes ==
  ASSUME OneRequest, Shape, NEW w \in Workers, NEW x, req' = [req EXCEPT ![w] = x],
         LastSays', Bought', Serves(x)', Knows(x)', RowTrue(x)'
  PROVE  AgreeInv'
<1>1. \A v \in Workers : req'[v] = x
  BY DEF OneRequest, Shape
<1>2. \A v \in Workers : Serves(req[v])' /\ Knows(req[v])' /\ RowTrue(req[v])'
  <2> SUFFICES ASSUME NEW v \in Workers
               PROVE  Serves(req[v])' /\ Knows(req[v])' /\ RowTrue(req[v])'
    OBVIOUS
  <2>1. req'[v] = x
    BY <1>1
  <2>2. Serves(req[v])'
    BY <2>1 DEF Serves
  <2>3. Knows(req[v])'
    BY <2>1 DEF Knows, Waits, Unheeded
  <2>4. RowTrue(req[v])'
    BY <2>1 DEF RowTrue, Waits, Unheeded
  <2> QED
    BY <2>2, <2>3, <2>4
<1> QED
  BY <1>2 DEF AgreeInv

\* The same, of a step that changes nothing else.
LEMMA RowReads ==
  ASSUME OneRequest, Shape, AgreeInv, NEW w \in Workers, NEW x, req' = [req EXCEPT ![w] = x],
         UNCHANGED <<stripe, due, user>>, NoUpdates => updates' = updates,
         Serves(x), Knows(x), RowTrue(x)
  PROVE  AgreeInv'
<1>1. LastSays' /\ Bought'
  BY DEF AgreeInv, LastSays, EventForm, Tells, Says, Bought
<1>2. \A t : Waits(x, t)' <=> Waits(x, t)
  BY DEF Waits, Tells, Unheeded
<1>3. Serves(x)'
  BY DEF Serves
<1>4. Knows(x)'
  BY <1>2 DEF Knows
<1>5. RowTrue(x)'
  BY <1>2 DEF RowTrue, Agrees, Live
<1> QED
  BY <1>1, <1>3, <1>4, <1>5, RowGoes

\* The request as it is.
LEMMA RowNow ==
  ASSUME Shape, PaidInv, AgreeInv, NEW w \in Workers, NEW r, r = req[w]
  PROVE  /\ LastSays /\ Bought /\ Serves(r) /\ Knows(r) /\ RowTrue(r)
         /\ r \in Request /\ Stands(r) /\ user \in Owner
         /\ r.ev = NoEvent \/ (r.ev # NoEvent /\ r.ev.type \in Types)
<1>1. /\ LastSays /\ Bought /\ Serves(r) /\ Knows(r) /\ RowTrue(r)
      /\ r \in Request /\ Stands(r) /\ user \in Owner
  BY DEF AgreeInv, Shape, PaidInv
<1> QED
  BY <1>1, Handles

\* How a request ends.
LEMMA RowEnds ==
  ASSUME Shape, NEW w \in Workers, NEW r, r = req[w], End(w)
  PROVE  \E x : /\ req' = [req EXCEPT ![w] = x] /\ x.ev = r.ev
                /\ \/ x.at = "idle" /\ x.ev = NoEvent
                   \/ x.at = "answer" /\ x.ev # NoEvent /\ x.sub = r.sub
<1>1. req[w] \in Request
  BY DEF Shape
<1>2. Idle.at = "idle" /\ Idle.ev = NoEvent
  BY DEF Idle
<1> DEFINE a == [r EXCEPT !.at = "answer"]
<1>3. a.at = "answer" /\ a.ev = r.ev /\ a.sub = r.sub
  BY <1>1 DEF Request
<1>4. req' = [req EXCEPT ![w] = IF r.ev = NoEvent THEN Idle ELSE a]
  BY DEF End
<1> HIDE DEF a
<1> QED
  BY <1>2, <1>3, <1>4

\* A step after which the request has nothing more to say of the row.
LEMMA Passes ==
  ASSUME SubscriptionsAssumption, OneRequest, Shape, PaidInv, AgreeInv,
         NEW w \in Workers, NEW r, r = req[w], r.at \notin {"write", "completed", "updated", "deleted"},
         NEW x, req' = [req EXCEPT ![w] = x], x.ev = r.ev,
         \/ x.at = "idle" /\ x.ev = NoEvent
         \/ x.at = "answer" /\ x.ev # NoEvent /\ x.sub = r.sub
         \/ x.at \in {"allocate", "invoice", "credit"} /\ x.sub = r.sub,
         UNCHANGED <<stripe, due, user, updates>>
  PROVE  AgreeInv'
<1>1. /\ LastSays /\ Bought /\ Serves(r) /\ Knows(r) /\ RowTrue(r)
      /\ r \in Request /\ Stands(r) /\ user \in Owner
      /\ r.ev = NoEvent \/ (r.ev # NoEvent /\ r.ev.type \in Types)
  BY RowNow
<1>2. Serves(x)
  BY <1>1 DEF Serves, Types
<1>3. Knows(x)
  BY DEF Knows
<1>4. RowTrue(x)
  <2>1. Waits(r, user.sub) => Waits(x, user.sub)
    BY <1>1, WaitsOn DEF Telling
  <2> QED
    BY <1>1, <2>1 DEF RowTrue
<1> QED
  BY <1>2, <1>3, <1>4, RowReads

\* A request that ends with what it was told: the event in hand has told the row, or is not
\* about the subscription that the row names.
LEMMA RowHeeds ==
  ASSUME SubscriptionsAssumption, OneRequest, Shape, PaidInv, AgreeInv,
         NEW w \in Workers, NEW r, r = req[w], r.at \in Telling,
         End(w), UNCHANGED <<stripe, due, user, updates>>,
         \/ user.sub # r.sub
         \/ Says(r.ev) => Agrees(user.status, user.plan)
  PROVE  AgreeInv'
<1>1. /\ LastSays /\ Bought /\ Serves(r) /\ Knows(r) /\ RowTrue(r)
      /\ r \in Request /\ Stands(r) /\ user \in Owner
      /\ r.ev = NoEvent \/ (r.ev # NoEvent /\ r.ev.type \in Types)
  BY RowNow
<1>2. PICK x : /\ req' = [req EXCEPT ![w] = x] /\ x.ev = r.ev
               /\ \/ x.at = "idle" /\ x.ev = NoEvent
                  \/ x.at = "answer" /\ x.ev # NoEvent /\ x.sub = r.sub
  BY RowEnds
<1>3. r.ev # NoEvent /\ r.ev.type = r.at /\ r.sub = r.ev.sub
  BY <1>1 DEF Serves, Telling, Types
<1>4. Serves(x)
  BY <1>1, <1>2 DEF Serves, Types
<1>5. Knows(x)
  BY <1>2 DEF Knows
<1>6. RowTrue(x)
  <2>1. CASE user.sub # r.sub
    <3>1. Waits(r, user.sub) => Waits(x, user.sub)
      BY <1>1, <1>2, <1>3, <2>1, WaitsOn
    <3> QED
      BY <1>1, <1>2, <3>1 DEF RowTrue, Telling
  <2>2. CASE user.sub = r.sub
    BY <1>1, <1>2, <1>3, <2>2, HeadSays DEF RowTrue
  <2> QED
    BY <2>1, <2>2
<1> QED
  BY <1>2, <1>4, <1>5, <1>6, RowReads

\* A request that found what to write to the row of its subscription.
LEMMA RowFinds ==
  ASSUME SubscriptionsAssumption, OneRequest, Shape, PaidInv, AgreeInv,
         NEW w \in Workers, NEW r, r = req[w], NEW d,
         req' = [req EXCEPT ![w].at = "write", ![w].write = d], r.at # "write",
         UNCHANGED <<stripe, due, user, updates>>, r.ev # NoEvent, user.sub = r.sub,
         \/ r.at = "ask" /\ Waits(r, r.sub)
         \/ /\ r.at \in Telling
            /\ Says(r.ev) => Agrees(After(user.status, d.status), After(user.plan, d.plan))
  PROVE  AgreeInv'
<1>1. /\ LastSays /\ Bought /\ Serves(r) /\ Knows(r) /\ RowTrue(r)
      /\ r \in Request /\ Stands(r) /\ user \in Owner
      /\ r.ev = NoEvent \/ (r.ev # NoEvent /\ r.ev.type \in Types)
  BY RowNow
<1> DEFINE x == [r EXCEPT !.at = "write", !.write = d]
<1>2. /\ req' = [req EXCEPT ![w] = x] /\ x.at = "write" /\ x.write = d /\ x.ev = r.ev
      /\ x.sub = r.sub
  BY <1>1 DEF Request, Shape
<1> HIDE DEF x
<1>3. Serves(x)
  BY <1>1, <1>2 DEF Serves, Types
<1>4. CASE r.at = "ask" /\ Waits(r, r.sub)
  <2>1. Waits(x, r.sub)
    BY <1>1, <1>2, <1>4, WaitsOn DEF Telling
  <2> QED
    BY <1>2, <1>3, <2>1, RowReads DEF Knows, RowTrue
<1>5. CASE /\ r.at \in Telling
           /\ Says(r.ev) => Agrees(After(user.status, d.status), After(user.plan, d.plan))
  <2>1. r.ev.type = r.at /\ r.sub = r.ev.sub
    BY <1>1, <1>5 DEF Serves, Telling
  <2>2. Says(r.ev) \/ Waits(x, r.sub)
    BY <1>1, <1>5, <2>1, HeadSays
  <2>3. Knows(x)
    BY <1>2, <1>5, <2>1 DEF Knows
  <2>4. RowTrue(x)
    BY <1>2, <1>5, <2>2 DEF RowTrue
  <2> QED
    BY <1>2, <1>3, <2>3, <2>4, RowReads
<1> QED
  BY <1>4, <1>5

\* A request writes the row.
LEMMA RowWritten ==
  ASSUME SubscriptionsAssumption, OneRequest, Shape, PaidInv, AgreeInv,
         NEW w \in Workers, NEW r, r = req[w],
         NEW x, req' = [req EXCEPT ![w] = x], x.ev = r.ev,
         \/ x.at = "idle" /\ x.ev = NoEvent
         \/ x.at = "answer" /\ x.ev # NoEvent /\ x.sub = r.sub
         \/ x.at = "allocate" /\ x.sub = r.sub,
         UNCHANGED <<stripe, due, updates>>, user'.sub = r.sub \/ user'.sub = user.sub,
         \/ Waits(x, user'.sub)
         \/ \E st, p : Agrees(st, p)' /\ user'.status = st /\ user'.plan = p,
         OneSubscription /\ user.sub # "none" => user'.sub = user.sub
  PROVE  AgreeInv'
<1>1. /\ LastSays /\ Bought /\ Serves(r) /\ Knows(r) /\ RowTrue(r)
      /\ r \in Request /\ Stands(r) /\ user \in Owner
      /\ r.ev = NoEvent \/ (r.ev # NoEvent /\ r.ev.type \in Types)
  BY RowNow
<1>2. LastSays'
  BY <1>1 DEF LastSays, EventForm, Tells, Says
<1>3. Bought'
  BY <1>1, Bounds DEF Bought
<1>4. Serves(x)'
  BY <1>1 DEF Serves, Types
<1>5. Knows(x)'
  BY DEF Knows
<1>6. \A t : Waits(x, t)' <=> Waits(x, t)
  BY DEF Waits, Tells, Unheeded
<1>7. RowTrue(x)'
  BY <1>6 DEF RowTrue
<1> QED
  BY <1>2, <1>3, <1>4, <1>5, <1>7, RowGoes

LEMMA RowActivates ==
  ASSUME SubscriptionsAssumption, OneRequest, Shape, PaidInv, AgreeInv, NEW w \in Workers,
         Activate(w) \/ AdoptPlan(w)
  PROVE  AgreeInv'
<1>0. PICK r : r = req[w]
  OBVIOUS
<1>1. /\ LastSays /\ Bought /\ Serves(r) /\ Knows(r) /\ RowTrue(r)
      /\ r \in Request /\ Stands(r) /\ user \in Owner
      /\ r.ev = NoEvent \/ (r.ev # NoEvent /\ r.ev.type \in Types)
  BY <1>0, RowNow
<1>2. /\ user'.status = "active" /\ user'.plan = r.plan /\ user'.sub = r.sub
      /\ UNCHANGED <<stripe, due, updates>>
  BY <1>0 DEF Activate, AdoptPlan, bounds
<1>3. r.sub \in Subs
  BY <1>0, <1>1 DEF Activate, AdoptPlan, Stands, Billed
<1>4. OneSubscription /\ user.sub # "none" => user'.sub = user.sub
  BY <1>1, <1>2, <1>3 DEF OneSubscription, Owner
<1>5. CASE Activate(w)
  <2> DEFINE x == [r EXCEPT !.at = "allocate", !.inv = 0]
  <2>1. req' = [req EXCEPT ![w] = x] /\ x.at = "allocate" /\ x.sub = r.sub /\ x.ev = r.ev
    BY <1>0, <1>1, <1>5 DEF Request, Activate, Shape
  <2> HIDE DEF x
  <2>2. \/ Waits(x, r.sub)
        \/ stripe[r.sub].status = "active" /\ stripe[r.sub].plan = r.plan
    <3>1. CASE r.at = "completed"
      <4>1. r.ev # NoEvent /\ r.ev.type = "completed" /\ r.sub = r.ev.sub /\ r.plan = r.ev.plan
        BY <1>1, <3>1 DEF Serves, Types
      <4>2. r.ev.status = "active"
        BY <1>1, <4>1, Handles DEF EventForm
      <4> QED
        BY <1>1, <4>1, <4>2, HeadSays DEF Says, Telling
    <3>2. CASE r.at = "activate"
      <4>1. Waits(r, r.sub) => Waits(x, r.sub)
        BY <1>1, <2>1, <3>2, WaitsOn DEF Telling
      <4> QED
        BY <1>1, <3>2, <4>1 DEF Knows
    <3> QED
      BY <1>0, <1>5, <3>1, <3>2 DEF Activate
  <2>3. Waits(x, user'.sub) \/ Agrees("active", r.plan)'
    BY <1>2, <2>2 DEF Agrees, LocalWord
  <2> QED
    BY <1>0, <1>2, <1>4, <2>1, <2>3, RowWritten
<1>6. CASE AdoptPlan(w)
  <2>1. PICK x : /\ req' = [req EXCEPT ![w] = x] /\ x.ev = r.ev
                 /\ \/ x.at = "idle" /\ x.ev = NoEvent
                    \/ x.at = "answer" /\ x.ev # NoEvent /\ x.sub = r.sub
    BY <1>0, <1>6, RowEnds DEF AdoptPlan
  <2>2. Waits(r, r.sub) /\ r.at = "adopt"
    BY <1>0, <1>1, <1>6 DEF AdoptPlan, Knows
  <2>3. Waits(x, user'.sub)
    BY <1>1, <1>2, <2>1, <2>2, WaitsOn DEF Telling
  <2> QED
    BY <1>0, <1>2, <1>4, <2>1, <2>3, RowWritten
<1> QED
  BY <1>5, <1>6

LEMMA RowUpdates ==
  ASSUME SubscriptionsAssumption, OneRequest, Shape, PaidInv, AgreeInv, NEW w \in Workers,
         WriteUser(w)
  PROVE  AgreeInv'
<1>0. PICK r : r = req[w]
  OBVIOUS
<1>1. /\ LastSays /\ Bought /\ Serves(r) /\ Knows(r) /\ RowTrue(r)
      /\ r \in Request /\ Stands(r) /\ user \in Owner
      /\ r.ev = NoEvent \/ (r.ev # NoEvent /\ r.ev.type \in Types)
  BY <1>0, RowNow
<1>2. /\ user'.status = After(user.status, r.write.status)
      /\ user'.plan = After(user.plan, r.write.plan) /\ user'.sub = user.sub
      /\ UNCHANGED <<stripe, due, updates>> /\ r.at = "write"
  BY <1>0, <1>1 DEF WriteUser, bounds, After, Owner
<1>3. PICK x : /\ req' = [req EXCEPT ![w] = x] /\ x.ev = r.ev
               /\ \/ x.at = "idle" /\ x.ev = NoEvent
                  \/ x.at = "answer" /\ x.ev # NoEvent /\ x.sub = r.sub
  BY <1>0, RowEnds DEF WriteUser
<1>4. user.sub = r.sub /\ r.sub \in Subs
  BY <1>1, <1>2 DEF Knows, Stands, Billed
<1>5. PICK st, p : st = user'.status /\ p = user'.plan
  OBVIOUS
<1>6. Waits(x, user'.sub) \/ Agrees(st, p)'
  <2>1. Waits(r, user.sub) => Waits(x, user.sub)
    BY <1>1, <1>2, <1>3, WaitsOn DEF Telling
  <2>2. Waits(r, user.sub) \/ Agrees(st, p)
    BY <1>1, <1>2, <1>4, <1>5, Bounds DEF RowTrue
  <2> QED
    BY <1>2, <2>1, <2>2 DEF Agrees, Live
<1> QED
  BY <1>0, <1>2, <1>3, <1>5, <1>6, RowWritten

\* The steps that only look.
LEMMA RowChecks ==
  ASSUME SubscriptionsAssumption, OneRequest, Shape, PaidInv, AgreeInv, NEW w \in Workers,
         \/ CheckActive(w) \/ AllocatedThisMonth(w) \/ CheckInvoice(w) \/ Credit(w)
         \/ FindRenewal(w)
  PROVE  AgreeInv'
<1>0. PICK r : r = req[w]
  OBVIOUS
<1>1. r \in Request
  BY <1>0 DEF Shape
<1>2. UNCHANGED <<stripe, due, user, updates>> /\ r.at \in {"allocate", "invoice", "credit", "paid"}
  BY <1>0 DEF CheckActive, AllocatedThisMonth, CheckInvoice, Credit, FindRenewal, bounds
<1>3. CASE End(w)
  BY <1>0, <1>2, <1>3, RowEnds, Passes
<1>4. CASE \E at \in {"invoice", "credit"} : Step(w, at)
  <2>1. PICK at \in {"invoice", "credit"} : Step(w, at)
    BY <1>4
  <2> DEFINE x == [r EXCEPT !.at = at]
  <2>2. req' = [req EXCEPT ![w] = x] /\ x.at = at /\ x.ev = r.ev /\ x.sub = r.sub
    BY <1>0, <1>1, <2>1 DEF Step, Request
  <2> HIDE DEF x
  <2> QED
    BY <1>0, <1>2, <2>2, Passes
<1>5. CASE req' = [req EXCEPT ![w].at = "allocate", ![w].plan = user.plan]
  <2> DEFINE x == [r EXCEPT !.at = "allocate", !.plan = user.plan]
  <2>1. req' = [req EXCEPT ![w] = x] /\ x.at = "allocate" /\ x.ev = r.ev /\ x.sub = r.sub
    BY <1>0, <1>1, <1>5 DEF Request, Shape
  <2> HIDE DEF x
  <2> QED
    BY <1>0, <1>2, <2>1, Passes
<1> QED
  BY <1>3, <1>4, <1>5 DEF CheckActive, AllocatedThisMonth, CheckInvoice, Credit, FindRenewal

\* A failed invoice: the row, and then Stripe.
LEMMA RowFails ==
  ASSUME SubscriptionsAssumption, OneRequest, Shape, PaidInv, AgreeInv, NEW w \in Workers,
         FindFailed(w) \/ AskStripe(w)
  PROVE  AgreeInv'
<1>0. PICK r : r = req[w]
  OBVIOUS
<1>1. /\ LastSays /\ Bought /\ Serves(r) /\ Knows(r) /\ RowTrue(r)
      /\ r \in Request /\ Stands(r) /\ user \in Owner
      /\ r.ev = NoEvent \/ (r.ev # NoEvent /\ r.ev.type \in Types)
  BY <1>0, RowNow
<1>2. UNCHANGED <<stripe, due, user, updates>> /\ r.at \in {"failed", "ask"}
  BY <1>0 DEF FindFailed, AskStripe, bounds
<1>3. r.ev # NoEvent /\ r.ev.type = "failed"
  BY <1>1, <1>2 DEF Serves, Knows, Types
<1>4. CASE End(w)
  BY <1>0, <1>2, <1>4, RowEnds, Passes
<1>5. CASE FindFailed(w) /\ ~ End(w)
  <2> DEFINE y == [r EXCEPT !.at = "ask"]
             g == [req EXCEPT ![w] = y]
             x == [y EXCEPT !.write = [@ EXCEPT !.status = user.status]]
  <2>1. req' = [req EXCEPT ![w] = x]
    <3>1. req' = [g EXCEPT ![w] = [g[w] EXCEPT !.write = [@ EXCEPT !.status = user.status]]]
      BY <1>0, <1>5 DEF FindFailed
    <3> HIDE DEF y
    <3>2. g[w] = y /\ \A z : [g EXCEPT ![w] = z] = [req EXCEPT ![w] = z]
      BY DEF Shape
    <3> QED
      BY <3>1, <3>2
  <2>2. r.write = NoWrite /\ r.at = "failed" /\ user.sub = r.sub
    BY <1>0, <1>1, <1>5 DEF FindFailed, Serves
  <2>3. /\ x.at = "ask" /\ x.ev = r.ev /\ x.sub = r.sub
        /\ x.write = [status |-> user.status, plan |-> "keep"]
    BY <1>1, <2>2 DEF Request, NoWrite
  <2> HIDE DEF x
  <2>4. Serves(x)
    BY <1>1, <1>3, <2>3 DEF Serves, Types
  <2>5. Knows(x)
    BY <1>3, <2>2, <2>3 DEF Knows
  <2>6. RowTrue(x)
    <3>1. Waits(r, user.sub) => Waits(x, user.sub)
      BY <1>1, <2>2, <2>3, WaitsOn DEF Telling
    <3> QED
      BY <1>1, <2>2, <2>3, <3>1 DEF RowTrue
  <2> QED
    BY <1>2, <2>1, <2>4, <2>5, <2>6, RowReads
<1>6. CASE AskStripe(w) /\ ~ End(w)
  <2> DEFINE new == CASE stripe[r.sub].status = "past_due"  -> "inactive"
                      [] stripe[r.sub].status = "cancelled" -> "cancelled"
                      [] OTHER -> r.write.status
             d == [NoWrite EXCEPT !.status = IF new = r.write.status THEN "keep" ELSE new]
  <2>1. r.at = "ask" /\ user.sub = r.sub /\ r.write.status = user.status /\ r.sub \in Subs
    BY <1>0, <1>1, <1>6 DEF AskStripe, Knows, Stands, Billed
  <2>2. Plan(w, d)
    BY <1>0, <1>6 DEF AskStripe
  <2>3. d # NoWrite
    BY <1>6, <2>2 DEF Plan
  <2>4. new # r.write.status
    BY <2>3 DEF NoWrite
  <2>5. stripe[r.sub].status = "past_due" /\ new = "inactive"
    <3>1. stripe[r.sub].status # "cancelled"
      BY <2>1 DEF Shape, StripeRecord
    <3> QED
      BY <2>4, <3>1
  <2>6. req' = [req EXCEPT ![w].at = "write", ![w].write = d]
    BY <2>2, <2>3 DEF Plan
  <2> HIDE DEF d
  <2>7. ~ Agrees(user.status, user.plan)
    BY <2>1, <2>4, <2>5 DEF Agrees, LocalWord
  <2>8. Waits(r, r.sub)
    BY <1>1, <2>1, <2>7, Bounds DEF RowTrue
  <2> QED
    BY <1>0, <1>2, <1>3, <2>1, <2>6, <2>8, RowFinds
<1> QED
  BY <1>2, <1>4, <1>5, <1>6

\* customer.subscription.deleted and customer.subscription.updated: the snapshot is heeded.
LEMMA RowHears ==
  ASSUME SubscriptionsAssumption, OneRequest, Shape, PaidInv, AgreeInv, NEW w \in Workers,
         FindDeleted(w) \/ FindUpdated(w)
  PROVE  AgreeInv'
<1>0. PICK r : r = req[w]
  OBVIOUS
<1>1. /\ LastSays /\ Bought /\ Serves(r) /\ Knows(r) /\ RowTrue(r)
      /\ r \in Request /\ Stands(r) /\ user \in Owner
      /\ r.ev = NoEvent \/ (r.ev # NoEvent /\ r.ev.type \in Types)
  BY <1>0, RowNow
<1>2. UNCHANGED <<stripe, due, user, updates>> /\ r.at \in {"deleted", "updated"}
  BY <1>0 DEF FindDeleted, FindUpdated, bounds
<1>3. /\ r.ev # NoEvent /\ r.ev.type = r.at /\ r.sub = r.ev.sub
      /\ r.at = "updated" => r.plan = r.ev.plan
  BY <1>1, <1>2 DEF Serves, Types
<1>4. /\ r.ev \in Event /\ (r.at = "deleted" <=> r.ev.status = "canceled")
  BY <1>1, <1>2, <1>3, Handles DEF EventForm
<1>5. CASE user.sub # r.sub
  <2>1. Plan(w, NoWrite)
    BY <1>0, <1>5 DEF FindDeleted, FindUpdated
  <2>2. End(w)
    BY <2>1 DEF Plan
  <2> QED
    BY <1>0, <1>2, <1>5, <2>2, RowHeeds DEF Telling
<1>6. CASE user.sub = r.sub /\ FindDeleted(w)
  <2> DEFINE d == [NoWrite EXCEPT !.status = "cancelled"]
  <2>1. d.status = "cancelled" /\ d.plan = "keep" /\ d # NoWrite /\ r.at = "deleted"
    BY <1>0, <1>6 DEF NoWrite, FindDeleted
  <2>2. Plan(w, d)
    BY <1>0, <1>6 DEF FindDeleted
  <2> HIDE DEF d
  <2>3. req' = [req EXCEPT ![w].at = "write", ![w].write = d]
    BY <2>1, <2>2 DEF Plan
  <2>4. Says(r.ev) => Agrees(After(user.status, d.status), After(user.plan, d.plan))
    BY <1>3, <1>4, <1>6, <2>1 DEF Says, Agrees, After, LocalWord, Live
  <2> QED
    BY <1>0, <1>2, <1>3, <1>6, <2>1, <2>3, <2>4, RowFinds DEF Telling
<1>7. CASE user.sub = r.sub /\ FindUpdated(w)
  <2> DEFINE st == LocalStatus(r.ev.status)
             d == [status |-> IF st = user.status THEN "keep" ELSE st,
                   plan |-> IF r.plan = user.plan THEN "keep" ELSE r.plan]
  <2>1. Plan(w, d) /\ r.at = "updated"
    BY <1>0, <1>7 DEF FindUpdated
  <2>2. /\ After(user.status, d.status) = st
        /\ After(user.plan, d.plan) = r.plan
    <3>1. st # "keep" /\ user.plan # "keep" /\ r.plan # "keep"
      BY <1>1 DEF LocalStatus, SubscriptionsAssumption, Owner, Request
    <3> HIDE DEF st
    <3> QED
      BY <3>1 DEF After
  <2>3. Says(r.ev) => Agrees(st, r.plan)
    BY <1>3, <1>4, <1>7, <2>1 DEF Says, Agrees, LocalWord, LocalStatus, Event
  <2>4. CASE d = NoWrite
    <3>1. End(w)
      BY <2>1, <2>4 DEF Plan
    <3>2. d.status = "keep" /\ d.plan = "keep"
      BY <2>4 DEF NoWrite
    <3> HIDE DEF d, st
    <3>3. st = user.status /\ r.plan = user.plan
      BY <2>2, <3>2 DEF After
    <3> QED
      BY <1>0, <1>2, <2>1, <2>3, <3>1, <3>3, RowHeeds DEF Telling
  <2>5. CASE d # NoWrite
    <3>1. req' = [req EXCEPT ![w].at = "write", ![w].write = d]
      BY <2>1, <2>5 DEF Plan
    <3> HIDE DEF d, st
    <3> QED
      BY <1>0, <1>2, <1>3, <1>7, <2>1, <2>2, <2>3, <3>1, RowFinds DEF Telling
  <2> QED
    BY <2>4, <2>5
<1> QED
  BY <1>5, <1>6, <1>7

\* A session that was paid: the row tells whether it is active here already.
LEMMA RowVerifies ==
  ASSUME SubscriptionsAssumption, OneRequest, Shape, PaidInv, AgreeInv, NEW w \in Workers,
         FindVerified(w)
  PROVE  AgreeInv'
<1>0. PICK r : r = req[w]
  OBVIOUS
<1>1. /\ LastSays /\ Bought /\ Serves(r) /\ Knows(r) /\ RowTrue(r)
      /\ r \in Request /\ Stands(r) /\ user \in Owner
      /\ r.ev = NoEvent \/ (r.ev # NoEvent /\ r.ev.type \in Types)
  BY <1>0, RowNow
<1>2. UNCHANGED <<stripe, due, user, updates>> /\ r.at = "verify"
  BY <1>0 DEF FindVerified, bounds
<1> DEFINE at == IF user.status = "active" /\ user.sub = r.sub THEN "allocate" ELSE "activate"
           x == [r EXCEPT !.at = at]
<1>3. /\ req' = [req EXCEPT ![w] = x] /\ x.at = at /\ x.ev = r.ev /\ x.sub = r.sub
      /\ x.plan = r.plan
  BY <1>0, <1>1 DEF FindVerified, Step, Request
<1> HIDE DEF x
<1>4. CASE user.status = "active" /\ user.sub = r.sub
  BY <1>0, <1>2, <1>3, <1>4, Passes
<1>5. CASE ~ (user.status = "active" /\ user.sub = r.sub)
  <2>1. r.ev = NoEvent
    BY <1>1, <1>2 DEF Serves, Types
  <2>2. x.at = "activate"
    BY <1>3, <1>5
  <2>3. \A s : Waits(r, s) => Waits(x, s)
    BY <1>1, <1>2, <1>3, WaitsOn DEF Telling
  <2>4. Serves(x)
    BY <1>3, <2>1, <2>2 DEF Serves, Types
  <2>5. Waits(r, r.sub) \/ (stripe[r.sub].status = "active" /\ stripe[r.sub].plan = r.plan)
    <3>1. stripe[r.sub].status = "active" \/ Waits(r, r.sub)
      BY <1>1, <1>2 DEF Knows
    <3>2. r.plan = stripe[r.sub].bought /\ r.sub \in Subs
      BY <1>1, <1>2 DEF Knows, Stands, Billed
    <3>3. CASE stripe[r.sub].plan = stripe[r.sub].bought
      BY <3>1, <3>2, <3>3
    <3>4. CASE user.sub = r.sub
      BY <1>1, <1>2, <1>5, <3>1, <3>2, <3>4, Bounds DEF RowTrue, Agrees, LocalWord
    <3> QED
      BY <1>1, <3>2, <3>3, <3>4 DEF Bought
  <2>6. Knows(x)
    BY <1>1, <1>2, <1>3, <2>2, <2>3, <2>5 DEF Knows
  <2>7. RowTrue(x)
    BY <1>1, <1>2, <2>2, <2>3 DEF RowTrue
  <2> QED
    BY <1>2, <1>3, <2>4, <2>6, <2>7, RowReads
<1> QED
  BY <1>4, <1>5

\* An event is delivered: the first of the queue.
LEMMA RowDelivers ==
  ASSUME SubscriptionsAssumption, OneRequest, Ordered, Shape, PaidInv, AgreeInv,
         NEW w \in Workers, NEW i \in DOMAIN due, Deliver(w, i)
  PROVE  AgreeInv'
<1>0. PICK r : r = req[w]
  OBVIOUS
<1>1. /\ LastSays /\ Bought /\ Serves(r) /\ Knows(r) /\ RowTrue(r)
      /\ r \in Request /\ Stands(r) /\ user \in Owner
      /\ r.ev = NoEvent \/ (r.ev # NoEvent /\ r.ev.type \in Types)
  BY <1>0, RowNow
<1>2. i = 1 /\ due # <<>> /\ due[1] \in Event /\ r = Idle /\ UNCHANGED <<stripe, due, user, updates>>
  <2>1. i = 1 /\ r = Idle /\ UNCHANGED <<stripe, due, user, updates>>
    BY <1>0 DEF Deliver, Begin, bounds
  <2>2. due # <<>> /\ due[1] \in Event
    BY <2>1, EmptySeq, LenProperties DEF Shape
  <2> QED
    BY <2>1, <2>2
<1>3. PICK e \in Event : e = due[1]
  BY <1>2
<1> DEFINE x == [Idle EXCEPT !.at = e.type, !.ev = e, !.sub = e.sub, !.plan = e.plan, !.inv = e.inv]
<1>4. /\ req' = [req EXCEPT ![w] = x] /\ x.at = e.type /\ x.ev = e /\ x.sub = e.sub
      /\ x.plan = e.plan /\ x.write = NoWrite
  BY <1>2, <1>3 DEF Deliver, Begin, Idle
<1> HIDE DEF x
<1>5. e # NoEvent /\ e.type \in Types
  BY NoEventIsNone DEF Event
<1>6. Serves(x)
  BY <1>2, <1>3, <1>4, <1>5 DEF Serves
<1>7. Knows(x)
  BY <1>4, <1>5 DEF Knows, Types
<1>8. RowTrue(x)
  <2>1. r.at = "idle" /\ r.ev = NoEvent
    BY <1>2 DEF Idle
  <2>2. Waits(r, user.sub) => Waits(x, user.sub)
    BY <1>4 DEF Waits, Unheeded
  <2> QED
    BY <1>1, <1>4, <1>5, <2>1, <2>2 DEF RowTrue, Types
<1> QED
  BY <1>2, <1>4, <1>6, <1>7, <1>8, RowReads

\* A request is lost: the event in hand will be delivered again.
LEMMA RowForgets ==
  ASSUME SubscriptionsAssumption, OneRequest, Shape, PaidInv, AgreeInv, NEW w \in Workers,
         RequestFails(w)
  PROVE  AgreeInv'
<1>0. PICK r, x : r = req[w] /\ x = Idle
  OBVIOUS
<1>1. /\ LastSays /\ Bought /\ Serves(r) /\ Knows(r) /\ RowTrue(r)
      /\ r \in Request /\ Stands(r) /\ user \in Owner
      /\ r.ev = NoEvent \/ (r.ev # NoEvent /\ r.ev.type \in Types)
  BY <1>0, RowNow
<1>2. UNCHANGED <<stripe, due, user, updates>> /\ req' = [req EXCEPT ![w] = x]
  BY <1>0 DEF RequestFails
<1>3. x.at = "idle" /\ x.ev = NoEvent
  BY <1>0 DEF Idle
<1>4. \A s : Waits(r, s) => Waits(x, s)
  BY <1>3 DEF Waits, Unheeded
<1>5. RowTrue(x)
  <2>1. CASE r.at # "write"
    BY <1>1, <1>3, <1>4, <2>1 DEF RowTrue
  <2>2. CASE r.at = "write" /\ ~ Waits(r, r.sub)
    <3>1. r.ev # NoEvent /\ r.ev.type \in Telling /\ user.sub = r.sub
      BY <1>1, <2>2 DEF Knows
    <3>2. 1 \in DOMAIN due /\ Tells(due[1], user.sub)
      BY <1>1, <3>1, Handles DEF Tells
    <3> QED
      BY <1>3, <3>2 DEF RowTrue, Waits, Unheeded
  <2>3. CASE r.at = "write" /\ Waits(r, r.sub)
    BY <1>1, <1>4, <2>3 DEF RowTrue, Knows
  <2> QED
    BY <2>1, <2>2, <2>3
<1>6. Serves(x) /\ Knows(x)
  BY <1>3 DEF Serves, Knows, Types
<1> QED
  BY <1>2, <1>5, <1>6, RowReads

\* An event is acknowledged, and the queue moves up.
LEMMA RowAcknowledges ==
  ASSUME SubscriptionsAssumption, OneRequest, Shape, PaidInv, AgreeInv, NEW w \in Workers,
         Acknowledge(w)
  PROVE  AgreeInv'
<1>0. PICK r, x : r = req[w] /\ x = Idle
  OBVIOUS
<1>1. /\ LastSays /\ Bought /\ Serves(r) /\ Knows(r) /\ RowTrue(r)
      /\ r \in Request /\ Stands(r) /\ user \in Owner
      /\ r.ev = NoEvent \/ (r.ev # NoEvent /\ r.ev.type \in Types)
  BY <1>0, RowNow
<1>2. /\ UNCHANGED <<stripe, user, updates>> /\ req' = [req EXCEPT ![w] = x] /\ r.at = "answer"
      /\ due' = RemoveFirst(due, r.ev)
  BY <1>0 DEF Acknowledge, bounds
<1>3. x.at = "idle" /\ x.ev = NoEvent
  BY <1>0 DEF Idle
<1>4. r.ev # NoEvent /\ due # <<>> /\ r.ev = due[1] /\ r.at # r.ev.type
  BY <1>1, <1>2 DEF Serves, Types
<1> DEFINE n == Len(due)
<1>5. /\ n \in Nat /\ DOMAIN due = 1..n /\ DOMAIN due' = 1..(n - 1)
      /\ \A i \in 1..(n - 1) : due'[i] = due[i + 1]
  <2>1. due \in Seq(Event) /\ due' \in Seq(Event)
    BY <1>2, Removed DEF Shape
  <2>2. Len(due') = n - 1 /\ \A i \in 1..(n - 1) : due'[i] = due[i + 1]
    BY <1>2, <1>4, <2>1, Popped
  <2> QED
    BY <2>1, <2>2, LenProperties
<1> HIDE DEF n
<1>6. \A j \in DOMAIN due : j > 1 => j - 1 \in DOMAIN due' /\ due'[j - 1] = due[j]
  BY <1>5
<1>7. LastSays'
  <2>1. ASSUME NEW i \in DOMAIN due'
        PROVE  /\ EventForm(due'[i])
               /\ \/ due'[i].type \notin Telling
                  \/ \E j \in DOMAIN due' : i < j /\ Tells(due'[j], due'[i].sub)
                  \/ Says(due[i])'
    <3>1. i + 1 \in DOMAIN due /\ due'[i] = due[i + 1] /\ i \in Nat
      BY <1>5
    <3>2. CASE \E j \in DOMAIN due : i + 1 < j /\ Tells(due[j], due[i + 1].sub)
      <4>1. PICK j \in DOMAIN due : i + 1 < j /\ Tells(due[j], due[i + 1].sub)
        BY <3>2
      <4>2. j - 1 \in DOMAIN due' /\ due'[j - 1] = due[j] /\ i < j - 1
        BY <1>5, <1>6, <3>1, <4>1
      <4>3. EventForm(due'[i])
        BY <1>1, <3>1 DEF LastSays
      <4> QED
        BY <3>1, <4>1, <4>2, <4>3
    <3>3. CASE Says(due[i + 1])
      <4>1. EventForm(due'[i])
        BY <1>1, <3>1 DEF LastSays
      <4>2. Says(due[i])'
        BY <1>2, <3>1, <3>3 DEF Says
      <4> QED
        BY <4>1, <4>2
    <3> QED
      BY <1>1, <3>1, <3>2, <3>3 DEF LastSays
  <2> QED
    BY <2>1 DEF LastSays, Tells, EventForm
<1>8. ASSUME NEW s, Waits(r, s)
      PROVE  Waits(x, s)'
  <2>1. PICK j \in DOMAIN due : Tells(due[j], s) /\ j # 1
    BY <1>4, <1>8 DEF Waits, Unheeded
  <2>2. j - 1 \in DOMAIN due' /\ due'[j - 1] = due[j]
    BY <1>5, <1>6, <2>1
  <2> QED
    BY <1>3, <2>1, <2>2 DEF Waits, Tells, Unheeded
<1>9. Serves(x)' /\ Knows(x)'
  BY <1>3 DEF Serves, Knows, Types
<1>10. RowTrue(x)'
  BY <1>1, <1>2, <1>3, <1>8 DEF RowTrue, Agrees, Live
<1>11. Bought'
  BY <1>1, <1>2 DEF Bought
<1> QED
  BY <1>2, <1>7, <1>9, <1>10, <1>11, RowGoes

\* The owner asks for something.
LEMMA RowBegins ==
  ASSUME SubscriptionsAssumption, OneRequest, Shape, PaidInv, AgreeInv, NEW w \in Workers,
         NEW x, Begin(w, x), UNCHANGED <<stripe, due, user>>, NoUpdates => updates' = updates,
         x.ev = NoEvent, x.at \in {"checkout", "price", "cancel", "verify"},
         x.at \in {"price", "cancel"} => user.sub = x.sub,
         x.at = "price" => OneSubscription,
         x.at = "verify" => x.plan = stripe[x.sub].bought /\ stripe[x.sub].status = "active"
  PROVE  AgreeInv'
<1>0. PICK r : r = req[w]
  OBVIOUS
<1>1. /\ LastSays /\ Bought /\ Serves(r) /\ Knows(r) /\ RowTrue(r)
      /\ r \in Request /\ Stands(r) /\ user \in Owner
      /\ r.ev = NoEvent \/ (r.ev # NoEvent /\ r.ev.type \in Types)
  BY <1>0, RowNow
<1>2. req' = [req EXCEPT ![w] = x] /\ r.at = "idle" /\ r.ev = NoEvent
  BY <1>0 DEF Begin, Idle
<1>3. Serves(x)
  BY DEF Serves, Types
<1>4. Knows(x)
  BY DEF Knows
<1>5. RowTrue(x)
  <2>1. Waits(r, user.sub) => Waits(x, user.sub)
    BY DEF Waits, Unheeded
  <2> QED
    BY <1>1, <1>2, <2>1 DEF RowTrue
<1> QED
  BY <1>2, <1>3, <1>4, <1>5, RowReads

LEMMA RowOwner ==
  ASSUME SubscriptionsAssumption, OneRequest, ~ LateVerify, OneSubscription \/ NoUpdates,
         Shape, PaidInv, AgreeInv, NEW w \in Workers, OwnerStep(w)
  PROVE  AgreeInv'
<1>1. ASSUME NEW s \in Subs, NEW p \in Plans, Subscribe(w, s, p)
      PROVE  AgreeInv'
  <2> DEFINE x == [Idle EXCEPT !.at = "checkout", !.sub = s, !.plan = p]
  <2>1. x.at = "checkout" /\ x.ev = NoEvent
    BY DEF Idle
  <2>2. Begin(w, x) /\ UNCHANGED <<stripe, due, user, updates>>
    BY <1>1 DEF Subscribe, bounds
  <2> HIDE DEF x
  <2> QED
    BY <2>1, <2>2, RowBegins
<1>2. ASSUME NEW p \in Plans, UpdatePlan(w, p)
      PROVE  AgreeInv'
  <2> DEFINE x == [Idle EXCEPT !.at = "price", !.sub = user.sub, !.plan = p]
  <2>1. x.at = "price" /\ x.ev = NoEvent /\ x.sub = user.sub
    BY DEF Idle
  <2>2. Begin(w, x) /\ UNCHANGED <<stripe, due, user>> /\ updates < MaxUpdates
    BY <1>2 DEF UpdatePlan
  <2>3. ~ NoUpdates
    BY <2>2 DEF NoUpdates, AgreeInv, Bought
  <2> HIDE DEF x
  <2> QED
    BY <2>1, <2>2, <2>3, RowBegins
<1>3. CASE Cancel(w)
  <2> DEFINE x == [Idle EXCEPT !.at = "cancel", !.sub = user.sub]
  <2>1. x.at = "cancel" /\ x.ev = NoEvent /\ x.sub = user.sub
    BY DEF Idle
  <2>2. Begin(w, x) /\ UNCHANGED <<stripe, due, user, updates>>
    BY <1>3 DEF Cancel, bounds
  <2> HIDE DEF x
  <2> QED
    BY <2>1, <2>2, RowBegins
<1>4. ASSUME NEW s \in Subs, VerifySession(w, s)
      PROVE  AgreeInv'
  <2> DEFINE x == [Idle EXCEPT !.at = "verify", !.sub = s, !.plan = stripe[s].bought]
  <2>1. x.at = "verify" /\ x.ev = NoEvent /\ x.sub = s /\ x.plan = stripe[s].bought
    BY DEF Idle
  <2>2. Begin(w, x) /\ UNCHANGED <<stripe, due, user, updates>> /\ stripe[s].status = "active"
    BY <1>4 DEF VerifySession, bounds
  <2> HIDE DEF x
  <2> QED
    BY <2>1, <2>2, RowBegins
<1> QED
  BY <1>1, <1>2, <1>3, <1>4 DEF OwnerStep

\* Stripe changes a subscription and tells of it.
LEMMA Told ==
  ASSUME SubscriptionsAssumption, Shape, LastSays, NEW s \in Subs, NEW a \in StripeRecord,
         stripe' = [stripe EXCEPT ![s] = a],
         a.status \in {"active", "past_due", "canceled"}, {a.plan, a.bought} \subseteq Plans,
         NEW t \in Telling, NEW u \in {"paid", "failed"},
         \/ Emit(<<Ev(t, s)>>)
         \/ Emit(<<Ev(u, s), Ev(t, s)>>) /\ a.status # "canceled",
         t = "completed" => a.status = "active" /\ a.plan = a.bought,
         t = "deleted" <=> a.status = "canceled"
  PROVE  /\ LastSays'
         /\ due # <<>> => due' # <<>> /\ due'[1] = due[1]
         /\ \A r, v : Waits(r, v) => Waits(r, v)'
         /\ \A r : r.ev = NoEvent \/ due # <<>> => Waits(r, s)'
<1>1. /\ stripe' \in [Subs -> StripeRecord] /\ stripe'[s] = a
      /\ \A v \in Subs : v # s => stripe'[v] = stripe[v]
  BY DEF Shape
<1>2. t \in Types /\ u \in Types
  BY DEF Telling, Types
<1>3. PICK e \in Event : e = Ev(t, s)
  BY <1>1, <1>2, Emits
<1>4. PICK f \in Event : f = Ev(u, s)
  BY <1>1, <1>2, Emits
<1>5. /\ e.type = t /\ e.sub = s /\ e.status = a.status
      /\ e.plan = IF t = "completed" THEN a.bought ELSE a.plan
  BY <1>1, <1>3 DEF Ev
<1>6. f.type = u /\ f.sub = s /\ f.status = a.status
  BY <1>1, <1>4 DEF Ev
<1>7. EventForm(e) /\ e.type \in Telling
  BY <1>5 DEF EventForm
<1>8. Says(e)'
  BY <1>1, <1>5 DEF Says
<1>9. due \in Seq(Event)
  BY DEF Shape
<1>10. /\ due' \in Seq(Event) /\ Len(due) < Len(due') /\ e = due'[Len(due')]
       /\ \A i \in 1..Len(due) : due'[i] = due[i]
       /\ \A i \in DOMAIN due' : i > Len(due) => EventForm(due'[i]) /\ due'[i].sub = s
  <2>1. CASE Emit(<<Ev(t, s)>>)
    <3>1. due' = due \o <<e>>
      BY <1>3, <2>1 DEF Emit
    <3>2. /\ due' \in Seq(Event) /\ Len(due) \in Nat /\ Len(due') = Len(due) + 1
          /\ due'[Len(due) + 1] = e /\ \A i \in 1..Len(due) : due'[i] = due[i]
      BY <1>9, <3>1, Added, Joined
    <3>3. \A i \in DOMAIN due' : i > Len(due) => i = Len(due) + 1
      BY <3>2, LenProperties
    <3> QED
      BY <1>5, <1>7, <3>2, <3>3
  <2>2. CASE Emit(<<Ev(u, s), Ev(t, s)>>) /\ a.status # "canceled"
    <3>1. due' = due \o <<f, e>>
      BY <1>3, <1>4, <2>2 DEF Emit
    <3>2. /\ due' \in Seq(Event) /\ Len(due) \in Nat /\ Len(due') = Len(due) + 2
          /\ due'[Len(due) + 1] = f /\ due'[Len(due) + 2] = e
          /\ \A i \in 1..Len(due) : due'[i] = due[i]
      BY <1>9, <3>1, Added, Joined
    <3>3. \A i \in DOMAIN due' : i > Len(due) => i = Len(due) + 1 \/ i = Len(due) + 2
      BY <3>2, LenProperties
    <3>4. EventForm(f)
      BY <1>6, <2>2 DEF EventForm
    <3> QED
      BY <1>5, <1>6, <1>7, <3>2, <3>3, <3>4
  <2> QED
    BY <2>1, <2>2
<1> QED
  BY <1>1, <1>5, <1>7, <1>8, <1>10, Grows

\* A request that did not take this step knows as much as before.
LEMMA RowTold ==
  ASSUME SubscriptionsAssumption, Shape, PaidInv, NEW r, NEW s \in Subs, NEW a,
         Serves(r), Knows(r), RowTrue(r), Stands(r),
         stripe' = [stripe EXCEPT ![s] = a], a.bought = stripe[s].bought, user' = user,
         due # <<>> => due' # <<>> /\ due'[1] = due[1],
         \A t : Waits(r, t) => Waits(r, t)',
         r.ev = NoEvent \/ due # <<>> => Waits(r, s)'
  PROVE  Serves(r)' /\ Knows(r)' /\ RowTrue(r)'
<1>1. stripe'[s] = a /\ \A t \in Subs : t # s => stripe'[t] = stripe[t]
  BY DEF Shape
<1>2. Serves(r)'
  BY DEF Serves
<1>3. Waits(r, s)'
  BY DEF Serves
<1>4. r.at \in {"verify", "activate"} => r.sub \in Subs
  BY DEF Stands, Billed
<1>5. Knows(r)'
  BY <1>1, <1>3, <1>4 DEF Knows
<1>6. RowTrue(r)'
  <2>1. CASE user.sub = s
    BY <1>3, <2>1 DEF RowTrue
  <2>2. CASE user.sub # s /\ user.sub # "none"
    <3>1. stripe'[user.sub] = stripe[user.sub]
      BY <1>1, <2>2 DEF Shape, Owner
    <3>2. \A st, p : Agrees(st, p) => Agrees(st, p)'
      BY <3>1 DEF Agrees, Live
    <3> QED
      BY <3>2 DEF RowTrue, After
  <2> QED
    BY <2>1, <2>2 DEF RowTrue
<1> QED
  BY <1>2, <1>5, <1>6

\* What Stripe tells when it moves.
LEMMA StripeTells ==
  ASSUME SubscriptionsAssumption, Shape, PaidInv, AgreeInv, NEW s \in Subs, StripeStep(s)
  PROVE  \E a \in StripeRecord, t \in Telling, u \in {"paid", "failed"} :
           /\ stripe' = [stripe EXCEPT ![s] = a]
           /\ a.status \in {"active", "past_due", "canceled"} /\ {a.plan, a.bought} \subseteq Plans
           /\ a.plan = stripe[s].plan /\ a.bought = stripe[s].bought
           /\ \/ Emit(<<Ev(t, s)>>)
              \/ Emit(<<Ev(u, s), Ev(t, s)>>) /\ a.status # "canceled"
           /\ t = "completed" => a.status = "active" /\ a.plan = a.bought
           /\ t = "deleted" <=> a.status = "canceled"
<1>1. PICK a \in StripeRecord :
        /\ stripe' = [stripe EXCEPT ![s] = a]
        /\ a.status \in {"active", "past_due", "canceled"}
        /\ a.plan = stripe[s].plan /\ a.bought = stripe[s].bought /\ stripe[s].cycle <= a.cycle
        /\ stripe[s].status # "none"
  BY StripeChanges
<1>2. stripe'[s] = a /\ {a.plan, a.bought} \subseteq Plans /\ stripe[s] \in StripeRecord
  BY <1>1 DEF Shape
<1>3. CASE PayCheckout(s)
  <2>1. a.status = "active" /\ stripe[s].status = "open" /\ Emit(<<Ev("completed", s)>>)
    BY <1>2, <1>3 DEF PayCheckout, StripeRecord, Shape
  <2>2. user.sub # s
    BY <2>1, Bounds DEF PaidInv, UserPaid, Paid
  <2>3. a.plan = a.bought
    BY <1>1, <2>2 DEF AgreeInv, Bought
  <2> QED
    BY <1>1, <1>2, <2>1, <2>3 DEF Telling
<1>4. CASE Renew(s)
  <2>1. a.status = "active" /\ Emit(<<Ev("paid", s), Ev("updated", s)>>)
    BY <1>2, <1>4 DEF Renew, StripeRecord, Shape
  <2> QED
    BY <1>1, <1>2, <2>1 DEF Telling
<1>5. CASE RenewFails(s)
  <2>1. a.status = "past_due" /\ Emit(<<Ev("failed", s), Ev("updated", s)>>)
    BY <1>2, <1>5 DEF RenewFails, StripeRecord, Shape
  <2> QED
    BY <1>1, <1>2, <2>1 DEF Telling
<1>6. CASE Recover(s)
  <2>1. a.status = "active" /\ Emit(<<Ev("paid", s), Ev("updated", s)>>)
    BY <1>2, <1>6 DEF Recover, StripeRecord, Shape
  <2> QED
    BY <1>1, <1>2, <2>1 DEF Telling
<1>7. CASE CancelElsewhere(s)
  <2>1. a.status = "canceled" /\ Emit(<<Ev("deleted", s)>>)
    BY <1>2, <1>7 DEF CancelElsewhere, Canceled, StripeRecord, Shape
  <2> QED
    BY <1>1, <1>2, <2>1 DEF Telling
<1> QED
  BY <1>3, <1>4, <1>5, <1>6, <1>7 DEF StripeStep

LEMMA RowStripe ==
  ASSUME SubscriptionsAssumption, Shape, PaidInv, AgreeInv, NEW s \in Subs, StripeStep(s)
  PROVE  AgreeInv'
<1>0. req' = req /\ user' = user /\ updates' = updates
  BY DEF StripeStep, PayCheckout, Renew, RenewFails, Recover, CancelElsewhere, bounds
<1>1. PICK a \in StripeRecord, t \in Telling, u \in {"paid", "failed"} :
           /\ stripe' = [stripe EXCEPT ![s] = a]
           /\ a.status \in {"active", "past_due", "canceled"} /\ {a.plan, a.bought} \subseteq Plans
           /\ a.plan = stripe[s].plan /\ a.bought = stripe[s].bought
           /\ \/ Emit(<<Ev(t, s)>>)
              \/ Emit(<<Ev(u, s), Ev(t, s)>>) /\ a.status # "canceled"
           /\ t = "completed" => a.status = "active" /\ a.plan = a.bought
           /\ t = "deleted" <=> a.status = "canceled"
  BY StripeTells
<1>2. /\ LastSays'
      /\ due # <<>> => due' # <<>> /\ due'[1] = due[1]
      /\ \A r, v : Waits(r, v) => Waits(r, v)'
      /\ \A r : r.ev = NoEvent \/ due # <<>> => Waits(r, s)'
  BY <1>1, Told DEF AgreeInv
<1>3. Bought'
  BY <1>0, <1>1 DEF AgreeInv, Bought, Shape
<1>4. ASSUME NEW w \in Workers
      PROVE  Serves(req[w])' /\ Knows(req[w])' /\ RowTrue(req[w])'
  <2>1. PICK r : r = req[w]
    OBVIOUS
  <2>2. Serves(r) /\ Knows(r) /\ RowTrue(r) /\ Stands(r)
    BY <2>1 DEF AgreeInv, PaidInv
  <2>3. Serves(r)' /\ Knows(r)' /\ RowTrue(r)'
    BY <1>0, <1>1, <1>2, <2>2, RowTold
  <2>4. req'[w] = r
    BY <1>0, <2>1
  <2> QED
    BY <2>3, <2>4 DEF Serves, Knows, RowTrue, Waits, Unheeded
<1> QED
  BY <1>0, <1>2, <1>3, <1>4 DEF AgreeInv

\* A checkout opens: neither an event nor the row names its subscription yet.
LEMMA RowOpens ==
  ASSUME SubscriptionsAssumption, OneRequest, Shape, PaidInv, AgreeInv, NEW w \in Workers,
         OpenCheckout(w)
  PROVE  AgreeInv'
<1>0. PICK r : r = req[w]
  OBVIOUS
<1>1. /\ LastSays /\ Bought /\ Serves(r) /\ Knows(r) /\ RowTrue(r)
      /\ r \in Request /\ Stands(r) /\ user \in Owner
      /\ r.ev = NoEvent \/ (r.ev # NoEvent /\ r.ev.type \in Types)
  BY <1>0, RowNow
<1>2. PICK s, a : s = r.sub /\ a = [status |-> "open", plan |-> r.plan, bought |-> r.plan, cycle |-> 0]
  OBVIOUS
<1>3. /\ r.at = "checkout" /\ stripe' = [stripe EXCEPT ![s] = a]
      /\ UNCHANGED <<due, user, updates>>
  BY <1>0, <1>2 DEF OpenCheckout, bounds
<1>4. s \in Subs /\ stripe[s].status = "none" /\ a.plan = a.bought
  BY <1>1, <1>2, <1>3 DEF Stands
<1>5. \A t \in Subs : t # s => stripe'[t] = stripe[t]
  BY <1>3 DEF Shape
<1>6. ASSUME NEW i \in DOMAIN due
      PROVE  due[i].sub \in Subs /\ due[i].sub # s
  <2>1. due[i] \in Range(due)
    BY RangeEquality, LenProperties DEF Shape
  <2> QED
    BY <1>4, <2>1 DEF PaidInv, Billed, Paid
<1>7. user.sub # "none" => user.sub \in Subs /\ user.sub # s
  BY <1>1, <1>4 DEF PaidInv, UserPaid, Paid, Owner
<1>8. LastSays'
  <2>1. \A i \in DOMAIN due : Says(due[i]) => Says(due[i])'
    BY <1>3, <1>5, <1>6 DEF Says
  <2> QED
    BY <1>1, <1>3, <2>1 DEF LastSays, EventForm, Tells
<1>9. Bought'
  BY <1>1, <1>3, <1>4, <1>5 DEF Bought, Shape
<1>10. PICK x : /\ req' = [req EXCEPT ![w] = x] /\ x.ev = r.ev
                /\ \/ x.at = "idle" /\ x.ev = NoEvent
                   \/ x.at = "answer" /\ x.ev # NoEvent /\ x.sub = r.sub
  BY <1>0, RowEnds DEF OpenCheckout
<1>11. x.at = "idle" /\ x.ev = NoEvent /\ r.ev = NoEvent
  BY <1>1, <1>3, <1>10 DEF Serves, Types
<1>12. Serves(x)' /\ Knows(x)'
  BY <1>11 DEF Serves, Knows, Types
<1>13. RowTrue(x)'
  <2>1. \A t : Waits(r, t) => Waits(x, t)'
    BY <1>3, <1>11 DEF Waits, Tells, Unheeded
  <2>2. user.sub # "none" => \A st, p : Agrees(st, p) => Agrees(st, p)'
    BY <1>3, <1>5, <1>7 DEF Agrees, Live
  <2> QED
    BY <1>1, <1>3, <1>11, <2>1, <2>2 DEF RowTrue
<1> QED
  BY <1>8, <1>9, <1>10, <1>12, <1>13, RowGoes

\* The owner's requests that change Stripe: it will tell the row of what they did.
LEMMA RowChanges ==
  ASSUME SubscriptionsAssumption, OneRequest, Shape, PaidInv, AgreeInv, NEW w \in Workers,
         ChangePrice(w) \/ CancelInStripe(w)
  PROVE  AgreeInv'
<1>0. PICK r : r = req[w]
  OBVIOUS
<1>1. /\ LastSays /\ Bought /\ Serves(r) /\ Knows(r) /\ RowTrue(r)
      /\ r \in Request /\ Stands(r) /\ user \in Owner
      /\ r.ev = NoEvent \/ (r.ev # NoEvent /\ r.ev.type \in Types)
  BY <1>0, RowNow
<1>2. PICK s : s = r.sub
  OBVIOUS
<1>3. /\ r.at \in {"price", "cancel"} /\ s \in Subs /\ user.sub = s /\ stripe[s] \in StripeRecord
      /\ r.at = "price" => OneSubscription /\ r.plan \in Plans
      /\ UNCHANGED <<user, updates>> /\ r.ev = NoEvent
  <2>1. r.at \in {"price", "cancel"} /\ UNCHANGED <<user, updates>>
    BY <1>0 DEF ChangePrice, CancelInStripe, bounds
  <2>2. s \in Subs /\ user.sub = s /\ (r.at = "price" => OneSubscription /\ r.plan \in Plans)
    BY <1>1, <1>2, <2>1 DEF Stands, Billed, Knows
  <2>3. r.ev = NoEvent
    BY <1>1, <2>1 DEF Serves, Types
  <2> QED
    BY <2>1, <2>2, <2>3 DEF Shape
<1>4. CASE ~ Live(s)
  <2>1. End(w) /\ UNCHANGED <<stripe, due>>
    BY <1>0, <1>2, <1>4 DEF ChangePrice, CancelInStripe
  <2> QED
    BY <1>0, <1>3, <2>1, RowEnds, Passes
<1>5. CASE Live(s)
  <2>1. PICK a \in StripeRecord, t \in Telling : \E x :
          /\ stripe' = [stripe EXCEPT ![s] = a] /\ Emit(<<Ev(t, s)>>)
          /\ req' = [req EXCEPT ![w] = x] /\ x.ev = NoEvent /\ x.sub = s
          /\ a.bought = stripe[s].bought /\ {a.plan, a.bought} \subseteq Plans
          /\ \/ /\ t = "updated" /\ a.status \in {"active", "past_due"}
                /\ x.at = "adopt" /\ OneSubscription
             \/ /\ t = "deleted" /\ a.status = "canceled" /\ a.plan = stripe[s].plan
                /\ x.at = "write"
    <3>1. {stripe[s].plan, stripe[s].bought} \subseteq Plans /\ stripe[s].status \in {"active", "past_due"}
      BY <1>3, <1>5 DEF Shape, Live
    <3>2. CASE ChangePrice(w)
      <4> DEFINE a == [stripe[s] EXCEPT !.plan = r.plan]
                 x == [r EXCEPT !.at = "adopt"]
      <4>1. r.at = "price"
        BY <1>0, <3>2 DEF ChangePrice
      <4>2. /\ stripe' = [stripe EXCEPT ![s] = a] /\ Emit(<<Ev("updated", s)>>)
            /\ req' = [req EXCEPT ![w] = x]
        BY <1>0, <1>2, <1>5, <3>2 DEF ChangePrice, Step
      <4>3. /\ a \in StripeRecord /\ a.status = stripe[s].status /\ a.bought = stripe[s].bought
            /\ a.plan = r.plan
        BY <1>3, <4>1 DEF StripeRecord
      <4>4. x.at = "adopt" /\ x.ev = NoEvent /\ x.sub = s
        BY <1>1, <1>2, <1>3 DEF Request
      <4> HIDE DEF a, x
      <4> QED
        BY <1>3, <3>1, <4>1, <4>2, <4>3, <4>4 DEF Telling
    <3>3. CASE CancelInStripe(w)
      <4> DEFINE a == [stripe[s] EXCEPT !.status = "canceled"]
                 d == [NoWrite EXCEPT !.status = "cancelled"]
                 x == [r EXCEPT !.at = "write", !.write = d]
      <4>1. d # NoWrite
        BY DEF NoWrite
      <4>2. /\ stripe' = [stripe EXCEPT ![s] = a] /\ Emit(<<Ev("deleted", s)>>)
            /\ Plan(w, d)
        BY <1>0, <1>2, <1>5, <3>3 DEF CancelInStripe, Canceled
      <4>3. /\ a \in StripeRecord /\ a.status = "canceled" /\ a.bought = stripe[s].bought
            /\ a.plan = stripe[s].plan
        BY <1>3 DEF StripeRecord
      <4> HIDE DEF a, d
      <4>4. req' = [req EXCEPT ![w] = x] /\ x.at = "write" /\ x.ev = NoEvent /\ x.sub = s
        BY <1>0, <1>1, <1>2, <1>3, <4>1, <4>2 DEF Plan, Request, Shape
      <4> HIDE DEF x
      <4> QED
        BY <3>1, <4>2, <4>3, <4>4 DEF Telling
    <3> QED
      BY <3>2, <3>3
  <2>2. PICK x :
          /\ req' = [req EXCEPT ![w] = x] /\ x.ev = NoEvent /\ x.sub = s
          /\ (x.at = "adopt" /\ OneSubscription) \/ (x.at = "write" /\ a.plan = stripe[s].plan)
    BY <2>1
  <2>3. /\ LastSays'
        /\ \A y : y.ev = NoEvent \/ due # <<>> => Waits(y, s)'
    BY <1>1, <1>3, <2>1, Told
  <2>4. Waits(x, s)'
    BY <2>2, <2>3
  <2>5. Bought'
    <3>1. stripe'[s] = a /\ \A v \in Subs : v # s => stripe'[v] = stripe[v]
      BY <1>3, <2>1 DEF Shape
    <3> QED
      BY <1>1, <1>3, <2>2, <2>1, <3>1 DEF Bought
  <2>6. Serves(x)'
    BY <2>2 DEF Serves, Types
  <2>7. Knows(x)'
    BY <1>3, <2>2, <2>4 DEF Knows
  <2>8. RowTrue(x)'
    BY <1>3, <2>4 DEF RowTrue
  <2> QED
    BY <2>2, <2>3, <2>5, <2>6, <2>7, <2>8, RowGoes
<1> QED
  BY <1>4, <1>5

LEMMA RowStart ==
  ASSUME SubscriptionsAssumption, Init
  PROVE  AgreeInv
<1>1. DOMAIN due = {}
  BY DEF Init
<1>2. LastSays /\ Bought
  BY <1>1, Bounds DEF Init, LastSays, Bought
<1>3. PICK x : x = Idle
  OBVIOUS
<1>4. x.at = "idle" /\ x.ev = NoEvent
  BY <1>3 DEF Idle
<1>5. Serves(x) /\ Knows(x) /\ RowTrue(x)
  BY <1>4 DEF Serves, Knows, RowTrue, Types, Init
<1>6. \A w \in Workers : req[w] = x
  BY <1>3 DEF Init
<1>7. user.sub = "none"
  BY DEF Init
<1> QED
  BY <1>2, <1>5, <1>6, <1>7 DEF AgreeInv

LEMMA RowRequest ==
  ASSUME SubscriptionsAssumption, OneRequest, Shape, PaidInv, AgreeInv, NEW w \in Workers,
         RequestStep(w)
  PROVE  AgreeInv'
  BY RowActivates, RowChecks, RowUpdates, RowFails, RowHears, RowOpens, RowChanges, RowVerifies,
     RowAcknowledges DEF RequestStep

LEMMA RowStep ==
  ASSUME SubscriptionsAssumption, OneRequest, Ordered, ~ LateVerify, OneSubscription \/ NoUpdates,
         Shape, PaidInv, AgreeInv, [Next]_vars
  PROVE  AgreeInv'
<1>1. ASSUME NEW s \in Subs, StripeStep(s)
      PROVE  AgreeInv'
  BY <1>1, RowStripe
<1>2. CASE Delivery
  BY <1>2, RowDelivers DEF Delivery
<1>3. ASSUME NEW w \in Workers, OwnerStep(w) \/ RequestStep(w) \/ RequestFails(w)
      PROVE  AgreeInv'
  BY <1>3, RowOwner, RowRequest, RowForgets
<1>4. CASE UNCHANGED vars
  <2>1. UNCHANGED <<stripe, due, user, req, updates>>
    BY <1>4 DEF vars, bounds
  <2>2. LastSays' /\ Bought'
    BY <2>1 DEF AgreeInv, LastSays, EventForm, Tells, Says, Bought
  <2>3. ASSUME NEW w \in Workers
        PROVE  Serves(req[w])' /\ Knows(req[w])' /\ RowTrue(req[w])'
    <3>1. Serves(req[w]) /\ Knows(req[w]) /\ RowTrue(req[w])
      BY DEF AgreeInv
    <3>2. \A t : Waits(req[w], t)' <=> Waits(req[w], t)
      BY <2>1 DEF Waits, Tells, Unheeded
    <3>3. \A st, p : Agrees(st, p)' <=> Agrees(st, p)
      BY <2>1 DEF Agrees, Live
    <3>4. Serves(req[w])'
      BY <2>1, <3>1 DEF Serves
    <3>5. Knows(req[w])'
      BY <2>1, <3>1, <3>2 DEF Knows
    <3>6. RowTrue(req[w])'
      BY <2>1, <3>1, <3>2, <3>3 DEF RowTrue, After
    <3> QED
      BY <3>4, <3>5, <3>6
  <2> QED
    BY <2>1, <2>2, <2>3 DEF AgreeInv
<1> QED
  BY <1>1, <1>2, <1>3, <1>4 DEF Next

\* Once Stripe has nothing left to say and no request runs, the owner's row has the status and
\* the plan that its subscription has in Stripe, through crashes at any point: events in order,
\* requests one at a time, and no session verified that is no longer active
\* (stripe.webhooks.js:878-1061).  With two subscriptions no plan may be changed: the older
\* one can be verified again, under the plan that was bought.
THEOREM RowFollows ==
  ASSUME SubscriptionsAssumption, OneRequest, Ordered, ~ LateVerify, OneSubscription \/ NoUpdates
  PROVE  Spec => []RowAgrees
<1>1. Shape /\ PaidInv /\ AgreeInv => RowAgrees
  <2> SUFFICES ASSUME Shape, PaidInv, AgreeInv, due = <<>>, \A w \in Workers : req[w] = Idle,
                      user.sub # "none"
               PROVE  /\ user.status = CASE stripe[user.sub].status = "active"   -> "active"
                                         [] stripe[user.sub].status = "past_due" -> "inactive"
                                         [] stripe[user.sub].status = "canceled" -> "cancelled"
                      /\ Live(user.sub) => user.plan = stripe[user.sub].plan
    BY DEF RowAgrees
  <2>1. PICK w \in Workers : TRUE
    BY DEF AgreeInv
  <2>2. PICK r : r = req[w]
    OBVIOUS
  <2>3. RowTrue(r) /\ r.at = "idle"
    BY <2>2 DEF AgreeInv, Idle
  <2>4. ~ Waits(r, user.sub)
    BY DEF Waits
  <2>5. Agrees(user.status, user.plan)
    BY <2>3, <2>4 DEF RowTrue
  <2>6. stripe[user.sub].status \in {"active", "past_due", "canceled"}
    BY DEF Shape, Owner, StripeRecord, PaidInv, UserPaid, Paid
  <2> QED
    BY <2>5, <2>6 DEF Agrees, LocalWord
<1>2. Init => Shape /\ PaidInv /\ AgreeInv
  BY PaidInit, RowStart
<1>3. (Shape /\ PaidInv /\ AgreeInv) /\ [Next]_vars => (Shape /\ PaidInv /\ AgreeInv)'
  BY PaidStep, RowStep
<1> QED
  BY <1>1, <1>2, <1>3, PTL DEF Spec
=============================================================================
