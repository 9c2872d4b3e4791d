----------------------------- MODULE OverlapProofs -----------------------------
(***************************************************************************)
(* Theorems about the parts of Overlap that have no module of proofs of    *)
(* their own, and about Overlap itself.                                    *)
(*                                                                         *)
(* 1. RateLimiter, for any limits, windows and number of batches.  A       *)
(*    counter answers each INCR with a number of its own as long as it     *)
(*    lives, and when Redis drops it no command of its window is left      *)
(*    (Window + MaxLag <= Ttl); so the batches that are sent have          *)
(*    different ranks within the limit.  A counter has counted no more     *)
(*    than the checks of its own window, so that a rank beyond the limit   *)
(*    was earned there.                                                    *)
(*                                                                         *)
(* 2. DeliveryStatus, for any number of messages and of writers.  What a   *)
(*    writer holds, or a report says, the provider has said; so a row that *)
(*    says failed belongs to a message that was given up.  When one writer *)
(*    works at a time and nothing fails, the counters of the campaign, or  *)
(*    those that the writer is about to store, are those of the rows.      *)
(*                                                                         *)
(* 3. Contacts, for any stores, numbers, forms, links and files.  A store  *)
(*    has one row for a number, and every step that writes isSubscribed    *)
(*    either leaves what the customer said as it is or settles it anew.    *)
(*                                                                         *)
(* 4. Overlap.  One part moves for ever, and is then an execution of its   *)
(*    module, so that the theorems about the modules meet.                 *)
(***************************************************************************)
EXTENDS Overlap, FiniteSetTheorems, WellFoundedInduction, TLAPS

-----------------------------------------------------------------------------
(* 1. The rate limiter. *)

\* A moment lies in its window.
LEMMA InWindow ==
  ASSUME NEW t \in Nat
  PROVE  /\ t \div Window \in Nat
         /\ (t \div Window) * Window <= t
         /\ t < (t \div Window) * Window + Window
         /\ t \div Window <= t
BY RateLimiterAssumption

CheckType == [at : {"ready", "checking", "sent", "failed"}, began : 0 .. MaxTime, window : Windows,
              incr : SUBSET Keys, expire : SUBSET Keys, rank : [Keys -> Nat], sent : 0 .. MaxTime]

LEMMA NatConstants ==
  /\ Window \in Nat /\ Window > 0 /\ Ttl \in Nat /\ MaxLag \in Nat /\ MaxTime \in Nat
  /\ Window + MaxLag <= Ttl /\ Attempts \in Nat /\ MaxFaults \in Nat
  /\ \A k : MaxOf(k) \in Nat
BY RateLimiterAssumption DEF MaxOf

LEMMA KeysOfAreKeys == \A b \in Batches : KeysOf(b) \subseteq Keys
  BY RateLimiterAssumption DEF KeysOf, Keys

LEMMA WindowsAreNat == Windows \subseteq Nat
  BY NatConstants DEF Windows

LEMMA IdleIsTyped == Idle \in CheckType
  BY NatConstants DEF Idle, CheckType, Windows

\* Only one batch moves in a step.
LEMMA BatchMoves ==
  ASSUME TypeOK, NEW b \in Batches, NEW x \in CheckType, batch' = [batch EXCEPT ![b] = x]
  PROVE  batch' \in [Batches -> CheckType]
BY DEF TypeOK, CheckType

\* What a batch, its counters and the clock can be (rateLimiter.service.js).
THEOREM TypeCorrect == Spec => []TypeOK
<1>1. Init => TypeOK
  BY NatConstants, IdleIsTyped DEF Init, TypeOK, CheckType, Windows, Times, Never
<1>2. TypeOK /\ [Next]_vars => TypeOK'
  <2> SUFFICES ASSUME TypeOK, [Next]_vars PROVE TypeOK'
    OBVIOUS
  <2>0. batch \in [Batches -> CheckType] /\ now \in Nat /\ faults \in Nat
    BY NatConstants DEF TypeOK, CheckType
  <2>1. ASSUME NEW b \in Batches, CheckAllLimits(b)
        PROVE  TypeOK'
    <3> DEFINE x == [Idle EXCEPT !.at = "checking", !.began = now, !.window = WindowOf(now),
                   !.incr = KeysOf(b)]
    <3>1. now \div Window \in Windows
      BY <2>0, InWindow, NatConstants DEF TypeOK, Windows
    <3>2. x \in CheckType
      BY <3>1, IdleIsTyped, KeysOfAreKeys DEF TypeOK, CheckType, WindowOf, Idle
    <3>3. log' \in [Batches -> Seq(Windows)] /\ \A c \in Batches : Len(log'[c]) <= Attempts
      <4>1. log[b] \in Seq(Windows) /\ Len(log[b]) < Attempts /\ Len(log[b]) \in Nat
        BY <2>1 DEF TypeOK, CheckAllLimits
      <4>2. Append(log[b], now \div Window) \in Seq(Windows)
            /\ Len(Append(log[b], now \div Window)) = Len(log[b]) + 1
        BY <3>1, <4>1
      <4>3. log' = [log EXCEPT ![b] = Append(log[b], now \div Window)]
        BY <2>1 DEF CheckAllLimits
      <4> QED  BY <4>1, <4>2, <4>3, NatConstants DEF TypeOK
    <3>4. batch' = [batch EXCEPT ![b] = x]
      BY <2>1 DEF CheckAllLimits
    <3> HIDE DEF x
    <3>5. batch' \in [Batches -> CheckType]
      BY <3>2, <3>4, BatchMoves
    <3> QED  BY <2>1, <3>3, <3>5 DEF CheckAllLimits, TypeOK, CheckType
  <2>2. ASSUME NEW b \in Batches, NEW k \in Keys, Incr(b, k)
        PROVE  TypeOK'
    <3> DEFINE w == batch[b].window
               ranks == [batch[b].rank EXCEPT ![k] = count[k][w] + 1]
               x == [batch[b] EXCEPT !.incr = @ \ {k}, !.expire = @ \cup {k}, !.rank = ranks]
    <3>1. w \in Windows /\ count[k][w] \in Nat /\ batch[b].rank \in [Keys -> Nat]
      BY <2>0 DEF TypeOK, CheckType
    <3>a. ranks \in [Keys -> Nat]
      BY <3>1
    <3>2. x \in CheckType
      BY <2>0, <3>a DEF CheckType
    <3>3. batch' = [batch EXCEPT ![b] = x]
      BY <2>0, <2>2 DEF Incr, CheckType
    <3>4. count' \in [Keys -> [Windows -> Nat]]
      BY <2>2, <3>1 DEF Incr, TypeOK
    <3> HIDE DEF x
    <3>5. batch' \in [Batches -> CheckType]
      BY <3>2, <3>3, BatchMoves
    <3> QED  BY <2>2, <3>4, <3>5 DEF Incr, TypeOK, CheckType
  <2>3. ASSUME NEW b \in Batches, NEW k \in Keys, Expire(b, k)
        PROVE  TypeOK'
    <3> DEFINE w == batch[b].window
               x == [batch[b] EXCEPT !.expire = @ \ {k}]
    <3>1. w \in Windows /\ x \in CheckType
      BY <2>0 DEF CheckType
    <3>2. batch' = [batch EXCEPT ![b] = x]
      BY <2>3 DEF Expire
    <3>3. now + Ttl \in Times
      BY <2>0, NatConstants DEF TypeOK, Times
    <3>4. dies' \in [Keys -> [Windows -> Times \cup {Never}]]
      BY <2>3, <3>1, <3>3 DEF Expire, TypeOK
    <3> HIDE DEF x
    <3>5. batch' \in [Batches -> CheckType]
      BY <3>1, <3>2, BatchMoves
    <3> QED  BY <2>3, <3>4, <3>5 DEF Expire, TypeOK, CheckType
  <2>4. ASSUME NEW b \in Batches, NEW k \in Keys, FailOpen(b, k)
        PROVE  TypeOK'
    <3> DEFINE w == batch[b].window
               ranks == [batch[b].rank EXCEPT ![k] = 0]
               x == [batch[b] EXCEPT !.incr = @ \ {k}, !.expire = @ \ {k}, !.rank = ranks]
    <3>1. w \in Windows /\ batch[b].rank \in [Keys -> Nat]
      BY <2>0 DEF CheckType
    <3>a. ranks \in [Keys -> Nat]
      BY <3>1
    <3>b. x \in CheckType
      BY <2>0, <3>a DEF CheckType
    <3>2. batch' = [batch EXCEPT ![b] = x]
      <4>1. batch' = [batch EXCEPT ![b].incr = @ \ {k}, ![b].expire = @ \ {k}, ![b].rank[k] = 0]
        BY <2>4 DEF FailOpen
      <4> QED  BY <2>0, <4>1 DEF CheckType
    <3>3. count' \in [Keys -> [Windows -> Nat]]
      <4>1. count' = count \/ count' = [count EXCEPT ![k][w] = @ + 1]
        BY <2>4 DEF FailOpen
      <4>2. [count EXCEPT ![k][w] = @ + 1] \in [Keys -> [Windows -> Nat]]
        BY <3>1 DEF TypeOK
      <4> QED  BY <4>1, <4>2 DEF TypeOK
    <3>4. faults' \in 0 .. MaxFaults
      BY <2>0, <2>4, NatConstants DEF FailOpen, TypeOK
    <3> HIDE DEF x
    <3>5. batch' \in [Batches -> CheckType]
      BY <3>b, <3>2, BatchMoves
    <3> QED  BY <2>4, <3>3, <3>4, <3>5 DEF FailOpen, TypeOK, CheckType
  <2>5. ASSUME NEW b \in Batches, Send(b)
        PROVE  TypeOK'
    <3> DEFINE x == [batch[b] EXCEPT !.at = "sent", !.sent = now]
    <3>1. x \in CheckType
      BY <2>0 DEF TypeOK, CheckType
    <3>2. batch' = [batch EXCEPT ![b] = x]
      BY <2>0, <2>5 DEF Send, CheckType
    <3> HIDE DEF x
    <3>3. batch' \in [Batches -> CheckType]
      BY <3>1, <3>2, BatchMoves
    <3> QED  BY <2>5, <3>3 DEF Send, TypeOK, CheckType
  <2>6. ASSUME NEW b \in Batches, Refuse(b)
        PROVE  TypeOK'
    <3>1. [batch[b] EXCEPT !.at = "failed"] \in CheckType
      BY <2>0 DEF CheckType
    <3>2. batch' \in [Batches -> CheckType]
      BY <2>6, <3>1, IdleIsTyped, BatchMoves DEF Refuse
    <3> QED  BY <2>6, <3>2 DEF Refuse, TypeOK, CheckType
  <2>7. CASE Tick
    <3>1. now' \in 0 .. MaxTime
      BY <2>0, <2>7, NatConstants DEF Tick, TypeOK
    <3>2. count' \in [Keys -> [Windows -> Nat]] /\ dies' \in [Keys -> [Windows -> Times \cup {Never}]]
      BY <2>7 DEF Tick, TypeOK
    <3> QED  BY <2>7, <3>1, <3>2 DEF Tick, TypeOK
  <2>8. CASE UNCHANGED vars
    BY <2>8 DEF vars, TypeOK
  <2> QED  BY <2>1, <2>2, <2>3, <2>4, <2>5, <2>6, <2>7, <2>8 DEF Next, Check
<1> QED  BY <1>1, <1>2, PTL DEF Spec

-----------------------------------------------------------------------------
(* The limit *)

\* The check x of batch b at time t: its commands are carried out within MaxLag of its window.
Timely(x, b, t) ==
  /\ x.window * Window <= x.began /\ x.began < x.window * Window + Window /\ x.began <= t
  /\ x.incr # {} => t <= x.began + MaxLag
  /\ x.at # "checking" => x.incr = {} /\ x.expire = {}
  /\ x.at = "sent" => \A k \in KeysOf(b) : x.rank[k] <= MaxOf(k)

\* All INCRs of window w have been carried out.
Past(w) == now >= w * Window + Ttl

\* A counter lives until its window is past.
LivesOn == \A k \in Keys, w \in Windows : dies[k][w] = Never \/ dies[k][w] >= w * Window + Ttl

\* Ranks are numbers that the counter has answered, and no two are the same.
Counted == \A b \in Batches, k \in Keys :
  \/ batch[b].rank[k] = 0
  \/ batch[b].rank[k] <= count[k][batch[b].window]
  \/ Past(batch[b].window)

Distinct == \A b, c \in Batches, k \in Keys :
  (batch[b].rank[k] = batch[c].rank[k] /\ batch[b].window = batch[c].window
     /\ batch[b].rank[k] # 0) => b = c

LimitInv ==
  /\ \A b \in Batches : Timely(batch[b], b, now)
  /\ LivesOn /\ Counted /\ Distinct

LEMMA Typed ==
  ASSUME TypeOK
  PROVE  /\ now \in Nat /\ now <= MaxTime /\ batch \in [Batches -> CheckType]
         /\ \A b \in Batches :
              /\ batch[b] \in CheckType /\ batch[b].window \in Windows /\ batch[b].window \in Nat
              /\ batch[b].began \in Nat /\ batch[b].window * Window \in Nat
              /\ \A k \in Keys : batch[b].rank[k] \in Nat /\ count[k][batch[b].window] \in Nat
<1>1. batch \in [Batches -> CheckType] /\ now \in Nat /\ now <= MaxTime
  BY NatConstants DEF TypeOK, CheckType
<1>2. ASSUME NEW b \in Batches
      PROVE  /\ batch[b] \in CheckType /\ batch[b].window \in Windows /\ batch[b].window \in Nat
             /\ batch[b].began \in Nat
             /\ \A k \in Keys : batch[b].rank[k] \in Nat /\ count[k][batch[b].window] \in Nat
  <2>1. batch[b] \in CheckType
    BY <1>1
  <2>2. batch[b].window \in Windows /\ batch[b].began \in 0 .. MaxTime /\ batch[b].rank \in [Keys -> Nat]
    BY <2>1 DEF CheckType
  <2>3. count \in [Keys -> [Windows -> Nat]]
    BY DEF TypeOK
  <2>4. batch[b].window \in Nat /\ batch[b].began \in Nat
    <3>1. batch[b].window \in Nat
      BY <2>2, WindowsAreNat
    <3>2. batch[b].began \in Nat
      BY <2>2, RateLimiterAssumption
    <3> QED  BY <3>1, <3>2
  <2>5. \A k \in Keys : batch[b].rank[k] \in Nat /\ count[k][batch[b].window] \in Nat
    BY <2>2, <2>3
  <2> QED  BY <2>1, <2>2, <2>4, <2>5
<1>3. \A b \in Batches : batch[b].window * Window \in Nat
  BY <1>2, NatConstants
<1> QED  BY <1>1, <1>2, <1>3

\* While a batch waits for its INCR, its counter lives.
LEMMA NotPast ==
  ASSUME TypeOK, NEW b \in Batches, Timely(batch[b], b, now), batch[b].incr # {}
  PROVE  ~Past(batch[b].window)
<1> DEFINE start == batch[b].window * Window
<1>1. now <= batch[b].began + MaxLag /\ batch[b].began < start + Window
  BY DEF Timely
<1>2. start \in Nat /\ batch[b].began \in Nat /\ now \in Nat
  BY Typed
<1>3. Past(batch[b].window) <=> now >= start + Ttl
  BY DEF Past
<1> HIDE DEF start
<1> QED  BY <1>1, <1>2, <1>3, NatConstants

\* Checks that change neither rank nor counter.
LEMMA LimitMove ==
  ASSUME TypeOK, LimitInv, NEW b \in Batches, NEW x \in CheckType, batch' = [batch EXCEPT ![b] = x],
         Timely(x, b, now), now' = now, LivesOn',
         \A k \in Keys, w \in Windows : count'[k][w] \in Nat /\ count'[k][w] >= count[k][w],
         \A k \in Keys : x.rank[k] = 0 \/ (x.rank[k] = batch[b].rank[k] /\ x.window = batch[b].window)
  PROVE  LimitInv'
<1>1. \A c \in Batches : batch'[c] = IF c = b THEN x ELSE batch[c]
  BY Typed
<1>2. \A c \in Batches : Timely(batch'[c], c, now')
  BY <1>1 DEF LimitInv
<1>3. Counted'
  <2> SUFFICES ASSUME NEW c \in Batches, NEW k \in Keys
               PROVE  \/ batch'[c].rank[k] = 0
                      \/ batch'[c].rank[k] <= count'[k][batch'[c].window]
                      \/ now' >= batch'[c].window * Window + Ttl
    BY DEF Counted, Past
  <2>1. count'[k][batch[c].window] \in Nat /\ count'[k][batch[c].window] >= count[k][batch[c].window]
    BY Typed
  <2>2. \/ batch[c].rank[k] = 0
        \/ batch[c].rank[k] <= count[k][batch[c].window]
        \/ now >= batch[c].window * Window + Ttl
    BY DEF LimitInv, Counted, Past
  <2>3. batch'[c].rank[k] = 0
        \/ (batch'[c].rank[k] = batch[c].rank[k] /\ batch'[c].window = batch[c].window)
    BY <1>1
  <2>4. batch[c].rank[k] \in Nat /\ count[k][batch[c].window] \in Nat
    BY Typed
  <2> QED  BY <2>1, <2>2, <2>3, <2>4
<1>4. Distinct'
  <2> SUFFICES ASSUME NEW c \in Batches, NEW d \in Batches, NEW k \in Keys,
                      batch'[c].rank[k] = batch'[d].rank[k], batch'[c].window = batch'[d].window,
                      batch'[c].rank[k] # 0
               PROVE  c = d
    BY DEF Distinct
  <2>1. batch'[c].rank[k] = batch[c].rank[k] /\ batch'[c].window = batch[c].window
    BY <1>1
  <2>2. batch'[d].rank[k] = batch[d].rank[k] /\ batch'[d].window = batch[d].window
    BY <1>1
  <2> QED  BY <2>1, <2>2 DEF LimitInv, Distinct
<1> QED  BY <1>2, <1>3, <1>4 DEF LimitInv

\* INCR answers a number that no other batch of the window has.
LEMMA LimitIncr ==
  ASSUME TypeOK, LimitInv, NEW b \in Batches, NEW k \in Keys, Incr(b, k)
  PROVE  LimitInv'
<1> DEFINE w == batch[b].window
<1>0. Timely(batch[b], b, now) /\ batch[b].incr # {} /\ k \in batch[b].incr
  BY DEF LimitInv, Incr
<1>1. ~Past(w) /\ w \in Windows /\ count[k][w] \in Nat
  BY <1>0, NotPast, Typed
<1>2. batch' = [batch EXCEPT ![b].incr = @ \ {k}, ![b].expire = @ \cup {k}, ![b].rank[k] = count[k][w] + 1]
  BY DEF Incr
<1>3. /\ \A c \in Batches : c # b => batch'[c] = batch[c]
      /\ batch'[b].at = batch[b].at /\ batch'[b].began = batch[b].began /\ batch'[b].window = w
      /\ batch'[b].incr = batch[b].incr \ {k}
      /\ batch'[b].rank[k] = count[k][w] + 1
      /\ \A j \in Keys : j # k => batch'[b].rank[j] = batch[b].rank[j]
  BY <1>2, Typed DEF CheckType
<1>4. /\ count'[k][w] = count[k][w] + 1 /\ now' = now /\ dies' = dies
      /\ \A j \in Keys, v \in Windows : j # k \/ v # w => count'[j][v] = count[j][v]
  BY <1>1 DEF Incr, TypeOK
<1>5. \A c \in Batches : Timely(batch'[c], c, now')
  <2>1. batch[b].at = "checking"
    BY <1>0 DEF Timely
  <2>2. Timely(batch'[b], b, now)
    BY <1>0, <1>3, <2>1 DEF Timely
  <2> QED  BY <1>3, <1>4, <2>2 DEF LimitInv
<1>6. LivesOn'
  BY <1>4 DEF LimitInv, LivesOn
<1>7. Counted'
  <2> SUFFICES ASSUME NEW c \in Batches, NEW j \in Keys
               PROVE  \/ batch'[c].rank[j] = 0
                      \/ batch'[c].rank[j] <= count'[j][batch'[c].window]
                      \/ now' >= batch'[c].window * Window + Ttl
    BY DEF Counted, Past
  <2>1. CASE c = b /\ j = k
    BY <1>1, <1>3, <1>4, <2>1
  <2>2. CASE c # b \/ j # k
    <3>1. batch'[c].rank[j] = batch[c].rank[j] /\ batch'[c].window = batch[c].window
      BY <1>3, <2>2
    <3>2. batch[c].window \in Windows /\ batch[c].rank[j] \in Nat /\ count[j][batch[c].window] \in Nat
      BY Typed
    <3>3. count'[j][batch[c].window] \in Nat /\ count'[j][batch[c].window] >= count[j][batch[c].window]
      BY <1>1, <1>4, <3>2
    <3>4. \/ batch[c].rank[j] = 0
          \/ batch[c].rank[j] <= count[j][batch[c].window]
          \/ now >= batch[c].window * Window + Ttl
      BY DEF LimitInv, Counted, Past
    <3> QED  BY <1>4, <3>1, <3>2, <3>3, <3>4
  <2> QED  BY <2>1, <2>2
<1>8. Distinct'
  <2>1. \A c \in Batches : batch[c].window = w => batch[c].rank[k] < count[k][w] + 1
    <3> SUFFICES ASSUME NEW c \in Batches, batch[c].window = w
                 PROVE  batch[c].rank[k] < count[k][w] + 1
      OBVIOUS
    <3>1. batch[c].rank[k] = 0 \/ batch[c].rank[k] <= count[k][w]
      BY <1>1 DEF LimitInv, Counted
    <3>2. batch[c].rank[k] \in Nat
      BY Typed
    <3> QED  BY <1>1, <3>1, <3>2
  <2> SUFFICES ASSUME NEW c \in Batches, NEW d \in Batches, NEW j \in Keys,
                      batch'[c].rank[j] = batch'[d].rank[j], batch'[c].window = batch'[d].window,
                      batch'[c].rank[j] # 0, c # d
               PROVE  FALSE
    BY DEF Distinct
  <2>2. CASE j = k /\ c = b
    <3>1. batch[d].rank[k] = count[k][w] + 1 /\ batch[d].window = w
      BY <1>3, <2>2
    <3>2. batch[d].rank[k] < count[k][w] + 1
      BY <2>1, <3>1
    <3> QED  BY <1>1, <3>1, <3>2
  <2>3. CASE j = k /\ d = b
    <3>1. batch[c].rank[k] = count[k][w] + 1 /\ batch[c].window = w
      BY <1>3, <2>3
    <3>2. batch[c].rank[k] < count[k][w] + 1
      BY <2>1, <3>1
    <3> QED  BY <1>1, <3>1, <3>2
  <2>4. CASE j # k \/ (c # b /\ d # b)
    <3>1. batch[c].rank[j] = batch[d].rank[j] /\ batch[c].window = batch[d].window /\ batch[c].rank[j] # 0
      BY <1>3, <2>4
    <3> QED  BY <3>1 DEF LimitInv, Distinct
  <2> QED  BY <2>2, <2>3, <2>4
<1> QED  BY <1>5, <1>6, <1>7, <1>8 DEF LimitInv

\* When Redis drops a counter its window is past.
LEMMA LimitTick ==
  ASSUME TypeOK, LimitInv, Tick
  PROVE  LimitInv'
<1>1. /\ now' = now + 1 /\ now < MaxTime /\ batch' = batch /\ now \in Nat
      /\ \A b \in Batches : batch[b].incr # {} => now < batch[b].began + MaxLag
  BY Typed DEF Tick
<1>2. ASSUME NEW b \in Batches
      PROVE  Timely(batch'[b], b, now')
  <2>1. Timely(batch[b], b, now) /\ batch[b].began \in Nat
    BY Typed DEF LimitInv
  <2>2. batch[b].began <= now' /\ (batch[b].incr # {} => now' <= batch[b].began + MaxLag)
    BY <1>1, <2>1, NatConstants DEF Timely
  <2> QED  BY <1>1, <2>1, <2>2 DEF Timely
<1>3. ASSUME NEW k \in Keys, NEW w \in Windows
      PROVE  /\ dies'[k][w] = Never \/ dies'[k][w] >= w * Window + Ttl
             /\ count'[k][w] = count[k][w] \/ now' >= w * Window + Ttl
  <2>1. /\ dies'[k][w] = IF dies[k][w] <= now' THEN Never ELSE dies[k][w]
        /\ count'[k][w] = IF dies[k][w] <= now' THEN 0 ELSE count[k][w]
    BY DEF Tick
  <2>2. dies[k][w] = Never \/ dies[k][w] >= w * Window + Ttl
    BY DEF LimitInv, LivesOn
  <2>3. w * Window \in Nat /\ dies[k][w] \in Nat
    <3>1. w \in Nat /\ Window \in Nat
      BY WindowsAreNat, NatConstants
    <3> QED  BY <3>1, NatConstants DEF TypeOK, Times, Never
  <2>4. Never > now'
    BY <1>1, NatConstants DEF Never
  <2> DEFINE start == w * Window
  <2> HIDE DEF start
  <2> QED  BY <1>1, <2>1, <2>2, <2>3, <2>4, NatConstants DEF Never
<1>4. LivesOn'
  BY <1>3 DEF LivesOn
<1>5. Counted'
  <2> SUFFICES ASSUME NEW b \in Batches, NEW k \in Keys
               PROVE  \/ batch[b].rank[k] = 0
                      \/ batch[b].rank[k] <= count'[k][batch[b].window]
                      \/ now' >= batch[b].window * Window + Ttl
    BY <1>1 DEF Counted, Past
  <2> DEFINE start == batch[b].window * Window
  <2>1. \/ batch[b].rank[k] = 0
        \/ batch[b].rank[k] <= count[k][batch[b].window]
        \/ now >= start + Ttl
    BY DEF LimitInv, Counted, Past
  <2>2. start \in Nat /\ batch[b].window \in Windows
    BY Typed
  <2>3. count'[k][batch[b].window] = count[k][batch[b].window] \/ now' >= start + Ttl
    BY <1>3, <2>2
  <2> HIDE DEF start
  <2>4. now >= start + Ttl => now' >= start + Ttl
    BY <1>1, <2>2, NatConstants
  <2>5. batch[b].rank[k] = 0 \/ batch[b].rank[k] <= count'[k][batch[b].window] \/ now' >= start + Ttl
    BY <2>1, <2>3, <2>4
  <2> QED  BY <2>5 DEF start
<1>6. Distinct'
  BY <1>1 DEF LimitInv, Distinct
<1> QED  BY <1>2, <1>4, <1>5, <1>6 DEF LimitInv

LEMMA LimitStep ==
  ASSUME TypeOK, LimitInv, [Next]_vars
  PROVE  LimitInv'
<1>0. \A b \in Batches : Timely(batch[b], b, now)
  BY DEF LimitInv
<1>1. ASSUME UNCHANGED <<count, dies, now>>
      PROVE  /\ LivesOn' /\ now' = now
             /\ \A k \in Keys, w \in Windows : count'[k][w] \in Nat /\ count'[k][w] >= count[k][w]
  <2>1. \A k \in Keys, w \in Windows : count[k][w] \in Nat
    BY DEF TypeOK
  <2> QED  BY <1>1, <2>1 DEF LimitInv, LivesOn
<1>2. ASSUME NEW b \in Batches, CheckAllLimits(b)
      PROVE  LimitInv'
  <2> DEFINE x == [Idle EXCEPT !.at = "checking", !.began = now, !.window = WindowOf(now),
                 !.incr = KeysOf(b)]
  <2>1. now \div Window \in Windows /\ now \in 0 .. MaxTime
    BY Typed, InWindow, NatConstants DEF TypeOK, Windows
  <2>2. x \in CheckType
    BY <2>1, IdleIsTyped, KeysOfAreKeys DEF CheckType, WindowOf, Idle
  <2>3. Timely(x, b, now)
    BY Typed, InWindow, NatConstants DEF Timely, Idle, WindowOf
  <2>4. (\A k \in Keys : x.rank[k] = 0) /\ batch' = [batch EXCEPT ![b] = x]
    BY <1>2 DEF Idle, CheckAllLimits
  <2>5. UNCHANGED <<count, dies, now>>
    BY <1>2 DEF CheckAllLimits
  <2> HIDE DEF x
  <2> QED  BY <1>1, <2>2, <2>3, <2>4, <2>5, LimitMove
<1>3. ASSUME NEW b \in Batches, NEW k \in Keys, Expire(b, k)
      PROVE  LimitInv'
  <2> DEFINE x == [batch[b] EXCEPT !.expire = @ \ {k}]
             w == batch[b].window
  <2>1. x \in CheckType /\ w \in Windows
    BY Typed DEF CheckType
  <2>2. batch' = [batch EXCEPT ![b] = x] /\ UNCHANGED <<now, count>>
    BY <1>3 DEF Expire
  <2>3. Timely(x, b, now)
    <3>1. x.at = batch[b].at /\ x.began = batch[b].began /\ x.window = w /\ x.incr = batch[b].incr
          /\ x.rank = batch[b].rank /\ x.expire = batch[b].expire \ {k}
      BY Typed DEF CheckType
    <3> HIDE DEF x
    <3> QED  BY <1>0, <3>1 DEF Timely
  <2>4. \A j \in Keys : x.rank[j] = batch[b].rank[j] /\ x.window = batch[b].window
    BY Typed DEF CheckType
  <2>5. now + Ttl >= w * Window + Ttl
    <3> DEFINE start == w * Window
    <3>1. start <= batch[b].began /\ batch[b].began <= now
      BY <1>0 DEF Timely
    <3>2. start \in Nat /\ batch[b].began \in Nat /\ now \in Nat
      BY Typed
    <3> HIDE DEF start
    <3>3. now + Ttl >= start + Ttl
      BY <3>1, <3>2, NatConstants
    <3> QED  BY <3>3 DEF start
  <2>6. \A j \in Keys, v \in Windows :
          dies'[j][v] = dies[j][v] \/ (v = w /\ dies'[j][v] = now + Ttl)
    BY <1>3, <2>1 DEF Expire, TypeOK
  <2>7. LivesOn'
    BY <2>5, <2>6 DEF LimitInv, LivesOn
  <2>8. \A j \in Keys, v \in Windows : count'[j][v] \in Nat /\ count'[j][v] >= count[j][v]
    <3>1. \A j \in Keys, v \in Windows : count[j][v] \in Nat
      BY DEF TypeOK
    <3> QED  BY <2>2, <3>1
  <2> HIDE DEF x
  <2> QED  BY <2>1, <2>2, <2>3, <2>4, <2>7, <2>8, LimitMove
<1>4. ASSUME NEW b \in Batches, NEW k \in Keys, FailOpen(b, k)
      PROVE  LimitInv'
  <2> DEFINE w == batch[b].window
             ranks == [batch[b].rank EXCEPT ![k] = 0]
             x == [batch[b] EXCEPT !.incr = @ \ {k}, !.expire = @ \ {k}, !.rank = ranks]
  <2>1. w \in Windows /\ batch[b] \in CheckType /\ batch[b].rank \in [Keys -> Nat]
    BY Typed DEF CheckType
  <2>2. ranks \in [Keys -> Nat] /\ \A j \in Keys : ranks[j] = 0 \/ ranks[j] = batch[b].rank[j]
    BY <2>1
  <2>3. x \in CheckType
    BY <2>1, <2>2 DEF CheckType
  <2>4. batch' = [batch EXCEPT ![b] = x]
    <3>1. batch' = [batch EXCEPT ![b].incr = @ \ {k}, ![b].expire = @ \ {k}, ![b].rank[k] = 0]
      BY <1>4 DEF FailOpen
    <3> QED  BY <3>1, Typed DEF CheckType
  <2>5. /\ x.at = batch[b].at /\ x.began = batch[b].began /\ x.window = w
        /\ x.incr = batch[b].incr \ {k} /\ x.rank = ranks
    BY <2>1 DEF CheckType
  <2> HIDE DEF x, ranks
  <2>6. batch[b].at = "checking"
    BY <1>0, <1>4 DEF Timely, FailOpen
  <2>7. Timely(x, b, now)
    BY <1>0, <2>5, <2>6 DEF Timely
  <2>8. \A j \in Keys, v \in Windows : count'[j][v] \in Nat /\ count'[j][v] >= count[j][v]
    <3>1. count' = count \/ count' = [count EXCEPT ![k][w] = @ + 1]
      BY <1>4 DEF FailOpen
    <3>2. \A j \in Keys, v \in Windows : count[j][v] \in Nat
      BY DEF TypeOK
    <3>3. \A j \in Keys, v \in Windows : count'[j][v] = count[j][v] \/ count'[j][v] = count[j][v] + 1
      <4>1. CASE count' = count
        BY <4>1
      <4>2. CASE count' = [count EXCEPT ![k][w] = @ + 1]
        BY <2>1, <4>2 DEF TypeOK
      <4> QED  BY <3>1, <4>1, <4>2
    <3> QED  BY <3>2, <3>3
  <2>9. LivesOn' /\ now' = now
    BY <1>4 DEF FailOpen, LimitInv, LivesOn
  <2> QED  BY <2>2, <2>3, <2>4, <2>5, <2>7, <2>8, <2>9, LimitMove
<1>5. ASSUME NEW b \in Batches, Send(b)
      PROVE  LimitInv'
  <2> DEFINE x == [batch[b] EXCEPT !.at = "sent", !.sent = now]
  <2>1. x \in CheckType
    BY Typed DEF TypeOK, CheckType
  <2>2. batch' = [batch EXCEPT ![b] = x]
    BY <1>5, Typed DEF Send, CheckType
  <2>3. Timely(x, b, now)
    <3>1. x.began = batch[b].began /\ x.window = batch[b].window /\ x.incr = {} /\ x.expire = {}
          /\ x.rank = batch[b].rank
      BY <1>5, Typed DEF CheckType, Send, Answered
    <3>2. \A k \in KeysOf(b) : batch[b].rank[k] <= MaxOf(k)
      BY <1>5 DEF Send, Allowed
    <3> HIDE DEF x
    <3> QED  BY <1>0, <3>1, <3>2 DEF Timely
  <2>4. \A k \in Keys : x.rank[k] = batch[b].rank[k] /\ x.window = batch[b].window
    BY Typed DEF CheckType
  <2>5. UNCHANGED <<count, dies, now>>
    BY <1>5 DEF Send
  <2> HIDE DEF x
  <2> QED  BY <1>1, <2>1, <2>2, <2>3, <2>4, <2>5, LimitMove
<1>6. ASSUME NEW b \in Batches, Refuse(b)
      PROVE  LimitInv'
  <2>1. Timely(Idle, b, now) /\ \A k \in Keys : Idle.rank[k] = 0
    BY Typed, NatConstants DEF Timely, Idle
  <2> DEFINE x == [batch[b] EXCEPT !.at = "failed"]
  <2>2. x \in CheckType /\ x.window = batch[b].window /\ x.rank = batch[b].rank
    BY Typed DEF CheckType
  <2>3. Timely(x, b, now)
    <3>1. x.at = "failed" /\ x.began = batch[b].began /\ x.incr = {} /\ x.expire = {}
      BY <1>6, Typed DEF CheckType, Refuse, Answered
    <3> HIDE DEF x
    <3> QED  BY <1>0, <2>2, <3>1 DEF Timely
  <2>4. UNCHANGED <<count, dies, now>> /\ (batch' = [batch EXCEPT ![b] = Idle]
                                            \/ batch' = [batch EXCEPT ![b] = x])
    BY <1>6 DEF Refuse
  <2> HIDE DEF x
  <2> QED  BY <1>1, <2>1, <2>2, <2>3, <2>4, IdleIsTyped, LimitMove
<1>7. CASE UNCHANGED vars
  BY <1>7 DEF vars, LimitInv, LivesOn, Counted, Distinct, Past
<1> QED  BY <1>2, <1>3, <1>4, <1>5, <1>6, <1>7, LimitIncr, LimitTick DEF Next, Check

\* No more batches checked in a window are sent than its limit allows.
LEMMA LimitHolds == TypeOK /\ LimitInv => WindowHolds
<1> SUFFICES ASSUME TypeOK, LimitInv, NEW k \in Keys, NEW w \in Windows
             PROVE  Cardinality(Sent(k, w)) <= MaxOf(k)
  BY DEF WindowHolds
<1> DEFINE S == Sent(k, w)
           f == [b \in S |-> batch[b].rank[k]]
<1>1. IsFiniteSet(1 .. MaxOf(k)) /\ Cardinality(1 .. MaxOf(k)) = MaxOf(k)
  BY NatConstants, FS_Interval
<1>2. \A b \in S : /\ b \in Batches /\ batch[b].at = "sent" /\ batch[b].window = w
                   /\ k \in KeysOf(b) /\ batch[b].rank[k] # 0
  BY DEF Sent
<1>3. \A b \in S : batch[b].rank[k] \in 1 .. MaxOf(k)
  BY <1>2, Typed, NatConstants DEF LimitInv, Timely
<1>4. f \in Injection(S, 1 .. MaxOf(k))
  <2>1. f \in [S -> 1 .. MaxOf(k)]
    BY <1>3
  <2>2. \A b, c \in S : f[b] = f[c] => b = c
    BY <1>2 DEF LimitInv, Distinct
  <2>3. IsInjective(f)
    BY <2>2 DEF IsInjective
  <2> QED  BY <2>1, <2>3 DEF Injection
<1>5. Cardinality(S) <= Cardinality(1 .. MaxOf(k))
  BY <1>1, <1>4, FS_Injection
<1> QED  BY <1>1, <1>5

\* No window of time sees more batches of an account, or of a tenant, sent than its limit allows,
\* unless a check failed open (rateLimiter.service.js).
THEOREM Limits == Spec => []WindowHolds
<1>1. Init => LimitInv
  <2> SUFFICES ASSUME Init PROVE LimitInv
    OBVIOUS
  <2>1. \A b \in Batches : Timely(batch[b], b, now)
    BY NatConstants DEF Init, Timely, Idle
  <2> QED  BY <2>1 DEF Init, LimitInv, LivesOn, Counted, Distinct, Idle
<1>2. TypeOK /\ LimitInv /\ [Next]_vars => LimitInv'
  BY LimitStep
<1> QED  BY <1>1, <1>2, LimitHolds, TypeCorrect, PTL DEF Spec

-----------------------------------------------------------------------------
(* What a batch is refused for *)

\* The batches whose INCR of the counter of k in window w is still to be carried out.
Waiting(k, w) == {b \in Batches : k \in batch[b].incr /\ batch[b].window = w}

\* A batch sends commands for its own keys, in the window of the moment it began.
Own(x, b) ==
  /\ x.incr \subseteq KeysOf(b)
  /\ x.incr # {} => x.at = "checking"
  /\ x.at = "checking" => x.window = x.began \div Window

\* A counter has counted checks of its window, and none that still waits.
EarnedInv ==
  /\ \A b \in Batches : Own(batch[b], b)
  /\ \A k \in Keys, w \in Windows :
       count[k][w] + Cardinality(Waiting(k, w)) <= Cardinality(Checks(k, w))
  /\ \A b \in Batches, k \in Keys, w \in Windows :
       (batch[b].at = "checking" /\ batch[b].window = w) => batch[b].rank[k] <= Cardinality(Checks(k, w))

LEMMA InChecks ==
  ASSUME NEW k, NEW w, NEW p
  PROVE  p \in Checks(k, w) <=> \E b \in Batches : \E i \in 1 .. Len(log[b]) :
                                  k \in KeysOf(b) /\ log[b][i] = w /\ p = <<b, i>>
BY DEF Checks

LEMMA FiniteSets ==
  ASSUME TypeOK, NEW k \in Keys, NEW w \in Windows
  PROVE  /\ IsFiniteSet(Checks(k, w)) /\ Cardinality(Checks(k, w)) \in Nat
         /\ IsFiniteSet(Waiting(k, w)) /\ Cardinality(Waiting(k, w)) \in Nat
<1>1. IsFiniteSet(Batches) /\ IsFiniteSet(1 .. Attempts)
  BY RateLimiterAssumption, FS_Interval
<1>2. Checks(k, w) \in SUBSET (Batches \X (1 .. Attempts))
  <2> SUFFICES ASSUME NEW p \in Checks(k, w) PROVE p \in Batches \X (1 .. Attempts)
    OBVIOUS
  <2>1. PICK b \in Batches : \E j \in 1 .. Len(log[b]) : p = <<b, j>>
    BY InChecks
  <2>2. Len(log[b]) \in Nat /\ Len(log[b]) <= Attempts
    BY DEF TypeOK
  <2> QED  BY <2>1, <2>2, NatConstants
<1>3. IsFiniteSet(Checks(k, w))
  BY <1>1, <1>2, FS_Product, FS_Subset
<1>4. Waiting(k, w) \in SUBSET Batches
  BY DEF Waiting
<1>5. IsFiniteSet(Waiting(k, w))
  BY <1>1, <1>4, FS_Subset
<1> QED  BY <1>3, <1>5, FS_CardinalityType

FiniteChecks == \A k \in Keys, w \in Windows :
  IsFiniteSet(Checks(k, w)) /\ Cardinality(Checks(k, w)) \in Nat

LEMMA FiniteChecksNext == TypeOK' => FiniteChecks'
<1>1. TypeOK => FiniteChecks
  BY FiniteSets DEF FiniteChecks
<1> QED  BY <1>1, PTL

\* A step that sends no command keeps what the counters have earned.
LEMMA EarnedMove ==
  ASSUME TypeOK, TypeOK', EarnedInv, NEW b \in Batches, NEW x \in CheckType,
         batch' = [batch EXCEPT ![b] = x], log' = log, Own(x, b),
         x.incr = {} \/ (x.incr \subseteq batch[b].incr /\ x.window = batch[b].window),
         \A k \in Keys, w \in Windows :
           count'[k][w] = count[k][w]
             \/ (/\ count'[k][w] = count[k][w] + 1
                 /\ k \in batch[b].incr /\ k \notin x.incr /\ w = batch[b].window),
         x.at = "checking" => \A k \in Keys :
           x.rank[k] <= Cardinality(Checks(k, x.window))
  PROVE  EarnedInv'
<1>1. \A c \in Batches : batch'[c] = IF c = b THEN x ELSE batch[c]
  BY Typed
<1>2. \A k, w : Checks(k, w)' = Checks(k, w)
  BY DEF Checks, KeysOf
<1>3. \A c \in Batches : Own(batch'[c], c)
  BY <1>1 DEF EarnedInv
<1>4. ASSUME NEW k \in Keys, NEW w \in Windows
      PROVE  count'[k][w] + Cardinality(Waiting(k, w)') <= Cardinality(Checks(k, w)')
  <2>1. Waiting(k, w)' \in SUBSET Waiting(k, w)
    BY <1>1 DEF Waiting
  <2>2. /\ IsFiniteSet(Waiting(k, w)) /\ Cardinality(Waiting(k, w)) \in Nat
        /\ Cardinality(Checks(k, w)) \in Nat
    BY FiniteSets
  <2>3. Cardinality(Waiting(k, w)') <= Cardinality(Waiting(k, w)) /\ Cardinality(Waiting(k, w)') \in Nat
    BY <2>1, <2>2, FS_Subset, FS_CardinalityType
  <2>4. count[k][w] + Cardinality(Waiting(k, w)) <= Cardinality(Checks(k, w)) /\ count[k][w] \in Nat
    BY DEF EarnedInv, TypeOK
  <2>5. CASE count'[k][w] = count[k][w]
    BY <1>2, <2>2, <2>3, <2>4, <2>5
  <2>6. CASE /\ count'[k][w] = count[k][w] + 1
             /\ k \in batch[b].incr /\ k \notin x.incr /\ w = batch[b].window
    <3>1. b \in Waiting(k, w) /\ Waiting(k, w)' \in SUBSET (Waiting(k, w) \ {b})
      BY <1>1, <2>1, <2>6 DEF Waiting
    <3>2. /\ IsFiniteSet(Waiting(k, w) \ {b})
          /\ Cardinality(Waiting(k, w) \ {b}) = Cardinality(Waiting(k, w)) - 1
      BY <2>2, <3>1, FS_RemoveElement
    <3>3. Cardinality(Waiting(k, w)') <= Cardinality(Waiting(k, w)) - 1
      BY <3>1, <3>2, FS_Subset
    <3> QED  BY <1>2, <2>2, <2>3, <2>4, <2>6, <3>3
  <2> QED  BY <2>5, <2>6
<1>5. ASSUME NEW c \in Batches, NEW k \in Keys, NEW w \in Windows,
             batch'[c].at = "checking", batch'[c].window = w
      PROVE  batch'[c].rank[k] <= Cardinality(Checks(k, w)')
  BY <1>1, <1>2, <1>5 DEF EarnedInv
<1>6. \A k \in Keys, w \in Windows :
        count'[k][w] + Cardinality(Waiting(k, w)') <= Cardinality(Checks(k, w)')
  BY <1>4
<1>7. \A c \in Batches, k \in Keys :
        \A w \in Windows : (batch'[c].at = "checking" /\ batch'[c].window = w) =>
          batch'[c].rank[k] <= Cardinality(Checks(k, w)')
  BY <1>5
<1> QED  BY <1>3, <1>6, <1>7 DEF EarnedInv

\* A check begins: it is in the log, and its commands wait.
LEMMA EarnedCheck ==
  ASSUME TypeOK, TypeOK', EarnedInv, NEW b \in Batches, CheckAllLimits(b)
  PROVE  EarnedInv'
<1> DEFINE v == now \div Window
           i == Len(log[b]) + 1
<1>1. /\ batch'[b] = [Idle EXCEPT !.at = "checking", !.began = now, !.window = v, !.incr = KeysOf(b)]
      /\ \A c \in Batches : c # b => batch'[c] = batch[c]
  BY Typed DEF CheckAllLimits, WindowOf
<1>2. /\ batch'[b].incr = KeysOf(b) /\ batch'[b].at = "checking" /\ batch'[b].window = v
      /\ batch'[b].began = now /\ \A k \in Keys : batch'[b].rank[k] = 0
  BY <1>1 DEF Idle
<1>3. batch[b].incr = {}
  <2>1. batch[b].at = "ready"
    BY DEF CheckAllLimits
  <2> QED  BY <2>1 DEF EarnedInv, Own
<1>4. /\ Len(log[b]) \in Nat /\ i \in Nat /\ Len(log'[b]) = i /\ log'[b][i] = v
      /\ \A j \in 1 .. Len(log[b]) : log'[b][j] = log[b][j]
      /\ \A c \in Batches : c # b => log'[c] = log[c]
  <2>1. v \in Windows
    BY Typed, InWindow, NatConstants DEF Windows
  <2>2. log[b] \in Seq(Windows) /\ log'[b] = Append(log[b], v)
        /\ \A c \in Batches : c # b => log'[c] = log[c]
    BY DEF TypeOK, CheckAllLimits
  <2> QED  BY <2>1, <2>2
<1>5. ASSUME NEW k \in Keys, NEW w \in Windows
      PROVE  /\ Cardinality(Checks(k, w)) <= Cardinality(Checks(k, w)')
             /\ count'[k][w] + Cardinality(Waiting(k, w)') <= Cardinality(Checks(k, w)')
  <2>1. /\ IsFiniteSet(Waiting(k, w)) /\ Cardinality(Waiting(k, w)) \in Nat
        /\ IsFiniteSet(Checks(k, w)) /\ Cardinality(Checks(k, w)) \in Nat
    BY FiniteSets
  <2>2. IsFiniteSet(Checks(k, w)') /\ Cardinality(Checks(k, w)') \in Nat
    BY FiniteChecksNext DEF FiniteChecks
  <2>3. Checks(k, w) \in SUBSET Checks(k, w)'
    <3> SUFFICES ASSUME NEW p \in Checks(k, w) PROVE p \in Checks(k, w)'
      OBVIOUS
    <3>1. PICK c \in Batches : \E j \in 1 .. Len(log[c]) : k \in KeysOf(c) /\ log[c][j] = w
                   /\ p = <<c, j>>
      BY InChecks
    <3>a. PICK j \in 1 .. Len(log[c]) : k \in KeysOf(c) /\ log[c][j] = w /\ p = <<c, j>>
      BY <3>1
    <3>2. j \in 1 .. Len(log'[c]) /\ log'[c][j] = w
      BY <1>4, <3>a
    <3> QED  BY <3>a, <3>2 DEF Checks, KeysOf
  <2>4. Cardinality(Checks(k, w)) <= Cardinality(Checks(k, w)')
    BY <2>2, <2>3, FS_Subset
  <2>5. count'[k][w] = count[k][w] /\ count[k][w] \in Nat
        /\ count[k][w] + Cardinality(Waiting(k, w)) <= Cardinality(Checks(k, w))
    BY DEF CheckAllLimits, EarnedInv, TypeOK
  <2>6. CASE k \in KeysOf(b) /\ w = v
    <3>1. Waiting(k, w)' = Waiting(k, w) \cup {b}
      BY <1>1, <1>2, <2>6 DEF Waiting
    <3>2. Cardinality(Waiting(k, w)') <= Cardinality(Waiting(k, w)) + 1
              /\ Cardinality(Waiting(k, w)') \in Nat
      <4>1. Cardinality(Waiting(k, w) \cup {b}) =
              IF b \in Waiting(k, w) THEN Cardinality(Waiting(k, w)) ELSE Cardinality(Waiting(k, w)) + 1
        BY <2>1, FS_AddElement
      <4> QED  BY <2>1, <3>1, <4>1
    <3>3. <<b, i>> \in Checks(k, w)'
      BY <1>4, <2>6 DEF Checks, KeysOf
    <3>4. <<b, i>> \notin Checks(k, w)
      BY <1>4, InChecks
    <3>5. /\ IsFiniteSet(Checks(k, w) \cup {<<b, i>>})
          /\ Cardinality(Checks(k, w) \cup {<<b, i>>}) = Cardinality(Checks(k, w)) + 1
      BY <2>1, <3>4, FS_AddElement
    <3>6. Checks(k, w) \cup {<<b, i>>} \in SUBSET Checks(k, w)'
      BY <2>3, <3>3
    <3>7. Cardinality(Checks(k, w)) + 1 <= Cardinality(Checks(k, w)')
      BY <2>2, <3>5, <3>6, FS_Subset
    <3> QED  BY <2>1, <2>2, <2>4, <2>5, <3>2, <3>7
  <2>7. CASE k \notin KeysOf(b) \/ w # v
    <3>1. Waiting(k, w)' = Waiting(k, w)
      BY <1>1, <1>2, <1>3, <2>7 DEF Waiting
    <3> QED  BY <2>1, <2>2, <2>4, <2>5, <3>1
  <2> QED  BY <2>6, <2>7
<1>6. \A c \in Batches : Own(batch'[c], c)
  BY <1>1, <1>2 DEF EarnedInv, Own
<1>7. ASSUME NEW c \in Batches, NEW k \in Keys, NEW w \in Windows,
             batch'[c].at = "checking", batch'[c].window = w
      PROVE  batch'[c].rank[k] <= Cardinality(Checks(k, w)')
  <2>1. Cardinality(Checks(k, w)') \in Nat
    BY FiniteChecksNext DEF FiniteChecks
  <2>2. CASE c = b
    BY <1>2, <2>1, <2>2
  <2>3. CASE c # b
    <3>1. batch'[c] = batch[c] /\ batch[c].rank[k] \in Nat
      BY <1>1, <2>3, Typed
    <3>2. batch[c].rank[k] <= Cardinality(Checks(k, w))
      BY <1>7, <3>1 DEF EarnedInv
    <3>3. Cardinality(Checks(k, w)) <= Cardinality(Checks(k, w)') /\ Cardinality(Checks(k, w)) \in Nat
      BY <1>5, FiniteSets
    <3> QED  BY <2>1, <3>1, <3>2, <3>3
  <2> QED  BY <2>2, <2>3
<1>8. \A k \in Keys, w \in Windows :
        count'[k][w] + Cardinality(Waiting(k, w)') <= Cardinality(Checks(k, w)')
  BY <1>5
<1>9. \A c \in Batches, k \in Keys :
        \A w \in Windows : (batch'[c].at = "checking" /\ batch'[c].window = w) =>
          batch'[c].rank[k] <= Cardinality(Checks(k, w)')
  BY <1>7
<1> QED  BY <1>6, <1>8, <1>9 DEF EarnedInv

LEMMA EarnedIncr ==
  ASSUME TypeOK, TypeOK', EarnedInv, NEW b \in Batches, NEW k \in Keys, Incr(b, k)
  PROVE  EarnedInv'
<1> DEFINE w == batch[b].window
           ranks == [batch[b].rank EXCEPT ![k] = count[k][w] + 1]
           x == [batch[b] EXCEPT !.incr = @ \ {k}, !.expire = @ \cup {k}, !.rank = ranks]
<1>1. w \in Windows /\ count[k][w] \in Nat /\ batch[b].rank \in [Keys -> Nat] /\ k \in batch[b].incr
      /\ batch[b] \in CheckType
  BY Typed DEF CheckType, Incr
<1>2. ranks \in [Keys -> Nat] /\ ranks[k] = count[k][w] + 1
      /\ \A j \in Keys : j # k => ranks[j] = batch[b].rank[j]
  BY <1>1
<1>3. x \in CheckType
  BY <1>1, <1>2 DEF CheckType
<1>4. batch' = [batch EXCEPT ![b] = x]
  BY Typed DEF Incr, CheckType
<1>5. /\ x.at = batch[b].at /\ x.began = batch[b].began /\ x.window = w
      /\ x.incr = batch[b].incr \ {k} /\ x.rank = ranks
  BY <1>1 DEF CheckType
<1> HIDE DEF x, ranks
<1>6. Own(x, b)
  BY <1>5 DEF EarnedInv, Own
<1>7. \A j \in Keys, v \in Windows :
        count'[j][v] = count[j][v]
          \/ (/\ count'[j][v] = count[j][v] + 1
              /\ j \in batch[b].incr /\ j \notin x.incr /\ v = batch[b].window)
  BY <1>1, <1>5 DEF Incr, TypeOK
<1>8. x.at = "checking" => \A j \in Keys : x.rank[j] <= Cardinality(Checks(j, x.window))
  <2> SUFFICES ASSUME x.at = "checking", NEW j \in Keys
               PROVE  ranks[j] <= Cardinality(Checks(j, w))
    BY <1>5
  <2>1. CASE j # k
    BY <1>1, <1>2, <1>5, <2>1 DEF EarnedInv
  <2>2. CASE j = k
    <3>1. /\ IsFiniteSet(Waiting(k, w)) /\ Cardinality(Waiting(k, w)) \in Nat
          /\ Cardinality(Checks(k, w)) \in Nat
      BY <1>1, FiniteSets
    <3>2. b \in Waiting(k, w)
      BY <1>1 DEF Waiting
    <3>3. Cardinality(Waiting(k, w)) # 0
      BY <3>1, <3>2, FS_EmptySet
    <3>4. count[k][w] + Cardinality(Waiting(k, w)) <= Cardinality(Checks(k, w))
      BY <1>1 DEF EarnedInv
    <3> HIDE DEF w
    <3> QED  BY <1>1, <1>2, <2>2, <3>1, <3>3, <3>4
  <2> QED  BY <2>1, <2>2
<1>9. log' = log
  BY DEF Incr
<1> QED  BY <1>3, <1>4, <1>5, <1>6, <1>7, <1>8, <1>9, EarnedMove

LEMMA EarnedFailOpen ==
  ASSUME TypeOK, TypeOK', EarnedInv, NEW b \in Batches, NEW k \in Keys, FailOpen(b, k)
  PROVE  EarnedInv'
<1> DEFINE w == batch[b].window
           ranks == [batch[b].rank EXCEPT ![k] = 0]
           x == [batch[b] EXCEPT !.incr = @ \ {k}, !.expire = @ \ {k}, !.rank = ranks]
<1>1. w \in Windows /\ batch[b].rank \in [Keys -> Nat] /\ batch[b] \in CheckType
  BY Typed DEF CheckType
<1>2. ranks \in [Keys -> Nat] /\ ranks[k] = 0
      /\ \A j \in Keys : j # k => ranks[j] = batch[b].rank[j]
  BY <1>1
<1>3. x \in CheckType
  BY <1>1, <1>2 DEF CheckType
<1>4. batch' = [batch EXCEPT ![b] = x]
  <2>1. batch' = [batch EXCEPT ![b].incr = @ \ {k}, ![b].expire = @ \ {k}, ![b].rank[k] = 0]
    BY DEF FailOpen
  <2> QED  BY <2>1, Typed DEF CheckType
<1>5. /\ x.at = batch[b].at /\ x.began = batch[b].began /\ x.window = w
      /\ x.incr = batch[b].incr \ {k} /\ x.rank = ranks
  BY <1>1 DEF CheckType
<1> HIDE DEF x, ranks
<1>6. Own(x, b)
  BY <1>5 DEF EarnedInv, Own
<1>7. \A j \in Keys, v \in Windows :
        count'[j][v] = count[j][v]
          \/ (/\ count'[j][v] = count[j][v] + 1
              /\ j \in batch[b].incr /\ j \notin x.incr /\ v = batch[b].window)
  <2>1. \/ count' = count
        \/ k \in batch[b].incr /\ count' = [count EXCEPT ![k][w] = @ + 1]
    BY DEF FailOpen
  <2>2. CASE count' = count
    BY <2>2
  <2>3. CASE k \in batch[b].incr /\ count' = [count EXCEPT ![k][w] = @ + 1]
    BY <1>1, <1>5, <2>3 DEF TypeOK
  <2> QED  BY <2>1, <2>2, <2>3
<1>8. x.at = "checking" => \A j \in Keys : x.rank[j] <= Cardinality(Checks(j, x.window))
  <2> SUFFICES ASSUME x.at = "checking", NEW j \in Keys
               PROVE  ranks[j] <= Cardinality(Checks(j, w))
    BY <1>5
  <2>1. Cardinality(Checks(j, w)) \in Nat
    BY <1>1, FiniteSets
  <2>2. batch[b].rank[j] <= Cardinality(Checks(j, w))
    BY <1>1, <1>5 DEF EarnedInv
  <2> HIDE DEF w
  <2> QED  BY <1>2, <2>1, <2>2
<1>9. log' = log
  BY DEF FailOpen
<1> QED  BY <1>3, <1>4, <1>5, <1>6, <1>7, <1>8, <1>9, EarnedMove

\* A counter that is dropped has counted nothing.
LEMMA EarnedTick ==
  ASSUME TypeOK, EarnedInv, Tick
  PROVE  EarnedInv'
<1>1. batch' = batch /\ log' = log
  BY DEF Tick
<1>2. \A k, w : Checks(k, w)' = Checks(k, w) /\ Waiting(k, w)' = Waiting(k, w)
  BY <1>1 DEF Checks, Waiting, KeysOf
<1>3. ASSUME NEW k \in Keys, NEW w \in Windows
      PROVE  count'[k][w] + Cardinality(Waiting(k, w)) <= Cardinality(Checks(k, w))
  <2>1. count'[k][w] = 0 \/ count'[k][w] = count[k][w]
    BY DEF Tick
  <2>2. /\ Cardinality(Waiting(k, w)) \in Nat /\ Cardinality(Checks(k, w)) \in Nat
        /\ count[k][w] \in Nat
    BY FiniteSets DEF TypeOK
  <2>3. count[k][w] + Cardinality(Waiting(k, w)) <= Cardinality(Checks(k, w))
    BY DEF EarnedInv
  <2> QED  BY <2>1, <2>2, <2>3
<1> QED  BY <1>1, <1>2, <1>3 DEF EarnedInv, Own

LEMMA EarnedStep ==
  ASSUME TypeOK, TypeOK', EarnedInv, [Next]_vars
  PROVE  EarnedInv'
<1>0. \A b \in Batches : Own(batch[b], b) /\ \A k \in Keys :
        batch[b].at = "checking" => batch[b].rank[k] <= Cardinality(Checks(k, batch[b].window))
  BY Typed DEF EarnedInv
<1>1. ASSUME NEW b \in Batches, NEW k \in Keys, Expire(b, k)
      PROVE  EarnedInv'
  <2> DEFINE x == [batch[b] EXCEPT !.expire = @ \ {k}]
  <2>1. /\ x \in CheckType /\ x.at = batch[b].at /\ x.began = batch[b].began
        /\ x.window = batch[b].window /\ x.incr = batch[b].incr /\ x.rank = batch[b].rank
    BY Typed DEF CheckType
  <2>2. batch' = [batch EXCEPT ![b] = x] /\ log' = log /\ count' = count
    BY <1>1 DEF Expire
  <2> HIDE DEF x
  <2>3. Own(x, b) /\ (x.at = "checking" => \A j \in Keys : x.rank[j] <= Cardinality(Checks(j, x.window)))
    BY <1>0, <2>1 DEF Own
  <2> QED  BY <2>1, <2>2, <2>3, EarnedMove
<1>2. ASSUME NEW b \in Batches, Send(b)
      PROVE  EarnedInv'
  <2> DEFINE x == [batch[b] EXCEPT !.at = "sent", !.sent = now]
  <2>1. x \in CheckType /\ x.at = "sent" /\ x.incr = batch[b].incr
    BY Typed DEF TypeOK, CheckType
  <2>2. batch' = [batch EXCEPT ![b] = x] /\ log' = log /\ count' = count /\ batch[b].incr = {}
    BY <1>2, Typed DEF Send, Answered, CheckType
  <2> HIDE DEF x
  <2>3. Own(x, b)
    BY <2>1, <2>2 DEF Own
  <2> QED  BY <2>1, <2>2, <2>3, EarnedMove
<1>3. ASSUME NEW b \in Batches, Refuse(b)
      PROVE  EarnedInv'
  <2> DEFINE x == IF Len(log[b]) < Attempts THEN Idle ELSE [batch[b] EXCEPT !.at = "failed"]
  <2>1. Idle \in CheckType /\ Idle.at = "ready" /\ Idle.incr = {}
    BY IdleIsTyped DEF Idle
  <2>2. batch[b].incr = {} /\ batch' = [batch EXCEPT ![b] = x] /\ log' = log /\ count' = count
    BY <1>3, Typed DEF Refuse, Answered
  <2>3. x \in CheckType /\ x.at # "checking" /\ x.incr = {}
    BY <2>1, <2>2, Typed DEF CheckType
  <2> HIDE DEF x
  <2>4. Own(x, b)
    BY <2>3 DEF Own
  <2> QED  BY <2>2, <2>3, <2>4, EarnedMove
<1>4. CASE UNCHANGED vars
  <2>1. batch' = batch /\ log' = log /\ count' = count
    BY <1>4 DEF vars
  <2>2. \A k \in Keys, w \in Windows : Waiting(k, w)' = Waiting(k, w) /\ Checks(k, w)' = Checks(k, w)
    BY <2>1 DEF Waiting, Checks
  <2> QED  BY <2>1, <2>2 DEF EarnedInv
<1> QED  BY <1>1, <1>2, <1>3, <1>4, EarnedCheck, EarnedIncr, EarnedFailOpen, EarnedTick DEF Next,
            Check

\* What a batch is refused for was checked in its own window.
THEOREM RanksAreEarned == Spec => []RankWasEarned
<1>1. Init => EarnedInv
  <2> SUFFICES ASSUME Init PROVE EarnedInv
    OBVIOUS
  <2>1. TypeOK
    BY NatConstants, IdleIsTyped DEF Init, TypeOK, CheckType, Windows, Times, Never
  <2>2. ASSUME NEW k \in Keys, NEW w \in Windows
        PROVE  count[k][w] + Cardinality(Waiting(k, w)) <= Cardinality(Checks(k, w))
    <3>1. Waiting(k, w) = {} /\ count[k][w] = 0
      BY DEF Init, Idle, Waiting
    <3>2. Cardinality(Waiting(k, w)) = 0 /\ Cardinality(Checks(k, w)) \in Nat
      BY <2>1, <3>1, FS_EmptySet, FiniteSets
    <3> QED  BY <3>1, <3>2
  <2> QED  BY <2>2 DEF Init, EarnedInv, Own, Idle
<1>2. TypeOK /\ TypeOK' /\ EarnedInv /\ [Next]_vars => EarnedInv'
  BY EarnedStep
<1>3. TypeOK /\ EarnedInv => RankWasEarned
  BY Typed DEF EarnedInv, Own, RankWasEarned
<1> QED  BY <1>1, <1>2, <1>3, TypeCorrect, PTL DEF Spec

-----------------------------------------------------------------------------
(* 2. The writers of the messages of a campaign. *)

\* The sizes of the instance are those of FiniteSets.
LEMMA SameSize == \A S : Delivery!Cardinality(S) = Cardinality(S)
  BY DEF Delivery!Cardinality, Cardinality

LEMMA MinIsMember ==
  ASSUME NEW S \in SUBSET Nat, S # {}
  PROVE  Delivery!Min(S) \in S
<1> DEFINE Below == {ss \in Nat \X Nat : ss[1] < ss[2]}
<1>1. IsWellFoundedOn(Below, Nat)
  BY NatLessThanWellFounded DEF OpToRel
<1>2. PICK x \in S : \A y \in S : ~ (<<y, x>> \in Below)
  <2> HIDE DEF Below
  <2> QED
    BY <1>1, WFMin
<1>3. ASSUME NEW y \in S
      PROVE  x <= y
  <2>1. x \in Nat /\ y \in Nat /\ <<y, x>> \notin Below
    BY <1>2
  <2>2. <<y, x>> \in Nat \X Nat /\ <<y, x>>[1] = y /\ <<y, x>>[2] = x
    BY <2>1
  <2>3. ~ (y < x)
    BY <2>1, <2>2
  <2> QED
    BY <2>1, <2>3
<1> QED
  BY <1>3 DEF Delivery!Min

-----------------------------------------------------------------------------
(* Types. *)

WriterPoints == {"idle", "count", "recount", "store", "reports", "apply", "ask", "update", "messages",
    "overwrite"}
Values == {"none", "Sent"} \cup Outcomes
ProviderAnswers == Delivery!Messages \X {"sent", "failed"}
WriterProcess == [at : WriterPoints, kind : {"none", "worker", "dlr", "pending", "campaign", "message"},
            todo : SUBSET (Delivery!Messages \cup [msg : Delivery!Messages, value : Values]),
            read : SUBSET (Delivery!Messages \X Delivery!Statuses), writes : SUBSET ProviderAnswers,
                touched : BOOLEAN,
            tally : [sent : 0..N, failed : 0..N, status : {"sending", "completed", "keep"}]]

\* What a process holds at each step of the code.
Placed(r) ==
  /\ r \in WriterProcess
  /\ r.at \in {"reports", "apply"} => r.todo \subseteq [msg : Delivery!Messages, value : Values]
  /\ r.at \notin {"reports", "apply"} => r.todo \subseteq Delivery!Messages
  /\ r.writes # {} => r.at \in {"apply", "ask", "update", "overwrite"}
  /\ r.touched => r.at \in {"reports", "apply"}

DeliveryShape ==
  /\ sms \in [Delivery!Messages -> Values]
  /\ reports \subseteq [msg : Delivery!Messages, value : Values]
  /\ row \in [Delivery!Messages -> [status : Delivery!Statuses, id : BOOLEAN]]
  /\ campaign \in [sent : 0..N, failed : 0..N, status : {"sending", "completed"}]
  /\ writer \in [Delivery!Processes -> WriterProcess] /\ \A p \in Delivery!Processes : Placed(writer[p])
  /\ dFaults \in 0..Lost

LEMMA DeliveryConstants ==
  ASSUME Delivery!DeliveryAssumption
  PROVE  N \in Nat /\ Lost \in Nat /\ Outcomes \subseteq {"Delivered", "Failure", "Expired"}
  BY DEF Delivery!DeliveryAssumption

LEMMA WriterRests ==
  ASSUME Delivery!DeliveryAssumption
  PROVE  Placed(Delivery!Idle) /\ Delivery!Idle \in WriterProcess /\ Delivery!Idle.at = "idle"
             /\ Delivery!Idle.todo = {} /\ Delivery!Idle.writes = {}
         /\ Delivery!Idle.read = {} /\ ~ Delivery!Idle.touched
<1>1. Delivery!Idle \in WriterProcess
  BY DeliveryConstants DEF Delivery!Idle, Delivery!NoTally, WriterProcess, WriterPoints
<1> QED
  BY <1>1 DEF Delivery!Idle, Placed

-----------------------------------------------------------------------------
(* Counting the rows of a status. *)

LEMMA CountType ==
  ASSUME Delivery!DeliveryAssumption, NEW s
  PROVE  /\ Delivery!Count(s) \in 0..N /\ IsFiniteSet({m \in Delivery!Messages : row[m].status = s})
         /\ Delivery!Count(s) = Cardinality({m \in Delivery!Messages : row[m].status = s})
<1>1. IsFiniteSet(Delivery!Messages) /\ Cardinality(Delivery!Messages) = N
  BY DeliveryConstants, FS_Interval DEF Delivery!Messages
<1> DEFINE S == {m \in Delivery!Messages : row[m].status = s}
<1>2. S \in SUBSET Delivery!Messages
  OBVIOUS
<1> HIDE DEF S
<1>3. IsFiniteSet(S) /\ Cardinality(S) <= N /\ Cardinality(S) \in Nat
  BY <1>1, <1>2, FS_Subset, FS_CardinalityType
<1> QED
  BY <1>3, DeliveryConstants, SameSize DEF Delivery!Count, S

LEMMA Disjoint ==
  ASSUME NEW A, NEW B, IsFiniteSet(A), IsFiniteSet(B), A \cap B = {}
  PROVE  IsFiniteSet(A \cup B) /\ Cardinality(A \cup B) = Cardinality(A) + Cardinality(B)
<1>1. Cardinality(A) \in Nat /\ Cardinality(B) \in Nat
  BY FS_CardinalityType
<1>2. IsFiniteSet(A \cup B)
          /\ Cardinality(A \cup B) = Cardinality(A) + Cardinality(B) - Cardinality(A \cap B)
  BY FS_Union
<1>3. Cardinality(A \cap B) = 0
  BY FS_EmptySet
<1> QED
  BY <1>1, <1>2, <1>3

\* Every message is counted once.
LEMMA CountsAddUp ==
  ASSUME Delivery!DeliveryAssumption, DeliveryShape
  PROVE  Delivery!Count("queued") + Delivery!Count("sent") + Delivery!Count("failed") = N
<1> DEFINE S(s) == {m \in Delivery!Messages : row[m].status = s}
<1>1. Delivery!Messages = (S("queued") \cup S("sent")) \cup S("failed")
  BY DEF DeliveryShape, Delivery!Statuses
<1>2. S("queued") \cap S("sent") = {} /\ (S("queued") \cup S("sent")) \cap S("failed") = {}
  OBVIOUS
<1>3. \A s : IsFiniteSet(S(s)) /\ Cardinality(S(s)) = Delivery!Count(s) /\ Delivery!Count(s) \in Nat
  BY CountType, DeliveryConstants
<1> HIDE DEF S
<1>4. /\ IsFiniteSet(S("queued") \cup S("sent"))
      /\ Cardinality(S("queued") \cup S("sent")) = Delivery!Count("queued") + Delivery!Count("sent")
  BY <1>2, <1>3, Disjoint
<1>5. Cardinality(Delivery!Messages) = Delivery!Count("queued") + Delivery!Count("sent") + Delivery!Count("failed")
  BY <1>1, <1>2, <1>3, <1>4, Disjoint
<1>6. Cardinality(Delivery!Messages) = N
  BY DeliveryConstants, FS_Interval DEF Delivery!Messages
<1> QED
  BY <1>5, <1>6
-----------------------------------------------------------------------------
(* What the steps have in common. *)

\* The answer in an update is what the provider had made of the message; a report says no more.
Heard(w) == w[2] = "failed" => sms[w[1]] \in {"Failure", "Expired"}
Reported(x) == sms[x.msg] # "none" /\ (x.value = "Sent" \/ x.value = sms[x.msg])
Honest(r) ==
  /\ \A w \in r.writes : Heard(w)
  /\ r.at \in {"reports", "apply"} => \A x \in r.todo : Reported(x)

Truth ==
  /\ \A x \in reports : Reported(x)
  /\ \A p \in Delivery!Processes : Honest(writer[p])
  /\ \A m \in Delivery!Messages : Heard(<<m, row[m].status>>)

\* A process that will still count the campaign.
Counting(r) == r.at \in {"count", "recount", "store"} \/ r.touched \/ (r.at = "update" /\ HasUpdatedAt)
\* What it has counted.
Right(r) ==
  /\ r.at \in {"recount", "store"} => r.tally.sent = Delivery!Count("sent")
       /\ r.tally.failed = Delivery!Count("failed")
  /\ r.at = "store" => r.tally.status = IF Delivery!Count("queued") > 0 THEN "sending" ELSE "completed"
Agrees ==
  /\ campaign.sent = Delivery!Count("sent") /\ campaign.failed = Delivery!Count("failed")
  /\ campaign.status = "completed" <=> Delivery!Count("queued") = 0

Moves(p, r) == p \in Delivery!Processes /\ Placed(r) /\ writer' = [writer EXCEPT ![p] = r]

\* A step of the provider, or a report that is lost.
Elsewhere ==
  /\ UNCHANGED <<row, campaign, writer>> /\ dFaults' \in 0..Lost
  /\ sms' \in [Delivery!Messages -> Values]
  /\ \A m \in Delivery!Messages : sms'[m] # sms[m] => sms[m] \in {"none", "Sent"} /\ sms'[m] # "none"
  /\ \A x \in reports' :
       \/ x \in reports
       \/ /\ x \in [msg : Delivery!Messages, value : Values] /\ sms'[x.msg] # "none"
          /\ x.value = "Sent" \/ x.value = sms'[x.msg]

\* A process goes on, and no row changes.
WriterReads(p, r) ==
  /\ Moves(p, r) /\ UNCHANGED <<sms, row, campaign, dFaults>> /\ reports' \subseteq reports
  /\ Truth => Honest(r)
  /\ N # 0 /\ Right(writer[p]) => Right(r)
  /\ Counting(writer[p]) => Counting(r)
  /\ writer[p] # Delivery!Idle
       \/ Cardinality({q \in Delivery!Processes : writer[q] # Delivery!Idle}) < Writers

\* It writes a row, and will count.
Writes(p, r) ==
  /\ Moves(p, r) /\ UNCHANGED <<sms, reports, campaign, dFaults>>
  /\ Truth => Honest(r)
  /\ r.at \notin {"recount", "store"} /\ Counting(r)
  /\ \E m \in Delivery!Messages, x \in [status : Delivery!Statuses, id : BOOLEAN] :
       row' = [row EXCEPT ![m] = x] /\ (Truth => Heard(<<m, x.status>>))
  /\ writer[p] # Delivery!Idle
       \/ Cardinality({q \in Delivery!Processes : writer[q] # Delivery!Idle}) < Writers

\* It writes what it has counted.
WritesStore(p, r) ==
  /\ Moves(p, r) /\ Delivery!StoreCounts(p) /\ r.at \in {"idle", "messages"} /\ r.writes = {}

\* Something fails.
Fails(p, r) ==
  /\ Moves(p, r) /\ Delivery!Fault /\ UNCHANGED <<sms, reports, row, campaign>> /\ (Truth => Honest(r))
LEMMA ProviderSteps ==
  ASSUME Delivery!DeliveryAssumption, DeliveryShape, Delivery!ProviderStep
  PROVE  Elsewhere
<1>1. ASSUME NEW m \in Delivery!Messages, Delivery!Accept(m) \/ \E o \in Outcomes : Delivery!Settle(m, o)
      PROVE  Elsewhere
  <2>1. PICK o \in {"Sent"} \cup Outcomes : /\ sms' = [sms EXCEPT ![m] = o]
                                          /\ reports' = reports \cup {Delivery!Report(m, o)}
                                          /\ sms[m] \in {"none", "Sent"}
                                          /\ UNCHANGED <<row, campaign, writer, dFaults>>
    BY <1>1 DEF Delivery!Accept, Delivery!Settle
  <2>2. sms' \in [Delivery!Messages -> Values] /\ sms'[m] = o /\ o # "none" /\ dFaults' \in 0..Lost
    BY <2>1, DeliveryConstants DEF DeliveryShape, Values
  <2>3. /\ Delivery!Report(m, o) \in [msg : Delivery!Messages, value : Values]
        /\ Delivery!Report(m, o).msg = m /\ Delivery!Report(m, o).value = o
    BY <2>1 DEF Delivery!Report, Values
  <2> QED
    BY <2>1, <2>2, <2>3 DEF Elsewhere, DeliveryShape
<1>2. ASSUME NEW x \in reports, Delivery!LoseReport(x)
      PROVE  Elsewhere
  <2>1. dFaults' \in 0..Lost
    BY <1>2, DeliveryConstants DEF Delivery!LoseReport, Delivery!Fault, DeliveryShape
  <2> QED
    BY <1>2, <2>1 DEF Delivery!LoseReport, Elsewhere, DeliveryShape
<1> QED
  BY <1>1, <1>2 DEF Delivery!ProviderStep

\* A process that begins.
LEMMA Beginnings ==
  ASSUME Delivery!DeliveryAssumption, DeliveryShape,
         \/ Delivery!RefreshPending
         \/ \E m \in Delivery!Messages : Delivery!RecordResult(m)
         \/ \E p \in Refreshers : Delivery!RequestBegins(p)
  PROVE  \E p, r : WriterReads(p, r) \/ Writes(p, r)
<1>1. ASSUME NEW m \in Delivery!Messages, Delivery!RecordResult(m)
      PROVE  \E p, r : Writes(p, r)
  <2> DEFINE r == [Delivery!Idle EXCEPT !.at = "count", !.kind = "worker"]
  <2>1. /\ r \in WriterProcess /\ r.at = "count" /\ r.todo = {} /\ r.writes = {} /\ ~ r.touched
    BY WriterRests DEF WriterProcess, WriterPoints
  <2>2. "worker" \in Delivery!Processes /\ writer' = [writer EXCEPT !["worker"] = r]
    BY <1>1 DEF Delivery!RecordResult, Delivery!Begin, Delivery!Go, Delivery!Processes
  <2> HIDE DEF r
  <2>3. Placed(r)
    BY <2>1 DEF Placed
  <2>4. row' = [row EXCEPT ![m] = [status |-> "sent", id |-> TRUE]]
        /\ [status |-> "sent", id |-> TRUE] \in [status : Delivery!Statuses, id : BOOLEAN]
        /\ Heard(<<m, "sent">>)
    BY <1>1 DEF Delivery!RecordResult, Delivery!Statuses, Heard
  <2>5. Writes("worker", r)
    BY <1>1, <2>1, <2>2, <2>3, <2>4, SameSize DEF Writes, Moves, Delivery!RecordResult,
       Delivery!Begin, Honest, Counting
  <2> QED
    BY <2>5
<1>2. ASSUME NEW p \in Delivery!Processes, NEW kind \in {"pending", "campaign"},
                 NEW S \in SUBSET Delivery!Messages,
             Delivery!Refresh(p, kind, S)
      PROVE  \E r : WriterReads(p, r)
  <2> DEFINE r == [Delivery!Idle EXCEPT !.at = "ask", !.kind = kind, !.todo = S,
                               !.read = {<<m, row[m].status>> : m \in S}]
  <2>0. {<<m, row[m].status>> : m \in S} \subseteq Delivery!Messages \X Delivery!Statuses
    BY DEF DeliveryShape
  <2>1. /\ r \in WriterProcess /\ r.at = "ask" /\ r.todo = S /\ r.writes = {} /\ ~ r.touched
    BY <2>0, WriterRests DEF WriterProcess, WriterPoints
  <2>2. writer' = [writer EXCEPT ![p] = r] /\ ~ Counting(writer[p])
    BY <1>2, WriterRests DEF Delivery!Refresh, Delivery!Begin, Delivery!Go, Counting
  <2> HIDE DEF r
  <2>3. Placed(r)
    BY <2>1 DEF Placed
  <2>4. WriterReads(p, r)
    BY <1>2, <2>1, <2>2, <2>3, SameSize DEF WriterReads, Moves, Delivery!Refresh, Delivery!Begin,
       Honest, Counting, Right
  <2> QED
    BY <2>4
<1>3. ASSUME NEW p \in Delivery!Processes,
                 NEW S \in SUBSET Delivery!Messages, Delivery!RefreshMessages(p, S)
      PROVE  \E r : WriterReads(p, r)
  <2> DEFINE r == [Delivery!Idle EXCEPT !.at = "messages", !.kind = "message", !.todo = S]
  <2>1. /\ r \in WriterProcess /\ r.at = "messages" /\ r.todo = S /\ r.writes = {} /\ ~ r.touched
    BY WriterRests DEF WriterProcess, WriterPoints
  <2>2. writer' = [writer EXCEPT ![p] = r] /\ ~ Counting(writer[p])
    BY <1>3, WriterRests DEF Delivery!RefreshMessages, Delivery!Begin, Delivery!Go, Counting
  <2> HIDE DEF r
  <2>3. Placed(r)
    BY <2>1 DEF Placed
  <2>4. WriterReads(p, r)
    BY <1>3, <2>1, <2>2, <2>3, SameSize DEF WriterReads, Moves, Delivery!RefreshMessages,
       Delivery!Begin, Honest, Counting, Right
  <2> QED
    BY <2>4
<1>4. ASSUME NEW p \in Delivery!Processes, NEW body \in SUBSET reports, Delivery!ReceiveReports(p, body)
      PROVE  \E r : WriterReads(p, r)
  <2> DEFINE r == [Delivery!Idle EXCEPT !.at = "reports", !.kind = "dlr", !.todo = body]
  <2>0. body \subseteq [msg : Delivery!Messages, value : Values]
    BY DEF DeliveryShape
  <2>1. /\ r \in WriterProcess /\ r.at = "reports" /\ r.todo = body /\ r.writes = {} /\ ~ r.touched
    BY <2>0, WriterRests DEF WriterProcess, WriterPoints
  <2>2. writer' = [writer EXCEPT ![p] = r] /\ ~ Counting(writer[p])
    BY <1>4, WriterRests DEF Delivery!ReceiveReports, Delivery!Begin, Delivery!Go, Counting
  <2> HIDE DEF r
  <2>3. Placed(r) /\ (Truth => Honest(r))
    BY <2>0, <2>1 DEF Placed, Truth, Honest
  <2>4. WriterReads(p, r)
    BY <1>4, <2>1, <2>2, <2>3, SameSize DEF WriterReads, Moves, Delivery!ReceiveReports,
       Delivery!Begin, Counting, Right
  <2> QED
    BY <2>4
<1>5. CASE Delivery!RefreshPending
  <2>1. Delivery!Oldest(Delivery!Refreshable) \in SUBSET Delivery!Messages /\ "job" \in Delivery!Processes
    BY DEF Delivery!Oldest, Delivery!Refreshable, Delivery!Processes
  <2> QED
    BY <1>2, <1>5, <2>1 DEF Delivery!RefreshPending
<1>6. ASSUME NEW p \in Refreshers, Delivery!RequestBegins(p)
      PROVE  \E r : WriterReads(p, r)
  <2>1. Delivery!Refreshable \in SUBSET Delivery!Messages /\ p \in Delivery!Processes
    BY DEF Delivery!Refreshable, Delivery!Processes
  <2> QED
    BY <1>2, <1>3, <1>4, <1>6, <2>1 DEF Delivery!RequestBegins, Delivery!RefreshCampaign
<1> QED
  BY <1>1, <1>5, <1>6
\* What is known of a process.
LEMMA Known ==
  ASSUME Delivery!DeliveryAssumption, DeliveryShape, NEW p \in Delivery!Processes
  PROVE  /\ Placed(writer[p]) /\ writer[p] \in WriterProcess /\ (writer[p].at # "idle"
              => writer[p] # Delivery!Idle)
         /\ writer[p].tally \in [sent : 0..N, failed : 0..N, status : {"sending", "completed", "keep"}]
<1>1. Placed(writer[p]) /\ writer[p] \in WriterProcess
  BY DEF DeliveryShape, Placed
<1>2. writer[p].tally \in [sent : 0..N, failed : 0..N, status : {"sending", "completed", "keep"}]
  BY <1>1 DEF WriterProcess
<1> QED
  BY <1>1, <1>2, WriterRests

\* updateCampaignAggregates.
LEMMA CountSteps ==
  ASSUME Delivery!DeliveryAssumption, DeliveryShape, NEW p \in Delivery!Processes,
         Delivery!CountMessages(p) \/ Delivery!CountQueued(p) \/ Delivery!StoreCounts(p)
  PROVE  \E r : WriterReads(p, r) \/ WritesStore(p, r)
<1>1. CASE Delivery!CountMessages(p)
  <2> DEFINE t == [writer[p].tally EXCEPT !.sent = Delivery!Count("sent"),
                 !.failed = Delivery!Count("failed")]
             r == [writer[p] EXCEPT !.at = "recount", !.tally = t]
  <2>1. t \in [sent : 0..N, failed : 0..N, status : {"sending", "completed", "keep"}]
    BY Known, CountType
  <2>2. /\ r \in WriterProcess /\ r.at = "recount" /\ r.todo = writer[p].todo
            /\ r.writes = writer[p].writes
        /\ r.touched = writer[p].touched /\ r.tally.sent = Delivery!Count("sent")
             /\ r.tally.failed = Delivery!Count("failed")
    BY <2>1, Known DEF WriterProcess, WriterPoints
  <2>3. writer[p].at = "count" /\ writer' = [writer EXCEPT ![p] = r]
    <3>1. [writer[p] EXCEPT !.at = "recount"].tally = writer[p].tally
      BY Known DEF WriterProcess
    <3> QED
      BY <1>1, <3>1 DEF Delivery!CountMessages, Delivery!Go
  <2> HIDE DEF r
  <2>4. Placed(r)
    BY <2>2, <2>3, Known DEF Placed
  <2>5. WriterReads(p, r)
    BY <1>1, <2>2, <2>3, <2>4, Known DEF WriterReads, Moves, Delivery!CountMessages, Honest,
       Counting, Right, Truth
  <2> QED
    BY <2>5
<1>2. CASE Delivery!CountQueued(p)
  <2> DEFINE s == IF Delivery!Count("queued") > 0 THEN "sending"
                  ELSE IF N > 0 /\ writer[p].tally.sent + writer[p].tally.failed = N THEN "completed"
                      ELSE "keep"
             r == [writer[p] EXCEPT !.at = "store", !.tally = [writer[p].tally EXCEPT !.status = s]]
  <2>0. s \in {"sending", "completed", "keep"}
    OBVIOUS
  <2>3. writer[p].at = "recount" /\ writer' = [writer EXCEPT ![p] = r]
    BY <1>2, Known DEF Delivery!CountQueued, Delivery!Go
  <2> HIDE DEF s
  <2>t. [writer[p].tally EXCEPT !.status = s] \in [sent : 0..N, failed : 0..N, status : {"sending",
         "completed", "keep"}]
    BY <2>0, Known
  <2>1. /\ r \in WriterProcess /\ r.at = "store" /\ r.todo = writer[p].todo /\ r.writes = writer[p].writes
        /\ r.touched = writer[p].touched /\ r.tally = [writer[p].tally EXCEPT !.status = s]
    BY <2>t, Known DEF WriterProcess, WriterPoints
  <2>2. r.tally.sent = writer[p].tally.sent /\ r.tally.failed = writer[p].tally.failed
            /\ r.tally.status = s
    BY <2>1, Known
  <2> HIDE DEF r
  <2>4. Placed(r)
    BY <2>1, <2>3, Known DEF Placed
  <2>5. N # 0 /\ Right(writer[p]) => Right(r)
    <3> SUFFICES ASSUME N # 0, Right(writer[p])
                 PROVE  Right(r)
      OBVIOUS
    <3>1. /\ Delivery!Count("queued") \in 0..N /\ Delivery!Count("sent") \in 0..N
              /\ Delivery!Count("failed") \in 0..N
          /\ Delivery!Count("queued") + Delivery!Count("sent") + Delivery!Count("failed") = N
      BY CountType, CountsAddUp
    <3>2. writer[p].tally.sent = Delivery!Count("sent")
              /\ writer[p].tally.failed = Delivery!Count("failed")
      BY <2>3 DEF Right
    <3>3. s = IF Delivery!Count("queued") > 0 THEN "sending" ELSE "completed"
      BY <3>1, <3>2, DeliveryConstants DEF s
    <3> QED
      BY <2>1, <2>2, <3>2, <3>3 DEF Right
  <2>6. WriterReads(p, r)
    BY <1>2, <2>1, <2>3, <2>4, <2>5, Known DEF WriterReads, Moves, Delivery!CountQueued, Honest,
       Counting, Truth
  <2> QED
    BY <2>6
<1>3. CASE Delivery!StoreCounts(p)
  <2> DEFINE r == Delivery!NextMessage(writer[p].todo)
  <2>1. writer[p].at = "store" /\ writer' = [writer EXCEPT ![p] = r]
            /\ writer[p].todo \subseteq Delivery!Messages
    BY <1>3, Known DEF Delivery!StoreCounts, Delivery!Go, Placed
  <2>2. r \in WriterProcess /\ r.at \in {"idle", "messages"} /\ r.todo = writer[p].todo /\ r.writes = {}
            /\ ~ r.touched
    BY <2>1, WriterRests DEF Delivery!NextMessage, WriterProcess, WriterPoints
  <2> HIDE DEF r
  <2>3. Placed(r)
    BY <2>1, <2>2 DEF Placed
  <2> QED
    BY <1>3, <2>1, <2>2, <2>3 DEF WritesStore, Moves
<1> QED
  BY <1>1, <1>2, <1>3
\* The answer of the provider, and the value of a report, as they are written to a row.
LEMMA Mapped ==
  ASSUME NEW s
  PROVE  /\ Delivery!MapStatus(s) \in {"sent", "failed"} /\ Delivery!MapMittoStatus(s) \in {"sent",
              "failed"}
         /\ Delivery!MapStatus(s) = "failed" => s \in {"Failure", "Expired"}
         /\ Delivery!MapMittoStatus(s) = "failed" => s \in {"Failure", "Expired"}
  BY DEF Delivery!MapStatus, Delivery!MapMittoStatus

\* A process that only looks: its updates come from what it is told.
LEMMA Looks ==
  ASSUME Delivery!DeliveryAssumption, DeliveryShape, NEW p \in Delivery!Processes,
             NEW r, Placed(r), Delivery!Go(p, r),
         UNCHANGED <<sms, reports, row, campaign, dFaults>>, Truth => Honest(r),
         writer[p].at \notin {"idle", "count", "recount", "store"}, r.at \notin {"recount", "store"},
         Counting(writer[p]) => Counting(r)
  PROVE  WriterReads(p, r)
  BY Known DEF WriterReads, Moves, Delivery!Go, Right

\* POST /webhooks/mitto/dlr.
LEMMA ReportSteps ==
  ASSUME Delivery!DeliveryAssumption, DeliveryShape, NEW p \in Delivery!Processes,
         \/ \E x \in writer[p].todo : Delivery!FindReported(p, x)
         \/ \E w \in writer[p].writes : Delivery!ApplyReport(p, w[1], w[2])
         \/ Delivery!AnswerReports(p)
  PROVE  \E r : WriterReads(p, r) \/ Writes(p, r)
<1>1. ASSUME NEW x \in writer[p].todo, Delivery!FindReported(p, x)
      PROVE  \E r : WriterReads(p, r)
  <2> DEFINE w == <<x.msg, Delivery!MapStatus(x.value)>>
  <2>1. /\ writer[p].at = "reports" /\ writer[p].todo \subseteq [msg : Delivery!Messages, value : Values]
        /\ writer[p].writes = {}
    BY <1>1, Known DEF Delivery!FindReported, Placed
  <2>2. x.msg \in Delivery!Messages /\ w \in ProviderAnswers
    BY <2>1, Mapped DEF ProviderAnswers
  <2>3. Truth => Heard(w)
    BY <2>1, <2>2, Mapped DEF Truth, Honest, Heard, Reported
  <2> HIDE DEF w
  <2>4. CASE row[x.msg].id
    <3> DEFINE r == [writer[p] EXCEPT !.at = "apply", !.todo = @ \ {x}, !.writes = {w}]
    <3>1. /\ r \in WriterProcess /\ r.at = "apply" /\ r.todo = writer[p].todo \ {x} /\ r.writes = {w}
          /\ r.touched = writer[p].touched
      BY <2>2, Known DEF WriterProcess, WriterPoints
    <3>2. Delivery!Go(p, r)
      BY <1>1, <2>4 DEF Delivery!FindReported, w
    <3> HIDE DEF r
    <3>3. Placed(r) /\ (Truth => Honest(r)) /\ (Counting(writer[p]) => Counting(r))
      BY <2>1, <2>3, <3>1 DEF Placed, Truth, Honest, Counting
    <3> QED
      BY <1>1, <2>1, <3>1, <3>2, <3>3, Looks DEF Delivery!FindReported
  <2>5. CASE ~ row[x.msg].id
    <3> DEFINE r == [writer[p] EXCEPT !.todo = @ \ {x}]
    <3>1. /\ r \in WriterProcess /\ r.at = "reports" /\ r.todo = writer[p].todo \ {x} /\ r.writes = {}
          /\ r.touched = writer[p].touched
      BY <2>1, Known DEF WriterProcess, WriterPoints
    <3>2. Delivery!Go(p, r)
      BY <1>1, <2>5 DEF Delivery!FindReported
    <3> HIDE DEF r
    <3>3. Placed(r) /\ (Truth => Honest(r)) /\ (Counting(writer[p]) => Counting(r))
      BY <2>1, <3>1 DEF Placed, Truth, Honest, Counting
    <3> QED
      BY <1>1, <2>1, <3>1, <3>2, <3>3, Looks DEF Delivery!FindReported
  <2> QED
    BY <2>4, <2>5
<1>2. ASSUME NEW w \in writer[p].writes, Delivery!ApplyReport(p, w[1], w[2])
      PROVE  \E r : WriterReads(p, r) \/ Writes(p, r)
  <2> DEFINE r == [writer[p] EXCEPT !.at = "reports", !.writes = {}, !.touched = @ \/ HasUpdatedAt]
  <2>0. HasUpdatedAt \in BOOLEAN /\ writer[p].touched \in BOOLEAN
    BY Known DEF Delivery!DeliveryAssumption, WriterProcess
  <2>1. /\ r \in WriterProcess /\ r.at = "reports" /\ r.todo = writer[p].todo /\ r.writes = {}
        /\ r.touched = (writer[p].touched \/ HasUpdatedAt)
    BY <2>0, Known DEF WriterProcess, WriterPoints
  <2>2. Delivery!Go(p, r) /\ writer[p].at = "apply" /\ UNCHANGED <<sms, reports, campaign, dFaults>>
    BY <1>2 DEF Delivery!ApplyReport
  <2> HIDE DEF r
  <2>3. Placed(r) /\ (Truth => Honest(r)) /\ (Counting(writer[p]) => Counting(r))
    BY <2>1, <2>2, Known DEF Placed, Truth, Honest, Counting
  <2>4. w[1] \in Delivery!Messages /\ w[2] \in {"sent", "failed"} /\ w = <<w[1], w[2]>>
    BY Known DEF WriterProcess, ProviderAnswers
  <2>5. CASE HasUpdatedAt
    <3>1. row' = [row EXCEPT ![w[1]] = [row[w[1]] EXCEPT !.status = w[2]]]
      BY <1>2, <2>5 DEF Delivery!ApplyReport
    <3>2. /\ [row[w[1]] EXCEPT !.status = w[2]] \in [status : Delivery!Statuses, id : BOOLEAN]
          /\ [row[w[1]] EXCEPT !.status = w[2]].status = w[2]
      BY <2>4 DEF DeliveryShape, Delivery!Statuses
    <3>3. Truth => Heard(<<w[1], w[2]>>)
      BY <2>4 DEF Truth, Honest
    <3>4. Writes(p, r)
      BY <2>1, <2>2, <2>3, <2>4, <2>5, <3>1, <3>2, <3>3, Known DEF Writes, Moves, Delivery!Go,
         Counting
    <3> QED
      BY <3>4
  <2>6. CASE ~ HasUpdatedAt
    <3>1. row' = row
      BY <1>2, <2>6 DEF Delivery!ApplyReport
    <3> QED
      BY <2>1, <2>2, <2>3, <3>1, Looks
  <2> QED
    BY <2>5, <2>6
<1>3. CASE Delivery!AnswerReports(p)
  <2> DEFINE r == IF writer[p].touched THEN [Delivery!Idle EXCEPT !.at = "count", !.kind = "dlr"]
                 ELSE Delivery!Idle
  <2>1. /\ r \in WriterProcess /\ r.at = (IF writer[p].touched THEN "count" ELSE "idle") /\ r.todo = {}
        /\ r.writes = {} /\ ~ r.touched
    BY WriterRests DEF WriterProcess, WriterPoints
  <2>2. Delivery!Go(p, r) /\ writer[p].at = "reports"
            /\ UNCHANGED <<sms, reports, row, campaign, dFaults>>
    BY <1>3 DEF Delivery!AnswerReports
  <2> HIDE DEF r
  <2>3. Placed(r) /\ (Truth => Honest(r)) /\ (Counting(writer[p]) => Counting(r))
    BY <2>1, <2>2 DEF Placed, Truth, Honest, Counting
  <2> QED
    BY <2>1, <2>2, <2>3, Looks
<1> QED
  BY <1>1, <1>2, <1>3

\* A process goes on with the next message, or is over.
LEMMA NextIs ==
  ASSUME Delivery!DeliveryAssumption, NEW S \in SUBSET Delivery!Messages
  PROVE  /\ Placed(Delivery!NextMessage(S)) /\ Delivery!NextMessage(S).at \in {"idle", "messages"}
              /\ Delivery!NextMessage(S).writes = {}
         /\ ~ Delivery!NextMessage(S).touched /\ Honest(Delivery!NextMessage(S))
<1>1. /\ Delivery!NextMessage(S) \in WriterProcess /\ Delivery!NextMessage(S).at \in {"idle", "messages"}
      /\ Delivery!NextMessage(S).writes = {} /\ ~ Delivery!NextMessage(S).touched
           /\ Delivery!NextMessage(S).todo = S
  BY WriterRests DEF Delivery!NextMessage, WriterProcess, WriterPoints
<1> QED
  BY <1>1 DEF Placed, Honest

\* The statuses that are asked for.
LEMMA RefreshSteps ==
  ASSUME Delivery!DeliveryAssumption, DeliveryShape, NEW p \in Delivery!Processes,
         \/ Delivery!AskProvider(p) \/ Delivery!AllAsked(p) \/ Delivery!AskForMessage(p)
         \/ \E w \in writer[p].writes : Delivery!UpdateRow(p, w) \/ Delivery!OverwriteRow(p, w[1], w[2])
  PROVE  \E r : WriterReads(p, r) \/ Writes(p, r)
<1>1. CASE Delivery!AskProvider(p) \/ Delivery!AskForMessage(p)
  <2> DEFINE m == Delivery!Min(writer[p].todo)
             w == <<m, Delivery!MapMittoStatus(sms[m])>>
  <2>1. writer[p].at \in {"ask", "messages"} /\ writer[p].todo # {}
            /\ writer[p].todo \subseteq Delivery!Messages
    BY <1>1, Known DEF Delivery!AskProvider, Delivery!AskForMessage, Placed
  <2>2. m \in writer[p].todo /\ m \in Delivery!Messages
    <3>1. writer[p].todo \in SUBSET Nat
      BY <2>1, DeliveryConstants DEF Delivery!Messages
    <3> QED
      BY <2>1, <3>1, MinIsMember
  <2>3. w \in ProviderAnswers /\ Heard(w)
    BY <2>2, Mapped DEF ProviderAnswers, Heard
  <2>4. CASE Delivery!AskProvider(p)
    <3> DEFINE ws == IF w \in writer[p].read THEN writer[p].writes ELSE writer[p].writes \cup {w}
               r == [writer[p] EXCEPT !.todo = writer[p].todo \ {m}, !.writes = ws]
    <3>0. Delivery!Go(p, r) /\ writer[p].at = "ask"
      BY <2>4, Known DEF Delivery!AskProvider, WriterProcess
    <3> HIDE DEF w
    <3>a. ws \subseteq ProviderAnswers /\ ws \subseteq writer[p].writes \cup {w}
      BY <2>3, Known DEF WriterProcess
    <3> HIDE DEF ws, m
    <3>1. /\ r \in WriterProcess /\ r.at = writer[p].at /\ r.todo = writer[p].todo \ {m} /\ r.writes = ws
          /\ r.touched = writer[p].touched
      BY <2>1, <3>a, Known DEF WriterProcess, WriterPoints
    <3> HIDE DEF r
    <3>3. Placed(r) /\ (Truth => Honest(r)) /\ (Counting(writer[p]) => Counting(r))
      BY <2>1, <2>3, <3>0, <3>1, <3>a, Known DEF Placed, Truth, Honest, Counting
    <3> QED
      BY <2>4, <3>0, <3>1, <3>3, Looks DEF Delivery!AskProvider
  <2>5. CASE Delivery!AskForMessage(p)
    <3> DEFINE r == [writer[p] EXCEPT !.at = "overwrite", !.writes = {w}]
    <3>0. Delivery!Go(p, r) /\ writer[p].at = "messages"
      BY <2>5 DEF Delivery!AskForMessage
    <3> HIDE DEF w
    <3>1. /\ r \in WriterProcess /\ r.at = "overwrite" /\ r.todo = writer[p].todo /\ r.writes = {w}
          /\ r.touched = writer[p].touched
      BY <2>3, Known DEF WriterProcess, WriterPoints
    <3> HIDE DEF r
    <3>3. Placed(r) /\ (Truth => Honest(r)) /\ (Counting(writer[p]) => Counting(r))
      BY <2>1, <2>3, <3>0, <3>1, Known DEF Placed, Truth, Honest, Counting
    <3> QED
      BY <2>5, <3>0, <3>1, <3>3, Looks DEF Delivery!AskForMessage
  <2> QED
    BY <1>1, <2>4, <2>5
<1>2. CASE Delivery!AllAsked(p)
  <2> DEFINE r == IF writer[p].writes # {} THEN [writer[p] EXCEPT !.at = "update"]
                  ELSE IF writer[p].kind = "campaign"
                       THEN [Delivery!Idle EXCEPT !.at = "count", !.kind = "campaign"] ELSE Delivery!Idle
  <2>0. Delivery!Go(p, r) /\ writer[p].at = "ask" /\ UNCHANGED <<sms, reports, row, campaign, dFaults>>
    BY <1>2 DEF Delivery!AllAsked
  <2>1. /\ r \in WriterProcess /\ r.at \in {"update", "count", "idle"} /\ ~ r.touched
        /\ r.writes = writer[p].writes /\ (r.writes # {} => r.at = "update")
        /\ r.todo \subseteq writer[p].todo
    BY <2>0, WriterRests, Known DEF WriterProcess, WriterPoints, Placed
  <2> HIDE DEF r
  <2>3. Placed(r) /\ (Truth => Honest(r)) /\ (Counting(writer[p]) => Counting(r))
    BY <2>0, <2>1, Known DEF Placed, Truth, Honest, Counting
  <2> QED
    BY <2>0, <2>1, <2>3, Looks
<1>3. ASSUME NEW w \in writer[p].writes, Delivery!UpdateRow(p, w) \/ Delivery!OverwriteRow(p, w[1], w[2])
      PROVE  \E r : WriterReads(p, r) \/ Writes(p, r)
  <2>1. PICK r : /\ Delivery!Go(p, r) /\ Placed(r) /\ (Truth => Honest(r)) /\ ~ r.touched
                 /\ r.at \notin {"recount", "store"} /\ (HasUpdatedAt => Counting(r))
    <3>1. CASE Delivery!UpdateRow(p, w)
      <4> DEFINE r == IF ~HasUpdatedAt THEN Delivery!Idle
                      ELSE IF writer[p].writes = {w} THEN [Delivery!Idle EXCEPT !.at = "count",
                          !.kind = writer[p].kind]
                      ELSE [writer[p] EXCEPT !.writes = @ \ {w}]
      <4>1. Delivery!Go(p, r) /\ writer[p].at = "update"
        BY <3>1 DEF Delivery!UpdateRow
      <4>2. /\ r \in WriterProcess /\ r.at \in {"idle", "count", "update"} /\ (HasUpdatedAt
                => r.at # "idle")
            /\ r.writes \subseteq writer[p].writes /\ (r.writes # {} => r.at = "update") /\ ~ r.touched
            /\ r.todo \subseteq writer[p].todo
        BY <4>1, WriterRests, Known DEF WriterProcess, WriterPoints, Placed
      <4> HIDE DEF r
      <4>3. Placed(r) /\ (Truth => Honest(r)) /\ (HasUpdatedAt => Counting(r))
        BY <4>1, <4>2, Known DEF Placed, Truth, Honest, Counting
      <4> QED
        BY <4>1, <4>2, <4>3
    <3>2. CASE Delivery!OverwriteRow(p, w[1], w[2])
      <4>1. writer[p].at = "overwrite" /\ writer[p].todo \subseteq Delivery!Messages
                /\ ~ writer[p].touched
        BY <3>2, Known DEF Delivery!OverwriteRow, Placed
      <4>2. CASE HasUpdatedAt
        <5> DEFINE r == [writer[p] EXCEPT !.at = "count", !.writes = {}, !.todo = @ \ {w[1]}]
        <5>1. /\ r \in WriterProcess /\ r.at = "count" /\ r.writes = {} /\ ~ r.touched
              /\ r.todo \subseteq writer[p].todo
          BY <4>1, Known DEF WriterProcess, WriterPoints
        <5>2. Delivery!Go(p, r)
          BY <3>2, <4>2 DEF Delivery!OverwriteRow
        <5> HIDE DEF r
        <5>3. Placed(r) /\ Honest(r) /\ Counting(r)
          BY <4>1, <5>1 DEF Placed, Honest, Counting
        <5> QED
          BY <5>1, <5>2, <5>3
      <4>3. CASE ~ HasUpdatedAt
        <5>1. Delivery!Go(p, Delivery!NextMessage(writer[p].todo \ {w[1]}))
          BY <3>2, <4>3 DEF Delivery!OverwriteRow
        <5>2. writer[p].todo \ {w[1]} \in SUBSET Delivery!Messages
          BY <4>1
        <5> QED
          BY <4>3, <5>1, <5>2, NextIs
      <4> QED
        BY <4>2, <4>3
    <3> QED
      BY <1>3, <3>1, <3>2
  <2>2. /\ UNCHANGED <<sms, reports, campaign, dFaults>> /\ writer[p].at \in {"update", "overwrite"}
        /\ row' = IF HasUpdatedAt THEN [row EXCEPT ![w[1]] = [row[w[1]] EXCEPT !.status = w[2]]] ELSE row
    BY <1>3 DEF Delivery!UpdateRow, Delivery!OverwriteRow
  <2>3. w[1] \in Delivery!Messages /\ w[2] \in {"sent", "failed"} /\ w = <<w[1], w[2]>>
    BY Known DEF WriterProcess, ProviderAnswers
  <2>4. CASE HasUpdatedAt
    <3>2. /\ [row[w[1]] EXCEPT !.status = w[2]] \in [status : Delivery!Statuses, id : BOOLEAN]
          /\ [row[w[1]] EXCEPT !.status = w[2]].status = w[2]
      BY <2>3 DEF DeliveryShape, Delivery!Statuses
    <3>3. Truth => Heard(<<w[1], w[2]>>)
      BY <2>3 DEF Truth, Honest
    <3>4. Writes(p, r)
      BY <2>1, <2>2, <2>3, <2>4, <3>2, <3>3, Known DEF Writes, Moves, Delivery!Go
    <3> QED
      BY <3>4
  <2>5. CASE ~ HasUpdatedAt
    <3>1. row' = row /\ ~ Counting(writer[p])
      BY <2>2, <2>5, Known DEF Counting, Placed
    <3> QED
      BY <2>1, <2>2, <3>1, Looks
  <2> QED
    BY <2>4, <2>5
<1> QED
  BY <1>1, <1>2, <1>3

\* What fails leaves the rows as they are.
LEMMA FaultSteps ==
  ASSUME Delivery!DeliveryAssumption, DeliveryShape,
             NEW p \in Delivery!Processes, Delivery!ProcessFails(p)
  PROVE  \E r : Fails(p, r)
<1>1. CASE Delivery!ReportFails(p)
  <2> DEFINE r == [writer[p] EXCEPT !.at = "reports", !.writes = {}]
  <2>1. /\ r \in WriterProcess /\ r.at = "reports" /\ r.todo = writer[p].todo /\ r.writes = {}
        /\ r.touched = writer[p].touched
    BY Known DEF WriterProcess, WriterPoints
  <2>2. Delivery!Go(p, r) /\ writer[p].at = "apply"
    BY <1>1 DEF Delivery!ReportFails
  <2> HIDE DEF r
  <2>3. Placed(r) /\ (Truth => Honest(r))
    BY <2>1, <2>2, Known DEF Placed, Truth, Honest
  <2> QED
    BY <1>1, <2>2, <2>3 DEF Fails, Moves, Delivery!ReportFails, Delivery!Go
<1>2. CASE Delivery!AskFails(p)
  <2> DEFINE rest == writer[p].todo \ {Delivery!Min(writer[p].todo)}
  <2>1. writer[p].at \in {"ask", "messages"} /\ rest \in SUBSET Delivery!Messages
    BY <1>2, Known DEF Delivery!AskFails, Placed
  <2>2. CASE writer[p].at = "ask"
    <3> DEFINE r == [writer[p] EXCEPT !.todo = rest]
    <3>1. Delivery!Go(p, r)
      BY <1>2, <2>2 DEF Delivery!AskFails
    <3> HIDE DEF rest
    <3>2. r \in WriterProcess /\ r.at = "ask" /\ r.todo = rest /\ r.writes = writer[p].writes
          /\ r.touched = writer[p].touched
      BY <2>1, <2>2, Known DEF WriterProcess
    <3> HIDE DEF r
    <3>3. Placed(r) /\ (Truth => Honest(r))
      BY <2>1, <2>2, <3>2, Known DEF Placed, Truth, Honest
    <3> QED
      BY <1>2, <3>1, <3>3 DEF Fails, Moves, Delivery!AskFails, Delivery!Go
  <2>3. CASE writer[p].at # "ask"
    <3>1. Delivery!Go(p, Delivery!NextMessage(rest))
      BY <1>2, <2>3 DEF Delivery!AskFails
    <3> HIDE DEF rest
    <3> QED
      BY <1>2, <2>1, <3>1, NextIs DEF Fails, Moves, Delivery!AskFails, Delivery!Go
  <2> QED
    BY <2>2, <2>3
<1>3. CASE Delivery!Dies(p)
  <2>1. Honest(Delivery!Idle)
    BY WriterRests DEF Honest
  <2> QED
    BY <1>3, <2>1, WriterRests DEF Delivery!Dies, Fails, Moves, Delivery!Go
<1> QED
  BY <1>1, <1>2, <1>3 DEF Delivery!ProcessFails

\* Every step is one of these.
LEMMA StepsAre ==
  ASSUME Delivery!DeliveryAssumption, DeliveryShape, Delivery!Next
  PROVE  \/ Elsewhere
         \/ \E p, r : WriterReads(p, r) \/ Writes(p, r) \/ WritesStore(p, r) \/ Fails(p, r)
<1>1. ASSUME NEW p \in Delivery!Processes, Delivery!Continue(p) \/ Delivery!ProcessFails(p)
      PROVE  \E r : WriterReads(p, r) \/ Writes(p, r) \/ WritesStore(p, r) \/ Fails(p, r)
  BY <1>1, CountSteps, ReportSteps, RefreshSteps, FaultSteps DEF Delivery!Continue
<1> QED
  BY <1>1, ProviderSteps, Beginnings DEF Delivery!Next
-----------------------------------------------------------------------------
(* Types, and what a row says of its message. *)

LEMMA DeliveryInit ==
  ASSUME Delivery!DeliveryAssumption, Delivery!Init
  PROVE  DeliveryShape
<1>1. Delivery!NoTally \in [sent : 0..N, failed : 0..N, status : {"sending", "completed"}]
          /\ dFaults \in 0..Lost
  BY DeliveryConstants DEF Delivery!Init, Delivery!NoTally
<1> QED
  BY <1>1, WriterRests DEF Delivery!Init, DeliveryShape, Values, Delivery!Statuses

LEMMA DeliveryStep ==
  ASSUME Delivery!DeliveryAssumption, DeliveryShape, [Delivery!Next]_Delivery!vars
  PROVE  DeliveryShape'
<1>0. ASSUME NEW p, NEW r, Moves(p, r)
      PROVE  writer' \in [Delivery!Processes -> WriterProcess]
                 /\ \A q \in Delivery!Processes : Placed(writer'[q])
  <2>1. \A q \in Delivery!Processes : writer'[q] = IF q = p THEN r ELSE writer[q]
    BY <1>0 DEF Moves, DeliveryShape
  <2> QED
    BY <1>0, <2>1 DEF Moves, DeliveryShape, Placed
<1>1. CASE Elsewhere
  BY <1>1 DEF Elsewhere, DeliveryShape
<1>2. ASSUME NEW p, NEW r, WriterReads(p, r)
      PROVE  DeliveryShape'
  BY <1>0, <1>2 DEF WriterReads, DeliveryShape
<1>3. ASSUME NEW p, NEW r, Writes(p, r)
      PROVE  DeliveryShape'
  BY <1>0, <1>3 DEF Writes, DeliveryShape
<1>4. ASSUME NEW p, NEW r, WritesStore(p, r)
      PROVE  DeliveryShape'
  <2>1. writer[p].tally \in [sent : 0..N, failed : 0..N, status : {"sending", "completed", "keep"}]
    BY <1>4, Known DEF WritesStore, Moves
  <2>2. campaign' \in [sent : 0..N, failed : 0..N, status : {"sending", "completed"}]
    BY <1>4, <2>1 DEF WritesStore, Delivery!StoreCounts, DeliveryShape
  <2> QED
    BY <1>0, <1>4, <2>2 DEF WritesStore, Delivery!StoreCounts, DeliveryShape
<1>5. ASSUME NEW p, NEW r, Fails(p, r)
      PROVE  DeliveryShape'
  BY <1>0, <1>5, DeliveryConstants DEF Fails, Delivery!Fault, DeliveryShape
<1>6. CASE UNCHANGED Delivery!vars
  BY <1>6 DEF Delivery!vars, DeliveryShape
<1> QED
  BY <1>1, <1>2, <1>3, <1>4, <1>5, <1>6, StepsAre

LEMMA TruthInit ==
  ASSUME Delivery!DeliveryAssumption, Delivery!Init
  PROVE  Truth
  BY WriterRests DEF Delivery!Init, Truth, Honest, Heard

LEMMA TruthStep ==
  ASSUME Delivery!DeliveryAssumption, DeliveryShape, Truth, [Delivery!Next]_Delivery!vars
  PROVE  Truth'
<1>1. CASE Elsewhere
  <2>1. \A m \in Delivery!Messages :
          /\ sms[m] \in {"Failure", "Expired"} => sms'[m] \in {"Failure", "Expired"}
          /\ sms[m] # "none" => sms'[m] # "none"
    BY <1>1 DEF Elsewhere
  <2>2. ASSUME NEW x \in [msg : Delivery!Messages, value : Values], Reported(x)
        PROVE  Reported(x)'
    BY <1>1, <2>2 DEF Elsewhere, Reported
  <2>3. \A x \in reports' : Reported(x)'
    BY <1>1, <2>2 DEF Elsewhere, Reported, DeliveryShape, Truth
  <2>4. ASSUME NEW m \in Delivery!Messages, NEW s, Heard(<<m, s>>)
        PROVE  Heard(<<m, s>>)'
    BY <2>1, <2>4 DEF Heard
  <2>5. ASSUME NEW p \in Delivery!Processes
        PROVE  Honest(writer[p])'
    <3>1. Placed(writer[p]) /\ writer[p].writes \subseteq ProviderAnswers /\ Honest(writer[p])
              /\ writer' = writer
      BY <1>1, Known DEF WriterProcess, Truth, Elsewhere
    <3>2. ASSUME NEW w \in writer[p].writes
          PROVE  Heard(w)'
      <4>1. w[1] \in Delivery!Messages /\ w = <<w[1], w[2]>> /\ Heard(w)
        BY <3>1 DEF ProviderAnswers, Honest
      <4> QED
        BY <2>1, <4>1 DEF Heard
    <3> QED
      BY <2>2, <3>1, <3>2 DEF Honest, Placed
  <2> QED
    BY <1>1, <2>3, <2>4, <2>5 DEF Truth, Elsewhere
<1>2. ASSUME NEW p, NEW r, Moves(p, r), Honest(r), UNCHANGED sms, reports' \subseteq reports,
             \A m \in Delivery!Messages : Heard(<<m, row'[m].status>>)
      PROVE  Truth'
  <2>1. \A q \in Delivery!Processes : writer'[q] = IF q = p THEN r ELSE writer[q]
    BY <1>2 DEF Moves, DeliveryShape
  <2> QED
    BY <1>2, <2>1 DEF Truth, Honest, Heard, Reported
<1>3. ASSUME NEW p, NEW r, WriterReads(p, r) \/ WritesStore(p, r) \/ Fails(p, r)
      PROVE  Truth'
  <2>1. Moves(p, r) /\ Honest(r) /\ UNCHANGED <<sms, row>> /\ reports' \subseteq reports
    BY <1>3 DEF WriterReads, WritesStore, Delivery!StoreCounts, Fails, Honest
  <2> QED
    BY <1>2, <2>1 DEF Truth
<1>4. ASSUME NEW p, NEW r, Writes(p, r)
      PROVE  Truth'
  <2>1. PICK m \in Delivery!Messages, x \in [status : Delivery!Statuses, id : BOOLEAN] :
               row' = [row EXCEPT ![m] = x] /\ Heard(<<m, x.status>>)
    BY <1>4 DEF Writes
  <2>2. \A k \in Delivery!Messages : row'[k] = IF k = m THEN x ELSE row[k]
    BY <2>1 DEF DeliveryShape
  <2> QED
    BY <1>2, <1>4, <2>1, <2>2 DEF Writes, Truth
<1>5. CASE UNCHANGED Delivery!vars
  BY <1>5 DEF Delivery!vars, Truth, Honest, Heard, Reported
<1> QED
  BY <1>1, <1>3, <1>4, <1>5, StepsAre

-----------------------------------------------------------------------------
(* The counters, when one process is at work at a time and nothing fails. *)

OneWriter == Writers <= 1 /\ Lost = 0 /\ N # 0

Busy == {q \in Delivery!Processes : writer[q] # Delivery!Idle}
CountInv ==
  /\ IsFiniteSet(Busy) /\ \A p, q \in Busy : p = q
  /\ \A p \in Delivery!Processes : Right(writer[p])
  /\ Agrees \/ \E p \in Delivery!Processes : Counting(writer[p])

LEMMA CountInit ==
  ASSUME Delivery!DeliveryAssumption, Delivery!Init, OneWriter
  PROVE  CountInv
<1>1. Busy = {}
  BY DEF Busy, Delivery!Init
<1>2. Delivery!Count("sent") = 0 /\ Delivery!Count("failed") = 0 /\ Delivery!Count("queued") = N
  <2>1. /\ {m \in Delivery!Messages : row[m].status = "sent"} = {}
            /\ {m \in Delivery!Messages : row[m].status = "failed"} = {}
        /\ {m \in Delivery!Messages : row[m].status = "queued"} = Delivery!Messages
    BY DEF Delivery!Init
  <2>2. Cardinality(Delivery!Messages) = N
    BY DeliveryConstants, FS_Interval DEF Delivery!Messages
  <2> QED
    BY <2>1, <2>2, FS_EmptySet, SameSize DEF Delivery!Count
<1>3. Agrees
  BY <1>2 DEF Delivery!Init, Agrees, Delivery!NoTally, OneWriter
<1>4. \A p \in Delivery!Processes : Right(writer[p])
  BY WriterRests DEF Delivery!Init, Right
<1> QED
  BY <1>1, <1>3, <1>4, FS_EmptySet DEF CountInv

LEMMA CountStep ==
  ASSUME Delivery!DeliveryAssumption, OneWriter, DeliveryShape, Truth, CountInv, [Delivery!Next]_Delivery!vars
  PROVE  CountInv'
<1>1. CASE Elsewhere \/ UNCHANGED Delivery!vars
  BY <1>1 DEF Elsewhere, Delivery!vars, CountInv, Busy, Right, Agrees, Delivery!Count
<1>2. ASSUME NEW p, NEW r, Moves(p, r),
             writer[p] # Delivery!Idle
                 \/ Cardinality({q \in Delivery!Processes : writer[q] # Delivery!Idle}) < Writers
      PROVE  /\ IsFiniteSet(Busy') /\ \A q, s \in Busy' : q = s
             /\ \A q \in Delivery!Processes : q # p => writer[q] = Delivery!Idle
             /\ \A q \in Delivery!Processes : writer'[q] = IF q = p THEN r ELSE Delivery!Idle
  <2>1. \A q \in Delivery!Processes : writer'[q] = IF q = p THEN r ELSE writer[q]
    BY <1>2 DEF Moves, DeliveryShape
  <2>2. ASSUME writer[p] # Delivery!Idle
        PROVE  \A q \in Delivery!Processes : q # p => writer[q] = Delivery!Idle
    BY <1>2, <2>2 DEF CountInv, Busy, Moves
  <2>3. ASSUME Cardinality({q \in Delivery!Processes : writer[q] # Delivery!Idle}) < Writers
        PROVE  \A q \in Delivery!Processes : q # p => writer[q] = Delivery!Idle
    <3>1. Cardinality(Busy) \in Nat /\ (Cardinality(Busy) = 0 <=> Busy = {})
      BY FS_CardinalityType, FS_EmptySet DEF CountInv
    <3>2. Busy = {}
      BY <2>3, <3>1 DEF OneWriter, Delivery!DeliveryAssumption, Busy
    <3> QED
      BY <3>2 DEF Busy
  <2>4. \A q \in Delivery!Processes : q # p => writer[q] = Delivery!Idle
    BY <1>2, <2>2, <2>3
  <2>5. \A q \in Delivery!Processes : writer'[q] = IF q = p THEN r ELSE Delivery!Idle
    BY <2>1, <2>4
  <2>6. Busy' \subseteq {p} /\ IsFiniteSet({p})
    BY <2>5, FS_Singleton DEF Busy
  <2>7. IsFiniteSet(Busy')
    BY <2>6, FS_Subset
  <2> QED
    BY <2>4, <2>5, <2>6, <2>7
<1>3. ASSUME NEW p, NEW r, WriterReads(p, r)
      PROVE  CountInv'
  <2>1. /\ Moves(p, r) /\ UNCHANGED <<row, campaign>>
        /\ writer[p] # Delivery!Idle
             \/ Cardinality({q \in Delivery!Processes : writer[q] # Delivery!Idle}) < Writers
    BY <1>3 DEF WriterReads
  <2>2. /\ \A q \in Delivery!Processes : q # p => writer[q] = Delivery!Idle
        /\ \A q \in Delivery!Processes : writer'[q] = IF q = p THEN r ELSE Delivery!Idle
    BY <1>2, <2>1
  <2>3. Right(r) /\ (Counting(writer[p]) => Counting(r)) /\ p \in Delivery!Processes
    BY <1>3 DEF WriterReads, CountInv, Moves, OneWriter
  <2>4. \A q \in Delivery!Processes : Right(writer[q])'
    BY <2>1, <2>2, <2>3, WriterRests DEF Right, Delivery!Count
  <2>5. Agrees' \/ Counting(r)
    <3>1. CASE Agrees
      BY <2>1, <3>1 DEF Agrees, Delivery!Count
    <3>2. ASSUME NEW q \in Delivery!Processes, Counting(writer[q])
          PROVE  Counting(r)
      BY <2>2, <2>3, <3>2, WriterRests DEF Counting
    <3> QED
      BY <3>1, <3>2 DEF CountInv
  <2>6. writer'[p] = r
    BY <2>2, <2>3
  <2>7. Agrees' \/ \E q \in Delivery!Processes : Counting(writer[q])'
    BY <2>3, <2>5, <2>6 DEF Counting
  <2> QED
    BY <1>2, <2>1, <2>4, <2>7 DEF CountInv
<1>4. ASSUME NEW p, NEW r, Writes(p, r)
      PROVE  CountInv'
  <2>1. /\ Moves(p, r) /\ r.at \notin {"recount", "store"} /\ Counting(r) /\ p \in Delivery!Processes
        /\ writer[p] # Delivery!Idle
             \/ Cardinality({q \in Delivery!Processes : writer[q] # Delivery!Idle}) < Writers
    BY <1>4 DEF Writes, Moves
  <2>2. \A q \in Delivery!Processes : writer'[q] = IF q = p THEN r ELSE Delivery!Idle
    BY <1>2, <2>1
  <2>3. \A q \in Delivery!Processes : Right(writer[q])'
    BY <2>1, <2>2, WriterRests DEF Right
  <2>4. \E q \in Delivery!Processes : Counting(writer[q])'
    BY <2>1, <2>2 DEF Counting
  <2> QED
    BY <1>2, <2>1, <2>3, <2>4 DEF CountInv
<1>5. ASSUME NEW p, NEW r, WritesStore(p, r)
      PROVE  CountInv'
  <2>1. /\ Moves(p, r) /\ p \in Delivery!Processes /\ r.at \in {"idle", "messages"} /\ UNCHANGED row
        /\ writer[p].at = "store" /\ writer[p] # Delivery!Idle
    BY <1>5, Known DEF WritesStore, Moves, Delivery!StoreCounts
  <2>2. \A q \in Delivery!Processes : writer'[q] = IF q = p THEN r ELSE Delivery!Idle
    BY <1>2, <2>1
  <2>3. \A q \in Delivery!Processes : Right(writer[q])'
    BY <2>1, <2>2, WriterRests DEF Right
  <2>4. Agrees'
    <3>1. /\ writer[p].tally.sent = Delivery!Count("sent")
              /\ writer[p].tally.failed = Delivery!Count("failed")
          /\ writer[p].tally.status = IF Delivery!Count("queued") > 0 THEN "sending" ELSE "completed"
          /\ writer[p].tally \in [sent : 0..N, failed : 0..N, status : {"sending", "completed", "keep"}]
      BY <2>1, Known DEF CountInv, Right
    <3>2. campaign' = [writer[p].tally EXCEPT !.status = IF @ = "keep" THEN campaign.status ELSE @]
      BY <1>5 DEF WritesStore, Delivery!StoreCounts
    <3>3. /\ campaign'.sent = Delivery!Count("sent") /\ campaign'.failed = Delivery!Count("failed")
          /\ campaign'.status = IF Delivery!Count("queued") > 0 THEN "sending" ELSE "completed"
      BY <3>1, <3>2
    <3>4. Delivery!Count("queued") \in 0..N
      BY CountType
    <3>5. Delivery!Count("queued")' = Delivery!Count("queued")
              /\ Delivery!Count("sent")' = Delivery!Count("sent")
                   /\ Delivery!Count("failed")' = Delivery!Count("failed")
      BY <2>1 DEF Delivery!Count
    <3> QED
      BY <3>3, <3>4, <3>5, DeliveryConstants DEF Agrees
  <2> QED
    BY <1>2, <2>1, <2>3, <2>4 DEF CountInv
<1>6. ASSUME NEW p, NEW r, Fails(p, r)
      PROVE  FALSE
  BY <1>6 DEF Fails, Delivery!Fault, DeliveryShape, OneWriter
<1> QED
  BY <1>1, <1>3, <1>4, <1>5, <1>6, StepsAre

-----------------------------------------------------------------------------
(* The theorems. *)

LEMMA DeliveryInvariant ==
  ASSUME Delivery!DeliveryAssumption
  PROVE  Delivery!Spec => [](DeliveryShape /\ Truth)
<1>1. Delivery!Init => DeliveryShape /\ Truth
  BY DeliveryInit, TruthInit
<1>2. DeliveryShape /\ Truth /\ [Delivery!Next]_Delivery!vars => (DeliveryShape /\ Truth)'
  BY DeliveryStep, TruthStep
<1> QED
  BY <1>1, <1>2, PTL DEF Delivery!Spec

\* Only rows and processes that the handlers can leave behind.
THEOREM DeliveryTypes ==
  ASSUME Delivery!DeliveryAssumption
  PROVE  Delivery!Spec => []Delivery!TypeOK
<1>1. DeliveryShape /\ Truth => Delivery!TypeOK
  BY DEF DeliveryShape, Truth, Delivery!TypeOK, Placed, Reported, Values
<1> QED
  BY <1>1, DeliveryInvariant, PTL

\* However many reports and refreshes interleave, and whatever fails, a message counts as failed
\* only when the provider has given it up.
THEOREM FailedMeansGivenUp ==
  ASSUME Delivery!DeliveryAssumption
  PROVE  Delivery!Spec => []Delivery!FailedWasReported
<1>1. Truth => Delivery!FailedWasReported
  BY DEF Truth, Heard, Delivery!FailedWasReported
<1> QED
  BY <1>1, DeliveryInvariant, PTL

\* One writer at a time leaves counters and a status that say what the messages say.
THEOREM Counters ==
  ASSUME Delivery!DeliveryAssumption, OneWriter
  PROVE  Delivery!Spec => []Delivery!CountersAgree
<1>1. Delivery!Init => CountInv
  BY CountInit
<1>2. DeliveryShape /\ Truth /\ CountInv /\ [Delivery!Next]_Delivery!vars => CountInv'
  BY CountStep
<1>3. CountInv => Delivery!CountersAgree
  BY WriterRests DEF CountInv, Agrees, Delivery!CountersAgree, Counting
<1> QED
  BY <1>1, <1>2, <1>3, DeliveryInvariant, PTL DEF Delivery!Spec

-----------------------------------------------------------------------------
(* 3. The contacts. *)

-----------------------------------------------------------------------------
(* Types. *)

Asking == [at : {"idle", "unsubscribe", "update", "create"}, id : Nat,
           owner : Owners \cup {"none"}, phone : Phones \cup {"none"}]
Line == [phone : Phones \cup {"bad"}, sub : BOOLEAN]
Upload == [at : {"none", "waiting", "row", "insert", "completed", "failed"}, owner : Owners \cup {"none"},
           file : Seq(Line), next : Nat, stalls : Nat,
           created : SUBSET Nat, skipped : SUBSET Nat, inserted : SUBSET Nat]

\* A number that is about to be created, by a form or an import, is one of a store.
AskedFor(r) == r \in Asking /\ (r.at = "create" => r.owner \in Owners /\ r.phone \in Phones)
ImportReading(b) ==
  /\ b \in Upload /\ b.next \in 1..(Len(b.file) + 1)
  /\ b.at # "none" => b.owner \in Owners
  /\ b.at = "insert" => b.next <= Len(b.file) /\ b.file[b.next].phone \in Phones

ContactShape ==
  /\ lastId \in Nat /\ rows \subseteq [id : 1..lastId, owner : Owners, phone : Phones, sub : BOOLEAN]
  /\ \A r, s \in rows : r.id = s.id \/ (r.owner = s.owner /\ r.phone = s.phone) => r = s
  /\ welcomed \subseteq 1..lastId
  /\ wish \in [Owners -> [Phones -> {"none", "in", "out"}]]
  /\ proc \in [Forms -> Asking] /\ \A q \in Forms : AskedFor(proc[q])
  /\ job \in [Jobs -> Upload] /\ \A j \in Jobs : ImportReading(job[j])

\* What a store was last told is what its row says.
Consent ==
  \A o \in Owners, p \in Phones :
    /\ wish[o][p] = "out" /\ "bare" \notin StopForms => \A r \in Contacts!Of(o, p) : ~ r.sub
    /\ wish[o][p] = "in" => \A r \in Contacts!Of(o, p) : r.sub
    /\ wish[o][p] # "none" => Contacts!Of(o, p) # {}

LEMMA FormRests == AskedFor(Contacts!Idle) /\ ImportReading(Contacts!NoJob)
<1>1. Contacts!Idle \in Asking /\ Contacts!Idle.at = "idle"
  BY DEF Contacts!Idle, Asking
<1>2. Contacts!NoJob \in Upload /\ Contacts!NoJob.at = "none" /\ Contacts!NoJob.file = <<>>
          /\ Contacts!NoJob.next = 1
  BY DEF Contacts!NoJob, Upload
<1> QED
  BY <1>1, <1>2 DEF AskedFor, ImportReading

-----------------------------------------------------------------------------
(* What the steps do to the rows. *)

\* The rows after an update of isSubscribed.
LEMMA Subscribed ==
  ASSUME ContactShape, NEW R, NEW s \in BOOLEAN, Contacts!Subscribe(R, s)
  PROVE  /\ rows' \subseteq [id : 1..lastId, owner : Owners, phone : Phones, sub : BOOLEAN]
         /\ \A r, t \in rows' : r.id = t.id \/ (r.owner = t.owner /\ r.phone = t.phone) => r = t
         /\ \A t \in rows' : \E r \in rows : /\ t.owner = r.owner /\ t.phone = r.phone
                                            /\ t.sub = IF r \in R THEN s ELSE r.sub
         /\ \A o, p : Contacts!Of(o, p) # {} => Contacts!Of(o, p)' # {}
<1> DEFINE F(r) == IF r \in R THEN [r EXCEPT !.sub = s] ELSE r
<1>1. rows' = {F(r) : r \in rows}
  BY DEF Contacts!Subscribe
<1>2. ASSUME NEW r \in rows
      PROVE  /\ F(r) \in [id : 1..lastId, owner : Owners, phone : Phones, sub : BOOLEAN]
             /\ F(r).id = r.id /\ F(r).owner = r.owner /\ F(r).phone = r.phone
             /\ F(r).sub = IF r \in R THEN s ELSE r.sub
  BY DEF ContactShape
<1> HIDE DEF F
<1>3. ASSUME NEW r \in rows', NEW t \in rows', r.id = t.id \/ (r.owner = t.owner /\ r.phone = t.phone)
      PROVE  r = t
  <2>1. PICK a \in rows : r = F(a)
    BY <1>1
  <2>2. PICK b \in rows : t = F(b)
    BY <1>1
  <2>3. a = b
    BY <1>2, <1>3, <2>1, <2>2 DEF ContactShape
  <2> QED
    BY <2>1, <2>2, <2>3
<1>4. ASSUME NEW o, NEW p, Contacts!Of(o, p) # {}
      PROVE  Contacts!Of(o, p)' # {}
  <2>1. PICK r \in rows : r.owner = o /\ r.phone = p
    BY <1>4 DEF Contacts!Of
  <2>2. F(r) \in rows' /\ F(r).owner = o /\ F(r).phone = p
    BY <1>1, <1>2, <2>1
  <2> QED
    BY <2>2 DEF Contacts!Of
<1> QED
  BY <1>1, <1>2, <1>3, <1>4

\* The rows after an insert.
LEMMA Created ==
  ASSUME ContactShape, NEW o \in Owners, NEW p \in Phones, NEW s \in BOOLEAN, Contacts!Create(o, p, s)
  PROVE  /\ lastId' \in Nat /\ lastId' = lastId + 1
         /\ rows' \subseteq [id : 1..lastId', owner : Owners, phone : Phones, sub : BOOLEAN]
         /\ \A r, t \in rows' : r.id = t.id \/ (r.owner = t.owner /\ r.phone = t.phone) => r = t
         /\ Contacts!Of(o, p) = {} /\ Contacts!Of(o, p)' # {} /\ \A r \in Contacts!Of(o, p)' : r.sub = s
         /\ \A a \in Owners, b \in Phones : <<a, b>> # <<o, p>> => Contacts!Of(a, b)' = Contacts!Of(a, b)
<1> DEFINE n == [id |-> lastId', owner |-> o, phone |-> p, sub |-> s]
<1>1. /\ lastId' \in Nat /\ lastId' = lastId + 1 /\ rows' = rows \cup {n} /\ Contacts!Of(o, p) = {}
  BY DEF Contacts!Create, ContactShape
<1>2. /\ n \in [id : 1..lastId', owner : Owners, phone : Phones, sub : BOOLEAN]
      /\ n.id = lastId' /\ n.owner = o /\ n.phone = p /\ n.sub = s
  BY <1>1 DEF ContactShape
<1> HIDE DEF n
<1>3. \A r \in rows : /\ r \in [id : 1..lastId', owner : Owners, phone : Phones, sub : BOOLEAN]
                      /\ r.id # lastId' /\ ~ (r.owner = o /\ r.phone = p)
  <2> TAKE r \in rows
  <2>1. r \in [id : 1..lastId, owner : Owners, phone : Phones, sub : BOOLEAN] /\ lastId \in Nat
    BY DEF ContactShape
  <2>2. r.id \in 1..lastId /\ r.owner \in Owners /\ r.phone \in Phones /\ r.sub \in BOOLEAN
    BY <2>1
  <2>3. r.id \in 1..lastId' /\ r.id # lastId'
    BY <1>1, <2>1, <2>2
  <2>4. r \in [id : 1..lastId', owner : Owners, phone : Phones, sub : BOOLEAN]
    BY <2>1, <2>3
  <2>5. ~ (r.owner = o /\ r.phone = p)
    BY <1>1 DEF Contacts!Of
  <2> QED
    BY <2>3, <2>4, <2>5
<1>4. \A r, t \in rows' : r.id = t.id \/ (r.owner = t.owner /\ r.phone = t.phone) => r = t
  BY <1>1, <1>2, <1>3 DEF ContactShape
<1>5. Contacts!Of(o, p)' = {n}
  BY <1>1, <1>2 DEF Contacts!Of
<1>6. \A a \in Owners, b \in Phones : <<a, b>> # <<o, p>> => Contacts!Of(a, b)' = Contacts!Of(a, b)
  BY <1>1, <1>2 DEF Contacts!Of
<1> QED
  BY <1>1, <1>2, <1>3, <1>4, <1>5, <1>6
\* Requests and imports keep their types, whichever of them moves.
LEMMA Asks ==
  ASSUME ContactShape, NEW q \in Forms, NEW r, AskedFor(r), proc' = [proc EXCEPT ![q] = r]
  PROVE  proc' \in [Forms -> Asking] /\ \A u \in Forms : AskedFor(proc'[u])
<1>1. \A u \in Forms : proc'[u] = IF u = q THEN r ELSE proc[u]
  BY DEF ContactShape
<1> QED
  BY <1>1 DEF ContactShape, AskedFor

LEMMA ImportReads ==
  ASSUME ContactShape, NEW j \in Jobs, NEW b, ImportReading(b), job' = [job EXCEPT ![j] = b]
  PROVE  job' \in [Jobs -> Upload] /\ \A u \in Jobs : ImportReading(job'[u])
<1>1. \A u \in Jobs : job'[u] = IF u = j THEN b ELSE job[u]
  BY DEF ContactShape
<1> QED
  BY <1>1 DEF ContactShape, ImportReading

\* An update of isSubscribed that stores are told of, or that the owner decides.
LEMMA SubscribedConsent ==
  ASSUME ContactShape, Consent, NEW R, NEW s \in BOOLEAN, Contacts!Subscribe(R, s),
         \A o \in Owners, p \in Phones :
           \/ wish'[o][p] = "none"
           \/ wish'[o][p] = wish[o][p] /\ \A r \in Contacts!Of(o, p) : r \notin R
           \/ /\ wish'[o][p] = IF s THEN "in" ELSE "out"
              /\ Contacts!Of(o, p) # {} /\ \A r \in Contacts!Of(o, p) : r \in R
           \/ wish'[o][p] = "out" /\ Contacts!Of(o, p) # {} /\ "bare" \in StopForms
  PROVE  Consent'
<1> SUFFICES ASSUME NEW o \in Owners, NEW p \in Phones
             PROVE  /\ wish'[o][p] = "out" /\ "bare" \notin StopForms
                         => \A r \in Contacts!Of(o, p)' : ~ r.sub
                    /\ wish'[o][p] = "in" => \A r \in Contacts!Of(o, p)' : r.sub
                    /\ wish'[o][p] # "none" => Contacts!Of(o, p)' # {}
  BY DEF Consent
<1>1. \A t \in Contacts!Of(o, p)' : \E r \in Contacts!Of(o, p) : t.sub = IF r \in R THEN s ELSE r.sub
  BY Subscribed DEF Contacts!Of
<1>2. Contacts!Of(o, p) # {} => Contacts!Of(o, p)' # {}
  BY Subscribed
<1>3. /\ wish[o][p] = "out" /\ "bare" \notin StopForms => \A r \in Contacts!Of(o, p) : ~ r.sub
      /\ wish[o][p] = "in" => \A r \in Contacts!Of(o, p) : r.sub
      /\ wish[o][p] # "none" => Contacts!Of(o, p) # {}
  BY DEF Consent
<1>4. CASE wish'[o][p] = wish[o][p] /\ \A r \in Contacts!Of(o, p) : r \notin R
  BY <1>1, <1>2, <1>3, <1>4
<1>5. CASE /\ wish'[o][p] = IF s THEN "in" ELSE "out"
           /\ Contacts!Of(o, p) # {} /\ \A r \in Contacts!Of(o, p) : r \in R
  BY <1>1, <1>2, <1>5
<1>6. CASE wish'[o][p] = "out" /\ Contacts!Of(o, p) # {} /\ "bare" \in StopForms
  BY <1>2, <1>6
<1> QED
  BY <1>4, <1>5, <1>6

\* The owner.
LEMMA OwnerSteps ==
  ASSUME ContactShape, Consent, Contacts!Owner
  PROVE  ContactShape' /\ Consent'
<1>1. ASSUME NEW o \in Owners, NEW p \in Phones, Contacts!AddContact(o, p)
      PROVE  ContactShape' /\ Consent'
  <2>1. Contacts!Create(o, p, TRUE) /\ welcomed' = welcomed \cup {lastId'}
            /\ UNCHANGED <<proc, job, wish>>
    BY <1>1 DEF Contacts!AddContact
  <2>2. /\ lastId' \in Nat /\ lastId' = lastId + 1
        /\ rows' \subseteq [id : 1..lastId', owner : Owners, phone : Phones, sub : BOOLEAN]
        /\ \A r, t \in rows' : r.id = t.id \/ (r.owner = t.owner /\ r.phone = t.phone) => r = t
        /\ Contacts!Of(o, p) = {}
        /\ \A a \in Owners, b \in Phones : <<a, b>> # <<o, p>> => Contacts!Of(a, b)' = Contacts!Of(a, b)
    BY <2>1, Created
  <2>3. welcomed' \subseteq 1..lastId'
    <3>1. lastId \in Nat /\ welcomed \subseteq 1..lastId
      BY DEF ContactShape
    <3> QED
      BY <2>1, <2>2, <3>1
  <2>4. ContactShape'
    BY <2>1, <2>2, <2>3 DEF ContactShape
  <2>5. wish[o][p] = "none"
    BY <2>2 DEF Consent
  <2>6. \A a \in Owners, b \in Phones : wish[a][b] # "none" => Contacts!Of(a, b)' = Contacts!Of(a, b)
    BY <2>2, <2>5
  <2>7. Consent'
    BY <2>1, <2>6 DEF Consent
  <2> QED
    BY <2>4, <2>7
<1>2. ASSUME NEW r \in rows, NEW s \in BOOLEAN, Contacts!ToggleContact(r, s)
      PROVE  ContactShape' /\ Consent'
  <2>1. /\ Contacts!Subscribe({r}, s) /\ Contacts!Told(r.owner, r.phone, "none")
            /\ UNCHANGED <<lastId, proc, job, welcomed>>
        /\ r.owner \in Owners /\ r.phone \in Phones
    BY <1>2 DEF Contacts!ToggleContact, ContactShape
  <2>2. /\ wish' \in [Owners -> [Phones -> {"none", "in", "out"}]]
        /\ \A o \in Owners, p \in Phones :
             wish'[o][p] = IF o = r.owner /\ p = r.phone THEN "none" ELSE wish[o][p]
    BY <2>1 DEF Contacts!Told, ContactShape
  <2>3. ContactShape'
    BY <2>1, <2>2, Subscribed DEF ContactShape
  <2>4. \A o \in Owners, p \in Phones :
          wish'[o][p] = "none" \/ (wish'[o][p] = wish[o][p] /\ \A t \in Contacts!Of(o, p) : t \notin {r})
    BY <2>2 DEF Contacts!Of
  <2> QED
    BY <2>1, <2>3, <2>4, SubscribedConsent
<1>3. ASSUME NEW r \in rows, NEW p \in Phones, Contacts!RenumberContact(r, p)
      PROVE  ContactShape' /\ Consent'
  <2> DEFINE n == [r EXCEPT !.phone = p]
  <2>1. /\ rows' = (rows \ {r}) \cup {n} /\ Contacts!Of(r.owner, p) = {}
            /\ UNCHANGED <<lastId, proc, job, welcomed>>
        /\ r \in [id : 1..lastId, owner : Owners, phone : Phones, sub : BOOLEAN]
    BY <1>3 DEF Contacts!RenumberContact, ContactShape
  <2>2. /\ n \in [id : 1..lastId, owner : Owners, phone : Phones, sub : BOOLEAN]
        /\ n.id = r.id /\ n.owner = r.owner /\ n.phone = p
    BY <2>1
  <2>3. /\ wish' \in [Owners -> [Phones -> {"none", "in", "out"}]]
        /\ \A a \in Owners, b \in Phones :
             wish'[a][b] = IF a = r.owner /\ b \in {p, r.phone} THEN "none" ELSE wish[a][b]
    BY <1>3, <2>1 DEF Contacts!RenumberContact, ContactShape
  <2> HIDE DEF n
  <2>4. \A x, y \in rows' : x.id = y.id \/ (x.owner = y.owner /\ x.phone = y.phone) => x = y
    BY <2>1, <2>2 DEF ContactShape, Contacts!Of
  <2>5. ContactShape'
    BY <2>1, <2>2, <2>3, <2>4 DEF ContactShape
  <2>6. \A a \in Owners, b \in Phones : ~ (a = r.owner /\ b \in {p, r.phone})
            => Contacts!Of(a, b)' = Contacts!Of(a, b)
    BY <2>1, <2>2 DEF Contacts!Of
  <2> QED
    BY <2>3, <2>5, <2>6 DEF Consent
<1>4. ASSUME NEW r \in rows, Contacts!DeleteContact(r)
      PROVE  ContactShape' /\ Consent'
  <2>1. /\ rows' = rows \ {r} /\ Contacts!Told(r.owner, r.phone, "none")
            /\ UNCHANGED <<lastId, proc, job, welcomed>>
        /\ r.owner \in Owners /\ r.phone \in Phones
    BY <1>4 DEF Contacts!DeleteContact, ContactShape
  <2>2. /\ wish' \in [Owners -> [Phones -> {"none", "in", "out"}]]
        /\ \A o \in Owners, p \in Phones :
             wish'[o][p] = IF o = r.owner /\ p = r.phone THEN "none" ELSE wish[o][p]
    BY <2>1 DEF Contacts!Told, ContactShape
  <2>3. ContactShape'
    BY <2>1, <2>2 DEF ContactShape
  <2>4. \A o \in Owners, p \in Phones : ~ (o = r.owner /\ p = r.phone)
            => Contacts!Of(o, p)' = Contacts!Of(o, p)
    BY <2>1 DEF Contacts!Of
  <2> QED
    BY <2>2, <2>3, <2>4 DEF Consent
<1> QED
  BY <1>1, <1>2, <1>3, <1>4 DEF Contacts!Owner

\* A customer tells the stores of some of the rows, and no other.
Says(S, w) ==
  wish' = [o \in Owners |-> [p \in Phones |->
             IF \E r \in S : r.owner = o /\ r.phone = p THEN w ELSE wish[o][p]]]

LEMMA Wished ==
  ASSUME ContactShape, NEW S \in SUBSET rows, NEW w \in {"in", "out"}, Says(S, w)
  PROVE  /\ wish' \in [Owners -> [Phones -> {"none", "in", "out"}]]
         /\ \A o \in Owners, p \in Phones :
              \/ wish'[o][p] = wish[o][p] /\ \A r \in Contacts!Of(o, p) : r \notin S
              \/ wish'[o][p] = w /\ Contacts!Of(o, p) # {} /\ \A r \in Contacts!Of(o, p) : r \in S
<1>1. ASSUME NEW o \in Owners, NEW p \in Phones
      PROVE  /\ wish'[o][p] \in {"none", "in", "out"}
             /\ wish'[o][p] = IF \E r \in S : r.owner = o /\ r.phone = p THEN w ELSE wish[o][p]
  BY DEF ContactShape, Says
<1>2. wish' \in [Owners -> [Phones -> {"none", "in", "out"}]]
  BY <1>1 DEF Says
<1>3. ASSUME NEW o \in Owners, NEW p \in Phones
      PROVE  \/ wish'[o][p] = wish[o][p] /\ \A r \in Contacts!Of(o, p) : r \notin S
             \/ wish'[o][p] = w /\ Contacts!Of(o, p) # {} /\ \A r \in Contacts!Of(o, p) : r \in S
  <2>1. CASE \E r \in S : r.owner = o /\ r.phone = p
    BY <1>1, <2>1 DEF Contacts!Of, ContactShape
  <2>2. CASE ~ \E r \in S : r.owner = o /\ r.phone = p
    BY <1>1, <2>2 DEF Contacts!Of
  <2> QED
    BY <2>1, <2>2
<1> QED
  BY <1>2, <1>3

\* A request updates the row it has found, and the customer takes the answer for its word.
LEMMA LinkAnswered ==
  ASSUME ContactShape, Consent, NEW q \in Forms, NEW id, NEW s \in BOOLEAN,
         NEW w \in {"in", "out"}, w = IF s THEN "in" ELSE "out",
         Contacts!Subscribe(Contacts!ById(id), s), proc' = [proc EXCEPT ![q] = Contacts!Idle],
         Says(Contacts!ById(id), w), UNCHANGED <<lastId, job, welcomed>>
  PROVE  ContactShape' /\ Consent'
<1>1. Contacts!ById(id) \in SUBSET rows
  BY DEF Contacts!ById
<1>2. /\ wish' \in [Owners -> [Phones -> {"none", "in", "out"}]]
      /\ \A o \in Owners, p \in Phones :
           \/ wish'[o][p] = wish[o][p] /\ \A r \in Contacts!Of(o, p) : r \notin Contacts!ById(id)
           \/ wish'[o][p] = w /\ Contacts!Of(o, p) # {}
                /\ \A r \in Contacts!Of(o, p) : r \in Contacts!ById(id)
  BY <1>1, Wished
<1>3. \A o \in Owners, p \in Phones :
        \/ wish'[o][p] = "none"
        \/ wish'[o][p] = wish[o][p] /\ \A r \in Contacts!Of(o, p) : r \notin Contacts!ById(id)
        \/ /\ wish'[o][p] = IF s THEN "in" ELSE "out"
           /\ Contacts!Of(o, p) # {} /\ \A r \in Contacts!Of(o, p) : r \in Contacts!ById(id)
  BY <1>2
<1>4. Consent'
  BY <1>3, SubscribedConsent
<1>5. proc' \in [Forms -> Asking] /\ \A u \in Forms : AskedFor(proc'[u])
  BY FormRests, Asks
<1>6. /\ rows' \subseteq [id : 1..lastId, owner : Owners, phone : Phones, sub : BOOLEAN]
      /\ \A r, t \in rows' : r.id = t.id \/ (r.owner = t.owner /\ r.phone = t.phone) => r = t
  BY Subscribed
<1>7. ContactShape'
  BY <1>2, <1>5, <1>6 DEF ContactShape
<1> QED
  BY <1>4, <1>7

\* A new row, and what the customer said of its number: nothing, or that it opts in.
LEMMA Inserted ==
  ASSUME ContactShape, Consent, NEW o \in Owners, NEW p \in Phones,
             NEW s \in BOOLEAN, Contacts!Create(o, p, s),
         welcomed' \subseteq welcomed \cup {lastId'},
         \/ wish' = wish
         \/ Contacts!Told(o, p, "in") /\ s = TRUE,
         proc' \in [Forms -> Asking] /\ \A u \in Forms : AskedFor(proc'[u]),
         job' \in [Jobs -> Upload] /\ \A u \in Jobs : ImportReading(job'[u])
  PROVE  ContactShape' /\ Consent'
<1>1. /\ lastId' \in Nat /\ lastId' = lastId + 1
      /\ rows' \subseteq [id : 1..lastId', owner : Owners, phone : Phones, sub : BOOLEAN]
      /\ \A r, t \in rows' : r.id = t.id \/ (r.owner = t.owner /\ r.phone = t.phone) => r = t
      /\ Contacts!Of(o, p) = {} /\ Contacts!Of(o, p)' # {} /\ \A r \in Contacts!Of(o, p)' : r.sub = s
      /\ \A a \in Owners, b \in Phones : <<a, b>> # <<o, p>> => Contacts!Of(a, b)' = Contacts!Of(a, b)
  BY Created
<1>2. welcomed' \subseteq 1..lastId'
  <2>1. lastId \in Nat /\ welcomed \subseteq 1..lastId
    BY DEF ContactShape
  <2> QED
    BY <1>1, <2>1
<1>3. /\ wish' \in [Owners -> [Phones -> {"none", "in", "out"}]]
      /\ \A a \in Owners, b \in Phones : <<a, b>> # <<o, p>> => wish'[a][b] = wish[a][b]
      /\ wish'[o][p] = wish[o][p] \/ (wish'[o][p] = "in" /\ s = TRUE)
  BY DEF Contacts!Told, ContactShape
<1>4. ContactShape'
  BY <1>1, <1>2, <1>3 DEF ContactShape
<1>5. wish[o][p] = "none"
  BY <1>1 DEF Consent
<1>6. \A a \in Owners, b \in Phones :
        \/ wish'[a][b] = "none"
        \/ wish'[a][b] = wish[a][b] /\ Contacts!Of(a, b)' = Contacts!Of(a, b)
        \/ wish'[a][b] = "in" /\ Contacts!Of(a, b)' # {} /\ \A r \in Contacts!Of(a, b)' : r.sub
  BY <1>1, <1>3, <1>5
<1>7. Consent'
  BY <1>6 DEF Consent
<1> QED
  BY <1>4, <1>7

\* The customer.
LEMMA CustomerSteps ==
  ASSUME Contacts!ContactsAssumption, ContactShape, Consent, Contacts!Customer
  PROVE  ContactShape' /\ Consent'
<1>1. ASSUME NEW form \in StopForms, NEW p \in Phones, Contacts!Stop(form, p)
      PROVE  ContactShape' /\ Consent'
  <2> DEFINE R == {r \in rows : r.phone = Contacts!Normalized(form, p)}
  <2>1. /\ Contacts!Subscribe(R, FALSE) /\ UNCHANGED <<lastId, proc, job, welcomed>>
        /\ wish' = [o \in Owners |-> [wish[o] EXCEPT ![p] = IF Contacts!Of(o, p) = {} THEN @ ELSE "out"]]
    BY <1>1 DEF Contacts!Stop
  <2>2. \A o \in Owners : wish[o] \in [Phones -> {"none", "in", "out"}]
    BY DEF ContactShape
  <2>3. \A o \in Owners, b \in Phones :
          wish'[o][b] = IF b = p /\ Contacts!Of(o, p) # {} THEN "out" ELSE wish[o][b]
    BY <2>1, <2>2
  <2>4. wish' \in [Owners -> [Phones -> {"none", "in", "out"}]]
    BY <2>1, <2>2
  <2>5. \A o \in Owners, b \in Phones :
          \/ wish'[o][b] = wish[o][b] /\ \A r \in Contacts!Of(o, b) : r \notin R
          \/ wish'[o][b] = "out" /\ Contacts!Of(o, b) # {} /\ \A r \in Contacts!Of(o, b) : r \in R
          \/ wish'[o][b] = "out" /\ Contacts!Of(o, b) # {} /\ "bare" \in StopForms
    BY <2>3 DEF Contacts!Of, Contacts!Normalized, Contacts!ContactsAssumption
  <2> HIDE DEF R
  <2>6. /\ rows' \subseteq [id : 1..lastId, owner : Owners, phone : Phones, sub : BOOLEAN]
        /\ \A r, t \in rows' : r.id = t.id \/ (r.owner = t.owner /\ r.phone = t.phone) => r = t
    BY <2>1, Subscribed
  <2>7. ContactShape'
    BY <2>1, <2>4, <2>6 DEF ContactShape
  <2>8. \A o \in Owners, b \in Phones :
          \/ wish'[o][b] = "none"
          \/ wish'[o][b] = wish[o][b] /\ \A r \in Contacts!Of(o, b) : r \notin R
          \/ /\ wish'[o][b] = IF FALSE THEN "in" ELSE "out"
             /\ Contacts!Of(o, b) # {} /\ \A r \in Contacts!Of(o, b) : r \in R
          \/ wish'[o][b] = "out" /\ Contacts!Of(o, b) # {} /\ "bare" \in StopForms
    BY <2>5
  <2>9. Consent'
    BY <2>1, <2>8, SubscribedConsent
  <2> QED
    BY <2>7, <2>9
<1>2. ASSUME NEW q \in Forms, NEW id \in Contacts!Links, Contacts!FindUnsubscriber(q, id)
      PROVE  ContactShape' /\ Consent'
  <2> DEFINE R == {r \in Contacts!ById(id) : r.sub}
             asked == IF R = {} THEN Contacts!Idle ELSE [Contacts!Idle EXCEPT !.at = "unsubscribe",
                 !.id = id]
  <2>1. /\ proc' = [proc EXCEPT ![q] = asked] /\ UNCHANGED <<rows, lastId, job, welcomed>>
        /\ Says(Contacts!ById(id) \ R, "out")
    BY <1>2 DEF Contacts!FindUnsubscriber, Says
  <2>2. AskedFor(asked)
    <3>1. id \in Nat
      BY DEF Contacts!Links, ContactShape
    <3> QED
      BY <3>1, FormRests DEF AskedFor, Asking, Contacts!Idle
  <2>3. proc' \in [Forms -> Asking] /\ \A u \in Forms : AskedFor(proc'[u])
    <3> HIDE DEF asked
    <3> QED
      BY <2>1, <2>2, Asks
  <2>4. Contacts!ById(id) \ R \in SUBSET rows /\ \A r \in Contacts!ById(id) \ R : r.sub = FALSE
    BY DEF Contacts!ById, ContactShape
  <2> HIDE DEF R
  <2>5. /\ wish' \in [Owners -> [Phones -> {"none", "in", "out"}]]
        /\ \A o \in Owners, p \in Phones :
             \/ wish'[o][p] = wish[o][p]
             \/ wish'[o][p] = "out" /\ Contacts!Of(o, p) # {}
                  /\ \A r \in Contacts!Of(o, p) : r \in Contacts!ById(id) \ R
    BY <2>1, <2>4, Wished
  <2>6. ContactShape'
    BY <2>1, <2>3, <2>5 DEF ContactShape
  <2>7. \A o, p : Contacts!Of(o, p)' = Contacts!Of(o, p)
    BY <2>1 DEF Contacts!Of
  <2>8. Consent'
    BY <2>4, <2>5, <2>7 DEF Consent
  <2> QED
    BY <2>6, <2>8
<1>3. ASSUME NEW q \in Forms, NEW o \in Owners, NEW p \in Phones, Contacts!FindOptIn(q, o, p)
      PROVE  ContactShape' /\ Consent'
  <2> DEFINE R == Contacts!Of(o, p)
             asked == IF R = {} THEN [Contacts!Idle EXCEPT !.at = "create", !.owner = o, !.phone = p]
                      ELSE [Contacts!Idle EXCEPT !.at = "update", !.id = (CHOOSE r \in R : TRUE).id]
  <2>1. /\ proc' = [proc EXCEPT ![q] = asked] /\ UNCHANGED <<rows, lastId, job, welcomed, wish>>
    BY <1>3 DEF Contacts!FindOptIn
  <2>2. R # {} => (CHOOSE r \in R : TRUE).id \in Nat
    BY DEF Contacts!Of, ContactShape
  <2>3. AskedFor(asked)
    BY <2>2 DEF AskedFor, Asking, Contacts!Idle
  <2> HIDE DEF asked
  <2>4. proc' \in [Forms -> Asking] /\ \A u \in Forms : AskedFor(proc'[u])
    BY <2>1, <2>3, Asks
  <2> QED
    BY <2>1, <2>4 DEF ContactShape, Consent, Contacts!Of
<1>4. ASSUME NEW q \in Forms, Contacts!Unsubscribe(q)
      PROVE  ContactShape' /\ Consent'
  <2>1. /\ proc' = [proc EXCEPT ![q] = Contacts!Idle]
            /\ Contacts!Subscribe(Contacts!ById(proc[q].id), FALSE)
        /\ Says(Contacts!ById(proc[q].id), "out")
        /\ UNCHANGED <<lastId, job, welcomed>>
    BY <1>4 DEF Contacts!Unsubscribe, Says
  <2> QED
    BY <2>1, LinkAnswered
<1>5. ASSUME NEW q \in Forms, Contacts!UpdateOptIn(q)
      PROVE  ContactShape' /\ Consent'
  <2>1. /\ proc' = [proc EXCEPT ![q] = Contacts!Idle]
            /\ Contacts!Subscribe(Contacts!ById(proc[q].id), TRUE)
        /\ Says(Contacts!ById(proc[q].id), "in")
        /\ UNCHANGED <<lastId, job, welcomed>>
    BY <1>5 DEF Contacts!UpdateOptIn, Says
  <2> QED
    BY <2>1, LinkAnswered
<1>6. ASSUME NEW q \in Forms, Contacts!CreateOptIn(q)
      PROVE  ContactShape' /\ Consent'
  <2>1. /\ proc' = [proc EXCEPT ![q] = Contacts!Idle] /\ UNCHANGED job
        /\ proc[q].owner \in Owners /\ proc[q].phone \in Phones
    BY <1>6 DEF Contacts!CreateOptIn, ContactShape, AskedFor
  <2>2. proc' \in [Forms -> Asking] /\ \A u \in Forms : AskedFor(proc'[u])
    BY <2>1, FormRests, Asks
  <2>3. CASE Contacts!Create(proc[q].owner, proc[q].phone, TRUE)
    <3>1. /\ welcomed' = welcomed \cup {lastId'} /\ Contacts!Told(proc[q].owner, proc[q].phone, "in")
      BY <1>6, <2>3 DEF Contacts!CreateOptIn, Contacts!Create
    <3>2. job' \in [Jobs -> Upload] /\ \A u \in Jobs : ImportReading(job'[u])
      BY <2>1 DEF ContactShape
    <3> QED
      BY <2>1, <2>2, <2>3, <3>1, <3>2, Inserted
  <2>4. CASE ~ Contacts!Create(proc[q].owner, proc[q].phone, TRUE)
    <3>1. UNCHANGED <<rows, lastId, welcomed, wish>>
      BY <1>6, <2>4 DEF Contacts!CreateOptIn
    <3> QED
      BY <2>1, <2>2, <3>1 DEF ContactShape, Consent, Contacts!Of
  <2> QED
    BY <2>3, <2>4
<1> QED
  BY <1>1, <1>2, <1>3, <1>4, <1>5, <1>6 DEF Contacts!Customer

\* The loop over the rows of a file goes on.
LEMMA Skips ==
  ASSUME NEW b, ImportReading(b), b.at \in {"row", "insert"}, b.next <= Len(b.file)
  PROVE  /\ ImportReading(Contacts!Skip(b))
         /\ ImportReading(Contacts!NextRow([b EXCEPT !.created = @ \cup {b.next},
              !.inserted = @ \cup {b.next}]))
         /\ Contacts!IsValid(b.file[b.next]) => ImportReading([b EXCEPT !.at = "insert"])
         /\ b.file[b.next].sub \in BOOLEAN
<1>1. /\ b \in Upload /\ b.next \in 1..(Len(b.file) + 1) /\ b.owner \in Owners
      /\ b.file \in Seq(Line) /\ Len(b.file) \in Nat /\ b.next \in Nat
      /\ b.next + 1 \in Nat /\ b.next + 1 \in 1..(Len(b.file) + 1)
      /\ b.created \cup {b.next} \in SUBSET Nat /\ b.skipped \cup {b.next} \in SUBSET Nat
      /\ b.inserted \cup {b.next} \in SUBSET Nat
  BY DEF ImportReading, Upload
<1>2. ImportReading(Contacts!Skip(b))
  <2> DEFINE c == [b EXCEPT !.skipped = b.skipped \cup {b.next}]
             d == [c EXCEPT !.at = "row", !.next = b.next + 1]
  <2>1. c \in Upload /\ c.next = b.next /\ c.file = b.file /\ c.owner = b.owner
    BY <1>1 DEF Upload
  <2>2. d \in Upload /\ d.next = b.next + 1 /\ d.file = b.file /\ d.owner = b.owner /\ d.at = "row"
    <3> HIDE DEF c
    <3> QED
      BY <1>1, <2>1 DEF Upload
  <2>3. Contacts!Skip(b) = d
    BY <2>1 DEF Contacts!Skip, Contacts!NextRow
  <2> HIDE DEF d
  <2> QED
    BY <1>1, <2>2, <2>3 DEF ImportReading
<1>3. ImportReading(Contacts!NextRow([b EXCEPT !.created = @ \cup {b.next},
          !.inserted = @ \cup {b.next}]))
  <2> DEFINE c == [b EXCEPT !.created = @ \cup {b.next}, !.inserted = @ \cup {b.next}]
             d == [c EXCEPT !.at = "row", !.next = b.next + 1]
  <2>1. c \in Upload /\ c.next = b.next /\ c.file = b.file /\ c.owner = b.owner
    BY <1>1 DEF Upload
  <2>2. d \in Upload /\ d.next = b.next + 1 /\ d.file = b.file /\ d.owner = b.owner /\ d.at = "row"
    <3> HIDE DEF c
    <3> QED
      BY <1>1, <2>1 DEF Upload
  <2>3. Contacts!NextRow(c) = d
    BY <2>1 DEF Contacts!NextRow
  <2> HIDE DEF d
  <2> QED
    BY <1>1, <2>2, <2>3 DEF ImportReading
<1>4. ASSUME Contacts!IsValid(b.file[b.next])
      PROVE  ImportReading([b EXCEPT !.at = "insert"])
  <2> DEFINE d == [b EXCEPT !.at = "insert"]
  <2>1. d \in Upload /\ d.next = b.next /\ d.file = b.file /\ d.owner = b.owner
    BY <1>1 DEF Upload
  <2> HIDE DEF d
  <2>2. ImportReading(d)
    BY <1>1, <1>4, <2>1 DEF ImportReading, Contacts!IsValid
  <2> QED
    BY <2>2 DEF d
<1>5. b.file[b.next].sub \in BOOLEAN
  <2>1. b.file[b.next] \in Line
    BY <1>1
  <2> QED
    BY <2>1 DEF Line
<1> QED
  BY <1>2, <1>3, <1>4, <1>5

\* The steps that leave the rows of the table alone.
LEMMA OnlyJobs ==
  ASSUME ContactShape, Consent, NEW j \in Jobs, NEW b, ImportReading(b), job' = [job EXCEPT ![j] = b],
         UNCHANGED <<rows, lastId, proc, welcomed, wish>>
  PROVE  ContactShape' /\ Consent'
<1>1. job' \in [Jobs -> Upload] /\ \A u \in Jobs : ImportReading(job'[u])
  BY ImportReads
<1> QED
  BY <1>1 DEF ContactShape, Consent, Contacts!Of

\* The imports.
LEMMA ImportSteps ==
  ASSUME Contacts!ContactsAssumption, ContactShape, Consent, NEW j \in Jobs,
         \/ \E o \in Owners, f \in Files : Contacts!QueueImport(j, o, f)
         \/ Contacts!ImportStep(j) \/ Contacts!InsertFails(j) \/ Contacts!WorkerDies(j)
  PROVE  ContactShape' /\ Consent'
<1> DEFINE b == job[j]
<1>1. ImportReading(b)
  BY DEF ContactShape
<1>2. /\ b \in Upload /\ b.next \in 1..(Len(b.file) + 1) /\ Len(b.file) \in Nat
      /\ b.at # "none" => b.owner \in Owners
      /\ b.at = "insert" => b.next <= Len(b.file) /\ b.file[b.next].phone \in Phones
  BY <1>1 DEF ImportReading, Upload
<1>3. ASSUME NEW o \in Owners, NEW f \in Files, Contacts!QueueImport(j, o, f)
      PROVE  ContactShape' /\ Consent'
  <2> DEFINE d == [Contacts!NoJob EXCEPT !.at = "waiting", !.owner = o, !.file = f]
  <2>1. f \in Seq(Line) /\ Len(f) \in Nat
    <3>1. f \in Seq(Line)
      BY DEF Contacts!ContactsAssumption, Line
    <3> QED
      BY <3>1
  <2>2. ImportReading(d)
    <3>1. d \in Upload /\ d.at = "waiting" /\ d.owner = o /\ d.file = f /\ d.next = 1
      BY <2>1 DEF Upload, Contacts!NoJob
    <3> HIDE DEF d
    <3> QED
      BY <2>1, <3>1 DEF ImportReading
  <2>3. job' = [job EXCEPT ![j] = d] /\ UNCHANGED <<rows, lastId, proc, welcomed, wish>>
    BY <1>3 DEF Contacts!QueueImport
  <2> HIDE DEF d
  <2> QED
    BY <2>2, <2>3, OnlyJobs
<1>4. ASSUME Contacts!TakeImport(j)
      PROVE  ContactShape' /\ Consent'
  <2> DEFINE d == [job[j] EXCEPT !.at = IF job[j].file = <<>> THEN "failed" ELSE "row"]
  <2>1. job' = [job EXCEPT ![j] = d] /\ UNCHANGED <<rows, lastId, proc, welcomed, wish>>
    BY <1>4 DEF Contacts!TakeImport
  <2>2. ImportReading(d)
    BY <1>2, <1>4 DEF ImportReading, Upload, Contacts!TakeImport
  <2> HIDE DEF d
  <2> QED
    BY <2>1, <2>2, OnlyJobs
<1>5. ASSUME Contacts!CheckRow(j)
      PROVE  ContactShape' /\ Consent'
  <2>1. /\ b.at = "row" /\ b.next <= Len(b.file) /\ UNCHANGED <<rows, lastId, proc, welcomed, wish>>
        /\ \/ job' = [job EXCEPT ![j] = Contacts!Skip(b)]
           \/ Contacts!IsValid(b.file[b.next]) /\ job' = [job EXCEPT ![j] = [b EXCEPT !.at = "insert"]]
    BY <1>5 DEF Contacts!CheckRow, Contacts!Current
  <2>2. ImportReading(Contacts!Skip(b)) /\ (Contacts!IsValid(b.file[b.next])
            => ImportReading([b EXCEPT !.at = "insert"]))
    BY <1>1, <2>1, Skips
  <2>3. PICK d : ImportReading(d) /\ job' = [job EXCEPT ![j] = d]
    BY <2>1, <2>2
  <2> QED
    BY <2>1, <2>3, OnlyJobs
<1>6. ASSUME Contacts!InsertRow(j)
      PROVE  ContactShape' /\ Consent'
  <2> DEFINE p == b.file[b.next].phone
             s == b.file[b.next].sub
             d == Contacts!NextRow([b EXCEPT !.created = @ \cup {b.next}, !.inserted = @ \cup {b.next}])
  <2>1. /\ b.at = "insert" /\ b.next <= Len(b.file) /\ b.owner \in Owners /\ p \in Phones
        /\ UNCHANGED <<proc, welcomed, wish>>
        /\ \/ Contacts!Create(b.owner, p, s) /\ job' = [job EXCEPT ![j] = d]
           \/ job' = [job EXCEPT ![j] = Contacts!Skip(b)] /\ UNCHANGED <<rows, lastId>>
    <3>1. b.at = "insert" /\ UNCHANGED <<proc, welcomed, wish>>
      BY <1>6 DEF Contacts!InsertRow
    <3>2. \/ Contacts!Create(b.owner, p, s) /\ job' = [job EXCEPT ![j] = d]
          \/ job' = [job EXCEPT ![j] = Contacts!Skip(b)] /\ UNCHANGED <<rows, lastId>>
      <4>1. CASE Contacts!Of(b.owner, p) = {}
        BY <1>6, <4>1 DEF Contacts!InsertRow, Contacts!Current
      <4>2. CASE Contacts!Of(b.owner, p) # {}
        BY <1>6, <4>2 DEF Contacts!InsertRow, Contacts!Current
      <4> QED
        BY <4>1, <4>2
    <3>3. b.owner \in Owners /\ b.next <= Len(b.file) /\ p \in Phones
      BY <1>2, <3>1
    <3> QED
      BY <3>1, <3>2, <3>3
  <2>2. ImportReading(Contacts!Skip(b)) /\ ImportReading(d) /\ s \in BOOLEAN
    BY <1>1, <2>1, Skips
  <2>3. CASE Contacts!Create(b.owner, p, s) /\ job' = [job EXCEPT ![j] = d]
    <3> HIDE DEF d, p, s
    <3>1. job' \in [Jobs -> Upload] /\ \A u \in Jobs : ImportReading(job'[u])
      BY <2>2, <2>3, ImportReads
    <3>2. /\ proc' \in [Forms -> Asking] /\ \A u \in Forms : AskedFor(proc'[u])
          /\ welcomed' \subseteq welcomed \cup {lastId'} /\ wish' = wish
      BY <2>1 DEF ContactShape
    <3> QED
      BY <2>1, <2>2, <2>3, <3>1, <3>2, Inserted
  <2>4. CASE job' = [job EXCEPT ![j] = Contacts!Skip(b)] /\ UNCHANGED <<rows, lastId>>
    BY <2>1, <2>2, <2>4, OnlyJobs
  <2> QED
    BY <2>1, <2>3, <2>4
<1>7. ASSUME Contacts!InsertFails(j)
      PROVE  ContactShape' /\ Consent'
  <2>1. /\ job' = [job EXCEPT ![j] = Contacts!Skip(b)] /\ UNCHANGED <<rows, lastId, proc, welcomed, wish>>
        /\ b.at = "insert" /\ b.next <= Len(b.file)
    BY <1>2, <1>7 DEF Contacts!InsertFails
  <2>2. ImportReading(Contacts!Skip(b))
    BY <1>1, <2>1, Skips
  <2> QED
    BY <2>1, <2>2, OnlyJobs
<1>8. ASSUME Contacts!FinishImport(j)
      PROVE  ContactShape' /\ Consent'
  <2> DEFINE d == [job[j] EXCEPT !.at = "completed"]
  <2>1. job' = [job EXCEPT ![j] = d] /\ UNCHANGED <<rows, lastId, proc, welcomed, wish>>
    BY <1>8 DEF Contacts!FinishImport
  <2>2. ImportReading(d)
    BY <1>2, <1>8 DEF ImportReading, Upload, Contacts!FinishImport
  <2> HIDE DEF d
  <2> QED
    BY <2>1, <2>2, OnlyJobs
<1>9. ASSUME Contacts!WorkerDies(j)
      PROVE  ContactShape' /\ Consent'
  <2> DEFINE d == [Contacts!NoJob EXCEPT !.at = IF job[j].stalls < 1 THEN "waiting" ELSE "failed",
                                !.owner = job[j].owner, !.file = job[j].file,
                                !.stalls = job[j].stalls + 1, !.inserted = job[j].inserted]
  <2>1. /\ job' = [job EXCEPT ![j] = d] /\ UNCHANGED <<rows, lastId, proc, welcomed, wish>>
        /\ b.at # "none"
    BY <1>9 DEF Contacts!WorkerDies
  <2>2. /\ b.owner \in Owners /\ b.file \in Seq(Line) /\ b.stalls + 1 \in Nat
        /\ b.inserted \in SUBSET Nat /\ 1 \in 1..(Len(b.file) + 1)
    BY <1>2, <2>1 DEF Upload
  <2>3. ImportReading(d)
    BY <2>2 DEF ImportReading, Upload, Contacts!NoJob
  <2> HIDE DEF d
  <2> QED
    BY <2>1, <2>3, OnlyJobs
<1> QED
  BY <1>3, <1>4, <1>5, <1>6, <1>7, <1>8, <1>9 DEF Contacts!ImportStep

-----------------------------------------------------------------------------
(* The theorems. *)

LEMMA ConsentInit == Contacts!Init => ContactShape /\ Consent
<1> SUFFICES ASSUME Contacts!Init
             PROVE  ContactShape /\ Consent
  OBVIOUS
<1>1. \A q \in Forms : proc[q] = Contacts!Idle
  BY DEF Contacts!Init
<1>2. Contacts!Idle \in Asking /\ Contacts!NoJob \in Upload
  BY FormRests DEF AskedFor, ImportReading
<1>3. proc \in [Forms -> Asking] /\ \A q \in Forms : AskedFor(proc[q])
  BY <1>1, <1>2, FormRests DEF Contacts!Init
<1>4. job \in [Jobs -> Upload] /\ \A j \in Jobs : ImportReading(job[j])
  BY <1>2, FormRests DEF Contacts!Init
<1>5. wish \in [Owners -> [Phones -> {"none", "in", "out"}]]
      /\ \A o \in Owners, p \in Phones : wish[o][p] = "none"
  BY DEF Contacts!Init
<1>6. lastId = 0 /\ rows = {} /\ welcomed = {}
  BY DEF Contacts!Init
<1> QED
  BY <1>3, <1>4, <1>5, <1>6 DEF ContactShape, Consent

LEMMA ConsentNext ==
  ASSUME Contacts!ContactsAssumption, ContactShape, Consent, [Contacts!Next]_Contacts!vars
  PROVE  ContactShape' /\ Consent'
<1>1. CASE Contacts!Owner
  BY <1>1, OwnerSteps
<1>2. CASE Contacts!Customer
  BY <1>2, CustomerSteps
<1>3. ASSUME NEW j \in Jobs,
             \/ \E o \in Owners, f \in Files : Contacts!QueueImport(j, o, f)
             \/ Contacts!ImportStep(j) \/ Contacts!InsertFails(j) \/ Contacts!WorkerDies(j)
      PROVE  ContactShape' /\ Consent'
  BY <1>3, ImportSteps
<1>4. CASE UNCHANGED Contacts!vars
  BY <1>4 DEF Contacts!vars, ContactShape, Consent, Contacts!Of
<1> QED
  BY <1>1, <1>2, <1>3, <1>4 DEF Contacts!Next

\* A row for a number of a store, ids never used twice, requests and imports as the code leaves
\* them (model Contact, contactImport.worker.js), however requests and imports interleave.
THEOREM ContactTypes ==
  ASSUME Contacts!ContactsAssumption
  PROVE  Contacts!Spec => []Contacts!TypeOK
<1>1. ContactShape => Contacts!TypeOK
  <2> SUFFICES ASSUME ContactShape
               PROVE  Contacts!TypeOK
    OBVIOUS
  <2>1. \A q \in Forms : proc[q].at \in {"idle", "unsubscribe", "update", "create"}
    BY DEF ContactShape, Asking
  <2>2. \A j \in Jobs : /\ job[j].at \in {"none", "waiting", "row", "insert", "completed", "failed"}
                        /\ job[j].next \in 1..(Len(job[j].file) + 1)
    BY DEF ContactShape, Upload, ImportReading
  <2> QED
    BY <2>1, <2>2 DEF ContactShape, Contacts!TypeOK
<1> QED
  BY <1>1, ConsentInit, ConsentNext, PTL DEF Contacts!Spec

\* A customer that has opted out of a store stays out, whatever request, form or import was
\* under way (mitto.webhooks.js and POST /contacts/unsubscribe against all writers), for every
\* way of writing the number of a STOP that normalizeMsisdn understands.
THEOREM OptOuts ==
  ASSUME Contacts!ContactsAssumption, "bare" \notin StopForms
  PROVE  Contacts!Spec => []Contacts!OptOutStands
<1>1. Consent => Contacts!OptOutStands
  BY DEF Consent, Contacts!OptOutStands
<1> QED
  BY <1>1, ConsentInit, ConsentNext, PTL DEF Contacts!Spec

\* A customer that has opted in at a store stays in, whatever it tells another store (the link
\* is scoped to its store, contacts.js).
THEOREM OptIns ==
  ASSUME Contacts!ContactsAssumption
  PROVE  Contacts!Spec => []Contacts!OptInStands
<1>1. Consent => Contacts!OptInStands
  BY DEF Consent, Contacts!OptInStands
<1> QED
  BY <1>1, ConsentInit, ConsentNext, PTL DEF Contacts!Spec

-----------------------------------------------------------------------------
(* 4. The parts together. *)

\* What the parts assume of the constants.
LEMMA Assumptions ==
  /\ Payments!PaymentsAssumption
  /\ Reordered!SubscriptionsAssumption /\ Reordered!OneRequest /\ Reordered!NoUpdates
  /\ Overlapping!SubscriptionsAssumption
  /\ InOrder!SubscriptionsAssumption /\ InOrder!OneRequest
  /\ Delivery!DeliveryAssumption /\ Contacts!ContactsAssumption
  /\ OneSender!AutomationsAssumption /\ OneSender!OneAtATime /\ Senders!AutomationsAssumption
<1>1. Reordered!OneRequest /\ Reordered!NoUpdates /\ InOrder!OneRequest
  BY DEF Reordered!OneRequest, Reordered!NoUpdates, InOrder!OneRequest
<1>2. OneSender!OneAtATime
  BY DEF OneSender!OneAtATime
<1> QED
  BY <1>1, <1>2, OverlapAssumption DEF OverlapAssumption

\* A part that rests does not change.
LEMMA Rest ==
  /\ UNCHANGED payments => UNCHANGED Payments!vars
  /\ UNCHANGED subscriptions => /\ UNCHANGED Reordered!vars
                                /\ UNCHANGED Overlapping!vars
                                /\ UNCHANGED InOrder!vars
  /\ UNCHANGED delivery => UNCHANGED Delivery!vars
  /\ UNCHANGED automations => UNCHANGED OneSender!vars /\ UNCHANGED Senders!vars
  /\ UNCHANGED contacts => UNCHANGED Contacts!vars
BY DEF payments, Payments!vars, Payments!ledger, Payments!bounds,
       subscriptions, Reordered!vars, Reordered!bounds, Overlapping!vars, Overlapping!bounds,
       InOrder!vars, InOrder!bounds, delivery, Delivery!vars, automations, OneSender!vars, Senders!vars, contacts, Contacts!vars

\* The part that was chosen is the one that moves, for ever.
LEMMA OnePart ==
  ASSUME [OverlapNext]_everything
  PROVE  /\ part' = part
         /\ part = "payments" => [Payments!Next]_Payments!vars
         /\ part = "reordered" => [Reordered!Next]_Reordered!vars
         /\ part = "overlapping" => [Overlapping!Next]_Overlapping!vars
         /\ part = "in order" => [InOrder!Next]_InOrder!vars
         /\ part = "delivery" => [Delivery!Next]_Delivery!vars
         /\ part = "one sender" => [OneSender!Next]_OneSender!vars
         /\ part = "senders" => [Senders!Next]_Senders!vars
         /\ part = "contacts" => [Contacts!Next]_Contacts!vars
BY Rest DEF OverlapNext, everything

\* So each part, when it is the one, is an execution of its module.
LEMMA Parts ==
  /\ OverlapSpec /\ part = "payments" => [](part = "payments") /\ Payments!Spec
  /\ OverlapSpec /\ part = "reordered" => [](part = "reordered") /\ Reordered!Spec
  /\ OverlapSpec /\ part = "overlapping" => [](part = "overlapping") /\ Overlapping!Spec
  /\ OverlapSpec /\ part = "in order" => [](part = "in order") /\ InOrder!Spec
  /\ OverlapSpec /\ part = "delivery" => [](part = "delivery") /\ Delivery!Spec
  /\ OverlapSpec /\ part = "one sender" => [](part = "one sender") /\ OneSender!Spec
  /\ OverlapSpec /\ part = "senders" => [](part = "senders") /\ Senders!Spec
  /\ OverlapSpec /\ part = "contacts" => [](part = "contacts") /\ Contacts!Spec
<1>1. OverlapSpec /\ part = "payments" => [](part = "payments") /\ Payments!Spec
  <2>1. OverlapInit /\ part = "payments" => Payments!Init
    BY DEF OverlapInit
  <2>2. part = "payments" /\ [OverlapNext]_everything => (part = "payments")'
            /\ [Payments!Next]_Payments!vars
    BY OnePart
  <2> QED
    BY <2>1, <2>2, PTL DEF OverlapSpec, Payments!Spec
<1>2. OverlapSpec /\ part = "reordered" => [](part = "reordered") /\ Reordered!Spec
  <2>1. OverlapInit /\ part = "reordered" => Reordered!Init
    BY DEF OverlapInit
  <2>2. part = "reordered" /\ [OverlapNext]_everything => (part = "reordered")'
            /\ [Reordered!Next]_Reordered!vars
    BY OnePart
  <2> QED
    BY <2>1, <2>2, PTL DEF OverlapSpec, Reordered!Spec
<1>3. OverlapSpec /\ part = "overlapping" => [](part = "overlapping") /\ Overlapping!Spec
  <2>1. OverlapInit /\ part = "overlapping" => Overlapping!Init
    BY DEF OverlapInit
  <2>2. part = "overlapping" /\ [OverlapNext]_everything => (part = "overlapping")'
            /\ [Overlapping!Next]_Overlapping!vars
    BY OnePart
  <2> QED
    BY <2>1, <2>2, PTL DEF OverlapSpec, Overlapping!Spec
<1>4. OverlapSpec /\ part = "delivery" => [](part = "delivery") /\ Delivery!Spec
  <2>1. OverlapInit /\ part = "delivery" => Delivery!Init
    BY DEF OverlapInit
  <2>2. part = "delivery" /\ [OverlapNext]_everything => (part = "delivery")'
            /\ [Delivery!Next]_Delivery!vars
    BY OnePart
  <2> QED
    BY <2>1, <2>2, PTL DEF OverlapSpec, Delivery!Spec
<1>5. OverlapSpec /\ part = "one sender" => [](part = "one sender") /\ OneSender!Spec
  <2>1. OverlapInit /\ part = "one sender" => OneSender!Init
    BY DEF OverlapInit
  <2>2. part = "one sender" /\ [OverlapNext]_everything => (part = "one sender")'
            /\ [OneSender!Next]_OneSender!vars
    BY OnePart
  <2> QED
    BY <2>1, <2>2, PTL DEF OverlapSpec, OneSender!Spec
<1>6. OverlapSpec /\ part = "senders" => [](part = "senders") /\ Senders!Spec
  <2>1. OverlapInit /\ part = "senders" => Senders!Init
    BY DEF OverlapInit
  <2>2. part = "senders" /\ [OverlapNext]_everything => (part = "senders")' /\ [Senders!Next]_Senders!vars
    BY OnePart
  <2> QED
    BY <2>1, <2>2, PTL DEF OverlapSpec, Senders!Spec
<1>7. OverlapSpec /\ part = "contacts" => [](part = "contacts") /\ Contacts!Spec
  <2>1. OverlapInit /\ part = "contacts" => Contacts!Init
    BY DEF OverlapInit
  <2>2. part = "contacts" /\ [OverlapNext]_everything => (part = "contacts")'
            /\ [Contacts!Next]_Contacts!vars
    BY OnePart
  <2> QED
    BY <2>1, <2>2, PTL DEF OverlapSpec, Contacts!Spec
<1>8. OverlapSpec /\ part = "in order" => [](part = "in order") /\ InOrder!Spec
  <2>1. OverlapInit /\ part = "in order" => InOrder!Init
    BY DEF OverlapInit
  <2>2. part = "in order" /\ [OverlapNext]_everything => (part = "in order")'
            /\ [InOrder!Next]_InOrder!vars
    BY OnePart
  <2> QED
    BY <2>1, <2>2, PTL DEF OverlapSpec, InOrder!Spec
<1> QED
  BY <1>1, <1>2, <1>3, <1>4, <1>5, <1>6, <1>7, <1>8

\* Nothing is credited that was not paid for, in whatever order requests and events come and
\* however many overlap (stripe.webhooks.js, billing.js), and an invoice gives free credits
\* once when requests are handled one at a time (subscription.service.js).
THEOREM Dues == OverlapSpec => []CreditsAreDue
<1>1. Payments!Spec => [](Payments!TypeOK /\ Payments!PaidIsCredited /\ Payments!CreditsArePaidFor)
  <2>1. Payments!Spec => []Payments!TypeOK
    BY Assumptions, Payments!TypeCorrect
  <2>2. Payments!Spec => []Payments!PaidIsCredited
    BY Assumptions, Payments!RowsNeverPart
  <2>3. Payments!Spec => []Payments!CreditsArePaidFor
    BY Assumptions, Payments!PaidFor
  <2> QED
    BY <2>1, <2>2, <2>3, PTL
<1>2. part = "payments" /\ Payments!TypeOK /\ Payments!PaidIsCredited /\ Payments!CreditsArePaidFor
          => CreditsAreDue
  BY DEF CreditsAreDue
<1>3. Reordered!Spec => [](Reordered!TypeOK /\ Reordered!OncePerInvoice)
  <2>1. Reordered!Spec => []Reordered!TypeOK
    BY Assumptions, Reordered!TypeCorrect
  <2>2. Reordered!Spec => []Reordered!OncePerInvoice
    BY Assumptions, Reordered!CreditedOnce
  <2> QED
    BY <2>1, <2>2, PTL
<1>4. part = "reordered" /\ Reordered!TypeOK /\ Reordered!OncePerInvoice => CreditsAreDue
  BY DEF CreditsAreDue
<1>5. Overlapping!Spec => [](Overlapping!TypeOK /\ Overlapping!ActiveWasPaid)
  <2>1. Overlapping!Spec => []Overlapping!TypeOK
    BY Assumptions, Overlapping!TypeCorrect
  <2>2. Overlapping!Spec => []Overlapping!ActiveWasPaid
    BY Assumptions, Overlapping!PaidFirst
  <2> QED
    BY <2>1, <2>2, PTL
<1>6. part = "overlapping" /\ Overlapping!TypeOK /\ Overlapping!ActiveWasPaid => CreditsAreDue
  BY DEF CreditsAreDue
<1>7. ~ (part = "payments" \/ part = "reordered" \/ part = "overlapping") /\ [OverlapNext]_everything
          => (~ (part = "payments" \/ part = "reordered" \/ part = "overlapping"))'
  BY OnePart
<1>8. ~ (part = "payments" \/ part = "reordered" \/ part = "overlapping") => CreditsAreDue
  BY DEF CreditsAreDue
<1> QED
  BY <1>1, <1>2, <1>3, <1>4, <1>5, <1>6, <1>7, <1>8, Parts, PTL DEF OverlapSpec

\* The row of a subscription follows Stripe, through crashes at any point, when Stripe's events
\* come in order and requests one at a time (stripe.webhooks.js:878-1061); if an owner may have
\* several subscriptions, no plan is changed.
THEOREM RowsFollow ==
  ASSUME InOrder!OneSubscription \/ InOrder!NoUpdates
  PROVE  OverlapSpec => []RowAgrees
<1>1. InOrder!Spec => [](InOrder!TypeOK /\ InOrder!RowAgrees)
  <2>1. InOrder!Spec => []InOrder!TypeOK
    BY Assumptions, InOrder!TypeCorrect
  <2>2. InOrder!Spec => []InOrder!RowAgrees
    BY Assumptions, InOrder!RowFollows
  <2> QED
    BY <2>1, <2>2, PTL
<1>2. part = "in order" /\ InOrder!TypeOK /\ InOrder!RowAgrees => RowAgrees
  BY DEF RowAgrees
<1>3. ~ (part = "in order") /\ [OverlapNext]_everything => (~ (part = "in order"))'
  BY OnePart
<1>4. ~ (part = "in order") => RowAgrees
  BY DEF RowAgrees
<1> QED
  BY <1>1, <1>2, <1>3, <1>4, Parts, PTL DEF OverlapSpec

\* No debit without a message that went out, for any number of senders and whatever fails; and
\* books that agree when one sender is at work at a time (automation.service.js).
THEOREM Spendings == OverlapSpec => []SpentWasSent
<1>1. OneSender!Spec => []OneSender!BooksAgree
  BY Assumptions, OneSender!Books
<1>2. part = "one sender" /\ OneSender!BooksAgree => SpentWasSent
  BY DEF SpentWasSent
<1>3. Senders!Spec => [](Senders!TypeOK /\ Senders!NoCreditWithoutMessage)
  <2>1. Senders!Spec => []Senders!TypeOK
    BY Assumptions, Senders!TypeCorrect
  <2>2. Senders!Spec => []Senders!NoCreditWithoutMessage
    BY Assumptions, Senders!Earned
  <2> QED
    BY <2>1, <2>2, PTL
<1>4. part = "senders" /\ Senders!TypeOK /\ Senders!NoCreditWithoutMessage => SpentWasSent
  BY DEF SpentWasSent
<1>5. ~ (part = "one sender" \/ part = "senders") /\ [OverlapNext]_everything
          => (~ (part = "one sender" \/ part = "senders"))'
  BY OnePart
<1>6. ~ (part = "one sender" \/ part = "senders") => SpentWasSent
  BY DEF SpentWasSent
<1> QED
  BY <1>1, <1>2, <1>3, <1>4, <1>5, <1>6, Parts, PTL DEF OverlapSpec

\* What a campaign of at least one message shows is true, when its writers come one at a time
\* and nothing fails (mitto.webhooks.js, statusRefresh.service.js, campaignAggregates.service.js).
THEOREM CampaignTruth ==
  ASSUME OneWriter
  PROVE  OverlapSpec => []CampaignAgrees
<1>1. Delivery!Spec => [](Delivery!TypeOK /\ Delivery!FailedWasReported /\ Delivery!CountersAgree)
  <2>1. Delivery!Spec => []Delivery!TypeOK
    BY Assumptions, DeliveryTypes
  <2>2. Delivery!Spec => []Delivery!FailedWasReported
    BY Assumptions, FailedMeansGivenUp
  <2>3. Delivery!Spec => []Delivery!CountersAgree
    BY Assumptions, Counters
  <2> QED
    BY <2>1, <2>2, <2>3, PTL
<1>2. part = "delivery" /\ Delivery!TypeOK /\ Delivery!FailedWasReported /\ Delivery!CountersAgree
          => CampaignAgrees
  BY DEF CampaignAgrees
<1>3. ~ (part = "delivery") /\ [OverlapNext]_everything => (~ (part = "delivery"))'
  BY OnePart
<1>4. ~ (part = "delivery") => CampaignAgrees
  BY DEF CampaignAgrees
<1> QED
  BY <1>1, <1>2, <1>3, <1>4, Parts, PTL DEF OverlapSpec

\* What a customer last told a store stands, for any number of forms, links and imports at work
\* at the same time, if the provider writes numbers in a way the code understands
\* (mitto.webhooks.js, contacts.js, nfc.service.js, contactImport.service.js).
THEOREM ConsentIsKept ==
  ASSUME "bare" \notin StopForms
  PROVE  OverlapSpec => []ConsentStands
<1>1. Contacts!Spec => [](Contacts!TypeOK /\ Contacts!OptOutStands /\ Contacts!OptInStands)
  <2>1. Contacts!Spec => []Contacts!TypeOK
    BY Assumptions, ContactTypes
  <2>2. Contacts!Spec => []Contacts!OptOutStands
    BY Assumptions, OptOuts
  <2>3. Contacts!Spec => []Contacts!OptInStands
    BY Assumptions, OptIns
  <2> QED
    BY <2>1, <2>2, <2>3, PTL
<1>2. part = "contacts" /\ Contacts!TypeOK /\ Contacts!OptOutStands /\ Contacts!OptInStands
          => ConsentStands
  BY DEF ConsentStands
<1>3. ~ (part = "contacts") /\ [OverlapNext]_everything => (~ (part = "contacts"))'
  BY OnePart
<1>4. ~ (part = "contacts") => ConsentStands
  BY DEF ConsentStands
<1> QED
  BY <1>1, <1>2, <1>3, <1>4, Parts, PTL DEF OverlapSpec
=============================================================================
