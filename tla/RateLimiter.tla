------------------------------ MODULE RateLimiter ------------------------------
(***************************************************************************)
(* The limits on bulk sending (rateLimiter.service.js): before a batch is  *)
(* sent, one counter of its traffic account and one of its tenant, each    *)
(* kept in Redis for one window of time, are incremented by concurrent     *)
(* INCR and EXPIRE commands.  A batch that is refused is tried again.      *)
(***************************************************************************)
EXTENDS Naturals, Sequences, FiniteSets

CONSTANTS Batches, Tenants, TenantOf,
          Account,               \* the traffic account, shared by all tenants
          AccountMax, TenantMax, \* RATE_LIMIT_CONFIG
          Window, Ttl,           \* length of a window, and the life EXPIRE gives a counter
          Attempts,              \* attempts of a job
          MaxLag,                \* assumption: a command is carried out within MaxLag
          MaxTime, MaxFaults     \* bounds: the clock, and commands that fail

ASSUME RateLimiterAssumption ==
  /\ IsFiniteSet(Batches) /\ TenantOf \in [Batches -> Tenants] /\ Account \notin Tenants
  /\ AccountMax \in Nat /\ TenantMax \in Nat /\ Attempts \in Nat \ {0}
  /\ Window \in Nat \ {0} /\ Ttl \in Nat /\ MaxLag \in Nat /\ MaxTime \in Nat /\ MaxFaults \in Nat
  /\ Window + MaxLag <= Ttl

Keys == Tenants \cup {Account}
Times == 0 .. MaxTime + Ttl
Windows == 0 .. MaxTime

VARIABLES now,
          count,  \* value of each counter, 0 when Redis has no such key
          dies,   \* when Redis drops it, if EXPIRE was called
          batch,  \* the batches' checks
          log,    \* history: the window of each check of a batch
          faults

vars == <<now, count, dies, batch, log, faults>>

KeysOf(b) == {Account, TenantOf[b]}
MaxOf(k) == IF k = Account THEN AccountMax ELSE TenantMax
Never == MaxTime + Ttl + 1

\* "rank" is what INCR answered for each key; 0 when the limit was not checked.
Idle == [at |-> "ready", began |-> 0, window |-> 0, incr |-> {}, expire |-> {},
         rank |-> [k \in Keys |-> 0], sent |-> 0]

Init ==
  /\ now = 0 /\ faults = 0
  /\ count = [k \in Keys |-> [w \in Windows |-> 0]]
  /\ dies = [k \in Keys |-> [w \in Windows |-> Never]]
  /\ batch = [b \in Batches |-> Idle]
  /\ log = [b \in Batches |-> <<>>]

\* Mutant of WindowOf: one counter for all time.
WindowOfNone(t) == 0

WindowOf(t) == t \div Window

\* checkAllLimits reads the clock for both keys and sends both commands.
CheckAllLimits(b) ==
  /\ batch[b].at = "ready" /\ Len(log[b]) < Attempts
  /\ batch' = [batch EXCEPT ![b] = [Idle EXCEPT !.at = "checking", !.began = now,
                 !.window = WindowOf(now), !.incr = KeysOf(b)]]
  /\ log' = [log EXCEPT ![b] = Append(@, now \div Window)]
  /\ UNCHANGED <<now, count, dies, faults>>

\* Mutant of Incr: the counter is read, and written by the command that follows.
IncrSplit(b, k) ==
  LET w == batch[b].window
  IN /\ k \in batch[b].incr
     /\ \/ batch[b].rank[k] = 0 /\ UNCHANGED count
           /\ batch' = [batch EXCEPT ![b].rank[k] = count[k][w] + 1]
        \/ batch[b].rank[k] # 0 /\ count' = [count EXCEPT ![k][w] = batch[b].rank[k]]
           /\ batch' = [batch EXCEPT ![b].incr = @ \ {k}, ![b].expire = @ \cup {k}]
     /\ UNCHANGED <<now, dies, log, faults>>

\* INCR adds one and answers the sum, in one step of Redis.
Incr(b, k) ==
  LET w == batch[b].window
  IN /\ k \in batch[b].incr
     /\ count' = [count EXCEPT ![k][w] = @ + 1]
     /\ batch' = [batch EXCEPT ![b].incr = @ \ {k}, ![b].expire = @ \cup {k},
                               ![b].rank[k] = count[k][w] + 1]
     /\ UNCHANGED <<now, dies, log, faults>>

Expire(b, k) ==
  LET w == batch[b].window
  IN /\ k \in batch[b].expire
     /\ dies' = IF count[k][w] = 0 THEN dies ELSE [dies EXCEPT ![k][w] = now + Ttl]
     /\ batch' = [batch EXCEPT ![b].expire = @ \ {k}]
     /\ UNCHANGED <<now, count, log, faults>>

\* A command fails, before Redis carried it out or after: the limit lets the batch through.
FailOpen(b, k) ==
  /\ faults < MaxFaults /\ faults' = faults + 1
  /\ k \in batch[b].incr \cup batch[b].expire
  /\ \/ UNCHANGED count
     \/ k \in batch[b].incr /\ count' = [count EXCEPT ![k][batch[b].window] = @ + 1]
  /\ batch' = [batch EXCEPT ![b].incr = @ \ {k}, ![b].expire = @ \ {k}, ![b].rank[k] = 0]
  /\ UNCHANGED <<now, dies, log>>

Answered(b) == batch[b].at = "checking" /\ batch[b].incr = {} /\ batch[b].expire = {}
Allowed(b) == \A k \in KeysOf(b) : batch[b].rank[k] <= MaxOf(k)

Send(b) ==
  /\ Answered(b) /\ Allowed(b)
  /\ batch' = [batch EXCEPT ![b].at = "sent", ![b].sent = now]
  /\ UNCHANGED <<now, count, dies, log, faults>>

\* The service throws a retryable error; after the last attempt the job has failed.
Refuse(b) ==
  /\ Answered(b) /\ ~Allowed(b)
  /\ batch' = [batch EXCEPT ![b] =
                 IF Len(log[b]) < Attempts THEN Idle ELSE [@ EXCEPT !.at = "failed"]]
  /\ UNCHANGED <<now, count, dies, log, faults>>

\* Time passes, unless a command has waited for MaxLag; Redis drops what has expired.
Tick ==
  /\ now < MaxTime /\ now' = now + 1
  /\ \A b \in Batches : batch[b].incr # {} => now < batch[b].began + MaxLag
  /\ count' = [k \in Keys |-> [w \in Windows |-> IF dies[k][w] <= now' THEN 0 ELSE count[k][w]]]
  /\ dies' = [k \in Keys |-> [w \in Windows |-> IF dies[k][w] <= now' THEN Never ELSE dies[k][w]]]
  /\ UNCHANGED <<batch, log, faults>>

Check(b) ==
  \/ CheckAllLimits(b) \/ Send(b) \/ Refuse(b)
  \/ \E k \in Keys : Incr(b, k) \/ Expire(b, k) \/ FailOpen(b, k)

Next == Tick \/ \E b \in Batches : Check(b)

Spec == Init /\ [][Next]_vars

-----------------------------------------------------------------------------
TypeOK ==
  /\ now \in 0 .. MaxTime /\ faults \in 0 .. MaxFaults
  /\ count \in [Keys -> [Windows -> Nat]]
  /\ dies \in [Keys -> [Windows -> Times \cup {Never}]]
  /\ log \in [Batches -> Seq(Windows)] /\ \A b \in Batches : Len(log[b]) <= Attempts
  /\ batch \in [Batches -> [at : {"ready", "checking", "sent", "failed"}, began : 0 .. MaxTime,
                            window : Windows, incr : SUBSET Keys, expire : SUBSET Keys,
                            rank : [Keys -> Nat], sent : 0 .. MaxTime]]

Sent(k, w) == {b \in Batches : batch[b].at = "sent" /\ batch[b].window = w
                                /\ k \in KeysOf(b) /\ batch[b].rank[k] # 0}

\* However the commands of concurrent workers interleave, no more batches checked in a
\* window are sent than the limit of the account, or of their tenant, allows, those a
\* failing Redis lets through left aside.
WindowHolds == \A k \in Keys, w \in Windows : Cardinality(Sent(k, w)) <= MaxOf(k)

Checks(k, w) == UNION {{<<b, i>> : i \in {j \in 1 .. Len(log[b]) : log[b][j] = w}} :
                         b \in {c \in Batches : k \in KeysOf(c)}}

\* What a batch is refused for was checked in the same window: neither the traffic of an
\* earlier window nor a counter that outlived its own is held against it.
RankWasEarned ==
  \A b \in Batches, k \in Keys : batch[b].at = "checking" =>
    batch[b].rank[k] <= Cardinality(Checks(k, batch[b].began \div Window))

\* A tenant cannot take the capacity of the others: a batch within the limit of its
\* tenant is refused only when the account's limit is used up by batches that were sent,
\* or that are still being checked (checkAllLimits counts the refused ones as well).
\* The code does not keep it (README, section 3).
RefusedOnlyWhenFull ==
  [][\A b \in Batches :
       (Refuse(b) /\ batch[b].rank[TenantOf[b]] <= TenantMax) =>
         Cardinality({c \in Batches : batch[c].window = batch[b].window
                                       /\ batch[c].at \in {"checking", "sent"}} \ {b})
           >= AccountMax]_vars

\* No more than the account's limit is sent within the length of one window, wherever it begins.
\* The code does not keep it (README, section 3).
RateHolds ==
  \A t \in 0 .. MaxTime :
    Cardinality({b \in Batches : batch[b].at = "sent" /\ batch[b].sent \in t .. t + Window - 1})
      <= AccountMax
=============================================================================
