------------------------- MODULE CampaignSendProofs -------------------------
(***************************************************************************)
(* Theorems about CampaignSend, for any number of contacts, callers and    *)
(* worker slots, any schema and any bound on faults:                       *)
(*   - types; every debit and every row marked sent has an SMS behind it;  *)
(*   - who may create the messages of a campaign, and when it is complete, *)
(*     as long as the campaign is Undisturbed;                             *)
(*   - how often a message is sent, likewise, and that it is sent once and *)
(*     its outcome final as long as the run is Faultless.                  *)
(***************************************************************************)
EXTENDS CampaignSend, FiniteSetTheorems, TLAPS

USE DEF campaignVars, moneyVars, providerVars, queueVars, enqVars, workVars

\* Counting messages or contacts gives a natural number.
LEMMA Countable ==
  /\ \A S \in SUBSET Messages : Cardinality(S) \in Nat
  /\ \A S \in SUBSET Contacts : Cardinality(S) \in Nat
<1>1. IsFiniteSet(Messages)
  BY SendAssumption, FS_Product DEF Messages
<1> QED
  BY <1>1, SendAssumption, FS_Subset, FS_CardinalityType

\* The three counts are naturals, for a campaign has finitely many messages.
LEMMA CountsAreNat ==
  /\ Created \subseteq Messages /\ Cardinality(Created) \in Nat
  /\ \A s : With(s) \subseteq Messages /\ Cardinality(With(s)) \in Nat
BY Countable DEF Created, With

\* The initial states are well typed.
LEMMA TypeInit == Init => TypeOK
BY SendAssumption DEF Init, TypeOK, Statuses, Absent, NoRun, NoJob, NoAgg, Job, Row, Sms, Run, Counts, EnqueuerPoints, WorkerPoints

-----------------------------------------------------------------------------
(* Type correctness, one lemma per component. *)

\* What a caller does before it adds jobs keeps the types.
LEMMA EnqueuerTypes ==
  ASSUME TypeOK, NEW e \in Enqueuers,
         \/ ReadCampaign(e) \/ BuildAudience(e) \/ NoRecipients(e) \/ CheckCredits(e)
         \/ Claim(e) \/ NoText(e) \/ InsertFails(e) \/ EnqueuerCrashes(e)
  PROVE  TypeOK'
<1>1. CASE ReadCampaign(e)
  BY <1>1 DEF TypeOK, ReadCampaign, EGoto, EnqueuerPoints
<1>2. CASE BuildAudience(e)
  BY <1>2 DEF TypeOK, BuildAudience, EGoto, EnqueuerPoints
<1>3. CASE NoRecipients(e)
  BY <1>3 DEF TypeOK, NoRecipients, EGoto, EnqueuerPoints, Statuses
<1>4. CASE CheckCredits(e)
  BY <1>4 DEF TypeOK, CheckCredits, EGoto, EnqueuerPoints
<1>5. CASE Claim(e)
  <2>1. CASE status \in Enqueuable
    <3>1. /\ status' \in Statuses
          /\ pending' = [pending EXCEPT ![e] = audience[e]]
          /\ epc' = [epc EXCEPT ![e] = "insert"]
      BY <1>5, <2>1 DEF Claim, EGoto, Statuses
    <3>2. pending' \in [Enqueuers -> SUBSET Contacts]
      BY <3>1 DEF TypeOK
    <3> QED
      BY <1>5, <3>1, <3>2 DEF TypeOK, Claim, EnqueuerPoints
  <2>2. CASE status \notin Enqueuable
    BY <1>5, <2>2 DEF TypeOK, Claim, EGoto, EnqueuerPoints
  <2> QED
    BY <2>1, <2>2
<1>6. CASE NoText(e)
  BY <1>6 DEF TypeOK, NoText, EGoto, EnqueuerPoints, Statuses
<1>7. CASE InsertFails(e)
  BY <1>7 DEF TypeOK, InsertFails, EGoto, EnqueuerPoints, Statuses, Fault
<1>8. CASE EnqueuerCrashes(e)
  BY <1>8 DEF TypeOK, EnqueuerCrashes, EGoto, EnqueuerPoints, Fault
<1> QED
  BY <1>1, <1>2, <1>3, <1>4, <1>5, <1>6, <1>7, <1>8

\* Adding a batch to smsQueue, or failing to, keeps the types.
LEMMA BatchTypes ==
  ASSUME TypeOK, NEW e \in Enqueuers,
         InsertMessages(e) \/ SelectQueued(e) \/ AddJob(e) \/ AddFails(e)
  PROVE  TypeOK'
<1>1. CASE InsertMessages(e)
  <2>1. PICK chunk \in SUBSET pending[e] :
          /\ msgs' = [m \in Messages |-> IF m[1] = e /\ m[2] \in chunk
                                         THEN [status |-> "queued", bulk |-> 0] ELSE msgs[m]]
          /\ pending' = [pending EXCEPT ![e] = @ \ chunk]
          /\ EGoto(e, IF chunk = pending[e] THEN "count" ELSE "insert")
    BY <1>1 DEF InsertMessages
  <2>2. msgs' \in [Messages -> Row]
    BY <2>1 DEF TypeOK, Row
  <2>3. counters' \in [total : Nat, sent : Nat, failed : Nat]
    BY <1>1, Countable DEF InsertMessages, TypeOK
  <2> QED
    BY <1>1, <2>1, <2>2, <2>3 DEF TypeOK, InsertMessages, EGoto, EnqueuerPoints
<1>2. CASE SelectQueued(e)
  <2>1. Unsent(Messages) \subseteq Messages
    BY DEF Unsent
  <2> QED
    BY <1>2, <2>1 DEF TypeOK, SelectQueued, EGoto, EnqueuerPoints
<1>3. CASE AddJob(e)
  <2>1. PICK ids \in SUBSET todo[e] :
          /\ NextBatch(e, ids)
          /\ waiting' = waiting \cup {[by |-> e, ids |-> ids, attempts |-> 0, stalls |-> 0]}
          /\ UNCHANGED faults
    BY <1>3 DEF AddJob
  <2>2. [by |-> e, ids |-> ids, attempts |-> 0, stalls |-> 0] \in Job
    BY <2>1 DEF TypeOK, Job
  <2> QED
    BY <2>1, <2>2 DEF TypeOK, NextBatch, EGoto, EnqueuerPoints
<1>4. CASE AddFails(e)
  BY <1>4 DEF TypeOK, AddFails, NextBatch, EGoto, EnqueuerPoints, Fault
<1> QED
  BY <1>1, <1>2, <1>3, <1>4

\* Where updateCampaignAggregates leaves its caller.
LEMMA GotoTypes ==
  ASSUME TypeOK, NEW p \in Enqueuers \cup Workers,
         NEW s \in {"recount", "store", AfterAggregates(p)}, Goto(p, s)
  PROVE  epc' \in [Enqueuers -> EnqueuerPoints] /\ wpc' \in [Workers -> WorkerPoints]
BY DEF TypeOK, Goto, AfterAggregates, EnqueuerPoints, WorkerPoints

\* updateCampaignAggregates keeps the types, whoever calls it.
LEMMA AggregatesTypes ==
  ASSUME TypeOK, NEW p \in Enqueuers \cup Workers, AggregatesStep(p) \/ AggregatesFail(p)
  PROVE  TypeOK'
<1>0. agg \in [Enqueuers \cup Workers -> Counts] /\ agg[p] \in Counts /\ NoAgg \in Counts
  BY DEF TypeOK, NoAgg, Counts
<1>1. CASE CountMessages(p)
  <2>1. agg' \in [Enqueuers \cup Workers -> Counts]
    BY <1>0, <1>1, CountsAreNat DEF CountMessages, Counts
  <2> QED
    BY <1>1, <2>1, GotoTypes DEF TypeOK, CountMessages
<1>2. CASE CountQueued(p)
  <2>1. agg' \in [Enqueuers \cup Workers -> Counts]
    <3>1. PICK left \in BOOLEAN : agg' = [agg EXCEPT ![p].queued = left]
      <4>1. (With("queued") # {}) \in BOOLEAN
        OBVIOUS
      <4> QED
        BY <1>2, <4>1, Zenon DEF CountQueued
    <3> QED
      BY <1>0, <3>1 DEF Counts
  <2> QED
    BY <1>2, <2>1, GotoTypes DEF TypeOK, CountQueued
<1>3. CASE StoreAggregates(p)
  <2>1. StatusFrom(agg[p]) \in Statuses
    BY DEF TypeOK, StatusFrom, Statuses
  <2>2. counters' \in [total : Nat, sent : Nat, failed : Nat]
    BY <1>0, <1>3 DEF StoreAggregates, Counts
  <2>3. agg' \in [Enqueuers \cup Workers -> Counts]
    BY <1>0, <1>3 DEF StoreAggregates
  <2>4. status' \in Statuses
    BY <1>3, <2>1 DEF StoreAggregates
  <2> QED
    BY <1>3, <2>2, <2>3, <2>4, GotoTypes DEF TypeOK, StoreAggregates
<1>4. CASE AggregatesFail(p)
  <2>1. agg' \in [Enqueuers \cup Workers -> Counts]
    BY <1>0, <1>4 DEF AggregatesFail
  <2> QED
    BY <1>4, <2>1, GotoTypes DEF TypeOK, AggregatesFail, Fault
<1> QED
  BY <1>1, <1>2, <1>3, <1>4 DEF AggregatesStep

\* A run whose messages all fail is a run.
LEMMA AllFailTypes ==
  ASSUME TypeOK, NEW w \in Workers, AllFail(w)
  PROVE  run' \in [Workers -> Run] /\ wpc' \in [Workers -> WorkerPoints]
<1>1. run[w] \in Run /\ run \in [Workers -> Run]
  BY DEF TypeOK
<1> DEFINE r == [run[w] EXCEPT !.ok = {}, !.undebited = {}, !.bulk = 0,
                               !.unwritten = run[w].batch]
<1>2. r \in Run
  BY <1>1 DEF Run
<1>3. run' = [run EXCEPT ![w] = r]
  BY <1>1 DEF AllFail
<1>4. run' \in [Workers -> Run]
  BY <1>1, <1>2, <1>3
<1> QED
  BY <1>4 DEF TypeOK, AllFail, WGoto, WorkerPoints

\* An idle slot's run is a run.
LEMMA NoRunIsRun == NoRun \in Run
BY DEF NoRun, Run, NoJob, Job

\* From the queue to the bulk call.
LEMMA SendTypes ==
  ASSUME TypeOK, NEW w \in Workers,
         \/ TakeJob(w) \/ FetchMessages(w) \/ CheckSubscription(w) \/ CheckBalance(w)
         \/ RateLimited(w) \/ SendBulk(w) \/ SendThrows(w)
  PROVE  TypeOK'
<1>0. run \in [Workers -> Run] /\ run[w] \in Run
  BY DEF TypeOK
<1>1. CASE TakeJob(w)
  <2>1. PICK j \in waiting :
          /\ waiting' = waiting \ {j}
          /\ run' = [run EXCEPT ![w] = [NoRun EXCEPT !.job = j, !.owns = TRUE]]
    BY <1>1 DEF TakeJob
  <2>2. [NoRun EXCEPT !.job = j, !.owns = TRUE] \in Run
    BY NoRunIsRun DEF TypeOK, Run
  <2>3. run' \in [Workers -> Run]
    BY <1>0, <2>1, <2>2
  <2> QED
    BY <1>1, <2>1, <2>3 DEF TypeOK, TakeJob, WGoto, WorkerPoints
<1>2. CASE FetchMessages(w)
  <2>1. Unsent(run[w].job.ids) \in SUBSET Messages
    BY <1>0 DEF Unsent, Run, Job
  <2>2. run' = [run EXCEPT ![w].batch = Unsent(run[w].job.ids)]
    BY <1>2 DEF FetchMessages
  <2>3. run' \in [Workers -> Run]
    BY <1>0, <2>1, <2>2 DEF Run
  <2> QED
    BY <1>2, <2>3 DEF TypeOK, FetchMessages, WGoto, WorkerPoints
<1>3. CASE CheckSubscription(w)
  <2>1. CASE subscribed
    BY <1>3, <2>1 DEF TypeOK, CheckSubscription, WGoto, WorkerPoints
  <2>2. CASE ~subscribed
    <3>1. AllFail(w)
      BY <1>3, <2>2 DEF CheckSubscription
    <3> QED
      BY <1>3, <3>1, AllFailTypes DEF TypeOK, CheckSubscription
  <2> QED
    BY <2>1, <2>2
<1>4. CASE CheckBalance(w)
  <2>1. CASE balance >= Cardinality(run[w].batch)
    BY <1>4, <2>1 DEF TypeOK, CheckBalance, WGoto, WorkerPoints
  <2>2. CASE ~(balance >= Cardinality(run[w].batch))
    <3>1. AllFail(w)
      BY <1>4, <2>2 DEF CheckBalance
    <3> QED
      BY <1>4, <3>1, AllFailTypes DEF TypeOK, CheckBalance
  <2> QED
    BY <2>1, <2>2
<1>5. CASE RateLimited(w)
  <2>1. run' \in [Workers -> Run]
    BY <1>0, <1>5 DEF RateLimited, Run
  <2> QED
    BY <1>5, <2>1 DEF TypeOK, RateLimited, WGoto, WorkerPoints
<1>6. CASE SendBulk(w)
  <2>1. PICK taken \in SUBSET run[w].batch :
          /\ accepted' = accepted \cup {[msg |-> m, bulk |-> calls + 1] : m \in taken}
          /\ run' = [run EXCEPT ![w].bulk = calls + 1, ![w].ok = taken,
                                ![w].undebited = taken, ![w].unwritten = run[w].batch]
          /\ WGoto(w, IF taken = {} THEN "write" ELSE "debit")
    BY <1>6 DEF SendBulk
  <2>2. calls + 1 \in Nat /\ taken \in SUBSET Messages
    BY <1>0 DEF TypeOK, Run
  <2>3. accepted' \subseteq Sms
    BY <2>1, <2>2 DEF TypeOK, Sms
  <2> DEFINE r == [run[w] EXCEPT !.bulk = calls + 1, !.ok = taken,
                                 !.undebited = taken, !.unwritten = run[w].batch]
  <2>4. r \in Run
    BY <1>0, <2>2 DEF Run
  <2>5. run' = [run EXCEPT ![w] = r]
    BY <1>0, <2>1
  <2>6. run' \in [Workers -> Run]
    BY <1>0, <2>4, <2>5
  <2>7. wpc' \in [Workers -> WorkerPoints]
    BY <2>1 DEF TypeOK, WGoto, WorkerPoints
  <2> QED
    BY <1>6, <2>2, <2>3, <2>6, <2>7 DEF TypeOK, SendBulk
<1>7. CASE SendThrows(w)
  <2>1. PICK taken \in SUBSET run[w].batch :
          accepted' = accepted \cup {[msg |-> m, bulk |-> calls + 1] : m \in taken}
    BY <1>7 DEF SendThrows
  <2>2. calls + 1 \in Nat /\ taken \in SUBSET Messages
    BY <1>0 DEF TypeOK, Run
  <2>3. accepted' \subseteq Sms
    BY <2>1, <2>2 DEF TypeOK, Sms
  <2>4. AllFail(w)
    BY <1>7 DEF SendThrows
  <2> QED
    BY <1>7, <2>2, <2>3, <2>4, AllFailTypes DEF TypeOK, SendThrows, Fault
<1> QED
  BY <1>1, <1>2, <1>3, <1>4, <1>5, <1>6, <1>7

\* From the debits to the end of a run.
LEMMA ResultTypes ==
  ASSUME TypeOK, NEW w \in Workers, NEW m \in Messages
  PROVE  ResultOf(w, m) \in Row
<1>1. run[w] \in Run /\ msgs[m] \in Row
  BY DEF TypeOK
<1>2. CASE m \in run[w].ok
  BY <1>1, <1>2 DEF ResultOf, Run, Row
<1>3. CASE m \notin run[w].ok
  BY <1>1, <1>3 DEF ResultOf, Row
<1> QED
  BY <1>2, <1>3

\* The catch of processBatchJob keeps the types.
LEMMA CatchTypes ==
  ASSUME TypeOK, NEW w \in Workers, CatchRetryable(w),
         msgs' \in [Messages -> Row], faults' \in Nat
  PROVE  TypeOK'
<1>1. run[w] \in Run /\ run \in [Workers -> Run]
  BY DEF TypeOK
<1>2. [run[w] EXCEPT !.threw = TRUE, !.unwritten = {}] \in Run
  BY <1>1 DEF Run
<1>3. run' = [run EXCEPT ![w] = [run[w] EXCEPT !.threw = TRUE, !.unwritten = {}]]
  BY <1>1 DEF CatchRetryable
<1>4. run' \in [Workers -> Run]
  BY <1>1, <1>2, <1>3
<1>5. wpc' \in [Workers -> WorkerPoints]
  BY DEF TypeOK, CatchRetryable, WGoto, WorkerPoints
<1> QED
  BY <1>4, <1>5 DEF TypeOK, CatchRetryable

\* A debit, made or failed, keeps the types.
LEMMA DebitTypes ==
  ASSUME TypeOK, NEW w \in Workers, DebitOne(w) \/ DebitFails(w)
  PROVE  TypeOK'
<1>0. run[w] \in Run /\ run \in [Workers -> Run]
  BY DEF TypeOK
<1>1. PICK m \in run[w].undebited : Debited(w, m)
  BY DEF DebitOne, DebitFails
<1>2. m \in Messages /\ [msg |-> m, bulk |-> run[w].bulk] \in Sms
  BY <1>0 DEF Run, Sms
<1>3. run' \in [Workers -> Run]
  BY <1>0, <1>1 DEF Debited, Run
<1>4. wpc' \in [Workers -> WorkerPoints]
  BY <1>1 DEF TypeOK, Debited, WGoto, WorkerPoints
<1>5. balance' \in Nat /\ debits' \subseteq Sms /\ faults' \in Nat
  <2>1. CASE DebitOne(w)
    <3>1. PICK n \in run[w].undebited :
            /\ IF balance > 0
               THEN /\ balance' = balance - 1
                    /\ debits' = debits \cup {[msg |-> n, bulk |-> run[w].bulk]}
               ELSE UNCHANGED <<balance, debits>>
            /\ UNCHANGED faults
      BY <2>1 DEF DebitOne
    <3>2. [msg |-> n, bulk |-> run[w].bulk] \in Sms
      BY <1>0 DEF Run, Sms
    <3> QED
      BY <3>1, <3>2 DEF TypeOK
  <2>2. CASE DebitFails(w)
    BY <2>2 DEF DebitFails, Fault, TypeOK
  <2> QED
    BY <2>1, <2>2
<1> QED
  BY <1>1, <1>3, <1>4, <1>5 DEF TypeOK, Debited

\* Writing results, or being refused, keeps the types.
LEMMA WriteTypes ==
  ASSUME TypeOK, NEW w \in Workers, WriteResult(w) \/ WritesRefused(w) \/ WriteFails(w)
  PROVE  TypeOK'
<1>0. run[w] \in Run /\ run \in [Workers -> Run]
  BY DEF TypeOK
<1>1. CASE WriteResult(w)
  <2>1. PICK m \in run[w].unwritten :
          /\ msgs' = [msgs EXCEPT ![m] = ResultOf(w, m)]
          /\ run' = [run EXCEPT ![w].unwritten = @ \ {m}]
          /\ WGoto(w, IF run[w].unwritten = {m} THEN "count" ELSE "write")
    BY <1>1 DEF WriteResult
  <2>2. msgs' \in [Messages -> Row]
    <3>1. m \in Messages
      BY <1>0 DEF Run
    <3> QED
      BY <2>1, <3>1, ResultTypes DEF TypeOK
  <2>3. run' \in [Workers -> Run]
    BY <1>0, <2>1 DEF Run
  <2>4. wpc' \in [Workers -> WorkerPoints]
    BY <2>1 DEF TypeOK, WGoto, WorkerPoints
  <2> QED
    BY <1>1, <2>2, <2>3, <2>4 DEF TypeOK, WriteResult
<1>2. CASE WritesRefused(w)
  BY <1>2, CatchTypes DEF WritesRefused, TypeOK
<1>3. CASE WriteFails(w)
  <2>1. PICK landed \in SUBSET run[w].unwritten :
          msgs' = [m \in Messages |-> IF m \in landed THEN ResultOf(w, m) ELSE msgs[m]]
    BY <1>3 DEF WriteFails
  <2>2. msgs' \in [Messages -> Row]
    BY <2>1, ResultTypes DEF TypeOK
  <2> QED
    BY <1>3, <2>2, CatchTypes DEF WriteFails, Fault, TypeOK
<1> QED
  BY <1>1, <1>2, <1>3

\* Ending a run keeps the types of the slot.
LEMMA EndRunTypes ==
  ASSUME TypeOK, NEW w \in Workers, EndRun(w)
  PROVE  run' \in [Workers -> Run] /\ wpc' \in [Workers -> WorkerPoints]
<1>1. run' \in [Workers -> Run]
  BY NoRunIsRun DEF TypeOK, EndRun
<1> QED
  BY <1>1 DEF TypeOK, EndRun, WGoto, WorkerPoints

\* Putting a job back keeps the types of the queue.
LEMMA PutBackTypes ==
  ASSUME TypeOK, NEW j \in Job, NEW again \in BOOLEAN, PutBack(j, again)
  PROVE  waiting' \subseteq Job /\ failedJobs' \subseteq Job
BY DEF TypeOK, PutBack

\* A stall keeps the types of the queue.
LEMMA StallTypes ==
  ASSUME TypeOK, NEW w \in Workers, Stall(w)
  PROVE  waiting' \subseteq Job /\ failedJobs' \subseteq Job
<1> DEFINE j == [run[w].job EXCEPT !.stalls = @ + 1]
<1>1. run[w].job \in Job
  BY DEF TypeOK, Run
<1>2. j \in Job /\ (j.stalls <= MaxStalls) \in BOOLEAN
  BY <1>1 DEF Job
<1>3. PutBack(j, j.stalls <= MaxStalls)
  BY DEF Stall
<1> HIDE DEF j
<1> QED
  BY <1>2, <1>3 DEF PutBack, TypeOK

\* The end of a run, a crash and a lost lock keep the types.
LEMMA EndTypes ==
  ASSUME TypeOK, NEW w \in Workers,
         JobDone(w) \/ JobThrew(w) \/ WorkerCrashes(w) \/ LockLost(w)
  PROVE  TypeOK'
<1>0. run[w] \in Run /\ run \in [Workers -> Run]
  BY DEF TypeOK
<1>1. CASE JobDone(w)
  BY <1>1, EndRunTypes DEF TypeOK, JobDone
<1>2. CASE JobThrew(w)
  <2> DEFINE j == [run[w].job EXCEPT !.attempts = @ + 1]
  <2>1. j \in Job
    <3>1. run[w].job \in Job
      BY <1>0 DEF Run
    <3> QED
      BY <3>1 DEF Job
  <2>2. IF run[w].owns THEN PutBack(j, j.attempts < MaxAttempts) ELSE UNCHANGED queueVars
    BY <1>2 DEF JobThrew
  <2>3. EndRun(w)
    BY <1>2 DEF JobThrew
  <2> HIDE DEF j
  <2>4. waiting' \subseteq Job /\ failedJobs' \subseteq Job
    BY <2>1, <2>2 DEF PutBack, TypeOK
  <2> QED
    BY <1>2, <2>3, <2>4, EndRunTypes DEF TypeOK, JobThrew
<1>3. CASE WorkerCrashes(w)
  <2>1. agg' \in [Enqueuers \cup Workers -> Counts]
    BY <1>3 DEF WorkerCrashes, TypeOK, NoAgg, Counts
  <2>2. waiting' \subseteq Job /\ failedJobs' \subseteq Job
    BY <1>3, StallTypes DEF WorkerCrashes, TypeOK
  <2>3. EndRun(w)
    BY <1>3 DEF WorkerCrashes
  <2> QED
    BY <1>3, <2>1, <2>2, <2>3, EndRunTypes DEF TypeOK, WorkerCrashes, Fault
<1>4. CASE LockLost(w)
  <2>1. run' \in [Workers -> Run]
    BY <1>0, <1>4 DEF LockLost, Run
  <2> QED
    BY <1>4, <2>1, StallTypes DEF TypeOK, LockLost, Fault
<1> QED
  BY <1>1, <1>2, <1>3, <1>4

\* Every step keeps the types.
LEMMA TypeStep == TypeOK /\ [Next]_vars => TypeOK'
<1> SUFFICES ASSUME TypeOK, [Next]_vars PROVE TypeOK'
  OBVIOUS
<1>1. ASSUME NEW e \in Enqueuers,
             ReadCampaign(e) \/ EnqueuerStep(e) \/ EnqueuerFault(e)
      PROVE  TypeOK'
  BY <1>1, EnqueuerTypes, BatchTypes, AggregatesTypes DEF EnqueuerStep, EnqueuerFault
<1>2. ASSUME NEW w \in Workers, WorkerStep(w) \/ WorkerFault(w)
      PROVE  TypeOK'
  BY <1>2, SendTypes, DebitTypes, WriteTypes, EndTypes, AggregatesTypes
     DEF WorkerStep, WorkerFault
<1>3. CASE SubscriptionChanges
  BY <1>3 DEF TypeOK, SubscriptionChanges
<1>4. CASE Reopen
  BY <1>4 DEF TypeOK, Reopen, Statuses
<1>5. CASE UNCHANGED vars
  BY <1>5 DEF TypeOK, vars
<1> QED
  BY <1>1, <1>2, <1>3, <1>4, <1>5 DEF Next

\* The values of every variable stay in their types, the status among the enum's: the
\* undetermined status of the aggregates is never written.
THEOREM TypeCorrect == Spec => []TypeOK
BY TypeInit, TypeStep, PTL DEF Spec

-----------------------------------------------------------------------------
(* Money and receipts: every debit and every row marked sent has an SMS of the provider
   behind it. *)

\* What a run believes was sent, the provider has accepted under the run's bulk call; what
\* it has left to debit is part of that.  All three survive each other's runs because
\* accepted only grows.
RunBacked(w) ==
  /\ run[w].undebited \subseteq run[w].ok
  /\ \A m \in run[w].ok : [msg |-> m, bulk |-> run[w].bulk] \in accepted

ReceiptInv == TypeOK /\ (\A w \in Workers : RunBacked(w)) /\ DebitsBacked /\ SentHasReceipt

\* Nothing is debited, sent or about to be, at first.
LEMMA ReceiptInit == Init => ReceiptInv
<1> SUFFICES ASSUME Init PROVE ReceiptInv
  OBVIOUS
<1>1. With("sent") = {}
  BY DEF Init, With, Absent
<1> QED
  BY <1>1, TypeInit DEF Init, ReceiptInv, RunBacked, NoRun, DebitsBacked, SentHasReceipt

\* A step that changes neither rows nor debits keeps the invariant if what every run
\* believes stays backed.
LEMMA ReceiptFrame ==
  ASSUME ReceiptInv, TypeOK', accepted \subseteq accepted',
         msgs' = msgs, debits' = debits,
         \A w \in Workers : RunBacked(w)'
  PROVE  ReceiptInv'
BY DEF ReceiptInv, DebitsBacked, SentHasReceipt, With

\* A run that is left alone, while accepted grows, stays backed.
LEMMA BackedFrame ==
  ASSUME NEW w \in Workers, RunBacked(w), accepted \subseteq accepted',
         /\ run'[w].undebited = run[w].undebited
         /\ run'[w].ok = run[w].ok
         /\ run'[w].bulk = run[w].bulk
  PROVE  RunBacked(w)'
BY DEF RunBacked

\* Giving up every message, or forgetting the run, leaves nothing to back.
LEMMA BackedNothing ==
  ASSUME NEW w \in Workers, run'[w].ok = {}, run'[w].undebited = {}
  PROVE  RunBacked(w)'
BY DEF RunBacked

\* A step that touches no message, debit, SMS or run keeps the receipts.
LEMMA ReceiptQuiet ==
  ASSUME ReceiptInv, TypeOK', UNCHANGED <<accepted, msgs, debits, run>>
  PROVE  ReceiptInv'
BY ReceiptFrame, BackedFrame DEF ReceiptInv

\* Callers create queued messages only.
LEMMA ReceiptEnqueuer ==
  ASSUME ReceiptInv, TypeOK', NEW e \in Enqueuers,
         ReadCampaign(e) \/ EnqueuerStep(e) \/ EnqueuerFault(e)
  PROVE  ReceiptInv'
<1>1. CASE InsertMessages(e)
  <2>1. PICK chunk \in SUBSET pending[e] :
          msgs' = [m \in Messages |-> IF m[1] = e /\ m[2] \in chunk
                                      THEN [status |-> "queued", bulk |-> 0] ELSE msgs[m]]
    BY <1>1 DEF InsertMessages
  <2>2. \A m \in With("sent")' : m \in With("sent") /\ msgs'[m] = msgs[m]
    BY <2>1 DEF With
  <2> QED
    BY <1>1, <2>2, BackedFrame DEF InsertMessages, ReceiptInv, DebitsBacked, SentHasReceipt
<1>2. CASE UNCHANGED <<accepted, msgs, debits, run>>
  BY <1>2, ReceiptQuiet
<1> QED
  BY <1>1, <1>2 DEF EnqueuerStep, EnqueuerFault, ReadCampaign, BuildAudience, NoRecipients,
     CheckCredits, Claim, NoText, InsertFails, AggregatesStep, CountMessages, CountQueued,
     StoreAggregates, AggregatesFail, SelectQueued, AddJob, AddFails, NextBatch,
     EnqueuerCrashes

\* Steps of a worker that leave rows and debits alone.
LEMMA ReceiptSend ==
  ASSUME ReceiptInv, TypeOK', NEW w \in Workers,
         \/ TakeJob(w) \/ FetchMessages(w) \/ CheckSubscription(w) \/ CheckBalance(w)
         \/ RateLimited(w) \/ SendBulk(w) \/ SendThrows(w) \/ WritesRefused(w)
         \/ AggregatesStep(w) \/ AggregatesFail(w)
         \/ JobDone(w) \/ JobThrew(w) \/ WorkerCrashes(w) \/ LockLost(w)
  PROVE  ReceiptInv'
<1>0. run \in [Workers -> Run] /\ RunBacked(w) /\ \A v \in Workers : RunBacked(v)
  BY DEF ReceiptInv, TypeOK
<1>1. /\ UNCHANGED <<msgs, debits>>
      /\ accepted \subseteq accepted'
      /\ \A v \in Workers \ {w} : run'[v] = run[v]
  BY <1>0 DEF TakeJob, FetchMessages, CheckSubscription, CheckBalance, RateLimited, SendBulk,
     SendThrows, WritesRefused, CatchRetryable, AllFail, AggregatesStep, CountMessages,
     CountQueued, StoreAggregates, AggregatesFail, JobDone, JobThrew, WorkerCrashes, LockLost,
     EndRun
<1>2. \A v \in Workers \ {w} : RunBacked(v)'
  BY <1>0, <1>1 DEF RunBacked
<1> SUFFICES RunBacked(w)'
  BY <1>1, <1>2, ReceiptFrame
<1>3. CASE \/ FetchMessages(w) \/ RateLimited(w) \/ WritesRefused(w) \/ LockLost(w)
           \/ AggregatesStep(w) \/ AggregatesFail(w)
  BY <1>0, <1>1, <1>3, BackedFrame
     DEF FetchMessages, RateLimited, WritesRefused, CatchRetryable, LockLost, AggregatesStep,
         CountMessages, CountQueued, StoreAggregates, AggregatesFail, Run
<1>4. CASE JobDone(w) \/ JobThrew(w) \/ WorkerCrashes(w)
  BY <1>0, <1>4, BackedNothing DEF JobDone, JobThrew, WorkerCrashes, EndRun, NoRun
<1>5. CASE TakeJob(w)
  BY <1>0, <1>5, BackedNothing DEF TakeJob, NoRun
<1>6. ASSUME AllFail(w) PROVE RunBacked(w)'
  <2>1. run'[w].ok = {} /\ run'[w].undebited = {}
    BY <1>0, <1>6 DEF AllFail, Run
  <2> QED
    BY <2>1, BackedNothing
<1>7. CASE CheckSubscription(w) \/ CheckBalance(w) \/ SendThrows(w)
  <2>1. CASE run' = run
    BY <1>0, <1>1, <2>1, BackedFrame
  <2> QED
    BY <1>6, <1>7, <2>1 DEF CheckSubscription, CheckBalance, SendThrows
<1>8. CASE SendBulk(w)
  <2>1. PICK taken \in SUBSET run[w].batch :
          /\ accepted' = accepted \cup {[msg |-> m, bulk |-> calls + 1] : m \in taken}
          /\ run' = [run EXCEPT ![w].bulk = calls + 1, ![w].ok = taken,
                                ![w].undebited = taken, ![w].unwritten = run[w].batch]
    BY <1>8 DEF SendBulk
  <2>2. run[w] \in Run
    BY <1>0
  <2>3. run'[w].ok = taken /\ run'[w].undebited = taken /\ run'[w].bulk = calls + 1
    BY <1>0, <2>1, <2>2 DEF Run
  <2>4. \A m \in taken : [msg |-> m, bulk |-> calls + 1] \in accepted'
    BY <2>1
  <2> QED
    BY <2>3, <2>4 DEF RunBacked
<1> QED
  BY <1>3, <1>4, <1>5, <1>7, <1>8

\* A debit is for an SMS of the run's own bulk call.
LEMMA ReceiptDebit ==
  ASSUME ReceiptInv, TypeOK', NEW w \in Workers, DebitOne(w) \/ DebitFails(w)
  PROVE  ReceiptInv'
<1>0. run \in [Workers -> Run] /\ RunBacked(w) /\ \A v \in Workers : RunBacked(v)
  BY DEF ReceiptInv, TypeOK
<1>1. PICK m \in run[w].undebited :
        /\ Debited(w, m)
        /\ \/ debits' = debits
           \/ debits' = debits \cup {[msg |-> m, bulk |-> run[w].bulk]}
  BY DEF DebitOne, DebitFails
<1>2. UNCHANGED <<msgs, accepted>> /\ run' = [run EXCEPT ![w].undebited = @ \ {m}]
  BY <1>1 DEF Debited
<1>3. debits' \subseteq accepted'
  BY <1>0, <1>1, <1>2 DEF ReceiptInv, DebitsBacked, RunBacked
<1>4. \A v \in Workers : RunBacked(v)'
  BY <1>0, <1>2 DEF RunBacked, Run
<1> QED
  BY <1>2, <1>3, <1>4 DEF ReceiptInv, DebitsBacked, SentHasReceipt, With

\* The row that a result leaves, if it says sent, has a receipt.
LEMMA ResultHasReceipt ==
  ASSUME TypeOK, NEW w \in Workers, RunBacked(w), NEW m \in Messages,
         ResultOf(w, m).status = "sent"
  PROVE  [msg |-> m, bulk |-> ResultOf(w, m).bulk] \in accepted
<1>1. m \in run[w].ok
  BY DEF ResultOf, TypeOK, Row
<1> QED
  BY <1>1 DEF ResultOf, RunBacked

\* A result written as sent has its receipt.
LEMMA ReceiptWrite ==
  ASSUME ReceiptInv, TypeOK', NEW w \in Workers, WriteResult(w) \/ WriteFails(w)
  PROVE  ReceiptInv'
<1>0. run \in [Workers -> Run] /\ RunBacked(w) /\ TypeOK /\ \A v \in Workers : RunBacked(v)
  BY DEF ReceiptInv, TypeOK
<1>1. /\ UNCHANGED <<accepted, debits>>
      /\ \A v \in Workers : /\ run'[v].ok = run[v].ok
                            /\ run'[v].undebited = run[v].undebited
                            /\ run'[v].bulk = run[v].bulk
  BY <1>0 DEF WriteResult, WriteFails, CatchRetryable, Run
<1>2. \A m \in Messages : msgs'[m] \in {msgs[m], ResultOf(w, m)}
  BY <1>0 DEF WriteResult, WriteFails, TypeOK
<1>3. \A m \in With("sent")' : [msg |-> m, bulk |-> msgs'[m].bulk] \in accepted
  <2> TAKE m \in With("sent")'
  <2>1. m \in Messages /\ msgs'[m].status = "sent"
    BY DEF With
  <2>2. CASE msgs'[m] = msgs[m]
    BY <2>1, <2>2 DEF ReceiptInv, SentHasReceipt, With
  <2>3. CASE msgs'[m] = ResultOf(w, m)
    BY <1>0, <2>1, <2>3, ResultHasReceipt
  <2> QED
    BY <1>2, <2>1, <2>2, <2>3
<1> QED
  BY <1>0, <1>1, <1>3, BackedFrame DEF ReceiptInv, DebitsBacked, SentHasReceipt

\* Every step keeps the receipts.
LEMMA ReceiptStep == ReceiptInv /\ [Next]_vars => ReceiptInv'
<1> SUFFICES ASSUME ReceiptInv, [Next]_vars PROVE ReceiptInv'
  OBVIOUS
<1>0. TypeOK'
  BY TypeStep DEF ReceiptInv
<1>1. ASSUME NEW w \in Workers, WorkerStep(w) \/ WorkerFault(w) PROVE ReceiptInv'
  BY <1>0, <1>1, ReceiptSend, ReceiptDebit, ReceiptWrite DEF WorkerStep, WorkerFault
<1>2. CASE SubscriptionChanges \/ Reopen
  BY <1>0, <1>2, ReceiptQuiet DEF SubscriptionChanges, Reopen
<1>3. CASE UNCHANGED vars
  BY <1>0, <1>3, ReceiptQuiet DEF vars
<1> QED
  BY <1>0, <1>1, <1>2, <1>3, ReceiptEnqueuer DEF Next

\* The receipts hold in every reachable state.
LEMMA ReceiptInvariant == Spec => []ReceiptInv
BY ReceiptInit, ReceiptStep, PTL DEF Spec

\* A credit is debited only for an SMS the provider has accepted, and at most once for
\* each, under every interleaving of crashes, lost locks, refusals and retries
\* (smsBulk.service.js:206-276).
THEOREM NoPhantomDebit == Spec => []DebitsBacked
BY ReceiptInvariant, PTL DEF ReceiptInv

\* A row marked sent carries the bulk id of an SMS the provider accepted for that very
\* message, even when several runs write its result (sms.worker.js:312-344).
THEOREM SentRowsHaveReceipts == Spec => []SentHasReceipt
BY ReceiptInvariant, PTL DEF ReceiptInv

-----------------------------------------------------------------------------
(* The ledger: each debit row is one credit gone. *)

\* The bulk calls are numbered by calls, and no two runs work on the same one.
BulkOrder ==
  /\ \A a \in accepted : a.bulk <= calls
  /\ \A w \in Workers : run[w].bulk <= calls
  /\ \A w \in Workers : run[w].undebited # {} => run[w].bulk # 0
  /\ \A v, w \in Workers : run[v].bulk = run[w].bulk /\ run[w].bulk # 0 => v = w

\* What a run has still to debit has no row yet, so its debit adds one.
NotYetDebited ==
  \A w \in Workers : \A m \in run[w].undebited : [msg |-> m, bulk |-> run[w].bulk] \notin debits

CreditInv == /\ ReceiptInv
             /\ BulkOrder
             /\ NotYetDebited
             /\ IsFiniteSet(debits)
             /\ CreditsConserved

\* At first no credit has been spent.
LEMMA CreditInit == Init => CreditInv
BY ReceiptInit, SendAssumption, FS_EmptySet
   DEF Init, CreditInv, BulkOrder, NotYetDebited, CreditsConserved, NoRun

\* A step without a debit row, after which every run has the bulk it had and no new debits
\* left, or neither.
LEMMA CreditFrame ==
  ASSUME CreditInv, ReceiptInv', UNCHANGED <<debits, balance, accepted, calls>>,
         \A w \in Workers : \/ /\ run'[w].bulk = run[w].bulk
                               /\ run'[w].undebited \subseteq run[w].undebited
                            \/ run'[w].bulk = 0 /\ run'[w].undebited = {}
  PROVE  CreditInv'
<1>0. calls \in Nat /\ \A w \in Workers : run[w].bulk \in Nat
  BY DEF CreditInv, ReceiptInv, TypeOK, Run
<1>1. BulkOrder'
  <2>1. \A w \in Workers : run'[w].bulk <= calls'
    BY <1>0 DEF CreditInv, BulkOrder
  <2>2. \A w \in Workers : run'[w].undebited # {} => run'[w].bulk # 0
    BY DEF CreditInv, BulkOrder
  <2>3. \A v, w \in Workers : run'[v].bulk = run'[w].bulk /\ run'[w].bulk # 0 => v = w
    BY DEF CreditInv, BulkOrder
  <2> QED
    BY <2>1, <2>2, <2>3 DEF CreditInv, BulkOrder
<1>2. NotYetDebited'
  BY DEF CreditInv, NotYetDebited
<1> QED
  BY <1>1, <1>2 DEF CreditInv, CreditsConserved

\* The bulk call: it has a number of its own, larger than that of any debit.
LEMMA CreditBulk ==
  ASSUME CreditInv, ReceiptInv', NEW w \in Workers, NEW taken \in SUBSET Messages,
         accepted' = accepted \cup {[msg |-> m, bulk |-> calls + 1] : m \in taken},
         calls' = calls + 1, UNCHANGED <<debits, balance>>,
         \A v \in Workers \ {w} : run'[v] = run[v],
         \/ run'[w].bulk = calls + 1
         \/ run'[w].bulk = 0 /\ run'[w].undebited = {}
  PROVE  CreditInv'
<1>0. /\ calls \in Nat /\ debits \subseteq accepted /\ accepted \subseteq Sms
      /\ \A v \in Workers : run[v].bulk \in Nat
  BY DEF CreditInv, ReceiptInv, DebitsBacked, TypeOK, Run
<1>1. \A a \in accepted' : a.bulk <= calls'
  BY <1>0 DEF CreditInv, BulkOrder, Sms
<1>2. BulkOrder'
  BY <1>0, <1>1 DEF CreditInv, BulkOrder
<1>3. NotYetDebited'
  <2> SUFFICES ASSUME NEW v \in Workers, NEW m \in run'[v].undebited
               PROVE  [msg |-> m, bulk |-> run'[v].bulk] \notin debits
    BY DEF NotYetDebited
  <2>1. CASE v # w
    BY <2>1 DEF CreditInv, NotYetDebited
  <2>2. CASE v = w
    <3>1. run'[w].bulk = calls + 1
      BY <2>2
    <3>2. \A d \in debits : d.bulk <= calls
      BY <1>0 DEF CreditInv, BulkOrder
    <3>3. ~(calls + 1 <= calls)
      BY <1>0
    <3> QED
      BY <2>2, <3>1, <3>2, <3>3
  <2> QED
    BY <2>1, <2>2
<1> QED
  BY <1>2, <1>3 DEF CreditInv, CreditsConserved

\* A debit takes one credit and writes one row that was not there.
LEMMA CreditDebit ==
  ASSUME CreditInv, ReceiptInv', NEW w \in Workers, DebitOne(w)
  PROVE  CreditInv'
<1>0. /\ run \in [Workers -> Run] /\ balance \in Nat
      /\ IsFiniteSet(debits) /\ Cardinality(debits) \in Nat
  BY FS_CardinalityType DEF CreditInv, ReceiptInv, TypeOK
<1>1. PICK m \in run[w].undebited :
        /\ Debited(w, m)
        /\ IF balance > 0
           THEN /\ balance' = balance - 1
                /\ debits' = debits \cup {[msg |-> m, bulk |-> run[w].bulk]}
           ELSE UNCHANGED <<balance, debits>>
  BY DEF DebitOne
<1> DEFINE d == [msg |-> m, bulk |-> run[w].bulk]
<1>2. /\ UNCHANGED <<accepted, calls>>
      /\ run' = [run EXCEPT ![w].undebited = @ \ {m}]
  BY <1>1 DEF Debited
<1>3. /\ \A v \in Workers : run'[v].bulk = run[v].bulk
      /\ \A v \in Workers \ {w} : run'[v].undebited = run[v].undebited
      /\ run'[w].undebited = run[w].undebited \ {m}
  BY <1>0, <1>2 DEF Run
<1>4. BulkOrder'
  BY <1>2, <1>3 DEF CreditInv, BulkOrder
<1>5. d \notin debits
  BY DEF CreditInv, NotYetDebited
<1>6. NotYetDebited'
  <2> SUFFICES ASSUME NEW v \in Workers, NEW n \in run'[v].undebited,
                      [msg |-> n, bulk |-> run'[v].bulk] \in debits'
               PROVE  FALSE
    BY DEF NotYetDebited
  <2>1. n \in run[v].undebited /\ [msg |-> n, bulk |-> run[v].bulk] \notin debits
    BY <1>3 DEF CreditInv, NotYetDebited
  <2>2. [msg |-> n, bulk |-> run[v].bulk] = d
    BY <1>1, <1>3, <2>1
  <2>3. n = m /\ run[v].bulk = run[w].bulk
    BY <2>2
  <2>4. v = w
    BY <2>3 DEF CreditInv, BulkOrder
  <2> QED
    BY <1>3, <2>3, <2>4
<1>7. IsFiniteSet(debits') /\ balance' + Cardinality(debits') = InitBalance
  <2>1. CASE balance > 0
    <3>1. IsFiniteSet(debits') /\ Cardinality(debits') = Cardinality(debits) + 1
      BY <1>0, <1>1, <1>5, <2>1, FS_AddElement
    <3> QED
      BY <1>0, <1>1, <2>1, <3>1 DEF CreditInv, CreditsConserved
  <2>2. CASE ~(balance > 0)
    BY <1>0, <1>1, <2>2 DEF CreditInv, CreditsConserved
  <2> QED
    BY <2>1, <2>2
<1> QED
  BY <1>4, <1>6, <1>7 DEF CreditInv, CreditsConserved

\* A bulk call is new: none of its SMS has been debited.
LEMMA CreditSend ==
  ASSUME CreditInv, ReceiptInv', NEW w \in Workers, SendBulk(w) \/ SendThrows(w)
  PROVE  CreditInv'
<1>0. run \in [Workers -> Run] /\ run[w] \in Run
  BY DEF CreditInv, ReceiptInv, TypeOK
<1>1. CASE SendBulk(w)
  <2>1. PICK taken \in SUBSET run[w].batch :
          /\ accepted' = accepted \cup {[msg |-> m, bulk |-> calls + 1] : m \in taken}
          /\ run' = [run EXCEPT ![w].bulk = calls + 1, ![w].ok = taken,
                                ![w].undebited = taken, ![w].unwritten = run[w].batch]
    BY <1>1 DEF SendBulk
  <2>2. taken \in SUBSET Messages
    BY <1>0 DEF Run
  <2>3. run'[w].bulk = calls + 1 /\ \A v \in Workers \ {w} : run'[v] = run[v]
    BY <1>0, <2>1 DEF Run
  <2> QED
    BY <1>1, <2>1, <2>2, <2>3, CreditBulk DEF SendBulk
<1>2. CASE SendThrows(w)
  <2>1. PICK taken \in SUBSET run[w].batch :
          accepted' = accepted \cup {[msg |-> m, bulk |-> calls + 1] : m \in taken}
    BY <1>2 DEF SendThrows
  <2>2. taken \in SUBSET Messages
    BY <1>0 DEF Run
  <2>3. /\ run'[w].bulk = 0 /\ run'[w].undebited = {}
        /\ \A v \in Workers \ {w} : run'[v] = run[v]
    BY <1>0, <1>2 DEF SendThrows, AllFail, Run
  <2> QED
    BY <1>2, <2>1, <2>2, <2>3, CreditBulk DEF SendThrows
<1> QED
  BY <1>1, <1>2

\* A step that touches no money, SMS or run keeps the account.
LEMMA CreditQuiet ==
  ASSUME CreditInv, ReceiptInv', UNCHANGED <<debits, balance, accepted, calls, run>>
  PROVE  CreditInv'
BY CreditFrame

\* A worker's steps keep the account.
LEMMA CreditWorker ==
  ASSUME CreditInv, ReceiptInv', NEW w \in Workers,
         \/ TakeJob(w) \/ FetchMessages(w) \/ CheckSubscription(w) \/ CheckBalance(w)
         \/ RateLimited(w) \/ DebitFails(w) \/ WriteResult(w) \/ WritesRefused(w)
         \/ WriteFails(w) \/ AggregatesStep(w) \/ AggregatesFail(w)
         \/ JobDone(w) \/ JobThrew(w) \/ WorkerCrashes(w) \/ LockLost(w)
  PROVE  CreditInv'
<1>0. run \in [Workers -> Run] /\ run[w] \in Run
  BY DEF CreditInv, ReceiptInv, TypeOK
<1>1. /\ UNCHANGED <<debits, balance, accepted, calls>>
      /\ \A v \in Workers \ {w} : run'[v] = run[v]
  BY <1>0 DEF TakeJob, FetchMessages, CheckSubscription, CheckBalance, RateLimited, DebitFails,
     Debited, WriteResult, WriteFails, WritesRefused, CatchRetryable, AllFail, AggregatesStep,
     CountMessages, CountQueued, StoreAggregates, AggregatesFail, JobDone, JobThrew,
     WorkerCrashes, LockLost, EndRun
<1>2. ASSUME AllFail(w) PROVE run'[w].bulk = 0 /\ run'[w].undebited = {}
  BY <1>0, <1>2 DEF AllFail, Run
<1>3. \/ run'[w].bulk = run[w].bulk /\ run'[w].undebited \subseteq run[w].undebited
      \/ run'[w].bulk = 0 /\ run'[w].undebited = {}
  <2>0. CASE TakeJob(w)
    <3>1. PICK j \in waiting : run' = [run EXCEPT ![w] = [NoRun EXCEPT !.job = j, !.owns = TRUE]]
      BY <2>0 DEF TakeJob
    <3> QED
      BY <1>0, <3>1 DEF NoRun
  <2>1. CASE JobDone(w) \/ JobThrew(w) \/ WorkerCrashes(w)
    <3>1. EndRun(w)
      BY <2>1 DEF JobDone, JobThrew, WorkerCrashes
    <3> QED
      BY <1>0, <3>1 DEF EndRun, NoRun
  <2>2. CASE CheckSubscription(w) \/ CheckBalance(w)
    BY <1>2, <2>2 DEF CheckSubscription, CheckBalance
  <2>3. CASE AggregatesStep(w) \/ AggregatesFail(w)
    BY <2>3 DEF AggregatesStep, CountMessages, CountQueued, StoreAggregates, AggregatesFail
  <2>4. CASE \/ FetchMessages(w) \/ RateLimited(w) \/ DebitFails(w) \/ WriteResult(w)
             \/ WritesRefused(w) \/ WriteFails(w) \/ LockLost(w)
    BY <1>0, <2>4 DEF FetchMessages, RateLimited, DebitFails, Debited, WriteResult,
       WritesRefused, WriteFails, CatchRetryable, LockLost, Run
  <2> QED
    BY <2>0, <2>1, <2>2, <2>3, <2>4
<1> QED
  BY <1>1, <1>3, CreditFrame

\* Callers read the balance and spend nothing.
LEMMA CreditEnqueuer ==
  ASSUME CreditInv, ReceiptInv', NEW e \in Enqueuers,
         ReadCampaign(e) \/ EnqueuerStep(e) \/ EnqueuerFault(e)
  PROVE  CreditInv'
<1>1. UNCHANGED <<debits, balance, accepted, calls, run>>
  BY DEF EnqueuerStep, EnqueuerFault, ReadCampaign, BuildAudience, NoRecipients,
     CheckCredits, Claim, NoText, InsertMessages, InsertFails, AggregatesStep, CountMessages,
     CountQueued, StoreAggregates, AggregatesFail, SelectQueued, AddJob, AddFails, NextBatch,
     EnqueuerCrashes
<1> QED
  BY <1>1, CreditQuiet

\* Every step keeps the account.
LEMMA CreditStep == CreditInv /\ [Next]_vars => CreditInv'
<1> SUFFICES ASSUME CreditInv, [Next]_vars PROVE CreditInv'
  OBVIOUS
<1>0. ReceiptInv'
  BY ReceiptStep DEF CreditInv
<1>1. ASSUME NEW w \in Workers, WorkerStep(w) \/ WorkerFault(w) PROVE CreditInv'
  BY <1>0, <1>1, CreditSend, CreditDebit, CreditWorker DEF WorkerStep, WorkerFault
<1>2. CASE SubscriptionChanges \/ Reopen
  BY <1>0, <1>2, CreditQuiet DEF SubscriptionChanges, Reopen
<1>3. CASE UNCHANGED vars
  BY <1>0, <1>3, CreditQuiet DEF vars
<1> QED
  BY <1>0, <1>1, <1>2, <1>3, CreditEnqueuer DEF Next

\* The balance and the debit rows account for every credit: each accepted SMS that is
\* debited costs one credit and leaves one row, however runs of its job overlap.
THEOREM CreditsAccounted == Spec => []CreditsConserved
<1>1. CreditInv => CreditsConserved
  BY DEF CreditInv
<1> QED
  BY <1>1, CreditInit, CreditStep, PTL DEF Spec

-----------------------------------------------------------------------------
(* Who may create the messages of a campaign, and when it is complete. *)

\* No user resets the status while the campaign is under way, and the audience fits in one
\* createMany.  Without either, an insert that fails after its first batch, like a reset,
\* makes a campaign with messages enqueuable again, and what follows fails.
Undisturbed == ~CanReopen /\ Cardinality(Contacts) <= InsertBatch

\* The caller holds the campaign: it is about to insert, or has inserted.
Holds(e) == epc[e] = "insert" \/ \E m \in Created : m[1] = e

\* One caller holds the campaign, which no one else can claim meanwhile; and while it is
\* about to insert it has inserted nothing.
ClaimInv ==
  /\ TypeOK
  /\ \A e, f \in Enqueuers : Holds(e) /\ Holds(f) => e = f
  /\ \A e \in Enqueuers : Holds(e) => status \notin Enqueuable
  /\ \A e \in Enqueuers : epc[e] = "insert" => \A m \in Created : m[1] # e
  /\ \A w \in Workers : run[w].batch \subseteq Created /\ run[w].unwritten \subseteq Created

\* At first nobody holds the campaign.
LEMMA ClaimInit == Init => ClaimInv
<1> SUFFICES ASSUME Init PROVE ClaimInv
  OBVIOUS
<1>1. Created = {}
  BY DEF Init, Created, Absent
<1> QED
  BY <1>1, TypeInit DEF Init, ClaimInv, Holds, NoRun

\* A step of anyone that inserts nothing, lets no one through to insert, and leaves a
\* campaign that could not be claimed so.
LEMMA ClaimFrame ==
  ASSUME ClaimInv, TypeOK', Created' = Created,
         status' \notin Enqueuable \/ status' = status,
         \A e \in Enqueuers : epc'[e] = "insert" => epc[e] = "insert",
         \A w \in Workers : /\ run'[w].batch \subseteq Created
                            /\ run'[w].unwritten \subseteq Created
  PROVE  ClaimInv'
<1>1. \A e \in Enqueuers : Holds(e)' => Holds(e)
  BY DEF Holds
<1> QED
  BY <1>1 DEF ClaimInv

\* A step that touches no message and no run keeps the claim.
LEMMA ClaimQuiet ==
  ASSUME ClaimInv, TypeOK', UNCHANGED <<msgs, run>>,
         status' \notin Enqueuable \/ status' = status,
         \A e \in Enqueuers : epc'[e] = "insert" => epc[e] = "insert"
  PROVE  ClaimInv'
<1>1. Created' = Created
  BY DEF Created
<1> QED
  BY <1>1, ClaimFrame DEF ClaimInv

\* The conditional update: whoever passes it finds the campaign unheld.
LEMMA ClaimClaim ==
  ASSUME ClaimInv, TypeOK', NEW e \in Enqueuers, Claim(e)
  PROVE  ClaimInv'
<1>0. Created' = Created /\ epc \in [Enqueuers -> EnqueuerPoints]
  BY DEF Claim, Created, ClaimInv, TypeOK
<1>1. CASE status \in Enqueuable
  <2>1. /\ status' = "sending" /\ epc' = [epc EXCEPT ![e] = "insert"]
        /\ \A f \in Enqueuers : ~Holds(f)
    BY <1>1 DEF Claim, EGoto, ClaimInv
  <2>2. \A f \in Enqueuers : Holds(f)' <=> f = e
    BY <1>0, <2>1 DEF Holds
  <2>3. \A m \in Created : m[1] # e
    BY <2>1 DEF Holds
  <2> QED
    BY <1>0, <2>1, <2>2, <2>3 DEF ClaimInv, Claim, Enqueuable
<1>2. CASE status \notin Enqueuable
  BY <1>0, <1>2, ClaimQuiet DEF Claim, EGoto
<1> QED
  BY <1>1, <1>2

\* An audience that fits in one createMany is inserted in one.
LEMMA OneInsert ==
  ASSUME Undisturbed, TypeOK, NEW e \in Enqueuers, NEW chunk \in SUBSET pending[e],
         Cardinality(chunk) = Min2(InsertBatch, Cardinality(pending[e]))
  PROVE  chunk = pending[e]
<1>1. pending[e] \in SUBSET Contacts
  BY DEF TypeOK
<1>2. /\ IsFiniteSet(pending[e]) /\ Cardinality(pending[e]) \in Nat
      /\ Cardinality(pending[e]) <= Cardinality(Contacts) /\ Cardinality(Contacts) \in Nat
  BY <1>1, SendAssumption, FS_Subset, FS_CardinalityType
<1>3. Cardinality(chunk) = Cardinality(pending[e])
  BY <1>2, SendAssumption DEF Undisturbed, Min2
<1> QED
  BY <1>2, <1>3, FS_Subset

\* The holder inserts its messages at once, and still holds the campaign.
LEMMA ClaimInsert ==
  ASSUME Undisturbed, ClaimInv, TypeOK', NEW e \in Enqueuers, InsertMessages(e)
  PROVE  ClaimInv'
<1>0. /\ epc[e] = "insert" /\ Holds(e) /\ TypeOK /\ epc \in [Enqueuers -> EnqueuerPoints]
      /\ status' = status /\ run' = run
  BY DEF InsertMessages, Holds, ClaimInv, TypeOK
<1>1. PICK chunk \in SUBSET pending[e] :
        /\ Cardinality(chunk) = Min2(InsertBatch, Cardinality(pending[e]))
        /\ msgs' = [m \in Messages |-> IF m[1] = e /\ m[2] \in chunk
                                       THEN [status |-> "queued", bulk |-> 0] ELSE msgs[m]]
        /\ EGoto(e, IF chunk = pending[e] THEN "count" ELSE "insert")
  BY DEF InsertMessages
<1>2. epc' = [epc EXCEPT ![e] = "count"]
  BY <1>0, <1>1, OneInsert DEF EGoto
<1>3. Created \subseteq Created' /\ \A m \in Created' : m \in Created \/ m[1] = e
  BY <1>1 DEF Created
<1>4. \A f \in Enqueuers : Holds(f)' => Holds(f)
  BY <1>0, <1>2, <1>3 DEF Holds
<1>5. \A f \in Enqueuers : epc'[f] # "insert"
  BY <1>0, <1>2 DEF ClaimInv, Holds
<1> QED
  BY <1>0, <1>3, <1>4, <1>5 DEF ClaimInv

\* The insert that failed was the only one: nothing is left behind with the draft.
LEMMA ClaimInsertFails ==
  ASSUME ClaimInv, TypeOK', NEW e \in Enqueuers, InsertFails(e)
  PROVE  ClaimInv'
<1>0. /\ epc[e] = "insert" /\ epc' = [epc EXCEPT ![e] = "rejected"]
      /\ Created' = Created /\ run' = run /\ epc \in [Enqueuers -> EnqueuerPoints]
  BY DEF InsertFails, EGoto, Created, ClaimInv, TypeOK
<1>1. Holds(e) /\ \A f \in Enqueuers : Holds(f)' => Holds(f) /\ f # e
  BY <1>0 DEF Holds, ClaimInv
<1>2. \A f \in Enqueuers : ~Holds(f)'
  BY <1>1 DEF ClaimInv
<1> QED
  BY <1>0, <1>2 DEF ClaimInv, Holds

\* The status of the aggregates is the one the row has, or one that cannot be claimed.
LEMMA StatusNotReopened ==
  ASSUME NEW a PROVE StatusFrom(a) = status \/ StatusFrom(a) \notin Enqueuable
BY DEF StatusFrom, Enqueuable

\* The aggregates never make a campaign enqueuable.
LEMMA ClaimAggregates ==
  ASSUME ClaimInv, TypeOK', NEW p \in Enqueuers \cup Workers,
         AggregatesStep(p) \/ AggregatesFail(p)
  PROVE  ClaimInv'
<1>1. UNCHANGED <<msgs, run>>
  BY DEF AggregatesStep, CountMessages, CountQueued, StoreAggregates, AggregatesFail
<1>2. status' \notin Enqueuable \/ status' = status
  BY StatusNotReopened
     DEF AggregatesStep, CountMessages, CountQueued, StoreAggregates, AggregatesFail
<1>3. \A e \in Enqueuers : epc'[e] = "insert" => epc[e] = "insert"
  BY DEF AggregatesStep, CountMessages, CountQueued, StoreAggregates, AggregatesFail, Goto,
     AfterAggregates, ClaimInv, TypeOK
<1> QED
  BY <1>1, <1>2, <1>3, ClaimQuiet

\* A caller's steps keep the claim.
LEMMA ClaimEnqueuer ==
  ASSUME Undisturbed, ClaimInv, TypeOK', NEW e \in Enqueuers,
         ReadCampaign(e) \/ EnqueuerStep(e) \/ EnqueuerFault(e)
  PROVE  ClaimInv'
<1>1. CASE \/ ReadCampaign(e) \/ BuildAudience(e) \/ NoRecipients(e) \/ CheckCredits(e)
           \/ NoText(e) \/ SelectQueued(e) \/ AddJob(e) \/ AddFails(e) \/ EnqueuerCrashes(e)
  <2>1. UNCHANGED <<msgs, run>> /\ (status' = "failed" \/ status' = status)
    BY <1>1 DEF ReadCampaign, BuildAudience, NoRecipients, CheckCredits, NoText, SelectQueued,
       AddJob, AddFails, NextBatch, EnqueuerCrashes
  <2>2. \A f \in Enqueuers : epc'[f] = "insert" => epc[f] = "insert"
    BY <1>1 DEF ReadCampaign, BuildAudience, NoRecipients, CheckCredits, NoText, SelectQueued,
       AddJob, AddFails, NextBatch, EnqueuerCrashes, EGoto, ClaimInv, TypeOK
  <2> QED
    BY <2>1, <2>2, ClaimQuiet DEF Enqueuable
<1>2. CASE AggregatesStep(e) \/ AggregatesFail(e)
  BY <1>2, ClaimAggregates
<1> QED
  BY <1>1, <1>2, ClaimClaim, ClaimInsert, ClaimInsertFails DEF EnqueuerStep, EnqueuerFault

\* What a run writes, it was handed by the table.
LEMMA ClaimWrite ==
  ASSUME ClaimInv, TypeOK', NEW w \in Workers, WriteResult(w) \/ WriteFails(w)
  PROVE  ClaimInv'
<1>0. /\ TypeOK /\ run \in [Workers -> Run] /\ run[w].unwritten \subseteq Created
      /\ msgs \in [Messages -> Row] /\ UNCHANGED <<status, epc>>
  BY DEF ClaimInv, TypeOK, WriteResult, WriteFails, CatchRetryable
<1>1. \A m \in Messages : ResultOf(w, m).status = "absent" => msgs[m].status = "absent"
  BY <1>0 DEF ResultOf, Row
<1>2. /\ msgs' \in [Messages -> Row]
      /\ \A m \in Messages : \/ msgs'[m] = msgs[m]
                             \/ m \in run[w].unwritten /\ msgs'[m] = ResultOf(w, m)
  BY <1>0 DEF WriteResult, WriteFails, TypeOK
<1>3. Created' = Created
  <2>1. \A m \in Messages : (msgs'[m].status = "absent") <=> (msgs[m].status = "absent")
    <3> TAKE m \in Messages
    <3>1. CASE msgs'[m] = msgs[m]
      BY <3>1
    <3>2. CASE m \in run[w].unwritten /\ msgs'[m] = ResultOf(w, m)
      <4>1. msgs[m].status # "absent"
        BY <1>0, <3>2 DEF Created
      <4> QED
        BY <1>1, <3>2, <4>1
    <3> QED
      BY <1>2, <3>1, <3>2
  <2> QED
    BY <2>1 DEF Created
<1>4. \A v \in Workers : run'[v].batch \subseteq Created /\ run'[v].unwritten \subseteq Created
  BY <1>0 DEF WriteResult, WriteFails, CatchRetryable, ClaimInv, Run
<1> QED
  BY <1>0, <1>3, <1>4, ClaimFrame

\* A worker's steps keep the claim.
LEMMA ClaimWorker ==
  ASSUME ClaimInv, TypeOK', NEW w \in Workers,
         \/ TakeJob(w) \/ FetchMessages(w) \/ CheckSubscription(w) \/ CheckBalance(w)
         \/ RateLimited(w) \/ SendBulk(w) \/ SendThrows(w) \/ DebitOne(w) \/ DebitFails(w)
         \/ WritesRefused(w) \/ JobDone(w) \/ JobThrew(w) \/ WorkerCrashes(w) \/ LockLost(w)
  PROVE  ClaimInv'
<1>0. /\ run \in [Workers -> Run] /\ run[w] \in Run
      /\ run[w].batch \subseteq Created /\ run[w].unwritten \subseteq Created
  BY DEF ClaimInv, TypeOK
<1>1. /\ UNCHANGED <<msgs, status, epc>>
      /\ \A v \in Workers \ {w} : run'[v] = run[v]
  BY <1>0 DEF TakeJob, FetchMessages, CheckSubscription, CheckBalance, RateLimited, SendBulk,
     SendThrows, DebitOne, DebitFails, Debited, WritesRefused, CatchRetryable, AllFail, JobDone,
     JobThrew, WorkerCrashes, LockLost, EndRun
<1>2. Created' = Created
  BY <1>1 DEF Created
<1>3. ASSUME AllFail(w) PROVE run'[w].batch = run[w].batch /\ run'[w].unwritten = run[w].batch
  BY <1>0, <1>3 DEF AllFail, Run
<1>4. run'[w].batch \subseteq Created /\ run'[w].unwritten \subseteq Created
  <2>1. CASE TakeJob(w)
    <3>1. PICK j \in waiting : run' = [run EXCEPT ![w] = [NoRun EXCEPT !.job = j, !.owns = TRUE]]
      BY <2>1 DEF TakeJob
    <3> QED
      BY <1>0, <3>1 DEF NoRun
  <2>2. CASE JobDone(w) \/ JobThrew(w) \/ WorkerCrashes(w)
    <3>1. EndRun(w)
      BY <2>2 DEF JobDone, JobThrew, WorkerCrashes
    <3> QED
      BY <1>0, <3>1 DEF EndRun, NoRun
  <2>3. CASE FetchMessages(w)
    <3>1. run' = [run EXCEPT ![w].batch = Unsent(run[w].job.ids)]
      BY <2>3 DEF FetchMessages
    <3>2. Unsent(run[w].job.ids) \subseteq Created
      BY <1>0 DEF Unsent, Created, Run, Job
    <3> QED
      BY <1>0, <3>1, <3>2 DEF Run
  <2>4. CASE CheckSubscription(w) \/ CheckBalance(w) \/ SendThrows(w)
    BY <1>0, <1>3, <2>4 DEF CheckSubscription, CheckBalance, SendThrows
  <2>5. CASE SendBulk(w)
    <3>1. PICK taken :
            run' = [run EXCEPT ![w].bulk = calls + 1, ![w].ok = taken,
                               ![w].undebited = taken, ![w].unwritten = run[w].batch]
      BY <2>5 DEF SendBulk
    <3> QED
      BY <1>0, <3>1 DEF Run
  <2>6. CASE \/ RateLimited(w) \/ DebitOne(w) \/ DebitFails(w) \/ WritesRefused(w) \/ LockLost(w)
    BY <1>0, <2>6 DEF RateLimited, DebitOne, DebitFails, Debited, WritesRefused, CatchRetryable,
       LockLost, Run
  <2> QED
    BY <2>1, <2>2, <2>3, <2>4, <2>5, <2>6
<1> QED
  BY <1>1, <1>2, <1>4, ClaimFrame DEF ClaimInv

\* Every step keeps the claim.
LEMMA ClaimStep == Undisturbed /\ ClaimInv /\ [Next]_vars => ClaimInv'
<1> SUFFICES ASSUME Undisturbed, ClaimInv, [Next]_vars PROVE ClaimInv'
  OBVIOUS
<1>0. TypeOK'
  BY TypeStep DEF ClaimInv
<1>1. ASSUME NEW w \in Workers, WorkerStep(w) \/ WorkerFault(w) PROVE ClaimInv'
  BY <1>0, <1>1, ClaimWorker, ClaimWrite, ClaimAggregates DEF WorkerStep, WorkerFault
<1>2. CASE SubscriptionChanges
  BY <1>0, <1>2, ClaimQuiet DEF SubscriptionChanges
<1>3. CASE Reopen
  BY <1>3 DEF Reopen, Undisturbed
<1>4. CASE UNCHANGED vars
  BY <1>0, <1>4, ClaimQuiet DEF vars
<1> QED
  BY <1>0, <1>1, <1>2, <1>3, <1>4, ClaimEnqueuer DEF Next

\* Messages of one holder are apart by their contacts.
LEMMA ClaimSeparates == ClaimInv => OneMessagePerContact
<1> SUFFICES ASSUME ClaimInv, NEW m \in Created, NEW n \in Created, m[2] = n[2] PROVE m = n
  BY DEF OneMessagePerContact
<1>1. m \in Messages /\ n \in Messages
  BY DEF Created
<1>2. m[1] = n[1]
  BY <1>1 DEF ClaimInv, Holds, Messages
<1> QED
  BY <1>1, <1>2 DEF Messages

\* Any number of callers may enqueue the campaign at once, and crash or fail anywhere: a
\* contact gets one message, because the conditional update of
\* campaignEnqueue.service.js:127-145 lets one caller through.
THEOREM OneMessageEach ==
  ASSUME Undisturbed
  PROVE  Spec => []OneMessagePerContact
<1>1. ClaimInv /\ [Next]_vars => ClaimInv'
  BY ClaimStep
<1> QED
  BY <1>1, ClaimInit, ClaimSeparates, PTL DEF Spec

-----------------------------------------------------------------------------
(* A campaign completed on counts that were read earlier. *)

\* What a call of updateCampaignAggregates has read still holds when it writes: messages
\* are never removed, and once there are any, none becomes queued any more.
CountsHold(p) ==
  agg[p].total > 0 => /\ Created # {}
                      /\ At(p, "store") /\ ~agg[p].queued => With("queued") = {}

CompleteInv ==
  /\ ClaimInv
  /\ status = "completed" => Created # {} /\ With("queued") = {}
  /\ \A p \in Enqueuers \cup Workers : CountsHold(p)

\* At first there are no counts and no messages.
LEMMA CompleteInit == Init => CompleteInv
BY ClaimInit DEF Init, CompleteInv, CountsHold, NoAgg

\* Nothing becomes queued but by an insert, and nothing created is lost.
QueueShrinks == Created \subseteq Created' /\ With("queued")' \subseteq With("queued")

\* A call of the aggregates that is left alone, or given up.
CountsKept(p) ==
  \/ agg'[p].total = 0
  \/ agg'[p] = agg[p] /\ (At(p, "store")' => At(p, "store"))

\* Counts that were read hold on while messages are only added before, and settled after.
LEMMA CompleteFrame ==
  ASSUME CompleteInv, ClaimInv', QueueShrinks,
         status' = "completed" => status = "completed",
         \A p \in Enqueuers \cup Workers : CountsKept(p)
  PROVE  CompleteInv'
<1>1. ASSUME NEW p \in Enqueuers \cup Workers PROVE CountsHold(p)'
  <2>1. CountsHold(p) /\ CountsKept(p)
    BY DEF CompleteInv
  <2>2. CASE agg'[p].total = 0
    BY <2>2 DEF CountsHold
  <2>3. CASE agg'[p] = agg[p] /\ (At(p, "store")' => At(p, "store"))
    BY <2>1, <2>3 DEF CountsHold, QueueShrinks
  <2> QED
    BY <2>1, <2>2, <2>3 DEF CountsKept
<1>2. status' = "completed" => Created' # {} /\ With("queued")' = {}
  BY DEF CompleteInv, QueueShrinks
<1> QED
  BY <1>1, <1>2 DEF CompleteInv

\* Only the caller that holds a campaign without messages inserts.
LEMMA CompleteInsert ==
  ASSUME CompleteInv, ClaimInv', NEW e \in Enqueuers, InsertMessages(e)
  PROVE  CompleteInv'
<1>1. Created = {}
  <2> SUFFICES ASSUME NEW m \in Created PROVE FALSE
    OBVIOUS
  <2>1. m[1] \in Enqueuers /\ Holds(m[1]) /\ Holds(e)
    BY DEF Created, Messages, Holds, InsertMessages
  <2> QED
    BY <2>1 DEF CompleteInv, ClaimInv, InsertMessages
<1>2. status' # "completed" /\ agg' = agg
  BY <1>1 DEF InsertMessages, CompleteInv
<1>3. \A p \in Enqueuers \cup Workers : ~(agg[p].total > 0)
  BY <1>1 DEF CompleteInv, CountsHold
<1> QED
  BY <1>2, <1>3 DEF CompleteInv, CountsHold

\* A caller's steps keep the counts valid.
LEMMA CompleteEnqueuer ==
  ASSUME CompleteInv, ClaimInv', NEW e \in Enqueuers,
         \/ ReadCampaign(e) \/ BuildAudience(e) \/ NoRecipients(e) \/ CheckCredits(e)
         \/ Claim(e) \/ NoText(e) \/ SelectQueued(e) \/ AddJob(e)
         \/ InsertFails(e) \/ AddFails(e) \/ EnqueuerCrashes(e)
  PROVE  CompleteInv'
<1>1. UNCHANGED <<msgs, agg, wpc>> /\ status' \in {status, "failed", "sending", "draft"}
  BY DEF ReadCampaign, BuildAudience, NoRecipients, CheckCredits, Claim, NoText, SelectQueued,
     AddJob, InsertFails, AddFails, NextBatch, EnqueuerCrashes
<1>2. PICK s \in EnqueuerPoints \ {"store"} : epc' = [epc EXCEPT ![e] = s]
  BY DEF ReadCampaign, BuildAudience, NoRecipients, CheckCredits, Claim, NoText, SelectQueued,
     AddJob, InsertFails, AddFails, NextBatch, EnqueuerCrashes, EGoto, EnqueuerPoints
<1>3. \A p \in Enqueuers \cup Workers : At(p, "store")' => At(p, "store")
  BY <1>1, <1>2 DEF At, CompleteInv, ClaimInv, TypeOK
<1>4. QueueShrinks
  BY <1>1 DEF QueueShrinks, Created, With
<1> QED
  BY <1>1, <1>3, <1>4, CompleteFrame DEF CountsKept

\* Where a call of the aggregates stands after it moved to s; no other call moved.
LEMMA Moved ==
  ASSUME TypeOK, NEW p \in Enqueuers \cup Workers, NEW s, Goto(p, s), s # "store"
  PROVE  /\ ~At(p, "store")'
         /\ \A q \in (Enqueuers \cup Workers) \ {p} : At(q, "store")' => At(q, "store")
BY SendAssumption DEF TypeOK, Goto, At

\* What updateCampaignAggregates reads is valid, and completes only what is over.
LEMMA CompleteAggregates ==
  ASSUME CompleteInv, ClaimInv', NEW p \in Enqueuers \cup Workers,
         AggregatesStep(p) \/ AggregatesFail(p)
  PROVE  CompleteInv'
<1>0. /\ TypeOK /\ agg \in [Enqueuers \cup Workers -> Counts] /\ agg[p] \in Counts
      /\ CountsHold(p)
  BY DEF CompleteInv, ClaimInv, TypeOK
<1>1. Created' = Created /\ With("queued")' = With("queued")
  BY DEF AggregatesStep, CountMessages, CountQueued, StoreAggregates, AggregatesFail, Created,
     With
<1>2. \A q \in (Enqueuers \cup Workers) \ {p} : agg'[q] = agg[q]
  BY <1>0 DEF AggregatesStep, CountMessages, CountQueued, StoreAggregates, AggregatesFail
<1>3. CASE CountMessages(p)
  <2>1. ~At(p, "store")' /\ \A q \in (Enqueuers \cup Workers) \ {p} : CountsKept(q)
    BY <1>0, <1>2, <1>3, Moved DEF CountMessages, CountsKept
  <2>2. agg'[p].total = Cardinality(Created)
    BY <1>0, <1>3 DEF CountMessages
  <2>3. CountsHold(p)'
    BY <1>1, <2>1, <2>2, FS_EmptySet DEF CountsHold
  <2>4. status' = status
    BY <1>3 DEF CountMessages
  <2>5. \A q \in (Enqueuers \cup Workers) \ {p} : CountsHold(q)'
    BY <1>1, <2>1 DEF CompleteInv, CountsHold, CountsKept
  <2> QED
    BY <1>1, <2>3, <2>4, <2>5 DEF CompleteInv
<1>4. CASE CountQueued(p)
  <2>1. \A q \in (Enqueuers \cup Workers) \ {p} : At(q, "store")' => At(q, "store")
    BY <1>4, SendAssumption DEF CountQueued, Goto, At, CompleteInv, ClaimInv, TypeOK
  <2>2. agg'[p].total = agg[p].total /\ (~agg'[p].queued => With("queued") = {})
    BY <1>0, <1>4 DEF CountQueued, Counts
  <2>3. CountsHold(p)'
    BY <1>0, <1>1, <2>2 DEF CountsHold
  <2>4. status' = status
    BY <1>4 DEF CountQueued
  <2>5. \A q \in (Enqueuers \cup Workers) \ {p} : CountsHold(q)'
    BY <1>1, <1>2, <2>1 DEF CompleteInv, CountsHold
  <2> QED
    BY <1>1, <2>3, <2>4, <2>5 DEF CompleteInv
<1>5. ASSUME Goto(p, AfterAggregates(p)), agg' = [agg EXCEPT ![p] = NoAgg],
             status' = "completed" => Created # {} /\ With("queued") = {}
      PROVE  CompleteInv'
  <2>1. \A q \in (Enqueuers \cup Workers) \ {p} : At(q, "store")' => At(q, "store")
    <3>1. AfterAggregates(p) # "store"
      BY DEF AfterAggregates
    <3> QED
      BY <1>0, <1>5, <3>1, Moved
  <2>2. agg'[p].total = 0
    BY <1>0, <1>5 DEF NoAgg
  <2>3. \A q \in (Enqueuers \cup Workers) : CountsHold(q)'
    BY <1>1, <1>2, <2>1, <2>2 DEF CompleteInv, CountsHold
  <2> QED
    BY <1>1, <1>5, <2>3 DEF CompleteInv
<1>6. CASE StoreAggregates(p)
  <2>1. At(p, "store") /\ status' = StatusFrom(agg[p])
    BY <1>6 DEF StoreAggregates
  <2>2. status' = "completed" => Created # {} /\ With("queued") = {}
    BY <1>0, <2>1 DEF StatusFrom, CountsHold, CompleteInv
  <2> QED
    BY <1>5, <1>6, <2>2 DEF StoreAggregates
<1>7. CASE AggregatesFail(p)
  BY <1>5, <1>7 DEF AggregatesFail, CompleteInv
<1> QED
  BY <1>3, <1>4, <1>6, <1>7 DEF AggregatesStep

\* A worker's steps keep the counts valid.
LEMMA CompleteWorker ==
  ASSUME CompleteInv, ClaimInv', NEW w \in Workers,
         \/ TakeJob(w) \/ FetchMessages(w) \/ CheckSubscription(w) \/ CheckBalance(w)
         \/ RateLimited(w) \/ SendBulk(w) \/ SendThrows(w) \/ DebitOne(w) \/ DebitFails(w)
         \/ WriteResult(w) \/ WriteFails(w) \/ WritesRefused(w)
         \/ JobDone(w) \/ JobThrew(w) \/ WorkerCrashes(w) \/ LockLost(w)
  PROVE  CompleteInv'
<1>0. TypeOK /\ wpc \in [Workers -> WorkerPoints]
  BY DEF CompleteInv, ClaimInv, TypeOK
<1>1. UNCHANGED <<status, epc>>
  BY DEF TakeJob, FetchMessages, CheckSubscription, CheckBalance, RateLimited, SendBulk,
     SendThrows, DebitOne, DebitFails, Debited, WriteResult, WriteFails, WritesRefused,
     CatchRetryable, JobDone, JobThrew, WorkerCrashes, LockLost
<1>2. \A p \in Enqueuers \cup Workers : CountsKept(p)
  <2>1. \A p \in Enqueuers \cup Workers : At(p, "store")' => At(p, "store")
    <3>1. PICK s \in WorkerPoints \ {"store"} : wpc' = [wpc EXCEPT ![w] = s] \/ wpc' = wpc
      <4>1. CASE TakeJob(w) \/ FetchMessages(w) \/ RateLimited(w) \/ SendThrows(w)
        BY <4>1 DEF TakeJob, FetchMessages, RateLimited, SendThrows, AllFail, WGoto, WorkerPoints
      <4>2. CASE CheckSubscription(w) \/ CheckBalance(w)
        BY <4>2 DEF CheckSubscription, CheckBalance, AllFail, WGoto, WorkerPoints
      <4>3. CASE SendBulk(w)
        BY <4>3 DEF SendBulk, WGoto, WorkerPoints
      <4>4. CASE DebitOne(w) \/ DebitFails(w)
        BY <4>4 DEF DebitOne, DebitFails, Debited, WGoto, WorkerPoints
      <4>5. CASE WriteResult(w) \/ WriteFails(w) \/ WritesRefused(w)
        BY <4>5 DEF WriteResult, WriteFails, WritesRefused, CatchRetryable, WGoto, WorkerPoints
      <4>6. CASE JobDone(w) \/ JobThrew(w) \/ WorkerCrashes(w)
        BY <4>6 DEF JobDone, JobThrew, WorkerCrashes, EndRun, WGoto, WorkerPoints
      <4>7. CASE LockLost(w)
        BY <4>7 DEF LockLost, WorkerPoints
      <4> QED
        BY <4>1, <4>2, <4>3, <4>4, <4>5, <4>6, <4>7
    <3> QED
      BY <1>0, <1>1, <3>1 DEF At
  <2>2. \A p \in Enqueuers \cup Workers : agg'[p] = agg[p] \/ agg'[p].total = 0
    <3>1. CASE UNCHANGED agg
      BY <3>1
    <3>2. CASE agg' = [agg EXCEPT ![w] = NoAgg]
      BY <1>0, <3>2 DEF TypeOK, NoAgg
    <3> QED
      BY <3>1, <3>2 DEF TakeJob, FetchMessages, CheckSubscription, CheckBalance, RateLimited,
         SendBulk, SendThrows, DebitOne, DebitFails, Debited, WriteResult, WriteFails,
         WritesRefused, CatchRetryable, JobDone, JobThrew, WorkerCrashes, LockLost
  <2> QED
    BY <2>1, <2>2 DEF CountsKept
<1>3. QueueShrinks
  <2>1. CASE UNCHANGED msgs
    BY <2>1 DEF QueueShrinks, Created, With
  <2>2. CASE WriteResult(w) \/ WriteFails(w)
    <3>1. \A m \in Messages : msgs'[m] \in {msgs[m], ResultOf(w, m)}
      BY <1>0, <2>2 DEF WriteResult, WriteFails, TypeOK
    <3>2. \A m \in Messages : ResultOf(w, m).status \in {"sent", "failed"}
      BY <1>0 DEF ResultOf, TypeOK, Row
    <3>3. \A m \in Messages : msgs'[m] = msgs[m] \/ msgs'[m].status \in {"sent", "failed"}
      BY <3>1, <3>2
    <3> QED
      BY <3>3 DEF QueueShrinks, Created, With
  <2> QED
    BY <2>1, <2>2 DEF TakeJob, FetchMessages, CheckSubscription, CheckBalance, RateLimited,
       SendBulk, SendThrows, DebitOne, DebitFails, Debited, WritesRefused, CatchRetryable,
       JobDone, JobThrew, WorkerCrashes, LockLost
<1> QED
  BY <1>1, <1>2, <1>3, CompleteFrame

\* A step that touches no message and no counts keeps them valid.
LEMMA CompleteQuiet ==
  ASSUME CompleteInv, ClaimInv', UNCHANGED <<status, msgs, agg, epc, wpc>>
  PROVE  CompleteInv'
BY CompleteFrame DEF QueueShrinks, CountsKept, Created, With, At

\* Every step keeps the counts valid.
LEMMA CompleteStep == Undisturbed /\ CompleteInv /\ [Next]_vars => CompleteInv'
<1> SUFFICES ASSUME Undisturbed, CompleteInv, [Next]_vars PROVE CompleteInv'
  OBVIOUS
<1>0. ClaimInv'
  BY ClaimStep DEF CompleteInv
<1>1. ASSUME NEW e \in Enqueuers, ReadCampaign(e) \/ EnqueuerStep(e) \/ EnqueuerFault(e)
      PROVE  CompleteInv'
  BY <1>0, <1>1, CompleteEnqueuer, CompleteInsert, CompleteAggregates
     DEF EnqueuerStep, EnqueuerFault
<1>2. ASSUME NEW w \in Workers, WorkerStep(w) \/ WorkerFault(w) PROVE CompleteInv'
  BY <1>0, <1>2, CompleteWorker, CompleteAggregates DEF WorkerStep, WorkerFault
<1>3. CASE SubscriptionChanges
  BY <1>0, <1>3, CompleteQuiet DEF SubscriptionChanges
<1>4. CASE Reopen
  BY <1>4 DEF Reopen, Undisturbed
<1>5. CASE UNCHANGED vars
  BY <1>0, <1>5, CompleteQuiet DEF vars
<1> QED
  BY <1>1, <1>2, <1>3, <1>4, <1>5 DEF Next

\* A campaign shown as completed has no queued message, although its status was computed
\* from counts read one after another, before other runs wrote their results
\* (campaignAggregates.service.js:29-93).
THEOREM CompletedIsOver ==
  ASSUME Undisturbed
  PROVE  Spec => []CompletedHasNoneQueued
<1>1. CompleteInv /\ [Next]_vars => CompleteInv'
  BY CompleteStep
<1>2. CompleteInv => CompletedHasNoneQueued
  BY DEF CompleteInv, CompletedHasNoneQueued
<1> QED
  BY <1>1, <1>2, CompleteInit, PTL DEF Spec

-----------------------------------------------------------------------------
(* How often a message is sent. *)

Inserted(e) == \E m \in Created : m[1] = e

\* The points of a run from which it can still send.
PreSend == {"fetch", "subscription", "balance", "provider"}

\* A run that has lost its job to another, unaware of it, and that has not sent yet.
Orphans(m) == {w \in Workers : ~run[w].owns /\ m \in run[w].job.ids /\ wpc[w] \in PreSend}

\* How often the message has been sent, or may be by runs that have lost their job.
SendsOf(m) == {a \in accepted : a.msg = m}
Spent(m) == Cardinality(SendsOf(m)) + Cardinality(Orphans(m))

\* Nobody has selected what to send yet.
Untouched ==
  /\ waiting = {} /\ accepted = {} /\ \A e \in Enqueuers : todo[e] = {}
  /\ \A w \in Workers : wpc[w] = "idle" /\ run[w] = NoRun

\* The one caller that has inserted selects what to send, once.
SelectedOnce ==
  /\ \A e \in Enqueuers :
       /\ epc[e] \in {"credits", "claim"} => audience[e] # {}
       /\ epc[e] = "insert" => pending[e] # {}
       /\ epc[e] \in {"count", "recount", "store", "select", "add"} => Inserted(e)
       /\ todo[e] # {} => Inserted(e)
  /\ Untouched \/ \E e \in Enqueuers : Inserted(e) /\ epc[e] \in {"add", "done", "crashed"}

\* A message is in one place: still to be added to the queue, in one job that waits, or in
\* one that a run owns.
InOneJob ==
  /\ \A j, k \in waiting : j.ids \cap k.ids # {} => j = k
  /\ \A j \in waiting, w \in Workers : run[w].owns => j.ids \cap run[w].job.ids = {}
  /\ \A v, w \in Workers :
       (run[v].owns /\ run[w].owns /\ run[v].job.ids \cap run[w].job.ids # {}) => v = w
  /\ \A e \in Enqueuers : \A m \in todo[e] :
       /\ \A j \in waiting : m \notin j.ids
       /\ \A w \in Workers : m \notin run[w].job.ids
       /\ \A a \in accepted : a.msg # m

RunShape(w) ==
  /\ run[w].batch \subseteq run[w].job.ids
  /\ wpc[w] = "idle" => ~run[w].owns

\* A job that is handed out again has counted an attempt or a stall.
Within(j) == j.attempts < MaxAttempts /\ j.stalls <= MaxStalls
HandedOut(j) == j.attempts + j.stalls
Budget ==
  /\ \A j \in waiting : Within(j) /\ \A m \in j.ids : Spent(m) <= HandedOut(j)
  /\ \A w \in Workers : run[w].owns =>
       /\ Within(run[w].job)
       /\ \A m \in run[w].job.ids :
            Spent(m) <= HandedOut(run[w].job) + (IF wpc[w] \in PreSend THEN 0 ELSE 1)
  /\ \A m \in Messages : IsFiniteSet(SendsOf(m)) /\ Spent(m) <= MaxAttempts + MaxStalls

ResendInv ==
  /\ ClaimInv /\ SelectedOnce /\ InOneJob /\ Budget
  /\ \A w \in Workers : RunShape(w)

-----------------------------------------------------------------------------
\* Sets that shrink, or grow by one element at most.
LEMMA Shrinks ==
  ASSUME NEW S, IsFiniteSet(S), NEW T, T \subseteq S
  PROVE  /\ IsFiniteSet(T) /\ Cardinality(T) \in Nat /\ Cardinality(S) \in Nat
         /\ Cardinality(T) <= Cardinality(S)
BY FS_Subset, FS_CardinalityType

LEMMA Grows ==
  ASSUME NEW S, IsFiniteSet(S), NEW x, NEW T, T \subseteq S \cup {x}
  PROVE  /\ IsFiniteSet(T) /\ Cardinality(T) \in Nat /\ Cardinality(S) \in Nat
         /\ Cardinality(T) <= Cardinality(S) + 1
<1>1. /\ IsFiniteSet(S \cup {x}) /\ Cardinality(S) \in Nat
      /\ Cardinality(S \cup {x}) = IF x \in S THEN Cardinality(S) ELSE Cardinality(S) + 1
  BY FS_AddElement, FS_CardinalityType
<1>2. IsFiniteSet(T) /\ Cardinality(T) \in Nat /\ Cardinality(T) <= Cardinality(S \cup {x})
  BY <1>1, Shrinks
<1> QED  BY <1>1, <1>2

LEMMA Loses ==
  ASSUME NEW S, IsFiniteSet(S), NEW x \in S, NEW T, T \subseteq S \ {x}
  PROVE  /\ IsFiniteSet(T) /\ Cardinality(T) \in Nat /\ Cardinality(S) \in Nat
         /\ Cardinality(T) + 1 <= Cardinality(S)
<1>1. /\ IsFiniteSet(S \ {x}) /\ Cardinality(S) \in Nat /\ Cardinality(S \ {x}) = Cardinality(S) - 1
  BY FS_RemoveElement, FS_CardinalityType
<1>2. IsFiniteSet(T) /\ Cardinality(T) \in Nat /\ Cardinality(T) <= Cardinality(S \ {x})
  BY <1>1, Shrinks
<1> QED  BY <1>1, <1>2

LEMMA OrphansFinite ==
  \A m : IsFiniteSet(Orphans(m)) /\ Cardinality(Orphans(m)) \in Nat
<1> SUFFICES ASSUME NEW m PROVE IsFiniteSet(Orphans(m)) /\ Cardinality(Orphans(m)) \in Nat
  OBVIOUS
<1>1. Orphans(m) \subseteq Workers /\ IsFiniteSet(Workers)
  BY SendAssumption DEF Orphans
<1> QED  BY <1>1, Shrinks

\* What has been spent is a number, and does not grow with sets that do not.
LEMMA SpentShrinks ==
  ASSUME Budget, NEW m \in Messages,
         SendsOf(m)' \subseteq SendsOf(m), Orphans(m)' \subseteq Orphans(m)
  PROVE  IsFiniteSet(SendsOf(m)') /\ Spent(m)' <= Spent(m) /\ Spent(m) \in Nat /\ Spent(m)' \in Nat
<1>1. IsFiniteSet(SendsOf(m)) /\ IsFiniteSet(Orphans(m))
  BY OrphansFinite DEF Budget
<1>2. /\ IsFiniteSet(SendsOf(m)') /\ Cardinality(SendsOf(m)') \in Nat /\ Cardinality(SendsOf(m)) \in Nat
      /\ Cardinality(SendsOf(m)') <= Cardinality(SendsOf(m))
  BY <1>1, Shrinks
<1>3. /\ Cardinality(Orphans(m)') \in Nat /\ Cardinality(Orphans(m)) \in Nat
      /\ Cardinality(Orphans(m)') <= Cardinality(Orphans(m))
  BY <1>1, Shrinks
<1> QED  BY <1>2, <1>3 DEF Spent

\* A message that is sent once more, or whose run loses its job, is spent once more.
LEMMA SpentGrows ==
  ASSUME Budget, NEW m \in Messages, NEW x,
         \/ SendsOf(m)' \subseteq SendsOf(m) \cup {x} /\ Orphans(m)' \subseteq Orphans(m)
         \/ SendsOf(m)' \subseteq SendsOf(m) /\ Orphans(m)' \subseteq Orphans(m) \cup {x}
  PROVE  IsFiniteSet(SendsOf(m)') /\ Spent(m)' <= Spent(m) + 1 /\ Spent(m) \in Nat /\ Spent(m)' \in Nat
<1>1. IsFiniteSet(SendsOf(m)) /\ IsFiniteSet(Orphans(m))
  BY OrphansFinite DEF Budget
<1>2. CASE SendsOf(m)' \subseteq SendsOf(m) \cup {x} /\ Orphans(m)' \subseteq Orphans(m)
  <2>1. /\ IsFiniteSet(SendsOf(m)') /\ Cardinality(SendsOf(m)') \in Nat /\ Cardinality(SendsOf(m)) \in Nat
        /\ Cardinality(SendsOf(m)') <= Cardinality(SendsOf(m)) + 1
    BY <1>1, <1>2, Grows
  <2>2. /\ Cardinality(Orphans(m)') \in Nat /\ Cardinality(Orphans(m)) \in Nat
        /\ Cardinality(Orphans(m)') <= Cardinality(Orphans(m))
    BY <1>1, <1>2, Shrinks
  <2> QED  BY <2>1, <2>2 DEF Spent
<1>3. CASE SendsOf(m)' \subseteq SendsOf(m) /\ Orphans(m)' \subseteq Orphans(m) \cup {x}
  <2>1. /\ IsFiniteSet(SendsOf(m)') /\ Cardinality(SendsOf(m)') \in Nat /\ Cardinality(SendsOf(m)) \in Nat
        /\ Cardinality(SendsOf(m)') <= Cardinality(SendsOf(m))
    BY <1>1, <1>3, Shrinks
  <2>2. /\ Cardinality(Orphans(m)') \in Nat /\ Cardinality(Orphans(m)) \in Nat
        /\ Cardinality(Orphans(m)') <= Cardinality(Orphans(m)) + 1
    BY <1>1, <1>3, Grows
  <2> QED  BY <2>1, <2>2 DEF Spent
<1> QED  BY <1>2, <1>3

\* A run that has lost its job spends what was set aside for it.
LEMMA SpentMoves ==
  ASSUME Budget, NEW m \in Messages, NEW x, NEW w \in Orphans(m),
         SendsOf(m)' \subseteq SendsOf(m) \cup {x}, Orphans(m)' \subseteq Orphans(m) \ {w}
  PROVE  IsFiniteSet(SendsOf(m)') /\ Spent(m)' <= Spent(m) /\ Spent(m) \in Nat /\ Spent(m)' \in Nat
<1>1. IsFiniteSet(SendsOf(m)) /\ IsFiniteSet(Orphans(m))
  BY OrphansFinite DEF Budget
<1>2. /\ IsFiniteSet(SendsOf(m)') /\ Cardinality(SendsOf(m)') \in Nat /\ Cardinality(SendsOf(m)) \in Nat
      /\ Cardinality(SendsOf(m)') <= Cardinality(SendsOf(m)) + 1
  BY <1>1, Grows
<1>3. /\ Cardinality(Orphans(m)') \in Nat /\ Cardinality(Orphans(m)) \in Nat
      /\ Cardinality(Orphans(m)') + 1 <= Cardinality(Orphans(m))
  BY <1>1, Loses
<1> QED  BY <1>2, <1>3 DEF Spent

\* Rows are not removed.
LEMMA RowsStay ==
  ASSUME TypeOK, [Next]_vars
  PROVE  Created \subseteq Created'
<1>1. CASE UNCHANGED msgs
  BY <1>1 DEF Created
<1>2. ASSUME NEW e \in Enqueuers, InsertMessages(e)
      PROVE  Created \subseteq Created'
  BY <1>2 DEF InsertMessages, Created
<1>3. ASSUME NEW w \in Workers, WriteResult(w) \/ WriteFails(w)
      PROVE  Created \subseteq Created'
  <2>1. \A m \in Messages : msgs'[m] \in {msgs[m], ResultOf(w, m)}
    BY <1>3 DEF WriteResult, WriteFails, TypeOK
  <2>2. \A m \in Messages : ResultOf(w, m).status # "absent"
    BY DEF ResultOf, TypeOK, Row
  <2> QED  BY <2>1, <2>2 DEF Created
<1>4. ASSUME NEW e \in Enqueuers, ReadCampaign(e) \/ EnqueuerStep(e) \/ EnqueuerFault(e)
      PROVE  UNCHANGED msgs \/ InsertMessages(e)
  BY <1>4 DEF EnqueuerStep, EnqueuerFault, ReadCampaign, BuildAudience, NoRecipients,
     CheckCredits, Claim, NoText, InsertFails, AggregatesStep, CountMessages,
     CountQueued, StoreAggregates, AggregatesFail, SelectQueued, AddJob, AddFails, NextBatch,
     EnqueuerCrashes
<1>5. ASSUME NEW w \in Workers, WorkerStep(w) \/ WorkerFault(w)
      PROVE  UNCHANGED msgs \/ WriteResult(w) \/ WriteFails(w)
  BY <1>5 DEF WorkerStep, WorkerFault, TakeJob, FetchMessages, CheckSubscription, CheckBalance,
     RateLimited, SendBulk, SendThrows, DebitOne, DebitFails, Debited, WritesRefused,
     AggregatesStep, CountMessages, CountQueued, StoreAggregates, AggregatesFail, JobDone,
     JobThrew, WorkerCrashes, LockLost
<1>6. CASE SubscriptionChanges \/ Reopen \/ UNCHANGED vars
  BY <1>1, <1>6 DEF SubscriptionChanges, Reopen, vars
<1> QED  BY <1>1, <1>2, <1>3, <1>4, <1>5, <1>6 DEF Next

\* A step of a worker finds a campaign that was selected.
LEMMA SelectedWorker ==
  ASSUME ClaimInv, SelectedOnce, NEW w \in Workers, WorkerStep(w) \/ WorkerFault(w)
  PROVE  SelectedOnce'
<1>1. UNCHANGED <<epc, audience, pending, todo>>
  BY SendAssumption DEF WorkerStep, WorkerFault, TakeJob, FetchMessages, CheckSubscription, CheckBalance,
     RateLimited, SendBulk, SendThrows, DebitOne, DebitFails, Debited, WriteResult, WriteFails,
     WritesRefused, CatchRetryable, AggregatesStep, CountMessages, CountQueued, StoreAggregates,
     AggregatesFail, Goto, JobDone, JobThrew, WorkerCrashes, LockLost
<1>2. ~Untouched
  BY SendAssumption DEF Untouched, WorkerStep, WorkerFault, TakeJob, FetchMessages, CheckSubscription,
     CheckBalance, RateLimited, SendBulk, SendThrows, DebitOne, DebitFails, Debited, WriteResult,
     WriteFails, WritesRefused, AggregatesStep, CountMessages, CountQueued, StoreAggregates,
     AggregatesFail, At, JobDone, JobThrew, WorkerCrashes, LockLost
<1>3. \A e \in Enqueuers : Inserted(e) => Inserted(e)'
  <2>1. TypeOK /\ [Next]_vars
    BY DEF ClaimInv, Next
  <2> QED  BY <2>1, RowsStay DEF Inserted
<1> QED  BY <1>1, <1>2, <1>3 DEF SelectedOnce

\* A caller that moves, and nothing that is in the queue.
LEMMA SelectedMove ==
  ASSUME ClaimInv, SelectedOnce, NEW e \in Enqueuers, NEW s \in EnqueuerPoints,
         epc' = [epc EXCEPT ![e] = s], Created \subseteq Created',
         UNCHANGED <<waiting, accepted, run, wpc, todo>>,
         \A f \in Enqueuers \ {e} : audience'[f] = audience[f] /\ pending'[f] = pending[f],
         s \in {"credits", "claim"} => audience'[e] # {},
         s = "insert" => pending'[e] # {},
         s \in {"count", "recount", "store", "select", "add"} => Inserted(e)',
         epc[e] \in {"add", "done", "crashed"} => s \in {"done", "crashed"}
  PROVE  SelectedOnce'
<1>0. epc \in [Enqueuers -> EnqueuerPoints]
  BY DEF ClaimInv, TypeOK
<1>1. \A f \in Enqueuers : Inserted(f) => Inserted(f)'
  BY DEF Inserted
<1>2. epc'[e] = s /\ \A f \in Enqueuers \ {e} : epc'[f] = epc[f]
  BY <1>0
<1>3. Untouched => Untouched'
  BY DEF Untouched
<1>4. \A f \in Enqueuers :
        (Inserted(f) /\ epc[f] \in {"add", "done", "crashed"}) =>
          Inserted(f)' /\ epc'[f] \in {"add", "done", "crashed"}
  BY <1>1, <1>2
<1>5. \A f \in Enqueuers :
        /\ epc'[f] \in {"credits", "claim"} => audience'[f] # {}
        /\ epc'[f] = "insert" => pending'[f] # {}
        /\ epc'[f] \in {"count", "recount", "store", "select", "add"} => Inserted(f)'
        /\ todo'[f] # {} => Inserted(f)'
  <2> TAKE f \in Enqueuers
  <2>1. CASE f = e
    BY <1>1, <1>2, <2>1 DEF SelectedOnce
  <2>2. CASE f # e
    BY <1>1, <1>2, <2>2 DEF SelectedOnce
  <2> QED  BY <2>1, <2>2
<1> QED  BY <1>3, <1>4, <1>5 DEF SelectedOnce

\* What a caller does before it selects.
LEMMA SelectedEnqueuer ==
  ASSUME Undisturbed, ClaimInv, SelectedOnce, NEW e \in Enqueuers,
         \/ ReadCampaign(e) \/ BuildAudience(e) \/ NoRecipients(e) \/ CheckCredits(e) \/ Claim(e)
         \/ NoText(e) \/ InsertMessages(e) \/ InsertFails(e) \/ EnqueuerCrashes(e)
         \/ AggregatesStep(e) \/ AggregatesFail(e)
  PROVE  SelectedOnce'
<1>0. /\ epc \in [Enqueuers -> EnqueuerPoints] /\ audience \in [Enqueuers -> SUBSET Contacts]
      /\ pending \in [Enqueuers -> SUBSET Contacts] /\ TypeOK
  BY DEF ClaimInv, TypeOK
<1>1. Created \subseteq Created'
  BY <1>0, RowsStay DEF Next, EnqueuerStep, EnqueuerFault
<1>2. UNCHANGED <<waiting, accepted, run, wpc, todo>>
  BY DEF ReadCampaign, BuildAudience, NoRecipients, CheckCredits, Claim, NoText, InsertMessages,
     InsertFails, EnqueuerCrashes, AggregatesStep, CountMessages, CountQueued, StoreAggregates,
     AggregatesFail, Goto
<1>3. CASE ReadCampaign(e) \/ NoRecipients(e) \/ NoText(e) \/ InsertFails(e) \/ EnqueuerCrashes(e)
  <2>1. UNCHANGED <<audience, pending>>
    BY <1>3 DEF ReadCampaign, NoRecipients, NoText, InsertFails, EnqueuerCrashes
  <2>2. PICK s \in {"audience", "rejected", "crashed"} :
          /\ epc' = [epc EXCEPT ![e] = s]
          /\ epc[e] \in {"add", "done", "crashed"} => s = "crashed"
    BY <1>3 DEF ReadCampaign, NoRecipients, NoText, InsertFails, EnqueuerCrashes, EGoto
  <2>3. s \in EnqueuerPoints
    BY DEF EnqueuerPoints
  <2> QED  BY <1>1, <1>2, <2>1, <2>2, <2>3, SelectedMove
<1>4. CASE BuildAudience(e)
  <2>1. /\ epc' = [epc EXCEPT ![e] = "credits"] /\ epc[e] = "audience" /\ UNCHANGED pending
        /\ audience'[e] # {} /\ \A f \in Enqueuers \ {e} : audience'[f] = audience[f]
    <3>1. \E found \in SUBSET Contacts : found # {} /\ audience' = [audience EXCEPT ![e] = found]
      BY <1>4 DEF BuildAudience
    <3>2. epc[e] = "audience" /\ EGoto(e, "credits") /\ UNCHANGED pending
      BY <1>4 DEF BuildAudience
    <3>3. PICK found \in SUBSET Contacts : found # {} /\ audience' = [audience EXCEPT ![e] = found]
      BY <3>1
    <3>4. audience'[e] = found /\ \A f \in Enqueuers \ {e} : audience'[f] = audience[f]
      BY <1>0, <3>3
    <3> QED  BY <3>2, <3>3, <3>4 DEF EGoto
  <2>2. "credits" \in EnqueuerPoints
    BY DEF EnqueuerPoints
  <2> QED  BY <1>1, <1>2, <2>1, <2>2, SelectedMove
<1>5. CASE CheckCredits(e)
  <2>1. PICK s \in {"claim", "rejected"} : epc' = [epc EXCEPT ![e] = s]
    BY <1>5 DEF CheckCredits, EGoto
  <2>2. epc[e] = "credits" /\ UNCHANGED <<audience, pending>> /\ s \in EnqueuerPoints
    BY <1>5 DEF CheckCredits, EnqueuerPoints
  <2>3. audience[e] # {}
    BY <2>2 DEF SelectedOnce
  <2> QED  BY <1>1, <1>2, <2>1, <2>2, <2>3, SelectedMove
<1>6. CASE Claim(e)
  <2>1. epc[e] = "claim" /\ UNCHANGED audience /\ audience[e] # {}
    BY <1>6 DEF Claim, SelectedOnce
  <2>2. CASE status \in Enqueuable
    <3>1. /\ epc' = [epc EXCEPT ![e] = "insert"] /\ pending' = [pending EXCEPT ![e] = audience[e]]
          /\ "insert" \in EnqueuerPoints
      BY <1>6, <2>2 DEF Claim, EGoto, EnqueuerPoints
    <3> QED  BY <1>0, <1>1, <1>2, <2>1, <3>1, SelectedMove
  <2>3. CASE status \notin Enqueuable
    <3>1. epc' = [epc EXCEPT ![e] = "rejected"] /\ UNCHANGED pending /\ "rejected" \in EnqueuerPoints
      BY <1>6, <2>3 DEF Claim, EGoto, EnqueuerPoints
    <3> QED  BY <1>1, <1>2, <2>1, <3>1, SelectedMove
  <2> QED  BY <2>2, <2>3
<1>7. CASE InsertMessages(e)
  <2>1. PICK chunk \in SUBSET pending[e] :
          /\ Cardinality(chunk) = Min2(InsertBatch, Cardinality(pending[e]))
          /\ msgs' = [m \in Messages |-> IF m[1] = e /\ m[2] \in chunk
                                         THEN [status |-> "queued", bulk |-> 0] ELSE msgs[m]]
          /\ pending' = [pending EXCEPT ![e] = @ \ chunk]
          /\ EGoto(e, IF chunk = pending[e] THEN "count" ELSE "insert")
    BY <1>7 DEF InsertMessages
  <2>2. chunk = pending[e] /\ epc[e] = "insert" /\ pending[e] # {} /\ UNCHANGED audience
    BY <1>0, <1>7, <2>1, OneInsert DEF InsertMessages, SelectedOnce
  <2>3. PICK c \in chunk : c \in Contacts
    BY <1>0, <2>2
  <2>4. Inserted(e)'
    <3>1. <<e, c>> \in Created'
      BY <2>1, <2>3 DEF Created, Messages
    <3> QED  BY <3>1 DEF Inserted
  <2>5. epc' = [epc EXCEPT ![e] = "count"] /\ "count" \in EnqueuerPoints
    BY <2>1, <2>2 DEF EGoto, EnqueuerPoints
  <2>6. \A f \in Enqueuers \ {e} : pending'[f] = pending[f]
    BY <1>0, <2>1
  <2> QED  BY <1>1, <1>2, <2>2, <2>4, <2>5, <2>6, SelectedMove
<1>8. CASE AggregatesStep(e) \/ AggregatesFail(e)
  <2>1. PICK s \in {"recount", "store", "select"} : epc' = [epc EXCEPT ![e] = s]
    BY <1>8 DEF AggregatesStep, CountMessages, CountQueued, StoreAggregates, AggregatesFail, Goto,
       AfterAggregates
  <2>2. epc[e] \in {"count", "recount", "store"} /\ UNCHANGED <<audience, pending>> /\ s \in EnqueuerPoints
    BY <1>8 DEF AggregatesStep, CountMessages, CountQueued, StoreAggregates, AggregatesFail, At,
       EnqueuerPoints
  <2>3. Inserted(e)'
    BY <1>1, <2>2 DEF SelectedOnce, Inserted
  <2> QED  BY <1>1, <1>2, <2>1, <2>2, <2>3, SelectedMove
<1> QED  BY <1>3, <1>4, <1>5, <1>6, <1>7, <1>8

\* The caller that selects, and adds what it has selected.
LEMMA SelectedAdds ==
  ASSUME ClaimInv, SelectedOnce, NEW e \in Enqueuers, SelectQueued(e) \/ AddJob(e) \/ AddFails(e)
  PROVE  SelectedOnce'
<1>0. /\ epc \in [Enqueuers -> EnqueuerPoints] /\ todo \in [Enqueuers -> SUBSET Messages]
  BY DEF ClaimInv, TypeOK
<1>1. Created' = Created /\ UNCHANGED <<audience, pending>>
  BY DEF SelectQueued, AddJob, AddFails, NextBatch, Created
<1>2. PICK s \in {"add", "done"} : epc' = [epc EXCEPT ![e] = s]
  BY DEF SelectQueued, AddJob, AddFails, NextBatch, EGoto
<1>3. Inserted(e)
  BY DEF SelectQueued, AddJob, AddFails, NextBatch, SelectedOnce
<1>4. \A f \in Enqueuers : Inserted(f)' <=> Inserted(f)
  BY <1>1 DEF Inserted
<1>5. \A f \in Enqueuers \ {e} : todo'[f] = todo[f] /\ epc'[f] = epc[f]
  BY <1>0, <1>2 DEF SelectQueued, AddJob, AddFails, NextBatch
<1>6. epc'[e] = s
  BY <1>0, <1>2
<1>7. \A f \in Enqueuers :
        /\ epc'[f] \in {"credits", "claim"} => audience'[f] # {}
        /\ epc'[f] = "insert" => pending'[f] # {}
        /\ epc'[f] \in {"count", "recount", "store", "select", "add"} => Inserted(f)'
        /\ todo'[f] # {} => Inserted(f)'
  <2> TAKE f \in Enqueuers
  <2>1. CASE f = e
    BY <1>3, <1>4, <1>6, <2>1
  <2>2. CASE f # e
    BY <1>1, <1>4, <1>5, <2>2 DEF SelectedOnce
  <2> QED  BY <2>1, <2>2
<1> QED  BY <1>3, <1>4, <1>6, <1>7 DEF SelectedOnce

LEMMA SelectedStep == Undisturbed /\ ClaimInv /\ SelectedOnce /\ [Next]_vars => SelectedOnce'
<1> SUFFICES ASSUME Undisturbed, ClaimInv, SelectedOnce, [Next]_vars PROVE SelectedOnce'
  OBVIOUS
<1>1. ASSUME NEW e \in Enqueuers, ReadCampaign(e) \/ EnqueuerStep(e) \/ EnqueuerFault(e)
      PROVE  SelectedOnce'
  BY <1>1, SelectedEnqueuer, SelectedAdds DEF EnqueuerStep, EnqueuerFault
<1>2. CASE SubscriptionChanges \/ Reopen \/ UNCHANGED vars
  BY <1>2 DEF SubscriptionChanges, Reopen, vars, SelectedOnce, Inserted, Created, Untouched
<1> QED  BY <1>1, <1>2, SelectedWorker DEF Next

\* A step of a run: what it must leave as it was, and what it may spend.
LEMMA ResendRun ==
  ASSUME ResendInv, ClaimInv', SelectedOnce', NEW w \in Workers, UNCHANGED todo,
         \A v \in Workers \ {w} : run'[v] = run[v] /\ wpc'[v] = wpc[v],
         \A a \in accepted' : a \in accepted \/ a.msg \in run[w].job.ids,
         \* a job that is put back is the one that w owned
         \A j, k \in waiting' \ waiting : j = k,
         \A j \in waiting' \ waiting :
           /\ run[w].owns /\ ~run'[w].owns /\ j.ids \subseteq run[w].job.ids
           /\ Within(j) /\ \A m \in j.ids : Spent(m)' <= HandedOut(j),
         \* a job that w owns is the one it owned, or one that was waiting
         run'[w].owns =>
           /\ \/ run[w].owns /\ run'[w].job = run[w].job
              \/ run'[w].job \in waiting /\ run'[w].job \notin waiting'
           /\ Within(run'[w].job)
           /\ \A m \in run'[w].job.ids :
                Spent(m)' <= HandedOut(run'[w].job) + (IF wpc'[w] \in PreSend THEN 0 ELSE 1),
         run'[w].job.ids \subseteq run[w].job.ids \/ run'[w].job \in waiting,
         \A m \in Messages :
           /\ IsFiniteSet(SendsOf(m)') /\ Spent(m)' \in Nat /\ Spent(m) \in Nat
           /\ \/ Spent(m)' <= Spent(m)
              \/ run[w].owns /\ m \in run[w].job.ids /\ Spent(m)' <= MaxAttempts + MaxStalls,
         RunShape(w)'
  PROVE  ResendInv'
<1>0. /\ TypeOK /\ InOneJob /\ Budget /\ (\A j \in waiting : j \in Job /\ j.ids \subseteq Messages)
      /\ \A v \in Workers : run[v].job \in Job /\ run[v].job.ids \subseteq Messages
  BY DEF ResendInv, ClaimInv, TypeOK, Job, Run
<1>1. \A v \in Workers : RunShape(v)'
  <2> TAKE v \in Workers
  <2>1. CASE v = w
    BY <2>1
  <2>2. CASE v # w
    BY <2>2 DEF ResendInv, RunShape
  <2> QED  BY <2>1, <2>2
<1>2. ASSUME NEW j \in waiting', NEW k \in waiting', j.ids \cap k.ids # {} PROVE j = k
  <2>1. CASE j \in waiting /\ k \in waiting
    BY <1>0, <1>2, <2>1 DEF InOneJob
  <2>2. CASE j \notin waiting /\ k \in waiting
    BY <1>0, <1>2, <2>2 DEF InOneJob
  <2>3. CASE j \in waiting /\ k \notin waiting
    BY <1>0, <1>2, <2>3 DEF InOneJob
  <2> QED  BY <2>1, <2>2, <2>3
<1>3. ASSUME NEW j \in waiting', NEW v \in Workers, run'[v].owns
      PROVE  j.ids \cap run'[v].job.ids = {}
  <2>1. CASE v # w /\ j \in waiting
    BY <1>0, <1>3, <2>1 DEF InOneJob
  <2>2. CASE v # w /\ j \notin waiting
    BY <1>0, <1>3, <2>2 DEF InOneJob
  <2>3. CASE v = w
    BY <1>0, <1>3, <2>3 DEF InOneJob
  <2> QED  BY <2>1, <2>2, <2>3
<1>4. ASSUME NEW u \in Workers, NEW v \in Workers, run'[u].owns, run'[v].owns,
             run'[u].job.ids \cap run'[v].job.ids # {}
      PROVE  u = v
  <2>1. CASE u # w /\ v # w
    BY <1>0, <1>4, <2>1 DEF InOneJob
  <2>2. CASE u = w /\ v # w
    BY <1>0, <1>4, <2>2 DEF InOneJob
  <2>3. CASE u # w /\ v = w
    BY <1>0, <1>4, <2>3 DEF InOneJob
  <2> QED  BY <2>1, <2>2, <2>3
<1>5. ASSUME NEW e \in Enqueuers, NEW m \in todo'[e]
      PROVE  /\ \A j \in waiting' : m \notin j.ids
             /\ \A v \in Workers : m \notin run'[v].job.ids
             /\ \A a \in accepted' : a.msg # m
  <2>1. /\ \A j \in waiting : m \notin j.ids
        /\ \A v \in Workers : m \notin run[v].job.ids
        /\ \A a \in accepted : a.msg # m
    BY <1>0 DEF InOneJob
  <2>2. \A j \in waiting' : m \notin j.ids
    BY <2>1
  <2>3. \A v \in Workers : m \notin run'[v].job.ids
    <3> TAKE v \in Workers
    <3>1. CASE v = w
      BY <2>1, <3>1
    <3>2. CASE v # w
      BY <2>1, <3>2
    <3> QED  BY <3>1, <3>2
  <2> QED  BY <2>1, <2>2, <2>3
<1>6. InOneJob'
  BY <1>2, <1>3, <1>4, <1>5 DEF InOneJob
<1>7. ASSUME NEW j \in waiting' PROVE Within(j) /\ \A m \in j.ids : Spent(m)' <= HandedOut(j)
  <2>1. CASE j \notin waiting
    BY <2>1
  <2>2. CASE j \in waiting
    <3> SUFFICES ASSUME NEW m \in j.ids PROVE Within(j) /\ Spent(m)' <= HandedOut(j)
      BY <1>0, <2>2 DEF Budget
    <3>1. Within(j) /\ Spent(m) <= HandedOut(j) /\ HandedOut(j) \in Nat /\ m \in Messages
      BY <1>0, <2>2 DEF Budget, HandedOut, Job
    <3>2. ~(run[w].owns /\ m \in run[w].job.ids)
      BY <1>0, <2>2 DEF InOneJob
    <3>3. Spent(m)' <= Spent(m) /\ Spent(m)' \in Nat /\ Spent(m) \in Nat
      BY <3>1, <3>2
    <3> QED  BY <3>1, <3>3
  <2> QED  BY <2>1, <2>2
<1>8. ASSUME NEW v \in Workers, run'[v].owns
      PROVE  /\ Within(run'[v].job)
             /\ \A m \in run'[v].job.ids :
                  Spent(m)' <= HandedOut(run'[v].job) + (IF wpc'[v] \in PreSend THEN 0 ELSE 1)
  <2>1. CASE v = w
    BY <1>8, <2>1
  <2>2. CASE v # w
    <3>0. run'[v] = run[v] /\ wpc'[v] = wpc[v] /\ run[v].owns /\ Within(run[v].job)
      BY <1>0, <1>8, <2>2 DEF Budget
    <3> SUFFICES ASSUME NEW m \in run[v].job.ids
                 PROVE  Spent(m)' <= HandedOut(run[v].job) + (IF wpc[v] \in PreSend THEN 0 ELSE 1)
      BY <3>0
    <3>1. /\ Spent(m) <= HandedOut(run[v].job) + (IF wpc[v] \in PreSend THEN 0 ELSE 1)
          /\ HandedOut(run[v].job) \in Nat /\ m \in Messages
      BY <1>0, <3>0 DEF Budget, HandedOut, Job
    <3>2. ~(run[w].owns /\ m \in run[w].job.ids)
      BY <1>0, <2>2, <3>0 DEF InOneJob
    <3>3. Spent(m)' <= Spent(m) /\ Spent(m)' \in Nat /\ Spent(m) \in Nat
      BY <3>1, <3>2
    <3> QED  BY <3>1, <3>3
  <2> QED  BY <2>1, <2>2
<1>9. ASSUME NEW m \in Messages PROVE IsFiniteSet(SendsOf(m)') /\ Spent(m)' <= MaxAttempts + MaxStalls
  <2>1. Spent(m) <= MaxAttempts + MaxStalls /\ MaxAttempts + MaxStalls \in Nat
    BY <1>0, SendAssumption DEF Budget
  <2> QED  BY <2>1
<1>10. Budget'
  BY <1>7, <1>8, <1>9 DEF Budget
<1> QED  BY <1>1, <1>6, <1>10 DEF ResendInv

\* A run that goes on, sending nothing.
LEMMA ResendMove ==
  ASSUME ResendInv, ClaimInv', SelectedOnce', NEW w \in Workers,
         UNCHANGED <<todo, waiting, accepted>>,
         \A v \in Workers \ {w} : run'[v] = run[v] /\ wpc'[v] = wpc[v],
         run'[w].job = run[w].job, run'[w].owns = run[w].owns,
         run'[w].batch \subseteq run[w].job.ids,
         wpc'[w] # "idle", wpc'[w] \in PreSend => wpc[w] \in PreSend
  PROVE  ResendInv'
<1>0. Budget /\ run[w].job \in Job
  BY DEF ResendInv, ClaimInv, TypeOK, Run
<1>1. \A m \in Messages : Orphans(m)' \subseteq Orphans(m) /\ SendsOf(m)' \subseteq SendsOf(m)
  BY DEF Orphans, SendsOf
<1>2. \A m \in Messages :
        IsFiniteSet(SendsOf(m)') /\ Spent(m)' <= Spent(m) /\ Spent(m) \in Nat /\ Spent(m)' \in Nat
  BY <1>0, <1>1, SpentShrinks
<1>3. ASSUME run'[w].owns
      PROVE  /\ run[w].owns /\ Within(run[w].job)
             /\ \A m \in run[w].job.ids :
                  Spent(m)' <= HandedOut(run[w].job) + (IF wpc'[w] \in PreSend THEN 0 ELSE 1)
  <2>1. run[w].owns /\ Within(run[w].job)
    BY <1>0, <1>3 DEF Budget
  <2> SUFFICES ASSUME NEW m \in run[w].job.ids
               PROVE  Spent(m)' <= HandedOut(run[w].job) + (IF wpc'[w] \in PreSend THEN 0 ELSE 1)
    BY <2>1
  <2>2. Spent(m) <= HandedOut(run[w].job) + (IF wpc[w] \in PreSend THEN 0 ELSE 1)
        /\ HandedOut(run[w].job) \in Nat /\ m \in Messages
    BY <1>0, <2>1 DEF Budget, HandedOut, Job
  <2>3. Spent(m)' <= Spent(m) /\ Spent(m) \in Nat /\ Spent(m)' \in Nat
    BY <1>2, <2>2
  <2> QED  BY <2>2, <2>3
<1>4. RunShape(w)'
  BY DEF RunShape
<1> QED  BY <1>2, <1>3, <1>4, ResendRun

\* A bulk call sends each message of the batch once at most.
LEMMA ResendSend ==
  ASSUME ResendInv, ClaimInv', SelectedOnce', NEW w \in Workers, SendBulk(w) \/ SendThrows(w)
  PROVE  ResendInv'
<1>0. /\ Budget /\ RunShape(w) /\ run \in [Workers -> Run] /\ run[w] \in Run /\ run[w].job \in Job
      /\ run[w].job.ids \subseteq Messages /\ wpc \in [Workers -> WorkerPoints]
  BY DEF ResendInv, ClaimInv, TypeOK, Run, Job
<1>1. PICK taken \in SUBSET run[w].batch :
        accepted' = accepted \cup {[msg |-> m, bulk |-> calls + 1] : m \in taken}
  BY DEF SendBulk, SendThrows
<1>2. wpc[w] = "provider" /\ UNCHANGED <<todo, waiting>>
  BY DEF SendBulk, SendThrows
<1>3. /\ run'[w].job = run[w].job /\ run'[w].owns = run[w].owns /\ run'[w].batch = run[w].batch
      /\ \A v \in Workers \ {w} : run'[v] = run[v]
  <2>1. CASE SendBulk(w)
    <3>1. PICK t \in SUBSET run[w].batch :
            run' = [run EXCEPT ![w].bulk = calls + 1, ![w].ok = t,
                               ![w].undebited = t, ![w].unwritten = run[w].batch]
      BY <2>1 DEF SendBulk
    <3> QED  BY <1>0, <3>1 DEF Run
  <2>2. CASE SendThrows(w)
    BY <1>0, <2>2 DEF SendThrows, AllFail, Run
  <2> QED  BY <2>1, <2>2
<1>4. wpc'[w] \in {"write", "debit"} /\ \A v \in Workers \ {w} : wpc'[v] = wpc[v]
  <2>1. CASE SendBulk(w)
    <3>1. PICK s \in {"write", "debit"} : wpc' = [wpc EXCEPT ![w] = s]
      BY <2>1 DEF SendBulk, WGoto
    <3> QED  BY <1>0, <3>1
  <2>2. CASE SendThrows(w)
    BY <1>0, <2>2 DEF SendThrows, AllFail, WGoto
  <2> QED  BY <2>1, <2>2
<1>5. wpc'[w] \notin PreSend /\ wpc'[w] # "idle" /\ wpc[w] \in PreSend
  BY <1>2, <1>4 DEF PreSend
<1>6. \A a \in accepted' : a \in accepted \/ a.msg \in run[w].job.ids
  BY <1>0, <1>1 DEF RunShape
<1>7. ASSUME NEW m \in Messages
      PROVE  /\ SendsOf(m)' \subseteq SendsOf(m) \cup {[msg |-> m, bulk |-> calls + 1]}
             /\ m \notin run[w].job.ids => SendsOf(m)' \subseteq SendsOf(m)
             /\ Orphans(m)' \subseteq Orphans(m) \ {w}
  <2>1. SendsOf(m)' \subseteq SendsOf(m) \cup {[msg |-> m, bulk |-> calls + 1]}
    BY <1>1 DEF SendsOf
  <2>2. m \notin run[w].job.ids => SendsOf(m)' \subseteq SendsOf(m)
    BY <1>6 DEF SendsOf
  <2>3. Orphans(m)' \subseteq Orphans(m) \ {w}
    BY <1>3, <1>4, <1>5 DEF Orphans
  <2> QED  BY <2>1, <2>2, <2>3
<1>8. ASSUME NEW m \in Messages
      PROVE  /\ IsFiniteSet(SendsOf(m)') /\ Spent(m)' \in Nat /\ Spent(m) \in Nat
             /\ Spent(m)' <= Spent(m) + 1
             /\ ~(run[w].owns /\ m \in run[w].job.ids) => Spent(m)' <= Spent(m)
  <2>1. /\ IsFiniteSet(SendsOf(m)') /\ Spent(m)' \in Nat /\ Spent(m) \in Nat /\ Spent(m)' <= Spent(m) + 1
    BY <1>0, <1>7, SpentGrows
  <2>2. CASE m \notin run[w].job.ids
    <3>1. SendsOf(m)' \subseteq SendsOf(m) /\ Orphans(m)' \subseteq Orphans(m)
      BY <1>7, <2>2
    <3> QED  BY <1>0, <2>1, <2>2, <3>1, SpentShrinks
  <2>3. CASE ~run[w].owns /\ m \in run[w].job.ids
    <3>1. w \in Orphans(m)
      BY <1>5, <2>3 DEF Orphans
    <3> QED  BY <1>0, <1>7, <2>1, <3>1, SpentMoves
  <2>4. CASE run[w].owns /\ m \in run[w].job.ids
    BY <2>1, <2>4
  <2> QED  BY <2>2, <2>3, <2>4
<1>9. ASSUME run[w].owns, NEW m \in run[w].job.ids
      PROVE  /\ Within(run[w].job) /\ Spent(m)' <= HandedOut(run[w].job) + 1
             /\ Spent(m)' <= MaxAttempts + MaxStalls
  <2>1. Within(run[w].job) /\ Spent(m) <= HandedOut(run[w].job)
    BY <1>0, <1>5, <1>9 DEF Budget, HandedOut, Job
  <2>2. m \in Messages /\ run[w].job.attempts \in Nat /\ run[w].job.stalls \in Nat
    BY <1>0 DEF Job
  <2>3. Spent(m) \in Nat /\ Spent(m)' \in Nat /\ Spent(m)' <= Spent(m) + 1
    BY <1>8, <2>2
  <2>4. run[w].job.attempts < MaxAttempts /\ run[w].job.stalls <= MaxStalls
    BY <2>1 DEF Within
  <2> QED  BY <2>1, <2>2, <2>3, <2>4, SendAssumption DEF HandedOut
<1>10. RunShape(w)'
  BY <1>0, <1>3, <1>5 DEF RunShape
<1>11. \A m \in Messages :
        /\ IsFiniteSet(SendsOf(m)') /\ Spent(m)' \in Nat /\ Spent(m) \in Nat
        /\ \/ Spent(m)' <= Spent(m)
           \/ run[w].owns /\ m \in run[w].job.ids /\ Spent(m)' <= MaxAttempts + MaxStalls
  BY <1>8, <1>9
<1>12. run'[w].owns =>
         /\ run[w].owns /\ Within(run'[w].job)
         /\ \A m \in run'[w].job.ids :
              Spent(m)' <= HandedOut(run'[w].job) + (IF wpc'[w] \in PreSend THEN 0 ELSE 1)
  <2> SUFFICES ASSUME run'[w].owns
               PROVE  /\ run[w].owns /\ Within(run'[w].job)
                      /\ \A m \in run'[w].job.ids :
                           Spent(m)' <= HandedOut(run'[w].job) + (IF wpc'[w] \in PreSend THEN 0 ELSE 1)
    OBVIOUS
  <2>1. run[w].owns /\ Within(run[w].job)
    BY <1>0, <1>3 DEF Budget
  <2> QED  BY <1>3, <1>5, <1>9, <2>1
<1> QED  BY <1>2, <1>3, <1>4, <1>6, <1>10, <1>11, <1>12, ResendRun

\* A job that is put back has been handed out once more.
LEMMA PutBackCounts ==
  ASSUME Budget, NEW w \in Workers, run[w].owns, run[w].job \in Job, NEW j,
         \/ j = [run[w].job EXCEPT !.attempts = @ + 1]
         \/ j = [run[w].job EXCEPT !.stalls = @ + 1],
         NEW m \in run[w].job.ids, Spent(m) \in Nat, Spent(m)' \in Nat,
         \/ Spent(m)' <= Spent(m)
         \/ wpc[w] \in PreSend /\ Spent(m)' <= Spent(m) + 1
  PROVE  /\ j.ids = run[w].job.ids /\ HandedOut(j) = HandedOut(run[w].job) + 1
         /\ Spent(m)' <= HandedOut(j) /\ Spent(m)' <= MaxAttempts + MaxStalls
<1> DEFINE k == run[w].job
<1>1. k.attempts \in Nat /\ k.stalls \in Nat /\ k.attempts < MaxAttempts /\ k.stalls <= MaxStalls
      /\ Spent(m) <= HandedOut(k) + (IF wpc[w] \in PreSend THEN 0 ELSE 1)
  BY DEF Budget, Within, Job
<1>2. j.ids = k.ids /\ HandedOut(j) = HandedOut(k) + 1
  BY <1>1 DEF HandedOut, Job
<1>3. Spent(m)' <= HandedOut(k) + 1
  BY <1>1 DEF HandedOut
<1>4. HandedOut(k) + 1 <= MaxAttempts + MaxStalls
  BY <1>1, SendAssumption DEF HandedOut
<1>5. HandedOut(k) \in Nat
  BY <1>1 DEF HandedOut
<1> QED  BY <1>2, <1>3, <1>4, <1>5, SendAssumption

\* A run that ends gives its job back, or not.
LEMMA ResendEnd ==
  ASSUME ResendInv, ClaimInv', SelectedOnce', NEW w \in Workers,
         JobDone(w) \/ JobThrew(w) \/ WorkerCrashes(w)
  PROVE  ResendInv'
<1>0. /\ Budget /\ run \in [Workers -> Run] /\ run[w] \in Run /\ run[w].job \in Job
      /\ run[w].job.ids \subseteq Messages /\ wpc \in [Workers -> WorkerPoints]
  BY DEF ResendInv, ClaimInv, TypeOK, Run, Job
<1>1. /\ run'[w] = NoRun /\ wpc'[w] = "idle" /\ UNCHANGED <<todo, accepted>>
      /\ \A v \in Workers \ {w} : run'[v] = run[v] /\ wpc'[v] = wpc[v]
  BY <1>0 DEF JobDone, JobThrew, WorkerCrashes, EndRun, WGoto
<1>2. ~run'[w].owns /\ run'[w].job.ids = {} /\ run'[w].batch = {}
  BY <1>1 DEF NoRun, NoJob
<1>3. PICK k : /\ waiting' = waiting \/ (waiting' = waiting \cup {k} /\ run[w].owns /\ Within(k))
               /\ \/ k = [run[w].job EXCEPT !.attempts = @ + 1]
                  \/ k = [run[w].job EXCEPT !.stalls = @ + 1]
  <2>1. CASE JobDone(w)
    BY <2>1 DEF JobDone
  <2>2. CASE JobThrew(w)
    <3> DEFINE j == [run[w].job EXCEPT !.attempts = @ + 1]
    <3>1. CASE run[w].owns
      <4>1. j.stalls <= MaxStalls
        BY <1>0, <3>1 DEF Budget, Within, Job
      <4>2. waiting' = waiting \/ (waiting' = waiting \cup {j} /\ j.attempts < MaxAttempts)
        BY <2>2, <3>1 DEF JobThrew, PutBack
      <4> HIDE DEF j
      <4>3. waiting' = waiting \/ (waiting' = waiting \cup {j} /\ Within(j))
        BY <4>1, <4>2 DEF Within
      <4> QED  BY <3>1, <4>3 DEF j
    <3>2. CASE ~run[w].owns
      BY <2>2, <3>2 DEF JobThrew
    <3> QED  BY <3>1, <3>2
  <2>3. CASE WorkerCrashes(w)
    <3> DEFINE j == [run[w].job EXCEPT !.stalls = @ + 1]
    <3>1. CASE run[w].owns
      <4>1. j.attempts < MaxAttempts
        BY <1>0, <3>1 DEF Budget, Within, Job
      <4>2. waiting' = waiting \/ (waiting' = waiting \cup {j} /\ j.stalls <= MaxStalls)
        BY <2>3, <3>1 DEF WorkerCrashes, Stall, PutBack
      <4> HIDE DEF j
      <4>3. waiting' = waiting \/ (waiting' = waiting \cup {j} /\ Within(j))
        BY <4>1, <4>2 DEF Within
      <4> QED  BY <3>1, <4>3 DEF j
    <3>2. CASE ~run[w].owns
      BY <2>3, <3>2 DEF WorkerCrashes
    <3> QED  BY <3>1, <3>2
  <2> QED  BY <2>1, <2>2, <2>3
<1>4. \A m \in Messages :
        IsFiniteSet(SendsOf(m)') /\ Spent(m)' <= Spent(m) /\ Spent(m) \in Nat /\ Spent(m)' \in Nat
  <2> TAKE m \in Messages
  <2>1. Orphans(m)' \subseteq Orphans(m) /\ SendsOf(m)' \subseteq SendsOf(m)
    BY <1>1, <1>2 DEF Orphans, SendsOf
  <2> QED  BY <1>0, <2>1, SpentShrinks
<1>5. ASSUME NEW j \in waiting' \ waiting
      PROVE  /\ j = k /\ run[w].owns /\ j.ids \subseteq run[w].job.ids /\ Within(j)
             /\ \A m \in j.ids : Spent(m)' <= HandedOut(j)
  <2>1. j = k /\ run[w].owns /\ Within(j)
    BY <1>3
  <2>2. j.ids = run[w].job.ids
    BY <1>0, <1>3, <2>1 DEF Job
  <2>3. \A m \in j.ids : Spent(m)' <= HandedOut(j)
    BY <1>0, <1>3, <1>4, <2>1, <2>2, PutBackCounts
  <2> QED  BY <2>1, <2>2, <2>3
<1>6. RunShape(w)'
  BY <1>2 DEF RunShape
<1>7. \A j \in waiting' \ waiting :
        /\ run[w].owns /\ ~run'[w].owns /\ j.ids \subseteq run[w].job.ids
        /\ Within(j) /\ \A m \in j.ids : Spent(m)' <= HandedOut(j)
  BY <1>2, <1>5
<1>8. \A j, l \in waiting' \ waiting : j = l
  BY <1>5
<1>9. \A a \in accepted' : a \in accepted \/ a.msg \in run[w].job.ids
  BY <1>1
<1> QED  BY <1>1, <1>2, <1>4, <1>6, <1>7, <1>8, <1>9, ResendRun

\* The worker that lost the lock of its job may still send, beside the one that gets it.
LEMMA ResendLost ==
  ASSUME ResendInv, ClaimInv', SelectedOnce', NEW w \in Workers, LockLost(w)
  PROVE  ResendInv'
<1>0. /\ Budget /\ run \in [Workers -> Run] /\ run[w] \in Run /\ run[w].job \in Job
      /\ run[w].job.ids \subseteq Messages /\ wpc \in [Workers -> WorkerPoints] /\ RunShape(w)
  BY DEF ResendInv, ClaimInv, TypeOK, Run, Job
<1>1. /\ UNCHANGED <<todo, accepted, wpc>> /\ run[w].owns /\ wpc[w] # "idle"
      /\ \A v \in Workers \ {w} : run'[v] = run[v]
  BY <1>0 DEF LockLost
<1>2. ~run'[w].owns /\ run'[w].job = run[w].job /\ run'[w].batch = run[w].batch
  BY <1>0 DEF LockLost, Run
<1> DEFINE k == [run[w].job EXCEPT !.stalls = @ + 1]
<1>3. waiting' = waiting \/ (waiting' = waiting \cup {k} /\ Within(k))
  <2>1. k.attempts < MaxAttempts
    BY <1>0, <1>1 DEF Budget, Within, Job
  <2>2. waiting' = waiting \/ (waiting' = waiting \cup {k} /\ k.stalls <= MaxStalls)
    BY DEF LockLost, Stall, PutBack
  <2> HIDE DEF k
  <2> QED  BY <2>1, <2>2 DEF Within
<1>4. ASSUME NEW m \in Messages
      PROVE  /\ IsFiniteSet(SendsOf(m)') /\ Spent(m)' \in Nat /\ Spent(m) \in Nat
             /\ \/ Spent(m)' <= Spent(m)
                \/ wpc[w] \in PreSend /\ m \in run[w].job.ids /\ Spent(m)' <= Spent(m) + 1
  <2>1. SendsOf(m)' \subseteq SendsOf(m)
    BY <1>1 DEF SendsOf
  <2>2. CASE wpc[w] \in PreSend /\ m \in run[w].job.ids
    <3>1. Orphans(m)' \subseteq Orphans(m) \cup {w}
      BY <1>1 DEF Orphans
    <3> QED  BY <1>0, <2>1, <2>2, <3>1, SpentGrows
  <2>3. CASE ~(wpc[w] \in PreSend /\ m \in run[w].job.ids)
    <3>1. Orphans(m)' \subseteq Orphans(m)
      BY <1>1, <1>2, <2>3 DEF Orphans
    <3> QED  BY <1>0, <2>1, <3>1, SpentShrinks
  <2> QED  BY <2>2, <2>3
<1> HIDE DEF k
<1>5. ASSUME NEW m \in run[w].job.ids
      PROVE  /\ k.ids = run[w].job.ids
             /\ Spent(m)' <= HandedOut(k) /\ Spent(m)' <= MaxAttempts + MaxStalls
  <2>1. m \in Messages
    BY <1>0
  <2>2. /\ Spent(m)' \in Nat /\ Spent(m) \in Nat
        /\ Spent(m)' <= Spent(m) \/ (wpc[w] \in PreSend /\ Spent(m)' <= Spent(m) + 1)
    BY <1>4, <2>1
  <2> QED  BY <1>0, <1>1, <2>2, PutBackCounts DEF k
<1>6. k.ids = run[w].job.ids
  BY <1>0 DEF k, Job
<1>7. ASSUME NEW j \in waiting' \ waiting
      PROVE  /\ j = k /\ run[w].owns /\ ~run'[w].owns /\ j.ids \subseteq run[w].job.ids /\ Within(j)
             /\ \A m \in j.ids : Spent(m)' <= HandedOut(j)
  <2>1. j = k /\ Within(k)
    BY <1>3
  <2> QED  BY <1>1, <1>2, <1>5, <1>6, <2>1
<1>8. RunShape(w)'
  BY <1>0, <1>1, <1>2 DEF RunShape
<1>9. \A m \in Messages :
        /\ IsFiniteSet(SendsOf(m)') /\ Spent(m)' \in Nat /\ Spent(m) \in Nat
        /\ \/ Spent(m)' <= Spent(m)
           \/ run[w].owns /\ m \in run[w].job.ids /\ Spent(m)' <= MaxAttempts + MaxStalls
  BY <1>1, <1>4, <1>5
<1>10. \A j, l \in waiting' \ waiting : j = l
  BY <1>7
<1>11. \A a \in accepted' : a \in accepted \/ a.msg \in run[w].job.ids
  BY <1>1
<1>12. \A v \in Workers \ {w} : run'[v] = run[v] /\ wpc'[v] = wpc[v]
  BY <1>1
<1> QED  BY <1>1, <1>2, <1>7, <1>8, <1>9, <1>10, <1>11, <1>12, ResendRun

\* A slot takes a job that waits, and nobody else has it.
LEMMA ResendTake ==
  ASSUME ResendInv, ClaimInv', SelectedOnce', NEW w \in Workers, TakeJob(w)
  PROVE  ResendInv'
<1>0. /\ Budget /\ run \in [Workers -> Run] /\ wpc \in [Workers -> WorkerPoints] /\ RunShape(w)
      /\ waiting \subseteq Job
  BY DEF ResendInv, ClaimInv, TypeOK
<1>1. PICK j \in waiting : /\ waiting' = waiting \ {j}
                           /\ run' = [run EXCEPT ![w] = [NoRun EXCEPT !.job = j, !.owns = TRUE]]
  BY DEF TakeJob
<1>2. /\ wpc[w] = "idle" /\ wpc'[w] = "fetch" /\ UNCHANGED <<todo, accepted>>
      /\ \A v \in Workers \ {w} : run'[v] = run[v] /\ wpc'[v] = wpc[v]
  BY <1>0, <1>1 DEF TakeJob, WGoto
<1>3. run'[w].job = j /\ run'[w].owns /\ run'[w].batch = {} /\ ~run[w].owns
  BY <1>0, <1>1, <1>2 DEF NoRun, RunShape
<1>4. \A m \in Messages :
        IsFiniteSet(SendsOf(m)') /\ Spent(m)' <= Spent(m) /\ Spent(m) \in Nat /\ Spent(m)' \in Nat
  <2> TAKE m \in Messages
  <2>1. Orphans(m)' \subseteq Orphans(m) /\ SendsOf(m)' \subseteq SendsOf(m)
    BY <1>2, <1>3 DEF Orphans, SendsOf
  <2> QED  BY <1>0, <2>1, SpentShrinks
<1>5. Within(j) /\ "fetch" \in PreSend
  BY <1>0 DEF Budget, PreSend
<1>6. \A m \in j.ids : Spent(m)' <= HandedOut(j)
  <2> TAKE m \in j.ids
  <2>1. Spent(m) <= HandedOut(j) /\ HandedOut(j) \in Nat /\ m \in Messages
    BY <1>0 DEF Budget, HandedOut, Job
  <2>2. Spent(m)' <= Spent(m) /\ Spent(m) \in Nat /\ Spent(m)' \in Nat
    BY <1>4, <2>1
  <2> QED  BY <2>1, <2>2
<1>7. \A m \in j.ids : Spent(m)' <= HandedOut(j) + (IF wpc'[w] \in PreSend THEN 0 ELSE 1)
  <2>1. HandedOut(j) \in Nat
    BY <1>0 DEF HandedOut, Job
  <2> QED  BY <1>2, <1>5, <1>6, <2>1
<1>8. RunShape(w)' /\ run'[w].job \notin waiting'
  BY <1>1, <1>2, <1>3 DEF RunShape
<1>9. waiting' \ waiting = {} /\ \A a \in accepted' : a \in accepted \/ a.msg \in run[w].job.ids
  BY <1>1, <1>2
<1> QED  BY <1>2, <1>3, <1>4, <1>5, <1>7, <1>8, <1>9, ResendRun

\* A step that leaves the queue and the runs alone.
LEMMA ResendQuiet ==
  ASSUME ResendInv, ClaimInv', SelectedOnce', UNCHANGED <<waiting, accepted, run, wpc>>,
         Untouched \/ \A e \in Enqueuers : todo'[e] \subseteq todo[e]
  PROVE  ResendInv'
<1>1. \A m : SendsOf(m)' = SendsOf(m) /\ Orphans(m)' = Orphans(m) /\ Spent(m)' = Spent(m)
  BY DEF SendsOf, Orphans, Spent
<1>2. Budget' /\ \A w \in Workers : RunShape(w)'
  BY <1>1 DEF ResendInv, Budget, RunShape
<1>3. InOneJob'
  <2>1. ASSUME NEW e \in Enqueuers, NEW m \in todo'[e]
        PROVE  /\ \A j \in waiting : m \notin j.ids
               /\ \A w \in Workers : m \notin run[w].job.ids
               /\ \A a \in accepted : a.msg # m
    <3>1. CASE Untouched
      BY <3>1 DEF Untouched, NoRun, NoJob
    <3>2. CASE todo'[e] \subseteq todo[e]
      BY <3>2 DEF ResendInv, InOneJob
    <3> QED  BY <3>1, <3>2
  <2> QED  BY <2>1 DEF ResendInv, InOneJob
<1> QED  BY <1>2, <1>3 DEF ResendInv

\* A new job: what it sends is in no other job, and has not been sent.
LEMMA ResendAdd ==
  ASSUME ResendInv, ClaimInv', SelectedOnce', NEW e \in Enqueuers, AddJob(e)
  PROVE  ResendInv'
<1>0. /\ TypeOK /\ Budget /\ InOneJob /\ todo \in [Enqueuers -> SUBSET Messages]
  BY DEF ResendInv, ClaimInv, TypeOK
<1>1. PICK ids \in SUBSET todo[e] :
        /\ NextBatch(e, ids)
        /\ waiting' = waiting \cup {[by |-> e, ids |-> ids, attempts |-> 0, stalls |-> 0]}
  BY DEF AddJob
<1> DEFINE k == [by |-> e, ids |-> ids, attempts |-> 0, stalls |-> 0]
<1>2. k.ids = ids /\ k.attempts = 0 /\ k.stalls = 0
  OBVIOUS
<1>3. UNCHANGED <<accepted, run, wpc>> /\ todo' = [todo EXCEPT ![e] = @ \ ids]
  BY <1>1 DEF NextBatch
<1>4. \A m : SendsOf(m)' = SendsOf(m) /\ Orphans(m)' = Orphans(m) /\ Spent(m)' = Spent(m)
  BY <1>3 DEF SendsOf, Orphans, Spent
<1>5. \A m \in ids : /\ m \in todo[e] /\ m \in Messages
                     /\ \A j \in waiting : m \notin j.ids
                     /\ \A w \in Workers : m \notin run[w].job.ids
                     /\ \A a \in accepted : a.msg # m
  BY <1>0 DEF InOneJob
<1>6. \A m \in ids : Spent(m) = 0
  <2> TAKE m \in ids
  <2>1. SendsOf(m) = {} /\ Orphans(m) = {}
    BY <1>5 DEF SendsOf, Orphans
  <2> QED  BY <2>1, FS_EmptySet DEF Spent
<1>7. \A f \in Enqueuers : todo'[f] \subseteq todo[f] /\ todo'[f] \cap ids = {}
  <2> TAKE f \in Enqueuers
  <2>1. CASE f = e
    BY <1>0, <1>3, <2>1
  <2>2. CASE f # e
    <3>1. todo'[f] = todo[f]
      BY <1>0, <1>3, <2>2
    <3>2. todo[f] = {} \/ ids = {}
      <4> SUFFICES ASSUME todo[f] # {}, ids # {} PROVE FALSE
        OBVIOUS
      <4>1. Inserted(e) /\ Inserted(f)
        BY <1>5 DEF ResendInv, SelectedOnce
      <4> QED  BY <2>2, <4>1 DEF ResendInv, ClaimInv, Holds, Inserted
    <3> QED  BY <3>1, <3>2
  <2> QED  BY <2>1, <2>2
<1> HIDE DEF k
<1>8. \A j \in waiting' : j \in waiting \/ j = k
  BY <1>1 DEF k
<1>9. InOneJob'
  <2>1. \A j, l \in waiting' : j.ids \cap l.ids # {} => j = l
    BY <1>0, <1>2, <1>5, <1>8 DEF InOneJob
  <2>2. \A j \in waiting', w \in Workers : run[w].owns => j.ids \cap run[w].job.ids = {}
    BY <1>0, <1>2, <1>5, <1>8 DEF InOneJob
  <2>3. \A f \in Enqueuers : \A m \in todo'[f] :
          /\ \A j \in waiting' : m \notin j.ids
          /\ \A w \in Workers : m \notin run[w].job.ids
          /\ \A a \in accepted : a.msg # m
    <3> TAKE f \in Enqueuers
    <3> TAKE m \in todo'[f]
    <3>1. m \in todo[f] /\ m \notin ids
      BY <1>7
    <3> QED  BY <1>0, <1>2, <1>8, <3>1 DEF InOneJob
  <2> QED  BY <1>0, <1>3, <2>1, <2>2, <2>3 DEF InOneJob
<1>10. Budget'
  <2>1. Within(k) /\ \A m \in k.ids : Spent(m) <= HandedOut(k)
    BY <1>2, <1>6, SendAssumption DEF Within, HandedOut
  <2> QED  BY <1>0, <1>3, <1>4, <1>8, <2>1 DEF Budget
<1>11. \A w \in Workers : RunShape(w)'
  BY <1>3 DEF ResendInv, RunShape
<1> QED  BY <1>9, <1>10, <1>11 DEF ResendInv

\* At first nobody has selected or sent anything.
LEMMA ResendInit == Init => ResendInv
<1> SUFFICES ASSUME Init PROVE ResendInv
  OBVIOUS
<1>1. ClaimInv
  BY ClaimInit
<1>2. Untouched
  BY DEF Init, Untouched
<1>3. SelectedOnce
  BY <1>2 DEF Init, SelectedOnce
<1>4. InOneJob /\ \A w \in Workers : RunShape(w)
  BY <1>2 DEF Untouched, InOneJob, RunShape, NoRun
<1>5. ASSUME NEW m \in Messages PROVE IsFiniteSet(SendsOf(m)) /\ Spent(m) <= MaxAttempts + MaxStalls
  <2>1. SendsOf(m) = {} /\ Orphans(m) = {}
    BY <1>2 DEF Untouched, SendsOf, Orphans, PreSend
  <2>2. Spent(m) = 0 /\ IsFiniteSet(SendsOf(m))
    BY <2>1, FS_EmptySet DEF Spent
  <2> QED  BY <2>2, SendAssumption
<1>6. Budget
  BY <1>2, <1>5 DEF Budget, Untouched, NoRun
<1> QED  BY <1>1, <1>3, <1>4, <1>6 DEF ResendInv

\* What a run does on its own job between taking it and giving it back, the bulk call aside.
LEMMA ResendRuns ==
  ASSUME ResendInv, ClaimInv', SelectedOnce', NEW w \in Workers,
         \/ FetchMessages(w) \/ CheckSubscription(w) \/ CheckBalance(w) \/ RateLimited(w)
         \/ DebitOne(w) \/ DebitFails(w) \/ WriteResult(w) \/ WriteFails(w) \/ WritesRefused(w)
         \/ AggregatesStep(w) \/ AggregatesFail(w)
  PROVE  ResendInv'
<1>0. /\ run \in [Workers -> Run] /\ run[w] \in Run /\ wpc \in [Workers -> WorkerPoints] /\ RunShape(w)
  BY DEF ResendInv, ClaimInv, TypeOK
<1>1. UNCHANGED <<todo, waiting, accepted>> /\ \A v \in Workers \ {w} : run'[v] = run[v]
  BY <1>0 DEF FetchMessages, CheckSubscription, CheckBalance, RateLimited, DebitOne, DebitFails,
     Debited, WriteResult, WriteFails, WritesRefused, CatchRetryable, AllFail, AggregatesStep,
     CountMessages, CountQueued, StoreAggregates, AggregatesFail
<1>2. PICK s \in WorkerPoints : /\ wpc' = [wpc EXCEPT ![w] = s] /\ s # "idle"
                                /\ s \in PreSend => wpc[w] \in PreSend
  <2>1. CASE FetchMessages(w)
    BY <2>1 DEF FetchMessages, WGoto, WorkerPoints, PreSend
  <2>2. CASE CheckSubscription(w) \/ CheckBalance(w)
    BY <2>2 DEF CheckSubscription, CheckBalance, AllFail, WGoto, WorkerPoints, PreSend
  <2>3. CASE RateLimited(w)
    BY <2>3 DEF RateLimited, WGoto, WorkerPoints, PreSend
  <2>4. CASE DebitOne(w) \/ DebitFails(w)
    BY <2>4 DEF DebitOne, DebitFails, Debited, WGoto, WorkerPoints, PreSend
  <2>5. CASE WriteResult(w) \/ WriteFails(w) \/ WritesRefused(w)
    BY <2>5 DEF WriteResult, WriteFails, WritesRefused, CatchRetryable, WGoto, WorkerPoints, PreSend
  <2>6. CASE AggregatesStep(w) \/ AggregatesFail(w)
    BY <2>6, SendAssumption DEF AggregatesStep, CountMessages, CountQueued, StoreAggregates,
       AggregatesFail, Goto, AfterAggregates, WorkerPoints, PreSend
  <2> QED  BY <2>1, <2>2, <2>3, <2>4, <2>5, <2>6
<1>3. wpc'[w] = s /\ \A v \in Workers \ {w} : wpc'[v] = wpc[v]
  BY <1>0, <1>2
<1>4. run'[w].job = run[w].job /\ run'[w].owns = run[w].owns /\ run'[w].batch \subseteq run[w].job.ids
  <2>1. CASE FetchMessages(w)
    BY <1>0, <2>1 DEF FetchMessages, Unsent, Run
  <2>2. CASE CheckSubscription(w) \/ CheckBalance(w)
    BY <1>0, <2>2 DEF CheckSubscription, CheckBalance, AllFail, Run, RunShape
  <2>3. CASE RateLimited(w)
    BY <1>0, <2>3 DEF RateLimited, Run, RunShape
  <2>4. CASE DebitOne(w) \/ DebitFails(w)
    BY <1>0, <2>4 DEF DebitOne, DebitFails, Debited, Run, RunShape
  <2>5. CASE WriteResult(w) \/ WriteFails(w) \/ WritesRefused(w)
    BY <1>0, <2>5 DEF WriteResult, WriteFails, WritesRefused, CatchRetryable, Run, RunShape
  <2>6. CASE AggregatesStep(w) \/ AggregatesFail(w)
    BY <1>0, <2>6 DEF AggregatesStep, CountMessages, CountQueued, StoreAggregates, AggregatesFail, RunShape
  <2> QED  BY <2>1, <2>2, <2>3, <2>4, <2>5, <2>6
<1> QED  BY <1>1, <1>2, <1>3, <1>4, ResendMove

\* A caller's steps, selecting among them, leave the messages in their jobs.
LEMMA ResendEnqueuer ==
  ASSUME ResendInv, ClaimInv', SelectedOnce', NEW e \in Enqueuers,
         ReadCampaign(e) \/ EnqueuerStep(e) \/ EnqueuerFault(e)
  PROVE  ResendInv'
<1>1. CASE AddJob(e)
  BY <1>1, ResendAdd
<1>2. CASE AddFails(e)
  <2>1. UNCHANGED <<waiting, accepted, run, wpc>>
    BY <1>2 DEF AddFails, NextBatch
  <2>2. \A f \in Enqueuers : todo'[f] \subseteq todo[f]
    BY <1>2 DEF AddFails, NextBatch, ResendInv, ClaimInv, TypeOK
  <2> QED  BY <2>1, <2>2, ResendQuiet
<1>3. CASE SelectQueued(e)
  <2>1. UNCHANGED <<waiting, accepted, run, wpc>>
    BY <1>3 DEF SelectQueued
  <2>2. Untouched
    <3>1. epc[e] = "select" /\ Inserted(e)
      BY <1>3 DEF SelectQueued, ResendInv, SelectedOnce
    <3>2. \A f \in Enqueuers : Inserted(f) => f = e
      BY <3>1 DEF ResendInv, ClaimInv, Holds, Inserted
    <3> QED  BY <3>1, <3>2 DEF ResendInv, SelectedOnce
  <2> QED  BY <2>1, <2>2, ResendQuiet
<1>4. CASE ~(AddJob(e) \/ AddFails(e) \/ SelectQueued(e))
  <2>1. UNCHANGED <<waiting, accepted, run, wpc, todo>>
    BY <1>4 DEF EnqueuerStep, EnqueuerFault, ReadCampaign, BuildAudience, NoRecipients,
       CheckCredits, Claim, NoText, InsertMessages, InsertFails, EnqueuerCrashes, AggregatesStep,
       CountMessages, CountQueued, StoreAggregates, AggregatesFail, Goto
  <2> QED  BY <2>1, ResendQuiet
<1> QED  BY <1>1, <1>2, <1>3, <1>4

LEMMA ResendStep == Undisturbed /\ ResendInv /\ [Next]_vars => ResendInv'
<1> SUFFICES ASSUME Undisturbed, ResendInv, [Next]_vars PROVE ResendInv'
  OBVIOUS
<1>0. ClaimInv' /\ SelectedOnce'
  BY ClaimStep, SelectedStep DEF ResendInv
<1>1. ASSUME NEW w \in Workers, WorkerStep(w) \/ WorkerFault(w) PROVE ResendInv'
  BY <1>0, <1>1, ResendTake, ResendRuns, ResendSend, ResendEnd, ResendLost DEF WorkerStep, WorkerFault
<1>2. CASE SubscriptionChanges \/ Reopen \/ UNCHANGED vars
  BY <1>0, <1>2, ResendQuiet DEF SubscriptionChanges, Reopen, vars
<1> QED  BY <1>0, <1>1, <1>2, ResendEnqueuer DEF Next

\* A message is sent no more often than its job is handed out: the attempts of the job, and
\* one more for every stall, whatever crashes, lost locks and retries do
\* (sms.worker.js:63-98, the attempts of queues.js).
THEOREM ResendsAreBounded ==
  ASSUME Undisturbed
  PROVE  Spec => []BoundedResends
<1>1. ResendInv /\ [Next]_vars => ResendInv'
  BY ResendStep
<1>2. ASSUME ResendInv, NEW m \in Messages PROVE Sends(m) <= MaxAttempts + MaxStalls
  <2>1. IsFiniteSet(SendsOf(m)) /\ Spent(m) <= MaxAttempts + MaxStalls
    BY <1>2 DEF ResendInv, Budget
  <2>2. Cardinality(SendsOf(m)) \in Nat /\ Cardinality(Orphans(m)) \in Nat
    BY <2>1, OrphansFinite, FS_CardinalityType
  <2>3. Sends(m) = Cardinality(SendsOf(m))
    BY DEF Sends, SendsOf
  <2> QED  BY <2>1, <2>2, <2>3, SendAssumption DEF Spent
<1>3. ResendInv => BoundedResends
  BY <1>2 DEF BoundedResends
<1> QED  BY <1>1, <1>3, ResendInit, PTL DEF Spec

-----------------------------------------------------------------------------
(* Without faults, a message is sent once and its outcome is final. *)

\* No process crashes, no lock is lost, no query fails, and the result update names columns
\* that the table has.
Faultless == Undisturbed /\ MaxFaults = 0 /\ WritesAccepted

\* A run owns its job, and what it is about to write is still queued; what it is about to
\* send has not been sent.
CalmRun(w) ==
  /\ wpc[w] # "idle" => run[w].owns
  /\ run[w].unwritten \subseteq run[w].job.ids
  /\ run[w].unwritten # {} => wpc[w] \in {"debit", "write"}
  /\ \A m \in run[w].unwritten : msgs[m].status = "queued"
  /\ wpc[w] \in PreSend =>
       \A m \in run[w].batch : msgs[m].status = "queued" /\ \A a \in accepted : a.msg # m

\* An SMS of a message whose outcome is written, or is about to be.
Settled(a) ==
  \/ msgs[a.msg].status \in {"sent", "failed"}
  \/ \E w \in Workers : a.msg \in run[w].unwritten

CalmInv ==
  /\ ResendInv
  /\ \A w \in Workers : CalmRun(w)
  /\ \A a \in accepted : Settled(a)
  /\ \A a, b \in accepted : a.msg = b.msg => a = b

LEMMA CalmInit == Init => CalmInv
<1> SUFFICES ASSUME Init PROVE CalmInv
  OBVIOUS
<1>1. \A w \in Workers : CalmRun(w)
  BY DEF Init, CalmRun, NoRun, PreSend
<1> QED  BY <1>1, ResendInit DEF Init, CalmInv

\* Without a bound on faults above zero there are none.
LEMMA NoFault == TypeOK /\ Faultless => ~Fault
BY DEF TypeOK, Faultless, Fault

\* A step of a run that neither sends nor writes an outcome.
LEMMA CalmMove ==
  ASSUME CalmInv, ResendInv', NEW w \in Workers, UNCHANGED <<msgs, accepted>>,
         \A v \in Workers \ {w} : run'[v] = run[v] /\ wpc'[v] = wpc[v],
         run[w].unwritten \subseteq run'[w].unwritten, CalmRun(w)'
  PROVE  CalmInv'
<1>1. \A v \in Workers : CalmRun(v)'
  <2> TAKE v \in Workers
  <2>1. CASE v = w
    BY <2>1
  <2>2. CASE v # w
    BY <2>2 DEF CalmInv, CalmRun
  <2> QED  BY <2>1, <2>2
<1>2. \A a \in accepted' : Settled(a)'
  <2> SUFFICES ASSUME NEW a \in accepted PROVE Settled(a)'
    OBVIOUS
  <2>1. Settled(a)
    BY DEF CalmInv
  <2>2. \A v \in Workers : a.msg \in run[v].unwritten => a.msg \in run'[v].unwritten
    <3> TAKE v \in Workers
    <3> QED  BY DEF Settled
  <2> QED  BY <2>1, <2>2 DEF Settled
<1> QED  BY <1>1, <1>2 DEF CalmInv

\* A step of a caller: rows are only added.
LEMMA CalmQuiet ==
  ASSUME CalmInv, ResendInv', UNCHANGED <<accepted, run, wpc>>,
         \A m \in Created : msgs'[m] = msgs[m]
  PROVE  CalmInv'
<1>0. /\ \A w \in Workers : run[w].batch \subseteq Created /\ run[w].unwritten \subseteq Created
      /\ TypeOK /\ accepted \subseteq Sms
  BY DEF CalmInv, ResendInv, ClaimInv, TypeOK
<1>1. \A w \in Workers : CalmRun(w)'
  BY <1>0 DEF CalmInv, CalmRun
<1>2. ASSUME NEW a \in accepted PROVE Settled(a)'
  <2>1. Settled(a) /\ a.msg \in Messages
    BY <1>0 DEF CalmInv, Sms
  <2>2. CASE msgs[a.msg].status \in {"sent", "failed"}
    BY <2>1, <2>2 DEF Created, Settled
  <2>3. CASE \E w \in Workers : a.msg \in run[w].unwritten
    BY <2>3 DEF Settled
  <2> QED  BY <2>1, <2>2, <2>3 DEF Settled
<1> QED  BY <1>1, <1>2 DEF CalmInv

\* Two runs have nothing to write or to send in common.
LEMMA CalmApart ==
  ASSUME CalmInv, NEW v \in Workers, NEW w \in Workers, v # w, wpc[v] # "idle", wpc[w] # "idle"
  PROVE  run[v].job.ids \cap run[w].job.ids = {}
BY DEF CalmInv, CalmRun, ResendInv, InOneJob

\* The bulk call sends what nobody has sent.
LEMMA CalmSend ==
  ASSUME CalmInv, ResendInv', NEW w \in Workers, SendBulk(w)
  PROVE  CalmInv'
<1>0. /\ run \in [Workers -> Run] /\ run[w] \in Run /\ wpc \in [Workers -> WorkerPoints]
      /\ RunShape(w) /\ CalmRun(w)
  BY DEF CalmInv, ResendInv, ClaimInv, TypeOK
<1>1. PICK taken \in SUBSET run[w].batch :
        /\ accepted' = accepted \cup {[msg |-> m, bulk |-> calls + 1] : m \in taken}
        /\ run' = [run EXCEPT ![w].bulk = calls + 1, ![w].ok = taken,
                              ![w].undebited = taken, ![w].unwritten = run[w].batch]
        /\ WGoto(w, IF taken = {} THEN "write" ELSE "debit")
  BY DEF SendBulk
<1>2. /\ run'[w].job = run[w].job /\ run'[w].owns = run[w].owns
      /\ run'[w].unwritten = run[w].batch /\ \A v \in Workers \ {w} : run'[v] = run[v]
  BY <1>0, <1>1 DEF Run
<1>3. wpc'[w] \in {"debit", "write"} /\ \A v \in Workers \ {w} : wpc'[v] = wpc[v]
  BY <1>0, <1>1 DEF WGoto
<1>4. wpc[w] = "provider" /\ UNCHANGED msgs
  BY DEF SendBulk
<1>5. /\ run[w].owns /\ run[w].unwritten = {}
      /\ \A m \in run[w].batch : msgs[m].status = "queued" /\ \A a \in accepted : a.msg # m
  BY <1>0, <1>4 DEF CalmRun, PreSend
<1>6. CalmRun(w)'
  BY <1>0, <1>2, <1>3, <1>4, <1>5 DEF CalmRun, PreSend, RunShape
<1>7. ASSUME NEW v \in Workers, v # w PROVE CalmRun(v)'
  <2>1. CalmRun(v) /\ RunShape(v)
    BY DEF CalmInv, ResendInv
  <2>2. ASSUME wpc[v] \in PreSend, NEW m \in run[v].batch, NEW a \in accepted' PROVE a.msg # m
    <3>1. m \notin run[w].job.ids
      BY <1>4, <1>7, <2>1, <2>2, CalmApart DEF RunShape, PreSend
    <3>2. a \in accepted \/ a.msg \in run[w].job.ids
      BY <1>0, <1>1 DEF RunShape
    <3> QED  BY <2>1, <2>2, <3>1, <3>2 DEF CalmRun
  <2> QED  BY <1>2, <1>3, <1>4, <1>7, <2>1, <2>2 DEF CalmRun
<1>8. \A a \in accepted' : Settled(a)'
  <2> TAKE a \in accepted'
  <2>1. CASE a \in accepted
    <3>1. Settled(a)
      BY <2>1 DEF CalmInv
    <3> QED  BY <1>2, <1>4, <1>5, <3>1 DEF Settled
  <2>2. CASE a \notin accepted
    <3>1. PICK m \in taken : a = [msg |-> m, bulk |-> calls + 1]
      BY <1>1, <2>2
    <3>2. a.msg \in run'[w].unwritten
      BY <1>2, <3>1
    <3> QED  BY <3>2 DEF Settled
  <2> QED  BY <2>1, <2>2
<1>9. \A a, b \in accepted' : a.msg = b.msg => a = b
  <2>1. \A a \in accepted' : a \in accepted \/ (a = [msg |-> a.msg, bulk |-> calls + 1] /\ a.msg \in run[w].batch)
    BY <1>1
  <2> QED  BY <1>5, <2>1 DEF CalmInv
<1>10. \A v \in Workers : CalmRun(v)'
  BY <1>6, <1>7
<1> QED  BY <1>8, <1>9, <1>10 DEF CalmInv

\* An outcome is written to a row that is still queued, and that no one else will write.
LEMMA CalmWrite ==
  ASSUME CalmInv, ResendInv', NEW w \in Workers, WriteResult(w)
  PROVE  /\ CalmInv'
         /\ \A m \in Messages : msgs[m].status \in {"sent", "failed"} => msgs'[m] = msgs[m]
<1>0. /\ run \in [Workers -> Run] /\ run[w] \in Run /\ wpc \in [Workers -> WorkerPoints]
      /\ run[w].job \in Job /\ msgs \in [Messages -> Row] /\ CalmRun(w)
      /\ run[w].unwritten \subseteq Messages
  BY DEF CalmInv, ResendInv, ClaimInv, TypeOK, Run
<1>1. PICK m \in run[w].unwritten :
        /\ msgs' = [msgs EXCEPT ![m] = ResultOf(w, m)]
        /\ run' = [run EXCEPT ![w].unwritten = @ \ {m}]
        /\ WGoto(w, IF run[w].unwritten = {m} THEN "count" ELSE "write")
  BY DEF WriteResult
<1>2. /\ run'[w].job = run[w].job /\ run'[w].owns = run[w].owns
      /\ run'[w].unwritten = run[w].unwritten \ {m} /\ \A v \in Workers \ {w} : run'[v] = run[v]
  BY <1>0, <1>1 DEF Run
<1>3. /\ wpc'[w] \in {"count", "write"} /\ (run[w].unwritten # {m} => wpc'[w] = "write")
      /\ \A v \in Workers \ {w} : wpc'[v] = wpc[v]
  BY <1>0, <1>1 DEF WGoto
<1>4. wpc[w] = "write" /\ UNCHANGED accepted /\ msgs[m].status = "queued"
  BY <1>0 DEF WriteResult, CalmRun
<1>5. /\ msgs'[m].status \in {"sent", "failed"}
      /\ \A n \in Messages \ {m} : msgs'[n] = msgs[n]
  <2>1. msgs'[m] = ResultOf(w, m) /\ \A n \in Messages \ {m} : msgs'[n] = msgs[n]
    BY <1>0, <1>1
  <2>2. msgs[m] \in Row
    BY <1>0
  <2> QED  BY <2>1, <2>2 DEF ResultOf, Row
<1>6. CalmRun(w)'
  <2>1. run'[w].unwritten \subseteq run[w].unwritten /\ m \notin run'[w].unwritten
    BY <1>2
  <2>2. \A n \in run'[w].unwritten : msgs'[n].status = "queued"
    BY <1>0, <1>5, <2>1 DEF CalmRun
  <2>3. run'[w].unwritten # {} => wpc'[w] = "write"
    BY <1>2, <1>3
  <2>4. wpc'[w] \notin PreSend
    BY <1>3 DEF PreSend
  <2>5. run'[w].owns /\ run'[w].unwritten \subseteq run'[w].job.ids
    BY <1>0, <1>2, <1>4, <2>1 DEF CalmRun
  <2> QED  BY <2>2, <2>3, <2>4, <2>5 DEF CalmRun
<1>7. ASSUME NEW v \in Workers, v # w PROVE CalmRun(v)'
  <2>1. /\ CalmRun(v) /\ RunShape(v) /\ m \in run[w].job.ids /\ run[v].batch \subseteq Messages
        /\ run[v].unwritten \subseteq Messages /\ run'[v] = run[v] /\ wpc'[v] = wpc[v]
    BY <1>0, <1>2, <1>3, <1>7 DEF CalmInv, ResendInv, CalmRun, Run
  <2>2. wpc[v] # "idle" => m \notin run[v].job.ids
    BY <1>4, <1>7, <2>1, CalmApart
  <2>3. run[v].unwritten # {} => m \notin run[v].unwritten
    BY <2>1, <2>2 DEF CalmRun
  <2>4. wpc[v] \in PreSend => m \notin run[v].batch
    BY <2>1, <2>2 DEF RunShape, PreSend
  <2>5. \A n \in run[v].unwritten : msgs'[n].status = "queued"
    BY <1>5, <2>1, <2>3 DEF CalmRun
  <2>6. wpc[v] \in PreSend =>
          \A n \in run[v].batch : msgs'[n].status = "queued" /\ \A a \in accepted' : a.msg # n
    BY <1>4, <1>5, <2>1, <2>4 DEF CalmRun
  <2> QED  BY <2>1, <2>5, <2>6 DEF CalmRun
<1>8. \A a \in accepted' : Settled(a)'
  <2> SUFFICES ASSUME NEW a \in accepted PROVE Settled(a)'
    BY <1>4
  <2>1. Settled(a) /\ a.msg \in Messages
    BY DEF CalmInv, ResendInv, ClaimInv, TypeOK, Sms
  <2>2. CASE a.msg = m
    BY <1>5, <2>2 DEF Settled
  <2>3. CASE a.msg # m
    BY <1>2, <1>5, <2>1, <2>3 DEF Settled
  <2> QED  BY <2>2, <2>3
<1>9. \A v \in Workers : CalmRun(v)'
  BY <1>6, <1>7
<1>10. \A n \in Messages : msgs[n].status \in {"sent", "failed"} => msgs'[n] = msgs[n]
  BY <1>4, <1>5
<1> QED  BY <1>4, <1>8, <1>9, <1>10 DEF CalmInv

\* The other steps of a run: what it leaves in its locals is as calm as it was.
LEMMA CalmRuns ==
  ASSUME Faultless, CalmInv, ResendInv', NEW w \in Workers,
         \/ TakeJob(w) \/ FetchMessages(w) \/ CheckSubscription(w) \/ CheckBalance(w)
         \/ RateLimited(w) \/ DebitOne(w) \/ AggregatesStep(w) \/ JobDone(w) \/ JobThrew(w)
  PROVE  CalmInv'
<1>0. /\ run \in [Workers -> Run] /\ run[w] \in Run /\ wpc \in [Workers -> WorkerPoints]
      /\ RunShape(w) /\ CalmRun(w)
  BY DEF CalmInv, ResendInv, ClaimInv, TypeOK
<1>1. UNCHANGED <<msgs, accepted>> /\ \A v \in Workers \ {w} : run'[v] = run[v] /\ wpc'[v] = wpc[v]
  <2>1. CASE AggregatesStep(w)
    BY <1>0, <2>1, SendAssumption DEF AggregatesStep, CountMessages, CountQueued, StoreAggregates, Goto
  <2>2. CASE ~AggregatesStep(w)
    BY <1>0, <2>2 DEF TakeJob, FetchMessages, CheckSubscription, CheckBalance, RateLimited,
       DebitOne, Debited, AllFail, JobDone, JobThrew, EndRun, WGoto
  <2> QED  BY <2>1, <2>2
<1>2. CASE TakeJob(w)
  <2>1. PICK j : run' = [run EXCEPT ![w] = [NoRun EXCEPT !.job = j, !.owns = TRUE]]
    BY <1>2 DEF TakeJob
  <2>2. run'[w].owns /\ run'[w].unwritten = {} /\ run'[w].batch = {}
    BY <1>0, <2>1 DEF NoRun
  <2>3. run[w].unwritten = {}
    BY <1>0, <1>2 DEF TakeJob, CalmRun
  <2> QED  BY <1>1, <2>2, <2>3, CalmMove DEF CalmRun
<1>3. CASE FetchMessages(w)
  <2>1. /\ run' = [run EXCEPT ![w].batch = Unsent(run[w].job.ids)] /\ wpc[w] = "fetch"
        /\ wpc'[w] \in {"ack", "subscription"}
    BY <1>0, <1>3 DEF FetchMessages, WGoto
  <2>2. /\ run'[w].owns = run[w].owns /\ run'[w].unwritten = run[w].unwritten /\ run'[w].job = run[w].job
        /\ run'[w].batch = Unsent(run[w].job.ids)
    BY <1>0, <2>1 DEF Run
  <2>3. run[w].owns /\ run[w].unwritten = {}
    BY <1>0, <2>1 DEF CalmRun
  <2>4. ASSUME NEW m \in Unsent(run[w].job.ids), NEW a \in accepted, a.msg = m PROVE FALSE
    <3>1. m \in run[w].job.ids /\ msgs[m].status = "queued" /\ Settled(a)
      BY DEF Unsent, CalmInv
    <3>2. PICK v \in Workers : m \in run[v].unwritten
      BY <2>4, <3>1 DEF Settled
    <3>3. v # w /\ m \in run[v].job.ids /\ wpc[v] # "idle"
      BY <2>3, <3>2 DEF CalmInv, CalmRun
    <3> QED  BY <2>1, <3>1, <3>3, CalmApart
  <2>5. \A m \in run'[w].batch : msgs'[m].status = "queued" /\ \A a \in accepted' : a.msg # m
    BY <1>1, <2>2, <2>4 DEF Unsent
  <2> QED  BY <1>1, <2>2, <2>3, <2>5, CalmMove DEF CalmRun
<1>4. CASE CheckSubscription(w) \/ CheckBalance(w)
  <2>1. wpc[w] \in PreSend /\ wpc[w] # "idle"
    BY <1>4 DEF CheckSubscription, CheckBalance, PreSend
  <2>2. /\ run[w].owns /\ run[w].unwritten = {}
        /\ \A m \in run[w].batch : msgs[m].status = "queued" /\ \A a \in accepted : a.msg # m
    BY <1>0, <2>1 DEF CalmRun, PreSend
  <2>3. CASE AllFail(w)
    <3>1. /\ run'[w].owns = run[w].owns /\ run'[w].unwritten = run[w].batch /\ run'[w].job = run[w].job
          /\ wpc'[w] = "write"
      BY <1>0, <2>3 DEF AllFail, WGoto, Run
    <3>2. CalmRun(w)'
      BY <1>0, <1>1, <2>2, <3>1 DEF CalmRun, PreSend, RunShape
    <3> QED  BY <1>1, <2>2, <3>1, <3>2, CalmMove
  <2>4. CASE run' = run /\ \E s \in PreSend : WGoto(w, s)
    BY <1>0, <1>1, <2>2, <2>4, CalmMove DEF CalmRun
  <2> QED  BY <1>4, <2>3, <2>4 DEF CheckSubscription, CheckBalance, PreSend
<1>5. CASE RateLimited(w) \/ AggregatesStep(w)
  <2>1. wpc[w] \in PreSend \cup {"count", "recount", "store"}
    BY <1>5, SendAssumption DEF RateLimited, PreSend, AggregatesStep, CountMessages, CountQueued,
       StoreAggregates, At
  <2>2. wpc'[w] \in {"count", "recount", "store", "ack"}
    BY <1>0, <1>5, SendAssumption DEF RateLimited, WGoto, AggregatesStep, CountMessages,
       CountQueued, StoreAggregates, Goto, AfterAggregates
  <2>3. run'[w].owns = run[w].owns /\ run'[w].unwritten = run[w].unwritten
    BY <1>0, <1>5 DEF RateLimited, AggregatesStep, CountMessages, CountQueued, StoreAggregates, Run
  <2>4. run[w].owns /\ run[w].unwritten = {}
    BY <1>0, <2>1 DEF CalmRun, PreSend
  <2> QED  BY <1>1, <2>2, <2>3, <2>4, CalmMove DEF CalmRun, PreSend
<1>6. CASE DebitOne(w)
  <2>1. wpc[w] = "debit" /\ wpc'[w] \in {"debit", "write"}
    BY <1>0, <1>6 DEF DebitOne, Debited, WGoto
  <2>2. run'[w].owns = run[w].owns /\ run'[w].unwritten = run[w].unwritten /\ run'[w].job = run[w].job
    BY <1>0, <1>6 DEF DebitOne, Debited, Run
  <2> QED  BY <1>0, <1>1, <2>1, <2>2, CalmMove DEF CalmRun, PreSend
<1>7. CASE JobDone(w) \/ JobThrew(w)
  <2>1. wpc[w] = "ack" /\ wpc'[w] = "idle" /\ run'[w] = NoRun
    BY <1>0, <1>7 DEF JobDone, JobThrew, EndRun, WGoto
  <2>2. run[w].unwritten = {}
    BY <1>0, <2>1 DEF CalmRun
  <2> QED  BY <1>1, <2>1, <2>2, CalmMove DEF CalmRun, NoRun, PreSend
<1> QED  BY <1>2, <1>3, <1>4, <1>5, <1>6, <1>7

\* A caller inserts rows that were not there, and changes no other.
LEMMA CalmInsert ==
  ASSUME ClaimInv, NEW e \in Enqueuers, ReadCampaign(e) \/ EnqueuerStep(e) \/ EnqueuerFault(e)
  PROVE  \A m \in Created : msgs'[m] = msgs[m]
<1>1. CASE InsertMessages(e)
  <2>1. \A m \in Created : m \in Messages /\ m[1] # e
    BY <1>1 DEF InsertMessages, ClaimInv, Created
  <2>2. PICK chunk : msgs' = [m \in Messages |-> IF m[1] = e /\ m[2] \in chunk
                                                 THEN [status |-> "queued", bulk |-> 0] ELSE msgs[m]]
    BY <1>1 DEF InsertMessages
  <2> QED  BY <2>1, <2>2
<1>2. CASE UNCHANGED msgs
  BY <1>2
<1> QED  BY <1>1, <1>2 DEF EnqueuerStep, EnqueuerFault, ReadCampaign, BuildAudience, NoRecipients,
     CheckCredits, Claim, NoText, InsertFails, AggregatesStep, CountMessages, CountQueued,
     StoreAggregates, AggregatesFail, SelectQueued, AddJob, AddFails, NextBatch, EnqueuerCrashes

\* Every step keeps the calm, and the outcomes that are written.
LEMMA CalmStep ==
  ASSUME Faultless, CalmInv, [Next]_vars
  PROVE  /\ CalmInv'
         /\ \A m \in Messages : msgs[m].status \in {"sent", "failed"} => msgs'[m] = msgs[m]
<1>0. ResendInv' /\ TypeOK /\ ClaimInv
  BY ResendStep DEF CalmInv, ResendInv, ClaimInv, Faultless
<1>1. \A m \in Messages : msgs[m].status \in {"sent", "failed"} => m \in Created
  BY DEF Created
<1>2. ASSUME NEW e \in Enqueuers, ReadCampaign(e) \/ EnqueuerStep(e) \/ EnqueuerFault(e)
      PROVE  UNCHANGED <<accepted, run, wpc>> /\ \A m \in Created : msgs'[m] = msgs[m]
  <2>1. UNCHANGED <<accepted, run, wpc>>
    BY <1>2 DEF EnqueuerStep, EnqueuerFault, ReadCampaign, BuildAudience, NoRecipients,
       CheckCredits, Claim, NoText, InsertMessages, InsertFails, EnqueuerCrashes, AggregatesStep,
       CountMessages, CountQueued, StoreAggregates, AggregatesFail, Goto, SelectQueued, AddJob,
       AddFails, NextBatch
  <2> QED  BY <1>0, <1>2, <2>1, CalmInsert
<1>3. ASSUME NEW w \in Workers, WorkerStep(w) \/ WorkerFault(w)
      PROVE  /\ CalmInv'
             /\ \A m \in Messages : msgs[m].status \in {"sent", "failed"} => msgs'[m] = msgs[m]
  <2>1. ~WorkerFault(w) /\ ~WritesRefused(w)
    <3>1. ~Fault /\ WritesAccepted
      BY <1>0, NoFault DEF Faultless
    <3> QED  BY <3>1 DEF WorkerFault, SendThrows, DebitFails, WriteFails, AggregatesFail,
             WorkerCrashes, LockLost, WritesRefused
  <2>2. CASE WriteResult(w)
    BY <1>0, <2>2, CalmWrite
  <2>3. CASE SendBulk(w)
    <3>1. UNCHANGED msgs
      BY <2>3 DEF SendBulk
    <3> QED  BY <1>0, <2>3, <3>1, CalmSend
  <2>4. CASE \/ TakeJob(w) \/ FetchMessages(w) \/ CheckSubscription(w) \/ CheckBalance(w)
             \/ RateLimited(w) \/ DebitOne(w) \/ AggregatesStep(w) \/ JobDone(w) \/ JobThrew(w)
    <3>1. UNCHANGED msgs
      BY <2>4 DEF TakeJob, FetchMessages, CheckSubscription, CheckBalance, RateLimited, DebitOne,
         Debited, AggregatesStep, CountMessages, CountQueued, StoreAggregates, JobDone, JobThrew
    <3> QED  BY <1>0, <2>4, <3>1, CalmRuns
  <2> QED  BY <1>3, <2>1, <2>2, <2>3, <2>4 DEF WorkerStep
<1>4. CASE SubscriptionChanges \/ Reopen \/ UNCHANGED vars
  <2>1. UNCHANGED <<accepted, run, wpc, msgs>>
    BY <1>4 DEF SubscriptionChanges, Reopen, vars
  <2> QED  BY <1>0, <2>1, CalmQuiet
<1>5. ASSUME UNCHANGED <<accepted, run, wpc>>, \A m \in Created : msgs'[m] = msgs[m]
      PROVE  /\ CalmInv'
             /\ \A m \in Messages : msgs[m].status \in {"sent", "failed"} => msgs'[m] = msgs[m]
  BY <1>0, <1>1, <1>5, CalmQuiet
<1> QED  BY <1>2, <1>3, <1>4, <1>5 DEF Next

\* As long as nothing fails, a message is sent once: jobs do not share messages, and a retry
\* of a job that was refused before the bulk call has sent nothing
\* (sms.worker.js:63-98, "retries don't cause duplicate sends").  LockLost is what breaks it.
THEOREM SentOnce ==
  ASSUME Faultless
  PROVE  Spec => []NoDoubleSend
<1>1. CalmInv /\ [Next]_vars => CalmInv'
  BY CalmStep
<1>2. ASSUME CalmInv, NEW m \in Messages PROVE Sends(m) <= 1
  <2> DEFINE S == {a \in accepted : a.msg = m}
  <2>1. \A a, b \in S : a = b
    BY <1>2 DEF CalmInv
  <2>2. CASE S = {}
    BY <2>2, FS_EmptySet DEF Sends
  <2>3. CASE S # {}
    <3>1. PICK a : S = {a}
      BY <2>1, <2>3
    <3>2. Cardinality(S) = 1
      BY <3>1, FS_Singleton
    <3> QED  BY <3>2 DEF Sends
  <2> QED  BY <2>2, <2>3
<1>3. CalmInv => NoDoubleSend
  BY <1>2 DEF NoDoubleSend
<1> QED  BY <1>1, <1>3, CalmInit, PTL DEF Spec

\* As long as nothing fails, a written outcome is final, although the update that writes it
\* looks at no status (sms.worker.js:318-333).
THEOREM OutcomesAreFinal ==
  ASSUME Faultless
  PROVE  Spec => OutcomeIsFinal
<1>1. CalmInv /\ [Next]_vars => CalmInv'
  BY CalmStep
<1>2. CalmInv /\ [Next]_vars =>
        [\A m \in Messages :
           msgs[m].status \in {"sent", "failed"} => msgs'[m].status = msgs[m].status]_vars
  BY CalmStep
<1> QED  BY <1>1, <1>2, CalmInit, PTL DEF Spec, OutcomeIsFinal
=============================================================================
