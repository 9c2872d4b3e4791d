---------------------------- MODULE CampaignSend ----------------------------
(***************************************************************************)
(* One campaign on its way from "draft" to its recipients:                 *)
(*   - enqueueCampaign (services/campaignEnqueue.service.js), called by    *)
(*     the HTTP route and by the scheduler worker, possibly at once;       *)
(*   - smsQueue (BullMQ over Redis, external);                             *)
(*   - processBatchJob (apps/worker/src/sms.worker.js) and, inside it,     *)
(*     sendBulkSMSWithCredits (services/smsBulk.service.js);               *)
(*   - updateCampaignAggregates (services/campaignAggregates.service.js),  *)
(*     which both of them call;                                            *)
(*   - the SMS provider (Mitto, external).                                 *)
(* Every await that touches shared state ends a step, so processes         *)
(* interleave wherever the code lets them.  A debit is one step: what      *)
(* overlapping debits do to a wallet is Wallet's subject.                  *)
(***************************************************************************)
EXTENDS Integers, FiniteSets

CONSTANTS
  Contacts,        \* the owner's contacts
  Enqueuers,       \* calls of enqueueCampaign for this campaign
  Workers,         \* concurrent job slots of the SMS workers (WORKER_CONCURRENCY)
  BatchSize,       \* messages per job (SMS_BATCH_SIZE)
  InsertBatch,     \* messages per createMany (BATCH_SIZE of the enqueue service)
  MaxAttempts,     \* attempts of a job
  MaxStalls,       \* times BullMQ hands a stalled job out again (maxStalledCount)
  MaxFaults,       \* bound: crashes, lost locks, database and Redis errors
  MaxDenials,      \* bound: refusals of the rate limiter
  InitBalance,     \* the owner's credits
  MessageColumns,  \* columns of CampaignMessage in prisma/schema.prisma
  CanReopen        \* a user may reset the status while the campaign is under way

ASSUME SendAssumption ==
  /\ Enqueuers \cap Workers = {}
  /\ IsFiniteSet(Contacts) /\ IsFiniteSet(Enqueuers) /\ IsFiniteSet(Workers)
  /\ BatchSize \in Nat \ {0}
  /\ InsertBatch \in Nat \ {0}
  /\ MaxAttempts \in Nat \ {0}
  /\ MaxStalls \in Nat
  /\ MaxFaults \in Nat
  /\ MaxDenials \in Nat
  /\ InitBalance \in Nat
  /\ CanReopen \in BOOLEAN

VARIABLES
  status,      \* Campaign.status
  counters,    \* Campaign.total, sent and failed (processed adds the two up)
  hasText,     \* the campaign or its template has a text
  msgs,        \* CampaignMessage: status, and the bulk call its provider id came from
  subscribed,  \* the owner's subscription is active
  balance,     \* the owner's credits
  debits,      \* ledger rows of type debit: message and bulk call
  accepted,    \* SMS the provider has accepted: message and bulk call
  calls,       \* bulk calls the provider has received
  waiting,     \* smsQueue: jobs waiting or delayed
  failedJobs,  \* smsQueue: jobs that will not run again
  faults,      \* faults so far
  denials,     \* rate limiter refusals so far
  epc, audience, pending, todo,   \* locals of each enqueueCampaign call
  wpc, run,                       \* locals of each processBatchJob run
  agg          \* counts each updateCampaignAggregates call has read

campaignVars == <<status, counters, hasText>>
moneyVars    == <<subscribed, balance, debits>>
providerVars == <<accepted, calls, denials>>
queueVars    == <<waiting, failedJobs>>
enqVars      == <<epc, audience, pending, todo>>
workVars     == <<wpc, run>>
vars == <<campaignVars, msgs, moneyVars, providerVars, queueVars, faults, enqVars, workVars, agg>>

-----------------------------------------------------------------------------
Statuses   == {"draft", "scheduled", "sending", "paused", "completed", "failed"}
Enqueuable == {"draft", "scheduled", "paused"}

\* A row of CampaignMessage: the call that created it (its trackingId is fresh) and
\* the recipient.
Messages == Enqueuers \X Contacts
Absent   == [status |-> "absent", bulk |-> 0]
Created  == {m \in Messages : msgs[m].status # "absent"}
With(s)  == {m \in Messages : msgs[m].status = s}

\* What a batch still has to send: queued, and no providerMessageId.
Unsent(ids) == {m \in ids : msgs[m].status = "queued" /\ msgs[m].bulk = 0}

Row  == [status : {"absent", "queued", "sent", "failed"}, bulk : Nat]
Sms  == [msg : Messages, bulk : Nat]
Job  == [by : Enqueuers \cup {"nobody"}, ids : SUBSET Messages, attempts : Nat, stalls : Nat]
Run  == [job : Job, owns : BOOLEAN, batch : SUBSET Messages, bulk : Nat,
         ok : SUBSET Messages, undebited : SUBSET Messages,
         unwritten : SUBSET Messages, threw : BOOLEAN]
Counts == [total : Nat, sent : Nat, failed : Nat, queued : BOOLEAN]
EnqueuerPoints == {"idle", "audience", "credits", "claim", "insert", "count", "recount",
                   "store", "select", "add", "done", "rejected", "crashed"}
WorkerPoints   == {"idle", "fetch", "subscription", "balance", "provider", "debit",
                   "write", "count", "recount", "store", "ack"}

NoJob == [by |-> "nobody", ids |-> {}, attempts |-> 0, stalls |-> 0]
NoRun == [job |-> NoJob, owns |-> FALSE, batch |-> {}, bulk |-> 0, ok |-> {},
          undebited |-> {}, unwritten |-> {}, threw |-> FALSE]
NoAgg == [total |-> 0, sent |-> 0, failed |-> 0, queued |-> FALSE]

\* Columns the worker's result update writes (sms.worker.js:318-333).
ResultColumns == {"status", "providerMessageId", "bulkId", "sentAt", "failedAt",
                  "error", "updatedAt"}

Min2(a, b) == IF a < b THEN a ELSE b

\* The next fault, while the bound allows one.
Fault == faults < MaxFaults /\ faults' = faults + 1

Init ==
  /\ status \in {"draft", "scheduled"}
  /\ counters = [total |-> 0, sent |-> 0, failed |-> 0]
  /\ hasText \in BOOLEAN
  /\ msgs = [m \in Messages |-> Absent]
  /\ subscribed = TRUE
  /\ balance = InitBalance
  /\ debits = {} /\ accepted = {} /\ calls = 0
  /\ waiting = {} /\ failedJobs = {}
  /\ faults = 0 /\ denials = 0
  /\ epc = [e \in Enqueuers |-> "idle"]
  /\ audience = [e \in Enqueuers |-> {}]
  /\ pending = [e \in Enqueuers |-> {}]
  /\ todo = [e \in Enqueuers |-> {}]
  /\ wpc = [w \in Workers |-> "idle"]
  /\ run = [w \in Workers |-> NoRun]
  /\ agg = [p \in Enqueuers \cup Workers |-> NoAgg]

-----------------------------------------------------------------------------
(* enqueueCampaign *)

EGoto(e, s) == epc' = [epc EXCEPT ![e] = s]

ReadCampaign(e) ==
  /\ epc[e] = "idle"
  /\ EGoto(e, IF status \in Enqueuable THEN "audience" ELSE "rejected")
  /\ UNCHANGED <<campaignVars, msgs, moneyVars, providerVars, queueVars, faults,
                 audience, pending, todo, workVars, agg>>

\* buildAudience: whichever contacts match when it reads; none when its query fails.
BuildAudience(e) ==
  /\ epc[e] = "audience"
  /\ \E found \in (SUBSET Contacts) \ {{}} :
       audience' = [audience EXCEPT ![e] = found]
  /\ EGoto(e, "credits")
  /\ UNCHANGED <<campaignVars, msgs, moneyVars, providerVars, queueVars, faults,
                 pending, todo, workVars, agg>>

\* No recipients: the campaign fails, whatever its status has become meanwhile.
NoRecipients(e) ==
  /\ epc[e] = "audience"
  /\ status' = "failed"
  /\ counters' = [counters EXCEPT !.total = 0]
  /\ EGoto(e, "rejected")
  /\ UNCHANGED <<hasText, msgs, moneyVars, providerVars, queueVars, faults,
                 audience, pending, todo, workVars, agg>>

\* The subscription check and, right after it, the balance check.
CheckCredits(e) ==
  /\ epc[e] = "credits"
  /\ EGoto(e, IF subscribed /\ balance >= Cardinality(audience[e]) THEN "claim" ELSE "rejected")
  /\ UNCHANGED <<campaignVars, msgs, moneyVars, providerVars, queueVars, faults,
                 audience, pending, todo, workVars, agg>>

\* Mutant of Claim: the UPDATE without its status condition.
ClaimBlindly(e) ==
  /\ epc[e] = "claim"
  /\ status' = "sending"
  /\ EGoto(e, "insert")
  /\ pending' = [pending EXCEPT ![e] = audience[e]]
  /\ UNCHANGED <<counters, hasText, msgs, moneyVars, providerVars, queueVars, faults,
                 audience, todo, workVars, agg>>

\* The short transaction: its updateMany is conditional on the status, so of several
\* callers that got this far one claims the campaign.
Claim(e) ==
  /\ epc[e] = "claim"
  /\ IF status \in Enqueuable
     THEN /\ status' = "sending"
          /\ EGoto(e, "insert")
          /\ pending' = [pending EXCEPT ![e] = audience[e]]
     ELSE /\ EGoto(e, "rejected")
          /\ UNCHANGED <<status, pending>>
  /\ UNCHANGED <<counters, hasText, msgs, moneyVars, providerVars, queueVars, faults,
                 audience, todo, workVars, agg>>

NoText(e) ==
  /\ epc[e] = "insert"
  /\ ~hasText
  /\ status' = "failed"
  /\ EGoto(e, "rejected")
  /\ UNCHANGED <<counters, hasText, msgs, moneyVars, providerVars, queueVars, faults,
                 audience, pending, todo, workVars, agg>>

\* createMany, one batch at a time; the totals are reset with the first batch (in one
\* transaction when there is only one).
InsertMessages(e) ==
  /\ epc[e] = "insert"
  /\ hasText
  /\ \E chunk \in SUBSET pending[e] :
       /\ Cardinality(chunk) = Min2(InsertBatch, Cardinality(pending[e]))
       /\ msgs' = [m \in Messages |->
                     IF m[1] = e /\ m[2] \in chunk
                     THEN [status |-> "queued", bulk |-> 0] ELSE msgs[m]]
       /\ pending' = [pending EXCEPT ![e] = @ \ chunk]
       /\ EGoto(e, IF chunk = pending[e] THEN "count" ELSE "insert")
  /\ counters' = [total |-> Cardinality(audience[e]), sent |-> 0, failed |-> 0]
  /\ UNCHANGED <<status, hasText, moneyVars, providerVars, queueVars, faults,
                 audience, todo, workVars, agg>>

\* An insert fails: back to draft, with the batches inserted before it left in place.
InsertFails(e) ==
  /\ epc[e] = "insert"
  /\ hasText
  /\ Fault
  /\ status' = "draft"
  /\ EGoto(e, "rejected")
  /\ UNCHANGED <<counters, hasText, msgs, moneyVars, providerVars, queueVars,
                 audience, pending, todo, workVars, agg>>

\* Everything of the campaign that is queued, whoever created it.
SelectQueued(e) ==
  /\ epc[e] = "select"
  /\ todo' = [todo EXCEPT ![e] = Unsent(Messages)]
  /\ EGoto(e, IF Unsent(Messages) = {} THEN "done" ELSE "add")
  /\ UNCHANGED <<campaignVars, msgs, moneyVars, providerVars, queueVars, faults,
                 audience, pending, workVars, agg>>

\* The next batch of todo, in whatever order the database returned it.
NextBatch(e, ids) ==
  /\ epc[e] = "add"
  /\ ids \subseteq todo[e]
  /\ Cardinality(ids) = Min2(BatchSize, Cardinality(todo[e]))
  /\ todo' = [todo EXCEPT ![e] = @ \ ids]
  /\ EGoto(e, IF ids = todo[e] THEN "done" ELSE "add")
  /\ UNCHANGED <<campaignVars, msgs, moneyVars, providerVars, failedJobs,
                 audience, pending, workVars, agg>>

\* Mutant of AddJob: a slice one too long, so that batches overlap.
AddJobOverlap(e) ==
  \E ids \in SUBSET todo[e], m \in todo[e] :
    /\ NextBatch(e, ids)
    /\ waiting' = waiting \cup {[by |-> e, ids |-> ids \cup {m}, attempts |-> 0, stalls |-> 0]}
    /\ UNCHANGED faults

AddJob(e) ==
  \E ids \in SUBSET todo[e] :
    /\ NextBatch(e, ids)
    /\ waiting' = waiting \cup {[by |-> e, ids |-> ids, attempts |-> 0, stalls |-> 0]}
    /\ UNCHANGED faults

\* smsQueue.add fails: the error is logged and the batch has no job.
AddFails(e) ==
  \E ids \in SUBSET todo[e] : NextBatch(e, ids) /\ Fault /\ UNCHANGED waiting

\* The API or scheduler process dies in the middle of the call.
EnqueuerCrashes(e) ==
  /\ epc[e] \notin {"idle", "rejected", "done", "crashed"}
  /\ Fault
  /\ EGoto(e, "crashed")
  /\ UNCHANGED <<campaignVars, msgs, moneyVars, providerVars, queueVars,
                 audience, pending, todo, workVars, agg>>

-----------------------------------------------------------------------------
(* updateCampaignAggregates, called by p: never throws. *)

At(p, s)   == IF p \in Enqueuers THEN epc[p] = s ELSE wpc[p] = s
Goto(p, s) == IF p \in Enqueuers
              THEN epc' = [epc EXCEPT ![p] = s] /\ wpc' = wpc
              ELSE wpc' = [wpc EXCEPT ![p] = s] /\ epc' = epc
AfterAggregates(p) == IF p \in Enqueuers THEN "select" ELSE "ack"

\* The three counts of Promise.all.
CountMessages(p) ==
  /\ At(p, "count")
  /\ agg' = [agg EXCEPT ![p] = [total  |-> Cardinality(Created),
                               sent   |-> Cardinality(With("sent")),
                               failed |-> Cardinality(With("failed")),
                               queued |-> FALSE]]
  /\ Goto(p, "recount")
  /\ UNCHANGED <<campaignVars, msgs, moneyVars, providerVars, queueVars, faults,
                 audience, pending, todo, run>>

\* The count of queued messages, a query of its own.
CountQueued(p) ==
  /\ At(p, "recount")
  /\ agg' = [agg EXCEPT ![p].queued = (With("queued") # {})]
  /\ Goto(p, "store")
  /\ UNCHANGED <<campaignVars, msgs, moneyVars, providerVars, queueVars, faults,
                 audience, pending, todo, run>>

\* Mutant of StatusFrom: the last message is not waited for.
StatusFromEarly(a) ==
  IF a.total > 0 /\ a.sent + a.failed >= a.total - 1 THEN "completed" ELSE status

\* Mutant of StatusFrom: the undetermined status (null) is written all the same.
StatusFromNull(a) ==
  IF a.queued THEN "sending"
  ELSE IF a.total > 0 /\ a.sent + a.failed = a.total THEN "completed" ELSE "null"

\* The status the counts call for; none when there are no messages.
StatusFrom(a) ==
  IF a.queued THEN "sending"
  ELSE IF a.total > 0 /\ a.sent + a.failed = a.total THEN "completed"
  ELSE status

\* The counts and the status are written over whatever the row holds by now.
StoreAggregates(p) ==
  /\ At(p, "store")
  /\ counters' = [total |-> agg[p].total, sent |-> agg[p].sent, failed |-> agg[p].failed]
  /\ status' = StatusFrom(agg[p])
  /\ Goto(p, AfterAggregates(p))
  /\ agg' = [agg EXCEPT ![p] = NoAgg]
  /\ UNCHANGED <<hasText, msgs, moneyVars, providerVars, queueVars, faults,
                 audience, pending, todo, run>>

\* A query of it fails: logged, and the caller goes on.
AggregatesFail(p) ==
  /\ At(p, "count") \/ At(p, "recount") \/ At(p, "store")
  /\ Fault
  /\ Goto(p, AfterAggregates(p))
  /\ agg' = [agg EXCEPT ![p] = NoAgg]
  /\ UNCHANGED <<campaignVars, msgs, moneyVars, providerVars, queueVars,
                 audience, pending, todo, run>>

-----------------------------------------------------------------------------
(* processBatchJob, run by worker slot w *)

WGoto(w, s) == wpc' = [wpc EXCEPT ![w] = s]

\* BullMQ hands a waiting job to an idle slot, which holds the job's lock.
TakeJob(w) ==
  /\ wpc[w] = "idle"
  /\ \E j \in waiting :
       /\ waiting' = waiting \ {j}
       /\ run' = [run EXCEPT ![w] = [NoRun EXCEPT !.job = j, !.owns = TRUE]]
  /\ WGoto(w, "fetch")
  /\ UNCHANGED <<campaignVars, msgs, moneyVars, providerVars, failedJobs, faults, enqVars, agg>>

\* The idempotency check: only what is still unsent; nothing left, nothing to do.
FetchMessages(w) ==
  /\ wpc[w] = "fetch"
  /\ LET left == Unsent(run[w].job.ids)
     IN  /\ run' = [run EXCEPT ![w].batch = left]
         /\ WGoto(w, IF left = {} THEN "ack" ELSE "subscription")
  /\ UNCHANGED <<campaignVars, msgs, moneyVars, providerVars, queueVars, faults, enqVars, agg>>

\* Every message of the batch gets a result with sent = false.
AllFail(w) ==
  /\ run' = [run EXCEPT ![w].ok = {}, ![w].undebited = {}, ![w].bulk = 0,
                        ![w].unwritten = run[w].batch]
  /\ WGoto(w, "write")

CheckSubscription(w) ==
  /\ wpc[w] = "subscription"
  /\ IF subscribed THEN WGoto(w, "balance") /\ run' = run ELSE AllFail(w)
  /\ UNCHANGED <<campaignVars, msgs, moneyVars, providerVars, queueVars, faults, enqVars, agg>>

CheckBalance(w) ==
  /\ wpc[w] = "balance"
  /\ IF balance >= Cardinality(run[w].batch)
     THEN WGoto(w, "provider") /\ run' = run ELSE AllFail(w)
  /\ UNCHANGED <<campaignVars, msgs, moneyVars, providerVars, queueVars, faults, enqVars, agg>>

\* Mutant of RateLimited: the limiter is asked after the bulk call.
RateLimitedLate(w) ==
  /\ wpc[w] = "provider"
  /\ denials < MaxDenials
  /\ denials' = denials + 1
  /\ accepted' = accepted \cup {[msg |-> m, bulk |-> calls + 1] : m \in run[w].batch}
  /\ calls' = calls + 1
  /\ run' = [run EXCEPT ![w].threw = TRUE]
  /\ WGoto(w, "count")
  /\ UNCHANGED <<campaignVars, msgs, moneyVars, queueVars, faults, enqVars, agg>>

\* checkAllLimits refuses: sendBulkSMSWithCredits throws.  So does any database error
\* before the bulk call.  The catch marks queued messages queued again.
RateLimited(w) ==
  /\ wpc[w] = "provider"
  /\ denials < MaxDenials
  /\ denials' = denials + 1
  /\ run' = [run EXCEPT ![w].threw = TRUE]
  /\ WGoto(w, "count")
  /\ UNCHANGED <<campaignVars, msgs, moneyVars, accepted, calls, queueVars, faults, enqVars, agg>>

\* Mutant of SendBulk: a message without a messageId in the answer counts as sent.
SendBulkTrusting(w) ==
  /\ wpc[w] = "provider"
  /\ \E taken \in SUBSET run[w].batch :
       /\ accepted' = accepted \cup {[msg |-> m, bulk |-> calls + 1] : m \in taken}
       /\ run' = [run EXCEPT ![w].bulk = calls + 1, ![w].ok = run[w].batch,
                             ![w].undebited = run[w].batch, ![w].unwritten = run[w].batch]
  /\ calls' = calls + 1
  /\ WGoto(w, "debit")
  /\ UNCHANGED <<campaignVars, msgs, moneyVars, denials, queueVars, faults, enqVars, agg>>

\* The bulk call is answered.  ok: the messages that were prepared, and that the answer
\* gives a messageId at their index; the others were skipped or refused.
SendBulk(w) ==
  /\ wpc[w] = "provider"
  /\ \E taken \in SUBSET run[w].batch :
       /\ accepted' = accepted \cup {[msg |-> m, bulk |-> calls + 1] : m \in taken}
       /\ run' = [run EXCEPT ![w].bulk = calls + 1, ![w].ok = taken,
                             ![w].undebited = taken, ![w].unwritten = run[w].batch]
       /\ WGoto(w, IF taken = {} THEN "write" ELSE "debit")
  /\ calls' = calls + 1
  /\ UNCHANGED <<campaignVars, msgs, moneyVars, denials, queueVars, faults, enqVars, agg>>

\* The bulk call throws: an HTTP error, or a timeout after the provider took the batch.
\* Either way every message gets a failed result; nothing is thrown, nothing retried.
SendThrows(w) ==
  /\ wpc[w] = "provider"
  /\ Fault
  /\ \E taken \in SUBSET run[w].batch :
       accepted' = accepted \cup {[msg |-> m, bulk |-> calls + 1] : m \in taken}
  /\ calls' = calls + 1
  /\ AllFail(w)
  /\ UNCHANGED <<campaignVars, msgs, moneyVars, denials, queueVars, enqVars, agg>>

\* The rest of the sends are debited; then the results are written.
Debited(w, m) ==
  /\ wpc[w] = "debit"
  /\ m \in run[w].undebited
  /\ run' = [run EXCEPT ![w].undebited = @ \ {m}]
  /\ WGoto(w, IF run[w].undebited = {m} THEN "write" ELSE "debit")
  /\ UNCHANGED <<campaignVars, msgs, subscribed, providerVars, queueVars, enqVars, agg>>

\* debit(ownerId, 1) for one accepted message; INSUFFICIENT_CREDITS is logged and
\* swallowed, so that message goes unpaid.
DebitOne(w) ==
  \E m \in run[w].undebited :
    /\ Debited(w, m)
    /\ IF balance > 0
       THEN /\ balance' = balance - 1
            /\ debits' = debits \cup {[msg |-> m, bulk |-> run[w].bulk]}
       ELSE UNCHANGED <<balance, debits>>
    /\ UNCHANGED faults

\* Mutant of DebitFails: the failed transaction leaves the balance written.
DebitTorn(w) ==
  \E m \in run[w].undebited :
    Debited(w, m) /\ Fault /\ balance > 0 /\ balance' = balance - 1 /\ debits' = debits

\* The debit's transaction fails: swallowed as well.
DebitFails(w) ==
  \E m \in run[w].undebited : Debited(w, m) /\ Fault /\ UNCHANGED <<balance, debits>>

\* Mutant of ResultOf: every result is stored as sent.
ResultAllSent(w, m) == [status |-> "sent", bulk |-> run[w].bulk]

\* The row a result leaves: a failed result does not touch providerMessageId.
ResultOf(w, m) ==
  IF m \in run[w].ok THEN [status |-> "sent", bulk |-> run[w].bulk]
  ELSE [msgs[m] EXCEPT !.status = "failed"]

\* Prisma rejects an update that names a column the model does not have.
WritesAccepted == ResultColumns \subseteq MessageColumns

\* One of the updates of Promise.all, by id and without a condition on the row.
WriteResult(w) ==
  /\ wpc[w] = "write"
  /\ WritesAccepted
  /\ \E m \in run[w].unwritten :
       /\ msgs' = [msgs EXCEPT ![m] = ResultOf(w, m)]
       /\ run' = [run EXCEPT ![w].unwritten = @ \ {m}]
       /\ WGoto(w, IF run[w].unwritten = {m} THEN "count" ELSE "write")
  /\ UNCHANGED <<campaignVars, moneyVars, providerVars, queueVars, faults, enqVars, agg>>

\* The catch of processBatchJob: an error of Prisma has no HTTP status, so isRetryable
\* holds, and the updateMany leaves queued messages queued.
CatchRetryable(w) ==
  /\ run' = [run EXCEPT ![w].threw = TRUE, ![w].unwritten = {}]
  /\ WGoto(w, "count")
  /\ UNCHANGED <<campaignVars, moneyVars, providerVars, queueVars, enqVars, agg>>

\* Every update names a column the table does not have: none lands.
WritesRefused(w) ==
  /\ wpc[w] = "write"
  /\ ~WritesAccepted
  /\ CatchRetryable(w)
  /\ UNCHANGED <<msgs, faults>>

\* One update fails and Promise.all rejects: some of the others land, some do not.
WriteFails(w) ==
  /\ wpc[w] = "write"
  /\ WritesAccepted
  /\ Fault
  /\ \E landed \in SUBSET run[w].unwritten :
       /\ landed # run[w].unwritten
       /\ msgs' = [m \in Messages |-> IF m \in landed THEN ResultOf(w, m) ELSE msgs[m]]
  /\ CatchRetryable(w)

\* BullMQ puts a job back, counting the attempt or the stall, or gives it up.
PutBack(j, again) ==
  IF again THEN waiting' = waiting \cup {j} /\ failedJobs' = failedJobs
  ELSE failedJobs' = failedJobs \cup {j} /\ waiting' = waiting

EndRun(w) == WGoto(w, "idle") /\ run' = [run EXCEPT ![w] = NoRun]

\* processBatchJob returns: the job is complete.
JobDone(w) ==
  /\ wpc[w] = "ack"
  /\ ~run[w].threw
  /\ EndRun(w)
  /\ UNCHANGED <<campaignVars, msgs, moneyVars, providerVars, queueVars, faults, enqVars, agg>>

\* Mutant of JobThrew: the attempt is not counted.
JobThrewUncounted(w) ==
  /\ wpc[w] = "ack"
  /\ run[w].threw
  /\ waiting' = waiting \cup {run[w].job}
  /\ EndRun(w)
  /\ UNCHANGED <<campaignVars, msgs, moneyVars, providerVars, failedJobs, faults, enqVars, agg>>

\* Mutant of JobThrew: the catch does not rethrow, so the job counts as complete.
JobThrewSwallowed(w) ==
  /\ wpc[w] = "ack"
  /\ run[w].threw
  /\ EndRun(w)
  /\ UNCHANGED <<campaignVars, msgs, moneyVars, providerVars, queueVars, faults, enqVars, agg>>

\* processBatchJob rethrows: retried with backoff while attempts are left.
JobThrew(w) ==
  /\ wpc[w] = "ack"
  /\ run[w].threw
  /\ LET j == [run[w].job EXCEPT !.attempts = @ + 1]
     IN  IF run[w].owns THEN PutBack(j, j.attempts < MaxAttempts)
         ELSE UNCHANGED queueVars
  /\ EndRun(w)
  /\ UNCHANGED <<campaignVars, msgs, moneyVars, providerVars, faults, enqVars, agg>>

\* The lock of the job is not renewed in time: BullMQ takes the job for stalled.
Stall(w) ==
  LET j == [run[w].job EXCEPT !.stalls = @ + 1]
  IN  PutBack(j, j.stalls <= MaxStalls)

\* The worker process dies in the middle of a job it holds.
WorkerCrashes(w) ==
  /\ wpc[w] # "idle"
  /\ Fault
  /\ IF run[w].owns THEN Stall(w) ELSE UNCHANGED queueVars
  /\ EndRun(w)
  /\ agg' = [agg EXCEPT ![w] = NoAgg]
  /\ UNCHANGED <<campaignVars, msgs, moneyVars, providerVars, enqVars>>

\* The worker lives on, unaware that its job has been handed out again.
LockLost(w) ==
  /\ wpc[w] # "idle"
  /\ run[w].owns
  /\ Fault
  /\ Stall(w)
  /\ run' = [run EXCEPT ![w].owns = FALSE]
  /\ UNCHANGED <<campaignVars, msgs, moneyVars, providerVars, wpc, enqVars, agg>>

-----------------------------------------------------------------------------
\* Stripe activates or cancels the subscription at any time.  A failed read of it counts
\* as inactive, which is this change and the one back.
SubscriptionChanges ==
  /\ subscribed' = ~subscribed
  /\ UNCHANGED <<campaignVars, msgs, balance, debits, providerVars, queueVars, faults,
                 enqVars, workVars, agg>>

\* POST /campaigns/:id/unschedule, which looks at no status.
Reopen ==
  /\ CanReopen
  /\ status # "draft"
  /\ status' = "draft"
  /\ UNCHANGED <<counters, hasText, msgs, moneyVars, providerVars, queueVars, faults,
                 enqVars, workVars, agg>>

AggregatesStep(p) == CountMessages(p) \/ CountQueued(p) \/ StoreAggregates(p)

\* What a call of enqueueCampaign does on its own once it has started.
EnqueuerStep(e) ==
  \/ BuildAudience(e) \/ NoRecipients(e) \/ CheckCredits(e) \/ Claim(e) \/ NoText(e)
  \/ InsertMessages(e) \/ AggregatesStep(e) \/ SelectQueued(e) \/ AddJob(e)

\* What a worker slot does on its own.
WorkerStep(w) ==
  \/ TakeJob(w) \/ FetchMessages(w) \/ CheckSubscription(w) \/ CheckBalance(w)
  \/ RateLimited(w) \/ SendBulk(w) \/ DebitOne(w) \/ WriteResult(w)
  \/ WritesRefused(w) \/ AggregatesStep(w) \/ JobDone(w) \/ JobThrew(w)

EnqueuerFault(e) == InsertFails(e) \/ AddFails(e) \/ AggregatesFail(e) \/ EnqueuerCrashes(e)

WorkerFault(w) ==
  \/ SendThrows(w) \/ DebitFails(w) \/ WriteFails(w)
  \/ AggregatesFail(w) \/ WorkerCrashes(w) \/ LockLost(w)

Next ==
  \/ \E e \in Enqueuers : ReadCampaign(e) \/ EnqueuerStep(e) \/ EnqueuerFault(e)
  \/ \E w \in Workers : WorkerStep(w) \/ WorkerFault(w)
  \/ SubscriptionChanges
  \/ Reopen

Spec == Init /\ [][Next]_vars

\* A call that has started is run on by its event loop, and an idle worker takes jobs;
\* users, Stripe and faults owe nothing.
Fairness ==
  /\ \A e \in Enqueuers : WF_vars(EnqueuerStep(e))
  /\ \A w \in Workers : WF_vars(WorkerStep(w))

FairSpec == Spec /\ Fairness

-----------------------------------------------------------------------------
\* Every variable has its type: the status stays one of the enum's, and no send or debit
\* is for a message that was never created.
TypeOK ==
  /\ status \in Statuses
  /\ counters \in [total : Nat, sent : Nat, failed : Nat]
  /\ hasText \in BOOLEAN
  /\ msgs \in [Messages -> Row]
  /\ subscribed \in BOOLEAN /\ balance \in Nat
  /\ debits \subseteq Sms /\ accepted \subseteq Sms
  /\ calls \in Nat /\ faults \in Nat /\ denials \in Nat
  /\ waiting \subseteq Job /\ failedJobs \subseteq Job
  /\ epc \in [Enqueuers -> EnqueuerPoints]
  /\ audience \in [Enqueuers -> SUBSET Contacts]
  /\ pending \in [Enqueuers -> SUBSET Contacts]
  /\ todo \in [Enqueuers -> SUBSET Messages]
  /\ wpc \in [Workers -> WorkerPoints]
  /\ run \in [Workers -> Run]
  /\ agg \in [Enqueuers \cup Workers -> Counts]

\* A credit is debited only for an SMS the provider has accepted, and for each accepted
\* SMS at most once, whatever crashes, stalls and retries do (smsBulk.service.js:206-276).
DebitsBacked == debits \subseteq accepted

\* The balance and the debit rows account for every credit the owner had.
CreditsConserved == balance + Cardinality(debits) = InitBalance

\* However many callers enqueue the campaign at once, a contact gets one message: the
\* conditional update of campaignEnqueue.service.js:127-145 lets one of them through.
OneMessagePerContact ==
  \A m, n \in Created : m[2] = n[2] => m = n

\* Retries and stalls send a message again at most once per run of its job: no sequence
\* of faults makes it loop.
Sends(m) == Cardinality({a \in accepted : a.msg = m})
BoundedResends == \A m \in Messages : Sends(m) <= MaxAttempts + MaxStalls

\* The provider accepts a message once: "retries don't cause duplicate sends".
NoDoubleSend == \A m \in Messages : Sends(m) <= 1

\* A message is shown as sent only with the provider id of an SMS the provider accepted
\* for that very message.
SentHasReceipt ==
  \A m \in With("sent") : [msg |-> m, bulk |-> msgs[m].bulk] \in accepted

\* A campaign shown as completed has no message left to send, although the counts it was
\* completed on were read earlier.
CompletedHasNoneQueued == status = "completed" => With("queued") = {}

\* A message's outcome is final once it is written.
OutcomeIsFinal ==
  [][\A m \in Messages :
       msgs[m].status \in {"sent", "failed"} => msgs'[m].status = msgs[m].status]_vars

\* Without faults, every message that was created is sent or failed in the end.
EveryMessageSettles ==
  \A m \in Messages : msgs[m].status = "queued" ~> msgs[m].status \in {"sent", "failed"}
=============================================================================
