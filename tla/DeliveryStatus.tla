---------------------------- MODULE DeliveryStatus ----------------------------
(***************************************************************************)
(* What became of the messages of one campaign, after the provider has     *)
(* accepted them.  Four writers of CampaignMessage.status interleave:      *)
(*   - the SMS worker, which records the provider's id (sms.worker.js);    *)
(*   - delivery reports, POST /webhooks/mitto/dlr (mitto.webhooks.js);     *)
(*   - refreshes that ask the provider: the periodic job and a campaign's  *)
(*     refresh (statusRefresh.service.js);                                 *)
(*   - refreshMessageStatus (mitto.service.js), for one message or many.   *)
(* Each ends with updateCampaignAggregates (campaignAggregates.service.js).*)
(***************************************************************************)
EXTENDS Naturals, FiniteSets, FiniteSetsExt

CONSTANTS N,             \* messages of the campaign, numbered from the oldest
          Limit,         \* messages of one periodic refresh
          Requests,      \* requests that run beside the periodic job and the SMS worker
          MaxActive,     \* bound: processes in progress at one time
          BodySize,      \* bound: reports in one body
          Outcomes,      \* what finally becomes of a message, as the provider calls it
          MaxFaults,     \* bound: lost reports, failed calls and dying processes
          HasUpdatedAt   \* the table has the column updatedAt

\* What is asked of the constants; the modules that instantiate this one assume it.
DeliveryAssumption ==
  /\ N \in Nat /\ Limit \in Nat \ {0} /\ BodySize \in Nat \ {0}
  /\ Outcomes \subseteq {"Delivered", "Failure", "Expired"}
  /\ MaxActive \in Nat /\ MaxFaults \in Nat /\ HasUpdatedAt \in BOOLEAN

VARIABLES sms,       \* the provider's status of each message
          reports,   \* reports under way
          row,       \* CampaignMessage: status, and whether the provider's id is stored
          campaign,  \* Campaign: sent, failed and status
          proc,      \* what each process is doing
          faults

vars == <<sms, reports, row, campaign, proc, faults>>

Messages  == 1..N
Processes == Requests \cup {"job", "worker"}
Statuses  == {"queued", "sent", "failed"}

NoTally == [sent |-> 0, failed |-> 0, status |-> "sending"]
Idle == [at |-> "idle", kind |-> "none", todo |-> {}, read |-> {}, writes |-> {},
         touched |-> FALSE, tally |-> NoTally]

Init ==
  /\ sms = [m \in Messages |-> "none"]
  /\ reports = {}
  /\ row = [m \in Messages |-> [status |-> "queued", id |-> FALSE]]
  /\ campaign = NoTally
  /\ proc = [p \in Processes |-> Idle]
  /\ faults = 0

Fault == faults < MaxFaults /\ faults' = faults + 1
Go(p, r) == proc' = [proc EXCEPT ![p] = r]
Begin(p, r) ==
  /\ proc[p] = Idle /\ Cardinality({q \in Processes : proc[q] # Idle}) < MaxActive
  /\ Go(p, r)

-----------------------------------------------------------------------------
(* The provider: it accepts a message, settles it, and reports both. *)

Report(m, s) == [msg |-> m, value |-> s]

Accept(m) ==
  /\ sms[m] = "none"
  /\ sms' = [sms EXCEPT ![m] = "Sent"]
  /\ reports' = reports \cup {Report(m, "Sent")}
  /\ UNCHANGED <<row, campaign, proc, faults>>

Settle(m, outcome) ==
  /\ sms[m] = "Sent"
  /\ sms' = [sms EXCEPT ![m] = outcome]
  /\ reports' = reports \cup {Report(m, outcome)}
  /\ UNCHANGED <<row, campaign, proc, faults>>

LoseReport(r) ==
  /\ Fault
  /\ reports' = reports \ {r}
  /\ UNCHANGED <<sms, row, campaign, proc>>

-----------------------------------------------------------------------------
(* updateCampaignAggregates: counts, then a count of the queued rows, then a write. *)

Count(s) == Cardinality({m \in Messages : row[m].status = s})

CountMessages(p) ==
  /\ proc[p].at = "count"
  /\ Go(p, [proc[p] EXCEPT !.at = "recount",
                           !.tally = [@ EXCEPT !.sent = Count("sent"), !.failed = Count("failed")]])
  /\ UNCHANGED <<sms, reports, row, campaign, faults>>

\* The status to write; "keep" when the two counts disagree.
CountQueued(p) ==
  LET t == proc[p].tally
      status == IF Count("queued") > 0 THEN "sending"
                ELSE IF N > 0 /\ t.sent + t.failed = N THEN "completed" ELSE "keep"
  IN /\ proc[p].at = "recount"
     /\ Go(p, [proc[p] EXCEPT !.at = "store", !.tally.status = status])
     /\ UNCHANGED <<sms, reports, row, campaign, faults>>

\* What a process goes on with: refreshMessageStatus may have messages left.
NextMessage(todo) ==
  IF todo = {} THEN Idle ELSE [Idle EXCEPT !.at = "messages", !.kind = "message", !.todo = todo]

StoreCounts(p) ==
  LET t == proc[p].tally
  IN /\ proc[p].at = "store"
     /\ campaign' = [t EXCEPT !.status = IF @ = "keep" THEN campaign.status ELSE @]
     /\ Go(p, NextMessage(proc[p].todo))
     /\ UNCHANGED <<sms, reports, row, faults>>

-----------------------------------------------------------------------------
(* The SMS worker stores the provider's answer; CampaignSend models how it gets there,   *)
(* and what it does when the update is refused.                                           *)

RecordResult(m) ==
  /\ sms[m] # "none" /\ ~row[m].id /\ HasUpdatedAt
  /\ Begin("worker", [Idle EXCEPT !.at = "count", !.kind = "worker"])
  /\ row' = [row EXCEPT ![m] = [status |-> "sent", id |-> TRUE]]
  /\ UNCHANGED <<sms, reports, campaign, faults>>

-----------------------------------------------------------------------------
(* POST /webhooks/mitto/dlr: one report of the body after the other.       *)

\* mapStatus; the provider's other spellings are left out.
MapStatus(s) == IF s \in {"Failure", "Expired"} THEN "failed" ELSE "sent"

ReceiveReports(p, body) ==
  /\ Begin(p, [Idle EXCEPT !.at = "reports", !.kind = "dlr", !.todo = body])
  /\ reports' = reports \ body
  /\ UNCHANGED <<sms, row, campaign, faults>>

\* findMany by the provider's id: without a row of that id the report is dropped.
FindReported(p, r) ==
  /\ proc[p].at = "reports"
  /\ Go(p, IF row[r.msg].id
           THEN [proc[p] EXCEPT !.at = "apply", !.todo = @ \ {r},
                                !.writes = {<<r.msg, MapStatus(r.value)>>}]
           ELSE [proc[p] EXCEPT !.todo = @ \ {r}])
  /\ UNCHANGED <<sms, reports, row, campaign, faults>>

\* Mutant of ApplyReport: the campaign of a failed message is not remembered.
ApplyReportUntouched(p, m, s) ==
  /\ proc[p].at = "apply"
  /\ row' = [row EXCEPT ![m].status = s]
  /\ Go(p, [proc[p] EXCEPT !.at = "reports", !.writes = {}, !.touched = @ \/ s = "sent"])
  /\ UNCHANGED <<sms, reports, campaign, faults>>

\* updateMany by the provider's id, whatever the row says by now; an unknown column is
\* an error, which is logged.
ApplyReport(p, m, s) ==
  /\ proc[p].at = "apply"
  /\ row' = IF HasUpdatedAt THEN [row EXCEPT ![m].status = s] ELSE row
  /\ Go(p, [proc[p] EXCEPT !.at = "reports", !.writes = {}, !.touched = @ \/ HasUpdatedAt])
  /\ UNCHANGED <<sms, reports, campaign, faults>>

\* An error while a report is found or applied: it is logged and the next one follows.
ReportFails(p) ==
  /\ proc[p].at = "apply"
  /\ Fault
  /\ Go(p, [proc[p] EXCEPT !.at = "reports", !.writes = {}])
  /\ UNCHANGED <<sms, reports, row, campaign>>

\* The answer is 202 in every case; the campaign is counted after it.
AnswerReports(p) ==
  /\ proc[p].at = "reports" /\ proc[p].todo = {}
  /\ Go(p, IF proc[p].touched THEN [Idle EXCEPT !.at = "count", !.kind = "dlr"] ELSE Idle)
  /\ UNCHANGED <<sms, reports, row, campaign, faults>>

-----------------------------------------------------------------------------
(* refreshPendingStatuses and refreshCampaignStatuses. *)

Refreshable == {m \in Messages : row[m].id /\ row[m].status \in {"queued", "sent"}}
Oldest(S) == {m \in S : Cardinality({k \in S : k < m}) < Limit}

\* mapMittoStatus: what it does not know counts as sent.
MapMittoStatus(s) == IF s = "Failure" THEN "failed" ELSE "sent"

Refresh(p, kind, S) ==
  /\ S # {}
  /\ Begin(p, [Idle EXCEPT !.at = "ask", !.kind = kind, !.todo = S,
                           !.read = {<<m, row[m].status>> : m \in S}])
  /\ UNCHANGED <<sms, reports, row, campaign, faults>>

RefreshPending == Refresh("job", "pending", Oldest(Refreshable))
RefreshCampaign(p) == Refresh(p, "campaign", Refreshable)

\* Mutant of AskProvider: the answer is forgotten whenever it is a failure.
AskProviderSentOnly(p) ==
  LET m == Min(proc[p].todo)
  IN /\ proc[p].at = "ask" /\ proc[p].todo # {}
     /\ Go(p, [proc[p] EXCEPT !.todo = @ \ {m}])
     /\ UNCHANGED <<sms, reports, row, campaign, faults>>

\* getMessageStatus; the answer is kept only when it differs from the status read.
AskProvider(p) ==
  LET m == Min(proc[p].todo)
      new == <<m, MapMittoStatus(sms[m])>>
  IN /\ proc[p].at = "ask" /\ proc[p].todo # {}
     /\ Go(p, [proc[p] EXCEPT !.todo = @ \ {m},
                              !.writes = IF new \in proc[p].read THEN @ ELSE @ \cup {new}])
     /\ UNCHANGED <<sms, reports, row, campaign, faults>>

\* The provider does not answer for a message: the loop goes on without it.
AskFails(p) ==
  /\ proc[p].at \in {"ask", "messages"} /\ proc[p].todo # {}
  /\ Fault
  /\ LET rest == proc[p].todo \ {Min(proc[p].todo)}
     IN Go(p, IF proc[p].at = "ask" THEN [proc[p] EXCEPT !.todo = rest] ELSE NextMessage(rest))
  /\ UNCHANGED <<sms, reports, row, campaign>>

\* The updates run side by side; the periodic job counts only a campaign it changed.
AllAsked(p) ==
  /\ proc[p].at = "ask" /\ proc[p].todo = {}
  /\ Go(p, IF proc[p].writes # {} THEN [proc[p] EXCEPT !.at = "update"]
           ELSE IF proc[p].kind = "campaign"
                THEN [Idle EXCEPT !.at = "count", !.kind = "campaign"] ELSE Idle)
  /\ UNCHANGED <<sms, reports, row, campaign, faults>>

\* One update by the row's key; the last one goes on to the campaign.  A refused update
\* ends the refresh before the campaign is counted.
UpdateRow(p, w) ==
  /\ proc[p].at = "update"
  /\ row' = IF HasUpdatedAt THEN [row EXCEPT ![w[1]].status = w[2]] ELSE row
  /\ Go(p, IF ~HasUpdatedAt THEN Idle
           ELSE IF proc[p].writes = {w} THEN [Idle EXCEPT !.at = "count", !.kind = proc[p].kind]
           ELSE [proc[p] EXCEPT !.writes = @ \ {w}])
  /\ UNCHANGED <<sms, reports, campaign, faults>>

-----------------------------------------------------------------------------
(* refreshMessageStatus: any message with an id, also one that has failed. *)

RefreshMessages(p, S) ==
  /\ S # {}
  /\ Begin(p, [Idle EXCEPT !.at = "messages", !.kind = "message", !.todo = S])
  /\ UNCHANGED <<sms, reports, row, campaign, faults>>

AskForMessage(p) ==
  LET m == Min(proc[p].todo)
  IN /\ proc[p].at = "messages" /\ proc[p].todo # {}
     /\ Go(p, [proc[p] EXCEPT !.at = "overwrite", !.writes = {<<m, MapMittoStatus(sms[m])>>}])
     /\ UNCHANGED <<sms, reports, row, campaign, faults>>

\* The row is written whatever it says, and counted, before the next message of
\* refresh-status-bulk; a refused update is caught there.
OverwriteRow(p, m, s) ==
  /\ proc[p].at = "overwrite"
  /\ row' = IF HasUpdatedAt THEN [row EXCEPT ![m].status = s] ELSE row
  /\ Go(p, IF HasUpdatedAt THEN [proc[p] EXCEPT !.at = "count", !.writes = {}, !.todo = @ \ {m}]
           ELSE NextMessage(proc[p].todo \ {m}))
  /\ UNCHANGED <<sms, reports, campaign, faults>>

-----------------------------------------------------------------------------
\* A process dies between two steps.
Dies(p) ==
  /\ proc[p] # Idle
  /\ Fault
  /\ Go(p, Idle)
  /\ UNCHANGED <<sms, reports, row, campaign>>

ProviderStep ==
  \/ \E m \in Messages : Accept(m) \/ \E o \in Outcomes : Settle(m, o)
  \/ \E r \in reports : LoseReport(r)

RequestBegins(p) ==
  \/ \E body \in SUBSET reports : /\ Cardinality(body) \in 1..BodySize
                                  /\ ReceiveReports(p, body)
  \/ RefreshCampaign(p)
  \/ \E S \in SUBSET {m \in Messages : row[m].id} : RefreshMessages(p, S)

\* What a process that has begun does next, unless something fails.
Continue(p) ==
  \/ CountMessages(p) \/ CountQueued(p) \/ StoreCounts(p)
  \/ \E r \in proc[p].todo : FindReported(p, r)
  \/ \E w \in proc[p].writes : ApplyReport(p, w[1], w[2]) \/ UpdateRow(p, w)
                               \/ OverwriteRow(p, w[1], w[2])
  \/ AnswerReports(p)
  \/ AskProvider(p) \/ AllAsked(p)
  \/ AskForMessage(p)

ProcessFails(p) == ReportFails(p) \/ AskFails(p) \/ Dies(p)

Next ==
  \/ ProviderStep
  \/ RefreshPending
  \/ \E m \in Messages : RecordResult(m)
  \/ \E p \in Requests : RequestBegins(p)
  \/ \E p \in Processes : Continue(p) \/ ProcessFails(p)

Spec == Init /\ [][Next]_vars

\* The job is repeated for ever (server.js), BullMQ runs the worker's job again until it is
\* done, and every process goes on while it can; no fairness for the provider, the reports,
\* the requests or the failures.
FairSpec ==
  /\ Spec
  /\ WF_vars(RefreshPending) /\ \A m \in Messages : WF_vars(RecordResult(m))
  /\ \A p \in Processes : WF_vars(Continue(p))

-----------------------------------------------------------------------------
(* Properties *)

\* Only rows and processes that the handlers can leave behind.
TypeOK ==
  /\ sms \in [Messages -> {"none", "Sent"} \cup Outcomes]
  /\ \A r \in reports : sms[r.msg] \notin {"none"}
  /\ row \in [Messages -> [status : Statuses, id : BOOLEAN]]
  /\ campaign \in [sent : 0..N, failed : 0..N, status : {"sending", "completed"}]
  /\ \A p \in Processes : proc[p].writes # {} => proc[p].at \in {"apply", "ask", "update", "overwrite"}
  /\ faults \in 0..MaxFaults

\* A message counts as failed only when the provider has given it up: no order of reports
\* and refreshes, however stale, turns a message that is on its way, or delivered, into
\* a failed one (all writers of the row).
FailedWasReported ==
  \A m \in Messages : row[m].id /\ row[m].status = "failed" => sms[m] \in {"Failure", "Expired"}

\* When nothing is in progress, the campaign's counters and its status say what its
\* messages say (updateCampaignAggregates, called by every writer).
CountersAgree ==
  (\A p \in Processes : proc[p] = Idle) =>
     /\ campaign.sent = Count("sent") /\ campaign.failed = Count("failed")
     /\ campaign.status = "completed" <=> Count("queued") = 0

\* The periodic refresh makes up for reports that are lost, early, late or overtaken: once
\* the provider has settled a message, its row comes to say so for good
\* (refreshPendingStatuses).
OutcomeArrives ==
  \A m \in Messages :
    /\ sms[m] = "Failure" ~> [](row[m].status = "failed")
    /\ sms[m] = "Delivered" ~> [](row[m].status = "sent")
=============================================================================
