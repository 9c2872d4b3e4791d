-------------------------- MODULE CampaignSchedule --------------------------
(***************************************************************************)
(* When a campaign is sent: the requests of routes/campaigns.js that       *)
(* create, schedule, edit, unschedule and enqueue it, its one delayed job  *)
(* in schedulerQueue (BullMQ, external), and scheduler.worker.js, which    *)
(* runs that job.  The row and the job live in two stores and are written  *)
(* by separate awaits, so each await ends a step.                          *)
(* enqueueCampaign is CampaignSend's subject; here it is its status check, *)
(* its conditional claim and its outcome.                                  *)
(***************************************************************************)
EXTENDS Integers

CONSTANTS
  Clients,      \* HTTP requests the API serves at the same time
  Horizon,      \* bound: the last moment
  MaxRequests,  \* bound: requests after the campaign is created
  MaxFaults     \* bound: crashes of the API or the worker, and Redis errors

ASSUME ScheduleAssumption ==
  /\ Horizon \in Nat /\ MaxRequests \in Nat /\ MaxFaults \in Nat
  /\ "scheduler" \notin Clients

VARIABLES
  now,          \* the time
  status,       \* Campaign.status; "none" before the campaign is created
  scheduledAt,  \* Campaign.scheduledAt, Never for null
  timer,        \* the job campaign:schedule:<id>: its state, when it is due, its stalls
  pc,           \* where each request, and the scheduler's job, is
  req,          \* what each request is, its time, and the status it has read
  requests,     \* requests so far
  faults        \* faults so far

rowVars == <<status, scheduledAt>>
vars    == <<now, rowVars, timer, pc, req, requests, faults>>

-----------------------------------------------------------------------------
Procs      == Clients \cup {"scheduler"}
Times      == 0..Horizon
Never      == 0 - 1
Statuses   == {"draft", "scheduled", "sending", "completed", "failed"}
Enqueuable == {"draft", "scheduled", "paused"}
Editable   == {"draft", "scheduled"}
Kinds      == {"create", "schedule", "put", "unschedule", "enqueue"}
Points     == {"idle", "update", "readback", "remove", "arm", "check", "enqueue", "claimed"}
Request    == [kind : Kinds, at : Times \cup {Never}, was : Statuses \cup {"none"}]

NoTimer    == [state |-> "none", due |-> Never, stalls |-> 0]
Future     == {t \in Times : t > now}
Goto(p, s) == pc' = [pc EXCEPT ![p] = s]
Fault      == faults < MaxFaults /\ faults' = faults + 1

Init ==
  /\ now = 0
  /\ status = "none" /\ scheduledAt = Never
  /\ timer = NoTimer
  /\ pc = [p \in Procs |-> "idle"]
  /\ req = [c \in Clients |-> [kind |-> "create", at |-> Never, was |-> "none"]]
  /\ requests = 0 /\ faults = 0

Tick ==
  /\ now < Horizon
  /\ now' = now + 1
  /\ UNCHANGED <<rowVars, timer, pc, req, requests, faults>>

-----------------------------------------------------------------------------
(* The requests *)

\* POST /campaigns: the row and, when it is scheduled, its job.
Create(c) ==
  /\ pc[c] = "idle" /\ status = "none"
  /\ \E at \in Future \cup {Never} :
       /\ scheduledAt' = at
       /\ status' = IF at = Never THEN "draft" ELSE "scheduled"
       /\ req' = [req EXCEPT ![c] = [kind |-> "create", at |-> at, was |-> "none"]]
       /\ Goto(c, IF at = Never THEN "idle" ELSE "arm")
  /\ UNCHANGED <<now, timer, requests, faults>>

\* A request for the campaign passes its validation, reads the row, and goes on to s.
Receive(c, kind, at, s) ==
  /\ pc[c] = "idle" /\ status # "none"
  /\ requests < MaxRequests
  /\ requests' = requests + 1
  /\ req' = [req EXCEPT ![c] = [kind |-> kind, at |-> at, was |-> status]]
  /\ Goto(c, s)
  /\ UNCHANGED <<now, rowVars, timer, faults>>

\* POST /campaigns/:id/schedule looks at the time, at no status.
ScheduleRequest(c) == \E at \in Future : Receive(c, "schedule", at, "update")

\* PUT /campaigns/:id looks at the status, which it reads well before it writes.
\* (Edits that leave the schedule alone touch nothing this module describes.)
PutRequest(c) ==
  \E at \in Future \cup {Never} : status \in Editable /\ Receive(c, "put", at, "update")

UnscheduleRequest(c) == Receive(c, "unschedule", Never, "update")

EnqueueRequest(c) == Receive(c, "enqueue", Never, "check")

\* Mutant of StatusWritten: a status that the enum does not have.
StatusWrittenBad(r) == IF r.at # Never THEN "scheduled" ELSE "unscheduled"

\* The status a request leaves in the row; a PUT goes by the status it has read.
StatusWritten(r) ==
  IF r.at # Never THEN "scheduled"
  ELSE IF r.kind = "unschedule" \/ r.was = "scheduled" THEN "draft" ELSE status

\* updateMany by id and owner, whatever the status is by now.
UpdateRow(c) ==
  /\ pc[c] = "update"
  /\ scheduledAt' = req[c].at
  /\ status' = StatusWritten(req[c])
  /\ Goto(c, IF req[c].kind = "unschedule" THEN "remove" ELSE "readback")
  /\ UNCHANGED <<now, timer, req, requests, faults>>

\* Mutant of ReadBack: a PUT arms its job without removing the old one.
ReadBackNoRemove(c) ==
  /\ pc[c] = "readback"
  /\ req' = [req EXCEPT ![c].at = scheduledAt]
  /\ Goto(c, IF scheduledAt # Never THEN "arm" ELSE "idle")
  /\ UNCHANGED <<now, rowVars, timer, requests, faults>>

\* The row is fetched again, and its time is the one the job gets.
ReadBack(c) ==
  /\ pc[c] = "readback"
  /\ req' = [req EXCEPT ![c].at = scheduledAt]
  /\ Goto(c, IF req[c].kind = "put" THEN "remove"
             ELSE IF scheduledAt # Never THEN "arm" ELSE "idle")
  /\ UNCHANGED <<now, rowVars, timer, requests, faults>>

\* schedulerQueue.remove: an active job is locked and stays; the error is ignored.
RemoveTimer(c) ==
  /\ pc[c] = "remove"
  /\ timer' = IF timer.state = "active" THEN timer ELSE NoTimer
  /\ Goto(c, IF req[c].at # Never THEN "arm" ELSE "idle")
  /\ UNCHANGED <<now, rowVars, req, requests, faults>>

\* Mutant of ArmTimer: a failed job of that id is replaced.
ArmTimerReplacing(c) ==
  /\ pc[c] = "arm"
  /\ req[c].at > now
  /\ timer' = IF timer.state \in {"none", "failed"}
              THEN [state |-> "delayed", due |-> req[c].at, stalls |-> 0] ELSE timer
  /\ Goto(c, "idle")
  /\ UNCHANGED <<now, rowVars, req, requests, faults>>

\* schedulerQueue.add: a job of that id that exists, failed ones included, is left as it is.
ArmTimer(c) ==
  /\ pc[c] = "arm"
  /\ req[c].at > now
  /\ timer' = IF timer.state = "none"
              THEN [state |-> "delayed", due |-> req[c].at, stalls |-> 0] ELSE timer
  /\ Goto(c, "idle")
  /\ UNCHANGED <<now, rowVars, req, requests, faults>>

\* The time has passed meanwhile: the request enqueues the campaign itself.
PastDue(c) ==
  /\ pc[c] = "arm"
  /\ req[c].at <= now
  /\ Goto(c, "check")
  /\ UNCHANGED <<now, rowVars, timer, req, requests, faults>>

\* The API process dies, or Redis refuses the job: the rest of the request is lost.
RequestFails(c) ==
  /\ pc[c] # "idle"
  /\ Fault
  /\ Goto(c, "idle")
  /\ UNCHANGED <<now, rowVars, timer, req, requests>>

-----------------------------------------------------------------------------
(* The scheduler worker and enqueueCampaign, which a request may call as well *)

\* BullMQ hands out the job once it is due.
TakeTimer ==
  /\ pc["scheduler"] = "idle"
  /\ timer.state = "delayed" /\ timer.due <= now
  /\ timer' = [timer EXCEPT !.state = "active"]
  /\ Goto("scheduler", "check")
  /\ UNCHANGED <<now, rowVars, req, requests, faults>>

\* Mutant of Finish: a failed job is retried without end.
FinishRetried(p, ok) ==
  /\ Goto(p, "idle")
  /\ timer' = IF p # "scheduler" THEN timer
              ELSE IF ok THEN NoTimer ELSE [timer EXCEPT !.state = "delayed"]

\* enqueueCampaign ends.  The job of a call that succeeded is removed; that of one that
\* did not is kept as failed, after its only attempt (removeOnFail is false).
Finish(p, ok) ==
  /\ Goto(p, "idle")
  /\ timer' = IF p # "scheduler" THEN timer
              ELSE IF ok THEN NoTimer ELSE [timer EXCEPT !.state = "failed"]

CheckStatus(p) ==
  /\ pc[p] = "check"
  /\ IF status \in Enqueuable THEN Goto(p, "enqueue") /\ timer' = timer ELSE Finish(p, FALSE)
  /\ UNCHANGED <<now, rowVars, req, requests, faults>>

\* No recipients (the campaign fails), no active subscription, or no credits.
Refuse(p) ==
  /\ pc[p] = "enqueue"
  /\ status' \in {status, "failed"}
  /\ Finish(p, FALSE)
  /\ UNCHANGED <<now, scheduledAt, req, requests, faults>>

Claim(p) ==
  /\ pc[p] = "enqueue"
  /\ IF status \in Enqueuable
     THEN status' = "sending" /\ Goto(p, "claimed") /\ timer' = timer
     ELSE status' = status /\ Finish(p, FALSE)
  /\ UNCHANGED <<now, scheduledAt, req, requests, faults>>

\* The messages are inserted and queued; or there is no text, or the insert fails.
Deliver(p) ==
  /\ pc[p] = "claimed"
  /\ \/ status' = status /\ Finish(p, TRUE)
     \/ status' \in {"failed", "draft"} /\ Finish(p, FALSE)
  /\ UNCHANGED <<now, scheduledAt, req, requests, faults>>

\* The worker process dies: its job stalls, and is handed out once more.
SchedulerCrashes ==
  /\ pc["scheduler"] # "idle"
  /\ Fault
  /\ Goto("scheduler", "idle")
  /\ timer' = [timer EXCEPT !.state = IF timer.stalls = 0 THEN "delayed" ELSE "failed",
                            !.stalls = @ + 1]
  /\ UNCHANGED <<now, rowVars, req, requests>>

\* updateCampaignAggregates finds every message of the campaign sent or failed.
Completes ==
  /\ status = "sending"
  /\ status' = "completed"
  /\ UNCHANGED <<now, scheduledAt, timer, pc, req, requests, faults>>

-----------------------------------------------------------------------------
RequestStep(c) ==
  \/ UpdateRow(c) \/ ReadBack(c) \/ RemoveTimer(c) \/ ArmTimer(c) \/ PastDue(c)

EnqueueStep(p) == CheckStatus(p) \/ Refuse(p) \/ Claim(p) \/ Deliver(p)

Receives(c) ==
  \/ Create(c) \/ ScheduleRequest(c) \/ PutRequest(c) \/ UnscheduleRequest(c)
  \/ EnqueueRequest(c)

Next ==
  \/ Tick
  \/ \E c \in Clients : Receives(c) \/ RequestStep(c) \/ RequestFails(c)
  \/ \E p \in Procs : EnqueueStep(p)
  \/ TakeTimer \/ SchedulerCrashes \/ Completes

Spec == Init /\ [][Next]_vars

\* Time passes, requests and jobs that have started are run on, and an idle worker takes
\* the job that is due.
FairSpec ==
  /\ Spec
  /\ WF_vars(Tick) /\ WF_vars(TakeTimer)
  /\ \A c \in Clients : WF_vars(RequestStep(c))
  /\ \A p \in Procs : WF_vars(EnqueueStep(p))

-----------------------------------------------------------------------------
\* Every variable has its type.
TypeOK ==
  /\ now \in Times
  /\ status \in Statuses \cup {"none"}
  /\ scheduledAt \in Times \cup {Never}
  /\ timer \in [state : {"none", "delayed", "active", "failed"},
                due : Times \cup {Never}, stalls : Nat]
  /\ pc \in [Procs -> Points]
  /\ req \in [Clients -> Request]
  /\ requests \in Nat /\ faults \in Nat

\* Request c is answered after it has written the row and the job.
Answers(c) == pc[c] # "idle" /\ pc'[c] = "idle" /\ faults' = faults

TimerIsCurrent == timer.state = "delayed" => timer.due = scheduledAt

\* When a PUT or an unschedule is answered, no job waits for a time the campaign no longer
\* has, although the worker may take or finish the job between any two of the request's
\* steps (routes/campaigns.js:991-1029, 1081-1087).
EditReplacesTimer ==
  [][\A c \in Clients :
       Answers(c) /\ req[c].kind \in {"put", "unschedule"} /\ faults = 0 => TimerIsCurrent']_vars

\* "Set or change scheduledAt and create/update delayed job": the same of POST /schedule.
ScheduleReplacesTimer ==
  [][\A c \in Clients :
       Answers(c) /\ req[c].kind = "schedule" /\ faults = 0 => TimerIsCurrent']_vars

\* "Only allow editing draft and scheduled campaigns" (routes/campaigns.js:829).
\* The code does not keep it (README, section 3).
EditsEditable ==
  [][\A c \in Clients : UpdateRow(c) /\ req[c].kind = "put" => status \in Editable]_vars

\* A campaign whose job waits is sent, fails or loses the job in the end: no job that the
\* queue holds is forgotten, through a crash of the worker as well.
TimerFires == timer.state \in {"delayed", "active"} ~> timer.state \in {"none", "failed"}

\* A job that failed keeps its id taken until a PUT or an unschedule removes it, so that
\* the scheduler takes no job of the campaign meanwhile: a retry must come from a request.
FailedTimerStays ==
  [][timer.state = "failed" /\ timer'.state # "failed" =>
       \E c \in Clients : RemoveTimer(c)]_vars
=============================================================================
