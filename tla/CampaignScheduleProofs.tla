----------------------- MODULE CampaignScheduleProofs -----------------------
(***************************************************************************)
(* Theorems about when a campaign is sent.                                 *)
(*                                                                         *)
(* CampaignSchedule, for any times, any number of requests and any bound   *)
(* on faults: the types, the job of the scheduler that holds its id when   *)
(* it fails, and, for requests that do not overlap, the job that an edit   *)
(* leaves behind.                                                          *)
(*                                                                         *)
(* LocalTime, which turns the time that is asked for into a moment, for    *)
(* zones with any two offsets and any moment of change.  A reading can be  *)
(* shown by two moments only, the reading less one of the offsets.  The    *)
(* second guess is one of them; if it does not match, its offset is the    *)
(* other one, and the third guess is the other moment.  So nothing is left *)
(* to find after the third.                                                *)
(***************************************************************************)
EXTENDS CampaignSchedule, LocalTime, TLAPS

USE DEF rowVars

\* The initial states are well typed.
LEMMA TypeInit == Init => TypeOK
BY ScheduleAssumption DEF Init, TypeOK, Times, Statuses, NoTimer, Procs, Points, Request, Kinds

-----------------------------------------------------------------------------
(* Type correctness *)

\* The requests keep the types.
LEMMA RequestTypes ==
  ASSUME TypeOK, NEW c \in Clients, Receives(c) \/ RequestStep(c) \/ RequestFails(c)
  PROVE  TypeOK'
<1>0. c \in Procs /\ req[c] \in Request /\ "scheduled" \in Statuses /\ "draft" \in Statuses
  BY DEF TypeOK, Procs, Statuses
<1>1. CASE Create(c)
  <2>1. PICK t \in Future \cup {Never} :
          /\ scheduledAt' = t
          /\ status' = IF t = Never THEN "draft" ELSE "scheduled"
          /\ req' = [req EXCEPT ![c] = [kind |-> "create", at |-> t, was |-> "none"]]
          /\ Goto(c, IF t = Never THEN "idle" ELSE "arm")
    BY <1>1 DEF Create
  <2>2. [kind |-> "create", at |-> t, was |-> "none"] \in Request
    BY DEF Request, Kinds, Future
  <2>3. pc' \in [Procs -> Points]
    BY <1>0, <2>1 DEF TypeOK, Goto, Points
  <2> QED  BY <1>0, <1>1, <2>1, <2>2, <2>3 DEF TypeOK, Create, Future
<1>2. ASSUME NEW kind \in Kinds, NEW t \in Times \cup {Never}, NEW s \in Points,
             Receive(c, kind, t, s)
      PROVE  TypeOK'
  <2>1. [kind |-> kind, at |-> t, was |-> status] \in Request
    BY DEF TypeOK, Request
  <2> QED  BY <1>0, <1>2, <2>1 DEF TypeOK, Receive, Goto
<1>3. CASE ScheduleRequest(c) \/ PutRequest(c) \/ UnscheduleRequest(c) \/ EnqueueRequest(c)
  BY <1>2, <1>3 DEF ScheduleRequest, PutRequest, UnscheduleRequest, EnqueueRequest, Future, Kinds,
     Points
<1>4. CASE UpdateRow(c)
  <2>1. StatusWritten(req[c]) \in Statuses \cup {"none"}
    BY <1>0 DEF StatusWritten, TypeOK
  <2> QED  BY <1>0, <1>4, <2>1 DEF TypeOK, UpdateRow, Goto, Points, Request
<1>5. CASE ReadBack(c)
  <2>1. req' \in [Clients -> Request]
    BY <1>0, <1>5 DEF ReadBack, TypeOK, Request
  <2> QED  BY <1>0, <1>5, <2>1 DEF TypeOK, ReadBack, Goto, Points
<1>6. CASE RemoveTimer(c)
  <2>1. NoTimer \in [state : {"none", "delayed", "active", "failed"},
                     due : Times \cup {Never}, stalls : Nat]
    BY DEF NoTimer
  <2> QED  BY <1>0, <1>6, <2>1 DEF TypeOK, RemoveTimer, Goto, Points
<1>7. CASE ArmTimer(c)
  BY <1>0, <1>7 DEF TypeOK, ArmTimer, Goto, Points, Request
<1>8. CASE PastDue(c) \/ RequestFails(c)
  BY <1>0, <1>8 DEF TypeOK, PastDue, RequestFails, Fault, Goto, Points
<1> QED  BY <1>1, <1>3, <1>4, <1>5, <1>6, <1>7, <1>8 DEF Receives, RequestStep

\* A call of enqueueCampaign keeps the types, and so do its ends.
LEMMA EnqueueTypes ==
  ASSUME TypeOK, NEW p \in Procs, EnqueueStep(p)
  PROVE  TypeOK'
<1>0. UNCHANGED <<now, scheduledAt, req, requests, faults>>
  BY DEF EnqueueStep, CheckStatus, Refuse, Claim, Deliver
<1>1. status' \in Statuses \cup {"none"}
  BY DEF EnqueueStep, CheckStatus, Refuse, Claim, Deliver, TypeOK, Statuses
<1>2. PICK s \in Points : pc' = [pc EXCEPT ![p] = s]
  BY DEF EnqueueStep, CheckStatus, Refuse, Claim, Deliver, Finish, Goto, Points
<1>3. timer' \in [state : {"none", "delayed", "active", "failed"},
                  due : Times \cup {Never}, stalls : Nat]
  BY DEF EnqueueStep, CheckStatus, Refuse, Claim, Deliver, Finish, NoTimer, TypeOK
<1> QED  BY <1>0, <1>1, <1>2, <1>3 DEF TypeOK

\* Every step keeps the types.
LEMMA TypeStep == TypeOK /\ [Next]_vars => TypeOK'
<1> SUFFICES ASSUME TypeOK, [Next]_vars PROVE TypeOK'
  OBVIOUS
<1>1. CASE Tick
  BY <1>1, ScheduleAssumption DEF TypeOK, Tick, Times
<1>2. CASE TakeTimer
  BY <1>2 DEF TypeOK, TakeTimer, Goto, Procs, Points
<1>3. CASE SchedulerCrashes
  <2>1. timer' \in [state : {"none", "delayed", "active", "failed"},
                    due : Times \cup {Never}, stalls : Nat]
    <3>1. /\ timer.due \in Times \cup {Never} /\ timer.stalls + 1 \in Nat
          /\ timer = [state |-> timer.state, due |-> timer.due, stalls |-> timer.stalls]
      BY DEF TypeOK
    <3>2. PICK s \in {"delayed", "failed"} :
            timer' = [state |-> s, due |-> timer.due, stalls |-> timer.stalls + 1]
      BY <1>3, <3>1 DEF SchedulerCrashes
    <3> QED  BY <3>1, <3>2
  <2> QED  BY <1>3, <2>1 DEF TypeOK, SchedulerCrashes, Fault, Goto, Procs, Points
<1>4. CASE Completes
  BY <1>4 DEF TypeOK, Completes, Statuses
<1>5. CASE UNCHANGED vars
  BY <1>5 DEF TypeOK, vars
<1> QED  BY <1>1, <1>2, <1>3, <1>4, <1>5, RequestTypes, EnqueueTypes DEF Next

\* Every variable keeps its type: no sequence of edits, crashes and stalls leaves a status
\* that the enum of schema.prisma does not have, or a job in a state BullMQ does not know.
THEOREM TypeCorrect == Spec => []TypeOK
BY TypeInit, TypeStep, PTL DEF Spec

-----------------------------------------------------------------------------
(* The job of the scheduler *)

\* The scheduler is at work exactly while the job is active, which no request can undo.
TimerInv == TypeOK /\ (pc["scheduler"] # "idle" <=> timer.state = "active")

\* A request moves itself, not the scheduler.
LEMMA OthersStay ==
  ASSUME TypeOK, NEW c \in Clients,
         \/ Receives(c) \/ RequestStep(c) \/ RequestFails(c) \/ EnqueueStep(c)
  PROVE  pc'["scheduler"] = pc["scheduler"]
<1>1. "scheduler" # c /\ "scheduler" \in Procs
  BY ScheduleAssumption DEF Procs
<1>2. PICK s : pc' = [pc EXCEPT ![c] = s]
  BY DEF Receives, Create, ScheduleRequest, PutRequest, UnscheduleRequest, EnqueueRequest, Receive,
     RequestStep, UpdateRow, ReadBack, RemoveTimer, ArmTimer, PastDue, RequestFails, EnqueueStep,
     CheckStatus, Refuse, Claim, Deliver, Finish, Goto
<1> QED  BY <1>1, <1>2 DEF TypeOK

\* What a request does to the job: it removes one that is not active, or adds one.
LEMMA RequestsAndTimer ==
  ASSUME NEW c \in Clients,
         \/ Receives(c) \/ RequestStep(c) \/ RequestFails(c) \/ EnqueueStep(c)
  PROVE  \/ timer' = timer
         \/ RemoveTimer(c) /\ timer.state # "active" /\ timer' = NoTimer
         \/ ArmTimer(c) /\ timer.state = "none" /\ timer'.state = "delayed"
<1>1. c # "scheduler"
  BY ScheduleAssumption
<1> QED  BY <1>1 DEF Receives, Create, ScheduleRequest, PutRequest, UnscheduleRequest,
         EnqueueRequest, Receive, RequestStep, UpdateRow, ReadBack, RemoveTimer, ArmTimer, PastDue,
         RequestFails, EnqueueStep, CheckStatus, Refuse, Claim, Deliver, Finish

\* What the scheduler does to the job that it runs.
LEMMA SchedulerAndTimer ==
  ASSUME TimerInv, EnqueueStep("scheduler")
  PROVE  /\ timer.state = "active"
         /\ \/ timer' = timer /\ pc'["scheduler"] # "idle"
            \/ timer'.state \in {"none", "failed"} /\ pc'["scheduler"] = "idle"
<1>0. "scheduler" \in Procs /\ pc \in [Procs -> Points]
  BY DEF Procs, TimerInv, TypeOK
<1>1. timer.state = "active"
  BY DEF TimerInv, EnqueueStep, CheckStatus, Refuse, Claim, Deliver
<1>2. ASSUME NEW ok \in BOOLEAN, Finish("scheduler", ok)
      PROVE  timer'.state \in {"none", "failed"} /\ pc'["scheduler"] = "idle"
  BY <1>0, <1>2 DEF Finish, Goto, NoTimer, TimerInv, TypeOK
<1>3. \/ \E ok \in BOOLEAN : Finish("scheduler", ok)
      \/ timer' = timer /\ \E s \in {"enqueue", "claimed"} : Goto("scheduler", s)
  BY DEF EnqueueStep, CheckStatus, Refuse, Claim, Deliver
<1> QED  BY <1>0, <1>1, <1>2, <1>3 DEF Goto

LEMMA TimerStep == TimerInv /\ [Next]_vars => TimerInv'
<1> SUFFICES ASSUME TimerInv, [Next]_vars PROVE TimerInv'
  OBVIOUS
<1>0. TypeOK' /\ TypeOK
  BY TypeStep DEF TimerInv
<1>1. ASSUME NEW c \in Clients,
             Receives(c) \/ RequestStep(c) \/ RequestFails(c) \/ EnqueueStep(c)
      PROVE  TimerInv'
  BY <1>0, <1>1, OthersStay, RequestsAndTimer DEF TimerInv, NoTimer
<1>2. CASE EnqueueStep("scheduler")
  BY <1>0, <1>2, SchedulerAndTimer DEF TimerInv
<1>3. CASE TakeTimer
  BY <1>0, <1>3 DEF TimerInv, TakeTimer, Goto, TypeOK, Procs
<1>4. CASE SchedulerCrashes
  BY <1>0, <1>4 DEF TimerInv, SchedulerCrashes, Goto, TypeOK, Procs
<1>5. CASE Tick \/ Completes \/ UNCHANGED vars
  BY <1>0, <1>5 DEF TimerInv, Tick, Completes, vars
<1> QED  BY <1>1, <1>2, <1>3, <1>4, <1>5 DEF Next, Procs

LEMMA TimerInit == Init => TimerInv
BY TypeInit DEF Init, TimerInv, NoTimer, Procs

\* A failed job stays until a PUT or an unschedule removes it, for any number of requests at
\* once: schedulerQueue.add with its id does nothing meanwhile (removeOnFail is false).
THEOREM FailedStays == Spec => FailedTimerStays
<1>1. TimerInv /\ [Next]_vars => TimerInv'
  BY TimerStep
<1>2. ASSUME TimerInv, [Next]_vars, timer.state = "failed", timer'.state # "failed"
      PROVE  \E c \in Clients : RemoveTimer(c)
  <2>1. ASSUME NEW c \in Clients,
               Receives(c) \/ RequestStep(c) \/ RequestFails(c) \/ EnqueueStep(c)
        PROVE  RemoveTimer(c)
    BY <1>2, <2>1, RequestsAndTimer
  <2>2. ~EnqueueStep("scheduler")
    BY <1>2, SchedulerAndTimer
  <2>3. ~TakeTimer /\ ~Tick /\ ~Completes /\ ~UNCHANGED vars
    BY <1>2 DEF TakeTimer, Tick, Completes, vars
  <2>4. ~SchedulerCrashes
    BY <1>2 DEF SchedulerCrashes, TimerInv
  <2> QED  BY <1>2, <2>1, <2>2, <2>3, <2>4 DEF Next, Procs
<1>3. TimerInv /\ [Next]_vars =>
        [timer.state = "failed" /\ timer'.state # "failed" => \E c \in Clients : RemoveTimer(c)]_vars
  BY <1>2
<1> QED  BY <1>1, <1>3, TimerInit, PTL DEF Spec, FailedTimerStays

-----------------------------------------------------------------------------
(* The job that an edit leaves behind *)

\* The requests for the campaign come one after another; the worker is as busy as ever.
OneAtATime == \A c, d \in Clients : c = d

\* Where a request stands, what it is about to arm is the time of the row, and after its
\* remove no job waits.
EditRequest(c) ==
  /\ pc[c] = "update" /\ req[c].kind = "unschedule" => req[c].at = Never
  /\ pc[c] = "readback" => req[c].kind # "unschedule"
  /\ pc[c] \in {"remove", "arm"} => req[c].at = scheduledAt
  /\ (pc[c] \in {"arm", "check", "enqueue", "claimed"} /\ req[c].kind \in {"put", "unschedule"}) =>
       timer.state # "delayed"

EditInv == TimerInv /\ (faults = 0 => \A c \in Clients : EditRequest(c))

LEMMA EditInit == Init => EditInv
BY TimerInit DEF Init, EditInv, EditRequest, Procs

\* The request that c is moves on; there is no other.
LEMMA EditRequests ==
  ASSUME OneAtATime, TypeOK, TypeOK', NEW c \in Clients, EditRequest(c), faults' = 0,
         Receives(c) \/ RequestStep(c) \/ EnqueueStep(c)
  PROVE  /\ EditRequest(c)'
         /\ (Answers(c) /\ req[c].kind \in {"put", "unschedule"}) => TimerIsCurrent'
<1>0. /\ pc \in [Procs -> Points] /\ c \in Procs /\ req \in [Clients -> Request] /\ req[c] \in Request
      /\ c # "scheduler"
  BY ScheduleAssumption DEF TypeOK, Procs
<1>1. CASE Receives(c)
  <2>1. CASE Create(c)
    <3>1. PICK t \in Future \cup {Never} :
            /\ scheduledAt' = t
            /\ req' = [req EXCEPT ![c] = [kind |-> "create", at |-> t, was |-> "none"]]
            /\ Goto(c, IF t = Never THEN "idle" ELSE "arm")
      BY <2>1 DEF Create
    <3>2. pc'[c] \in {"idle", "arm"} /\ req'[c].kind = "create" /\ req'[c].at = scheduledAt'
      BY <1>0, <3>1 DEF Goto
    <3> QED  BY <2>1, <3>2 DEF EditRequest, Create, Answers
  <2>2. ASSUME NEW kind, NEW t, NEW s, Receive(c, kind, t, s)
        PROVE  /\ pc'[c] = s /\ req'[c].kind = kind /\ req'[c].at = t /\ pc[c] = "idle"
               /\ scheduledAt' = scheduledAt /\ timer' = timer
    BY <1>0, <2>2 DEF Receive, Goto
  <2>3. CASE ScheduleRequest(c) \/ PutRequest(c)
    <3>1. PICK kind \in {"schedule", "put"}, t \in Times \cup {Never} : Receive(c, kind, t, "update")
      BY <2>3 DEF ScheduleRequest, PutRequest, Future
    <3>2. pc'[c] = "update" /\ req'[c].kind = kind /\ pc[c] = "idle"
      BY <2>2, <3>1
    <3> QED  BY <3>2 DEF EditRequest, Answers
  <2>4. CASE UnscheduleRequest(c)
    <3>1. pc'[c] = "update" /\ req'[c].kind = "unschedule" /\ req'[c].at = Never /\ pc[c] = "idle"
      BY <2>2, <2>4 DEF UnscheduleRequest
    <3> QED  BY <3>1 DEF EditRequest, Answers
  <2>5. CASE EnqueueRequest(c)
    <3>1. pc'[c] = "check" /\ req'[c].kind = "enqueue" /\ pc[c] = "idle"
      BY <2>2, <2>5 DEF EnqueueRequest
    <3> QED  BY <3>1 DEF EditRequest, Answers
  <2> QED  BY <1>1, <2>1, <2>3, <2>4, <2>5 DEF Receives
<1>2. CASE UpdateRow(c)
  <2>1. /\ pc[c] = "update" /\ scheduledAt' = req[c].at /\ req' = req /\ timer' = timer
        /\ pc'[c] = IF req[c].kind = "unschedule" THEN "remove" ELSE "readback"
    BY <1>0, <1>2 DEF UpdateRow, Goto
  <2> QED  BY <2>1 DEF EditRequest, Answers
<1>3. CASE ReadBack(c)
  <2>1. /\ pc[c] = "readback" /\ scheduledAt' = scheduledAt /\ timer' = timer
        /\ req'[c].at = scheduledAt /\ req'[c].kind = req[c].kind
        /\ pc'[c] = IF req[c].kind = "put" THEN "remove"
                    ELSE IF scheduledAt # Never THEN "arm" ELSE "idle"
    BY <1>0, <1>3 DEF ReadBack, Goto, Request
  <2> QED  BY <2>1 DEF EditRequest, Answers
<1>4. CASE RemoveTimer(c)
  <2>1. /\ pc[c] = "remove" /\ scheduledAt' = scheduledAt /\ req' = req
        /\ timer'.state # "delayed" /\ pc'[c] \in {"arm", "idle"}
    BY <1>0, <1>4 DEF RemoveTimer, Goto, NoTimer
  <2> QED  BY <2>1 DEF EditRequest, TimerIsCurrent
<1>5. CASE ArmTimer(c)
  <2>1. /\ pc[c] = "arm" /\ scheduledAt' = scheduledAt /\ req' = req /\ pc'[c] = "idle"
        /\ \/ timer' = timer
           \/ timer' = [state |-> "delayed", due |-> req[c].at, stalls |-> 0]
    BY <1>0, <1>5 DEF ArmTimer, Goto
  <2> QED  BY <2>1 DEF EditRequest, TimerIsCurrent
<1>6. CASE PastDue(c) \/ EnqueueStep(c)
  <2>1. /\ pc[c] \in {"arm", "check", "enqueue", "claimed"} /\ scheduledAt' = scheduledAt
        /\ req' = req /\ timer' = timer
    BY <1>0, <1>6 DEF PastDue, EnqueueStep, CheckStatus, Refuse, Claim, Deliver, Finish
  <2>2. pc'[c] \in {"idle", "check", "enqueue", "claimed"}
    BY <1>0, <1>6 DEF PastDue, EnqueueStep, CheckStatus, Refuse, Claim, Deliver, Finish, Goto
  <2> QED  BY <2>1, <2>2 DEF EditRequest, TimerIsCurrent
<1> QED  BY <1>1, <1>2, <1>3, <1>4, <1>5, <1>6 DEF RequestStep

\* A step of another, which does not make the job wait, leaves a request where it is.
LEMMA EditOthers ==
  ASSUME NEW c \in Clients, EditRequest(c), UNCHANGED <<scheduledAt, req>>, pc'[c] = pc[c],
         timer'.state = "delayed" => timer.state = "delayed"
  PROVE  EditRequest(c)'
BY DEF EditRequest

LEMMA EditStep ==
  ASSUME OneAtATime, EditInv, [Next]_vars
  PROVE  /\ EditInv'
         /\ \A c \in Clients : Answers(c) /\ req[c].kind \in {"put", "unschedule"} /\ faults = 0
                                 => TimerIsCurrent'
<1>0. TimerInv' /\ TimerInv /\ TypeOK /\ TypeOK' /\ pc \in [Procs -> Points]
  BY TimerStep DEF EditInv, TimerInv, TypeOK
<1>1. ASSUME faults = 0, faults' = 0, NEW c \in Clients
      PROVE  /\ EditRequest(c)'
             /\ (Answers(c) /\ req[c].kind \in {"put", "unschedule"}) => TimerIsCurrent'
  <2>1. EditRequest(c) /\ \A d \in Clients : d = c
    BY <1>1 DEF EditInv, OneAtATime
  <2>2. CASE Receives(c) \/ RequestStep(c) \/ EnqueueStep(c)
    BY <1>0, <1>1, <2>1, <2>2, EditRequests
  <2>3. ~RequestFails(c) /\ ~SchedulerCrashes
    BY <1>1 DEF RequestFails, SchedulerCrashes, Fault
  <2>4. ASSUME UNCHANGED <<scheduledAt, req>>, pc'[c] = pc[c],
               timer'.state = "delayed" => timer.state = "delayed"
        PROVE  /\ EditRequest(c)'
               /\ (Answers(c) /\ req[c].kind \in {"put", "unschedule"}) => TimerIsCurrent'
    BY <2>1, <2>4, EditOthers DEF Answers
  <2>5. CASE EnqueueStep("scheduler")
    <3>1. UNCHANGED <<scheduledAt, req>>
      BY <2>5 DEF EnqueueStep, CheckStatus, Refuse, Claim, Deliver
    <3>2. pc'[c] = pc[c]
      <4>1. c # "scheduler" /\ c \in Procs
        BY ScheduleAssumption DEF Procs
      <4>2. PICK s : pc' = [pc EXCEPT !["scheduler"] = s]
        BY <2>5 DEF EnqueueStep, CheckStatus, Refuse, Claim, Deliver, Finish, Goto
      <4> QED  BY <1>0, <4>1, <4>2
    <3> QED  BY <1>0, <2>4, <2>5, <3>1, <3>2, SchedulerAndTimer
  <2>6. CASE TakeTimer
    <3>1. c # "scheduler" /\ c \in Procs
      BY ScheduleAssumption DEF Procs
    <3>2. UNCHANGED <<scheduledAt, req>> /\ pc'[c] = pc[c] /\ timer'.state = "active"
      BY <1>0, <2>6, <3>1 DEF TakeTimer, Goto, TypeOK
    <3> QED  BY <2>4, <3>2
  <2>7. CASE Tick \/ Completes \/ UNCHANGED vars
    BY <2>4, <2>7 DEF Tick, Completes, vars
  <2> QED  BY <2>1, <2>2, <2>3, <2>5, <2>6, <2>7 DEF Next, Procs
<1>2. faults \in Nat /\ (faults' = faults \/ faults' = faults + 1)
  <2>1. ASSUME NEW c \in Clients, Receives(c) \/ RequestStep(c) \/ RequestFails(c)
        PROVE  faults' = faults \/ faults' = faults + 1
    BY <2>1 DEF Receives, Create, ScheduleRequest, PutRequest, UnscheduleRequest, EnqueueRequest,
       Receive, RequestStep, UpdateRow, ReadBack, RemoveTimer, ArmTimer, PastDue, RequestFails, Fault
  <2>2. ASSUME NEW p \in Procs, EnqueueStep(p) PROVE faults' = faults
    BY <2>2 DEF EnqueueStep, CheckStatus, Refuse, Claim, Deliver
  <2> QED  BY <1>0, <2>1, <2>2 DEF Next, Tick, TakeTimer, SchedulerCrashes, Fault, Completes, vars,
           TypeOK
<1>3. faults' = 0 => faults = 0
  BY <1>2
<1> QED  BY <1>0, <1>1, <1>3 DEF EditInv, Answers

\* When an edit is answered and nothing has failed, no job waits for a time the campaign no
\* longer has, wherever the worker is with the job (routes/campaigns.js:991-1029, 1081-1087);
\* requests that overlap can leave one.
THEOREM EditsReplace ==
  ASSUME OneAtATime
  PROVE  Spec => EditReplacesTimer
<1>1. EditInv /\ [Next]_vars => EditInv'
  BY EditStep
<1>2. EditInv /\ [Next]_vars =>
        [\A c \in Clients : Answers(c) /\ req[c].kind \in {"put", "unschedule"} /\ faults = 0
                              => TimerIsCurrent']_vars
  BY EditStep
<1> QED  BY <1>1, <1>2, EditInit, PTL DEF Spec, EditReplacesTimer

-----------------------------------------------------------------------------
(* The moment that is meant by a local time *)

\* The two moments that may show a reading.
LEMMA TwoMoments ==
  ASSUME TimeTypeOK, NEW u \in Int, Reading(u) = want
  PROVE  u \in {want - zone.before, want - zone.after}
<1>1. zone.before \in Int /\ zone.after \in Int /\ want \in Int
  BY LocalTimeAssumption DEF TimeTypeOK, Zones
<1>2. u + zone.before = want \/ u + zone.after = want
  BY DEF Reading, Offset
<1>3. u = want - zone.before \/ u = want - zone.after
  BY <1>1, <1>2
<1> QED  BY <1>3

\* Every variable has its type.
THEOREM TimeTypeCorrect == TimeSpec => []TimeTypeOK
<1>1. TimeInit => TimeTypeOK
  BY LocalTimeAssumption DEF TimeInit, TimeTypeOK, Zones, Rounds
<1>2. TimeTypeOK /\ [TimeNext]_timeVars => TimeTypeOK'
  <2> SUFFICES ASSUME TimeTypeOK, [TimeNext]_timeVars PROVE TimeTypeOK'
    OBVIOUS
  <2>1. CASE Found
    BY <2>1 DEF Found, TimeTypeOK, Zones
  <2>2. CASE Adjust
    <3>1. zone.before \in Int /\ zone.after \in Int /\ zone.change \in Int /\ want \in Int
      BY LocalTimeAssumption DEF TimeTypeOK, Zones
    <3>2. Offset(guess) \in Int /\ Reading(guess) \in Int
      BY <3>1 DEF Offset, Reading, TimeTypeOK
    <3>3. Printed(guess) \in Int
      BY <3>2, LocalTimeAssumption DEF Printed
    <3> QED  BY <2>2, <3>1, <3>3 DEF Adjust, TimeTypeOK, Rounds
  <2>3. CASE GiveUp
    BY <2>3 DEF GiveUp, TimeTypeOK, Zones
  <2>4. CASE UNCHANGED timeVars
    BY <2>4 DEF timeVars, TimeTypeOK, Zones
  <2> QED  BY <2>1, <2>2, <2>3, <2>4 DEF TimeNext
<1> QED  BY <1>1, <1>2, PTL DEF TimeSpec

\* No moment shows the time that is wanted.
Skipped == \A u \in {want - zone.before, want - zone.after} : Reading(u) # want

\* What the rounds have tried so far.
Search ==
  /\ at = "loop" => answer = Null
  /\ Midnight = 0 =>
       /\ at = "loop" /\ round = 0 => guess = want
       /\ at = "loop" /\ round = 1 => guess = want - Offset(want)
       /\ at = "loop" /\ round >= 2 => Matches(guess) \/ Skipped
       /\ at = "over" => IF answer = Null THEN Skipped ELSE answer \in Int /\ Reading(answer) = want

LEMMA SearchStep == TimeTypeOK /\ Search /\ [TimeNext]_timeVars => Search'
<1> SUFFICES ASSUME TimeTypeOK, Search, [TimeNext]_timeVars PROVE Search'
  OBVIOUS
<1>0. zone.before \in Int /\ zone.after \in Int /\ zone.change \in Int /\ want \in Int /\ guess \in Int
  BY LocalTimeAssumption DEF TimeTypeOK, Zones
<1>1. CASE Found
  <2>1. Null \notin Int
    BY LocalTimeAssumption
  <2> QED  BY <1>0, <1>1, <2>1 DEF Found, Search, Matches, Reading, Offset
<1>2. CASE Adjust
  <2>1. CASE Midnight # 0
    BY <1>2, <2>1 DEF Adjust, Search
  <2>2. CASE Midnight = 0
    <3>1. Reading(guess) \in Int /\ Reading(guess) # want
      BY <1>0, <1>2, <2>2, LocalTimeAssumption DEF Adjust, Matches, Reading, Offset
    <3>2. Printed(guess) = Reading(guess)
      BY <3>1, <2>2 DEF Printed
    <3>3. guess' = want - Offset(guess)
      BY <1>0, <1>2, <3>2 DEF Adjust, Reading, Offset
    <3>4. CASE round = 0
      BY <1>0, <1>2, <2>2, <3>3, <3>4 DEF Adjust, Search, Offset
    <3>5. CASE round = 1
      <4>1. guess = want - Offset(want)
        BY <1>2, <2>2, <3>5 DEF Adjust, Search
      <4>2. \/ Reading(guess') = want
            \/ Skipped
        BY <1>0, <3>1, <3>3, <4>1 DEF Skipped, Reading, Offset
      <4>3. Matches(guess)' \/ Skipped'
        BY <1>0, <1>2, <2>2, <4>2 DEF Adjust, Skipped, Matches, Reading, Offset
      <4> QED  BY <1>2, <2>2, <3>5, <4>3 DEF Adjust, Search
    <3>6. CASE round >= 2
      <4>1. Skipped
        BY <1>2, <2>2, <3>6 DEF Adjust, Search
      <4>2. Skipped'
        BY <1>2, <4>1 DEF Adjust, Skipped, Reading, Offset
      <4>3. round' >= 3 /\ at' = "loop" /\ answer' = answer
        BY <1>2, <3>6 DEF Adjust, TimeTypeOK, Rounds
      <4> QED  BY <1>2, <2>2, <4>2, <4>3 DEF Adjust, Search
    <3> QED  BY <3>4, <3>5, <3>6 DEF TimeTypeOK, Rounds
  <2> QED  BY <2>1, <2>2
<1>3. CASE GiveUp
  <2>1. Midnight = 0 => Skipped
    BY <1>3 DEF GiveUp, Search, Rounds
  <2> QED  BY <1>3, <2>1 DEF GiveUp, Search, Skipped, Reading, Offset
<1>4. CASE UNCHANGED timeVars
  BY <1>4 DEF timeVars, Search, Skipped, Matches, Reading, Offset
<1> QED  BY <1>1, <1>2, <1>3, <1>4 DEF TimeNext

\* A time that the store's clock shows is found, whatever the zone's offsets are.
THEOREM Finds == TimeSpec => []FindsIt
<1>1. TimeInit => Search
  BY LocalTimeAssumption DEF TimeInit, Search
<1>2. Search => FindsIt
  BY DEF Search, FindsIt, Skipped
<1> QED  BY <1>1, <1>2, SearchStep, TimeTypeCorrect, PTL DEF TimeSpec

\* A refused time is shown by no moment at all.
FoundIfShown == (Midnight = 0 /\ at = "over" /\ answer = Null) => \A u \in Int : Reading(u) # want

THEOREM FindsAll == TimeSpec => []FoundIfShown
<1>1. TimeTypeOK /\ FindsIt => FoundIfShown
  BY TwoMoments DEF FoundIfShown, FindsIt
<1> QED  BY <1>1, TimeTypeCorrect, Finds, PTL
=============================================================================
