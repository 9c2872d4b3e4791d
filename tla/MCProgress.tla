------------------------------- MODULE MCProgress -------------------------------
(***************************************************************************)
(* What has to come to an end, for TLC: the conversion of local times, the *)
(* status of messages, birthday runs and imports.  The four share no       *)
(* variable, so that each behaves as it does alone while the others rest:  *)
(* one of them is chosen at the start and moves, and the states are their  *)
(* sum instead of their product.                                           *)
(***************************************************************************)
EXTENDS LocalTime, Sequences

\* LocalTime: every hour around a change between any two offsets.
Readings == -14 .. 14
East     == -1 .. 2
Change   == -6 .. 6

VARIABLES
  part,                                                            \* the one that moves
  sms, reports, row, campaign, writer, dFaults,                    \* DeliveryStatus
  automation, contact, active, wallet, out, record, sender, hit, edits, aFaults,  \* Automations
  rows, lastId, proc, job, welcomed, wish, gone, cFaults           \* Contacts

delivery    == <<sms, reports, row, campaign, writer, dFaults>>
automations == <<automation, contact, active, wallet, out, record, sender, hit, edits, aFaults>>
contacts    == <<rows, lastId, proc, job, welcomed, wish, gone, cFaults>>

\* One message, a request beside the worker and the periodic job, and one fault.
Outcomes == {"Delivered", "Failure"}
Refresher == {"r1"}
Delivery == INSTANCE DeliveryStatus WITH
  proc <- writer, faults <- dFaults,
  N <- 1, Limit <- 1, Requests <- Refresher, MaxActive <- 3, BodySize <- 2,
  MaxFaults <- 1, HasUpdatedAt <- TRUE

\* Two stores, of which one has two contacts, one run, a change and a failure.
Stores    == {"o1", "o2"}
Customers == {"c1", "c2", "c3"}
StoreOf   == [c \in Customers |-> IF c = "c3" THEN "o2" ELSE "o1"]
Run       == {"run"}
Automations == INSTANCE Automations WITH
  sms <- out, proc <- sender, faults <- aFaults,
  Owners <- Stores, Contacts <- Customers, OwnerOf <- StoreOf,
  Present <- Customers, Born <- Customers, Runs <- Run, Requests <- {},
  Credits <- 1, MaxActive <- 2, MaxEdits <- 1, MaxFaults <- 1

\* One import, of an empty file or one with every kind of row, and two failures.
Line(p, s) == [phone |-> p, sub |-> s]
Files    == {<<>>, <<Line("p1", TRUE), Line("bad", TRUE), Line("p1", TRUE), Line("p2", FALSE)>>}
Owner    == {"o1"}
Phones   == {"p1", "p2"}
Upload   == {"j1"}
AsSent   == {"plus"}
Contacts == INSTANCE Contacts WITH
  faults <- cFaults,
  Owners <- Owner, Requests <- {}, Jobs <- Upload, StopForms <- AsSent, MaxRows <- 1, MaxFaults <- 2

ASSUME Delivery!DeliveryAssumption /\ Automations!AutomationsAssumption /\ Contacts!ContactsAssumption

ProgressInit ==
  /\ \/ part = "time" /\ TimeInit
     \/ /\ part \in {"delivery", "automations", "contacts"}
        /\ zone = [before |-> 0, after |-> 0, change |-> 0] /\ want = 0
        /\ at = "over" /\ guess = 0 /\ round = 0 /\ answer = 0
  /\ part = "automations" \/ automation = [o \in Stores |-> [k \in {"welcome", "birthday"} |-> "on"]]
  /\ Delivery!Init /\ Automations!Init /\ Contacts!Init

ProgressNext ==
  \/ part = "time" /\ TimeNext /\ UNCHANGED <<part, delivery, automations, contacts>>
  \/ part = "delivery" /\ Delivery!Next /\ UNCHANGED <<part, timeVars, automations, contacts>>
  \/ part = "automations" /\ Automations!Next /\ UNCHANGED <<part, timeVars, delivery, contacts>>
  \/ part = "contacts" /\ Contacts!Next /\ UNCHANGED <<part, timeVars, delivery, automations>>

\* The fairness of each module, for the part that moves.
ProgressSpec ==
  /\ ProgressInit /\ [][ProgressNext]_<<part, timeVars, delivery, automations, contacts>>
  /\ WF_delivery(part = "delivery" /\ Delivery!RefreshPending)
  /\ WF_delivery(part = "delivery" /\ Delivery!RecordResult(1))
  /\ \A p \in {"r1", "job", "worker"} : WF_delivery(part = "delivery" /\ Delivery!Continue(p))
  /\ WF_automations(part = "automations" /\ Automations!RunStep("run"))
  /\ \A c \in Customers : WF_automations(part = "automations" /\ Automations!WelcomeStep(c))
  /\ WF_contacts(part = "contacts" /\ Contacts!ImportStep("j1"))

\* Once the provider has settled a message, its row comes to say so for good, though reports
\* are lost, early or overtaken (refreshPendingStatuses).
OutcomeArrives == Delivery!OutcomeArrives

\* The failure of one contact, or one store, costs no other its birthday message
\* (processBirthdayAutomations).
BirthdayTried == Automations!BirthdayTried

\* An import comes to an end, failed or having dealt with every row of its file, also when
\* its worker dies (contactImport.worker.js, processImportJob).
ImportEnds == Contacts!ImportEnds
=============================================================================
