------------------------------ MODULE Automations ------------------------------
(***************************************************************************)
(* Welcome and birthday messages (automation.service.js), each sent alone  *)
(* and paid for by sendSMSWithCredits (sms.service.js).  A birthday run    *)
(* (birthday.worker.js) visits the active stores one after the other, and  *)
(* their contacts one after the other, from lists it has read; a welcome   *)
(* starts when a contact is added and runs beside the request.  Settings,  *)
(* consent and subscriptions change in between.                            *)
(***************************************************************************)
EXTENDS Naturals, FiniteSets

CONSTANTS Owners, Contacts,
          OwnerOf,      \* the store of each contact
          Present,      \* contacts that are there at first, and subscribed
          Born,         \* contacts whose birthday is today
          Runs,         \* starts of the birthday worker today
          Requests,     \* requests that change an automation
          Credits,      \* opening balance of every store
          MaxActive,    \* bound: welcomes and birthday runs in progress at one time
          MaxEdits,     \* bound: changes of settings, consent and subscription
          MaxFaults     \* bound: failed calls and dying processes

\* What is asked of the constants; the modules that instantiate this one assume it.
AutomationsAssumption ==
  /\ OwnerOf \in [Contacts -> Owners] /\ Present \subseteq Contacts /\ Born \subseteq Contacts
  /\ (Runs \cup Contacts) \cap Requests = {}
  /\ Credits \in Nat /\ MaxActive \in Nat /\ MaxEdits \in Nat /\ MaxFaults \in Nat

Kinds == {"welcome", "birthday"}

VARIABLES automation,    \* Automation: "none", "off" or "on", for each store and kind
          contact,       \* Contact: "absent", "in" (subscribed) or "out"
          active,        \* the store has an active subscription
          wallet,        \* the store's balance
          sms,           \* messages the provider has accepted
          record,        \* AutomationMessage: rows with status sent, and failed
          proc,          \* what each process is doing
          hit,           \* history: contacts whose own turn a failure took away
          edits, faults

data == <<automation, contact, active>>
vars == <<automation, contact, active, wallet, sms, record, proc, hit, edits, faults>>

Senders   == Runs \cup Contacts
Processes == Senders \cup Requests

Idle == [at |-> "idle", kind |-> "none", stores |-> {}, todo |-> {}, to |-> "none", sent |-> FALSE]
Done == [Idle EXCEPT !.at = "done"]

\* A contact that has just been added is welcomed by the process named after it.
Init ==
  /\ automation \in [Owners -> [Kinds -> {"none", "off", "on"}]]
  /\ contact = [c \in Contacts |-> IF c \in Present THEN "in" ELSE "absent"]
  /\ active = [o \in Owners |-> TRUE]
  /\ wallet = [o \in Owners |-> Credits]
  /\ sms = [c \in Contacts |-> [k \in Kinds |-> 0]]
  /\ record = [c \in Contacts |-> [k \in Kinds |-> [sent |-> 0, failed |-> 0]]]
  /\ proc = [p \in Processes |-> Idle]
  /\ hit = {} /\ edits = 0 /\ faults = 0

Fault == faults < MaxFaults /\ faults' = faults + 1
Edit == edits < MaxEdits /\ edits' = edits + 1
Go(p, r) == proc' = [proc EXCEPT ![p] = r]
Begin(p, r) ==
  /\ proc[p] = Idle /\ Cardinality({q \in Senders : proc[q] \notin {Idle, Done}}) < MaxActive
  /\ Go(p, r)

-----------------------------------------------------------------------------
(* Settings: PUT /automations/:type, over getOrCreateAutomation. *)

FindAutomation(p, o, k) ==
  /\ proc[p] = Idle
  /\ Edit
  /\ Go(p, [Idle EXCEPT !.at = IF automation[o][k] = "none" THEN "create" ELSE "change",
                        !.kind = k, !.stores = {o}])
  /\ UNCHANGED <<data, wallet, sms, record, hit, faults>>

\* Another request may have created it: the unique key refuses the second row.
CreateAutomation(p, o) ==
  LET k == proc[p].kind
  IN /\ proc[p].at = "create"
     /\ automation' = [automation EXCEPT ![o][k] = IF @ = "none" THEN "off" ELSE @]
     /\ Go(p, IF automation[o][k] = "none" THEN [proc[p] EXCEPT !.at = "change"] ELSE Done)
     /\ UNCHANGED <<contact, active, wallet, sms, record, hit, edits, faults>>

ChangeAutomation(p, o) ==
  /\ proc[p].at = "change"
  /\ \E s \in {"on", "off"} : automation' = [automation EXCEPT ![o][proc[p].kind] = s]
  /\ Go(p, Done)
  /\ UNCHANGED <<contact, active, wallet, sms, record, hit, edits, faults>>

\* The contact follows the unsubscribe link, or is subscribed again.
ChangeConsent(c) ==
  /\ contact[c] # "absent"
  /\ Edit
  /\ contact' = [contact EXCEPT ![c] = IF @ = "in" THEN "out" ELSE "in"]
  /\ UNCHANGED <<automation, active, wallet, sms, record, proc, hit, faults>>

ChangeSubscription(o) ==
  /\ Edit
  /\ active' = [active EXCEPT ![o] = ~@]
  /\ UNCHANGED <<automation, contact, wallet, sms, record, proc, hit, faults>>

-----------------------------------------------------------------------------
(* Welcome. *)

\* POST /contacts, or the NFC form: the contact is created, subscribed, and welcomed.
AddContact(c) ==
  /\ contact[c] = "absent"
  /\ contact' = [contact EXCEPT ![c] = "in"]
  /\ Begin(c, [Idle EXCEPT !.at = "welcome", !.kind = "welcome", !.to = c])
  /\ UNCHANGED <<automation, active, wallet, sms, record, hit, edits, faults>>

\* Welcome is skipped unless the automation is active now.
ReadWelcome(c) ==
  /\ proc[c].at = "welcome"
  /\ Go(c, IF automation[OwnerOf[c]]["welcome"] = "on"
           THEN [proc[c] EXCEPT !.at = "subscription"] ELSE Done)
  /\ UNCHANGED <<data, wallet, sms, record, hit, edits, faults>>

-----------------------------------------------------------------------------
(* processBirthdayAutomations *)

StartRun(r) ==
  /\ Begin(r, [Idle EXCEPT !.at = "stores", !.kind = "birthday",
                           !.stores = {o \in Owners : automation[o]["birthday"] = "on"}])
  /\ UNCHANGED <<data, wallet, sms, record, hit, edits, faults>>

\* The store's subscribed contacts whose birthday is today, if any.
VisitStore(r, o) ==
  LET todo == {c \in Born : OwnerOf[c] = o /\ contact[c] = "in"}
  IN /\ proc[r].at = "stores"
     /\ Go(r, [proc[r] EXCEPT !.at = IF todo = {} THEN "stores" ELSE "sender",
                              !.stores = @ \ {o}, !.todo = todo])
     /\ UNCHANGED <<data, wallet, sms, record, hit, edits, faults>>

\* resolveSender finds the store's sender name.
FindSender(r) ==
  /\ proc[r].at = "sender"
  /\ Go(r, [proc[r] EXCEPT !.at = "contacts"])
  /\ UNCHANGED <<data, wallet, sms, record, hit, edits, faults>>

VisitContact(r, c) ==
  /\ proc[r].at = "contacts"
  /\ Go(r, [proc[r] EXCEPT !.at = "subscription", !.todo = @ \ {c}, !.to = c, !.sent = FALSE])
  /\ UNCHANGED <<data, wallet, sms, record, hit, edits, faults>>

\* The list of contacts, or of stores, is used up.
ListEnds(r) ==
  /\ \/ proc[r].at = "contacts" /\ proc[r].todo = {} /\ Go(r, [proc[r] EXCEPT !.at = "stores"])
     \/ proc[r].at = "stores" /\ proc[r].stores = {} /\ Go(r, Done)
  /\ UNCHANGED <<data, wallet, sms, record, hit, edits, faults>>

\* No sender for this store (resolveSender throws): its contacts are passed over.
NoSender(r) ==
  /\ proc[r].at = "sender"
  /\ Fault
  /\ Go(r, [proc[r] EXCEPT !.at = "stores", !.todo = {}])
  /\ hit' = hit \cup proc[r].todo
  /\ UNCHANGED <<data, wallet, sms, record, edits>>

-----------------------------------------------------------------------------
(* sendSMSWithCredits, then the row of AutomationMessage. *)

\* What a sender goes on with after a contact.
NextContact(p) == IF p \in Runs THEN [proc[p] EXCEPT !.at = "contacts", !.to = "none"] ELSE Done

CheckSubscription(p) ==
  /\ proc[p].at = "subscription"
  /\ Go(p, [proc[p] EXCEPT !.at = IF active[OwnerOf[proc[p].to]] THEN "balance" ELSE "record"])
  /\ UNCHANGED <<data, wallet, sms, record, hit, edits, faults>>

\* Mutant of CheckBalance: the credit is taken before the message is sent.
CheckBalanceDebits(p) ==
  LET o == OwnerOf[proc[p].to]
  IN /\ proc[p].at = "balance"
     /\ wallet' = [wallet EXCEPT ![o] = IF @ < 1 THEN @ ELSE @ - 1]
     /\ Go(p, [proc[p] EXCEPT !.at = IF wallet[o] < 1 THEN "record" ELSE "send"])
     /\ UNCHANGED <<data, sms, record, hit, edits, faults>>

CheckBalance(p) ==
  /\ proc[p].at = "balance"
  /\ Go(p, [proc[p] EXCEPT !.at = IF wallet[OwnerOf[proc[p].to]] < 1 THEN "record" ELSE "send"])
  /\ UNCHANGED <<data, wallet, sms, record, hit, edits, faults>>

Accepted(p) == sms' = [sms EXCEPT ![proc[p].to][proc[p].kind] = @ + 1]

\* The provider accepts the message, or refuses it.
SendSingle(p) ==
  /\ proc[p].at = "send"
  /\ \/ Accepted(p) /\ Go(p, [proc[p] EXCEPT !.at = "debit", !.sent = TRUE])
     \/ sms' = sms /\ Go(p, [proc[p] EXCEPT !.at = "record"])
  /\ UNCHANGED <<data, wallet, record, hit, edits, faults>>

\* The provider accepts the message, and its answer is lost: it counts as not sent.
AnswerLost(p) ==
  /\ proc[p].at = "send"
  /\ Fault
  /\ Accepted(p)
  /\ Go(p, [proc[p] EXCEPT !.at = "record"])
  /\ UNCHANGED <<data, wallet, record, hit, edits>>

\* Debit once the message is out; when no credit is left the error is logged.
Debit(p) ==
  LET o == OwnerOf[proc[p].to]
  IN /\ proc[p].at = "debit"
     /\ wallet' = [wallet EXCEPT ![o] = IF @ >= 1 THEN @ - 1 ELSE @]
     /\ Go(p, [proc[p] EXCEPT !.at = "record"])
     /\ UNCHANGED <<data, sms, record, hit, edits, faults>>

CreateRecord(p) ==
  LET p0 == proc[p]
  IN /\ proc[p].at = "record"
     /\ record' = IF p0.sent THEN [record EXCEPT ![p0.to][p0.kind].sent = @ + 1]
                  ELSE [record EXCEPT ![p0.to][p0.kind].failed = @ + 1]
     /\ Go(p, NextContact(p))
     /\ UNCHANGED <<data, wallet, sms, hit, edits, faults>>

\* The debit, or the row, is refused: logged, and the sender goes on.
WriteFails(p) ==
  /\ proc[p].at \in {"debit", "record"}
  /\ Fault
  /\ IF proc[p].at = "debit"
     THEN Go(p, [proc[p] EXCEPT !.at = "record"]) /\ hit' = hit
     ELSE Go(p, NextContact(p)) /\ hit' = hit \cup {proc[p].to}
  /\ UNCHANGED <<data, wallet, sms, record, edits>>

\* Mutant of CheckFails: the error ends the store.
CheckFailsStore(p) ==
  /\ proc[p].at \in {"subscription", "balance"}
  /\ Fault
  /\ Go(p, IF p \in Runs THEN [NextContact(p) EXCEPT !.todo = {}] ELSE Done)
  /\ hit' = hit \cup {proc[p].to}
  /\ UNCHANGED <<data, wallet, sms, record, edits>>

\* A read fails before the message is sent: the contact is given up, without a row.
CheckFails(p) ==
  /\ proc[p].at \in {"subscription", "balance"}
  /\ Fault
  /\ Go(p, NextContact(p))
  /\ hit' = hit \cup {proc[p].to}
  /\ UNCHANGED <<data, wallet, sms, record, edits>>

\* The process dies, or reading a store's contacts throws: the whole run is over.
Dies(p) ==
  /\ proc[p] \notin {Idle, Done}
  /\ Fault
  /\ Go(p, Done)
  /\ hit' = hit \cup {c \in Contacts : OwnerOf[c] \in proc[p].stores}
                \cup proc[p].todo \cup ({proc[p].to} \cap Contacts)
  /\ UNCHANGED <<data, wallet, sms, record, edits>>

-----------------------------------------------------------------------------
SendStep(p) ==
  \/ CheckSubscription(p) \/ CheckBalance(p) \/ SendSingle(p) \/ Debit(p) \/ CreateRecord(p)

RunStep(r) ==
  \/ \E o \in proc[r].stores : VisitStore(r, o)
  \/ \E c \in proc[r].todo : VisitContact(r, c)
  \/ FindSender(r) \/ ListEnds(r)
  \/ SendStep(r)

WelcomeStep(c) == ReadWelcome(c) \/ SendStep(c)

SenderFails(p) == AnswerLost(p) \/ WriteFails(p) \/ CheckFails(p) \/ Dies(p)

Setting(p) ==
  \/ \E o \in Owners, k \in Kinds : FindAutomation(p, o, k)
  \/ \E o \in proc[p].stores : CreateAutomation(p, o) \/ ChangeAutomation(p, o)

Next ==
  \/ \E p \in Requests : Setting(p)
  \/ \E c \in Contacts : ChangeConsent(c) \/ AddContact(c) \/ WelcomeStep(c)
  \/ \E o \in Owners : ChangeSubscription(o)
  \/ \E r \in Runs : StartRun(r) \/ RunStep(r) \/ NoSender(r)
  \/ \E p \in Senders : SenderFails(p)

Spec == Init /\ [][Next]_vars

\* Both loops are ordinary code: a sender that has begun goes on while its process lives.
\* Nothing makes cron start a run, or a customer act.
FairSpec ==
  /\ Spec
  /\ \A r \in Runs : WF_vars(RunStep(r))
  /\ \A c \in Contacts : WF_vars(WelcomeStep(c))

-----------------------------------------------------------------------------
(* Properties *)

Spent(o) == Credits - wallet[o]
Of(o) == {c \in Contacts : OwnerOf[c] = o}
\* The messages that went out, and the rows that say sent, of each contact and kind, numbered.
Messages(o) == UNION {{x} \X (1..sms[x[1]][x[2]]) : x \in Of(o) \X Kinds}
SentRows(o) == UNION {{x} \X (1..record[x[1]][x[2]].sent) : x \in Of(o) \X Kinds}
Debiting(o) == {p \in Senders : proc[p].at = "debit" /\ OwnerOf[proc[p].to] = o}

\* Balances never fall below zero, and a process is where the code can be.
TypeOK ==
  /\ automation \in [Owners -> [Kinds -> {"none", "off", "on"}]]
  /\ contact \in [Contacts -> {"absent", "in", "out"}]
  /\ active \in [Owners -> BOOLEAN]
  /\ wallet \in [Owners -> 0..Credits]
  /\ sms \in [Contacts -> [Kinds -> Nat]]
  /\ record \in [Contacts -> [Kinds -> [sent : Nat, failed : Nat]]]
  /\ \A p \in Senders : /\ proc[p].stores \subseteq Owners /\ proc[p].todo \subseteq Born
                        /\ proc[p].at \in {"balance", "send", "debit", "record"} => proc[p].to \in Contacts
  /\ hit \subseteq Contacts /\ edits \in 0..MaxEdits /\ faults \in 0..MaxFaults

\* A store is never debited for a message that did not go out, whatever fails and however
\* welcomes and runs interleave (sendSMSWithCredits debits after the provider's answer).
NoCreditWithoutMessage ==
  \A o \in Owners : Spent(o) + Cardinality(Debiting(o)) <= Cardinality(Messages(o))

\* Without failures, once no message is being sent, the credits a store has spent, the
\* messages that went out and the rows that say sent are as many (sendSMSWithCredits and
\* the rows that triggerWelcomeAutomation and processBirthdayAutomations write).
BooksAgree ==
  faults = 0 /\ (\A p \in Senders : proc[p] \in {Idle, Done}) =>
    \A o \in Owners : /\ Spent(o) = Cardinality(Messages(o))
                       /\ Cardinality(Messages(o)) = Cardinality(SentRows(o))

\* A message only goes to a contact that is subscribed when it is sent (the claim of
\* AUTOMATIONS_IMPLEMENTATION.md about opt-in enforcement).
\* The code does not keep it (README, section 3).
OnlySubscribed ==
  [][\A c \in Contacts : sms'[c] # sms[c] => contact[c] = "in"]_vars

\* A contact gets one birthday message a day (birthday messages, sent by a daily job).
\* The code does not keep it (README, section 3).
BirthdayOnce == \A c \in Contacts : sms[c]["birthday"] <= 1

\* The failure of one contact, or one store, costs no other its message: once a run has
\* listed the active stores, every contact with a birthday is tried, unless it is unsubscribed
\* first or a failure hits its own turn (the loops of processBirthdayAutomations).
BirthdayTried ==
  \A r \in Runs : \A c \in Born :
    OwnerOf[c] \in proc[r].stores /\ contact[c] = "in"
      ~> \/ record[c]["birthday"].sent + record[c]["birthday"].failed > 0
         \/ contact[c] # "in" \/ c \in hit
=============================================================================
