---------------------------- MODULE AutomationsProofs ----------------------------
(***************************************************************************)
(* Proofs about Automations: a store is never debited for a message that   *)
(* did not go out, for any number of welcomes and runs that interleave and *)
(* whatever fails; and the books agree when one sender is at work.         *)
(***************************************************************************)
EXTENDS Automations, FiniteSetTheorems, TLAPS

-----------------------------------------------------------------------------
(* Types. *)

Steps == {"idle", "done", "create", "change", "welcome", "stores", "sender", "contacts",
          "subscription", "balance", "send", "debit", "record"}
Process == [at : Steps, kind : Kinds \cup {"none"}, stores : SUBSET Owners, todo : SUBSET Born,
            to : Contacts \cup {"none"}, sent : BOOLEAN]
Sending == {"welcome", "subscription", "balance", "send", "debit", "record"}

\* A process that sends has a contact to send to; what is sent is known before the row is
\* written, and no earlier.
Placed(r) ==
  /\ r \in Process
  /\ r.at \in Sending => r.to \in Contacts /\ r.kind \in Kinds
  /\ r.at \in {"create", "change", "stores", "sender", "contacts"} => r.kind \in Kinds
  /\ r.at \in {"welcome", "subscription", "balance", "send"} => ~ r.sent
  /\ r.at = "debit" => r.sent

Shape ==
  /\ automation \in [Owners -> [Kinds -> {"none", "off", "on"}]]
  /\ contact \in [Contacts -> {"absent", "in", "out"}]
  /\ active \in [Owners -> BOOLEAN]
  /\ wallet \in [Owners -> 0..Credits]
  /\ sms \in [Contacts -> [Kinds -> Nat]]
  /\ record \in [Contacts -> [Kinds -> [sent : Nat, failed : Nat]]]
  /\ proc \in [Processes -> Process] /\ \A p \in Processes : Placed(proc[p])
  /\ hit \subseteq Contacts /\ edits \in 0..MaxEdits /\ faults \in 0..MaxFaults

LEMMA Constants ==
  ASSUME AutomationsAssumption
  PROVE  /\ OwnerOf \in [Contacts -> Owners] /\ Present \subseteq Contacts /\ Born \subseteq Contacts
         /\ Credits \in Nat /\ MaxEdits \in Nat /\ MaxFaults \in Nat
  BY DEF AutomationsAssumption

LEMMA Resting ==
  /\ Idle \in Process /\ Placed(Idle) /\ Idle.at = "idle"
  /\ Done \in Process /\ Placed(Done) /\ Done.at = "done"
<1>1. Idle \in Process /\ Idle.at = "idle"
  BY DEF Idle, Process, Steps
<1>2. Done \in Process /\ Done.at = "done"
  BY <1>1 DEF Done, Process, Steps
<1> QED
  BY <1>1, <1>2 DEF Placed, Sending

LEMMA ShapeInit ==
  ASSUME AutomationsAssumption, Init
  PROVE  Shape
<1>1. wallet \in [Owners -> 0..Credits] /\ edits \in 0..MaxEdits /\ faults \in 0..MaxFaults
  BY Constants DEF Init
<1> QED
  BY <1>1, Resting DEF Init, Shape

\* How a process goes on, in the words of the proofs: it becomes r.
LEMMA Gone ==
  ASSUME Shape, NEW p \in Processes, NEW r, Placed(r), Go(p, r)
  PROVE  proc' \in [Processes -> Process] /\ \A q \in Processes : Placed(proc'[q])
<1>1. \A q \in Processes : proc'[q] = IF q = p THEN r ELSE proc[q]
  BY DEF Shape, Go
<1> QED
  BY <1>1 DEF Shape, Go, Placed

-----------------------------------------------------------------------------
(* What the steps have in common. *)

Busy == {p \in Senders : proc[p] \notin {Idle, Done}}
Moves(p, r) == p \in Processes /\ Placed(r) /\ Go(p, r)
Settings == UNCHANGED <<wallet, sms, record>> /\ hit' \subseteq Contacts /\ edits' \in 0..MaxEdits
            /\ automation' \in [Owners -> [Kinds -> {"none", "off", "on"}]]
            /\ contact' \in [Contacts -> {"absent", "in", "out"}]
            /\ active' \in [Owners -> BOOLEAN]

\* A step that costs nothing and sends nothing.  A sender that begins finds few others, and
\* one that is about to send has read that a credit is left.
Quiet(p, r) ==
  /\ Settings /\ faults' = faults /\ Moves(p, r)
  /\ proc[p].at \notin {"debit", "record"} /\ r.at # "debit" /\ (r.at = "record" => ~ r.sent)
  /\ r.at = "send" => wallet[OwnerOf[r.to]] >= 1
  /\ p \in Senders /\ proc[p] \in {Idle, Done} /\ r \notin {Idle, Done} => Cardinality(Busy) < MaxActive

\* A change of settings, consent or subscription.
Elsewhere == Settings /\ UNCHANGED <<proc, faults>>

\* The message goes out; it is paid for; it is recorded.
Sends(p, r) ==
  /\ p \in Senders /\ proc[p].at = "send" /\ Accepted(p) /\ Moves(p, r)
  /\ r.at = "debit" /\ r.to = proc[p].to
  /\ UNCHANGED <<data, wallet, record, hit, edits, faults>>
Debits(p, r) ==
  /\ p \in Senders /\ Debit(p) /\ Moves(p, r) /\ r.at = "record" /\ r.to = proc[p].to /\ r.sent
Records(p, r) ==
  /\ p \in Senders /\ CreateRecord(p) /\ Moves(p, r) /\ r.at \in {"contacts", "done"}

\* Something fails: a message may have gone out all the same.
Fails(p, r) ==
  /\ p \in Senders /\ Fault /\ Moves(p, r)
  /\ UNCHANGED <<data, wallet, record, edits>> /\ hit' \subseteq Contacts
  /\ proc[p] \notin {Idle, Done} /\ r.at \notin {"debit", "send"}
  /\ sms' = sms \/ (proc[p].at = "send" /\ Accepted(p))

LEMMA PlacedAt ==
  ASSUME NEW r, Placed(r)
  PROVE  /\ r \in Process /\ r.at \in Steps /\ r.stores \subseteq Owners /\ r.todo \subseteq Born
         /\ [r EXCEPT !.at = "record"].at = "record" /\ [r EXCEPT !.at = "record"].sent = r.sent
         /\ [r EXCEPT !.at = "record"].to = r.to
         /\ r.at \in Sending => /\ Placed([r EXCEPT !.at = "record"])
                                /\ [r EXCEPT !.at = "contacts", !.to = "none"].at = "contacts"
                                /\ Placed([r EXCEPT !.at = "contacts", !.to = "none"])
<1>1. r \in Process
  BY DEF Placed
<1>2. /\ [r EXCEPT !.at = "record"] \in Process
      /\ [r EXCEPT !.at = "contacts", !.to = "none"] \in Process
  BY <1>1 DEF Process, Steps
<1>3. /\ [r EXCEPT !.at = "record"].at = "record" /\ [r EXCEPT !.at = "record"].sent = r.sent
      /\ [r EXCEPT !.at = "record"].to = r.to /\ [r EXCEPT !.at = "record"].kind = r.kind
      /\ [r EXCEPT !.at = "contacts", !.to = "none"].at = "contacts"
      /\ [r EXCEPT !.at = "contacts", !.to = "none"].kind = r.kind
  BY <1>1 DEF Process
<1>4. r.at \in Steps /\ r.stores \subseteq Owners /\ r.todo \subseteq Born
  BY <1>1 DEF Process
<1> QED
  BY <1>1, <1>2, <1>3, <1>4 DEF Placed, Sending

\* After a contact.
LEMMA Nexts ==
  ASSUME Shape, NEW p \in Senders, proc[p].at \in Sending
  PROVE  Placed(NextContact(p)) /\ NextContact(p).at \in {"contacts", "done"}
<1>1. Placed(proc[p])
  BY DEF Shape, Processes
<1> QED
  BY <1>1, PlacedAt, Resting DEF NextContact

LEMMA Counted ==
  ASSUME AutomationsAssumption, Shape
  PROVE  (Edit => edits' \in 0..MaxEdits) /\ (Fault => faults' \in 0..MaxFaults)
  BY Constants DEF Edit, Fault, Shape

LEMMA SettingSteps ==
  ASSUME AutomationsAssumption, Shape, NEW p \in Requests, Setting(p)
  PROVE  \E r : Quiet(p, r)
<1>0. p \in Processes /\ p \notin Senders /\ Placed(proc[p]) /\ proc[p] \in Process
  BY DEF Shape, Processes, Placed, AutomationsAssumption, Senders
<1>1. ASSUME NEW o \in Owners, NEW k \in Kinds, FindAutomation(p, o, k)
      PROVE  \E r : Quiet(p, r)
  <2> DEFINE r == [Idle EXCEPT !.at = IF automation[o][k] = "none" THEN "create" ELSE "change",
                               !.kind = k, !.stores = {o}]
  <2>1. r \in Process /\ r.at \in {"create", "change"} /\ r.kind = k
    BY Resting DEF Process, Steps
  <2>2. proc[p].at = "idle" /\ Go(p, r)
    BY <1>1, Resting DEF FindAutomation
  <2>3. Settings /\ faults' = faults
    BY <1>1, Counted DEF FindAutomation, Settings, data, Shape
  <2> HIDE DEF r
  <2>4. Placed(r)
    BY <2>1 DEF Placed, Sending
  <2> QED
    BY <1>0, <2>1, <2>2, <2>3, <2>4 DEF Quiet, Moves
<1>2. ASSUME NEW o \in proc[p].stores, CreateAutomation(p, o)
      PROVE  \E r : Quiet(p, r)
  <2> DEFINE k == proc[p].kind
             r == IF automation[o][k] = "none" THEN [proc[p] EXCEPT !.at = "change"] ELSE Done
  <2>1. r \in Process /\ r.at \in {"change", "done"} /\ (r.at = "change" => r.kind = proc[p].kind)
    BY <1>0, Resting DEF Process, Steps
  <2>2. proc[p].at = "create" /\ Go(p, r) /\ k \in Kinds /\ o \in Owners
    BY <1>0, <1>2 DEF CreateAutomation, Placed, Process
  <2>3. automation' \in [Owners -> [Kinds -> {"none", "off", "on"}]]
    <3> DEFINE x == [automation[o] EXCEPT ![k] = IF @ = "none" THEN "off" ELSE @]
    <3>1. automation' = [automation EXCEPT ![o] = x]
      BY <1>2 DEF CreateAutomation
    <3>2. x \in [Kinds -> {"none", "off", "on"}]
      BY <2>2 DEF Shape
    <3> HIDE DEF x
    <3> QED
      BY <3>1, <3>2 DEF Shape
  <2>4. Settings /\ faults' = faults
    BY <1>2, <2>3 DEF CreateAutomation, Settings, Shape
  <2> HIDE DEF r
  <2>5. Placed(r)
    BY <2>1, <2>2 DEF Placed, Sending
  <2> QED
    BY <1>0, <2>1, <2>2, <2>4, <2>5 DEF Quiet, Moves
<1>3. ASSUME NEW o \in proc[p].stores, ChangeAutomation(p, o)
      PROVE  \E r : Quiet(p, r)
  <2>2. proc[p].at = "change" /\ Go(p, Done) /\ proc[p].kind \in Kinds /\ o \in Owners
    BY <1>0, <1>3 DEF ChangeAutomation, Placed, Process
  <2>3. automation' \in [Owners -> [Kinds -> {"none", "off", "on"}]]
    <3>1. PICK x \in {"on", "off"} : automation' = [automation EXCEPT ![o][proc[p].kind] = x]
      BY <1>3 DEF ChangeAutomation
    <3> QED
      BY <2>2, <3>1 DEF Shape
  <2>4. Settings /\ faults' = faults
    BY <1>3, <2>3 DEF ChangeAutomation, Settings, Shape
  <2> QED
    BY <1>0, <2>2, <2>4, Resting DEF Quiet, Moves
<1> QED
  BY <1>1, <1>2, <1>3 DEF Setting

LEMMA CustomerSteps ==
  ASSUME AutomationsAssumption, Shape,
         (\E c \in Contacts : ChangeConsent(c)) \/ (\E o \in Owners : ChangeSubscription(o))
  PROVE  Elsewhere
<1>1. ASSUME NEW c \in Contacts, ChangeConsent(c)
      PROVE  Elsewhere
  BY <1>1, Counted DEF ChangeConsent, Elsewhere, Settings, Shape
<1>2. ASSUME NEW o \in Owners, ChangeSubscription(o)
      PROVE  Elsewhere
  <2>1. active' \in [Owners -> BOOLEAN]
    BY <1>2 DEF ChangeSubscription, Shape
  <2> QED
    BY <1>2, <2>1, Counted DEF ChangeSubscription, Elsewhere, Settings, Shape
<1> QED
  BY <1>1, <1>2

\* A run and a welcome, until a message is sent.
LEMMA LoopSteps ==
  ASSUME AutomationsAssumption, Shape, NEW p \in Senders,
         \/ p \in Contacts /\ (AddContact(p) \/ ReadWelcome(p))
         \/ p \in Runs /\ \/ StartRun(p) \/ FindSender(p) \/ ListEnds(p)
                          \/ \E o \in proc[p].stores : VisitStore(p, o)
                          \/ \E c \in proc[p].todo : VisitContact(p, c)
  PROVE  \E r : Quiet(p, r)
<1>0. p \in Processes /\ Placed(proc[p]) /\ proc[p] \in Process /\ Born \subseteq Contacts
  BY Constants DEF Shape, Processes, Placed
<1>1. CASE p \in Contacts /\ AddContact(p)
  <2> DEFINE r == [Idle EXCEPT !.at = "welcome", !.kind = "welcome", !.to = p]
  <2>1. /\ r \in Process /\ r.at = "welcome" /\ r.kind \in Kinds /\ r.to \in Contacts /\ ~ r.sent
        /\ proc[p].at = "idle" /\ Go(p, r)
    BY <1>1, Resting DEF AddContact, Begin, Process, Steps, Kinds, Idle
  <2>2. Settings /\ faults' = faults /\ Cardinality(Busy) < MaxActive
    BY <1>1 DEF AddContact, Begin, Settings, Shape, Busy
  <2> HIDE DEF r
  <2>3. Placed(r)
    BY <2>1 DEF Placed, Sending
  <2> QED
    BY <1>0, <2>1, <2>2, <2>3 DEF Quiet, Moves
<1>2. CASE p \in Runs /\ StartRun(p)
  <2> DEFINE r == [Idle EXCEPT !.at = "stores", !.kind = "birthday",
                               !.stores = {o \in Owners : automation[o]["birthday"] = "on"}]
  <2>1. /\ r \in Process /\ r.at = "stores" /\ r.kind \in Kinds
        /\ proc[p].at = "idle" /\ Go(p, r)
    BY <1>2, Resting DEF StartRun, Begin, Process, Steps, Kinds, Idle
  <2>2. Settings /\ faults' = faults /\ Cardinality(Busy) < MaxActive
    BY <1>2 DEF StartRun, Begin, Settings, Shape, Busy, data
  <2> HIDE DEF r
  <2>3. Placed(r)
    BY <2>1 DEF Placed, Sending
  <2> QED
    BY <1>0, <2>1, <2>2, <2>3 DEF Quiet, Moves
<1>3. CASE \/ p \in Contacts /\ ReadWelcome(p)
           \/ p \in Runs /\ \/ FindSender(p) \/ ListEnds(p)
                            \/ \E o \in proc[p].stores : VisitStore(p, o)
                            \/ \E c \in proc[p].todo : VisitContact(p, c)
  <2>1. /\ Settings /\ faults' = faults
        /\ proc[p].at \in {"welcome", "sender", "contacts", "stores"}
    BY <1>3 DEF ReadWelcome, FindSender, ListEnds, VisitStore, VisitContact, Settings, Shape, data
  <2>2. PICK r : Placed(r) /\ Go(p, r) /\ r.at \notin {"debit", "record", "send"}
    <3>1. CASE ReadWelcome(p)
      BY <1>0, <3>1, Resting DEF ReadWelcome, Placed, Process, Steps, Sending
    <3>2. CASE FindSender(p)
      BY <1>0, <3>2 DEF FindSender, Placed, Process, Steps, Sending
    <3>3. CASE ListEnds(p)
      BY <1>0, <3>3, Resting DEF ListEnds, Placed, Process, Steps, Sending
    <3>4. ASSUME NEW o \in proc[p].stores, VisitStore(p, o)
          PROVE  \E r : Placed(r) /\ Go(p, r) /\ r.at \notin {"debit", "record", "send"}
      <4> DEFINE todo == {c \in Born : OwnerOf[c] = o /\ contact[c] = "in"}
                 r == [proc[p] EXCEPT !.at = IF todo = {} THEN "stores" ELSE "sender",
                                      !.stores = @ \ {o}, !.todo = todo]
      <4>1. r \in Process /\ r.at \in {"stores", "sender"} /\ r.kind = proc[p].kind
        BY <1>0 DEF Process, Steps
      <4>2. Go(p, r) /\ proc[p].at = "stores"
        BY <3>4 DEF VisitStore
      <4> HIDE DEF r
      <4>3. Placed(r)
        BY <1>0, <4>1, <4>2 DEF Placed, Sending
      <4> QED
        BY <4>1, <4>2, <4>3
    <3>5. ASSUME NEW c \in proc[p].todo, VisitContact(p, c)
          PROVE  \E r : Placed(r) /\ Go(p, r) /\ r.at \notin {"debit", "record", "send"}
      <4> DEFINE r == [proc[p] EXCEPT !.at = "subscription", !.todo = @ \ {c}, !.to = c, !.sent = FALSE]
      <4>1. c \in Contacts
        BY <1>0 DEF Process
      <4>2. /\ r \in Process /\ r.at = "subscription" /\ r.kind = proc[p].kind /\ r.to = c
            /\ r.sent = FALSE
        BY <1>0, <4>1 DEF Process, Steps
      <4>3. Go(p, r) /\ proc[p].at = "contacts"
        BY <3>5 DEF VisitContact
      <4> HIDE DEF r
      <4>4. Placed(r)
        BY <1>0, <4>1, <4>2, <4>3 DEF Placed, Sending
      <4> QED
        BY <4>2, <4>3, <4>4
    <3> QED
      BY <1>3, <3>1, <3>2, <3>3, <3>4, <3>5
  <2>3. proc[p] \notin {Idle, Done}
    BY <2>1, Resting
  <2> QED
    BY <1>0, <2>1, <2>2, <2>3 DEF Quiet, Moves
<1> QED
  BY <1>1, <1>2, <1>3

\* The steps of sendSMSWithCredits, and the row.
LEMMA MessageSteps ==
  ASSUME AutomationsAssumption, Shape, NEW p \in Senders, SendStep(p)
  PROVE  \E r : Quiet(p, r) \/ Sends(p, r) \/ Debits(p, r) \/ Records(p, r)
<1>0. /\ p \in Processes /\ Placed(proc[p]) /\ proc[p] \in Process
      /\ Placed([proc[p] EXCEPT !.at = "record"])
      /\ proc[p].at \in Sending /\ proc[p] \notin {Idle, Done}
  <2>1. p \in Processes /\ Placed(proc[p])
    BY DEF Shape, Processes
  <2>2. proc[p].at \in Sending
    BY DEF SendStep, CheckSubscription, CheckBalance, SendSingle, Debit, CreateRecord, Sending
  <2> QED
    BY <2>1, <2>2, PlacedAt, Resting DEF Placed, Sending
<1>a. \A x \in {"balance", "send"} : LET r == [proc[p] EXCEPT !.at = x]
                                     IN  /\ r.at = x /\ r.to = proc[p].to /\ r.sent = proc[p].sent
                                         /\ proc[p].at \in {"subscription", "balance"} => Placed(r)
  BY <1>0 DEF Placed, Process, Steps, Sending
<1>b. LET r == [proc[p] EXCEPT !.at = "record"]
      IN  r.at = "record" /\ r.to = proc[p].to /\ r.sent = proc[p].sent
  BY <1>0 DEF Process
<1>1. CASE CheckSubscription(p)
  <2>1. Settings /\ faults' = faults /\ proc[p].at = "subscription" /\ ~ proc[p].sent
    BY <1>0, <1>1 DEF CheckSubscription, Settings, data, Shape, Placed
  <2>2. PICK x \in {"balance", "record"} : Go(p, [proc[p] EXCEPT !.at = x])
    BY <1>1 DEF CheckSubscription
  <2> DEFINE r == [proc[p] EXCEPT !.at = x]
  <2>3. Placed(r) /\ r.at = x /\ r.sent = proc[p].sent
    BY <1>0, <1>a, <1>b, <2>1, <2>2
  <2> HIDE DEF r
  <2>4. Quiet(p, r)
    BY <1>0, <2>1, <2>2, <2>3 DEF Quiet, Moves, r
  <2> QED
    BY <2>4
<1>2. CASE CheckBalance(p)
  <2>1. Settings /\ faults' = faults /\ proc[p].at = "balance" /\ ~ proc[p].sent
        /\ proc[p].to \in Contacts
    BY <1>0, <1>2 DEF CheckBalance, Settings, data, Shape, Placed, Sending
  <2>2. PICK x \in {"send", "record"} : /\ Go(p, [proc[p] EXCEPT !.at = x])
                                        /\ x = "send" => ~ (wallet[OwnerOf[proc[p].to]] < 1)
    BY <1>2 DEF CheckBalance
  <2>3. x = "send" => wallet[OwnerOf[proc[p].to]] >= 1
    <3>1. wallet[OwnerOf[proc[p].to]] \in 0..Credits
      BY <2>1, Constants DEF Shape
    <3> QED
      BY <2>2, <3>1, Constants
  <2> DEFINE r == [proc[p] EXCEPT !.at = x]
  <2>4. Placed(r) /\ r.at = x /\ r.sent = proc[p].sent /\ r.to = proc[p].to
    BY <1>0, <1>a, <1>b, <2>1, <2>2
  <2> HIDE DEF r
  <2>5. Quiet(p, r)
    BY <1>0, <2>1, <2>2, <2>3, <2>4 DEF Quiet, Moves, r
  <2> QED
    BY <2>5
<1>3. CASE SendSingle(p)
  <2>1. CASE Accepted(p) /\ Go(p, [proc[p] EXCEPT !.at = "debit", !.sent = TRUE])
    <3> DEFINE r == [proc[p] EXCEPT !.at = "debit", !.sent = TRUE]
    <3>1. r \in Process /\ r.at = "debit" /\ r.sent /\ r.to = proc[p].to /\ r.kind = proc[p].kind
      BY <1>0 DEF Process, Steps
    <3>2. Go(p, r)
      BY <2>1
    <3> HIDE DEF r
    <3>3. Placed(r)
      BY <1>0, <3>1 DEF Placed, Sending
    <3>4. Sends(p, r)
      BY <1>0, <1>3, <2>1, <3>1, <3>2, <3>3 DEF Sends, Moves, SendSingle
    <3> QED
      BY <3>4
  <2>2. CASE sms' = sms /\ Go(p, [proc[p] EXCEPT !.at = "record"])
    <3>1. Settings /\ faults' = faults /\ proc[p].at = "send" /\ ~ proc[p].sent
      BY <1>0, <1>3, <2>2 DEF SendSingle, Settings, data, Shape, Placed
    <3> QED
      BY <1>0, <1>b, <2>2, <3>1 DEF Quiet, Moves
  <2> QED
    BY <1>3, <2>1, <2>2 DEF SendSingle
<1>4. CASE Debit(p)
  <2>1. proc[p].at = "debit" /\ proc[p].sent
    BY <1>0, <1>4 DEF Debit, Placed
  <2> QED
    BY <1>0, <1>b, <1>4, <2>1 DEF Debits, Moves, Debit
<1>5. CASE CreateRecord(p)
  BY <1>0, <1>5, Nexts DEF Records, Moves, CreateRecord
<1> QED
  BY <1>1, <1>2, <1>3, <1>4, <1>5 DEF SendStep

\* What can fail.
LEMMA FaultSteps ==
  ASSUME AutomationsAssumption, Shape, NEW p \in Senders,
         SenderFails(p) \/ (p \in Runs /\ NoSender(p))
  PROVE  \E r : Fails(p, r)
<1>0. /\ p \in Processes /\ Placed(proc[p]) /\ proc[p] \in Process /\ Born \subseteq Contacts
      /\ (proc[p].at \in Sending => Placed([proc[p] EXCEPT !.at = "record"]))
      /\ [proc[p] EXCEPT !.at = "record"].at = "record"
      /\ hit \subseteq Contacts /\ proc[p].todo \subseteq Contacts
  <2>1. p \in Processes /\ Placed(proc[p]) /\ hit \subseteq Contacts
    BY DEF Shape, Processes
  <2> QED
    BY <2>1, PlacedAt, Constants
<1>1. CASE AnswerLost(p)
  <2>1. proc[p].at = "send" /\ proc[p] \notin {Idle, Done}
    BY <1>1, Resting DEF AnswerLost
  <2> QED
    BY <1>0, <1>1, <2>1 DEF AnswerLost, Fails, Moves, Sending
<1>2. CASE WriteFails(p)
  <2>1. proc[p].at \in {"debit", "record"} /\ proc[p] \notin {Idle, Done} /\ proc[p].to \in Contacts
    BY <1>0, <1>2, Resting DEF WriteFails, Placed, Sending
  <2> QED
    BY <1>0, <1>2, <2>1, Nexts DEF WriteFails, Fails, Moves, Sending
<1>3. CASE CheckFails(p)
  <2>1. proc[p].at \in {"subscription", "balance"} /\ proc[p] \notin {Idle, Done}
            /\ proc[p].to \in Contacts
    BY <1>0, <1>3, Resting DEF CheckFails, Placed, Sending
  <2> QED
    BY <1>0, <1>3, <2>1, Nexts DEF CheckFails, Fails, Moves, Sending
<1>4. CASE Dies(p)
  BY <1>0, <1>4, Resting DEF Dies, Fails, Moves
<1>5. CASE NoSender(p)
  <2> DEFINE r == [proc[p] EXCEPT !.at = "stores", !.todo = {}]
  <2>1. r \in Process /\ r.at = "stores" /\ r.kind = proc[p].kind
    BY <1>0 DEF Process, Steps
  <2>2. proc[p].at = "sender" /\ Go(p, r) /\ proc[p] \notin {Idle, Done}
    BY <1>5, Resting DEF NoSender
  <2> HIDE DEF r
  <2>3. Placed(r)
    BY <1>0, <2>1, <2>2 DEF Placed, Sending
  <2> QED
    BY <1>0, <1>5, <2>1, <2>2, <2>3 DEF NoSender, Fails, Moves
<1> QED
  BY <1>1, <1>2, <1>3, <1>4, <1>5 DEF SenderFails

\* Every step is one of these.
LEMMA StepsAre ==
  ASSUME AutomationsAssumption, Shape, Next
  PROVE  \/ Elsewhere
         \/ \E p, r : Quiet(p, r) \/ Sends(p, r) \/ Debits(p, r) \/ Records(p, r) \/ Fails(p, r)
<1>1. ASSUME NEW c \in Contacts, AddContact(c) \/ WelcomeStep(c)
      PROVE  \E p, r : Quiet(p, r) \/ Sends(p, r) \/ Debits(p, r) \/ Records(p, r)
  BY <1>1, LoopSteps, MessageSteps DEF WelcomeStep, Senders
<1>2. ASSUME NEW p \in Runs, StartRun(p) \/ RunStep(p)
      PROVE  \E q, r : Quiet(q, r) \/ Sends(q, r) \/ Debits(q, r) \/ Records(q, r)
  BY <1>2, LoopSteps, MessageSteps DEF RunStep, Senders
<1>3. ASSUME NEW p \in Senders, SenderFails(p) \/ (p \in Runs /\ NoSender(p))
      PROVE  \E q, r : Fails(q, r)
  BY <1>3, FaultSteps
<1> QED
  BY <1>1, <1>2, <1>3, SettingSteps, CustomerSteps DEF Next, Senders

LEMMA ShapeStep ==
  ASSUME AutomationsAssumption, Shape, [Next]_vars
  PROVE  Shape'
<1>1. CASE Elsewhere
  BY <1>1 DEF Elsewhere, Settings, Shape
<1>2. ASSUME NEW p, NEW r, Quiet(p, r)
      PROVE  Shape'
  <2>1. proc' \in [Processes -> Process] /\ \A q \in Processes : Placed(proc'[q])
    BY <1>2, Gone DEF Quiet, Moves
  <2> QED
    BY <1>2, <2>1 DEF Quiet, Settings, Shape
<1>3. ASSUME NEW p, NEW r, Sends(p, r) \/ Fails(p, r)
      PROVE  Shape'
  <2>1. proc' \in [Processes -> Process] /\ \A q \in Processes : Placed(proc'[q])
    BY <1>3, Gone DEF Sends, Fails, Moves
  <2>2. sms' \in [Contacts -> [Kinds -> Nat]]
    <3>1. CASE Accepted(p) /\ proc[p].at = "send"
      <4>1. proc[p].to \in Contacts /\ proc[p].kind \in Kinds
        BY <1>3, <3>1 DEF Sends, Fails, Moves, Shape, Placed, Sending
      <4> QED
        BY <3>1, <4>1 DEF Accepted, Shape
    <3> QED
      BY <1>3, <3>1 DEF Sends, Fails, Shape
  <2>3. hit' \subseteq Contacts /\ UNCHANGED <<data, wallet, record, edits>>
    BY <1>3 DEF Sends, Fails, Shape
  <2>4. faults' \in 0..MaxFaults
    BY <1>3, Counted DEF Sends, Fails, Shape
  <2> QED
    BY <2>1, <2>2, <2>3, <2>4 DEF Shape, data
<1>4. ASSUME NEW p, NEW r, Debits(p, r)
      PROVE  Shape'
  <2>1. proc' \in [Processes -> Process] /\ \A q \in Processes : Placed(proc'[q])
    BY <1>4, Gone DEF Debits, Moves
  <2>2. wallet' \in [Owners -> 0..Credits]
    <3>1. OwnerOf[proc[p].to] \in Owners
      BY <1>4, Constants DEF Debits, Moves, Shape, Placed, Sending, Debit
    <3>2. \A n \in 0..Credits : (IF n >= 1 THEN n - 1 ELSE n) \in 0..Credits
      BY Constants
    <3> QED
      BY <1>4, <3>1, <3>2 DEF Debits, Debit, Shape
  <2> QED
    BY <1>4, <2>1, <2>2 DEF Debits, Debit, Shape, data
<1>5. ASSUME NEW p, NEW r, Records(p, r)
      PROVE  Shape'
  <2>1. proc' \in [Processes -> Process] /\ \A q \in Processes : Placed(proc'[q])
    BY <1>5, Gone DEF Records, Moves
  <2>2. record' \in [Contacts -> [Kinds -> [sent : Nat, failed : Nat]]]
    <3>1. proc[p].to \in Contacts /\ proc[p].kind \in Kinds
      BY <1>5 DEF Records, Moves, Shape, Placed, Sending, CreateRecord
    <3> DEFINE c == proc[p].to
               k == proc[p].kind
               x == record[c][k]
    <3>2. x \in [sent : Nat, failed : Nat]
      BY <3>1 DEF Shape
    <3>3. \E y \in [sent : Nat,
              failed : Nat] : record' = [record EXCEPT ![c] = [record[c] EXCEPT ![k] = y]]
      <4>1. CASE proc[p].sent
        <5>1. [x EXCEPT !.sent = @ + 1] \in [sent : Nat, failed : Nat]
          BY <3>2
        <5> QED
          BY <1>5, <4>1, <5>1 DEF Records, CreateRecord
      <4>2. CASE ~ proc[p].sent
        <5>1. [x EXCEPT !.failed = @ + 1] \in [sent : Nat, failed : Nat]
          BY <3>2
        <5> QED
          BY <1>5, <4>2, <5>1 DEF Records, CreateRecord
      <4> QED
        BY <4>1, <4>2
    <3> QED
      BY <3>1, <3>3 DEF Shape
  <2> QED
    BY <1>5, <2>1, <2>2 DEF Records, CreateRecord, Shape, data
<1>6. CASE UNCHANGED vars
  BY <1>6 DEF vars, Shape
<1> QED
  BY <1>1, <1>2, <1>3, <1>4, <1>5, <1>6, StepsAre

-----------------------------------------------------------------------------
(* Counting messages. *)

\* The messages of a store, when f tells how many there are for each contact and kind.
Numbered(f, o) == UNION {{x} \X (1..f[x[1]][x[2]]) : x \in Of(o) \X Kinds}
Counts == [Contacts -> [Kinds -> Nat]]

LEMMA Member ==
  ASSUME NEW f, NEW o
  PROVE  /\ \A c \in Of(o), k \in Kinds : \A i \in 1..f[c][k] : <<<<c, k>>, i>> \in Numbered(f, o)
         /\ \A x \in Numbered(f, o) :
              \E c \in Of(o), k \in Kinds : \E i \in 1..f[c][k] : x = <<<<c, k>>, i>>
<1>1. ASSUME NEW c \in Of(o), NEW k \in Kinds, NEW i \in 1..f[c][k]
      PROVE  <<<<c, k>>, i>> \in Numbered(f, o)
  <2> DEFINE x == <<c, k>>
  <2>1. x \in Of(o) \X Kinds /\ <<x, i>> \in {x} \X (1..f[x[1]][x[2]])
    OBVIOUS
  <2> HIDE DEF x
  <2>2. <<x, i>> \in Numbered(f, o)
    BY <2>1 DEF Numbered
  <2> QED
    BY <2>2 DEF x
<1>2. ASSUME NEW y \in Numbered(f, o)
      PROVE  \E c \in Of(o), k \in Kinds : \E i \in 1..f[c][k] : y = <<<<c, k>>, i>>
  <2>1. PICK x \in Of(o) \X Kinds : y \in {x} \X (1..f[x[1]][x[2]])
    BY DEF Numbered
  <2>2. PICK c \in Of(o), k \in Kinds : x = <<c, k>>
    OBVIOUS
  <2> QED
    BY <2>1, <2>2
<1> QED
  BY <1>1, <1>2

LEMMA NoneYet ==
  ASSUME NEW f \in Counts, NEW o \in Owners, \A c \in Contacts, k \in Kinds : f[c][k] = 0
  PROVE  IsFiniteSet(Numbered(f, o)) /\ Cardinality(Numbered(f, o)) = 0
<1>1. Numbered(f, o) = {}
  BY DEF Numbered, Of
<1> QED
  BY <1>1, FS_EmptySet

\* One more is sent to c, of kind k.
Grows(f, g, c, k) == \A d \in Contacts, l \in Kinds :
                       g[d][l] = IF d = c /\ l = k THEN f[d][l] + 1 ELSE f[d][l]

LEMMA OneMore ==
  ASSUME NEW f \in Counts, NEW c \in Contacts, NEW k \in Kinds, NEW g \in Counts,
         Grows(f, g, c, k), NEW o \in Owners, IsFiniteSet(Numbered(f, o))
  PROVE  /\ IsFiniteSet(Numbered(g, o))
         /\ Cardinality(Numbered(g, o)) = Cardinality(Numbered(f, o)) + (IF OwnerOf[c] = o THEN 1 ELSE 0)
<1>2. \A d \in Contacts, l \in Kinds : g[d][l] = IF d = c /\ l = k THEN f[d][l] + 1 ELSE f[d][l]
  BY DEF Grows
<1>3. f[c][k] \in Nat
  BY DEF Counts
<1>4. CASE OwnerOf[c] # o
  <2>1. \A d \in Of(o), l \in Kinds : g[d][l] = f[d][l]
    BY <1>2, <1>4 DEF Of
  <2>2. Numbered(g, o) = Numbered(f, o)
    BY <2>1 DEF Numbered
  <2> QED
    BY <1>4, <2>2, FS_CardinalityType
<1>5. CASE OwnerOf[c] = o
  <2> DEFINE n == <<<<c, k>>, f[c][k] + 1>>
  <2>1. Numbered(g, o) = Numbered(f, o) \cup {n}
    <3>1. ASSUME NEW d \in Of(o), NEW l \in Kinds, NEW i \in 1..g[d][l]
          PROVE  <<<<d, l>>, i>> \in Numbered(f, o) \cup {n}
      <4>1. CASE i \in 1..f[d][l]
        BY <4>1, Member
      <4>2. CASE i \notin 1..f[d][l]
        <5>1. d = c /\ l = k
          BY <1>2, <4>2 DEF Of
        <5>2. i = f[c][k] + 1
          BY <1>2, <1>3, <4>2, <5>1
        <5> QED
          BY <5>1, <5>2
      <4> QED
        BY <4>1, <4>2
    <3>2. n \in Numbered(g, o)
      <4>1. f[c][k] + 1 \in 1..g[c][k] /\ c \in Of(o)
        BY <1>2, <1>3, <1>5 DEF Of
      <4>2. \A i \in 1..g[c][k] : <<<<c, k>>, i>> \in Numbered(g, o)
        BY <4>1, Member
      <4> QED
        BY <4>1, <4>2
    <3>3. ASSUME NEW d \in Of(o), NEW l \in Kinds, NEW i \in 1..f[d][l]
          PROVE  <<<<d, l>>, i>> \in Numbered(g, o)
      <4>1. i \in 1..g[d][l]
        <5>1. f[d][l] \in Nat
          BY DEF Counts, Of
        <5>2. g[d][l] = f[d][l] + 1 \/ g[d][l] = f[d][l]
          BY <1>2 DEF Of
        <5> QED
          BY <5>1, <5>2
      <4> QED
        BY <4>1, Member
    <3>4. ASSUME NEW y \in Numbered(g, o)
          PROVE  y \in Numbered(f, o) \cup {n}
      <4>1. PICK d \in Of(o), l \in Kinds : \E i \in 1..g[d][l] : y = <<<<d, l>>, i>>
        BY Member
      <4> QED
        BY <3>1, <4>1
    <3>5. ASSUME NEW y \in Numbered(f, o)
          PROVE  y \in Numbered(g, o)
      <4>1. PICK d \in Of(o), l \in Kinds : \E i \in 1..f[d][l] : y = <<<<d, l>>, i>>
        BY Member
      <4> QED
        BY <3>3, <4>1
    <3> QED
      BY <3>2, <3>4, <3>5
  <2>2. n \notin Numbered(f, o)
    BY <1>3, Member DEF Of
  <2> HIDE DEF n
  <2> QED
    <3>1. /\ IsFiniteSet(Numbered(f, o) \cup {n})
          /\ Cardinality(Numbered(f, o) \cup {n}) = Cardinality(Numbered(f, o)) + 1
      BY <2>2, FS_AddElement
    <3> QED
      BY <1>5, <2>1, <3>1
<1> QED
  BY <1>4, <1>5
-----------------------------------------------------------------------------
(* Processes at a step of the code. *)

\* The processes that are at step a for the store: those that debit, and those that record
\* a message that went out.
At(a, o) == {p \in Senders : proc[p].at = a /\ proc[p].sent /\ OwnerOf[proc[p].to] = o}

LEMMA DebitingIs ==
  ASSUME Shape, NEW o
  PROVE  Debiting(o) = At("debit", o)
  BY DEF Debiting, At, Shape, Placed, Senders, Processes

LEMMA AtNext ==
  ASSUME Shape, NEW p, NEW r, Moves(p, r), NEW a, NEW o
  PROVE  At(a, o)' = (At(a, o) \ {p})
           \cup (IF p \in Senders /\ r.at = a /\ r.sent /\ OwnerOf[r.to] = o THEN {p} ELSE {})
<1>1. \A q \in Processes : proc'[q] = IF q = p THEN r ELSE proc[q]
  BY DEF Moves, Go, Shape
<1> QED
  BY <1>1 DEF At, Senders, Processes, Moves

\* The number of processes at a step, after one of them has moved.
LEMMA AtCounts ==
  ASSUME Shape, NEW p, NEW r, Moves(p, r), NEW a, NEW o, IsFiniteSet(At(a, o))
  PROVE  /\ IsFiniteSet(At(a, o)')
         /\ Cardinality(At(a, o)') =
              Cardinality(At(a, o)) - (IF p \in At(a, o) THEN 1 ELSE 0)
                + (IF p \in Senders /\ r.at = a /\ r.sent /\ OwnerOf[r.to] = o THEN 1 ELSE 0)
<1> DEFINE S == At(a, o)
           T == At(a, o)'
<1>1. T = (S \ {p}) \cup (IF p \in Senders /\ r.at = a /\ r.sent /\ OwnerOf[r.to] = o THEN {p} ELSE {})
  BY AtNext
<1> HIDE DEF S, T
<1>2. IsFiniteSet(S)
  BY DEF S
<1>3. /\ IsFiniteSet(S \ {p}) /\ Cardinality(S \ {p}) \in Nat /\ Cardinality(S) \in Nat
      /\ Cardinality(S \ {p}) = Cardinality(S) - (IF p \in S THEN 1 ELSE 0)
  <2>1. CASE p \in S
    BY <1>2, <2>1, FS_RemoveElement, FS_CardinalityType
  <2>2. CASE p \notin S
    <3>1. S \ {p} = S
      BY <2>2
    <3>2. Cardinality(S) \in Nat
      BY <1>2, FS_CardinalityType
    <3>3. IsFiniteSet(S \ {p}) /\ Cardinality(S \ {p}) = Cardinality(S)
      BY <1>2, <3>1, Zenon
    <3> QED
      BY <2>2, <3>2, <3>3
  <2> QED
    BY <2>1, <2>2
<1>4. CASE p \in Senders /\ r.at = a /\ r.sent /\ OwnerOf[r.to] = o
  <2>1. T = (S \ {p}) \cup {p} /\ p \notin S \ {p}
    BY <1>1, <1>4
  <2>2. IsFiniteSet(T) /\ Cardinality(T) = Cardinality(S \ {p}) + 1
    BY <1>3, <2>1, FS_AddElement
  <2> QED
    BY <1>3, <1>4, <2>2 DEF S, T
<1>5. CASE ~(p \in Senders /\ r.at = a /\ r.sent /\ OwnerOf[r.to] = o)
  <2>1. T = S \ {p}
    BY <1>1, <1>5
  <2> QED
    BY <1>3, <1>5, <2>1 DEF S, T
<1> QED
  BY <1>4, <1>5
-----------------------------------------------------------------------------
(* A debit is for a message that went out. *)

CreditInv ==
  \A o \in Owners :
    /\ IsFiniteSet(Numbered(sms, o)) /\ IsFiniteSet(At("debit", o))
    /\ Spent(o) + Cardinality(At("debit", o)) <= Cardinality(Numbered(sms, o))

LEMMA Numbers ==
  ASSUME AutomationsAssumption, Shape, CreditInv, NEW o \in Owners
  PROVE  /\ Cardinality(Numbered(sms, o)) \in Nat /\ Cardinality(At("debit", o)) \in Nat
         /\ wallet[o] \in 0..Credits /\ Spent(o) \in Nat
<1>1. Cardinality(Numbered(sms, o)) \in Nat /\ Cardinality(At("debit", o)) \in Nat
  BY FS_CardinalityType DEF CreditInv
<1>2. wallet[o] \in 0..Credits
  BY DEF Shape
<1> QED
  BY <1>1, <1>2, Constants DEF Spent

\* What is known of a message that goes out.
LEMMA GoesOut ==
  ASSUME AutomationsAssumption, Shape, NEW p \in Senders, proc[p].at = "send", Accepted(p)
  PROVE  /\ proc[p].to \in Contacts /\ proc[p].kind \in Kinds /\ OwnerOf[proc[p].to] \in Owners
         /\ sms \in Counts /\ sms' \in Counts
         /\ Grows(sms, sms', proc[p].to, proc[p].kind)
<1>1. proc[p].to \in Contacts /\ proc[p].kind \in Kinds
  BY DEF Shape, Placed, Sending, Processes, Senders
<1>2. OwnerOf[proc[p].to] \in Owners
  BY <1>1, Constants
<1> QED
  BY <1>1, <1>2 DEF Shape, Counts, Accepted, Grows

LEMMA CreditInit ==
  ASSUME AutomationsAssumption, Init
  PROVE  CreditInv
<1> SUFFICES ASSUME NEW o \in Owners
             PROVE  /\ IsFiniteSet(Numbered(sms, o)) /\ IsFiniteSet(At("debit", o))
                    /\ Spent(o) + Cardinality(At("debit", o)) <= Cardinality(Numbered(sms, o))
  BY DEF CreditInv
<1>1. IsFiniteSet(Numbered(sms, o)) /\ Cardinality(Numbered(sms, o)) = 0
  <2>1. sms \in Counts /\ \A c \in Contacts, k \in Kinds : sms[c][k] = 0
    BY DEF Init, Counts
  <2> QED
    BY <2>1, NoneYet
<1>2. At("debit", o) = {}
  BY Resting DEF At, Init, Senders, Processes
<1>3. Spent(o) = 0
  BY Constants DEF Init, Spent
<1> QED
  BY <1>1, <1>2, <1>3, FS_EmptySet

LEMMA CreditStep ==
  ASSUME AutomationsAssumption, Shape, CreditInv, [Next]_vars
  PROVE  CreditInv'
<1>1. CASE Elsewhere \/ UNCHANGED vars
  BY <1>1 DEF Elsewhere, Settings, vars, CreditInv, Numbered, At, Spent
<1>2. ASSUME NEW p, NEW r, NEW o \in Owners, Quiet(p, r) \/ Records(p, r) \/ Fails(p, r)
      PROVE  /\ IsFiniteSet(Numbered(sms, o)') /\ IsFiniteSet(At("debit", o)')
             /\ Spent(o)' + Cardinality(At("debit", o)') <= Cardinality(Numbered(sms, o)')
  <2>1. /\ Moves(p, r) /\ wallet' = wallet /\ r.at # "debit"
        /\ sms' = sms \/ (p \in Senders /\ proc[p].at = "send" /\ Accepted(p))
    BY <1>2 DEF Quiet, Records, Fails, Settings, CreateRecord
  <2>2. /\ IsFiniteSet(At("debit", o)') /\ Cardinality(At("debit", o)') \in Nat
        /\ Cardinality(At("debit", o)') <= Cardinality(At("debit", o))
    <3>1. IsFiniteSet(At("debit", o))
      BY DEF CreditInv
    <3>2. /\ IsFiniteSet(At("debit", o)')
          /\ Cardinality(At("debit", o)') = Cardinality(At("debit", o)) - (IF p \in At("debit", o) THEN 1
               ELSE 0)
      BY <2>1, <3>1, AtCounts, Numbers
    <3>3. Cardinality(At("debit", o)') \in Nat
      BY <3>2, FS_CardinalityType
    <3> QED
      BY <3>2, <3>3, Numbers
  <2>3. /\ IsFiniteSet(Numbered(sms', o)) /\ Cardinality(Numbered(sms', o)) \in Nat
        /\ Cardinality(Numbered(sms, o)) <= Cardinality(Numbered(sms', o))
    <3>1. IsFiniteSet(Numbered(sms, o)) /\ Cardinality(Numbered(sms, o)) \in Nat
      BY Numbers DEF CreditInv
    <3>2. CASE sms' = sms
      BY <3>1, <3>2
    <3>3. CASE p \in Senders /\ proc[p].at = "send" /\ Accepted(p)
      BY <3>1, <3>3, GoesOut, OneMore
    <3> QED
      BY <2>1, <3>2, <3>3
  <2>4. Numbered(sms, o)' = Numbered(sms', o) /\ Spent(o)' = Spent(o)
    BY <2>1 DEF Numbered, Spent, Of
  <2>5. Spent(o) + Cardinality(At("debit", o)) <= Cardinality(Numbered(sms, o))
    BY DEF CreditInv
  <2> QED
    BY <2>2, <2>3, <2>4, <2>5, Numbers
<1>3. ASSUME NEW p, NEW r, NEW o \in Owners, Sends(p, r)
      PROVE  /\ IsFiniteSet(Numbered(sms, o)') /\ IsFiniteSet(At("debit", o)')
             /\ Spent(o)' + Cardinality(At("debit", o)') <= Cardinality(Numbered(sms, o)')
  <2>1. /\ Moves(p, r) /\ wallet' = wallet /\ r.at = "debit" /\ r.sent /\ r.to = proc[p].to
        /\ p \in Senders /\ proc[p].at = "send" /\ Accepted(p) /\ p \notin At("debit", o)
    BY <1>3 DEF Sends, Moves, Placed, At
  <2>2. IsFiniteSet(At("debit", o)) /\ IsFiniteSet(Numbered(sms, o))
    BY DEF CreditInv
  <2>3. /\ IsFiniteSet(At("debit", o)')
        /\ Cardinality(At("debit", o)')
             = Cardinality(At("debit", o)) + (IF OwnerOf[proc[p].to] = o THEN 1 ELSE 0)
    BY <2>1, <2>2, AtCounts, Numbers
  <2>4. /\ IsFiniteSet(Numbered(sms', o))
        /\ Cardinality(Numbered(sms', o))
             = Cardinality(Numbered(sms, o)) + (IF OwnerOf[proc[p].to] = o THEN 1 ELSE 0)
    BY <2>1, <2>2, GoesOut, OneMore
  <2>5. Numbered(sms, o)' = Numbered(sms', o) /\ Spent(o)' = Spent(o)
    BY <2>1 DEF Numbered, Spent, Of
  <2>6. Spent(o) + Cardinality(At("debit", o)) <= Cardinality(Numbered(sms, o))
    BY DEF CreditInv
  <2> QED
    BY <2>3, <2>4, <2>5, <2>6, Numbers
<1>4. ASSUME NEW p, NEW r, NEW o \in Owners, Debits(p, r)
      PROVE  /\ IsFiniteSet(Numbered(sms, o)') /\ IsFiniteSet(At("debit", o)')
             /\ Spent(o)' + Cardinality(At("debit", o)') <= Cardinality(Numbered(sms, o)')
  <2>1. /\ Moves(p, r) /\ sms' = sms /\ r.at = "record" /\ p \in Senders
        /\ proc[p].at = "debit" /\ proc[p].sent
    BY <1>4 DEF Debits, Debit, Moves, Shape, Placed
  <2>2. IsFiniteSet(At("debit", o)) /\ IsFiniteSet(Numbered(sms, o))
    BY DEF CreditInv
  <2>3. /\ IsFiniteSet(At("debit", o)')
        /\ Cardinality(At("debit", o)')
             = Cardinality(At("debit", o)) - (IF OwnerOf[proc[p].to] = o THEN 1 ELSE 0)
    <3>1. p \in At("debit", o) <=> OwnerOf[proc[p].to] = o
      BY <2>1 DEF At
    <3> QED
      BY <2>1, <2>2, <3>1, AtCounts, Numbers
  <2>4. /\ Spent(o)' \in Nat
        /\ Spent(o)' <= Spent(o) + (IF OwnerOf[proc[p].to] = o THEN 1 ELSE 0)
    <3>1. wallet'[o] = IF OwnerOf[proc[p].to] = o /\ wallet[o] >= 1 THEN wallet[o] - 1 ELSE wallet[o]
      BY <1>4 DEF Debits, Debit, Shape
    <3> QED
      BY <3>1, Numbers, Constants DEF Spent
  <2>5. Numbered(sms, o)' = Numbered(sms, o)
    BY <2>1 DEF Numbered, Of
  <2>6. Spent(o) + Cardinality(At("debit", o)) <= Cardinality(Numbered(sms, o))
    BY DEF CreditInv
  <2> QED
    BY <2>2, <2>3, <2>4, <2>5, <2>6, Numbers
<1> QED
  <2>1. CASE Elsewhere \/ UNCHANGED vars
    BY <1>1, <2>1
  <2>2. ASSUME NEW p, NEW r, Quiet(p, r) \/ Sends(p, r) \/ Debits(p, r) \/ Records(p, r) \/ Fails(p, r)
        PROVE  CreditInv'
    BY <1>2, <1>3, <1>4, <2>2 DEF CreditInv
  <2> QED
    BY <2>1, <2>2, StepsAre
-----------------------------------------------------------------------------
(* The books, when one sender is at work at a time and nothing fails. *)

OneAtATime == MaxActive \in Nat /\ MaxActive <= 1

\* How many rows say sent, for each contact and kind.
Recorded == [c \in Contacts |-> [k \in Kinds |-> record[c][k].sent]]

Alone == IsFiniteSet(Busy) /\ \A p, q \in Busy : p = q
\* Who is about to send, or has sent, can pay.
Solvent == \A p \in Senders : proc[p].at \in {"send", "debit"} => wallet[OwnerOf[proc[p].to]] >= 1

LEMMA BusyNext ==
  ASSUME Shape, Alone, NEW p \in Processes, NEW r, Go(p, r),
         (p \in Senders /\ proc[p] \in {Idle, Done} /\ r \notin {Idle, Done}) => Busy = {}
  PROVE  Alone'
<1>1. \A q \in Processes : proc'[q] = IF q = p THEN r ELSE proc[q]
  BY DEF Go, Shape
<1>2. Busy' \subseteq Busy \/ Busy' \subseteq {p}
  BY <1>1 DEF Busy, Senders, Processes
<1>3. IsFiniteSet(Busy) /\ IsFiniteSet({p})
  BY FS_Singleton DEF Alone
<1>4. IsFiniteSet(Busy')
  BY <1>2, <1>3, FS_Subset
<1> QED
  BY <1>2, <1>4 DEF Alone

LEMMA AloneStep ==
  ASSUME AutomationsAssumption, OneAtATime, Shape, Alone, [Next]_vars
  PROVE  Alone'
<1>1. CASE Elsewhere \/ UNCHANGED vars
  BY <1>1 DEF Elsewhere, vars, Alone, Busy
<1>2. ASSUME NEW p, NEW r, Quiet(p, r)
      PROVE  Alone'
  <2>1. Cardinality(Busy) < MaxActive => Busy = {}
    <3>1. Cardinality(Busy) \in Nat /\ (Cardinality(Busy) = 0 <=> Busy = {})
      BY FS_CardinalityType, FS_EmptySet DEF Alone
    <3> QED
      BY <3>1 DEF OneAtATime
  <2> QED
    BY <1>2, <2>1, BusyNext DEF Quiet, Moves
<1>3. ASSUME NEW p, NEW r, Sends(p, r) \/ Debits(p, r) \/ Records(p, r) \/ Fails(p, r)
      PROVE  Alone'
  <2>1. p \in Processes /\ Go(p, r) /\ proc[p] \notin {Idle, Done}
    BY <1>3, Resting DEF Sends, Debits, Debit, Records, CreateRecord, Fails, Moves
  <2> QED
    BY <2>1, BusyNext
<1> QED
  BY <1>1, <1>2, <1>3, StepsAre

\* While one is at step send or debit, no other is.
LEMMA NoOther ==
  ASSUME Alone, NEW p \in Senders, NEW q \in Senders,
         proc[p].at \notin {"idle", "done"}, proc[q].at \notin {"idle", "done"}
  PROVE  p = q
  BY Resting DEF Alone, Busy

LEMMA SolventStep ==
  ASSUME AutomationsAssumption, OneAtATime, Shape, Alone, faults = 0 => Solvent, [Next]_vars
  PROVE  (faults = 0 => Solvent)'
<1> SUFFICES ASSUME faults' = 0, NEW q \in Senders, proc'[q].at \in {"send", "debit"}
             PROVE  wallet'[OwnerOf[proc'[q].to]] >= 1
  BY DEF Solvent
<1>1. CASE Elsewhere \/ UNCHANGED vars
  BY <1>1 DEF Elsewhere, Settings, vars, Solvent
<1>2. ASSUME NEW p, NEW r, Quiet(p, r)
      PROVE  wallet'[OwnerOf[proc'[q].to]] >= 1
  <2>1. /\ proc'[q] = IF q = p THEN r ELSE proc[q]
        /\ wallet' = wallet /\ faults' = faults
    BY <1>2 DEF Quiet, Settings, Moves, Go, Shape, Senders, Processes
  <2> QED
    BY <1>2, <2>1 DEF Quiet, Solvent
<1>3. ASSUME NEW p, NEW r, Sends(p, r)
      PROVE  wallet'[OwnerOf[proc'[q].to]] >= 1
  <2>1. /\ proc'[q] = IF q = p THEN r ELSE proc[q]
        /\ wallet' = wallet /\ faults' = faults
    BY <1>3 DEF Sends, Moves, Go, Shape, Senders, Processes
  <2> QED
    BY <1>3, <2>1 DEF Sends, Solvent
<1>4. ASSUME NEW p, NEW r, Debits(p, r) \/ Records(p, r)
      PROVE  wallet'[OwnerOf[proc'[q].to]] >= 1
  <2>1. /\ proc'[q] = (IF q = p THEN r ELSE proc[q]) /\ p \in Senders
        /\ proc[p].at \in {"debit", "record"} /\ r.at \notin {"send", "debit"}
    BY <1>4 DEF Debits, Records, Debit, CreateRecord, Moves, Go, Shape, Senders, Processes
  <2>2. q # p /\ proc[q].at \in {"send", "debit"}
    BY <2>1
  <2> QED
    BY <2>1, <2>2, NoOther
<1>5. ASSUME NEW p, NEW r, Fails(p, r)
      PROVE  FALSE
  BY <1>5 DEF Fails, Fault, Shape
<1> QED
  BY <1>1, <1>2, <1>3, <1>4, <1>5, StepsAre
LEMMA RecordedIs ==
  ASSUME Shape
  PROVE  /\ Recorded \in Counts
         /\ \A c \in Contacts, k \in Kinds : Recorded[c][k] = record[c][k].sent
<1>1. ASSUME NEW c \in Contacts, NEW k \in Kinds
      PROVE  record[c][k].sent \in Nat
  <2>1. record[c][k] \in [sent : Nat, failed : Nat]
    BY DEF Shape
  <2> QED
    BY <2>1
<1> QED
  BY <1>1 DEF Recorded, Counts

\* The row of a message says whether it went out.
LEMMA RecordedNext ==
  ASSUME AutomationsAssumption, Shape, Shape', NEW p, NEW r, Records(p, r)
  PROVE  /\ proc[p].to \in Contacts /\ proc[p].kind \in Kinds /\ OwnerOf[proc[p].to] \in Owners
         /\ proc[p].sent \in BOOLEAN
         /\ proc[p].sent => Grows(Recorded, Recorded', proc[p].to, proc[p].kind)
         /\ ~ proc[p].sent => Recorded' = Recorded
<1>1. /\ p \in Senders /\ CreateRecord(p) /\ proc[p].to \in Contacts /\ proc[p].kind \in Kinds
      /\ proc[p] \in Process /\ proc[p].sent \in BOOLEAN
  <2>1. p \in Senders /\ CreateRecord(p) /\ proc[p].at = "record" /\ Placed(proc[p])
    BY DEF Records, CreateRecord, Shape, Senders, Processes
  <2> QED
    BY <2>1 DEF Placed, Sending, Process
<1>2. OwnerOf[proc[p].to] \in Owners
  BY <1>1, Constants
<1> DEFINE c == proc[p].to
           k == proc[p].kind
           y == IF proc[p].sent THEN [record[c][k] EXCEPT !.sent = @ + 1]
                ELSE [record[c][k] EXCEPT !.failed = @ + 1]
<1>3. record[c][k] \in [sent : Nat, failed : Nat]
  BY <1>1 DEF Shape
<1>4. y.sent = IF proc[p].sent THEN record[c][k].sent + 1 ELSE record[c][k].sent
  BY <1>3
<1>5. record' = [record EXCEPT ![c] = [record[c] EXCEPT ![k] = y]]
  BY <1>1 DEF CreateRecord
<1> HIDE DEF y
<1>6. \A d \in Contacts, l \in Kinds :
        record'[d][l].sent = IF d = c /\ l = k /\ proc[p].sent THEN record[d][l].sent + 1
                             ELSE record[d][l].sent
  BY <1>1, <1>4, <1>5 DEF Shape
<1>7. /\ \A d \in Contacts, l \in Kinds : Recorded[d][l] = record[d][l].sent
      /\ \A d \in Contacts, l \in Kinds : Recorded'[d][l] = record'[d][l].sent
  BY RecordedIs DEF Recorded
<1>8. CASE proc[p].sent
  BY <1>1, <1>2, <1>6, <1>7, <1>8 DEF Grows
<1>9. CASE ~ proc[p].sent
  <2>1. \A d \in Contacts, l \in Kinds : record'[d][l].sent = record[d][l].sent
    BY <1>6, <1>9
  <2>2. Recorded' = Recorded
    BY <2>1 DEF Recorded
  <2> QED
    BY <1>1, <1>2, <1>9, <2>2
<1> QED
  BY <1>1, <1>8, <1>9
\* The books of one store.
Book(o) ==
  /\ IsFiniteSet(At("record", o)) /\ IsFiniteSet(Numbered(Recorded, o))
  /\ faults = 0 =>
       /\ Spent(o) + Cardinality(At("debit", o)) = Cardinality(Numbered(sms, o))
       /\ Cardinality(Numbered(sms, o))
            = Cardinality(Numbered(Recorded, o)) + Cardinality(At("debit", o)) + Cardinality(At("record", o))

\* The numbers in them; the finite sets of the next state.
LEMMA Sizes ==
  ASSUME AutomationsAssumption, Shape, CreditInv, NEW o \in Owners, Book(o)
  PROVE  /\ Cardinality(At("record", o)) \in Nat /\ Cardinality(Numbered(Recorded, o)) \in Nat
         /\ IsFiniteSet(At("debit", o)) /\ IsFiniteSet(At("record", o))
         /\ Cardinality(At("debit", o)) \in Nat /\ Cardinality(Numbered(sms, o)) \in Nat
         /\ wallet[o] \in 0..Credits /\ Spent(o) \in Nat
  BY Numbers, FS_CardinalityType DEF Book, CreditInv

LEMMA BookStep ==
  ASSUME AutomationsAssumption, Shape, Shape', CreditInv, CreditInv', faults = 0 => Solvent,
         NEW o \in Owners, Book(o), [Next]_vars
  PROVE  Book(o)'
<1>1. CASE Elsewhere \/ UNCHANGED vars
  BY <1>1 DEF Elsewhere, Settings, vars, Book, Numbered, At, Spent, Recorded, Of
<1>2. ASSUME NEW p, NEW r, Moves(p, r), UNCHANGED record
      PROVE  /\ IsFiniteSet(At("record", o)') /\ IsFiniteSet(Numbered(Recorded, o)')
             /\ Cardinality(Numbered(Recorded, o)') = Cardinality(Numbered(Recorded, o))
  <2>1. Numbered(Recorded, o)' = Numbered(Recorded, o)
    BY <1>2 DEF Numbered, Recorded, Of
  <2>2. IsFiniteSet(At("record", o)) /\ IsFiniteSet(Numbered(Recorded, o))
    BY DEF Book
  <2>3. IsFiniteSet(At("record", o)')
    BY <1>2, <2>2, AtCounts
  <2> QED
    BY <2>1, <2>2, <2>3
<1>3. ASSUME NEW p, NEW r, Quiet(p, r)
      PROVE  Book(o)'
  <2>1. /\ Moves(p, r) /\ UNCHANGED <<wallet, sms, record, faults>>
        /\ p \notin At("debit", o) /\ p \notin At("record", o)
        /\ r.at # "debit" /\ ~ (r.at = "record" /\ r.sent)
    BY <1>3 DEF Quiet, Settings, At
  <2>2. /\ Cardinality(At("debit", o)') = Cardinality(At("debit", o))
        /\ Cardinality(At("record", o)') = Cardinality(At("record", o))
    BY <2>1, AtCounts, Sizes
  <2>3. Numbered(sms, o)' = Numbered(sms, o) /\ Spent(o)' = Spent(o)
    BY <2>1 DEF Numbered, Spent, Of
  <2> QED
    BY <1>2, <2>1, <2>2, <2>3 DEF Book
<1>4. ASSUME NEW p, NEW r, Sends(p, r)
      PROVE  Book(o)'
  <2>1. /\ Moves(p, r) /\ UNCHANGED <<wallet, record, faults>> /\ r.at = "debit" /\ r.sent
        /\ r.to = proc[p].to /\ p \in Senders /\ proc[p].at = "send" /\ Accepted(p)
        /\ p \notin At("debit", o) /\ p \notin At("record", o)
    BY <1>4 DEF Sends, Moves, Placed, At
  <2>2. /\ Cardinality(At("debit", o)')
             = Cardinality(At("debit", o)) + (IF OwnerOf[proc[p].to] = o THEN 1 ELSE 0)
        /\ Cardinality(At("record", o)') = Cardinality(At("record", o))
    BY <2>1, AtCounts, Sizes
  <2>3. Cardinality(Numbered(sms', o))
          = Cardinality(Numbered(sms, o)) + (IF OwnerOf[proc[p].to] = o THEN 1 ELSE 0)
    BY <2>1, GoesOut, OneMore DEF CreditInv
  <2>4. Numbered(sms, o)' = Numbered(sms', o) /\ Spent(o)' = Spent(o)
    BY <2>1 DEF Numbered, Spent, Of
  <2>5. faults' = 0 =>
          /\ Spent(o)' + Cardinality(At("debit", o)') = Cardinality(Numbered(sms, o)')
          /\ Cardinality(Numbered(sms, o)')
               = Cardinality(Numbered(Recorded, o)') + Cardinality(At("debit", o)') + Cardinality(At("record", o)')
    BY <1>2, <2>1, <2>2, <2>3, <2>4, Sizes DEF Book
  <2> QED
    BY <1>2, <2>1, <2>5 DEF Book
<1>5. ASSUME NEW p, NEW r, Debits(p, r)
      PROVE  Book(o)'
  <2>1. /\ Moves(p, r) /\ UNCHANGED <<sms, record, faults>> /\ r.at = "record" /\ r.sent
        /\ r.to = proc[p].to /\ p \in Senders /\ proc[p].at = "debit" /\ proc[p].sent
        /\ p \notin At("record", o)
    BY <1>5 DEF Debits, Debit, Moves, Shape, Placed, At
  <2>2. p \in At("debit", o) <=> OwnerOf[proc[p].to] = o
    BY <2>1 DEF At
  <2>3. /\ Cardinality(At("debit", o)')
             = Cardinality(At("debit", o)) - (IF OwnerOf[proc[p].to] = o THEN 1 ELSE 0)
        /\ Cardinality(At("record", o)')
             = Cardinality(At("record", o)) + (IF OwnerOf[proc[p].to] = o THEN 1 ELSE 0)
    BY <2>1, <2>2, AtCounts, Sizes
  <2>4. faults = 0 => Spent(o)' = Spent(o) + (IF OwnerOf[proc[p].to] = o THEN 1 ELSE 0)
    <3>1. wallet'[o] = IF OwnerOf[proc[p].to] = o /\ wallet[o] >= 1 THEN wallet[o] - 1 ELSE wallet[o]
      BY <1>5 DEF Debits, Debit, Shape
    <3>2. faults = 0 => wallet[OwnerOf[proc[p].to]] >= 1
      BY <2>1 DEF Solvent
    <3> QED
      BY <3>1, <3>2, Sizes, Constants DEF Spent
  <2>5. Numbered(sms, o)' = Numbered(sms, o)
    BY <2>1 DEF Numbered, Of
  <2>6. faults' = 0 =>
          /\ Spent(o)' + Cardinality(At("debit", o)') = Cardinality(Numbered(sms, o)')
          /\ Cardinality(Numbered(sms, o)')
               = Cardinality(Numbered(Recorded, o)') + Cardinality(At("debit", o)') + Cardinality(At("record", o)')
    BY <1>2, <2>1, <2>3, <2>4, <2>5, Sizes DEF Book
  <2> QED
    BY <1>2, <2>1, <2>6 DEF Book
<1>6. ASSUME NEW p, NEW r, Records(p, r)
      PROVE  Book(o)'
  <2>1. /\ Moves(p, r) /\ UNCHANGED <<wallet, sms, faults>> /\ r.at \in {"contacts", "done"}
        /\ p \in Senders /\ proc[p].at = "record" /\ p \notin At("debit", o)
    BY <1>6 DEF Records, CreateRecord, At
  <2>2. p \in At("record", o) <=> OwnerOf[proc[p].to] = o /\ proc[p].sent
    BY <2>1 DEF At
  <2> DEFINE n == IF OwnerOf[proc[p].to] = o /\ proc[p].sent THEN 1 ELSE 0
  <2>3. /\ IsFiniteSet(At("record", o)')
        /\ Cardinality(At("debit", o)') = Cardinality(At("debit", o))
        /\ Cardinality(At("record", o)') = Cardinality(At("record", o)) - n
    BY <2>1, <2>2, AtCounts, Sizes
  <2>4. /\ IsFiniteSet(Numbered(Recorded', o))
        /\ Cardinality(Numbered(Recorded', o)) = Cardinality(Numbered(Recorded, o)) + n
    <3>1. Recorded \in Counts /\ Recorded' \in Counts
      <4>1. ASSUME NEW c \in Contacts, NEW k \in Kinds
            PROVE  record'[c][k].sent \in Nat
        <5>1. record'[c][k] \in [sent : Nat, failed : Nat]
          BY DEF Shape
        <5> QED
          BY <5>1
      <4>2. Recorded' \in Counts
        BY <4>1 DEF Recorded, Counts
      <4> QED
        BY <4>2, RecordedIs
    <3>2. IsFiniteSet(Numbered(Recorded, o))
      BY DEF Book
    <3>3. CASE proc[p].sent
      BY <1>6, <3>1, <3>2, <3>3, RecordedNext, OneMore
    <3>4. CASE ~ proc[p].sent
      BY <1>6, <3>2, <3>4, RecordedNext, Sizes
    <3> QED
      BY <3>3, <3>4
  <2>5. /\ Numbered(sms, o)' = Numbered(sms, o) /\ Spent(o)' = Spent(o)
        /\ Numbered(Recorded, o)' = Numbered(Recorded', o)
    BY <2>1 DEF Numbered, Spent, Of
  <2> HIDE DEF n
  <2>6. n \in Nat
    BY DEF n
  <2>7. faults' = 0 =>
          /\ Spent(o)' + Cardinality(At("debit", o)') = Cardinality(Numbered(sms, o)')
          /\ Cardinality(Numbered(sms, o)')
               = Cardinality(Numbered(Recorded, o)') + Cardinality(At("debit", o)') + Cardinality(At("record", o)')
    BY <2>1, <2>3, <2>4, <2>5, <2>6, Sizes DEF Book
  <2> QED
    BY <2>3, <2>4, <2>5, <2>7 DEF Book
<1>7. ASSUME NEW p, NEW r, Fails(p, r)
      PROVE  Book(o)'
  <2>1. Moves(p, r) /\ UNCHANGED record /\ faults' # 0
    BY <1>7 DEF Fails, Fault, Shape
  <2> QED
    BY <1>2, <2>1 DEF Book
<1> QED
  BY <1>1, <1>3, <1>4, <1>5, <1>6, <1>7, StepsAre
BooksInv == Alone /\ (faults = 0 => Solvent) /\ \A o \in Owners : Book(o)

LEMMA BooksInit ==
  ASSUME AutomationsAssumption, Init
  PROVE  BooksInv
<1>1. Busy = {} /\ \A p \in Senders : proc[p].at = "idle"
  BY Resting DEF Busy, Init, Senders, Processes
<1>2. Alone /\ (faults = 0 => Solvent)
  BY <1>1, FS_EmptySet DEF Alone, Solvent
<1>3. ASSUME NEW o \in Owners
      PROVE  Book(o)
  <2>1. sms \in Counts /\ \A c \in Contacts, k \in Kinds : sms[c][k] = 0
    BY DEF Init, Counts
  <2>2. Recorded \in Counts /\ \A c \in Contacts, k \in Kinds : Recorded[c][k] = 0
    BY DEF Init, Counts, Recorded
  <2>3. /\ IsFiniteSet(Numbered(sms, o)) /\ Cardinality(Numbered(sms, o)) = 0
        /\ IsFiniteSet(Numbered(Recorded, o)) /\ Cardinality(Numbered(Recorded, o)) = 0
    BY <2>1, <2>2, NoneYet
  <2>4. /\ IsFiniteSet(At("debit", o)) /\ Cardinality(At("debit", o)) = 0
        /\ IsFiniteSet(At("record", o)) /\ Cardinality(At("record", o)) = 0
    <3>1. At("debit", o) = {} /\ At("record", o) = {}
      BY <1>1 DEF At
    <3> QED
      BY <3>1, FS_EmptySet
  <2>5. Spent(o) = 0
    BY Constants DEF Init, Spent
  <2> QED
    BY <2>3, <2>4, <2>5 DEF Book
<1> QED
  BY <1>2, <1>3 DEF BooksInv

-----------------------------------------------------------------------------
(* The theorems. *)

LEMMA Invariant ==
  ASSUME AutomationsAssumption
  PROVE  Spec => [](Shape /\ CreditInv)
<1>1. Init => Shape /\ CreditInv
  BY ShapeInit, CreditInit
<1>2. Shape /\ CreditInv /\ [Next]_vars => (Shape /\ CreditInv)'
  BY ShapeStep, CreditStep
<1> QED
  BY <1>1, <1>2, PTL DEF Spec

\* Balances never fall below zero, and a process is where the code can be.
THEOREM TypeCorrect ==
  ASSUME AutomationsAssumption
  PROVE  Spec => []TypeOK
<1>1. Shape => TypeOK
  BY DEF Shape, TypeOK, Placed, Process, Sending, Senders, Processes
<1> QED
  BY <1>1, Invariant, PTL

\* A store is never debited for a message that did not go out, whatever fails and however
\* welcomes and runs interleave (sendSMSWithCredits).
THEOREM Earned ==
  ASSUME AutomationsAssumption
  PROVE  Spec => []NoCreditWithoutMessage
<1>1. Shape /\ CreditInv => NoCreditWithoutMessage
  BY DebitingIs DEF CreditInv, NoCreditWithoutMessage, Messages, Numbered
<1> QED
  BY <1>1, Invariant, PTL

\* With one sender at a time, and without failures, the credits spent, the messages that
\* went out and the rows that say sent are as many (sendSMSWithCredits and its callers).
THEOREM Books ==
  ASSUME AutomationsAssumption, OneAtATime
  PROVE  Spec => []BooksAgree
<1>1. Init => BooksInv
  BY BooksInit
<1>2. Shape /\ CreditInv /\ BooksInv /\ Shape' /\ CreditInv' /\ [Next]_vars => BooksInv'
  BY AloneStep, SolventStep, BookStep DEF BooksInv
<1>3. Shape /\ CreditInv /\ BooksInv => BooksAgree
  <2> SUFFICES ASSUME Shape, CreditInv, BooksInv, faults = 0,
                      \A p \in Senders : proc[p] \in {Idle, Done}, NEW o \in Owners
               PROVE  /\ Spent(o) = Cardinality(Messages(o))
                      /\ Cardinality(Messages(o)) = Cardinality(SentRows(o))
    BY DEF BooksAgree
  <2>1. At("debit", o) = {} /\ At("record", o) = {}
    BY Resting DEF At
  <2>2. Cardinality(At("debit", o)) = 0 /\ Cardinality(At("record", o)) = 0
    BY <2>1, FS_EmptySet
  <2>3. Messages(o) = Numbered(sms, o)
    BY DEF Messages, Numbered
  <2>4. SentRows(o) = Numbered(Recorded, o)
    BY DEF SentRows, Numbered, Recorded, Of
  <2>5. Book(o)
    BY DEF BooksInv
  <2>6. IsFiniteSet(Numbered(sms, o)) /\ wallet[o] \in 0..Credits
    BY DEF CreditInv, Shape
  <2> QED
    BY <2>2, <2>3, <2>4, <2>5, <2>6, Constants, FS_CardinalityType DEF Book, Spent
<1> QED
  BY <1>1, <1>2, <1>3, Invariant, PTL DEF Spec
=============================================================================
