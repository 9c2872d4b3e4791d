-------------------------------- MODULE Contacts --------------------------------
(***************************************************************************)
(* The contacts of the stores and their consent.  The owner adds, edits,   *)
(* deletes and imports contacts (contacts.js, contactImport.service.js);   *)
(* the customer opts in with the NFC form (nfc.service.js), and opts out   *)
(* with the link in a message (contacts.js, token.service.js) or by        *)
(* answering STOP (mitto.webhooks.js).  A link names a row of the table,   *)
(* STOP a phone number of every store.                                     *)
(***************************************************************************)
EXTENDS Naturals, Sequences, FiniteSets

CONSTANTS Owners, Phones,
          Requests,    \* unsubscribe requests and NFC submissions that interleave
          Jobs,        \* imports
          Files,       \* files to import: sequences of rows [phone, sub]; phone may be "bad"
          StopForms,   \* how the provider may write the number of a STOP
          MaxRows,     \* bound: rows of the table, one after the other
          MaxFaults    \* bound: stalled workers and refused inserts

\* What is asked of the constants; the modules that instantiate this one assume it.
ContactsAssumption ==
  /\ Files \subseteq Seq([phone : Phones \cup {"bad"}, sub : BOOLEAN])
  /\ StopForms \subseteq {"plus", "zeros", "national", "bare"}
  /\ "unknown" \notin Phones
  /\ MaxRows \in Nat /\ MaxFaults \in Nat

VARIABLES rows,       \* Contact: id, owner, phone, sub (isSubscribed)
          lastId,     \* the sequence of Contact.id
          proc,       \* what each request is doing
          job,        \* contactImportQueue, and the worker on each job
          welcomed,   \* contacts for which the welcome automation was triggered
          wish,       \* history: what the customer last told a store: "none", "in" or "out"
          gone,       \* history: numbers taken off a store's list
          faults

vars == <<rows, lastId, proc, job, welcomed, wish, gone, faults>>

Idle == [at |-> "idle", id |-> 0, owner |-> "none", phone |-> "none"]
NoJob == [at |-> "none", owner |-> "none", file |-> <<>>, next |-> 1, stalls |-> 0,
          created |-> {}, skipped |-> {}, inserted |-> {}]

Init ==
  /\ rows = {} /\ lastId = 0 /\ welcomed = {} /\ gone = {} /\ faults = 0
  /\ proc = [q \in Requests |-> Idle]
  /\ job = [j \in Jobs |-> NoJob]
  /\ wish = [o \in Owners |-> [p \in Phones |-> "none"]]

Fault == faults < MaxFaults /\ faults' = faults + 1
Of(o, p) == {r \in rows : r.owner = o /\ r.phone = p}
ById(id) == {r \in rows : r.id = id}
Told(o, p, w) == wish' = [wish EXCEPT ![o][p] = w]

\* contact.create; the key (ownerId, phone) is free.
Create(o, p, s) ==
  /\ Of(o, p) = {}
  /\ lastId' = lastId + 1
  /\ rows' = rows \cup {[id |-> lastId', owner |-> o, phone |-> p, sub |-> s]}

\* contact.update of some rows: the new value of isSubscribed.
Subscribe(R, s) == rows' = {IF r \in R THEN [r EXCEPT !.sub = s] ELSE r : r \in rows}

-----------------------------------------------------------------------------
(* The owner. *)

\* POST /contacts: subscribed, and welcomed; a number that is there already is refused.
AddContact(o, p) ==
  /\ lastId < MaxRows
  /\ Create(o, p, TRUE)
  /\ welcomed' = welcomed \cup {lastId'}
  /\ UNCHANGED <<proc, job, wish, gone, faults>>

\* PUT /contacts/:id: the owner overrides the consent ...
ToggleContact(r, s) ==
  /\ Subscribe({r}, s)
  /\ Told(r.owner, r.phone, "none")
  /\ UNCHANGED <<lastId, proc, job, welcomed, gone, faults>>

\* ... or changes the number, to one that no other contact of the store has.
RenumberContact(r, p) ==
  /\ p # r.phone /\ Of(r.owner, p) = {}
  /\ rows' = (rows \ {r}) \cup {[r EXCEPT !.phone = p]}
  /\ wish' = [wish EXCEPT ![r.owner][p] = "none", ![r.owner][r.phone] = "none"]
  /\ gone' = gone \cup {<<r.owner, r.phone>>}
  /\ UNCHANGED <<lastId, proc, job, welcomed, faults>>

DeleteContact(r) ==
  /\ rows' = rows \ {r}
  /\ Told(r.owner, r.phone, "none")
  /\ gone' = gone \cup {<<r.owner, r.phone>>}
  /\ UNCHANGED <<lastId, proc, job, welcomed, faults>>

-----------------------------------------------------------------------------
(* The customer. *)

\* Messages carry links that name the contact; they stay valid for a year, whatever happens
\* to the contact.
Links == 1..lastId

\* POST /contacts/unsubscribe looks for a subscribed contact of that id; without one the
\* answer is the same, and nothing is done.
FindUnsubscriber(q, id) ==
  LET R == {r \in ById(id) : r.sub}
  IN /\ proc[q] = Idle
     /\ proc' = [proc EXCEPT ![q] = IF R = {} THEN @ ELSE [@ EXCEPT !.at = "unsubscribe", !.id = id]]
     /\ wish' = [o \in Owners |-> [p \in Phones |->
                   IF \E r \in ById(id) \ R : r.owner = o /\ r.phone = p THEN "out" ELSE wish[o][p]]]
     /\ UNCHANGED <<rows, lastId, job, welcomed, gone, faults>>

\* The update is by the row's key; the row may be gone by now, an error.
Unsubscribe(q) ==
  /\ proc[q].at = "unsubscribe"
  /\ proc' = [proc EXCEPT ![q] = Idle]
  /\ Subscribe(ById(proc[q].id), FALSE)
  /\ wish' = [o \in Owners |-> [p \in Phones |->
                IF \E r \in ById(proc[q].id) : r.owner = o /\ r.phone = p THEN "out" ELSE wish[o][p]]]
  /\ UNCHANGED <<lastId, job, welcomed, gone, faults>>

\* normalizeMsisdn understands +30..., 0030... and ten digits; bare 30... gets +30 once more.
Normalized(form, p) == IF form = "bare" THEN "unknown" ELSE p

\* An inbound STOP unsubscribes the number in every store, in one statement.
Stop(form, p) ==
  /\ Subscribe({r \in rows : r.phone = Normalized(form, p)}, FALSE)
  /\ wish' = [o \in Owners |-> [wish[o] EXCEPT ![p] = IF Of(o, p) = {} THEN @ ELSE "out"]]
  /\ UNCHANGED <<lastId, proc, job, welcomed, gone, faults>>

\* POST /nfc/:publicId/submit reads first, and updates or creates afterwards.
FindOptIn(q, o, p) ==
  LET R == Of(o, p)
  IN /\ proc[q] = Idle /\ lastId < MaxRows
     /\ proc' = [proc EXCEPT ![q] =
                   IF R = {} THEN [@ EXCEPT !.at = "create", !.owner = o, !.phone = p]
                   ELSE [@ EXCEPT !.at = "update", !.id = (CHOOSE r \in R : TRUE).id]]
     /\ UNCHANGED <<rows, lastId, job, welcomed, wish, gone, faults>>

UpdateOptIn(q) ==
  /\ proc[q].at = "update"
  /\ proc' = [proc EXCEPT ![q] = Idle]
  /\ Subscribe(ById(proc[q].id), TRUE)
  /\ wish' = [o \in Owners |-> [p \in Phones |->
                IF \E r \in ById(proc[q].id) : r.owner = o /\ r.phone = p THEN "in" ELSE wish[o][p]]]
  /\ UNCHANGED <<lastId, job, welcomed, gone, faults>>

\* Created meanwhile by another request: the insert is refused and the form fails.
CreateOptIn(q) ==
  /\ proc[q].at = "create"
  /\ proc' = [proc EXCEPT ![q] = Idle]
  /\ IF Of(proc[q].owner, proc[q].phone) = {}
     THEN /\ Create(proc[q].owner, proc[q].phone, TRUE)
          /\ welcomed' = welcomed \cup {lastId'}
          /\ Told(proc[q].owner, proc[q].phone, "in")
     ELSE UNCHANGED <<rows, lastId, welcomed, wish>>
  /\ UNCHANGED <<job, gone, faults>>

-----------------------------------------------------------------------------
(* Imports: POST /contacts/import, and contactImport.worker.js. *)

QueueImport(j, o, f) ==
  /\ job[j].at = "none"
  /\ job' = [job EXCEPT ![j] = [NoJob EXCEPT !.at = "waiting", !.owner = o, !.file = f]]
  /\ UNCHANGED <<rows, lastId, proc, welcomed, wish, gone, faults>>

\* An empty file is an error, and there is one attempt.
TakeImport(j) ==
  /\ job[j].at = "waiting"
  /\ job' = [job EXCEPT ![j].at = IF job[j].file = <<>> THEN "failed" ELSE "row"]
  /\ UNCHANGED <<rows, lastId, proc, welcomed, wish, gone, faults>>

Current(j) == job[j].file[job[j].next]
\* validateContactRow: the number can be brought to E.164, and the other columns are right.
IsValid(line) == line.phone \in Phones
NextRow(jb) == [jb EXCEPT !.at = "row", !.next = @ + 1]

\* Mutant of Skip: the loop does not go on.
SkipStays(jb) == [jb EXCEPT !.at = "row", !.skipped = @ \cup {jb.next}]

Skip(jb) == NextRow([jb EXCEPT !.skipped = @ \cup {jb.next}])

\* Mutant of CheckRow: a contact that exists is updated from the file.
CheckRowUpserts(j) ==
  LET R == Of(job[j].owner, Current(j).phone)
  IN /\ job[j].at = "row" /\ job[j].next <= Len(job[j].file)
     /\ job' = [job EXCEPT ![j] = IF R # {} \/ ~IsValid(Current(j)) THEN Skip(@)
                                  ELSE [@ EXCEPT !.at = "insert"]]
     /\ Subscribe(R, Current(j).sub)
     /\ UNCHANGED <<lastId, proc, welcomed, wish, gone, faults>>

\* A row that is not valid, or whose number the store has, is skipped.
CheckRow(j) ==
  LET known == Of(job[j].owner, Current(j).phone) # {}
  IN /\ job[j].at = "row" /\ job[j].next <= Len(job[j].file)
     /\ job' = [job EXCEPT ![j] = IF ~IsValid(Current(j)) \/ known THEN Skip(@)
                                  ELSE [@ EXCEPT !.at = "insert"]]
     /\ UNCHANGED <<rows, lastId, proc, welcomed, wish, gone, faults>>

\* The number may have been added since: the insert is refused and the row skipped.
InsertRow(j) ==
  LET jb == job[j]
  IN /\ job[j].at = "insert"
     /\ IF Of(jb.owner, Current(j).phone) = {}
        THEN /\ Create(jb.owner, Current(j).phone, Current(j).sub)
             /\ job' = [job EXCEPT ![j] = NextRow([jb EXCEPT !.created = @ \cup {jb.next},
                                                             !.inserted = @ \cup {jb.next}])]
        ELSE job' = [job EXCEPT ![j] = Skip(@)] /\ UNCHANGED <<rows, lastId>>
     /\ UNCHANGED <<proc, welcomed, wish, gone, faults>>

\* The insert fails for another reason: skipped as well.
InsertFails(j) ==
  /\ job[j].at = "insert"
  /\ Fault
  /\ job' = [job EXCEPT ![j] = Skip(@)]
  /\ UNCHANGED <<rows, lastId, proc, welcomed, wish, gone>>

FinishImport(j) ==
  /\ job[j].at = "row" /\ job[j].next > Len(job[j].file)
  /\ job' = [job EXCEPT ![j].at = "completed"]
  /\ UNCHANGED <<rows, lastId, proc, welcomed, wish, gone, faults>>

\* The worker dies: BullMQ gives the job out again, once; its results start afresh.
WorkerDies(j) ==
  /\ job[j].at \in {"row", "insert"}
  /\ Fault
  /\ job' = [job EXCEPT ![j] = [NoJob EXCEPT !.at = IF job[j].stalls < 1 THEN "waiting" ELSE "failed",
                                             !.owner = job[j].owner, !.file = job[j].file,
                                             !.stalls = job[j].stalls + 1,
                                             !.inserted = job[j].inserted]]
  /\ UNCHANGED <<rows, lastId, proc, welcomed, wish, gone>>

-----------------------------------------------------------------------------
Owner ==
  \/ \E o \in Owners, p \in Phones : AddContact(o, p)
  \/ \E r \in rows : \/ DeleteContact(r)
                     \/ \E s \in BOOLEAN : ToggleContact(r, s)
                     \/ \E p \in Phones : RenumberContact(r, p)

Customer ==
  \/ \E form \in StopForms, p \in Phones : Stop(form, p)
  \/ \E q \in Requests : \/ \E id \in Links : FindUnsubscriber(q, id)
                         \/ \E o \in Owners, p \in Phones : FindOptIn(q, o, p)
                         \/ Unsubscribe(q) \/ UpdateOptIn(q) \/ CreateOptIn(q)

ImportStep(j) == TakeImport(j) \/ CheckRow(j) \/ InsertRow(j) \/ FinishImport(j)

Next ==
  \/ Owner
  \/ Customer
  \/ \E j \in Jobs : \/ \E o \in Owners, f \in Files : QueueImport(j, o, f)
                     \/ ImportStep(j) \/ InsertFails(j) \/ WorkerDies(j)

Spec == Init /\ [][Next]_vars

\* BullMQ gives a waiting job to the worker, and the loop over the rows goes on.
FairSpec == Spec /\ \A j \in Jobs : WF_vars(ImportStep(j))

-----------------------------------------------------------------------------
(* Properties *)

\* One row for a number of a store, ids never used twice, and jobs as the worker leaves them
\* (model Contact, contactImport.worker.js).
TypeOK ==
  /\ rows \subseteq [id : 1..lastId, owner : Owners, phone : Phones, sub : BOOLEAN]
  /\ \A r, s \in rows : r.id = s.id \/ (r.owner = s.owner /\ r.phone = s.phone) => r = s
  /\ welcomed \subseteq 1..lastId
  /\ wish \in [Owners -> [Phones -> {"none", "in", "out"}]]
  /\ \A q \in Requests : proc[q].at \in {"idle", "unsubscribe", "update", "create"}
  /\ \A j \in Jobs : /\ job[j].at \in {"none", "waiting", "row", "insert", "completed", "failed"}
                     /\ job[j].next \in 1..(Len(job[j].file) + 1)

\* A customer that has opted out of a store, by its link or by STOP, stays out: no import, form
\* or request that was under way subscribes the number again, until the customer or the owner
\* decides otherwise (mitto.webhooks.js and POST /contacts/unsubscribe against all writers).
OptOutStands ==
  \A o \in Owners, p \in Phones : wish[o][p] = "out" => \A r \in Of(o, p) : ~r.sub

\* A customer that has opted in at a store stays in, whatever it tells another store with a
\* link (the link is scoped to its store, contacts.js).
OptInStands ==
  \A o \in Owners, p \in Phones : wish[o][p] = "in" => \A r \in Of(o, p) : r.sub

\* A completed import has dealt with every row: each is reported once, and each valid number is
\* on the list, unless it was taken off or its insert failed (processImportJob).
ImportComplete ==
  \A j \in Jobs : job[j].at = "completed" =>
    /\ job[j].created \cup job[j].skipped = DOMAIN job[j].file
    /\ job[j].created \cap job[j].skipped = {}
    /\ faults = 0 => \A i \in DOMAIN job[j].file :
         LET p == job[j].file[i].phone
         IN IsValid(job[j].file[i]) /\ <<job[j].owner, p>> \notin gone => Of(job[j].owner, p) # {}

\* An import comes to an end, failed or having dealt with every row of its file, also when
\* its worker dies (BullMQ gives a stalled job out again).
ImportEnds ==
  \A j \in Jobs : job[j].at = "waiting" ~> \/ job[j].at = "failed"
                                           \/ job[j].at = "completed" /\ ImportComplete

\* An import runs once (attempts: 1): the contacts it has created are the ones it reports.
\* The code does not keep it (README, section 3).
CreatedReported ==
  \A j \in Jobs : job[j].at = "completed" => job[j].created = job[j].inserted

\* A new contact that is subscribed is welcomed (MESSAGE_SENDING_GUIDE.md: welcome messages).
\* The code does not keep it (README, section 3).
NewAreWelcomed == \A r \in rows : r.sub => r.id \in welcomed
=============================================================================
