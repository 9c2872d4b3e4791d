-------------------------------- MODULE Tracking --------------------------------
(***************************************************************************)
(* What customers do with a message: they open its offer, redeem it at the *)
(* till (tracking.js), and confirm a visit at an NFC tag (conversion.js,   *)
(* conversion.service.js).  Requests interleave with each other, with      *)
(* delivery, and with the owner who deletes contacts.                      *)
(***************************************************************************)
EXTENDS Naturals, FiniteSets

CONSTANTS Owners, Contacts, Messages,
          OwnerOf,      \* the store of each contact
          ContactOf,    \* the contact of each message
          Automated,    \* messages of automations; the others are of campaigns
          Tags, StoreOf, \* conversion tags, and their stores
          Linked,       \* tags that are tied to a campaign
          Requests,     \* requests, each made once
          MaxEdits      \* bound: deleted contacts and changes of a tag

\* What is asked of the constants; the modules that instantiate this one assume it.
TrackingAssumption ==
  /\ OwnerOf \in [Contacts -> Owners] /\ ContactOf \in [Messages -> Contacts]
  /\ Automated \subseteq Messages /\ StoreOf \in [Tags -> Owners] /\ Linked \subseteq Tags
  /\ MaxEdits \in Nat

VARIABLES contacts,    \* contacts that exist
          status,      \* status of each message, "gone" once it is deleted
          newer,       \* pairs of messages, the first with a later sentAt than the second
          tag,         \* status of each tag
          redeemed,    \* Redemption and AutomationRedemption: message and owner
          events,      \* ConversionEvent: request, contact, message or "none", campaign's tag
          views,       \* OfferViewEvent: message
          req,         \* what each request is doing
          answers,     \* history: what each request was answered
          edits

tables == <<contacts, status, newer, tag, redeemed, events, views>>
vars == <<tables, req, answers, edits>>

New == [at |-> "new", msg |-> "none", owner |-> "none", contact |-> "none", tag |-> "none"]
Over == [New EXCEPT !.at = "over"]

Init ==
  /\ contacts = Contacts
  /\ status = [m \in Messages |-> "queued"] /\ newer = {}
  /\ tag = [t \in Tags |-> "active"]
  /\ redeemed = {} /\ events = {} /\ views = {} /\ answers = {} /\ edits = 0
  /\ req = [r \in Requests |-> New]

Exists(m) == status[m] # "gone"
OwnerOfMessage(m) == OwnerOf[ContactOf[m]]
Redeemed(m) == \E x \in redeemed : x.msg = m

Go(r, x) == req' = [req EXCEPT ![r] = x] /\ UNCHANGED answers
Answer(r, m, a) ==
  /\ req' = [req EXCEPT ![r] = Over]
  /\ answers' = answers \cup {[req |-> r, msg |-> m, answer |-> a]}

-----------------------------------------------------------------------------
(* The other components: messages are sent, reported, and deleted with their contact. *)

\* Messages with a sentAt, and their order when those of ms have none.
Dated == {m \in Messages : status[m] \in {"sent", "failed"}}
Without(ms) == {p \in newer : p[1] \notin ms /\ p[2] \notin ms}

\* The worker's result, or a delivery report; each sets sentAt.
Deliver(m) ==
  /\ Exists(m)
  /\ status' = [status EXCEPT ![m] = "sent"]
  /\ newer' = Without({m}) \cup ({m} \X (Dated \ {m}))
  /\ UNCHANGED <<contacts, tag, redeemed, events, views, req, answers, edits>>

ReportFailed(m) ==
  /\ status[m] = "sent"
  /\ status' = [status EXCEPT ![m] = "failed"]
  /\ UNCHANGED <<contacts, newer, tag, redeemed, events, views, req, answers, edits>>

\* Mutant of DeleteContact: redemptions go with the messages they belong to.
DeleteContactCascades(c) ==
  LET ms == {m \in Messages : ContactOf[m] = c}
  IN /\ c \in contacts /\ edits < MaxEdits
     /\ contacts' = contacts \ {c}
     /\ status' = [m \in Messages |-> IF m \in ms THEN "gone" ELSE status[m]]
     /\ redeemed' = {x \in redeemed : x.msg \notin ms}
     /\ events' = {e \in events : e.contact # c}
     /\ views' = views \ ms /\ newer' = Without(ms)
     /\ edits' = edits + 1
     /\ UNCHANGED <<tag, req, answers>>

\* A redemption forbids that its message be deleted, and so the contact's deletion.
DeleteContact(c) ==
  LET ms == {m \in Messages : ContactOf[m] = c}
  IN /\ c \in contacts /\ edits < MaxEdits
     /\ \A m \in ms : ~Redeemed(m)
     /\ contacts' = contacts \ {c}
     /\ status' = [m \in Messages |-> IF m \in ms THEN "gone" ELSE status[m]]
     /\ events' = {e \in events : e.contact # c}
     /\ views' = views \ ms /\ newer' = Without(ms)
     /\ edits' = edits + 1
     /\ UNCHANGED <<tag, redeemed, req, answers>>

ChangeTag(t, s) ==
  /\ edits < MaxEdits
  /\ tag' = [tag EXCEPT ![t] = s]
  /\ edits' = edits + 1
  /\ UNCHANGED <<contacts, status, newer, redeemed, events, views, req, answers>>

-----------------------------------------------------------------------------
(* GET /tracking/offer/:trackingId *)

\* The view of a campaign's offer is recorded beside the answer.
OpenOffer(r, m) ==
  /\ req[r] = New
  /\ IF Exists(m) /\ m \notin Automated
     THEN Go(r, [New EXCEPT !.at = "view", !.msg = m])
     ELSE Answer(r, m, IF Exists(m) THEN "offer" ELSE "not found")
  /\ UNCHANGED <<tables, edits>>

\* The message may be gone: the error is logged.
RecordView(r) ==
  LET m == req[r].msg
  IN /\ req[r].at = "view"
     /\ views' = IF Exists(m) THEN views \cup {m} ELSE views
     /\ Answer(r, m, "offer")
     /\ UNCHANGED <<contacts, status, newer, tag, redeemed, events, edits>>

-----------------------------------------------------------------------------
(* GET /tracking/redeem/:trackingId, and POST /tracking/redeem *)

CheckRedeem(r, m) ==
  /\ req[r] = New
  /\ Answer(r, m, IF ~Exists(m) THEN "not found"
                  ELSE IF Redeemed(m) THEN "already_redeemed" ELSE "not redeemed")
  /\ UNCHANGED <<tables, edits>>

\* Only the owner of the message goes on.
FindMessage(r, m, o) ==
  /\ req[r] = New
  /\ IF Exists(m) /\ OwnerOfMessage(m) = o
     THEN Go(r, [New EXCEPT !.at = "check", !.msg = m, !.owner = o])
     ELSE Answer(r, m, "not_found_or_forbidden")
  /\ UNCHANGED <<tables, edits>>

FindRedemption(r) ==
  LET m == req[r].msg
  IN /\ req[r].at = "check"
     /\ IF Redeemed(m) THEN Answer(r, m, "already_redeemed")
        ELSE Go(r, [req[r] EXCEPT !.at = "create"])
     /\ UNCHANGED <<tables, edits>>

\* The key refuses a second redemption, and the message must still be there; both refusals
\* are errors of the request.
CreateRedemption(r) ==
  LET m == req[r].msg
  IN /\ req[r].at = "create"
     /\ IF Exists(m) /\ ~Redeemed(m)
        THEN /\ redeemed' = redeemed \cup {[msg |-> m, owner |-> req[r].owner]}
             /\ Answer(r, m, "redeemed")
        ELSE redeemed' = redeemed /\ Answer(r, m, "error")
     /\ UNCHANGED <<contacts, status, newer, tag, events, views, edits>>

-----------------------------------------------------------------------------
(* POST /conversion/:tagPublicId *)

\* The route lets a tag under test pass; the contact is found by its number.
TapTag(r, t, c) ==
  /\ req[r] = New
  /\ IF tag[t] \in {"active", "test"} /\ c \in contacts /\ OwnerOf[c] = StoreOf[t]
     THEN Go(r, [New EXCEPT !.at = "attribute", !.tag = t, !.contact = c])
     ELSE Answer(r, "none", "not found")
  /\ UNCHANGED <<tables, edits>>

\* The contact's campaign message that was sent last, unless the tag names a campaign.
FindRecent(r) ==
  LET sent   == {m \in Messages \ Automated : status[m] = "sent" /\ ContactOf[m] = req[r].contact}
      recent == {m \in sent : \A k \in sent : <<k, m>> \notin newer}
  IN /\ req[r].at = "attribute"
     /\ \E m \in IF sent = {} \/ req[r].tag \in Linked THEN {"none"} ELSE recent :
          Go(r, [req[r] EXCEPT !.at = "verify", !.msg = m])
     /\ UNCHANGED <<tables, edits>>

\* The service only takes an active tag.
VerifyTag(r) ==
  /\ req[r].at = "verify"
  /\ IF tag[req[r].tag] = "active" THEN Go(r, [req[r] EXCEPT !.at = "record"])
     ELSE Answer(r, "none", "not found")
  /\ UNCHANGED <<tables, edits>>

\* The contact, and its message, may be gone by now: an error.
RecordConversion(r) ==
  LET q == req[r]
  IN /\ req[r].at = "record"
     /\ IF q.contact \in contacts
        THEN /\ events' = events \cup {[req |-> r, contact |-> q.contact, msg |-> q.msg, tag |-> q.tag]}
             /\ Answer(r, q.msg, "confirmed")
        ELSE events' = events /\ Answer(r, q.msg, "error")
     /\ UNCHANGED <<contacts, status, newer, tag, redeemed, views, edits>>

\* A request is lost with its process.
Dies(r) ==
  /\ req[r] \notin {New, Over}
  /\ Go(r, Over)
  /\ UNCHANGED <<tables, edits>>

-----------------------------------------------------------------------------
Others ==
  \/ \E m \in Messages : Deliver(m) \/ ReportFailed(m)
  \/ \E c \in Contacts : DeleteContact(c)
  \/ \E t \in Tags, s \in {"active", "test", "inactive"} : ChangeTag(t, s)

Next ==
  \/ Others
  \/ \E r \in Requests :
       \/ \E m \in Messages : OpenOffer(r, m) \/ CheckRedeem(r, m) \/ \E o \in Owners : FindMessage(r, m, o)
       \/ \E t \in Tags, c \in Contacts : TapTag(r, t, c)
       \/ RecordView(r) \/ FindRedemption(r) \/ CreateRedemption(r)
       \/ FindRecent(r) \/ VerifyTag(r) \/ RecordConversion(r) \/ Dies(r)

Spec == Init /\ [][Next]_vars

-----------------------------------------------------------------------------
(* Properties *)

Told(m, a) == {x \in answers : x.msg = m /\ x.answer = a}

Work == [at : {"new", "view", "check", "create", "attribute", "verify", "record", "over"},
         msg : Messages \cup {"none"}, owner : Owners \cup {"none"},
         contact : Contacts \cup {"none"}, tag : Tags \cup {"none"}]

\* Types; views, events and redemptions are of rows that exist (the foreign keys of the
\* tables), and of two messages with a sentAt one is the newer.
TypeOK ==
  /\ contacts \subseteq Contacts /\ edits \in 0 .. MaxEdits
  /\ status \in [Messages -> {"queued", "sent", "failed", "gone"}]
  /\ tag \in [Tags -> {"active", "test", "inactive"}]
  /\ redeemed \subseteq [msg : Messages, owner : Owners]
  /\ req \in [Requests -> Work]
  /\ \A m \in Messages : Exists(m) <=> ContactOf[m] \in contacts
  /\ newer \subseteq Dated \X Dated
  /\ \A m, k \in Dated : m # k => (<<m, k>> \in newer <=> <<k, m>> \notin newer)
  /\ \A m \in views : Exists(m) /\ m \notin Automated
  /\ \A e \in events : e.contact \in contacts

\* However two tills interleave, one of them at most is told that the offer is redeemed now
\* (POST /tracking/redeem checks first and inserts afterwards).
RedeemedOnce == \A m \in Messages : Cardinality(Told(m, "redeemed")) <= 1

\* What a till was told stays true: the redemption is there, it belongs to the store of the
\* message, and no deletion of the contact takes it, or its message, away.
RedemptionStands ==
  \A x \in answers : x.answer \in {"redeemed", "already_redeemed"} =>
    Exists(x.msg) /\ [msg |-> x.msg, owner |-> OwnerOfMessage(x.msg)] \in redeemed

\* A confirmed visit counts for a message that was sent to that very customer, in the tag's
\* store, however deliveries, deletions and other visits interleave (recordConversion).
ConversionBelongs ==
  \A e \in events : /\ OwnerOf[e.contact] = StoreOf[e.tag]
                    /\ e.msg # "none" => /\ ContactOf[e.msg] = e.contact /\ e.msg \notin Automated
                                         /\ status[e.msg] \in {"sent", "failed"}

\* Redeeming is idempotent: the owner is told that its message is redeemed, now or already,
\* and never an error, while the message exists (the comment of POST /tracking/redeem).
\* The code does not keep it (README, section 3).
RedeemIdempotent ==
  \A x \in answers : x.answer = "error" /\ x.msg \in Messages => ~Exists(x.msg)
=============================================================================
