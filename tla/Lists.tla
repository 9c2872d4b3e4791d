---------------------------------- MODULE Lists ----------------------------------
(***************************************************************************)
(* One contact list of a store and its filters (lists.js,                  *)
(* listSegmentation.service.js), beside the audiences that campaigns and   *)
(* predefined lists select (audience.service.js).  Members of a list are   *)
(* rows; a sync compares them with the contacts that match the filters, in *)
(* four statements between which other requests run.                       *)
(***************************************************************************)
EXTENDS Naturals, FiniteSets

CONSTANTS Contacts, Genders,
          People,          \* attributes a contact may have
          Bounds,          \* ages a filter may name
          Requests,        \* requests, each made once
          None, Keep,      \* null, and a field that is not in the body
          MaxEdits         \* bound: changes of contacts

\* What is asked of the constants; the modules that instantiate this one assume it.
ListsAssumption ==
  /\ Bounds \subseteq Nat /\ None \notin Genders \cup Bounds /\ Keep \notin Genders \cup Bounds \cup {None}
  /\ People \subseteq [gender : Genders \cup {None}, age : Nat, subscribed : BOOLEAN]
  /\ MaxEdits \in Nat

VARIABLES live,     \* contacts that exist
          person,   \* gender, age and consent of each; age 0 stands for no birthday
          list,     \* filters of the list, and whether it exists
          members,  \* ListMembership
          req,      \* what each request is doing
          edits

vars == <<live, person, list, members, req, edits>>

NoFilter == [gender |-> None, min |-> None, max |-> None]
New == [at |-> "new", filter |-> NoFilter, target |-> {}, current |-> {}, contact |-> None, calm |-> TRUE]
Over == [New EXCEPT !.at = "over"]

Init ==
  /\ live = Contacts /\ person \in [Contacts -> People]
  /\ list = [exists |-> FALSE, filter |-> NoFilter] /\ members = {}
  /\ req = [r \in Requests |-> New] /\ edits = 0

InRange(a, min, max) == (min = None \/ a >= min) /\ (max = None \/ a <= max)

\* Only adults: a contact without a birthday counts as none.
Adults == {c \in live : person[c].subscribed /\ person[c].age >= 18}

Matching(f) ==
  {c \in Adults : (f.gender = None \/ person[c].gender = f.gender) /\ InRange(person[c].age, f.min, f.max)}

Groups == {"18_24", "25_39", "40_plus"}

\* Mutant of InGroup: the middle group begins with the last age of the first.
InGroupWide(a, g) ==
  CASE g = "18_24" -> a >= 18 /\ a <= 24 [] g = "25_39" -> a >= 24 /\ a <= 39 [] g = "40_plus" -> a >= 40

InGroup(a, g) ==
  CASE g = "18_24" -> a >= 18 /\ a <= 24 [] g = "25_39" -> a >= 25 /\ a <= 39 [] g = "40_plus" -> a >= 40

\* buildAudience; None is any gender, any age.
Audience(gender, group) ==
  {c \in Adults : (gender = None \/ person[c].gender = gender)
                   /\ (group = None \/ InGroup(person[c].age, group))}

\* Request r goes on; others that had read what is changed are not calm any more.
Go(r, x) == req' = [req EXCEPT ![r] = x]
Disturb(r, x) == req' = [q \in Requests |-> IF q = r THEN x ELSE [req[q] EXCEPT !.calm = FALSE]]

-----------------------------------------------------------------------------
(* POST /lists, PUT /lists/:listId and POST /lists/:listId/sync *)

InOrder(min, max) == {min, max} \subseteq Nat => min <= max

Create(r, f) ==
  /\ req[r].at = "new" /\ ~list.exists /\ InOrder(f.min, f.max)
  /\ list' = [exists |-> TRUE, filter |-> f]
  /\ Disturb(r, IF f = NoFilter THEN Over ELSE [New EXCEPT !.at = "filters"])
  /\ UNCHANGED <<live, person, members, edits>>

Sent(x) == IF x = Keep THEN None ELSE x
Chosen(x, old) == IF x = Keep THEN old ELSE x

\* The bounds are compared with each other when both are sent, not with those stored.
Put(r, g, min, max) ==
  /\ req[r].at = "new" /\ list.exists /\ InOrder(Sent(min), Sent(max))
  /\ list' = [list EXCEPT !.filter = [gender |-> Chosen(g, @.gender), min |-> Chosen(min, @.min),
                                      max |-> Chosen(max, @.max)]]
  /\ Disturb(r, IF {g, min, max} = {Keep} THEN Over ELSE [New EXCEPT !.at = "filters"])
  /\ UNCHANGED <<live, person, members, edits>>

Sync(r) ==
  /\ req[r].at = "new" /\ list.exists /\ Go(r, [New EXCEPT !.at = "filters"])
  /\ UNCHANGED <<live, person, list, members, edits>>

ReadFilters(r) ==
  /\ req[r].at = "filters"
  /\ Go(r, [New EXCEPT !.at = "contacts", !.filter = list.filter])
  /\ UNCHANGED <<live, person, list, members, edits>>

ReadContacts(r) ==
  /\ req[r].at = "contacts"
  /\ Go(r, [req[r] EXCEPT !.at = "members", !.target = Matching(req[r].filter)])
  /\ UNCHANGED <<live, person, list, members, edits>>

ReadMembers(r) ==
  /\ req[r].at = "members"
  /\ Go(r, [req[r] EXCEPT !.at = "apply", !.current = members])
  /\ UNCHANGED <<live, person, list, members, edits>>

\* Mutant of Apply: contacts that no longer match stay.
ApplyAdds(r) ==
  LET toAdd == req[r].target \ req[r].current
  IN /\ req[r].at = "apply" /\ members' = IF toAdd \subseteq live THEN members \cup toAdd ELSE members
     /\ Disturb(r, Over)
     /\ UNCHANGED <<live, person, list, edits>>

\* One transaction: rows that are there already are skipped, and a contact that is gone
\* fails the whole.
Apply(r) ==
  LET toAdd    == req[r].target \ req[r].current
      toRemove == req[r].current \ req[r].target
  IN /\ req[r].at = "apply"
     /\ members' = IF toAdd \subseteq live THEN (members \cup toAdd) \ toRemove ELSE members
     /\ req' = [q \in Requests |-> IF q = r THEN Over
                  ELSE [req[q] EXCEPT !.calm = @ /\ (req[q].at = "apply" => req[q].target = req[r].target)]]
     /\ UNCHANGED <<live, person, list, edits>>

-----------------------------------------------------------------------------
(* POST and DELETE /lists/:listId/contacts/:contactId *)

FindBoth(r, c) ==
  /\ req[r].at = "new" /\ list.exists /\ c \in live
  /\ Go(r, [New EXCEPT !.at = "insert", !.contact = c])
  /\ UNCHANGED <<live, person, list, members, edits>>

\* A second row, or one of a deleted contact, is refused by the table.
InsertMember(r) ==
  /\ req[r].at = "insert"
  /\ members' = IF req[r].contact \in live THEN members \cup {req[r].contact} ELSE members
  /\ Disturb(r, Over)
  /\ UNCHANGED <<live, person, list, edits>>

Remove(r, c) ==
  /\ req[r].at = "new" /\ list.exists /\ c \in members
  /\ members' = members \ {c}
  /\ Disturb(r, Over)
  /\ UNCHANGED <<live, person, list, edits>>

\* Contacts are edited, subscribe, unsubscribe and grow older elsewhere.
Edit(c, p) ==
  /\ edits < MaxEdits /\ edits' = edits + 1
  /\ c \in live /\ person' = [person EXCEPT ![c] = p]
  /\ req' = [q \in Requests |-> [req[q] EXCEPT !.calm = FALSE]]
  /\ UNCHANGED <<live, list, members>>

DeleteContact(c) ==
  /\ edits < MaxEdits /\ edits' = edits + 1
  /\ c \in live /\ live' = live \ {c} /\ members' = members \ {c}
  /\ req' = [q \in Requests |-> [req[q] EXCEPT !.calm = FALSE]]
  /\ UNCHANGED <<person, list>>

Handle(r) ==
  \/ \E g \in Genders \cup {None}, min, max \in Bounds \cup {None} :
       Create(r, [gender |-> g, min |-> min, max |-> max])
  \/ \E g \in Genders \cup {None, Keep}, min, max \in Bounds \cup {None, Keep} : Put(r, g, min, max)
  \/ Sync(r) \/ ReadFilters(r) \/ ReadContacts(r) \/ ReadMembers(r) \/ Apply(r)
  \/ InsertMember(r) \/ \E c \in Contacts : FindBoth(r, c) \/ Remove(r, c)

Next ==
  \/ \E r \in Requests : Handle(r)
  \/ \E c \in Contacts : DeleteContact(c) \/ \E p \in People : Edit(c, p)

Spec == Init /\ [][Next]_vars

-----------------------------------------------------------------------------
Filters == [gender : Genders \cup {None}, min : Bounds \cup {None}, max : Bounds \cup {None}]

\* Types; members are contacts that exist.
TypeOK ==
  /\ live \subseteq Contacts /\ members \subseteq live
  /\ person \in [Contacts -> People] /\ list \in [exists : BOOLEAN, filter : Filters]
  /\ edits \in 0 .. MaxEdits
  /\ req \in [Requests -> [at : {"new", "filters", "contacts", "members", "apply", "insert", "over"},
                           filter : Filters, target : SUBSET Contacts, current : SUBSET Contacts,
                           contact : Contacts \cup {None}, calm : BOOLEAN]]

\* A sync during which no contact, filter or member was changed by others, save by syncs
\* that came to the same result, leaves the contacts that match the filters, and no others.
SyncExact ==
  [][\A r \in Requests :
       (req[r].at = "apply" /\ req[r].calm /\ req'[r].at = "over") => members' = Matching(list.filter)]_vars

GroupFilter(gender, g) ==
  [gender |-> gender, min |-> CASE g = "18_24" -> 18 [] g = "25_39" -> 25 [] g = "40_plus" -> 40,
   max |-> CASE g = "18_24" -> 24 [] g = "25_39" -> 39 [] g = "40_plus" -> None]

\* An audience of a campaign and a list with the same bounds select the same contacts, and
\* the predefined age lists divide the list of all contacts, although three pieces of code
\* decide (audience.service.js, validation.js, listSegmentation.service.js).
AudienceAgrees ==
  /\ \A gender \in Genders \cup {None}, g \in Groups :
       Audience(gender, g) = Matching(GroupFilter(gender, g))
  /\ \A c \in Audience(None, None) : Cardinality({g \in Groups : c \in Audience(None, g)}) = 1

\* docs/CONTACT_MODEL_REFACTOR.md: "filterAgeMin cannot be greater than filterAgeMax".
\* The code does not keep it (README, section 3).
RangeInOrder == InOrder(list.filter.min, list.filter.max)

\* lists.js:296: "If list has segmentation filters, only matching contacts are returned".
\* The code does not keep it (README, section 3).
OnlyMatching ==
  (list.filter # NoFilter /\ \A r \in Requests : req[r].at \in {"new", "over"}) =>
    members \subseteq Matching(list.filter)

\* docs/CONTACT_MODEL_REFACTOR.md: "Auto-syncs memberships when filters change": once the
\* requests that set the filters are over, the members are those of the filters stored.
\* The code does not keep it (README, section 3).
FiltersWin ==
  (list.filter # NoFilter /\ \A r \in Requests : req[r].at \in {"new", "over"}) =>
    members = Matching(list.filter)
=============================================================================
