------------------------------- MODULE Customers -------------------------------
(***************************************************************************)
(* The safety of what people are told: the owner's sessions, the lists of  *)
(* a store, and the offers that its customers redeem.                      *)
(* These share no variable, so that each behaves as it does alone while    *)
(* the others rest: one of them is chosen at the start and moves, and the  *)
(* states are their sum instead of their product.                          *)
(***************************************************************************)
EXTENDS Sessions

CONSTANTS
  Stores, People, Msgs, Store, Recipient, Welcome,  \* of Tracking: Owners, Contacts, Messages, ...
  Stickers, TagStore, Campaign, Tills, MaxChanges,
  Genders, Persons, Bounds, Edits, MaxPersons, Keep, \* of Lists
  AllGenders, AllPersons, AllBounds                 \* of the audiences, whom nobody changes

VARIABLES
  part,                                                                  \* the one that moves
  customers, status, newer, tag, redeemed, events, views, till, told, tEdits,  \* Tracking
  live, person, list, members, edit, lEdits                              \* Lists

sessions == vars
tracking == <<customers, status, newer, tag, redeemed, events, views, till, told, tEdits>>
lists    == <<live, person, list, members, edit, lEdits>>

Tracking == INSTANCE Tracking WITH
  contacts <- customers, req <- till, answers <- told, edits <- tEdits,
  Owners <- Stores, Contacts <- People, Messages <- Msgs, OwnerOf <- Store,
  ContactOf <- Recipient, Automated <- Welcome, Tags <- Stickers, StoreOf <- TagStore,
  Linked <- Campaign, Requests <- Tills, MaxEdits <- MaxChanges

Lists == INSTANCE Lists WITH
  req <- edit, edits <- lEdits, Contacts <- People,
  People <- Persons, Requests <- Edits, MaxEdits <- MaxPersons

Nobody == {}
Audience == INSTANCE Lists WITH
  req <- edit, edits <- lEdits, Contacts <- People, Genders <- AllGenders,
  People <- AllPersons, Bounds <- AllBounds, Requests <- Nobody, MaxEdits <- 0

\* null is no number and no group of ages, and "none" names no message.
ASSUME CustomersAssumption ==
  /\ Tracking!TrackingAssumption /\ "none" \notin Msgs
  /\ Lists!ListsAssumption /\ Audience!ListsAssumption
  /\ None \notin Nat \cup Audience!Groups

\* Contacts that are not the question are all alike.
Fixed == CHOOSE p \in Persons : TRUE

CustomersInit ==
  /\ Init /\ Tracking!Init
  /\ \/ part \in {"sessions", "tracking"} /\ Lists!Init /\ \A c \in People : person[c] = Fixed
     \/ part = "lists" /\ Lists!Init
     \/ part = "audience" /\ Audience!Init

CustomersNext ==
  \/ part = "sessions" /\ Next /\ UNCHANGED <<part, tracking, lists>>
  \/ part = "tracking" /\ Tracking!Next /\ UNCHANGED <<part, sessions, lists>>
  \/ part = "lists" /\ Lists!Next /\ UNCHANGED <<part, sessions, tracking>>

CustomersSpec ==
  CustomersInit /\ [][CustomersNext]_<<part, sessions, tracking, lists>>

\* The records of offers are true, however tills, visits, deliveries and deletions
\* interleave: one till at most is told that an offer is redeemed now, what a till was told
\* stays true, a visit counts for a message that was sent to that very customer in the
\* tag's store, and no row outlives what it refers to (tracking.js, conversion.service.js).
OffersAreKept ==
  part = "tracking" =>
    /\ Tracking!TypeOK /\ Tracking!RedeemedOnce
    /\ Tracking!RedemptionStands /\ Tracking!ConversionBelongs

\* A sync that nobody disturbs leaves exactly the contacts that match the filters
\* (listSegmentation.service.js).
SyncExact == Lists!SyncExact

\* The audience of a campaign and a list with the same bounds select the same contacts, and
\* no member of a list outlives its contact (audience.service.js, validation.js,
\* listSegmentation.service.js).
AudienceAgrees ==
  /\ part = "audience" => Audience!AudienceAgrees
  /\ part = "lists" => Lists!TypeOK
=============================================================================
