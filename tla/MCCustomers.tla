------------------------------ MODULE MCCustomers ------------------------------
(***************************************************************************)
(* Customers for TLC.                                                      *)
(***************************************************************************)
EXTENDS Customers, TLC

CONSTANTS o1, o2, c1, c2, m1, m2, t1, t2, male, female

\* Two messages of the first customer, one of them automated, and a tag of a campaign.
TwoStores    == c1 :> o1 @@ c2 :> o2
OneRecipient == m1 :> c1 @@ m2 :> c1
OneTagStore  == t1 :> o1 @@ t2 :> o1

\* Two requests on a list of two contacts, which change once.
Someone(age) == [gender |-> None, age |-> age, subscribed |-> TRUE]
Some         == {Someone(17), Someone(18), Someone(24)}

\* Two contacts of every age at a bound, gender and consent.
Everyone == [gender : {male, female, None}, age : {0, 17, 18, 24, 25, 39, 40}, subscribed : BOOLEAN]

\* The requests of Sessions are alike.
Alike == Permutations(Requests)
=============================================================================
