------------------------------ MODULE CustomersProofs ----------------------------
(***************************************************************************)
(* Proofs about Customers: the owner's sessions, for any number of         *)
(* concurrent requests, and the lists, the audiences and the records of    *)
(* offers, for any stores, people, messages, requests and filters.         *)
(* Shape gives every variable of Sessions its type and says which rows a   *)
(* request may name; LogoutInv and Remembered relate the rows to the       *)
(* answers given so far.                                                   *)
(***************************************************************************)
EXTENDS Customers, FiniteSetTheorems, TLAPS

-----------------------------------------------------------------------------
(* Sessions. *)

\* A request, with the fields that its state needs.
Work == [at : States, email : Emails \cup {None}, password : Passwords \cup {None},
         user : Requests \cup {None}, token : Requests \cup {None}, profile : Nat]

\* A request r in its state x, when U, T and G are the users, the tokens and those given.
Sound(x, r, U, T, G) ==
  /\ x \in Work
  /\ x.at = "registering" => x.email \in Emails
  /\ x.at \in {"registering", "password"} => x.password \in Passwords
  /\ x.at \in {"token", "refreshing", "password"} => x.user \in U
  /\ x.at \in {"refreshing", "revoking"} => x.token \in G
  /\ x.at \in {"new", "registering"} => r \notin U
  /\ x.at \in {"new", "registering", "token"} => r \notin T

UserType == [Requests -> [email : Emails \cup {None}, password : Passwords \cup {None}, profile : Nat]]
TokenType == [Requests -> [user : Requests \cup {None}, revoked : BOOLEAN, expired : BOOLEAN]]

Tables ==
  /\ edits \in 0 .. MaxEdits /\ given \subseteq Tokens
  /\ user \in UserType /\ \A u \in Requests : user[u].profile <= edits
  /\ token \in TokenType /\ \A t \in Tokens : token[t].user \in Users
  /\ access \subseteq [session : Tokens, profile : Nat, by : Requests]

Shape ==
  /\ Tables
  /\ req \in [Requests -> Work]
  /\ \A r \in Requests : Sound(req[r], r, Users, Tokens, given)

LEMMA NoneIsNew == None \notin Requests /\ None \notin Emails /\ None \notin Passwords
  BY SessionsAssumption

LEMMA ShapeInit == Init => Shape
  BY NoneIsNew, SessionsAssumption
  DEF Init, Shape, Tables, UserType, TokenType, Sound, Work, States, NoUser, NoToken, New, Tokens, Users

\* A step of request r adds no rows but its own.
Grows(r) ==
  /\ Users \subseteq Users' /\ Users' \subseteq Users \cup {r}
  /\ Tokens \subseteq Tokens' /\ Tokens' \subseteq Tokens \cup {r}
  /\ given \subseteq given'

\* So the other requests stay sound.
LEMMA MoveOne ==
  ASSUME Shape, NEW r \in Requests, NEW x, req' = [req EXCEPT ![r] = x],
         Grows(r), Sound(x, r, Users', Tokens', given'), Tables'
  PROVE  Shape'
<1>1. req' \in [Requests -> Work]
  BY DEF Shape, Sound
<1>2. ASSUME NEW q \in Requests
      PROVE  Sound(req'[q], q, Users', Tokens', given')
  <2>1. CASE q = r
    BY <2>1 DEF Shape
  <2>2. CASE q # r
    <3>1. req'[q] = req[q] /\ Sound(req[q], q, Users, Tokens, given)
      BY <2>2 DEF Shape
    <3>2. (q \in Users' <=> q \in Users) /\ (q \in Tokens' <=> q \in Tokens)
      BY <2>2 DEF Grows
    <3> QED  BY <3>1, <3>2 DEF Sound, Grows
  <2> QED  BY <2>1, <2>2
<1> QED  BY <1>1, <1>2 DEF Shape

\* What a step keeps of the rows that exist.
Kept == /\ \A u \in Users : u \in Users' /\ user'[u].email = user[u].email
        /\ \A t \in Tokens : t \in Tokens' /\ token'[t].user = token[t].user

\* Request r goes on, or answers, and the tables stay.
LEMMA OnlyRequest ==
  ASSUME Shape, NEW r \in Requests, NEW x, req' = [req EXCEPT ![r] = x],
         UNCHANGED <<rows, given, access, edits>>, Sound(x, r, Users, Tokens, given)
  PROVE  Shape' /\ Kept
<1>1. Users' = Users /\ Tokens' = Tokens /\ given' = given
  BY DEF rows, Users, Tokens
<1>2. Tables'
  BY <1>1 DEF Tables, rows, Shape
<1>3. Grows(r) /\ Kept
  BY <1>1 DEF Grows, Kept, rows
<1> QED  BY <1>1, <1>2, <1>3, MoveOne

LEMMA OverIsSound ==
  ASSUME NEW r, NEW U, NEW T, NEW G
  PROVE  Sound(Over, r, U, T, G)
BY DEF Sound, Over, New, Work, States

LEMMA ShapeStep ==
  ASSUME Shape, [Next]_vars
  PROVE  Shape' /\ Kept
<1>0. edits \in Nat /\ MaxEdits \in Nat /\ Tables
  BY SessionsAssumption DEF Shape, Tables
<1>1. ASSUME NEW r \in Requests, NEW e \in Emails, NEW p \in Passwords, FindEmail(r, e, p)
      PROVE  Shape' /\ Kept
  <2>1. Sound([New EXCEPT !.at = "registering", !.email = e, !.password = p], r, Users, Tokens, given)
    BY <1>1 DEF Shape, Sound, FindEmail, Begin, New, Work, States
  <2> QED  BY <1>1, <2>1, OverIsSound, OnlyRequest DEF FindEmail, Begin
<1>2. ASSUME NEW r \in Requests, NEW e \in Emails, NEW p \in Passwords, Login(r, e, p)
      PROVE  Shape' /\ Kept
  <2>1. ASSUME NEW u \in Accounts(e)
        PROVE  Sound([New EXCEPT !.at = "token", !.user = u, !.profile = user[u].profile],
                     r, Users, Tokens, given)
    BY <1>0, <1>2 DEF Shape, Tables, UserType, Sound, Login, Begin, New, Work, States, Accounts, Users
  <2> QED  BY <1>2, <2>1, OverIsSound, OnlyRequest DEF Login, Begin
<1>3. ASSUME NEW r \in Requests, CreateUser(r)
      PROVE  Shape' /\ Kept
  <2>0. Sound(req[r], r, Users, Tokens, given) /\ req[r].at = "registering"
    BY <1>3 DEF Shape, CreateUser
  <2>1. CASE Accounts(req[r].email) # {}
    BY <1>3, <2>1, OverIsSound, OnlyRequest DEF CreateUser, Answer, Go, rows
  <2>2. CASE Accounts(req[r].email) = {}
    <3>1. user' = [user EXCEPT ![r] = [email |-> req[r].email, password |-> req[r].password, profile |-> 0]]
      BY <1>3, <2>2 DEF CreateUser
    <3>2. UNCHANGED <<token, given, access, edits>> /\ Tokens' = Tokens
      BY <1>3 DEF CreateUser, Tokens
    <3>3. r \notin Users /\ Users' = Users \cup {r}
      BY <1>0, <2>0, <3>1, NoneIsNew DEF Tables, UserType, Sound, Users
    <3>4. Tables'
      BY <1>0, <2>0, <3>1, <3>2, <3>3 DEF Tables, UserType, Sound
    <3>5. Sound([req[r] EXCEPT !.at = "token", !.user = r], r, Users', Tokens', given')
      BY <2>0, <3>2, <3>3 DEF Sound, Work, States
    <3>6. Grows(r) /\ Kept
      BY <3>1, <3>2, <3>3 DEF Grows, Kept
    <3>7. req' = [req EXCEPT ![r] = [req[r] EXCEPT !.at = "token", !.user = r]]
      BY <1>3, <2>2 DEF CreateUser, Go
    <3> QED  BY <3>4, <3>5, <3>6, <3>7, MoveOne
  <2> QED  BY <2>1, <2>2
<1>4. ASSUME NEW r \in Requests, CreateToken(r)
      PROVE  Shape' /\ Kept
  <2>0. Sound(req[r], r, Users, Tokens, given) /\ req[r].at = "token"
    BY <1>4 DEF Shape, CreateToken
  <2>1. token' = [token EXCEPT ![r] = [NoToken EXCEPT !.user = req[r].user]]
    BY <1>4 DEF CreateToken
  <2>2. UNCHANGED <<user, edits>> /\ Users' = Users /\ given' = given \cup {r}
    BY <1>4 DEF CreateToken, Users
  <2>3. req[r].user \in Users /\ req[r].user \in Requests /\ r \notin Tokens /\ Tokens' = Tokens \cup {r}
    BY <1>0, <2>0, <2>1, NoneIsNew DEF Tables, TokenType, Sound, Users, Tokens, NoToken
  <2>4. Tables'
    <3>1. access' \subseteq [session : Tokens', profile : Nat, by : Requests]
      BY <1>0, <1>4, <2>0, <2>3 DEF CreateToken, Tables, Sound, Work
    <3>2. token' \in TokenType
      BY <1>0, <2>1, <2>3 DEF Tables, TokenType, NoToken
    <3>3. \A t \in Tokens' : token'[t].user \in Users'
      BY <1>0, <2>1, <2>2, <2>3 DEF Tables, TokenType, NoToken, Tokens
    <3> QED  BY <1>0, <2>2, <2>3, <3>1, <3>2, <3>3 DEF Tables
  <2>5. Grows(r) /\ Kept
    BY <1>0, <2>1, <2>2, <2>3 DEF Grows, Kept, Tokens, Tables, TokenType
  <2> QED  BY <1>4, <2>4, <2>5, OverIsSound, MoveOne DEF CreateToken, Answer, Go
<1>5. ASSUME NEW r \in Requests, NEW t \in given, FindToken(r, t)
      PROVE  Shape' /\ Kept
  <2>1. Sound([New EXCEPT !.at = "refreshing", !.token = t, !.user = token[t].user], r, Users, Tokens, given)
    BY <1>0, <1>5 DEF Shape, Tables, TokenType, Sound, FindToken, Begin, New, Work, States, Tokens, Users
  <2> QED  BY <1>5, <2>1, OverIsSound, OnlyRequest DEF FindToken, Begin
<1>6. ASSUME NEW r \in Requests, NEW t \in given, Logout(r, t)
      PROVE  Shape' /\ Kept
  <2>1. Sound([New EXCEPT !.at = "revoking", !.token = t], r, Users, Tokens, given)
    BY <1>0, <1>6 DEF Shape, Tables, Sound, Logout, Begin, New, Work, States, Tokens
  <2> QED  BY <1>6, <2>1, OnlyRequest DEF Logout, Begin
<1>7. ASSUME NEW r \in Requests, SignAccess(r)
      PROVE  Shape' /\ Kept
  <2>0. Sound(req[r], r, Users, Tokens, given) /\ req[r].at = "refreshing"
    BY <1>7 DEF Shape, SignAccess
  <2>1. UNCHANGED <<user, token, given, edits>> /\ Users' = Users /\ Tokens' = Tokens
    BY <1>7 DEF SignAccess, rows, Users, Tokens
  <2>2. req[r].user \in Requests /\ user[req[r].user].profile \in Nat /\ req[r].token \in Tokens
    BY <1>0, <2>0 DEF Tables, UserType, Sound, Users
  <2>3. access' \subseteq [session : Tokens', profile : Nat, by : Requests]
    BY <1>0, <1>7, <2>1, <2>2 DEF SignAccess, Tables
  <2>4. Tables' /\ Grows(r) /\ Kept
    BY <1>0, <2>1, <2>3 DEF Tables, Grows, Kept
  <2> QED  BY <1>7, <2>4, OverIsSound, MoveOne DEF SignAccess, Answer, Go
<1>8. ASSUME NEW r \in Requests, Revoke(r)
      PROVE  Shape' /\ Kept
  <2>0. Sound(req[r], r, Users, Tokens, given) /\ req[r].at = "revoking"
    BY <1>8 DEF Shape, Revoke
  <2>1. req[r].token \in Tokens /\ token' = [token EXCEPT ![req[r].token].revoked = TRUE]
    BY <1>0, <1>8, <2>0 DEF Revoke, Sound, Tables
  <2>2. token' \in TokenType /\ \A t \in Requests : token'[t].user = token[t].user
    BY <1>0, <2>1 DEF Tables, TokenType, Tokens
  <2>3. UNCHANGED <<user, given, access, edits>> /\ Users' = Users /\ Tokens' = Tokens
    BY <1>8, <2>2 DEF Revoke, Users, Tokens
  <2>4. Tables' /\ Grows(r) /\ Kept
    BY <1>0, <2>2, <2>3 DEF Tables, Grows, Kept, Tokens
  <2> QED  BY <1>8, <2>4, OverIsSound, MoveOne DEF Revoke, Answer, Go
<1>9. ASSUME NEW r \in Requests, WritePassword(r)
      PROVE  Shape' /\ Kept
  <2>0. Sound(req[r], r, Users, Tokens, given) /\ req[r].at = "password"
    BY <1>9 DEF Shape, WritePassword
  <2>1. req[r].user \in Requests /\ req[r].password \in Passwords
        /\ user' = [user EXCEPT ![req[r].user].password = req[r].password]
    BY <1>9, <2>0 DEF WritePassword, Sound, Users
  <2>2. user' \in UserType
        /\ \A u \in Requests : user'[u].email = user[u].email /\ user'[u].profile = user[u].profile
    BY <1>0, <2>1 DEF Tables, UserType
  <2>3. UNCHANGED <<token, given, access, edits>> /\ Users' = Users /\ Tokens' = Tokens
    BY <1>9, <2>2 DEF WritePassword, Users, Tokens
  <2>4. Tables' /\ Grows(r) /\ Kept
    BY <1>0, <2>2, <2>3 DEF Tables, Grows, Kept, Users
  <2> QED  BY <1>9, <2>4, OverIsSound, MoveOne DEF WritePassword, Answer, Go
<1>10. ASSUME NEW r \in Requests, Fails(r)
       PROVE  Shape' /\ Kept
  BY <1>10, OverIsSound, OnlyRequest DEF Fails, Go
<1>11. ASSUME NEW r \in Requests, NEW a \in access, PutUser(r, a)
       PROVE  Shape' /\ Kept
  <2>1. token[a.session].user \in Requests /\ edits' = edits + 1 /\ edits < MaxEdits
        /\ user' = [user EXCEPT ![token[a.session].user].profile = @ + 1]
    BY <1>0, <1>11 DEF PutUser, Tables, Users
  <2>2. user' \in UserType
        /\ \A u \in Requests : user'[u].email = user[u].email /\ user'[u].profile <= edits'
    BY <1>0, <2>1 DEF Tables, UserType
  <2>3. UNCHANGED <<token, given, access>> /\ Users' = Users /\ Tokens' = Tokens
    BY <1>11, <2>2 DEF PutUser, Users, Tokens
  <2>4. Tables' /\ Grows(r) /\ Kept
    <3>1. edits' \in 0 .. MaxEdits
      BY <1>0, <2>1 DEF Tables
    <3> QED  BY <1>0, <2>2, <2>3, <3>1 DEF Tables, Grows, Kept, Users
  <2> QED  BY <1>11, <2>4, OverIsSound, MoveOne DEF PutUser, Begin
<1>12. ASSUME NEW r \in Requests, NEW a \in access, NEW old \in Passwords, NEW p \in Passwords,
              PutPassword(r, a, old, p)
       PROVE  Shape' /\ Kept
  <2>1. Sound([New EXCEPT !.at = "password", !.user = token[a.session].user, !.password = p],
              r, Users, Tokens, given)
    BY <1>0, <1>12 DEF Shape, Tables, Sound, PutPassword, Begin, New, Work, States, Users
  <2> QED  BY <1>12, <2>1, OverIsSound, OnlyRequest DEF PutPassword, Begin
<1>13. ASSUME NEW t \in Requests, Expire(t)
       PROVE  Shape' /\ Kept
  <2>1. token' = [token EXCEPT ![t].expired = TRUE] /\ edits' = edits + 1 /\ edits < MaxEdits
    BY <1>13 DEF Expire
  <2>2. token' \in TokenType /\ \A k \in Requests : token'[k].user = token[k].user
    BY <1>0, <2>1 DEF Tables, TokenType
  <2>3. UNCHANGED <<user, given, access, req>> /\ Users' = Users /\ Tokens' = Tokens
    BY <1>13, <2>2 DEF Expire, Users, Tokens
  <2>4. Tables' /\ Kept
    <3>1. edits' \in 0 .. MaxEdits /\ \A u \in Requests : user[u].profile <= edits'
      BY <1>0, <2>1 DEF Tables, UserType
    <3> QED  BY <1>0, <2>2, <2>3, <3>1 DEF Tables, Kept, Tokens
  <2> QED  BY <2>3, <2>4 DEF Shape
<1>14. CASE UNCHANGED vars
  BY <1>14 DEF Shape, Tables, Kept, vars, rows, Users, Tokens
<1> QED  BY <1>1, <1>2, <1>3, <1>4, <1>5, <1>6, <1>7, <1>8, <1>9, <1>10, <1>11, <1>12, <1>13, <1>14
         DEF Next, Handle

\* Every variable has its type, and the rows that requests and tokens name exist.
THEOREM TypeCorrect == Spec => []TypeOK
<1>1. Shape /\ [Next]_vars => Shape'
  BY ShapeStep
<1>2. Shape => TypeOK
  <2> SUFFICES ASSUME Shape PROVE TypeOK
    OBVIOUS
  <2>1. user \in [Requests -> [email : Emails \cup {None}, password : Passwords \cup {None},
                               profile : 0 .. MaxEdits]]
    BY SessionsAssumption DEF Shape, Tables, UserType
  <2> QED  BY <2>1 DEF Shape, Tables, TokenType, Sound, Work, TypeOK
<1> QED  BY <1>1, <1>2, ShapeInit, PTL DEF Spec

LEMMA ShapeAlways == Spec => []Shape
<1>1. Shape /\ [Next]_vars => Shape'
  BY ShapeStep
<1> QED  BY <1>1, ShapeInit, PTL DEF Spec

\* Of requests that register one email at the same time, one makes the account.
THEOREM Unique == Spec => []OneAccount
<1>1. Init => OneAccount
  BY DEF Init, OneAccount, Users, NoUser
<1>2. Shape /\ OneAccount /\ [Next]_vars => OneAccount'
  <2> SUFFICES ASSUME Shape, OneAccount, [Next]_vars PROVE OneAccount'
    OBVIOUS
  <2>0. user \in UserType
    BY DEF Shape, Tables
  <2>1. ASSUME NEW r \in Requests, CreateUser(r), UNCHANGED user
        PROVE  OneAccount'
    BY <2>1 DEF OneAccount, Users
  <2>2. ASSUME NEW r \in Requests, CreateUser(r), ~UNCHANGED user
        PROVE  OneAccount'
    <3>1. /\ Accounts(req[r].email) = {}
          /\ user' = [user EXCEPT ![r] =
               [email |-> req[r].email, password |-> req[r].password, profile |-> 0]]
      BY <2>2 DEF CreateUser
    <3>2. \A u \in Users : u # r => user'[u].email # user'[r].email
      BY <2>0, <3>1 DEF Accounts, UserType, Users
    <3>3. \A u \in Users' : u = r \/ (u \in Users /\ user'[u].email = user[u].email)
      BY <2>0, <3>1 DEF UserType, Users
    <3> QED  BY <3>2, <3>3 DEF OneAccount
  <2>3. ASSUME \A u \in Requests : user'[u].email = user[u].email
        PROVE  OneAccount'
    BY <2>3 DEF OneAccount, Users
  <2>4. ASSUME NEW r \in Requests, WritePassword(r)
        PROVE  \A u \in Requests : user'[u].email = user[u].email
    BY <2>0, <2>4 DEF WritePassword, UserType
  <2>5. ASSUME NEW r \in Requests, NEW a \in access, PutUser(r, a)
        PROVE  \A u \in Requests : user'[u].email = user[u].email
    BY <2>0, <2>5 DEF PutUser, UserType
  <2>6. ASSUME ~\E r \in Requests : CreateUser(r) \/ WritePassword(r) \/ \E a \in access : PutUser(r, a)
        PROVE  user' = user
    BY <2>6 DEF Next, Handle, FindEmail, Login, CreateToken, FindToken, Logout, SignAccess, Revoke,
                Fails, PutPassword, Expire, vars, rows
  <2> QED  BY <2>1, <2>2, <2>3, <2>4, <2>5, <2>6
<1> QED  BY <1>1, <1>2, ShapeAlways, PTL DEF Spec

-----------------------------------------------------------------------------
(* Logouts *)

OutIn(S, t) == \E x \in S : x.what = "out" /\ x.of = t

LogoutInv ==
  /\ before \in [Requests -> SUBSET answers]
  /\ \A x \in answers : x.what \in {"out", "ended"} => x.of \in Tokens
  /\ \A t \in Tokens : token[t].revoked <=> OutIn(answers, t)
  /\ \A x \in answers : x.what = "ended" => token[x.of].expired \/ OutIn(answers, x.of)
  /\ \A a \in access : req[a.by].at = "over"
  /\ \A a \in access : a.by # a.session => ~OutIn(before[a.by], a.session)
  /\ \A r \in Requests : req[r].at = "refreshing" => ~OutIn(before[r], req[r].token)

\* A request begins: it remembers the answers given before it.
LEMMA LogoutBegin ==
  ASSUME Shape, LogoutInv, NEW r \in Requests, NEW x \in Work, Begin(r, x),
         UNCHANGED <<token, access>>,
         answers \subseteq answers', \A y \in answers' \ answers : y.what # "out",
         \A y \in answers' \ answers : y.what = "ended" =>
            y.of \in Tokens /\ (token[y.of].expired \/ OutIn(answers, y.of)),
         x.at = "refreshing" => ~OutIn(answers, x.token)
  PROVE  LogoutInv'
<1>1. req' = [req EXCEPT ![r] = x] /\ before' = [before EXCEPT ![r] = answers] /\ req[r].at = "new"
  BY DEF Begin
<1>2. Tokens' = Tokens /\ \A t : OutIn(answers', t) <=> OutIn(answers, t)
  BY DEF Tokens, OutIn
<1>3. before' \in [Requests -> SUBSET answers']
  BY <1>1 DEF LogoutInv
<1>4. \A a \in access : a.by # r /\ a.by \in Requests
  BY <1>1 DEF LogoutInv, Shape, Tables
<1>5. \A a \in access' : req'[a.by].at = "over"
  BY <1>1, <1>4 DEF LogoutInv, Shape
<1>6. \A a \in access' : a.by # a.session => ~OutIn(before'[a.by], a.session)
  BY <1>1, <1>4 DEF LogoutInv
<1>7. \A q \in Requests : req'[q].at = "refreshing" => ~OutIn(before'[q], req'[q].token)
  BY <1>1 DEF LogoutInv, Shape
<1>8. \A t \in Tokens' : token'[t].revoked <=> OutIn(answers', t)
  BY <1>2 DEF LogoutInv
<1>9. \A y \in answers' : y.what \in {"out", "ended"} => y.of \in Tokens'
  BY <1>2 DEF LogoutInv
<1>10. \A y \in answers' : y.what = "ended" => token'[y.of].expired \/ OutIn(answers', y.of)
  BY <1>2 DEF LogoutInv
<1> QED  BY <1>3, <1>5, <1>6, <1>7, <1>8, <1>9, <1>10 DEF LogoutInv

\* A request goes on, or is answered; it may make a session or sign a token.
LEMMA LogoutGo ==
  ASSUME Shape, LogoutInv, NEW r \in Requests, NEW x \in Work, Go(r, x),
         req[r].at # "over", x.at # "refreshing",
         Tokens \subseteq Tokens', \A t \in Tokens : token'[t] = token[t],
         \A t \in Tokens' \ Tokens : ~token'[t].revoked,
         answers \subseteq answers', \A y \in answers' \ answers : y.what \notin {"out", "ended"},
         \A a \in access' \ access : /\ a.by = r /\ x.at = "over"
                                     /\ a.by # a.session => ~OutIn(before[r], a.session)
  PROVE  LogoutInv'
<1>1. req' = [req EXCEPT ![r] = x] /\ before' = before
  BY DEF Go
<1>2. \A t : OutIn(answers', t) <=> OutIn(answers, t)
  BY DEF OutIn
<1>3. before' \in [Requests -> SUBSET answers']
  BY <1>1 DEF LogoutInv
<1>4. \A t \in Tokens' \ Tokens : ~OutIn(answers, t)
  BY DEF LogoutInv, OutIn
<1>5. \A a \in access : a.by # r /\ a.by \in Requests
  BY DEF LogoutInv, Shape, Tables
<1>6. \A a \in access' : req'[a.by].at = "over"
  BY <1>1, <1>5 DEF LogoutInv, Shape
<1>7. \A a \in access' : a.by # a.session => ~OutIn(before'[a.by], a.session)
  BY <1>1, <1>5 DEF LogoutInv
<1>8. \A q \in Requests : req'[q].at = "refreshing" => ~OutIn(before'[q], req'[q].token)
  BY <1>1 DEF LogoutInv, Shape
<1>9. \A t \in Tokens' : token'[t].revoked <=> OutIn(answers', t)
  BY <1>2, <1>4 DEF LogoutInv
<1>10. \A y \in answers' : y.what \in {"out", "ended"} => y.of \in Tokens'
  BY DEF LogoutInv
<1>11. \A y \in answers' : y.what = "ended" => token'[y.of].expired \/ OutIn(answers', y.of)
  BY <1>2 DEF LogoutInv
<1> QED  BY <1>3, <1>6, <1>7, <1>8, <1>9, <1>10, <1>11 DEF LogoutInv

LEMMA WorkIsTyped ==
  ASSUME Shape, NEW r \in Requests
  PROVE  Over \in Work /\ New \in Work /\ req[r] \in Work /\ Sound(req[r], r, Users, Tokens, given)
BY DEF Shape, Over, New, Work, States

LEMMA LogoutStep ==
  ASSUME Shape, LogoutInv, [Next]_vars
  PROVE  LogoutInv'
<1>0. Tables /\ Over.at = "over"
  BY DEF Shape, Over, New
<1>1. ASSUME NEW r \in Requests, NEW e \in Emails, NEW p \in Passwords, FindEmail(r, e, p)
      PROVE  LogoutInv'
  <2>1. [New EXCEPT !.at = "registering", !.email = e, !.password = p] \in Work
    BY DEF New, Work, States
  <2> QED  BY <1>0, <1>1, <2>1, WorkIsTyped, LogoutBegin DEF FindEmail, rows, New
<1>2. ASSUME NEW r \in Requests, NEW e \in Emails, NEW p \in Passwords, Login(r, e, p)
      PROVE  LogoutInv'
  <2>1. ASSUME NEW u \in Accounts(e)
        PROVE  [New EXCEPT !.at = "token", !.user = u, !.profile = user[u].profile] \in Work
    BY <1>0 DEF New, Work, States, Accounts, Users, Tables, UserType
  <2>2. UNCHANGED <<token, access>>
    BY <1>2 DEF Login, rows
  <2>3. CASE \E u \in Accounts(e) : user[u].password = p
    <3>1. PICK u \in Accounts(e) :
            /\ answers' = answers
            /\ Begin(r, [New EXCEPT !.at = "token", !.user = u, !.profile = user[u].profile])
      BY <1>2, <2>3 DEF Login
    <3> QED  BY <2>1, <2>2, <3>1, LogoutBegin DEF New
  <2>4. CASE \A u \in Accounts(e) : user[u].password # p
    <3>1. Begin(r, Over) /\ answers' = answers \cup {[req |-> r, what |-> "denied", of |-> e]}
      BY <1>2, <2>4 DEF Login
    <3> QED  BY <1>0, <2>2, <3>1, WorkIsTyped, LogoutBegin
  <2> QED  BY <2>3, <2>4
<1>3. ASSUME NEW r \in Requests, CreateUser(r)
      PROVE  LogoutInv'
  <2>1. [req[r] EXCEPT !.at = "token", !.user = r] \in Work
    BY WorkIsTyped DEF Work, States
  <2>2. UNCHANGED <<token, access>> /\ Tokens' = Tokens /\ req[r].at = "registering"
    BY <1>3 DEF CreateUser, Tokens
  <2>3. CASE Accounts(req[r].email) # {}
    BY <1>0, <1>3, <2>2, <2>3, WorkIsTyped, LogoutGo DEF CreateUser, Answer
  <2>4. CASE Accounts(req[r].email) = {}
    BY <1>3, <2>1, <2>2, <2>4, WorkIsTyped, LogoutGo DEF CreateUser, Work
  <2> QED  BY <2>3, <2>4
<1>4. ASSUME NEW r \in Requests, CreateToken(r)
      PROVE  LogoutInv'
  <2>1. r \notin Tokens /\ req[r].at = "token"
    BY <1>4, WorkIsTyped DEF CreateToken, Sound
  <2>2. token' = [token EXCEPT ![r] = [NoToken EXCEPT !.user = req[r].user]]
    BY <1>4 DEF CreateToken
  <2>3. (\A t \in Tokens : token'[t] = token[t]) /\ Tokens \subseteq Tokens'
    BY <1>0, <2>1, <2>2 DEF Tables, TokenType, Tokens
  <2>4. \A t \in Tokens' \ Tokens : ~token'[t].revoked
    BY <1>0, <2>1, <2>2 DEF Tables, TokenType, Tokens, NoToken
  <2>5. \A a \in access' \ access : a.by = r /\ a.by = a.session
    BY <1>4 DEF CreateToken
  <2> QED  BY <1>0, <1>4, <2>1, <2>3, <2>4, <2>5, WorkIsTyped, LogoutGo DEF CreateToken, Answer
<1>5. ASSUME NEW r \in Requests, NEW t \in given, FindToken(r, t)
      PROVE  LogoutInv'
  <2>1. [New EXCEPT !.at = "refreshing", !.token = t, !.user = token[t].user] \in Work
    BY <1>0 DEF New, Work, States, Tables, TokenType, Tokens
  <2>2. t \in Tokens /\ (Valid(t) => ~OutIn(answers, t))
        /\ (~Valid(t) => token[t].expired \/ OutIn(answers, t))
    BY <1>0 DEF Valid, LogoutInv, Tables
  <2>3. UNCHANGED <<token, access>>
    BY <1>5 DEF FindToken, rows
  <2>4. CASE Valid(t)
    BY <1>5, <2>1, <2>2, <2>3, <2>4, LogoutBegin DEF FindToken, New
  <2>5. CASE ~Valid(t)
    <3>1. Begin(r, Over) /\ answers' = answers \cup {[req |-> r, what |-> "ended", of |-> t]}
      BY <1>5, <2>5 DEF FindToken
    <3> QED  BY <1>0, <2>2, <2>3, <2>5, <3>1, WorkIsTyped, LogoutBegin
  <2> QED  BY <2>4, <2>5
<1>6. ASSUME NEW r \in Requests, NEW t \in given, Logout(r, t)
      PROVE  LogoutInv'
  <2>1. [New EXCEPT !.at = "revoking", !.token = t] \in Work
    BY <1>0 DEF New, Work, States, Tables, Tokens
  <2> QED  BY <1>6, <2>1, LogoutBegin DEF Logout, rows, New
<1>7. ASSUME NEW r \in Requests, SignAccess(r)
      PROVE  LogoutInv'
  <2>1. ~OutIn(before[r], req[r].token) /\ req[r].at = "refreshing"
    BY <1>7 DEF SignAccess, LogoutInv
  <2>2. token' = token /\ Tokens' = Tokens
    BY <1>7 DEF SignAccess, rows, Tokens
  <2> QED  BY <1>0, <1>7, <2>1, <2>2, WorkIsTyped, LogoutGo DEF SignAccess, Answer
<1>8. ASSUME NEW r \in Requests, Revoke(r)
      PROVE  LogoutInv'
  <2> DEFINE k == req[r].token
  <2>1. /\ k \in Tokens /\ req[r].at = "revoking"
        /\ token' = [token EXCEPT ![k].revoked = TRUE]
    BY <1>0, <1>8, WorkIsTyped DEF Revoke, Sound, Tables
  <2>2. Tokens' = Tokens /\ \A t \in Tokens : /\ token'[t].expired = token[t].expired
                                              /\ token'[t].revoked <=> (token[t].revoked \/ t = k)
    BY <1>0, <2>1 DEF Tables, TokenType, Tokens
  <2>3. /\ answers' = answers \cup {[req |-> r, what |-> "out", of |-> k]}
        /\ req' = [req EXCEPT ![r] = Over] /\ before' = before /\ access' = access
    BY <1>8 DEF Revoke, Answer, Go
  <2>4. \A t : OutIn(answers', t) <=> (OutIn(answers, t) \/ t = k)
    <3> DEFINE y == [req |-> r, what |-> "out", of |-> k]
    <3>1. y \in answers' /\ y.what = "out" /\ y.of = k
      BY <2>3
    <3>2. \A x \in answers' : x \in answers \/ x = y
      BY <2>3
    <3>3. answers \subseteq answers'
      BY <2>3
    <3> HIDE DEF y
    <3> QED  BY <3>1, <3>2, <3>3 DEF OutIn
  <2>5. before' \in [Requests -> SUBSET answers']
    BY <2>3 DEF LogoutInv
  <2>6. \A t \in Tokens' : token'[t].revoked <=> OutIn(answers', t)
    BY <2>2, <2>4 DEF LogoutInv
  <2>7. \A y \in answers' : y.what \in {"out", "ended"} => y.of \in Tokens'
    BY <2>1, <2>2, <2>3 DEF LogoutInv
  <2>8. \A y \in answers' : y.what = "ended" => token'[y.of].expired \/ OutIn(answers', y.of)
    <3>1. \A y \in answers' : y.what = "ended" => y \in answers /\ y.of \in Tokens
      BY <2>3 DEF LogoutInv
    <3> QED  BY <2>2, <2>4, <3>1 DEF LogoutInv
  <2>9. \A a \in access' : req'[a.by].at = "over"
    BY <1>0, <2>3 DEF LogoutInv, Shape
  <2>10. \A q \in Requests : req'[q].at = "refreshing" => ~OutIn(before'[q], req'[q].token)
    BY <1>0, <2>3 DEF LogoutInv, Shape
  <2>11. \A a \in access' : a.by # a.session => ~OutIn(before'[a.by], a.session)
    BY <2>3 DEF LogoutInv
  <2> QED  BY <2>5, <2>6, <2>7, <2>8, <2>9, <2>10, <2>11 DEF LogoutInv
<1>9. ASSUME NEW r \in Requests, WritePassword(r)
      PROVE  LogoutInv'
  <2>1. token' = token /\ Tokens' = Tokens /\ access' = access /\ req[r].at = "password"
    BY <1>9 DEF WritePassword, Tokens
  <2> QED  BY <1>0, <1>9, <2>1, WorkIsTyped, LogoutGo DEF WritePassword, Answer
<1>10. ASSUME NEW r \in Requests, Fails(r)
       PROVE  LogoutInv'
  <2>1. token' = token /\ Tokens' = Tokens /\ access' = access /\ req[r].at # "over"
    BY <1>10 DEF Fails, rows, Tokens
  <2> QED  BY <1>0, <1>10, <2>1, WorkIsTyped, LogoutGo DEF Fails
<1>11. ASSUME NEW r \in Requests, NEW a \in access, PutUser(r, a)
       PROVE  LogoutInv'
  BY <1>0, <1>11, WorkIsTyped, LogoutBegin DEF PutUser
<1>12. ASSUME NEW r \in Requests, NEW a \in access, NEW old \in Passwords, NEW p \in Passwords,
              PutPassword(r, a, old, p)
       PROVE  LogoutInv'
  <2>1. [New EXCEPT !.at = "password", !.user = token[a.session].user, !.password = p] \in Work
    BY <1>0 DEF New, Work, States, Tables, Users
  <2>2. UNCHANGED <<token, access>>
    BY <1>12 DEF PutPassword, rows
  <2>3. CASE user[token[a.session].user].password = old
    BY <1>12, <2>1, <2>2, <2>3, LogoutBegin DEF PutPassword, New
  <2>4. CASE user[token[a.session].user].password # old
    BY <1>0, <1>12, <2>2, <2>4, WorkIsTyped, LogoutBegin DEF PutPassword
  <2> QED  BY <2>3, <2>4
<1>13. ASSUME NEW t \in Requests, Expire(t)
       PROVE  LogoutInv'
  <2>1. token' = [token EXCEPT ![t].expired = TRUE] /\ UNCHANGED <<req, access, answers, before>>
    BY <1>13 DEF Expire
  <2>2. Tokens' = Tokens /\ \A k \in Tokens : /\ token[k].expired => token'[k].expired
                                              /\ token'[k].revoked = token[k].revoked
    BY <1>0, <2>1 DEF Tables, TokenType, Tokens
  <2> QED  BY <2>1, <2>2 DEF LogoutInv
<1>14. CASE UNCHANGED vars
  BY <1>14 DEF LogoutInv, vars, rows, Tokens
<1> QED  BY <1>1, <1>2, <1>3, <1>4, <1>5, <1>6, <1>7, <1>8, <1>9, <1>10, <1>11, <1>12, <1>13, <1>14
         DEF Next, Handle

LEMMA LogoutAlways == Spec => []LogoutInv
<1>1. Init => LogoutInv
  BY DEF Init, LogoutInv, Tokens, NoToken, OutIn, New
<1> QED  BY <1>1, LogoutStep, ShapeAlways, PTL DEF Spec

\* Once a logout is answered, no refresh that begins later yields a token of that session.
THEOREM Logouts == Spec => []LogoutStands
<1>1. LogoutInv => LogoutStands
  BY DEF LogoutInv, LogoutStands, OutIn
<1> QED  BY <1>1, LogoutAlways, PTL

\* A session ends only by its own logout or its term.
THEOREM SessionsStand == Spec => []SessionStands
<1>1. LogoutInv => SessionStands
  BY DEF LogoutInv, SessionStands, OutIn
<1> QED  BY <1>1, LogoutAlways, PTL

-----------------------------------------------------------------------------
(* Profiles *)

ProfileAnswers(S, u) == {x \in S : x.what = "profile" /\ x.of = u}

Counts ==
  /\ IsFiniteSet(answers)
  /\ \A x \in answers : x.what = "profile" => x.of \in Users
  /\ \A u \in Users : user[u].profile >= Cardinality(ProfileAnswers(answers, u))

Remembered ==
  /\ before \in [Requests -> SUBSET answers]
  /\ \A r \in Requests : req[r].at = "refreshing" => req[r].user = token[req[r].token].user
  /\ \A a \in access : req[a.by].at = "over"
  /\ \A a \in access : a.by # a.session =>
       a.profile >= Cardinality(ProfileAnswers(before[a.by], token[a.session].user))

\* The answers remembered are finitely many, and no more than those given.
LEMMA FewerBefore ==
  ASSUME Shape, Counts, Remembered, NEW r \in Requests, NEW u \in Users
  PROVE  user[u].profile >= Cardinality(ProfileAnswers(before[r], u))
<1>1. ProfileAnswers(before[r], u) \subseteq ProfileAnswers(answers, u)
  BY DEF Remembered, ProfileAnswers
<1>2. IsFiniteSet(ProfileAnswers(answers, u))
  BY FS_Subset DEF Counts, ProfileAnswers
<1>3. /\ Cardinality(ProfileAnswers(answers, u)) \in Nat
      /\ Cardinality(ProfileAnswers(before[r], u)) \in Nat
      /\ Cardinality(ProfileAnswers(before[r], u)) <= Cardinality(ProfileAnswers(answers, u))
  BY <1>1, <1>2, FS_Subset, FS_CardinalityType
<1>4. user[u].profile \in Nat
  BY DEF Shape, Tables, UserType, Users
<1> QED  BY <1>3, <1>4 DEF Counts

\* An answer that is not about a profile changes no count.
QuietAnswer == \E y : y.what # "profile" /\ answers' = answers \cup {y}

LEMMA AnswerIsQuiet ==
  ASSUME NEW r, NEW w, NEW u, w # "profile",
         answers' = answers \cup {[req |-> r, what |-> w, of |-> u]}
  PROVE  QuietAnswer
<1> DEFINE y == [req |-> r, what |-> w, of |-> u]
<1>1. y.what # "profile" /\ answers' = answers \cup {y}
  OBVIOUS
<1> HIDE DEF y
<1> QED  BY <1>1 DEF QuietAnswer

LEMMA CountsStay ==
  ASSUME Counts, Users' = Users, \A u \in Users : user'[u].profile = user[u].profile,
         answers' = answers \/ QuietAnswer
  PROVE  Counts'
<1>1. CASE answers' = answers
  BY <1>1 DEF Counts
<1>2. CASE QuietAnswer
  <2>1. PICK y : y.what # "profile" /\ answers' = answers \cup {y}
    BY <1>2 DEF QuietAnswer
  <2>2. \A u : ProfileAnswers(answers', u) = ProfileAnswers(answers, u)
    BY <2>1 DEF ProfileAnswers
  <2>3. IsFiniteSet(answers')
    BY <2>1, FS_AddElement DEF Counts
  <2>4. \A x \in answers' : x.what = "profile" => x.of \in Users'
    BY <2>1 DEF Counts
  <2> QED  BY <2>2, <2>3, <2>4 DEF Counts
<1> QED  BY <1>1, <1>2

\* A request moves: what is remembered for it, and for the tokens it signs, is still right.
LEMMA RememberedMove ==
  ASSUME Shape, Kept, Remembered, NEW r \in Requests, NEW x \in Work,
         req' = [req EXCEPT ![r] = x], req[r].at # "over", answers \subseteq answers',
         before' = before \/ before' = [before EXCEPT ![r] = answers],
         x.at = "refreshing" => x.user = token'[x.token].user,
         \A a \in access' \ access :
           /\ a.by = r /\ x.at = "over"
           /\ \/ a.by = a.session
              \/ a.profile >= Cardinality(ProfileAnswers(before'[r], token'[a.session].user))
  PROVE  Remembered'
<1>1. before' \in [Requests -> SUBSET answers']
  BY DEF Remembered
<1>2. \A q \in Requests : req'[q].at = "refreshing" => req'[q].user = token'[req'[q].token].user
  <2> SUFFICES ASSUME NEW q \in Requests, q # r, req[q].at = "refreshing"
               PROVE  req[q].user = token'[req[q].token].user
    BY DEF Shape
  <2>1. req[q].token \in Tokens
    BY DEF Shape, Sound, Tables
  <2> QED  BY <2>1 DEF Kept, Remembered
<1>3. \A a \in access : a.by # r /\ a.by \in Requests /\ a.session \in Tokens
  BY DEF Remembered, Shape, Tables
<1>4. \A a \in access' : req'[a.by].at = "over"
  BY <1>3 DEF Remembered, Shape
<1>5. \A a \in access : before'[a.by] = before[a.by] /\ token'[a.session].user = token[a.session].user
  BY <1>3 DEF Remembered, Kept
<1>6. \A a \in access' : a.by # a.session =>
        a.profile >= Cardinality(ProfileAnswers(before'[a.by], token'[a.session].user))
  BY <1>5 DEF Remembered
<1> QED  BY <1>1, <1>2, <1>4, <1>6 DEF Remembered

\* A profile grows with each answer that says so, and a new account starts with none.
LEMMA CountsStep ==
  ASSUME Shape, Counts, [Next]_vars
  PROVE  Counts'
<1>0. Tables
  BY DEF Shape
<1>1. ASSUME \A u \in Requests : user'[u].email = user[u].email /\ user'[u].profile = user[u].profile,
             answers' = answers \/ QuietAnswer
      PROVE  Counts'
  BY <1>1, CountsStay DEF Users
<1>2. ASSUME user' = user, answers' = answers \/ QuietAnswer
      PROVE  Counts'
  BY <1>1, <1>2
<1>3. ASSUME NEW r, NEW w, NEW u, w # "profile", Answer(r, w, u)
      PROVE  QuietAnswer
  BY <1>3, AnswerIsQuiet DEF Answer
<1>4. ASSUME NEW r \in Requests, CreateUser(r)
      PROVE  Counts'
  <2>1. CASE Accounts(req[r].email) # {}
    <3>1. Answer(r, "taken", req[r].email) /\ user' = user
      BY <1>4, <2>1 DEF CreateUser
    <3> QED  BY <1>2, <1>3, <3>1
  <2>2. CASE Accounts(req[r].email) = {}
    <3>1. r \notin Users /\ req[r].email \in Emails
      BY <1>4 DEF CreateUser, Shape, Sound
    <3>2. /\ user' = [user EXCEPT ![r] =
               [email |-> req[r].email, password |-> req[r].password, profile |-> 0]]
          /\ answers' = answers
      BY <1>4, <2>2 DEF CreateUser
    <3>3. Users' = Users \cup {r} /\ user'[r].profile = 0 /\ \A u \in Users : user'[u] = user[u]
      BY <1>0, <3>1, <3>2, NoneIsNew DEF Tables, UserType, Users
    <3>4. ProfileAnswers(answers, r) = {}
      BY <3>1 DEF Counts, ProfileAnswers
    <3> QED  BY <3>2, <3>3, <3>4, FS_EmptySet DEF Counts
  <2> QED  BY <2>1, <2>2
<1>5. ASSUME NEW r \in Requests, NEW a \in access, PutUser(r, a)
      PROVE  Counts'
  <2> DEFINE u == token[a.session].user
             y == [req |-> r, what |-> "profile", of |-> u]
  <2>1. /\ u \in Users /\ user' = [user EXCEPT ![u].profile = @ + 1]
        /\ answers' = answers \cup {y}
    BY <1>0, <1>5 DEF PutUser, Tables
  <2>2. y.what = "profile" /\ y.of = u
    OBVIOUS
  <2> HIDE DEF u, y
  <2>3. Users' = Users /\ user'[u].profile = user[u].profile + 1
        /\ \A v \in Users : v # u => user'[v] = user[v]
    BY <1>0, <2>1 DEF Tables, UserType, Users
  <2>4. IsFiniteSet(answers')
    BY <2>1, FS_AddElement DEF Counts
  <2>5. \A x \in answers' : x.what = "profile" => x.of \in Users'
    BY <2>1, <2>2, <2>3 DEF Counts
  <2>6. \A v \in Users : v # u => ProfileAnswers(answers', v) = ProfileAnswers(answers, v)
    BY <2>1, <2>2 DEF ProfileAnswers
  <2>7. ProfileAnswers(answers', u) = ProfileAnswers(answers, u) \cup {y}
    BY <2>1, <2>2 DEF ProfileAnswers
  <2>8. IsFiniteSet(ProfileAnswers(answers, u))
    BY FS_Subset DEF Counts, ProfileAnswers
  <2>9. /\ Cardinality(ProfileAnswers(answers, u)) \in Nat
        /\ Cardinality(ProfileAnswers(answers', u)) \in Nat
        /\ Cardinality(ProfileAnswers(answers', u)) <= Cardinality(ProfileAnswers(answers, u)) + 1
    <3>1. /\ IsFiniteSet(ProfileAnswers(answers', u))
          /\ \/ Cardinality(ProfileAnswers(answers', u)) = Cardinality(ProfileAnswers(answers, u)) + 1
             \/ Cardinality(ProfileAnswers(answers', u)) = Cardinality(ProfileAnswers(answers, u))
      BY <2>7, <2>8, FS_AddElement
    <3>2. /\ Cardinality(ProfileAnswers(answers, u)) \in Nat
          /\ Cardinality(ProfileAnswers(answers', u)) \in Nat
      BY <2>8, <3>1, FS_CardinalityType
    <3> QED  BY <3>1, <3>2
  <2>10. user[u].profile \in Nat
    BY <1>0, <2>1 DEF Tables, UserType, Users
  <2>11. user'[u].profile >= Cardinality(ProfileAnswers(answers', u))
    BY <2>1, <2>3, <2>9, <2>10 DEF Counts
  <2> QED  BY <2>3, <2>4, <2>5, <2>6, <2>11 DEF Counts
<1>6. ASSUME NEW r \in Requests, WritePassword(r)
      PROVE  Counts'
  <2>1. user' = [user EXCEPT ![req[r].user].password = req[r].password]
    BY <1>6 DEF WritePassword
  <2>2. \A u \in Requests : user'[u].email = user[u].email /\ user'[u].profile = user[u].profile
    BY <1>0, <2>1 DEF Tables, UserType
  <2>3. Answer(r, "changed", req[r].user)
    BY <1>6 DEF WritePassword
  <2> QED  BY <1>1, <1>3, <2>2, <2>3
<1>7. ASSUME NEW r \in Requests, CreateToken(r) \/ SignAccess(r) \/ Revoke(r)
      PROVE  Counts'
  <2>1. user' = user
    BY <1>7 DEF CreateToken, SignAccess, Revoke, rows
  <2>2. \/ Answer(r, "in", req[r].user)
        \/ Answer(r, "refreshed", req[r].token)
        \/ Answer(r, "out", req[r].token)
    BY <1>7 DEF CreateToken, SignAccess, Revoke
  <2> QED  BY <1>2, <1>3, <2>1, <2>2
<1>8. ASSUME UNCHANGED <<user, answers>>
      PROVE  Counts'
  BY <1>8 DEF Counts, Users
<1>9. ASSUME NEW r \in Requests, NEW e \in Emails, NEW p \in Passwords, Login(r, e, p)
      PROVE  Counts'
  <2>1. user' = user
    BY <1>9 DEF Login, rows
  <2>2. answers' = answers \/ answers' = answers \cup {[req |-> r, what |-> "denied", of |-> e]}
    BY <1>9 DEF Login
  <2> QED  BY <1>2, <2>1, <2>2, AnswerIsQuiet
<1>10. ASSUME NEW r \in Requests, NEW t \in given, FindToken(r, t)
       PROVE  Counts'
  <2>1. user' = user
    BY <1>10 DEF FindToken, rows
  <2>2. answers' = answers \/ answers' = answers \cup {[req |-> r, what |-> "ended", of |-> t]}
    BY <1>10 DEF FindToken
  <2> QED  BY <1>2, <2>1, <2>2, AnswerIsQuiet
<1>11. ASSUME NEW r \in Requests, NEW a \in access, NEW old \in Passwords, NEW p \in Passwords,
              PutPassword(r, a, old, p)
       PROVE  Counts'
  <2>1. user' = user
    BY <1>11 DEF PutPassword, rows
  <2> DEFINE u == token[a.session].user
  <2>2. answers' = answers \/ answers' = answers \cup {[req |-> r, what |-> "denied", of |-> u]}
    BY <1>11 DEF PutPassword
  <2> QED  BY <1>2, <2>1, <2>2, AnswerIsQuiet
<1>12. ASSUME NEW r \in Requests, NEW e \in Emails, NEW p \in Passwords, FindEmail(r, e, p)
       PROVE  Counts'
  BY <1>8, <1>12 DEF FindEmail, rows
<1>13. ASSUME NEW r \in Requests, NEW t \in given, Logout(r, t)
       PROVE  Counts'
  BY <1>8, <1>13 DEF Logout, rows
<1>14. ASSUME NEW r \in Requests, Fails(r) \/ Expire(r)
       PROVE  Counts'
  BY <1>8, <1>14 DEF Fails, Expire, rows
<1>15. CASE UNCHANGED vars
  BY <1>8, <1>15 DEF vars, rows
<1> QED  BY <1>4, <1>5, <1>6, <1>7, <1>9, <1>10, <1>11, <1>12, <1>13, <1>14, <1>15 DEF Next, Handle

LEMMA RememberedStep ==
  ASSUME Shape, Counts, Remembered, [Next]_vars
  PROVE  Remembered'
<1>0. Tables /\ Kept /\ Over \in Work /\ Over.at = "over" /\ New.at = "new"
  BY ShapeStep DEF Shape, Over, New, Work, States
<1>1. ASSUME NEW r \in Requests, NEW x \in Work, Begin(r, x), x.at # "refreshing",
             access' = access, answers \subseteq answers'
      PROVE  Remembered'
  BY <1>0, <1>1, RememberedMove DEF Begin
<1>2. ASSUME NEW r \in Requests, NEW x \in Work, Go(r, x), x.at # "refreshing", req[r].at # "over",
             access' = access, answers \subseteq answers'
      PROVE  Remembered'
  BY <1>0, <1>2, RememberedMove DEF Go
<1>3. ASSUME NEW r \in Requests, NEW e \in Emails, NEW p \in Passwords, FindEmail(r, e, p)
      PROVE  Remembered'
  <2>1. [New EXCEPT !.at = "registering", !.email = e, !.password = p] \in Work
    BY DEF New, Work, States
  <2> QED  BY <1>0, <1>1, <1>3, <2>1 DEF FindEmail, New
<1>4. ASSUME NEW r \in Requests, NEW e \in Emails, NEW p \in Passwords, Login(r, e, p)
      PROVE  Remembered'
  <2>1. ASSUME NEW u \in Accounts(e)
        PROVE  [New EXCEPT !.at = "token", !.user = u, !.profile = user[u].profile] \in Work
    BY <1>0 DEF New, Work, States, Accounts, Users, Tables, UserType
  <2>2. answers \subseteq answers' /\ access' = access
    BY <1>4 DEF Login
  <2>3. PICK x \in Work : Begin(r, x) /\ x.at # "refreshing"
    BY <1>0, <1>4, <2>1 DEF Login, New
  <2> QED  BY <1>1, <2>2, <2>3
<1>5. ASSUME NEW r \in Requests, CreateUser(r)
      PROVE  Remembered'
  <2>1. [req[r] EXCEPT !.at = "token", !.user = r] \in Work /\ req[r].at = "registering"
    BY <1>5, WorkIsTyped DEF CreateUser, Work, States
  <2>2. [req[r] EXCEPT !.at = "token", !.user = r].at = "token"
    BY WorkIsTyped DEF Work
  <2> QED  BY <1>0, <1>2, <1>5, <2>1, <2>2 DEF CreateUser, Answer
<1>6. ASSUME NEW r \in Requests, CreateToken(r)
      PROVE  Remembered'
  <2>1. Go(r, Over) /\ req[r].at = "token" /\ answers \subseteq answers'
        /\ \A a \in access' \ access : a.by = r /\ a.by = a.session
    BY <1>6 DEF CreateToken, Answer
  <2> QED  BY <1>0, <2>1, RememberedMove DEF Go
<1>7. ASSUME NEW r \in Requests, NEW t \in given, FindToken(r, t)
      PROVE  Remembered'
  <2> DEFINE x == [New EXCEPT !.at = "refreshing", !.token = t, !.user = token[t].user]
  <2>1. x \in Work /\ x.user = token[x.token].user
    BY <1>0 DEF New, Work, States, Tables, TokenType, Tokens
  <2>2. answers \subseteq answers' /\ access' = access /\ token' = token
    BY <1>7 DEF FindToken, rows
  <2>3. CASE Valid(t)
    <3>1. Begin(r, x)
      BY <1>7, <2>3 DEF FindToken
    <3> HIDE DEF x
    <3> QED  BY <2>1, <2>2, <3>1, <1>0, RememberedMove DEF Begin
  <2>4. CASE ~Valid(t)
    BY <1>0, <1>1, <1>7, <2>2, <2>4 DEF FindToken
  <2> QED  BY <2>3, <2>4
<1>8. ASSUME NEW r \in Requests, NEW t \in given, Logout(r, t)
      PROVE  Remembered'
  <2>1. [New EXCEPT !.at = "revoking", !.token = t] \in Work
    BY <1>0 DEF New, Work, States, Tables, Tokens
  <2> QED  BY <1>1, <1>8, <2>1 DEF Logout, New
<1>9. ASSUME NEW r \in Requests, SignAccess(r)
      PROVE  Remembered'
  <2>1. /\ Go(r, Over) /\ req[r].at = "refreshing" /\ answers \subseteq answers' /\ token' = token
        /\ access' = access \cup
             {[session |-> req[r].token, profile |-> user[req[r].user].profile, by |-> r]}
    BY <1>9 DEF SignAccess, Answer, rows
  <2>2. req[r].user \in Users /\ req[r].user = token[req[r].token].user
    BY <2>1 DEF Shape, Sound, Remembered
  <2>3. user[req[r].user].profile >= Cardinality(ProfileAnswers(before[r], req[r].user))
    BY <2>2, FewerBefore
  <2>4. \A a \in access' \ access :
          a.by = r /\ a.profile >= Cardinality(ProfileAnswers(before'[r], token'[a.session].user))
    BY <2>1, <2>2, <2>3 DEF Go
  <2> QED  BY <1>0, <2>1, <2>4, RememberedMove DEF Go
<1>10. ASSUME NEW r \in Requests, Revoke(r) \/ WritePassword(r) \/ Fails(r)
       PROVE  Remembered'
  <2>1. Go(r, Over) /\ req[r].at # "over" /\ answers \subseteq answers' /\ access' = access
    BY <1>10 DEF Revoke, WritePassword, Fails, Answer
  <2> QED  BY <1>0, <1>2, <2>1
<1>11. ASSUME NEW r \in Requests, NEW a \in access, PutUser(r, a)
       PROVE  Remembered'
  <2>1. Begin(r, Over) /\ answers \subseteq answers' /\ access' = access
    BY <1>11 DEF PutUser
  <2> QED  BY <1>0, <1>1, <2>1
<1>12. ASSUME NEW r \in Requests, NEW a \in access, NEW old \in Passwords, NEW p \in Passwords,
              PutPassword(r, a, old, p)
       PROVE  Remembered'
  <2>1. [New EXCEPT !.at = "password", !.user = token[a.session].user, !.password = p] \in Work
    BY <1>0 DEF New, Work, States, Tables, Users
  <2>2. answers \subseteq answers' /\ access' = access
    BY <1>12 DEF PutPassword
  <2>3. PICK x \in Work : Begin(r, x) /\ x.at # "refreshing"
    BY <1>0, <1>12, <2>1 DEF PutPassword, New
  <2> QED  BY <1>1, <2>2, <2>3
<1>13. ASSUME NEW t \in Requests, Expire(t)
       PROVE  Remembered'
  <2>1. token' = [token EXCEPT ![t].expired = TRUE] /\ UNCHANGED <<req, access, answers, before>>
    BY <1>13 DEF Expire
  <2>2. \A k \in Requests : token'[k].user = token[k].user
    BY <1>0, <2>1 DEF Tables, TokenType
  <2>3. (\A r \in Requests : req[r].at = "refreshing" => req[r].token \in Requests)
        /\ \A a \in access : a.session \in Requests
    BY <1>0 DEF Shape, Sound, Tables, Tokens
  <2> QED  BY <2>1, <2>2, <2>3 DEF Remembered
<1>14. CASE UNCHANGED vars
  BY <1>14 DEF Remembered, vars, rows
<1> QED  BY <1>3, <1>4, <1>5, <1>6, <1>7, <1>8, <1>9, <1>10, <1>11, <1>12, <1>13, <1>14
         DEF Next, Handle

\* An access token signed by a refresh says what every profile change answered before it set.
THEOREM Profiles == Spec => []ProfileIsFresh
<1>1. Init => Counts /\ Remembered
  BY FS_EmptySet DEF Init, Counts, Remembered, ProfileAnswers, Users, NoUser, New
<1>2. Remembered => ProfileIsFresh
  BY DEF Remembered, ProfileIsFresh, ProfileAnswers
<1> QED  BY <1>1, <1>2, CountsStep, RememberedStep, ShapeAlways, PTL DEF Spec

-----------------------------------------------------------------------------
(* The audiences: no behaviour is needed, every state with the types agrees. *)

\* An instance's Cardinality is the one the library's theorems are about.
LEMMA SameCount ==
  \A S : Audience!Cardinality(S) = Cardinality(S) /\ Tracking!Cardinality(S) = Cardinality(S)
<1>1. \A S : Audience!Cardinality(S) = Cardinality(S)
  BY DEF Audience!Cardinality, Cardinality
<1>2. \A S : Tracking!Cardinality(S) = Cardinality(S)
  BY DEF Tracking!Cardinality, Cardinality
<1> QED
  BY <1>1, <1>2

\* The filter of a group lets the ages of the group pass, and no others of an adult.
LEMMA SameRange ==
  ASSUME NEW a \in Nat, a >= 18, NEW gender, NEW g \in Audience!Groups
  PROVE  LET f == Audience!GroupFilter(gender, g)
         IN f.gender = gender /\ (Audience!InRange(a, f.min, f.max) <=> Audience!InGroup(a, g))
<1>1. None \notin Nat
  BY CustomersAssumption
<1>2. CASE g = "18_24"
  BY <1>1, <1>2 DEF Audience!GroupFilter, Audience!InRange, Audience!InGroup
<1>3. CASE g = "25_39"
  BY <1>1, <1>3 DEF Audience!GroupFilter, Audience!InRange, Audience!InGroup
<1>4. CASE g = "40_plus"
  BY <1>1, <1>4 DEF Audience!GroupFilter, Audience!InRange, Audience!InGroup
<1> QED
  BY <1>2, <1>3, <1>4 DEF Audience!Groups

\* What the groups are, one by one.
LEMMA Ages ==
  ASSUME NEW a \in Nat
  PROVE  /\ Audience!InGroup(a, "18_24") <=> a >= 18 /\ a <= 24
         /\ Audience!InGroup(a, "25_39") <=> a >= 25 /\ a <= 39
         /\ Audience!InGroup(a, "40_plus") <=> a >= 40
  BY DEF Audience!InGroup

\* An age of an adult is in one group.
LEMMA OneGroup ==
  ASSUME NEW a \in Nat, a >= 18
  PROVE  \E g \in Audience!Groups : {h \in Audience!Groups : Audience!InGroup(a, h)} = {g}
<1>1. CASE a <= 24
  <2>1. Audience!InGroup(a, "18_24") /\ ~Audience!InGroup(a, "25_39") /\ ~Audience!InGroup(a, "40_plus")
    BY <1>1, Ages
  <2>2. {h \in Audience!Groups : Audience!InGroup(a, h)} = {"18_24"}
    BY <2>1 DEF Audience!Groups
  <2> QED
    BY <2>2 DEF Audience!Groups
<1>2. CASE a > 24 /\ a <= 39
  <2>1. ~Audience!InGroup(a, "18_24") /\ Audience!InGroup(a, "25_39") /\ ~Audience!InGroup(a, "40_plus")
    BY <1>2, Ages
  <2>2. {h \in Audience!Groups : Audience!InGroup(a, h)} = {"25_39"}
    BY <2>1 DEF Audience!Groups
  <2> QED
    BY <2>2 DEF Audience!Groups
<1>3. CASE a > 39
  <2>1. ~Audience!InGroup(a, "18_24") /\ ~Audience!InGroup(a, "25_39") /\ Audience!InGroup(a, "40_plus")
    BY <1>3, Ages
  <2>2. {h \in Audience!Groups : Audience!InGroup(a, h)} = {"40_plus"}
    BY <2>1 DEF Audience!Groups
  <2> QED
    BY <2>2 DEF Audience!Groups
<1> QED
  BY <1>1, <1>2, <1>3

\* Three pieces of code choose the same contacts, whoever the contacts are.
LEMMA AudiencesAgree ==
  ASSUME live \subseteq People, person \in [People -> AllPersons]
  PROVE  Audience!AudienceAgrees
<1>1. \A c \in Audience!Adults : c \in People /\ person[c].age \in Nat /\ person[c].age >= 18
  BY CustomersAssumption DEF Audience!Adults, Audience!ListsAssumption
<1>2. None \notin Audience!Groups
  BY CustomersAssumption
<1>3. ASSUME NEW gender, NEW g \in Audience!Groups
      PROVE  Audience!Audience(gender, g) = Audience!Matching(Audience!GroupFilter(gender, g))
  BY <1>1, <1>2, <1>3, SameRange DEF Audience!Audience, Audience!Matching
<1>4. ASSUME NEW c \in Audience!Audience(None, None)
      PROVE  Cardinality({g \in Audience!Groups : c \in Audience!Audience(None, g)}) = 1
  <2>1. c \in Audience!Adults
    BY <1>4 DEF Audience!Audience
  <2>2. {g \in Audience!Groups : c \in Audience!Audience(None, g)} =
        {g \in Audience!Groups : Audience!InGroup(person[c].age, g)}
    BY <2>1, <1>2 DEF Audience!Audience
  <2>3. PICK g \in Audience!Groups : {h \in Audience!Groups : Audience!InGroup(person[c].age, h)} = {g}
    BY <2>1, <1>1, OneGroup
  <2> QED
    BY <2>2, <2>3, FS_Singleton
<1> QED
  BY <1>2, <1>3, <1>4, SameCount DEF Audience!AudienceAgrees
-----------------------------------------------------------------------------
(* The lists: a sync that nobody disturbs is exact. *)

Job == [at : {"new", "filters", "contacts", "members", "apply", "insert", "over"},
        filter : Lists!Filters, target : SUBSET People, current : SUBSET People,
        contact : People \cup {None}, calm : BOOLEAN]

\* What a sync that nobody disturbed has read is still so, and its transaction will leave
\* its target.
Holds(q) ==
  /\ q.at \in {"contacts", "members", "apply"} => q.filter = list.filter
  /\ q.at \in {"members", "apply"} => q.target = Lists!Matching(list.filter)
  /\ q.at = "apply" => (members \cup (q.target \ q.current)) \ (q.current \ q.target) = q.target

CalmHolds == \A r \in Edits : edit[r].calm => Holds(edit[r])

ListInv == Lists!TypeOK /\ CalmHolds

LEMMA FreshJobs ==
  /\ Lists!New \in Job /\ Lists!New.at = "new"
  /\ Lists!Over \in Job /\ Lists!Over.at = "over"
  BY DEF Lists!New, Lists!Over, Lists!NoFilter, Lists!Filters, Job

\* A request that goes on, or disturbs the others, keeps the types of all.
LEMMA JobsTyped ==
  ASSUME edit \in [Edits -> Job], NEW r \in Edits, NEW x \in Job,
         Lists!Go(r, x) \/ Lists!Disturb(r, x)
  PROVE  edit' \in [Edits -> Job]
<1>1. CASE Lists!Go(r, x)
  BY <1>1 DEF Lists!Go
<1>2. CASE Lists!Disturb(r, x)
  <2>1. \A q \in Edits : [edit[q] EXCEPT !.calm = FALSE] \in Job
    BY DEF Job
  <2> QED
    BY <1>2, <2>1 DEF Lists!Disturb
<1> QED
  BY <1>1, <1>2

\* The contacts that match are contacts that exist, and stay the same with what they are
\* chosen from.
LEMMA Matches ==
  ASSUME NEW f
  PROVE  /\ Lists!Matching(f) \subseteq live
         /\ UNCHANGED <<live, person, list>> =>
              Lists!Matching(list.filter)' = Lists!Matching(list.filter)
  BY DEF Lists!Matching, Lists!Adults

\* A request that goes on leaves what the others have read.
LEMMA GoesOn ==
  ASSUME edit \in [Edits -> Job], CalmHolds, NEW r \in Edits, NEW x,
         Lists!Go(r, x), x.calm => Holds(x), UNCHANGED <<live, person, list, members>>
  PROVE  CalmHolds'
<1>1. Lists!Matching(list.filter)' = Lists!Matching(list.filter)
  BY Matches
<1>2. SUFFICES ASSUME NEW q \in Edits, edit'[q].calm
               PROVE  Holds(edit[q])'
  BY DEF CalmHolds
<1>3. Holds(edit'[q])
  BY <1>2 DEF Lists!Go, CalmHolds
<1> QED
  BY <1>1, <1>3 DEF Holds

\* After a disturbance no other request is calm, and the one that made it has read nothing.
LEMMA Disturbs ==
  ASSUME edit \in [Edits -> Job], NEW r \in Edits, NEW x,
         Lists!Disturb(r, x), x.at \in {"filters", "over"}
  PROVE  CalmHolds'
<1>1. SUFFICES ASSUME NEW q \in Edits, edit'[q].calm
               PROVE  Holds(edit[q])'
  BY DEF CalmHolds
<1>2. q = r
  BY <1>1 DEF Lists!Disturb, Job
<1>3. edit'[q] = x
  BY <1>2 DEF Lists!Disturb
<1> QED
  BY <1>3 DEF Holds

\* A transaction with the same target takes nothing from the one that is to come.
LEMMA Transactions ==
  ASSUME NEW m, NEW t, NEW c, NEW d, (m \cup (t \ c)) \ (c \ t) = t
  PROVE  (((m \cup (t \ d)) \ (d \ t)) \cup (t \ c)) \ (c \ t) = t
  OBVIOUS

\* The transaction of a sync leaves what another, undisturbed one with the same target will
\* make of it.
LEMMA AppliesKeep ==
  ASSUME edit \in [Edits -> Job], CalmHolds, NEW r \in Edits, Lists!Apply(r)
  PROVE  CalmHolds'
<1>1. Lists!Matching(list.filter)' = Lists!Matching(list.filter)
  BY Matches DEF Lists!Apply
<1>2. SUFFICES ASSUME NEW q \in Edits, edit'[q].calm
               PROVE  Holds(edit[q])'
  BY DEF CalmHolds
<1>3. CASE q = r
  <2>1. edit'[q] = Lists!Over
    BY <1>3 DEF Lists!Apply
  <2> QED
    BY <2>1, FreshJobs DEF Holds
<1>4. CASE q # r
  <2>1. edit'[q] = [edit[q] EXCEPT !.calm =
                      @ /\ (edit[q].at = "apply" => edit[q].target = edit[r].target)]
    BY <1>4 DEF Lists!Apply
  <2>2. /\ edit[q].calm
        /\ edit[q].at = "apply" => edit[q].target = edit[r].target
        /\ edit'[q].at = edit[q].at /\ edit'[q].filter = edit[q].filter
        /\ edit'[q].target = edit[q].target /\ edit'[q].current = edit[q].current
    <3>1. edit[q] \in Job
      OBVIOUS
    <3>2. edit'[q].calm = (edit[q].calm /\ (edit[q].at = "apply" => edit[q].target = edit[r].target))
      BY <2>1, <3>1 DEF Job
    <3>3. edit[q].calm /\ (edit[q].at = "apply" => edit[q].target = edit[r].target)
      BY <1>2, <3>2
    <3>4. /\ edit'[q].at = edit[q].at /\ edit'[q].filter = edit[q].filter
          /\ edit'[q].target = edit[q].target /\ edit'[q].current = edit[q].current
      BY <2>1, <3>1 DEF Job
    <3> QED
      BY <3>3, <3>4
  <2>3. Holds(edit[q])
    BY <2>2 DEF CalmHolds
  <2>4. ASSUME edit[q].at = "apply"
        PROVE  (members' \cup (edit[q].target \ edit[q].current)) \ (edit[q].current \ edit[q].target)
               = edit[q].target
    <3>1. /\ edit[q].target = edit[r].target
          /\ (members \cup (edit[q].target \ edit[q].current)) \ (edit[q].current \ edit[q].target)
             = edit[q].target
      BY <2>2, <2>3, <2>4 DEF Holds
    <3>2. \/ members' = (members \cup (edit[r].target \ edit[r].current)) \ (edit[r].current \ edit[r].target)
          \/ members' = members
      BY DEF Lists!Apply
    <3> QED
      BY <3>1, <3>2, Transactions
  <2> QED
    BY <1>1, <2>2, <2>3, <2>4 DEF Holds, Lists!Apply
<1> QED
  BY <1>3, <1>4

\* Each step of a request keeps the types, and what undisturbed requests have read.
LEMMA JobStep ==
  ASSUME ListInv, NEW r \in Edits, Lists!Handle(r)
  PROVE  ListInv'
<1> DEFINE Rows == /\ live' \subseteq People /\ members' \subseteq live'
                   /\ person' \in [People -> Persons] /\ list' \in [exists : BOOLEAN, filter : Lists!Filters]
                   /\ lEdits' \in 0 .. MaxPersons
<1> USE DEF ListInv
<1>1. edit \in [Edits -> Job] /\ CalmHolds
  BY DEF Lists!TypeOK, Job
<1>2. Rows /\ edit' \in [Edits -> Job] => Lists!TypeOK'
  BY DEF Lists!TypeOK, Job, Lists!Filters
<1>3. UNCHANGED <<live, person, list, members, lEdits>> => Rows
  BY DEF Lists!TypeOK
<1>5. ASSUME NEW g \in Genders \cup {None}, NEW min \in Bounds \cup {None}, NEW max \in Bounds \cup {None},
             Lists!Create(r, [gender |-> g, min |-> min, max |-> max])
      PROVE  ListInv'
  <2> DEFINE x == IF [gender |-> g, min |-> min, max |-> max] = Lists!NoFilter THEN Lists!Over
                  ELSE [Lists!New EXCEPT !.at = "filters"]
  <2>1. x \in Job /\ x.at \in {"filters", "over"}
    BY FreshJobs DEF Lists!New, Job
  <2>2. Lists!Disturb(r, x) /\ Rows
    BY <1>5 DEF Lists!Create, Lists!TypeOK, Lists!Filters
  <2> QED
    BY <1>1, <1>2, <2>1, <2>2, JobsTyped, Disturbs
<1>6. ASSUME NEW g \in Genders \cup {None, Keep}, NEW min \in Bounds \cup {None, Keep},
             NEW max \in Bounds \cup {None, Keep}, Lists!Put(r, g, min, max)
      PROVE  ListInv'
  <2> DEFINE x == IF {g, min, max} = {Keep} THEN Lists!Over ELSE [Lists!New EXCEPT !.at = "filters"]
  <2>1. x \in Job /\ x.at \in {"filters", "over"}
    BY FreshJobs DEF Lists!New, Job
  <2>2. Lists!Disturb(r, x) /\ UNCHANGED <<live, person, members, lEdits>>
    BY <1>6 DEF Lists!Put
  <2>3. list' \in [exists : BOOLEAN, filter : Lists!Filters]
    BY <1>6 DEF Lists!Put, Lists!TypeOK, Lists!Filters, Lists!Chosen
  <2>4. Rows
    BY <2>2, <2>3 DEF Lists!TypeOK
  <2> QED
    BY <1>1, <1>2, <2>1, <2>2, <2>4, JobsTyped, Disturbs
<1>7. CASE Lists!Sync(r)
  <2> DEFINE x == [Lists!New EXCEPT !.at = "filters"]
  <2>1. x \in Job /\ x.at = "filters"
    BY FreshJobs DEF Lists!New, Job
  <2>2. Lists!Go(r, x) /\ UNCHANGED <<live, person, list, members, lEdits>>
    BY <1>7 DEF Lists!Sync
  <2>3. Holds(x)
    BY <2>1 DEF Holds
  <2> QED
    BY <1>1, <1>2, <1>3, <2>1, <2>2, <2>3, JobsTyped, GoesOn
<1>8. CASE Lists!ReadFilters(r)
  <2> DEFINE x == [Lists!New EXCEPT !.at = "contacts", !.filter = list.filter]
  <2>1. x \in Job /\ x.at = "contacts" /\ x.filter = list.filter
    BY DEF Lists!New, Lists!NoFilter, Job, Lists!TypeOK, Lists!Filters
  <2>2. Lists!Go(r, x) /\ UNCHANGED <<live, person, list, members, lEdits>>
    BY <1>8 DEF Lists!ReadFilters
  <2>3. Holds(x)
    BY <2>1 DEF Holds
  <2> QED
    BY <1>1, <1>2, <1>3, <2>1, <2>2, <2>3, JobsTyped, GoesOn
<1>9. CASE Lists!ReadContacts(r)
  <2> DEFINE x == [edit[r] EXCEPT !.at = "members", !.target = Lists!Matching(edit[r].filter)]
  <2>1. edit[r] \in Job /\ edit[r].at = "contacts" /\ Lists!Matching(edit[r].filter) \subseteq People
    BY <1>1, <1>9, Matches DEF Lists!ReadContacts, Lists!TypeOK
  <2>2. /\ x \in Job /\ x.at = "members" /\ x.target = Lists!Matching(edit[r].filter)
        /\ x.filter = edit[r].filter /\ x.calm = edit[r].calm
    BY <2>1 DEF Job
  <2>3. Lists!Go(r, x) /\ UNCHANGED <<live, person, list, members, lEdits>>
    BY <1>9 DEF Lists!ReadContacts
  <2>4. x.calm => Holds(x)
    BY <1>1, <2>1, <2>2 DEF CalmHolds, Holds
  <2> QED
    BY <1>1, <1>2, <1>3, <2>2, <2>3, <2>4, JobsTyped, GoesOn
<1>10. CASE Lists!ReadMembers(r)
  <2> DEFINE x == [edit[r] EXCEPT !.at = "apply", !.current = members]
  <2>1. edit[r] \in Job /\ edit[r].at = "members" /\ members \subseteq People
    BY <1>1, <1>10 DEF Lists!ReadMembers, Lists!TypeOK
  <2>2. /\ x \in Job /\ x.at = "apply" /\ x.target = edit[r].target /\ x.current = members
        /\ x.filter = edit[r].filter /\ x.calm = edit[r].calm
    BY <2>1 DEF Job
  <2>3. Lists!Go(r, x) /\ UNCHANGED <<live, person, list, members, lEdits>>
    BY <1>10 DEF Lists!ReadMembers
  <2>4. x.calm => Holds(x)
    BY <1>1, <2>1, <2>2 DEF CalmHolds, Holds
  <2> QED
    BY <1>1, <1>2, <1>3, <2>2, <2>3, <2>4, JobsTyped, GoesOn
<1>11. CASE Lists!Apply(r)
  <2>1. edit' \in [Edits -> Job]
    <3>1. SUFFICES ASSUME NEW q \in Edits
                   PROVE  [edit[q] EXCEPT !.calm = @ /\ (edit[q].at = "apply" =>
                             edit[q].target = edit[r].target)] \in Job
      BY <1>11, FreshJobs DEF Lists!Apply
    <3>2. edit[q] \in Job
      BY <1>1
    <3> QED
      BY <3>2 DEF Job
  <2>2. Rows
    BY <1>11 DEF Lists!Apply, Lists!TypeOK
  <2> QED
    BY <1>1, <1>2, <1>11, <2>1, <2>2, AppliesKeep
<1>12. CASE Lists!InsertMember(r)
  <2>1. Lists!Disturb(r, Lists!Over) /\ Rows
    BY <1>12 DEF Lists!InsertMember, Lists!TypeOK
  <2> QED
    BY <1>1, <1>2, <2>1, FreshJobs, JobsTyped, Disturbs
<1>13. ASSUME NEW c \in People, Lists!FindBoth(r, c)
       PROVE  ListInv'
  <2> DEFINE x == [Lists!New EXCEPT !.at = "insert", !.contact = c]
  <2>1. x \in Job /\ x.at = "insert"
    BY DEF Lists!New, Lists!NoFilter, Lists!Filters, Job
  <2>2. Lists!Go(r, x) /\ UNCHANGED <<live, person, list, members, lEdits>>
    BY <1>13 DEF Lists!FindBoth
  <2>3. Holds(x)
    BY <2>1 DEF Holds
  <2> QED
    BY <1>1, <1>2, <1>3, <2>1, <2>2, <2>3, JobsTyped, GoesOn
<1>14. ASSUME NEW c \in People, Lists!Remove(r, c)
       PROVE  ListInv'
  <2>1. Lists!Disturb(r, Lists!Over) /\ Rows
    BY <1>14 DEF Lists!Remove, Lists!TypeOK
  <2> QED
    BY <1>1, <1>2, <2>1, FreshJobs, JobsTyped, Disturbs
<1> QED
  BY <1>5, <1>6, <1>7, <1>8, <1>9, <1>10, <1>11, <1>12, <1>13, <1>14 DEF Lists!Handle

\* So does every change of a contact.
LEMMA ContactStep ==
  ASSUME ListInv, NEW c \in People,
         Lists!DeleteContact(c) \/ \E p \in Persons : Lists!Edit(c, p)
  PROVE  ListInv'
<1>1. edit \in [Edits -> Job]
  BY DEF ListInv, Lists!TypeOK, Job
<1>2. edit' = [q \in Edits |-> [edit[q] EXCEPT !.calm = FALSE]]
  BY DEF Lists!DeleteContact, Lists!Edit
<1>3. edit' \in [Edits -> Job]
  <2>1. \A q \in Edits : [edit[q] EXCEPT !.calm = FALSE] \in Job
    BY <1>1 DEF Job
  <2> QED
    BY <1>2, <2>1
<1>4. CalmHolds'
  BY <1>1, <1>2 DEF CalmHolds, Job
<1>5. CASE Lists!DeleteContact(c)
  <2>1. /\ live' \subseteq People /\ members' \subseteq live' /\ lEdits' \in 0 .. MaxPersons
        /\ UNCHANGED <<person, list>>
    BY <1>5, CustomersAssumption DEF Lists!DeleteContact, ListInv, Lists!TypeOK, Lists!ListsAssumption
  <2> QED
    BY <1>3, <1>4, <2>1 DEF ListInv, Lists!TypeOK, Job, Lists!Filters
<1>6. ASSUME NEW p \in Persons, Lists!Edit(c, p)
      PROVE  ListInv'
  <2>1. /\ person' \in [People -> Persons] /\ lEdits' \in 0 .. MaxPersons
        /\ UNCHANGED <<live, list, members>>
    BY <1>6, CustomersAssumption DEF Lists!Edit, ListInv, Lists!TypeOK, Lists!ListsAssumption
  <2> QED
    BY <1>3, <1>4, <2>1 DEF ListInv, Lists!TypeOK, Job, Lists!Filters
<1> QED
  BY <1>5, <1>6

LEMMA ListsNext ==
  ASSUME ListInv, Lists!Next
  PROVE  ListInv'
  BY JobStep, ContactStep DEF Lists!Next

LEMMA ListsInit ==
  ASSUME Lists!Init
  PROVE  ListInv
<1>1. edit \in [Edits -> Job] /\ \A r \in Edits : edit[r].at = "new"
  BY FreshJobs DEF Lists!Init
<1>2. CalmHolds
  BY <1>1 DEF CalmHolds, Holds
<1>3. Lists!TypeOK
  BY <1>1, CustomersAssumption DEF Lists!Init, Lists!TypeOK, Job, Lists!Filters, Lists!NoFilter,
    Lists!ListsAssumption
<1> QED
  BY <1>2, <1>3 DEF ListInv

\* The transaction that ends an undisturbed sync leaves the contacts that match.
LEMMA SyncStep ==
  ASSUME ListInv, Lists!Next, NEW r \in Edits,
         edit[r].at = "apply", edit[r].calm, edit'[r].at = "over"
  PROVE  members' = Lists!Matching(list.filter)
<1>1. edit \in [Edits -> Job] /\ Holds(edit[r])
  BY DEF ListInv, CalmHolds, Lists!TypeOK, Job
<1>2. Lists!Apply(r)
  <2>1. ASSUME NEW q \in Edits, Lists!Handle(q), ~Lists!Apply(q) \/ q # r
        PROVE  FALSE
    <3>1. ASSUME NEW x, Lists!Go(q, x) \/ Lists!Disturb(q, x), q # r
          PROVE  FALSE
      BY <1>1, <3>1 DEF Lists!Go, Lists!Disturb, Job
    <3>2. ASSUME Lists!Apply(q), q # r
          PROVE  FALSE
      BY <1>1, <3>2 DEF Lists!Apply, Job
    <3>3. q = r
      BY <2>1, <3>1, <3>2 DEF Lists!Handle, Lists!Create, Lists!Put, Lists!Sync, Lists!ReadFilters,
        Lists!ReadContacts, Lists!ReadMembers, Lists!InsertMember, Lists!FindBoth, Lists!Remove
    <3> QED
      BY <2>1, <3>3 DEF Lists!Handle, Lists!Create, Lists!Put, Lists!Sync, Lists!ReadFilters,
        Lists!ReadContacts, Lists!ReadMembers, Lists!InsertMember, Lists!FindBoth, Lists!Remove
  <2>2. ASSUME NEW c \in People, Lists!DeleteContact(c) \/ \E p \in Persons : Lists!Edit(c, p)
        PROVE  FALSE
    BY <1>1, <2>2 DEF Lists!DeleteContact, Lists!Edit, Job
  <2> QED
    BY <2>1, <2>2 DEF Lists!Next
<1>3. edit[r].target = Lists!Matching(list.filter) /\ edit[r].target \subseteq live
  BY <1>1, Matches DEF Holds
<1> QED
  BY <1>1, <1>2, <1>3 DEF Lists!Apply, Holds
-----------------------------------------------------------------------------
(* The offers: rows, what the requests under way rely on, and what was told. *)

Statuses == {"queued", "sent", "failed", "gone"}

\* Types of the rows, and what they say of each other.
RowsInv ==
  /\ customers \subseteq People /\ tEdits \in 0 .. MaxChanges
  /\ status \in [Msgs -> Statuses] /\ tag \in [Stickers -> {"active", "test", "inactive"}]
  /\ \A m \in Msgs : Tracking!Exists(m) <=> Recipient[m] \in customers
  /\ newer \subseteq Tracking!Dated \X Tracking!Dated
  /\ \A m, k \in Tracking!Dated : m # k => (<<m, k>> \in newer <=> <<k, m>> \notin newer)
  /\ \A m \in views : m \in Msgs /\ Tracking!Exists(m) /\ m \notin Welcome

\* A redemption belongs to the store of its message, which stays.
RedeemedInv ==
  \A x \in redeemed : /\ x \in [msg : Msgs, owner : Stores]
                      /\ Tracking!Exists(x.msg) /\ x.owner = Tracking!OwnerOfMessage(x.msg)

\* A message for the contact c that counts for a visit of its own.
Attributed(m, c) == m # "none" => /\ m \in Msgs \ Welcome /\ Recipient[m] = c
                              /\ status[m] # "queued"

EventsInv ==
  \A e \in events : /\ e.contact \in customers /\ Store[e.contact] = TagStore[e.tag]
                    /\ Attributed(e.msg, e.contact)

\* What a request that goes on has read of rows that never change, or change one way.
Relies(q) ==
  /\ q.at \in {"view", "check", "create"} => q.msg \in Msgs
  /\ q.at = "view" => q.msg \notin Welcome
  /\ q.at \in {"check", "create"} => q.owner = Tracking!OwnerOfMessage(q.msg)
  /\ q.at \in {"attribute", "verify", "record"} =>
       q.contact \in People /\ q.tag \in Stickers /\ Store[q.contact] = TagStore[q.tag]
  /\ q.at \in {"verify", "record"} => Attributed(q.msg, q.contact)

TillsInv == till \in [Tills -> Tracking!Work] /\ \A r \in Tills : Relies(till[r])

\* One till at most was told that a message is redeemed now, and that one was.
ToldInv ==
  /\ \A x \in told : x.answer \in {"redeemed", "already_redeemed"} =>
       x.msg \in Msgs /\ Tracking!Redeemed(x.msg)
  /\ \A x, y \in told : x.answer = "redeemed" /\ y.answer = "redeemed" /\ x.msg = y.msg => x = y

OfferInv == RowsInv /\ RedeemedInv /\ EventsInv /\ TillsInv /\ ToldInv

LEMMA OffersFollow ==
  ASSUME OfferInv
  PROVE  /\ Tracking!TypeOK /\ Tracking!RedeemedOnce
         /\ Tracking!RedemptionStands /\ Tracking!ConversionBelongs
<1>1. Tracking!TypeOK
  BY DEF OfferInv, RowsInv, RedeemedInv, EventsInv, TillsInv, Tracking!TypeOK, Statuses
<1>2. ASSUME NEW m \in Msgs
      PROVE  Cardinality(Tracking!Told(m, "redeemed")) <= 1
  <2>1. CASE Tracking!Told(m, "redeemed") = {}
    BY <2>1, FS_EmptySet
  <2>2. ASSUME NEW x \in Tracking!Told(m, "redeemed")
        PROVE  Cardinality(Tracking!Told(m, "redeemed")) <= 1
    <3>1. Tracking!Told(m, "redeemed") = {x}
      BY <2>2 DEF Tracking!Told, OfferInv, ToldInv
    <3> QED
      BY <3>1, FS_Singleton
  <2> QED
    BY <2>1, <2>2
<1>3. Tracking!RedeemedOnce
  BY <1>2, SameCount DEF Tracking!RedeemedOnce
<1>4. ASSUME NEW x \in told, x.answer \in {"redeemed", "already_redeemed"}
      PROVE  /\ Tracking!Exists(x.msg)
             /\ [msg |-> x.msg, owner |-> Tracking!OwnerOfMessage(x.msg)] \in redeemed
  <2>1. PICK y \in redeemed : y.msg = x.msg
    BY <1>4 DEF OfferInv, ToldInv, Tracking!Redeemed
  <2>2. y = [msg |-> x.msg, owner |-> Tracking!OwnerOfMessage(x.msg)] /\ Tracking!Exists(x.msg)
    BY <2>1 DEF OfferInv, RedeemedInv
  <2> QED
    BY <2>1, <2>2
<1>5. Tracking!RedemptionStands
  BY <1>4 DEF Tracking!RedemptionStands
<1>6. Tracking!ConversionBelongs
  <2>1. SUFFICES ASSUME NEW e \in events
                 PROVE  /\ Store[e.contact] = TagStore[e.tag]
                        /\ e.msg # "none" => /\ Recipient[e.msg] = e.contact /\ e.msg \notin Welcome
                                             /\ status[e.msg] \in {"sent", "failed"}
    BY DEF Tracking!ConversionBelongs
  <2>2. e.contact \in customers /\ Store[e.contact] = TagStore[e.tag] /\ Attributed(e.msg, e.contact)
    BY DEF OfferInv, EventsInv
  <2>3. e.msg # "none" => status[e.msg] \in Statuses \ {"queued", "gone"}
    BY <2>2 DEF Attributed, OfferInv, RowsInv, Tracking!Exists
  <2> QED
    BY <2>2, <2>3 DEF Attributed, Statuses
<1> QED
  BY <1>1, <1>3, <1>5, <1>6

LEMMA OffersInit ==
  ASSUME Tracking!Init
  PROVE  OfferInv
<1>1. RowsInv
  BY CustomersAssumption DEF Tracking!Init, RowsInv, Statuses, Tracking!Exists, Tracking!Dated,
    Tracking!TrackingAssumption
<1>2. RedeemedInv /\ EventsInv /\ ToldInv
  BY DEF Tracking!Init, RedeemedInv, EventsInv, ToldInv
<1>3. TillsInv
  BY DEF Tracking!Init, TillsInv, Relies, Tracking!New, Tracking!Work
<1> QED
  BY <1>1, <1>2, <1>3 DEF OfferInv

-----------------------------------------------------------------------------
(* A request that only reads. *)

\* What is asked of an answer that is added.
Honest(r, m, a) ==
  /\ a \in {"redeemed", "already_redeemed"} => m \in Msgs /\ Tracking!Redeemed(m)
  /\ a # "redeemed"

LEMMA TillGoesOn ==
  ASSUME OfferInv, NEW r \in Tills, NEW x \in Tracking!Work, Relies(x), Tracking!Go(r, x),
         UNCHANGED <<Tracking!tables, tEdits>>
  PROVE  OfferInv'
<1>1. RowsInv' /\ RedeemedInv' /\ EventsInv' /\ ToldInv'
  BY DEF OfferInv, RowsInv, RedeemedInv, EventsInv, ToldInv, Attributed, Tracking!Exists, Tracking!Dated,
    Tracking!OwnerOfMessage, Tracking!Redeemed, Tracking!tables, Tracking!Go
<1>2. \A q \in Tills : till'[q] \in Tracking!Work /\ Relies(till'[q])
  BY DEF OfferInv, TillsInv, Tracking!Go
<1>3. TillsInv'
  BY <1>2 DEF OfferInv, TillsInv, Relies, Attributed, Tracking!Go, Tracking!OwnerOfMessage, Tracking!tables
<1> QED
  BY <1>1, <1>3 DEF OfferInv

LEMMA TillAnswers ==
  ASSUME OfferInv, NEW r \in Tills, NEW m, NEW a, Honest(r, m, a), Tracking!Answer(r, m, a),
         UNCHANGED <<Tracking!tables, tEdits>>
  PROVE  OfferInv'
<1>1. RowsInv' /\ RedeemedInv' /\ EventsInv'
  BY DEF OfferInv, RowsInv, RedeemedInv, EventsInv, Attributed, Tracking!Exists, Tracking!Dated,
    Tracking!OwnerOfMessage, Tracking!tables
<1>2. TillsInv'
  BY DEF OfferInv, TillsInv, Relies, Attributed, Tracking!Answer, Tracking!Over, Tracking!New, Tracking!Work,
    Tracking!OwnerOfMessage, Tracking!tables
<1>3. ToldInv'
  BY DEF OfferInv, ToldInv, Honest, Tracking!Answer, Tracking!Redeemed, Tracking!tables
<1> QED
  BY <1>1, <1>2, <1>3 DEF OfferInv
LEMMA Readings ==
  ASSUME OfferInv, NEW r \in Tills
  PROVE  /\ \A m \in Msgs : Tracking!OpenOffer(r, m) => OfferInv'
         /\ \A m \in Msgs : Tracking!CheckRedeem(r, m) => OfferInv'
         /\ \A m \in Msgs, o \in Stores : Tracking!FindMessage(r, m, o) => OfferInv'
         /\ Tracking!FindRedemption(r) => OfferInv'
         /\ \A t \in Stickers, c \in People : Tracking!TapTag(r, t, c) => OfferInv'
         /\ Tracking!FindRecent(r) => OfferInv'
         /\ Tracking!VerifyTag(r) => OfferInv'
         /\ Tracking!Dies(r) => OfferInv'
<1> DEFINE q == till[r]
<1>1. q \in Tracking!Work /\ Relies(q)
  BY DEF OfferInv, TillsInv
<1>2. ASSUME NEW m \in Msgs, Tracking!OpenOffer(r, m)
      PROVE  OfferInv'
  <2> DEFINE x == [Tracking!New EXCEPT !.at = "view", !.msg = m]
  <2>1. m \notin Welcome => x \in Tracking!Work /\ Relies(x)
    BY DEF Tracking!New, Tracking!Work, Relies
  <2>2. \A a \in {"offer", "not found"} : Honest(r, m, a)
    BY DEF Honest
  <2>3. \/ m \notin Welcome /\ Tracking!Go(r, x)
        \/ \E a \in {"offer", "not found"} : Tracking!Answer(r, m, a)
    BY <1>2 DEF Tracking!OpenOffer
  <2>4. UNCHANGED <<Tracking!tables, tEdits>>
    BY <1>2 DEF Tracking!OpenOffer
  <2> QED
    BY <2>1, <2>2, <2>3, <2>4, TillGoesOn, TillAnswers
<1>3. ASSUME NEW m \in Msgs, Tracking!CheckRedeem(r, m)
      PROVE  OfferInv'
  <2>1. PICK a \in {"not found", "already_redeemed", "not redeemed"} :
          /\ Tracking!Answer(r, m, a)
          /\ a = "already_redeemed" => Tracking!Redeemed(m)
    BY <1>3 DEF Tracking!CheckRedeem
  <2>2. Honest(r, m, a)
    BY <2>1 DEF Honest
  <2> QED
    BY <1>3, <2>1, <2>2, TillAnswers DEF Tracking!CheckRedeem
<1>4. ASSUME NEW m \in Msgs, NEW o \in Stores, Tracking!FindMessage(r, m, o)
      PROVE  OfferInv'
  <2> DEFINE x == [Tracking!New EXCEPT !.at = "check", !.msg = m, !.owner = o]
  <2>1. o = Tracking!OwnerOfMessage(m) => x \in Tracking!Work /\ Relies(x)
    BY DEF Tracking!New, Tracking!Work, Relies
  <2>2. Honest(r, m, "not_found_or_forbidden")
    BY DEF Honest
  <2>3. \/ o = Tracking!OwnerOfMessage(m) /\ Tracking!Go(r, x)
        \/ Tracking!Answer(r, m, "not_found_or_forbidden")
    BY <1>4 DEF Tracking!FindMessage
  <2>4. UNCHANGED <<Tracking!tables, tEdits>>
    BY <1>4 DEF Tracking!FindMessage
  <2> QED
    BY <2>1, <2>2, <2>3, <2>4, TillGoesOn, TillAnswers
<1>5. CASE Tracking!FindRedemption(r)
  <2> DEFINE x == [till[r] EXCEPT !.at = "create"]
  <2>1. till[r].at = "check" /\ UNCHANGED <<Tracking!tables, tEdits>>
    BY <1>5 DEF Tracking!FindRedemption
  <2>2. x \in Tracking!Work /\ Relies(x)
    BY <1>1, <2>1 DEF Tracking!Work, Relies
  <2>3. Tracking!Redeemed(till[r].msg) => Honest(r, till[r].msg, "already_redeemed")
    BY <1>1, <2>1 DEF Honest, Relies
  <2>4. \/ Tracking!Go(r, x)
        \/ Tracking!Redeemed(till[r].msg) /\ Tracking!Answer(r, till[r].msg, "already_redeemed")
    BY <1>5 DEF Tracking!FindRedemption
  <2> QED
    BY <2>1, <2>2, <2>3, <2>4, TillGoesOn, TillAnswers
<1>6. ASSUME NEW t \in Stickers, NEW c \in People, Tracking!TapTag(r, t, c)
      PROVE  OfferInv'
  <2> DEFINE x == [Tracking!New EXCEPT !.at = "attribute", !.tag = t, !.contact = c]
  <2>1. Store[c] = TagStore[t] => x \in Tracking!Work /\ Relies(x)
    BY DEF Tracking!New, Tracking!Work, Relies
  <2>2. Honest(r, "none", "not found")
    BY DEF Honest
  <2>3. \/ Store[c] = TagStore[t] /\ Tracking!Go(r, x)
        \/ Tracking!Answer(r, "none", "not found")
    BY <1>6 DEF Tracking!TapTag
  <2>4. UNCHANGED <<Tracking!tables, tEdits>>
    BY <1>6 DEF Tracking!TapTag
  <2> QED
    BY <2>1, <2>2, <2>3, <2>4, TillGoesOn, TillAnswers
<1>7. CASE Tracking!FindRecent(r)
  <2>1. PICK m \in Msgs \cup {"none"} :
          /\ Tracking!Go(r, [till[r] EXCEPT !.at = "verify", !.msg = m])
          /\ m # "none" => m \in Msgs \ Welcome /\ status[m] = "sent" /\ Recipient[m] = till[r].contact
    BY <1>7 DEF Tracking!FindRecent
  <2> DEFINE x == [till[r] EXCEPT !.at = "verify", !.msg = m]
  <2>2. till[r].at = "attribute" /\ UNCHANGED <<Tracking!tables, tEdits>>
    BY <1>7 DEF Tracking!FindRecent
  <2>3. x \in Tracking!Work /\ Relies(x)
    BY <1>1, <2>1, <2>2 DEF Tracking!Work, Relies, Attributed
  <2> QED
    BY <2>1, <2>2, <2>3, TillGoesOn
<1>8. CASE Tracking!VerifyTag(r)
  <2> DEFINE x == [till[r] EXCEPT !.at = "record"]
  <2>1. till[r].at = "verify" /\ UNCHANGED <<Tracking!tables, tEdits>>
    BY <1>8 DEF Tracking!VerifyTag
  <2>2. x \in Tracking!Work /\ Relies(x)
    BY <1>1, <2>1 DEF Tracking!Work, Relies
  <2>3. Honest(r, "none", "not found")
    BY DEF Honest
  <2>4. Tracking!Go(r, x) \/ Tracking!Answer(r, "none", "not found")
    BY <1>8 DEF Tracking!VerifyTag
  <2> QED
    BY <2>1, <2>2, <2>3, <2>4, TillGoesOn, TillAnswers
<1>9. CASE Tracking!Dies(r)
  <2>1. Tracking!Over \in Tracking!Work /\ Relies(Tracking!Over)
    BY DEF Tracking!Over, Tracking!New, Tracking!Work, Relies
  <2> QED
    BY <1>9, <2>1, TillGoesOn DEF Tracking!Dies
<1> QED
  BY <1>2, <1>3, <1>4, <1>5, <1>6, <1>7, <1>8, <1>9

-----------------------------------------------------------------------------
(* A request that writes a row, and the others that change the rows. *)

\* A request that is over relies on nothing, and the others on what did not change.
LEMMA EndsAfterWriting ==
  ASSUME TillsInv, NEW r \in Tills, till' = [till EXCEPT ![r] = Tracking!Over], UNCHANGED status
  PROVE  TillsInv'
  BY DEF TillsInv, Relies, Attributed, Tracking!Over, Tracking!New, Tracking!Work, Tracking!OwnerOfMessage

LEMMA Writings ==
  ASSUME OfferInv, NEW r \in Tills
  PROVE  /\ Tracking!RecordView(r) => OfferInv'
         /\ Tracking!CreateRedemption(r) => OfferInv'
         /\ Tracking!RecordConversion(r) => OfferInv'
<1>1. till[r] \in Tracking!Work /\ Relies(till[r])
  BY DEF OfferInv, TillsInv
<1>2. CASE Tracking!RecordView(r)
  <2> DEFINE m == till[r].msg
  <2>1. m \in Msgs \ Welcome
    BY <1>1, <1>2 DEF Relies, Tracking!RecordView
  <2>2. /\ views' = views \/ (Tracking!Exists(m) /\ views' = views \cup {m})
        /\ UNCHANGED <<customers, status, newer, tag, redeemed, events, tEdits>>
    BY <1>2 DEF Tracking!RecordView
  <2>3. RowsInv'
    BY <2>1, <2>2 DEF OfferInv, RowsInv, Tracking!Exists, Tracking!Dated
  <2>4. RedeemedInv' /\ EventsInv'
    BY <2>2 DEF OfferInv, RedeemedInv, EventsInv, Attributed, Tracking!Exists, Tracking!OwnerOfMessage
  <2>5. TillsInv'
    BY <1>2, EndsAfterWriting DEF OfferInv, Tracking!RecordView, Tracking!Answer
  <2>6. ToldInv'
    BY <1>2 DEF OfferInv, ToldInv, Tracking!RecordView, Tracking!Answer, Tracking!Redeemed
  <2> QED
    BY <2>3, <2>4, <2>5, <2>6 DEF OfferInv
<1>3. CASE Tracking!CreateRedemption(r)
  <2>1. PICK m \in Msgs : m = till[r].msg
    BY <1>1, <1>3 DEF Relies, Tracking!CreateRedemption
  <2>2. m \in Msgs /\ till[r].owner = Tracking!OwnerOfMessage(m) /\ Recipient[m] \in People
    BY <1>1, <1>3, <2>1, CustomersAssumption DEF Relies, Tracking!CreateRedemption, Tracking!TrackingAssumption
  <2>3. /\ UNCHANGED <<customers, status, newer, tag, events, views, tEdits>>
        /\ till' = [till EXCEPT ![r] = Tracking!Over]
    BY <1>3 DEF Tracking!CreateRedemption, Tracking!Answer
  <2>4. RowsInv' /\ EventsInv' /\ TillsInv'
    BY <2>3, EndsAfterWriting DEF OfferInv, RowsInv, EventsInv, Attributed, Tracking!Exists, Tracking!Dated
  <2>5. CASE Tracking!Exists(m) /\ ~Tracking!Redeemed(m)
    <3>1. /\ redeemed' = redeemed \cup {[msg |-> m, owner |-> till[r].owner]}
          /\ told' = told \cup {[req |-> r, msg |-> m, answer |-> "redeemed"]}
      BY <1>3, <2>1, <2>5 DEF Tracking!CreateRedemption, Tracking!Answer
    <3>2. till[r].owner \in Stores
      BY <2>2, CustomersAssumption DEF Tracking!OwnerOfMessage, Tracking!TrackingAssumption
    <3>3. RedeemedInv'
      BY <2>2, <2>3, <2>5, <3>1, <3>2 DEF OfferInv, RedeemedInv, Tracking!Exists, Tracking!OwnerOfMessage
    <3>4. Tracking!Redeemed(m)' /\ \A k \in Msgs : Tracking!Redeemed(k) => Tracking!Redeemed(k)'
      <4>1. [msg |-> m, owner |-> till[r].owner] \in redeemed' /\ redeemed \subseteq redeemed'
        BY <3>1
      <4>2. \E x \in redeemed' : x.msg = m
        BY <4>1
      <4> QED
        BY <4>1, <4>2 DEF Tracking!Redeemed
    <3>5. \A x \in told : x.answer = "redeemed" => x.msg # m
      BY <2>5 DEF OfferInv, ToldInv
    <3>6. ToldInv'
      BY <2>2, <3>1, <3>4, <3>5 DEF OfferInv, ToldInv
    <3> QED
      BY <2>4, <3>3, <3>6 DEF OfferInv
  <2>6. CASE ~(Tracking!Exists(m) /\ ~Tracking!Redeemed(m))
    <3>1. redeemed' = redeemed /\ told' = told \cup {[req |-> r, msg |-> m, answer |-> "error"]}
      BY <1>3, <2>1, <2>6 DEF Tracking!CreateRedemption, Tracking!Answer
    <3>2. RedeemedInv'
      BY <2>3, <3>1 DEF OfferInv, RedeemedInv, Tracking!Exists, Tracking!OwnerOfMessage
    <3>3. ToldInv'
      BY <3>1 DEF OfferInv, ToldInv, Tracking!Redeemed
    <3> QED
      BY <2>4, <3>2, <3>3 DEF OfferInv
  <2> QED
    BY <2>5, <2>6
<1>4. CASE Tracking!RecordConversion(r)
  <2> DEFINE c == till[r].contact
             e == [req |-> r, contact |-> c, msg |-> till[r].msg, tag |-> till[r].tag]
  <2>1. Store[c] = TagStore[till[r].tag] /\ Attributed(till[r].msg, c)
    BY <1>1, <1>4 DEF Relies, Tracking!RecordConversion
  <2>2. /\ UNCHANGED <<customers, status, newer, tag, redeemed, views, tEdits>>
        /\ till' = [till EXCEPT ![r] = Tracking!Over]
        /\ events' = events \/ (c \in customers /\ events' = events \cup {e})
        /\ \E a \in {"confirmed", "error"} :
             told' = told \cup {[req |-> r, msg |-> till[r].msg, answer |-> a]}
    BY <1>4 DEF Tracking!RecordConversion, Tracking!Answer
  <2>3. RowsInv' /\ RedeemedInv' /\ TillsInv'
    BY <2>2, EndsAfterWriting DEF OfferInv, RowsInv, RedeemedInv, Tracking!Exists, Tracking!Dated,
      Tracking!OwnerOfMessage
  <2>4. EventsInv'
    BY <2>1, <2>2 DEF OfferInv, EventsInv, Attributed
  <2>5. ToldInv'
    BY <2>2 DEF OfferInv, ToldInv, Tracking!Redeemed
  <2> QED
    BY <2>3, <2>4, <2>5 DEF OfferInv
<1> QED
  BY <1>2, <1>3, <1>4

\* No request relies on more of a message than that it is not waiting to be sent.
LEMMA TillsStay ==
  ASSUME TillsInv, UNCHANGED till, \A m \in Msgs : status[m] # "queued" => status'[m] # "queued"
  PROVE  TillsInv'
  BY DEF TillsInv, Relies, Attributed, Tracking!Work, Tracking!OwnerOfMessage

LEMMA OthersKeep ==
  ASSUME OfferInv, Tracking!Others
  PROVE  OfferInv'
<1>1. ASSUME NEW m \in Msgs, Tracking!Deliver(m)
      PROVE  OfferInv'
  <2>1. /\ UNCHANGED <<customers, tag, redeemed, events, views, till, told, tEdits>>
        /\ status[m] # "gone" /\ status' = [status EXCEPT ![m] = "sent"]
        /\ status \in [Msgs -> Statuses]
    BY <1>1 DEF Tracking!Deliver, Tracking!Exists, OfferInv, RowsInv
  <2>2. \A k \in Msgs : /\ status[k] # "queued" => status'[k] # "queued"
                        /\ Tracking!Exists(k)' <=> Tracking!Exists(k)
    BY <2>1 DEF Tracking!Exists, Statuses
  <2>3. Tracking!Dated' = Tracking!Dated \cup {m}
    BY <2>1 DEF Tracking!Dated, Statuses
  <2>4. /\ newer' \subseteq Tracking!Dated' \X Tracking!Dated'
        /\ \A j, k \in Tracking!Dated' : j # k => (<<j, k>> \in newer' <=> <<k, j>> \notin newer')
    <3>1. newer' = {p \in newer : p[1] # m /\ p[2] # m} \cup ({m} \X (Tracking!Dated \ {m}))
      BY <1>1 DEF Tracking!Deliver, Tracking!Without
    <3> QED
      BY <2>3, <3>1 DEF OfferInv, RowsInv
  <2>5. RowsInv'
    BY <2>1, <2>2, <2>4 DEF OfferInv, RowsInv, Statuses
  <2>6. RedeemedInv' /\ EventsInv' /\ ToldInv'
    BY <2>1, <2>2 DEF OfferInv, RedeemedInv, EventsInv, ToldInv, Attributed, Tracking!OwnerOfMessage,
      Tracking!Redeemed
  <2> QED
    BY <2>1, <2>2, <2>5, <2>6, TillsStay DEF OfferInv
<1>2. ASSUME NEW m \in Msgs, Tracking!ReportFailed(m)
      PROVE  OfferInv'
  <2>1. /\ UNCHANGED <<customers, newer, tag, redeemed, events, views, till, told, tEdits>>
        /\ status[m] = "sent" /\ status' = [status EXCEPT ![m] = "failed"]
        /\ status \in [Msgs -> Statuses]
    BY <1>2 DEF Tracking!ReportFailed, OfferInv, RowsInv
  <2>2. \A k \in Msgs : /\ status[k] # "queued" => status'[k] # "queued"
                        /\ Tracking!Exists(k)' <=> Tracking!Exists(k)
    BY <2>1 DEF Tracking!Exists, Statuses
  <2>3. Tracking!Dated' = Tracking!Dated
    BY <2>1 DEF Tracking!Dated, Statuses
  <2>4. RowsInv'
    BY <2>1, <2>2, <2>3 DEF OfferInv, RowsInv, Statuses
  <2>5. RedeemedInv' /\ EventsInv' /\ ToldInv'
    BY <2>1, <2>2 DEF OfferInv, RedeemedInv, EventsInv, ToldInv, Attributed, Tracking!OwnerOfMessage,
      Tracking!Redeemed
  <2> QED
    BY <2>1, <2>2, <2>4, <2>5, TillsStay DEF OfferInv
<1>3. ASSUME NEW c \in People, Tracking!DeleteContact(c)
      PROVE  OfferInv'
  <2> DEFINE ms == {m \in Msgs : Recipient[m] = c}
  <2>1. /\ UNCHANGED <<tag, redeemed, till, told>>
        /\ c \in customers /\ customers' = customers \ {c} /\ \A m \in ms : ~Tracking!Redeemed(m)
        /\ status' = [m \in Msgs |-> IF m \in ms THEN "gone" ELSE status[m]]
        /\ events' = {e \in events : e.contact # c} /\ views' = views \ ms
        /\ newer' = {p \in newer : p[1] \notin ms /\ p[2] \notin ms}
        /\ tEdits' = tEdits + 1 /\ tEdits < MaxChanges
    BY <1>3 DEF Tracking!DeleteContact, Tracking!Without
  <2>2. status \in [Msgs -> Statuses]
    BY DEF OfferInv, RowsInv
  <2>3. \A k \in Msgs : /\ status[k] # "queued" => status'[k] # "queued"
                        /\ k \notin ms => status'[k] = status[k]
                        /\ Tracking!Exists(k)' <=> Tracking!Exists(k) /\ k \notin ms
    BY <2>1, <2>2 DEF Tracking!Exists
  <2>4. Tracking!Dated' = Tracking!Dated \ ms
    BY <2>1, <2>2 DEF Tracking!Dated
  <2>5. /\ newer' \subseteq Tracking!Dated' \X Tracking!Dated'
        /\ \A j, k \in Tracking!Dated' : j # k => (<<j, k>> \in newer' <=> <<k, j>> \notin newer')
    BY <2>1, <2>4 DEF OfferInv, RowsInv
  <2>6. tEdits' \in 0 .. MaxChanges
    BY <2>1, CustomersAssumption DEF OfferInv, RowsInv, Tracking!TrackingAssumption
  <2>7. status' \in [Msgs -> Statuses]
    BY <2>1, <2>2 DEF Statuses
  <2>8. RowsInv'
    BY <2>1, <2>3, <2>5, <2>6, <2>7 DEF OfferInv, RowsInv
  <2>9. RedeemedInv'
    <3>1. \A x \in redeemed : x.msg \notin ms
      BY <2>1 DEF Tracking!Redeemed
    <3> QED
      BY <2>1, <2>3, <3>1 DEF OfferInv, RedeemedInv, Tracking!OwnerOfMessage
  <2>10. EventsInv' /\ ToldInv'
    BY <2>1, <2>3 DEF OfferInv, EventsInv, ToldInv, Attributed, Tracking!Redeemed
  <2> QED
    BY <2>1, <2>3, <2>8, <2>9, <2>10, TillsStay DEF OfferInv
<1>4. ASSUME NEW t \in Stickers, NEW s \in {"active", "test", "inactive"}, Tracking!ChangeTag(t, s)
      PROVE  OfferInv'
  <2>1. /\ UNCHANGED <<customers, status, newer, redeemed, events, views, till, told>>
        /\ tag' = [tag EXCEPT ![t] = s] /\ tEdits' = tEdits + 1 /\ tEdits < MaxChanges
    BY <1>4 DEF Tracking!ChangeTag
  <2>2. tEdits' \in 0 .. MaxChanges
    BY <2>1, CustomersAssumption DEF OfferInv, RowsInv, Tracking!TrackingAssumption
  <2>3. RowsInv'
    BY <2>1, <2>2 DEF OfferInv, RowsInv, Tracking!Exists, Tracking!Dated
  <2>4. RedeemedInv' /\ EventsInv' /\ ToldInv'
    BY <2>1 DEF OfferInv, RedeemedInv, EventsInv, ToldInv, Attributed, Tracking!Exists,
      Tracking!OwnerOfMessage, Tracking!Redeemed
  <2> QED
    BY <2>1, <2>3, <2>4, TillsStay DEF OfferInv
<1> QED
  BY <1>1, <1>2, <1>3, <1>4 DEF Tracking!Others

LEMMA OffersNext ==
  ASSUME OfferInv, Tracking!Next
  PROVE  OfferInv'
  BY Readings, Writings, OthersKeep DEF Tracking!Next

-----------------------------------------------------------------------------
(* The theorems. *)

\* The lists are those of the audience when that is the question, and then nothing moves.
CustomersInv ==
  /\ OfferInv
  /\ part = "audience" => live \subseteq People /\ person \in [People -> AllPersons]
  /\ part # "audience" => ListInv

LEMMA CustomersStart == CustomersInit => CustomersInv
<1>1. SUFFICES ASSUME CustomersInit PROVE CustomersInv
  OBVIOUS
<1>2. OfferInv
  BY <1>1, OffersInit DEF CustomersInit
<1>3. CASE part = "audience"
  BY <1>1, <1>2, <1>3 DEF CustomersInit, CustomersInv, Audience!Init
<1>4. CASE part # "audience"
  BY <1>1, <1>2, <1>4, ListsInit DEF CustomersInit, CustomersInv
<1> QED
  BY <1>3, <1>4

LEMMA OffersRest ==
  ASSUME OfferInv, UNCHANGED tracking
  PROVE  OfferInv'
  BY DEF OfferInv, RowsInv, RedeemedInv, EventsInv, TillsInv, Relies, ToldInv, Attributed, tracking,
    Tracking!Exists, Tracking!Dated, Tracking!OwnerOfMessage, Tracking!Redeemed

LEMMA ListsRest ==
  ASSUME ListInv, UNCHANGED lists
  PROVE  ListInv'
  BY DEF ListInv, CalmHolds, Holds, lists, Lists!TypeOK, Lists!Matching, Lists!Adults

LEMMA CustomersStep ==
  CustomersInv /\ [CustomersNext]_<<part, sessions, tracking, lists>> => CustomersInv'
<1>1. SUFFICES ASSUME CustomersInv, [CustomersNext]_<<part, sessions, tracking, lists>>
               PROVE  CustomersInv'
  OBVIOUS
<1>2. CASE part = "tracking" /\ Tracking!Next /\ UNCHANGED <<part, sessions, lists>>
  BY <1>1, <1>2, OffersNext, ListsRest DEF CustomersInv, lists
<1>3. CASE part = "lists" /\ Lists!Next /\ UNCHANGED <<part, sessions, tracking>>
  BY <1>1, <1>3, OffersRest, ListsNext DEF CustomersInv
<1>4. CASE UNCHANGED <<part, tracking, lists>>
  BY <1>1, <1>4, OffersRest, ListsRest DEF CustomersInv, lists
<1> QED
  BY <1>1, <1>2, <1>3, <1>4 DEF CustomersNext

LEMMA CustomersAlways == CustomersSpec => []CustomersInv
  BY CustomersStart, CustomersStep, PTL DEF CustomersSpec

\* The records of offers are true, for any stores, customers, messages, tags and tills, in
\* whatever order requests, deliveries and deletions interleave.
THEOREM OffersKept == CustomersSpec => []OffersAreKept
<1>1. CustomersInv => OffersAreKept
  BY OffersFollow DEF CustomersInv, OffersAreKept
<1> QED
  BY <1>1, CustomersAlways, PTL

\* A sync that nobody disturbs is exact, for any contacts, filters and requests.
THEOREM SyncsAreExact == CustomersSpec => SyncExact
<1> DEFINE Exact == \A r \in Edits : (edit[r].at = "apply" /\ edit[r].calm /\ edit'[r].at = "over")
                                       => members' = Lists!Matching(list.filter)
<1>1. CustomersInv /\ [CustomersNext]_<<part, sessions, tracking, lists>> => [Exact]_(Lists!vars)
  <2>1. SUFFICES ASSUME CustomersInv, CustomersNext, lists' # lists
                 PROVE  Exact
    BY DEF lists, Lists!vars
  <2>2. part = "lists" /\ Lists!Next
    BY <2>1 DEF CustomersNext
  <2> QED
    BY <2>1, <2>2, SyncStep DEF CustomersInv
<1> QED
  BY <1>1, CustomersAlways, PTL DEF CustomersSpec, SyncExact, Lists!SyncExact

\* Campaigns, predefined lists and lists with filters choose the same contacts, whoever the
\* contacts are, and members of a list are contacts that exist.
THEOREM AudiencesAlwaysAgree == CustomersSpec => []AudienceAgrees
<1>1. CustomersInv => AudienceAgrees
  BY AudiencesAgree DEF CustomersInv, AudienceAgrees, ListInv
<1> QED
  BY <1>1, CustomersAlways, PTL
=============================================================================
