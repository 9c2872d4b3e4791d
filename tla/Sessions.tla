-------------------------------- MODULE Sessions --------------------------------
(***************************************************************************)
(* Accounts and their sessions (modules/auth.service.js, routes/auth.js,   *)
(* requireAuth.js).  Requests are handled concurrently: each reads its     *)
(* rows, spends long in bcrypt, and writes.  A session is a row of         *)
(* RefreshToken; the access tokens signed for it are kept by no one.       *)
(***************************************************************************)
EXTENDS Naturals, FiniteSets

CONSTANTS Requests,   \* requests, each made once; the rows it makes carry its name
          Emails, Passwords, None,
          MaxEdits    \* bound: changes of profile, and tokens that expire

ASSUME SessionsAssumption == None \notin Requests \cup Emails \cup Passwords /\ MaxEdits \in Nat

VARIABLES user,     \* User by the request that registered it: email, password, profile
          token,    \* RefreshToken by the request that made it: user, revoked, expired
          req,      \* what each request is doing
          given,    \* refresh tokens that a browser holds
          access,   \* access tokens signed: session, profile, and the request
          answers,  \* history: requests and what they were answered
          before,   \* history: the answers given before each request began
          edits

rows == <<user, token>>
vars == <<rows, req, given, access, answers, before, edits>>

NoUser == [email |-> None, password |-> None, profile |-> 0]
NoToken == [user |-> None, revoked |-> FALSE, expired |-> FALSE]
New == [at |-> "new", email |-> None, password |-> None, user |-> None, token |-> None, profile |-> 0]
Over == [New EXCEPT !.at = "over"]

Init ==
  /\ user = [r \in Requests |-> NoUser] /\ token = [r \in Requests |-> NoToken]
  /\ req = [r \in Requests |-> New]
  /\ given = {} /\ access = {} /\ answers = {} /\ edits = 0
  /\ before = [r \in Requests |-> {}]

Users == {u \in Requests : user[u].email # None}
Tokens == {t \in Requests : token[t].user # None}
Accounts(e) == {u \in Users : user[u].email = e}

Begin(r, x) ==
  /\ req[r].at = "new"
  /\ req' = [req EXCEPT ![r] = x] /\ before' = [before EXCEPT ![r] = answers]
Go(r, x) == req' = [req EXCEPT ![r] = x] /\ UNCHANGED before
Answer(r, what, of) ==
  /\ Go(r, Over)
  /\ answers' = answers \cup {[req |-> r, what |-> what, of |-> of]}

-----------------------------------------------------------------------------
(* POST /auth/register and /auth/login *)

FindEmail(r, e, p) ==
  /\ Begin(r, IF Accounts(e) # {} THEN Over
              ELSE [New EXCEPT !.at = "registering", !.email = e, !.password = p])
  /\ UNCHANGED <<rows, given, access, answers, edits>>

\* The hash is computed first; the email is unique, so that a second account is refused.
CreateUser(r) ==
  /\ req[r].at = "registering"
  /\ IF Accounts(req[r].email) # {}
     THEN Answer(r, "taken", req[r].email) /\ UNCHANGED user
     ELSE /\ user' = [user EXCEPT ![r] =
               [email |-> req[r].email, password |-> req[r].password, profile |-> 0]]
          /\ Go(r, [req[r] EXCEPT !.at = "token", !.user = r]) /\ UNCHANGED answers
  /\ UNCHANGED <<token, given, access, edits>>

\* login reads the account once, and compares the password it read with the one given.
Login(r, e, p) ==
  /\ \/ \E u \in Accounts(e) :
          /\ user[u].password = p /\ UNCHANGED answers
          /\ Begin(r, [New EXCEPT !.at = "token", !.user = u, !.profile = user[u].profile])
     \/ /\ \A u \in Accounts(e) : user[u].password # p
        /\ Begin(r, Over) /\ answers' = answers \cup {[req |-> r, what |-> "denied", of |-> e]}
  /\ UNCHANGED <<rows, given, access, edits>>

\* The session's row; the answer carries its token and an access token.
CreateToken(r) ==
  /\ req[r].at = "token"
  /\ token' = [token EXCEPT ![r] = [NoToken EXCEPT !.user = req[r].user]]
  /\ given' = given \cup {r}
  /\ access' = access \cup {[session |-> r, profile |-> req[r].profile, by |-> r]}
  /\ Answer(r, "in", req[r].user)
  /\ UNCHANGED <<user, edits>>

-----------------------------------------------------------------------------
(* POST /auth/refresh and /auth/logout *)

Valid(t) == ~token[t].revoked /\ ~token[t].expired

\* Mutant of FindToken: revokedAt is not looked at.
FindTokenRevoked(r, t) ==
  /\ Begin(r, IF ~token[t].expired
              THEN [New EXCEPT !.at = "refreshing", !.token = t, !.user = token[t].user] ELSE Over)
  /\ answers' = IF ~token[t].expired THEN answers
                ELSE answers \cup {[req |-> r, what |-> "ended", of |-> t]}
  /\ UNCHANGED <<rows, given, access, edits>>

FindToken(r, t) ==
  /\ t \in given
  /\ Begin(r, IF Valid(t) THEN [New EXCEPT !.at = "refreshing", !.token = t, !.user = token[t].user]
              ELSE Over)
  /\ answers' = IF Valid(t) THEN answers
                ELSE answers \cup {[req |-> r, what |-> "ended", of |-> t]}
  /\ UNCHANGED <<rows, given, access, edits>>

\* Mutant of SignAccess: the token repeats what the session's first one said.
SignAccessOld(r) ==
  /\ req[r].at = "refreshing"
  /\ access' = access \cup {[session |-> req[r].token, profile |-> req[r].profile, by |-> r]}
  /\ Answer(r, "refreshed", req[r].token)
  /\ UNCHANGED <<rows, given, edits>>

\* The user is read once more, and an access token signed; the refresh token stays as it is.
SignAccess(r) ==
  /\ req[r].at = "refreshing"
  /\ access' = access \cup {[session |-> req[r].token, profile |-> user[req[r].user].profile, by |-> r]}
  /\ Answer(r, "refreshed", req[r].token)
  /\ UNCHANGED <<rows, given, edits>>

Logout(r, t) ==
  /\ t \in given
  /\ Begin(r, [New EXCEPT !.at = "revoking", !.token = t])
  /\ UNCHANGED <<rows, given, access, answers, edits>>

\* Mutant of Revoke: every session of the user ends.
RevokeAll(r) ==
  /\ req[r].at = "revoking"
  /\ token' = [t \in Requests |-> IF token[t].user = token[req[r].token].user
                                  THEN [token[t] EXCEPT !.revoked = TRUE] ELSE token[t]]
  /\ Answer(r, "out", req[r].token)
  /\ UNCHANGED <<user, given, access, edits>>

Revoke(r) ==
  /\ req[r].at = "revoking"
  /\ token' = [token EXCEPT ![req[r].token].revoked = TRUE]
  /\ Answer(r, "out", req[r].token)
  /\ UNCHANGED <<user, given, access, edits>>

Expire(t) ==
  /\ edits < MaxEdits /\ edits' = edits + 1
  /\ t \in Tokens /\ token' = [token EXCEPT ![t].expired = TRUE]
  /\ UNCHANGED <<user, req, given, access, answers, before>>

-----------------------------------------------------------------------------
(* PUT /user and /user/password, with an access token that has not expired *)

PutUser(r, a) ==
  /\ edits < MaxEdits /\ edits' = edits + 1
  /\ LET u == token[a.session].user
     IN /\ user' = [user EXCEPT ![u].profile = @ + 1]
        /\ answers' = answers \cup {[req |-> r, what |-> "profile", of |-> u]}
  /\ Begin(r, Over)
  /\ UNCHANGED <<token, given, access>>

PutPassword(r, a, old, p) ==
  LET u == token[a.session].user
  IN /\ Begin(r, IF user[u].password = old
                 THEN [New EXCEPT !.at = "password", !.user = u, !.password = p] ELSE Over)
     /\ answers' = IF user[u].password = old THEN answers
                   ELSE answers \cup {[req |-> r, what |-> "denied", of |-> u]}
     /\ UNCHANGED <<rows, given, access, edits>>

WritePassword(r) ==
  /\ req[r].at = "password"
  /\ user' = [user EXCEPT ![req[r].user].password = req[r].password]
  /\ Answer(r, "changed", req[r].user)
  /\ UNCHANGED <<token, given, access, edits>>

\* The process dies, or the database refuses: what was written stays.
Fails(r) ==
  /\ req[r].at \notin {"new", "over"} /\ Go(r, Over)
  /\ UNCHANGED <<rows, given, access, answers, edits>>

Handle(r) ==
  \/ \E e \in Emails, p \in Passwords : FindEmail(r, e, p) \/ Login(r, e, p)
  \/ CreateUser(r) \/ CreateToken(r)
  \/ \E t \in given : FindToken(r, t) \/ Logout(r, t)
  \/ SignAccess(r) \/ Revoke(r) \/ WritePassword(r) \/ Fails(r)
  \/ \E a \in access : PutUser(r, a) \/ \E old, p \in Passwords : PutPassword(r, a, old, p)

Next == (\E r \in Requests : Handle(r)) \/ (\E t \in Requests : Expire(t))

Spec == Init /\ [][Next]_vars

-----------------------------------------------------------------------------
States == {"new", "registering", "token", "refreshing", "revoking", "password", "over"}

\* Types; the rows a request names exist.
TypeOK ==
  /\ edits \in 0 .. MaxEdits /\ given \subseteq Tokens
  /\ user \in [Requests -> [email : Emails \cup {None}, password : Passwords \cup {None},
                            profile : 0 .. MaxEdits]]
  /\ token \in [Requests -> [user : Requests \cup {None}, revoked : BOOLEAN, expired : BOOLEAN]]
  /\ \A t \in Tokens : token[t].user \in Users
  /\ \A a \in access : a.session \in Tokens
  /\ \A r \in Requests :
       /\ req[r].at \in States
       /\ req[r].at \in {"token", "refreshing", "password"} => req[r].user \in Users
       /\ req[r].at \in {"refreshing", "revoking"} => req[r].token \in given

\* Of requests that register one email at the same time, one makes the account.
OneAccount == \A u, v \in Users : user[u].email = user[v].email => u = v

\* Once a logout is answered, no refresh that begins later yields an access token of that
\* session; one already under way may.
LogoutStands ==
  \A a \in access : a.by # a.session =>
    ~\E x \in before[a.by] : x.what = "out" /\ x.of = a.session

\* A session ends only by its own logout or its term: no other session's logout, password
\* or profile change makes a refresh fail.
SessionStands ==
  \A x \in answers : x.what = "ended" =>
    token[x.of].expired \/ \E y \in answers : y.what = "out" /\ y.of = x.of

\* An access token signed by a refresh says what every profile change answered before it
\* set: changes of the password do not undo them, nor does a session keep the old values.
ProfileIsFresh ==
  \A a \in access : a.by # a.session =>
    a.profile >= Cardinality({x \in before[a.by] : x.what = "profile" /\ x.of = token[a.session].user})

\* docs/TECHNICAL.md:645: "Token rotation on refresh".
\* The code does not keep it (README, section 3).
RefreshRotates ==
  \A x, y \in answers : (x.what = "refreshed" /\ y.what = "refreshed" /\ x.of = y.of) => x.req = y.req
=============================================================================
