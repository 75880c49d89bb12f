------------------------------ MODULE Accounts ------------------------------
(***************************************************************************)
(* The accounts of one name: the row, the passwords set and changed, the   *)
(* access tokens issued for it, its deletion and the next row of the name. *)
(*                                                                         *)
(* The endpoints are plain functions, so each request is a thread of its   *)
(* own, and its statements run between those of the others.  A request     *)
(* keeps the row it loaded until it commits; save reads it again then.     *)
(***************************************************************************)
EXTENDS Naturals, FiniteSets

CONSTANTS
  Requests,   \* the requests that are ever sent for the account
  Passwords,
  NoPassword,
  NoToken,
  MaxRows,    \* bound on the rows that are ever made under the name
  MaxChanges  \* bound on the requests to change the password

ASSUME AccountsAssumption ==
  /\ NoPassword \notin Passwords
  /\ NoToken \notin Nat \X Nat
  /\ MaxRows \in Nat /\ MaxChanges \in Nat

VARIABLES
  id,       \* users.id of the row with the name, 0 when there is none
  rows,     \* the rows that have been made under the name
  password, \* users.hashed_password
  ver,      \* users.token_version
  email,    \* the row has an email
  req,      \* what each request does and has read
  token,    \* the id and the version in the token a request has issued
  lost      \* what was lost in the row: a "password" replaced unseen, a
            \* "version" overwritten by an older one (history)

row == <<id, rows, password, ver, email>>
vars == <<row, req, token, lost>>

Logins == {"local", "online", "register"}
Ops == {"none", "change", "set", "complete"} \cup Logins
Steps == {"unsent", "begun", "create", "issue", "write", "email", "read", "bump", "reread", "done"}
Given == Passwords \cup {NoPassword}

Unsent == [op |-> "none", step |-> "unsent", given |-> NoPassword, new |-> NoPassword,
           id |-> 0, seen |-> NoPassword, mail |-> FALSE, ver |-> 0, old |-> {}]

Init ==
  /\ id = 0
  /\ rows = 0
  /\ password = NoPassword
  /\ ver = 0
  /\ email = FALSE
  /\ req = [q \in Requests |-> Unsent]
  /\ token = [q \in Requests |-> NoToken]
  /\ lost = {}

-----------------------------------------------------------------------------

At(q, op, step) == req[q].op = op /\ req[q].step = step
Issued == {q \in Requests : token[q] # NoToken}
ValidTokens == {q \in Issued : id # 0 /\ token[q] = <<id, ver>>}
Changes == {q \in Requests : req[q].op = "change"}

Step(q, s) == req' = [req EXCEPT ![q].step = s]
Quietly(q, s) == Step(q, s) /\ UNCHANGED <<row, token, lost>>
Issue(q, v) == token' = [token EXCEPT ![q] = <<req[q].id, v>>]
Matches(given, hash) == hash # NoPassword /\ given = hash
Present(q) == req[q].id = id

(***************************************************************************)
(* A request whose row has been deleted fails at its next statement.       *)
(***************************************************************************)
RowGone(q) ==
  /\ req[q].step \in {"write", "email", "read", "bump", "reread"}
  /\ ~Present(q)
  /\ Quietly(q, "done")

-----------------------------------------------------------------------------
(* local_login, login and register *)

SendLogin(q, op, p) ==
  /\ req[q] = Unsent
  /\ p # NoPassword \/ op = "local"
  /\ req' = [req EXCEPT ![q] = [Unsent EXCEPT !.op = op, !.step = "begun", !.given = p]]
  /\ UNCHANGED <<row, token, lost>>

(***************************************************************************)
(* The version is read with the hash.                                      *)
(***************************************************************************)
LookUp(q, op, next) ==
  /\ At(q, op, "begun")
  /\ req' = [req EXCEPT ![q].id = id, ![q].seen = password, ![q].ver = ver, ![q].step = next]
  /\ UNCHANGED <<row, token, lost>>

(***************************************************************************)
(* A user is made when there is none; one without a password needs none.   *)
(***************************************************************************)
LocalLogin(q) ==
  LookUp(q, "local",
    IF id = 0 THEN "create"
    ELSE IF password = NoPassword \/ Matches(req[q].given, password) THEN "issue" ELSE "done")

(***************************************************************************)
(* Without a user, or with one that has no password, the request fails.    *)
(***************************************************************************)
OnlineLogin(q) ==
  LookUp(q, "online", IF id # 0 /\ Matches(req[q].given, password) THEN "issue" ELSE "done")

Register(q) == LookUp(q, "register", IF id = 0 THEN "create" ELSE "done")

(***************************************************************************)
(* save of the new user: the name is unique, and the refresh is still to   *)
(* come.  Who registers may give an email.                                 *)
(***************************************************************************)
CreateUser(q) ==
  /\ req[q].op \in Logins /\ req[q].step = "create"
  /\ IF id # 0
     THEN Quietly(q, "done")
     ELSE /\ rows < MaxRows
          /\ rows' = rows + 1
          /\ id' = rows + 1
          /\ password' = req[q].given
          /\ ver' = 0
          /\ email' \in IF req[q].op = "register" THEN BOOLEAN ELSE {FALSE}
          /\ req' = [req EXCEPT ![q].id = rows + 1, ![q].step = "reread"]
          /\ UNCHANGED <<token, lost>>

IssueToken(q) ==
  /\ req[q].step = "issue"
  /\ Issue(q, req[q].ver)
  /\ Step(q, "done")
  /\ UNCHANGED <<row, lost>>

Login(q) == LocalLogin(q) \/ OnlineLogin(q) \/ Register(q) \/ CreateUser(q) \/ IssueToken(q)

-----------------------------------------------------------------------------
(* The requests of somebody who is logged in *)

(***************************************************************************)
(* get_current_user_unchecked: somebody holds a valid token, and the       *)
(* request goes on with the row as it is now.                              *)
(***************************************************************************)
Send(q, op, p, n) ==
  /\ req[q] = Unsent
  /\ ValidTokens # {}
  /\ op = "change" => Cardinality(Changes) < MaxChanges
  /\ req' = [req EXCEPT ![q] = [op |-> op, step |-> "begun", given |-> p, new |-> n,
                                id |-> id, seen |-> password, mail |-> email, ver |-> ver,
                                old |-> Issued]]
  /\ UNCHANGED <<row, token, lost>>

(***************************************************************************)
(* update_user_password: an UPDATE of the one column.                      *)
(***************************************************************************)
WritePassword(q, next) ==
  /\ Present(q)
  /\ password' = req[q].new
  /\ lost' = IF req[q].op # "change" /\ password # NoPassword
             THEN lost \cup {"password"} ELSE lost
  /\ Step(q, next)
  /\ UNCHANGED <<id, rows, ver, email, token>>

(***************************************************************************)
(* increment_token_version: one more than was read.                        *)
(***************************************************************************)
WriteVersion(q) ==
  /\ ver' = req[q].ver + 1
  /\ lost' = IF ver > req[q].ver + 1 THEN lost \cup {"version"} ELSE lost

(***************************************************************************)
(* change_password checks the password against the row as loaded.          *)
(***************************************************************************)
Verify(q) ==
  /\ At(q, "change", "begun")
  /\ Quietly(q, IF Matches(req[q].given, req[q].seen) THEN "write" ELSE "done")

(***************************************************************************)
(* Variants that raise the version first, that do not raise it, and that   *)
(* may raise it again.                                                     *)
(***************************************************************************)
ChangeInOtherOrder(q) ==
  \/ /\ At(q, "change", "write")
     /\ req' = [req EXCEPT ![q].ver = ver, ![q].step = "bump"]
     /\ UNCHANGED <<row, token, lost>>
  \/ /\ At(q, "change", "bump") /\ Present(q)
     /\ WriteVersion(q)
     /\ Step(q, "read")
     /\ UNCHANGED <<id, rows, password, email, token>>
  \/ At(q, "change", "read") /\ WritePassword(q, "reread")

ChangePasswordOnly(q) == At(q, "change", "write") /\ WritePassword(q, "reread")

BumpAgain(q) ==
  \/ At(q, "change", "write") /\ WritePassword(q, "bump")
  \/ /\ At(q, "change", "bump") /\ Present(q)
     /\ ver' = ver + 1
     /\ \E s \in {"bump", "reread"} : Step(q, s)
     /\ UNCHANGED <<id, rows, password, email, token, lost>>

(***************************************************************************)
(* The hash is written; the refresh of save reads the version; then it is  *)
(* written, one higher.                                                    *)
(***************************************************************************)
ChangeAndBump(q) ==
  \/ At(q, "change", "write") /\ WritePassword(q, "read")
  \/ /\ At(q, "change", "read") /\ Present(q)
     /\ req' = [req EXCEPT ![q].ver = ver, ![q].step = "bump"]
     /\ UNCHANGED <<row, token, lost>>
  \/ /\ At(q, "change", "bump") /\ Present(q)
     /\ WriteVersion(q)
     /\ Step(q, "reread")
     /\ UNCHANGED <<id, rows, password, email, token>>

(***************************************************************************)
(* The token has the version the refresh reads after a commit: the one of  *)
(* the changed row, or of the new one.                                     *)
(***************************************************************************)
IssueFresh(q) ==
  /\ req[q].step = "reread" /\ Present(q)
  /\ Issue(q, ver)
  /\ Step(q, "done")
  /\ UNCHANGED <<row, lost>>

ChangePassword(q) == Verify(q) \/ ChangeAndBump(q)

(***************************************************************************)
(* set_password: 409 if the row had a password when it was loaded.         *)
(***************************************************************************)
SetPassword(q) ==
  \/ /\ At(q, "set", "begun")
     /\ Quietly(q, IF req[q].seen = NoPassword THEN "write" ELSE "done")
  \/ At(q, "set", "write") /\ WritePassword(q, "done")

(***************************************************************************)
(* update_user, when no other user has the email.                          *)
(***************************************************************************)
StoreEmail(q) ==
  /\ At(q, "complete", "begun") /\ ~req[q].mail /\ Present(q)
  /\ email' = TRUE
  /\ Step(q, "email")
  /\ UNCHANGED <<id, rows, password, ver, token, lost>>

(***************************************************************************)
(* complete_profile: the email first, if there was none; its save reads    *)
(* the row again, and only then is the password looked at.                 *)
(***************************************************************************)
CompleteProfile(q) ==
  \/ StoreEmail(q)
  \/ /\ At(q, "complete", "begun")
     /\ Quietly(q, IF req[q].mail /\ req[q].seen = NoPassword THEN "write" ELSE "done")
  \/ /\ At(q, "complete", "email") /\ Present(q)
     /\ Quietly(q, IF password = NoPassword THEN "write" ELSE "done")
  \/ At(q, "complete", "write") /\ WritePassword(q, "done")

(***************************************************************************)
(* DELETE /users/{id}; anybody may send it.                                *)
(***************************************************************************)
DeleteUser ==
  /\ id # 0
  /\ id' = 0
  /\ password' = NoPassword
  /\ ver' = 0
  /\ email' = FALSE
  /\ lost' = {}
  /\ UNCHANGED <<rows, req, token>>

-----------------------------------------------------------------------------

Next ==
  \/ \E q \in Requests :
       \/ \E op \in Logins, p \in Given : SendLogin(q, op, p)
       \/ \E p, n \in Passwords : Send(q, "change", p, n)
       \/ \E op \in {"set", "complete"}, n \in Passwords : Send(q, op, NoPassword, n)
       \/ Login(q) \/ ChangePassword(q) \/ SetPassword(q) \/ CompleteProfile(q)
       \/ IssueFresh(q) \/ RowGone(q)
  \/ DeleteUser

Spec == Init /\ [][Next]_vars

-----------------------------------------------------------------------------
(* Properties *)

(***************************************************************************)
(* The type invariant of the row, the requests and the tokens; the version *)
(* is at most the number of changes.                                       *)
(***************************************************************************)
TypeOK ==
  /\ id \in {0, rows} /\ rows \in 0..MaxRows
  /\ password \in Given
  /\ ver \in 0..MaxChanges
  /\ email \in BOOLEAN
  /\ req \in [Requests -> [op : Ops, step : Steps, given : Given, new : Given,
                           id : 0..rows, seen : Given, mail : BOOLEAN, ver : 0..MaxChanges,
                           old : SUBSET Requests]]
  /\ token \in [Requests -> ((1..rows) \X (0..MaxChanges)) \cup {NoToken}]
  /\ lost \subseteq {"password", "version"}

(***************************************************************************)
(* "invalidating every issued token": when a change of the password has    *)
(* ended, no token that had been issued when it began is accepted, also    *)
(* when another change ran beside it and one of the two increments was     *)
(* lost, unless a third, late one puts the version back under one that has *)
(* been given out (change_password, increment_token_version).              *)
(***************************************************************************)
OldTokensDie ==
  "version" \notin lost =>
    \A q \in Changes, p \in Requests :
      token[q] # NoToken /\ p \in req[q].old => p \notin ValidTokens

Changing == {q \in Changes : req[q].step \in {"read", "bump", "reread"}}

(***************************************************************************)
(* No token that a login issued stays valid for a password that has since  *)
(* been changed: a login that compares the old hash while the new one is   *)
(* written ends with a token of the old version (login_user, local_login,  *)
(* change_password).  It says nothing of the token that a change itself    *)
(* issues.  A password lost to a concurrent set_password is not changed,   *)
(* and a version that is put back revives its tokens.                      *)
(***************************************************************************)
LoginsAreCurrent ==
  lost = {} /\ Changing = {} =>
    \A q \in ValidTokens :
      req[q].op \in Logins /\ req[q].seen # NoPassword => req[q].seen = password

(***************************************************************************)
(* The same without that exception (user_service.py:175).                  *)
(***************************************************************************)
EveryOldTokenDies ==
  \A q \in Changes, p \in Requests :
    token[q] # NoToken /\ p \in req[q].old => p \notin ValidTokens
=============================================================================
