--------------------------- MODULE AccountsProofs ---------------------------
(***************************************************************************)
(* For any number of requests, passwords, rows and changes: a change of    *)
(* the password ends every token that was out when it began, and nobody    *)
(* stays logged in with a password that has been changed.                  *)
(***************************************************************************)
EXTENDS Accounts, FiniteSetTheorems, TLAPS

(***************************************************************************)
(* A version is one of a change whose increment has been written: lost     *)
(* increments make it smaller than their number, never greater.            *)
(***************************************************************************)
Finished == {q \in Changes : req[q].step \in {"reread", "done"}}

Counted ==
  /\ IsFiniteSet(Changes)
  /\ Cardinality(Changes) <= MaxChanges
  /\ ver <= Cardinality(Finished)
  /\ \A q \in Requests : req[q].ver <= Cardinality(Finished)

(***************************************************************************)
(* What a request can have in hand where it stands.                        *)
(***************************************************************************)
Shape(r) ==
  /\ r.op \in Logins \cup {"none"} => r.old = {}
  /\ r.step \in {"create", "issue"} => r.op \in Logins
  /\ r.step = "create" => r.seen = NoPassword /\ r.ver = 0
  /\ r.step = "reread" /\ r.op \in Logins => r.seen = NoPassword
  /\ r.op \in {"change", "set", "complete"} => r.id # 0
  /\ r.step \in {"issue", "reread"} => r.id # 0

Shapes ==
  /\ \A q \in Requests :
       /\ Shape(req[q])
       /\ token[q] # NoToken => req[q].step = "done"
       /\ req[q].old \subseteq Issued
  /\ id = 0 => password = NoPassword /\ ver = 0

(***************************************************************************)
(* No version of the row, in a token or in a request, is ahead of it.      *)
(***************************************************************************)
Behind ==
  "version" \notin lost /\ id # 0 =>
    /\ \A p \in Issued : token[p][1] = id => token[p][2] <= ver
    /\ \A q \in Requests : req[q].id = id => req[q].ver <= ver

OldOnes(q) == {p \in req[q].old : token[p][1] = id}

(***************************************************************************)
(* A change has read a version that is at least that of every token it is  *)
(* to end, and when it has written the next one they are all behind.       *)
(***************************************************************************)
Passes(q, p) ==
  /\ req[q].step \in {"begun", "write", "read", "bump"} => token[p][2] <= req[q].ver
  /\ req[q].step = "reread" \/ token[q] # NoToken => token[p][2] < ver

Overtaken ==
  /\ \A q \in Requests : \A p \in req[q].old : token[p][1] <= req[q].id
  /\ "version" \notin lost /\ id # 0 =>
       \A q \in Changes : req[q].id = id => \A p \in OldOnes(q) : Passes(q, p)

(***************************************************************************)
(* A login with a password issues the version that it read with the hash.  *)
(***************************************************************************)
LoginTokens ==
  \A q \in Requests :
    req[q].op \in Logins /\ req[q].seen # NoPassword /\ token[q] # NoToken
      => token[q] = <<req[q].id, req[q].ver>>

(***************************************************************************)
(* The change c has written its hash and has its increment still to come.  *)
(***************************************************************************)
WillRaise(c) ==
  /\ req[c].op = "change" /\ req[c].id = id
  /\ req[c].step = "read" \/ (req[c].step = "bump" /\ req[c].ver = ver)

(***************************************************************************)
(* A login that compared a hash which is no longer the row's has read a    *)
(* version that is no longer the row's, or will not be.                    *)
(***************************************************************************)
Outdated ==
  lost = {} /\ id # 0 =>
    \A q \in Requests :
      /\ req[q].op \in Logins /\ req[q].seen # NoPassword
      /\ req[q].id = id /\ req[q].ver = ver
      => req[q].seen = password \/ \E c \in Requests : WillRaise(c)

IInv == TypeOK /\ Counted /\ Shapes /\ Behind /\ Overtaken /\ LoginTokens /\ Outdated

ReqType(n) == [op : Ops, step : Steps, given : Given, new : Given, id : 0..n, seen : Given,
               mail : BOOLEAN, ver : 0..MaxChanges, old : SUBSET Requests]

LEMMA UnsentTyped ==
  /\ Unsent \in ReqType(0) /\ Unsent.op = "none" /\ Unsent.step = "unsent"
  /\ Unsent.id = 0 /\ Unsent.ver = 0 /\ Unsent.seen = NoPassword /\ Unsent.old = {}
<1>1. MaxChanges \in Nat
  BY AccountsAssumption DEF AccountsAssumption
<1> QED
  BY <1>1 DEF Unsent, ReqType, Ops, Steps, Given, Logins

LEMMA InitIInv == Init => IInv
<1> SUFFICES ASSUME Init
             PROVE  IInv
  OBVIOUS
<1>0. /\ NoPassword \notin Passwords /\ NoToken \notin Nat \X Nat
      /\ MaxRows \in Nat /\ MaxChanges \in Nat
  BY AccountsAssumption DEF AccountsAssumption
<1>1. \A q \in Requests : req[q] = Unsent /\ token[q] = NoToken
  BY DEF Init
<1>2. Changes = {} /\ Issued = {} /\ Finished = {}
  BY <1>1 DEF Changes, Issued, Finished, Unsent
<1>3. TypeOK
  <2>2. req \in [Requests -> ReqType(rows)]
    BY UnsentTyped DEF Init
  <2>3. email \in BOOLEAN
    BY DEF Init
  <2>4. token \in [Requests -> ((1..rows) \X (0..MaxChanges)) \cup {NoToken}]
    BY DEF Init
  <2> QED
    BY <1>0, <2>2, <2>3, <2>4 DEF Init, TypeOK, ReqType, Given
<1>4. Counted
  <2>1. IsFiniteSet({}) /\ Cardinality({}) = 0
    BY FS_EmptySet
  <2> QED
    BY <1>0, <1>1, <1>2, <2>1 DEF Init, Counted, Unsent
<1>5. Shapes
  BY <1>1 DEF Init, Shapes, Shape, Unsent, Logins
<1>6. Overtaken
  <2>1. \A q \in Requests : req[q].old = {}
    BY <1>1 DEF Unsent
  <2> QED
    BY <2>1 DEF Init, Overtaken
<1>7. LoginTokens
  BY <1>1 DEF LoginTokens
<1> QED
  BY <1>3, <1>4, <1>5, <1>6, <1>7 DEF Init, IInv, Behind, Outdated

-----------------------------------------------------------------------------
(* Steps of one request *)

Others(q) == \A p \in Requests \ {q} : req'[p] = req[p]

LEMMA Typed ==
  ASSUME TypeOK
  PROVE  /\ req \in [Requests -> ReqType(rows)]
         /\ id \in Nat /\ rows \in Nat /\ ver \in Nat /\ ver \in 0..MaxChanges
         /\ MaxRows \in Nat /\ MaxChanges \in Nat
         /\ \A q \in Requests : /\ req[q].id \in Nat /\ req[q].id <= rows
                                /\ req[q].ver \in Nat /\ req[q].old \subseteq Requests
         /\ \A q \in Issued : /\ token[q][1] \in Nat /\ token[q][2] \in Nat
                              /\ token[q][1] <= rows /\ token[q][1] # 0
                              /\ token[q] = <<token[q][1], token[q][2]>>
<1>1. MaxRows \in Nat /\ MaxChanges \in Nat
  BY AccountsAssumption DEF AccountsAssumption
<1>2. req \in [Requests -> ReqType(rows)] /\ ver \in 0..MaxChanges /\ rows \in Nat /\ id \in Nat
  BY <1>1 DEF TypeOK, ReqType
<1>3. ASSUME NEW q \in Requests
      PROVE  /\ req[q].id \in Nat /\ req[q].id <= rows
             /\ req[q].ver \in Nat /\ req[q].old \subseteq Requests
  <2>1. req[q] \in ReqType(rows)
    BY <1>2
  <2> QED
    BY <1>1, <1>2, <2>1 DEF ReqType
<1>4. ASSUME NEW q \in Issued
      PROVE  /\ token[q][1] \in Nat /\ token[q][2] \in Nat
             /\ token[q][1] <= rows /\ token[q][1] # 0
             /\ token[q] = <<token[q][1], token[q][2]>>
  <2>1. token[q] \in (1..rows) \X (0..MaxChanges)
    BY DEF TypeOK, Issued
  <2> QED
    BY <1>1, <1>2, <2>1
<1> QED
  BY <1>1, <1>2, <1>3, <1>4

(***************************************************************************)
(* A request that goes on keeps all it has.                                *)
(***************************************************************************)
LEMMA GoesOn ==
  ASSUME TypeOK, NEW q \in Requests, NEW s \in Steps, Step(q, s)
  PROVE  /\ req' \in [Requests -> ReqType(rows)] /\ Others(q)
         /\ req'[q].step = s
         /\ req'[q].op = req[q].op /\ req'[q].id = req[q].id /\ req'[q].ver = req[q].ver
         /\ req'[q].seen = req[q].seen /\ req'[q].old = req[q].old
<1>1. req \in [Requests -> ReqType(rows)]
  BY Typed
<1>2. req' = [req EXCEPT ![q] = [req[q] EXCEPT !.step = s]]
  BY DEF Step
<1>3. req[q] \in ReqType(rows)
  BY <1>1
<1>4. [req[q] EXCEPT !.step = s] \in ReqType(rows)
  BY <1>3 DEF ReqType
<1>5. req' \in [Requests -> ReqType(rows)] /\ Others(q) /\ req'[q] = [req[q] EXCEPT !.step = s]
  BY <1>1, <1>2, <1>4 DEF Others
<1> QED
  BY <1>3, <1>5 DEF ReqType

LEMMA Replaced ==
  ASSUME TypeOK, NEW q \in Requests, NEW n \in Nat, rows <= n, NEW r \in ReqType(n),
         req' = [req EXCEPT ![q] = r]
  PROVE  req' \in [Requests -> ReqType(n)] /\ Others(q) /\ req'[q] = r
<1>1. \A p \in Requests : req[p] \in ReqType(rows) /\ DOMAIN req = Requests
  BY Typed
<1>2. rows \in Nat
  BY Typed
<1>3. \A p \in Requests : req[p] \in ReqType(n)
  BY <1>1, <1>2 DEF ReqType
<1> QED
  BY <1>1, <1>3 DEF Others

LEMMA FinishedCard ==
  ASSUME Counted
  PROVE  /\ IsFiniteSet(Finished)
         /\ Cardinality(Finished) \in Nat /\ Cardinality(Changes) \in Nat
         /\ Cardinality(Finished) <= Cardinality(Changes)
<1>1. Finished \in SUBSET Changes
  BY DEF Finished
<1> QED
  BY <1>1, FS_Subset, FS_CardinalityType DEF Counted

(***************************************************************************)
(* As long as no version is raised, Counted stays.                         *)
(***************************************************************************)
LEMMA StaysCounted ==
  ASSUME TypeOK, Counted, NEW q \in Requests, Others(q),
         req'[q].op = "change" <=> req[q].op = "change",
         q \in Finished => req'[q].step \in {"reread", "done"},
         ver' \in Nat, ver' <= Cardinality(Finished),
         req'[q].ver \in Nat, req'[q].ver <= Cardinality(Finished)
  PROVE  Counted'
<1>1. Changes' = Changes
  BY DEF Changes, Others
<1>2. Finished \subseteq Finished'
  BY <1>1 DEF Finished, Others, Changes
<1>3. Finished' \in SUBSET Changes
  BY <1>1 DEF Finished
<1>4. /\ IsFiniteSet(Finished') /\ Cardinality(Finished') \in Nat
  BY <1>3, FS_Subset, FS_CardinalityType DEF Counted
<1>5. Cardinality(Finished) \in Nat /\ Cardinality(Finished) <= Cardinality(Finished')
  BY <1>2, <1>4, FS_Subset, FS_CardinalityType
<1>6. ASSUME NEW p \in Requests
      PROVE  req'[p].ver <= Cardinality(Finished')
  <2>1. req'[p].ver \in Nat /\ req'[p].ver <= Cardinality(Finished)
    BY Typed DEF Counted, Others
  <2> QED
    BY <1>4, <1>5, <2>1
<1>7. ver' <= Cardinality(Finished')
  BY <1>4, <1>5
<1> QED
  BY <1>1, <1>6, <1>7 DEF Counted

(***************************************************************************)
(* A step that changes nothing but where the request stands.               *)
(***************************************************************************)
LEMMA QuietStep ==
  ASSUME IInv, NEW q \in Requests, NEW s \in {"write", "done"}, Quietly(q, s),
         req[q].step \notin {"unsent", "done"},
         req[q].step \in {"read", "bump"} => req[q].id # id,
         s = "write" => req[q].step \in {"begun", "email"}
                        /\ (req[q].op = "change" => req[q].step = "begun")
  PROVE  IInv'
<1>0. /\ UNCHANGED <<id, rows, password, ver, email, token, lost>> /\ Step(q, s)
      /\ s \in Steps
  BY DEF Quietly, row, Steps
<1>1. /\ req' \in [Requests -> ReqType(rows)] /\ Others(q)
      /\ req'[q].step = s
      /\ req'[q].op = req[q].op /\ req'[q].id = req[q].id /\ req'[q].ver = req[q].ver
      /\ req'[q].seen = req[q].seen /\ req'[q].old = req[q].old
  BY <1>0, GoesOn DEF IInv
<1>2. Issued' = Issued /\ token[q] = NoToken
  BY <1>0 DEF Issued, IInv, Shapes
<1>3. TypeOK'
  BY <1>0, <1>1 DEF IInv, TypeOK, ReqType
<1>4. Counted'
  <2>1. ver' \in Nat /\ ver' <= Cardinality(Finished) /\ req'[q].ver \in Nat
        /\ req'[q].ver <= Cardinality(Finished)
    BY <1>0, <1>1, Typed DEF IInv, Counted
  <2>2. q \in Finished => req'[q].step \in {"reread", "done"}
    BY <1>1 DEF Finished
  <2> QED
    BY <1>1, <2>1, <2>2, StaysCounted DEF IInv
<1>5. Shapes'
  <2>1. Shape(req[q])
    BY DEF IInv, Shapes
  <2>2. Shape(req'[q])
    BY <1>1, <2>1 DEF Shape
  <2> QED
    BY <1>0, <1>1, <1>2, <2>2 DEF IInv, Shapes, Others
<1>6. Behind'
  BY <1>0, <1>1, <1>2 DEF IInv, Behind, Others
<1>7. Overtaken'
  BY <1>0, <1>1, <1>2 DEF IInv, Overtaken, Passes, OldOnes, Others, Changes
<1>8. LoginTokens'
  BY <1>0, <1>1 DEF IInv, LoginTokens, Others
<1>9. Outdated'
  <2>1. \A c \in Requests : WillRaise(c) => c # q /\ WillRaise(c)'
    BY <1>0, <1>1 DEF WillRaise, Others
  <2> QED
    BY <1>0, <1>1, <2>1 DEF IInv, Outdated, Others
<1> QED
  BY <1>3, <1>4, <1>5, <1>6, <1>7, <1>8, <1>9 DEF IInv

(***************************************************************************)
(* What a new request has read is what the row has, or nothing.            *)
(***************************************************************************)
LEMMA SendLoginIInv ==
  ASSUME IInv, NEW q \in Requests, NEW op \in Logins, NEW p \in Given, SendLogin(q, op, p)
  PROVE  IInv'
<1>0. UNCHANGED <<id, rows, password, ver, email, token, lost>>
  BY DEF SendLogin, row
<1> DEFINE r == [Unsent EXCEPT !.op = op, !.step = "begun", !.given = p]
<1>1. /\ r \in ReqType(rows) /\ r.op = op /\ r.step = "begun" /\ r.id = 0 /\ r.ver = 0
      /\ r.seen = NoPassword /\ r.old = {}
  <2>1. op \in Ops /\ "begun" \in Steps /\ rows \in Nat
    BY Typed DEF Ops, Steps, IInv
  <2>2. Unsent \in ReqType(rows)
    BY <2>1, UnsentTyped DEF ReqType
  <2> QED
    BY <2>1, <2>2, UnsentTyped DEF ReqType
<1>12. req' = [req EXCEPT ![q] = r] /\ rows \in Nat
  BY Typed DEF SendLogin, IInv
<1> HIDE DEF r
<1>2. req' \in [Requests -> ReqType(rows)] /\ Others(q) /\ req'[q] = r
  <2>1. rows <= rows
    BY <1>12
  <2> QED
    BY <1>1, <1>12, <2>1, Replaced DEF IInv
<1>3. req[q].step = "unsent" /\ req[q].op = "none" /\ op \notin {"none", "change", "set", "complete"}
  BY DEF SendLogin, Unsent, Logins
<1>4. Issued' = Issued /\ token[q] = NoToken
  BY <1>0, <1>3 DEF Issued, IInv, Shapes
<1>5. TypeOK'
  BY <1>0, <1>2 DEF IInv, TypeOK, ReqType
<1>6. Counted'
  <2>1. ver' \in Nat /\ ver' <= Cardinality(Finished) /\ 0 <= Cardinality(Finished)
    BY <1>0, Typed, FinishedCard DEF IInv, Counted
  <2> QED
    BY <1>1, <1>2, <1>3, <2>1, StaysCounted DEF IInv, Finished
<1>7. Shapes'
  <2>1. Shape(req'[q])
    BY <1>1, <1>2, <1>3 DEF Shape
  <2> QED
    BY <1>0, <1>1, <1>2, <1>4, <2>1 DEF IInv, Shapes, Others
<1>8. Behind'
  BY <1>0, <1>1, <1>2, <1>4, Typed DEF IInv, Behind, Others
<1>9. Overtaken'
  BY <1>0, <1>1, <1>2, <1>3, <1>4 DEF IInv, Overtaken, Passes, OldOnes, Others, Changes
<1>10. LoginTokens'
  BY <1>0, <1>1, <1>2 DEF IInv, LoginTokens, Others
<1>11. Outdated'
  <2>1. \A c \in Requests : WillRaise(c) => c # q /\ WillRaise(c)'
    BY <1>0, <1>2, <1>3 DEF WillRaise, Others
  <2> QED
    BY <1>0, <1>1, <1>2, <2>1 DEF IInv, Outdated, Others
<1> QED
  BY <1>5, <1>6, <1>7, <1>8, <1>9, <1>10, <1>11 DEF IInv

LEMMA LookUpIInv ==
  ASSUME IInv, NEW q \in Requests, NEW op \in Logins, NEW s \in {"create", "issue", "done"},
         LookUp(q, op, s), s = "create" => id = 0, s = "issue" => id # 0
  PROVE  IInv'
<1>0. /\ UNCHANGED <<id, rows, password, ver, email, token, lost>>
      /\ req[q].op = op /\ req[q].step = "begun"
  BY DEF LookUp, At, row
<1>1. /\ req' \in [Requests -> ReqType(rows)] /\ Others(q)
      /\ req'[q].op = op /\ req'[q].step = s /\ req'[q].old = req[q].old
      /\ req'[q].id = id /\ req'[q].seen = password /\ req'[q].ver = ver
  <2> DEFINE r == [req[q] EXCEPT !.id = id, !.seen = password, !.ver = ver, !.step = s]
  <2>1. id \in 0..rows /\ password \in Given /\ ver \in 0..MaxChanges /\ s \in Steps
    BY Typed DEF IInv, TypeOK, Steps
  <2>2. req[q] \in ReqType(rows)
    BY Typed DEF IInv
  <2>3. /\ r \in ReqType(rows) /\ r.op = req[q].op /\ r.step = s /\ r.old = req[q].old
        /\ r.id = id /\ r.seen = password /\ r.ver = ver
    BY <2>1, <2>2 DEF ReqType
  <2>4. req' = [req EXCEPT ![q] = r] /\ rows \in Nat
    BY Typed DEF LookUp, IInv
  <2> HIDE DEF r
  <2>5. rows <= rows
    BY <2>4
  <2>6. req' \in [Requests -> ReqType(rows)] /\ Others(q) /\ req'[q] = r
    BY <2>3, <2>4, <2>5, Replaced DEF IInv
  <2> QED
    BY <1>0, <2>3, <2>6
<1>2. Issued' = Issued /\ token[q] = NoToken
  BY <1>0 DEF Issued, IInv, Shapes
<1>3. op \notin {"none", "change", "set", "complete"}
  BY DEF Logins
<1>4. TypeOK'
  BY <1>0, <1>1 DEF IInv, TypeOK, ReqType
<1>5. Counted'
  <2>1. ver' \in Nat /\ ver' <= Cardinality(Finished) /\ q \notin Finished
    BY <1>0, Typed DEF IInv, Counted, Finished
  <2> QED
    BY <1>0, <1>1, <1>3, <2>1, StaysCounted DEF IInv
<1>6. Shapes'
  <2>1. Shape(req[q]) /\ req[q].old = {}
    BY <1>0 DEF IInv, Shapes, Shape
  <2>2. s = "create" => password = NoPassword /\ ver = 0
    BY DEF IInv, Shapes
  <2>3. Shape(req'[q])
    BY <1>1, <1>3, <2>1, <2>2 DEF Shape
  <2> QED
    BY <1>0, <1>1, <1>2, <2>3 DEF IInv, Shapes, Others
<1>7. Behind'
  BY <1>0, <1>1, <1>2, Typed DEF IInv, Behind, Others
<1>8. Overtaken'
  <2>1. req'[q].old = {} /\ q \notin Changes'
    BY <1>0, <1>1, <1>3 DEF IInv, Shapes, Shape, Changes
  <2> QED
    BY <1>0, <1>1, <2>1 DEF IInv, Overtaken, Passes, OldOnes, Others, Changes
<1>9. LoginTokens'
  BY <1>0, <1>1, <1>2 DEF IInv, LoginTokens, Others
<1>10. Outdated'
  <2>1. \A c \in Requests : WillRaise(c) => c # q /\ WillRaise(c)'
    BY <1>0, <1>1, <1>3 DEF WillRaise, Others
  <2> QED
    BY <1>0, <1>1, <2>1 DEF IInv, Outdated, Others
<1> QED
  BY <1>4, <1>5, <1>6, <1>7, <1>8, <1>9, <1>10 DEF IInv

(***************************************************************************)
(* Every token of the row that is out is one that the change is to end.    *)
(***************************************************************************)
LEMMA SendIInv ==
  ASSUME IInv, NEW q \in Requests, NEW op \in {"change", "set", "complete"},
         NEW p \in Given, NEW n \in Passwords, Send(q, op, p, n)
  PROVE  IInv'
<1>0. /\ UNCHANGED <<id, rows, password, ver, email, token, lost>>
      /\ req[q] = Unsent /\ id # 0
      /\ op = "change" => Cardinality(Changes) < MaxChanges
  BY DEF Send, row, ValidTokens
<1>1. /\ req' \in [Requests -> ReqType(rows)] /\ Others(q)
      /\ req'[q].op = op /\ req'[q].step = "begun" /\ req'[q].old = Issued
      /\ req'[q].id = id /\ req'[q].ver = ver
  <2> DEFINE r == [op |-> op, step |-> "begun", given |-> p, new |-> n, id |-> id,
                   seen |-> password, mail |-> email, ver |-> ver, old |-> Issued]
  <2>1. /\ id \in 0..rows /\ password \in Given /\ ver \in 0..MaxChanges
        /\ "begun" \in Steps /\ op \in Ops /\ n \in Given /\ Issued \in SUBSET Requests
    BY Typed DEF IInv, TypeOK, Steps, Ops, Given, Issued
  <2>2. email \in BOOLEAN
    BY DEF IInv, TypeOK
  <2>3. /\ r \in ReqType(rows) /\ r.op = op /\ r.step = "begun" /\ r.old = Issued
        /\ r.id = id /\ r.ver = ver
    BY <2>1, <2>2 DEF ReqType
  <2>4. req' = [req EXCEPT ![q] = r] /\ rows \in Nat
    BY Typed DEF Send, IInv
  <2> HIDE DEF r
  <2>5. rows <= rows
    BY <2>4
  <2>6. req' \in [Requests -> ReqType(rows)] /\ Others(q) /\ req'[q] = r
    BY <2>3, <2>4, <2>5, Replaced DEF IInv
  <2> QED
    BY <2>3, <2>6
<1>2. req[q].op = "none" /\ req[q].step = "unsent"
  BY <1>0, UnsentTyped
<1>3. Issued' = Issued /\ token[q] = NoToken
  BY <1>0, <1>2 DEF Issued, IInv, Shapes
<1>4. op \notin Logins \cup {"none"}
  BY DEF Logins
<1>5. TypeOK'
  BY <1>0, <1>1 DEF IInv, TypeOK, ReqType
<1>6. Counted'
  <2>1. Finished' = Finished
    BY <1>1, <1>2 DEF Finished, Changes, Others
  <2>2. CASE op = "change"
    <3>1. Changes' = Changes \cup {q} /\ q \notin Changes
      BY <1>1, <1>2, <2>2 DEF Changes, Others
    <3>2. IsFiniteSet(Changes') /\ Cardinality(Changes') = Cardinality(Changes) + 1
      BY <3>1, FS_AddElement DEF IInv, Counted
    <3>3. Cardinality(Changes') <= MaxChanges
      BY <1>0, <2>2, <3>2, FinishedCard, Typed DEF IInv
    <3> QED
      BY <1>0, <1>1, <2>1, <3>2, <3>3 DEF IInv, Counted, Others
  <2>3. CASE op # "change"
    <3>1. Changes' = Changes
      BY <1>1, <1>2, <2>3 DEF Changes, Others
    <3> QED
      BY <1>0, <1>1, <2>1, <3>1 DEF IInv, Counted, Others
  <2> QED
    BY <2>2, <2>3
<1>7. Shapes'
  <2>1. Shape(req'[q])
    BY <1>0, <1>1, <1>4 DEF Shape
  <2> QED
    BY <1>0, <1>1, <1>3, <2>1 DEF IInv, Shapes, Others
<1>8. Behind'
  BY <1>0, <1>1, <1>3, Typed DEF IInv, Behind, Others
<1>9. Overtaken'
  <2>1. \A t \in Issued : token[t][1] <= id
    BY <1>0, Typed DEF IInv, TypeOK
  <2>2. "version" \notin lost => \A t \in Issued : token[t][1] = id => token[t][2] <= ver
    BY <1>0 DEF IInv, Behind
  <2> QED
    BY <1>0, <1>1, <1>3, <2>1, <2>2 DEF IInv, Overtaken, Passes, OldOnes, Others, Changes
<1>10. LoginTokens'
  BY <1>0, <1>1, <1>4 DEF IInv, LoginTokens, Others
<1>11. Outdated'
  <2>1. \A c \in Requests : WillRaise(c) => c # q /\ WillRaise(c)'
    BY <1>0, <1>1, <1>2 DEF WillRaise, Others
  <2> QED
    BY <1>0, <1>1, <1>4, <2>1 DEF IInv, Outdated, Others
<1> QED
  BY <1>5, <1>6, <1>7, <1>8, <1>9, <1>10, <1>11 DEF IInv

(***************************************************************************)
(* A token is new: it is in nobody's list of those to be ended.            *)
(***************************************************************************)
LEMMA IssueIInv ==
  ASSUME IInv, NEW q \in Requests, NEW v, Issue(q, v), Step(q, "done"), UNCHANGED <<row, lost>>,
         \/ req[q].step = "issue" /\ v = req[q].ver
         \/ req[q].step = "reread" /\ Present(q) /\ v = ver
  PROVE  IInv'
<1>0. /\ UNCHANGED <<id, rows, password, ver, email, lost>> /\ "done" \in Steps
  BY DEF row, Steps
<1>1. /\ req' \in [Requests -> ReqType(rows)] /\ Others(q)
      /\ req'[q].step = "done"
      /\ req'[q].op = req[q].op /\ req'[q].id = req[q].id /\ req'[q].ver = req[q].ver
      /\ req'[q].seen = req[q].seen /\ req'[q].old = req[q].old
  BY <1>0, GoesOn DEF IInv
<1>2. /\ req[q].id \in 1..rows /\ v \in 0..MaxChanges /\ v \in Nat /\ req[q].id # 0
      /\ req[q] \in ReqType(rows)
  <2>1. req[q].id # 0
    BY DEF IInv, Shapes, Shape
  <2>2. req[q] \in ReqType(rows)
    BY Typed DEF IInv
  <2>3. v \in 0..MaxChanges
    BY <2>2, Typed DEF IInv, ReqType
  <2> QED
    BY <2>1, <2>2, <2>3, Typed DEF IInv
<1>3. token[q] = NoToken /\ q \notin Issued
  BY DEF IInv, Shapes, Issued
<1>4. /\ token' \in [Requests -> ((1..rows) \X (0..MaxChanges)) \cup {NoToken}]
      /\ token'[q] = <<req[q].id, v>> /\ token'[q][1] = req[q].id /\ token'[q][2] = v
      /\ \A p \in Requests \ {q} : token'[p] = token[p]
  BY <1>2 DEF Issue, IInv, TypeOK
<1>5. Issued' \subseteq Issued \cup {q} /\ Issued \subseteq Issued'
  BY <1>3, <1>4 DEF Issued
<1>6. TypeOK'
  BY <1>0, <1>1, <1>4 DEF IInv, TypeOK, ReqType
<1>7. Counted'
  <2>1. ver' \in Nat /\ ver' <= Cardinality(Finished) /\ req'[q].ver \in Nat
        /\ req'[q].ver <= Cardinality(Finished)
    BY <1>0, <1>1, Typed DEF IInv, Counted
  <2> QED
    BY <1>1, <2>1, StaysCounted DEF IInv
<1>8. Shapes'
  <2>1. Shape(req[q])
    BY DEF IInv, Shapes
  <2>2. Shape(req'[q])
    BY <1>1, <2>1 DEF Shape
  <2> QED
    BY <1>0, <1>1, <1>4, <1>5, <2>2 DEF IInv, Shapes, Others
<1>9. Behind'
  <2>1. \A p \in Requests : req'[p].id = req[p].id /\ req'[p].ver = req[p].ver
    BY <1>1 DEF Others
  <2>2. "version" \notin lost /\ req[q].id = id /\ id # 0 => v <= ver
    BY Typed DEF IInv, Behind
  <2>3. \A p \in Issued' : p # q => p \in Issued /\ token'[p] = token[p]
    BY <1>4, <1>5 DEF Issued
  <2> QED
    BY <1>0, <1>4, <2>1, <2>2, <2>3 DEF IInv, Behind
<1>10. \A c \in Requests : \A p \in req[c].old : p \in Issued /\ token'[p] = token[p]
  BY <1>3, <1>4 DEF IInv, Shapes, Issued
<1>11. Overtaken'
  <2>1. q \in Changes => req[q].step = "reread"
    BY DEF IInv, Shapes, Shape, Changes, Logins
  <2>2. \A c \in Requests : req'[c].old = req[c].old /\ req'[c].id = req[c].id
    BY <1>1 DEF Others
  <2>3. Changes' = Changes
    BY <1>1 DEF Changes, Others
  <2>4. \A c \in Requests : OldOnes(c)' = OldOnes(c)
    BY <1>0, <1>10, <2>2 DEF OldOnes
  <2>5. \A c \in Requests \ {q} : req'[c] = req[c] /\ token'[c] = token[c]
    BY <1>1, <1>4 DEF Others
  <2> QED
    BY <1>0, <1>1, <1>10, <2>1, <2>2, <2>3, <2>4, <2>5 DEF IInv, Overtaken, Passes, OldOnes, Changes
<1>12. LoginTokens'
  <2>1. req[q].op \in Logins /\ req[q].seen # NoPassword => v = req[q].ver
    BY DEF IInv, Shapes, Shape
  <2> QED
    BY <1>1, <1>4, <2>1 DEF IInv, LoginTokens, Others
<1>13. Outdated'
  <2>1. \A c \in Requests : WillRaise(c) => c # q /\ WillRaise(c)'
    BY <1>0, <1>1 DEF WillRaise, Others
  <2> QED
    BY <1>0, <1>1, <2>1 DEF IInv, Outdated, Others
<1> QED
  BY <1>6, <1>7, <1>8, <1>9, <1>11, <1>12, <1>13 DEF IInv

(***************************************************************************)
(* Nobody has anything of the new row.                                     *)
(***************************************************************************)
LEMMA CreateUserIInv ==
  ASSUME IInv, NEW q \in Requests, CreateUser(q)
  PROVE  IInv'
<1>1. CASE id # 0
  BY <1>1, QuietStep DEF CreateUser
<1>2. CASE id = 0
  <2>0. /\ rows' = rows + 1 /\ id' = rows + 1 /\ password' = req[q].given /\ ver' = 0
        /\ rows < MaxRows /\ UNCHANGED <<token, lost>>
        /\ req[q].op \in Logins /\ req[q].step = "create"
    BY <1>2 DEF CreateUser
  <2>1. req[q].seen = NoPassword /\ req[q].ver = 0 /\ req[q].old = {} /\ token[q] = NoToken
    BY <2>0 DEF IInv, Shapes, Shape
  <2>2. rows \in Nat /\ MaxRows \in Nat
    BY Typed DEF IInv
  <2>3. /\ req' \in [Requests -> ReqType(rows')] /\ Others(q)
        /\ req'[q].op = req[q].op /\ req'[q].step = "reread" /\ req'[q].id = id'
        /\ req'[q].seen = NoPassword /\ req'[q].ver = 0 /\ req'[q].old = {}
    <3> DEFINE n == rows + 1
               r == [req[q] EXCEPT !.id = n, !.step = "reread"]
    <3>1. req[q] \in ReqType(rows) /\ "reread" \in Steps
      BY Typed DEF IInv, Steps
    <3>2. req[q] \in ReqType(n) /\ n \in 0..n
      BY <2>2, <3>1 DEF ReqType
    <3>3. /\ r \in ReqType(n) /\ r.op = req[q].op /\ r.step = "reread" /\ r.id = n
          /\ r.seen = req[q].seen /\ r.ver = req[q].ver /\ r.old = req[q].old
      <4> HIDE DEF n
      <4> QED
        BY <3>1, <3>2 DEF ReqType
    <3>4. req' = [req EXCEPT ![q] = r]
      BY <1>2 DEF CreateUser
    <3>5. n \in Nat /\ rows <= n /\ n = rows' /\ n = id'
      BY <2>0, <2>2
    <3> HIDE DEF r, n
    <3>6. req' \in [Requests -> ReqType(n)] /\ Others(q) /\ req'[q] = r
      BY <3>3, <3>4, <3>5, Replaced DEF IInv
    <3> QED
      BY <2>1, <3>3, <3>5, <3>6
  <2>4. email' \in BOOLEAN
    BY <1>2 DEF CreateUser
  <2>5. TypeOK'
    <3>1. req[q] \in ReqType(rows)
      BY Typed DEF IInv
    <3>2. rows' \in 0..MaxRows /\ 0 \in 0..MaxChanges /\ password' \in Given
      BY <2>0, <2>2, <3>1, Typed DEF IInv, ReqType
    <3>3. token' \in [Requests -> ((1..rows') \X (0..MaxChanges)) \cup {NoToken}]
      <4>1. (1..rows) \subseteq (1..rows')
        BY <2>0, <2>2
      <4> QED
        BY <2>0, <4>1 DEF IInv, TypeOK
    <3> QED
      BY <2>0, <2>3, <2>4, <3>2, <3>3 DEF IInv, TypeOK, ReqType
  <2>6. Counted'
    <3>1. 0 <= Cardinality(Finished) /\ 0 \in Nat
      BY FinishedCard DEF IInv
    <3> QED
      BY <2>0, <2>3, <3>1, StaysCounted DEF IInv
  <2>7. Issued' = Issued
    BY <2>0 DEF Issued
  <2>8. Shapes'
    <3>1. Shape(req'[q])
      BY <2>0, <2>2, <2>3 DEF Shape, Logins
    <3>2. id' # 0
      BY <2>0, <2>2
    <3> QED
      BY <2>0, <2>1, <2>3, <2>7, <3>1, <3>2 DEF IInv, Shapes, Others
  <2>9. /\ \A p \in Requests \ {q} : req'[p] = req[p] /\ req[p].id # id'
        /\ \A p \in Issued : token'[p] = token[p] /\ token[p][1] # id'
    BY <2>0, <2>2, <2>3, Typed DEF IInv, Others
  <2>10. Behind'
    BY <2>0, <2>3, <2>7, <2>9, Typed DEF IInv, Behind
  <2>11. Overtaken'
    <3>1. q \notin Changes'
      BY <2>0, <2>3 DEF Changes, Logins
    <3> QED
      BY <2>0, <2>3, <2>9, <3>1 DEF IInv, Overtaken, Passes, OldOnes, Changes
  <2>12. LoginTokens' /\ Outdated'
    BY <2>0, <2>3, <2>9 DEF IInv, LoginTokens, Outdated
  <2> QED
    BY <2>5, <2>6, <2>8, <2>10, <2>11, <2>12 DEF IInv
<1> QED
  BY <1>1, <1>2

(***************************************************************************)
(* A change has its increment still to come when the hash is written; any  *)
(* other request replaces no password, or loses it.                        *)
(***************************************************************************)
LEMMA WritePasswordIInv ==
  ASSUME IInv, NEW q \in Requests, NEW s \in {"read", "done"}, WritePassword(q, s),
         req[q].step = "write",
         \/ req[q].op = "change" /\ s = "read"
         \/ req[q].op \in {"set", "complete"} /\ s = "done"
  PROVE  IInv'
<1>0. /\ UNCHANGED <<id, rows, ver, email, token>> /\ password' = req[q].new
      /\ req[q].id = id /\ Step(q, s) /\ s \in Steps
      /\ lost' \in {lost, lost \cup {"password"}}
      /\ lost' = {} => lost = {} /\ (req[q].op # "change" => password = NoPassword)
      /\ req[q].op \in {"change", "set", "complete"} /\ req[q].step = "write"
  BY DEF WritePassword, Present, Steps
<1>1. /\ req' \in [Requests -> ReqType(rows)] /\ Others(q)
      /\ req'[q].step = s
      /\ req'[q].op = req[q].op /\ req'[q].id = req[q].id /\ req'[q].ver = req[q].ver
      /\ req'[q].seen = req[q].seen /\ req'[q].old = req[q].old
  BY <1>0, GoesOn DEF IInv
<1>2. Issued' = Issued /\ token[q] = NoToken
  BY <1>0 DEF Issued, IInv, Shapes
<1>3. TypeOK'
  <2>1. req[q] \in ReqType(rows)
    BY Typed DEF IInv
  <2>2. password' \in Given
    BY <1>0, <2>1 DEF ReqType
  <2>3. lost' \subseteq {"password", "version"}
    BY <1>0 DEF IInv, TypeOK
  <2> QED
    BY <1>0, <1>1, <2>2, <2>3 DEF IInv, TypeOK, ReqType
<1>4. Counted'
  <2>1. ver' \in Nat /\ ver' <= Cardinality(Finished) /\ req'[q].ver \in Nat
        /\ req'[q].ver <= Cardinality(Finished) /\ q \notin Finished
    BY <1>0, <1>1, Typed DEF IInv, Counted, Finished
  <2> QED
    BY <1>1, <2>1, StaysCounted DEF IInv
<1>5. Shapes'
  <2>1. Shape(req[q])
    BY DEF IInv, Shapes
  <2>2. Shape(req'[q]) /\ id # 0
    BY <1>0, <1>1, <2>1 DEF Shape, Logins
  <2> QED
    BY <1>0, <1>1, <1>2, <2>2 DEF IInv, Shapes, Others
<1>6. "version" \notin lost' => "version" \notin lost
  BY <1>0
<1>7. Behind'
  BY <1>0, <1>1, <1>2, <1>6 DEF IInv, Behind, Others
<1>8. Overtaken'
  <2>1. Changes' = Changes /\ \A c \in Requests : OldOnes(c)' = OldOnes(c)
    BY <1>0, <1>1 DEF Changes, OldOnes, Others
  <2>2. \A c \in Requests : req'[c].old = req[c].old /\ req'[c].id = req[c].id
    BY <1>1 DEF Others
  <2>3. ASSUME NEW c \in Changes, NEW p, Passes(c, p)
        PROVE  Passes(c, p)'
    BY <1>0, <1>1, <1>2, <2>3 DEF Passes, Changes, Others
  <2>4. \A c \in Requests : \A p \in req'[c].old : token'[p][1] <= req'[c].id
    BY <1>0, <2>2 DEF IInv, Overtaken
  <2> QED
    BY <1>0, <1>6, <2>1, <2>2, <2>3, <2>4 DEF IInv, Overtaken, Changes
<1>9. LoginTokens'
  BY <1>0, <1>1 DEF IInv, LoginTokens, Others
<1>10. Outdated'
  <2>1. CASE req[q].op = "change"
    <3>1. WillRaise(q)'
      BY <1>0, <1>1, <2>1 DEF WillRaise
    <3> QED
      BY <3>1 DEF Outdated
  <2>2. CASE req[q].op # "change"
    <3>1. \A c \in Requests : WillRaise(c) => c # q /\ WillRaise(c)'
      BY <1>0, <1>1, <2>2 DEF WillRaise, Others
    <3>2. \A l \in Requests : req'[l].op \in Logins => l # q
      BY <1>0, <1>1 DEF Logins
    <3> QED
      BY <1>0, <1>1, <2>2, <3>1, <3>2 DEF IInv, Outdated, Others
  <2> QED
    BY <2>1, <2>2
<1> QED
  BY <1>3, <1>4, <1>5, <1>7, <1>8, <1>9, <1>10 DEF IInv

(***************************************************************************)
(* The refresh reads a version that no token of the row is ahead of.       *)
(***************************************************************************)
LEMMA ReadVersionIInv ==
  ASSUME IInv, NEW q \in Requests, At(q, "change", "read"), Present(q),
         req' = [req EXCEPT ![q].ver = ver, ![q].step = "bump"], UNCHANGED <<row, token, lost>>
  PROVE  IInv'
<1>0. /\ UNCHANGED <<id, rows, password, ver, email, token, lost>>
      /\ req[q].op = "change" /\ req[q].step = "read" /\ req[q].id = id
  BY DEF At, Present, row
<1>1. /\ req' \in [Requests -> ReqType(rows)] /\ Others(q)
      /\ req'[q].step = "bump" /\ req'[q].ver = ver
      /\ req'[q].op = req[q].op /\ req'[q].id = req[q].id
      /\ req'[q].seen = req[q].seen /\ req'[q].old = req[q].old
  <2> DEFINE r == [req[q] EXCEPT !.ver = ver, !.step = "bump"]
  <2>1. req[q] \in ReqType(rows) /\ "bump" \in Steps /\ ver \in 0..MaxChanges
    BY Typed DEF IInv, Steps
  <2>2. /\ r \in ReqType(rows) /\ r.op = req[q].op /\ r.step = "bump" /\ r.id = req[q].id
        /\ r.seen = req[q].seen /\ r.ver = ver /\ r.old = req[q].old
    BY <2>1 DEF ReqType
  <2>3. req' = [req EXCEPT ![q] = r] /\ rows \in Nat
    BY Typed DEF IInv
  <2> HIDE DEF r
  <2>4. rows <= rows
    BY <2>3
  <2>5. req' \in [Requests -> ReqType(rows)] /\ Others(q) /\ req'[q] = r
    BY <2>2, <2>3, <2>4, Replaced DEF IInv
  <2> QED
    BY <2>2, <2>5
<1>2. Issued' = Issued /\ token[q] = NoToken
  BY <1>0 DEF Issued, IInv, Shapes
<1>3. TypeOK'
  BY <1>0, <1>1 DEF IInv, TypeOK, ReqType
<1>4. Counted'
  <2>1. ver' \in Nat /\ ver' <= Cardinality(Finished) /\ req'[q].ver \in Nat
        /\ req'[q].ver <= Cardinality(Finished) /\ q \notin Finished
    BY <1>0, <1>1, Typed DEF IInv, Counted, Finished
  <2> QED
    BY <1>1, <2>1, StaysCounted DEF IInv
<1>5. Shapes'
  <2>1. Shape(req[q])
    BY DEF IInv, Shapes
  <2>2. Shape(req'[q])
    BY <1>0, <1>1, <2>1 DEF Shape, Logins
  <2> QED
    BY <1>0, <1>1, <1>2, <2>2 DEF IInv, Shapes, Others
<1>6. Behind'
  BY <1>0, <1>1, <1>2, Typed DEF IInv, Behind, Others
<1>7. Overtaken'
  <2>1. Changes' = Changes /\ \A c \in Requests : OldOnes(c)' = OldOnes(c)
    BY <1>0, <1>1 DEF Changes, OldOnes, Others
  <2>2. "version" \notin lost /\ id # 0 => \A p \in OldOnes(q) : token[p][2] <= ver
    BY DEF IInv, Shapes, Behind, OldOnes
  <2>3. \A c \in Requests : req'[c].old = req[c].old /\ req'[c].id = req[c].id
    BY <1>1 DEF Others
  <2>4. ASSUME NEW c \in Changes, NEW p \in OldOnes(c), "version" \notin lost, id # 0, req[c].id = id
        PROVE  Passes(c, p)'
    <3>1. CASE c = q
      BY <1>0, <1>1, <1>2, <2>2, <2>4, <3>1 DEF Passes
    <3>2. CASE c # q
      <4>1. req'[c] = req[c] /\ Passes(c, p)
        BY <1>1, <2>4, <3>2 DEF IInv, Overtaken, Others, Changes
      <4> QED
        BY <1>0, <4>1 DEF Passes
    <3> QED
      BY <3>1, <3>2
  <2>6. \A c \in Requests : \A p \in req'[c].old : token'[p][1] <= req'[c].id
    BY <1>0, <2>3 DEF IInv, Overtaken
  <2> QED
    <3>1. id' = id /\ lost' = lost
      BY <1>0
    <3> QED
      BY <2>1, <2>3, <2>4, <2>6, <3>1 DEF Overtaken, Changes
<1>8. LoginTokens'
  BY <1>0, <1>1 DEF IInv, LoginTokens, Others, Logins
<1>9. Outdated'
  <2>1. \A c \in Requests : WillRaise(c) => WillRaise(c)'
    BY <1>0, <1>1 DEF WillRaise, Others
  <2>2. \A l \in Requests : req'[l].op \in Logins => l # q
    BY <1>0, <1>1 DEF Logins
  <2> QED
    BY <1>0, <1>1, <2>1, <2>2 DEF IInv, Outdated, Others
<1> QED
  BY <1>3, <1>4, <1>5, <1>6, <1>7, <1>8, <1>9 DEF IInv

(***************************************************************************)
(* Unless the version is put back, it grows or stays; it stays only when   *)
(* another change has raised it meanwhile.                                 *)
(***************************************************************************)
LEMMA WriteVersionIInv ==
  ASSUME IInv, NEW q \in Requests, At(q, "change", "bump"), Present(q),
         WriteVersion(q), Step(q, "reread"), UNCHANGED <<id, rows, password, email, token>>
  PROVE  IInv'
<1>0. /\ ver' = req[q].ver + 1 /\ lost' \in {lost, lost \cup {"version"}}
      /\ "version" \notin lost' => ~(ver > req[q].ver + 1)
      /\ req[q].op = "change" /\ req[q].step = "bump" /\ req[q].id = id
      /\ "reread" \in Steps
  BY DEF At, Present, WriteVersion, Steps
<1>1. /\ req' \in [Requests -> ReqType(rows)] /\ Others(q)
      /\ req'[q].step = "reread"
      /\ req'[q].op = req[q].op /\ req'[q].id = req[q].id /\ req'[q].ver = req[q].ver
      /\ req'[q].seen = req[q].seen /\ req'[q].old = req[q].old
  BY <1>0, GoesOn DEF IInv
<1>2. Issued' = Issued /\ token[q] = NoToken
  BY <1>0 DEF Issued, IInv, Shapes
<1>3. ver \in Nat /\ req[q].ver \in Nat /\ MaxChanges \in Nat
  BY Typed DEF IInv
<1>4. /\ Changes' = Changes /\ IsFiniteSet(Changes)
      /\ Cardinality(Finished') = Cardinality(Finished) + 1
      /\ Cardinality(Finished') <= Cardinality(Changes)
      /\ Cardinality(Finished) \in Nat /\ Cardinality(Changes) \in Nat
  <2>1. Changes' = Changes
    BY <1>1 DEF Changes, Others
  <2>2. q \notin Finished /\ Finished' = Finished \cup {q} /\ Finished' \in SUBSET Changes
    BY <1>0, <1>1 DEF Finished, Changes, Others
  <2> QED
    BY <2>1, <2>2, FinishedCard, FS_AddElement, FS_Subset DEF IInv, Counted
<1>5. Counted'
  <2>1. ASSUME NEW p \in Requests
        PROVE  req'[p].ver <= Cardinality(Finished')
    <3>1. req'[p].ver = req[p].ver /\ req[p].ver \in Nat
          /\ req[p].ver <= Cardinality(Finished)
      BY <1>1, Typed DEF IInv, Counted, Others
    <3> QED
      BY <1>4, <3>1
  <2>2. ver' <= Cardinality(Finished')
    <3>1. req[q].ver <= Cardinality(Finished)
      BY DEF IInv, Counted
    <3> QED
      BY <1>0, <1>3, <1>4, <3>1
  <2> QED
    BY <1>4, <2>1, <2>2 DEF IInv, Counted
<1>6. TypeOK'
  <2>1. ver' \in 0..MaxChanges
    <3>1. req[q].ver <= Cardinality(Finished) /\ Cardinality(Changes) <= MaxChanges
      BY DEF IInv, Counted
    <3> QED
      BY <1>0, <1>3, <1>4, <3>1
  <2>2. lost' \subseteq {"password", "version"}
    BY <1>0 DEF IInv, TypeOK
  <2> QED
    BY <1>1, <2>1, <2>2 DEF IInv, TypeOK, ReqType
<1>7. Shapes'
  <2>1. Shape(req[q])
    BY DEF IInv, Shapes
  <2>2. Shape(req'[q]) /\ id # 0
    BY <1>0, <1>1, <2>1 DEF Shape, Logins
  <2> QED
    BY <1>1, <1>2, <2>2 DEF IInv, Shapes, Others
<1>8. /\ "version" \notin lost' => "version" \notin lost /\ ver <= ver'
      /\ lost' = {} => lost = {}
  BY <1>0, <1>3
<1>9. Behind'
  <2>1. \A p \in Issued : token[p][2] \in Nat
    BY Typed DEF IInv
  <2>2. \A p \in Requests : /\ req'[p].id = req[p].id /\ req'[p].ver = req[p].ver
                            /\ req[p].ver \in Nat
    BY <1>1, Typed DEF IInv, Others
  <2> QED
    BY <1>0, <1>2, <1>3, <1>8, <2>1, <2>2 DEF IInv, Behind
<1>10. Overtaken'
  <2>1. \A c \in Requests : OldOnes(c)' = OldOnes(c) /\ \A p \in OldOnes(c) : token[p][2] \in Nat
    BY <1>1, Typed DEF OldOnes, Others, IInv, Shapes
  <2>2. \A c \in Changes : \A p \in OldOnes(c) :
          "version" \notin lost /\ id # 0 /\ req[c].id = id => Passes(c, p)
    BY DEF IInv, Overtaken
  <2>3. ASSUME NEW c \in Changes, NEW p \in OldOnes(c), "version" \notin lost', id # 0, req[c].id = id
        PROVE  Passes(c, p)'
    <3>1. CASE c = q
      <4>1. token[p][2] <= req[q].ver
        BY <1>0, <1>8, <2>2, <2>3, <3>1 DEF Passes
      <4> QED
        BY <1>0, <1>1, <1>3, <2>1, <3>1, <4>1 DEF Passes
    <3>2. CASE c # q
      <4>1. req'[c] = req[c]
        BY <1>1, <3>2 DEF Others, Changes
      <4>2. Passes(c, p)
        BY <1>8, <2>2, <2>3
      <4>3. token[p][2] \in Nat /\ ver <= ver' /\ ver' \in Nat
        BY <1>0, <1>3, <1>8, <2>1, <2>3 DEF Changes
      <4> QED
        BY <1>3, <4>1, <4>2, <4>3 DEF Passes
    <3> QED
      BY <3>1, <3>2
  <2>4. \A c \in Requests : req'[c].old = req[c].old /\ req'[c].id = req[c].id
    BY <1>1 DEF Others
  <2>5. \A c \in Requests : \A p \in req'[c].old : token'[p][1] <= req'[c].id
    BY <2>4 DEF IInv, Overtaken
  <2> QED
    BY <1>0, <1>4, <1>8, <2>1, <2>3, <2>4, <2>5 DEF Overtaken, Changes
<1>11. LoginTokens'
  BY <1>0, <1>1 DEF IInv, LoginTokens, Others, Logins
<1>12. Outdated'
  <2> SUFFICES ASSUME lost' = {}, id # 0, NEW l \in Requests,
                      req'[l].op \in Logins, req'[l].seen # NoPassword,
                      req'[l].id = id, req'[l].ver = ver'
               PROVE  req'[l].seen = password \/ \E c \in Requests : WillRaise(c)'
    BY DEF Outdated
  <2>1. l # q /\ req'[l] = req[l]
    BY <1>0, <1>1 DEF Others, Logins
  <2>2. ver = ver' /\ req[q].ver # ver
    <3>1. req[l].ver <= ver /\ req[l].ver \in Nat
      BY <1>8, <2>1, Typed DEF IInv, Behind
    <3> QED
      BY <1>0, <1>3, <1>8, <2>1, <3>1
  <2>3. req[l].seen = password \/ \E c \in Requests : WillRaise(c)
    BY <1>8, <2>1, <2>2 DEF IInv, Outdated
  <2>4. \A c \in Requests : WillRaise(c) => c # q /\ WillRaise(c)'
    BY <1>0, <1>1, <2>2 DEF WillRaise, Others
  <2> QED
    BY <2>1, <2>3, <2>4
<1> QED
  BY <1>5, <1>6, <1>7, <1>9, <1>10, <1>11, <1>12 DEF IInv

(***************************************************************************)
(* An email changes nothing that a token depends on.                       *)
(***************************************************************************)
LEMMA StoreEmailIInv ==
  ASSUME IInv, NEW q \in Requests, StoreEmail(q)
  PROVE  IInv'
<1>0. /\ UNCHANGED <<id, rows, password, ver, token, lost>> /\ email' = TRUE
      /\ req[q].op = "complete" /\ req[q].step = "begun" /\ Step(q, "email") /\ "email" \in Steps
  BY DEF StoreEmail, At, Steps
<1>1. /\ req' \in [Requests -> ReqType(rows)] /\ Others(q)
      /\ req'[q].step = "email"
      /\ req'[q].op = req[q].op /\ req'[q].id = req[q].id /\ req'[q].ver = req[q].ver
      /\ req'[q].seen = req[q].seen /\ req'[q].old = req[q].old
  BY <1>0, GoesOn DEF IInv
<1>2. Issued' = Issued /\ token[q] = NoToken
  BY <1>0 DEF Issued, IInv, Shapes
<1>3. TypeOK'
  <2>1. email' \in BOOLEAN
    BY <1>0
  <2> QED
    BY <1>0, <1>1, <2>1 DEF IInv, TypeOK, ReqType
<1>4. Counted'
  <2>1. ver' \in Nat /\ ver' <= Cardinality(Finished) /\ req'[q].ver \in Nat
        /\ req'[q].ver <= Cardinality(Finished) /\ q \notin Finished
    BY <1>0, <1>1, Typed DEF IInv, Counted, Finished
  <2> QED
    BY <1>1, <2>1, StaysCounted DEF IInv
<1>5. Shapes'
  <2>1. Shape(req[q])
    BY DEF IInv, Shapes
  <2>2. Shape(req'[q])
    BY <1>0, <1>1, <2>1 DEF Shape, Logins
  <2> QED
    BY <1>0, <1>1, <1>2, <2>2 DEF IInv, Shapes, Others
<1>6. Behind'
  BY <1>0, <1>1, <1>2 DEF IInv, Behind, Others
<1>7. Overtaken'
  <2>1. q \notin Changes' /\ Changes' = Changes
    BY <1>0, <1>1 DEF Changes, Others
  <2> QED
    BY <1>0, <1>1, <2>1 DEF IInv, Overtaken, Passes, OldOnes, Others, Changes
<1>8. LoginTokens'
  BY <1>0, <1>1 DEF IInv, LoginTokens, Others
<1>9. Outdated'
  <2>1. \A c \in Requests : WillRaise(c) => WillRaise(c)'
    BY <1>0, <1>1 DEF WillRaise, Others
  <2> QED
    BY <1>0, <1>1, <2>1 DEF IInv, Outdated, Others
<1> QED
  BY <1>3, <1>4, <1>5, <1>6, <1>7, <1>8, <1>9 DEF IInv

LEMMA DeleteUserIInv ==
  ASSUME IInv, DeleteUser
  PROVE  IInv'
<1>0. /\ id' = 0 /\ password' = NoPassword /\ ver' = 0 /\ email' = FALSE /\ lost' = {}
      /\ UNCHANGED <<rows, req, token>>
  BY DEF DeleteUser
<1>1. TypeOK'
  <2>1. email' \in BOOLEAN
    BY <1>0
  <2>2. 0 \in 0..MaxChanges /\ NoPassword \in Given
    BY Typed DEF IInv, Given
  <2> QED
    BY <1>0, <2>1, <2>2 DEF IInv, TypeOK
<1>2. Changes' = Changes /\ Finished' = Finished /\ Issued' = Issued
  BY <1>0 DEF Changes, Finished, Issued
<1>3. Counted'
  BY <1>0, <1>2, FinishedCard DEF IInv, Counted
<1>4. Shapes' /\ LoginTokens'
  BY <1>0, <1>2 DEF IInv, Shapes, LoginTokens
<1> QED
  BY <1>0, <1>1, <1>3, <1>4 DEF IInv, Behind, Overtaken, Outdated

LEMMA StutterIInv ==
  ASSUME IInv, UNCHANGED vars
  PROVE  IInv'
<1>1. UNCHANGED <<id, rows, password, ver, email, req, token, lost>>
  BY DEF vars, row
<1>2. Changes' = Changes /\ Finished' = Finished /\ Issued' = Issued
  BY <1>1 DEF Changes, Finished, Issued
<1>3. \A c : WillRaise(c) => WillRaise(c)'
  BY <1>1 DEF WillRaise
<1> QED
  BY <1>1, <1>2, <1>3
     DEF IInv, TypeOK, Counted, Shapes, Behind, Overtaken, Passes, OldOnes, LoginTokens, Outdated

-----------------------------------------------------------------------------
(* The theorems *)

(***************************************************************************)
(* Each kind of request takes one of the steps above.                      *)
(***************************************************************************)
LEMMA LoginIInv ==
  ASSUME IInv, NEW q \in Requests, Login(q)
  PROVE  IInv'
<1>1. CASE LocalLogin(q)
  <2> DEFINE s == IF id = 0 THEN "create"
                  ELSE IF password = NoPassword \/ Matches(req[q].given, password)
                       THEN "issue" ELSE "done"
  <2>1. LookUp(q, "local", s) /\ s \in {"create", "issue", "done"} /\ "local" \in Logins
        /\ (s = "create" => id = 0) /\ (s = "issue" => id # 0)
    BY <1>1 DEF LocalLogin, Logins
  <2> HIDE DEF s
  <2> QED
    BY <2>1, LookUpIInv
<1>2. CASE OnlineLogin(q)
  <2> DEFINE s == IF id # 0 /\ Matches(req[q].given, password) THEN "issue" ELSE "done"
  <2>1. LookUp(q, "online", s) /\ s \in {"create", "issue", "done"} /\ "online" \in Logins
        /\ (s = "create" => id = 0) /\ (s = "issue" => id # 0)
    BY <1>2 DEF OnlineLogin, Logins
  <2> HIDE DEF s
  <2> QED
    BY <2>1, LookUpIInv
<1>3. CASE Register(q)
  <2> DEFINE s == IF id = 0 THEN "create" ELSE "done"
  <2>1. LookUp(q, "register", s) /\ s \in {"create", "issue", "done"} /\ "register" \in Logins
        /\ (s = "create" => id = 0) /\ (s = "issue" => id # 0)
    BY <1>3 DEF Register, Logins
  <2> HIDE DEF s
  <2> QED
    BY <2>1, LookUpIInv
<1>4. CASE IssueToken(q)
  BY <1>4, IssueIInv DEF IssueToken
<1> QED
  BY <1>1, <1>2, <1>3, <1>4, CreateUserIInv DEF Login

LEMMA ChangePasswordIInv ==
  ASSUME IInv, NEW q \in Requests, ChangePassword(q)
  PROVE  IInv'
<1>1. CASE Verify(q)
  <2> DEFINE s == IF Matches(req[q].given, req[q].seen) THEN "write" ELSE "done"
  <2>1. Quietly(q, s) /\ s \in {"write", "done"} /\ req[q].step = "begun"
    BY <1>1 DEF Verify, At
  <2> HIDE DEF s
  <2> QED
    BY <2>1, QuietStep
<1>2. CASE At(q, "change", "write") /\ WritePassword(q, "read")
  BY <1>2, WritePasswordIInv DEF At
<1> QED
  BY <1>1, <1>2, ReadVersionIInv, WriteVersionIInv DEF ChangePassword, ChangeAndBump

LEMMA SetPasswordIInv ==
  ASSUME IInv, NEW q \in Requests, SetPassword(q) \/ CompleteProfile(q)
  PROVE  IInv'
<1>1. ASSUME NEW s \in {"write", "done"}, Quietly(q, s),
             At(q, "set", "begun") \/ At(q, "complete", "begun") \/ At(q, "complete", "email")
      PROVE  IInv'
  <2>1. req[q].step \in {"begun", "email"} /\ req[q].op # "change"
    BY <1>1 DEF At
  <2> QED
    BY <1>1, <2>1, QuietStep
<1>2. ASSUME At(q, "set", "write") \/ At(q, "complete", "write"), WritePassword(q, "done")
      PROVE  IInv'
  BY <1>2, WritePasswordIInv DEF At
<1>3. CASE SetPassword(q)
  <2> DEFINE s == IF req[q].seen = NoPassword THEN "write" ELSE "done"
  <2>1. \/ At(q, "set", "begun") /\ Quietly(q, s)
        \/ At(q, "set", "write") /\ WritePassword(q, "done")
    BY <1>3 DEF SetPassword
  <2>2. s \in {"write", "done"}
    OBVIOUS
  <2> HIDE DEF s
  <2> QED
    BY <1>1, <1>2, <2>1, <2>2
<1>4. CASE CompleteProfile(q)
  <2> DEFINE s == IF req[q].mail /\ req[q].seen = NoPassword THEN "write" ELSE "done"
             t == IF password = NoPassword THEN "write" ELSE "done"
  <2>1. \/ StoreEmail(q)
        \/ At(q, "complete", "begun") /\ Quietly(q, s)
        \/ At(q, "complete", "email") /\ Quietly(q, t)
        \/ At(q, "complete", "write") /\ WritePassword(q, "done")
    BY <1>4 DEF CompleteProfile
  <2>2. s \in {"write", "done"} /\ t \in {"write", "done"}
    OBVIOUS
  <2> HIDE DEF s, t
  <2> QED
    BY <1>1, <1>2, <2>1, <2>2, StoreEmailIInv
<1> QED
  BY <1>3, <1>4

LEMMA StepIInv == IInv /\ [Next]_vars => IInv'
<1> SUFFICES ASSUME IInv, [Next]_vars
             PROVE  IInv'
  OBVIOUS
<1>1. ASSUME NEW q \in Requests, NEW op \in Logins, NEW p \in Given, SendLogin(q, op, p)
      PROVE  IInv'
  BY <1>1, SendLoginIInv
<1>2. ASSUME NEW q \in Requests, NEW op \in {"change", "set", "complete"}, NEW p \in Given,
             NEW n \in Passwords, Send(q, op, p, n)
      PROVE  IInv'
  BY <1>2, SendIInv
<1>3. ASSUME NEW q \in Requests, IssueFresh(q)
      PROVE  IInv'
  BY <1>3, IssueIInv DEF IssueFresh
<1>4. ASSUME NEW q \in Requests, RowGone(q)
      PROVE  IInv'
  BY <1>4, QuietStep DEF RowGone, Present
<1>5. Passwords \subseteq Given /\ NoPassword \in Given
  BY DEF Given
<1> QED
  BY <1>1, <1>2, <1>3, <1>4, <1>5, LoginIInv, ChangePasswordIInv, SetPasswordIInv,
     DeleteUserIInv, StutterIInv DEF Next

THEOREM Invariance == Spec => []IInv
BY InitIInv, StepIInv, PTL DEF Spec

(***************************************************************************)
(* The type invariant: a version is at most the number of changes          *)
(* (increment_token_version).                                              *)
(***************************************************************************)
THEOREM TypeCorrect == Spec => []TypeOK
<1>1. IInv => TypeOK
  BY DEF IInv
<1> QED
  BY <1>1, Invariance, PTL

(***************************************************************************)
(* When change_password has ended, no token issued before it began is      *)
(* accepted, unless a late increment has put the version back.             *)
(***************************************************************************)
THEOREM OldTokensDieAlways == Spec => []OldTokensDie
<1>1. ASSUME IInv
      PROVE  OldTokensDie
  <2> SUFFICES ASSUME "version" \notin lost, NEW q \in Changes, NEW p \in Requests,
                      token[q] # NoToken, p \in req[q].old, p \in ValidTokens
               PROVE  FALSE
    BY DEF OldTokensDie
  <2>1. /\ p \in Issued /\ id # 0 /\ token[p][1] = id /\ token[p][2] = ver
        /\ q \in Requests
    BY DEF ValidTokens, Changes
  <2>2. token[p][1] <= req[q].id
    BY <1>1, <2>1 DEF IInv, Overtaken
  <2>3. id = rows /\ req[q].id = id
    <3>1. id = rows
      BY <1>1, <2>1 DEF IInv, TypeOK
    <3>2. req[q].id \in Nat /\ rows \in Nat /\ req[q].id <= rows
      BY <1>1, <2>1, Typed DEF IInv
    <3> QED
      BY <2>1, <2>2, <3>1, <3>2
  <2>4. Passes(q, p)
    BY <1>1, <2>1, <2>3 DEF IInv, Overtaken, OldOnes
  <2> QED
    BY <1>1, <2>1, <2>4, Typed DEF IInv, Passes
<1> QED
  BY <1>1, Invariance, PTL

(***************************************************************************)
(* Once no change is under way, whoever is logged in with a password has   *)
(* given the one the row has, unless an update was lost (login_user,       *)
(* local_login).                                                           *)
(***************************************************************************)
THEOREM LoginsStayCurrent == Spec => []LoginsAreCurrent
<1>1. ASSUME IInv
      PROVE  LoginsAreCurrent
  <2> SUFFICES ASSUME lost = {}, Changing = {}, NEW q \in ValidTokens,
                      req[q].op \in Logins, req[q].seen # NoPassword
               PROVE  req[q].seen = password
    BY DEF LoginsAreCurrent
  <2>1. q \in Requests /\ id # 0 /\ token[q] = <<id, ver>> /\ token[q] # NoToken
    BY DEF ValidTokens, Issued
  <2>2. req[q].id = id /\ req[q].ver = ver
    <3>1. token[q] = <<req[q].id, req[q].ver>>
      BY <1>1, <2>1 DEF IInv, LoginTokens
    <3> QED
      BY <2>1, <3>1
  <2>3. \A c \in Requests : ~WillRaise(c)
    BY DEF Changing, Changes, WillRaise
  <2> QED
    BY <1>1, <2>1, <2>2, <2>3 DEF IInv, Outdated
<1> QED
  BY <1>1, Invariance, PTL
=============================================================================
