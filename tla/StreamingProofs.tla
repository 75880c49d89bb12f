--------------------------- MODULE StreamingProofs ---------------------------
(***************************************************************************)
(* For any number of requests, apps, tokens and rows: the refresh token in *)
(* the database is the one Spotify takes, or its successor is about to be  *)
(* stored; and tokens that disconnect has deleted do not come back.        *)
(***************************************************************************)
EXTENDS Streaming, SequenceTheorems, TLAPS

Refreshers == {q \in Requests : req[q].op = "refresh"}
Exchanged == {q \in Requests : At(q, "exchange", "answered")}
Bringing == {q \in Refreshers : req[q].new # 0}

(***************************************************************************)
(* A grant is named by a token that was issued.                            *)
(***************************************************************************)
GrantsIssued ==
  /\ \A t \in 1..Len(issued) : issued[t].grant <= Len(issued)
  /\ gone \subseteq 1..Len(issued)
  /\ row # NoRow => row.access <= Len(issued)

(***************************************************************************)
(* What a request has in hand.  A row keeps its tokens as long as it       *)
(* exists, so the row of a refresh has one.                                *)
(***************************************************************************)
Carried ==
  /\ \A q \in Requests :
       /\ req[q].op \in {"connect", "exchange"} => req[q].app \in Apps
       /\ req[q].step # "answered" => req[q].new = 0
  /\ \A q \in Refreshers :
       /\ req[q].id \in 1..rows
       /\ req[q].token \in 1..Len(issued)
       /\ row.id = req[q].id => row.refresh # 0
  /\ \A q \in Bringing : Grant(req[q].new) = Grant(req[q].token)
  /\ \A q \in Exchanged : req[q].new # 0 /\ Grant(req[q].new) = req[q].new

(***************************************************************************)
(* A grant belongs to one row: a refresh for a row that is gone holds no   *)
(* grant of the present row, one for the present row none that is gone.    *)
(***************************************************************************)
Owned ==
  /\ \A q \in Refreshers :
       row # NoRow => IF req[q].id = row.id THEN Grant(req[q].token) \notin gone
                      ELSE Grant(req[q].token) \notin GrantsOf(row)
  /\ \A p, q \in Refreshers :
       req[p].id # req[q].id => Grant(req[p].token) # Grant(req[q].token)

(***************************************************************************)
(* A grant that is still to be stored is nowhere else.                     *)
(***************************************************************************)
Unstored ==
  \A q \in Exchanged :
    /\ req[q].new \in live \/ req[q].new \in spoilt
    /\ req[q].new \notin gone
    /\ row # NoRow => req[q].new \notin GrantsOf(row)
    /\ \A p \in Refreshers : Grant(req[p].token) # req[q].new
    /\ \A p \in Exchanged : p # q => req[p].new # req[q].new

(***************************************************************************)
(* A successor that is still to be stored is nobody's token yet.           *)
(***************************************************************************)
Successors ==
  \A q \in Bringing :
    /\ req[q].new \in live \/ Grant(req[q].new) \in spoilt
    /\ row # NoRow => row.refresh # req[q].new
    /\ \A p \in Refreshers : req[p].token # req[q].new
    /\ \A p \in Bringing : p # q => req[p].new # req[q].new

Parts == TypeOK /\ GrantsIssued /\ Carried
IInv == Parts /\ Owned /\ Unstored /\ Successors /\ TokenWorks /\ DisconnectIsFinal

LEMMA InitIInv == Init => IInv
<1> SUFFICES ASSUME Init
             PROVE  IInv
  OBVIOUS
<1>1. Refreshers = {} /\ Exchanged = {} /\ Bringing = {}
  BY DEF Init, Refreshers, Exchanged, Bringing, At, Idle
<1>2. TypeOK
  BY StreamingAssumption DEF Init, TypeOK, Idle, NoRow, Ops, Steps, StreamingAssumption
<1> QED
  BY <1>1, <1>2
     DEF Init, IInv, Parts, GrantsIssued, Carried, Owned, Unstored, Successors, TokenWorks,
         DisconnectIsFinal, Idle

-----------------------------------------------------------------------------
(* Rows and tokens *)

LEMMA Tokens0 ==
  ASSUME Parts
  PROVE  /\ Len(issued) \in Nat /\ MaxTokens \in Nat /\ MaxRows \in Nat
         /\ DOMAIN issued = 1..Len(issued)
         /\ \A t \in 1..Len(issued) : issued[t].grant \in Tokens /\ issued[t].app \in Apps
         /\ \A t \in 1..Len(issued) : t # 0 /\ Grant(t) = issued[t].grant
                                     /\ Grant(t) \in 1..Len(issued)
         /\ Grant(0) = 0
         /\ 1..Len(issued) \subseteq Tokens /\ live \subseteq 1..Len(issued)
<1>1. issued \in Seq([grant : Tokens, app : Apps])
  BY DEF Parts, TypeOK
<1>2. Len(issued) \in Nat /\ DOMAIN issued = 1..Len(issued)
  BY <1>1, LenProperties
<1>3. MaxTokens \in Nat /\ MaxRows \in Nat
  BY StreamingAssumption DEF StreamingAssumption
<1>4. ASSUME NEW t \in 1..Len(issued)
      PROVE  issued[t].grant \in Tokens /\ issued[t].app \in Apps
  <2>1. issued[t] \in [grant : Tokens, app : Apps]
    BY <1>1, ElementOfSeq
  <2> QED
    BY <2>1
<1>5. ASSUME NEW t \in 1..Len(issued)
      PROVE  t # 0 /\ Grant(t) = issued[t].grant /\ Grant(t) \in 1..Len(issued)
  BY <1>2, <1>4 DEF Grant, Parts, GrantsIssued, Tokens
<1>6. 1..Len(issued) \subseteq Tokens /\ live \subseteq 1..Len(issued)
  BY <1>2, <1>3 DEF Parts, TypeOK, Tokens
<1> QED
  BY <1>2, <1>3, <1>4, <1>5, <1>6 DEF Grant

LEMMA RowTyped ==
  ASSUME Parts
  PROVE  /\ NoRow.id = 0
         /\ row = NoRow <=> row.id = 0
         /\ row # NoRow => row \in Row /\ row.id = rows /\ row.id # 0
BY StreamingAssumption DEF Parts, TypeOK, Row, NoRow, StreamingAssumption

ReqType == [op : Ops, step : Steps, id : 0..MaxRows, app : Apps \cup {NoApp},
            code : Apps \cup {NoApp}, token : 0..MaxTokens, new : 0..MaxTokens]

(***************************************************************************)
(* A request that ends leaves the others as they are.                      *)
(***************************************************************************)
LEMMA EndTypes ==
  ASSUME Parts, NEW q \in Requests, Ends(q)
  PROVE  /\ req' \in [Requests -> ReqType] /\ req'[q] = Idle
         /\ \A p \in Requests \ {q} : req'[p] = req[p]
         /\ \A p \in Requests : req'[p].id <= rows /\ req'[p].new <= Len(issued)
<1>1. Idle \in ReqType /\ Idle.id = 0 /\ Idle.new = 0
  BY StreamingAssumption DEF Idle, ReqType, Ops, Steps, StreamingAssumption
<1>2. req \in [Requests -> ReqType]
  BY DEF Parts, TypeOK, ReqType
<1>3. /\ req' \in [Requests -> ReqType] /\ req'[q] = Idle
      /\ \A p \in Requests \ {q} : req'[p] = req[p]
  BY <1>1, <1>2 DEF Ends
<1>4. rows \in Nat /\ Len(issued) \in Nat
  BY Tokens0 DEF Parts, TypeOK
<1>5. ASSUME NEW p \in Requests
      PROVE  req'[p].id <= rows /\ req'[p].new <= Len(issued)
  <2>1. CASE p = q
    <3>1. req'[p].id = 0 /\ req'[p].new = 0
      BY <1>1, <1>3, <2>1
    <3> QED
      BY <1>4, <3>1
  <2>2. CASE p # q
    <3>1. req'[p] = req[p]
      BY <1>3, <2>2
    <3> QED
      BY <3>1 DEF Parts, TypeOK
  <2> QED
    BY <2>1, <2>2
<1> QED
  BY <1>3, <1>5

(***************************************************************************)
(* The requests that are refreshing or have an answer are the same as      *)
(* before, or fewer; one that gives up had brought nothing that was        *)
(* needed.                                                                 *)
(***************************************************************************)
LEMMA FewerCarry ==
  ASSUME IInv, Parts', UNCHANGED <<row, rows, issued, live, gone>>,
         spoilt \subseteq spoilt',
         \A q \in Refreshers' : q \in Refreshers /\ req'[q] = req[q],
         \A q \in Exchanged' : q \in Exchanged /\ req'[q] = req[q],
         \A q \in Refreshers : \/ req'[q] = req[q]
                               \/ req[q].step # "answered" \/ req[q].token \in live
                               \/ Grant(req[q].token) \in spoilt'
                               \/ row = NoRow \/ req[q].token # row.refresh
  PROVE  IInv'
<1>0. Requests' = Requests /\ \A t : Grant(t)' = Grant(t)
  BY DEF Grant
<1>1. Bringing' \subseteq Bringing /\ \A q \in Bringing' : req'[q] = req[q]
  BY DEF Bringing
<1>2. Owned'
  BY <1>0 DEF IInv, Owned, GrantsOf, Grant
<1>3. Unstored'
  BY <1>0 DEF IInv, Unstored, GrantsOf, Grant
<1>4. Successors'
  BY <1>0, <1>1 DEF IInv, Successors, Grant
<1>5. TokenWorks'
  <2> SUFFICES ASSUME row # NoRow, row.refresh # 0, Grant(row.refresh) \notin spoilt',
                      row.refresh \notin live
               PROVE  InHand(row.refresh)'
    BY <1>0 DEF TokenWorks, Grant
  <2>1. PICK q \in Requests : /\ At(q, "refresh", "answered") /\ req[q].token = row.refresh
                             /\ req[q].new \in live
    BY DEF IInv, TokenWorks, InHand
  <2>2. req'[q] = req[q]
    BY <2>1 DEF Refreshers, At
  <2> QED
    BY <2>1, <2>2 DEF InHand, At
<1>6. DisconnectIsFinal'
  BY DEF IInv, DisconnectIsFinal, GrantsOf, Grant
<1> QED
  BY <1>2, <1>3, <1>4, <1>5, <1>6 DEF IInv

-----------------------------------------------------------------------------
(* Steps *)

(***************************************************************************)
(* The steps that change neither the row nor what Spotify knows.           *)
(***************************************************************************)
LEMMA RequestIInv ==
  ASSUME IInv, NEW q \in Requests,
         \/ \E a \in Apps : SendConnect(q, a)
         \/ Callback(q) \/ Refused(q) \/ LoseAnswer(q)
  PROVE  IInv'
<1>1. \A p \in Requests \ {q} : req'[p] = req[p]
  BY DEF IInv, Parts, TypeOK, SendConnect, Callback, Refused, LoseAnswer, Ends
<1>2. \/ req'[q] = Idle
      \/ /\ req'[q] \in [op : {"connect", "exchange"}, step : {"asked"}, id : {0}, app : Apps,
                         code : Apps \cup {NoApp}, token : {0}, new : {0}]
         /\ req[q] = Idle
  <2>0. q \in DOMAIN req /\ page \in Apps \cup {NoApp}
    BY DEF IInv, Parts, TypeOK
  <2>1. CASE \E a \in Apps : SendConnect(q, a)
    BY <2>0, <2>1 DEF SendConnect, Asking
  <2>2. CASE Callback(q)
    <3>1. row.app \in Apps
      BY <2>2, RowTyped DEF Callback, IInv, Row
    <3> QED
      BY <2>0, <2>2, <3>1 DEF Callback, Asking
  <2>3. CASE Refused(q) \/ LoseAnswer(q)
    BY <2>0, <2>3 DEF Refused, LoseAnswer, Ends
  <2> QED
    BY <2>1, <2>2, <2>3
<1>3. Idle \in [op : Ops, step : Steps, id : 0..MaxRows, app : Apps \cup {NoApp},
                code : Apps \cup {NoApp}, token : 0..MaxTokens, new : 0..MaxTokens]
  BY StreamingAssumption DEF Idle, Ops, Steps, StreamingAssumption
<1>4. /\ UNCHANGED <<row, rows, issued, live, gone>> /\ spoilt \subseteq spoilt'
      /\ doomed' = doomed /\ page' \in Apps \cup {NoApp} /\ DOMAIN req' = Requests
  BY DEF IInv, Parts, TypeOK, SendConnect, Callback, Refused, LoseAnswer, Ends, spotify
<1>5. spoilt' \subseteq Tokens
  <2>1. CASE At(q, "refresh", "answered")
    <3>1. Grant(req[q].token) \in Tokens
      BY <2>1, Tokens0 DEF IInv, Parts, Carried, Refreshers, At, Tokens
    <3> QED
      BY <3>1 DEF IInv, Parts, TypeOK, SendConnect, Callback, Refused, LoseAnswer, spotify
  <2> QED
    BY <2>1 DEF IInv, Parts, TypeOK, SendConnect, Callback, Refused, LoseAnswer, spotify
<1>6. /\ \A p \in Refreshers' : p \in Refreshers /\ req'[p] = req[p]
      /\ \A p \in Exchanged' : p \in Exchanged /\ req'[p] = req[p]
  BY <1>1, <1>2 DEF Refreshers, Exchanged, At, Idle
<1>7. ASSUME NEW p \in Refreshers
      PROVE  \/ req'[p] = req[p] \/ req[p].step # "answered" \/ req[p].token \in live
             \/ Grant(req[p].token) \in spoilt'
  <2>1. CASE p = q
    <3>1. CASE (\E a \in Apps : SendConnect(q, a)) \/ Callback(q)
      BY <2>1, <3>1 DEF SendConnect, Callback, Idle, Refreshers
    <3>2. CASE Refused(q)
      BY <2>1, <3>2 DEF Refused, At
    <3>3. CASE LoseAnswer(q)
      BY <2>1, <3>3 DEF LoseAnswer, At, Refreshers
    <3> QED
      BY <3>1, <3>2, <3>3
  <2> QED
    BY <1>1, <2>1 DEF Refreshers
<1>8. TypeOK'
  <2>0. req'[q] \in [op : Ops, step : Steps, id : 0..MaxRows, app : Apps \cup {NoApp},
                    code : Apps \cup {NoApp}, token : 0..MaxTokens, new : 0..MaxTokens]
    BY <1>2, <1>3, StreamingAssumption DEF Ops, Steps, StreamingAssumption
  <2>1. req' \in [Requests -> [op : Ops, step : Steps, id : 0..MaxRows, app : Apps \cup {NoApp},
                             code : Apps \cup {NoApp}, token : 0..MaxTokens, new : 0..MaxTokens]]
    BY <2>0 DEF IInv, Parts, TypeOK, SendConnect, Callback, Refused, LoseAnswer, Ends
  <2>2. ASSUME NEW p \in Requests
        PROVE  req'[p].id <= rows /\ req'[p].new <= Len(issued)
    <3>1. CASE p = q
      <4>1. req'[q].id = 0 /\ req'[q].new = 0
        BY <1>2 DEF Idle
      <4> QED
        BY <3>1, <4>1, Tokens0 DEF IInv, Parts, TypeOK
    <3>2. CASE p # q
      BY <1>1, <3>2 DEF IInv, Parts, TypeOK
    <3> QED
      BY <3>1, <3>2
  <2> QED
    BY <1>4, <1>5, <2>1, <2>2 DEF IInv, Parts, TypeOK
<1>9. Parts'
  <2>1. GrantsIssued'
    BY <1>4 DEF IInv, Parts, GrantsIssued
  <2>2. \A t : Grant(t)' = Grant(t)
    BY <1>4 DEF Grant
  <2>3. Bringing' \subseteq Bringing
    BY <1>6 DEF Bringing
  <2>4. \A p \in Requests :
          /\ req'[p].op \in {"connect", "exchange"} => req'[p].app \in Apps
          /\ req'[p].step # "answered" => req'[p].new = 0
    BY <1>1, <1>2 DEF IInv, Parts, Carried, Idle
  <2>5. Carried'
    BY <1>4, <1>6, <2>2, <2>3, <2>4 DEF IInv, Parts, Carried, Bringing, Grant
  <2> QED
    BY <1>8, <2>1, <2>5 DEF Parts
<1> QED
  BY <1>4, <1>6, <1>7, <1>9, FewerCarry

LEMMA OutsideIInv ==
  ASSUME IInv, StartOAuth \/ AbandonOAuth \/ FindConnection
  PROVE  IInv'
<1>1. UNCHANGED <<row, rows, req, issued, live, spoilt, gone>>
  BY DEF StartOAuth, AbandonOAuth, FindConnection, spotify
<1>2. page' \in Apps \cup {NoApp} /\ doomed' \in 0..rows
  BY RowTyped DEF IInv, Parts, TypeOK, Row, StartOAuth, AbandonOAuth, FindConnection
<1>3. Parts'
  BY <1>1, <1>2 DEF IInv, Parts, TypeOK, GrantsIssued, Carried, Refreshers, Bringing, Exchanged,
                    At, Grant
<1> QED
  BY <1>1, <1>3, FewerCarry DEF Refreshers, Exchanged, At

(***************************************************************************)
(* The row keeps its id and its tokens, or is new and has none.            *)
(***************************************************************************)
LEMMA SameTokens ==
  ASSUME IInv, UNCHANGED <<issued, live, spoilt, gone>>, row' # NoRow,
         \/ /\ row # NoRow /\ row'.id = row.id
            /\ row'.access = row.access /\ row'.refresh = row.refresh
         \/ row = NoRow /\ row'.id = rows + 1 /\ row'.access = 0 /\ row'.refresh = 0,
         \A q \in Requests : \/ req'[q] = req[q]
                             \/ req[q].op = "connect" /\ req'[q].op = "none",
         Parts'
  PROVE  IInv'
<1>1. \A t : Grant(t)' = Grant(t)
  BY DEF Grant
<1>2. GrantsOf(row)' = IF row # NoRow THEN GrantsOf(row) ELSE {}
  BY <1>1, Tokens0 DEF IInv, GrantsOf
<1>3. /\ Refreshers' = Refreshers /\ Exchanged' = Exchanged /\ Bringing' = Bringing
      /\ \A q \in Refreshers \cup Exchanged \cup Bringing : req'[q] = req[q]
  BY DEF Refreshers, Exchanged, Bringing, At
<1>4. \A q \in Refreshers : row = NoRow => req[q].id # rows + 1
  BY DEF IInv, Parts, Carried, TypeOK
<1>5. Owned'
  BY <1>1, <1>2, <1>3, <1>4 DEF IInv, Owned
<1>6. Unstored'
  BY <1>1, <1>2, <1>3 DEF IInv, Unstored
<1>7. Successors'
  BY <1>1, <1>3 DEF IInv, Successors, Bringing
<1>8. TokenWorks'
  <2>1. CASE row # NoRow
    <3>1. row'.refresh = row.refresh
      BY <2>1
    <3>2. InHand(row.refresh) => InHand(row.refresh)'
      BY <1>3, <3>1 DEF InHand, At, Refreshers
    <3> QED
      BY <1>1, <2>1, <3>1, <3>2 DEF IInv, TokenWorks
  <2>2. CASE row = NoRow
    BY <2>2 DEF TokenWorks
  <2> QED
    BY <2>1, <2>2
<1>9. DisconnectIsFinal'
  BY <1>2 DEF IInv, DisconnectIsFinal
<1> QED
  BY <1>5, <1>6, <1>7, <1>8, <1>9 DEF IInv

LEMMA StoreCredentialsIInv ==
  ASSUME IInv, NEW q \in Requests, StoreCredentials(q)
  PROVE  IInv'
<1>0. req[q].op = "connect" /\ req[q].app \in Apps /\ Ends(q)
  BY DEF StoreCredentials, At, IInv, Parts, Carried
<1>1. /\ req' \in [Requests -> ReqType] /\ req'[q] = Idle
      /\ \A p \in Requests \ {q} : req'[p] = req[p]
      /\ \A p \in Requests : req'[p].id <= rows /\ req'[p].new <= Len(issued)
  BY <1>0, EndTypes DEF IInv
<1>2. UNCHANGED <<doomed, page, issued, live, spoilt, gone>>
  BY DEF StoreCredentials, spotify
<1>3. /\ row' \in Row /\ row'.id = rows' /\ rows \in 0..MaxRows /\ rows' \in rows..MaxRows
      /\ \/ /\ row # NoRow /\ rows' = rows /\ row'.id = row.id
            /\ row'.access = row.access /\ row'.refresh = row.refresh /\ row'.oauth = row.oauth
         \/ /\ row = NoRow /\ row'.id = rows + 1
            /\ row'.access = 0 /\ row'.refresh = 0 /\ row'.oauth = FALSE
  <2>1. CASE row # NoRow
    BY <1>0, <2>1, RowTyped DEF StoreCredentials, Row, IInv, Parts, TypeOK
  <2>2. CASE row = NoRow
    <3>1. row' = [NewRow EXCEPT !.app = req[q].app] /\ rows' = rows + 1 /\ rows < MaxRows
      BY <2>2 DEF StoreCredentials
    <3>2. rows \in 0..MaxRows /\ MaxRows \in Nat /\ MaxTokens \in Nat /\ rows + 1 \in 1..MaxRows
      BY <3>1, StreamingAssumption DEF StreamingAssumption, IInv, Parts, TypeOK
    <3>3. row' = [id |-> rows + 1, app |-> req[q].app, oauth |-> FALSE, access |-> 0, refresh |-> 0,
                  near |-> FALSE]
      BY <3>1 DEF NewRow
    <3>4. row' \in Row
      BY <1>0, <3>2, <3>3 DEF Row, Grants
    <3>5. /\ row'.id = rows + 1 /\ row'.access = 0 /\ row'.refresh = 0 /\ row'.oauth = FALSE
      BY <3>3
    <3> QED
      BY <2>2, <3>1, <3>2, <3>4, <3>5
  <2> QED
    BY <2>1, <2>2
<1>4. row' # NoRow
  BY <1>3 DEF Row, NoRow
<1>5. TypeOK'
  <2>1. row'.oauth = (row'.refresh # 0) /\ row'.oauth = (row'.access # 0)
    BY <1>3 DEF IInv, Parts, TypeOK
  <2>2. row'.refresh <= Len(issued)
    BY <1>3, Tokens0 DEF IInv, Parts, TypeOK
  <2>3. rows' \in 0..MaxRows /\ doomed' \in 0..rows'
    BY <1>2, <1>3 DEF IInv, Parts, TypeOK
  <2>4. \A p \in Requests : req'[p].id <= rows' /\ req'[p].new <= Len(issued)
    BY <1>1, <1>3 DEF ReqType
  <2> QED
    BY <1>1, <1>2, <1>3, <2>1, <2>2, <2>3, <2>4 DEF IInv, Parts, TypeOK, ReqType
<1>6. GrantsIssued'
  BY <1>2, <1>3, Tokens0 DEF IInv, Parts, GrantsIssued
<1>7. /\ Refreshers' = Refreshers /\ Exchanged' = Exchanged /\ Bringing' = Bringing
      /\ \A p \in Refreshers \cup Exchanged \cup Bringing : req'[p] = req[p]
  BY <1>0, <1>1 DEF Refreshers, Exchanged, Bringing, At, Idle
<1>8. \A t : Grant(t)' = Grant(t)
  BY <1>2 DEF Grant
<1>9. Carried'
  <2>1. ASSUME NEW p \in Requests
        PROVE  /\ req'[p].op \in {"connect", "exchange"} => req'[p].app \in Apps
               /\ req'[p].step # "answered" => req'[p].new = 0
    BY <1>1 DEF IInv, Parts, Carried, Idle
  <2>2. ASSUME NEW p \in Refreshers
        PROVE  /\ req'[p].id \in 1..rows'
               /\ req'[p].token \in 1..Len(issued')
               /\ row'.id = req'[p].id => row'.refresh # 0
    BY <1>2, <1>3, <1>7 DEF IInv, Parts, Carried
  <2> QED
    BY <1>7, <1>8, <2>1, <2>2 DEF IInv, Parts, Carried, Bringing
<1>10. Parts'
  BY <1>5, <1>6, <1>9 DEF Parts
<1>11. \A p \in Requests : \/ req'[p] = req[p]
                           \/ req[p].op = "connect" /\ req'[p].op = "none"
  <2>1. req'[q].op = "none"
    BY <1>1 DEF Idle
  <2> QED
    BY <1>0, <1>1, <2>1
<1> QED
  BY <1>2, <1>3, <1>4, <1>10, <1>11, SameTokens

LEMMA TimePassesIInv ==
  ASSUME IInv, TimePasses
  PROVE  IInv'
<1>1. UNCHANGED <<rows, req, doomed, page, issued, live, spoilt, gone>>
  BY DEF TimePasses, spotify
<1>2. /\ row # NoRow /\ row' \in Row /\ row'.id = row.id
      /\ row'.access = row.access /\ row'.refresh = row.refresh /\ row'.oauth = row.oauth
  BY RowTyped DEF TimePasses, Row, IInv
<1>3. row' # NoRow
  BY <1>2 DEF Row, NoRow
<1>4. TypeOK'
  BY <1>1, <1>2, <1>3 DEF IInv, Parts, TypeOK
<1>5. GrantsIssued'
  BY <1>1, <1>2 DEF IInv, Parts, GrantsIssued
<1>6. Carried'
  BY <1>1, <1>2 DEF IInv, Parts, Carried, Refreshers, Exchanged, Bringing, At, Grant
<1>7. Parts'
  BY <1>4, <1>5, <1>6 DEF Parts
<1>8. \A q \in Requests : req'[q] = req[q]
  BY <1>1
<1> QED
  BY <1>1, <1>2, <1>3, <1>7, <1>8, SameTokens

(***************************************************************************)
(* With the row go its grants; what is under way holds others.             *)
(***************************************************************************)
LEMMA DeleteIInv ==
  ASSUME IInv, DeleteConnection
  PROVE  IInv'
<1>0. UNCHANGED <<rows, req, page, issued, live, spoilt>> /\ doomed' = 0
  BY DEF DeleteConnection, spotify
<1>1. \A t : Grant(t)' = Grant(t)
  BY <1>0 DEF Grant
<1>2. /\ Refreshers' = Refreshers /\ Exchanged' = Exchanged /\ Bringing' = Bringing
  BY <1>0 DEF Refreshers, Exchanged, Bringing, At
<1>3. CASE row.id # doomed
  <2>1. UNCHANGED <<row, gone>>
    BY <1>3 DEF DeleteConnection
  <2>2. Parts'
    <3>1. TypeOK'
      BY <1>0, <2>1 DEF IInv, Parts, TypeOK
    <3> QED
      BY <1>0, <1>1, <1>2, <2>1, <3>1 DEF IInv, Parts, GrantsIssued, Carried
  <2>3. Refreshers' = Refreshers /\ Exchanged' = Exchanged /\ \A q \in Requests : req'[q] = req[q]
    BY <1>0, <1>2
  <2> QED
    BY <1>0, <2>1, <2>2, <2>3, FewerCarry DEF Refreshers, Exchanged
<1>4. CASE row.id = doomed
  <2>1. row' = NoRow /\ gone' = gone \cup GrantsOf(row) /\ row # NoRow /\ row \in Row
    BY <1>4, RowTyped DEF DeleteConnection, IInv
  <2>2. GrantsOf(row) \subseteq 1..Len(issued)
    <3>1. row.access \in Nat /\ row.access <= Len(issued)
      BY <2>1 DEF Row, Grants, IInv, Parts, GrantsIssued
    <3>2. row.refresh \in 0..Len(issued)
      BY <2>1, Tokens0 DEF Row, IInv, Parts, TypeOK
    <3> QED
      BY <3>1, <3>2, Tokens0 DEF GrantsOf, IInv
  <2>3. NoRow.id = 0
    BY DEF NoRow
  <2>4. TypeOK'
    <3>1. gone' \subseteq Tokens
      BY <2>1, <2>2, Tokens0 DEF IInv, Parts, TypeOK
    <3> QED
      BY <1>0, <2>1, <2>3, <3>1 DEF IInv, Parts, TypeOK
  <2>5. GrantsIssued'
    BY <1>0, <2>1, <2>2 DEF IInv, Parts, GrantsIssued
  <2>6. Carried'
    BY <1>0, <1>1, <1>2, <2>1, <2>3 DEF IInv, Parts, Carried
  <2>7. Owned'
    BY <1>0, <1>1, <1>2, <2>1 DEF IInv, Owned
  <2>8. Unstored'
    BY <1>0, <1>1, <1>2, <2>1 DEF IInv, Unstored
  <2>9. Successors'
    BY <1>0, <1>1, <1>2, <2>1 DEF IInv, Successors
  <2> QED
    BY <2>1, <2>4, <2>5, <2>6, <2>7, <2>8, <2>9 DEF IInv, Parts, TokenWorks, DisconnectIsFinal
<1> QED
  BY <1>3, <1>4

(***************************************************************************)
(* Whatever stops being accepted is of the grant that is withdrawn.        *)
(***************************************************************************)
LEMMA RevokeIInv ==
  ASSUME IInv, NEW g, Revoke(g)
  PROVE  IInv'
<1>0. /\ UNCHANGED <<row, rows, req, doomed, page, issued, gone>>
      /\ live' \subseteq live /\ spoilt \subseteq spoilt'
      /\ \A t \in live : t \in live' \/ Grant(t) \in spoilt'
  BY DEF Revoke
<1>1. \A t : Grant(t)' = Grant(t)
  BY <1>0 DEF Grant
<1>2. /\ Refreshers' = Refreshers /\ Exchanged' = Exchanged /\ Bringing' = Bringing
  BY <1>0 DEF Refreshers, Exchanged, Bringing, At
<1>3. Parts'
  <2>1. spoilt' \subseteq Tokens
    <3>1. g \in Tokens
      BY Tokens0 DEF Revoke, IInv
    <3> QED
      BY <3>1 DEF Revoke, IInv, Parts, TypeOK
  <2>2. TypeOK'
    BY <1>0, <2>1 DEF IInv, Parts, TypeOK
  <2> QED
    BY <1>0, <1>1, <1>2, <2>2 DEF IInv, Parts, GrantsIssued, Carried
<1>4. Owned'
  BY <1>0, <1>1, <1>2 DEF IInv, Owned, GrantsOf
<1>5. Unstored'
  <2>1. ASSUME NEW q \in Exchanged
        PROVE  req[q].new \in live' \/ req[q].new \in spoilt'
    <3>1. Grant(req[q].new) = req[q].new
      BY DEF IInv, Parts, Carried
    <3> QED
      BY <1>0, <3>1 DEF IInv, Unstored
  <2> QED
    BY <1>0, <1>1, <1>2, <2>1 DEF IInv, Unstored, GrantsOf
<1>6. Successors'
  BY <1>0, <1>1, <1>2 DEF IInv, Successors
<1>7. TokenWorks'
  <2> SUFFICES ASSUME row # NoRow, row.refresh # 0, Grant(row.refresh) \notin spoilt',
                      row.refresh \notin live'
               PROVE  InHand(row.refresh)'
    BY <1>0, <1>1 DEF TokenWorks
  <2>1. row.refresh \notin live /\ Grant(row.refresh) \notin spoilt
    BY <1>0
  <2>2. PICK q \in Requests : /\ At(q, "refresh", "answered") /\ req[q].token = row.refresh
                             /\ req[q].new \in live
    BY <2>1 DEF IInv, TokenWorks, InHand
  <2>3. req[q].new # 0
    BY <2>2, Tokens0 DEF IInv, Parts, TypeOK
  <2>4. Grant(req[q].new) = Grant(row.refresh)
    BY <2>2, <2>3 DEF IInv, Parts, Carried, Bringing, Refreshers, At
  <2>5. req[q].new \in live'
    BY <1>0, <2>2, <2>4
  <2> QED
    BY <1>0, <2>2, <2>5 DEF InHand, At
<1>8. DisconnectIsFinal'
  BY <1>0, <1>1 DEF IInv, DisconnectIsFinal, GrantsOf
<1> QED
  BY <1>3, <1>4, <1>5, <1>6, <1>7, <1>8 DEF IInv

(***************************************************************************)
(* AskForToken takes the token of the row.                                 *)
(***************************************************************************)
LEMMA AskIInv ==
  ASSUME IInv, NEW q \in Requests, AskForToken(q)
  PROVE  IInv'
<1>0. /\ req[q] = Idle /\ row # NoRow /\ row.refresh # 0
      /\ req' = [req EXCEPT ![q] = Asking("refresh", AppOf(row), NoApp, row.id, row.refresh)]
      /\ UNCHANGED <<row, rows, doomed, page, issued, live, spoilt, gone>>
  BY DEF AskForToken, spotify
<1>1. row \in Row /\ row.id = rows /\ rows \in 1..MaxRows /\ row.refresh \in 1..Len(issued)
  BY <1>0, RowTyped, Tokens0 DEF Row, IInv, Parts, TypeOK
<1>2. /\ req'[q].op = "refresh" /\ req'[q].step = "asked" /\ req'[q].id = rows
      /\ req'[q].token = row.refresh /\ req'[q].new = 0
      /\ \A p \in Requests \ {q} : req'[p] = req[p]
  BY <1>0, <1>1 DEF Asking, IInv, Parts, TypeOK
<1>3. \A t : Grant(t)' = Grant(t)
  BY <1>0 DEF Grant
<1>4. /\ Refreshers' = Refreshers \cup {q} /\ q \notin Refreshers
      /\ Exchanged' = Exchanged /\ q \notin Exchanged
      /\ Bringing' = Bringing /\ q \notin Bringing
  BY <1>0, <1>2 DEF Refreshers, Exchanged, Bringing, At, Idle
<1>5. TypeOK'
  <2>1. Asking("refresh", AppOf(row), NoApp, row.id, row.refresh) \in ReqType
    <3>1. AppOf(row) \in Apps
      BY <1>1, StreamingAssumption DEF AppOf, Row, StreamingAssumption
    <3>2. row.refresh \in 0..MaxTokens /\ row.id \in 0..MaxRows /\ 0 \in 0..MaxTokens
      BY <1>1, Tokens0 DEF IInv, Row
    <3> QED
      BY <3>1, <3>2 DEF Asking, ReqType, Ops, Steps
  <2>2. req' \in [Requests -> ReqType]
    BY <1>0, <2>1 DEF IInv, Parts, TypeOK, ReqType
  <2>3. ASSUME NEW p \in Requests
        PROVE  req'[p].id <= rows' /\ req'[p].new <= Len(issued)
    <3>1. CASE p = q
      BY <1>0, <1>1, <1>2, <3>1, Tokens0 DEF IInv
    <3>2. CASE p # q
      BY <1>0, <1>2, <3>2 DEF IInv, Parts, TypeOK
    <3> QED
      BY <3>1, <3>2
  <2> QED
    BY <1>0, <2>2, <2>3 DEF IInv, Parts, TypeOK, ReqType
<1>6. Carried'
  <2>1. ASSUME NEW p \in Requests
        PROVE  /\ req'[p].op \in {"connect", "exchange"} => req'[p].app \in Apps
               /\ req'[p].step # "answered" => req'[p].new = 0
    BY <1>2 DEF IInv, Parts, Carried
  <2>2. ASSUME NEW p \in Refreshers'
        PROVE  /\ req'[p].id \in 1..rows'
               /\ req'[p].token \in 1..Len(issued')
               /\ row'.id = req'[p].id => row'.refresh # 0
    BY <1>0, <1>1, <1>2, <1>4 DEF IInv, Parts, Carried, Refreshers
  <2>3. /\ \A p \in Bringing : Grant(req'[p].new) = Grant(req'[p].token)
        /\ \A p \in Exchanged : req'[p].new # 0 /\ Grant(req'[p].new) = req'[p].new
    BY <1>2, <1>4 DEF IInv, Parts, Carried, Bringing, Refreshers, Exchanged
  <2> QED
    BY <1>3, <1>4, <2>1, <2>2, <2>3 DEF Carried
<1>7. GrantsIssued'
  BY <1>0 DEF IInv, Parts, GrantsIssued
<1>8. GrantsOf(row)' = GrantsOf(row) /\ Grant(row.refresh) \in GrantsOf(row)
      /\ Grant(row.refresh) \notin gone
  BY <1>0, <1>1, <1>3, Tokens0 DEF GrantsOf, IInv, DisconnectIsFinal
<1>9. Owned'
  <2>1. ASSUME NEW p \in Refreshers'
        PROVE  IF req'[p].id = row.id THEN Grant(req'[p].token) \notin gone
               ELSE Grant(req'[p].token) \notin GrantsOf(row)
    BY <1>0, <1>1, <1>2, <1>4, <1>8 DEF IInv, Owned, Refreshers
  <2>2. ASSUME NEW p \in Refreshers
        PROVE  req'[p].id # rows => Grant(req'[p].token) # Grant(row.refresh)
    BY <1>0, <1>1, <1>2, <1>4, <1>8 DEF IInv, Owned, Refreshers
  <2>3. ASSUME NEW p \in Refreshers', NEW r \in Refreshers', req'[p].id # req'[r].id
        PROVE  Grant(req'[p].token) # Grant(req'[r].token)
    <3>1. CASE p = q \/ r = q
      BY <1>2, <1>4, <2>2, <2>3, <3>1
    <3>2. CASE p # q /\ r # q
      BY <1>2, <1>4, <2>3, <3>2 DEF IInv, Owned, Refreshers
    <3> QED
      BY <3>1, <3>2
  <2> QED
    BY <1>0, <1>3, <1>8, <2>1, <2>3 DEF Owned
<1>10. Unstored'
  <2>1. ASSUME NEW x \in Exchanged
        PROVE  /\ req'[x] = req[x]
               /\ \A p \in Refreshers' : Grant(req'[p].token) # req[x].new
               /\ \A p \in Exchanged : p # x => req'[p].new # req[x].new
    BY <1>0, <1>2, <1>4, <1>8 DEF IInv, Unstored, Refreshers, Exchanged
  <2> QED
    BY <1>0, <1>3, <1>4, <1>8, <2>1 DEF IInv, Unstored
<1>11. Successors'
  <2>1. ASSUME NEW x \in Bringing
        PROVE  /\ req'[x] = req[x]
               /\ \A p \in Refreshers' : req'[p].token # req[x].new
               /\ \A p \in Bringing : p # x => req'[p].new # req[x].new
    BY <1>0, <1>2, <1>4 DEF IInv, Successors, Refreshers, Bringing
  <2> QED
    BY <1>0, <1>3, <1>4, <2>1 DEF IInv, Successors
<1>12. TokenWorks'
  <2>1. InHand(row.refresh) => InHand(row.refresh)'
    BY <1>0, <1>2 DEF InHand, At, Idle
  <2> QED
    BY <1>0, <1>3, <2>1 DEF IInv, TokenWorks
<1>13. DisconnectIsFinal'
  BY <1>0, <1>8 DEF IInv, DisconnectIsFinal
<1> QED
  BY <1>5, <1>6, <1>7, <1>9, <1>10, <1>11, <1>12, <1>13 DEF IInv, Parts

(***************************************************************************)
(* A new token n leaves the grants of the others.                          *)
(***************************************************************************)
LEMMA IssueTokens ==
  ASSUME IInv, NEW n, n = Len(issued) + 1, n <= MaxTokens,
         NEW r \in [grant : Tokens, app : Apps], issued' = Append(issued, r)
  PROVE  /\ issued' \in Seq([grant : Tokens, app : Apps])
         /\ n \in 1..MaxTokens /\ Len(issued') = n
         /\ 1..Len(issued') = 1..Len(issued) \cup {n} /\ n \notin 1..Len(issued) /\ n # 0
         /\ \A t \in 0..Len(issued) : Grant(t)' = Grant(t)
         /\ \A t \in 1..Len(issued) : issued'[t] = issued[t]
         /\ issued'[n] = r /\ Grant(n)' = r.grant
<1>1. issued \in Seq([grant : Tokens, app : Apps]) /\ Len(issued) \in Nat /\ MaxTokens \in Nat
  BY Tokens0 DEF IInv, Parts, TypeOK
<1>2. n \in Nat /\ n # 0 /\ n \in 1..MaxTokens /\ n \notin 1..Len(issued)
  BY <1>1
<1>3. /\ issued' \in Seq([grant : Tokens, app : Apps])
      /\ Len(issued') = n
      /\ \A t \in 1..Len(issued) : issued'[t] = issued[t]
      /\ issued'[n] = r
  BY <1>1, AppendProperties
<1>4. 1..n = 1..Len(issued) \cup {n}
  BY <1>1
<1>5. \A t \in 0..Len(issued) : Grant(t)' = Grant(t)
  BY <1>1, <1>3 DEF Grant
<1>6. Grant(n)' = r.grant
  BY <1>2, <1>3 DEF Grant
<1> QED
  BY <1>2, <1>3, <1>4, <1>5, <1>6

(***************************************************************************)
(* The tokens that are stored or in hand are among those issued.           *)
(***************************************************************************)
LEMMA KnownTokens ==
  ASSUME IInv
  PROVE  /\ \A p \in Refreshers : req[p].token \in 1..Len(issued)
         /\ \A p \in Exchanged \cup Bringing : req[p].new \in 1..Len(issued)
         /\ \A t \in 0..Len(issued) : Grant(t) \in 0..Len(issued)
         /\ row # NoRow => /\ row.refresh \in 0..Len(issued)
                           /\ row.access \in 0..Len(issued)
                           /\ GrantsOf(row) \subseteq 1..Len(issued)
<1>1. \A p \in Refreshers : req[p].token \in 1..Len(issued)
  BY DEF IInv, Parts, Carried
<1>2. \A p \in Exchanged \cup Bringing : req[p].new \in 1..Len(issued)
  BY Tokens0 DEF IInv, Parts, Carried, TypeOK, Exchanged, Bringing, Refreshers
<1>3. ASSUME NEW t \in 0..Len(issued)
      PROVE  Grant(t) \in 0..Len(issued)
  <2>1. CASE t = 0
    BY <2>1, Tokens0 DEF IInv
  <2>2. CASE t # 0
    <3>1. t \in 1..Len(issued)
      BY <2>2, Tokens0 DEF IInv
    <3>2. Grant(t) \in 1..Len(issued)
      BY <3>1, Tokens0 DEF IInv
    <3> QED
      BY <3>2, Tokens0 DEF IInv
  <2> QED
    BY <2>1, <2>2
<1>4. ASSUME row # NoRow
      PROVE  /\ row.refresh \in 0..Len(issued)
             /\ row.access \in 0..Len(issued)
  <2>1. row \in Row /\ row.refresh <= Len(issued) /\ row.access <= Len(issued)
    BY <1>4, RowTyped DEF IInv, Parts, TypeOK, GrantsIssued
  <2> QED
    BY <2>1, Tokens0 DEF IInv, Row, Grants
<1>5. ASSUME row # NoRow
      PROVE  GrantsOf(row) \subseteq 1..Len(issued)
  <2>1. Grant(row.refresh) \in 0..Len(issued) /\ row.access \in 0..Len(issued)
    BY <1>3, <1>4, <1>5
  <2> QED
    BY <2>1, Tokens0 DEF IInv, GrantsOf
<1>6. row # NoRow => /\ row.refresh \in 0..Len(issued)
                     /\ row.access \in 0..Len(issued)
                     /\ GrantsOf(row) \subseteq 1..Len(issued)
  BY <1>4, <1>5
<1> QED
  BY <1>1, <1>2, <1>3, <1>6

Answered(q, n) == req' = [req EXCEPT ![q].step = "answered", ![q].new = n]

(***************************************************************************)
(* The types when a request has an answer.                                 *)
(***************************************************************************)
LEMMA AnswerTypes ==
  ASSUME IInv, NEW q \in Requests, NEW n \in 0..MaxTokens, Answered(q, n)
  PROVE  /\ req' \in [Requests -> ReqType]
         /\ \A p \in Requests \ {q} : req'[p] = req[p]
         /\ req'[q].op = req[q].op /\ req'[q].step = "answered" /\ req'[q].new = n
         /\ req'[q].id = req[q].id /\ req'[q].token = req[q].token /\ req'[q].app = req[q].app
<1>1. req \in [Requests -> ReqType]
  BY DEF IInv, Parts, TypeOK, ReqType
<1>2. /\ \A p \in Requests \ {q} : req'[p] = req[p]
      /\ req'[q].op = req[q].op /\ req'[q].step = "answered" /\ req'[q].new = n
      /\ req'[q].id = req[q].id /\ req'[q].token = req[q].token /\ req'[q].app = req[q].app
  BY <1>1 DEF ReqType, Answered
<1>3. [[req[q] EXCEPT !.step = "answered"] EXCEPT !.new = n] \in ReqType
  BY <1>1 DEF ReqType, Steps
<1>4. req' = [req EXCEPT ![q] = [[req[q] EXCEPT !.step = "answered"] EXCEPT !.new = n]]
  BY <1>1 DEF Answered
<1>5. req' \in [Requests -> ReqType]
  BY <1>1, <1>3, <1>4
<1> QED
  BY <1>2, <1>5

(***************************************************************************)
(* The types, and whose the grants are, when Spotify has issued token n in *)
(* answer to request q.                                                    *)
(***************************************************************************)
LEMMA IssueParts ==
  ASSUME IInv, NEW q \in Requests, NEW n, n = Len(issued) + 1, n <= MaxTokens,
         req[q].step = "asked", req[q].op \in {"exchange", "refresh"},
         NEW r \in [grant : 1..n, app : Apps], issued' = Append(issued, r),
         live' \subseteq live \cup {n},
         Answered(q, n),
         req[q].op = "exchange" => r.grant = n,
         req[q].op = "refresh" => r.grant = Grant(req[q].token),
         UNCHANGED <<row, rows, doomed, page, spoilt, gone>>
  PROVE  /\ Parts' /\ Owned' /\ DisconnectIsFinal'
         /\ Refreshers' = Refreshers
         /\ \A p \in Refreshers : /\ req'[p].token = req[p].token
                                  /\ Grant(req[p].token) \in 1..Len(issued)
         /\ \A t \in 0..Len(issued) : Grant(t)' = Grant(t)
         /\ \A p \in Requests \ {q} : req'[p] = req[p]
         /\ req'[q].op = req[q].op /\ req'[q].step = "answered" /\ req'[q].new = n
         /\ n \notin 1..Len(issued) /\ Grant(n)' = r.grant
         /\ row # NoRow => /\ GrantsOf(row)' = GrantsOf(row)
                           /\ Grant(row.refresh)' = Grant(row.refresh)
<1>0. Len(issued) \in Nat /\ MaxTokens \in Nat /\ n \in 1..MaxTokens /\ r \in [grant : Tokens, app : Apps]
  BY Tokens0 DEF IInv, Tokens
<1>1. /\ issued' \in Seq([grant : Tokens, app : Apps])
      /\ Len(issued') = n
      /\ 1..Len(issued') = 1..Len(issued) \cup {n} /\ n \notin 1..Len(issued) /\ n # 0
      /\ \A t \in 0..Len(issued) : Grant(t)' = Grant(t)
      /\ \A t \in 1..Len(issued) : issued'[t] = issued[t]
      /\ issued'[n] = r /\ Grant(n)' = r.grant
  BY <1>0, IssueTokens
<1>2. n \in 0..MaxTokens
  BY <1>0
<1>3. /\ req' \in [Requests -> ReqType]
      /\ \A p \in Requests \ {q} : req'[p] = req[p]
      /\ req'[q].op = req[q].op /\ req'[q].step = "answered" /\ req'[q].new = n
      /\ req'[q].id = req[q].id /\ req'[q].token = req[q].token /\ req'[q].app = req[q].app
  BY <1>2, AnswerTypes
<1>4. /\ Refreshers' = Refreshers
      /\ \A p \in Refreshers : /\ req'[p].id = req[p].id /\ req'[p].token = req[p].token
                               /\ Grant(req[p].token) \in 1..Len(issued)
                               /\ Grant(req[p].token)' = Grant(req[p].token)
  <2>1. Refreshers' = Refreshers
    BY <1>3 DEF Refreshers
  <2>2. ASSUME NEW p \in Refreshers
        PROVE  req'[p].id = req[p].id /\ req'[p].token = req[p].token
    <3>1. CASE p = q
      BY <1>3, <3>1
    <3>2. CASE p # q
      BY <1>3, <3>2 DEF Refreshers
    <3> QED
      BY <3>1, <3>2
  <2>3. ASSUME NEW p \in Refreshers
        PROVE  Grant(req[p].token) \in 1..Len(issued) /\ Grant(req[p].token)' = Grant(req[p].token)
    <3>1. req[p].token \in 1..Len(issued) /\ req[p].token \in 0..Len(issued)
      BY <1>0, KnownTokens
    <3>2. Grant(req[p].token) \in 1..Len(issued)
      BY <3>1, Tokens0 DEF IInv
    <3>3. req'[p].token \in 0..Len(issued) /\ req'[p].token = req[p].token
      BY <2>2, <3>1
    <3> QED
      BY <1>1, <3>2, <3>3
  <2> QED
    BY <2>1, <2>2, <2>3
<1>5. row # NoRow => /\ GrantsOf(row)' = GrantsOf(row)
                     /\ Grant(row.refresh)' = Grant(row.refresh)
                     /\ row.refresh \in 0..Len(issued) /\ row.access \in 0..Len(issued)
  <2> SUFFICES ASSUME row # NoRow
               PROVE  /\ GrantsOf(row)' = GrantsOf(row)
                      /\ Grant(row.refresh)' = Grant(row.refresh)
                      /\ row.refresh \in 0..Len(issued) /\ row.access \in 0..Len(issued)
    OBVIOUS
  <2>1. row.refresh \in 0..Len(issued) /\ row.access \in 0..Len(issued)
    BY KnownTokens
  <2>2. Grant(row.refresh)' = Grant(row.refresh)
    BY <1>1, <2>1
  <2> QED
    BY <2>1, <2>2 DEF GrantsOf
<1>6. TypeOK'
  <2>1. live' \subseteq 1..Len(issued') /\ Len(issued') <= MaxTokens
    BY <1>0, <1>1, Tokens0 DEF IInv
  <2>2. row # NoRow => row.refresh <= Len(issued')
    BY <1>0, <1>1, <1>5
  <2>3. \A p \in Requests : req'[p].id <= rows /\ req'[p].new <= Len(issued')
    <3>1. \A p \in Requests : /\ req[p].id <= rows /\ req[p].new <= Len(issued)
                              /\ req[p].new \in Nat
      BY Tokens0 DEF IInv, Parts, TypeOK
    <3>2. ASSUME NEW p \in Requests
          PROVE  req'[p].id <= rows /\ req'[p].new <= Len(issued')
      <4>1. CASE p = q
        BY <1>0, <1>1, <1>3, <3>1, <4>1
      <4>2. CASE p # q
        BY <1>0, <1>1, <1>3, <3>1, <4>2
      <4> QED
        BY <4>1, <4>2
    <3> QED
      BY <3>2
  <2> QED
    BY <1>1, <1>3, <2>1, <2>2, <2>3 DEF IInv, Parts, TypeOK, ReqType
<1>7. GrantsIssued'
  <2>1. ASSUME NEW t \in 1..Len(issued')
        PROVE  issued'[t].grant <= Len(issued')
    <3>1. CASE t = n
      BY <1>0, <1>1, <3>1
    <3>2. CASE t # n
      <4>1. t \in 1..Len(issued) /\ issued'[t] = issued[t]
        BY <1>1, <3>2
      <4>2. issued[t].grant \in Nat /\ issued[t].grant <= Len(issued)
        BY <4>1, Tokens0 DEF IInv, Parts, GrantsIssued, Tokens
      <4> QED
        BY <1>0, <1>1, <4>1, <4>2
    <3> QED
      BY <3>1, <3>2
  <2>2. row # NoRow => row.access <= Len(issued')
    BY <1>0, <1>1, <1>5
  <2> QED
    BY <1>1, <2>1, <2>2 DEF IInv, Parts, GrantsIssued
<1>8. Carried'
  <2>1. ASSUME NEW p \in Requests
        PROVE  /\ req'[p].op \in {"connect", "exchange"} => req'[p].app \in Apps
               /\ req'[p].step # "answered" => req'[p].new = 0
    <3>1. CASE p = q
      BY <1>3, <3>1 DEF IInv, Parts, Carried
    <3>2. CASE p # q
      BY <1>3, <3>2 DEF IInv, Parts, Carried
    <3> QED
      BY <3>1, <3>2
  <2>2. ASSUME NEW p \in Refreshers
        PROVE  /\ req'[p].id \in 1..rows' /\ req'[p].token \in 1..Len(issued')
               /\ row'.id = req'[p].id => row'.refresh # 0
    BY <1>1, <1>4 DEF IInv, Parts, Carried
  <2>3. ASSUME NEW p \in Bringing'
        PROVE  Grant(req[p].new)' = Grant(req[p].token)'
    <3>1. p \in Refreshers /\ req'[p].new # 0
      BY <1>4, <2>3 DEF Bringing
    <3>2. CASE p = q
      <4>1. req[q].op = "refresh" /\ r.grant = Grant(req[q].token)
        BY <3>1, <3>2 DEF Refreshers
      <4>2. Grant(req[p].new)' = r.grant
        BY <1>1, <1>3, <3>2
      <4>3. Grant(req[p].token)' = Grant(req[q].token)
        BY <1>4, <3>1, <3>2
      <4> QED
        BY <4>1, <4>2, <4>3
    <3>3. CASE p # q
      <4>1. p \in Bringing /\ req'[p] = req[p]
        BY <1>3, <3>1, <3>3 DEF Bringing, Refreshers
      <4>2. req[p].new \in 0..Len(issued) /\ Grant(req[p].new) = Grant(req[p].token)
        <5>1. req[p].new \in 1..Len(issued)
          BY <4>1, KnownTokens
        <5>2. Grant(req[p].new) = Grant(req[p].token)
          BY <4>1 DEF IInv, Parts, Carried
        <5> QED
          BY <1>0, <5>1, <5>2
      <4>3. Grant(req[p].new)' = Grant(req[p].new)
        BY <1>1, <4>1, <4>2
      <4>4. Grant(req[p].token)' = Grant(req[p].token)
        BY <1>4, <3>1
      <4> QED
        BY <4>2, <4>3, <4>4
    <3> QED
      BY <3>2, <3>3
  <2>4. ASSUME NEW p \in Exchanged'
        PROVE  req'[p].new # 0 /\ Grant(req[p].new)' = req'[p].new
    <3>1. CASE p = q
      <4>1. r.grant = n
        BY <1>3, <2>4, <3>1 DEF Exchanged, At
      <4>2. req'[p].new = n /\ n # 0
        BY <1>1, <1>3, <3>1
      <4>3. Grant(req[p].new)' = n
        BY <1>1, <4>1, <4>2
      <4> QED
        BY <4>2, <4>3
    <3>2. CASE p # q
      <4>1. p \in Exchanged /\ req'[p] = req[p]
        BY <1>3, <2>4, <3>2 DEF Exchanged, At
      <4>2. /\ req[p].new \in 0..Len(issued) /\ Grant(req[p].new) = req[p].new
            /\ req[p].new # 0
        <5>1. req[p].new \in 1..Len(issued)
          BY <4>1, KnownTokens
        <5>2. Grant(req[p].new) = req[p].new
          BY <4>1 DEF IInv, Parts, Carried
        <5> QED
          BY <1>0, <5>1, <5>2
      <4> QED
        BY <1>1, <4>1, <4>2
    <3> QED
      BY <3>1, <3>2
  <2> QED
    BY <1>4, <2>1, <2>2, <2>3, <2>4 DEF Carried
<1>9. Owned'
  <2>1. ASSUME NEW p \in Refreshers, row # NoRow
        PROVE  IF req'[p].id = row'.id THEN Grant(req[p].token)' \notin gone'
               ELSE Grant(req[p].token)' \notin GrantsOf(row)'
    <3>1. req'[p].id = req[p].id /\ Grant(req[p].token)' = Grant(req[p].token)
      BY <1>4
    <3>2. GrantsOf(row)' = GrantsOf(row) /\ row' = row /\ gone' = gone
      BY <1>5, <2>1
    <3> QED
      BY <2>1, <3>1, <3>2 DEF IInv, Owned
  <2>2. ASSUME NEW p \in Refreshers, NEW x \in Refreshers, req'[p].id # req'[x].id
        PROVE  Grant(req[p].token)' # Grant(req[x].token)'
    <3>1. req'[p].id = req[p].id /\ Grant(req[p].token)' = Grant(req[p].token)
      BY <1>4
    <3>2. req'[x].id = req[x].id /\ Grant(req[x].token)' = Grant(req[x].token)
      BY <1>4
    <3>3. req[p].id # req[x].id => Grant(req[p].token) # Grant(req[x].token)
      BY DEF IInv, Owned
    <3> QED
      BY <2>2, <3>1, <3>2, <3>3
  <2> QED
    BY <1>4, <2>1, <2>2 DEF Owned
<1>10. DisconnectIsFinal'
  BY <1>5 DEF IInv, DisconnectIsFinal
<1>11. Parts'
  BY <1>6, <1>7, <1>8 DEF Parts
<1>12. \A p \in Refreshers : req'[p].token = req[p].token /\ Grant(req[p].token) \in 1..Len(issued)
  BY <1>4
<1>13. n \notin 1..Len(issued) /\ Grant(n)' = r.grant
  BY <1>1
<1>14. /\ \A p \in Requests \ {q} : req'[p] = req[p]
       /\ req'[q].op = req[q].op /\ req'[q].step = "answered" /\ req'[q].new = n
  BY <1>3
<1>15. Refreshers' = Refreshers
  BY <1>4
<1>16. \A t \in 0..Len(issued) : Grant(t)' = Grant(t)
  BY <1>1
<1>17. row # NoRow => GrantsOf(row)' = GrantsOf(row) /\ Grant(row.refresh)' = Grant(row.refresh)
  BY <1>5
<1> QED
  BY <1>9, <1>10, <1>11, <1>12, <1>13, <1>14, <1>15, <1>16, <1>17

LEMMA ExchangeIInv ==
  ASSUME IInv, NEW q \in Requests, SpotifyExchanges(q)
  PROVE  IInv'
<1>0. PICK n : n = Len(issued) + 1
  OBVIOUS
<1>1. /\ req[q].op = "exchange" /\ req[q].step = "asked" /\ req[q].app \in Apps
      /\ n <= MaxTokens
      /\ issued' = Append(issued, [grant |-> n, app |-> req[q].app])
      /\ live' = live \cup {n}
      /\ Answered(q, n)
      /\ UNCHANGED <<row, rows, doomed, page, spoilt, gone>>
  BY <1>0 DEF SpotifyExchanges, Answered, At, IInv, Parts, Carried
<1>2. PICK r \in [grant : 1..n, app : Apps] : r.grant = n /\ issued' = Append(issued, r)
  <2>1. [grant |-> n, app |-> req[q].app] \in [grant : 1..n, app : Apps]
    BY <1>0, <1>1, Tokens0 DEF IInv
  <2> QED
    BY <1>1, <2>1
<1>3. /\ Parts' /\ Owned' /\ DisconnectIsFinal'
      /\ Refreshers' = Refreshers
      /\ \A p \in Refreshers : /\ req'[p].token = req[p].token
                               /\ Grant(req[p].token) \in 1..Len(issued)
      /\ \A t \in 0..Len(issued) : Grant(t)' = Grant(t)
      /\ \A p \in Requests \ {q} : req'[p] = req[p]
      /\ req'[q].op = req[q].op /\ req'[q].step = "answered" /\ req'[q].new = n
      /\ n \notin 1..Len(issued) /\ Grant(n)' = n
      /\ row # NoRow => /\ GrantsOf(row)' = GrantsOf(row)
                        /\ Grant(row.refresh)' = Grant(row.refresh)
  <2>1. /\ req[q].op \in {"exchange", "refresh"}
        /\ req[q].op = "exchange" => r.grant = n
        /\ req[q].op = "refresh" => r.grant = Grant(req[q].token)
        /\ live' \subseteq live \cup {n}
    BY <1>1, <1>2
  <2> QED
    BY <1>0, <1>1, <1>2, <2>1, IssueParts
<1>4. /\ Exchanged' = Exchanged \cup {q} /\ q \notin Exchanged
      /\ Bringing' = Bringing /\ q \notin Refreshers
      /\ \A p \in Refreshers \cup Exchanged \cup Bringing : req'[p] = req[p]
  <2>1. q \notin Refreshers /\ q \notin Exchanged /\ q \notin Bringing
    BY <1>1 DEF Refreshers, Exchanged, Bringing, At
  <2>2. Exchanged' = Exchanged \cup {q}
    BY <1>1, <1>3 DEF Exchanged, At
  <2>3. \A p \in Refreshers \cup Exchanged \cup Bringing : req'[p] = req[p]
    BY <1>3, <2>1 DEF Refreshers, Exchanged, Bringing
  <2>4. Bringing' = Bringing
    BY <1>3, <2>3 DEF Bringing
  <2> QED
    BY <2>1, <2>2, <2>3, <2>4
<1>5. \A p \in Refreshers : Grant(req[p].token)' = Grant(req[p].token) /\ Grant(req[p].token) # n
  <2>1. \A p \in Refreshers : req'[p].token \in 0..Len(issued)
    BY <1>3, KnownTokens, Tokens0 DEF IInv
  <2> QED
    BY <1>3, <2>1
<1>6. \A p \in Exchanged \cup Bringing :
        /\ req[p].new \in 1..Len(issued) /\ req[p].new # n
        /\ Grant(req[p].new)' = Grant(req[p].new)
  <2>1. \A p \in Exchanged \cup Bringing : req[p].new \in 1..Len(issued)
    BY KnownTokens
  <2>2. \A p \in Exchanged \cup Bringing : req'[p].new \in 0..Len(issued)
    BY <1>4, <2>1, Tokens0 DEF IInv
  <2> QED
    BY <1>3, <1>4, <2>1, <2>2
<1>7. row # NoRow => row.refresh # n /\ n \notin GrantsOf(row)
  BY <1>3, KnownTokens, <1>0, Tokens0 DEF IInv
<1>8. Unstored'
  <2>1. ASSUME NEW x \in Exchanged
        PROVE  /\ req[x].new \in live' \/ req[x].new \in spoilt
               /\ req[x].new \notin gone
               /\ row # NoRow => req[x].new \notin GrantsOf(row)
               /\ \A p \in Refreshers : Grant(req[p].token) # req[x].new
               /\ \A p \in Exchanged : p # x => req[p].new # req[x].new
    BY <1>1 DEF IInv, Unstored
  <2>2. n \in live' /\ n \notin gone
    BY <1>1, <1>3 DEF IInv, Parts, GrantsIssued
  <2>3. ASSUME NEW x \in Exchanged'
        PROVE  /\ req'[x].new \in live' \/ req'[x].new \in spoilt
               /\ req'[x].new \notin gone
               /\ row # NoRow => req'[x].new \notin GrantsOf(row)
               /\ \A p \in Refreshers : Grant(req[p].token) # req'[x].new
               /\ \A p \in Exchanged' : p # x => req'[p].new # req'[x].new
    <3>1. CASE x = q
      <4>1. ASSUME NEW p \in Exchanged', p # x
            PROVE  req'[p].new # req'[x].new
        BY <1>3, <1>4, <1>6, <3>1, <4>1
      <4> QED
        BY <1>3, <1>5, <1>7, <2>2, <3>1, <4>1
    <3>2. CASE x # q
      <4>1. x \in Exchanged /\ req'[x] = req[x]
        BY <1>4, <3>2
      <4>2. ASSUME NEW p \in Exchanged', p # x
            PROVE  req'[p].new # req'[x].new
        <5>1. CASE p = q
          BY <1>3, <1>6, <4>1, <5>1
        <5>2. CASE p # q
          <6>1. p \in Exchanged /\ req'[p] = req[p]
            BY <1>4, <5>2
          <6> QED
            BY <2>1, <4>1, <4>2, <6>1
        <5> QED
          BY <5>1, <5>2
      <4> QED
        BY <2>1, <4>1, <4>2
    <3> QED
      BY <3>1, <3>2
  <2>4. row' = row /\ spoilt' = spoilt /\ gone' = gone
    BY <1>1
  <2> QED
    BY <1>3, <1>5, <2>3, <2>4 DEF Unstored
<1>9. Successors'
  <2>1. ASSUME NEW x \in Bringing
        PROVE  /\ req[x].new \in live' \/ Grant(req[x].new)' \in spoilt
               /\ row # NoRow => row.refresh # req[x].new
               /\ \A p \in Refreshers : req[p].token # req[x].new
               /\ \A p \in Bringing : p # x => req[p].new # req[x].new
    <3>1. Grant(req[x].new)' = Grant(req[x].new)
      BY <1>6
    <3>2. live \subseteq live'
      BY <1>1
    <3> QED
      BY <3>1, <3>2 DEF IInv, Successors
  <2>2. row' = row /\ spoilt' = spoilt
    BY <1>1
  <2> QED
    BY <1>3, <1>4, <2>1, <2>2 DEF Successors
<1>10. TokenWorks'
  <2>1. InHand(row.refresh) => InHand(row.refresh)'
    <3>1. ASSUME NEW p \in Requests, At(p, "refresh", "answered")
          PROVE  req'[p] = req[p] /\ At(p, "refresh", "answered")'
      BY <1>1, <1>3, <3>1 DEF At
    <3>2. live \subseteq live' /\ row' = row
      BY <1>1
    <3> QED
      BY <3>1, <3>2 DEF InHand
  <2> QED
    BY <1>1, <1>3, <2>1 DEF IInv, TokenWorks
<1> QED
  BY <1>3, <1>8, <1>9, <1>10 DEF IInv

(***************************************************************************)
(* Spotify answers without a new token: only a step goes on.               *)
(***************************************************************************)
LEMMA AnswerIInv ==
  ASSUME IInv, NEW q \in Requests, At(q, "refresh", "asked"),
         req' = [req EXCEPT ![q].step = "answered"],
         UNCHANGED <<row, rows, doomed, page, issued, live, spoilt, gone>>
  PROVE  IInv'
<1>1. req \in [Requests -> ReqType] /\ req[q].new = 0 /\ req[q].op = "refresh"
  BY DEF IInv, Parts, TypeOK, Carried, ReqType, At
<1>2. /\ \A p \in Requests : /\ req'[p].op = req[p].op /\ req'[p].id = req[p].id
                             /\ req'[p].token = req[p].token /\ req'[p].new = req[p].new
                             /\ req'[p].app = req[p].app
      /\ \A p \in Requests \ {q} : req'[p] = req[p]
      /\ req'[q].step = "answered"
  BY <1>1 DEF ReqType
<1>3. req' \in [Requests -> ReqType]
  BY <1>1 DEF ReqType, Steps
<1>4. Refreshers' = Refreshers /\ Exchanged' = Exchanged /\ Bringing' = Bringing
  BY <1>1, <1>2 DEF Refreshers, Exchanged, Bringing, At
<1>5. /\ \A p \in Refreshers : Grant(req[p].token)' = Grant(req[p].token)
      /\ \A p \in Exchanged \cup Bringing : Grant(req[p].new)' = Grant(req[p].new)
      /\ Grant(row.refresh)' = Grant(row.refresh) /\ GrantsOf(row)' = GrantsOf(row)
  BY <1>2 DEF Grant, GrantsOf, Refreshers, Exchanged, Bringing
<1>6. TypeOK'
  BY <1>2, <1>3 DEF IInv, Parts, TypeOK, ReqType
<1>7. GrantsIssued'
  BY DEF IInv, Parts, GrantsIssued
<1>8. Carried'
  <2>1. ASSUME NEW p \in Requests
        PROVE  /\ req'[p].op \in {"connect", "exchange"} => req'[p].app \in Apps
               /\ req'[p].step # "answered" => req'[p].new = 0
    <3>1. CASE p = q
      BY <1>1, <1>2, <3>1
    <3>2. CASE p # q
      BY <1>2, <3>2 DEF IInv, Parts, Carried
    <3> QED
      BY <3>1, <3>2
  <2>2. ASSUME NEW p \in Refreshers
        PROVE  /\ req'[p].id \in 1..rows' /\ req'[p].token \in 1..Len(issued')
               /\ row'.id = req'[p].id => row'.refresh # 0
    BY <1>2 DEF IInv, Parts, Carried, Refreshers
  <2>3. ASSUME NEW p \in Bringing
        PROVE  Grant(req[p].new)' = Grant(req[p].token)'
    <3>1. p \in Refreshers
      BY DEF Bringing
    <3>2. Grant(req[p].new) = Grant(req[p].token)
      BY DEF IInv, Parts, Carried
    <3> QED
      BY <1>5, <3>1, <3>2
  <2>4. ASSUME NEW p \in Exchanged
        PROVE  req'[p].new # 0 /\ Grant(req[p].new)' = req'[p].new
    BY <1>2, <1>5 DEF IInv, Parts, Carried, Exchanged
  <2> QED
    BY <1>4, <2>1, <2>2, <2>3, <2>4 DEF Carried
<1>9. Owned'
  BY <1>2, <1>4, <1>5 DEF IInv, Owned, Refreshers
<1>10. Unstored'
  BY <1>2, <1>4, <1>5 DEF IInv, Unstored, Exchanged
<1>11. Successors'
  BY <1>2, <1>4, <1>5 DEF IInv, Successors, Bringing, Refreshers
<1>12. TokenWorks'
  <2>1. InHand(row.refresh) => InHand(row.refresh)'
    BY <1>2 DEF InHand, At
  <2> QED
    BY <1>5, <2>1 DEF IInv, TokenWorks
<1>13. DisconnectIsFinal'
  BY <1>5 DEF IInv, DisconnectIsFinal
<1> QED
  BY <1>6, <1>7, <1>8, <1>9, <1>10, <1>11, <1>12, <1>13 DEF IInv, Parts

(***************************************************************************)
(* A token that Spotify retires is the one of the request it answers, and  *)
(* that request has its successor.                                         *)
(***************************************************************************)
LEMMA RotateIInv ==
  ASSUME IInv, NEW q \in Requests, At(q, "refresh", "asked"), req[q].token \in live,
         NEW n, n = Len(issued) + 1, n <= MaxTokens,
         issued' = Append(issued, issued[req[q].token]),
         NEW retired \in SUBSET {req[q].token}, live' = (live \ retired) \cup {n},
         Answered(q, n),
         UNCHANGED <<row, rows, doomed, page, spoilt, gone>>
  PROVE  IInv'
<1>0. q \in Refreshers /\ q \notin Exchanged /\ q \notin Bringing
      /\ req[q].op = "refresh" /\ req[q].step = "asked"
  BY DEF Refreshers, Exchanged, Bringing, At, IInv, Parts, Carried
<1>1. PICK r \in [grant : 1..n, app : Apps] :
        r.grant = Grant(req[q].token) /\ issued' = Append(issued, r)
  <2>1. issued[req[q].token] \in [grant : Tokens, app : Apps] /\ req[q].token \in 1..Len(issued)
    BY <1>0, KnownTokens, ElementOfSeq DEF IInv, Parts, TypeOK
  <2>2. Grant(req[q].token) = issued[req[q].token].grant /\ Grant(req[q].token) \in 1..Len(issued)
    BY <2>1, Tokens0 DEF IInv
  <2>3. 1..Len(issued) \subseteq 1..n
    BY Tokens0 DEF IInv
  <2> QED
    BY <2>1, <2>2, <2>3
<1>2. live' \subseteq live \cup {n}
  OBVIOUS
<1>3. /\ Parts' /\ Owned' /\ DisconnectIsFinal'
      /\ Refreshers' = Refreshers
      /\ \A p \in Refreshers : /\ req'[p].token = req[p].token
                               /\ Grant(req[p].token) \in 1..Len(issued)
      /\ \A t \in 0..Len(issued) : Grant(t)' = Grant(t)
      /\ \A p \in Requests \ {q} : req'[p] = req[p]
      /\ req'[q].op = req[q].op /\ req'[q].step = "answered" /\ req'[q].new = n
      /\ n \notin 1..Len(issued) /\ Grant(n)' = Grant(req[q].token)
      /\ row # NoRow => /\ GrantsOf(row)' = GrantsOf(row)
                        /\ Grant(row.refresh)' = Grant(row.refresh)
  <2>1. /\ req[q].op \in {"exchange", "refresh"}
        /\ req[q].op = "exchange" => r.grant = n
        /\ req[q].op = "refresh" => r.grant = Grant(req[q].token)
    BY <1>0, <1>1
  <2> QED
    BY <1>0, <1>1, <1>2, <2>1, IssueParts
<1>4. /\ Exchanged' = Exchanged /\ Bringing' = Bringing \cup {q}
      /\ \A p \in Exchanged \cup Bringing : req'[p] = req[p]
  <2>1. Exchanged' = Exchanged
    BY <1>0, <1>3 DEF Exchanged, At
  <2>2. \A p \in Exchanged \cup Bringing : req'[p] = req[p]
    BY <1>0, <1>3 DEF Exchanged, Bringing, Refreshers
  <2>3. n # 0
    BY Tokens0 DEF IInv
  <2>4. ASSUME NEW p \in Refreshers
        PROVE  p \in Bringing' <=> p \in Bringing \cup {q}
    <3>1. CASE p = q
      BY <1>0, <1>3, <2>3, <3>1 DEF Bringing
    <3>2. CASE p # q
      BY <1>3, <3>2 DEF Bringing, Refreshers
    <3> QED
      BY <3>1, <3>2
  <2>5. Bringing' \subseteq Refreshers /\ Bringing \cup {q} \subseteq Refreshers
    BY <1>0, <1>3 DEF Bringing
  <2> QED
    BY <2>1, <2>2, <2>4, <2>5
<1>4a. 1..Len(issued) \subseteq 0..Len(issued)
  BY Tokens0 DEF IInv
<1>5. \A p \in Refreshers : Grant(req[p].token)' = Grant(req[p].token)
  <2>0. \A p \in Refreshers : req[p].token \in 1..Len(issued)
    BY KnownTokens
  <2>1. \A p \in Refreshers : req'[p].token \in 0..Len(issued)
    BY <1>3, <1>4a, <2>0
  <2> QED
    BY <1>3, <2>1
<1>6. \A p \in Exchanged \cup Bringing :
        /\ req[p].new \in 1..Len(issued) /\ req[p].new # n
        /\ Grant(req[p].new)' = Grant(req[p].new)
  <2>1. \A p \in Exchanged \cup Bringing : req[p].new \in 1..Len(issued)
    BY KnownTokens
  <2>2. \A p \in Exchanged \cup Bringing : req'[p].new \in 0..Len(issued)
    BY <1>4, <1>4a, <2>1
  <2> QED
    BY <1>3, <1>4, <2>1, <2>2
<1>7. \A t \in live : t # req[q].token => t \in live'
  OBVIOUS
<1>8. row' = row /\ spoilt' = spoilt /\ gone' = gone /\ n \in live'
  OBVIOUS
<1>9. Unstored'
  <2>1. ASSUME NEW x \in Exchanged
        PROVE  /\ req[x].new \in live' \/ req[x].new \in spoilt
               /\ req[x].new \notin gone
               /\ row # NoRow => req[x].new \notin GrantsOf(row)
               /\ \A p \in Refreshers : Grant(req[p].token) # req[x].new
               /\ \A p \in Exchanged : p # x => req[p].new # req[x].new
    <3>1. Grant(req[x].new) = req[x].new
      BY DEF IInv, Parts, Carried
    <3>2. Grant(req[q].token) # req[x].new
      BY <1>0 DEF IInv, Unstored
    <3>3. req[x].new # req[q].token
      BY <3>1, <3>2
    <3> QED
      BY <1>7, <3>3 DEF IInv, Unstored
  <2> QED
    BY <1>3, <1>4, <1>5, <1>8, <2>1 DEF Unstored
<1>10. Successors'
  <2>1. ASSUME NEW x \in Bringing
        PROVE  /\ req[x].new \in live' \/ Grant(req[x].new)' \in spoilt
               /\ row # NoRow => row.refresh # req[x].new
               /\ \A p \in Refreshers : req[p].token # req[x].new
               /\ \A p \in Bringing : p # x => req[p].new # req[x].new
    <3>1. req[x].new # req[q].token
      BY <1>0 DEF IInv, Successors
    <3>2. Grant(req[x].new)' = Grant(req[x].new)
      BY <1>6
    <3> QED
      BY <1>7, <3>1, <3>2 DEF IInv, Successors
  <2>2. row # NoRow => row.refresh # n
    BY <1>3, KnownTokens, Tokens0 DEF IInv
  <2>3. \A p \in Refreshers : req[p].token # n
    BY <1>3, KnownTokens
  <2>4. ASSUME NEW x \in Bringing'
        PROVE  /\ req'[x].new \in live' \/ Grant(req[x].new)' \in spoilt
               /\ row # NoRow => row.refresh # req'[x].new
               /\ \A p \in Refreshers : req[p].token # req'[x].new
               /\ \A p \in Bringing' : p # x => req'[p].new # req'[x].new
    <3>1. CASE x = q
      <4>1. ASSUME NEW p \in Bringing', p # x
            PROVE  req'[p].new # n
        BY <1>4, <1>6, <3>1, <4>1
      <4> QED
        BY <1>3, <1>8, <2>2, <2>3, <3>1, <4>1
    <3>2. CASE x # q
      <4>1. x \in Bringing /\ req'[x] = req[x]
        BY <1>4, <3>2
      <4>2. ASSUME NEW p \in Bringing', p # x
            PROVE  req'[p].new # req'[x].new
        <5>1. CASE p = q
          BY <1>3, <1>6, <4>1, <5>1
        <5>2. CASE p # q
          <6>1. p \in Bringing /\ req'[p] = req[p]
            BY <1>4, <5>2
          <6> QED
            BY <2>1, <4>1, <4>2, <6>1
        <5> QED
          BY <5>1, <5>2
      <4> QED
        BY <2>1, <4>1, <4>2
    <3> QED
      BY <3>1, <3>2
  <2> QED
    BY <1>3, <1>8, <2>4 DEF Successors
<1>11. TokenWorks'
  <2> SUFFICES ASSUME row # NoRow, row.refresh # 0, Grant(row.refresh)' \notin spoilt',
                      row.refresh \notin live'
               PROVE  InHand(row.refresh)'
    BY <1>8 DEF TokenWorks
  <2>1. Grant(row.refresh) \notin spoilt
    BY <1>3, <1>8
  <2>2. CASE row.refresh = req[q].token
    <3>1. req'[q].op = "refresh" /\ req'[q].step = "answered" /\ req'[q].token = row'.refresh
      BY <1>0, <1>3, <1>8, <2>2
    <3> QED
      BY <1>3, <1>8, <3>1 DEF InHand, At
  <2>3. CASE row.refresh # req[q].token
    <3>1. row.refresh \notin live
      BY <1>7, <2>3
    <3>2. PICK p \in Requests : /\ At(p, "refresh", "answered") /\ req[p].token = row.refresh
                                /\ req[p].new \in live
      BY <2>1, <3>1 DEF IInv, TokenWorks, InHand
    <3>3. req[p].new # 0
      BY <3>2, Tokens0 DEF IInv
    <3>4. p \in Bringing
      BY <3>2, <3>3 DEF Bringing, Refreshers, At
    <3>5. req[p].new # req[q].token
      BY <1>0, <3>4 DEF IInv, Successors
    <3>6. req'[p] = req[p] /\ req[p].new \in live'
      BY <1>4, <1>7, <3>2, <3>4, <3>5
    <3> QED
      BY <1>8, <3>2, <3>6 DEF InHand, At
  <2> QED
    BY <2>2, <2>3
<1> QED
  BY <1>3, <1>9, <1>10, <1>11 DEF IInv

LEMMA SpotifyRefreshesIInv ==
  ASSUME IInv, NEW q \in Requests, SpotifyRefreshes(q)
  PROVE  IInv'
<1>0. /\ At(q, "refresh", "asked") /\ req[q].token \in live
      /\ UNCHANGED <<row, rows, doomed, page, spoilt, gone>>
  BY DEF SpotifyRefreshes, Accepted
<1>1. CASE req' = [req EXCEPT ![q].step = "answered"] /\ UNCHANGED <<issued, live>>
  BY <1>0, <1>1, AnswerIInv
<1>2. CASE \E retired \in SUBSET {req[q].token} :
             /\ Len(issued) + 1 <= MaxTokens
             /\ issued' = Append(issued, issued[req[q].token])
             /\ live' = (live \ retired) \cup {Len(issued) + 1}
             /\ req' = [req EXCEPT ![q].step = "answered", ![q].new = Len(issued) + 1]
  <2>1. PICK n : n = Len(issued) + 1
    OBVIOUS
  <2>2. PICK retired \in SUBSET {req[q].token} :
             /\ n <= MaxTokens
             /\ issued' = Append(issued, issued[req[q].token])
             /\ live' = (live \ retired) \cup {n}
             /\ Answered(q, n)
    BY <1>2, <2>1 DEF Answered
  <2> QED
    BY <1>0, <2>1, <2>2, RotateIInv
<1> QED
  BY <1>1, <1>2 DEF SpotifyRefreshes

(***************************************************************************)
(* The tokens of an exchange replace those of the row, or come into a new  *)
(* one.                                                                    *)
(***************************************************************************)
LEMMA StoreTokensIInv ==
  ASSUME IInv, NEW q \in Requests, StoreTokens(q)
  PROVE  IInv'
<1>0. PICK n : n = req[q].new
  OBVIOUS
<1>1. /\ q \in Exchanged /\ Ends(q)
      /\ UNCHANGED <<doomed, page, issued, live, spoilt, gone>>
  BY DEF StoreTokens, Exchanged, spotify
<1>2. n # 0 /\ Grant(n) = n /\ n \in 1..Len(issued) /\ n \in Tokens
  <2>1. n # 0 /\ Grant(n) = n
    BY <1>0, <1>1 DEF IInv, Parts, Carried
  <2>2. n \in 1..Len(issued)
    BY <1>0, <1>1, KnownTokens
  <2> QED
    BY <2>1, <2>2, Tokens0 DEF IInv
<1>3. /\ req' \in [Requests -> ReqType] /\ req'[q] = Idle
      /\ \A p \in Requests \ {q} : req'[p] = req[p]
      /\ \A p \in Requests : req'[p].id <= rows /\ req'[p].new <= Len(issued)
  BY <1>1, EndTypes DEF IInv
<1>4. /\ row' \in Row /\ row'.id = rows' /\ rows \in 0..MaxRows /\ rows' \in rows..MaxRows
      /\ row'.access = n /\ row'.refresh = n /\ row'.oauth = TRUE
      /\ \/ row # NoRow /\ rows' = rows /\ row'.id = row.id
         \/ row = NoRow /\ row'.id = rows + 1
  <2>0. n \in Grants /\ n \in 0..MaxTokens
    BY <1>2 DEF Tokens, Grants
  <2>1. CASE row # NoRow
    <3>1. row \in Row /\ row.id = rows /\ rows \in 0..MaxRows /\ MaxRows \in Nat
      BY <2>1, RowTyped, Tokens0 DEF IInv, Parts, TypeOK
    <3>2. /\ row' = [row EXCEPT !.oauth = TRUE, !.access = n, !.refresh = n, !.near = FALSE]
          /\ rows' = rows
      BY <1>0, <1>2, <2>1 DEF StoreTokens
    <3>3. /\ row' \in Row /\ row'.id = row.id
          /\ row'.access = n /\ row'.refresh = n /\ row'.oauth = TRUE
      BY <2>0, <3>1, <3>2 DEF Row
    <3> QED
      BY <2>1, <3>1, <3>2, <3>3
  <2>2. CASE row = NoRow
    <3>1. /\ row' = [NewRow EXCEPT !.oauth = TRUE, !.access = n, !.refresh = n, !.near = FALSE]
          /\ rows' = rows + 1 /\ rows < MaxRows
      BY <1>0, <1>2, <2>2 DEF StoreTokens
    <3>2. rows \in 0..MaxRows /\ MaxRows \in Nat /\ rows + 1 \in 1..MaxRows
      BY <3>1, Tokens0 DEF IInv, Parts, TypeOK
    <3>3. row' = [id |-> rows + 1, app |-> NoApp, oauth |-> TRUE, access |-> n, refresh |-> n,
                  near |-> FALSE]
      BY <3>1 DEF NewRow
    <3>4. row' \in Row
      BY <2>0, <3>2, <3>3 DEF Row
    <3>5. row'.id = rows + 1 /\ row'.access = n /\ row'.refresh = n /\ row'.oauth = TRUE
      BY <3>3
    <3> QED
      BY <2>2, <3>1, <3>2, <3>4, <3>5
  <2> QED
    BY <2>1, <2>2
<1>5. row' # NoRow
  BY <1>4 DEF Row, NoRow
<1>6. /\ Refreshers' = Refreshers /\ Exchanged' = Exchanged \ {q} /\ Bringing' = Bringing
      /\ \A p \in Refreshers \cup Bringing \cup (Exchanged \ {q}) : req'[p] = req[p]
  <2>1. q \notin Refreshers /\ q \notin Bringing
    BY <1>1 DEF Refreshers, Exchanged, Bringing, At
  <2>2. Refreshers' = Refreshers
    BY <1>3, <2>1 DEF Refreshers, Idle
  <2>3. Exchanged' = Exchanged \ {q}
    BY <1>3 DEF Exchanged, At, Idle
  <2>4. \A p \in Refreshers \cup Bringing \cup (Exchanged \ {q}) : req'[p] = req[p]
    BY <1>3, <2>1 DEF Refreshers, Exchanged, Bringing
  <2>5. Bringing' = Bringing
    BY <2>2, <2>4 DEF Bringing
  <2> QED
    BY <2>2, <2>3, <2>4, <2>5
<1>7. \A t : Grant(t)' = Grant(t)
  BY <1>1 DEF Grant
<1>8. GrantsOf(row)' = {n}
  BY <1>2, <1>4, <1>7 DEF GrantsOf
<1>9. TypeOK'
  <2>1. row'.oauth = (row'.refresh # 0) /\ row'.oauth = (row'.access # 0)
    BY <1>2, <1>4
  <2>2. row'.refresh <= Len(issued)
    BY <1>2, <1>4, Tokens0 DEF IInv
  <2>3. rows' \in 0..MaxRows /\ doomed' \in 0..rows'
    BY <1>1, <1>4 DEF IInv, Parts, TypeOK
  <2>4. \A p \in Requests : req'[p].id <= rows' /\ req'[p].new <= Len(issued)
    BY <1>3, <1>4 DEF ReqType
  <2> QED
    BY <1>1, <1>3, <1>4, <2>1, <2>2, <2>3, <2>4 DEF IInv, Parts, TypeOK, ReqType
<1>10. GrantsIssued'
  <2>1. row'.access <= Len(issued)
    BY <1>2, <1>4, Tokens0 DEF IInv
  <2> QED
    BY <1>1, <2>1 DEF IInv, Parts, GrantsIssued
<1>11. Carried'
  <2>1. ASSUME NEW p \in Requests
        PROVE  /\ req'[p].op \in {"connect", "exchange"} => req'[p].app \in Apps
               /\ req'[p].step # "answered" => req'[p].new = 0
    BY <1>3 DEF IInv, Parts, Carried, Idle
  <2>2. ASSUME NEW p \in Refreshers
        PROVE  /\ req'[p].id \in 1..rows' /\ req'[p].token \in 1..Len(issued')
               /\ row'.id = req'[p].id => row'.refresh # 0
    <3>1. req'[p] = req[p] /\ req[p].id \in 1..rows /\ req[p].token \in 1..Len(issued)
      BY <1>6 DEF IInv, Parts, Carried
    <3> QED
      BY <1>1, <1>2, <1>4, <3>1
  <2> QED
    BY <1>6, <1>7, <2>1, <2>2 DEF IInv, Parts, Carried, Bringing
<1>12. Owned'
  <2>1. ASSUME NEW p \in Refreshers
        PROVE  IF req'[p].id = row'.id THEN Grant(req'[p].token) \notin gone
               ELSE Grant(req'[p].token) \notin {n}
    <3>1. req'[p] = req[p] /\ req[p].id \in 1..rows
      BY <1>6 DEF IInv, Parts, Carried
    <3>2. Grant(req[p].token) # n
      BY <1>0, <1>1 DEF IInv, Unstored
    <3>3. CASE row # NoRow
      BY <1>4, <3>1, <3>2, <3>3 DEF IInv, Owned
    <3>4. CASE row = NoRow
      BY <1>4, <3>1, <3>2, <3>4
    <3> QED
      BY <3>3, <3>4
  <2> QED
    BY <1>1, <1>6, <1>7, <1>8, <2>1 DEF IInv, Owned
<1>13. Unstored'
  <2>1. ASSUME NEW x \in Exchanged \ {q}
        PROVE  req[x].new # n
    BY <1>0, <1>1 DEF IInv, Unstored
  <2> QED
    BY <1>1, <1>6, <1>7, <1>8, <2>1 DEF IInv, Unstored
<1>14. Successors'
  <2>1. ASSUME NEW x \in Bringing
        PROVE  req[x].new # n
    <3>1. x \in Refreshers /\ Grant(req[x].new) = Grant(req[x].token)
      BY DEF IInv, Parts, Carried, Bringing
    <3>2. Grant(req[x].token) # n
      BY <1>0, <1>1, <3>1 DEF IInv, Unstored
    <3> QED
      BY <1>2, <3>1, <3>2
  <2> QED
    BY <1>1, <1>4, <1>6, <1>7, <2>1 DEF IInv, Successors
<1>15. TokenWorks'
  <2>1. n \in live \/ n \in spoilt
    BY <1>0, <1>1 DEF IInv, Unstored
  <2> QED
    BY <1>1, <1>2, <1>4, <1>7, <2>1 DEF TokenWorks
<1>16. DisconnectIsFinal'
  <2>1. n \notin gone
    BY <1>0, <1>1 DEF IInv, Unstored
  <2> QED
    BY <1>1, <1>8, <2>1 DEF DisconnectIsFinal
<1> QED
  BY <1>9, <1>10, <1>11, <1>12, <1>13, <1>14, <1>15, <1>16 DEF IInv, Parts

(***************************************************************************)
(* The row of the request is gone: what it holds is not of the present row.*)
(***************************************************************************)
LEMMA StoreNothingIInv ==
  ASSUME IInv, NEW q \in Requests, q \in Refreshers, Ends(q), row.id # req[q].id,
         UNCHANGED <<row, rows, doomed, page, issued, live, spoilt, gone>>
  PROVE  IInv'
<1>1. /\ req' \in [Requests -> ReqType] /\ req'[q] = Idle
      /\ \A p \in Requests \ {q} : req'[p] = req[p]
      /\ \A p \in Requests : req'[p].id <= rows /\ req'[p].new <= Len(issued)
  BY EndTypes DEF IInv
<1>2. /\ \A p \in Refreshers' : p \in Refreshers /\ req'[p] = req[p]
      /\ \A p \in Exchanged' : p \in Exchanged /\ req'[p] = req[p]
      /\ \A p \in Bringing' : p \in Bringing
  BY <1>1 DEF Refreshers, Exchanged, Bringing, At, Idle
<1>3. row = NoRow \/ req[q].token # row.refresh
  <2> SUFFICES ASSUME row # NoRow, req[q].token = row.refresh
               PROVE  FALSE
    OBVIOUS
  <2>1. Grant(req[q].token) \notin GrantsOf(row)
    BY DEF IInv, Owned
  <2>2. req[q].token \in 1..Len(issued)
    BY KnownTokens
  <2>3. Grant(req[q].token) \in 1..Len(issued) /\ 0 \notin 1..Len(issued)
    BY <2>2, Tokens0 DEF IInv
  <2> QED
    BY <2>1, <2>3 DEF GrantsOf
<1>4. TypeOK'
  BY <1>1 DEF IInv, Parts, TypeOK, ReqType
<1>5. GrantsIssued'
  BY DEF IInv, Parts, GrantsIssued
<1>6. Carried'
  <2>1. ASSUME NEW p \in Requests
        PROVE  /\ req'[p].op \in {"connect", "exchange"} => req'[p].app \in Apps
               /\ req'[p].step # "answered" => req'[p].new = 0
    BY <1>1 DEF IInv, Parts, Carried, Idle
  <2>2. \A t : Grant(t)' = Grant(t)
    BY DEF Grant
  <2> QED
    BY <1>2, <2>1, <2>2 DEF IInv, Parts, Carried, Bringing
<1>7. Parts'
  BY <1>4, <1>5, <1>6 DEF Parts
<1>8. ASSUME NEW p \in Refreshers
      PROVE  \/ req'[p] = req[p] \/ req[p].step # "answered" \/ req[p].token \in live
             \/ Grant(req[p].token) \in spoilt' \/ row = NoRow \/ req[p].token # row.refresh
  BY <1>1, <1>3 DEF Refreshers
<1> QED
  BY <1>2, <1>7, <1>8, FewerCarry

LEMMA StoreRefreshedIInv ==
  ASSUME IInv, NEW q \in Requests, StoreRefreshed(q)
  PROVE  IInv'
<1>1. /\ q \in Refreshers /\ req[q].step = "answered" /\ Ends(q)
      /\ UNCHANGED <<rows, doomed, page, issued, live, spoilt, gone>>
  BY DEF StoreRefreshed, Refreshers, At, spotify
<1>2. CASE row.id # req[q].id
  <2>1. row' = row
    BY <1>2 DEF StoreRefreshed
  <2> QED
    BY <1>1, <1>2, <2>1, StoreNothingIInv
<1>3. CASE row.id = req[q].id
  <2>0. PICK n, g : n = req[q].new /\ g = Grant(req[q].token)
    OBVIOUS
  <2>1. /\ row # NoRow /\ row \in Row /\ row.id = rows /\ row.refresh # 0 /\ row.oauth = TRUE
        /\ row.refresh \in 1..Len(issued)
    <3>1. req[q].id \in 1..rows /\ row.refresh # 0 /\ rows \in 0..MaxRows
      BY <1>1, <1>3 DEF IInv, Parts, Carried, TypeOK
    <3>2. row # NoRow /\ row \in Row /\ row.id = rows
      BY <1>3, <3>1, RowTyped DEF IInv
    <3>3. row.refresh \in 0..Len(issued)
      BY <3>2, KnownTokens
    <3>4. row.oauth = TRUE
      BY <3>1, <3>2 DEF IInv, Parts, TypeOK
    <3> QED
      BY <3>1, <3>2, <3>3, <3>4, Tokens0 DEF IInv
  <2>2. /\ g \in 1..Len(issued) /\ g # 0 /\ g \in Grants
        /\ n # 0 => q \in Bringing /\ n \in 1..Len(issued) /\ Grant(n) = g
    <3>1. req[q].token \in 1..Len(issued)
      BY <1>1, KnownTokens
    <3>2. g \in 1..Len(issued) /\ g # 0 /\ g \in Grants
      BY <2>0, <3>1, Tokens0 DEF IInv, Tokens, Grants
    <3>3. ASSUME n # 0
          PROVE  q \in Bringing /\ n \in 1..Len(issued) /\ Grant(n) = g
      <4>1. q \in Bringing
        BY <1>1, <2>0, <3>3 DEF Bringing
      <4> QED
        BY <2>0, <4>1, KnownTokens DEF IInv, Parts, Carried
    <3> QED
      BY <3>2, <3>3
  <2>3. /\ row' \in Row /\ row'.id = row.id /\ row'.oauth = TRUE /\ row'.access = g
        /\ row'.refresh = IF n = 0 THEN row.refresh ELSE n
    <3>1. row' = [row EXCEPT !.access = g, !.near = FALSE,
                             !.refresh = IF n = 0 THEN row.refresh ELSE n]
      BY <1>3, <2>0 DEF StoreRefreshed, Refreshed
    <3>2. n \in 0..MaxTokens
      BY <2>0 DEF IInv, Parts, TypeOK
    <3> QED
      BY <2>1, <2>2, <3>1, <3>2 DEF Row
  <2>4. row' # NoRow /\ row'.refresh \in 1..Len(issued) /\ row'.refresh # 0
    BY <2>1, <2>2, <2>3 DEF Row, NoRow
  <2>5. /\ req' \in [Requests -> ReqType] /\ req'[q] = Idle
        /\ \A p \in Requests \ {q} : req'[p] = req[p]
        /\ \A p \in Requests : req'[p].id <= rows /\ req'[p].new <= Len(issued)
    BY <1>1, EndTypes DEF IInv
  <2>6. /\ Refreshers' = Refreshers \ {q} /\ Exchanged' = Exchanged /\ Bringing' = Bringing \ {q}
        /\ \A p \in (Refreshers \ {q}) \cup Exchanged : req'[p] = req[p]
    <3>1. q \notin Exchanged
      BY <1>1 DEF Refreshers, Exchanged, At
    <3>2. Refreshers' = Refreshers \ {q} /\ Exchanged' = Exchanged
      BY <2>5, <3>1 DEF Refreshers, Exchanged, At, Idle
    <3>3. \A p \in (Refreshers \ {q}) \cup Exchanged : req'[p] = req[p]
      BY <2>5, <3>1 DEF Refreshers, Exchanged
    <3>4. Bringing' = Bringing \ {q}
      BY <3>2, <3>3 DEF Bringing
    <3> QED
      BY <3>2, <3>3, <3>4
  <2>7. \A t : Grant(t)' = Grant(t)
    BY <1>1 DEF Grant
  <2>8. GrantsOf(row)' \subseteq GrantsOf(row) \cup {g}
    <3>1. Grant(row.refresh)' \in {Grant(row.refresh), g}
      BY <2>2, <2>3, <2>7
    <3> QED
      BY <2>3, <3>1 DEF GrantsOf
  <2>9. TypeOK'
    <3>1. row'.oauth = (row'.refresh # 0) /\ row'.oauth = (row'.access # 0)
      BY <2>2, <2>3, <2>4
    <3>2. row'.refresh <= Len(issued)
      BY <2>4, Tokens0 DEF IInv
    <3>3. row'.id = rows
      BY <2>1, <2>3
    <3> QED
      BY <1>1, <2>3, <2>5, <3>1, <3>2, <3>3 DEF IInv, Parts, TypeOK, ReqType
  <2>10. GrantsIssued'
    <3>1. row'.access <= Len(issued)
      BY <2>2, <2>3, Tokens0 DEF IInv
    <3> QED
      BY <1>1, <3>1 DEF IInv, Parts, GrantsIssued
  <2>11. Carried'
    <3>1. ASSUME NEW p \in Requests
          PROVE  /\ req'[p].op \in {"connect", "exchange"} => req'[p].app \in Apps
                 /\ req'[p].step # "answered" => req'[p].new = 0
      BY <2>5 DEF IInv, Parts, Carried, Idle
    <3>2. ASSUME NEW p \in Refreshers \ {q}
          PROVE  /\ req'[p].id \in 1..rows' /\ req'[p].token \in 1..Len(issued')
                 /\ row'.id = req'[p].id => row'.refresh # 0
      BY <1>1, <2>4, <2>6 DEF IInv, Parts, Carried
    <3> QED
      BY <2>6, <2>7, <3>1, <3>2 DEF IInv, Parts, Carried, Bringing
  <2>12. Owned'
    <3>1. ASSUME NEW p \in Refreshers \ {q}
          PROVE  IF req[p].id = row.id THEN Grant(req[p].token) \notin gone
                 ELSE Grant(req[p].token) \notin GrantsOf(row) \cup {g}
      BY <1>1, <1>3, <2>0, <2>1 DEF IInv, Owned
    <3> QED
      BY <1>1, <2>3, <2>6, <2>7, <2>8, <3>1 DEF IInv, Owned
  <2>13. Unstored'
    <3>1. ASSUME NEW x \in Exchanged
          PROVE  req[x].new \notin GrantsOf(row) \cup {g}
      BY <1>1, <2>0, <2>1 DEF IInv, Unstored
    <3> QED
      BY <1>1, <2>6, <2>7, <2>8, <3>1 DEF IInv, Unstored
  <2>14. Successors'
    <3>1. ASSUME NEW x \in Bringing \ {q}
          PROVE  row'.refresh # req[x].new
      <4>1. CASE n = 0
        BY <2>1, <2>3, <4>1 DEF IInv, Successors
      <4>2. CASE n # 0
        BY <2>0, <2>2, <2>3, <4>2 DEF IInv, Successors
      <4> QED
        BY <4>1, <4>2
    <3>2. \A x \in Bringing \ {q} : req'[x] = req[x]
      BY <2>6 DEF Bringing
    <3> QED
      BY <1>1, <2>6, <2>7, <3>1, <3>2 DEF IInv, Successors
  <2>15. TokenWorks'
    <3>1. CASE n # 0
      <4>1. n \in live \/ g \in spoilt
        BY <2>0, <2>2, <3>1 DEF IInv, Successors
      <4> QED
        BY <1>1, <2>2, <2>3, <2>7, <3>1, <4>1 DEF TokenWorks
    <3>2. CASE n = 0
      <4>1. row'.refresh = row.refresh
        BY <2>3, <3>2
      <4> SUFFICES ASSUME Grant(row.refresh) \notin spoilt, row.refresh \notin live
                   PROVE  InHand(row.refresh)'
        BY <1>1, <2>7, <4>1 DEF TokenWorks
      <4>2. PICK p \in Requests : /\ At(p, "refresh", "answered") /\ req[p].token = row.refresh
                                  /\ req[p].new \in live
        BY <2>1 DEF IInv, TokenWorks, InHand
      <4>3. p # q
        BY <2>0, <3>2, <4>2, Tokens0 DEF IInv
      <4>4. req'[p] = req[p]
        BY <2>5, <4>3
      <4> QED
        BY <1>1, <4>1, <4>2, <4>4 DEF InHand, At
    <3> QED
      BY <3>1, <3>2
  <2>16. DisconnectIsFinal'
    <3>1. g \notin gone
      BY <1>1, <1>3, <2>0, <2>1 DEF IInv, Owned
    <3> QED
      BY <1>1, <2>1, <2>8, <3>1 DEF IInv, DisconnectIsFinal
  <2> QED
    BY <2>9, <2>10, <2>11, <2>12, <2>13, <2>14, <2>15, <2>16 DEF IInv, Parts
<1> QED
  BY <1>2, <1>3

-----------------------------------------------------------------------------

LEMMA StepIInv == IInv /\ [Next]_vars => IInv'
<1> SUFFICES ASSUME IInv, [Next]_vars
             PROVE  IInv'
  OBVIOUS
<1>1. ASSUME NEW q \in Requests, Refreshing(q) \/ Refused(q) \/ LoseAnswer(q)
      PROVE  IInv'
  BY <1>1, AskIInv, SpotifyRefreshesIInv, StoreRefreshedIInv, RequestIInv DEF Refreshing
<1>2. ASSUME NEW q \in Requests \ Pollers, Connecting(q) \/ Exchanging(q)
      PROVE  IInv'
  BY <1>2, RequestIInv, StoreCredentialsIInv, ExchangeIInv, StoreTokensIInv
     DEF Connecting, Exchanging
<1>3. CASE Disconnecting
  BY <1>3, OutsideIInv, DeleteIInv DEF Disconnecting
<1>4. CASE StartOAuth
  BY <1>4, OutsideIInv
<1>5. CASE FromOutside
  BY <1>5, OutsideIInv, RevokeIInv, TimePassesIInv DEF FromOutside
<1>6. CASE UNCHANGED vars
  <2>1. Parts'
    BY <1>6 DEF IInv, Parts, TypeOK, GrantsIssued, Carried, Refreshers, Bringing, Exchanged,
                At, Grant, vars, spotify
  <2> QED
    BY <1>6, <2>1, FewerCarry DEF Refreshers, Exchanged, At, vars, spotify
<1> QED
  BY <1>1, <1>2, <1>3, <1>4, <1>5, <1>6 DEF Next

LEMMA Invariance == Spec => []IInv
BY InitIInv, StepIInv, PTL DEF Spec

(***************************************************************************)
(* Every row, and whatever a request has in hand, is of the declared type: *)
(* a row has both tokens or none.                                          *)
(***************************************************************************)
THEOREM TypeCorrect == Spec => []TypeOK
<1>1. IInv => TypeOK
  BY DEF IInv, Parts
<1> QED
  BY <1>1, Invariance, PTL

(***************************************************************************)
(* For any number of requests that refresh, connect and exchange at once,  *)
(* the refresh token in the database works or its successor is about to    *)
(* be stored (platform_connection_service.py:246).                         *)
(***************************************************************************)
THEOREM StoredTokenWorks == Spec => []TokenWorks
<1>1. IInv => TokenWorks
  BY DEF IInv
<1> QED
  BY <1>1, Invariance, PTL

(***************************************************************************)
(* Tokens that disconnect has deleted stay deleted, whatever waited for    *)
(* Spotify meanwhile (platform_connection_service.py:281).                 *)
(***************************************************************************)
THEOREM DisconnectStays == Spec => []DisconnectIsFinal
<1>1. IInv => DisconnectIsFinal
  BY DEF IInv
<1> QED
  BY <1>1, Invariance, PTL
=============================================================================
