----------------------------- MODULE Streaming -----------------------------
(***************************************************************************)
(* The connection of one user to Spotify: the row of platform_connections, *)
(* the requests that write it, and the tokens Spotify accepts.             *)
(*                                                                         *)
(* The handlers are coroutines of one event loop.  What they do between    *)
(* two awaits is one step; only disconnect is a thread.  A row that it     *)
(* deletes between the read and the write of such a step is a row deleted  *)
(* just after the write: the UPDATE matches no row, and there is none.     *)
(***************************************************************************)
EXTENDS Naturals, Sequences, FiniteSets

CONSTANTS
  Requests,   \* requests that may be under way at a time
  Pollers,    \* those that stand for the poll loop of a room of the user
  Apps,       \* Spotify apps, by their client_id and client_secret
  SettingsApp,\* the app of SPOTIFY_CLIENT_ID
  NoApp,
  MaxTokens,  \* bound on the refresh tokens that Spotify issues
  MaxRows     \* bound on the rows that are created

ASSUME StreamingAssumption ==
  /\ Pollers \subseteq Requests
  /\ SettingsApp \in Apps
  /\ NoApp \notin Apps
  /\ MaxTokens \in Nat
  /\ MaxRows \in Nat

VARIABLES
  row,    \* the row of the user and the platform, or NoRow
  rows,   \* how many rows there have been; the last is the id of row
  req,    \* what each request does, and what it has in hand
  doomed, \* the id of the row that disconnect has loaded, or 0
  page,   \* the app that Spotify's page is open for, or NoApp
  issued, \* the refresh tokens of Spotify: the grant and the app of each
  live,   \* the refresh tokens Spotify accepts
  spoilt, \* grants revoked at Spotify, or whose new token was lost (history)
  gone    \* grants whose tokens a disconnect has deleted (history)

vars == <<row, rows, req, doomed, page, issued, live, spoilt, gone>>
spotify == <<issued, live, spoilt>>

Tokens == 1..MaxTokens
Grants == 0..MaxTokens      \* a grant is named by the first token of it
NoRow == [id |-> 0]

(***************************************************************************)
(* A row has no token (0) until the first exchange; near says that its     *)
(* access token expires within five minutes.                               *)
(***************************************************************************)
Row == [id : 1..MaxRows, app : Apps \cup {NoApp}, oauth : BOOLEAN,
        access : Grants, refresh : 0..MaxTokens, near : BOOLEAN]

Ops == {"none", "connect", "exchange", "refresh"}
Steps == {"idle", "asked", "answered"}
Idle == [op |-> "none", step |-> "idle", id |-> 0, app |-> NoApp, code |-> NoApp,
         token |-> 0, new |-> 0]
Asking(op, app, code, id, token) ==
  [op |-> op, step |-> "asked", id |-> id, app |-> app, code |-> code, token |-> token, new |-> 0]

Init ==
  /\ row = NoRow
  /\ rows = 0
  /\ req = [q \in Requests |-> Idle]
  /\ doomed = 0
  /\ page = NoApp
  /\ issued = <<>>
  /\ live = {}
  /\ spoilt = {}
  /\ gone = {}

-----------------------------------------------------------------------------

At(q, op, step) == req[q].op = op /\ req[q].step = step
Ends(q) == req' = [req EXCEPT ![q] = Idle]

Grant(t) == IF t = 0 THEN 0 ELSE issued[t].grant
GrantsOf(r) == {r.access, Grant(r.refresh)} \ {0}

(***************************************************************************)
(* _resolve_app_credentials                                                *)
(***************************************************************************)
AppOf(r) == IF r.app # NoApp THEN r.app ELSE SettingsApp

(***************************************************************************)
(* The row as create stores it.                                            *)
(***************************************************************************)
NewRow == [id |-> rows + 1, app |-> NoApp, oauth |-> FALSE,
           access |-> 0, refresh |-> 0, near |-> FALSE]

-----------------------------------------------------------------------------
(* connect: the app credentials *)

SendConnect(q, a) ==
  /\ req[q] = Idle
  /\ req' = [req EXCEPT ![q] = Asking("connect", a, NoApp, 0, 0)]
  /\ UNCHANGED <<row, rows, doomed, page, spotify, gone>>

(***************************************************************************)
(* validate_credentials has passed.  The tokens of an existing row stay.   *)
(***************************************************************************)
StoreCredentials(q) ==
  /\ At(q, "connect", "asked")
  /\ IF row # NoRow
     THEN row' = [row EXCEPT !.app = req[q].app] /\ UNCHANGED rows
     ELSE /\ rows < MaxRows
          /\ row' = [NewRow EXCEPT !.app = req[q].app]
          /\ rows' = rows + 1
  /\ Ends(q)
  /\ UNCHANGED <<doomed, page, spotify, gone>>

-----------------------------------------------------------------------------
(* spotify/start and spotify/callback *)

(***************************************************************************)
(* start_spotify_oauth: the user is sent to Spotify for the app stored     *)
(* now, and there agrees.                                                  *)
(***************************************************************************)
StartOAuth ==
  /\ row # NoRow
  /\ row.app # NoApp
  /\ page' = row.app
  /\ UNCHANGED <<row, rows, req, doomed, spotify, gone>>

(***************************************************************************)
(* The user declines, or lets the state or the code grow too old.          *)
(***************************************************************************)
AbandonOAuth ==
  /\ page # NoApp
  /\ page' = NoApp
  /\ UNCHANGED <<row, rows, req, doomed, spotify, gone>>

(***************************************************************************)
(* The callback asks with the credentials that are stored by then.         *)
(***************************************************************************)
Callback(q) ==
  /\ req[q] = Idle
  /\ page # NoApp
  /\ row # NoRow
  /\ row.app # NoApp
  /\ page' = NoApp
  /\ req' = [req EXCEPT ![q] = Asking("exchange", row.app, page, 0, 0)]
  /\ UNCHANGED <<row, rows, doomed, spotify, gone>>

(***************************************************************************)
(* Spotify takes a code from the app it was made for, once.                *)
(***************************************************************************)
SpotifyExchanges(q) ==
  LET n == Len(issued) + 1 IN
  /\ At(q, "exchange", "asked")
  /\ req[q].code = req[q].app
  /\ n <= MaxTokens
  /\ issued' = Append(issued, [grant |-> n, app |-> req[q].app])
  /\ live' = live \cup {n}
  /\ req' = [req EXCEPT ![q].step = "answered", ![q].new = n]
  /\ UNCHANGED <<row, rows, doomed, page, spoilt, gone>>

(***************************************************************************)
(* store_oauth_tokens.  The row it makes when there is none has no app     *)
(* credentials.                                                            *)
(***************************************************************************)
StoreTokens(q) ==
  LET Granted(r) == [r EXCEPT !.oauth = TRUE, !.access = Grant(req[q].new),
                              !.refresh = req[q].new, !.near = FALSE] IN
  /\ At(q, "exchange", "answered")
  /\ IF row # NoRow
     THEN row' = Granted(row) /\ UNCHANGED rows
     ELSE rows < MaxRows /\ row' = Granted(NewRow) /\ rows' = rows + 1
  /\ Ends(q)
  /\ UNCHANGED <<doomed, page, spotify, gone>>

-----------------------------------------------------------------------------
(* get_valid_access_token and force_refresh_token *)

(***************************************************************************)
(* The access token is refreshed when it expires soon, or when a call has  *)
(* been refused with it (forced).  The request keeps the row it loaded:    *)
(* its id, its refresh token and the app.  Without a refresh token there   *)
(* is nothing to decrypt, and the request fails.                           *)
(***************************************************************************)
AskForToken(q) ==
  \E forced \in BOOLEAN :
    /\ req[q] = Idle
    /\ row # NoRow
    /\ row.refresh # 0
    /\ forced \/ (row.oauth /\ row.near)
    /\ req' = [req EXCEPT ![q] = Asking("refresh", AppOf(row), NoApp, row.id, row.refresh)]
    /\ UNCHANGED <<row, rows, doomed, page, spotify, gone>>

Accepted(t, a) == t \in live /\ issued[t].app = a

(***************************************************************************)
(* Spotify answers with an access token, and may add a new refresh token;  *)
(* then it may retire the one it was given.                                *)
(***************************************************************************)
SpotifyRefreshes(q) ==
  LET n == Len(issued) + 1
      t == req[q].token IN
  /\ At(q, "refresh", "asked")
  /\ Accepted(t, req[q].app)
  /\ \/ /\ req' = [req EXCEPT ![q].step = "answered"]
        /\ UNCHANGED <<issued, live>>
     \/ \E retired \in SUBSET {t} :
          /\ n <= MaxTokens
          /\ issued' = Append(issued, issued[t])
          /\ live' = (live \ retired) \cup {n}
          /\ req' = [req EXCEPT ![q].step = "answered", ![q].new = n]
  /\ UNCHANGED <<row, rows, doomed, page, spoilt, gone>>

(***************************************************************************)
(* The columns a refresh changes.  Two variants: one writes every column   *)
(* as it was loaded, and one leaves the time of expiry.                    *)
(***************************************************************************)
RefreshedWholeRow(r, q) ==
  [r EXCEPT !.access = Grant(req[q].token), !.near = FALSE,
            !.refresh = IF req[q].new = 0 THEN req[q].token ELSE req[q].new]

RefreshedButExpiry(r, q) ==
  [r EXCEPT !.access = Grant(req[q].token),
            !.refresh = IF req[q].new = 0 THEN @ ELSE req[q].new]

Refreshed(r, q) ==
  [r EXCEPT !.access = Grant(req[q].token), !.near = FALSE,
            !.refresh = IF req[q].new = 0 THEN @ ELSE req[q].new]

(***************************************************************************)
(* A variant that finds the row by its user instead of its id.             *)
(***************************************************************************)
RefreshedByUser(q) ==
  /\ At(q, "refresh", "answered")
  /\ row' = IF row = NoRow THEN row ELSE Refreshed(row, q)
  /\ Ends(q)
  /\ UNCHANGED <<rows, doomed, page, spotify, gone>>

(***************************************************************************)
(* The UPDATE is for the id of the row as loaded; when that row is gone    *)
(* the request fails, and nothing is stored.                               *)
(***************************************************************************)
StoreRefreshed(q) ==
  /\ At(q, "refresh", "answered")
  /\ row' = IF row.id = req[q].id THEN Refreshed(row, q) ELSE row
  /\ Ends(q)
  /\ UNCHANGED <<rows, doomed, page, spotify, gone>>

(***************************************************************************)
(* Credentials that are not valid, a code or a refresh token that is       *)
(* refused: the request fails.                                             *)
(***************************************************************************)
Refused(q) ==
  /\ \/ At(q, "connect", "asked")
     \/ At(q, "exchange", "asked") /\ req[q].code # req[q].app
     \/ At(q, "refresh", "asked") /\ ~Accepted(req[q].token, req[q].app)
  /\ Ends(q)
  /\ UNCHANGED <<row, rows, doomed, page, spotify, gone>>

(***************************************************************************)
(* The call times out, or its task is cancelled.  An answer that is lost   *)
(* takes the new refresh token with it.                                    *)
(***************************************************************************)
LoseAnswer(q) ==
  /\ req[q].op \in {"connect", "exchange", "refresh"}
  /\ spoilt' = IF At(q, "refresh", "answered") /\ req[q].token \notin live
               THEN spoilt \cup {Grant(req[q].token)} ELSE spoilt
  /\ Ends(q)
  /\ UNCHANGED <<row, rows, doomed, page, issued, live, gone>>

(***************************************************************************)
(* The user withdraws the grant at Spotify.                                *)
(***************************************************************************)
Revoke(g) ==
  /\ g \in {Grant(t) : t \in live}
  /\ live' = {t \in live : Grant(t) # g}
  /\ spoilt' = spoilt \cup {g}
  /\ UNCHANGED <<row, rows, req, doomed, page, issued, gone>>

(***************************************************************************)
(* The access token comes within five minutes of its end.                  *)
(***************************************************************************)
TimePasses ==
  /\ row # NoRow
  /\ row.access # 0
  /\ ~row.near
  /\ row' = [row EXCEPT !.near = TRUE]
  /\ UNCHANGED <<rows, req, doomed, page, spotify, gone>>

-----------------------------------------------------------------------------
(* disconnect: a thread loads the row, and deletes it by its id *)

FindConnection ==
  /\ doomed = 0
  /\ row # NoRow
  /\ doomed' = row.id
  /\ UNCHANGED <<row, rows, req, page, spotify, gone>>

DeleteConnection ==
  /\ doomed # 0
  /\ IF row.id = doomed
     THEN row' = NoRow /\ gone' = gone \cup GrantsOf(row)
     ELSE UNCHANGED <<row, gone>>
  /\ doomed' = 0
  /\ UNCHANGED <<rows, req, page, spotify>>

-----------------------------------------------------------------------------

Connecting(q) == (\E a \in Apps : SendConnect(q, a)) \/ StoreCredentials(q)
Exchanging(q) == Callback(q) \/ SpotifyExchanges(q) \/ StoreTokens(q)
Refreshing(q) == AskForToken(q) \/ SpotifyRefreshes(q) \/ StoreRefreshed(q)
Disconnecting == FindConnection \/ DeleteConnection
FromOutside == AbandonOAuth \/ (\E g \in Grants : Revoke(g)) \/ TimePasses

(***************************************************************************)
(* The poll loop only asks for the token.                                  *)
(***************************************************************************)
Next ==
  \/ \E q \in Requests : Refreshing(q) \/ Refused(q) \/ LoseAnswer(q)
  \/ \E q \in Requests \ Pollers : Connecting(q) \/ Exchanging(q)
  \/ Disconnecting
  \/ StartOAuth
  \/ FromOutside

(***************************************************************************)
(* The poll loop asks again and again.  Spotify answers or refuses, a      *)
(* coroutine that has its answer goes on, and not every answer is lost.    *)
(***************************************************************************)
Fairness ==
  /\ \A q \in Requests : WF_vars(SpotifyRefreshes(q) \/ Refused(q) \/ StoreRefreshed(q))
  /\ \A q \in Pollers : /\ WF_vars(AskForToken(q))
                        /\ SF_vars(SpotifyRefreshes(q))
                        /\ SF_vars(StoreRefreshed(q))

Spec == Init /\ [][Next]_vars /\ Fairness

-----------------------------------------------------------------------------

(***************************************************************************)
(* Every row is one the services can write: a connection has tokens from   *)
(* the first exchange on, the access token and the refresh token together, *)
(* and a request has a row's id only when there was such a row.            *)
(***************************************************************************)
TypeOK ==
  /\ rows \in 0..MaxRows
  /\ row = NoRow \/ (row \in Row /\ row.id = rows)
  /\ row # NoRow => /\ row.oauth = (row.refresh # 0)
                    /\ row.oauth = (row.access # 0)
                    /\ row.refresh <= Len(issued)
  /\ req \in [Requests -> [op : Ops, step : Steps, id : 0..MaxRows, app : Apps \cup {NoApp},
                           code : Apps \cup {NoApp}, token : 0..MaxTokens, new : 0..MaxTokens]]
  /\ \A q \in Requests : req[q].id <= rows /\ req[q].new <= Len(issued)
  /\ doomed \in 0..rows
  /\ page \in Apps \cup {NoApp}
  /\ issued \in Seq([grant : Tokens, app : Apps]) /\ Len(issued) <= MaxTokens
  /\ live \subseteq 1..Len(issued)
  /\ spoilt \subseteq Tokens
  /\ gone \subseteq Tokens

InHand(t) == \E q \in Requests :
  At(q, "refresh", "answered") /\ req[q].token = t /\ req[q].new \in live

(***************************************************************************)
(* However refreshes, reconnections and the poll loop overlap, the refresh *)
(* token that is stored is one Spotify still takes, or its successor is    *)
(* about to be stored by the request that holds it.  The exceptions are a  *)
(* grant that was withdrawn, and a successor that was lost on the way.     *)
(* (platform_connection_service.py:246)                                    *)
(***************************************************************************)
TokenWorks ==
  row # NoRow /\ row.refresh # 0 /\ Grant(row.refresh) \notin spoilt
    => row.refresh \in live \/ InHand(row.refresh)

(***************************************************************************)
(* Tokens that disconnect has deleted never come back, not even from a     *)
(* refresh that was waiting for Spotify meanwhile, and not into the row of *)
(* a later connection either.                                              *)
(***************************************************************************)
DisconnectIsFinal == row # NoRow => GrantsOf(row) \cap gone = {}

(***************************************************************************)
(* While the poll loop runs, an access token that is about to expire does  *)
(* not stay: it is renewed, unless the connection is deleted, the grant is *)
(* spoilt, or the app credentials are no longer those of the grant.        *)
(***************************************************************************)
Expiring ==
  /\ row # NoRow /\ row.oauth /\ row.near
  /\ Grant(row.refresh) \notin spoilt
  /\ issued[row.refresh].app = AppOf(row)

Renewed == Expiring ~> ~Expiring
=============================================================================
