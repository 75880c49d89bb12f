------------------------------- MODULE Rooms -------------------------------
(***************************************************************************)
(* Rooms, their members, invites and bans.                                 *)
(*                                                                         *)
(* The endpoints run on one event loop, so what a handler does between two *)
(* awaits is one step.  Two things span several steps: `current_user` is   *)
(* loaded in a thread before the handler runs, and keeps the room_id it    *)
(* had then; and a host who leaves closes the room after two broadcasts,   *)
(* in a database session that still holds that copy.  The room in the      *)
(* path, the invite and the PIN are whatever a client sends.               *)
(***************************************************************************)
EXTENDS Naturals, FiniteSets

CONSTANTS
  Users,
  Hosts,       \* the users with a password, who may create rooms
  Rooms,       \* the identifiers of the rooms that are ever created
  Invites,     \* the tokens of the invites that are ever created
  Requests,    \* how many requests of members are handled at once
  None,        \* no room, no user, no token
  MaxMembers,  \* settings["max_members"]
  MaxUses,     \* max_uses of an invite
  Dialect      \* the database: "postgresql" or "sqlite"

ASSUME RoomsAssumption ==
  /\ None \notin Users \cup Rooms \cup Invites
  /\ MaxMembers \in Nat \ {0} /\ MaxUses \in Nat \ {0}
  /\ IsFiniteSet(Users) /\ Hosts \subseteq Users
  /\ Dialect \in {"postgresql", "sqlite"}

VARIABLES
  host,    \* rooms.host_user_id; None when there is no such row
  maker,   \* who created each room, also when it is gone (history)
  private, \* rooms.is_private
  spent,   \* the identifiers of rooms and invites that have been used
  at,      \* users.room_id
  way,     \* how each user came into the room: "door" or "link" (history);
           \* "door" for those who are in none
  bans,    \* the rows of room_bans
  invited, \* room_invites.room_id; None when there is no such row
  uses,    \* room_invites.use_count
  expired, \* the invites whose expires_at has passed
  locked,  \* the users in _pin_attempt_cooldowns whose time is not over
  req      \* the requests that are being handled

rows == <<host, maker, private, spent>>
people == <<at, way, locked>>
tokens == <<invited, uses, expired>>
vars == <<rows, people, bans, tokens, req>>

Idle == [op |-> "idle", user |-> None, room |-> None, seen |-> None]
Waiting == {"join", "link", "leave", "left", "closing"}

Init ==
  /\ host = [r \in Rooms |-> None]
  /\ maker = [r \in Rooms |-> None]
  /\ private = [r \in Rooms |-> FALSE]
  /\ spent = {}
  /\ at = [u \in Users |-> None]
  /\ way = [u \in Users |-> "door"]
  /\ bans = {}
  /\ invited = [i \in Invites |-> None]
  /\ uses = [i \in Invites |-> 0]
  /\ expired = {}
  /\ locked = {}
  /\ req = [q \in Requests |-> Idle]

-----------------------------------------------------------------------------
(* Rows *)

Exists(r) == host[r] # None
Members(r) == {u \in Users : at[u] = r}
HostOf(h, r) == Exists(r) /\ host[r] = h
HasRoom(h) == \E r \in Rooms : host[r] = h
Banned(u, r) == <<r, u>> \in bans

(***************************************************************************)
(* _prepare_target                                                         *)
(***************************************************************************)
MayTarget(h, r, u) == HostOf(h, r) /\ u # h

(***************************************************************************)
(* Variant that lets one more in.                                          *)
(***************************************************************************)
OverFull(r) == Cardinality(Members(r)) > MaxMembers

Full(r) == Cardinality(Members(r)) >= MaxMembers

(***************************************************************************)
(* Variant of _validate_invite without the second condition.               *)
(***************************************************************************)
NotExpired(i) == invited[i] # None /\ i \notin expired

Valid(i) == invited[i] # None /\ i \notin expired /\ uses[i] < MaxUses

Exit(S) ==
  /\ at' = [u \in Users |-> IF u \in S THEN None ELSE at[u]]
  /\ way' = [u \in Users |-> IF u \in S THEN "door" ELSE way[u]]

(***************************************************************************)
(* Variant that deletes the row of the room and leaves the others.         *)
(***************************************************************************)
DropRow(r, S) ==
  /\ host' = [host EXCEPT ![r] = None]
  /\ Exit(S)
  /\ UNCHANGED <<invited, bans>>

(***************************************************************************)
(* RoomRepository.delete: invites and bans go with the room, and the       *)
(* room_id of the members it knows of becomes NULL.                        *)
(***************************************************************************)
Drop(r, S) ==
  /\ host' = [host EXCEPT ![r] = None]
  /\ Exit(S)
  /\ invited' = [i \in Invites |-> IF invited[i] = r THEN None ELSE invited[i]]
  /\ bans' = {b \in bans : b[1] # r}

Enter(u, r, w) ==
  /\ at' = [at EXCEPT ![u] = r]
  /\ way' = [way EXCEPT ![u] = w]

AddBan(u, r) == bans' = bans \cup {<<r, u>>}
RemoveBan(u, r) == bans' = bans \ {<<r, u>>}
StoreInvite(i, r) == invited' = [invited EXCEPT ![i] = r]
DropInvite(i) == invited' = [invited EXCEPT ![i] = None]
Consume(i) == uses' = [uses EXCEPT ![i] = @ + 1]
End(q) == req' = [req EXCEPT ![q] = Idle]

-----------------------------------------------------------------------------
(* The host's and anybody's requests that need no older state *)

(***************************************************************************)
(* create_room: one room per host, under a new code.                       *)
(***************************************************************************)
CreateRoom(h, r) ==
  /\ r \notin spent
  /\ ~HasRoom(h)
  /\ host' = [host EXCEPT ![r] = h]
  /\ maker' = [maker EXCEPT ![r] = h]
  /\ \E p \in BOOLEAN : private' = [private EXCEPT ![r] = p]
  /\ spent' = spent \cup {r}
  /\ UNCHANGED <<people, bans, tokens, req>>

(***************************************************************************)
(* DELETE /rooms/{id}, after stop_polling; anybody may send it.            *)
(***************************************************************************)
DeleteRoom(r) ==
  /\ Exists(r)
  /\ Drop(r, Members(r))
  /\ UNCHANGED <<maker, private, spent, locked, uses, expired, req>>

CreateInvite(h, r, i) ==
  /\ HostOf(h, r)
  /\ i \notin spent
  /\ StoreInvite(i, r)
  /\ spent' = spent \cup {i}
  /\ UNCHANGED <<host, maker, private, people, bans, uses, expired, req>>

RevokeInvite(h, r, i) ==
  /\ HostOf(h, r)
  /\ invited[i] = r
  /\ DropInvite(i)
  /\ UNCHANGED <<rows, people, bans, uses, expired, req>>

Expire(i) ==
  /\ invited[i] # None
  /\ i \notin expired
  /\ expired' = expired \cup {i}
  /\ UNCHANGED <<rows, people, bans, invited, uses, req>>

Kick(h, r, u) ==
  /\ MayTarget(h, r, u)
  /\ at[u] = r
  /\ Exit({u})
  /\ UNCHANGED <<rows, locked, bans, tokens, req>>

(***************************************************************************)
(* ban_user: also of somebody who is not there.                            *)
(***************************************************************************)
Ban(h, r, u) ==
  /\ MayTarget(h, r, u)
  /\ AddBan(u, r)
  /\ Exit({u} \cap Members(r))
  /\ UNCHANGED <<rows, locked, tokens, req>>

Unban(h, r, u) ==
  /\ HostOf(h, r)
  /\ Banned(u, r)
  /\ RemoveBan(u, r)
  /\ UNCHANGED <<rows, people, tokens, req>>

CooldownEnds(u) ==
  /\ u \in locked
  /\ locked' = locked \ {u}
  /\ UNCHANGED <<rows, at, way, bans, tokens, req>>

-----------------------------------------------------------------------------
(* Joining and leaving *)

(***************************************************************************)
(* get_current_user: the handler will see the room the user is in now.     *)
(***************************************************************************)
Arrive(q, op, u, r) ==
  /\ req[q] = Idle
  /\ r \in spent
  /\ req' = [req EXCEPT ![q] = [op |-> op, user |-> u, room |-> r, seen |-> at[u]]]
  /\ UNCHANGED <<rows, people, bans, tokens>>

Handles(q, op) == req[q].op = op
Elsewhere(q) == req[q].seen \notin {None, req[q].room}

(***************************************************************************)
(* What a request that is refused leaves alone: everything but itself.     *)
(***************************************************************************)
Refuse(q) == End(q) /\ UNCHANGED <<rows, people, bans, tokens>>

(***************************************************************************)
(* Variant that does not look at the bans.                                 *)
(***************************************************************************)
TurnedAwayUnlessBanned(q) ==
  LET r == req[q].room IN
  Elsewhere(q) \/ req[q].seen = r \/ ~Exists(r) \/ Full(r)

(***************************************************************************)
(* join_room up to the PIN: in another room, there already, no such room,  *)
(* banned, or no place.                                                    *)
(***************************************************************************)
TurnedAway(q) ==
  LET u == req[q].user  r == req[q].room IN
  Elsewhere(q) \/ req[q].seen = r \/ ~Exists(r) \/ Banned(u, r) \/ Full(r)

NeedsProof(q) == private[req[q].room] /\ host[req[q].room] # req[q].user

JoinRefused(q) ==
  /\ Handles(q, "join")
  /\ TurnedAway(q) \/ (NeedsProof(q) /\ req[q].user \in locked)
  /\ Refuse(q)

(***************************************************************************)
(* A public room, or the host's own.                                       *)
(***************************************************************************)
JoinOpen(q) ==
  /\ Handles(q, "join")
  /\ ~TurnedAway(q) /\ ~NeedsProof(q)
  /\ Enter(req[q].user, req[q].room, "door")
  /\ End(q)
  /\ UNCHANGED <<rows, locked, bans, tokens>>

(***************************************************************************)
(* A private room: the invite is tried before the PIN, and consumed.       *)
(***************************************************************************)
JoinPrivate(q) ==
  /\ Handles(q, "join")
  /\ ~TurnedAway(q) /\ NeedsProof(q) /\ req[q].user \notin locked
  /\ Enter(req[q].user, req[q].room, "door")
  /\ End(q)
  /\ UNCHANGED <<rows, locked, bans, invited, expired>>

JoinWithInvite(q, i) ==
  /\ JoinPrivate(q)
  /\ invited[i] = req[q].room /\ Valid(i)
  /\ Consume(i)

JoinWithPin(q) == JoinPrivate(q) /\ UNCHANGED uses

(***************************************************************************)
(* Neither a valid invite nor the PIN: _record_pin_failure.                *)
(***************************************************************************)
JoinWrongPin(q) ==
  /\ Handles(q, "join")
  /\ ~TurnedAway(q) /\ NeedsProof(q) /\ req[q].user \notin locked
  /\ locked' = locked \cup {req[q].user}
  /\ End(q)
  /\ UNCHANGED <<rows, at, way, bans, tokens>>

(***************************************************************************)
(* join_via_invite with a token of the room.  For a user who was seen in   *)
(* it, the assignment changes nothing and no UPDATE is sent; the use       *)
(* counts.                                                                 *)
(***************************************************************************)
JoinViaInvite(q, i) ==
  LET u == req[q].user  r == req[q].room IN
  /\ Handles(q, "link")
  /\ invited[i] = r /\ Valid(i)
  /\ ~Elsewhere(q)
  /\ IF req[q].seen = r THEN UNCHANGED <<at, way>> ELSE Enter(u, r, "link")
  /\ Consume(i)
  /\ End(q)
  /\ UNCHANGED <<rows, locked, bans, invited, expired>>

LinkRefused(q) ==
  /\ Handles(q, "link")
  /\ Elsewhere(q) \/ \E i \in Invites : ~(invited[i] = req[q].room /\ Valid(i))
  /\ Refuse(q)

(***************************************************************************)
(* leave_room: the room is checked against the user as loaded.             *)
(***************************************************************************)
LeaveRefused(q) ==
  /\ Handles(q, "leave")
  /\ req[q].seen # req[q].room \/ ~Exists(req[q].room)
  /\ Refuse(q)

Leave(q) ==
  LET u == req[q].user  r == req[q].room IN
  /\ Handles(q, "leave")
  /\ req[q].seen = r /\ Exists(r)
  /\ Exit({u})
  /\ IF host[r] = u THEN req' = [req EXCEPT ![q].op = "left"] ELSE End(q)
  /\ UNCHANGED <<rows, locked, bans, tokens>>

(***************************************************************************)
(* After member_left the room is read again: when it is gone, that fails.  *)
(* Otherwise room_closed is sent.                                          *)
(***************************************************************************)
AnnounceClosed(q) ==
  /\ Handles(q, "left")
  /\ IF Exists(req[q].room) THEN req' = [req EXCEPT ![q].op = "closing"] ELSE End(q)
  /\ UNCHANGED <<rows, people, bans, tokens>>

(***************************************************************************)
(* The host has come back meanwhile and is the only member.  The copy of   *)
(* the host that the request holds says otherwise (it was refreshed after  *)
(* `room_id` became NULL), and as room.users returns that copy, neither    *)
(* the loop nor the delete writes the host's row.  With another member in  *)
(* the room the save of that member expires the copy.                      *)
(***************************************************************************)
BackAlone(q) == Members(req[q].room) = {req[q].user}

(***************************************************************************)
(* Variant that keeps the room when the host has come back.                *)
(***************************************************************************)
CloseUnlessBack(q) ==
  LET r == req[q].room IN
  /\ Handles(q, "closing") /\ ~BackAlone(q)
  /\ IF at[req[q].user] = r
     THEN UNCHANGED <<host, at, way, invited, bans>>
     ELSE Drop(r, Members(r))
  /\ End(q)
  /\ UNCHANGED <<maker, private, spent, locked, uses, expired>>

(***************************************************************************)
(* _handle_host_departure after the broadcast: whoever is in the room by   *)
(* now has to leave, and the room goes ...                                 *)
(***************************************************************************)
CloseRoom(q) ==
  /\ Handles(q, "closing") /\ ~BackAlone(q)
  /\ Drop(req[q].room, Members(req[q].room))
  /\ End(q)
  /\ UNCHANGED <<maker, private, spent, locked, uses, expired>>

(***************************************************************************)
(* ... unless the host is back alone: SQLite deletes the room around the   *)
(* host, PostgreSQL refuses to, for users.room_id refers to it, and all is *)
(* rolled back.                                                            *)
(***************************************************************************)
CloseAroundHost(q) ==
  /\ Handles(q, "closing") /\ BackAlone(q)
  /\ IF Dialect = "sqlite"
     THEN Drop(req[q].room, {})
     ELSE UNCHANGED <<host, at, way, invited, bans>>
  /\ End(q)
  /\ UNCHANGED <<maker, private, spent, locked, uses, expired>>

-----------------------------------------------------------------------------

HostRequest ==
  \E h \in Hosts, r \in Rooms :
     \/ CreateRoom(h, r)
     \/ \E i \in Invites : CreateInvite(h, r, i) \/ RevokeInvite(h, r, i)
     \/ \E u \in Users : Kick(h, r, u) \/ Ban(h, r, u) \/ Unban(h, r, u)

Handle(q) ==
  \/ JoinRefused(q) \/ JoinOpen(q) \/ JoinWithPin(q) \/ JoinWrongPin(q) \/ LinkRefused(q)
  \/ \E i \in Invites : JoinWithInvite(q, i) \/ JoinViaInvite(q, i)
  \/ LeaveRefused(q) \/ Leave(q) \/ AnnounceClosed(q) \/ CloseRoom(q) \/ CloseAroundHost(q)

Next ==
  \/ HostRequest
  \/ \E r \in Rooms : DeleteRoom(r)
  \/ \E i \in Invites : Expire(i)
  \/ \E u \in Users : CooldownEnds(u)
  \/ \E q \in Requests :
       \/ \E op \in {"join", "link", "leave"}, u \in Users, r \in Rooms :
            Arrive(q, op, u, r)
       \/ Handle(q)

Spec == Init /\ [][Next]_vars

-----------------------------------------------------------------------------
(* Properties *)

(***************************************************************************)
(* The type invariant of rooms, members, invites and requests; no invite   *)
(* is used more often than max_uses (_validate_invite).                    *)
(***************************************************************************)
TypeOK ==
  /\ host \in [Rooms -> Users \cup {None}]
  /\ maker \in [Rooms -> Users \cup {None}]
  /\ private \in [Rooms -> BOOLEAN]
  /\ spent \subseteq Rooms \cup Invites
  /\ at \in [Users -> Rooms \cup {None}]
  /\ way \in [Users -> {"door", "link"}]
  /\ bans \subseteq Rooms \X Users
  /\ invited \in [Invites -> Rooms \cup {None}]
  /\ uses \in [Invites -> 0..MaxUses]
  /\ expired \subseteq Invites
  /\ locked \subseteq Users
  /\ req \in [Requests -> [op : Waiting \cup {"idle"}, user : Users \cup {None},
                           room : Rooms \cup {None}, seen : Rooms \cup {None}]]

(***************************************************************************)
(* No invite or ban is left of a room that is gone, and nobody is in it    *)
(* but, on SQLite, the host who made it, although others may join while it *)
(* is being closed: SQLite does not watch the references, the handlers     *)
(* have to (delete, _handle_host_departure).                               *)
(***************************************************************************)
NoOrphans ==
  /\ \A u \in Users :
       at[u] # None => Exists(at[u]) \/ (Dialect = "sqlite" /\ u = maker[at[u]])
  /\ \A i \in Invites : invited[i] # None => Exists(invited[i])
  /\ \A b \in bans : Exists(b[1])

(***************************************************************************)
(* "Close room and evict remaining members when host leaves": nobody at    *)
(* all stays in a room that is gone (_handle_host_departure).              *)
(***************************************************************************)
NobodyStranded == \A u \in Users : at[u] # None => Exists(at[u])

(***************************************************************************)
(* However bans, joins, kicks and leaves interleave, a banned user is in   *)
(* the room only if an invite link let him in: join_via_invite is the one  *)
(* way round the ban (join_room, ban_user).                                *)
(***************************************************************************)
BannedOnlyByLink ==
  \A u \in Users : <<at[u], u>> \in bans => way[u] = "link"

(***************************************************************************)
(* A room holds more than max_members only when an invite link let some of *)
(* them in, whatever requests passed the check together (join_room).       *)
(***************************************************************************)
OverfullOnlyByLink ==
  \A r \in Rooms :
    Cardinality(Members(r)) > MaxMembers => \E u \in Members(r) : way[u] = "link"

(***************************************************************************)
(* A host who has left is not answered before the room is gone, also when  *)
(* the host or others join before the broadcasts are over; on PostgreSQL   *)
(* the room stays for a host who is back and has it alone                  *)
(* (_handle_host_departure).                                               *)
(***************************************************************************)
HostGoneRoomGone ==
  [][\A q \in Requests :
       req[q].op \in {"left", "closing"} /\ req'[q].op = "idle"
         => \/ host'[req[q].room] = None
            \/ Dialect = "postgresql" /\ {u \in Users : at'[u] = req[q].room} = {req[q].user}
    ]_vars

(***************************************************************************)
(* "UserAlreadyInRoomException: If user is already in another room":       *)
(* nobody passes from one room to another without leaving the first        *)
(* (join_room, join_via_invite).                                           *)
(***************************************************************************)
OneRoomAtATime ==
  [][\A u \in Users : at[u] # None /\ at'[u] # None => at'[u] = at[u]]_vars
=============================================================================
