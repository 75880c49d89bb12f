----------------------------- MODULE RoomsProofs -----------------------------
(***************************************************************************)
(* For any number of users, rooms, invites and requests at once: nothing   *)
(* is left of a room that is gone but, on SQLite, a host who came back to  *)
(* it; nobody but by a link is in a room although banned or beyond its     *)
(* capacity; and the room of a host who has left is gone when the host is  *)
(* answered, unless, on PostgreSQL, the host has it alone again.           *)
(***************************************************************************)
EXTENDS Rooms, FiniteSetTheorems, TLAPS

(***************************************************************************)
(* A request that is being handled has a user and a room that was created. *)
(***************************************************************************)
Handled == \A q \in Requests :
  req[q].op # "idle" => req[q].user \in Users /\ req[q].room \in Rooms \cap spent

(***************************************************************************)
(* The maker of a room is known as soon as the identifier is used, is its  *)
(* host while it exists, and is the one who closes it by leaving.          *)
(***************************************************************************)
Made ==
  /\ \A r \in Rooms : maker[r] # None => r \in spent
  /\ \A r \in Rooms : Exists(r) => host[r] = maker[r]
  /\ \A q \in Requests : req[q].op \in {"left", "closing"} => req[q].user = maker[req[q].room]

(***************************************************************************)
(* The capacity bounds those who came through the door: that is kept when  *)
(* somebody leaves, and the bound on all the members is not.               *)
(***************************************************************************)
AtTheDoor(r) == {u \in Users : at[u] = r /\ way[u] = "door"}
DoorsFit == \A r \in Rooms : Cardinality(AtTheDoor(r)) <= MaxMembers

Types == TypeOK /\ Handled
IInv == Types /\ Made /\ NoOrphans /\ BannedOnlyByLink /\ DoorsFit

LEMMA InitIInv == Init => IInv
<1> SUFFICES ASSUME Init
             PROVE  IInv
  OBVIOUS
<1>1. Types
  BY RoomsAssumption DEF Init, Types, TypeOK, Handled, Idle, Waiting, RoomsAssumption
<1>0. Made
  BY DEF Init, Made, Exists, Idle
<1>2. NoOrphans
  BY DEF Init, NoOrphans
<1>3. BannedOnlyByLink
  BY DEF Init, BannedOnlyByLink
<1>4. ASSUME NEW r \in Rooms
      PROVE  Cardinality(AtTheDoor(r)) <= MaxMembers
  <2>1. AtTheDoor(r) = {}
    BY <1>4, RoomsAssumption DEF Init, AtTheDoor, RoomsAssumption
  <2> QED
    BY <2>1, FS_EmptySet, RoomsAssumption DEF RoomsAssumption
<1> QED
  BY <1>0, <1>1, <1>2, <1>3, <1>4 DEF IInv, DoorsFit

-----------------------------------------------------------------------------
(* Types *)

LEMMA DropTypes ==
  ASSUME TypeOK, NEW r \in Rooms, NEW S, Drop(r, S)
  PROVE  /\ host' \in [Rooms -> Users \cup {None}]
         /\ at' \in [Users -> Rooms \cup {None}]
         /\ way' \in [Users -> {"door", "link"}]
         /\ bans' \subseteq Rooms \X Users
         /\ invited' \in [Invites -> Rooms \cup {None}]
BY DEF TypeOK, Drop, Exit

LEMMA EndTypes ==
  ASSUME Types, NEW q \in Requests, End(q), UNCHANGED spent
  PROVE  /\ Handled'
         /\ req' \in [Requests -> [op : Waiting \cup {"idle"}, user : Users \cup {None},
                                   room : Rooms \cup {None}, seen : Rooms \cup {None}]]
BY DEF Types, TypeOK, Handled, End, Idle

LEMMA GoesOnTypes ==
  ASSUME Types, NEW q \in Requests, req[q].op # "idle", NEW op \in Waiting,
         req' = [req EXCEPT ![q].op = op], UNCHANGED spent
  PROVE  /\ Handled'
         /\ req' \in [Requests -> [op : Waiting \cup {"idle"}, user : Users \cup {None},
                                   room : Rooms \cup {None}, seen : Rooms \cup {None}]]
BY DEF Types, TypeOK, Handled

LEMMA HostTypes ==
  ASSUME Types, HostRequest \/ \E r \in Rooms : DeleteRoom(r)
  PROVE  Types'
<1> USE DEF Types, TypeOK, Handled
<1>1. ASSUME NEW h \in Hosts, NEW r \in Rooms, CreateRoom(h, r)
      PROVE  Types'
  BY <1>1, RoomsAssumption DEF CreateRoom, HasRoom, people, tokens, RoomsAssumption
<1>2. ASSUME NEW r \in Rooms, DeleteRoom(r)
      PROVE  Types'
  BY <1>2, DropTypes DEF DeleteRoom
<1>3. ASSUME NEW h \in Hosts, NEW r \in Rooms, NEW i \in Invites,
             CreateInvite(h, r, i) \/ RevokeInvite(h, r, i)
      PROVE  Types'
  BY <1>3 DEF CreateInvite, RevokeInvite, StoreInvite, DropInvite, people, rows
<1>4. ASSUME NEW h \in Hosts, NEW r \in Rooms, NEW u \in Users,
             Kick(h, r, u) \/ Ban(h, r, u) \/ Unban(h, r, u)
      PROVE  Types'
  BY <1>4 DEF Kick, Ban, Unban, AddBan, RemoveBan, Exit, people, rows, tokens
<1> QED
  BY <1>1, <1>2, <1>3, <1>4 DEF HostRequest

LEMMA ConsumeTypes ==
  ASSUME TypeOK, NEW i \in Invites, Valid(i), Consume(i)
  PROVE  uses' \in [Invites -> 0..MaxUses]
BY RoomsAssumption DEF TypeOK, Valid, Consume, RoomsAssumption

LEMMA HandleTypes ==
  ASSUME Types, NEW q \in Requests, Handle(q)
  PROVE  Types'
<1>0. req[q].op # "idle" /\ req[q].user \in Users /\ req[q].room \in Rooms
  BY DEF Types, Handled, Handle, Handles, JoinRefused, JoinOpen, JoinPrivate, JoinWithInvite,
         JoinWithPin, JoinWrongPin,
         LinkRefused, JoinViaInvite, LeaveRefused, Leave, AnnounceClosed, CloseRoom, CloseAroundHost
<1>1. CASE JoinRefused(q) \/ LinkRefused(q) \/ LeaveRefused(q)
  BY <1>1, EndTypes DEF JoinRefused, LinkRefused, LeaveRefused, Refuse, Types, TypeOK,
                        rows, people, tokens
<1>2. CASE JoinOpen(q) \/ JoinWrongPin(q)
  BY <1>0, <1>2, EndTypes DEF JoinOpen, JoinWrongPin, Enter, Types, TypeOK, rows, tokens
<1>3. CASE JoinWithPin(q) \/ \E i \in Invites : JoinWithInvite(q, i)
  <2>0. JoinPrivate(q)
    BY <1>3 DEF JoinWithPin, JoinWithInvite
  <2>1. uses' \in [Invites -> 0..MaxUses]
    BY <1>3, ConsumeTypes DEF JoinWithPin, JoinWithInvite, Types, TypeOK
  <2> QED
    BY <1>0, <2>0, <2>1, EndTypes DEF JoinPrivate, Enter, Types, TypeOK, rows
<1>4. ASSUME NEW i \in Invites, JoinViaInvite(q, i)
      PROVE  Types'
  <2>1. uses' \in [Invites -> 0..MaxUses]
    BY <1>4, ConsumeTypes DEF JoinViaInvite, Types
  <2> QED
    BY <1>0, <1>4, <2>1, EndTypes DEF JoinViaInvite, Enter, Types, TypeOK, rows
<1>5. CASE Leave(q)
  <2>1. at' \in [Users -> Rooms \cup {None}] /\ way' \in [Users -> {"door", "link"}]
    BY <1>5 DEF Leave, Exit, Types, TypeOK
  <2>2. End(q) \/ req' = [req EXCEPT ![q].op = "left"]
    BY <1>5 DEF Leave
  <2>3. "left" \in Waiting
    BY DEF Waiting
  <2> QED
    BY <1>0, <1>5, <2>1, <2>2, <2>3, EndTypes, GoesOnTypes
       DEF Leave, Types, TypeOK, rows, tokens
<1>6. CASE AnnounceClosed(q)
  <2>1. End(q) \/ req' = [req EXCEPT ![q].op = "closing"]
    BY <1>6 DEF AnnounceClosed
  <2>2. "closing" \in Waiting
    BY DEF Waiting
  <2> QED
    BY <1>0, <1>6, <2>1, <2>2, EndTypes, GoesOnTypes
       DEF AnnounceClosed, Types, TypeOK, rows, people, tokens
<1>7. CASE CloseRoom(q) \/ CloseAroundHost(q)
  BY <1>0, <1>7, EndTypes, DropTypes DEF CloseRoom, CloseAroundHost, Types, TypeOK
<1> QED
  BY <1>1, <1>2, <1>3, <1>4, <1>5, <1>6, <1>7 DEF Handle

LEMMA StepTypes ==
  ASSUME Types, Next
  PROVE  Types'
<1>1. ASSUME NEW q \in Requests, NEW op \in {"join", "link", "leave"}, NEW u \in Users,
             NEW r \in Rooms, Arrive(q, op, u, r)
      PROVE  Types'
  BY <1>1 DEF Arrive, Types, TypeOK, Handled, Waiting, rows, people, tokens
<1>2. ASSUME NEW i \in Invites, Expire(i)
      PROVE  Types'
  BY <1>2 DEF Expire, Types, TypeOK, Handled, rows, people
<1>3. ASSUME NEW u \in Users, CooldownEnds(u)
      PROVE  Types'
  BY <1>3 DEF CooldownEnds, Types, TypeOK, Handled, rows, tokens
<1> QED
  BY <1>1, <1>2, <1>3, HostTypes, HandleTypes DEF Next

-----------------------------------------------------------------------------
(* Who made the rooms *)

LEMMA DepartingMade ==
  ASSUME Types, Made, NEW q \in Requests, Handle(q)
  PROVE  \A p \in Requests :
           req'[p].op \in {"left", "closing"} => req'[p].user = maker[req'[p].room]
<1>1. CASE End(q)
  BY <1>1 DEF End, Idle, Types, TypeOK, Made
<1>2. CASE Leave(q)
  BY <1>1, <1>2 DEF Leave, Handles, Exists, Types, TypeOK, Handled, Made
<1>3. CASE AnnounceClosed(q)
  BY <1>1, <1>3 DEF AnnounceClosed, Handles, Types, TypeOK, Made
<1> QED
  BY <1>1, <1>2, <1>3
     DEF Handle, JoinRefused, JoinOpen, JoinPrivate, JoinWithInvite, JoinWithPin, JoinWrongPin,
         LinkRefused, Refuse, JoinViaInvite, LeaveRefused, CloseRoom, CloseAroundHost

LEMMA StepMade ==
  ASSUME Types, Made, Next
  PROVE  Made'
<1>1. ASSUME NEW h \in Hosts, NEW r \in Rooms, CreateRoom(h, r)
      PROVE  Made'
  <2>1. maker'[r] = h /\ host'[r] = h /\ r \in spent' /\ r \notin spent /\ UNCHANGED req
    BY <1>1 DEF CreateRoom, Types, TypeOK
  <2>2. \A s \in Rooms : s # r => maker'[s] = maker[s] /\ host'[s] = host[s]
    BY <1>1 DEF CreateRoom, Types, TypeOK
  <2>3. \A q \in Requests : req[q].op # "idle" => req[q].room \in Rooms /\ req[q].room # r
    BY <2>1 DEF Types, Handled
  <2>4. spent \subseteq spent'
    BY <1>1 DEF CreateRoom
  <2> QED
    BY <2>1, <2>2, <2>3, <2>4 DEF Made, Exists
<1>2. ASSUME UNCHANGED <<maker, req>>, spent \subseteq spent',
             \A r \in Rooms : host'[r] \in {host[r], None}
      PROVE  Made'
  BY <1>2 DEF Made, Exists
<1>3. ASSUME NEW r \in Rooms, DeleteRoom(r)
      PROVE  Made'
  BY <1>2, <1>3 DEF DeleteRoom, Drop, Types, TypeOK
<1>4. CASE \/ \E h \in Hosts, r \in Rooms, i \in Invites :
                CreateInvite(h, r, i) \/ RevokeInvite(h, r, i)
           \/ \E h \in Hosts, r \in Rooms, u \in Users :
                Kick(h, r, u) \/ Ban(h, r, u) \/ Unban(h, r, u)
           \/ \E i \in Invites : Expire(i)
           \/ \E u \in Users : CooldownEnds(u)
  BY <1>2, <1>4 DEF CreateInvite, RevokeInvite, Kick, Ban, Unban, Expire, CooldownEnds, rows
<1>5. ASSUME NEW q \in Requests, NEW op \in {"join", "link", "leave"}, NEW u \in Users,
             NEW r \in Rooms, Arrive(q, op, u, r)
      PROVE  Made'
  BY <1>5 DEF Arrive, Made, Exists, Types, TypeOK, rows
<1>6. ASSUME NEW q \in Requests, Handle(q)
      PROVE  Made'
  <2>1. UNCHANGED <<maker, spent>>
    BY <1>6 DEF Handle, JoinRefused, JoinOpen, JoinPrivate, JoinWithInvite, JoinWithPin,
                JoinWrongPin, LinkRefused, Refuse, JoinViaInvite, LeaveRefused, Leave,
                AnnounceClosed, CloseRoom, CloseAroundHost, rows
  <2>2. \A r \in Rooms : host'[r] \in {host[r], None}
    BY <1>6 DEF Handle, JoinRefused, JoinOpen, JoinPrivate, JoinWithInvite, JoinWithPin,
                JoinWrongPin, LinkRefused, Refuse, JoinViaInvite, LeaveRefused, Leave,
                AnnounceClosed, CloseRoom, CloseAroundHost, Drop, rows, Types, TypeOK
  <2> QED
    BY <1>6, <2>1, <2>2, DepartingMade DEF Made, Exists
<1> QED
  BY <1>1, <1>3, <1>4, <1>5, <1>6 DEF Next, HostRequest

-----------------------------------------------------------------------------
(* No orphans *)

(***************************************************************************)
(* What Drop leaves refers to other rooms, which are still there, or is    *)
(* the host whom SQLite lets stay.                                         *)
(***************************************************************************)
LEMMA DropOrphans ==
  ASSUME Types, NoOrphans, NEW r \in Rooms, NEW S, Drop(r, S), UNCHANGED maker,
         \A u \in Members(r) \ S : Dialect = "sqlite" /\ u = maker[r]
  PROVE  NoOrphans'
<1>1. \A s \in Rooms : s # r => (Exists(s)' <=> Exists(s))
  BY DEF Types, TypeOK, Drop, Exists
<1>2. ASSUME NEW u \in Users, at'[u] # None
      PROVE  Exists(at[u])' \/ (Dialect = "sqlite" /\ u = maker[at[u]])
  <2>1. at'[u] = at[u] /\ u \notin S /\ at[u] \in Rooms
    BY <1>2 DEF Types, TypeOK, Drop, Exit
  <2>2. CASE at[u] = r
    BY <2>1, <2>2 DEF Members
  <2>3. CASE at[u] # r
    <3>1. Exists(at[u]) \/ (Dialect = "sqlite" /\ u = maker[at[u]])
      BY <1>2, <2>1 DEF NoOrphans
    <3>2. CASE Exists(at[u])
      BY <1>1, <2>1, <2>3, <3>2 DEF Exists
    <3> QED
      BY <3>1, <3>2
  <2> QED
    BY <2>2, <2>3
<1>3. ASSUME NEW u \in Users, at'[u] # None
      PROVE  at'[u] = at[u]
  BY <1>3 DEF Drop, Exit
<1>4. ASSUME NEW i \in Invites, invited'[i] # None
      PROVE  Exists(invited[i])' /\ invited'[i] = invited[i]
  BY <1>1, <1>4 DEF Types, TypeOK, Drop, NoOrphans, Exists
<1>5. ASSUME NEW b \in bans'
      PROVE  Exists(b[1])'
  BY <1>1, <1>5 DEF Types, TypeOK, Drop, NoOrphans, Exists
<1> QED
  BY <1>2, <1>3, <1>4, <1>5 DEF NoOrphans, Exists

(***************************************************************************)
(* Somebody comes into a room that exists.                                 *)
(***************************************************************************)
LEMMA EnterOrphans ==
  ASSUME Types, NoOrphans, NEW u \in Users, NEW r \in Rooms, NEW w, Exists(r), Enter(u, r, w),
         UNCHANGED <<host, maker, bans, invited>>
  PROVE  NoOrphans'
BY DEF Types, TypeOK, NoOrphans, Enter, Exists

(***************************************************************************)
(* Some leave, and no room, invite or ban is added.                        *)
(***************************************************************************)
LEMMA ExitOrphans ==
  ASSUME Types, NoOrphans, NEW S, Exit(S), UNCHANGED <<host, maker, bans, invited>>
  PROVE  NoOrphans'
BY DEF Types, TypeOK, NoOrphans, Exit, Exists

LEMMA HandleOrphans ==
  ASSUME Types, Made, NoOrphans, NEW q \in Requests, Handle(q)
  PROVE  NoOrphans'
<1>0. req[q].user \in Users /\ req[q].room \in Rooms
  BY DEF Types, Handled, Handle, Handles, JoinRefused, JoinOpen, JoinPrivate, JoinWithInvite,
         JoinWithPin, JoinWrongPin,
         LinkRefused, JoinViaInvite, LeaveRefused, Leave, AnnounceClosed, CloseRoom, CloseAroundHost
<1>1. CASE JoinRefused(q) \/ LinkRefused(q) \/ LeaveRefused(q) \/ JoinWrongPin(q)
           \/ AnnounceClosed(q)
  BY <1>1 DEF JoinRefused, LinkRefused, LeaveRefused, Refuse, JoinWrongPin, AnnounceClosed,
              rows, people, tokens, NoOrphans, Exists
<1>2. CASE JoinOpen(q) \/ JoinPrivate(q)
  BY <1>0, <1>2, EnterOrphans DEF JoinOpen, JoinPrivate, TurnedAway, Banned, rows, tokens
<1>3. ASSUME NEW i \in Invites, JoinViaInvite(q, i)
      PROVE  NoOrphans'
  <2>1. Exists(req[q].room)
    BY <1>0, <1>3, RoomsAssumption DEF JoinViaInvite, NoOrphans, RoomsAssumption
  <2>2. CASE req[q].seen = req[q].room
    BY <1>3, <2>2 DEF JoinViaInvite, NoOrphans, Exists, rows
  <2>3. CASE req[q].seen # req[q].room
    BY <1>0, <1>3, <2>1, <2>3, EnterOrphans DEF JoinViaInvite, rows
  <2> QED
    BY <2>2, <2>3
<1>4. CASE Leave(q)
  BY <1>4, ExitOrphans DEF Leave, rows, tokens
<1>5. CASE CloseRoom(q)
  BY <1>0, <1>5, DropOrphans DEF CloseRoom
<1>6. CASE CloseAroundHost(q)
  <2>1. req[q].user = maker[req[q].room]
    BY <1>6 DEF CloseAroundHost, Handles, Made
  <2>2. CASE Dialect = "sqlite"
    BY <1>0, <1>6, <2>1, <2>2, DropOrphans DEF CloseAroundHost, BackAlone
  <2>3. CASE Dialect # "sqlite"
    BY <1>6, <2>3 DEF CloseAroundHost, NoOrphans, Exists
  <2> QED
    BY <2>2, <2>3
<1> QED
  BY <1>1, <1>2, <1>3, <1>4, <1>5, <1>6 DEF Handle, JoinWithInvite, JoinWithPin

LEMMA StepOrphans ==
  ASSUME Types, Made, NoOrphans, Next
  PROVE  NoOrphans'
<1>1. ASSUME NEW h \in Hosts, NEW r \in Rooms, CreateRoom(h, r)
      PROVE  NoOrphans'
  <2>1. \A s \in Rooms : Exists(s) => Exists(s)'
    BY <1>1, RoomsAssumption DEF CreateRoom, HasRoom, Exists, Types, TypeOK, RoomsAssumption
  <2>2. \A s \in Rooms : maker[s] # None => maker'[s] = maker[s]
    BY <1>1 DEF CreateRoom, Made, Types, TypeOK
  <2>3. UNCHANGED <<at, bans, invited>>
    BY <1>1 DEF CreateRoom, people, tokens
  <2>4. ASSUME NEW u \in Users, at[u] # None
        PROVE  host'[at[u]] # None \/ (Dialect = "sqlite" /\ u = maker'[at[u]])
    <3>1. at[u] \in Rooms
      BY <2>4 DEF Types, TypeOK
    <3>2. CASE Exists(at[u])
      BY <2>1, <3>1, <3>2 DEF Exists
    <3>3. CASE Dialect = "sqlite" /\ u = maker[at[u]]
      BY <2>2, <3>1, <3>3, RoomsAssumption DEF RoomsAssumption
    <3> QED
      BY <2>4, <3>2, <3>3 DEF NoOrphans
  <2>5. \A i \in Invites : invited[i] # None => host'[invited[i]] # None
    BY <2>1 DEF NoOrphans, Exists, Types, TypeOK
  <2>6. \A b \in bans : host'[b[1]] # None
    BY <2>1 DEF NoOrphans, Exists, Types, TypeOK
  <2> QED
    BY <2>3, <2>4, <2>5, <2>6 DEF NoOrphans, Exists
<1>2. ASSUME NEW r \in Rooms, DeleteRoom(r)
      PROVE  NoOrphans'
  BY <1>2, DropOrphans DEF DeleteRoom
<1>3. ASSUME NEW h \in Hosts, NEW r \in Rooms, NEW i \in Invites,
             CreateInvite(h, r, i) \/ RevokeInvite(h, r, i)
      PROVE  NoOrphans'
  BY <1>3 DEF CreateInvite, RevokeInvite, StoreInvite, DropInvite, HostOf, Exists, NoOrphans,
              Types, TypeOK, people, rows
<1>4. ASSUME NEW h \in Hosts, NEW r \in Rooms, NEW u \in Users, Kick(h, r, u)
      PROVE  NoOrphans'
  BY <1>4, ExitOrphans DEF Kick, rows, tokens
<1>5. ASSUME NEW h \in Hosts, NEW r \in Rooms, NEW u \in Users, Ban(h, r, u)
      PROVE  NoOrphans'
  BY <1>5 DEF Ban, AddBan, MayTarget, HostOf, Exit, NoOrphans, Exists, Types, TypeOK, rows,
              tokens
<1>6. ASSUME NEW h \in Hosts, NEW r \in Rooms, NEW u \in Users, Unban(h, r, u)
      PROVE  NoOrphans'
  BY <1>6 DEF Unban, RemoveBan, NoOrphans, Exists, Types, TypeOK, rows, people, tokens
<1>7. ASSUME UNCHANGED <<host, maker, at, bans, invited>>
      PROVE  NoOrphans'
  BY <1>7 DEF NoOrphans, Exists
<1>8. ASSUME NEW i \in Invites, Expire(i)
      PROVE  NoOrphans'
  BY <1>7, <1>8 DEF Expire, rows, people
<1>9. ASSUME NEW u \in Users, CooldownEnds(u)
      PROVE  NoOrphans'
  BY <1>7, <1>9 DEF CooldownEnds, rows, tokens
<1>10. ASSUME NEW q \in Requests, NEW op, NEW u \in Users, NEW r \in Rooms, Arrive(q, op, u, r)
       PROVE  NoOrphans'
  BY <1>7, <1>10 DEF Arrive, rows, people, tokens
<1> QED
  BY <1>1, <1>2, <1>3, <1>4, <1>5, <1>6, <1>8, <1>9, <1>10, HandleOrphans
     DEF Next, HostRequest

-----------------------------------------------------------------------------
(* Bans and capacity *)

(***************************************************************************)
(* Some leave: whoever stays was there before, by the same way.            *)
(***************************************************************************)
LEMMA ExitBans ==
  ASSUME Types, BannedOnlyByLink, NEW S, Exit(S), bans' \subseteq bans
  PROVE  BannedOnlyByLink'
BY RoomsAssumption DEF Types, TypeOK, BannedOnlyByLink, Exit, RoomsAssumption

LEMMA HandleBans ==
  ASSUME Types, BannedOnlyByLink, NEW q \in Requests, Handle(q)
  PROVE  BannedOnlyByLink'
<1>0. req[q].user \in Users /\ req[q].room \in Rooms
  BY DEF Types, Handled, Handle, Handles, JoinRefused, JoinOpen, JoinPrivate, JoinWithInvite,
         JoinWithPin, JoinWrongPin,
         LinkRefused, JoinViaInvite, LeaveRefused, Leave, AnnounceClosed, CloseRoom, CloseAroundHost
<1>1. CASE JoinRefused(q) \/ LinkRefused(q) \/ LeaveRefused(q) \/ JoinWrongPin(q)
           \/ AnnounceClosed(q)
  BY <1>1 DEF JoinRefused, LinkRefused, LeaveRefused, Refuse, JoinWrongPin, AnnounceClosed,
              rows, people, tokens, BannedOnlyByLink
<1>2. CASE JoinOpen(q) \/ JoinPrivate(q)
  BY <1>0, <1>2 DEF JoinOpen, JoinPrivate, TurnedAway, Banned, Enter, BannedOnlyByLink, Types,
                    TypeOK
<1>3. ASSUME NEW i \in Invites, JoinViaInvite(q, i)
      PROVE  BannedOnlyByLink'
  BY <1>0, <1>3 DEF JoinViaInvite, Enter, BannedOnlyByLink, Types, TypeOK
<1>4. CASE Leave(q)
  BY <1>4, ExitBans DEF Leave
<1>5. CASE CloseRoom(q)
  BY <1>5, ExitBans DEF CloseRoom, Drop
<1>6. CASE CloseAroundHost(q)
  BY <1>6, ExitBans DEF CloseAroundHost, Drop, BannedOnlyByLink
<1> QED
  BY <1>1, <1>2, <1>3, <1>4, <1>5, <1>6 DEF Handle, JoinWithInvite, JoinWithPin

LEMMA StepBans ==
  ASSUME Types, BannedOnlyByLink, Next
  PROVE  BannedOnlyByLink'
<1>1. ASSUME UNCHANGED <<at, way, bans>>
      PROVE  BannedOnlyByLink'
  BY <1>1 DEF BannedOnlyByLink
<1>2. ASSUME NEW h \in Hosts, NEW r \in Rooms, CreateRoom(h, r)
      PROVE  BannedOnlyByLink'
  BY <1>1, <1>2 DEF CreateRoom, HasRoom, people
<1>3. ASSUME NEW r \in Rooms, DeleteRoom(r)
      PROVE  BannedOnlyByLink'
  BY <1>3, ExitBans DEF DeleteRoom, Drop
<1>4. ASSUME NEW h \in Hosts, NEW r \in Rooms, NEW i \in Invites,
             CreateInvite(h, r, i) \/ RevokeInvite(h, r, i)
      PROVE  BannedOnlyByLink'
  BY <1>1, <1>4 DEF CreateInvite, RevokeInvite, StoreInvite, DropInvite, people
<1>5. ASSUME NEW h \in Hosts, NEW r \in Rooms, NEW u \in Users, Kick(h, r, u)
      PROVE  BannedOnlyByLink'
  BY <1>5, ExitBans DEF Kick
<1>6. ASSUME NEW h \in Hosts, NEW r \in Rooms, NEW u \in Users, Ban(h, r, u)
      PROVE  BannedOnlyByLink'
  <2> SUFFICES ASSUME NEW v \in Users, <<at'[v], v>> \in bans'
               PROVE  way'[v] = "link"
    BY DEF BannedOnlyByLink
  <2>1. at'[v] # None
    BY <1>6, RoomsAssumption DEF Ban, AddBan, MayTarget, Types, TypeOK, RoomsAssumption
  <2>2. at'[v] = at[v] /\ way'[v] = way[v] /\ v \notin {u} \cap Members(r)
    BY <1>6, <2>1 DEF Ban, AddBan, MayTarget, Exit, Types, TypeOK
  <2>3. <<at[v], v>> \in bans
    BY <1>6, <2>2 DEF Ban, AddBan, MayTarget, Members
  <2> QED
    BY <2>2, <2>3 DEF BannedOnlyByLink
<1>7. ASSUME NEW h \in Hosts, NEW r \in Rooms, NEW u \in Users, Unban(h, r, u)
      PROVE  BannedOnlyByLink'
  BY <1>7 DEF Unban, RemoveBan, BannedOnlyByLink, people
<1>8. ASSUME NEW i \in Invites, Expire(i)
      PROVE  BannedOnlyByLink'
  BY <1>1, <1>8 DEF Expire, people
<1>9. ASSUME NEW u \in Users, CooldownEnds(u)
      PROVE  BannedOnlyByLink'
  BY <1>1, <1>9 DEF CooldownEnds
<1>10. ASSUME NEW q \in Requests, NEW op, NEW u \in Users, NEW r \in Rooms, Arrive(q, op, u, r)
       PROVE  BannedOnlyByLink'
  BY <1>1, <1>10 DEF Arrive, people
<1> QED
  BY <1>2, <1>3, <1>4, <1>5, <1>6, <1>7, <1>8, <1>9, <1>10, HandleBans
     DEF Next, HostRequest

(***************************************************************************)
(* Fewer at the door of a room are not more.                               *)
(***************************************************************************)
LEMMA ShrinkingDoors ==
  ASSUME DoorsFit, \A r \in Rooms : AtTheDoor(r)' \subseteq AtTheDoor(r)
  PROVE  DoorsFit'
<1> SUFFICES ASSUME NEW r \in Rooms
             PROVE  Cardinality(AtTheDoor(r))' <= MaxMembers
  BY DEF DoorsFit
<1>1. IsFiniteSet(AtTheDoor(r))
  BY FS_Subset, RoomsAssumption DEF AtTheDoor, RoomsAssumption
<1>2. IsFiniteSet(AtTheDoor(r)') /\ Cardinality(AtTheDoor(r)') <= Cardinality(AtTheDoor(r))
  BY <1>1, FS_Subset
<1>3. Cardinality(AtTheDoor(r)') \in Nat /\ Cardinality(AtTheDoor(r)) \in Nat
  BY <1>1, <1>2, FS_CardinalityType
<1> QED
  BY <1>2, <1>3, RoomsAssumption DEF DoorsFit, RoomsAssumption

(***************************************************************************)
(* Whoever comes through the door found the room not full.                 *)
(***************************************************************************)
LEMMA EnterDoor ==
  ASSUME Types, DoorsFit, NEW u \in Users, NEW r \in Rooms, ~Full(r), Enter(u, r, "door")
  PROVE  DoorsFit'
<1> SUFFICES ASSUME NEW s \in Rooms
             PROVE  Cardinality(AtTheDoor(s))' <= MaxMembers
  BY DEF DoorsFit
<1>0. IsFiniteSet(Members(r)) /\ IsFiniteSet(AtTheDoor(s))
  BY FS_Subset, RoomsAssumption DEF AtTheDoor, Members, RoomsAssumption
<1>1. Cardinality(Members(r)) \in Nat /\ Cardinality(Members(r)) < MaxMembers
  BY <1>0, FS_CardinalityType, RoomsAssumption DEF Full, RoomsAssumption
<1>2. CASE s = r
  <2>1. AtTheDoor(r)' \subseteq Members(r) \cup {u}
    BY DEF AtTheDoor, Members, Enter, Types, TypeOK
  <2>2. IsFiniteSet(Members(r) \cup {u}) /\ Cardinality(Members(r) \cup {u}) <= MaxMembers
    <3>1. /\ IsFiniteSet(Members(r) \cup {u})
          /\ Cardinality(Members(r) \cup {u}) =
               IF u \in Members(r) THEN Cardinality(Members(r)) ELSE Cardinality(Members(r)) + 1
      BY <1>0, FS_AddElement
    <3> QED
      BY <1>1, <3>1, RoomsAssumption DEF RoomsAssumption
  <2>3. /\ IsFiniteSet(AtTheDoor(r)')
        /\ Cardinality(AtTheDoor(r)') <= Cardinality(Members(r) \cup {u})
    BY <2>1, <2>2, FS_Subset
  <2>4. Cardinality(AtTheDoor(r)') \in Nat /\ Cardinality(Members(r) \cup {u}) \in Nat
    BY <2>2, <2>3, FS_CardinalityType
  <2> QED
    BY <1>2, <2>2, <2>3, <2>4, RoomsAssumption DEF RoomsAssumption
<1>3. CASE s # r
  <2>1. AtTheDoor(s)' \subseteq AtTheDoor(s)
    BY <1>3 DEF AtTheDoor, Enter, Types, TypeOK
  <2>2. IsFiniteSet(AtTheDoor(s)') /\ Cardinality(AtTheDoor(s)') <= Cardinality(AtTheDoor(s))
    BY <1>0, <2>1, FS_Subset
  <2>3. Cardinality(AtTheDoor(s)') \in Nat /\ Cardinality(AtTheDoor(s)) \in Nat
    BY <1>0, <2>2, FS_CardinalityType
  <2> QED
    BY <2>2, <2>3, RoomsAssumption DEF DoorsFit, RoomsAssumption
<1> QED
  BY <1>2, <1>3

LEMMA HandleDoors ==
  ASSUME Types, DoorsFit, NEW q \in Requests, Handle(q)
  PROVE  DoorsFit'
<1>0. req[q].user \in Users /\ req[q].room \in Rooms
  BY DEF Types, Handled, Handle, Handles, JoinRefused, JoinOpen, JoinPrivate, JoinWithInvite,
         JoinWithPin, JoinWrongPin,
         LinkRefused, JoinViaInvite, LeaveRefused, Leave, AnnounceClosed, CloseRoom, CloseAroundHost
<1>1. CASE UNCHANGED <<at, way>>
  BY <1>1, ShrinkingDoors DEF AtTheDoor
<1>2. CASE JoinOpen(q) \/ JoinPrivate(q)
  BY <1>0, <1>2, EnterDoor DEF JoinOpen, JoinPrivate, TurnedAway, Banned
<1>3. ASSUME NEW i \in Invites, JoinViaInvite(q, i)
      PROVE  DoorsFit'
  <2>1. CASE Enter(req[q].user, req[q].room, "link")
    BY <1>0, <2>1, ShrinkingDoors DEF AtTheDoor, Enter, Types, TypeOK
  <2> QED
    BY <1>1, <1>3, <2>1 DEF JoinViaInvite
<1>4. ASSUME NEW S, Exit(S)
      PROVE  DoorsFit'
  BY <1>4, RoomsAssumption, ShrinkingDoors DEF AtTheDoor, Exit, RoomsAssumption
<1> QED
  BY <1>1, <1>2, <1>3, <1>4
     DEF Handle, JoinWithInvite, JoinWithPin, JoinRefused, JoinWrongPin, LinkRefused,
         LeaveRefused, Refuse, Leave,
         AnnounceClosed, CloseRoom, CloseAroundHost, Drop, people

LEMMA StepDoors ==
  ASSUME Types, DoorsFit, Next
  PROVE  DoorsFit'
<1>1. CASE UNCHANGED <<at, way>>
  BY <1>1, ShrinkingDoors DEF AtTheDoor
<1>2. ASSUME NEW S, Exit(S)
      PROVE  DoorsFit'
  BY <1>2, RoomsAssumption, ShrinkingDoors DEF AtTheDoor, Exit, RoomsAssumption
<1>3. CASE HostRequest
  BY <1>1, <1>2, <1>3 DEF HostRequest, CreateRoom, HasRoom, CreateInvite, RevokeInvite, Kick,
                          Ban, Unban, people
<1>4. CASE \E r \in Rooms : DeleteRoom(r)
  BY <1>2, <1>4 DEF DeleteRoom, Drop
<1>5. CASE (\E i \in Invites : Expire(i)) \/ \E u \in Users : CooldownEnds(u)
  BY <1>1, <1>5 DEF Expire, CooldownEnds, people
<1>6. ASSUME NEW q \in Requests, NEW op, NEW u \in Users, NEW r \in Rooms, Arrive(q, op, u, r)
      PROVE  DoorsFit'
  BY <1>1, <1>6 DEF Arrive, people
<1> QED
  BY <1>3, <1>4, <1>5, <1>6, HandleDoors DEF Next

-----------------------------------------------------------------------------

LEMMA StepIInv == IInv /\ [Next]_vars => IInv'
<1> SUFFICES ASSUME IInv, [Next]_vars
             PROVE  IInv'
  OBVIOUS
<1>1. CASE Next
  BY <1>1, StepTypes, StepMade, StepOrphans, StepBans, StepDoors DEF IInv
<1>2. CASE UNCHANGED vars
  <2>1. UNCHANGED <<host, maker, private, spent, at, way, locked, bans, invited, uses, expired,
                    req>>
    BY <1>2 DEF vars, rows, people, tokens
  <2>2. DoorsFit'
    BY <2>1, ShrinkingDoors DEF IInv, AtTheDoor
  <2> QED
    BY <2>1, <2>2 DEF IInv, Types, TypeOK, Handled, Made, NoOrphans, Exists, BannedOnlyByLink
<1> QED
  BY <1>1, <1>2

(***************************************************************************)
(* A room beyond its capacity holds somebody who is not at the door.       *)
(***************************************************************************)
LEMMA DoorsFitOverfull ==
  ASSUME Types, DoorsFit
  PROVE  OverfullOnlyByLink
<1> SUFFICES ASSUME NEW r \in Rooms, Cardinality(Members(r)) > MaxMembers,
                    \A u \in Members(r) : way[u] # "link"
             PROVE  FALSE
  BY DEF OverfullOnlyByLink
<1>1. Members(r) = AtTheDoor(r)
  BY DEF Members, AtTheDoor, Types, TypeOK
<1>2. IsFiniteSet(Members(r))
  BY FS_Subset, RoomsAssumption DEF Members, RoomsAssumption
<1>3. Cardinality(Members(r)) \in Nat
  BY <1>2, FS_CardinalityType
<1> QED
  BY <1>1, <1>3, RoomsAssumption DEF DoorsFit, RoomsAssumption

(***************************************************************************)
(* A request past Leave ends only when there is no such room, or when      *)
(* PostgreSQL has kept the room of a host who is back alone.               *)
(***************************************************************************)
LEMMA DepartureEnds ==
  ASSUME Types, Next, NEW q \in Requests, req[q].op \in {"left", "closing"}, req'[q].op = "idle"
  PROVE  \/ host'[req[q].room] = None
         \/ Dialect = "postgresql" /\ {u \in Users : at'[u] = req[q].room} = {req[q].user}
<1>0. req[q].room \in Rooms
  BY DEF Types, Handled
<1>1. req'[q] # req[q]
  OBVIOUS
<1>2. ASSUME NEW p \in Requests, NEW op, NEW u, NEW r, Arrive(p, op, u, r)
      PROVE  FALSE
  BY <1>1, <1>2 DEF Arrive, Idle, Types, TypeOK
<1>3. PICK p \in Requests : Handle(p)
  BY <1>1, <1>2 DEF Next, HostRequest, CreateRoom, HasRoom, CreateInvite, RevokeInvite, Kick,
                    Ban, Unban,
                    DeleteRoom, Expire, CooldownEnds
<1>4. \A x \in Requests : x # p => req'[x] = req[x]
  BY <1>3 DEF Handle, JoinRefused, JoinOpen, JoinPrivate, JoinWithInvite, JoinWithPin,
              JoinWrongPin, LinkRefused, Refuse,
              JoinViaInvite, LeaveRefused, Leave, AnnounceClosed, CloseRoom, CloseAroundHost,
              End, Types, TypeOK
<1>5. p = q
  BY <1>1, <1>4
<1>6. AnnounceClosed(q) \/ CloseRoom(q) \/ CloseAroundHost(q)
  BY <1>3, <1>5 DEF Handle, Handles, JoinRefused, JoinOpen, JoinPrivate, JoinWithInvite,
                    JoinWithPin, JoinWrongPin, LinkRefused,
                    JoinViaInvite, LeaveRefused, Leave
<1>7. CASE AnnounceClosed(q)
  BY <1>0, <1>7 DEF AnnounceClosed, Exists, rows, Types, TypeOK
<1>8. CASE CloseRoom(q)
  BY <1>0, <1>8 DEF CloseRoom, Drop, Types, TypeOK
<1>9. CASE CloseAroundHost(q)
  <2>1. CASE Dialect = "sqlite"
    BY <1>0, <1>9, <2>1 DEF CloseAroundHost, Drop, Types, TypeOK
  <2>2. CASE Dialect = "postgresql"
    BY <1>9, <2>2 DEF CloseAroundHost, BackAlone, Members
  <2> QED
    BY <2>1, <2>2, RoomsAssumption DEF RoomsAssumption
<1> QED
  BY <1>6, <1>7, <1>8, <1>9

(***************************************************************************)
(* The types of rooms, members, invites and requests.                      *)
(***************************************************************************)
THEOREM TypeCorrect == Spec => []TypeOK
<1>1. IInv => TypeOK
  BY DEF IInv, Types
<1> QED
  BY <1>1, InitIInv, StepIInv, PTL DEF Spec

(***************************************************************************)
(* Nothing is left of a room that is gone, but on SQLite its host.         *)
(***************************************************************************)
THEOREM NothingOutlivesItsRoom == Spec => []NoOrphans
<1>1. IInv => NoOrphans
  BY DEF IInv
<1> QED
  BY <1>1, InitIInv, StepIInv, PTL DEF Spec

(***************************************************************************)
(* Only an invite link leads a banned user into the room ...               *)
(***************************************************************************)
THEOREM BansHoldAtTheDoor == Spec => []BannedOnlyByLink
<1>1. IInv => BannedOnlyByLink
  BY DEF IInv
<1> QED
  BY <1>1, InitIInv, StepIInv, PTL DEF Spec

(***************************************************************************)
(* ... and only with one does a room hold more than it may.                *)
(***************************************************************************)
THEOREM CapacityHoldsAtTheDoor == Spec => []OverfullOnlyByLink
<1>1. IInv => OverfullOnlyByLink
  BY DoorsFitOverfull DEF IInv
<1> QED
  BY <1>1, InitIInv, StepIInv, PTL DEF Spec

(***************************************************************************)
(* The room of a host who has left is gone when the host is answered, or,  *)
(* on PostgreSQL, the host's alone.                                        *)
(***************************************************************************)
THEOREM DepartureClosesRoom == Spec => HostGoneRoomGone
<1>1. IInv /\ [Next]_vars =>
        [\A q \in Requests :
           req[q].op \in {"left", "closing"} /\ req'[q].op = "idle"
             => \/ host'[req[q].room] = None
                \/ Dialect = "postgresql" /\ {u \in Users : at'[u] = req[q].room} = {req[q].user}
        ]_vars
  BY DepartureEnds DEF IInv
<1> QED
  BY <1>1, InitIInv, StepIInv, PTL DEF Spec, HostGoneRoomGone
=============================================================================
