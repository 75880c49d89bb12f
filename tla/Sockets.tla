------------------------------ MODULE Sockets ------------------------------
(***************************************************************************)
(* The WebSockets of one room: the handshake, the three maps of the        *)
(* ConnectionManager, the two loops of an endpoint, broadcasts, and the    *)
(* eviction of a member.                                                   *)
(*                                                                         *)
(* A socket that the server has closed refuses every further send; what    *)
(* the transport does is external: a client goes away or falls silent, and *)
(* a closed connection is reported to the receive loop in the end.         *)
(***************************************************************************)
EXTENDS FiniteSets

CONSTANTS
  Users,
  Sockets,  \* the connections that are ever opened
  Owner,    \* the user each of them belongs to
  NoSocket

ASSUME SocketsAssumption ==
  /\ Owner \in [Sockets -> Users]
  /\ NoSocket \notin Sockets

VARIABLES
  members,    \* the users whose room_id is the room
  stage,      \* where each endpoint is
  beat,       \* the endpoints whose heartbeat loop has not returned
  known,      \* room_id is a key of active_connections
  registered, \* active_connections[room_id]
  owned,      \* the keys of _socket_user
  pong,       \* _last_pong: "none", or whether the deadline has passed
  shut,       \* the sockets close() was called on
  client,     \* the other side: "up", "silent" when it answers no more, "gone"
              \* when receive_text will report the disconnection
  evict,      \* the eviction of each user that is under way
  evicted,    \* the users who were put out since they last came in (history)
  late        \* the sockets registered for a user whose eviction had already
              \* looked at the registry (history)

registry == <<known, registered, owned, pong>>
wire == <<shut, client>>
moderation == <<evict, evicted>>
vars == <<members, stage, beat, registry, wire, moderation, late>>

Stages == {"idle", "admitted", "open", "ending", "over"}
NoEviction == [step |-> "idle", targets |-> {}, now |-> NoSocket]

Init ==
  /\ members = {}
  /\ stage = [s \in Sockets |-> "idle"]
  /\ beat = {}
  /\ known = FALSE
  /\ registered = {}
  /\ owned = {}
  /\ pong = [s \in Sockets |-> "none"]
  /\ shut = {}
  /\ client = [s \in Sockets |-> "up"]
  /\ evict = [u \in Users |-> NoEviction]
  /\ evicted = {}
  /\ late = {}

Move(s, to) == stage' = [stage EXCEPT ![s] = to]
Open(s) == stage[s] = "open"
Gone(s) == client[s] = "gone"

-----------------------------------------------------------------------------
(* The ConnectionManager *)

Register(s) ==
  /\ known' = TRUE
  /\ registered' = registered \cup {s}
  /\ owned' = owned \cup {s}
  /\ pong' = [pong EXCEPT ![s] = "fresh"]

(***************************************************************************)
(* Variant that leaves the empty set of the room behind.                   *)
(***************************************************************************)
UnregisterOnly(s) ==
  /\ registered' = registered \ {s}
  /\ owned' = owned \ {s}
  /\ pong' = [pong EXCEPT ![s] = "none"]
  /\ UNCHANGED known

(***************************************************************************)
(* disconnect, for a socket in any of the maps or in none.                 *)
(***************************************************************************)
Unregister(s) ==
  /\ registered' = registered \ {s}
  /\ known' = (known /\ registered' # {})
  /\ owned' = owned \ {s}
  /\ pong' = [pong EXCEPT ![s] = "none"]

(***************************************************************************)
(* _safe_send, from a broadcast that found the socket in the room at some  *)
(* time: the send fails, and the socket is forgotten.                      *)
(***************************************************************************)
SendFails(s) ==
  /\ stage[s] \in {"open", "ending", "over"}
  /\ s \in shut \/ Gone(s)
  /\ Unregister(s)
  /\ UNCHANGED <<members, stage, beat, wire, moderation, late>>

-----------------------------------------------------------------------------
(* The endpoint *)

(***************************************************************************)
(* authenticate_ws_connection, as far as membership is concerned.          *)
(***************************************************************************)
Authenticate(s) ==
  /\ stage[s] = "idle"
  /\ Owner[s] \in members
  /\ Move(s, "admitted")
  /\ UNCHANGED <<members, beat, registry, wire, moderation, late>>

(***************************************************************************)
(* connect, when accept has been sent; then the two loops are started.     *)
(***************************************************************************)
Accept(s) ==
  /\ stage[s] = "admitted"
  /\ Move(s, "open")
  /\ beat' = beat \cup {s}
  /\ Register(s)
  /\ late' = IF Owner[s] \in evicted /\ evict[Owner[s]].step # "announcing"
             THEN late \cup {s} ELSE late
  /\ UNCHANGED <<members, wire, moderation>>

(***************************************************************************)
(* The client is gone before accept: nothing was registered.               *)
(***************************************************************************)
AcceptFails(s) ==
  /\ stage[s] = "admitted"
  /\ Gone(s)
  /\ Move(s, "over")
  /\ UNCHANGED <<members, beat, registry, wire, moderation, late>>

(***************************************************************************)
(* record_pong puts the socket into _last_pong, registered or not.         *)
(***************************************************************************)
Pong(s) ==
  /\ Open(s)
  /\ client[s] = "up"
  /\ pong' = [pong EXCEPT ![s] = "fresh"]
  /\ UNCHANGED <<members, stage, beat, known, registered, owned, wire, moderation, late>>

(***************************************************************************)
(* Variant with two tasks that do not belong together.                     *)
(***************************************************************************)
ReceiveEndsAlone(s) ==
  /\ Open(s)
  /\ Gone(s)
  /\ Move(s, "ending")
  /\ UNCHANGED <<members, beat, registry, wire, moderation, late>>

(***************************************************************************)
(* receive_text raises; the task group cancels the heartbeat.              *)
(***************************************************************************)
ReceiveEnds(s) ==
  /\ Open(s)
  /\ Gone(s)
  /\ Move(s, "ending")
  /\ beat' = beat \ {s}
  /\ UNCHANGED <<members, registry, wire, moderation, late>>

(***************************************************************************)
(* is_stale: also when the socket is not in _last_pong.                    *)
(***************************************************************************)
Stale(s) == pong[s] # "fresh"

(***************************************************************************)
(* A turn of the heartbeat loop on a stale socket closes it and returns;   *)
(* the receive loop goes on.                                               *)
(***************************************************************************)
HeartbeatCloses(s) ==
  /\ Open(s) /\ s \in beat
  /\ Stale(s) /\ s \notin shut
  /\ shut' = shut \cup {s}
  /\ beat' = beat \ {s}
  /\ UNCHANGED <<members, stage, registry, client, moderation, late>>

(***************************************************************************)
(* close() raises: on a socket already closed always, on one whose client  *)
(* is gone perhaps.  The task group cancels the receive loop.              *)
(***************************************************************************)
HeartbeatRaises(s) ==
  /\ Open(s) /\ s \in beat
  /\ Stale(s) /\ (s \in shut \/ Gone(s))
  /\ Move(s, "ending")
  /\ beat' = beat \ {s}
  /\ UNCHANGED <<members, registry, wire, moderation, late>>

(***************************************************************************)
(* The ping cannot be sent: the loop returns.                              *)
(***************************************************************************)
PingFails(s) ==
  /\ Open(s) /\ s \in beat
  /\ ~Stale(s) /\ (s \in shut \/ Gone(s))
  /\ beat' = beat \ {s}
  /\ UNCHANGED <<members, stage, registry, wire, moderation, late>>

Heartbeat(s) == HeartbeatCloses(s) \/ HeartbeatRaises(s) \/ PingFails(s)

(***************************************************************************)
(* The `finally` of the endpoint; when it has returned, the server tears   *)
(* the connection down.                                                    *)
(***************************************************************************)
Finally(s) ==
  /\ stage[s] = "ending"
  /\ Move(s, "over")
  /\ Unregister(s)
  /\ shut' = shut \cup {s}
  /\ client' = [client EXCEPT ![s] = "gone"]
  /\ late' = late \ {s}
  /\ UNCHANGED <<members, beat, moderation>>

-----------------------------------------------------------------------------
(* Members, and their eviction *)

Join(u) ==
  /\ u \notin members
  /\ members' = members \cup {u}
  /\ evicted' = evicted \ {u}
  /\ UNCHANGED <<stage, beat, registry, wire, evict, late>>

(***************************************************************************)
(* leave_room closes no socket.                                            *)
(***************************************************************************)
Leave(u) ==
  /\ u \in members
  /\ members' = members \ {u}
  /\ UNCHANGED <<stage, beat, registry, wire, moderation, late>>

SocketsOf(u) == {s \in registered : Owner[s] = u}

(***************************************************************************)
(* _evict up to its broadcast.  One eviction of a user at a time.          *)
(***************************************************************************)
Evict(u) ==
  /\ evict[u].step = "idle"
  /\ u \in members
  /\ members' = members \ {u}
  /\ evicted' = evicted \cup {u}
  /\ evict' = [evict EXCEPT ![u].step = "announcing"]
  /\ UNCHANGED <<stage, beat, registry, wire, late>>

(***************************************************************************)
(* Variant that leaves out the sockets which have missed a pong.           *)
(***************************************************************************)
TargetResponsive(u) ==
  /\ evict[u].step = "announcing"
  /\ evict' = [evict EXCEPT ![u].step = "closing",
                            ![u].targets = {s \in SocketsOf(u) : pong[s] = "fresh"}]
  /\ UNCHANGED <<members, stage, beat, registry, wire, evicted, late>>

(***************************************************************************)
(* disconnect_user: the sockets that are registered now.                   *)
(***************************************************************************)
Target(u) ==
  /\ evict[u].step = "announcing"
  /\ evict' = [evict EXCEPT ![u].step = "closing", ![u].targets = SocketsOf(u)]
  /\ UNCHANGED <<members, stage, beat, registry, wire, evicted, late>>

(***************************************************************************)
(* Variant that forgets the socket and leaves the connection to itself.    *)
(***************************************************************************)
CloseNothing(u, s) ==
  /\ evict[u].step = "closing" /\ evict[u].now = NoSocket
  /\ s \in evict[u].targets
  /\ evict' = [evict EXCEPT ![u].now = s, ![u].targets = @ \ {s}]
  /\ UNCHANGED <<members, stage, beat, registry, wire, evicted, late>>

(***************************************************************************)
(* One target: close, whatever it raises ...                               *)
(***************************************************************************)
CloseTarget(u, s) ==
  /\ evict[u].step = "closing" /\ evict[u].now = NoSocket
  /\ s \in evict[u].targets
  /\ evict' = [evict EXCEPT ![u].now = s, ![u].targets = @ \ {s}]
  /\ shut' = shut \cup {s}
  /\ UNCHANGED <<members, stage, beat, registry, client, evicted, late>>

(***************************************************************************)
(* ... then disconnect.                                                    *)
(***************************************************************************)
ForgetTarget(u) ==
  /\ evict[u].now # NoSocket
  /\ Unregister(evict[u].now)
  /\ evict' = [evict EXCEPT ![u].now = NoSocket]
  /\ UNCHANGED <<members, stage, beat, wire, evicted, late>>

EvictionEnds(u) ==
  /\ evict[u].step = "closing"
  /\ evict[u].targets = {} /\ evict[u].now = NoSocket
  /\ evict' = [evict EXCEPT ![u] = NoEviction]
  /\ UNCHANGED <<members, stage, beat, registry, wire, evicted, late>>

(***************************************************************************)
(* A ban of somebody who is not in the room goes to disconnect_user at     *)
(* once.                                                                   *)
(***************************************************************************)
BanAbsent(u) ==
  /\ evict[u].step = "idle"
  /\ u \notin members
  /\ evicted' = evicted \cup {u}
  /\ evict' = [evict EXCEPT ![u].step = "closing", ![u].targets = SocketsOf(u)]
  /\ UNCHANGED <<members, stage, beat, registry, wire, late>>

EvictionStep(u) ==
  Target(u) \/ (\E s \in Sockets : CloseTarget(u, s)) \/ ForgetTarget(u) \/ EvictionEnds(u)

-----------------------------------------------------------------------------
(* Clients and network *)

GoesAway(s) ==
  /\ stage[s] \in {"admitted", "open"}
  /\ ~Gone(s)
  /\ client' = [client EXCEPT ![s] = "gone"]
  /\ UNCHANGED <<members, stage, beat, registry, shut, moderation, late>>

FallsSilent(s) ==
  /\ Open(s)
  /\ client[s] = "up"
  /\ client' = [client EXCEPT ![s] = "silent"]
  /\ UNCHANGED <<members, stage, beat, registry, shut, moderation, late>>

(***************************************************************************)
(* WS_HEARTBEAT_INTERVAL + TIMEOUT pass without a pong.                    *)
(***************************************************************************)
DeadlinePasses(s) ==
  /\ pong[s] = "fresh"
  /\ pong' = [pong EXCEPT ![s] = "late"]
  /\ UNCHANGED <<members, stage, beat, known, registered, owned, wire, moderation, late>>

EndpointStep(s) ==
  Accept(s) \/ AcceptFails(s) \/ ReceiveEnds(s) \/ Heartbeat(s) \/ Finally(s)

Next ==
  \/ \E s \in Sockets :
       \/ Authenticate(s) \/ EndpointStep(s) \/ Pong(s) \/ SendFails(s)
       \/ GoesAway(s) \/ FallsSilent(s) \/ DeadlinePasses(s)
  \/ \E u \in Users : Join(u) \/ Leave(u) \/ Evict(u) \/ BanAbsent(u) \/ EvictionStep(u)

(***************************************************************************)
(* The event loop runs the two loops of every endpoint and goes on with an *)
(* eviction.  A silent client's deadline passes, and the transport reports *)
(* a connection the server has closed, if only after its own timeout.      *)
(* Clients, members and hosts owe nothing.                                 *)
(***************************************************************************)
Fairness ==
  /\ \A s \in Sockets :
       /\ WF_vars(Accept(s)) /\ WF_vars(ReceiveEnds(s))
       /\ WF_vars(Heartbeat(s)) /\ WF_vars(Finally(s))
       /\ WF_vars(client[s] = "silent" /\ DeadlinePasses(s))
       /\ WF_vars(s \in shut /\ GoesAway(s))
  /\ \A u \in Users : WF_vars(EvictionStep(u))

Spec == Init /\ [][Next]_vars /\ Fairness

-----------------------------------------------------------------------------
(* Properties *)

(***************************************************************************)
(* The type invariant of the registry, the endpoints and the evictions; a  *)
(* heartbeat loop runs only in an open endpoint (the task group).          *)
(***************************************************************************)
TypeOK ==
  /\ members \subseteq Users
  /\ stage \in [Sockets -> Stages]
  /\ beat \subseteq {s \in Sockets : Open(s)}
  /\ known \in BOOLEAN
  /\ registered \subseteq Sockets
  /\ owned \subseteq Sockets
  /\ pong \in [Sockets -> {"none", "fresh", "late"}]
  /\ shut \subseteq Sockets
  /\ client \in [Sockets -> {"up", "silent", "gone"}]
  /\ evict \in [Users -> [step : {"idle", "announcing", "closing"},
                          targets : SUBSET Sockets, now : Sockets \cup {NoSocket}]]
  /\ evicted \subseteq Users
  /\ late \subseteq Sockets

(***************************************************************************)
(* The three maps of the manager agree, whoever has unregistered a socket  *)
(* and whatever its loops recorded afterwards: an endpoint that is over is *)
(* in none of them, every socket of a room has its user and its pong, and  *)
(* a room has a key as long as it has sockets (connect, disconnect,        *)
(* record_pong).                                                           *)
(***************************************************************************)
RegistryExact ==
  /\ known <=> registered # {}
  /\ registered = owned
  /\ \A s \in Sockets :
       /\ s \in registered => stage[s] \in {"open", "ending"} /\ pong[s] # "none"
       /\ pong[s] # "none" => stage[s] \in {"open", "ending"}

(***************************************************************************)
(* "Force-close every socket a given user holds in a room": after an       *)
(* eviction the user has no socket in the room but one that was being      *)
(* accepted when the registry was read (_evict, disconnect_user, connect). *)
(***************************************************************************)
EvictedAreOut ==
  \A s \in registered :
    Owner[s] \in evicted /\ evict[Owner[s]].step = "idle" => s \in late

(***************************************************************************)
(* No endpoint lives on unseen: it ends when its client answers no more,   *)
(* although the connection seems up and every send succeeds, and when its  *)
(* socket has been unregistered, although its client answers the pings     *)
(* (_heartbeat_loop, is_stale, disconnect_user, _safe_send).               *)
(***************************************************************************)
CutOffEnds ==
  \A s \in Sockets :
    client[s] = "silent" \/ (Open(s) /\ s \notin registered) ~> stage[s] = "over"
=============================================================================
