---------------------------- MODULE SocketsProofs ----------------------------
(***************************************************************************)
(* For any number of users and sockets: the maps of the ConnectionManager  *)
(* agree, and an eviction that is over has left its user no socket but     *)
(* those that were being accepted.                                         *)
(***************************************************************************)
EXTENDS Sockets, TLAPS

(***************************************************************************)
(* An eviction that is not under way has nothing left to do; one that      *)
(* holds a socket is closing.                                              *)
(***************************************************************************)
EvictionState ==
  \A u \in Users :
    /\ evict[u].step = "idle" => evict[u] = NoEviction
    /\ evict[u].now # NoSocket => evict[u].step = "closing"

(***************************************************************************)
(* From the reading of the registry to the end of an eviction, a socket of *)
(* the user is still to be closed, is the one being closed, or came later. *)
(***************************************************************************)
StillToClose ==
  \A s \in registered :
    LET e == evict[Owner[s]] IN
    Owner[s] \in evicted /\ e.step # "announcing" => s \in late \cup e.targets \cup {e.now}

Registry == TypeOK /\ RegistryExact
IInv == Registry /\ EvictionState /\ StillToClose

LEMMA InitIInv == Init => IInv
<1> SUFFICES ASSUME Init
             PROVE  IInv
  OBVIOUS
<1>1. NoEviction \in [step : {"idle", "announcing", "closing"},
                      targets : SUBSET Sockets, now : Sockets \cup {NoSocket}]
  BY DEF NoEviction
<1>2. TypeOK
  BY <1>1 DEF Init, TypeOK, Stages
<1>3. RegistryExact
  BY DEF Init, RegistryExact
<1>4. EvictionState /\ StillToClose
  BY DEF Init, EvictionState, StillToClose, NoEviction
<1> QED
  BY <1>2, <1>3, <1>4 DEF IInv, Registry

-----------------------------------------------------------------------------
(* The registry *)

(***************************************************************************)
(* disconnect keeps the maps in agreement, whatever they hold of the       *)
(* socket.                                                                 *)
(***************************************************************************)
LEMMA UnregisterExact ==
  ASSUME Registry, NEW s \in Sockets, Unregister(s)
  PROVE  /\ known' \in BOOLEAN
         /\ registered' = registered \ {s}
         /\ owned' = registered'
         /\ pong' \in [Sockets -> {"none", "fresh", "late"}]
         /\ known' <=> registered' # {}
         /\ pong'[s] = "none"
         /\ \A x \in Sockets \ {s} : pong'[x] = pong[x]
BY DEF Registry, TypeOK, RegistryExact, Unregister

LEMMA EndpointRegistry ==
  ASSUME Registry, NEW s \in Sockets, EndpointStep(s)
  PROVE  Registry'
<1> USE DEF Registry, Open, Stages
<1>1. CASE Accept(s)
  BY <1>1 DEF Accept, Move, Register, TypeOK, RegistryExact, wire, moderation
<1>2. CASE AcceptFails(s) \/ ReceiveEnds(s)
  BY <1>2 DEF AcceptFails, ReceiveEnds, Move, TypeOK, RegistryExact, registry, wire, moderation
<1>3. CASE Heartbeat(s)
  BY <1>3 DEF Heartbeat, HeartbeatCloses, HeartbeatRaises, PingFails, Move,
              TypeOK, RegistryExact, registry, wire, moderation
<1>4. CASE Finally(s)
  <2>1. TypeOK'
    BY <1>4, UnregisterExact DEF Finally, Move, TypeOK, moderation
  <2>2. RegistryExact'
    BY <1>4, UnregisterExact DEF Finally, Move, TypeOK, RegistryExact
  <2> QED
    BY <2>1, <2>2
<1> QED
  BY <1>1, <1>2, <1>3, <1>4 DEF EndpointStep

LEMMA EvictionRegistry ==
  ASSUME Registry, NEW u \in Users,
         Join(u) \/ Leave(u) \/ Evict(u) \/ BanAbsent(u) \/ EvictionStep(u)
  PROVE  Registry'
<1>1. CASE Join(u) \/ Leave(u) \/ Evict(u) \/ BanAbsent(u) \/ Target(u) \/ EvictionEnds(u)
  <2>1. evict' \in [Users -> [step : {"idle", "announcing", "closing"},
                              targets : SUBSET Sockets, now : Sockets \cup {NoSocket}]]
    BY <1>1 DEF Registry, TypeOK, Join, Leave, Evict, BanAbsent, Target, EvictionEnds,
                SocketsOf, NoEviction, moderation
  <2> QED
    BY <1>1, <2>1 DEF Registry, TypeOK, RegistryExact, Open, Join, Leave, Evict, BanAbsent, Target,
                      EvictionEnds, registry, wire, moderation
<1>2. ASSUME NEW s \in Sockets, CloseTarget(u, s)
      PROVE  Registry'
  BY <1>2 DEF Registry, TypeOK, RegistryExact, Open, CloseTarget, registry
<1>3. CASE ForgetTarget(u)
  <2>1. evict[u].now \in Sockets
    BY <1>3 DEF ForgetTarget, Registry, TypeOK
  <2>2. TypeOK'
    BY <1>3, <2>1, UnregisterExact DEF ForgetTarget, Registry, TypeOK, Open, wire
  <2>3. RegistryExact'
    BY <1>3, <2>1, UnregisterExact DEF ForgetTarget, Registry, RegistryExact
  <2> QED
    BY <2>2, <2>3 DEF Registry
<1> QED
  BY <1>1, <1>2, <1>3 DEF EvictionStep

LEMMA StepRegistry ==
  ASSUME Registry, Next
  PROVE  Registry'
<1>1. ASSUME NEW s \in Sockets, Pong(s) \/ DeadlinePasses(s)
      PROVE  Registry'
  BY <1>1 DEF Pong, DeadlinePasses, Registry, TypeOK, RegistryExact, Open, wire, moderation
<1>2. ASSUME NEW s \in Sockets, SendFails(s)
      PROVE  Registry'
  <2>1. TypeOK'
    BY <1>2, UnregisterExact DEF SendFails, Registry, TypeOK, Open, wire, moderation
  <2>2. RegistryExact'
    BY <1>2, UnregisterExact DEF SendFails, Registry, RegistryExact
  <2> QED
    BY <2>1, <2>2 DEF Registry
<1>3. ASSUME NEW s \in Sockets, Authenticate(s) \/ GoesAway(s) \/ FallsSilent(s)
      PROVE  Registry'
  BY <1>3 DEF Authenticate, GoesAway, FallsSilent, Move, Registry, TypeOK, RegistryExact, Open,
              Stages, registry, wire, moderation
<1> QED
  BY <1>1, <1>2, <1>3, EndpointRegistry, EvictionRegistry DEF Next

-----------------------------------------------------------------------------
(* Evictions *)

LEMMA StepEvictionState ==
  ASSUME TypeOK, EvictionState, Next
  PROVE  EvictionState'
<1>1. CASE UNCHANGED evict
  BY <1>1 DEF EvictionState
<1>2. ASSUME NEW u \in Users, Evict(u) \/ BanAbsent(u) \/ Target(u) \/ EvictionEnds(u)
                              \/ ForgetTarget(u)
      PROVE  EvictionState'
  <2>1. \A v \in Users \ {u} : evict'[v] = evict[v]
    BY <1>2 DEF Evict, BanAbsent, Target, EvictionEnds, ForgetTarget, TypeOK
  <2>2. /\ evict'[u].step = "idle" => evict'[u] = NoEviction
        /\ evict'[u].now # NoSocket => evict'[u].step = "closing"
    <3>1. CASE EvictionEnds(u)
      BY <3>1 DEF EvictionEnds, NoEviction, TypeOK
    <3>2. CASE ForgetTarget(u)
      BY <3>2 DEF ForgetTarget, EvictionState, TypeOK
    <3>3. CASE Evict(u) \/ BanAbsent(u)
      BY <3>3 DEF Evict, BanAbsent, NoEviction, EvictionState, TypeOK
    <3>4. CASE Target(u)
      BY <3>4 DEF Target, EvictionState, TypeOK
    <3> QED
      BY <1>2, <3>1, <3>2, <3>3, <3>4
  <2> QED
    BY <2>1, <2>2 DEF EvictionState
<1>3. ASSUME NEW u \in Users, NEW s \in Sockets, CloseTarget(u, s)
      PROVE  EvictionState'
  BY <1>3 DEF CloseTarget, EvictionState, TypeOK
<1> QED
  BY <1>1, <1>2, <1>3
     DEF Next, EndpointStep, Heartbeat, EvictionStep, Authenticate, Accept, AcceptFails, ReceiveEnds,
         HeartbeatCloses, HeartbeatRaises, PingFails, Finally, Pong, SendFails, GoesAway,
         FallsSilent, DeadlinePasses, Join, Leave, moderation

(***************************************************************************)
(* Sockets are forgotten, and none that was late but is registered ceases  *)
(* to be.                                                                  *)
(***************************************************************************)
LEMMA FewerToClose ==
  ASSUME StillToClose, registered' \subseteq registered, UNCHANGED evict, evicted' \subseteq evicted,
         \A s \in registered' : s \in late => s \in late'
  PROVE  StillToClose'
BY DEF StillToClose

LEMMA StepStillToClose ==
  ASSUME IInv, Next
  PROVE  StillToClose'
<1> USE SocketsAssumption DEF SocketsAssumption, IInv, Registry
<1>1. CASE UNCHANGED <<registered, evict, evicted, late>>
  BY <1>1 DEF StillToClose
<1>2. ASSUME NEW s \in Sockets, Accept(s)
      PROVE  StillToClose'
  BY <1>2 DEF Accept, Register, StillToClose, TypeOK, moderation
<1>3. ASSUME NEW s \in Sockets, SendFails(s) \/ Finally(s)
      PROVE  StillToClose'
  BY <1>3, FewerToClose, UnregisterExact DEF SendFails, Finally, moderation
<1>4. ASSUME NEW u \in Users, Join(u)
      PROVE  StillToClose'
  BY <1>4, FewerToClose DEF Join, registry
<1>5. ASSUME NEW u \in Users, Evict(u)
      PROVE  StillToClose'
  BY <1>5 DEF Evict, StillToClose, TypeOK, registry
<1>6. ASSUME NEW u \in Users, Target(u) \/ BanAbsent(u)
      PROVE  StillToClose'
  <2> SUFFICES ASSUME NEW s \in registered, Owner[s] \in evicted',
                      evict'[Owner[s]].step # "announcing"
               PROVE  s \in late \cup evict'[Owner[s]].targets \cup {evict'[Owner[s]].now}
    BY <1>6 DEF Target, BanAbsent, registry, StillToClose
  <2>1. CASE Owner[s] = u
    BY <1>6, <2>1 DEF Target, BanAbsent, SocketsOf, TypeOK
  <2>2. CASE Owner[s] # u
    BY <1>6, <2>2 DEF Target, BanAbsent, StillToClose, TypeOK
  <2> QED
    BY <2>1, <2>2
<1>7. ASSUME NEW u \in Users, NEW x \in Sockets, CloseTarget(u, x)
      PROVE  StillToClose'
  BY <1>7 DEF CloseTarget, StillToClose, EvictionState, TypeOK, registry
<1>8. ASSUME NEW u \in Users, ForgetTarget(u)
      PROVE  StillToClose'
  <2>1. evict[u].now \in Sockets
    BY <1>8 DEF ForgetTarget, TypeOK
  <2>2. registered' = registered \ {evict[u].now}
    BY <1>8, <2>1, UnregisterExact DEF ForgetTarget
  <2> QED
    BY <1>8, <2>2 DEF ForgetTarget, StillToClose, TypeOK
<1>9. ASSUME NEW u \in Users, EvictionEnds(u)
      PROVE  StillToClose'
  BY <1>9 DEF EvictionEnds, StillToClose, RegistryExact, NoEviction, TypeOK, registry
<1> QED
  BY <1>1, <1>2, <1>3, <1>4, <1>5, <1>6, <1>7, <1>8, <1>9
     DEF Next, EndpointStep, Heartbeat, EvictionStep, Authenticate, AcceptFails, ReceiveEnds,
         HeartbeatCloses, HeartbeatRaises, PingFails, Pong, GoesAway, FallsSilent, DeadlinePasses,
         Leave, registry, moderation

-----------------------------------------------------------------------------

LEMMA StepIInv == IInv /\ [Next]_vars => IInv'
<1> SUFFICES ASSUME IInv, [Next]_vars
             PROVE  IInv'
  OBVIOUS
<1>1. CASE Next
  BY <1>1, StepRegistry, StepEvictionState, StepStillToClose DEF IInv, Registry
<1>2. CASE UNCHANGED vars
  BY <1>2 DEF IInv, Registry, TypeOK, Open, RegistryExact, EvictionState, StillToClose,
              vars, registry, wire, moderation
<1> QED
  BY <1>1, <1>2

(***************************************************************************)
(* The types of the registry, the endpoints and the evictions.             *)
(***************************************************************************)
THEOREM TypeCorrect == Spec => []TypeOK
<1>1. IInv => TypeOK
  BY DEF IInv, Registry
<1> QED
  BY <1>1, InitIInv, StepIInv, PTL DEF Spec

(***************************************************************************)
(* The maps of the ConnectionManager agree, and hold no endpoint that is   *)
(* over.                                                                   *)
(***************************************************************************)
THEOREM MapsAgree == Spec => []RegistryExact
<1>1. IInv => RegistryExact
  BY DEF IInv, Registry
<1> QED
  BY <1>1, InitIInv, StepIInv, PTL DEF Spec

(***************************************************************************)
(* When an eviction is over, every socket its user still has registered    *)
(* was accepted after the registry had been read.                          *)
(***************************************************************************)
THEOREM EvictionsTakeEffect == Spec => []EvictedAreOut
<1>1. IInv => EvictedAreOut
  BY SocketsAssumption
     DEF IInv, Registry, TypeOK, EvictionState, StillToClose, EvictedAreOut, NoEviction,
         SocketsAssumption
<1> QED
  BY <1>1, InitIInv, StepIInv, PTL DEF Spec
=============================================================================
