------------------------- MODULE PollerTasksProofs -------------------------
(***************************************************************************)
(* The registry of PlaybackPollerService never holds a dead task, however  *)
(* many tasks, sessions, starts and stops there are.                       *)
(***************************************************************************)
EXTENDS PollerTasks, FiniteSetTheorems, TLAPS

(***************************************************************************)
(* A task is cancelled after it was created, so that a start never         *)
(* registers a task that has been cancelled already.                       *)
(***************************************************************************)
CancelledWereBorn == \A t \in cancelled : stage[t] # "unborn"

IInv == TypeOK /\ RegisteredRuns /\ CancelledWereBorn

LEMMA InitIInv == Init => IInv
<1> SUFFICES ASSUME Init
             PROVE  IInv
  OBVIOUS
<1>1. sessions \in 0..MaxSessions
  BY PollerTasksAssumption DEF PollerTasksAssumption, Init
<1> QED
  BY <1>1 DEF Init, IInv, TypeOK, RegisteredRuns, CancelledWereBorn, Stages

(***************************************************************************)
(* A running task that goes on to another place where it is suspended.     *)
(***************************************************************************)
LEMMA RunsIInv ==
  ASSUME IInv, NEW t \in Tasks, NEW from \in Suspended \cup {"new"}, NEW to \in Suspended,
         Runs(t, from, to)
  PROVE  IInv'
<1>1. TypeOK'
  BY DEF IInv, TypeOK, Runs, Move, world, Stages
<1>2. RegisteredRuns' /\ CancelledWereBorn'
  BY DEF IInv, TypeOK, RegisteredRuns, CancelledWereBorn, Running, Runs, Move, Suspended
<1> QED
  BY <1>1, <1>2 DEF IInv

(***************************************************************************)
(* The `finally` removes whatever entry there is.                          *)
(***************************************************************************)
LEMMA EndsIInv ==
  ASSUME IInv, NEW t \in Tasks, Ends(t)
  PROVE  IInv'
BY DEF IInv, TypeOK, RegisteredRuns, CancelledWereBorn, Ends, Move, world, Stages

(***************************************************************************)
(* The entry and the cancelled tasks when a stop pops the entry.           *)
(***************************************************************************)
LEMMA PopIInv ==
  ASSUME IInv, PopAndCancel, UNCHANGED stage, room' \in BOOLEAN, session' \in BOOLEAN,
         sessions' = sessions, serving' \in BOOLEAN, awaited' \subseteq Tasks
  PROVE  IInv'
BY DEF IInv, TypeOK, RegisteredRuns, CancelledWereBorn, Running, PopAndCancel

LEMMA TaskStepIInv ==
  ASSUME IInv, NEW t \in Tasks, TaskStep(t)
  PROVE  IInv'
<1>1. CASE Begin(t) \/ Wake(t) \/ ReadSession(t) \/ TurnOver(t) \/ NoConnection(t)
  BY <1>1, RunsIInv DEF Begin, Wake, ReadSession, TurnOver, NoConnection, Suspended
<1>2. CASE Break(t)
  BY <1>2, EndsIInv DEF Break
<1>3. CASE Cancelled(t)
  <2>1. CASE Ends(t)
    BY <2>1, EndsIInv
  <2>2. CASE stage[t] = "new" /\ Move(t, "done") /\ UNCHANGED <<world, entry, cancelled, awaited>>
    <3>1. t # entry
      BY <1>3, PollerTasksAssumption
         DEF PollerTasksAssumption, Cancelled, IInv, RegisteredRuns, Running
    <3> QED
      BY <2>2, <3>1
         DEF IInv, TypeOK, RegisteredRuns, CancelledWereBorn, Running, Move, world, Stages
  <2> QED
    BY <1>3, <2>1, <2>2 DEF Cancelled
<1> QED
  BY <1>1, <1>2, <1>3 DEF TaskStep

LEMMA StepIInv == IInv /\ [Next]_vars => IInv'
<1> SUFFICES ASSUME IInv, [Next]_vars
             PROVE  IInv'
  OBVIOUS
<1>1. CASE CreateSession
  <2>1. sessions' \in 0..MaxSessions
    BY <1>1, PollerTasksAssumption DEF PollerTasksAssumption, CreateSession, IInv, TypeOK
  <2> QED
    BY <1>1, <2>1
       DEF CreateSession, IInv, TypeOK, RegisteredRuns, CancelledWereBorn, Running
<1>2. ASSUME NEW t \in Tasks, StartPolling(t)
      PROVE  IInv'
  <2>1. TypeOK'
    BY <1>2 DEF StartPolling, Move, IInv, TypeOK, world, Stages
  <2>2. t \notin cancelled
    BY <1>2 DEF StartPolling, IInv, CancelledWereBorn
  <2>3. RegisteredRuns'
    BY <1>2, <2>2 DEF StartPolling, Move, IInv, TypeOK, RegisteredRuns, Running
  <2>4. CancelledWereBorn'
    BY <1>2, <2>2 DEF StartPolling, Move, IInv, TypeOK, CancelledWereBorn
  <2> QED
    BY <2>1, <2>3, <2>4 DEF IInv
<1>3. CASE DeleteSession \/ DeleteRoom \/ ShutDown
  BY <1>3, PopIInv DEF DeleteSession, DeleteRoom, ShutDown, IInv, TypeOK
<1>4. CASE HostLeaves \/ \E t \in Tasks : DeleteRoomEnds(t)
  BY <1>4
     DEF DeleteRoomEnds, HostLeaves, IInv, TypeOK, RegisteredRuns, CancelledWereBorn, Running
<1>5. ASSUME NEW t \in Tasks, TaskStep(t)
      PROVE  IInv'
  BY <1>5, TaskStepIInv
<1>6. CASE UNCHANGED vars
  BY <1>6 DEF vars, world, IInv, TypeOK, RegisteredRuns, CancelledWereBorn, Running
<1> QED
  BY <1>1, <1>2, <1>3, <1>4, <1>5, <1>6 DEF Next, Play

(***************************************************************************)
(* The types, and that the registered task runs: start_polling finds an    *)
(* entry only if its task is alive and has not been told to stop.          *)
(***************************************************************************)
THEOREM RegistryHoldsNoDeadTask == Spec => [](TypeOK /\ RegisteredRuns)
<1>1. IInv => TypeOK /\ RegisteredRuns
  BY DEF IInv
<1> QED
  BY <1>1, InitIInv, StepIInv, PTL DEF Spec

(***************************************************************************)
(* The types of the registry, the tasks and the rows hold in every         *)
(* behaviour, for any number of tasks and sessions.                        *)
(***************************************************************************)
THEOREM TypeCorrect == Spec => []TypeOK
<1>1. TypeOK /\ RegisteredRuns => TypeOK
  OBVIOUS
<1> QED
  BY <1>1, RegistryHoldsNoDeadTask, PTL

-----------------------------------------------------------------------------
(* Tasks that poll without being registered *)

Born == {t \in Tasks : stage[t] # "unborn"}

Counted == IsFiniteSet(Born) /\ ExtrasWereStopped

LEMMA AllBorn == ASSUME TypeOK
                 PROVE  Unregistered \subseteq Born /\ Stopped \subseteq Born
BY DEF TypeOK, Unregistered, Running, Stopped, Born

(***************************************************************************)
(* Nobody polls unregistered who did not before.                           *)
(***************************************************************************)
LEMMA FewerExtras ==
  ASSUME TypeOK, TypeOK', Counted, NEW x, Born' \subseteq Born \cup {x},
         Unregistered' \subseteq Unregistered, Stopped \subseteq Stopped'
  PROVE  Counted'
<1>1. IsFiniteSet(Born \cup {x})
  BY FS_AddElement DEF Counted
<1>2. IsFiniteSet(Born')
  BY <1>1, FS_Subset
<1>3. IsFiniteSet(Unregistered) /\ IsFiniteSet(Unregistered')
      /\ IsFiniteSet(Stopped) /\ IsFiniteSet(Stopped')
  <2>1. Unregistered \subseteq Born /\ Stopped \subseteq Born
    BY AllBorn
  <2>2. Stopped' \subseteq Born'
    BY DEF TypeOK, Stopped, Born
  <2> QED
    BY <1>2, <2>1, <2>2, FS_Subset DEF Counted
<1>4. Cardinality(Unregistered') <= Cardinality(Unregistered)
  BY <1>3, FS_Subset
<1>5. Cardinality(Stopped) <= Cardinality(Stopped')
  BY <1>3, FS_Subset
<1>6. /\ Cardinality(Unregistered) \in Nat /\ Cardinality(Unregistered') \in Nat
      /\ Cardinality(Stopped) \in Nat /\ Cardinality(Stopped') \in Nat
  BY <1>3, FS_CardinalityType
<1> QED
  BY <1>2, <1>4, <1>5, <1>6 DEF Counted, ExtrasWereStopped

(***************************************************************************)
(* The `finally` makes the registered task an unregistered one: it was run *)
(* by a task that was cancelled, or by an unregistered one.                *)
(***************************************************************************)
LEMMA OneMoreExtra ==
  ASSUME TypeOK, TypeOK', Counted, NEW t \in Tasks, NEW x, Born' \subseteq Born,
         \/ /\ Unregistered' \subseteq Unregistered \cup {x}
            /\ t \notin Stopped /\ Stopped \cup {t} \subseteq Stopped'
         \/ /\ t \in Unregistered /\ Unregistered' \subseteq (Unregistered \ {t}) \cup {x}
            /\ Stopped \subseteq Stopped'
  PROVE  Counted'
<1>1. IsFiniteSet(Born')
  BY FS_Subset DEF Counted
<1>2. IsFiniteSet(Unregistered) /\ IsFiniteSet(Stopped) /\ IsFiniteSet(Stopped')
  <2>1. Unregistered \subseteq Born /\ Stopped \subseteq Born
    BY AllBorn
  <2>2. Stopped' \subseteq Born'
    BY DEF TypeOK, Stopped, Born
  <2> QED
    BY <1>1, <2>1, <2>2, FS_Subset DEF Counted
<1>3. /\ Cardinality(Unregistered) \in Nat
      /\ Cardinality(Stopped) \in Nat /\ Cardinality(Stopped') \in Nat
  BY <1>2, FS_CardinalityType
<1>4. CASE /\ Unregistered' \subseteq Unregistered \cup {x}
           /\ t \notin Stopped /\ Stopped \cup {t} \subseteq Stopped'
  <2>1. /\ IsFiniteSet(Unregistered \cup {x})
        /\ Cardinality(Unregistered \cup {x}) <= Cardinality(Unregistered) + 1
    <3>1. /\ IsFiniteSet(Unregistered \cup {x})
          /\ Cardinality(Unregistered \cup {x}) =
               IF x \in Unregistered THEN Cardinality(Unregistered)
               ELSE Cardinality(Unregistered) + 1
      BY <1>2, FS_AddElement
    <3> QED
      BY <1>3, <3>1
  <2>2. Cardinality(Unregistered') <= Cardinality(Unregistered \cup {x})
        /\ IsFiniteSet(Unregistered')
    BY <1>4, <2>1, FS_Subset
  <2>3. /\ IsFiniteSet(Stopped \cup {t})
        /\ Cardinality(Stopped \cup {t}) = Cardinality(Stopped) + 1
    BY <1>2, <1>4, FS_AddElement
  <2>4. Cardinality(Stopped \cup {t}) <= Cardinality(Stopped')
    BY <1>2, <1>4, FS_Subset
  <2>5. Cardinality(Unregistered') \in Nat /\ Cardinality(Unregistered \cup {x}) \in Nat
    BY <2>1, <2>2, FS_CardinalityType
  <2> QED
    BY <1>1, <1>3, <2>1, <2>2, <2>3, <2>4, <2>5 DEF Counted, ExtrasWereStopped
<1>5. CASE /\ t \in Unregistered /\ Unregistered' \subseteq (Unregistered \ {t}) \cup {x}
           /\ Stopped \subseteq Stopped'
  <2> DEFINE rest == Unregistered \ {t}
  <2>1. IsFiniteSet(rest) /\ Cardinality(rest) = Cardinality(Unregistered) - 1
    BY <1>2, <1>5, FS_RemoveElement
  <2>2. Unregistered' \subseteq rest \cup {x}
    BY <1>5
  <2> HIDE DEF rest
  <2>3. /\ IsFiniteSet(rest \cup {x})
        /\ Cardinality(rest \cup {x}) <= Cardinality(rest) + 1
    <3>1. /\ IsFiniteSet(rest \cup {x})
          /\ Cardinality(rest \cup {x}) =
               IF x \in rest THEN Cardinality(rest) ELSE Cardinality(rest) + 1
      BY <2>1, FS_AddElement
    <3>2. Cardinality(rest) \in Nat
      BY <2>1, FS_CardinalityType
    <3> QED
      BY <3>1, <3>2
  <2>4. Cardinality(Unregistered') <= Cardinality(rest \cup {x}) /\ IsFiniteSet(Unregistered')
    BY <2>2, <2>3, FS_Subset
  <2>5. Cardinality(Stopped) <= Cardinality(Stopped')
    BY <1>2, <1>5, FS_Subset
  <2>6. Cardinality(Unregistered') \in Nat /\ Cardinality(rest \cup {x}) \in Nat
    BY <2>3, <2>4, FS_CardinalityType
  <2> QED
    BY <1>1, <1>3, <2>1, <2>3, <2>4, <2>5, <2>6 DEF Counted, ExtrasWereStopped
<1> QED
  BY <1>4, <1>5

LEMMA InitCounted == Init => Counted
<1> SUFFICES ASSUME Init
             PROVE  Counted
  OBVIOUS
<1>1. Born = {} /\ Unregistered = {} /\ Stopped = {}
  BY DEF Init, Born, Unregistered, Running, Stopped
<1> QED
  BY <1>1, FS_EmptySet DEF Counted, ExtrasWereStopped

LEMMA StepCounted == IInv /\ IInv' /\ Counted /\ [Next]_vars => Counted'
<1> SUFFICES ASSUME IInv, IInv', Counted, [Next]_vars
             PROVE  Counted'
  OBVIOUS
<1>1. TypeOK /\ TypeOK' /\ entry \in Tasks \cup {NoTask} /\ NoTask \notin Tasks
  BY PollerTasksAssumption DEF PollerTasksAssumption, IInv, TypeOK
<1>2. CASE UNCHANGED <<stage, entry, cancelled>>
  <2>1. Born' = Born /\ Unregistered' = Unregistered /\ Stopped' = Stopped
    BY <1>2 DEF Born, Unregistered, Running, Stopped
  <2> QED
    BY <1>1, <2>1, FewerExtras
<1>3. ASSUME NEW t \in Tasks, StartPolling(t)
      PROVE  Counted'
  <2>1. Born' \subseteq Born \cup {t}
    BY <1>1, <1>3 DEF StartPolling, Move, Born, TypeOK
  <2>2. Unregistered' \subseteq Unregistered
    BY <1>1, <1>3 DEF StartPolling, Move, Unregistered, Running, TypeOK
  <2>3. Stopped \subseteq Stopped'
    BY <1>1, <1>3 DEF StartPolling, Move, Stopped, TypeOK
  <2> QED
    BY <1>1, <2>1, <2>2, <2>3, FewerExtras
<1>4. ASSUME PopAndCancel, UNCHANGED stage
      PROVE  Counted'
  <2>1. Born' = Born
    BY <1>4 DEF Born
  <2>2. Unregistered' \subseteq Unregistered /\ Stopped \subseteq Stopped'
    BY <1>1, <1>4 DEF PopAndCancel, Unregistered, Running, Stopped, TypeOK
  <2> QED
    BY <1>1, <2>1, <2>2, FewerExtras
<1>5. ASSUME NEW t \in Tasks, NEW from \in Suspended \cup {"new"}, NEW to \in Suspended,
             Runs(t, from, to)
      PROVE  Counted'
  <2>1. Born' \subseteq Born
    BY <1>1, <1>5 DEF Runs, Move, Born, TypeOK, Suspended
  <2>2. Unregistered' \subseteq Unregistered /\ Stopped \subseteq Stopped'
    BY <1>1, <1>5 DEF Runs, Move, Unregistered, Running, Stopped, TypeOK, Suspended
  <2> QED
    BY <1>1, <2>1, <2>2, FewerExtras
<1>6. ASSUME NEW t \in Tasks, Break(t)
      PROVE  Counted'
  <2>1. Born' \subseteq Born /\ Stopped \subseteq Stopped'
    BY <1>1, <1>6 DEF Break, Ends, Move, Born, Stopped, TypeOK
  <2>2. CASE entry = t
    <3>1. Unregistered' \subseteq Unregistered
      BY <1>1, <1>6, <2>2 DEF Break, Ends, Move, Unregistered, Running, TypeOK
    <3> QED
      BY <1>1, <2>1, <3>1, FewerExtras
  <2>3. CASE entry # t
    <3>1. t \in Unregistered /\ Unregistered' \subseteq (Unregistered \ {t}) \cup {entry}
      BY <1>1, <1>6, <2>3 DEF Break, Ends, Move, Unregistered, Running, TypeOK
    <3> QED
      BY <1>1, <2>1, <3>1, OneMoreExtra
  <2> QED
    BY <2>2, <2>3
<1>7. ASSUME NEW t \in Tasks, Cancelled(t)
      PROVE  Counted'
  <2>1. Born' \subseteq Born /\ t \notin Stopped /\ Stopped \cup {t} \subseteq Stopped'
    BY <1>1, <1>7 DEF Cancelled, Ends, Move, Born, Stopped, TypeOK, Suspended
  <2>2. Unregistered' \subseteq Unregistered \cup {entry}
    BY <1>1, <1>7 DEF Cancelled, Ends, Move, Unregistered, Running, TypeOK
  <2> QED
    BY <1>1, <2>1, <2>2, OneMoreExtra
<1>8. ASSUME NEW t \in Tasks, TaskStep(t)
      PROVE  Counted'
  BY <1>5, <1>6, <1>7, <1>8
     DEF TaskStep, Begin, Wake, ReadSession, TurnOver, NoConnection, Suspended
<1>9. CASE CreateSession \/ HostLeaves \/ (\E t \in Tasks : DeleteRoomEnds(t)) \/ UNCHANGED vars
  BY <1>2, <1>9 DEF CreateSession, HostLeaves, DeleteRoomEnds, vars
<1>10. CASE DeleteSession \/ DeleteRoom \/ ShutDown
  BY <1>4, <1>10 DEF DeleteSession, DeleteRoom, ShutDown
<1> QED
  BY <1>3, <1>8, <1>9, <1>10 DEF Next, Play

(***************************************************************************)
(* However starts, stops and ends interleave, there are never more         *)
(* unregistered pollers than tasks that were stopped and have ended.       *)
(***************************************************************************)
THEOREM ExtraPollersCostStops == Spec => []ExtrasWereStopped
<1>1. Counted => ExtrasWereStopped
  BY DEF Counted
<1> QED
  BY <1>1, InitIInv, InitCounted, StepIInv, StepCounted, PTL DEF Spec

(***************************************************************************)
(* A room whose poller was never stopped is polled by one task at a time.  *)
(***************************************************************************)
THEOREM OnePollerUntilStopped == Spec => [](cancelled = {} => OnePoller)
<1>1. ASSUME IInv, Counted, cancelled = {}
      PROVE  OnePoller
  <2>1. Stopped = {} /\ Cardinality(Stopped) = 0
    BY <1>1, FS_EmptySet DEF Stopped
  <2>2. IsFiniteSet(Unregistered)
    BY <1>1, AllBorn, FS_Subset DEF Counted, IInv
  <2>3. Cardinality(Unregistered) = 0
    BY <1>1, <2>1, <2>2, FS_CardinalityType DEF Counted, ExtrasWereStopped
  <2>4. Unregistered = {}
    BY <2>2, <2>3, FS_EmptySet
  <2> QED
    BY <2>4 DEF OnePoller, Unregistered
<1>2. IInv /\ Counted => (cancelled = {} => OnePoller)
  BY <1>1
<1> QED
  BY <1>2, InitIInv, InitCounted, StepIInv, StepCounted, PTL DEF Spec
=============================================================================
