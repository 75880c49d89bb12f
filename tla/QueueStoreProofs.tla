-------------------------- MODULE QueueStoreProofs --------------------------
(***************************************************************************)
(* Theorems about QueueStore, for every set of writers, items and groups.  *)
(***************************************************************************)
EXTENDS QueueStore, WellFoundedInduction, TLAPS

-----------------------------------------------------------------------------
(* A bounded, nonempty set of naturals has a largest element. *)

Less == {ss \in Nat \X Nat : ss[1] < ss[2]}

LEMMA LessWellFounded == IsWellFoundedOn(Less, Nat)
BY NatLessThanWellFounded DEF OpToRel, Less

LEMMA LeastNatural ==
  ASSUME NEW T, T \subseteq Nat, T # {}
  PROVE  \E n \in T : \A m \in T : n <= m
<1>1. PICK n \in T : \A m \in T : ~ (<<m, n>> \in Less)
  BY LessWellFounded, WFMin
<1>2. \A m \in T : ~(m < n)
  BY <1>1 DEF Less
<1> QED BY <1>2

LEMMA MaxOfBounded ==
  ASSUME NEW S, S \subseteq Nat, S # {},
         NEW b \in Nat, \A x \in S : x <= b
  PROVE  /\ Max(S) \in S
         /\ \A x \in S : x <= Max(S)
<1> DEFINE T == {n \in Nat : \A x \in S : x <= n}
<1>1. T \subseteq Nat /\ T # {}
  OBVIOUS
<1>2. PICK n \in T : \A m \in T : n <= m
  BY <1>1, LeastNatural
<1>3. n \in S
  <2>1. SUFFICES ASSUME n \notin S PROVE FALSE
    OBVIOUS
  <2>2. \A x \in S : x <= n - 1
    BY <2>1, <1>2
  <2>3. n - 1 \in Nat
    <3>1. PICK x \in S : TRUE
      OBVIOUS
    <3>2. x \in Nat /\ n \in Nat /\ x <= n - 1
      BY <2>2, <1>2
    <3> QED BY <3>2
  <2>4. n - 1 \in T
    BY <2>2, <2>3
  <2> QED BY <2>4, <1>2
<1>4. \E x \in S : \A y \in S : x >= y
  BY <1>2, <1>3
<1>5. Max(S) \in S /\ \A y \in S : Max(S) >= y
  BY <1>4 DEF Max
<1> QED BY <1>5

-----------------------------------------------------------------------------
(* The inductive invariant *)

(***************************************************************************)
(* Positions are bounded, so that max(position) exists.                    *)
(***************************************************************************)
Bounded == \E b \in Nat : \A i \in Items : pos[i] <= b

(***************************************************************************)
(* A busy writer has an item; the row of an add is its own and not yet in  *)
(* the table.                                                              *)
(***************************************************************************)
BusyArg == \A w \in Writers : pc[w] # "idle" => arg[w] \in created

AddIsOwn ==
  \A w \in Writers : pc[w] \in Adding =>
    /\ arg[w] \notin rows
    /\ \A v \in Writers : pc[v] # "idle" /\ arg[v] = arg[w] => v = w

(***************************************************************************)
(* Between its lock and its commit a PostgreSQL writer holds its key, and  *)
(* a SQLite delete that has written holds the file.                        *)
(***************************************************************************)
LockHeld ==
  /\ Dialect = "postgresql" =>
       \A w \in Writers :
         /\ pc[w] \in {"addRead", "addWrite"} => holder[Group[arg[w]]] = w
         /\ pc[w] \in {"delScan", "delShift"} => holder["None:None"] = w
  /\ Dialect = "sqlite" =>
       \A w \in Writers : pc[w] = "delShift" => holder["file"] = w

(***************************************************************************)
(* uq_session_group_position, stated of the committed rows.                *)
(***************************************************************************)
UniquePositions == ConstraintHolds(rows, pos)

ReadIsCurrent == Dialect = "postgresql" => NextPositionFree

IInv ==
  /\ TypeOK
  /\ Bounded
  /\ BusyArg
  /\ AddIsOwn
  /\ LockHeld
  /\ UniquePositions
  /\ ReadIsCurrent
  /\ ScanCurrent

LEMMA NextPositionBound ==
  ASSUME TypeOK, Bounded, NEW i \in Items
  PROVE  /\ NextPosition(i) \in Nat
         /\ \A j \in InGroupOf(i) : pos[j] < NextPosition(i)
<1> DEFINE S == {pos[j] : j \in InGroupOf(i)}
<1>1. CASE InGroupOf(i) = {}
  BY <1>1 DEF NextPosition
<1>2. CASE InGroupOf(i) # {}
  <2>1. S \subseteq Nat /\ S # {}
    BY <1>2 DEF TypeOK, InGroupOf
  <2>2. PICK b \in Nat : \A x \in S : x <= b
    BY DEF Bounded, TypeOK, InGroupOf
  <2>3. Max(S) \in S /\ \A x \in S : x <= Max(S)
    BY <2>1, <2>2, MaxOfBounded
  <2>4. PICK m \in Nat : m = Max(S) /\ \A x \in S : x <= m
    BY <2>1, <2>3
  <2>5. NextPosition(i) = 1 + m
    BY <1>2, <2>4 DEF NextPosition
  <2>6. \A j \in InGroupOf(i) : pos[j] \in Nat /\ pos[j] <= m
    BY <2>1, <2>4
  <2>7. \A j \in InGroupOf(i) : pos[j] < 1 + m
    BY <2>6
  <2> QED BY <2>5, <2>7
<1> QED BY <1>1, <1>2

-----------------------------------------------------------------------------
(* The inductive invariant holds *)

LEMMA InitIInv == Init => IInv
<1> SUFFICES ASSUME Init PROVE IInv
  OBVIOUS
<1> USE QueueStoreAssumption DEF Init
<1>1. TypeOK
  BY DEF TypeOK, LockKeys
<1>2. Bounded
  BY DEF Bounded
<1>3. BusyArg /\ AddIsOwn /\ LockHeld
  BY DEF BusyArg, AddIsOwn, LockHeld, Adding
<1>4. UniquePositions /\ ReadIsCurrent /\ ScanCurrent
  BY DEF UniquePositions, ConstraintHolds, ReadIsCurrent, NextPositionFree,
         ScanCurrent
<1> QED BY <1>1, <1>2, <1>3, <1>4 DEF IInv

(***************************************************************************)
(* What Finish and Goto do, writer by writer.                              *)
(***************************************************************************)
LEMMA FinishEffect ==
  ASSUME TypeOK, NEW w \in Writers, Finish(w)
  PROVE  /\ holder' \in [LockKeys -> Writers \cup {NoWriter}]
         /\ pc' \in [Writers -> {"idle"} \cup Adding \cup Removing]
         /\ arg' \in [Writers -> Items \cup {NoItem}]
         /\ seen' \in [Writers -> Nat]
         /\ scan' \in [Writers -> SUBSET Items]
         /\ pc'[w] = "idle"
         /\ \A v \in Writers \ {w} :
              /\ pc'[v] = pc[v] /\ arg'[v] = arg[v]
              /\ seen'[v] = seen[v] /\ scan'[v] = scan[v]
         /\ \A k \in LockKeys : \A v \in Writers \ {w} :
              holder[k] = v => holder'[k] = v
BY QueueStoreAssumption DEF TypeOK, Finish

LEMMA FinishKeepsLocks ==
  ASSUME TypeOK, BusyArg, LockHeld, NEW w \in Writers, Finish(w)
  PROVE  LockHeld'
<1>1. \A v \in Writers : pc'[v] # "idle" =>
        v # w /\ pc[v] # "idle" /\ pc'[v] = pc[v] /\ arg'[v] = arg[v] /\ arg[v] \in Items
  BY FinishEffect DEF BusyArg, TypeOK
<1>2. \A k \in LockKeys : \A v \in Writers \ {w} : holder[k] = v => holder'[k] = v
  BY FinishEffect
<1>3. "file" \in LockKeys /\ "None:None" \in LockKeys
      /\ \A i \in Items : Group[i] \in LockKeys
  BY QueueStoreAssumption DEF LockKeys
<1>4. ASSUME Dialect = "postgresql", NEW v \in Writers
      PROVE  /\ pc'[v] \in {"addRead", "addWrite"} => holder'[Group[arg'[v]]] = v
             /\ pc'[v] \in {"delScan", "delShift"} => holder'["None:None"] = v
  BY <1>1, <1>2, <1>3, <1>4 DEF LockHeld
<1>5. ASSUME Dialect = "sqlite", NEW v \in Writers, pc'[v] = "delShift"
      PROVE  holder'["file"] = v
  BY <1>1, <1>2, <1>3, <1>5 DEF LockHeld
<1> QED BY <1>4, <1>5 DEF LockHeld

(***************************************************************************)
(* A request that ends without changing the table keeps the invariant.     *)
(***************************************************************************)
LEMMA FinishKeepsIInv ==
  ASSUME IInv, NEW w \in Writers, Finish(w), UNCHANGED <<rows, pos, created>>
  PROVE  IInv'
<1> USE DEF IInv
<1>1. TypeOK'
  BY FinishEffect DEF TypeOK
<1>2. Bounded' /\ UniquePositions'
  BY DEF Bounded, UniquePositions, ConstraintHolds, SameGroup
<1>3. BusyArg'
  BY FinishEffect DEF BusyArg
<1>4. AddIsOwn'
  BY FinishEffect DEF AddIsOwn, Adding
<1>5. LockHeld'
  BY FinishKeepsLocks
<1>6. ReadIsCurrent'
  BY FinishEffect DEF ReadIsCurrent, NextPositionFree, InGroupOf, SameGroup
<1>7. ScanCurrent'
  BY FinishEffect DEF ScanCurrent, Subsequent, InGroupOf, SameGroup
<1> QED BY <1>1, <1>2, <1>3, <1>4, <1>5, <1>6, <1>7

LEMMA StartAddKeepsIInv ==
  ASSUME IInv, NEW w \in Writers, NEW i \in Items, StartAdd(w, i)
  PROVE  IInv'
<1> USE DEF IInv, StartAdd, Goto
<1>1. TypeOK'
  BY DEF TypeOK, Adding
<1>2. Bounded' /\ UniquePositions'
  BY DEF Bounded, UniquePositions, ConstraintHolds, SameGroup
<1>3. BusyArg'
  BY DEF BusyArg, TypeOK
<1>4. AddIsOwn'
  BY DEF AddIsOwn, BusyArg, TypeOK, Adding
<1>5. LockHeld'
  BY DEF LockHeld, TypeOK
<1>6. ReadIsCurrent' /\ ScanCurrent'
  BY DEF ReadIsCurrent, NextPositionFree, ScanCurrent, Subsequent, InGroupOf,
         SameGroup, TypeOK
<1> QED BY <1>1, <1>2, <1>3, <1>4, <1>5, <1>6

LEMMA StartRemoveKeepsIInv ==
  ASSUME IInv, NEW w \in Writers, NEW i \in Items, StartRemove(w, i)
  PROVE  IInv'
<1> USE DEF IInv, StartRemove, Goto
<1>1. TypeOK'
  BY DEF TypeOK, Removing
<1>2. Bounded' /\ UniquePositions'
  BY DEF Bounded, UniquePositions, ConstraintHolds, SameGroup
<1>3. BusyArg'
  BY DEF BusyArg, TypeOK
<1>4. AddIsOwn'
  BY DEF AddIsOwn, TypeOK, Adding
<1>5. LockHeld'
  BY DEF LockHeld, TypeOK
<1>6. ReadIsCurrent' /\ ScanCurrent'
  BY DEF ReadIsCurrent, NextPositionFree, ScanCurrent, Subsequent, InGroupOf,
         SameGroup, TypeOK
<1> QED BY <1>1, <1>2, <1>3, <1>4, <1>5, <1>6

LEMMA LockKeepsIInv ==
  ASSUME IInv, NEW w \in Writers, Lock(w)
  PROVE  IInv'
<1> USE DEF IInv, Lock, Goto
<1>1. arg[w] \in Items
  BY DEF BusyArg, TypeOK
<1>2. Key(w) \in LockKeys
  BY <1>1, QueueStoreAssumption DEF Key, LockKeys
<1>3. AfterLock(w) \in {"addRead", "delScan"}
  BY DEF AfterLock
<1>4. TypeOK'
  BY <1>2, <1>3 DEF TypeOK, Adding, Removing
<1>5. Bounded' /\ UniquePositions'
  BY DEF Bounded, UniquePositions, ConstraintHolds, SameGroup
<1>6. BusyArg' /\ AddIsOwn'
  BY <1>3 DEF BusyArg, AddIsOwn, TypeOK, Adding, AfterLock
<1>7. LockHeld'
  <2>1. CASE Dialect = "postgresql"
    <3>1. ASSUME NEW v \in Writers, pc'[v] \in {"addRead", "addWrite"}
          PROVE  holder'[Group[arg[v]]] = v
      <4>1. arg[v] \in Items
        BY <3>1, <1>3 DEF BusyArg, TypeOK
      <4>2. Group[arg[v]] \in LockKeys
        BY <4>1, QueueStoreAssumption DEF LockKeys
      <4>3. CASE v = w
        <5>1. pc[w] = "addLock"
          BY <3>1, <4>3 DEF AfterLock, TypeOK
        <5>2. Key(w) = Group[arg[w]]
          BY <5>1, <2>1 DEF Key, Adding
        <5> QED BY <5>2, <4>3, <4>2 DEF TypeOK
      <4>4. CASE v # w
        <5>1. holder[Group[arg[v]]] = v
          BY <2>1, <3>1, <4>4 DEF LockHeld, TypeOK
        <5>2. Group[arg[v]] # Key(w)
          BY <5>1, QueueStoreAssumption DEF Free
        <5> QED BY <5>1, <5>2, <1>2 DEF TypeOK
      <4> QED BY <4>3, <4>4
    <3>2. ASSUME NEW v \in Writers, pc'[v] \in {"delScan", "delShift"}
          PROVE  holder'["None:None"] = v
      <4>1. CASE v = w
        <5>1. pc[w] = "delLock"
          BY <3>2, <4>1 DEF AfterLock, TypeOK
        <5>2. Key(w) = "None:None"
          BY <5>1, <2>1 DEF Key, Adding
        <5> QED BY <5>2, <4>1, <1>2 DEF TypeOK
      <4>2. CASE v # w
        <5>1. holder["None:None"] = v
          BY <2>1, <3>2, <4>2 DEF LockHeld, TypeOK
        <5>2. "None:None" # Key(w)
          BY <5>1, QueueStoreAssumption DEF Free
        <5> QED BY <5>1, <5>2, <1>2 DEF TypeOK
      <4> QED BY <4>1, <4>2
    <3> QED BY <2>1, <3>1, <3>2 DEF LockHeld
  <2>2. CASE Dialect = "sqlite"
    <3>1. Key(w) = "file"
      BY <2>2 DEF Key
    <3>2. \A v \in Writers : pc'[v] # "delShift"
      BY <3>1, <2>2, <1>3, QueueStoreAssumption DEF LockHeld, Free, TypeOK
    <3> QED BY <2>2, <3>2 DEF LockHeld
  <2> QED BY <2>1, <2>2, QueueStoreAssumption
<1>8. ReadIsCurrent' /\ ScanCurrent'
  BY <1>3 DEF ReadIsCurrent, NextPositionFree, ScanCurrent, Subsequent, InGroupOf,
         SameGroup, TypeOK
<1> QED BY <1>4, <1>5, <1>6, <1>7, <1>8

LEMMA LockSwallowedKeepsIInv ==
  ASSUME IInv, NEW w \in Writers, LockSwallowed(w)
  PROVE  IInv'
<1> USE DEF IInv, LockSwallowed, Goto
<1>1. AfterLock(w) \in {"addRead", "delScan"}
  BY DEF AfterLock
<1>2. TypeOK'
  BY <1>1 DEF TypeOK, Adding, Removing
<1>3. Bounded' /\ UniquePositions'
  BY DEF Bounded, UniquePositions, ConstraintHolds, SameGroup
<1>4. BusyArg' /\ AddIsOwn'
  BY DEF BusyArg, AddIsOwn, TypeOK, Adding, AfterLock
<1>5. LockHeld'
  BY <1>1 DEF LockHeld, TypeOK
<1>6. ReadIsCurrent' /\ ScanCurrent'
  BY <1>1 DEF ReadIsCurrent, NextPositionFree, ScanCurrent, Subsequent, InGroupOf,
         SameGroup, TypeOK
<1> QED BY <1>2, <1>3, <1>4, <1>5, <1>6

LEMMA ReadMaxKeepsIInv ==
  ASSUME IInv, NEW w \in Writers, ReadMax(w)
  PROVE  IInv'
<1> USE DEF IInv, ReadMax, Goto
<1>1. arg[w] \in Items
  BY DEF BusyArg, TypeOK
<1>2. /\ NextPosition(arg[w]) \in Nat
      /\ \A j \in InGroupOf(arg[w]) : pos[j] < NextPosition(arg[w])
  BY <1>1, NextPositionBound
<1>3. TypeOK'
  BY <1>2 DEF TypeOK, Adding
<1>4. Bounded' /\ UniquePositions'
  BY DEF Bounded, UniquePositions, ConstraintHolds, SameGroup
<1>5. BusyArg' /\ AddIsOwn'
  BY DEF BusyArg, AddIsOwn, TypeOK, Adding
<1>6. LockHeld'
  BY DEF LockHeld, TypeOK
<1>7. ReadIsCurrent'
  BY <1>2 DEF ReadIsCurrent, NextPositionFree, InGroupOf, SameGroup, TypeOK
<1>8. ScanCurrent'
  BY DEF ScanCurrent, Subsequent, InGroupOf, SameGroup, TypeOK
<1> QED BY <1>3, <1>4, <1>5, <1>6, <1>7, <1>8

LEMMA InsertKeepsIInv ==
  ASSUME IInv, NEW w \in Writers, Insert(w)
  PROVE  IInv'
<1> USE DEF IInv, Insert
<1>1. /\ arg[w] \in Items /\ arg[w] \in created
      /\ arg[w] \notin rows
      /\ \A v \in Writers \ {w} : pc[v] # "idle" => arg[v] # arg[w]
  BY DEF BusyArg, AddIsOwn, TypeOK, Adding
<1>2. \A j \in rows : pos'[j] = pos[j]
  BY <1>1 DEF TypeOK
<1>3. TypeOK'
  BY <1>1, FinishEffect DEF TypeOK
<1>4. Bounded'
  <2>1. PICK b \in Nat : \A i \in Items : pos[i] <= b
    BY DEF Bounded
  <2>2. seen[w] \in Nat /\ pos \in [Items -> Nat]
    BY DEF TypeOK
  <2>3. b + seen[w] \in Nat /\ \A i \in Items : pos'[i] <= b + seen[w]
    BY <2>1, <2>2
  <2> QED BY <2>3 DEF Bounded
<1>5. BusyArg' /\ AddIsOwn'
  BY <1>1, FinishEffect DEF BusyArg, AddIsOwn, Adding
<1>6. LockHeld'
  BY FinishKeepsLocks
<1>7. UniquePositions'
  BY <1>1, <1>2, QueueStoreAssumption
     DEF UniquePositions, ConstraintHolds, PositionTaken, InGroupOf, SameGroup, TypeOK
<1>8. ReadIsCurrent'
  <2>1. SUFFICES ASSUME Dialect = "postgresql",
                        NEW v \in Writers, pc'[v] = "addWrite",
                        NEW j \in rows', SameGroup(arg'[v], j)
                 PROVE  pos'[j] < seen'[v]
    BY DEF ReadIsCurrent, NextPositionFree, InGroupOf
  <2>2. v # w /\ pc[v] = "addWrite" /\ arg'[v] = arg[v] /\ seen'[v] = seen[v]
    BY <2>1, FinishEffect
  <2>3. holder[Group[arg[v]]] = v /\ holder[Group[arg[w]]] = w
    BY <2>1, <2>2 DEF LockHeld
  <2>4. j # arg[w]
    BY <2>1, <2>2, <2>3 DEF SameGroup
  <2>5. j \in rows /\ pos'[j] = pos[j]
    BY <2>4, <1>2
  <2> QED BY <2>1, <2>2, <2>5 DEF ReadIsCurrent, NextPositionFree, InGroupOf
<1>9. ScanCurrent'
  <2>1. SUFFICES ASSUME NEW v \in Writers, pc'[v] = "delShift"
                 PROVE  /\ scan'[v] \subseteq Subsequent(v)'
                        /\ Dialect = "sqlite" => scan'[v] = Subsequent(v)'
    BY DEF ScanCurrent
  <2>2. v # w /\ pc[v] = "delShift" /\ arg'[v] = arg[v] /\ seen'[v] = seen[v]
        /\ scan'[v] = scan[v]
    BY <2>1, FinishEffect
  <2>3. scan[v] \subseteq Subsequent(v)
    BY <2>2 DEF ScanCurrent
  <2>4. Subsequent(v) \subseteq Subsequent(v)'
    BY <2>2, <1>2 DEF Subsequent, InGroupOf, SameGroup
  <2>5. Dialect # "sqlite"
    BY <2>2, QueueStoreAssumption DEF MayWrite, LockHeld
  <2> QED BY <2>2, <2>3, <2>4, <2>5
<1> QED BY <1>3, <1>4, <1>5, <1>6, <1>7, <1>8, <1>9

LEMMA DeleteAndScanKeepsIInv ==
  ASSUME IInv, NEW w \in Writers, DeleteAndScan(w)
  PROVE  IInv'
<1> USE DEF IInv, DeleteAndScan, Goto
<1>1. TypeOK'
  BY DEF TypeOK, Removing, Subsequent, InGroupOf, LockKeys
<1>2. Bounded' /\ UniquePositions'
  BY DEF Bounded, UniquePositions, ConstraintHolds, SameGroup
<1>3. BusyArg' /\ AddIsOwn'
  BY DEF BusyArg, AddIsOwn, TypeOK, Adding
<1>4. LockHeld'
  <2>1. CASE Dialect = "postgresql"
    BY <2>1 DEF LockHeld, TypeOK
  <2>2. CASE Dialect = "sqlite"
    <3>1. holder'["file"] = w
      BY <2>2 DEF TypeOK, LockKeys
    <3>2. \A v \in Writers \ {w} : pc[v] # "delShift"
      BY <2>2, QueueStoreAssumption DEF MayWrite, LockHeld
    <3>3. \A v \in Writers : pc'[v] = "delShift" => v = w
      BY <3>2 DEF TypeOK
    <3> QED BY <2>2, <3>1, <3>3 DEF LockHeld
  <2> QED BY <2>1, <2>2, QueueStoreAssumption
<1>5. ReadIsCurrent'
  BY DEF ReadIsCurrent, NextPositionFree, InGroupOf, SameGroup, TypeOK
<1>6. ScanCurrent'
  BY DEF ScanCurrent, Subsequent, InGroupOf, SameGroup, TypeOK
<1> QED BY <1>1, <1>2, <1>3, <1>4, <1>5, <1>6

LEMMA ShiftKeepsIInv ==
  ASSUME IInv, NEW w \in Writers, Shift(w)
  PROVE  IInv'
<1> USE DEF IInv, Shift
<1>1. /\ arg[w] \in Items
      /\ pos \in [Items -> Nat]
      /\ scan[w] \subseteq Items
      /\ pc[w] = "delShift"
  BY DEF BusyArg, TypeOK
<1>2. scan[w] \subseteq Subsequent(w)
  BY <1>1 DEF ScanCurrent
<1>3. \A i \in scan[w] : pos[i] > 0 /\ i # arg[w]
  BY <1>1, <1>2 DEF Subsequent, InGroupOf, TypeOK
<1>4. \A i \in Items \ {arg[w]} :
         pos'[i] = IF i \in scan[w] THEN pos[i] - 1 ELSE pos[i]
  BY <1>1 DEF Shifted
<1>5. pos' \in [Items -> Nat] /\ pos'[arg[w]] = 0
  BY <1>1, <1>3 DEF Shifted
<1>6. \A i \in Items : pos'[i] <= pos[i]
  BY <1>1, <1>3, <1>4, <1>5
<1>7. TypeOK'
  BY <1>5, FinishEffect DEF TypeOK
<1>8. Bounded'
  <2>1. PICK b \in Nat : \A i \in Items : pos[i] <= b
    BY DEF Bounded
  <2>2. \A i \in Items : pos'[i] <= b
    BY <2>1, <1>1, <1>5, <1>6
  <2> QED BY <2>2 DEF Bounded
<1>9. BusyArg' /\ AddIsOwn'
  BY FinishEffect DEF BusyArg, AddIsOwn, Adding
<1>10. LockHeld'
  BY FinishKeepsLocks
<1>11. UniquePositions'
  <2>1. ConstraintHolds(rows \ {arg[w]}, Shifted(scan[w])) /\ rows' = rows \ {arg[w]}
    BY DEF ShiftAllowed
  <2>2. \A i \in rows' : pos'[i] = Shifted(scan[w])[i]
    BY <1>1, <1>4, <2>1 DEF Shifted, TypeOK
  <2> QED
    BY <2>1, <2>2 DEF UniquePositions, ConstraintHolds
<1>12. ReadIsCurrent'
  <2>1. SUFFICES ASSUME Dialect = "postgresql",
                        NEW v \in Writers, pc'[v] = "addWrite",
                        NEW j \in rows', SameGroup(arg'[v], j)
                 PROVE  pos'[j] < seen'[v]
    BY DEF ReadIsCurrent, NextPositionFree, InGroupOf
  <2>2. v # w /\ pc[v] = "addWrite" /\ arg'[v] = arg[v] /\ seen'[v] = seen[v]
    BY <2>1, FinishEffect
  <2>3. pos[j] < seen[v] /\ j \in Items
    BY <2>1, <2>2 DEF ReadIsCurrent, NextPositionFree, InGroupOf, TypeOK
  <2>4. pos'[j] \in Nat /\ pos[j] \in Nat /\ seen[v] \in Nat /\ pos'[j] <= pos[j]
    BY <2>3, <1>1, <1>5, <1>6 DEF TypeOK
  <2> QED BY <2>2, <2>3, <2>4
<1>13. ScanCurrent'
  <2>1. \A v \in Writers : pc'[v] # "delShift"
    BY FinishEffect, <1>1, QueueStoreAssumption DEF LockHeld
  <2> QED BY <2>1 DEF ScanCurrent
<1> QED BY <1>7, <1>8, <1>9, <1>10, <1>11, <1>12, <1>13

LEMMA NextKeepsIInv == IInv /\ [Next]_vars => IInv'
<1> SUFFICES ASSUME IInv, [Next]_vars PROVE IInv'
  OBVIOUS
<1>1. ASSUME NEW w \in Writers, NEW i \in Items, StartAdd(w, i) PROVE IInv'
  BY <1>1, StartAddKeepsIInv
<1>2. ASSUME NEW w \in Writers, NEW i \in Items, StartRemove(w, i) PROVE IInv'
  BY <1>2, StartRemoveKeepsIInv
<1>3. ASSUME NEW w \in Writers, Lock(w) PROVE IInv'
  BY <1>3, LockKeepsIInv
<1>4. ASSUME NEW w \in Writers, LockSwallowed(w) PROVE IInv'
  BY <1>4, LockSwallowedKeepsIInv
<1>5. ASSUME NEW w \in Writers, ReadMax(w) PROVE IInv'
  BY <1>5, ReadMaxKeepsIInv
<1>6. ASSUME NEW w \in Writers, Insert(w) PROVE IInv'
  BY <1>6, InsertKeepsIInv
<1>7. ASSUME NEW w \in Writers, DeleteAndScan(w) PROVE IInv'
  BY <1>7, DeleteAndScanKeepsIInv
<1>8. ASSUME NEW w \in Writers, Shift(w) PROVE IInv'
  BY <1>8, ShiftKeepsIInv
<1>9. ASSUME NEW w \in Writers, InsertRejected(w) \/ ShiftRejected(w) \/ Busy(w)
      PROVE  IInv'
  BY <1>9, FinishKeepsIInv DEF InsertRejected, ShiftRejected, Busy
<1>10. CASE UNCHANGED vars
  <2> USE <1>10 DEF vars, IInv
  <2>1. TypeOK' /\ Bounded' /\ BusyArg' /\ AddIsOwn' /\ LockHeld'
    BY DEF TypeOK, Bounded, BusyArg, AddIsOwn, LockHeld
  <2>2. UniquePositions' /\ ReadIsCurrent' /\ ScanCurrent'
    BY DEF UniquePositions, ConstraintHolds, ReadIsCurrent, NextPositionFree,
           ScanCurrent, Subsequent, InGroupOf, SameGroup
  <2> QED BY <2>1, <2>2
<1> QED
  BY <1>1, <1>2, <1>3, <1>4, <1>5, <1>6, <1>7, <1>8, <1>9, <1>10 DEF Next, Step

THEOREM SpecIInv == Spec => []IInv
<1>1. Init => IInv
  BY InitIInv
<1>2. IInv /\ [Next]_vars => IInv'
  BY NextKeepsIInv
<1> QED BY <1>1, <1>2, PTL DEF Spec

(***************************************************************************)
(* The table, the locks and the requests always have their types: a shift  *)
(* never makes a position negative (delete, add_to_queue_atomic).          *)
(***************************************************************************)
THEOREM TypeCorrect == Spec => []TypeOK
BY SpecIInv, PTL DEF IInv

(***************************************************************************)
(* On PostgreSQL an add's INSERT always finds the position it read free    *)
(* and behind every row of its group, whatever deletes run beside it.      *)
(***************************************************************************)
THEOREM AddReadsCurrentMax ==
  ASSUME Dialect = "postgresql"
  PROVE  Spec => []NextPositionFree
<1>1. IInv => NextPositionFree
  BY DEF IInv, ReadIsCurrent
<1> QED BY <1>1, SpecIInv, PTL

(***************************************************************************)
(* A delete shifts rows that are still as its SELECT returned them; on     *)
(* SQLite it shifts all of them.                                           *)
(***************************************************************************)
THEOREM ShiftLosesNoUpdate == Spec => []ScanCurrent
BY SpecIInv, PTL DEF IInv

-----------------------------------------------------------------------------
(* The order of the songs that stay *)

(***************************************************************************)
(* A shift lowers positions by at most one and leaves them distinct, so it *)
(* keeps the order of the rows that stay.                                  *)
(***************************************************************************)
LEMMA ShiftKeepsOrder ==
  ASSUME IInv, IInv', NEW w \in Writers, Shift(w),
         NEW i \in rows', NEW j \in rows', SameGroup(i, j)
  PROVE  pos'[i] < pos'[j] <=> pos[i] < pos[j]
<1> USE DEF IInv
<1>1. /\ i \in rows /\ j \in rows /\ i # arg[w] /\ j # arg[w]
      /\ i \in Items /\ j \in Items
      /\ pos[i] \in Nat /\ pos[j] \in Nat /\ pos'[i] \in Nat /\ pos'[j] \in Nat
  BY DEF Shift, TypeOK
<1>2. /\ pos'[i] \in {pos[i], pos[i] - 1}
      /\ pos'[j] \in {pos[j], pos[j] - 1}
  BY <1>1 DEF Shift, Shifted, TypeOK
<1>3. i # j => pos[i] # pos[j] /\ pos'[i] # pos'[j]
  BY <1>1 DEF UniquePositions, ConstraintHolds, SameGroup
<1> QED BY <1>1, <1>2, <1>3

LEMMA InsertKeepsOrder ==
  ASSUME IInv, NEW w \in Writers, Insert(w), NEW i \in rows
  PROVE  pos'[i] = pos[i]
<1>1. arg[w] \notin rows
  BY DEF Insert, IInv, AddIsOwn, Adding
<1> QED
  BY <1>1 DEF Insert, IInv, TypeOK

LEMMA OtherStepsKeepRows ==
  ASSUME [Next]_vars, \A w \in Writers : ~Insert(w) /\ ~Shift(w)
  PROVE  UNCHANGED <<rows, pos>>
BY DEF Next, Step, vars, StartAdd, StartRemove, Lock, LockSwallowed, ReadMax,
       InsertRejected, DeleteAndScan, ShiftRejected, Busy

(***************************************************************************)
(* With both databases, and whatever became of the locks, no song ever     *)
(* overtakes another of its group (delete, uq_session_group_position).     *)
(***************************************************************************)
THEOREM NobodyOvertakes == Spec => OrderKept
<1> DEFINE A == \A i, j \in rows \cap rows' :
                  SameGroup(i, j) => (pos'[i] < pos'[j] <=> pos[i] < pos[j])
<1>1. ASSUME IInv, IInv', [Next]_vars
      PROVE  A
  <2>1. ASSUME NEW w \in Writers, Insert(w)
        PROVE  A
    BY <1>1, <2>1, InsertKeepsOrder
  <2>2. ASSUME NEW w \in Writers, Shift(w)
        PROVE  A
    BY <1>1, <2>2, ShiftKeepsOrder
  <2>3. CASE UNCHANGED <<rows, pos>>
    BY <2>3
  <2> QED
    BY <1>1, <2>1, <2>2, <2>3, OtherStepsKeepRows
<1>2. IInv /\ IInv' /\ [Next]_vars => [A]_vars
  BY <1>1
<1> HIDE DEF A
<1>3. Spec => [][A]_vars
  BY <1>2, SpecIInv, PTL DEF Spec
<1> QED
  BY <1>3 DEF OrderKept, A

-----------------------------------------------------------------------------
(* The table implements the FIFO queue. *)

LEMMA InsertIsEnqueue ==
  ASSUME IInv, NEW w \in Writers, Insert(w), NextPositionFree
  PROVE  Fifo!Enqueue(arg[w])
<1> USE DEF IInv
<1> DEFINE i == arg[w]
<1>1. i \in Items /\ i \notin rows /\ rows' = rows \cup {i} /\ rows \subseteq Items
  BY DEF Insert, BusyArg, AddIsOwn, TypeOK, Adding
<1>2. pos'[i] = seen[w] /\ \A j \in rows : pos'[j] = pos[j]
  BY <1>1 DEF Insert, TypeOK
<1>3. \A j \in rows : SameGroup(j, i) => pos[j] < seen[w]
  BY DEF Insert, NextPositionFree, InGroupOf, SameGroup
<1>4. seen[w] \in Nat /\ \A j \in rows : pos[j] \in Nat
  BY DEF TypeOK
<1> HIDE DEF i
<1>5. \A j, k \in rows' :
        (SameGroup(j, k) /\ pos'[j] < pos'[k]) <=>
          \/ j \in rows /\ k \in rows /\ SameGroup(j, k) /\ pos[j] < pos[k]
          \/ j \in rows /\ k = i /\ SameGroup(j, i)
  BY <1>1, <1>2, <1>3, <1>4 DEF SameGroup
<1>6. PlayOrder' = PlayOrder \cup {<<j, i>> : j \in {k \in rows : SameGroup(k, i)}}
  BY <1>1, <1>5 DEF PlayOrder, SameGroup
<1> QED BY <1>1, <1>6 DEF Fifo!Enqueue, Fifo!SameGroup, SameGroup, i

LEMMA ShiftIsDequeue ==
  ASSUME IInv, IInv', NEW w \in Writers, Shift(w)
  PROVE  Fifo!Dequeue(arg[w]) \/ UNCHANGED Fifo!vars
<1> DEFINE i == arg[w]
<1>1. rows' = rows \ {i}
  BY DEF Shift
<1>2. \A j, k \in rows' : SameGroup(j, k) => (pos'[j] < pos'[k] <=> pos[j] < pos[k])
  BY ShiftKeepsOrder
<1>3. PlayOrder' = {p \in PlayOrder : p[1] # i /\ p[2] # i}
  BY <1>1, <1>2 DEF PlayOrder, SameGroup
<1>4. CASE i \in rows
  BY <1>1, <1>3, <1>4 DEF Fifo!Dequeue
<1>5. CASE i \notin rows
  BY <1>1, <1>3, <1>5 DEF Fifo!vars, PlayOrder
<1> QED BY <1>4, <1>5

LEMMA InitIsFifo == Init => Fifo!Init
BY DEF Init, Fifo!Init, PlayOrder

LEMMA StepIsFifo == IInv /\ IInv' /\ NextPositionFree /\ [Next]_vars => [Fifo!Next]_(Fifo!vars)
<1> SUFFICES ASSUME IInv, IInv', NextPositionFree, [Next]_vars
             PROVE  [Fifo!Next]_(Fifo!vars)
  OBVIOUS
<1>1. ASSUME NEW w \in Writers, Insert(w)
      PROVE  Fifo!Next
  <2>1. arg[w] \in Items
    BY <1>1 DEF Insert, IInv, BusyArg, TypeOK
  <2> QED BY <1>1, <2>1, InsertIsEnqueue DEF Fifo!Next
<1>2. ASSUME NEW w \in Writers, Shift(w)
      PROVE  [Fifo!Next]_(Fifo!vars)
  <2>1. arg[w] \in Items
    BY <1>2 DEF Shift, IInv, BusyArg, TypeOK
  <2> QED BY <1>2, <2>1, ShiftIsDequeue DEF Fifo!Next
<1>3. ASSUME UNCHANGED <<rows, pos>>
      PROVE  UNCHANGED Fifo!vars
  BY <1>3 DEF Fifo!vars, PlayOrder, SameGroup
<1> QED BY <1>1, <1>2, <1>3, OtherStepsKeepRows

(***************************************************************************)
(* Whatever PostgreSQL writers do at once, the committed table is a FIFO   *)
(* queue per group: every song joins at the end, and those that stay keep  *)
(* their order although deletes and adds do not exclude each other.        *)
(***************************************************************************)
THEOREM ImplementsFifoQueue ==
  ASSUME Dialect = "postgresql"
  PROVE  Spec => IsFifoQueue
<1>1. IInv => NextPositionFree
  BY DEF IInv, ReadIsCurrent
<1> QED
  BY <1>1, InitIsFifo, StepIsFifo, SpecIInv, PTL DEF Spec, IsFifoQueue, Fifo!Spec

(***************************************************************************)
(* On SQLite an add that goes on without its lock reads a position that    *)
(* another transaction is about to change.  If that never happens, whoever *)
(* is past the lock holds the file.                                        *)
(***************************************************************************)
LocksAreTaken == \A w \in Writers : ~LockSwallowed(w)

FileHeld ==
  \A w \in Writers : pc[w] \in {"addRead", "addWrite", "delScan", "delShift"}
                       => holder["file"] = w

LEMMA FinishKeepsFileHeld ==
  ASSUME TypeOK, FileHeld, NEW w \in Writers, Finish(w)
  PROVE  FileHeld'
<1>1. "file" \in LockKeys
  BY DEF LockKeys
<1>2. ASSUME NEW v \in Writers, pc'[v] \in {"addRead", "addWrite", "delScan", "delShift"}
      PROVE  holder'["file"] = v
  <2>1. v # w /\ pc[v] = pc'[v]
    BY <1>2, FinishEffect
  <2> QED
    BY <1>1, <1>2, <2>1, FinishEffect DEF FileHeld
<1> QED
  BY <1>2 DEF FileHeld

LEMMA FileHeldKept ==
  ASSUME IInv, IInv', FileHeld, [Next]_vars, LocksAreTaken, Dialect = "sqlite"
  PROVE  FileHeld'
<1>1. TypeOK /\ "file" \in LockKeys /\ "idle" \notin Adding \cup Removing
  BY DEF IInv, LockKeys, Adding, Removing
<1>2. ASSUME NEW w \in Writers, NEW i \in Items, StartAdd(w, i) \/ StartRemove(w, i)
      PROVE  FileHeld'
  BY <1>1, <1>2 DEF StartAdd, StartRemove, Goto, FileHeld, TypeOK
<1>3. ASSUME NEW w \in Writers, Lock(w)
      PROVE  FileHeld'
  <2>1. /\ holder["file"] = NoWriter /\ holder' = [holder EXCEPT !["file"] = w]
        /\ \A v \in Writers \ {w} : pc'[v] = pc[v]
    BY <1>1, <1>3 DEF Lock, Key, Free, Goto, TypeOK
  <2> QED
    BY <1>1, <2>1, QueueStoreAssumption DEF FileHeld, TypeOK, QueueStoreAssumption
<1>4. ASSUME NEW w \in Writers, ReadMax(w)
      PROVE  FileHeld'
  BY <1>1, <1>4 DEF ReadMax, Goto, FileHeld, TypeOK
<1>5. ASSUME NEW w \in Writers, DeleteAndScan(w)
      PROVE  FileHeld'
  <2>1. holder["file"] = w /\ holder'["file"] = w
    BY <1>1, <1>5 DEF DeleteAndScan, FileHeld, TypeOK
  <2>2. \A v \in Writers \ {w} : pc'[v] = pc[v]
    BY <1>1, <1>5 DEF DeleteAndScan, Goto, TypeOK
  <2> QED
    BY <2>1, <2>2 DEF FileHeld
<1>6. ASSUME NEW w \in Writers, Finish(w)
      PROVE  FileHeld'
  BY <1>1, <1>6, FinishKeepsFileHeld
<1>7. CASE UNCHANGED vars
  BY <1>7 DEF vars, FileHeld
<1> QED
  BY <1>2, <1>3, <1>4, <1>5, <1>6, <1>7
     DEF Next, Step, LocksAreTaken, Insert, InsertRejected, Shift, ShiftRejected, Busy

LEMMA NextPositionKept ==
  ASSUME IInv, IInv', FileHeld, FileHeld', NextPositionFree, [Next]_vars
  PROVE  NextPositionFree'
<1>1. TypeOK /\ TypeOK'
  BY DEF IInv
<1> SUFFICES ASSUME NEW v \in Writers, pc'[v] = "addWrite"
             PROVE  \A j \in InGroupOf(arg[v])' : pos'[j] < seen'[v]
  BY DEF NextPositionFree
<1>2. holder'["file"] = v
  BY DEF FileHeld
<1>3. ASSUME NEW w \in Writers, Insert(w) \/ Shift(w)
      PROVE  FALSE
  <2>1. pc[w] \in {"addWrite", "delShift"} /\ Finish(w)
    BY <1>3 DEF Insert, Shift
  <2>2. v # w /\ pc[v] = "addWrite"
    BY <1>1, <2>1, FinishEffect
  <2>3. holder["file"] = w /\ holder["file"] = v
    BY <2>1, <2>2 DEF FileHeld
  <2> QED
    BY <2>2, <2>3
<1>4. UNCHANGED <<rows, pos>>
  BY <1>3, OtherStepsKeepRows
<1>5. CASE pc[v] = "addWrite" /\ UNCHANGED <<arg[v], seen[v]>>
  BY <1>4, <1>5 DEF NextPositionFree, InGroupOf, SameGroup
<1>6. CASE ReadMax(v)
  <2>1. arg[v] \in Items /\ UNCHANGED arg
    BY <1>1, <1>6 DEF ReadMax, IInv, BusyArg, TypeOK
  <2>2. \A j \in InGroupOf(arg[v]) : pos[j] < NextPosition(arg[v])
    BY <2>1, NextPositionBound DEF IInv
  <2>3. seen'[v] = NextPosition(arg[v])
    BY <1>1, <1>6 DEF ReadMax, TypeOK
  <2> QED
    BY <1>4, <2>1, <2>2, <2>3 DEF InGroupOf, SameGroup
<1>7. ASSUME NEW w \in Writers, Finish(w)
      PROVE  pc[v] = "addWrite" /\ UNCHANGED <<arg[v], seen[v]>>
  BY <1>1, <1>7, FinishEffect
<1>8. ASSUME NEW w \in Writers, NEW i \in Items, StartAdd(w, i) \/ StartRemove(w, i)
      PROVE  pc[v] = "addWrite" /\ UNCHANGED <<arg[v], seen[v]>>
  BY <1>1, <1>8 DEF StartAdd, StartRemove, Goto, TypeOK
<1>9. ASSUME NEW w \in Writers, Lock(w) \/ LockSwallowed(w) \/ DeleteAndScan(w)
      PROVE  pc[v] = "addWrite" /\ UNCHANGED <<arg[v], seen[v]>>
  BY <1>1, <1>9 DEF Lock, LockSwallowed, DeleteAndScan, Goto, AfterLock, TypeOK
<1>10. ASSUME NEW w \in Writers, ReadMax(w), w # v
       PROVE  pc[v] = "addWrite" /\ UNCHANGED <<arg[v], seen[v]>>
  BY <1>1, <1>10 DEF ReadMax, Goto, TypeOK
<1>11. CASE UNCHANGED vars
  BY <1>5, <1>11 DEF vars
<1> QED
  BY <1>3, <1>5, <1>6, <1>7, <1>8, <1>9, <1>10, <1>11
     DEF Next, Step, InsertRejected, ShiftRejected, Busy

(***************************************************************************)
(* On SQLite the table is a FIFO queue as long as no wait for the lock     *)
(* times out: what SQLiteQueueLock.__enter__ swallows is all there is to   *)
(* go wrong.                                                               *)
(***************************************************************************)
THEOREM ImplementsFifoQueueOnSQLite ==
  ASSUME Dialect = "sqlite"
  PROVE  Spec /\ [][LocksAreTaken]_vars => IsFifoQueue
<1>1. Init => FileHeld /\ NextPositionFree
  BY DEF Init, FileHeld, NextPositionFree
<1>2. IInv /\ IInv' /\ FileHeld /\ [Next]_vars /\ [LocksAreTaken]_vars => FileHeld'
  <2>1. CASE UNCHANGED vars
    BY <2>1 DEF vars, FileHeld
  <2> QED
    BY <2>1, FileHeldKept
<1>3. IInv /\ IInv' /\ FileHeld /\ FileHeld' /\ NextPositionFree /\ [Next]_vars
        => NextPositionFree'
  BY NextPositionKept
<1> QED
  BY <1>1, <1>2, <1>3, InitIsFifo, StepIsFifo, SpecIInv, PTL DEF Spec, IsFifoQueue, Fifo!Spec
=============================================================================
