----------------------------- MODULE QueueStore -----------------------------
(***************************************************************************)
(* The queue_items table and the writers that change it:                   *)
(* QueueRepository.add_to_queue_atomic and .delete, called by QueueService, *)
(* with the lock drivers of both databases.  A writer is one request: a    *)
(* thread or a worker process with a database session of its own.  Its     *)
(* steps are the points at which another writer's committed work, or the   *)
(* lock, can come between.                                                 *)
(*                                                                         *)
(* One playback session is modelled; its rows carry a group, and a         *)
(* position that is unique in the group (uq_session_group_position).       *)
(***************************************************************************)
EXTENDS Naturals, FiniteSetsExt

CONSTANTS
  Dialect,   \* "postgresql" or "sqlite": what _get_dialect_name returns
  Writers,   \* the concurrent requests
  NoWriter,  \* the holder of a free lock
  Items,     \* the row ids (uuid4) that are ever generated
  Groups,    \* the queue groups
  Group,     \* the group each row is created in
  NoItem     \* the argument of an idle writer

ASSUME QueueStoreAssumption ==
  /\ Dialect \in {"postgresql", "sqlite"}
  /\ NoWriter \notin Writers
  /\ NoItem \notin Items
  /\ Group \in [Items -> Groups]

VARIABLES
  rows,     \* the committed rows
  pos,      \* QueueItem.position of the rows (0 for an id that is no row)
  created,  \* the ids generated so far
  holder,   \* who holds each lock key
  pc,       \* the next step of each writer
  arg,      \* the item each writer adds or removes
  seen,     \* add: max(position) + 1 as read; remove: the position as loaded
  scan      \* remove: the rows that the shift's SELECT returned

vars == <<rows, pos, created, holder, pc, arg, seen, scan>>

-----------------------------------------------------------------------------
(* Rows and positions *)

SameGroup(i, j) == Group[i] = Group[j]

InGroupOf(i) == {j \in rows : SameGroup(i, j)}

(***************************************************************************)
(* Variant that counts the rows instead of asking for max(position).       *)
(***************************************************************************)
CountedPosition(i) == Cardinality(InGroupOf(i))

(***************************************************************************)
(* coalesce(max(position), -1) + 1 over the rows of i's group.             *)
(***************************************************************************)
NextPosition(i) ==
  IF InGroupOf(i) = {}
    THEN 0
    ELSE 1 + Max({pos[j] : j \in InGroupOf(i)})

(***************************************************************************)
(* The unique constraint over the rows R with positions P.                 *)
(***************************************************************************)
ConstraintHolds(R, P) ==
  \A i, j \in R : i # j /\ SameGroup(i, j) => P[i] # P[j]

(***************************************************************************)
(* `position -= 1` for the rows of S, and what is then in the table.       *)
(***************************************************************************)
Shifted(S) == [i \in Items |-> IF i \in S THEN pos[i] - 1 ELSE pos[i]]

-----------------------------------------------------------------------------
(* Locks *)

LockKeys == Groups \cup {"file", "None:None"}

Adding == {"addLock", "addRead", "addWrite"}
Removing == {"delLock", "delScan", "delShift"}

(***************************************************************************)
(* _make_lock: add passes its session and group, delete passes neither, so *)
(* that PGQueueLock hashes the text "None:None".  BEGIN IMMEDIATE locks    *)
(* the database file.                                                      *)
(***************************************************************************)
Key(w) ==
  IF Dialect = "sqlite" THEN "file"
  ELSE IF pc[w] \in Adding THEN Group[arg[w]]
  ELSE "None:None"

(***************************************************************************)
(* Variant of a lock that excludes nobody.                                 *)
(***************************************************************************)
NeverHeld(k) == TRUE

Free(k) == holder[k] = NoWriter

(***************************************************************************)
(* SQLite admits one writing transaction at a time, with or without BEGIN  *)
(* IMMEDIATE; PostgreSQL's advisory locks stop nobody who does not ask.    *)
(***************************************************************************)
MayWrite(w) == Dialect = "sqlite" => holder["file"] \in {w, NoWriter}

(***************************************************************************)
(* Variant whose session stays open: the lock is never released.           *)
(***************************************************************************)
FinishLocked(w) ==
  /\ pc' = [pc EXCEPT ![w] = "idle"]
  /\ arg' = [arg EXCEPT ![w] = NoItem]
  /\ seen' = [seen EXCEPT ![w] = 0]
  /\ scan' = [scan EXCEPT ![w] = {}]
  /\ UNCHANGED holder

(***************************************************************************)
(* Commit, rollback or the close of the session: every lock of w's         *)
(* transaction is released and the request is over.                        *)
(***************************************************************************)
Finish(w) ==
  /\ holder' = [k \in LockKeys |-> IF holder[k] = w THEN NoWriter ELSE holder[k]]
  /\ pc' = [pc EXCEPT ![w] = "idle"]
  /\ arg' = [arg EXCEPT ![w] = NoItem]
  /\ seen' = [seen EXCEPT ![w] = 0]
  /\ scan' = [scan EXCEPT ![w] = {}]

Goto(w, step) == pc' = [pc EXCEPT ![w] = step]

AfterLock(w) == IF pc[w] = "addLock" THEN "addRead" ELSE "delScan"

-----------------------------------------------------------------------------
Init ==
  /\ rows = {}
  /\ pos = [i \in Items |-> 0]
  /\ created = {}
  /\ holder = [k \in LockKeys |-> NoWriter]
  /\ pc = [w \in Writers |-> "idle"]
  /\ arg = [w \in Writers |-> NoItem]
  /\ seen = [w \in Writers |-> 0]
  /\ scan = [w \in Writers |-> {}]

(***************************************************************************)
(* QueueService.add_to_queue -> add_to_queue_atomic, for a new row i.      *)
(***************************************************************************)
StartAdd(w, i) ==
  /\ pc[w] = "idle"
  /\ i \notin created
  /\ created' = created \cup {i}
  /\ arg' = [arg EXCEPT ![w] = i]
  /\ Goto(w, "addLock")
  /\ UNCHANGED <<rows, pos, holder, seen, scan>>

(***************************************************************************)
(* QueueService.remove_from_queue: get_queue_item loads the row into the   *)
(* session's identity map before any lock is asked for, and delete's       *)
(* session.get returns that object, with the position it had here.         *)
(***************************************************************************)
StartRemove(w, i) ==
  /\ pc[w] = "idle"
  /\ i \in rows
  /\ arg' = [arg EXCEPT ![w] = i]
  /\ seen' = [seen EXCEPT ![w] = pos[i]]
  /\ Goto(w, "delLock")
  /\ UNCHANGED <<rows, pos, created, holder, scan>>

(***************************************************************************)
(* __enter__ of the driver's lock returns with the lock held.              *)
(***************************************************************************)
Lock(w) ==
  /\ pc[w] \in {"addLock", "delLock"}
  /\ Free(Key(w))
  /\ holder' = [holder EXCEPT ![Key(w)] = w]
  /\ Goto(w, AfterLock(w))
  /\ UNCHANGED <<rows, pos, created, arg, seen, scan>>

(***************************************************************************)
(* SQLite's busy timeout runs out while another transaction writes:        *)
(* SQLiteQueueLock.__enter__ swallows the error and the caller goes on.    *)
(***************************************************************************)
LockSwallowed(w) ==
  /\ Dialect = "sqlite"
  /\ pc[w] \in {"addLock", "delLock"}
  /\ ~Free("file")
  /\ Goto(w, AfterLock(w))
  /\ UNCHANGED <<rows, pos, created, holder, arg, seen, scan>>

ReadMax(w) ==
  /\ pc[w] = "addRead"
  /\ seen' = [seen EXCEPT ![w] = NextPosition(arg[w])]
  /\ Goto(w, "addWrite")
  /\ UNCHANGED <<rows, pos, created, holder, arg, scan>>

(***************************************************************************)
(* INSERT and COMMIT, or the IntegrityError of a position that is taken.   *)
(***************************************************************************)
PositionTaken(w) == \E j \in InGroupOf(arg[w]) : pos[j] = seen[w]

Insert(w) ==
  /\ pc[w] = "addWrite"
  /\ MayWrite(w)
  /\ ~PositionTaken(w)
  /\ rows' = rows \cup {arg[w]}
  /\ pos' = [pos EXCEPT ![arg[w]] = seen[w]]
  /\ Finish(w)
  /\ UNCHANGED created

(***************************************************************************)
(* Variant that tries the same position again after an IntegrityError.     *)
(***************************************************************************)
InsertAgain(w) ==
  /\ pc[w] = "addWrite"
  /\ MayWrite(w)
  /\ PositionTaken(w)
  /\ Goto(w, "addWrite")
  /\ UNCHANGED <<rows, pos, created, holder, arg, seen, scan>>

InsertRejected(w) ==
  /\ pc[w] = "addWrite"
  /\ MayWrite(w)
  /\ PositionTaken(w)
  /\ Finish(w)
  /\ UNCHANGED <<rows, pos, created>>

(***************************************************************************)
(* Variant without `QueueItem.position > position`.                        *)
(***************************************************************************)
AllOthers(w) == InGroupOf(arg[w]) \ {arg[w]}

(***************************************************************************)
(* delete up to its SELECT: the row is deleted in the open transaction     *)
(* and the rows above the LOADED position are collected.  The statement    *)
(* takes SQLite's write lock if BEGIN IMMEDIATE did not.                   *)
(***************************************************************************)
Subsequent(w) ==
  {j \in InGroupOf(arg[w]) \ {arg[w]} : pos[j] > seen[w]}

(***************************************************************************)
(* Variant that selects before it deletes, and so without SQLite's write   *)
(* lock.                                                                   *)
(***************************************************************************)
ScanFirst(w) ==
  /\ pc[w] = "delScan"
  /\ MayWrite(w)
  /\ scan' = [scan EXCEPT ![w] = Subsequent(w)]
  /\ Goto(w, "delShift")
  /\ UNCHANGED <<rows, pos, created, holder, arg, seen>>

DeleteAndScan(w) ==
  /\ pc[w] = "delScan"
  /\ MayWrite(w)
  /\ scan' = [scan EXCEPT ![w] = Subsequent(w)]
  /\ holder' = IF Dialect = "sqlite" THEN [holder EXCEPT !["file"] = w] ELSE holder
  /\ Goto(w, "delShift")
  /\ UNCHANGED <<rows, pos, created, arg, seen>>

(***************************************************************************)
(* Variant without the unique constraint.                                  *)
(***************************************************************************)
Unconstrained(w) == TRUE

(***************************************************************************)
(* The shift in ascending order, one flush per row, and the COMMIT.  A     *)
(* flush meets the unique constraint exactly when the outcome would not    *)
(* satisfy it (a row of the scan has already left the place below it);     *)
(* then everything is rolled back and IntegrityError is raised.            *)
(***************************************************************************)
ShiftAllowed(w) == ConstraintHolds(rows \ {arg[w]}, Shifted(scan[w]))

Shift(w) ==
  /\ pc[w] = "delShift"
  /\ ShiftAllowed(w)
  /\ rows' = rows \ {arg[w]}
  /\ pos' = [Shifted(scan[w]) EXCEPT ![arg[w]] = 0]
  /\ Finish(w)
  /\ UNCHANGED created

ShiftRejected(w) ==
  /\ pc[w] = "delShift"
  /\ ~ShiftAllowed(w)
  /\ Finish(w)
  /\ UNCHANGED <<rows, pos, created>>

(***************************************************************************)
(* A write statement of a SQLite request that went on without the lock     *)
(* finds the file locked until its own timeout: "database is locked".      *)
(***************************************************************************)
Busy(w) ==
  /\ pc[w] \in {"addWrite", "delScan"}
  /\ ~MayWrite(w)
  /\ Finish(w)
  /\ UNCHANGED <<rows, pos, created>>

Step(w) ==
  \/ Lock(w) \/ LockSwallowed(w)
  \/ ReadMax(w) \/ Insert(w) \/ InsertRejected(w)
  \/ DeleteAndScan(w) \/ Shift(w) \/ ShiftRejected(w)
  \/ Busy(w)

Next ==
  \E w \in Writers :
    \/ \E i \in Items : StartAdd(w, i) \/ StartRemove(w, i)
    \/ Step(w)

(***************************************************************************)
(* Once begun, a request is run to its end by its thread; nobody has to    *)
(* begin one.                                                              *)
(***************************************************************************)
Fairness == \A w \in Writers : WF_vars(Step(w))

Spec == Init /\ [][Next]_vars /\ Fairness

-----------------------------------------------------------------------------
(* Properties *)

(***************************************************************************)
(* The type invariant of the table, the locks and the requests.            *)
(***************************************************************************)
TypeOK ==
  /\ rows \subseteq created
  /\ created \subseteq Items
  /\ pos \in [Items -> Nat]
  /\ holder \in [LockKeys -> Writers \cup {NoWriter}]
  /\ pc \in [Writers -> {"idle"} \cup Adding \cup Removing]
  /\ arg \in [Writers -> Items \cup {NoItem}]
  /\ seen \in [Writers -> Nat]
  /\ scan \in [Writers -> SUBSET Items]

(***************************************************************************)
(* The position an add has read is above every position of its group until *)
(* its INSERT: no other add is inside the group's lock, and a concurrent   *)
(* delete only lowers positions (add_to_queue_atomic, delete).             *)
(***************************************************************************)
NextPositionFree ==
  \A w \in Writers :
    pc[w] = "addWrite" => \A j \in InGroupOf(arg[w]) : pos[j] < seen[w]

(***************************************************************************)
(* A delete never works from rows that changed under it: what its SELECT   *)
(* returned is still there, above the loaded position, when it shifts.  On *)
(* SQLite these are all such rows; on PostgreSQL an add, which asks for    *)
(* another lock, may have put a row behind them (delete, _make_lock).      *)
(***************************************************************************)
ScanCurrent ==
  \A w \in Writers : pc[w] = "delShift" =>
    /\ scan[w] \subseteq Subsequent(w)
    /\ Dialect = "sqlite" => scan[w] = Subsequent(w)

(***************************************************************************)
(* A new row is behind every row of its group that was there before it     *)
(* ("if two threads somehow slip through, the database raises an           *)
(* IntegrityError instead of silently corrupting data").                   *)
(***************************************************************************)
JoinsTheEnd ==
  [][\A i \in rows' \ rows : \A j \in InGroupOf(i) : pos'[j] < pos'[i]]_vars

(***************************************************************************)
(* No song overtakes another: those that stay keep their order, whatever   *)
(* is shifted, also when a delete takes its position from the row as it    *)
(* was before another delete (delete, uq_session_group_position).          *)
(***************************************************************************)
OrderKept ==
  [][\A i, j \in rows \cap rows' :
       SameGroup(i, j) => (pos'[i] < pos'[j] <=> pos[i] < pos[j])]_vars

(***************************************************************************)
(* The committed positions of a group are 0, 1, ... with no hole, which is *)
(* what `delete` shifts the rows above the deleted one for.                *)
(***************************************************************************)
Contiguous == \A i \in rows : pos[i] < Cardinality(InGroupOf(i))

(***************************************************************************)
(* The table is a FIFO queue per group: every committed change is one song *)
(* joining the end or one song leaving, although positions may be stale,   *)
(* shifted late or holed.                                                  *)
(***************************************************************************)
PlayOrder ==
  {p \in rows \X rows : SameGroup(p[1], p[2]) /\ pos[p[1]] < pos[p[2]]}

Fifo == INSTANCE FifoQueue WITH queued <- rows, before <- PlayOrder

IsFifoQueue == Fifo!Spec

(***************************************************************************)
(* Every request that began ends: no order of lock requests leaves writers *)
(* waiting for each other.                                                 *)
(***************************************************************************)
RequestsEnd == \A w \in Writers : pc[w] # "idle" ~> pc[w] = "idle"
=============================================================================
