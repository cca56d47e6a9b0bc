--------------------------- MODULE TaskQueueProofs ---------------------------
(***************************************************************************)
(* Theorems about TaskQueue for every set of tasks, keys and every gate    *)
(* width.                                                                  *)
(***************************************************************************)
EXTENDS TaskQueue, FiniteSetTheorems, TLAPS

USE QueueAssumption

LEMMA MovedTypes ==
  ASSUME NEW s \in Status, NEW target \in Known
  PROVE  Moved(s, target) \in Status
BY DEF Moved, Successors, AsState, Status, Known

LEMMA ReleaseTypes ==
  ASSUME TypeOK, NEW t \in Task, Release(t)
  PROVE  running' \in 0..MaxRunning /\ active' \subseteq Key
BY DEF TypeOK, Release

LEMMA ReleaseIfHeldTypes ==
  ASSUME TypeOK, NEW t \in Task, ReleaseIfHeld(t)
  PROVE  running' \in 0..MaxRunning /\ active' \subseteq Key
BY ReleaseTypes DEF TypeOK, ReleaseIfHeld

LEMMA GotoTypes ==
  ASSUME TypeOK, NEW t \in Task, NEW point \in WorkerPoint, Goto(t, point)
  PROVE  worker' \in [Task -> WorkerPoint]
BY DEF TypeOK, Goto

LEMMA FinishTypes ==
  ASSUME TypeOK, NEW t \in Task, NEW ok \in BOOLEAN, Finish(t, ok)
  PROVE  /\ status' \in [Task -> Status \cup {"new", "removed"}]
         /\ cancel' = cancel
         /\ running' \in 0..MaxRunning /\ active' \subseteq Key
<1> DEFINE target == IF cancel[t] THEN "cancelled"
                     ELSE IF ok THEN "succeeded" ELSE "failed"
<1>1. target \in Known /\ target \in Status
  BY DEF Known, Status
<1>2. status[t] \in Status /\ ReleaseIfHeld(t)
  BY DEF Finish, Present
<1>3. Moved(status[t], target) \in Status
  BY <1>1, <1>2, MovedTypes
<1>4. status' = [status EXCEPT ![t] = IF @ = "waiting_input" THEN target
                                      ELSE Moved(@, target)]
  BY DEF Finish
<1> HIDE DEF target
<1>5. status' \in [Task -> Status \cup {"new", "removed"}]
  BY <1>1, <1>3, <1>4 DEF TypeOK
<1>6. QED
  BY <1>2, <1>5, ReleaseIfHeldTypes DEF Finish
-----------------------------------------------------------------------------
(* Type correctness. *)

LEMMA TypeStep == TypeOK /\ [Next]_vars => TypeOK'
<1> SUFFICES ASSUME TypeOK, [Next]_vars PROVE TypeOK'
  OBVIOUS
<1> USE DEF TypeOK
<1>a. {"queued", "running", "interrupted", "miss", "cancelled", "rolling_back",
       "rolled_back"} \subseteq Known /\ Known \subseteq Status
  BY DEF Known, Status
<1>b. {"none", "polling", "recheck", "working", "undo", "undoing", "undone",
       "closingOk", "closingErr", "done"} = WorkerPoint
  BY DEF WorkerPoint
<1>1. ASSUME NEW t \in Task, Enqueue(t) \/ EnqueueWithoutWorker(t) PROVE TypeOK'
  BY <1>1, <1>a, <1>b, GotoTypes DEF Enqueue, EnqueueWithoutWorker
<1>2. ASSUME NEW t \in Task, RequestCancel(t) \/ Remove(t) PROVE TypeOK'
  BY <1>2 DEF RequestCancel, Remove
<1>3. ASSUME NEW t \in Task, NEW ok \in BOOLEAN, FinishCall(t, ok) PROVE TypeOK'
  BY <1>3, FinishTypes DEF FinishCall
<1>4. ASSUME NEW t \in Task, MarkMissed(t) PROVE TypeOK'
  <2>1. Moved(status[t], "miss") \in Status
    BY <1>4, <1>a, MovedTypes DEF MarkMissed, Present
  <2>2. QED
    BY <1>4, <2>1, ReleaseIfHeldTypes DEF MarkMissed
<1>5. ASSUME InterruptRunning PROVE TypeOK'
  <2>1. \A t \in Task : Present(t) => Moved(status[t], "interrupted") \in Status
    BY <1>a, MovedTypes DEF Present
  <2>2. QED
    BY <1>5, <2>1 DEF InterruptRunning
<1>6. ASSUME NEW t \in Task, StartMissing(t) \/ StartRefused(t) \/ Recheck(t)
      PROVE TypeOK'
  BY <1>6, <1>b, GotoTypes DEF StartMissing, StartRefused, Recheck, queue
<1>7. ASSUME NEW t \in Task, StartCancelled(t) PROVE TypeOK'
  <2>1. Moved(status[t], "cancelled") \in Status
    BY <1>7, <1>a, MovedTypes DEF StartCancelled, Present
  <2>2. QED
    BY <1>7, <1>b, <2>1, GotoTypes DEF StartCancelled
<1>8. ASSUME NEW t \in Task, StartAdmitted(t) PROVE TypeOK'
  <2>1. worker' \in [Task -> WorkerPoint]
    BY <1>8, <1>b, GotoTypes DEF StartAdmitted
  <2>2. running' \in 0..MaxRunning /\ active' \subseteq Key
    BY <1>8 DEF StartAdmitted, Admissible
  <2>3. QED
    BY <1>8, <1>a, <2>1, <2>2 DEF StartAdmitted
<1>9. ASSUME NEW t \in Task, NEW ok \in BOOLEAN, WorkReturns(t, ok) PROVE TypeOK'
  BY <1>9, <1>b, GotoTypes DEF WorkReturns, queue
<1>10. ASSUME NEW t \in Task, StartRollback(t) PROVE TypeOK'
  <2>1. Present(t) => Moved(status[t], "rolling_back") \in Status
    BY <1>a, MovedTypes DEF Present
  <2>2. worker' \in [Task -> WorkerPoint]
    BY <1>10, <1>b, GotoTypes DEF StartRollback
  <2>3. QED
    BY <1>10, <2>1, <2>2 DEF StartRollback
<1>11. ASSUME NEW t \in Task, UndoReturns(t) PROVE TypeOK'
  BY <1>11, <1>b, GotoTypes DEF UndoReturns, queue
<1>12. ASSUME NEW t \in Task, FinishRollback(t) PROVE TypeOK'
  <2>1. Present(t) => Moved(status[t], "rolled_back") \in Status
    BY <1>a, MovedTypes DEF Present
  <2>2. worker' \in [Task -> WorkerPoint]
    BY <1>12, <1>b, GotoTypes DEF FinishRollback
  <2>3. running' \in 0..MaxRunning /\ active' \subseteq Key
    BY <1>12, ReleaseTypes DEF FinishRollback
  <2>4. QED
    BY <1>12, <2>1, <2>2, <2>3 DEF FinishRollback
<1>13. ASSUME NEW t \in Task, WorkerFinish(t) PROVE TypeOK'
  <2>1. worker' \in [Task -> WorkerPoint]
    BY <1>13, <1>b, GotoTypes DEF WorkerFinish
  <2>2. QED
    BY <1>13, <2>1, FinishTypes DEF WorkerFinish, queue
<1>14. ASSUME UNCHANGED vars PROVE TypeOK'
  BY <1>14 DEF vars
<1>15. QED
  BY <1>1, <1>2, <1>3, <1>4, <1>5, <1>6, <1>7, <1>8, <1>9, <1>10, <1>11, <1>12,
     <1>13, <1>14 DEF Next, Worker, Client

\* Every variable of the queue keeps its type, and in particular the gate never
\* counts more than MaxRunning nor below zero (the code's usize).
THEOREM TypeCorrect == Spec => []TypeOK
<1>1. Init => TypeOK
  BY DEF Init, TypeOK, Status, WorkerPoint
<1>2. QED
  BY <1>1, TypeStep, PTL DEF Spec
-----------------------------------------------------------------------------
(* History: what a step may do to a record that is closed or cancelled. *)

\* A move of the state machine stays or reaches its target, and a terminal
\* state has no successor.
LEMMA MovedShape ==
  ASSUME NEW s \in Status, NEW target \in Known
  PROVE  /\ Moved(s, target) \in {s, target}
         /\ s \in Terminal => Moved(s, target) = s
BY DEF Moved, Successors, AsState, Status, Known, Terminal

\* The two history properties of one record over one step.
RecordKept(t) ==
  /\ status[t] \in Terminal => status'[t] \in {status[t], "removed"}
  /\ cancel[t] /\ status[t] # "succeeded" => status'[t] # "succeeded"

LEMMA MoveKeeps ==
  ASSUME TypeOK, NEW t \in Task, Present(t),
         NEW target \in Known, cancel[t] => target # "succeeded",
         status' = [status EXCEPT ![t] = Moved(@, target)]
  PROVE  \A u \in Task : RecordKept(u)
<1>1. /\ Moved(status[t], target) \in {status[t], target}
      /\ status[t] \in Terminal => Moved(status[t], target) = status[t]
  BY MovedShape DEF Present
<1>2. \A u \in Task : status'[u] = IF u = t THEN Moved(status[t], target) ELSE status[u]
  BY DEF TypeOK
<1>3. QED
  BY <1>1, <1>2 DEF RecordKept

LEMMA FinishKeeps ==
  ASSUME TypeOK, NEW t \in Task, NEW ok \in BOOLEAN, Finish(t, ok)
  PROVE  \A u \in Task : RecordKept(u)
<1> DEFINE target == IF cancel[t] THEN "cancelled"
                     ELSE IF ok THEN "succeeded" ELSE "failed"
<1>1. target \in Known /\ (cancel[t] => target # "succeeded")
  BY DEF Known
<1>2. Present(t) /\ status' = [status EXCEPT ![t] = IF @ = "waiting_input" THEN target
                                                    ELSE Moved(@, target)]
  BY DEF Finish
<1> HIDE DEF target
<1>3. CASE status[t] = "waiting_input"
  BY <1>1, <1>2, <1>3 DEF TypeOK, RecordKept, Terminal
<1>4. CASE status[t] # "waiting_input"
  BY <1>1, <1>2, <1>4, MoveKeeps DEF TypeOK
<1>5. QED
  BY <1>3, <1>4

LEMMA HistoryStep ==
  ASSUME TypeOK, [Next]_vars
  PROVE  \A u \in Task : RecordKept(u)
<1> USE DEF TypeOK
<1>a. {"interrupted", "miss", "cancelled", "rolling_back", "rolled_back"} \subseteq Known
  BY DEF Known
<1>1. ASSUME UNCHANGED status PROVE \A u \in Task : RecordKept(u)
  BY <1>1 DEF RecordKept
<1>2. ASSUME NEW t \in Task, Enqueue(t) \/ EnqueueWithoutWorker(t)
      PROVE  \A u \in Task : RecordKept(u)
  BY <1>2 DEF Enqueue, EnqueueWithoutWorker, RecordKept, Terminal
<1>3. ASSUME NEW t \in Task, RequestCancel(t) PROVE UNCHANGED status
  BY <1>3 DEF RequestCancel
<1>4. ASSUME NEW t \in Task, Remove(t) PROVE \A u \in Task : RecordKept(u)
  BY <1>4 DEF Remove, RecordKept
<1>5. ASSUME NEW t \in Task, NEW ok \in BOOLEAN, FinishCall(t, ok)
      PROVE  \A u \in Task : RecordKept(u)
  BY <1>5, FinishKeeps DEF FinishCall
<1>6. ASSUME NEW t \in Task, MarkMissed(t) PROVE \A u \in Task : RecordKept(u)
  BY <1>6, <1>a, MoveKeeps DEF MarkMissed
<1>7. ASSUME InterruptRunning PROVE \A u \in Task : RecordKept(u)
  <2>1. \A u \in Task : status'[u] \in {status[u], "interrupted"}
    BY <1>7, <1>a, MovedShape DEF InterruptRunning, Present
  <2>2. \A u \in Task : status[u] \in Terminal => status'[u] = status[u]
    BY <1>7 DEF InterruptRunning, NeedsClose, Finished
  <2>3. QED
    BY <2>1, <2>2 DEF RecordKept
<1>8. ASSUME NEW t \in Task,
             StartMissing(t) \/ StartRefused(t) \/ Recheck(t) \/ UndoReturns(t)
               \/ \E ok \in BOOLEAN : WorkReturns(t, ok)
      PROVE  UNCHANGED status
  BY <1>8 DEF StartMissing, StartRefused, Recheck, UndoReturns, WorkReturns, queue
<1>9. ASSUME NEW t \in Task, StartCancelled(t) PROVE \A u \in Task : RecordKept(u)
  BY <1>9, <1>a, <1>1, MoveKeeps DEF StartCancelled
<1>10. ASSUME NEW t \in Task, StartAdmitted(t) PROVE \A u \in Task : RecordKept(u)
  BY <1>10 DEF StartAdmitted, Admissible, RecordKept, Terminal
<1>11. ASSUME NEW t \in Task, StartRollback(t) PROVE \A u \in Task : RecordKept(u)
  BY <1>11, <1>a, <1>1, MoveKeeps DEF StartRollback
<1>12. ASSUME NEW t \in Task, FinishRollback(t) PROVE \A u \in Task : RecordKept(u)
  BY <1>12, <1>a, <1>1, MoveKeeps DEF FinishRollback
<1>13. ASSUME NEW t \in Task, WorkerFinish(t) PROVE \A u \in Task : RecordKept(u)
  BY <1>13, <1>1, FinishKeeps DEF WorkerFinish, queue
<1>14. ASSUME UNCHANGED vars PROVE UNCHANGED status
  BY <1>14 DEF vars
<1>15. QED
  BY <1>1, <1>2, <1>3, <1>4, <1>5, <1>6, <1>7, <1>8, <1>9, <1>10, <1>11, <1>12,
     <1>13, <1>14 DEF Next, Worker, Client

\* A closed record is never rewritten, whoever reports late, whatever the
\* rollbacks, restored records, store failures and callers.
THEOREM ClosedStaysHolds == Spec => ClosedStays
<1>1. TypeOK /\ [Next]_vars
        => [\A t \in Task : status[t] \in Terminal => status'[t] \in {status[t], "removed"}]_vars
  BY HistoryStep DEF RecordKept
<1>2. QED
  BY <1>1, TypeCorrect, PTL DEF Spec, ClosedStays

\* After an accepted cancel no step of any thread reports success.
THEOREM CancelWinsHolds == Spec => CancelWins
<1>1. TypeOK /\ [Next]_vars
        => [\A t \in Task : cancel[t] /\ status[t] # "succeeded" => status'[t] # "succeeded"]_vars
  BY HistoryStep DEF RecordKept
<1>2. QED
  BY <1>1, TypeCorrect, PTL DEF Spec, CancelWins
-----------------------------------------------------------------------------
(* The books of the gate.  Without rollbacks and without restored            *)
(* "waiting_input" records the strengthening says that neither kind of state *)
(* ever shows up: finish_rollback would release unconditionally, and         *)
(* is_live_record would take "waiting_input" for a holder.  The last         *)
(* conjunct is what makes the cancel branch of try_start right: it closes a  *)
(* record and releases nothing.                                              *)

PlainRecords ==
  \A t \in Task : /\ status[t] # "waiting_input"
                  /\ worker[t] \notin {"undo", "undoing", "undone"}
                  /\ worker[t] \in {"polling", "recheck"} => status[t] # "running"

BooksInv == TypeOK /\ PlainRecords /\ Accounting

\* A step that leaves "running" and its complement alone keeps the books.
LEMMA SameHolders ==
  ASSUME TypeOK, Accounting, UNCHANGED <<running, active>>,
         \A u \in Task : status[u] = "running" <=> status'[u] = "running"
  PROVE  Accounting'
<1>1. Holders' = Holders
  BY DEF Holders
<1>2. QED
  BY <1>1 DEF Accounting, KeysHeldBy

\* A record that leaves "running" gives back what it took.
LEMMA HolderLeaves ==
  ASSUME TypeOK, Accounting, NEW t \in Task, status[t] = "running", Release(t),
         status'[t] # "running",
         \A u \in Task \ {t} : status'[u] = status[u]
  PROVE  Accounting'
<1>1. t \in Holders /\ Holders' = Holders \ {t}
  BY DEF Holders
<1>2. IsFiniteSet(Holders)
  BY FS_Subset DEF Holders
<1>3. Cardinality(Holders') = Cardinality(Holders) - 1 /\ Cardinality(Holders) \in Nat
  BY <1>1, <1>2, FS_RemoveElement, FS_CardinalityType
<1>4. Cardinality(Holders) # 0
  BY <1>1, <1>2, FS_EmptySet
<1>5. running' = Cardinality(Holders')
  BY <1>3, <1>4 DEF Accounting, Release
<1>6. \A u \in Holders : u # t => KeysOf[u] \cap KeysOf[t] = {}
  BY <1>1 DEF Accounting
<1>7. active' = UNION {KeysOf[u] : u \in Holders \ {t}}
  <2>1. active' = (UNION {KeysOf[u] : u \in Holders}) \ KeysOf[t]
    BY DEF Release, Accounting, KeysHeldBy
  <2>2. QED
    BY <2>1, <1>6
<1>8. QED
  BY <1>1, <1>5, <1>7 DEF Accounting, KeysHeldBy

\* ReleaseIfHeld gives back exactly what the record holds.
LEMMA HeldLeaves ==
  ASSUME TypeOK, Accounting, NEW t \in Task, Present(t),
         status[t] # "waiting_input", ReleaseIfHeld(t),
         NEW s, s # "running", status' = [status EXCEPT ![t] = s]
  PROVE  Accounting'
<1>1. \A u \in Task : status'[u] = IF u = t THEN s ELSE status[u]
  BY DEF TypeOK
<1>2. CASE status[t] = "running"
  BY <1>1, <1>2, HolderLeaves DEF ReleaseIfHeld, HoldsSlot
<1>3. CASE status[t] # "running"
  <2>1. UNCHANGED <<running, active>>
    BY <1>3 DEF ReleaseIfHeld, HoldsSlot, Present, Status
  <2>2. QED
    BY <1>1, <1>3, <2>1, SameHolders
<1>4. QED
  BY <1>2, <1>3

\* An admitted record takes a slot and keys nobody has.
LEMMA HolderEnters ==
  ASSUME TypeOK, Accounting, NEW t \in Task, status[t] # "running",
         KeysOf[t] \cap active = {},
         running' = running + 1, active' = active \cup KeysOf[t],
         status' = [status EXCEPT ![t] = "running"]
  PROVE  Accounting'
<1>1. t \notin Holders /\ Holders' = Holders \cup {t}
  BY DEF Holders, TypeOK
<1>2. IsFiniteSet(Holders)
  BY FS_Subset DEF Holders
<1>3. running' = Cardinality(Holders')
  BY <1>1, <1>2, FS_AddElement DEF Accounting
<1>4. \A u \in Holders : KeysOf[u] \subseteq active
  BY DEF Accounting, KeysHeldBy
<1>5. QED
  BY <1>1, <1>3, <1>4 DEF Accounting, KeysHeldBy

\* No closing move leads into "running".
LEMMA MovedCloses ==
  ASSUME NEW s \in Known,
         NEW target \in {"succeeded", "failed", "cancelled", "interrupted", "miss"}
  PROVE  /\ Moved(s, target) \in Known \ {"waiting_input", "running"}
         /\ Moved(s, target) \in {s, target}
BY DEF Moved, Successors, AsState, Known

LEMMA FinishBooks ==
  ASSUME BooksInv, NEW t \in Task, NEW ok \in BOOLEAN, Finish(t, ok)
  PROVE  /\ Accounting'
         /\ \A u \in Task : status'[u] = status[u] \/ status'[u] \notin {"waiting_input", "running"}
<1> DEFINE target == IF cancel[t] THEN "cancelled"
                     ELSE IF ok THEN "succeeded" ELSE "failed"
<1>1. status[t] # "waiting_input" /\ Present(t) /\ ReleaseIfHeld(t)
  BY DEF BooksInv, PlainRecords, Finish
<1>2. status' = [status EXCEPT ![t] = Moved(status[t], target)]
  BY <1>1 DEF Finish
<1>3. Moved(status[t], target) \notin {"running", "waiting_input"}
  <2>1. status[t] \in Known
    BY <1>1 DEF Present, Status
  <2>2. QED
    BY <2>1, MovedCloses
<1> HIDE DEF target
<1>4. Accounting'
  BY <1>1, <1>2, <1>3, HeldLeaves DEF BooksInv
<1>5. QED
  BY <1>2, <1>3, <1>4 DEF BooksInv, PlainRecords, TypeOK

LEMMA BooksStep ==
  ASSUME Rollback = {}, BooksInv, [Next]_vars
  PROVE  BooksInv'
<1>a. TypeOK' /\ TypeOK /\ Accounting /\ PlainRecords
  BY TypeStep DEF BooksInv
<1>b. \A t \in Task : status[t] # "waiting_input"
  BY <1>a DEF PlainRecords
<1> SUFFICES PlainRecords' /\ Accounting'
  BY <1>a DEF BooksInv
<1>1. ASSUME NEW t \in Task, Enqueue(t) \/ EnqueueWithoutWorker(t)
      PROVE  PlainRecords' /\ Accounting'
  <2>1. PlainRecords'
    BY <1>1, <1>a DEF Enqueue, EnqueueWithoutWorker, PlainRecords, Goto, TypeOK
  <2>2. Accounting'
    BY <1>1, <1>a, SameHolders DEF Enqueue, EnqueueWithoutWorker, TypeOK
  <2>3. QED
    BY <2>1, <2>2
<1>2. ASSUME NEW t \in Task, RequestCancel(t) \/ Remove(t)
      PROVE  PlainRecords' /\ Accounting'
  <2>1. PlainRecords'
    BY <1>2, <1>a DEF RequestCancel, Remove, PlainRecords, TypeOK
  <2>2. \A u \in Task : status[u] = "running" <=> status'[u] = "running"
    BY <1>2, <1>a DEF RequestCancel, Remove, TypeOK, AsState, Known, Active
  <2>3. Accounting'
    BY <1>2, <1>a, <2>2, SameHolders DEF RequestCancel, Remove
  <2>4. QED
    BY <2>1, <2>3
<1>3. ASSUME NEW t \in Task, NEW ok \in BOOLEAN, FinishCall(t, ok)
      PROVE  PlainRecords' /\ Accounting'
  BY <1>3, <1>a, FinishBooks DEF FinishCall, PlainRecords
<1>4. ASSUME NEW t \in Task, MarkMissed(t) PROVE PlainRecords' /\ Accounting'
  <2>1. Moved(status[t], "miss") \notin {"running", "waiting_input"}
    BY <1>4, <1>b, MovedCloses DEF MarkMissed, Status, Present
  <2>2. Accounting'
    BY <1>4, <1>a, <1>b, <2>1, HeldLeaves DEF MarkMissed
  <2>3. QED
    BY <1>4, <1>a, <2>1, <2>2 DEF MarkMissed, PlainRecords, TypeOK
<1>5. ASSUME InterruptRunning PROVE PlainRecords' /\ Accounting'
  <2>1. \A u \in Task : status'[u] \notin {"running", "waiting_input"}
    <3> SUFFICES ASSUME NEW u \in Task PROVE status'[u] \notin {"running", "waiting_input"}
      OBVIOUS
    <3>1. CASE Present(u) /\ NeedsClose(status[u])
      <4>1. status[u] \in Known
        BY <3>1, <1>b DEF Present, Status
      <4>2. QED
        BY <1>5, <3>1, <4>1, MovedCloses DEF InterruptRunning
    <3>2. CASE ~(Present(u) /\ NeedsClose(status[u]))
      BY <1>5, <1>a, <1>b, <3>2 DEF InterruptRunning, Present, NeedsClose, Finished,
                                    Terminal, Status, Known, TypeOK
    <3>3. QED
      BY <3>1, <3>2
  <2>2. Holders' = {}
    BY <2>1 DEF Holders
  <2>3. Accounting'
    BY <1>5, <2>2, FS_EmptySet DEF InterruptRunning, Accounting, KeysHeldBy
  <2>4. QED
    BY <1>5, <1>a, <2>1, <2>3 DEF InterruptRunning, PlainRecords
<1>6. ASSUME NEW t \in Task,
             \/ StartMissing(t) \/ StartRefused(t) \/ Recheck(t)
             \/ \E ok \in BOOLEAN : WorkReturns(t, ok)
      PROVE  PlainRecords' /\ Accounting'
  <2>1. UNCHANGED queue
    BY <1>6 DEF StartMissing, StartRefused, Recheck, WorkReturns
  <2>2. PlainRecords'
    BY <1>6, <1>a, <2>1 DEF StartMissing, StartRefused, Recheck, WorkReturns, Goto,
                            PlainRecords, TypeOK, queue
  <2>3. QED
    BY <1>a, <2>1, <2>2, SameHolders DEF queue
<1>7. ASSUME NEW t \in Task, StartCancelled(t) PROVE PlainRecords' /\ Accounting'
  <2>1. status[t] \in Known /\ status[t] # "running"
    BY <1>7, <1>a, <1>b DEF StartCancelled, Present, Status, PlainRecords
  <2>2. Moved(status[t], "cancelled") \notin {"running", "waiting_input"}
    BY <2>1, MovedCloses
  <2>3. \A u \in Task : /\ status[u] = "running" <=> status'[u] = "running"
                        /\ status'[u] # "waiting_input"
    BY <1>7, <1>a, <1>b, <2>1, <2>2 DEF StartCancelled, TypeOK
  <2>4. Accounting'
    BY <1>7, <1>a, <2>3, SameHolders DEF StartCancelled
  <2>5. PlainRecords'
    BY <1>7, <1>a, <2>3 DEF StartCancelled, Goto, PlainRecords, TypeOK
  <2>6. QED
    BY <2>4, <2>5
<1>8. ASSUME NEW t \in Task, StartAdmitted(t) PROVE PlainRecords' /\ Accounting'
  <2>1. Accounting'
    BY <1>8, <1>a, HolderEnters DEF StartAdmitted, Admissible
  <2>2. QED
    BY <1>8, <1>a, <2>1 DEF StartAdmitted, PlainRecords, Goto, TypeOK
<1>9. ASSUME NEW t \in Task, StartRollback(t) \/ UndoReturns(t) \/ FinishRollback(t)
      PROVE  FALSE
  BY <1>9, <1>a DEF StartRollback, UndoReturns, FinishRollback, PlainRecords
<1>10. ASSUME NEW t \in Task, WorkerFinish(t) PROVE PlainRecords' /\ Accounting'
  <2>1. /\ Accounting'
        /\ \A u \in Task : status'[u] = status[u] \/ status'[u] \notin {"waiting_input", "running"}
    BY <1>10, <1>a, <1>b, FinishBooks, SameHolders DEF WorkerFinish, BooksInv, queue
  <2>2. QED
    BY <1>10, <1>a, <2>1 DEF WorkerFinish, PlainRecords, Goto, TypeOK
<1>11. ASSUME UNCHANGED vars PROVE PlainRecords' /\ Accounting'
  BY <1>11, <1>a, SameHolders DEF vars, PlainRecords
<1>12. QED
  BY <1>1, <1>2, <1>3, <1>4, <1>5, <1>6, <1>7, <1>8, <1>9, <1>10, <1>11
     DEF Next, Worker, Client

LEMMA BooksInit ==
  ASSUME Restored = {}
  PROVE  Init => BooksInv
<1> SUFFICES ASSUME Init PROVE BooksInv
  OBVIOUS
<1>1. TypeOK
  BY DEF Init, TypeOK, Status, WorkerPoint
<1>2. Holders = {}
  BY DEF Init, Holders
<1>3. Accounting
  BY <1>2, FS_EmptySet DEF Init, Accounting, KeysHeldBy
<1>4. QED
  BY <1>1, <1>3 DEF Init, BooksInv, PlainRecords

LEMMA BooksHold ==
  ASSUME Rollback = {}, Restored = {}
  PROVE  Spec => []BooksInv
<1>1. BooksInv /\ [Next]_vars => BooksInv'
  BY BooksStep
<1>2. QED
  BY <1>1, BooksInit, PTL DEF Spec

\* The gate and the key set are exactly those of the records that say
\* "running", whatever the callers do and whatever the store refuses -- as long
\* as nobody uses a rollback and no "waiting_input" record was restored.
THEOREM AccountingHolds ==
  ASSUME Rollback = {}, Restored = {}
  PROVE  Spec => []Accounting
BY BooksHold, PTL DEF BooksInv
-----------------------------------------------------------------------------
(* Exclusion.  When nobody closes a record from outside -- no finish_task    *)
(* RPC, no lost claim, no shutdown sweep -- a body's record says "running"   *)
(* for as long as the body runs.                                             *)

Inside == {t \in Task : worker[t] \in {"working", "closingOk", "closingErr"}}

ExclusionInv ==
  /\ BooksInv
  /\ Inside \subseteq Holders
  /\ \A t \in Task : status[t] = "new" => worker[t] = "none"

UserCallsOnly == Calls \cap {"finish", "miss", "shutdown"} = {}

LEMMA ExclusionStep ==
  ASSUME Rollback = {}, UserCallsOnly, ExclusionInv, [Next]_vars
  PROVE  ExclusionInv'
<1>a. BooksInv' /\ BooksInv /\ TypeOK /\ PlainRecords
  BY BooksStep DEF ExclusionInv, BooksInv
<1> DEFINE Pre(t) == /\ worker[t] \in {"working", "closingOk", "closingErr"} => status[t] = "running"
                     /\ status[t] = "new" => worker[t] = "none"
<1>b. \A t \in Task : Pre(t)
  BY DEF ExclusionInv, Inside, Holders
<1> SUFFICES \A t \in Task : Pre(t)'
  BY <1>a DEF ExclusionInv, Inside, Holders
<1>1. ASSUME NEW t \in Task, Enqueue(t) \/ EnqueueWithoutWorker(t)
      PROVE  \A u \in Task : Pre(u)'
  BY <1>1, <1>a, <1>b DEF Enqueue, EnqueueWithoutWorker, Goto, TypeOK
<1>2. ASSUME NEW t \in Task, RequestCancel(t) \/ Remove(t)
      PROVE  \A u \in Task : Pre(u)'
  <2>1. Remove(t) => status[t] # "running"
    BY DEF Remove, AsState, Active, Known
  <2>2. QED
    BY <1>2, <1>a, <1>b, <2>1 DEF RequestCancel, Remove, TypeOK
<1>3. ASSUME NEW t \in Task, MarkMissed(t) \/ (\E ok \in BOOLEAN : FinishCall(t, ok))
      PROVE  FALSE
  BY <1>3 DEF MarkMissed, FinishCall, UserCallsOnly
<1>4. ASSUME InterruptRunning PROVE FALSE
  BY <1>4 DEF InterruptRunning, UserCallsOnly
<1>5. ASSUME NEW t \in Task, StartMissing(t) \/ StartRefused(t) \/ Recheck(t)
      PROVE  \A u \in Task : Pre(u)'
  BY <1>5, <1>a, <1>b DEF StartMissing, StartRefused, Recheck, Goto, queue, TypeOK
<1>6. ASSUME NEW t \in Task, StartCancelled(t) PROVE \A u \in Task : Pre(u)'
  <2>1. status[t] \in Known
    BY <1>6, <1>a DEF StartCancelled, Present, Status, PlainRecords
  <2>2. Moved(status[t], "cancelled") # "new"
    BY <2>1, MovedCloses DEF Known
  <2>3. worker[t] = "polling" /\ status[t] # "new"
    BY <1>6, <1>b DEF StartCancelled
  <2>4. QED
    BY <1>6, <1>a, <1>b, <2>2, <2>3 DEF StartCancelled, Goto, TypeOK
<1>7. ASSUME NEW t \in Task, StartAdmitted(t) PROVE \A u \in Task : Pre(u)'
  BY <1>7, <1>a, <1>b DEF StartAdmitted, Goto, TypeOK
<1>8. ASSUME NEW t \in Task, NEW ok \in BOOLEAN, WorkReturns(t, ok)
      PROVE  \A u \in Task : Pre(u)'
  BY <1>8, <1>a, <1>b DEF WorkReturns, Goto, queue, TypeOK
<1>9. ASSUME NEW t \in Task, StartRollback(t) \/ UndoReturns(t) \/ FinishRollback(t)
      PROVE  FALSE
  BY <1>9, <1>a DEF StartRollback, UndoReturns, FinishRollback, PlainRecords
<1>10. ASSUME NEW t \in Task, WorkerFinish(t) PROVE \A u \in Task : Pre(u)'
  <2>1. \A u \in Task \ {t} : status'[u] = status[u] /\ worker'[u] = worker[u]
    BY <1>10, <1>a DEF WorkerFinish, Finish, Goto, queue, TypeOK
  <2>2. worker'[t] = "done" /\ status[t] = "running"
    BY <1>10, <1>a, <1>b DEF WorkerFinish, Goto, TypeOK
  <2>3. status'[t] # "new"
    <3>1. \E ok \in BOOLEAN : Finish(t, ok)
      BY <1>10, <2>2 DEF WorkerFinish, Present, Status, Known
    <3>2. PICK ok \in BOOLEAN : Finish(t, ok)
      BY <3>1
    <3> DEFINE target == IF cancel[t] THEN "cancelled"
                         ELSE IF ok THEN "succeeded" ELSE "failed"
    <3>3. status' = [status EXCEPT ![t] = Moved(status[t], target)]
      BY <3>2, <2>2 DEF Finish
    <3>4. Moved(status[t], target) # "new"
      BY <2>2, MovedCloses DEF Known
    <3>5. QED
      BY <3>3, <3>4, <1>a DEF TypeOK
  <2>4. QED
    BY <1>b, <2>1, <2>2, <2>3
<1>11. ASSUME UNCHANGED vars PROVE \A u \in Task : Pre(u)'
  BY <1>11, <1>b DEF vars
<1>12. QED
  BY <1>1, <1>2, <1>3, <1>4, <1>5, <1>6, <1>7, <1>8, <1>9, <1>10, <1>11
     DEF Next, Worker, Client

LEMMA ExclusionHolds ==
  ASSUME Rollback = {}, Restored = {}, UserCallsOnly
  PROVE  Spec => []ExclusionInv
<1>1. Init => ExclusionInv
  BY BooksInit DEF Init, ExclusionInv, Inside
<1>2. ExclusionInv /\ [Next]_vars => ExclusionInv'
  BY ExclusionStep
<1>3. QED
  BY <1>1, <1>2, PTL DEF Spec

LEMMA ExclusionGives ==
  ExclusionInv => BodiesExclusive /\ IdleMeansIdle
<1> SUFFICES ASSUME ExclusionInv PROVE BodiesExclusive /\ IdleMeansIdle
  OBVIOUS
<1>1. Executing \subseteq Holders /\ IsFiniteSet(Holders)
  BY FS_Subset DEF ExclusionInv, BooksInv, PlainRecords, Executing, Inside, Holders
<1>2. Cardinality(Executing) <= MaxRunning
  <2>1. /\ Cardinality(Executing) <= Cardinality(Holders)
        /\ Cardinality(Executing) \in Nat
    BY <1>1, FS_Subset, FS_CardinalityType
  <2>2. QED
    BY <2>1 DEF ExclusionInv, BooksInv, Accounting, TypeOK
<1>3. BodiesExclusive
  BY <1>1, <1>2 DEF BodiesExclusive, ExclusionInv, BooksInv, Accounting
<1>4. IdleMeansIdle
  BY <1>1 DEF IdleMeansIdle, ResourceIdle, Holders, Active
<1>5. QED
  BY <1>3, <1>4

\* Two task bodies never run over one resource key, and never more of them than
\* the gate allows; what try_start and finish do under the mutex is enough even
\* when the store refuses writes.
THEOREM BodiesExclusiveHolds ==
  ASSUME Rollback = {}, Restored = {}, UserCallsOnly
  PROVE  Spec => []BodiesExclusive
BY ExclusionHolds, ExclusionGives, PTL

\* A container that resource_idle reports free is in no body's hands.
THEOREM IdleMeansIdleHolds ==
  ASSUME Rollback = {}, Restored = {}, UserCallsOnly
  PROVE  Spec => []IdleMeansIdle
BY ExclusionHolds, ExclusionGives, PTL
-----------------------------------------------------------------------------
(* The workers implement the abstract gate. *)

LEMMA GateStep ==
  ASSUME Rollback = {}, ExclusionInv, [Next]_vars
  PROVE  [Gate!GateNext]_([t \in Task |-> Place(t)])
<1> DEFINE place == [t \in Task |-> Place(t)]
<1>a. TypeOK /\ PlainRecords /\ Accounting
  BY DEF ExclusionInv, BooksInv
<1>b. Gate!Inside \subseteq Holders
  BY <1>a DEF Gate!Inside, Place, ExclusionInv, PlainRecords, Inside, TypeOK, WorkerPoint
<1> SUFFICES place' = place \/ \E t \in Task : Gate!Enter(t) \/ Gate!Leave(t)
  BY DEF Gate!GateNext
<1>1. ASSUME UNCHANGED worker PROVE place' = place
  BY <1>1 DEF Place
<1>2. ASSUME NEW t \in Task, NEW point \in WorkerPoint, Goto(t, point)
      PROVE  /\ point \in {"polling", "recheck"} /\ worker[t] \in {"none", "polling", "recheck"}
                 => place' = place
             /\ point \in {"closingOk", "closingErr"} /\ worker[t] = "working"
                 => place' = place
             /\ point = "done" /\ worker[t] # "done" => Gate!Leave(t)
             /\ point = "working" => place' = [place EXCEPT ![t] = "inside"]
  BY <1>2, <1>a DEF Goto, TypeOK, Place, Gate!Leave, WorkerPoint
<1>b2. {"polling", "recheck", "working", "done", "closingOk", "closingErr"} \subseteq WorkerPoint
  BY DEF WorkerPoint
<1>3. ASSUME NEW t \in Task, Enqueue(t) PROVE place' = place
  BY <1>3, <1>2, <1>b2 DEF Enqueue, ExclusionInv
<1>4. ASSUME NEW t \in Task,
             \/ EnqueueWithoutWorker(t) \/ RequestCancel(t) \/ Remove(t)
             \/ MarkMissed(t) \/ (\E ok \in BOOLEAN : FinishCall(t, ok))
      PROVE  place' = place
  BY <1>4, <1>1 DEF EnqueueWithoutWorker, RequestCancel, Remove, MarkMissed, FinishCall
<1>5. ASSUME InterruptRunning PROVE place' = place
  BY <1>5, <1>1 DEF InterruptRunning
<1>6. ASSUME NEW t \in Task,
             StartMissing(t) \/ StartCancelled(t) \/ StartRefused(t) \/ Recheck(t)
      PROVE  place' = place \/ Gate!Leave(t)
  BY <1>6, <1>2, <1>b2 DEF StartMissing, StartCancelled, StartRefused, Recheck
<1>7. ASSUME NEW t \in Task, StartAdmitted(t) PROVE Gate!Enter(t) \/ Gate!Leave(t)
  <2>1. CASE Goto(t, "done")
    BY <1>7, <2>1, <1>2, <1>b2 DEF StartAdmitted
  <2>2. CASE Goto(t, "working")
    <3>1. place[t] = "outside"
      BY <1>7 DEF StartAdmitted, Place
    <3>2. Cardinality(Gate!Inside) < MaxRunning
      <4>1. IsFiniteSet(Holders)
        BY FS_Subset DEF Holders
      <4>2. Cardinality(Gate!Inside) <= running /\ Cardinality(Gate!Inside) \in Nat
        BY <1>a, <1>b, <4>1, FS_Subset, FS_CardinalityType DEF Accounting
      <4>3. QED
        BY <1>7, <1>a, <4>2 DEF StartAdmitted, Admissible, TypeOK
    <3>3. \A u \in Gate!Inside : KeysOf[t] \cap KeysOf[u] = {}
      <4>1. \A u \in Holders : KeysOf[u] \subseteq active
        BY <1>a DEF Accounting, KeysHeldBy
      <4>2. QED
        BY <1>7, <1>b, <4>1 DEF StartAdmitted, Admissible
    <3>4. place' = [place EXCEPT ![t] = "inside"]
      BY <2>2, <1>2, <1>b2
    <3>5. QED
      BY <3>1, <3>2, <3>3, <3>4 DEF Gate!Enter, Gate!Cardinality, Cardinality
  <2>3. QED
    BY <1>7, <2>1, <2>2 DEF StartAdmitted
<1>8. ASSUME NEW t \in Task, NEW ok \in BOOLEAN, WorkReturns(t, ok)
      PROVE  place' = place
  BY <1>8, <1>2, <1>b2 DEF WorkReturns
<1>9. ASSUME NEW t \in Task, StartRollback(t) \/ UndoReturns(t) \/ FinishRollback(t)
      PROVE  FALSE
  BY <1>9, <1>a DEF StartRollback, UndoReturns, FinishRollback, PlainRecords
<1>10. ASSUME NEW t \in Task, WorkerFinish(t) PROVE Gate!Leave(t)
  BY <1>10, <1>2, <1>b2 DEF WorkerFinish
<1>11. ASSUME UNCHANGED vars PROVE place' = place
  BY <1>11, <1>1 DEF vars
<1>12. QED
  BY <1>3, <1>4, <1>5, <1>6, <1>7, <1>8, <1>9, <1>10, <1>11
     DEF Next, Worker, Client

\* Every behaviour of the queue, seen through where its workers are, is a
\* behaviour of the abstract gate.
THEOREM GateImplementedHolds ==
  ASSUME Rollback = {}, Restored = {}, UserCallsOnly
  PROVE  Spec => GateImplemented
<1>1. Init => Gate!GateInit
  BY DEF Init, Gate!GateInit, Place
<1>2. ExclusionInv /\ [Next]_vars => [Gate!GateNext]_([t \in Task |-> Place(t)])
  BY GateStep
<1>3. QED
  BY <1>1, <1>2, ExclusionHolds, PTL DEF Spec, GateImplemented, Gate!GateSpec
-----------------------------------------------------------------------------
(* Running records.  A store that takes every write is what keeps a record   *)
(* that says "running" in a worker's hands: try_start hands the thread over  *)
(* in the section that writes the word, and only the admitted thread's own   *)
(* steps lead away from the body.                                            *)

\* Where the thread of a record that says "running" can be.
RunningIsInHand ==
  \A t \in Task : status[t] = "running" => worker[t] \in {"working", "undo", "closingOk", "closingErr"}

\* Nothing but an admission leads into "running".
LEMMA MovedFromRunning ==
  /\ \A target \in {"succeeded", "failed", "cancelled"} : Moved("running", target) = target
  /\ \A s \in Status : MayMove(s, "rolling_back") => Moved(s, "rolling_back") = "rolling_back"
BY DEF Moved, MayMove, Successors, AsState, Status, Known

LEMMA FinishLeaves ==
  ASSUME TypeOK, NEW t \in Task, NEW ok \in BOOLEAN, Finish(t, ok)
  PROVE  status'[t] # "running" /\ \A u \in Task \ {t} : status'[u] = status[u]
<1> DEFINE target == IF cancel[t] THEN "cancelled"
                     ELSE IF ok THEN "succeeded" ELSE "failed"
<1>1. target \in {"succeeded", "failed", "cancelled"} /\ target \in Known /\ target # "running"
  BY DEF Known
<1>2. status[t] \in Status
  BY DEF Finish, Present
<1>3. status' = [status EXCEPT ![t] = IF @ = "waiting_input" THEN target
                                      ELSE Moved(@, target)]
  BY DEF Finish
<1> HIDE DEF target
<1>4. Moved(status[t], target) # "running"
  BY <1>1, <1>2, MovedShape, MovedFromRunning
<1>5. QED
  BY <1>1, <1>3, <1>4 DEF TypeOK

LEMMA InHandStep ==
  ASSUME StoreMayFail = FALSE, TypeOK, RunningIsInHand, [Next]_vars
  PROVE  RunningIsInHand'
<1> USE DEF RunningIsInHand
<1>a. /\ status \in [Task -> Status \cup {"new", "removed"}]
      /\ worker \in [Task -> WorkerPoint]
  BY DEF TypeOK
<1>b. \A s \in Status, target \in {"cancelled", "miss", "interrupted", "rolled_back"} :
        Moved(s, target) = "running" => s = "running"
  BY MovedShape DEF Known
<1>1. ASSUME NEW t \in Task, Enqueue(t) \/ EnqueueWithoutWorker(t) PROVE RunningIsInHand'
  BY <1>1, <1>a DEF Enqueue, EnqueueWithoutWorker, Goto
<1>2. ASSUME NEW t \in Task, RequestCancel(t) \/ Remove(t) PROVE RunningIsInHand'
  BY <1>2, <1>a DEF RequestCancel, Remove
<1>3. ASSUME NEW t \in Task, NEW ok \in BOOLEAN, FinishCall(t, ok) PROVE RunningIsInHand'
  BY <1>3, <1>a, FinishLeaves DEF FinishCall
<1>4. ASSUME NEW t \in Task, MarkMissed(t) PROVE RunningIsInHand'
  BY <1>4, <1>a, <1>b DEF MarkMissed, Present
<1>5. ASSUME InterruptRunning PROVE RunningIsInHand'
  <2>1. \A t \in Task : status'[t] = "running" => status[t] = "running"
    BY <1>5, <1>a, <1>b DEF InterruptRunning, Present
  <2>2. QED
    BY <1>5, <2>1 DEF InterruptRunning
<1>6. ASSUME NEW t \in Task, StartMissing(t) \/ StartRefused(t) \/ Recheck(t) PROVE RunningIsInHand'
  BY <1>6, <1>a DEF StartMissing, StartRefused, Recheck, Goto, queue
<1>7. ASSUME NEW t \in Task, StartCancelled(t) PROVE RunningIsInHand'
  <2>1. status[t] # "running" /\ status[t] \in Status
    BY <1>7 DEF StartCancelled, Present
  <2>2. status'[t] # "running"
    BY <1>7, <1>a, <1>b, <2>1 DEF StartCancelled
  <2>3. QED
    BY <1>7, <1>a, <2>2 DEF StartCancelled, Goto
<1>8. ASSUME NEW t \in Task, StartAdmitted(t) PROVE RunningIsInHand'
  BY <1>8, <1>a DEF StartAdmitted, Goto
<1>9. ASSUME NEW t \in Task, NEW ok \in BOOLEAN, WorkReturns(t, ok) PROVE RunningIsInHand'
  BY <1>9, <1>a DEF WorkReturns, Goto, queue
<1>10. ASSUME NEW t \in Task, StartRollback(t) PROVE RunningIsInHand'
  <2>1. CASE Present(t) /\ MayMove(status[t], "rolling_back")
    <3>1. Moved(status[t], "rolling_back") = "rolling_back"
      BY <2>1, MovedFromRunning DEF Present
    <3>2. status' = [status EXCEPT ![t] = "rolling_back"]
      BY <1>10, <2>1, <3>1 DEF StartRollback
    <3>3. QED
      BY <1>10, <1>a, <3>2 DEF StartRollback, Goto
  <2>2. CASE ~(Present(t) /\ MayMove(status[t], "rolling_back"))
    BY <1>10, <1>a, <2>2 DEF StartRollback, Goto
  <2>3. QED
    BY <2>1, <2>2
<1>11. ASSUME NEW t \in Task, UndoReturns(t) PROVE RunningIsInHand'
  BY <1>11, <1>a DEF UndoReturns, Goto, queue
<1>12. ASSUME NEW t \in Task, FinishRollback(t) PROVE RunningIsInHand'
  <2>1. worker[t] = "undone" /\ status[t] # "running"
    BY <1>12 DEF FinishRollback
  <2>2. status'[t] # "running" /\ \A u \in Task \ {t} : status'[u] = status[u]
    BY <1>12, <1>a, <1>b, <2>1 DEF FinishRollback, Present
  <2>3. QED
    BY <1>12, <1>a, <2>2 DEF FinishRollback, Goto
<1>13. ASSUME NEW t \in Task, WorkerFinish(t) PROVE RunningIsInHand'
  <2>1. status'[t] # "running" /\ \A u \in Task \ {t} : status'[u] = status[u]
    BY <1>13, <1>a, FinishLeaves DEF WorkerFinish, Present, Status, Known, queue
  <2>2. QED
    BY <1>13, <1>a, <2>1 DEF WorkerFinish, Goto
<1>14. ASSUME UNCHANGED vars PROVE RunningIsInHand'
  BY <1>14 DEF vars
<1>15. QED
  BY <1>1, <1>2, <1>3, <1>4, <1>5, <1>6, <1>7, <1>8, <1>9, <1>10, <1>11, <1>12,
     <1>13, <1>14 DEF Next, Worker, Client

\* A record that says "running" has a worker that has not returned, whatever the
\* rollbacks, the restored records and the callers, as long as the store takes
\* every write: with a refused one try_start leaves the record behind.
THEOREM RunningIsExecutingHolds ==
  ASSUME StoreMayFail = FALSE
  PROVE  Spec => []RunningIsExecuting
<1>1. Init => RunningIsInHand
  BY DEF Init, RunningIsInHand
<1>2. TypeOK /\ RunningIsInHand /\ [Next]_vars => RunningIsInHand'
  BY InHandStep
<1>3. RunningIsInHand => RunningIsExecuting
  BY DEF RunningIsInHand, RunningIsExecuting
<1>4. QED
  BY <1>1, <1>2, <1>3, TypeCorrect, PTL DEF Spec
=============================================================================
