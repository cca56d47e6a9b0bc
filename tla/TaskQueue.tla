------------------------------ MODULE TaskQueue ------------------------------
(***************************************************************************)
(* box-scheduler: the in-memory task queue (struct State behind one mutex) *)
(* together with the threads that use it: one run_queued worker per task,  *)
(* and connection threads that serve cancel_task, finish_task,             *)
(* delete_task, enqueue_task and the shutdown sweep.                       *)
(*                                                                         *)
(* One action is one critical section of TaskManager.  Every method that   *)
(* changes the state ends in persist(), which never touches the state      *)
(* again: what it writes is TaskStore's subject, that it may fail and what *)
(* its caller then does is modelled here (StoreMayFail).                   *)
(***************************************************************************)
EXTENDS TaskStates, Naturals, FiniteSets

CONSTANTS
  Task,         \* task ids (uuids: an id is enqueued at most once)
  Key,          \* resource keys, "container:<id>", "repository:extensions", ...
  KeysOf,       \* the keys each task asks for
  MaxRunning,   \* the concurrency gate, 2 in the code
  Rollback,     \* tasks whose run_queued call carries a rollback closure
  Restored,     \* tasks restored from the store with status "waiting_input"
  Calls,        \* what connection threads ask for, see CallNames
  StoreMayFail  \* whether the store may refuse a write

CallNames == {"external", "cancel", "finish", "delete", "miss", "shutdown"}

ASSUME QueueAssumption ==
  /\ IsFiniteSet(Task)
  /\ KeysOf \in [Task -> SUBSET Key]
  /\ MaxRunning \in Nat \ {0}
  /\ Rollback \subseteq Task
  /\ Restored \subseteq Task
  /\ Calls \subseteq CallNames
  /\ StoreMayFail \in BOOLEAN

VARIABLES
  status,   \* TaskRecord.status; "new" before enqueue, "removed" after remove
  cancel,   \* TaskRecord.cancel_requested
  running,  \* State.running, the number of slots believed taken
  active,   \* State.active_resources
  worker    \* where the run_queued thread of each task is

queue == <<status, cancel, running, active>>
vars  == <<status, cancel, running, active, worker>>

\* Program points of run_queued:
\*   polling   about to call try_start
\*   recheck   try_start said None, about to re-read the record
\*   working   inside the task body, closingOk / closingErr on the way to finish
\*   undo      body failed and there is a rollback, about to call start_rollback
\*   undoing   inside the rollback closure, undone about to call finish_rollback
WorkerPoint == {"none", "polling", "recheck", "working", "undo", "undoing",
                "undone", "closingOk", "closingErr", "done"}

Present(t) == status[t] \in Status

\* The task body (or its rollback) has the resource in its hands.
Executing == {t \in Task : worker[t] \in {"working", "undo", "undoing"}}

\* Records that say the gate was passed and not yet left.
Holders == {t \in Task : status[t] = "running"}

KeysHeldBy(S) == UNION {KeysOf[t] : t \in S}

Init ==
  /\ status = [t \in Task |-> IF t \in Restored THEN "waiting_input" ELSE "new"]
  /\ cancel = [t \in Task |-> FALSE]
  /\ running = 0
  /\ active = {}
  /\ worker = [t \in Task |-> "none"]
-----------------------------------------------------------------------------
(* Pieces of the critical sections. *)

\* usize::saturating_sub(1) on the gate, and the task's keys given back.
Release(t) ==
  /\ running' = IF running = 0 THEN 0 ELSE running - 1
  /\ active' = active \ KeysOf[t]

\* seeded fault: no is_live_record check before the release.
ReleaseUnguarded(t) == Release(t)

ReleaseIfHeld(t) ==
  IF HoldsSlot(status[t]) THEN Release(t) ELSE UNCHANGED <<running, active>>

\* seeded fault: the result is written whatever state the record is in.
FinishUnchecked(t, ok) ==
  /\ Present(t)
  /\ ReleaseIfHeld(t)
  /\ status' = [status EXCEPT ![t] = IF cancel[t] THEN "cancelled"
                                     ELSE IF ok THEN "succeeded" ELSE "failed"]
  /\ UNCHANGED cancel

\* seeded fault: a cancel that arrives during the body is forgotten.
FinishIgnoresCancel(t, ok) ==
  /\ Present(t)
  /\ ReleaseIfHeld(t)
  /\ status' = [status EXCEPT ![t] = Moved(@, IF ok THEN "succeeded" ELSE "failed")]
  /\ UNCHANGED cancel

\* TaskManager::finish: the flag outranks the result, and the record is only
\* rewritten where the state machine allows it ("waiting_input" has no state).
Finish(t, ok) ==
  LET target == IF cancel[t] THEN "cancelled"
                ELSE IF ok THEN "succeeded" ELSE "failed"
  IN /\ Present(t)
     /\ ReleaseIfHeld(t)
     /\ status' = [status EXCEPT ![t] = IF @ = "waiting_input" THEN target
                                        ELSE Moved(@, target)]
     /\ UNCHANGED cancel

Goto(t, point) == worker' = [worker EXCEPT ![t] = point]
-----------------------------------------------------------------------------
(* Connection threads. *)

\* enqueue_task_worker: enqueue, then a thread running run_queued.
Enqueue(t) ==
  /\ status[t] = "new"
  /\ status' = [status EXCEPT ![t] = "queued"]
  /\ Goto(t, "polling")
  /\ UNCHANGED <<cancel, running, active>>

\* A record without a worker: the enqueue_task RPC never spawns one, and
\* enqueue_task_worker returns early when the store refused the new record,
\* which is in the map all the same.
EnqueueWithoutWorker(t) ==
  /\ "external" \in Calls \/ StoreMayFail
  /\ status[t] = "new"
  /\ status' = [status EXCEPT ![t] = "queued"]
  /\ UNCHANGED <<cancel, running, active, worker>>

\* seeded fault: a cancel closes the record and frees its keys at once.
RequestCancelNow(t) ==
  /\ "cancel" \in Calls
  /\ Present(t)
  /\ AsState(status[t]) \in Active
  /\ ReleaseIfHeld(t)
  /\ status' = [status EXCEPT ![t] = "cancelled"]
  /\ UNCHANGED <<cancel, worker>>

RequestCancel(t) ==
  /\ "cancel" \in Calls
  /\ Present(t)
  /\ AsState(status[t]) \in Active
  /\ cancel' = [cancel EXCEPT ![t] = TRUE]
  /\ UNCHANGED <<status, running, active, worker>>

Remove(t) ==
  /\ "delete" \in Calls
  /\ Present(t)
  /\ AsState(status[t]) \notin Active /\ status[t] # "waiting_input"
  /\ status' = [status EXCEPT ![t] = "removed"]
  /\ UNCHANGED <<cancel, running, active, worker>>

FinishCall(t, ok) ==
  /\ "finish" \in Calls
  /\ Finish(t, ok)
  /\ UNCHANGED worker

MarkMissed(t) ==
  /\ "miss" \in Calls
  /\ Present(t)
  /\ ReleaseIfHeld(t)
  /\ status' = [status EXCEPT ![t] = Moved(@, "miss")]
  /\ UNCHANGED <<cancel, worker>>

\* graceful_shutdown sweeps the queue and then leaves the process up for
\* another five seconds, with its workers and its listener.
InterruptRunning ==
  LET open == {t \in Task : Present(t) /\ NeedsClose(status[t])}
  IN /\ "shutdown" \in Calls
     /\ open # {}
     /\ running' = 0
     /\ active' = {}
     /\ status' = [t \in Task |-> IF t \in open THEN Moved(status[t], "interrupted")
                                  ELSE status[t]]
     /\ UNCHANGED <<cancel, worker>>
-----------------------------------------------------------------------------
(* The worker of task t: run_queued. *)

\* try_start on a record that is gone is an error, and the thread returns.
StartMissing(t) ==
  /\ worker[t] = "polling"
  /\ ~Present(t)
  /\ Goto(t, "done")
  /\ UNCHANGED queue

\* try_start on a record whose cancel flag is up closes it where it can.
StartCancelled(t) ==
  /\ worker[t] = "polling"
  /\ Present(t) /\ cancel[t]
  /\ IF MayMove(status[t], "cancelled")
     THEN /\ status' = [status EXCEPT ![t] = Moved(@, "cancelled")]
          /\ Goto(t, "done")
     ELSE Goto(t, "recheck") /\ UNCHANGED status
  /\ UNCHANGED <<cancel, running, active>>

\* seeded faults: the gate admits one too many; the gate or the keys are not
\* looked at.
AdmissibleOffByOne(t) ==
  status[t] = "queued" /\ running <= MaxRunning /\ KeysOf[t] \cap active = {}
AdmissibleWithoutGate(t) == status[t] = "queued" /\ KeysOf[t] \cap active = {}
AdmissibleWithoutKeys(t) == status[t] = "queued" /\ running < MaxRunning

Admissible(t) ==
  /\ status[t] = "queued"
  /\ running < MaxRunning
  /\ KeysOf[t] \cap active = {}

\* seeded fault: a full gate ends the worker instead of making it wait.
StartGivesUp(t) ==
  /\ worker[t] = "polling"
  /\ Present(t) /\ ~cancel[t]
  /\ ~Admissible(t)
  /\ Goto(t, "done")
  /\ UNCHANGED queue

StartRefused(t) ==
  /\ worker[t] = "polling"
  /\ Present(t) /\ ~cancel[t]
  /\ ~Admissible(t)
  /\ Goto(t, "recheck")
  /\ UNCHANGED queue

\* The slot and the keys are taken in the critical section that writes
\* "running"; a store that refuses the write that follows makes try_start an
\* error, on which run_queued returns without a word.
StartAdmitted(t) ==
  /\ worker[t] = "polling"
  /\ Present(t) /\ ~cancel[t]
  /\ Admissible(t)
  /\ running' = running + 1
  /\ active' = active \cup KeysOf[t]
  /\ status' = [status EXCEPT ![t] = "running"]
  /\ \/ Goto(t, "working")
     \/ StoreMayFail /\ Goto(t, "done")
  /\ UNCHANGED cancel

\* seeded fault: every None of try_start is taken for a full gate.
RecheckNeverCloses(t) ==
  /\ worker[t] = "recheck"
  /\ Goto(t, "polling")
  /\ UNCHANGED queue

\* A record that is gone or no longer queued is nothing to wait for;
\* otherwise sleep 100 ms and poll again.
Recheck(t) ==
  /\ worker[t] = "recheck"
  /\ Goto(t, IF status[t] = "queued" THEN "polling" ELSE "done")
  /\ UNCHANGED queue

\* seeded fault: an error path that leaves run_queued before finish.
WorkReturnsEarly(t, ok) ==
  /\ worker[t] = "working"
  /\ Goto(t, IF ok THEN "closingOk" ELSE "done")
  /\ UNCHANGED queue

WorkReturns(t, ok) ==
  /\ worker[t] = "working"
  /\ Goto(t, IF ok THEN "closingOk"
             ELSE IF t \in Rollback THEN "undo" ELSE "closingErr")
  /\ UNCHANGED queue

\* start_rollback: refused unless the record is already failed.
StartRollback(t) ==
  /\ worker[t] = "undo"
  /\ \/ /\ Present(t) /\ MayMove(status[t], "rolling_back")
        /\ status' = [status EXCEPT ![t] = Moved(@, "rolling_back")]
        /\ \/ Goto(t, "undoing")
           \/ StoreMayFail /\ Goto(t, "closingErr")
     \/ /\ ~(Present(t) /\ MayMove(status[t], "rolling_back"))
        /\ Goto(t, "closingErr")
        /\ UNCHANGED status
  /\ UNCHANGED <<cancel, running, active>>

UndoReturns(t) ==
  /\ worker[t] = "undoing"
  /\ Goto(t, "undone")
  /\ UNCHANGED queue

\* finish_rollback gives a slot back whatever the record says; on an error
\* the thread falls through to finish.
FinishRollback(t) ==
  /\ worker[t] = "undone"
  /\ \/ /\ Present(t)
        /\ Release(t)
        /\ status' = [status EXCEPT ![t] = Moved(@, "rolled_back")]
        /\ \/ Goto(t, "done")
           \/ StoreMayFail /\ Goto(t, "closingErr")
     \/ /\ ~Present(t)
        /\ Goto(t, "closingErr")
        /\ UNCHANGED <<status, running, active>>
  /\ UNCHANGED cancel

WorkerFinish(t) ==
  /\ worker[t] \in {"closingOk", "closingErr"}
  /\ \/ Finish(t, worker[t] = "closingOk")
     \/ ~Present(t) /\ UNCHANGED queue
  /\ Goto(t, "done")

Worker(t) ==
  \/ StartMissing(t)
  \/ StartCancelled(t)
  \/ StartRefused(t)
  \/ StartAdmitted(t)
  \/ Recheck(t)
  \/ \E ok \in BOOLEAN : WorkReturns(t, ok)
  \/ StartRollback(t)
  \/ UndoReturns(t)
  \/ FinishRollback(t)
  \/ WorkerFinish(t)

Client(t) ==
  \/ Enqueue(t)
  \/ EnqueueWithoutWorker(t)
  \/ RequestCancel(t)
  \/ Remove(t)
  \/ \E ok \in BOOLEAN : FinishCall(t, ok)
  \/ MarkMissed(t)

Next ==
  \/ \E t \in Task : Worker(t) \/ Client(t)
  \/ InterruptRunning

Spec == Init /\ [][Next]_vars

\* The operating system runs every worker thread, and every body returns.
FairSpec == Spec /\ \A t \in Task : WF_vars(Worker(t))
-----------------------------------------------------------------------------
(* Properties. *)

TypeOK ==
  /\ status \in [Task -> Status \cup {"new", "removed"}]
  /\ cancel \in [Task -> BOOLEAN]
  /\ running \in 0..MaxRunning
  /\ active \subseteq Key
  /\ worker \in [Task -> WorkerPoint]

\* The gate counts exactly the records that say "running", and the key set is
\* exactly theirs, each key with one of them: no path out of "running" -- a
\* finish, a late second finish, a lost claim, a cancel, the shutdown sweep --
\* releases twice or not at all (the claim of is_live_record and mark_missed).
Accounting ==
  /\ running = Cardinality(Holders)
  /\ active = KeysHeldBy(Holders)
  /\ \A t, u \in Holders : t # u => KeysOf[t] \cap KeysOf[u] = {}

\* Two task bodies never run over a common resource key, and never more of
\* them than the gate allows: the lock that serialises a container's tasks.
BodiesExclusive ==
  /\ Cardinality(Executing) <= MaxRunning
  /\ \A t, u \in Executing : t # u => KeysOf[t] \cap KeysOf[u] = {}

\* resource_idle answers TRUE only when no body has the resource in its hands
\* and none is queued for it: what a caller that found a container idle acts on.
ResourceIdle(k) ==
  /\ k \notin active
  /\ \A t \in Task : status[t] \in Active \cup {"waiting_input"} => k \notin KeysOf[t]

IdleMeansIdle ==
  \A k \in Key : ResourceIdle(k) => \A t \in Executing : k \notin KeysOf[t]

\* A closed record is history: whoever reports late -- a worker after the
\* shutdown sweep, a node after its claim was lost, a second finish -- never
\* rewrites it, and it can only disappear.
ClosedStays ==
  [][\A t \in Task : status[t] \in Terminal => status'[t] \in {status[t], "removed"}]_vars

\* Once a cancel was accepted the record can no longer report success, however
\* the cancel raced the end of the body.
CancelWins ==
  [][\A t \in Task : cancel[t] /\ status[t] # "succeeded" => status'[t] # "succeeded"]_vars

\* Every run_queued thread ends: it gets its turn, or it notices that there is
\* nothing left to wait for (the leaked polling thread its comment describes).
WorkersReturn == \A t \in Task : worker[t] = "polling" ~> worker[t] = "done"

\* A task that was handed to a worker is settled in the end.
QueuedSettles ==
  \A t \in Task : (status[t] = "queued" /\ worker[t] = "polling")
                     ~> status[t] \in Finished \cup {"removed"}

\* A body whose work failed has its rollback run (run_queued's contract).
FailedBodyIsUndone ==
  \A t \in Task : worker[t] = "undo" ~> worker[t] = "undoing"

\* A rollback runs with the task's keys still held (run_queued's contract).
RollbackHoldsLocks ==
  \A t \in Task : worker[t] = "undoing" => KeysOf[t] \subseteq active

\* A task that is running is being executed (TaskState::Running's contract).
RunningIsExecuting ==
  \A t \in Task : status[t] = "running" => worker[t] \notin {"none", "done"}

\* A rolling_back record is protected from deletion (remove's contract).
RollbackProtected ==
  [][\A t \in Task : status[t] = "rolling_back" => status'[t] # "removed"]_vars

\* The queue seen through its workers: a body is inside from its admission to
\* its finish.
Place(t) == CASE worker[t] \in {"none", "polling", "recheck"} -> "outside"
              [] worker[t] = "done" -> "left"
              [] OTHER -> "inside"

Gate == INSTANCE TaskGate WITH place <- [t \in Task |-> Place(t)]

\* The workers implement the abstract gate.
GateImplemented == Gate!GateSpec
=============================================================================
