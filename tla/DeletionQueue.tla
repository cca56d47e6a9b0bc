--------------------------- MODULE DeletionQueue ---------------------------
(***************************************************************************)
(* Installed templates, the resource map that names them, and the deletion *)
(* of their directories in the background (box-template-core and           *)
(* box-data-scheduler).  The map and the queue are JSON files every call   *)
(* reads, changes and replaces, without a lock; a worker thread drains the *)
(* fast queue on every tick and the slow one once a minute.                *)
(***************************************************************************)
EXTENDS Naturals, Sequences, SequencesExt

CONSTANTS User, Template, Holder, NoPath, MaxRetries,
          MaxQueued  \* bound: no call starts while so many entries wait

VARIABLES
  rows,        \* resource-map.json: the row of each template it names
  shelf,       \* the template index
  dirs,        \* the version directories on the disk
  archived,    \* the directories uninstall_template renamed
  queue,       \* deletion-queue.json
  worker,      \* the worker: what it read, what it has still to try, what it will write
  calls,       \* each user's call: its next step and the file it read
  overlapped,  \* a file was replaced by somebody who had not read its last value, or a call
               \* on a template began during another one
  attempts     \* how often a directory was tried to be removed, up to the cap
queueVars == <<rows, shelf, dirs, archived, queue, worker, calls, overlapped, attempts>>

NoCall == [op |-> "none", step |-> "none"]
Idle == [step |-> "idle"]
Named(file) == DOMAIN file
NewRow(t) == [path |-> t, refs |-> {}]

QueueInit ==
  /\ rows = <<>> /\ shelf = {} /\ dirs = {} /\ archived = {}
  /\ queue = [fast |-> <<>>, slow |-> <<>>, failed |-> {}]
  /\ worker = Idle /\ calls = [u \in User |-> NoCall]
  /\ overlapped = FALSE /\ attempts = [t \in Template |-> 0]

Without(file, t) == [s \in Named(file) \ {t} |-> file[s]]
With(file, t, row) == [s \in Named(file) \cup {t} |-> IF s = t THEN row ELSE file[s]]
Goes(u, step) == calls' = [calls EXCEPT ![u] = [@ EXCEPT !.step = step]]
Reads(u, step, file) == calls' = [calls EXCEPT ![u] = [op |-> @.op, on |-> @.on, step |-> step, saw |-> file]]
\* Nobody else is at work on the template, or two calls overlap from now on.
Starts(u, op, t, step) ==
  /\ calls[u] = NoCall /\ Len(queue.fast) + Len(queue.slow) < MaxQueued
  /\ overlapped' = (overlapped \/ \E v \in User : calls[v] # NoCall /\ calls[v].on = t)
  /\ calls' = [calls EXCEPT ![u] = [op |-> op, on |-> t, step |-> step]]
Ends(u) == calls' = [calls EXCEPT ![u] = NoCall]
-----------------------------------------------------------------------------
\* The base is pulled: its directory and its entry in the index are there.
install_template(u, t) ==
  /\ Starts(u, "install", t, "map")
  /\ dirs' = dirs \cup {t} /\ shelf' = shelf \cup {t}
  /\ UNCHANGED <<rows, archived, queue, worker, attempts>>

\* The directory is renamed; what is handed to the queue is the name it had.
uninstall_template(u, t) ==
  /\ t \in shelf /\ Starts(u, "uninstall", t, IF t \in dirs THEN "queue" ELSE "map")
  /\ dirs' = dirs \ {t} /\ archived' = IF t \in dirs THEN archived \cup {t} ELSE archived
  /\ UNCHANGED <<rows, shelf, queue, worker, attempts>>

\* The other calls on the map: add_reference, remove_reference, remove_resource.
OnMap(u, op, t) ==
  /\ Starts(u, op, t, "map")
  /\ UNCHANGED <<rows, shelf, dirs, archived, queue, worker, attempts>>

ReadMap(u) ==
  /\ calls[u].step = "map" /\ Reads(u, "mapped", rows)
  /\ UNCHANGED <<rows, shelf, dirs, archived, queue, worker, overlapped, attempts>>

\* add_reference makes a row without a path for a name the map does not have.
add_reference(saw, t) ==
  IF t \in Named(saw) THEN [saw EXCEPT ![t].refs = @ \cup {Holder}]
  ELSE With(saw, t, [path |-> NoPath, refs |-> {Holder}])
remove_reference(saw, t) == [saw EXCEPT ![t].refs = @ \ {Holder}]
Refused(saw, op, t) ==
  \/ op \in {"uninstall", "delete"} /\ (t \notin Named(saw) \/ saw[t].refs # {})
  \/ op = "release" /\ t \notin Named(saw)

WriteMap(u) ==
  LET t == calls[u].on  saw == calls[u].saw  op == calls[u].op IN
  /\ calls[u].step = "mapped"
  /\ IF Refused(saw, op, t) THEN UNCHANGED <<rows, overlapped>>
     ELSE /\ overlapped' = (overlapped \/ rows # saw)
          /\ rows' = CASE op = "install" -> With(saw, t, NewRow(t))
                       [] op = "refer" -> add_reference(saw, t)
                       [] op = "release" -> remove_reference(saw, t)
                       [] OTHER -> Without(saw, t)
  /\ CASE op = "uninstall" -> Goes(u, "index")
       [] op = "delete" /\ ~Refused(saw, op, t) ->
            calls' = [calls EXCEPT ![u] = [op |-> "delete", on |-> saw[t].path, step |-> "queue"]]
       [] OTHER -> Ends(u)
  /\ UNCHANGED <<shelf, dirs, archived, queue, worker, attempts>>

ReadQueue(u) ==
  /\ calls[u].step = "queue" /\ Reads(u, "queued", queue)
  /\ UNCHANGED <<rows, shelf, dirs, archived, queue, worker, overlapped, attempts>>

enqueue_for_hard_delete(u) ==
  /\ calls[u].step = "queued" /\ overlapped' = (overlapped \/ queue # calls[u].saw)
  /\ queue' = [calls[u].saw EXCEPT !.fast = Append(@, [path |-> calls[u].on, retry |-> 0])]
  /\ IF calls[u].op = "uninstall" THEN Goes(u, "map") ELSE Ends(u)
  /\ UNCHANGED <<rows, shelf, dirs, archived, worker, attempts>>

\* Also when the map refused: uninstall_template ignores what it said.
LeaveIndex(u) ==
  /\ calls[u].step = "index" /\ Ends(u) /\ shelf' = shelf \ {calls[u].on}
  /\ UNCHANGED <<rows, dirs, archived, queue, worker, overlapped, attempts>>
-----------------------------------------------------------------------------
Takes(of) == [step |-> of, saw |-> queue, left |-> queue[of], writes |-> [queue EXCEPT ![of] = <<>>]]

drain_fast_queue ==
  /\ worker = Idle /\ queue.fast # <<>> /\ worker' = Takes("fast")
  /\ UNCHANGED <<rows, shelf, dirs, archived, queue, calls, overlapped, attempts>>
process_slow_queue ==
  /\ worker = Idle /\ queue.slow # <<>> /\ worker' = Takes("slow")
  /\ UNCHANGED <<rows, shelf, dirs, archived, queue, calls, overlapped, attempts>>

Given == [worker.writes EXCEPT !.failed = @ \cup {Head(worker.left).path}]
SlowAgain(retry) == [worker.writes EXCEPT !.slow = Append(@, [path |-> Head(worker.left).path, retry |-> retry])]
\* seeded fault: the last retry is not made.
AfterFailureEarly ==
  IF worker.step = "fast" THEN SlowAgain(1)
  ELSE IF Head(worker.left).retry + 1 >= MaxRetries THEN Given
  ELSE SlowAgain(Head(worker.left).retry + 1)
\* What the worker will write when the removal of its next entry failed.
AfterFailure ==
  IF worker.step = "fast" THEN SlowAgain(1)
  ELSE IF Head(worker.left).retry >= MaxRetries THEN Given
  ELSE SlowAgain(Head(worker.left).retry + 1)

Counted(p) == [attempts EXCEPT ![p] = IF @ > MaxRetries THEN @ ELSE @ + 1]

\* A path that is gone counts as deleted.
RemovesNext ==
  /\ worker.step \in {"fast", "slow"} /\ worker.left # <<>>
  /\ LET p == Head(worker.left).path IN
     /\ worker' = [worker EXCEPT !.left = Tail(@)] /\ dirs' = dirs \ {p}
     /\ attempts' = IF p \in dirs THEN Counted(p) ELSE attempts
  /\ UNCHANGED <<rows, shelf, archived, queue, calls, overlapped>>
FailsNext ==
  /\ worker.step \in {"fast", "slow"} /\ worker.left # <<>>
  /\ LET p == Head(worker.left).path IN
     /\ p \in dirs /\ attempts' = Counted(p)
     /\ worker' = [worker EXCEPT !.left = Tail(@), !.writes = AfterFailure]
  /\ UNCHANGED <<rows, shelf, dirs, archived, queue, calls, overlapped>>

\* The answer of the write is dropped: when it fails the file stays as it was.
WorkerWrites ==
  /\ worker.step \in {"fast", "slow"} /\ worker.left = <<>> /\ worker' = Idle
  /\ \/ queue' = worker.writes /\ overlapped' = (overlapped \/ queue # worker.saw)
     \/ UNCHANGED <<queue, overlapped>>
  /\ UNCHANGED <<rows, shelf, dirs, archived, calls, attempts>>

\* The daemon dies and starts again: the worker begins anew.
WorkerDies ==
  /\ worker # Idle /\ worker' = Idle
  /\ UNCHANGED <<rows, shelf, dirs, archived, queue, calls, overlapped, attempts>>

QueueNext ==
  \/ \E u \in User, t \in Template :
        \/ install_template(u, t) \/ uninstall_template(u, t)
        \/ OnMap(u, "refer", t) \/ OnMap(u, "release", t) \/ OnMap(u, "delete", t)
  \/ \E u \in User :
        ReadMap(u) \/ WriteMap(u) \/ ReadQueue(u) \/ enqueue_for_hard_delete(u) \/ LeaveIndex(u)
  \/ drain_fast_queue \/ process_slow_queue \/ RemovesNext \/ FailsNext \/ WorkerWrites \/ WorkerDies
-----------------------------------------------------------------------------
Queued(file) == {e.path : e \in ToSet(file.fast) \cup ToSet(file.slow)} \cup file.failed
InHand == IF worker = Idle THEN {} ELSE {e.path : e \in ToSet(worker.left)} \cup Queued(worker.writes)
Busy(t) == \E u \in User : calls[u] # NoCall /\ calls[u].on = t

\* A directory no row names is in the queue, in the worker's hands or on the list
\* of failures, whatever fails and whenever the daemon dies.
Accounted ==
  \A t \in dirs : (t \in Named(rows) /\ rows[t].path = t) \/ t \in Queued(queue) \cup InHand \/ Busy(t)
\* The worker gives up on a directory only after the first try and all retries.
GivesUpLate == \A t \in queue.failed : attempts[t] > MaxRetries
\* An entry the worker still has to retry has its count within the budget.
WithinBudget == \A e \in ToSet(queue.slow) : e.retry \in 1 .. MaxRetries
\* As long as nobody replaced a file somebody else had changed since it was
\* read, and calls on one template came one after the other, no directory is lost between the map and the queue, and none is given
\* up early.
DeletionsSound == GivesUpLate /\ WithinBudget /\ (~overlapped => Accounted)

\* worker.rs calls it safe to use the queue from other threads.  It fails: see
\* the README.
SafeConcurrently == Accounted
\* A row of the map names a directory that is there.  It fails: see the README.
RowsHaveDirs == \A t \in Named(rows) : (rows[t].path = t /\ ~Busy(t)) => t \in dirs
\* What was renamed is removed.  It fails: see the README.
ArchivedQueued == \A t \in archived : t \in Queued(queue) \cup InHand \/ Busy(t)
=============================================================================
