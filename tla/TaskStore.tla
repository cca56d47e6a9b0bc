------------------------------ MODULE TaskStore ------------------------------
(***************************************************************************)
(* The durable projection of the task queue: TaskManager::persist, remove  *)
(* and restore over the SQLite collection the daemon and the desktop       *)
(* process both open.                                                      *)
(*                                                                         *)
(* Every mutation is three steps of one thread: the change, under the      *)
(* manager's mutex; list(), which takes a snapshot of the whole map under  *)
(* the mutex again; and one transaction that upserts every row of that     *)
(* snapshot.  The mutex is free in between, and the store's own lock only  *)
(* orders the transactions.  Which changes there are is TaskQueue's        *)
(* subject; here a change is any move of the task's state machine.         *)
(***************************************************************************)
EXTENDS TaskStates, Naturals

CONSTANTS
  Task,
  Process,      \* "daemon" and "desktop", model values
  Thread,       \* threads that change tasks
  ProcessOf,    \* the process each thread belongs to
  Targets,      \* the states a change may lead to
  StoreMayFail, \* whether a transaction may be refused
  MaxCrashes    \* bound on crashes, of all processes together

\* The names the variables below use besides are no tasks and no processes.
ASSUME StoreAssumption ==
  /\ "all" \notin Task
  /\ "new" \notin Process /\ "lost" \notin Process
  /\ ProcessOf \in [Thread -> Process]
  /\ Targets \subseteq Known
  /\ StoreMayFail \in BOOLEAN
  /\ MaxCrashes \in Nat

VARIABLES
  mem,      \* mem[p][t]: the record of t in the map of process p
  store,    \* store[t]: the row of t
  phase,    \* of each process: "down", "loaded", "restoring", "up"
  job,      \* what each thread is in the middle of
  owner,    \* the process incarnation that enqueued t: "new", a process, "lost"
  acked,    \* tasks whose enqueue returned Ok
  removed,  \* tasks a remove was accepted for
  crashes

vars == <<mem, store, phase, job, owner, acked, removed, crashes>>

Record == Status \cup {"none"}
Blank  == [t \in Task |-> "none"]

Idle == [at |-> "idle"]
\* "changed": the map was changed for task t, list() is next;
\* "listed": a snapshot is in hand, the transaction is next;
\* "deleting": t left the map, its row is next.
Changed(t)       == [at |-> "changed", task |-> t]
Listed(t, rows)  == [at |-> "listed", task |-> t, rows |-> rows]
Deleting(t)      == [at |-> "deleting", task |-> t]

Job == {Idle}
         \cup [at : {"changed", "deleting"}, task : Task \cup {"all"}]
         \cup [at : {"listed"}, task : Task \cup {"all"}, rows : [Task -> Record]]

ThreadsOf(p) == {w \in Thread : ProcessOf[w] = p}
Become(w, j) == job' = [job EXCEPT ![w] = j]

Init ==
  /\ mem = [p \in Process |-> Blank]
  /\ store = Blank
  /\ phase = [p \in Process |-> "down"]
  /\ job = [w \in Thread |-> Idle]
  /\ owner = [t \in Task |-> "new"]
  /\ acked = {}
  /\ removed = {}
  /\ crashes = 0
-----------------------------------------------------------------------------
(* Changes of the map. *)

Serving(w) == phase[ProcessOf[w]] = "up" /\ job[w] = Idle

Enqueue(w, t) ==
  /\ Serving(w)
  /\ owner[t] = "new"
  /\ owner' = [owner EXCEPT ![t] = ProcessOf[w]]
  /\ mem' = [mem EXCEPT ![ProcessOf[w]][t] = "queued"]
  /\ Become(w, Changed(t))
  /\ UNCHANGED <<store, phase, acked, removed, crashes>>

\* try_start, finish, mark_missed, start_rollback, finish_rollback: a record
\* moves.  Only its worker starts a body or a rollback, and that thread is
\* spawned by this process once enqueue has returned.
Change(w, t, s) ==
  LET p == ProcessOf[w]
  IN /\ Serving(w)
     /\ mem[p][t] # "none"
     /\ s \in Successors(AsState(mem[p][t])) \cap Targets
     /\ s \in {"running", "rolling_back", "rolled_back"} => owner[t] = p /\ t \in acked
     /\ mem' = [mem EXCEPT ![p][t] = s]
     /\ Become(w, Changed(t))
     /\ UNCHANGED <<store, phase, owner, acked, removed, crashes>>

\* seeded fault: only queued and running records are closed.
ClosedActiveOnly(rows) ==
  [t \in Task |-> IF rows[t] \in Active THEN "interrupted" ELSE rows[t]]

\* interrupt_running and restore close what is open, where the state machine
\* lets them.
Closed(rows) ==
  [t \in Task |-> IF rows[t] # "none" /\ NeedsClose(rows[t])
                  THEN Moved(rows[t], "interrupted") ELSE rows[t]]

Sweep(w) ==
  LET p == ProcessOf[w]
  IN /\ Serving(w)
     /\ Closed(mem[p]) # mem[p]
     /\ mem' = [mem EXCEPT ![p] = Closed(@)]
     /\ Become(w, Changed("all"))
     /\ UNCHANGED <<store, phase, owner, acked, removed, crashes>>

Remove(w, t) ==
  LET p == ProcessOf[w]
  IN /\ Serving(w)
     /\ mem[p][t] \notin Active \cup {"none", "waiting_input"}
     /\ mem' = [mem EXCEPT ![p][t] = "none"]
     /\ removed' = removed \cup {t}
     /\ Become(w, Deleting(t))
     /\ UNCHANGED <<store, phase, owner, acked, crashes>>
-----------------------------------------------------------------------------
(* persist() and the delete. *)

List(w) ==
  /\ job[w].at = "changed"
  /\ Become(w, Listed(job[w].task, mem[ProcessOf[w]]))
  /\ UNCHANGED <<mem, store, phase, owner, acked, removed, crashes>>

\* seeded faults: the scope is replaced by the snapshot; a record that is not in
\* the map is written as a tombstone no reader knows.
UpsertedWhole(rows) == rows
UpsertedTombstones(rows) ==
  [t \in Task |-> IF rows[t] = "none" THEN "deleted" ELSE rows[t]]

\* Collection::upsert: insert-or-replace, and no row is ever deleted here.
Upserted(rows) == [t \in Task |-> IF rows[t] = "none" THEN store[t] ELSE rows[t]]

\* An enqueue returns Ok when its rows are in; a restore ends, and its process
\* starts to serve, whether or not they are.
Settled(w) ==
  phase' = [phase EXCEPT ![ProcessOf[w]] = "up"]

Upsert(w) ==
  /\ job[w].at = "listed"
  /\ store' = Upserted(job[w].rows)
  /\ acked' = acked \cup (Task \cap {job[w].task})
  /\ Become(w, Idle)
  /\ Settled(w)
  /\ UNCHANGED <<mem, owner, removed, crashes>>

UpsertRefused(w) ==
  /\ StoreMayFail
  /\ job[w].at = "listed"
  /\ Become(w, Idle)
  /\ Settled(w)
  /\ UNCHANGED <<mem, store, owner, acked, removed, crashes>>

Delete(w) ==
  /\ job[w].at = "deleting"
  /\ store' = [store EXCEPT ![job[w].task] = "none"]
  /\ Become(w, Idle)
  /\ UNCHANGED <<mem, phase, owner, acked, removed, crashes>>
-----------------------------------------------------------------------------
(* Processes. *)

\* A kill, or the exit at the end of a shutdown: the map and every thread go.
Crash(p) ==
  /\ phase[p] # "down"
  /\ crashes < MaxCrashes
  /\ crashes' = crashes + 1
  /\ phase' = [phase EXCEPT ![p] = "down"]
  /\ mem' = [mem EXCEPT ![p] = Blank]
  /\ job' = [w \in Thread |-> IF ProcessOf[w] = p THEN Idle ELSE job[w]]
  /\ owner' = [t \in Task |-> IF owner[t] = p THEN "lost" ELSE owner[t]]
  /\ UNCHANGED <<store, acked, removed>>

\* restore: load_all (the rows are still a local of restore, nobody else of
\* this process looks) ...
Load(p) ==
  /\ phase[p] = "down"
  /\ phase' = [phase EXCEPT ![p] = "loaded"]
  /\ mem' = [mem EXCEPT ![p] = store]
  /\ UNCHANGED <<store, job, owner, acked, removed, crashes>>

\* ... then close what a previous process left open, adopt the result as the
\* map, and persist it before the process starts to serve.
Adopt(w) ==
  LET p == ProcessOf[w]
  IN /\ phase[p] = "loaded"
     /\ phase' = [phase EXCEPT ![p] = "restoring"]
     /\ mem' = [mem EXCEPT ![p] = Closed(@)]
     /\ Become(w, Changed("all"))
     /\ UNCHANGED <<store, owner, acked, removed, crashes>>

Next ==
  \/ \E w \in Thread :
       \/ \E t \in Task :
            \/ Enqueue(w, t)
            \/ \E s \in Targets : Change(w, t, s)
            \/ Remove(w, t)
       \/ Sweep(w) \/ List(w) \/ Upsert(w) \/ UpsertRefused(w) \/ Delete(w)
       \/ Adopt(w)
  \/ \E p \in Process : Crash(p) \/ Load(p)

Spec == Init /\ [][Next]_vars
-----------------------------------------------------------------------------
(* Properties. *)

TypeOK ==
  /\ mem \in [Process -> [Task -> Record]]
  /\ store \in [Task -> Record]
  /\ phase \in [Process -> {"down", "loaded", "restoring", "up"}]
  /\ job \in [Thread -> Job]
  /\ owner \in [Task -> Process \cup {"new", "lost"}]
  /\ acked \subseteq Task /\ removed \subseteq Task
  /\ crashes \in 0..MaxCrashes

\* A task whose enqueue was answered is in the store until somebody removes it,
\* whatever snapshots other threads and the other process write, and whoever
\* crashes: no persist erases a row it does not know.
AcknowledgedSurvives == \A t \in acked \ removed : store[t] # "none"

\* A process that serves shows no open task that no thread of it will ever
\* advance: restore leaves nothing queued, running or rolling back behind.
NoZombies ==
  \A p \in Process : phase[p] \in {"restoring", "up"} =>
    \A t \in Task : mem[p][t] \in Known \ Finished => owner[t] = p

Quiet == \A w \in Thread : job[w] = Idle

\* Once every write is through, the store has what the process that runs the
\* task knows of it (TaskManager::new: every mutation is persisted).
Projected ==
  Quiet => \A t \in Task : owner[t] \in Process /\ t \notin removed =>
             store[t] = mem[owner[t]][t]

\* Once every write is through, a removed task has no row.
RemovedStaysRemoved == Quiet => \A t \in removed : store[t] = "none"
=============================================================================
