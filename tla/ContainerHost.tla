--------------------------- MODULE ContainerHost ---------------------------
(***************************************************************************)
(* The host process of one container in dshboxd: the start, stop, restart  *)
(* and rebuild tasks, the synchronous stop and delete calls, the health    *)
(* watchers, host.json with its generation compare-and-swap, and what a    *)
(* crashed, stopped and restarted daemon makes of it all.                  *)
(*                                                                         *)
(* Two threads act on the container: the tasks, which its lock serialises, *)
(* and the RPC connection, whose stop and delete take no lock.  Each start *)
(* that succeeds adds a watcher.  The compare-and-swap holds no lock: it   *)
(* reads the file in one step and overwrites it in another.  An operation  *)
(* is the list of the stages a thread goes through.                        *)
(*                                                                         *)
(* Left out: host.pid, which only feeds the status column of listings, and *)
(* the URL and the exit details of the record.                             *)
(***************************************************************************)
EXTENDS Naturals, Sequences, FiniteSets

CONSTANTS
  MaxPid,       \* host processes are numbered in spawn order, up to this bound
  MaxGen,       \* bound on the generations that answered probes may reach
  MaxTasks,     \* bound on the tasks run
  MaxRpcs,      \* bound on the synchronous calls
  MaxCrashes,   \* bound on daemon crashes and shutdowns
  Tasks,        \* the task kinds enqueued
  Rpcs,         \* the synchronous calls made
  Faults,       \* what else happens: hosts die or hang, the daemon crashes...
  Recycled      \* what a dead host's pid may become: "mine", "theirs"

HostBindAttempts == 3
UnhealthyThreshold == 2

ASSUME HostAssumption ==
  /\ {MaxPid, MaxGen, MaxTasks, MaxRpcs, MaxCrashes} \subseteq Nat
  /\ Tasks \subseteq {"start", "stop", "restart", "rebuild"}
  /\ Rpcs \subseteq {"stop", "delete"}
  /\ Faults \subseteq {"die", "hang", "bind", "crash", "reboot", "shutdown"}
  /\ Recycled \subseteq {"mine", "theirs"}

Pid == 1..MaxPid
\* Threads are numbered too: the watcher of host process p is p.
Task == 0
Rpc == MaxPid + 1
Thread == {Task, Rpc}
Proc == Thread \union Pid

Live == {"starting", "ready", "running"}
Record == [state : Live \union {"crashed", "stopped", "orphaned", "corrupted"},
           gen : Nat, pid : 0..MaxPid, bad : 0..UnhealthyThreshold]
NoFile == [state |-> "none", gen |-> 0, pid |-> 0, bad |-> 0]
Corrupted == [state |-> "corrupted", gen |-> 1, pid |-> 0, bad |-> 0]
Initial(p) == [state |-> "starting", gen |-> 1, pid |-> p, bad |-> 0]

VARIABLES
  mode,     \* the daemon: "up", "draining" or "down"
  dir,      \* the container directory: "full", a "husk" without metadata, "none"
  file,     \* state/host.json
  running,  \* the pid of the ManagedHost in the running map, 0 for none
  alive,    \* the host processes that exist
  recycled, \* what the pid of a dead host has become
  spawned,  \* host processes spawned so far
  proc,     \* what each thread and each watcher is doing
  calls,    \* how many operations each thread may still be given
  crashes   \* how often the daemon may still go down

budget == <<calls, crashes>>
vars == <<mode, dir, file, running, alive, recycled, spawned, proc, budget>>

Plan == [start   |-> <<"enter">>,
         stop    |-> <<"take">>,
         rebuild |-> <<"take", "enter">>,
         restart |-> <<"take", "drop", "enter">>,
         delete  |-> <<"take", "erase">>]

Stages == {"idle", "take", "kill", "clear", "drop", "enter", "sentinel", "spawn",
           "record", "probe", "retry", "insert", "erase", "compare", "write",
           "sleep", "watch", "reread"}
Verdicts == {"none", "ready", "stopped", "crashed", "healthy", "unhealthy"}
Job == [at : Stages, rest : Seq({"take", "drop", "enter", "erase"}),
        pid : 0..MaxPid, tries : 0..HostBindAttempts,
        snap : Record \union {NoFile}, disk : Record \union {NoFile},
        verdict : Verdicts, then : {"idle", "done", "insert", "retry", "reread"}]
Idle == [at |-> "idle", rest |-> <<>>, pid |-> 0, tries |-> 0,
         snap |-> NoFile, disk |-> NoFile, verdict |-> "none", then |-> "idle"]

Init ==
  /\ mode = "up" /\ dir = "full" /\ file = NoFile
  /\ running = 0 /\ alive = {} /\ spawned = 0
  /\ recycled = [p \in Pid |-> "no"]
  /\ proc = [x \in Proc |-> Idle]
  /\ calls = [t \in Thread |-> IF t = Task THEN MaxTasks ELSE MaxRpcs]
  /\ crashes = MaxCrashes

\* The next stage of the operation, or its end.
Finished(x) ==
  IF x.rest = <<>> THEN Idle
  ELSE [Idle EXCEPT !.at = Head(x.rest), !.rest = Tail(x.rest)]

\* What probe_pid answers: a recycled pid exists, and may not be ours to signal.
ProbePid(p) ==
  CASE p \in alive -> "alive"
    [] p \in Pid \ alive /\ recycled[p] = "mine"   -> "alive"
    [] p \in Pid \ alive /\ recycled[p] = "theirs" -> "eperm"
    [] OTHER -> "esrch"

At(x, stage) == mode # "down" /\ proc[x].at = stage
Go(x, stage) == proc' = [proc EXCEPT ![x].at = stage]
Become(x, y) == proc' = [proc EXCEPT ![x] = y]

----------------------------------------------------------------------------
(* host.json: compare_and_swap_host_record, in its two file accesses. *)

Swap(x, snap, verdict, then) ==
  [x EXCEPT !.at = "compare", !.snap = snap, !.verdict = verdict, !.then = then]

\* Where a thread or a watcher goes when its swap has settled either way.
Settled(x) ==
  CASE x.then = "idle" -> Idle
    [] x.then = "done" -> Finished(x)
    [] OTHER -> [x EXCEPT !.at = x.then, !.snap = NoFile, !.disk = NoFile,
                          !.verdict = "none", !.then = "idle"]

\* seeded fault: a stale snapshot is compared again instead of being given up.
CompareWaits(x) ==
  LET me   == proc[x]
      disk == IF file = NoFile THEN me.snap ELSE file
  IN  /\ At(x, "compare") /\ disk.gen <= me.snap.gen
      /\ Become(x, [me EXCEPT !.at = "write", !.snap = NoFile, !.disk = disk])
      /\ UNCHANGED <<mode, dir, file, running, alive, recycled, spawned, budget>>

\* A record that moved on drops the update; a missing one is the snapshot.
Compare(x) ==
  LET me   == proc[x]
      disk == IF file = NoFile THEN me.snap ELSE file
  IN  /\ At(x, "compare")
      /\ Become(x, IF disk.gen > me.snap.gen THEN Settled(me)
                   ELSE [me EXCEPT !.at = "write", !.snap = NoFile, !.disk = disk])
      /\ UNCHANGED <<mode, dir, file, running, alive, recycled, spawned, budget>>

\* The closures handed to the swap; the unhealthy count stops at its threshold.
Mutated(verdict, r) ==
  LET bad   == IF r.bad < UnhealthyThreshold THEN r.bad + 1 ELSE r.bad
      next  == CASE verdict = "healthy" ->
                      [r EXCEPT !.bad = 0,
                         !.state = IF @ \in {"starting", "ready"} THEN "running" ELSE @]
                 [] verdict = "unhealthy" ->
                      [r EXCEPT !.bad = bad,
                         !.state = IF bad >= UnhealthyThreshold /\ @ \in Live
                                   THEN "crashed" ELSE @]
                 [] OTHER -> [r EXCEPT !.state = verdict]
  IN  [next EXCEPT !.gen = r.gen + 1]

\* seeded fault: the directories are not created.
TouchedNothing(d) == d

\* write_host_record_in creates the directories the file needs.
Touched(d) == IF d = "none" THEN "husk" ELSE d

Write(x) ==
  /\ At(x, "write")
  /\ file' = Mutated(proc[x].verdict, proc[x].disk)
  /\ dir' = Touched(dir)
  /\ Become(x, Settled(proc[x]))
  /\ UNCHANGED <<mode, running, alive, recycled, spawned, budget>>

----------------------------------------------------------------------------
(* stop_dsh_container, and the rest of the restart task and the delete call. *)

\* A task is dispatched, or a synchronous call arrives.
Call(t, kind) ==
  /\ At(t, "idle") /\ calls[t] > 0
  /\ kind \in (IF t = Task THEN Tasks ELSE Rpcs)
  /\ Become(t, Finished([Idle EXCEPT !.rest = Plan[kind]]))
  /\ calls' = [calls EXCEPT ![t] = @ - 1]
  /\ UNCHANGED <<mode, dir, file, running, alive, recycled, spawned, crashes>>

\* seeded fault: the handle is dropped with the map entry, unkilled.
TakeForgets(t) ==
  /\ At(t, "take")
  /\ running' = 0
  /\ Go(t, "kill")
  /\ UNCHANGED <<mode, dir, file, alive, recycled, spawned, budget>>

Take(t) ==
  /\ At(t, "take")
  /\ running' = 0
  /\ Become(t, [proc[t] EXCEPT !.at = "kill", !.pid = running])
  /\ UNCHANGED <<mode, dir, file, alive, recycled, spawned, budget>>

\* seeded fault: a host recorded as crashed is taken to be dead.
KillUnlessCrashed(t) ==
  /\ At(t, "kill")
  /\ alive' = IF file.state = "crashed" THEN alive ELSE alive \ {proc[t].pid}
  /\ Become(t, [proc[t] EXCEPT !.at = "clear", !.pid = 0])
  /\ UNCHANGED <<mode, dir, file, running, recycled, spawned, budget>>

Kill(t) ==
  /\ At(t, "kill")
  /\ alive' = alive \ {proc[t].pid}
  /\ Become(t, [proc[t] EXCEPT !.at = "clear", !.pid = 0])
  /\ UNCHANGED <<mode, dir, file, running, recycled, spawned, budget>>

\* The record is read for the swap to Stopped; there may be none.
Clear(t) ==
  /\ At(t, "clear")
  /\ Become(t, IF file = NoFile THEN Finished(proc[t])
               ELSE Swap(proc[t], file, "stopped", "done"))
  /\ UNCHANGED <<mode, dir, file, running, alive, recycled, spawned, budget>>

\* A restart drops the record before it starts the host again.
DropRecord(t) ==
  /\ At(t, "drop")
  /\ file' = NoFile
  /\ Become(t, Finished(proc[t]))
  /\ UNCHANGED <<mode, dir, running, alive, recycled, spawned, budget>>

\* delete_container_rpc removes the directory, if there still is one.
Erase(t) ==
  /\ At(t, "erase")
  /\ dir' = "none" /\ file' = NoFile
  /\ Become(t, Idle)
  /\ UNCHANGED <<mode, running, alive, recycled, spawned, budget>>

----------------------------------------------------------------------------
(* start_dsh_container_inner. *)

\* seeded fault: a host that is already up is not looked for.
EnterBlind(t) ==
  /\ At(t, "enter")
  /\ Become(t, IF dir # "full" THEN Idle ELSE [proc[t] EXCEPT !.at = "sentinel"])
  /\ UNCHANGED <<mode, dir, file, running, alive, recycled, spawned, budget>>

\* Without container.json there is nothing to start; a managed host that has
\* not exited is the answer.
Enter(t) ==
  /\ At(t, "enter")
  /\ Become(t, IF dir # "full" THEN Idle
               ELSE IF running \in alive THEN Finished(proc[t])
               ELSE [proc[t] EXCEPT !.at = "sentinel"])
  /\ UNCHANGED <<mode, dir, file, running, alive, recycled, spawned, budget>>

Sentinel(t) ==
  /\ At(t, "sentinel")
  /\ file' = Corrupted /\ dir' = Touched(dir)
  /\ Go(t, "spawn")
  /\ UNCHANGED <<mode, running, alive, recycled, spawned, budget>>

\* A failed check, a failed spawn or a cancelled task ends the operation here.
GiveUp(t) ==
  /\ \E stage \in {"enter", "sentinel", "spawn"} : At(t, stage)
  /\ Become(t, Idle)
  /\ UNCHANGED <<mode, dir, file, running, alive, recycled, spawned, budget>>

Spawn(t) ==
  /\ At(t, "spawn") /\ dir = "full" /\ spawned < MaxPid
  /\ spawned' = spawned + 1
  /\ alive' = alive \union {spawned + 1}
  /\ Become(t, [proc[t] EXCEPT !.at = "record", !.pid = spawned + 1, !.tries = @ + 1])
  /\ UNCHANGED <<mode, dir, file, running, recycled, budget>>

WriteInitial(t) ==
  /\ At(t, "record")
  /\ file' = Initial(proc[t].pid) /\ dir' = Touched(dir)
  /\ Go(t, "probe")
  /\ UNCHANGED <<mode, running, alive, recycled, spawned, budget>>

\* The host answered: Ready is swapped over whatever record is there by now.
BecomesReady(t) ==
  LET p == proc[t].pid IN
  /\ At(t, "probe") /\ p \in alive
  /\ Become(t, Swap(proc[t], IF file = NoFile THEN Initial(p) ELSE file, "ready", "insert"))
  /\ UNCHANGED <<mode, dir, file, running, alive, recycled, spawned, budget>>

\* It exited, never answered, or the task was cancelled: the host is killed.
Aborts(t, verdict) ==
  LET p == proc[t].pid IN
  /\ At(t, "probe")
  /\ verdict = "crashed" => p \notin alive \/ "hang" \in Faults
  /\ alive' = alive \ {p}
  /\ Become(t, Swap(proc[t], Initial(p), verdict,
                    IF verdict = "crashed" THEN "retry" ELSE "idle"))
  /\ UNCHANGED <<mode, dir, file, running, recycled, spawned, budget>>

\* Only a port it could not bind is worth another attempt.
Retry(t) ==
  /\ At(t, "retry")
  /\ \/ /\ "bind" \in Faults /\ proc[t].tries < HostBindAttempts
        /\ Become(t, [proc[t] EXCEPT !.at = "spawn", !.pid = 0])
     \/ Become(t, Idle)
  /\ UNCHANGED <<mode, dir, file, running, alive, recycled, spawned, budget>>

\* spawn_health_watcher, then the map; a ManagedHost it displaces is dropped,
\* which kills its process.
Insert(t) ==
  LET p == proc[t].pid IN
  /\ At(t, "insert")
  /\ running' = p
  /\ alive' = alive \ ({running} \ {p})
  /\ proc' = [proc EXCEPT ![p] = [Idle EXCEPT !.at = "sleep"], ![t] = Finished(@)]
  /\ UNCHANGED <<mode, dir, file, recycled, spawned, budget>>

ThreadStep(t) ==
  \/ Take(t) \/ Kill(t) \/ Clear(t) \/ DropRecord(t) \/ Erase(t)
  \/ Enter(t) \/ Sentinel(t) \/ GiveUp(t) \/ Spawn(t) \/ WriteInitial(t)
  \/ BecomesReady(t) \/ Aborts(t, "crashed") \/ Aborts(t, "stopped")
  \/ Retry(t) \/ Insert(t)

----------------------------------------------------------------------------
(* The loop of spawn_health_watcher. *)

\* seeded fault: a dead pid ends the watcher before it wrote so.
LookGivesUp(w) ==
  /\ At(w, "sleep")
  /\ Become(w, IF file = NoFile \/ ProbePid(file.pid) # "alive" THEN Idle
               ELSE [proc[w] EXCEPT !.at = "watch", !.snap = file])
  /\ UNCHANGED <<mode, dir, file, running, alive, recycled, spawned, budget>>

\* The pid probed is the one of the record it reads, whoever wrote it; a dead
\* one ends the watcher whatever the swap says.
Look(w) ==
  /\ At(w, "sleep")
  /\ Become(w, CASE file = NoFile -> Idle
                 [] file # NoFile /\ ProbePid(file.pid) # "alive" ->
                      Swap(proc[w], file, "crashed", "idle")
                 [] OTHER -> [proc[w] EXCEPT !.at = "watch", !.snap = file])
  /\ UNCHANGED <<mode, dir, file, running, alive, recycled, spawned, budget>>

\* The HTTP probe.  MaxGen bounds the answers written back for a live host.
ProbeUrl(w) ==
  LET me == proc[w]
      up == me.snap.pid \in alive
  IN  /\ At(w, "watch")
      /\ \/ /\ up /\ file.gen < MaxGen
            /\ Become(w, Swap(me, me.snap, "healthy", "reread"))
         \/ /\ up => "hang" \in Faults /\ file.gen < MaxGen
            /\ Become(w, Swap(me, me.snap, "unhealthy", "reread"))
         \/ /\ up /\ file.gen >= MaxGen
            /\ Become(w, [me EXCEPT !.at = "sleep", !.snap = NoFile])
      /\ UNCHANGED <<mode, dir, file, running, alive, recycled, spawned, budget>>

Reread(w) ==
  /\ At(w, "reread")
  /\ Become(w, IF file.state \in {"crashed", "stopped"} THEN Idle
               ELSE [Idle EXCEPT !.at = "sleep"])
  /\ UNCHANGED <<mode, dir, file, running, alive, recycled, spawned, budget>>

WatcherStep(w) == Look(w) \/ ProbeUrl(w) \/ Reread(w)

----------------------------------------------------------------------------
(* Hosts, pids and the daemon itself. *)

HostDies(p) ==
  /\ "die" \in Faults /\ p \in alive
  /\ alive' = alive \ {p}
  /\ UNCHANGED <<mode, dir, file, running, recycled, spawned, proc, budget>>

PidRecycled(p, whose) ==
  /\ whose \in Recycled /\ p \in 1..spawned \ alive /\ recycled[p] = "no"
  /\ recycled' = [recycled EXCEPT ![p] = whose]
  /\ UNCHANGED <<mode, dir, file, running, alive, spawned, proc, budget>>

\* The process ends with all its threads.  The hosts are in process groups of
\* their own and survive it, unless the machine went down too.
DaemonEnds(survivors) ==
  /\ mode' = "down" /\ running' = 0 /\ alive' = survivors
  /\ proc' = [x \in Proc |-> Idle]
  /\ UNCHANGED <<dir, file, recycled, spawned>>

Crash ==
  /\ mode # "down" /\ crashes > 0
  /\ \/ "crash" \in Faults /\ DaemonEnds(alive)
     \/ "reboot" \in Faults /\ DaemonEnds({})
  /\ crashes' = crashes - 1
  /\ UNCHANGED calls

\* graceful_shutdown signals the managed hosts, gives them five seconds, then
\* kills those managed by then and leaves.
Shutdown ==
  /\ "shutdown" \in Faults /\ mode = "up" /\ crashes > 0
  /\ mode' = "draining" /\ alive' = alive \ {running}
  /\ crashes' = crashes - 1
  /\ UNCHANGED <<dir, file, running, recycled, spawned, proc, calls>>

ShutdownEnds ==
  /\ mode = "draining"
  /\ DaemonEnds(alive \ {running})
  /\ UNCHANGED budget

\* seeded fault: the records are taken as they were left.
BootTrustsRecord ==
  /\ mode = "down"
  /\ mode' = "up"
  /\ UNCHANGED <<dir, file, running, alive, recycled, spawned, proc, budget>>

\* reconcile_orphan_containers; a pid that is alive is left "to the watcher".
Boot ==
  /\ mode = "down"
  /\ mode' = "up"
  /\ file' = IF file.state \notin Live THEN file
             ELSE CASE ProbePid(file.pid) = "alive" -> file
                    [] ProbePid(file.pid) = "esrch" -> NoFile
                    [] OTHER -> Mutated("orphaned", file)
  /\ UNCHANGED <<dir, running, alive, recycled, spawned, proc, budget>>

Next ==
  \/ \E t \in Thread :
       \/ \E kind \in Tasks \union Rpcs : Call(t, kind)
       \/ ThreadStep(t)
  \/ \E w \in Pid : WatcherStep(w)
  \/ \E x \in Proc : Compare(x) \/ Write(x)
  \/ \E p \in Pid : HostDies(p) \/ \E whose \in Recycled : PidRecycled(p, whose)
  \/ Crash \/ Shutdown \/ ShutdownEnds \/ Boot

Spec == Init /\ [][Next]_vars

\* Threads run until they are done, watchers loop, a probe answers or times
\* out, and a daemon that went down is started again.  Nobody has to make a
\* call, and no host has to die.
FairSpec ==
  /\ Spec
  /\ \A t \in Thread : WF_vars(ThreadStep(t) \/ Compare(t) \/ Write(t))
  /\ \A w \in Pid : WF_vars(WatcherStep(w) \/ Compare(w) \/ Write(w))
  /\ WF_vars(ShutdownEnds) /\ WF_vars(Boot)

----------------------------------------------------------------------------
(* Properties. *)

\* Every variable has its type, a record lies in a directory, and a swap under
\* way has the records it compares and writes.
TypeOK ==
  /\ mode \in {"up", "draining", "down"} /\ dir \in {"full", "husk", "none"}
  /\ file \in Record \union {NoFile}
  /\ file # NoFile => dir # "none"
  /\ running \in 0..spawned /\ spawned \in 0..MaxPid
  /\ alive \subseteq 1..spawned
  /\ recycled \in [Pid -> {"no", "mine", "theirs"}]
  /\ proc \in [Proc -> Job]
  /\ \A x \in Proc : /\ proc[x].pid <= spawned
                     /\ proc[x].at \in {"compare", "watch"} => proc[x].snap # NoFile
                     /\ proc[x].at = "write" => proc[x].disk # NoFile
                     /\ proc[x].at \in {"compare", "write"} => proc[x].verdict # "none"
  /\ calls \in [Thread -> Nat] /\ crashes \in Nat

\* Two tasks of one container never leave it with two host processes, the
\* "stop, start and rewrite the same host at once" its lock is there to stop.
OneHost == Cardinality(alive) <= 1

\* A live host is in the running map or in the hands of a thread that is
\* starting or stopping it: nothing forgets the handle that can kill it.
NoOrphanHost ==
  mode # "down" =>
    \A p \in alive : p = running \/ \E t \in Thread : proc[t].pid = p

\* What stop_dsh_container leaves behind is a stopped host: a record that says
\* Stopped never names a process that is still alive.
StoppedHasNoHost == file.state = "stopped" => file.pid \notin alive

\* A daemon's death leaves no stale "running" record behind: with no operation
\* in hand, a record that claims a live host has one, or a watcher to tell.
NoStaleRunning ==
  mode = "up" /\ (\A t \in Thread : proc[t].at = "idle") /\ file.state \in Live =>
    \/ ProbePid(file.pid) = "alive"
    \/ \E w \in Pid : proc[w].at # "idle"

\* A Stopped record stays until a start or a restart replaces it: it is told
\* apart from Crashed, "host process died after starting".
StoppedStaysStopped ==
  [][file.state = "stopped" => file'.state # "crashed"]_vars

\* The generation keeps old watchers off a fresh record: a record is never
\* replaced by one that names an earlier host process.
FreshEntryKept ==
  [][file.pid # 0 /\ file'.pid # 0 => file'.pid >= file.pid]_vars

\* A host that has not missed a probe is not declared Crashed.
CrashIsReal ==
  [][file'.state = "crashed" /\ file.state # "crashed" =>
       file'.pid \notin alive \/ file'.bad > 0]_vars

\* Nothing but an explicit create brings a deleted container's directory back.
DeletedStaysDeleted == [][dir = "none" => dir' = "none"]_vars

\* A graceful shutdown clears the stale records, so that the next daemon does
\* not resume dead hosts.
ShutdownClearsRecords ==
  [][mode = "draining" /\ mode' = "down" /\ file'.pid # 0 /\ file'.pid \notin alive'
       => file'.state \notin Live]_vars

\* A record that claims a live host whose process is gone is corrected: by the
\* watcher, by the thread that is starting or stopping it, or at boot.
DeadHostReported ==
  \A p \in Pid :
    (file.state \in Live /\ file.pid = p /\ p \notin alive)
      ~> ~(file.state \in Live /\ file.pid = p)

\* Every task and every call ends, whatever the watchers write meanwhile.
CallsEnd == \A t \in Thread : proc[t].at # "idle" ~> proc[t].at = "idle"
=============================================================================
