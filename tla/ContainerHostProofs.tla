------------------------- MODULE ContainerHostProofs -------------------------
(***************************************************************************)
(* Theorems about ContainerHost for every bound and every mix of           *)
(* operations.  Type correctness holds under every fault; that no host is  *)
(* forgotten, as long as the daemon never dies and leaves its hosts behind.*)
(***************************************************************************)
EXTENDS ContainerHost, FiniteSetTheorems, TLAPS

USE HostAssumption

Bare == /\ NoFile \notin Record
        /\ Corrupted \in Record /\ \A p \in Pid : Initial(p) \in Record

LEMMA Records == Bare
BY DEF Bare, Record, NoFile, Corrupted, Initial, Live, UnhealthyThreshold, Pid

LEMMA Processes ==
  /\ Task \in Thread /\ Rpc \in Thread /\ Thread \subseteq Proc /\ Pid \subseteq Proc
  /\ Pid \subseteq 0..MaxPid /\ 0 \in 0..MaxPid /\ 0 \notin Pid
  /\ \A t \in Thread : t \notin Pid
BY DEF Task, Rpc, Thread, Proc, Pid

\* What the swap writes is a record again.
LEMMA MutatedIsRecord ==
  ASSUME NEW r \in Record, NEW verdict \in Verdicts \union {"orphaned"}, verdict # "none"
  PROVE  Mutated(verdict, r) \in Record
<1> DEFINE bad == IF r.bad < UnhealthyThreshold THEN r.bad + 1 ELSE r.bad
           States == Live \union {"crashed", "stopped", "orphaned", "corrupted"}
<1>1. bad \in 0..UnhealthyThreshold /\ r.bad \in 0..UnhealthyThreshold
  BY DEF Record, UnhealthyThreshold
<1>2. r.state \in States /\ r.gen + 1 \in Nat /\ r.pid \in 0..MaxPid
  BY DEF Record
<1>3. CASE verdict = "healthy"
  <2> DEFINE state == IF r.state \in {"starting", "ready"} THEN "running" ELSE r.state
  <2>1. state \in States /\ 0 \in 0..UnhealthyThreshold
    BY <1>2 DEF Live, UnhealthyThreshold
  <2>2. Mutated(verdict, r) =
          [[r EXCEPT !.bad = 0, !.state = state] EXCEPT !.gen = r.gen + 1]
    BY <1>3 DEF Mutated
  <2> HIDE DEF state
  <2>3. QED
    BY <2>1, <2>2, <1>2 DEF Record
<1>4. CASE verdict = "unhealthy"
  <2> DEFINE state == IF bad >= UnhealthyThreshold /\ r.state \in Live
                      THEN "crashed" ELSE r.state
  <2>1. state \in States
    BY <1>2
  <2>2. Mutated(verdict, r) =
          [[r EXCEPT !.bad = bad, !.state = state] EXCEPT !.gen = r.gen + 1]
    BY <1>4 DEF Mutated
  <2> HIDE DEF state, bad
  <2>3. QED
    BY <2>1, <2>2, <1>1, <1>2 DEF Record
<1>5. CASE verdict \notin {"healthy", "unhealthy"}
  <2>1. verdict \in States
    BY <1>5 DEF Verdicts, Live
  <2>2. Mutated(verdict, r) = [[r EXCEPT !.state = verdict] EXCEPT !.gen = r.gen + 1]
    BY <1>5 DEF Mutated
  <2>3. QED
    BY <2>1, <2>2, <1>2 DEF Record
<1>6. QED
  BY <1>3, <1>4, <1>5

-----------------------------------------------------------------------------
(* The inductive invariant. *)

\* The stages in which a thread answers for a host process.
Holding(x) == \/ x.at \in {"kill", "record", "probe", "insert"}
              \/ x.at \in {"compare", "write"} /\ x.then = "insert"

\* A thread that does not answer for a host has none in its hands.
HandsFree == \A t \in Thread : Holding(proc[t]) \/ proc[t].pid \notin alive

\* A start has an attempt left whenever it is about to spawn.
TriesLeft == \A t \in Thread : proc[t].at \in {"enter", "sentinel", "spawn"}
                                 => proc[t].tries < HostBindAttempts

\* Threads and watchers keep to their own stages.
Lanes ==
  /\ \A t \in Thread : /\ proc[t].at \notin {"sleep", "watch", "reread"}
                       /\ proc[t].then # "reread"
                       /\ proc[t].then # "idle" => proc[t].at \in {"compare", "write"}
                       /\ \/ proc[t].at \in {"record", "probe", "insert"}
                          \/ proc[t].then = "insert"
                          => proc[t].pid # 0
  /\ \A w \in Pid : /\ proc[w].at \in {"idle", "sleep", "watch", "reread", "compare", "write"}
                    /\ proc[w].then \in {"idle", "reread"}

HostInv == TypeOK /\ TriesLeft /\ Lanes

LEMMA Jobs ==
  /\ Idle \in Job
  /\ \A x \in Job :
       /\ Finished(x) \in Job /\ Finished(x).pid = 0 /\ Finished(x).tries = 0
       /\ Finished(x).at \in {"idle", "take", "drop", "enter", "erase"}
       /\ Finished(x).then = "idle"
<1>1. Idle \in Job
  BY DEF Idle, Job, Stages, Verdicts, HostBindAttempts
<1>2. ASSUME NEW x \in Job
      PROVE  /\ Finished(x) \in Job /\ Finished(x).pid = 0 /\ Finished(x).tries = 0
             /\ Finished(x).at \in {"idle", "take", "drop", "enter", "erase"}
             /\ Finished(x).then = "idle"
  <2>1. CASE x.rest = <<>>
    BY <1>1, <2>1 DEF Finished, Idle
  <2>2. CASE x.rest # <<>>
    <3>1. x.rest \in Seq({"take", "drop", "enter", "erase"})
      BY DEF Job
    <3>2. /\ Head(x.rest) \in {"take", "drop", "enter", "erase"}
          /\ Tail(x.rest) \in Seq({"take", "drop", "enter", "erase"})
      BY <2>2, <3>1
    <3>3. Finished(x) = [Idle EXCEPT !.at = Head(x.rest), !.rest = Tail(x.rest)]
      BY <2>2 DEF Finished
    <3>4. QED
      BY <3>2, <3>3, <1>1 DEF Idle, Job, Stages
  <2>3. QED
    BY <2>1, <2>2
<1>3. QED
  BY <1>1, <1>2

\* What a process may be doing, given what has been spawned.
Sound(x) == /\ x \in Job /\ x.pid <= spawned
            /\ x.at \in {"compare", "watch"} => x.snap # NoFile
            /\ x.at = "write" => x.disk # NoFile
            /\ x.at \in {"compare", "write"} => x.verdict # "none"
ThreadLane(x) == /\ x.at \notin {"sleep", "watch", "reread"} /\ x.then # "reread"
                 /\ x.then # "idle" => x.at \in {"compare", "write"}
                 /\ x.at \in {"record", "probe", "insert"} \/ x.then = "insert"
                      => x.pid # 0
                 /\ x.at \in {"enter", "sentinel", "spawn"} => x.tries < HostBindAttempts
WatcherLane(x) == /\ x.at \in {"idle", "sleep", "watch", "reread", "compare", "write"}
                  /\ x.then \in {"idle", "reread"}

LEMMA ByProcess ==
  HostInv <=> /\ mode \in {"up", "draining", "down"} /\ dir \in {"full", "husk", "none"}
              /\ file \in Record \union {NoFile} /\ (file # NoFile => dir # "none")
              /\ running \in 0..spawned /\ spawned \in 0..MaxPid /\ alive \subseteq 1..spawned
              /\ recycled \in [Pid -> {"no", "mine", "theirs"}]
              /\ calls \in [Thread -> Nat] /\ crashes \in Nat
              /\ proc \in [Proc -> Job]
              /\ \A x \in Proc : Sound(proc[x])
              /\ \A t \in Thread : ThreadLane(proc[t])
              /\ \A w \in Pid : WatcherLane(proc[w])
BY DEF HostInv, TypeOK, TriesLeft, Lanes, Sound, ThreadLane, WatcherLane

LEMMA IdleSound ==
  ASSUME HostInv
  PROVE  /\ Sound(Idle) /\ ThreadLane(Idle) /\ WatcherLane(Idle)
         /\ \A x \in Job : Sound(Finished(x)) /\ ThreadLane(Finished(x))
<1>1. spawned \in Nat
  BY DEF HostInv, TypeOK
<1>2. Sound(Idle) /\ ThreadLane(Idle) /\ WatcherLane(Idle)
  BY <1>1, Jobs DEF Sound, ThreadLane, WatcherLane, Idle, HostBindAttempts
<1>3. ASSUME NEW x \in Job PROVE Sound(Finished(x)) /\ ThreadLane(Finished(x))
  BY <1>1, <1>3, Jobs DEF Sound, ThreadLane, HostBindAttempts
<1>4. QED
  BY <1>2, <1>3

\* A settled swap leaves the process in its lane.
LEMMA SettledSound ==
  ASSUME HostInv, NEW x \in Job, x.pid <= spawned
  PROVE  /\ Sound(Settled(x))
         /\ ThreadLane(x) => ThreadLane(Settled(x))
         /\ WatcherLane(x) => WatcherLane(Settled(x))
<1>1. CASE x.then = "idle"
  BY <1>1, IdleSound DEF Settled
<1>2. CASE x.then = "done"
  BY <1>2, IdleSound DEF Settled, WatcherLane
<1>3. CASE x.then \in {"insert", "retry", "reread"}
  <2>1. Settled(x) = [x EXCEPT !.at = x.then, !.snap = NoFile, !.disk = NoFile,
                               !.verdict = "none", !.then = "idle"]
    BY <1>3 DEF Settled
  <2>2. Settled(x) \in Job /\ Settled(x).at = x.then /\ Settled(x).then = "idle"
        /\ Settled(x).pid = x.pid /\ Settled(x).tries = x.tries
    BY <2>1, <1>3 DEF Job, Stages, Verdicts
  <2>3. QED
    BY <2>2, <1>3 DEF Sound, ThreadLane, WatcherLane
<1>4. QED
  BY <1>1, <1>2, <1>3 DEF Job

\* A swap that starts is sound when it has a record to start from.
LEMMA SwapSound ==
  ASSUME NEW x, Sound(x), NEW snap \in Record, NEW verdict \in Verdicts \ {"none"},
         NEW then \in {"idle", "done", "insert", "retry", "reread"}
  PROVE  LET y == Swap(x, snap, verdict, then)
         IN  /\ Sound(y) /\ y.at = "compare" /\ y.then = then
             /\ y.pid = x.pid /\ y.tries = x.tries
BY Records DEF Bare, Swap, Sound, Job, Stages

\* One process moves and the rest of the state keeps its shape.
LEMMA OneMoves ==
  ASSUME HostInv, NEW x \in Proc, NEW y, Become(x, y), Sound(y),
         x \in Thread => ThreadLane(y), x \in Pid => WatcherLane(y),
         mode' \in {"up", "draining", "down"}, dir' \in {"full", "husk", "none"},
         file' \in Record \union {NoFile}, file' # NoFile => dir' # "none",
         running' \in 0..spawned, alive' \subseteq 1..spawned,
         UNCHANGED <<spawned, recycled, crashes>>, calls' \in [Thread -> Nat]
  PROVE  HostInv'
<1>1. proc' = [proc EXCEPT ![x] = y] /\ y \in Job
  BY DEF Become, Sound
<1>2. /\ proc \in [Proc -> Job] /\ \A z \in Proc : Sound(proc[z])
      /\ \A t \in Thread : ThreadLane(proc[t])
      /\ \A w \in Pid : WatcherLane(proc[w])
      /\ spawned \in 0..MaxPid /\ crashes \in Nat
      /\ recycled \in [Pid -> {"no", "mine", "theirs"}]
  BY ByProcess
<1>3. /\ proc' \in [Proc -> Job]
      /\ \A z \in Proc : proc'[z] = IF z = x THEN y ELSE proc[z]
  BY <1>1, <1>2
<1>4. (\A z \in Proc : Sound(proc[z]))'
  BY <1>2, <1>3 DEF Sound
<1>5. (\A t \in Thread : ThreadLane(proc[t]))' /\ (\A w \in Pid : WatcherLane(proc[w]))'
  BY <1>2, <1>3, Processes
<1>6. QED
  BY <1>2, <1>3, <1>4, <1>5 DEF HostInv, TypeOK, TriesLeft, Lanes, Sound, ThreadLane, WatcherLane

-----------------------------------------------------------------------------
(* Type correctness. *)

LEMMA Unfold ==
  ASSUME HostInv
  PROVE  /\ mode \in {"up", "draining", "down"} /\ dir \in {"full", "husk", "none"}
         /\ file \in Record \union {NoFile} /\ (file # NoFile => dir # "none")
         /\ running \in 0..spawned /\ spawned \in 0..MaxPid /\ alive \subseteq 1..spawned
         /\ calls \in [Thread -> Nat] /\ crashes \in Nat
         /\ proc \in [Proc -> Job] /\ \A x \in Proc : proc[x] \in Job /\ Sound(proc[x])
         /\ \A t \in Thread : t \in Proc /\ ThreadLane(proc[t])
         /\ \A w \in Pid : w \in Proc /\ WatcherLane(proc[w])
BY ByProcess, Processes

LEMMA SwapStep ==
  ASSUME HostInv, NEW x \in Proc, Compare(x) \/ Write(x)
  PROVE  HostInv'
<1> DEFINE me == proc[x]
<1>1. Sound(me) /\ me \in Job /\ me.pid <= spawned
  BY Unfold DEF Sound
<1>2. /\ Sound(Settled(me))
      /\ ThreadLane(me) => ThreadLane(Settled(me))
      /\ WatcherLane(me) => WatcherLane(Settled(me))
  BY <1>1, SettledSound
<1>3. (x \in Thread => ThreadLane(me)) /\ (x \in Pid => WatcherLane(me))
  BY Unfold
<1>4. CASE Compare(x)
  <2> DEFINE disk == IF file = NoFile THEN me.snap ELSE file
             y == IF disk.gen > me.snap.gen THEN Settled(me)
                  ELSE [me EXCEPT !.at = "write", !.snap = NoFile, !.disk = disk]
  <2>1. Become(x, y) /\ me.at = "compare"
    BY <1>4 DEF Compare, At
  <2>2. disk \in Record
    BY <2>1, <1>1, Unfold DEF Sound, Job
  <2> DEFINE z == [me EXCEPT !.at = "write", !.snap = NoFile, !.disk = disk]
  <2>3. z.at = "write" /\ z.then = me.then /\ z.disk = disk /\ z.pid = me.pid
        /\ z.verdict = me.verdict /\ z \in Job
    BY <2>2, <1>1 DEF Job, Stages
  <2>a. Sound(z)
    BY <2>1, <2>2, <2>3, <1>1, Records DEF Bare, Sound
  <2>4. Sound(y) /\ (x \in Thread => ThreadLane(y)) /\ (x \in Pid => WatcherLane(y))
    BY <2>3, <2>a, <1>2, <1>3 DEF ThreadLane, WatcherLane
  <2> HIDE DEF y
  <2>5. QED
    BY <2>1, <2>4, <1>4, Unfold, OneMoves DEF Compare, budget
<1>5. CASE Write(x)
  <2>1. me.at = "write" /\ me.disk \in Record /\ me.verdict \in Verdicts \ {"none"}
    BY <1>5, <1>1 DEF Write, At, Sound, Job
  <2>2. file' \in Record
    BY <2>1, <1>5, MutatedIsRecord DEF Write
  <2>3. dir' \in {"full", "husk", "none"} /\ dir' # "none"
    BY <1>5, Unfold DEF Write, Touched
  <2>4. Become(x, Settled(me))
    BY <1>5 DEF Write
  <2>5. QED
    BY <2>2, <2>3, <2>4, <1>2, <1>3, <1>5, Unfold, OneMoves DEF Write, budget
<1>6. QED
  BY <1>4, <1>5

\* A thread moves to another stage, with a host process or none in its hands.
LEMMA MoveSound ==
  ASSUME NEW x, Sound(x), ThreadLane(x), spawned \in 0..MaxPid,
         NEW stage \in {"kill", "clear", "sentinel", "spawn", "probe"},
         NEW pid \in 0..spawned, x.at \notin {"compare", "write"},
         stage = "spawn" => x.tries < HostBindAttempts,
         stage = "sentinel" => x.at = "enter",
         stage = "probe" => x.at = "record"
  PROVE  /\ Sound([x EXCEPT !.at = stage]) /\ ThreadLane([x EXCEPT !.at = stage])
         /\ stage # "probe" => /\ Sound([x EXCEPT !.at = stage, !.pid = pid])
                               /\ ThreadLane([x EXCEPT !.at = stage, !.pid = pid])
<1> DEFINE y == [x EXCEPT !.at = stage]
           z == [x EXCEPT !.at = stage, !.pid = pid]
<1>1. x \in Job /\ pid \in 0..MaxPid
  BY DEF Sound
<1>2. /\ y \in Job /\ y.at = stage /\ y.pid = x.pid /\ y.tries = x.tries /\ y.then = x.then
      /\ z \in Job /\ z.at = stage /\ z.pid = pid /\ z.tries = x.tries /\ z.then = x.then
  BY <1>1 DEF Job, Stages
<1>3. QED
  BY <1>2 DEF Sound, ThreadLane

LEMMA ThreadMoves ==
  ASSUME HostInv, NEW t \in Thread, ThreadStep(t)
  PROVE  HostInv'
<1> DEFINE me == proc[t]
<1>1. t \in Proc /\ t \notin Pid /\ me \in Job /\ Sound(me) /\ ThreadLane(me)
  BY Unfold, Processes
<1>2. spawned \in 0..MaxPid /\ 0 \in 0..spawned /\ running \in 0..spawned
  BY Unfold
<1>3. /\ Sound(Idle) /\ ThreadLane(Idle)
      /\ Sound(Finished(me)) /\ ThreadLane(Finished(me))
  BY <1>1, IdleSound
<1> DEFINE Moves(y) == /\ Become(t, y) /\ Sound(y) /\ ThreadLane(y)
                       /\ UNCHANGED <<spawned, recycled, calls, crashes, mode>>
                       /\ running' \in 0..spawned /\ alive' \subseteq 1..spawned
<1>4. ASSUME NEW y, Moves(y), UNCHANGED <<file, dir>> PROVE HostInv'
  BY <1>1, <1>4, Unfold, OneMoves
<1>5. ASSUME NEW y, Moves(y), file' = NoFile, dir' \in {"full", "husk", "none"} PROVE HostInv'
  BY <1>1, <1>5, Unfold, OneMoves
<1>6. ASSUME NEW y, Moves(y), file' \in Record, dir' = Touched(dir) PROVE HostInv'
  BY <1>1, <1>6, Unfold, OneMoves DEF Touched
<1>7. CASE Take(t)
  <2>1. Moves([me EXCEPT !.at = "kill", !.pid = running])
    BY <1>7, <1>1, <1>2, MoveSound, Unfold DEF Take, At, budget
  <2>2. QED
    BY <2>1, <1>4, <1>7 DEF Take
<1>8. CASE Kill(t)
  <2>1. Moves([me EXCEPT !.at = "clear", !.pid = 0])
    BY <1>8, <1>1, <1>2, MoveSound, Unfold DEF Kill, At, budget
  <2>2. QED
    BY <2>1, <1>4, <1>8 DEF Kill
<1>9. CASE Clear(t)
  <2> DEFINE y == IF file = NoFile THEN Finished(me) ELSE Swap(me, file, "stopped", "done")
  <2>1. file # NoFile => /\ Sound(Swap(me, file, "stopped", "done"))
                         /\ ThreadLane(Swap(me, file, "stopped", "done"))
    BY <1>1, SwapSound, Unfold DEF ThreadLane, Verdicts
  <2>2. Moves(y)
    BY <2>1, <1>9, <1>3, Unfold DEF Clear, budget
  <2>3. QED
    BY <2>2, <1>4, <1>9 DEF Clear
<1>10. CASE DropRecord(t)
  <2>1. Moves(Finished(me))
    BY <1>10, <1>3, Unfold DEF DropRecord, budget
  <2>2. QED
    BY <2>1, <1>5, <1>10, Unfold DEF DropRecord
<1>11. CASE Erase(t)
  <2>1. Moves(Idle)
    BY <1>11, <1>3, Unfold DEF Erase, budget
  <2>2. QED
    BY <2>1, <1>5, <1>11 DEF Erase
<1>12. CASE Enter(t)
  <2>1. me.at = "enter"
    BY <1>12 DEF Enter, At
  <2>2. Sound([me EXCEPT !.at = "sentinel"]) /\ ThreadLane([me EXCEPT !.at = "sentinel"])
    BY <2>1, <1>1, <1>2, MoveSound
  <2>3. \E y \in {Idle, Finished(me), [me EXCEPT !.at = "sentinel"]} : Moves(y)
    BY <2>2, <1>12, <1>3, Unfold DEF Enter, budget
  <2>4. QED
    BY <2>3, <1>4, <1>12 DEF Enter
<1>13. CASE Sentinel(t)
  <2>1. me.at = "sentinel"
    BY <1>13 DEF Sentinel, At
  <2>2. Moves([me EXCEPT !.at = "spawn"])
    BY <2>1, <1>13, <1>1, <1>2, MoveSound, Unfold DEF Sentinel, Go, Become, ThreadLane, budget
  <2>3. QED
    BY <2>2, <1>6, <1>13, Records DEF Sentinel, Bare
<1>14. CASE GiveUp(t)
  <2>1. Moves(Idle)
    BY <1>14, <1>3, Unfold DEF GiveUp, budget
  <2>2. QED
    BY <2>1, <1>4, <1>14 DEF GiveUp
<1>15. CASE Spawn(t)
  <2> DEFINE n == spawned + 1
             y == [me EXCEPT !.at = "record", !.pid = n, !.tries = @ + 1]
  <2>1. me.at = "spawn" /\ me.tries < HostBindAttempts /\ n \in 0..MaxPid
    BY <1>15, <1>1, <1>2 DEF Spawn, At, ThreadLane
  <2>2. me.tries + 1 \in 0..HostBindAttempts
    BY <2>1, <1>1 DEF Job, HostBindAttempts
  <2>3. y \in Job /\ y.at = "record" /\ y.pid = n /\ y.then = me.then
    BY <2>1, <2>2, <1>1 DEF Job, Stages
  <2>4. spawned' = n /\ alive' \subseteq 1..n /\ proc' = [proc EXCEPT ![t] = y]
        /\ running \in 0..n
    BY <1>15, <1>2, Unfold DEF Spawn, Become
  <2> HIDE DEF y
  <2>a. /\ \A x \in Proc : proc'[x] = IF x = t THEN y ELSE proc[x]
        /\ \A x \in Proc : proc[x].pid \in 0..MaxPid /\ Sound(proc[x])
    BY <2>4, <1>1, Unfold DEF Job
  <2>5. (\A x \in Proc : Sound(proc[x]))'
    BY <2>3, <2>4, <2>a, <1>2 DEF Sound
  <2>b. ThreadLane(y)
    BY <2>1, <2>3, <1>1, <1>2 DEF ThreadLane
  <2>6. (\A x \in Thread : ThreadLane(proc[x]))' /\ (\A w \in Pid : WatcherLane(proc[w]))'
    BY <2>a, <2>b, <1>1, Unfold, Processes
  <2>7. (proc \in [Proc -> Job])' /\ recycled \in [Pid -> {"no", "mine", "theirs"}]
    BY <2>3, <2>4, ByProcess
  <2>8. UNCHANGED <<mode, dir, file, running, recycled, calls, crashes>>
    BY <1>15 DEF Spawn, budget
  <2>9. QED
    BY <2>1, <2>4, <2>5, <2>6, <2>7, <2>8, Unfold
       DEF HostInv, TypeOK, TriesLeft, Lanes, Sound, ThreadLane, WatcherLane
<1>16. CASE WriteInitial(t)
  <2>1. me.at = "record" /\ me.pid \in 0..spawned
    BY <1>16, <1>1, <1>2 DEF WriteInitial, At, Sound, Job
  <2>2. Moves([me EXCEPT !.at = "probe"])
    BY <2>1, <1>16, <1>1, <1>2, MoveSound, Unfold DEF WriteInitial, Go, Become, budget
  <2>3. Initial(me.pid) \in Record
    BY <1>1 DEF Job, Initial, Record, Live, UnhealthyThreshold
  <2>4. QED
    BY <2>2, <2>3, <1>6, <1>16 DEF WriteInitial
<1>17. CASE BecomesReady(t)
  <2> DEFINE snap == IF file = NoFile THEN Initial(me.pid) ELSE file
  <2>1. snap \in Record
    BY <1>1, Unfold DEF Job, Initial, Record, Live, UnhealthyThreshold
  <2>2. Become(t, Swap(me, snap, "ready", "insert"))
    BY <1>17 DEF BecomesReady
  <2> HIDE DEF snap
  <2>3. Moves(Swap(me, snap, "ready", "insert"))
    BY <2>1, <2>2, <1>1, <1>17, SwapSound, Unfold DEF BecomesReady, ThreadLane, Verdicts, budget
  <2>4. QED
    BY <2>3, <1>4, <1>17 DEF BecomesReady
<1>18. ASSUME NEW verdict \in {"crashed", "stopped"}, Aborts(t, verdict) PROVE HostInv'
  <2>1. Initial(me.pid) \in Record
    BY <1>1 DEF Job, Initial, Record, Live, UnhealthyThreshold
  <2> DEFINE then == IF verdict = "crashed" THEN "retry" ELSE "idle"
  <2>2. Become(t, Swap(me, Initial(me.pid), verdict, then))
    BY <1>18 DEF Aborts
  <2>3. then \in {"idle", "retry"} /\ verdict \in Verdicts \ {"none"}
    BY <1>18 DEF Verdicts
  <2> HIDE DEF then
  <2> DEFINE y == Swap(me, Initial(me.pid), verdict, then)
  <2>a. Sound(y) /\ y.at = "compare" /\ y.then = then
    BY <2>1, <2>3, <1>1, SwapSound
  <2> HIDE DEF y
  <2>b. ThreadLane(y)
    BY <2>3, <2>a DEF ThreadLane
  <2>4. Moves(y)
    BY <2>2, <2>a, <2>b, <1>18, Unfold DEF Aborts, budget, y
  <2>5. QED
    BY <2>4, <1>4, <1>18 DEF Aborts
<1>19. CASE Retry(t)
  <2>1. \/ Become(t, Idle)
        \/ me.tries < HostBindAttempts /\ Become(t, [me EXCEPT !.at = "spawn", !.pid = 0])
    BY <1>19 DEF Retry
  <2>2. me.tries < HostBindAttempts =>
          /\ Sound([me EXCEPT !.at = "spawn", !.pid = 0])
          /\ ThreadLane([me EXCEPT !.at = "spawn", !.pid = 0])
    BY <1>1, <1>2, <1>19, MoveSound DEF Retry, At
  <2>3. \E y \in {Idle, [me EXCEPT !.at = "spawn", !.pid = 0]} : Moves(y)
    BY <2>1, <2>2, <1>3, <1>19, Unfold DEF Retry, budget
  <2>4. QED
    BY <2>3, <1>4, <1>19 DEF Retry
<1>20. CASE Insert(t)
  <2> DEFINE p == me.pid
             w == [Idle EXCEPT !.at = "sleep"]
             y == Finished(me)
  <2>1. p \in Pid /\ p \in Proc /\ p # t /\ p \in 0..spawned
    <3>1. p \in 0..MaxPid /\ p # 0 /\ p <= spawned
      BY <1>20, <1>1 DEF Insert, At, Sound, Job, ThreadLane
    <3>2. QED
      BY <3>1, <1>1, <1>2, Processes DEF Pid
  <2>2. Sound(w) /\ WatcherLane(w) /\ w \in Job /\ y \in Job
    BY <1>1, <1>2, <1>3, Jobs DEF Sound, WatcherLane, Idle, Job, Stages
  <2>3. proc' = [proc EXCEPT ![p] = w, ![t] = y] /\ running' = p
        /\ alive' \subseteq alive
        /\ UNCHANGED <<mode, dir, file, recycled, spawned, calls, crashes>>
    BY <1>20, <2>1, Unfold DEF Insert, budget
  <2> HIDE DEF w, y, p
  <2>4. /\ proc' \in [Proc -> Job]
        /\ \A x \in Proc : proc'[x] = IF x = t THEN y ELSE IF x = p THEN w ELSE proc[x]
    BY <2>1, <2>2, <2>3, <1>1, Unfold
  <2>5. (\A x \in Proc : Sound(proc[x]))'
    BY <2>2, <2>3, <2>4, <1>3, Unfold DEF Sound, y
  <2>6. (\A x \in Thread : ThreadLane(proc[x]))'
    BY <2>1, <2>4, <1>3, Unfold, Processes DEF y
  <2>7. (\A x \in Pid : WatcherLane(proc[x]))'
    BY <2>2, <2>4, <1>1, Unfold, Processes
  <2>8. recycled \in [Pid -> {"no", "mine", "theirs"}]
    BY ByProcess
  <2>9. QED
    BY <2>1, <2>3, <2>4, <2>5, <2>6, <2>7, <2>8, Unfold
       DEF HostInv, TypeOK, TriesLeft, Lanes, Sound, ThreadLane, WatcherLane
<1>21. QED
  BY <1>7, <1>8, <1>9, <1>10, <1>11, <1>12, <1>13, <1>14, <1>15, <1>16, <1>17, <1>18,
     <1>19, <1>20 DEF ThreadStep

LEMMA WatcherMoves ==
  ASSUME HostInv, NEW w \in Pid, WatcherStep(w)
  PROVE  HostInv'
<1> DEFINE me == proc[w]
<1>1. /\ w \in Proc /\ w \notin Thread /\ me \in Job /\ Sound(me) /\ WatcherLane(me)
      /\ Sound(Idle) /\ WatcherLane(Idle)
  BY Unfold, Processes, IdleSound
<1>2. UNCHANGED <<mode, dir, file, running, alive, recycled, spawned, calls, crashes>>
  BY DEF WatcherStep, Look, ProbeUrl, Reread, budget
<1>3. ASSUME NEW y, Become(w, y), Sound(y), WatcherLane(y) PROVE HostInv'
  BY <1>1, <1>2, <1>3, Unfold, OneMoves
<1>4. ASSUME NEW snap \in Record, NEW verdict \in Verdicts \ {"none"}, NEW then \in {"idle", "reread"}
      PROVE  Sound(Swap(me, snap, verdict, then)) /\ WatcherLane(Swap(me, snap, verdict, then))
  BY <1>1, SwapSound DEF WatcherLane
<1>5. spawned \in Nat /\ NoFile \notin Record
  BY Unfold, Records DEF Bare
<1>6. CASE Look(w)
  <2>1. CASE file = NoFile
    BY <2>1, <1>1, <1>3, <1>6 DEF Look
  <2>2. CASE file # NoFile /\ ProbePid(file.pid) # "alive"
    <3>1. Become(w, Swap(me, file, "crashed", "idle"))
      BY <2>2, <1>6 DEF Look
    <3>2. file \in Record /\ "crashed" \in Verdicts \ {"none"}
      BY <2>2, Unfold DEF Verdicts
    <3>3. QED
      BY <3>1, <3>2, <1>3, <1>4
  <2>3. CASE file # NoFile /\ ProbePid(file.pid) = "alive"
    <3> DEFINE y == [me EXCEPT !.at = "watch", !.snap = file]
    <3>1. Become(w, y) /\ file \in Record
      BY <2>3, <1>6, Unfold DEF Look
    <3>2. y \in Job /\ y.at = "watch" /\ y.snap = file /\ y.then = me.then /\ y.pid = me.pid
      BY <3>1, <1>1 DEF Job, Stages
    <3>3. Sound(y) /\ WatcherLane(y)
      BY <3>1, <3>2, <1>1, <1>5 DEF Sound, WatcherLane
    <3>4. QED
      BY <3>1, <3>3, <1>3
  <2>4. QED
    BY <2>1, <2>2, <2>3
<1>7. CASE ProbeUrl(w)
  <2>1. me.at = "watch" /\ me.snap \in Record
    BY <1>7, <1>1 DEF ProbeUrl, At, Sound, Job
  <2> DEFINE y == [me EXCEPT !.at = "sleep", !.snap = NoFile]
  <2>2. y \in Job /\ y.at = "sleep" /\ y.then = me.then /\ y.pid = me.pid
    BY <1>1 DEF Job, Stages
  <2>3. Sound(y) /\ WatcherLane(y)
    BY <2>2, <1>1 DEF Sound, WatcherLane
  <2>4. \/ Become(w, y)
        \/ \E verdict \in {"healthy", "unhealthy"} : Become(w, Swap(me, me.snap, verdict, "reread"))
    BY <1>7 DEF ProbeUrl
  <2>5. \A verdict \in {"healthy", "unhealthy"} :
          /\ Sound(Swap(me, me.snap, verdict, "reread"))
          /\ WatcherLane(Swap(me, me.snap, verdict, "reread"))
    BY <2>1, <1>4 DEF Verdicts
  <2>6. QED
    BY <2>3, <2>4, <2>5, <1>3
<1>8. CASE Reread(w)
  <2> DEFINE y == [Idle EXCEPT !.at = "sleep"]
  <2>1. Sound(y) /\ WatcherLane(y)
    BY <1>1, <1>5, Jobs DEF Sound, WatcherLane, Idle, Job, Stages
  <2>2. QED
    BY <2>1, <1>1, <1>3, <1>8 DEF Reread
<1>9. QED
  BY <1>6, <1>7, <1>8 DEF WatcherStep

LEMMA ProbeAnswers == \A p : ProbePid(p) \in {"alive", "eperm", "esrch"}
BY DEF ProbePid

LEMMA HostStep == HostInv /\ [Next]_vars => HostInv'
<1> SUFFICES ASSUME HostInv, [Next]_vars PROVE HostInv'
  OBVIOUS
<1>1. ASSUME NEW t \in Thread, NEW kind \in Tasks \union Rpcs, Call(t, kind) PROVE HostInv'
  <2> DEFINE x == [Idle EXCEPT !.rest = Plan[kind]]
  <2>1. kind \in {"start", "stop", "restart", "rebuild", "delete"}
    BY DEF HostAssumption
  <2>2. Plan[kind] \in Seq({"take", "drop", "enter", "erase"})
    <3> DEFINE Ops == {"take", "drop", "enter", "erase"}
    <3>1. /\ <<"enter">> \in Seq(Ops) /\ <<"take">> \in Seq(Ops)
          /\ <<"take", "enter">> \in Seq(Ops) /\ <<"take", "erase">> \in Seq(Ops)
          /\ <<"take", "drop", "enter">> \in Seq(Ops)
      OBVIOUS
    <3>2. Plan[kind] \in {<<"enter">>, <<"take">>, <<"take", "enter">>,
                          <<"take", "drop", "enter">>, <<"take", "erase">>}
      <4>1. /\ Plan["start"] = <<"enter">> /\ Plan["stop"] = <<"take">>
            /\ Plan["rebuild"] = <<"take", "enter">> /\ Plan["delete"] = <<"take", "erase">>
            /\ Plan["restart"] = <<"take", "drop", "enter">>
        BY DEF Plan
      <4>2. QED
        BY <2>1, <4>1
    <3>3. QED
      BY <3>1, <3>2
  <2>3. x \in Job
    BY <2>2, Jobs DEF Idle, Job
  <2>4. Sound(Finished(x)) /\ ThreadLane(Finished(x)) /\ t \in Proc /\ t \notin Pid
    BY <2>3, IdleSound, Processes
  <2>5. Become(t, Finished(x)) /\ calls' \in [Thread -> Nat]
    BY <1>1, Unfold DEF Call
  <2> HIDE DEF x
  <2>6. QED
    BY <2>4, <2>5, <1>1, Unfold, OneMoves DEF Call
<1>2. ASSUME NEW t \in Thread, ThreadStep(t) PROVE HostInv'
  BY <1>2, ThreadMoves
<1>3. ASSUME NEW w \in Pid, WatcherStep(w) PROVE HostInv'
  BY <1>3, WatcherMoves
<1>4. ASSUME NEW x \in Proc, Compare(x) \/ Write(x) PROVE HostInv'
  BY <1>4, SwapStep
<1> DEFINE Kept == UNCHANGED <<dir, spawned, calls>> /\ crashes' \in Nat
                   /\ mode' \in {"up", "draining", "down"} /\ alive' \subseteq alive
<1>5. ASSUME Kept, UNCHANGED <<proc, file, running>>,
             recycled' \in [Pid -> {"no", "mine", "theirs"}]
      PROVE  HostInv'
  BY <1>5, ByProcess DEF HostInv, TypeOK, TriesLeft, Lanes
<1>6. ASSUME NEW p \in Pid, HostDies(p) PROVE HostInv'
  BY <1>5, <1>6, ByProcess DEF HostDies, budget
<1>7. ASSUME NEW p \in Pid, NEW whose \in Recycled, PidRecycled(p, whose) PROVE HostInv'
  <2>1. recycled' \in [Pid -> {"no", "mine", "theirs"}]
    BY <1>7, ByProcess DEF PidRecycled, HostAssumption
  <2>2. QED
    BY <2>1, <1>5, <1>7, ByProcess DEF PidRecycled, budget
<1>8. ASSUME NEW survivors, survivors \subseteq alive, DaemonEnds(survivors),
             calls' = calls, crashes' \in Nat
      PROVE  HostInv'
  <2>1. proc' \in [Proc -> Job] /\ \A x \in Proc : proc'[x] = Idle
    BY <1>8, Jobs DEF DaemonEnds
  <2>2. Sound(Idle) /\ ThreadLane(Idle) /\ WatcherLane(Idle)
    BY IdleSound
  <2>3. /\ mode' = "down" /\ running' = 0 /\ alive' \subseteq alive
        /\ UNCHANGED <<dir, file, recycled, spawned>>
    BY <1>8 DEF DaemonEnds
  <2>4. (\A x \in Proc : Sound(proc[x]))'
    BY <2>1, <2>2, <2>3 DEF Sound
  <2>5. (\A t \in Thread : ThreadLane(proc[t]))' /\ (\A w \in Pid : WatcherLane(proc[w]))'
    BY <2>1, <2>2, Processes
  <2>6. QED
    BY <2>1, <2>3, <2>4, <2>5, <1>8, ByProcess
       DEF HostInv, TypeOK, TriesLeft, Lanes, Sound, ThreadLane, WatcherLane
<1>9. CASE Crash
  <2>1. calls' = calls /\ crashes' \in Nat
    BY <1>9, Unfold DEF Crash
  <2>2. \E survivors \in {alive, {}} : DaemonEnds(survivors)
    BY <1>9 DEF Crash
  <2>3. QED
    BY <2>1, <2>2, <1>8
<1>10. CASE Shutdown
  <2>1. Kept /\ UNCHANGED <<proc, file, running, recycled>>
    BY <1>10, Unfold DEF Shutdown
  <2>2. QED
    BY <2>1, <1>5, ByProcess
<1>11. CASE ShutdownEnds
  <2>1. calls' = calls /\ crashes' \in Nat /\ DaemonEnds(alive \ {running})
    BY <1>11, Unfold DEF ShutdownEnds, budget
  <2>2. QED
    BY <2>1, <1>8
<1>12. CASE Boot
  <2>1. file.state \in Live => file \in Record
    BY Unfold DEF NoFile, Live
  <2>2. file.state \in Live => Mutated("orphaned", file) \in Record
    BY <2>1, MutatedIsRecord DEF Verdicts
  <2>3. file' \in Record \union {NoFile} /\ (file' # NoFile => dir # "none")
    <3>1. file' \in {file, NoFile, Mutated("orphaned", file)}
          /\ (file' = file \/ file.state \in Live)
      BY <1>12 DEF Boot
    <3>2. QED
      BY <3>1, <2>1, <2>2, Unfold, Records DEF Bare
  <2>4. QED
    BY <2>3, <1>12, ByProcess DEF Boot, budget, HostInv, TypeOK, TriesLeft, Lanes
<1>13. CASE UNCHANGED vars
  BY <1>13 DEF vars, budget, HostInv, TypeOK, TriesLeft, Lanes
<1>14. QED
  BY <1>1, <1>2, <1>3, <1>4, <1>6, <1>7, <1>9, <1>10, <1>11, <1>12, <1>13 DEF Next

LEMMA HostInit == Init => HostInv
<1> SUFFICES ASSUME Init PROVE HostInv
  OBVIOUS
<1>1. proc \in [Proc -> Job] /\ \A x \in Proc : proc[x] = Idle
  BY Jobs DEF Init
<1>2. \A x \in Proc : proc[x].at = "idle" /\ proc[x].pid = 0 /\ proc[x].then = "idle"
  BY <1>1 DEF Idle
<1>3. calls \in [Thread -> Nat] /\ crashes \in Nat /\ 0 \in 0..MaxPid
  BY DEF Init, HostAssumption
<1>4. QED
  BY <1>1, <1>2, <1>3, Processes DEF Init, HostInv, TypeOK, TriesLeft, Lanes

\* Every variable keeps its type, a record lies in a directory, and a swap
\* always has the record it compares or writes.
THEOREM TypeCorrect == Spec => []TypeOK
<1>1. HostInv => TypeOK
  BY DEF HostInv
<1>2. QED
  BY <1>1, HostInit, HostStep, PTL DEF Spec
-----------------------------------------------------------------------------
(* No orphan hosts. *)

\* A daemon that ends takes its hosts with it: only the machine goes down.
AtHome == Faults \cap {"crash", "shutdown"} = {}

\* Every live host is accounted for, and a thread that no longer answers for
\* its host has seen it die.
Own == /\ HandsFree /\ NoOrphanHost
       /\ mode # "draining" /\ (mode = "down" => alive = {})

\* One process moves, hosts may die: a thread keeps the host it answers for.
LEMMA KeepsHosts ==
  ASSUME HostInv, Own, NEW x \in Proc, NEW y, Become(x, y),
         alive' \subseteq alive, UNCHANGED <<mode, running>>,
         x \in Thread => /\ y.pid = proc[x].pid \/ proc[x].pid \notin alive'
                         /\ Holding(y) \/ y.pid \notin alive'
  PROVE  Own'
<1>1. /\ proc' = [proc EXCEPT ![x] = y] /\ proc \in [Proc -> Job]
      /\ \A z \in Proc : proc'[z] = IF z = x THEN y ELSE proc[z]
  BY Unfold DEF Become
<1>2. ASSUME NEW t \in Thread
      PROVE  /\ Holding(proc'[t]) \/ proc'[t].pid \notin alive'
             /\ proc'[t].pid = proc[t].pid \/ proc[t].pid \notin alive'
  <2>1. t \in Proc /\ (Holding(proc[t]) \/ proc[t].pid \notin alive)
    BY Processes DEF Own, HandsFree
  <2>2. CASE t = x
    BY <1>1, <2>1, <2>2
  <2>3. CASE t # x
    BY <1>1, <2>1, <2>3
  <2>4. QED
    BY <2>2, <2>3
<1>3. HandsFree'
  BY <1>2 DEF HandsFree, Holding
<1>4. NoOrphanHost'
  BY <1>2 DEF Own, NoOrphanHost
<1>5. QED
  BY <1>3, <1>4 DEF Own

\* A process that settles its swap keeps the host it is about to manage.
LEMMA SwapKeepsHosts ==
  ASSUME HostInv, Own, NEW x \in Proc, Compare(x) \/ Write(x)
  PROVE  Own'
<1> DEFINE me == proc[x]
<1>1. me \in Job /\ me.at \in {"compare", "write"} /\ UNCHANGED <<mode, running, alive>>
  BY Unfold DEF Compare, Write, At
<1>2. x \in Thread => Holding(me) \/ me.pid \notin alive
  BY DEF Own, HandsFree
<1>3. 0 \notin alive
  BY Unfold
<1>4. ASSUME x \in Thread
      PROVE  /\ Settled(me).pid = me.pid \/ me.pid \notin alive
             /\ Holding(Settled(me)) \/ Settled(me).pid \notin alive
  <2>1. CASE me.then = "insert"
    <3>1. Settled(me) = [me EXCEPT !.at = me.then, !.snap = NoFile, !.disk = NoFile,
                                   !.verdict = "none", !.then = "idle"]
      BY <2>1 DEF Settled
    <3>2. Settled(me).at = "insert" /\ Settled(me).pid = me.pid
      BY <3>1, <2>1, <1>1 DEF Job
    <3>3. QED
      BY <3>2 DEF Holding
  <2>2. CASE me.then # "insert"
    <3>1. me.pid \notin alive
      BY <2>2, <1>1, <1>2, <1>4 DEF Holding
    <3>2. Settled(me).pid \in {0, me.pid}
      <4>1. CASE me.then \in {"idle", "done"}
        BY <4>1, <1>1, Jobs DEF Settled, Idle
      <4>2. CASE me.then \notin {"idle", "done"}
        <5>1. Settled(me) = [me EXCEPT !.at = me.then, !.snap = NoFile, !.disk = NoFile,
                                       !.verdict = "none", !.then = "idle"]
          BY <4>2 DEF Settled
        <5>2. QED
          BY <5>1, <1>1 DEF Job
      <4>3. QED
        BY <4>1, <4>2
    <3>3. QED
      BY <3>1, <3>2, <1>3
  <2>3. QED
    BY <2>1, <2>2
<1>5. CASE Become(x, Settled(me))
  BY <1>1, <1>4, <1>5, KeepsHosts
<1>6. CASE ~Become(x, Settled(me))
  <2> DEFINE disk == IF file = NoFile THEN me.snap ELSE file
             y == [me EXCEPT !.at = "write", !.snap = NoFile, !.disk = disk]
  <2>1. Become(x, y) /\ me.at = "compare"
    BY <1>6 DEF Compare, Write, At
  <2>2. y.at = "write" /\ y.then = me.then /\ y.pid = me.pid
    BY <1>1 DEF Job
  <2>3. Holding(me) => Holding(y)
    BY <2>1, <2>2 DEF Holding
  <2> HIDE DEF y
  <2>4. QED
    BY <2>1, <2>2, <2>3, <1>1, <1>2, KeepsHosts
<1>7. QED
  BY <1>5, <1>6

\* Threads take, kill, spawn and insert hosts without losing one.
LEMMA ThreadKeepsHosts ==
  ASSUME HostInv, Own, NEW t \in Thread, ThreadStep(t)
  PROVE  Own'
<1> DEFINE me == proc[t]
           p == me.pid
<1>1. /\ t \in Proc /\ t \notin Pid /\ me \in Job /\ ThreadLane(me)
      /\ Holding(me) \/ p \notin alive
      /\ p <= spawned /\ p \in Nat /\ spawned \in Nat /\ alive \subseteq 1..spawned
      /\ 0 \notin alive /\ proc \in [Proc -> Job]
  <2>1. me \in Job /\ Sound(me) /\ spawned \in 0..MaxPid
    BY Unfold
  <2>2. p \in Nat /\ spawned \in Nat
    BY <2>1 DEF Job
  <2>3. QED
    BY <2>1, <2>2, Unfold, Processes DEF Own, HandsFree, Sound
<1>2. ASSUME NEW y, Become(t, y), alive' \subseteq alive, UNCHANGED <<mode, running>>,
             y.pid = p \/ p \notin alive', Holding(y) \/ y.pid \notin alive'
      PROVE  Own'
  BY <1>1, <1>2, KeepsHosts
<1>3. Finished(me).pid = 0 /\ Idle.pid = 0
  BY <1>1, Jobs DEF Idle
<1>4. CASE Take(t)
  <2> DEFINE y == [me EXCEPT !.at = "kill", !.pid = running]
  <2>1. /\ y.at = "kill" /\ y.pid = running /\ p \notin alive
        /\ UNCHANGED <<mode, alive>> /\ mode # "down"
    BY <1>1, <1>4 DEF Take, At, Holding, Job, ThreadLane
  <2>2. \A z \in Proc : proc'[z] = IF z = t THEN y ELSE proc[z]
    BY <1>1, <1>4 DEF Take, Become
  <2> HIDE DEF y
  <2>3. HandsFree'
    BY <2>1, <2>2, Processes DEF Own, HandsFree, Holding
  <2>4. NoOrphanHost'
    <3>1. \A q \in alive : q = running \/ \E u \in Thread : u # t /\ proc[u].pid = q
      BY <2>1 DEF Own, NoOrphanHost
    <3>2. \A u \in Thread : u # t => proc'[u] = proc[u]
      BY <2>2, Processes
    <3>3. proc'[t].pid = running
      BY <1>1, <2>1, <2>2
    <3>4. QED
      BY <3>1, <3>2, <3>3, <2>1 DEF NoOrphanHost
  <2>5. QED
    BY <2>1, <2>3, <2>4 DEF Own
<1>5. CASE Kill(t)
  <2> DEFINE y == [me EXCEPT !.at = "clear", !.pid = 0]
  <2>1. y.pid = 0 /\ Become(t, y) /\ alive' = alive \ {p} /\ UNCHANGED <<mode, running>>
    BY <1>1, <1>5 DEF Kill, Job
  <2> HIDE DEF y
  <2>2. QED
    BY <2>1, <1>1, <1>2
<1>6. CASE Clear(t)
  <2>1. p \notin alive /\ UNCHANGED <<mode, running, alive>>
    BY <1>1, <1>6 DEF Clear, At, Holding, ThreadLane
  <2>2. Swap(me, file, "stopped", "done").pid = p
    BY <1>1 DEF Swap, Job
  <2>3. QED
    BY <2>1, <2>2, <1>1, <1>2, <1>3, <1>6 DEF Clear
<1>7. CASE \/ DropRecord(t) \/ Erase(t) \/ Enter(t) \/ GiveUp(t) \/ Retry(t)
  <2>1. p \notin alive /\ UNCHANGED <<mode, running, alive>>
    BY <1>1, <1>7 DEF DropRecord, Erase, Enter, GiveUp, Retry, At, Holding, ThreadLane
  <2>2. /\ [me EXCEPT !.at = "sentinel"].pid = p
        /\ [me EXCEPT !.at = "spawn", !.pid = 0].pid = 0
    BY <1>1 DEF Job
  <2>3. \E y : Become(t, y) /\ y.pid \in {0, p}
    <3>1. CASE DropRecord(t) \/ Erase(t) \/ GiveUp(t)
      BY <3>1, <1>3 DEF DropRecord, Erase, GiveUp
    <3>2. CASE Enter(t)
      BY <3>2, <1>3, <2>2 DEF Enter
    <3>3. CASE Retry(t)
      BY <3>3, <1>3, <2>2 DEF Retry
    <3>4. QED
      BY <3>1, <3>2, <3>3, <1>7
  <2>4. QED
    BY <2>1, <2>3, <1>1, <1>2
<1>8. CASE Sentinel(t) \/ WriteInitial(t)
  <2>1. \E stage \in {"spawn", "probe"} :
           Become(t, [me EXCEPT !.at = stage]) /\ (Holding(me) => stage = "probe")
    BY <1>8, <1>1 DEF Sentinel, WriteInitial, Go, Become, At, Holding, ThreadLane
  <2>2. PICK stage \in {"spawn", "probe"} :
           Become(t, [me EXCEPT !.at = stage]) /\ (Holding(me) => stage = "probe")
    BY <2>1
  <2> DEFINE y == [me EXCEPT !.at = stage]
  <2>3. y.pid = p /\ y.at = stage /\ Become(t, y)
    BY <2>2, <1>1 DEF Job
  <2>4. UNCHANGED <<mode, running, alive>>
    BY <1>8 DEF Sentinel, WriteInitial
  <2> HIDE DEF y
  <2>5. QED
    BY <2>2, <2>3, <2>4, <1>1, <1>2 DEF Holding
<1>9. CASE Spawn(t)
  <2> DEFINE y == [me EXCEPT !.at = "record", !.pid = spawned + 1, !.tries = @ + 1]
  <2>1. /\ y.at = "record" /\ y.pid = spawned + 1 /\ p \notin alive
        /\ UNCHANGED <<mode, running>> /\ mode # "down" /\ alive' = alive \union {spawned + 1}
    BY <1>1, <1>9 DEF Spawn, At, Holding, Job, ThreadLane
  <2>2. \A z \in Proc : proc'[z] = IF z = t THEN y ELSE proc[z]
    BY <1>1, <1>9 DEF Spawn, Become
  <2> HIDE DEF y
  <2>3. \A u \in Thread : u # t => proc'[u] = proc[u] /\ proc[u].pid # spawned + 1
    <3>1. \A u \in Thread : u \in Proc /\ proc[u] \in Job /\ proc[u].pid <= spawned
      BY Unfold, Processes DEF Sound
    <3>2. QED
      BY <3>1, <2>2, <1>1 DEF Job
  <2>4. proc'[t] = y
    BY <2>2, <1>1
  <2>5. HandsFree'
    BY <2>1, <2>3, <2>4 DEF Own, HandsFree, Holding
  <2>6. NoOrphanHost'
    BY <2>1, <2>3, <2>4 DEF Own, NoOrphanHost
  <2>7. QED
    BY <2>1, <2>5, <2>6 DEF Own
<1>10. CASE BecomesReady(t)
  <2>1. \A r : /\ Swap(me, r, "ready", "insert").pid = p
               /\ Holding(Swap(me, r, "ready", "insert"))
    BY <1>1 DEF Swap, Job, Holding
  <2>2. UNCHANGED <<mode, running, alive>>
    BY <1>10 DEF BecomesReady
  <2>3. QED
    BY <2>1, <2>2, <1>2, <1>10 DEF BecomesReady
<1>11. ASSUME NEW verdict \in {"crashed", "stopped"}, Aborts(t, verdict) PROVE Own'
  <2>1. \A r, then : Swap(me, r, verdict, then).pid = p
    BY <1>1 DEF Swap, Job
  <2>2. alive' = alive \ {p} /\ UNCHANGED <<mode, running>>
    BY <1>11 DEF Aborts
  <2>3. QED
    BY <2>1, <2>2, <1>2, <1>11 DEF Aborts
<1>12. CASE Insert(t)
  <2>1. /\ p \in Pid /\ p \in Proc /\ p # t
    <3>1. p # 0 /\ p \in 0..MaxPid
      BY <1>1, <1>12 DEF Insert, At, ThreadLane, Job
    <3>2. QED
      BY <3>1, <1>1, Processes DEF Pid
  <2>2. proc'[t] = Finished(me) /\ \A u \in Thread : u # t => proc'[u] = proc[u]
    BY <1>1, <1>12, <2>1, Processes DEF Insert
  <2>3. /\ running' = p /\ alive' = alive \ ({running} \ {p}) /\ mode' = mode
        /\ mode # "down"
    BY <1>12 DEF Insert, At
  <2>4. HandsFree'
    BY <2>2, <2>3, <1>1, <1>3 DEF Own, HandsFree, Holding
  <2>5. NoOrphanHost'
    BY <2>2, <2>3 DEF Own, NoOrphanHost
  <2>6. QED
    BY <2>3, <2>4, <2>5 DEF Own
<1>13. QED
  BY <1>4, <1>5, <1>6, <1>7, <1>8, <1>9, <1>10, <1>11, <1>12 DEF ThreadStep

\* Watchers hold no host.
LEMMA OwnStep == ASSUME AtHome PROVE HostInv /\ Own /\ [Next]_vars => Own'
<1> SUFFICES ASSUME HostInv, Own, [Next]_vars PROVE Own'
  OBVIOUS
<1>1. ASSUME NEW t \in Thread, NEW kind \in Tasks \union Rpcs, Call(t, kind) PROVE Own'
  <2> DEFINE x == [Idle EXCEPT !.rest = Plan[kind]]
  <2>1. Finished(x).pid = 0 /\ 0 \notin alive
    BY Unfold DEF Finished, Idle
  <2>2. proc[t].pid \notin alive /\ t \in Proc
    BY <1>1, Unfold DEF Own, HandsFree, Holding, Call, At, ThreadLane
  <2> HIDE DEF x
  <2>3. QED
    BY <2>1, <2>2, <1>1, KeepsHosts DEF Call, x
<1>2. ASSUME NEW w \in Pid, WatcherStep(w) PROVE Own'
  <2>1. w \in Proc /\ w \notin Thread
    BY Processes
  <2>2. (\E y : Become(w, y)) /\ UNCHANGED <<mode, running, alive>>
    BY <1>2 DEF WatcherStep, Look, ProbeUrl, Reread
  <2>3. QED
    BY <2>1, <2>2, KeepsHosts
<1>3. ASSUME UNCHANGED <<proc, mode, running>>, alive' \subseteq alive PROVE Own'
  BY <1>3 DEF Own, HandsFree, NoOrphanHost, Holding
<1>4. ASSUME NEW p \in Pid, HostDies(p) \/ \E whose \in Recycled : PidRecycled(p, whose)
      PROVE  Own'
  BY <1>3, <1>4 DEF HostDies, PidRecycled
<1>5. CASE Crash
  <2>1. DaemonEnds({})
    BY <1>5 DEF Crash, AtHome
  <2>2. alive' = {} /\ mode' = "down"
    BY <2>1 DEF DaemonEnds
  <2>3. QED
    BY <2>2 DEF Own, HandsFree, NoOrphanHost
<1>6. CASE Shutdown \/ ShutdownEnds
  BY <1>6 DEF Shutdown, ShutdownEnds, AtHome, Own
<1>7. CASE Boot
  BY <1>7 DEF Boot, Own, HandsFree, NoOrphanHost, Holding
<1>8. CASE UNCHANGED vars
  BY <1>3, <1>8 DEF vars
<1>9. QED
  BY <1>1, <1>2, <1>4, <1>5, <1>6, <1>7, <1>8, ThreadKeepsHosts, SwapKeepsHosts DEF Next

\* Nothing forgets a handle: as long as the daemon does not die alone, every
\* live host is in the running map or in the hands of a starting or a
\* stopping thread, whichever tasks, synchronous calls and watchers interleave.
THEOREM NoOrphanHostHolds == ASSUME AtHome PROVE Spec => []NoOrphanHost
<1>1. Init => HostInv /\ Own
  <2> SUFFICES ASSUME Init PROVE HostInv /\ Own
    OBVIOUS
  <2>1. HostInv
    BY HostInit
  <2>2. QED
    BY <2>1 DEF Init, Own, HandsFree, NoOrphanHost
<1>2. HostInv /\ Own /\ [Next]_vars => (HostInv /\ Own)'
  BY HostStep, OwnStep
<1>3. HostInv /\ Own => NoOrphanHost
  BY DEF Own
<1>4. QED
  BY <1>1, <1>2, <1>3, PTL DEF Spec
-----------------------------------------------------------------------------
(* The container's lock: one task at a time, and nobody calls around it. *)

\* No synchronous call is made: only tasks, which the lock serialises, act.
TasksAlone == Rpcs = {}

\* The stages of a start that has found no host of its own in the map.
Starting(x) ==
  \/ x.at \in {"sentinel", "spawn", "record", "probe", "retry", "insert"}
  \/ x.at \in {"compare", "write"} /\ x.then \in {"insert", "retry"}

\* The one thread that acts starts a host only where the map has none alive,
\* and kills the one it took out of the map.
Alone ==
  /\ proc[Rpc].at = "idle" /\ proc[Rpc].pid = 0
  /\ Starting(proc[Task]) => running \notin alive
  /\ proc[Task].at = "kill" => running = 0

LEMMA TaskMoves ==
  ASSUME HostInv, Alone, NEW y, Become(Task, y),
         Starting(y) => running' \notin alive', y.at = "kill" => running' = 0
  PROVE  Alone'
<1>1. \A z \in Proc : proc'[z] = IF z = Task THEN y ELSE proc[z]
  BY Unfold DEF Become
<1>2. Task # Rpc /\ Task \in Proc /\ Rpc \in Proc
  BY Processes DEF Task, Rpc
<1>3. proc'[Task] = y /\ proc'[Rpc] = proc[Rpc]
  BY <1>1, <1>2
<1>4. QED
  BY <1>3 DEF Alone, Starting

\* A swap leads a start on, and nothing else into one.
LEMMA SettledStarts ==
  ASSUME NEW x \in Job
  PROVE  /\ Settled(x).at # "kill"
         /\ Starting(Settled(x)) => x.then \in {"insert", "retry"}
<1>1. CASE x.then \in {"idle", "done"}
  <2>1. Settled(x).at \in {"idle", "take", "drop", "enter", "erase"}
    BY <1>1, Jobs DEF Settled, Idle
  <2>2. QED
    BY <2>1 DEF Starting
<1>2. CASE x.then \notin {"idle", "done"}
  <2>1. Settled(x) = [x EXCEPT !.at = x.then, !.snap = NoFile, !.disk = NoFile,
                               !.verdict = "none", !.then = "idle"]
    BY <1>2 DEF Settled
  <2>2. Settled(x).at = x.then /\ x.then \in {"insert", "retry", "reread"}
    BY <2>1, <1>2 DEF Job
  <2>3. QED
    BY <2>2 DEF Starting
<1>3. QED
  BY <1>1, <1>2

LEMMA TaskStaysAlone ==
  ASSUME HostInv, Own, Alone, ThreadStep(Task) \/ Compare(Task) \/ Write(Task)
  PROVE  Alone'
<1> DEFINE me == proc[Task]
           p == me.pid
<1>1. /\ me \in Job /\ running \in 0..spawned /\ spawned \in Nat /\ ThreadLane(me)
      /\ Finished(me).at \in {"idle", "take", "drop", "enter", "erase"}
  BY Unfold, Processes, Jobs
<1>2. ASSUME NEW y, Become(Task, y), y.at \in {"idle", "take", "clear", "drop", "enter", "erase"}
      PROVE  Alone'
  BY <1>2, TaskMoves DEF Starting
<1>3. ASSUME NEW y, Become(Task, y), Starting(me), y.at # "kill",
             running' = running, alive' \subseteq alive
      PROVE  Alone'
  BY <1>3, TaskMoves DEF Alone
<1>4. CASE Take(Task)
  <2> DEFINE y == [me EXCEPT !.at = "kill", !.pid = running]
  <2>1. Become(Task, y) /\ y.at = "kill" /\ running' = 0
    BY <1>1, <1>4 DEF Take, Job
  <2> HIDE DEF y
  <2>2. QED
    BY <2>1, TaskMoves DEF Starting
<1>5. CASE Kill(Task)
  <2> DEFINE y == [me EXCEPT !.at = "clear", !.pid = 0]
  <2>1. Become(Task, y) /\ y.at = "clear"
    BY <1>1, <1>5 DEF Kill, Job
  <2> HIDE DEF y
  <2>2. QED
    BY <2>1, <1>2
<1>6. CASE Clear(Task)
  <2> DEFINE y == Swap(me, file, "stopped", "done")
  <2>1. y.at = "compare" /\ y.then = "done"
    BY <1>1 DEF Swap, Job
  <2>2. Become(Task, y) => Alone'
    <3> HIDE DEF y
    <3>1. QED
      BY <2>1, TaskMoves DEF Starting
  <2>3. QED
    BY <2>2, <1>1, <1>2, <1>6 DEF Clear
<1>7. CASE DropRecord(Task) \/ Erase(Task) \/ GiveUp(Task)
  BY <1>1, <1>2, <1>7 DEF DropRecord, Erase, GiveUp, Idle
<1>8. CASE Enter(Task)
  <2>1. CASE dir # "full" \/ running \in alive
    BY <2>1, <1>1, <1>2, <1>8 DEF Enter, Idle
  <2>2. CASE dir = "full" /\ running \notin alive
    <3> DEFINE y == [me EXCEPT !.at = "sentinel"]
    <3>1. Become(Task, y) /\ y.at = "sentinel" /\ running' \notin alive'
      BY <2>2, <1>1, <1>8 DEF Enter, Job
    <3> HIDE DEF y
    <3>2. QED
      BY <3>1, TaskMoves
  <2>3. QED
    BY <2>1, <2>2
<1>9. CASE Sentinel(Task) \/ WriteInitial(Task)
  <2>1. PICK stage \in {"spawn", "probe"} : Become(Task, [me EXCEPT !.at = stage])
    BY <1>9 DEF Sentinel, WriteInitial, Go, Become
  <2> DEFINE y == [me EXCEPT !.at = stage]
  <2>2. Become(Task, y) /\ y.at = stage
    BY <2>1, <1>1 DEF Job
  <2>3. Starting(me) /\ running' = running /\ alive' = alive
    BY <1>9 DEF Sentinel, WriteInitial, At, Starting
  <2> HIDE DEF y
  <2>4. QED
    BY <2>2, <2>3, <1>3
<1>10. CASE Spawn(Task)
  <2> DEFINE y == [me EXCEPT !.at = "record", !.pid = spawned + 1, !.tries = @ + 1]
  <2>1. /\ Become(Task, y) /\ y.at = "record" /\ running \notin alive
        /\ running' = running /\ alive' = alive \union {spawned + 1}
    BY <1>1, <1>10 DEF Spawn, At, Starting, Alone, Job
  <2>2. running # spawned + 1
    BY <1>1
  <2> HIDE DEF y
  <2>3. QED
    BY <2>1, <2>2, TaskMoves
<1>11. CASE BecomesReady(Task) \/ Aborts(Task, "crashed") \/ Aborts(Task, "stopped")
  <2>1. Starting(me) /\ running' = running /\ alive' \subseteq alive
    BY <1>11 DEF BecomesReady, Aborts, At, Starting
  <2>2. \A r, v, then : Swap(me, r, v, then).at = "compare"
    BY <1>1 DEF Swap, Job
  <2>3. \E r, v, then : Become(Task, Swap(me, r, v, then))
    BY <1>11 DEF BecomesReady, Aborts
  <2>4. QED
    BY <2>1, <2>2, <2>3, <1>3
<1>12. CASE Retry(Task)
  <2> DEFINE y == [me EXCEPT !.at = "spawn", !.pid = 0]
  <2>1. y.at = "spawn" /\ Starting(me) /\ running' = running /\ alive' = alive
    BY <1>1, <1>12 DEF Retry, At, Starting, Job
  <2>2. Become(Task, y) \/ Become(Task, Idle)
    BY <1>12 DEF Retry
  <2> HIDE DEF y
  <2>3. QED
    BY <2>1, <2>2, <1>2, <1>3 DEF Idle
<1>13. CASE Insert(Task)
  <2>1. p \in Pid
    BY <1>1, <1>13 DEF Insert, At, ThreadLane, Job, Pid
  <2>2. proc'[Task] = Finished(me) /\ proc'[Rpc] = proc[Rpc]
    BY <2>1, <1>13, Unfold, Processes DEF Insert, Task, Rpc
  <2>3. QED
    BY <2>2, <1>1 DEF Alone, Starting
<1>14. CASE Compare(Task) \/ Write(Task)
  <2>1. me.at \in {"compare", "write"} /\ UNCHANGED <<running, alive>>
    BY <1>14 DEF Compare, Write, At
  <2>2. CASE Become(Task, Settled(me))
    <3>1. Starting(Settled(me)) => Starting(me)
      BY <2>1, <1>1, SettledStarts DEF Starting
    <3>2. QED
      BY <2>1, <2>2, <3>1, <1>1, SettledStarts, TaskMoves DEF Alone
  <2>3. CASE ~Become(Task, Settled(me))
    <3> DEFINE disk == IF file = NoFile THEN me.snap ELSE file
               y == [me EXCEPT !.at = "write", !.snap = NoFile, !.disk = disk]
    <3>1. Become(Task, y)
      BY <2>3, <1>14 DEF Compare, Write
    <3>2. y.at = "write" /\ y.then = me.then
      BY <1>1 DEF Job
    <3> HIDE DEF y
    <3>3. Starting(y) => Starting(me)
      BY <2>1, <3>2 DEF Starting
    <3>4. QED
      BY <2>1, <3>1, <3>2, <3>3, TaskMoves DEF Alone
  <2>4. QED
    BY <2>2, <2>3
<1>15. QED
  BY <1>4, <1>5, <1>6, <1>7, <1>8, <1>9, <1>10, <1>11, <1>12, <1>13, <1>14 DEF ThreadStep

\* Nothing is done on the connection's thread.
LEMMA RpcRests ==
  ASSUME TasksAlone, Alone
  PROVE  /\ ~ThreadStep(Rpc) /\ ~Compare(Rpc) /\ ~Write(Rpc)
         /\ \A kind : ~Call(Rpc, kind)
<1>1. ~Compare(Rpc) /\ ~Write(Rpc) /\ \A kind : ~Call(Rpc, kind)
  BY DEF Alone, Compare, Write, At, Call, TasksAlone, Rpc, Task
<1>2. ~ThreadStep(Rpc)
  BY DEF Alone, ThreadStep, Take, Kill, Clear, DropRecord, Erase, Enter, Sentinel, GiveUp,
         Spawn, WriteInitial, BecomesReady, Aborts, Retry, Insert, At
<1>3. QED
  BY <1>1, <1>2

\* A watcher moves, and nothing but its own doings and the record changes.
LEMMA WatcherAlone ==
  ASSUME HostInv, NEW w \in Pid, WatcherStep(w) \/ Compare(w) \/ Write(w)
  PROVE  /\ UNCHANGED <<mode, running, alive, spawned, recycled>>
         /\ \A x \in Proc : x # w => proc'[x] = proc[x]
         /\ Task \in Proc /\ Task # w /\ Rpc \in Proc /\ Rpc # w
<1>1. UNCHANGED <<mode, running, alive, spawned, recycled>>
  BY DEF WatcherStep, Look, ProbeUrl, Reread, Compare, Write
<1>2. \E y : Become(w, y)
  <2>1. CASE WatcherStep(w)
    BY <2>1 DEF WatcherStep, Look, ProbeUrl, Reread
  <2>2. CASE Compare(w)
    BY <2>2 DEF Compare
  <2>3. CASE Write(w)
    BY <2>3 DEF Write
  <2>4. QED
    BY <2>1, <2>2, <2>3
<1>3. PICK y : proc' = [proc EXCEPT ![w] = y]
  BY <1>2 DEF Become
<1>4. proc \in [Proc -> Job] /\ w \in Proc
  BY Unfold
<1>5. Task \in Proc /\ Task # w /\ Rpc \in Proc /\ Rpc # w
  BY Processes
<1>6. QED
  BY <1>1, <1>3, <1>4, <1>5

LEMMA AloneStep ==
  ASSUME AtHome, TasksAlone PROVE HostInv /\ Own /\ Alone /\ [Next]_vars => Alone'
<1> SUFFICES ASSUME HostInv, Own, Alone, [Next]_vars PROVE Alone'
  OBVIOUS
<1>1. ASSUME NEW t \in Thread, NEW kind \in Tasks \union Rpcs, Call(t, kind) PROVE Alone'
  <2> DEFINE x == [Idle EXCEPT !.rest = Plan[kind]]
  <2>1. t = Task
    BY <1>1, RpcRests DEF Thread
  <2>2. Plan[kind] \in Seq({"take", "drop", "enter", "erase"})
    <3>1. kind \in {"start", "stop", "restart", "rebuild", "delete"}
      BY HostAssumption
    <3>2. CASE kind = "start"
      BY <3>2 DEF Plan
    <3>3. CASE kind = "stop"
      BY <3>3 DEF Plan
    <3>4. CASE kind = "rebuild"
      BY <3>4 DEF Plan
    <3>5. CASE kind = "restart"
      BY <3>5 DEF Plan
    <3>6. CASE kind = "delete"
      BY <3>6 DEF Plan
    <3>7. QED
      BY <3>1, <3>2, <3>3, <3>4, <3>5, <3>6
  <2>3. x \in Job
    BY <2>2, Jobs DEF Idle, Job
  <2>4. Finished(x).at \in {"idle", "take", "drop", "enter", "erase"}
    BY <2>3, Jobs
  <2>5. Become(Task, Finished(x))
    BY <1>1, <2>1 DEF Call
  <2> HIDE DEF x
  <2>6. QED
    BY <2>4, <2>5, TaskMoves DEF Starting
<1>2. ASSUME NEW t \in Thread, ThreadStep(t) PROVE Alone'
  BY <1>2, RpcRests, TaskStaysAlone DEF Thread
<1>3. ASSUME NEW w \in Pid, WatcherStep(w) \/ Compare(w) \/ Write(w) PROVE Alone'
  BY <1>3, WatcherAlone DEF Alone, Starting
<1>4. ASSUME NEW x \in Proc, Compare(x) \/ Write(x) PROVE Alone'
  BY <1>3, <1>4, RpcRests, TaskStaysAlone DEF Proc, Thread
<1>5. ASSUME UNCHANGED <<proc, running>>, alive' \subseteq alive PROVE Alone'
  BY <1>5 DEF Alone, Starting
<1>6. ASSUME NEW p \in Pid, HostDies(p) \/ \E whose \in Recycled : PidRecycled(p, whose)
      PROVE  Alone'
  BY <1>5, <1>6 DEF HostDies, PidRecycled
<1>7. CASE Crash
  <2>1. DaemonEnds({})
    BY <1>7 DEF Crash, AtHome
  <2>2. proc'[Task] = Idle /\ proc'[Rpc] = Idle
    BY <2>1, Processes DEF DaemonEnds
  <2>3. QED
    BY <2>2 DEF Alone, Starting, Idle
<1>8. ~Shutdown /\ ~ShutdownEnds
  BY DEF Shutdown, ShutdownEnds, AtHome, Own
<1>9. CASE Boot
  BY <1>5, <1>9 DEF Boot
<1>10. CASE UNCHANGED vars
  BY <1>5, <1>10 DEF vars
<1>11. QED
  BY <1>1, <1>2, <1>3, <1>4, <1>6, <1>7, <1>8, <1>9, <1>10 DEF Next

LEMMA AloneInit == Init => Own /\ Alone
<1> SUFFICES ASSUME Init PROVE Own /\ Alone
  OBVIOUS
<1>1. proc[Task] = Idle /\ proc[Rpc] = Idle /\ alive = {} /\ mode = "up"
  BY Processes DEF Init
<1>2. QED
  BY <1>1 DEF Alone, Starting, Idle, Own, HandsFree, NoOrphanHost

\* The live host is the map's, or the task's that starts or stops it.
LEMMA Holders ==
  ASSUME HostInv, Own, Alone
  PROVE  IF Holding(proc[Task]) THEN alive \subseteq {proc[Task].pid}
         ELSE alive \subseteq {running}
<1>1. CASE mode = "down"
  BY <1>1 DEF Own
<1>2. CASE mode # "down"
  <2>1. \A q \in alive : q # 0
    BY Unfold
  <2>2. \A q \in alive : q = running \/ q = proc[Task].pid
    BY <1>2, <2>1 DEF Own, NoOrphanHost, Alone, Thread
  <2>3. Holding(proc[Task]) => running \notin alive
    BY <2>1 DEF Alone, Holding, Starting
  <2>4. Holding(proc[Task]) \/ proc[Task].pid \notin alive
    BY DEF Own, HandsFree, Thread
  <2>5. QED
    BY <2>2, <2>3, <2>4
<1>3. QED
  BY <1>1, <1>2

\* The container's lock does what it is there for: as long as its tasks alone
\* act on it, and the daemon does not die alone, it never has two hosts.
THEOREM OneHostHolds == ASSUME AtHome, TasksAlone PROVE Spec => []OneHost
<1>1. Init => HostInv /\ Own /\ Alone
  BY HostInit, AloneInit
<1>2. HostInv /\ Own /\ Alone /\ [Next]_vars => (HostInv /\ Own /\ Alone)'
  BY HostStep, OwnStep, AloneStep
<1>3. HostInv /\ Own /\ Alone => OneHost
  <2> SUFFICES ASSUME HostInv, Own, Alone PROVE OneHost
    OBVIOUS
  <2>1. PICK p : alive \subseteq {p}
    BY Holders
  <2>2. alive = {} \/ alive = {p}
    BY <2>1
  <2>3. Cardinality({}) = 0 /\ Cardinality({p}) = 1
    BY FS_EmptySet, FS_Singleton
  <2>4. QED
    BY <2>2, <2>3 DEF OneHost
<1>4. QED
  BY <1>1, <1>2, <1>3, PTL DEF Spec
-----------------------------------------------------------------------------
(* Stopped means gone. *)

\* A record names a process spawned by now, and a dead one if it says Stopped.
Gone(r) == r.pid <= spawned /\ (r.state = "stopped" => r.pid \notin alive)

\* The task is on its way to write Stopped.
Stopping(x) == \/ x.at = "clear"
               \/ x.at \in {"compare", "write"} /\ x.verdict = "stopped"

\* Every record about, in the file and in the hands of those who will swap it,
\* tells the truth about Stopped; who will write Stopped has seen the last
\* host die, and only the task writes it.
StoppedInv ==
  /\ Gone(file) /\ \A x \in Proc : Gone(proc[x].snap) /\ Gone(proc[x].disk)
  /\ Stopping(proc[Task]) => alive = {}
  /\ \A w \in Pid : proc[w].verdict # "stopped"

LEMMA RecordMoves ==
  ASSUME HostInv, StoppedInv, NEW x \in Proc, NEW y, Become(x, y),
         alive' \subseteq alive, spawned' = spawned, (Gone(file))',
         Gone(y.snap), Gone(y.disk), x = Task /\ Stopping(y) => alive' = {},
         x \in Pid => y.verdict # "stopped"
  PROVE  StoppedInv'
<1>1. \A z \in Proc : proc'[z] = IF z = x THEN y ELSE proc[z]
  BY Unfold DEF Become
<1>2. \A z \in Proc : (Gone(proc[z].snap) /\ Gone(proc[z].disk))'
  BY <1>1 DEF StoppedInv, Gone
<1>3. (Stopping(proc[Task]) => alive = {})'
  BY <1>1, Processes DEF StoppedInv, Stopping
<1>4. (\A w \in Pid : proc[w].verdict # "stopped")'
  BY <1>1, Processes DEF StoppedInv
<1>5. QED
  BY <1>2, <1>3, <1>4 DEF StoppedInv

\* Hosts die, or nothing moves.
LEMMA RecordsRest ==
  ASSUME StoppedInv, UNCHANGED <<proc, spawned>>, alive' \subseteq alive, (Gone(file))'
  PROVE  StoppedInv'
BY DEF StoppedInv, Gone, Stopping

LEMMA Truthful ==
  ASSUME HostInv
  PROVE  /\ Gone(NoFile) /\ Gone(Corrupted)
         /\ \A p \in 0..spawned : Gone(Initial(p))
         /\ Idle.snap = NoFile /\ Idle.disk = NoFile /\ Idle.verdict = "none" /\ ~Stopping(Idle)
         /\ \A x \in Job : /\ Finished(x).snap = NoFile /\ Finished(x).disk = NoFile
                           /\ Finished(x).verdict = "none" /\ ~Stopping(Finished(x))
<1>1. spawned \in Nat /\ 0 \notin alive
  BY Unfold
<1>2. /\ Gone(NoFile) /\ Gone(Corrupted) /\ \A p \in 0..spawned : Gone(Initial(p))
  BY <1>1 DEF Gone, NoFile, Corrupted, Initial
<1>3. Idle.snap = NoFile /\ Idle.disk = NoFile /\ Idle.verdict = "none" /\ ~Stopping(Idle)
  BY DEF Idle, Stopping
<1>4. ASSUME NEW x \in Job
      PROVE  /\ Finished(x).snap = NoFile /\ Finished(x).disk = NoFile
             /\ Finished(x).verdict = "none" /\ ~Stopping(Finished(x))
  <2>1. Finished(x).snap = NoFile /\ Finished(x).disk = NoFile /\ Finished(x).verdict = "none"
    BY <1>3 DEF Finished, Idle
  <2>2. QED
    BY <2>1, Jobs DEF Stopping
<1>5. QED
  BY <1>2, <1>3, <1>4

\* Nothing is left of the records of a settled swap.
LEMMA SettledForgets ==
  ASSUME HostInv, NEW x \in Job
  PROVE  /\ Settled(x).snap = NoFile /\ Settled(x).disk = NoFile
         /\ Settled(x).verdict = "none" /\ ~Stopping(Settled(x))
<1>1. CASE x.then \in {"idle", "done"}
  BY <1>1, Truthful DEF Settled
<1>2. CASE x.then \notin {"idle", "done"}
  <2>1. Settled(x) = [x EXCEPT !.at = x.then, !.snap = NoFile, !.disk = NoFile,
                               !.verdict = "none", !.then = "idle"]
    BY <1>2 DEF Settled
  <2>2. /\ Settled(x).snap = NoFile /\ Settled(x).disk = NoFile
        /\ Settled(x).verdict = "none" /\ Settled(x).at = x.then
        /\ x.then \in {"insert", "retry", "reread"}
    BY <2>1, <1>2 DEF Job
  <2>3. QED
    BY <2>2 DEF Stopping
<1>3. QED
  BY <1>1, <1>2

\* Only a Stopped verdict makes a record say Stopped that did not.
LEMMA MutatedTruthful ==
  ASSUME NEW r \in Record, Gone(r), NEW verdict \in Verdicts \union {"orphaned"}
  PROVE  /\ Mutated(verdict, r).pid = r.pid
         /\ Mutated(verdict, r).state = "stopped" => r.state = "stopped" \/ verdict = "stopped"
<1>1. CASE verdict = "healthy"
  BY <1>1 DEF Mutated, Record
<1>2. CASE verdict = "unhealthy"
  BY <1>2 DEF Mutated, Record
<1>3. CASE verdict \notin {"healthy", "unhealthy"}
  BY <1>3 DEF Mutated, Record
<1>4. QED
  BY <1>1, <1>2, <1>3

LEMMA SwapStaysTrue ==
  ASSUME HostInv, Own, Alone, StoppedInv, NEW x \in Proc, x # Rpc, Compare(x) \/ Write(x)
  PROVE  StoppedInv'
<1> DEFINE me == proc[x]
           disk == IF file = NoFile THEN me.snap ELSE file
           y == [me EXCEPT !.at = "write", !.snap = NoFile, !.disk = disk]
<1>1. /\ me \in Job /\ Sound(me) /\ UNCHANGED <<alive, spawned>>
      /\ x = Task \/ x \in Pid
  BY Unfold DEF Compare, Write, Proc, Thread
<1>2. CASE Become(x, Settled(me)) /\ (Gone(file))'
  BY <1>1, <1>2, SettledForgets, Truthful, RecordMoves
<1>3. CASE Compare(x)
  <2>1. (Gone(file))' /\ Gone(disk) /\ Gone(NoFile)
    BY <1>1, <1>3, Truthful DEF Compare, StoppedInv, Gone
  <2>2. Become(x, Settled(me)) \/ Become(x, y)
    BY <1>3 DEF Compare
  <2>3. y.at = "write" /\ y.snap = NoFile /\ y.disk = disk /\ y.verdict = me.verdict
    BY <1>1 DEF Job
  <2>4. Stopping(y) => Stopping(me)
    BY <1>3, <2>3 DEF Compare, At, Stopping
  <2> HIDE DEF y, disk
  <2>5. QED
    BY <1>1, <1>2, <2>1, <2>2, <2>3, <2>4, RecordMoves DEF StoppedInv
<1>4. CASE Write(x)
  <2>1. /\ me.at = "write" /\ me.disk \in Record /\ Gone(me.disk)
        /\ me.verdict \in Verdicts /\ file' = Mutated(me.verdict, me.disk)
    BY <1>1, <1>4 DEF Write, At, Sound, Job, StoppedInv
  <2>2. me.verdict = "stopped" => alive = {}
    BY <1>1, <2>1 DEF StoppedInv, Stopping
  <2>3. (Gone(file))'
    BY <1>1, <2>1, <2>2, MutatedTruthful DEF Gone
  <2>4. QED
    BY <1>2, <1>4, <2>3 DEF Write
<1>5. QED
  BY <1>3, <1>4

LEMMA TaskStaysTrue ==
  ASSUME HostInv, Own, Alone, StoppedInv, ThreadStep(Task)
  PROVE  StoppedInv'
<1> DEFINE me == proc[Task]
           p == me.pid
<1>1. /\ Task \in Proc /\ Task \notin Pid /\ me \in Job /\ Sound(me) /\ ThreadLane(me)
      /\ p \in 0..spawned /\ spawned \in Nat /\ Gone(me.snap) /\ Gone(me.disk) /\ Gone(file)
  <2>1. Task \in Proc /\ Task \notin Pid /\ me \in Job /\ Sound(me) /\ ThreadLane(me)
    BY Unfold, Processes
  <2>2. spawned \in Nat
    BY Unfold
  <2>3. p \in Nat /\ p <= spawned
    BY <2>1 DEF Sound, Job
  <2>4. QED
    BY <2>1, <2>2, <2>3 DEF StoppedInv
<1>2. ASSUME NEW y, Become(Task, y), y.snap \in {me.snap, NoFile}, y.disk \in {me.disk, NoFile},
             alive' \subseteq alive, spawned' = spawned, (Gone(file))', ~Stopping(y)
      PROVE  StoppedInv'
  BY <1>1, <1>2, RecordMoves, Truthful
<1>3. alive' \subseteq alive /\ spawned' = spawned /\ file' = file => (Gone(file))'
  BY <1>1 DEF Gone
<1>4. CASE Take(Task)
  <2> DEFINE y == [me EXCEPT !.at = "kill", !.pid = running]
  <2>1. Become(Task, y) /\ y.snap = me.snap /\ y.disk = me.disk /\ y.at = "kill"
        /\ UNCHANGED <<file, alive, spawned>>
    BY <1>1, <1>4 DEF Take, Job
  <2> HIDE DEF y
  <2>2. QED
    BY <2>1, <1>2, <1>3 DEF Stopping
<1>5. CASE Kill(Task)
  <2> DEFINE y == [me EXCEPT !.at = "clear", !.pid = 0]
  <2>1. /\ Become(Task, y) /\ y.snap = me.snap /\ y.disk = me.disk
        /\ UNCHANGED <<file, spawned>> /\ alive' = alive \ {p} /\ me.at = "kill"
    BY <1>1, <1>5 DEF Kill, At, Job
  <2>2. alive' = {}
    BY <2>1, Holders DEF Holding
  <2> HIDE DEF y
  <2>3. QED
    BY <2>1, <2>2, <1>1, <1>3, RecordMoves
<1>6. CASE Clear(Task)
  <2> DEFINE y == Swap(me, file, "stopped", "done")
  <2>1. y.snap = file /\ y.disk = me.disk
    BY <1>1 DEF Swap, Job
  <2>2. alive = {} /\ UNCHANGED <<file, alive, spawned>>
    BY <1>6 DEF Clear, At, StoppedInv, Stopping
  <2>3. Become(Task, y) => StoppedInv'
    <3> HIDE DEF y
    <3>1. QED
      BY <2>1, <2>2, <1>1, <1>3, RecordMoves
  <2>4. Become(Task, Finished(me)) => StoppedInv'
    BY <2>2, <1>1, <1>2, <1>3, Truthful
  <2>5. QED
    BY <2>3, <2>4, <1>6 DEF Clear
<1>7. CASE DropRecord(Task) \/ Erase(Task)
  <2>1. file' = NoFile /\ UNCHANGED <<alive, spawned>>
    BY <1>7 DEF DropRecord, Erase
  <2>2. (Gone(file))'
    BY <2>1, Truthful DEF Gone
  <2>3. QED
    BY <2>1, <2>2, <1>1, <1>2, <1>7, Truthful DEF DropRecord, Erase
<1>8. CASE Enter(Task) \/ GiveUp(Task)
  <2> DEFINE y == [me EXCEPT !.at = "sentinel"]
  <2>1. y.snap = me.snap /\ y.disk = me.disk /\ ~Stopping(y)
    BY <1>1 DEF Job, Stopping
  <2>2. UNCHANGED <<file, alive, spawned>>
    BY <1>8 DEF Enter, GiveUp
  <2>3. Become(Task, Idle) \/ Become(Task, Finished(me)) \/ Become(Task, y)
    BY <1>8 DEF Enter, GiveUp
  <2> HIDE DEF y
  <2>4. QED
    BY <2>1, <2>2, <2>3, <1>1, <1>2, <1>3, Truthful
<1>9. CASE Sentinel(Task) \/ WriteInitial(Task)
  <2>1. PICK stage \in {"spawn", "probe"} : Become(Task, [me EXCEPT !.at = stage])
    BY <1>9 DEF Sentinel, WriteInitial, Go, Become
  <2> DEFINE y == [me EXCEPT !.at = stage]
  <2>2. Become(Task, y) /\ y.at = stage /\ y.snap = me.snap /\ y.disk = me.disk
    BY <2>1, <1>1 DEF Job
  <2>3. file' \in {Corrupted, Initial(p)} /\ alive' = alive /\ spawned' = spawned
    BY <1>9 DEF Sentinel, WriteInitial
  <2>4. (Gone(file))'
    BY <2>3, <1>1, Truthful DEF Gone
  <2> HIDE DEF y
  <2>5. QED
    BY <2>2, <2>3, <2>4, <1>2 DEF Stopping
<1>10. CASE Spawn(Task)
  <2> DEFINE y == [me EXCEPT !.at = "record", !.pid = spawned + 1, !.tries = @ + 1]
  <2>1. /\ Become(Task, y) /\ y.at = "record" /\ y.snap = me.snap /\ y.disk = me.disk
        /\ file' = file /\ spawned' = spawned + 1 /\ alive' = alive \union {spawned + 1}
    BY <1>1, <1>10 DEF Spawn, Job
  <2> HIDE DEF y
  <2>2. \A z \in Proc : proc'[z] = IF z = Task THEN y ELSE proc[z]
    BY <2>1, Unfold DEF Become
  <2>3. \A r \in Record \union {NoFile} : Gone(r) => r.pid <= spawned' /\ (r.state = "stopped" => r.pid \notin alive')
    <3>1. \A r \in Record \union {NoFile} : r.pid \in Nat
      BY DEF Record, NoFile
    <3>2. QED
      BY <3>1, <2>1, <1>1 DEF Gone
  <2>4. \A z \in Proc : {proc[z].snap, proc[z].disk, file} \subseteq Record \union {NoFile}
    BY Unfold DEF Job
  <2>5. \A z \in Proc : (Gone(proc[z].snap) /\ Gone(proc[z].disk))'
    BY <2>1, <2>2, <2>3, <2>4, <1>1 DEF StoppedInv, Gone
  <2>6. (Gone(file))'
    BY <2>1, <2>3, <2>4, <1>1 DEF Gone
  <2>7. ~Stopping(proc'[Task]) /\ \A w \in Pid : proc'[w].verdict # "stopped"
    BY <2>1, <2>2, <1>1, Processes DEF StoppedInv, Stopping
  <2>8. QED
    BY <2>5, <2>6, <2>7 DEF StoppedInv, Stopping
<1>11. CASE BecomesReady(Task)
  <2>1. PICK r \in {file, Initial(p)} : Become(Task, Swap(me, r, "ready", "insert"))
    BY <1>11 DEF BecomesReady
  <2> DEFINE y == Swap(me, r, "ready", "insert")
  <2>2. y.snap = r /\ y.disk = me.disk /\ y.verdict = "ready" /\ y.at = "compare"
    BY <1>1 DEF Swap, Job
  <2>3. UNCHANGED <<file, alive, spawned>> /\ Gone(r) /\ Become(Task, y)
    BY <2>1, <1>1, <1>11, Truthful DEF BecomesReady
  <2> HIDE DEF y
  <2>4. QED
    BY <2>2, <2>3, <1>1, <1>3, RecordMoves DEF Stopping
<1>12. ASSUME NEW verdict \in {"crashed", "stopped"}, Aborts(Task, verdict) PROVE StoppedInv'
  <2>1. PICK then : Become(Task, Swap(me, Initial(p), verdict, then))
    BY <1>12 DEF Aborts
  <2> DEFINE y == Swap(me, Initial(p), verdict, then)
  <2>2. y.snap = Initial(p) /\ y.disk = me.disk /\ y.verdict = verdict /\ y.at = "compare"
    BY <1>1 DEF Swap, Job
  <2>3. /\ UNCHANGED <<file, spawned>> /\ Gone(Initial(p)) /\ Become(Task, y)
        /\ alive' = alive \ {p} /\ me.at = "probe"
    BY <2>1, <1>1, <1>12, Truthful DEF Aborts, At
  <2>4. alive' = {}
    BY <2>3, Holders DEF Holding
  <2> HIDE DEF y
  <2>5. QED
    BY <2>2, <2>3, <2>4, <1>1, <1>3, RecordMoves
<1>13. CASE Retry(Task)
  <2> DEFINE y == [me EXCEPT !.at = "spawn", !.pid = 0]
  <2>1. y.snap = me.snap /\ y.disk = me.disk /\ ~Stopping(y)
    BY <1>1 DEF Job, Stopping
  <2>2. UNCHANGED <<file, alive, spawned>> /\ (Become(Task, Idle) \/ Become(Task, y))
    BY <1>13 DEF Retry
  <2> HIDE DEF y
  <2>3. QED
    BY <2>1, <2>2, <1>1, <1>2, <1>3, Truthful
<1>14. CASE Insert(Task)
  <2> DEFINE y == [Idle EXCEPT !.at = "sleep"]
  <2>1. y.snap = NoFile /\ y.disk = NoFile /\ y.verdict = "none"
    BY DEF Idle
  <2>2. p \in Pid
    BY <1>1, <1>14 DEF Insert, At, ThreadLane, Job, Pid
  <2> HIDE DEF y
  <2>3. \A z \in Proc : proc'[z] = IF z = Task THEN Finished(me) ELSE IF z = p THEN y ELSE proc[z]
    BY <2>2, <1>1, <1>14, Unfold, Processes DEF Insert, y
  <2>4. alive' \subseteq alive /\ UNCHANGED <<file, spawned>>
    BY <1>14 DEF Insert
  <2>5. \A z \in Proc : (Gone(proc[z].snap) /\ Gone(proc[z].disk))'
    BY <2>1, <2>3, <2>4, <1>1, Truthful DEF StoppedInv, Gone
  <2>6. ~Stopping(proc'[Task]) /\ \A w \in Pid : proc'[w].verdict # "stopped"
    BY <2>1, <2>3, <1>1, Truthful, Processes DEF StoppedInv
  <2>7. QED
    BY <2>4, <2>5, <2>6, <1>3 DEF StoppedInv, Stopping
<1>15. QED
  BY <1>4, <1>5, <1>6, <1>7, <1>8, <1>9, <1>10, <1>11, <1>12, <1>13, <1>14 DEF ThreadStep

LEMMA WatcherStaysTrue ==
  ASSUME HostInv, StoppedInv, NEW w \in Pid, WatcherStep(w)
  PROVE  StoppedInv'
<1> DEFINE me == proc[w]
<1>1. /\ w \in Proc /\ w # Task /\ me \in Job /\ UNCHANGED <<file, alive, spawned>>
      /\ Gone(me.snap) /\ Gone(me.disk) /\ Gone(file) /\ me.verdict # "stopped"
  BY Unfold, Processes DEF WatcherStep, Look, ProbeUrl, Reread, StoppedInv
<1>2. (Gone(file))'
  BY <1>1 DEF Gone
<1>3. ASSUME NEW y, Become(w, y), Gone(y.snap), Gone(y.disk), y.verdict # "stopped"
      PROVE  StoppedInv'
  BY <1>1, <1>2, <1>3, RecordMoves
<1>4. ASSUME NEW r, NEW verdict, NEW then, Become(w, Swap(me, r, verdict, then)),
             Gone(r), verdict # "stopped"
      PROVE  StoppedInv'
  <2> DEFINE y == Swap(me, r, verdict, then)
  <2>1. y.snap = r /\ y.disk = me.disk /\ y.verdict = verdict
    BY <1>1 DEF Swap, Job
  <2> HIDE DEF y
  <2>2. QED
    BY <2>1, <1>1, <1>3, <1>4 DEF y
<1>5. Become(w, Idle) \/ Become(w, [Idle EXCEPT !.at = "sleep"]) => StoppedInv'
  <2>1. /\ [Idle EXCEPT !.at = "sleep"].snap = NoFile /\ [Idle EXCEPT !.at = "sleep"].disk = NoFile
        /\ [Idle EXCEPT !.at = "sleep"].verdict = "none"
    BY DEF Idle
  <2>2. QED
    BY <2>1, <1>3, Truthful
<1>6. CASE Look(w)
  <2> DEFINE y == [me EXCEPT !.at = "watch", !.snap = file]
  <2>1. y.snap = file /\ y.disk = me.disk /\ y.verdict = me.verdict
    BY <1>1 DEF Job
  <2>2. \/ Become(w, Idle) \/ Become(w, Swap(me, file, "crashed", "idle")) \/ Become(w, y)
    BY <1>6 DEF Look
  <2> HIDE DEF y
  <2>3. QED
    BY <2>1, <2>2, <1>1, <1>3, <1>4, <1>5
<1>7. CASE ProbeUrl(w)
  <2> DEFINE y == [me EXCEPT !.at = "sleep", !.snap = NoFile]
  <2>1. y.snap = NoFile /\ y.disk = me.disk /\ y.verdict = me.verdict
    BY <1>1 DEF Job
  <2>2. \/ Become(w, Swap(me, me.snap, "healthy", "reread"))
        \/ Become(w, Swap(me, me.snap, "unhealthy", "reread")) \/ Become(w, y)
    BY <1>7 DEF ProbeUrl
  <2> HIDE DEF y
  <2>3. QED
    BY <2>1, <2>2, <1>1, <1>3, <1>4, Truthful
<1>8. CASE Reread(w)
  BY <1>8, <1>5 DEF Reread
<1>9. QED
  BY <1>6, <1>7, <1>8 DEF WatcherStep

LEMMA StoppedStep ==
  ASSUME AtHome, TasksAlone
  PROVE  HostInv /\ Own /\ Alone /\ StoppedInv /\ [Next]_vars => StoppedInv'
<1> SUFFICES ASSUME HostInv, Own, Alone, StoppedInv, [Next]_vars PROVE StoppedInv'
  OBVIOUS
<1>1. ASSUME NEW t \in Thread, NEW kind \in Tasks \union Rpcs, Call(t, kind) PROVE StoppedInv'
  <2> DEFINE x == [Idle EXCEPT !.rest = Plan[kind]]
  <2>1. t = Task /\ Task \in Proc /\ Task \notin Pid
    BY <1>1, RpcRests, Processes DEF Thread
  <2>2. Become(Task, Finished(x)) /\ UNCHANGED <<file, alive, spawned>>
    BY <1>1, <2>1 DEF Call
  <2>3. /\ Finished(x).snap = NoFile /\ Finished(x).disk = NoFile
        /\ Finished(x).verdict = "none"
    BY DEF Finished, Idle
  <2>4. ~Stopping(Finished(x))
    <3>1. x.rest = Plan[kind]
      BY DEF Idle
    <3>2. kind \in {"start", "stop", "restart", "rebuild", "delete"}
      BY HostAssumption
    <3>3. Plan[kind] # <<>> /\ Head(Plan[kind]) \in {"take", "enter"}
      BY <3>2 DEF Plan
    <3>4. Finished(x).at = Head(Plan[kind])
      BY <3>1, <3>3 DEF Finished, Idle
    <3>5. QED
      BY <3>3, <3>4 DEF Stopping
  <2>5. (Gone(file))'
    BY <2>2 DEF StoppedInv, Gone
  <2> HIDE DEF x
  <2>6. QED
    BY <2>1, <2>2, <2>3, <2>4, <2>5, RecordMoves, Truthful
<1>2. ASSUME NEW t \in Thread, ThreadStep(t) PROVE StoppedInv'
  BY <1>2, RpcRests, TaskStaysTrue DEF Thread
<1>3. ASSUME NEW w \in Pid, WatcherStep(w) PROVE StoppedInv'
  BY <1>3, WatcherStaysTrue
<1>4. ASSUME NEW x \in Proc, Compare(x) \/ Write(x) PROVE StoppedInv'
  BY <1>4, RpcRests, SwapStaysTrue
<1>5. ASSUME UNCHANGED <<proc, file, spawned>>, alive' \subseteq alive PROVE StoppedInv'
  <2>1. (Gone(file))'
    BY <1>5 DEF StoppedInv, Gone
  <2>2. QED
    BY <1>5, <2>1, RecordsRest
<1>6. ASSUME NEW p \in Pid, HostDies(p) \/ \E whose \in Recycled : PidRecycled(p, whose)
      PROVE  StoppedInv'
  BY <1>5, <1>6 DEF HostDies, PidRecycled
<1>7. CASE Crash
  <2>1. DaemonEnds({})
    BY <1>7 DEF Crash, AtHome
  <2>2. (\A x \in Proc : proc'[x] = Idle) /\ alive' = {} /\ UNCHANGED <<file, spawned>>
    BY <2>1 DEF DaemonEnds
  <2>3. (Gone(file))' /\ (Gone(NoFile))'
    BY <2>2, Truthful DEF StoppedInv, Gone
  <2>4. QED
    BY <2>2, <2>3, Truthful, Processes DEF StoppedInv, Gone
<1>8. ~Shutdown /\ ~ShutdownEnds
  BY DEF Shutdown, ShutdownEnds, AtHome, Own
<1>9. CASE Boot
  <2>1. UNCHANGED <<alive, spawned, proc>>
    BY <1>9 DEF Boot
  <2>2. file' \in {file, NoFile} \/ (file \in Record /\ file' = Mutated("orphaned", file))
    BY <1>9, Unfold DEF Boot, NoFile, Live
  <2>3. (Gone(file))'
    <3>1. Gone(NoFile) /\ Gone(file)
      BY Truthful DEF StoppedInv
    <3>2. file \in Record /\ file' = Mutated("orphaned", file)
            => file'.pid = file.pid /\ (file'.state = "stopped" => file.state = "stopped")
      BY <3>1, MutatedTruthful
    <3>3. QED
      BY <3>1, <3>2, <2>1, <2>2 DEF Gone
  <2>4. QED
    BY <2>1, <2>3, RecordsRest
<1>10. CASE UNCHANGED vars
  BY <1>5, <1>10 DEF vars
<1>11. QED
  BY <1>1, <1>2, <1>3, <1>4, <1>6, <1>7, <1>8, <1>9, <1>10 DEF Next

\* What stop_dsh_container leaves behind is a stopped host: under the same
\* conditions a record that says Stopped never names a live process, whatever
\* the watchers write over each other's records meanwhile.
THEOREM StoppedHasNoHostHolds == ASSUME AtHome, TasksAlone PROVE Spec => []StoppedHasNoHost
<1>1. Init => HostInv /\ Own /\ Alone /\ StoppedInv
  <2> SUFFICES ASSUME Init PROVE HostInv /\ Own /\ Alone /\ StoppedInv
    OBVIOUS
  <2>1. HostInv /\ Own /\ Alone
    BY HostInit, AloneInit
  <2>2. file = NoFile /\ \A x \in Proc : proc[x] = Idle
    BY DEF Init
  <2>3. QED
    BY <2>1, <2>2, Truthful, Processes DEF StoppedInv
<1>2. HostInv /\ Own /\ Alone /\ StoppedInv /\ [Next]_vars
        => (HostInv /\ Own /\ Alone /\ StoppedInv)'
  BY HostStep, OwnStep, AloneStep, StoppedStep
<1>3. StoppedInv => StoppedHasNoHost
  BY DEF StoppedInv, StoppedHasNoHost, Gone
<1>4. QED
  BY <1>1, <1>2, <1>3, PTL DEF Spec
-----------------------------------------------------------------------------
(* No stale Running records. *)

\* Its swap will be dropped, and nothing of its own comes after.
Doomed(x, gen) == /\ x.at = "compare" /\ x.then \in {"idle", "done", "retry"}
                  /\ x.snap.gen < gen

\* A watcher that will look at the record again, or change it.
Attentive(x, gen) == x.at # "idle" /\ ~Doomed(x, gen)

\* A thread that is about to change the record, or to start a watcher.
Tends(x, gen) == \/ x.at \in {"clear", "insert"}
                 \/ x.at \in {"compare", "write"} /\ ~Doomed(x, gen)
                 \/ x.at = "probe" /\ gen = 1

Minded == \E w \in Pid : Attentive(proc[w], file.gen)
Tending == \E t \in Thread : Tends(proc[t], file.gen)

\* The pid of the record answers, and goes on answering.
Answers(p) == ProbePid(p) = "alive" /\ ("die" \in Faults => p \notin alive)
Left == Answers(file.pid) /\ \A t \in Thread : proc[t].at # "probe"

WatcherVerdict(x) == x.at \in {"compare", "write"} =>
  IF x.then = "idle" THEN x.verdict = "crashed" ELSE x.verdict \in {"healthy", "unhealthy"}
ThreadVerdict(x) == x.at \in {"compare", "write"} =>
  IF x.then = "insert" THEN x.verdict = "ready" ELSE x.verdict \in {"stopped", "crashed"}

\* Nobody works for a daemon that is down, only what was spawned is recycled,
\* verdicts fit what follows them, and a record that claims a live host is in
\* somebody's hands, or was left by an earlier daemon with a pid that answers.
Tended ==
  /\ mode = "down" => \A x \in Proc : proc[x].at = "idle"
  /\ \A p \in Pid : recycled[p] # "no" => p <= spawned
  /\ (\A w \in Pid : WatcherVerdict(proc[w])) /\ (\A t \in Thread : ThreadVerdict(proc[t]))
  /\ mode = "up" /\ file.state \in Live => Minded \/ Tending \/ Left

LEMMA VerdictsMove ==
  ASSUME HostInv, Tended, NEW x \in Proc, NEW y, Become(x, y), mode' # "down",
         spawned' \in {spawned, spawned + 1}, recycled' = recycled,
         x \in Pid => WatcherVerdict(y), x \in Thread => ThreadVerdict(y),
         (mode = "up" /\ file.state \in Live => Minded \/ Tending \/ Left)'
  PROVE  Tended'
<1>1. \A z \in Proc : proc'[z] = IF z = x THEN y ELSE proc[z]
  BY Unfold DEF Become
<1>2. (\A w \in Pid : WatcherVerdict(proc[w]))' /\ (\A t \in Thread : ThreadVerdict(proc[t]))'
  BY <1>1, Processes DEF Tended, WatcherVerdict, ThreadVerdict
<1>3. (\A p \in Pid : recycled[p] # "no" => p <= spawned)'
  <2>1. spawned \in Nat /\ \A p \in Pid : p \in Nat
    BY Unfold DEF Pid
  <2>2. \A p \in Pid : recycled[p] # "no" => p <= spawned
    BY DEF Tended
  <2>3. \A p \in Pid : p <= spawned => p <= spawned'
    BY <2>1
  <2>4. QED
    BY <2>2, <2>3
<1>4. QED
  BY <1>2, <1>3 DEF Tended

\* The record is in the hands of the process that moved, or claims no host.
LEMMA NowTended ==
  ASSUME HostInv, Tended, NEW x \in Proc, NEW y, Become(x, y), mode' # "down",
         UNCHANGED <<spawned, recycled>>,
         x \in Pid => WatcherVerdict(y), x \in Thread => ThreadVerdict(y),
         \/ file'.state \notin Live
         \/ x \in Pid /\ Attentive(y, file'.gen)
         \/ x \in Thread /\ Tends(y, file'.gen)
  PROVE  Tended'
<1>1. proc'[x] = y
  BY Unfold DEF Become
<1>2. (mode = "up" /\ file.state \in Live => Minded \/ Tending \/ Left)'
  BY <1>1 DEF Minded, Tending, Attentive, Tends, Doomed
<1>3. spawned' \in {spawned, spawned + 1}
  BY Unfold
<1>4. QED
  BY <1>2, <1>3, VerdictsMove

\* The record is as it was: who had it in hand keeps it.
LEMMA StillTended ==
  ASSUME HostInv, Tended, NEW x \in Proc, NEW y, Become(x, y), mode # "down",
         UNCHANGED <<mode, file, recycled>>, spawned' \in {spawned, spawned + 1},
         x \in Pid => /\ WatcherVerdict(y)
                      /\ Attentive(proc[x], file.gen) /\ file.state \in Live
                           => Attentive(y, file.gen),
         x \in Thread => /\ ThreadVerdict(y) /\ y.at # "probe"
                         /\ Tends(proc[x], file.gen) /\ file.state \in Live
                              => Tends(y, file.gen),
         Left => (Answers(file.pid))'
  PROVE  Tended'
<1>1. \A z \in Proc : proc'[z] = IF z = x THEN y ELSE proc[z]
  BY Unfold DEF Become
<1>2. ASSUME mode = "up", file.state \in Live PROVE (Minded \/ Tending \/ Left)'
  <2>1. CASE Minded
    <3>1. PICK w \in Pid : Attentive(proc[w], file.gen)
      BY <2>1 DEF Minded
    <3>2. Attentive(proc'[w], file.gen)
      BY <1>1, <1>2, <3>1, Processes
    <3>3. QED
      BY <3>2 DEF Minded, Attentive, Doomed
  <2>2. CASE Tending
    <3>1. PICK t \in Thread : Tends(proc[t], file.gen)
      BY <2>2 DEF Tending
    <3>2. Tends(proc'[t], file.gen)
      BY <1>1, <1>2, <3>1, Processes
    <3>3. QED
      BY <3>2 DEF Tending, Tends, Doomed
  <2>3. CASE Left
    <3>1. \A t \in Thread : proc'[t].at # "probe"
      BY <1>1, <2>3, Processes DEF Left
    <3>2. QED
      BY <2>3, <3>1 DEF Left
  <2>4. QED
    BY <1>2, <2>1, <2>2, <2>3 DEF Tended
<1>3. QED
  BY <1>2, VerdictsMove

\* The usual case: no process is born or dies.
LEMMA CalmlyTended ==
  ASSUME HostInv, Tended, NEW x \in Proc, NEW y, Become(x, y), mode # "down",
         UNCHANGED <<mode, file, alive, recycled, spawned>>,
         x \in Pid => /\ WatcherVerdict(y)
                      /\ Attentive(proc[x], file.gen) /\ file.state \in Live
                           => Attentive(y, file.gen),
         x \in Thread => /\ ThreadVerdict(y) /\ y.at # "probe"
                         /\ Tends(proc[x], file.gen) /\ file.state \in Live
                              => Tends(y, file.gen)
  PROVE  Tended'
<1>1. spawned' \in {spawned, spawned + 1}
  BY Unfold
<1>2. Left => (Answers(file.pid))'
  BY DEF Left, Answers, ProbePid
<1>3. QED
  BY <1>1, <1>2, StillTended

\* Where a job is that no verdict is about, and that has nothing to tend.
Quiet == {"idle", "take", "kill", "drop", "enter", "sentinel", "spawn", "record", "retry", "erase"}

LEMMA SwapFields ==
  ASSUME NEW x \in Job
  PROVE  \A r, v, then : LET y == Swap(x, r, v, then)
                         IN  y.at = "compare" /\ y.snap = r /\ y.verdict = v /\ y.then = then
BY DEF Swap, Job

LEMMA SettledFields ==
  ASSUME NEW x \in Job
  PROVE  /\ x.then = "idle" => Settled(x) = Idle
         /\ x.then = "done" => Settled(x).at \in Quiet
         /\ x.then \in {"insert", "retry", "reread"} => Settled(x).at = x.then
         /\ x.then \in {"idle", "done", "insert", "retry", "reread"}
<1>1. x.then \in {"idle", "done", "insert", "retry", "reread"}
  BY DEF Job
<1>2. x.then = "done" => Settled(x).at \in Quiet
  BY Jobs DEF Settled, Quiet
<1>3. x.then \in {"insert", "retry", "reread"} => Settled(x).at = x.then
  BY DEF Settled, Job
<1>4. QED
  BY <1>1, <1>2, <1>3 DEF Settled

\* What the closures handed to the swap leave of a record's claim.
LEMMA MutatedClaims ==
  ASSUME NEW r \in Record, NEW verdict \in {"stopped", "crashed", "orphaned"}
  PROVE  Mutated(verdict, r).state \notin Live
BY DEF Mutated, Record, Live

LEMMA SwapTended ==
  ASSUME HostInv, Tended, NEW x \in Proc, Compare(x) \/ Write(x)
  PROVE  Tended'
<1> DEFINE me == proc[x]
           disk == IF file = NoFile THEN me.snap ELSE file
           y == [me EXCEPT !.at = "write", !.snap = NoFile, !.disk = disk]
           z == Settled(me)
<1>1. /\ me \in Job /\ Sound(me) /\ mode # "down" /\ me.at \in {"compare", "write"}
      /\ UNCHANGED <<mode, alive, recycled, spawned>>
      /\ x \in Pid => WatcherLane(me) /\ WatcherVerdict(me) /\ x \notin Thread
      /\ x \in Thread => ThreadLane(me) /\ ThreadVerdict(me)
  BY Unfold, Processes DEF Compare, Write, At, Tended
<1>2. /\ me.then = "idle" => z.at = "idle"
      /\ me.then = "done" => z.at \in Quiet
      /\ me.then \in {"insert", "retry", "reread"} => z.at = me.then
      /\ me.then \in {"idle", "done", "insert", "retry", "reread"}
  BY <1>1, SettledFields DEF Idle
<1> HIDE DEF z
<1>3. (x \in Pid => WatcherVerdict(z)) /\ (x \in Thread => ThreadVerdict(z) /\ z.at # "probe")
  BY <1>2 DEF WatcherVerdict, ThreadVerdict, Quiet
<1>4. CASE Compare(x) /\ disk.gen > me.snap.gen
  <2>1. Become(x, z) /\ file' = file /\ me.at = "compare"
    BY <1>4 DEF Compare, At, z
  <2>2. file # NoFile /\ me.snap.gen < file.gen
    <3>1. me.snap.gen \in Nat /\ file.gen \in Nat
      BY <1>1, Unfold DEF Job, Record, NoFile
    <3>2. QED
      BY <3>1, <1>4
  <2>3. x \in Pid /\ Attentive(me, file.gen) => Attentive(z, file.gen)
    BY <1>1, <1>2, <2>1, <2>2 DEF Attentive, Doomed, WatcherLane
  <2>4. x \in Thread /\ Tends(me, file.gen) => Tends(z, file.gen)
    BY <1>1, <1>2, <2>1, <2>2 DEF Tends, Doomed, ThreadLane
  <2>5. QED
    BY <1>1, <1>3, <2>1, <2>3, <2>4, CalmlyTended
<1>5. CASE Compare(x) /\ ~(disk.gen > me.snap.gen)
  <2>1. Become(x, y) /\ file' = file /\ me.at = "compare"
    BY <1>5 DEF Compare, At
  <2>2. y.at = "write" /\ y.then = me.then /\ y.verdict = me.verdict
    BY <1>1 DEF Job
  <2> HIDE DEF y
  <2>3. /\ x \in Pid => WatcherVerdict(y) /\ Attentive(y, file'.gen)
        /\ x \in Thread => ThreadVerdict(y) /\ Tends(y, file'.gen)
    BY <1>1, <2>1, <2>2 DEF WatcherVerdict, ThreadVerdict, Attentive, Tends, Doomed
  <2>4. QED
    BY <1>1, <2>1, <2>3, NowTended DEF Proc
<1>6. CASE Write(x)
  <2>1. /\ Become(x, z) /\ me.at = "write" /\ me.disk \in Record
        /\ file' = Mutated(me.verdict, me.disk)
    BY <1>1, <1>6 DEF Write, At, z, Sound, Job
  <2>2. CASE x \in Pid
    <3>1. me.then = "idle" => file'.state \notin Live
      BY <1>1, <2>1, <2>2, MutatedClaims DEF WatcherVerdict
    <3>2. me.then # "idle" => Attentive(z, file'.gen)
      BY <1>1, <1>2, <2>2 DEF Attentive, Doomed, WatcherLane
    <3>3. QED
      BY <1>1, <1>3, <2>1, <2>2, <3>1, <3>2, NowTended
  <2>3. CASE x \in Thread
    <3>1. me.then # "insert" => file'.state \notin Live
      BY <1>1, <2>1, <2>3, MutatedClaims DEF ThreadVerdict
    <3>2. me.then = "insert" => Tends(z, file'.gen)
      BY <1>2, <2>3 DEF Tends
    <3>3. QED
      BY <1>1, <1>3, <2>1, <2>3, <3>1, <3>2, NowTended
  <2>4. QED
    BY <2>2, <2>3 DEF Proc
<1>7. QED
  BY <1>4, <1>5, <1>6

LEMMA ThreadTended ==
  ASSUME HostInv, Tended, NEW t \in Thread, ThreadStep(t)
  PROVE  Tended'
<1> DEFINE me == proc[t]
           p == me.pid
<1>1. /\ t \in Proc /\ t \notin Pid /\ me \in Job /\ Sound(me) /\ ThreadLane(me)
      /\ Finished(me).at \in Quiet /\ Idle.at \in Quiet
      /\ Finished(me).at # "probe" /\ Idle.at # "probe"
  BY Unfold, Processes, Jobs DEF Quiet, Idle
<1>2. mode # "down" /\ mode' = mode
  BY DEF ThreadStep, Take, Kill, Clear, DropRecord, Erase, Enter, Sentinel, GiveUp, Spawn,
         WriteInitial, BecomesReady, Aborts, Retry, Insert, At
<1>3. \A y : y.at \in Quiet \union {"clear"} => ThreadVerdict(y) /\ y.at # "probe"
  BY DEF Quiet, ThreadVerdict
<1>4. ASSUME NEW y, Become(t, y), y.at \in Quiet, me.at \in Quiet,
             UNCHANGED <<file, alive, recycled, spawned>>
      PROVE  Tended'
  <2>1. ~Tends(me, file.gen)
    BY <1>4 DEF Tends, Quiet
  <2>2. QED
    BY <2>1, <1>1, <1>2, <1>3, <1>4, CalmlyTended
<1>5. ASSUME NEW y, Become(t, y), y.at \in Quiet \union {"clear", "probe"},
             file'.state \notin Live \/ Tends(y, file'.gen),
             UNCHANGED <<recycled, spawned>>
      PROVE  Tended'
  <2>1. ThreadVerdict(y)
    BY <1>5 DEF Quiet, ThreadVerdict
  <2>2. QED
    BY <2>1, <1>1, <1>2, <1>5, NowTended
<1>6. CASE Take(t)
  <2> DEFINE y == [me EXCEPT !.at = "kill", !.pid = running]
  <2>1. Become(t, y) /\ y.at = "kill" /\ me.at = "take"
    BY <1>1, <1>6 DEF Take, At, Job
  <2>2. UNCHANGED <<file, alive, recycled, spawned>>
    BY <1>6 DEF Take
  <2> HIDE DEF y
  <2>3. QED
    BY <2>1, <2>2, <1>4 DEF Quiet
<1>7. CASE Kill(t)
  <2> DEFINE y == [me EXCEPT !.at = "clear", !.pid = 0]
  <2>1. Become(t, y) /\ y.at = "clear" /\ UNCHANGED <<recycled, spawned>>
    BY <1>1, <1>7 DEF Kill, Job
  <2> HIDE DEF y
  <2>2. Tends(y, file'.gen)
    BY <2>1 DEF Tends
  <2>3. QED
    BY <2>1, <2>2, <1>5
<1>8. CASE Clear(t)
  <2> DEFINE y == Swap(me, file, "stopped", "done")
  <2>1. y.at = "compare" /\ y.snap = file /\ y.verdict = "stopped" /\ y.then = "done"
    BY <1>1, SwapFields
  <2>2. UNCHANGED <<file, alive, recycled, spawned>>
    BY <1>8 DEF Clear
  <2>3. CASE file = NoFile
    <3>1. file'.state \notin Live
      BY <2>2, <2>3 DEF NoFile, Live
    <3>2. QED
      BY <1>1, <1>5, <1>8, <2>2, <2>3, <3>1 DEF Clear
  <2>4. CASE file # NoFile
    <3>1. Become(t, y)
      BY <1>8, <2>4 DEF Clear
    <3> HIDE DEF y
    <3>2. file'.gen \in Nat
      BY <2>2, Unfold DEF Record, NoFile
    <3>3. ThreadVerdict(y) /\ Tends(y, file'.gen)
      BY <2>1, <2>2, <3>2 DEF ThreadVerdict, Tends, Doomed
    <3>4. QED
      BY <3>1, <3>3, <2>2, <1>1, <1>2, NowTended
  <2>5. QED
    BY <2>3, <2>4
<1>9. CASE DropRecord(t) \/ Erase(t)
  <2>1. file'.state \notin Live /\ UNCHANGED <<recycled, spawned>>
    BY <1>9 DEF DropRecord, Erase, NoFile, Live
  <2>2. QED
    BY <2>1, <1>1, <1>5, <1>9 DEF DropRecord, Erase
<1>10. CASE Enter(t) \/ GiveUp(t)
  <2> DEFINE y == [me EXCEPT !.at = "sentinel"]
  <2>1. y.at \in Quiet /\ me.at \in Quiet
    BY <1>1, <1>10 DEF Enter, GiveUp, At, Quiet, Job
  <2>2. UNCHANGED <<file, alive, recycled, spawned>>
    BY <1>10 DEF Enter, GiveUp
  <2>3. Become(t, Idle) \/ Become(t, Finished(me)) \/ Become(t, y)
    BY <1>10 DEF Enter, GiveUp
  <2> HIDE DEF y
  <2>4. QED
    BY <2>1, <2>2, <2>3, <1>1, <1>4
<1>11. CASE Sentinel(t)
  <2> DEFINE y == [me EXCEPT !.at = "spawn"]
  <2>1. Become(t, y) /\ y.at \in Quiet /\ UNCHANGED <<recycled, spawned>>
    BY <1>1, <1>11 DEF Sentinel, Go, Become, Quiet, Job
  <2>2. file'.state \notin Live
    BY <1>11 DEF Sentinel, Corrupted, Live
  <2> HIDE DEF y
  <2>3. QED
    BY <2>1, <2>2, <1>5
<1>12. CASE Spawn(t)
  <2> DEFINE y == [me EXCEPT !.at = "record", !.pid = spawned + 1, !.tries = @ + 1]
  <2>1. /\ Become(t, y) /\ y.at = "record" /\ me.at = "spawn" /\ spawned' = spawned + 1
        /\ alive' = alive \union {spawned + 1} /\ UNCHANGED <<file, recycled>>
    BY <1>1, <1>12 DEF Spawn, At, Job
  <2> HIDE DEF y
  <2>2. ~Tends(me, file.gen) /\ ThreadVerdict(y) /\ y.at # "probe"
    BY <2>1 DEF Tends, ThreadVerdict
  <2>3. Left => (Answers(file.pid))'
    <3>1. spawned \in Nat /\ alive \subseteq 1..spawned
      BY Unfold
    <3>2. Left => file.pid # spawned + 1
      <4>1. file.pid \in alive => file.pid # spawned + 1
        BY <3>1
      <4>2. file.pid \in Pid /\ recycled[file.pid] # "no" => file.pid # spawned + 1
        BY <3>1 DEF Tended, Pid
      <4>3. Left => \/ file.pid \in alive
                    \/ file.pid \in Pid /\ recycled[file.pid] # "no"
        BY DEF Left, Answers, ProbePid
      <4>4. QED
        BY <4>1, <4>2, <4>3
    <3>3. QED
      BY <2>1, <3>2 DEF Left, Answers, ProbePid
  <2>4. QED
    BY <2>1, <2>2, <2>3, <1>1, <1>2, StillTended
<1>13. CASE WriteInitial(t)
  <2> DEFINE y == [me EXCEPT !.at = "probe"]
  <2>1. Become(t, y) /\ y.at = "probe" /\ UNCHANGED <<recycled, spawned>>
    BY <1>1, <1>13 DEF WriteInitial, Go, Become, Job
  <2>2. file'.gen = 1
    BY <1>13 DEF WriteInitial, Initial
  <2> HIDE DEF y
  <2>3. Tends(y, file'.gen)
    BY <2>1, <2>2 DEF Tends
  <2>4. QED
    BY <2>1, <2>3, <1>5
<1>14. CASE BecomesReady(t)
  <2>1. PICK r : Become(t, Swap(me, r, "ready", "insert"))
    BY <1>14 DEF BecomesReady
  <2> DEFINE y == Swap(me, r, "ready", "insert")
  <2>2. y.at = "compare" /\ y.verdict = "ready" /\ y.then = "insert"
    BY <1>1, SwapFields
  <2>3. Become(t, y) /\ UNCHANGED <<recycled, spawned>>
    BY <2>1, <1>14 DEF BecomesReady
  <2> HIDE DEF y
  <2>4. ThreadVerdict(y) /\ Tends(y, file'.gen)
    BY <2>2 DEF ThreadVerdict, Tends, Doomed
  <2>5. QED
    BY <2>3, <2>4, <1>1, <1>2, NowTended
<1>15. ASSUME NEW verdict \in {"crashed", "stopped"}, Aborts(t, verdict) PROVE Tended'
  <2>1. PICK then \in {"retry", "idle"} : Become(t, Swap(me, Initial(p), verdict, then))
    BY <1>15 DEF Aborts
  <2> DEFINE y == Swap(me, Initial(p), verdict, then)
  <2>2. /\ y.at = "compare" /\ y.verdict = verdict /\ y.then = then /\ y.snap.gen = 1
    BY <1>1, SwapFields DEF Initial
  <2>3. /\ Become(t, y) /\ me.at = "probe" /\ alive' \subseteq alive
        /\ UNCHANGED <<file, recycled, spawned>>
    BY <2>1, <1>15 DEF Aborts, At
  <2> HIDE DEF y
  <2>4. ThreadVerdict(y) /\ y.at # "probe"
    BY <2>2 DEF ThreadVerdict
  <2>5. CASE 1 < file.gen
    <3>1. ~Tends(me, file.gen) /\ ~Left
      BY <2>3, <2>5 DEF Tends, Left
    <3>2. spawned' \in {spawned, spawned + 1}
      BY <2>3
    <3>3. QED
      BY <3>1, <3>2, <2>3, <2>4, <1>1, <1>2, StillTended
  <2>6. CASE ~(1 < file.gen)
    <3>1. Tends(y, file'.gen)
      BY <2>2, <2>3, <2>6 DEF Tends, Doomed
    <3>2. QED
      BY <3>1, <2>3, <2>4, <1>1, <1>2, NowTended
  <2>7. QED
    BY <2>5, <2>6
<1>16. CASE Retry(t)
  <2> DEFINE y == [me EXCEPT !.at = "spawn", !.pid = 0]
  <2>1. y.at \in Quiet /\ me.at \in Quiet
    BY <1>1, <1>16 DEF Retry, At, Quiet, Job
  <2>2. UNCHANGED <<file, alive, recycled, spawned>> /\ (Become(t, Idle) \/ Become(t, y))
    BY <1>16 DEF Retry
  <2> HIDE DEF y
  <2>3. QED
    BY <2>1, <2>2, <1>1, <1>4
<1>17. CASE Insert(t)
  <2> DEFINE y == [Idle EXCEPT !.at = "sleep"]
  <2>1. y.at = "sleep"
    BY DEF Idle
  <2>2. p \in Pid
    BY <1>1, <1>17 DEF Insert, At, ThreadLane, Job, Pid
  <2> HIDE DEF y
  <2>3. \A z \in Proc : proc'[z] = IF z = t THEN Finished(me) ELSE IF z = p THEN y ELSE proc[z]
    BY <2>2, <1>1, <1>17, Unfold, Processes DEF Insert, y
  <2>4. UNCHANGED <<recycled, spawned>>
    BY <1>17 DEF Insert
  <2>5. proc'[p] = y
    BY <2>2, <2>3, <1>1, Processes
  <2>6. Minded'
    BY <2>1, <2>2, <2>5 DEF Minded, Attentive, Doomed
  <2>7. ThreadVerdict(Finished(me)) /\ WatcherVerdict(y)
    BY <2>1, <1>1, <1>3 DEF WatcherVerdict
  <2>8. (\A w \in Pid : WatcherVerdict(proc[w]))' /\ (\A u \in Thread : ThreadVerdict(proc[u]))'
    <3>1. \A w \in Pid : WatcherVerdict(proc'[w])
      BY <2>3, <2>7, <1>1, Processes DEF Tended
    <3>2. \A u \in Thread : ThreadVerdict(proc'[u])
      BY <2>2, <2>3, <2>7, <1>1, Processes DEF Tended
    <3>3. QED
      BY <3>1, <3>2 DEF WatcherVerdict, ThreadVerdict
  <2>9. QED
    BY <2>4, <2>6, <2>8, <1>2 DEF Tended
<1>18. QED
  BY <1>6, <1>7, <1>8, <1>9, <1>10, <1>11, <1>12, <1>13, <1>14, <1>15, <1>16, <1>17 DEF ThreadStep

LEMMA WatcherTended ==
  ASSUME HostInv, Tended, NEW w \in Pid, WatcherStep(w)
  PROVE  Tended'
<1> DEFINE me == proc[w]
<1>1. /\ w \in Proc /\ w \notin Thread /\ me \in Job /\ mode # "down"
      /\ UNCHANGED <<mode, file, alive, recycled, spawned>> /\ file.gen \in Nat
  <2>1. mode # "down" /\ UNCHANGED <<mode, file, alive, recycled, spawned>>
    BY DEF WatcherStep, Look, ProbeUrl, Reread, At
  <2>2. QED
    BY <2>1, Unfold, Processes DEF Record, NoFile
<1>2. ASSUME NEW y, Become(w, y), WatcherVerdict(y),
             file.state \notin Live \/ Attentive(y, file.gen)
      PROVE  Tended'
  BY <1>1, <1>2, CalmlyTended
<1>3. ASSUME NEW y, Become(w, y), y.at \in {"sleep", "watch"} PROVE Tended'
  BY <1>2, <1>3 DEF WatcherVerdict, Attentive, Doomed
<1>4. ASSUME file.state \notin Live, Become(w, Idle) PROVE Tended'
  BY <1>2, <1>4 DEF WatcherVerdict, Idle
<1>5. CASE Look(w)
  <2> DEFINE y == Swap(me, file, "crashed", "idle")
             z == [me EXCEPT !.at = "watch", !.snap = file]
  <2>1. /\ y.at = "compare" /\ y.snap = file /\ y.verdict = "crashed" /\ y.then = "idle"
        /\ z.at = "watch"
    BY <1>1, SwapFields DEF Job
  <2>2. WatcherVerdict(y) /\ Attentive(y, file.gen)
    BY <2>1, <1>1 DEF WatcherVerdict, Attentive, Doomed
  <2>3. \/ file = NoFile /\ Become(w, Idle)
        \/ Become(w, y) \/ Become(w, z)
    BY <1>5 DEF Look
  <2>4. file = NoFile => file.state \notin Live
    BY DEF NoFile, Live
  <2> HIDE DEF y, z
  <2>5. QED
    BY <2>1, <2>2, <2>3, <2>4, <1>2, <1>3, <1>4
<1>6. CASE ProbeUrl(w)
  <2>1. ASSUME NEW v \in {"healthy", "unhealthy"}, Become(w, Swap(me, me.snap, v, "reread"))
        PROVE  Tended'
    <3> DEFINE y == Swap(me, me.snap, v, "reread")
    <3>1. y.at = "compare" /\ y.verdict = v /\ y.then = "reread"
      BY <1>1, SwapFields
    <3> HIDE DEF y
    <3>2. WatcherVerdict(y) /\ Attentive(y, file.gen)
      BY <3>1 DEF WatcherVerdict, Attentive, Doomed
    <3>3. QED
      BY <3>2, <2>1, <1>2 DEF y
  <2> DEFINE z == [me EXCEPT !.at = "sleep", !.snap = NoFile]
  <2>2. z.at = "sleep"
    BY <1>1 DEF Job
  <2>3. \/ \E v \in {"healthy", "unhealthy"} : Become(w, Swap(me, me.snap, v, "reread"))
        \/ Become(w, z)
    BY <1>6 DEF ProbeUrl
  <2> HIDE DEF z
  <2>4. QED
    BY <2>1, <2>2, <2>3, <1>3
<1>7. CASE Reread(w)
  <2>1. [Idle EXCEPT !.at = "sleep"].at = "sleep"
    BY DEF Idle
  <2>2. file.state \in {"crashed", "stopped"} => file.state \notin Live
    BY DEF Live
  <2>3. QED
    BY <2>1, <2>2, <1>3, <1>4, <1>7 DEF Reread
<1>8. QED
  BY <1>5, <1>6, <1>7 DEF WatcherStep

LEMMA TendedStep ==
  ASSUME "die" \notin Faults \/ AtHome
  PROVE  HostInv /\ (AtHome => Own) /\ Tended /\ [Next]_vars => Tended'
<1> SUFFICES ASSUME HostInv, AtHome => Own, Tended, [Next]_vars PROVE Tended'
  OBVIOUS
<1>1. ASSUME NEW t \in Thread, NEW kind \in Tasks \union Rpcs, Call(t, kind) PROVE Tended'
  <2> DEFINE x == [Idle EXCEPT !.rest = Plan[kind]]
  <2>1. /\ t \in Proc /\ t \notin Pid /\ mode # "down" /\ proc[t].at = "idle"
        /\ Become(t, Finished(x)) /\ UNCHANGED <<mode, file, alive, recycled, spawned>>
    BY <1>1, Processes DEF Call, At
  <2>2. Finished(x).at \in {"take", "enter"}
    <3>1. x.rest = Plan[kind]
      BY DEF Idle
    <3>2. kind \in {"start", "stop", "restart", "rebuild", "delete"}
      BY HostAssumption
    <3>3. Plan[kind] # <<>> /\ Head(Plan[kind]) \in {"take", "enter"}
      BY <3>2 DEF Plan
    <3>4. Finished(x).at = Head(Plan[kind])
      BY <3>1, <3>3 DEF Finished, Idle
    <3>5. QED
      BY <3>3, <3>4
  <2> HIDE DEF x
  <2>3. ThreadVerdict(Finished(x)) /\ ~Tends(proc[t], file.gen)
    BY <2>1, <2>2 DEF ThreadVerdict, Tends
  <2>4. QED
    BY <2>1, <2>2, <2>3, CalmlyTended
<1>2. ASSUME UNCHANGED <<mode, file, spawned, proc>>,
             \A q \in Pid : recycled'[q] # "no" => q <= spawned,
             Left => (Answers(file.pid))'
      PROVE  Tended'
  <2>1. /\ (Minded <=> Minded') /\ (Tending <=> Tending') /\ (Left => Left')
    BY <1>2 DEF Minded, Tending, Left, Attentive, Tends, Doomed
  <2>2. QED
    BY <1>2, <2>1 DEF Tended, WatcherVerdict, ThreadVerdict
<1>3. ASSUME NEW p \in Pid, HostDies(p) PROVE Tended'
  <2>1. Left => (Answers(file.pid))'
    BY <1>3 DEF HostDies, Left, Answers, ProbePid
  <2>2. QED
    BY <1>2, <1>3, <2>1 DEF HostDies, Tended
<1>4. ASSUME NEW p \in Pid, NEW whose \in Recycled, PidRecycled(p, whose) PROVE Tended'
  <2>1. /\ recycled \in [Pid -> {"no", "mine", "theirs"}] /\ recycled' = [recycled EXCEPT ![p] = whose]
        /\ p \in 1..spawned /\ p \notin alive /\ recycled[p] = "no" /\ spawned \in Nat
    BY <1>4, ByProcess, Unfold DEF PidRecycled
  <2>2. \A q \in Pid : recycled'[q] # "no" => q <= spawned
    BY <2>1 DEF Tended
  <2>3. Left => (Answers(file.pid))'
    <3>1. Left => file.pid # p
      BY <2>1 DEF Left, Answers, ProbePid
    <3>2. UNCHANGED <<file, alive>>
      BY <1>4 DEF PidRecycled
    <3>3. QED
      BY <2>1, <3>1, <3>2 DEF Left, Answers, ProbePid
  <2>4. QED
    BY <1>2, <1>4, <2>2, <2>3 DEF PidRecycled
<1>5. ASSUME NEW survivors, DaemonEnds(survivors) PROVE Tended'
  <2>1. /\ \A x \in Proc : proc'[x] = Idle
        /\ mode' = "down" /\ UNCHANGED <<recycled, spawned>>
    BY <1>5 DEF DaemonEnds
  <2>2. WatcherVerdict(Idle) /\ ThreadVerdict(Idle) /\ Idle.at = "idle"
    BY DEF WatcherVerdict, ThreadVerdict, Idle
  <2>3. (\A w \in Pid : WatcherVerdict(proc[w]))' /\ (\A t \in Thread : ThreadVerdict(proc[t]))'
    BY <2>1, <2>2, Processes DEF WatcherVerdict, ThreadVerdict
  <2>4. QED
    BY <2>1, <2>2, <2>3 DEF Tended
<1>6. CASE Crash \/ ShutdownEnds
  BY <1>5, <1>6 DEF Crash, ShutdownEnds
<1>7. CASE Shutdown
  BY <1>7 DEF Shutdown, Tended, WatcherVerdict, ThreadVerdict
<1>8. CASE Boot
  <2>1. /\ \A x \in Proc : proc[x].at = "idle"
        /\ UNCHANGED <<alive, recycled, spawned, proc>> /\ mode = "down" /\ mode' = "up"
    BY <1>8 DEF Boot, Tended
  <2>2. ASSUME file'.state \in Live PROVE Left'
    <3>1. ProbePid(file.pid) = "alive" /\ file' = file
      <4>1. file.state \in Live
        BY <1>8, <2>2 DEF Boot
      <4>2. file \in Record
        BY <4>1, Unfold DEF NoFile, Live
      <4>3. NoFile.state \notin Live /\ Mutated("orphaned", file).state \notin Live
        BY <4>2, MutatedClaims DEF NoFile, Live
      <4>4. QED
        BY <1>8, <2>2, <4>1, <4>3 DEF Boot
    <3>2. "die" \in Faults => file.pid \notin alive
      BY <2>1 DEF Own
    <3>3. \A t \in Thread : proc'[t].at # "probe"
      BY <2>1, Processes
    <3>4. QED
      BY <2>1, <3>1, <3>2, <3>3 DEF Left, Answers, ProbePid
  <2>3. (\A w \in Pid : WatcherVerdict(proc[w]))' /\ (\A t \in Thread : ThreadVerdict(proc[t]))'
    BY <2>1 DEF Tended, WatcherVerdict, ThreadVerdict
  <2>4. QED
    BY <2>1, <2>2, <2>3 DEF Tended
<1>9. CASE UNCHANGED vars
  <2>1. UNCHANGED <<mode, file, spawned, proc, alive, recycled>>
    BY <1>9 DEF vars
  <2>2. QED
    BY <2>1, <1>2 DEF Tended, Left, Answers, ProbePid
<1>10. QED
  BY <1>1, <1>3, <1>4, <1>6, <1>7, <1>8, <1>9, ThreadTended, WatcherTended, SwapTended DEF Next

\* No stale "running" record: with no operation in hand, a record that claims
\* a live host names a pid that answers, or a watcher is there to tell.  Hosts
\* may hang, the daemon may crash or be shut down and pids be recycled; only a
\* host that an earlier daemon left behind must not die unseen.
THEOREM NoStaleRunningHolds ==
  ASSUME "die" \notin Faults \/ AtHome PROVE Spec => []NoStaleRunning
<1>1. Init => HostInv /\ (AtHome => Own) /\ Tended
  <2> SUFFICES ASSUME Init PROVE HostInv /\ (AtHome => Own) /\ Tended
    OBVIOUS
  <2>1. HostInv /\ Own
    BY HostInit, AloneInit
  <2>2. (\A x \in Proc : proc[x] = Idle) /\ (\A p \in Pid : recycled[p] = "no") /\ mode = "up"
    BY DEF Init
  <2>3. WatcherVerdict(Idle) /\ ThreadVerdict(Idle)
    BY DEF WatcherVerdict, ThreadVerdict, Idle
  <2>4. file.state \notin Live
    BY DEF Init, NoFile, Live
  <2>5. Tended
    BY <2>2, <2>3, <2>4, Processes DEF Tended
  <2>6. QED
    BY <2>1, <2>5
<1>2. HostInv /\ (AtHome => Own) /\ Tended /\ [Next]_vars
        => (HostInv /\ (AtHome => Own) /\ Tended)'
  <2>1. AtHome /\ HostInv /\ Own /\ [Next]_vars => Own'
    BY OwnStep
  <2>2. HostInv /\ (AtHome => Own) /\ [Next]_vars => (AtHome => Own)'
    BY <2>1 DEF AtHome
  <2>3. QED
    BY <2>2, HostStep, TendedStep
<1>3. Tended => NoStaleRunning
  <2> SUFFICES ASSUME Tended, mode = "up", \A t \in Thread : proc[t].at = "idle",
                      file.state \in Live
               PROVE  \/ ProbePid(file.pid) = "alive"
                      \/ \E w \in Pid : proc[w].at # "idle"
    BY DEF NoStaleRunning
  <2>1. ~Tending
    BY DEF Tending, Tends
  <2>2. QED
    BY <2>1 DEF Tended, Minded, Attentive, Left, Answers
<1>4. QED
  BY <1>1, <1>2, <1>3, PTL DEF Spec
=============================================================================
