--------------------------- MODULE TaskStoreProofs ---------------------------
(***************************************************************************)
(* Theorems about TaskStore for every set of tasks, processes and threads, *)
(* every choice of target states and any number of crashes.                *)
(***************************************************************************)
EXTENDS TaskStore, TLAPS

USE StoreAssumption

LEMMA StatusFacts ==
  /\ Known \subseteq Status /\ Status \subseteq Record /\ "none" \in Record
  /\ "none" \notin Status /\ "queued" \in Known /\ "interrupted" \in Status
  /\ "interrupted" \in Finished
BY DEF Record, Status, Known, Finished, Terminal

\* What restore and interrupt_running make of a map: the same records, none of
\* them open.
LEMMA ClosedRows ==
  ASSUME NEW rows \in [Task -> Record]
  PROVE  /\ Closed(rows) \in [Task -> Record]
         /\ \A t \in Task : rows[t] # "none" => Closed(rows)[t] # "none"
         /\ \A t \in Task : Closed(rows)[t] \notin Known \ Finished
<1> SUFFICES ASSUME NEW t \in Task
             PROVE  /\ Closed(rows)[t] \in Record
                    /\ rows[t] # "none" => Closed(rows)[t] # "none"
                    /\ Closed(rows)[t] \notin Known \ Finished
  BY DEF Closed
<1>1. Closed(rows)[t] = IF rows[t] # "none" /\ NeedsClose(rows[t])
                        THEN Moved(rows[t], "interrupted") ELSE rows[t]
  BY DEF Closed
<1>2. rows[t] \in Record
  OBVIOUS
<1>3. CASE rows[t] \in {"queued", "running", "rolling_back"}
  <2>1. Closed(rows)[t] = "interrupted"
    BY <1>1, <1>3 DEF NeedsClose, Moved, Successors, AsState, Known, Finished, Terminal
  <2>2. QED
    BY <2>1, StatusFacts
<1>4. CASE rows[t] \notin {"queued", "running", "rolling_back"}
  <2>1. Closed(rows)[t] = rows[t]
    BY <1>1, <1>2, <1>4 DEF NeedsClose, Moved, Successors, AsState, Known, Finished, Terminal, Record, Status
  <2>2. QED
    BY <2>1, <1>2, <1>4 DEF Known, Finished, Terminal
<1>5. QED
  BY <1>3, <1>4

LEMMA UpsertedRows ==
  ASSUME NEW rows \in [Task -> Record], store \in [Task -> Record]
  PROVE  /\ Upserted(rows) \in [Task -> Record]
         /\ \A t \in Task : store[t] # "none" \/ rows[t] # "none" => Upserted(rows)[t] # "none"
BY DEF Upserted

\* The thread's step in hand, by kind.
LEMMA JobKinds ==
  ASSUME NEW w \in Thread, job[w] \in Job
  PROVE  /\ job[w].at \in {"changed", "deleting"} => job[w].task \in Task \cup {"all"}
         /\ job[w].at = "listed" => /\ job[w].task \in Task \cup {"all"}
                                    /\ job[w].rows \in [Task -> Record]
         /\ job[w] # Idle => job[w].at \in {"changed", "deleting", "listed"}
         /\ job[w].at # "idle" => job[w] # Idle
BY DEF Job, Idle

-----------------------------------------------------------------------------
(* Type correctness. *)

LEMMA TypeStep == TypeOK /\ [Next]_vars => TypeOK'
<1> SUFFICES ASSUME TypeOK, [Next]_vars PROVE TypeOK'
  OBVIOUS
<1> USE DEF TypeOK, Become
<1>a. \A w \in Thread : job[w] \in Job /\ ProcessOf[w] \in Process
  OBVIOUS
<1>b. Idle \in Job /\ \A t \in Task \cup {"all"} : Changed(t) \in Job /\ Deleting(t) \in Job
  BY DEF Job, Changed, Deleting
<1>c. \A t \in Task \cup {"all"}, rows \in [Task -> Record] : Listed(t, rows) \in Job
  BY DEF Job, Listed
<1>d. Blank \in [Task -> Record]
  BY StatusFacts DEF Blank
<1>1. ASSUME NEW w \in Thread, NEW t \in Task, Enqueue(w, t) PROVE TypeOK'
  BY <1>1, <1>a, <1>b, StatusFacts DEF Enqueue
<1>2. ASSUME NEW w \in Thread, NEW t \in Task, NEW s \in Targets, Change(w, t, s) PROVE TypeOK'
  BY <1>2, <1>a, <1>b, StatusFacts DEF Change
<1>3. ASSUME NEW w \in Thread, NEW t \in Task, Remove(w, t) PROVE TypeOK'
  BY <1>3, <1>a, <1>b, StatusFacts DEF Remove
<1>4. ASSUME NEW w \in Thread, Sweep(w) PROVE TypeOK'
  BY <1>4, <1>a, <1>b, ClosedRows DEF Sweep
<1>5. ASSUME NEW w \in Thread, List(w) PROVE TypeOK'
  BY <1>5, <1>a, <1>c, JobKinds DEF List
<1>6. ASSUME NEW w \in Thread, Upsert(w) PROVE TypeOK'
  BY <1>6, <1>a, <1>b, JobKinds, UpsertedRows DEF Upsert, Settled
<1>7. ASSUME NEW w \in Thread, UpsertRefused(w) PROVE TypeOK'
  BY <1>7, <1>a, <1>b DEF UpsertRefused, Settled
<1>8. ASSUME NEW w \in Thread, Delete(w) PROVE TypeOK'
  BY <1>8, <1>a, <1>b, StatusFacts DEF Delete
<1>9. ASSUME NEW w \in Thread, Adopt(w) PROVE TypeOK'
  BY <1>9, <1>a, <1>b, ClosedRows DEF Adopt
<1>10. ASSUME NEW p \in Process, Crash(p) PROVE TypeOK'
  BY <1>10, <1>a, <1>b, <1>d DEF Crash
<1>11. ASSUME NEW p \in Process, Load(p) PROVE TypeOK'
  BY <1>11 DEF Load
<1>12. CASE UNCHANGED vars
  BY <1>12 DEF vars
<1>13. QED
  BY <1>1, <1>2, <1>3, <1>4, <1>5, <1>6, <1>7, <1>8, <1>9, <1>10, <1>11, <1>12 DEF Next

\* Every variable of the store's protocol keeps its type.
THEOREM TypeCorrect == Spec => []TypeOK
<1>1. Init => TypeOK
  BY StatusFacts DEF Init, TypeOK, Blank, Job
<1>2. QED
  BY <1>1, TypeStep, PTL DEF Spec

-----------------------------------------------------------------------------
(* Acknowledged tasks and zombies. *)

\* A thread is busy only in a process that restores or serves, so a process
\* that loads has no old snapshot under way.
BusyIsUp ==
  \A w \in Thread : job[w] # Idle => phase[ProcessOf[w]] \in {"restoring", "up"}

\* A write in hand carries the task it is about, unless a remove was accepted
\* for it since; a delete in hand is of a removed task.
SnapshotsCarry ==
  \A w \in Thread :
    /\ job[w].at = "changed" /\ job[w].task \in Task \ removed =>
         mem[ProcessOf[w]][job[w].task] # "none"
    /\ job[w].at = "listed" /\ job[w].task \in Task \ removed =>
         job[w].rows[job[w].task] # "none"
    /\ job[w].at = "deleting" => job[w].task \in removed

StoreInv == TypeOK /\ BusyIsUp /\ SnapshotsCarry /\ AcknowledgedSurvives /\ NoZombies

LEMMA JobShapes ==
  /\ \A t \in Task \cup {"all"} :
       /\ Changed(t).at = "changed" /\ Changed(t).task = t
       /\ Deleting(t).at = "deleting" /\ Deleting(t).task = t
  /\ \A t \in Task \cup {"all"}, rows \in [Task -> Record] :
       Listed(t, rows).at = "listed" /\ Listed(t, rows).task = t /\ Listed(t, rows).rows = rows
  /\ Idle.at = "idle"
BY DEF Changed, Deleting, Listed, Idle

LEMMA StoreStep ==
  ASSUME StoreInv, [Next]_vars, TypeOK'
  PROVE  StoreInv'
<1> USE DEF TypeOK, Become
<1> DEFINE Rest == BusyIsUp' /\ SnapshotsCarry' /\ AcknowledgedSurvives' /\ NoZombies'
<1>a. /\ \A w \in Thread : job[w] \in Job /\ ProcessOf[w] \in Process
      /\ \A p \in Process : mem[p] \in [Task -> Record]
  BY DEF StoreInv
<1>b. BusyIsUp /\ SnapshotsCarry /\ AcknowledgedSurvives /\ NoZombies
  BY DEF StoreInv
<1>1. ASSUME NEW w \in Thread, NEW t \in Task, Enqueue(w, t) PROVE Rest
  <2>1. BusyIsUp'
    BY <1>1, <1>a, <1>b DEF Enqueue, Serving, BusyIsUp
  <2>2. SnapshotsCarry'
    BY <1>1, <1>a, <1>b, JobShapes DEF Enqueue, Serving, SnapshotsCarry
  <2>3. AcknowledgedSurvives'
    BY <1>1, <1>b DEF Enqueue, AcknowledgedSurvives
  <2>4. NoZombies'
    BY <1>1, <1>a, <1>b, StatusFacts DEF Enqueue, NoZombies, StoreInv
  <2>5. QED
    BY <2>1, <2>2, <2>3, <2>4
<1>2. ASSUME NEW w \in Thread, NEW t \in Task, NEW s \in Targets, Change(w, t, s) PROVE Rest
  <2>1. BusyIsUp'
    BY <1>2, <1>a, <1>b DEF Change, Serving, BusyIsUp
  <2>2. SnapshotsCarry'
    BY <1>2, <1>a, <1>b, JobShapes, StatusFacts DEF Change, Serving, SnapshotsCarry
  <2>3. AcknowledgedSurvives'
    BY <1>2, <1>b DEF Change, AcknowledgedSurvives
  <2>4. s \in Known \ Finished => owner[t] = ProcessOf[w]
    BY <1>2 DEF Change, Successors, Known, Finished, Terminal
  <2>5. NoZombies'
    BY <1>2, <2>4, <1>a, <1>b DEF Change, NoZombies, StoreInv
  <2>6. QED
    BY <2>1, <2>2, <2>3, <2>5
<1>3. ASSUME NEW w \in Thread, NEW t \in Task, Remove(w, t) PROVE Rest
  <2>1. BusyIsUp'
    BY <1>3, <1>a, <1>b DEF Remove, Serving, BusyIsUp
  <2>2. SnapshotsCarry'
    BY <1>3, <1>a, <1>b, JobShapes DEF Remove, Serving, SnapshotsCarry
  <2>3. AcknowledgedSurvives'
    BY <1>3, <1>b DEF Remove, AcknowledgedSurvives
  <2>4. NoZombies'
    BY <1>3, <1>a, <1>b, StatusFacts DEF Remove, NoZombies, StoreInv
  <2>5. QED
    BY <2>1, <2>2, <2>3, <2>4
<1>4. ASSUME NEW w \in Thread, Sweep(w) \/ Adopt(w) PROVE Rest
  <2> DEFINE p == ProcessOf[w]
  <2>0. /\ mem' = [mem EXCEPT ![p] = Closed(mem[p])]
        /\ job' = [job EXCEPT ![w] = Changed("all")]
        /\ phase'[p] \in {"restoring", "up"}
        /\ \A q \in Process : q # p => phase'[q] = phase[q]
        /\ UNCHANGED <<store, owner, acked, removed>>
    BY <1>4, <1>a DEF Sweep, Adopt, Serving, StoreInv
  <2>1. BusyIsUp'
    BY <2>0, <1>a, <1>b DEF BusyIsUp
  <2>2. SnapshotsCarry'
    <3>1. \A q \in Process, t \in Task : mem[q][t] # "none" => mem'[q][t] # "none"
      BY <2>0, <1>a, ClosedRows DEF StoreInv
    <3>2. QED
      BY <2>0, <3>1, <1>a, <1>b, JobShapes DEF SnapshotsCarry, Job
  <2>3. AcknowledgedSurvives'
    BY <2>0, <1>b DEF AcknowledgedSurvives
  <2>4. NoZombies'
    BY <2>0, <1>a, <1>b, ClosedRows DEF NoZombies, StoreInv
  <2>5. QED
    BY <2>1, <2>2, <2>3, <2>4
<1>5. ASSUME NEW w \in Thread, List(w) PROVE Rest
  <2>1. BusyIsUp'
    BY <1>5, <1>a, <1>b, JobShapes, JobKinds DEF List, BusyIsUp, StoreInv
  <2>2. SnapshotsCarry'
    BY <1>5, <1>a, <1>b, JobShapes, JobKinds DEF List, SnapshotsCarry
  <2>3. AcknowledgedSurvives' /\ NoZombies'
    BY <1>5, <1>b DEF List, AcknowledgedSurvives, NoZombies
  <2>4. QED
    BY <2>1, <2>2, <2>3
<1>6. ASSUME NEW w \in Thread, Upsert(w) PROVE Rest
  <2>0. job[w].rows \in [Task -> Record] /\ phase[ProcessOf[w]] \in {"restoring", "up"}
    BY <1>6, <1>a, <1>b, JobKinds DEF Upsert, BusyIsUp
  <2>1. BusyIsUp'
    BY <1>6, <1>a, <1>b DEF Upsert, Settled, BusyIsUp, StoreInv
  <2>2. SnapshotsCarry'
    BY <1>6, <1>a, <1>b, JobShapes DEF Upsert, SnapshotsCarry, StoreInv
  <2>3. AcknowledgedSurvives'
    BY <1>6, <2>0, <1>b, UpsertedRows DEF Upsert, AcknowledgedSurvives, SnapshotsCarry, StoreInv
  <2>4. NoZombies'
    BY <1>6, <2>0, <1>a, <1>b DEF Upsert, Settled, NoZombies, StoreInv
  <2>5. QED
    BY <2>1, <2>2, <2>3, <2>4
<1>7. ASSUME NEW w \in Thread, UpsertRefused(w) PROVE Rest
  <2>0. phase[ProcessOf[w]] \in {"restoring", "up"}
    BY <1>7, <1>a, <1>b, JobKinds DEF UpsertRefused, BusyIsUp
  <2>1. BusyIsUp'
    BY <1>7, <1>a, <1>b DEF UpsertRefused, Settled, BusyIsUp, StoreInv
  <2>2. SnapshotsCarry'
    BY <1>7, <1>a, <1>b, JobShapes DEF UpsertRefused, SnapshotsCarry, StoreInv
  <2>3. AcknowledgedSurvives'
    BY <1>7, <1>b DEF UpsertRefused, AcknowledgedSurvives
  <2>4. NoZombies'
    BY <1>7, <2>0, <1>a, <1>b DEF UpsertRefused, Settled, NoZombies, StoreInv
  <2>5. QED
    BY <2>1, <2>2, <2>3, <2>4
<1>8. ASSUME NEW w \in Thread, Delete(w) PROVE Rest
  <2>1. BusyIsUp'
    BY <1>8, <1>a, <1>b DEF Delete, BusyIsUp, StoreInv
  <2>2. SnapshotsCarry'
    BY <1>8, <1>a, <1>b, JobShapes DEF Delete, SnapshotsCarry, StoreInv
  <2>3. AcknowledgedSurvives'
    BY <1>8, <1>a, <1>b DEF Delete, AcknowledgedSurvives, SnapshotsCarry, StoreInv
  <2>4. NoZombies'
    BY <1>8, <1>b DEF Delete, NoZombies
  <2>5. QED
    BY <2>1, <2>2, <2>3, <2>4
<1>9. ASSUME NEW p \in Process, Crash(p) PROVE Rest
  <2>1. BusyIsUp'
    BY <1>9, <1>a, <1>b DEF Crash, BusyIsUp, StoreInv
  <2>2. SnapshotsCarry'
    BY <1>9, <1>a, <1>b, JobShapes DEF Crash, SnapshotsCarry, StoreInv
  <2>3. AcknowledgedSurvives'
    BY <1>9, <1>b DEF Crash, AcknowledgedSurvives
  <2>4. NoZombies'
    BY <1>9, <1>a, <1>b DEF Crash, NoZombies, StoreInv
  <2>5. QED
    BY <2>1, <2>2, <2>3, <2>4
<1>10. ASSUME NEW p \in Process, Load(p) PROVE Rest
  <2>1. \A w \in Thread : ProcessOf[w] = p => job[w] = Idle
    BY <1>10, <1>b DEF Load, BusyIsUp
  <2>2. BusyIsUp'
    BY <1>10, <2>1, <1>a, <1>b DEF Load, BusyIsUp, StoreInv
  <2>3. SnapshotsCarry'
    BY <1>10, <2>1, <1>a, <1>b, JobShapes DEF Load, SnapshotsCarry, StoreInv
  <2>4. AcknowledgedSurvives'
    BY <1>10, <1>b DEF Load, AcknowledgedSurvives
  <2>5. NoZombies'
    BY <1>10, <1>a, <1>b DEF Load, NoZombies, StoreInv
  <2>6. QED
    BY <2>2, <2>3, <2>4, <2>5
<1>11. ASSUME UNCHANGED vars PROVE Rest
  BY <1>11, <1>b DEF vars, BusyIsUp, SnapshotsCarry, AcknowledgedSurvives, NoZombies
<1>12. Rest
  BY <1>1, <1>2, <1>3, <1>4, <1>5, <1>6, <1>7, <1>8, <1>9, <1>10, <1>11 DEF Next
<1>13. QED
  BY <1>12 DEF StoreInv

LEMMA StoreInvHolds == Spec => []StoreInv
<1>1. Init => StoreInv
  <2>1. Init => TypeOK
    BY StatusFacts DEF Init, TypeOK, Blank, Job
  <2>2. QED
    BY <2>1, JobShapes DEF Init, StoreInv, BusyIsUp, SnapshotsCarry, AcknowledgedSurvives, NoZombies
<1>2. StoreInv /\ [Next]_vars => StoreInv'
  BY TypeStep, StoreStep DEF StoreInv
<1>3. QED
  BY <1>1, <1>2, PTL DEF Spec

\* A task whose enqueue was acknowledged keeps a row until somebody removes it,
\* whatever snapshots cross, whatever the store refuses and whoever crashes.
THEOREM AcknowledgedSurvivesHolds == Spec => []AcknowledgedSurvives
<1>1. StoreInv => AcknowledgedSurvives
  BY DEF StoreInv
<1>2. QED
  BY <1>1, StoreInvHolds, PTL

\* No serving process shows an open task that none of its threads will advance.
THEOREM NoZombiesHolds == Spec => []NoZombies
<1>1. StoreInv => NoZombies
  BY DEF StoreInv
<1>2. QED
  BY <1>1, StoreInvHolds, PTL
=============================================================================
