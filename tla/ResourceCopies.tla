--------------------------- MODULE ResourceCopies ---------------------------
(***************************************************************************)
(* Stored copies of what containers hold (dshboxd/src/resources.rs): tasks *)
(* take a copy of a container, put one into a container, or write a block  *)
(* into one; a connection deletes a copy.  A task holds the key of its own *)
(* container and of nothing else: a copy, its row and its directory, and   *)
(* the container an injection reads from, have no key.                     *)
(***************************************************************************)
EXTENDS Naturals, FiniteSets

CONSTANTS
  Home,      \* containers, all of one name
  Job,       \* threads that work on tasks
  MaxCopies, \* ids: <base>, <base>-2, ...
  MaxTaken   \* how many copies are begun

VARIABLES
  copied,  \* the row of an id: the copy it stands for, 0 for none
  packed,  \* the directory of an id: whose payload, and whether all of it
  jobs,    \* the task of a thread
  remover, \* the connection that deletes a copy
  taken,   \* copies begun
  doubled, \* two have been at the same copy at once
  cut      \* rows whose deletion ended half way
copyVars == <<copied, packed, jobs, remover, taken, doubled, cut>>

Copy == 1 .. MaxCopies
None == [by |-> 0, whole |-> FALSE]
\* What a container has of itself.
Own == [by |-> 0, whole |-> TRUE]
Idle == [op |-> "none", step |-> "none"]

CopiesInit ==
  /\ copied = [c \in Copy |-> 0] /\ packed = [c \in Copy |-> None]
  /\ jobs = [j \in Job |-> Idle] /\ remover = Idle
  /\ taken = 0 /\ doubled = FALSE /\ cut = {}

Step(j, op, step) == jobs[j].op = op /\ jobs[j].step = step
Ends(j) == jobs' = [jobs EXCEPT ![j] = Idle]
Goes(j, step) == jobs' = [jobs EXCEPT ![j].step = step]
\* The key container:<id> is free.
Free(h) == {j \in Job : jobs[j] # Idle /\ jobs[j].home = h} = {}
AtCopy(c) == \E j \in Job : jobs[j] # Idle /\ jobs[j].copy = c
Removing(c) == remover # Idle /\ remover.copy = c

\* A task starts its work, on a copy or straight from another container.  Its
\* container runs or not: tasks with the same key start and stop it in between.
\* (Taking a copy does not look.)
Begins(j, op, h, step, copy, by, from) ==
  \E up \in IF op = "extract" THEN {FALSE} ELSE BOOLEAN :
    /\ jobs[j] = Idle /\ Free(h)
    /\ jobs' = [jobs EXCEPT ![j] = [op |-> op, step |-> step, home |-> h, copy |-> copy, by |-> by, from |-> from,
                                    was |-> up, up |-> up, put |-> None]]
-----------------------------------------------------------------------------
(* Taking a copy *)

\* seeded fault: a copy of the same name replaces the one there is.
free_record_idFirst(rows) == 1
\* The first id without a row.
free_record_id(rows) == CHOOSE c \in Copy : rows[c] = 0 /\ \A d \in 1 .. c - 1 : rows[d] # 0

Chooses(j, h) ==
  /\ taken < MaxTaken /\ \E c \in Copy : copied[c] = 0
  /\ LET c == free_record_id(copied)
     IN /\ Begins(j, "extract", h, "wipe", c, taken + 1, h)
        /\ doubled' = (doubled \/ AtCopy(c) \/ Removing(c))
  /\ taken' = taken + 1
  /\ UNCHANGED <<copied, packed, remover, cut>>
\* Whatever stands there goes first, what an earlier attempt left included.
Wipes(j) ==
  /\ Step(j, "extract", "wipe") /\ Goes(j, "fill")
  /\ packed' = [packed EXCEPT ![jobs[j].copy] = [by |-> jobs[j].by, whole |-> FALSE]]
  /\ UNCHANGED <<copied, remover, taken, doubled, cut>>
\* Every part of it, unless one is missing.
Fills(j) ==
  /\ Step(j, "extract", "fill")
  /\ \/ /\ Goes(j, "register") /\ packed' = [packed EXCEPT ![jobs[j].copy] = [by |-> jobs[j].by, whole |-> TRUE]]
     \/ Ends(j) /\ UNCHANGED packed
  /\ UNCHANGED <<copied, remover, taken, doubled, cut>>
\* The row comes last; a cancelled task leaves the directory without one.
Registers(j) ==
  /\ Step(j, "extract", "register") /\ Ends(j)
  /\ copied' \in {copied, [copied EXCEPT ![jobs[j].copy] = jobs[j].by]}
  /\ cut' = IF copied' = copied THEN cut ELSE cut \ {jobs[j].copy}
  /\ UNCHANGED <<packed, remover, taken, doubled>>
-----------------------------------------------------------------------------
(* Putting one into a container, and writing a block into one *)

\* The row, and a directory below its id; or straight from another container.
Finds(j, h) ==
  /\ \/ \E c \in Copy :
          /\ copied[c] # 0 /\ packed[c].by # 0
          /\ Begins(j, "inject", h, "stop", c, copied[c], h)
          /\ doubled' = (doubled \/ Removing(c))
     \/ \E from \in Home \ {h} : Begins(j, "inject", h, "stage", 0, 0, from) /\ UNCHANGED doubled
  /\ UNCHANGED <<copied, packed, remover, taken, cut>>
\* The other container is read as it is, a write of another task half done or not.
Stages(j) ==
  /\ Step(j, "inject", "stage")
  /\ \/ Ends(j)
     \/ LET torn == \E k \in Job \ {j} : Step(k, jobs[k].op, "rest") /\ jobs[k].home = jobs[j].from
        IN jobs' = [jobs EXCEPT ![j].step = "stop", ![j].put = IF torn THEN None ELSE Own]
  /\ UNCHANGED <<copied, packed, remover, taken, doubled, cut>>
Composes(j, h) ==
  /\ Begins(j, "write", h, "stop", 0, 0, h)
  /\ UNCHANGED <<copied, packed, remover, taken, doubled, cut>>

\* A running container is stopped for it when the caller allows the restart; a
\* kind or a destination that nobody knows ends the task before that.
Stops(j, restart) ==
  /\ Step(j, jobs[j].op, "stop") /\ jobs[j].op # "extract"
  /\ \/ ((jobs[j].up /\ ~restart) \/ jobs[j].copy = 0) /\ Ends(j)
     \/ (jobs[j].up => restart) /\ jobs' = [jobs EXCEPT ![j].step = "put", ![j].up = FALSE]
  /\ UNCHANGED <<copied, packed, remover, taken, doubled, cut>>

\* One part after the other.
Source(j) ==
  IF jobs[j].op = "write" THEN Own
  ELSE IF jobs[j].copy # 0 THEN packed[jobs[j].copy] ELSE jobs[j].put
Puts(j) ==
  /\ \/ Step(j, jobs[j].op, "put") /\ Goes(j, "rest")
     \/ /\ Step(j, jobs[j].op, "rest")
        /\ jobs' = [jobs EXCEPT ![j].step = "restart", ![j].put = Source(j)]
  /\ UNCHANGED <<copied, packed, remover, taken, doubled, cut>>
\* A policy that refuses, a part that is missing, a file in the way.
PutFails(j) ==
  /\ \E step \in {"put", "rest"} : Step(j, jobs[j].op, step)
  /\ Ends(j)
  /\ UNCHANGED <<copied, packed, remover, taken, doubled, cut>>
\* A container that was running is started again, unless the task was cancelled
\* or the start fails.
Restarts(j) ==
  /\ Step(j, jobs[j].op, "restart")
  /\ \E again \in {FALSE, jobs[j].was} :
       jobs' = [jobs EXCEPT ![j] = [op |-> "none", step |-> "over", home |-> @.home, copy |-> 0, was |-> @.was, up |-> again]]
  /\ UNCHANGED <<copied, packed, remover, taken, doubled, cut>>
IsOver(j) ==
  /\ Step(j, "none", "over") /\ Ends(j)
  /\ UNCHANGED <<copied, packed, remover, taken, doubled, cut>>
-----------------------------------------------------------------------------
(* delete_resource: on a connection, with no key *)

Deletes(c) ==
  /\ remover = Idle /\ copied[c] # 0
  /\ remover' = [op |-> "delete", step |-> "files", copy |-> c]
  /\ doubled' = (doubled \/ AtCopy(c))
  /\ UNCHANGED <<copied, packed, jobs, taken, cut>>
DeletesFiles ==
  /\ remover.step = "files"
  /\ LET c == remover.copy
     IN \/ packed[c].whole /\ packed' = [packed EXCEPT ![c].whole = FALSE] /\ UNCHANGED remover
        \/ packed' = [packed EXCEPT ![c] = None] /\ remover' = [remover EXCEPT !.step = "row"]
  /\ UNCHANGED <<copied, jobs, taken, doubled, cut>>
\* A file that cannot be removed keeps the row.
DeletesRow ==
  /\ \/ /\ remover.step = "row" /\ copied' = [copied EXCEPT ![remover.copy] = 0] /\ cut' = cut \ {remover.copy}
     \/ remover.step = "files" /\ cut' = cut \cup {remover.copy} /\ UNCHANGED copied
  /\ remover' = Idle
  /\ UNCHANGED <<packed, jobs, taken, doubled>>

\* The daemon dies; hosts of containers live on.
CopiesDie ==
  /\ remover # Idle \/ \E j \in Job : jobs[j] # Idle
  /\ jobs' = [j \in Job |-> Idle] /\ remover' = Idle
  /\ cut' = IF remover = Idle THEN cut ELSE cut \cup {remover.copy}
  /\ UNCHANGED <<copied, packed, taken, doubled>>

JobStep(j) ==
  \/ \E h \in Home : Chooses(j, h) \/ Finds(j, h) \/ Composes(j, h)
  \/ Wipes(j) \/ Fills(j) \/ Registers(j) \/ Stages(j)
  \/ \E restart \in BOOLEAN : Stops(j, restart)
  \/ Puts(j) \/ PutFails(j) \/ Restarts(j) \/ IsOver(j)
CopiesNext ==
  /\ ~doubled
  /\ \/ \E j \in Job : JobStep(j)
     \/ \E c \in Copy : Deletes(c)
     \/ DeletesFiles \/ DeletesRow
     \/ CopiesDie
-----------------------------------------------------------------------------
\* A row that says there is a copy has the whole of that copy, as long as no two
\* are at the same copy at once: another copy of that name is a copy of its own,
\* and what a failed, cancelled or dead attempt left is not taken for one.  A
\* deletion that ended half way is the exception: the row stays, to be deleted again.
RowsHavePayloads ==
  ~doubled =>
    \A c \in Copy :
      \/ copied[c] = 0 \/ c \in cut \/ Removing(c)
      \/ packed[c] = [by |-> copied[c], whole |-> TRUE]
\* Nothing is put into a container while its host runs.
WrittenAtRest ==
  \A j \in Job : jobs[j] # Idle /\ jobs[j].step \in {"put", "rest", "restart"} => ~jobs[j].up
\* What a stored copy leaves in a container is that copy, all of it.
InjectedWhole ==
  \A j \in Job :
    (~doubled /\ Step(j, "inject", "restart") /\ jobs[j].copy # 0 /\ jobs[j].copy \notin cut) =>
       jobs[j].put = [by |-> jobs[j].by, whole |-> TRUE]
CopiesSound == RowsHavePayloads /\ WrittenAtRest /\ InjectedWhole

\* No two tasks or connections are at one copy.  It fails: see the README.
NoTwoAtOnce == ~doubled
\* What is read from another container is whole.  It fails: see the README.
FromIsWhole ==
  \A j \in Job :
    (Step(j, "inject", "restart") /\ jobs[j].copy = 0) => jobs[j].put.whole
\* A container stopped for a copy runs again when the task is over.  It fails:
\* see the README.
RunsAgain == \A j \in Job : jobs[j].step = "over" => jobs[j].up = jobs[j].was
=============================================================================
