---------------------------- MODULE ProcessTree ----------------------------
(***************************************************************************)
(* One child process of the daemon, with a process it started, and the     *)
(* handle that waits for it and kills it, on Linux.  A container's host    *)
(* leads a group of its own and its group is read when it starts; a task's *)
(* program stays in the daemon's group.  Signals go to groups.             *)
(***************************************************************************)
LOCAL INSTANCE Naturals

VARIABLES
  spawnedBy,   \* "host" or "task"
  stage,  \* where the holder of the handle is
  child,  \* "running", "zombie" (ended, not waited for) or "reaped"
  helper, \* the process the child started: "running" or "gone"
  pgid,   \* TrackedChild::pgid: unread, own, daemon's, or what getpgid says of nobody
  reaped, \* TrackedChild::reaped
  stubborn, \* who ignores a polite signal
  reused, \* the child's number was given to another process
  hit     \* who was ever sent a signal

treeVars == <<spawnedBy, stage, child, helper, pgid, reaped, stubborn, reused, hit>>

TreeInit ==
  /\ spawnedBy \in {"host", "task"}
  /\ stage = IF spawnedBy = "host" THEN "starting" ELSE "polling"
  /\ child = "running" /\ helper = "running"
  /\ pgid = "unread" /\ reaped = FALSE
  /\ stubborn \in SUBSET {"child", "helper"}
  /\ reused = FALSE /\ hit = {}

OwnTree == (IF child = "running" THEN {"child"} ELSE {}) \cup (IF helper = "running" THEN {"helper"} ELSE {})
detect_pgid == IF child = "reaped" /\ ~reused THEN "nobody" ELSE IF reused THEN "stranger"
               ELSE IF spawnedBy = "host" THEN "own" ELSE "daemon"
Group == IF pgid = "unread" THEN detect_pgid ELSE pgid

\* The processes of the group a signal is sent to.  A group with no process
\* left is no error, and then nothing is signalled.  The group of a process
\* that is not there is -1, and the signal goes to process 1.
Members(group) ==
  CASE group = "own"      -> IF spawnedBy = "host" THEN OwnTree \cup (IF reused /\ OwnTree = {} THEN {"stranger"} ELSE {}) ELSE {}
    [] group = "daemon"   -> {"daemon"} \cup OwnTree
    [] group = "stranger" -> {"stranger"}
    [] group = "nobody"   -> {"init"}

kill_tree_pid(group, force) ==
  LET sent == Members(group)
      ends == IF force THEN sent ELSE sent \ stubborn
  IN /\ hit' = hit \cup sent
     /\ child' = IF "child" \in ends THEN "zombie" ELSE child
     /\ helper' = IF "helper" \in ends THEN "gone" ELSE helper

Goto(next) == stage' = next
Quiet == UNCHANGED <<child, helper, hit>>
Same == UNCHANGED <<spawnedBy, stubborn, reused>>
-----------------------------------------------------------------------------
(* The host: started, watched, stopped. *)

\* seeded fault: the group is left to be read when it is needed.
ReadGroupLate == pgid' = pgid
ReadGroup == pgid' = Group
Starts ==
  /\ stage = "starting" /\ Goto("up")
  /\ ReadGroup
  /\ UNCHANGED <<reaped>> /\ Quiet /\ Same

\* has_exited: an ended child is waited for and the flag stays.
Watched ==
  /\ stage = "up" /\ child = "zombie" /\ child' = "reaped"
  /\ UNCHANGED <<stage, pgid, reaped, helper, hit>> /\ Same

\* HostHandle::stop, kill_tree without force.
Stop ==
  /\ stage = "up" /\ Goto("grace")
  /\ pgid' = Group /\ kill_tree_pid(Group, FALSE)
  /\ UNCHANGED reaped /\ Same

\* wait_timeout over the grace: the child ends, or it does not in time.
GraceEnds ==
  /\ stage = "grace"
  /\ \/ /\ child \in {"zombie", "reaped"} /\ child' = "reaped" /\ reaped' = TRUE /\ Goto("drop")
        /\ UNCHANGED <<helper, hit>>
     \/ /\ child = "running" /\ Goto("reap") /\ kill_tree_pid(pgid, TRUE) /\ UNCHANGED reaped
  /\ UNCHANGED pgid /\ Same

\* reap_blocking
Reap ==
  /\ stage = "reap" /\ child \in {"zombie", "reaped"}
  /\ child' = "reaped" /\ reaped' = TRUE /\ Goto("drop")
  /\ UNCHANGED <<pgid, helper, hit>> /\ Same

\* The handle goes without a stop: a failed start.
Discard == stage = "up" /\ Goto("drop") /\ UNCHANGED <<pgid, reaped>> /\ Quiet /\ Same
-----------------------------------------------------------------------------
(* The task: wait_or_kill. *)

\* The kill names the group by the child's number, which is a group only for a
\* child that leads one.
NamedGroup == "own"

\* A cancel, or the deadline.
GiveUp ==
  /\ stage = "polling" /\ Goto("short")
  /\ kill_tree_pid(NamedGroup, TRUE)
  /\ UNCHANGED <<pgid, reaped>> /\ Same

Finished ==
  /\ stage = "polling" /\ child = "zombie" /\ child' = "reaped" /\ Goto("drop")
  /\ UNCHANGED <<pgid, reaped, helper, hit>> /\ Same

\* Two seconds after the kill.
ShortWait ==
  /\ stage = "short" /\ Goto("drop")
  /\ \/ child # "running" /\ child' = "reaped" /\ reaped' = TRUE
     \/ child = "running" /\ UNCHANGED <<child, reaped>>
  /\ UNCHANGED <<pgid, helper, hit>> /\ Same
-----------------------------------------------------------------------------
(* Drop. *)

\* seeded fault: the handle goes after the polite signal.
DropOnce ==
  /\ stage = "drop" /\ Goto("gone")
  /\ IF reaped THEN UNCHANGED <<pgid, child, helper, hit>>
     ELSE pgid' = Group /\ kill_tree_pid(Group, FALSE)
  /\ UNCHANGED reaped /\ Same
Drop ==
  /\ stage = "drop"
  /\ IF reaped THEN Goto("gone") /\ UNCHANGED <<pgid, child, helper, hit>>
     ELSE Goto("dropping") /\ pgid' = Group /\ kill_tree_pid(Group, FALSE)
  /\ UNCHANGED reaped /\ Same

DropWaits ==
  /\ stage = "dropping"
  /\ \/ /\ child \in {"zombie", "reaped"} /\ child' = "reaped" /\ reaped' = TRUE /\ Goto("gone")
        /\ UNCHANGED <<helper, hit>>
     \/ /\ child = "running" /\ Goto("blocked") /\ kill_tree_pid(pgid, TRUE) /\ UNCHANGED reaped
  /\ UNCHANGED pgid /\ Same

DropEnds ==
  /\ stage = "blocked" /\ child \in {"zombie", "reaped"}
  /\ child' = "reaped" /\ reaped' = TRUE /\ Goto("gone")
  /\ UNCHANGED <<pgid, helper, hit>> /\ Same
-----------------------------------------------------------------------------
(* The processes. *)

ChildExits == child = "running" /\ child' = "zombie" /\ UNCHANGED <<stage, pgid, reaped, helper, hit>> /\ Same
HelperExits == helper = "running" /\ helper' = "gone" /\ UNCHANGED <<stage, pgid, reaped, child, hit>> /\ Same
NumberReused ==
  /\ child = "reaped" /\ ~reused /\ reused' = TRUE
  /\ UNCHANGED <<spawnedBy, stubborn, stage, pgid, reaped>> /\ Quiet

TreeNext ==
  \/ Starts \/ Watched \/ Stop \/ GraceEnds \/ Reap \/ Discard
  \/ GiveUp \/ Finished \/ ShortWait
  \/ Drop \/ DropWaits \/ DropEnds
  \/ ChildExits \/ HelperExits \/ NumberReused
-----------------------------------------------------------------------------
\* What a host's handle signals is the host's tree, as long as the child's
\* number is nobody else's; and no handle leaves its child running or a zombie.
ProcessesSound ==
  /\ spawnedBy = "host" => hit \subseteq {"child", "helper"} \cup (IF reused THEN {"stranger"} ELSE {})
  /\ stage = "gone" => child = "reaped"

\* A cancelled task's program is killed, and nothing else is.  It fails: see
\* the README.
CancelKills == (spawnedBy = "task" /\ stage = "short") => child # "running"
TaskContained == spawnedBy = "task" => hit \subseteq {"child", "helper"}
\* A handle leaves nothing of its tree.  It fails: see the README.
TreeEnds == (spawnedBy = "host" /\ stage = "gone") => helper = "gone"
=============================================================================
