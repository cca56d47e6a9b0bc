---------------------------- MODULE PartsProofs ----------------------------
(***************************************************************************)
(* Theorems about the process trees and the start of the daemon, about the *)
(* checks for a new release, its download and the settings of the machine, *)
(* and about the repository of extensions and what is installed in a       *)
(* container, for every number of daemons, ports, releases, connections,   *)
(* plugins, skills and tasks.  A part is followed alone, so an invariant   *)
(* speaks of the part that is there, and a step of it is a step of its own *)
(* module.                                                                 *)
(***************************************************************************)
EXTENDS Parts, FiniteSetTheorems, TLAPS

USE PortAssumption

-----------------------------------------------------------------------------
(* A process and the handle that waits for it (ProcessTree). *)

LEMMA TreeMoves ==
  ASSUME part = "tree", [PartsNext]_partsVars
  PROVE  part' = "tree" /\ (Tree!TreeNext \/ UNCHANGED tree)
BY DEF PartsNext, partsVars, TreeStep, StoreStep, CheckStep, DownloadStep, DeletionStep, RepositoryStep,
       InstallStep, CopyStep, RegistryStep, SettingStep, MirrorStep, FeedStep, EndpointStep, OpeningStep

\* What the handle may take for the child's group.
Groups == {"own", "daemon", "stranger", "nobody"}
\* A host's group is read before its child can have been waited for, and is the
\* child's own from then on.
GroupIsOwn ==
  spawnedBy = "host" =>
    IF stage = "starting" THEN pgid = "unread" /\ child # "reaped" ELSE pgid = "own"
\* What is waited for has ended, and only then its number is free.
ReapedOnce == (reaped \/ reused \/ stage = "gone") => child = "reaped"
TreeInv ==
  /\ spawnedBy \in {"host", "task"} /\ child \in {"running", "zombie", "reaped"}
  /\ pgid \in {"unread"} \cup Groups /\ (stage \in {"grace", "dropping"} => pgid # "unread")
  /\ GroupIsOwn /\ ReapedOnce
  /\ Tree!ProcessesSound

\* The signals sent to the group of a host hit its tree, and wait for nobody.
LEMMA SignalsStayInTree ==
  ASSUME NEW group \in Groups, NEW force,
         TreeInv, Tree!kill_tree_pid(group, force),
         spawnedBy = "host" => group = "own"
  PROVE  /\ spawnedBy = "host" => hit' \subseteq {"child", "helper"} \cup (IF reused THEN {"stranger"} ELSE {})
         /\ child' \in {child, "zombie"} /\ (child' # child => child = "running")
<1>1. child' \in {child, "zombie"} /\ (child' # child => child = "running")
  <2>1. "child" \in Tree!Members(group) => child = "running"
    BY DEF Groups, Tree!Members, Tree!OwnTree
  <2>2. QED
    BY <2>1 DEF TreeInv, Tree!kill_tree_pid
<1>2. ASSUME spawnedBy = "host"
      PROVE  hit' \subseteq {"child", "helper"} \cup (IF reused THEN {"stranger"} ELSE {})
  <2>1. Tree!Members("own") \subseteq {"child", "helper"} \cup (IF reused THEN {"stranger"} ELSE {})
    BY <1>2 DEF Tree!Members, Tree!OwnTree
  <2>2. QED
    BY <1>2, <2>1 DEF TreeInv, Tree!ProcessesSound, Tree!kill_tree_pid
<1>3. QED
  BY <1>1, <1>2

\* The group that is signalled is the one that was read, or is read now.
LEMMA GroupIsRead ==
  ASSUME TreeInv, stage # "starting"
  PROVE  Tree!Group \in Groups /\ (spawnedBy = "host" => Tree!Group = "own")
BY DEF TreeInv, Groups, GroupIsOwn, Tree!Group, Tree!detect_pgid

LEMMA TreeStepKeeps ==
  ASSUME TreeInv, Tree!TreeNext
  PROVE  TreeInv'
<1> USE DEF TreeInv, Groups, GroupIsOwn, ReapedOnce, Tree!ProcessesSound, Tree!Same, Tree!Goto
<1>1. CASE Tree!Starts
  BY <1>1 DEF Tree!Starts, Tree!ReadGroup, Tree!Quiet, Tree!Group, Tree!detect_pgid
<1>2. CASE Tree!Watched \/ Tree!Reap \/ Tree!Discard \/ Tree!Finished \/ Tree!ShortWait \/ Tree!DropEnds
  <2>1. UNCHANGED <<spawnedBy, stubborn, reused, pgid, hit>> /\ child' \in {child, "reaped"}
    BY <1>2 DEF Tree!Watched, Tree!Reap, Tree!Discard, Tree!Finished, Tree!ShortWait, Tree!DropEnds, Tree!Quiet
  <2>2. stage # "starting" /\ stage' \notin {"starting", "grace", "dropping"}
    BY <1>2 DEF Tree!Watched, Tree!Reap, Tree!Discard, Tree!Finished, Tree!ShortWait, Tree!DropEnds
  <2>3. (reaped' \/ stage' = "gone") => child' = "reaped"
    BY <1>2 DEF Tree!Watched, Tree!Reap, Tree!Discard, Tree!Finished, Tree!ShortWait, Tree!DropEnds, Tree!Quiet
  <2>4. QED
    BY <2>1, <2>2, <2>3
<1>3. CASE Tree!Stop
  <2>1. Tree!Group \in Groups /\ (spawnedBy = "host" => Tree!Group = "own") /\ Tree!kill_tree_pid(Tree!Group, FALSE)
    BY <1>3, GroupIsRead DEF Tree!Stop
  <2>2. QED
    BY <1>3, <2>1, SignalsStayInTree DEF Tree!Stop
<1>4. CASE Tree!GraceEnds
  <2>1. /\ pgid' = pgid /\ pgid \in Groups /\ (spawnedBy = "host" => pgid = "own")
        /\ UNCHANGED <<spawnedBy, stubborn, reused>> /\ stage' \notin {"starting", "grace", "dropping"}
    BY <1>4 DEF Tree!GraceEnds
  <2>2. CASE child = "running" /\ Tree!kill_tree_pid(pgid, TRUE) /\ UNCHANGED reaped /\ stage' # "gone"
    <3>1. /\ spawnedBy = "host" => hit' \subseteq {"child", "helper"} \cup (IF reused THEN {"stranger"} ELSE {})
          /\ child' \in {child, "zombie"}
      BY <2>1, <2>2, SignalsStayInTree
    <3>2. QED
      BY <2>1, <2>2, <3>1
  <2>3. CASE child' = "reaped" /\ UNCHANGED hit
    BY <2>1, <2>3
  <2>4. QED
    BY <1>4, <2>2, <2>3 DEF Tree!GraceEnds
<1>5. CASE Tree!GiveUp
  BY <1>5, SignalsStayInTree DEF Tree!GiveUp, Tree!NamedGroup
<1>6. CASE Tree!Drop
  BY <1>6, SignalsStayInTree, GroupIsRead DEF Tree!Drop
<1>7. CASE Tree!DropWaits
  <2>1. /\ pgid' = pgid /\ pgid \in Groups /\ (spawnedBy = "host" => pgid = "own")
        /\ UNCHANGED <<spawnedBy, stubborn, reused>> /\ stage' \notin {"starting", "grace", "dropping"}
    BY <1>7 DEF Tree!DropWaits
  <2>2. CASE child = "running" /\ Tree!kill_tree_pid(pgid, TRUE) /\ UNCHANGED reaped /\ stage' # "gone"
    <3>1. /\ spawnedBy = "host" => hit' \subseteq {"child", "helper"} \cup (IF reused THEN {"stranger"} ELSE {})
          /\ child' \in {child, "zombie"}
      BY <2>1, <2>2, SignalsStayInTree
    <3>2. QED
      BY <2>1, <2>2, <3>1
  <2>3. CASE child' = "reaped" /\ UNCHANGED hit
    BY <2>1, <2>3
  <2>4. QED
    BY <1>7, <2>2, <2>3 DEF Tree!DropWaits
<1>8. CASE Tree!ChildExits \/ Tree!HelperExits \/ Tree!NumberReused
  BY <1>8 DEF Tree!ChildExits, Tree!HelperExits, Tree!NumberReused, Tree!Quiet
<1>9. QED
  BY <1>1, <1>2, <1>3, <1>4, <1>5, <1>6, <1>7, <1>8 DEF Tree!TreeNext

LEMMA TreeHolds == PartsSpec => [](part = "tree" => TreeInv)
<1>1. PartsInit => (part = "tree" => TreeInv)
  BY DEF PartsInit, PartsStart, Tree!TreeInit, TreeInv, Groups, GroupIsOwn, ReapedOnce, Tree!ProcessesSound
<1>2. (part = "tree" => TreeInv) /\ [PartsNext]_partsVars => (part = "tree" => TreeInv)'
  <2> SUFFICES ASSUME part = "tree" => TreeInv, [PartsNext]_partsVars, part' = "tree" PROVE TreeInv'
    OBVIOUS
  <2>1. part = "tree"
    BY DEF PartsNext, partsVars
  <2>2. CASE Tree!TreeNext
    BY <2>1, <2>2, TreeStepKeeps
  <2>3. CASE UNCHANGED tree
    BY <2>1, <2>3 DEF tree, TreeInv, Groups, GroupIsOwn, ReapedOnce, Tree!ProcessesSound
  <2>4. QED
    BY <2>1, <2>2, <2>3, TreeMoves
<1>3. QED
  BY <1>1, <1>2, PTL DEF PartsSpec
-----------------------------------------------------------------------------
(* The daemons that are started, and the file that names one (DaemonEndpoint). *)

LEMMA EndpointMoves ==
  ASSUME part = "endpoint", [PartsNext]_partsVars
  PROVE  part' = "endpoint" /\ (Endpoint!EndpointNext \/ UNCHANGED endpoint)
BY DEF PartsNext, partsVars, TreeStep, StoreStep, CheckStep, DownloadStep, DeletionStep, RepositoryStep,
       InstallStep, CopyStep, RegistryStep, SettingStep, MirrorStep, FeedStep, EndpointStep, OpeningStep

AnyPort == Port \cup {0}
Record == [by : Daemon \cup {"none"}, port : AnyPort]
DaemonSteps == {"none", "probe", "dial", "clear", "load", "bound", "named", "serving", "stopping", "leaving",
                "dead", "refused"}
EndpointType ==
  /\ daemons \in [Daemon -> [at : DaemonSteps, port : AnyPort, saw : Record]]
  /\ discovery \in Record /\ temporary \in Record
  /\ finder \in [at : {"idle", "ping", "spawn", "found"}, saw : Record, with : Daemon \cup {"none"}, spawned : BOOLEAN]
  /\ finder.at = "found" => finder.with \in Daemon
  /\ raced \in BOOLEAN
\* A daemon that listens has a port.
ListensOnPort == \A d \in Daemon : Endpoint!Listens(d) => daemons[d].port \in Port

Begun(d) == Endpoint!In(d, Endpoint!Starting)
Lasts(d) == Endpoint!In(d, {"serving", "stopping", "leaving"})
Up(d) == Endpoint!In(d, {"serving", "stopping"})
RecordOf(d) == [by |-> d, port |-> daemons[d].port]
\* Started one after the other: one at most starts and one at most is there; who
\* starts while another one serves has read its record, and goes no further than
\* the question whether somebody answers.
OneAtATime ==
  /\ \A d, e \in Daemon : Begun(d) /\ Begun(e) => d = e
  /\ \A d, e \in Daemon : Begun(d) => ~Endpoint!In(e, {"stopping", "leaving"})
  /\ \A d, e \in Daemon : Lasts(d) /\ Lasts(e) => d = e
RecordsAgree ==
  /\ \A d \in Daemon : Up(d) => discovery = RecordOf(d)
  /\ \A d, e \in Daemon : Endpoint!In(d, {"dial"}) /\ Up(e) => daemons[d].saw = RecordOf(e)
  /\ \A d, e \in Daemon : Endpoint!In(d, {"clear", "load", "bound", "named"}) => ~Up(e)
  /\ \A d \in Daemon : Endpoint!In(d, {"named"}) => temporary = RecordOf(d)
EndpointInv ==
  /\ EndpointType /\ ListensOnPort
  /\ Endpoint!FoundIsNamed
  /\ ~raced => OneAtATime /\ RecordsAgree

LEMMA EndpointStepKeeps ==
  ASSUME EndpointInv, Endpoint!EndpointNext
  PROVE  EndpointInv'
<1> USE DEF EndpointInv, EndpointType, ListensOnPort, OneAtATime, RecordsAgree, Begun, Lasts, Up, RecordOf,
            AnyPort, Record, DaemonSteps, Endpoint!FoundIsNamed, Endpoint!In, Endpoint!Listens, Endpoint!Goes,
            Endpoint!Starting, Endpoint!Hurries, Endpoint!Taken, Endpoint!Files, Endpoint!Others,
            Endpoint!NoRecord, Endpoint!Looking, Endpoint!Spawns, Endpoint!Answers, Endpoint!Finds,
            Endpoint!record_daemon_build
<1>1. ASSUME NEW d \in Daemon, Endpoint!Starts(d) PROVE EndpointInv'
  <2>1. EndpointType'
    BY <1>1 DEF Endpoint!Starts
  <2>2. ListensOnPort'
    BY <1>1 DEF Endpoint!Starts
  <2>3. Endpoint!FoundIsNamed'
    BY <1>1 DEF Endpoint!Starts
  <2>4. ASSUME ~raced' PROVE OneAtATime'
    <3>1. /\ ~raced /\ \A e \in Daemon : ~Endpoint!In(e, Endpoint!Starting \cup {"stopping", "leaving"})
          /\ daemons' = [daemons EXCEPT ![d] = [at |-> "probe", saw |-> Endpoint!NoRecord, port |-> daemons[d].port]]
      BY <1>1, <2>4 DEF Endpoint!Starts
    <3>2. \A e \in Daemon : daemons'[e].at = IF e = d THEN "probe" ELSE daemons[e].at
      BY <3>1
    <3>3. QED
      BY <3>1, <3>2
  <2>5. ASSUME ~raced' PROVE RecordsAgree'
    BY <1>1, <2>5 DEF Endpoint!Starts
  <2>6. QED
    BY <2>1, <2>2, <2>3, <2>4, <2>5
<1>2. ASSUME NEW d \in Daemon, Endpoint!Probes(d) PROVE EndpointInv'
  BY <1>2 DEF Endpoint!Probes
<1>3. ASSUME NEW d \in Daemon, Endpoint!Dials(d) PROVE EndpointInv'
  BY <1>3 DEF Endpoint!Dials
<1>4. ASSUME NEW d \in Daemon, Endpoint!Clears(d) PROVE EndpointInv'
  BY <1>4 DEF Endpoint!Clears
<1>5. ASSUME NEW d \in Daemon, Endpoint!LoadFails(d) PROVE EndpointInv'
  BY <1>5 DEF Endpoint!LoadFails
<1>6. ASSUME NEW d \in Daemon, Endpoint!Binds(d) PROVE EndpointInv'
  <2>1. EndpointType'
    <3>1. PICK p \in Port : daemons' = [daemons EXCEPT ![d].at = "bound", ![d].port = p]
      BY <1>6 DEF Endpoint!Binds
    <3>2. daemons'[d] \in [at : DaemonSteps, port : AnyPort, saw : Record]
      <4>1. daemons'[d] = [[daemons[d] EXCEPT !.at = "bound"] EXCEPT !.port = p]
        BY <3>1
      <4>2. daemons[d] \in [at : DaemonSteps, port : AnyPort, saw : Record]
        OBVIOUS
      <4>3. QED
        BY <4>1, <4>2
    <3>3. \A e \in Daemon \ {d} : daemons'[e] = daemons[e]
      BY <3>1
    <3>4. daemons' = [e \in Daemon |-> daemons'[e]]
      BY <3>1
    <3>5. daemons' \in [Daemon -> [at : DaemonSteps, port : AnyPort, saw : Record]]
      BY <3>2, <3>3, <3>4
    <3>6. QED
      BY <1>6, <3>5 DEF Endpoint!Binds
  <2>2. ListensOnPort'
    BY <1>6 DEF Endpoint!Binds
  <2>3. Endpoint!FoundIsNamed'
    BY <1>6 DEF Endpoint!Binds
  <2>4. ASSUME ~raced' PROVE OneAtATime'
    BY <1>6, <2>4 DEF Endpoint!Binds
  <2>5. ASSUME ~raced' PROVE RecordsAgree'
    BY <1>6, <2>5 DEF Endpoint!Binds
  <2>6. QED
    BY <2>1, <2>2, <2>3, <2>4, <2>5
<1>7. ASSUME NEW d \in Daemon, Endpoint!WritesRecord(d) PROVE EndpointInv'
  BY <1>7 DEF Endpoint!WritesRecord
<1>8. ASSUME NEW d \in Daemon, Endpoint!Publishes(d) PROVE EndpointInv'
  <2>1. EndpointType'
    BY <1>8 DEF Endpoint!Publishes
  <2>2. ListensOnPort'
    BY <1>8 DEF Endpoint!Publishes
  <2>3. Endpoint!FoundIsNamed'
    BY <1>8 DEF Endpoint!Publishes
  <2>4. ASSUME ~raced' PROVE OneAtATime'
    <3>1. ~raced /\ Begun(d) /\ \A e \in Daemon : ~Lasts(e) /\ (Begun(e) => e = d)
      BY <1>8, <2>4 DEF Endpoint!Publishes
    <3>2. \A e \in Daemon : daemons'[e].at = IF e = d THEN daemons'[d].at ELSE daemons[e].at
      BY <1>8 DEF Endpoint!Publishes
    <3>3. daemons'[d].at \in {"serving", "dead"}
      BY <1>8 DEF Endpoint!Publishes
    <3>4. QED
      BY <3>1, <3>2, <3>3
  <2>5. ASSUME ~raced' PROVE RecordsAgree'
    <3>1. temporary = RecordOf(d) /\ temporary # Endpoint!NoRecord /\ \A e \in Daemon : ~Up(e) /\ (Begun(e) => e = d)
      BY <1>8, <2>5 DEF Endpoint!Publishes
    <3>2. /\ discovery' = RecordOf(d)
          /\ daemons' = [daemons EXCEPT ![d] = [at |-> "serving", saw |-> Endpoint!NoRecord, port |-> daemons[d].port]]
      BY <1>8, <3>1 DEF Endpoint!Publishes
    <3>3. \A e \in Daemon : daemons'[e] = IF e = d THEN [at |-> "serving", saw |-> Endpoint!NoRecord, port |-> daemons[d].port]
                                          ELSE daemons[e]
      BY <3>2
    <3>4. QED
      BY <3>1, <3>2, <3>3
  <2>6. QED
    BY <2>1, <2>2, <2>3, <2>4, <2>5
<1>9. ASSUME NEW d \in Daemon, Endpoint!ShutsDown(d) PROVE EndpointInv'
  <2>1. EndpointType'
    BY <1>9 DEF Endpoint!ShutsDown
  <2>2. ListensOnPort'
    BY <1>9 DEF Endpoint!ShutsDown
  <2>3. Endpoint!FoundIsNamed'
    BY <1>9 DEF Endpoint!ShutsDown
  <2>4. ASSUME ~raced' PROVE OneAtATime'
    BY <1>9, <2>4 DEF Endpoint!ShutsDown
  <2>5. ASSUME ~raced' PROVE RecordsAgree'
    BY <1>9, <2>5 DEF Endpoint!ShutsDown
  <2>6. QED
    BY <2>1, <2>2, <2>3, <2>4, <2>5
<1>10. ASSUME NEW d \in Daemon, Endpoint!remove_discovery(d) PROVE EndpointInv'
  BY <1>10 DEF Endpoint!remove_discovery
<1>11. ASSUME NEW d \in Daemon, Endpoint!RemovesAgain(d) PROVE EndpointInv'
  BY <1>11 DEF Endpoint!RemovesAgain
<1>12. ASSUME NEW d \in Daemon, Endpoint!Exits(d) PROVE EndpointInv'
  BY <1>12 DEF Endpoint!Exits
<1>13. ASSUME NEW d \in Daemon, Endpoint!Crashes(d) PROVE EndpointInv'
  BY <1>13 DEF Endpoint!Crashes
<1>14. ASSUME NEW d \in Daemon, Endpoint!ping(d) PROVE EndpointInv'
  <2>1. EndpointType'
    BY <1>14 DEF Endpoint!ping
  <2>2. ListensOnPort'
    BY <1>14 DEF Endpoint!ping
  <2>3. Endpoint!FoundIsNamed'
    BY <1>14 DEF Endpoint!ping
  <2>4. ASSUME ~raced' PROVE OneAtATime'
    BY <1>14, <2>4 DEF Endpoint!ping
  <2>5. ASSUME ~raced' PROVE RecordsAgree'
    BY <1>14, <2>5 DEF Endpoint!ping
  <2>6. QED
    BY <2>1, <2>2, <2>3, <2>4, <2>5
<1>15. ASSUME NEW d \in Daemon, Endpoint!spawn_daemon(d) PROVE EndpointInv'
  <2>1. EndpointType'
    BY <1>15 DEF Endpoint!spawn_daemon
  <2>2. ListensOnPort'
    BY <1>15 DEF Endpoint!spawn_daemon
  <2>3. Endpoint!FoundIsNamed'
    BY <1>15 DEF Endpoint!spawn_daemon
  <2>4. ASSUME ~raced' PROVE OneAtATime'
    <3>1. /\ ~raced /\ \A e \in Daemon : ~Endpoint!In(e, Endpoint!Starting \cup {"stopping", "leaving"})
          /\ daemons' = [daemons EXCEPT ![d] = [at |-> "probe", saw |-> Endpoint!NoRecord, port |-> daemons[d].port]]
      BY <1>15, <2>4 DEF Endpoint!spawn_daemon
    <3>2. \A e \in Daemon : daemons'[e].at = IF e = d THEN "probe" ELSE daemons[e].at
      BY <3>1
    <3>3. QED
      BY <3>1, <3>2
  <2>5. ASSUME ~raced' PROVE RecordsAgree'
    BY <1>15, <2>5 DEF Endpoint!spawn_daemon
  <2>6. QED
    BY <2>1, <2>2, <2>3, <2>4, <2>5
<1>16. CASE Endpoint!read_discovery
  <2>1. EndpointType'
    BY <1>16 DEF Endpoint!read_discovery
  <2>2. ListensOnPort'
    BY <1>16 DEF Endpoint!read_discovery
  <2>3. Endpoint!FoundIsNamed'
    BY <1>16 DEF Endpoint!read_discovery
  <2>4. ASSUME ~raced' PROVE OneAtATime'
    BY <1>16, <2>4 DEF Endpoint!read_discovery
  <2>5. ASSUME ~raced' PROVE RecordsAgree'
    BY <1>16, <2>5 DEF Endpoint!read_discovery
  <2>6. QED
    BY <2>1, <2>2, <2>3, <2>4, <2>5
<1>17. CASE Endpoint!PingFails
  BY <1>17 DEF Endpoint!PingFails
<1>18. CASE Endpoint!NoneThere
  BY <1>18 DEF Endpoint!NoneThere
<1>19. CASE Endpoint!GivesUp
  BY <1>19 DEF Endpoint!GivesUp
<1>20. CASE Endpoint!reconcile_daemon_build
  BY <1>20 DEF Endpoint!reconcile_daemon_build
<1>21. CASE Endpoint!AsksToStop
  <2>1. EndpointType'
    BY <1>21 DEF Endpoint!AsksToStop
  <2>2. ListensOnPort'
    BY <1>21 DEF Endpoint!AsksToStop
  <2>3. Endpoint!FoundIsNamed'
    BY <1>21 DEF Endpoint!AsksToStop
  <2>4. ASSUME ~raced' PROVE OneAtATime'
    BY <1>21, <2>4 DEF Endpoint!AsksToStop
  <2>5. ASSUME ~raced' PROVE RecordsAgree'
    <3>1. PICK w \in Daemon : w = finder.with /\ Up(w)
      BY <1>21 DEF Endpoint!AsksToStop
    <3>2. ~raced /\ \A e \in Daemon : ~Begun(e)
      BY <1>21, <2>5 DEF Endpoint!AsksToStop
    <3>3. ~raced /\ \A e \in Daemon : ~Begun(e) /\ (Up(e) => e = w)
      BY <3>2, <3>1
    <3>4. \A e \in Daemon : daemons'[e].at = IF e = w THEN "leaving" ELSE daemons[e].at
      BY <1>21, <3>1 DEF Endpoint!AsksToStop
    <3>5. QED
      BY <3>3, <3>4
  <2>6. QED
    BY <2>1, <2>2, <2>3, <2>4, <2>5
<1>22. CASE Endpoint!Lets
  BY <1>22 DEF Endpoint!Lets
<1>23. ASSUME NEW p \in Port, Endpoint!TakesPort(p) \/ Endpoint!LeavesPort(p) PROVE EndpointInv'
  BY <1>23 DEF Endpoint!TakesPort, Endpoint!LeavesPort
<1>24. QED
  BY <1>1, <1>2, <1>3, <1>4, <1>5, <1>6, <1>7, <1>8, <1>9, <1>10, <1>11, <1>12, <1>13, <1>14, <1>15, <1>16, <1>17,
     <1>18, <1>19, <1>20, <1>21, <1>22, <1>23 DEF Endpoint!EndpointNext

LEMMA EndpointHolds == PartsSpec => [](part = "endpoint" => EndpointInv)
<1>1. PartsInit => (part = "endpoint" => EndpointInv)
  <2> SUFFICES ASSUME Endpoint!EndpointInit PROVE EndpointInv
    BY DEF PartsInit, PartsStart
  <2> USE DEF Endpoint!EndpointInit, Endpoint!NotStarted, Endpoint!Looking, Endpoint!NoRecord
  <2>1. Endpoint!NoRecord \in Record
    BY DEF Record, AnyPort
  <2>2. EndpointType
    BY <2>1 DEF EndpointType, DaemonSteps, AnyPort
  <2>3. \A d \in Daemon : daemons[d].at = "none"
    OBVIOUS
  <2>4. QED
    BY <2>2, <2>3 DEF EndpointInv, ListensOnPort, OneAtATime, RecordsAgree, Begun, Lasts, Up, Endpoint!FoundIsNamed,
                      Endpoint!In, Endpoint!Starting, Endpoint!Listens
<1>2. (part = "endpoint" => EndpointInv) /\ [PartsNext]_partsVars => (part = "endpoint" => EndpointInv)'
  <2> SUFFICES ASSUME part = "endpoint" => EndpointInv, [PartsNext]_partsVars, part' = "endpoint"
               PROVE  EndpointInv'
    OBVIOUS
  <2>1. part = "endpoint"
    BY DEF PartsNext, partsVars
  <2>2. CASE Endpoint!EndpointNext
    BY <2>1, <2>2, EndpointStepKeeps
  <2>3. CASE UNCHANGED endpoint
    BY <2>1, <2>3 DEF endpoint, EndpointInv, EndpointType, ListensOnPort, OneAtATime, RecordsAgree, Begun, Lasts, Up,
                      RecordOf, Endpoint!FoundIsNamed, Endpoint!In, Endpoint!Listens
  <2>4. QED
    BY <2>1, <2>2, <2>3, EndpointMoves
<1>3. QED
  BY <1>1, <1>2, PTL DEF PartsSpec

LEMMA Counted == \A S : Endpoint!Cardinality(S) = Cardinality(S)
BY DEF Endpoint!Cardinality, Cardinality

LEMMA EndpointIsSound == ASSUME EndpointInv PROVE Endpoint!EndpointSound
<1>1. ASSUME ~raced PROVE Cardinality(Endpoint!Serving) <= 1
  <2>1. CASE Endpoint!Serving = {}
    BY <2>1, FS_EmptySet
  <2>2. CASE Endpoint!Serving # {}
    <3>1. PICK d \in Daemon : Up(d)
      BY <2>2 DEF Endpoint!Serving, Up
    <3>2. Endpoint!Serving = {d}
      BY <1>1, <3>1 DEF EndpointInv, OneAtATime, Endpoint!Serving, Lasts, Up, Endpoint!In
    <3>3. QED
      BY <3>2, FS_Singleton
  <2>3. QED
    BY <2>1, <2>2
<1>2. ASSUME ~raced, NEW d \in Endpoint!Serving PROVE discovery = [by |-> d, port |-> daemons[d].port]
  <2>1. d \in Daemon /\ Up(d)
    BY DEF Endpoint!Serving, Up
  <2>2. QED
    BY <1>2, <2>1 DEF EndpointInv, RecordsAgree, RecordOf
<1>3. Endpoint!OneServing
  BY <1>1, Counted DEF Endpoint!OneServing
<1>4. Endpoint!ServedIsFound
  BY <1>2 DEF Endpoint!ServedIsFound
<1>5. Endpoint!FoundIsNamed
  BY DEF EndpointInv
<1>6. QED
  BY <1>3, <1>4, <1>5 DEF Endpoint!EndpointSound

\* Whatever ends, is waited for, cancelled or dropped in whatever order, a host's
\* handle signals the host's tree alone and no handle leaves its child unreaped;
\* daemons that are started one after the other serve one at a time, the file names
\* the one that serves, and no client takes another one for it.
THEOREM ProcessesSoundHolds == PartsSpec => []ProcessesSound
<1>1. TreeInv => Tree!ProcessesSound
  BY DEF TreeInv
<1>2. (part = "tree" => TreeInv) /\ (part = "endpoint" => EndpointInv) => ProcessesSound
  BY <1>1, EndpointIsSound DEF ProcessesSound, Of
<1>3. QED
  BY <1>2, TreeHolds, EndpointHolds, PTL

HIDE PortAssumption
USE CallerAssumption

-----------------------------------------------------------------------------
(* The directory of a release (UpdateDownloads). *)

LEMMA DownloadMoves ==
  ASSUME part = "downloads", [PartsNext]_partsVars
  PROVE  part' = "downloads" /\ (Downloads!DownloadNext \/ UNCHANGED downloads)
BY DEF PartsNext, partsVars, TreeStep, StoreStep, CheckStep, DownloadStep, DeletionStep, RepositoryStep,
       InstallStep, CopyStep, RegistryStep, SettingStep, MirrorStep, FeedStep, EndpointStep, OpeningStep

LoadSteps == {"look", "fetch", "check", "rename", "note", "noted"}
DownloadType ==
  /\ disk \subseteq Downloads!File
  /\ load \in [step : LoadSteps, tag : Release] \cup {Downloads!NoLoad}
\* Only what was verified is given the name of an installer, and what was
\* verified is not written any more.
Verified ==
  /\ \A f \in disk : f.sort = "installer" => f.good
  /\ load.step = "rename" => \A f \in Downloads!Has("part") : f.good
DownloadInv ==
  /\ DownloadType /\ Verified
  /\ installed # Nothing => installed.good

LEMMA DownloadStepKeeps ==
  ASSUME DownloadInv, Downloads!DownloadNext
  PROVE  DownloadInv'
<1> USE DEF DownloadInv, DownloadType, Verified, LoadSteps, Downloads!File, Downloads!NoLoad, Downloads!Has,
            Downloads!Loads, Downloads!Puts, Downloads!LoadKeeps, Downloads!Staging
<1>1. CASE Downloads!LoadStarts
  BY <1>1 DEF Downloads!LoadStarts
<1>2. CASE Downloads!LoadLooks
  BY <1>2 DEF Downloads!LoadLooks
<1>3. CASE Downloads!LoadFetches
  BY <1>3 DEF Downloads!LoadFetches
<1>4. CASE Downloads!LoadChecks
  BY <1>4 DEF Downloads!LoadChecks
<1>5. CASE Downloads!LoadRenames
  BY <1>5 DEF Downloads!LoadRenames
<1>6. CASE Downloads!LoadNotes
  <2>1. [sort |-> "tmp", of |-> load.tag, good |-> FALSE] \in Downloads!File
    BY <1>6 DEF Downloads!LoadNotes
  <2>2. DownloadType'
    BY <1>6, <2>1 DEF Downloads!LoadNotes
  <2>3. QED
    BY <1>6, <2>2 DEF Downloads!LoadNotes
<1>7. CASE Downloads!LoadEnds
  <2>1. [sort |-> "note", of |-> load.tag, good |-> FALSE] \in Downloads!File
    BY <1>7 DEF Downloads!LoadEnds
  <2>2. DownloadType'
    BY <1>7, <2>1 DEF Downloads!LoadEnds
  <2>3. QED
    BY <1>7, <2>2 DEF Downloads!LoadEnds
<1>8. CASE Downloads!Discards
  BY <1>8 DEF Downloads!Discards
<1>9. CASE Downloads!Stage \/ Downloads!DownloaderCrash
  BY <1>9 DEF Downloads!Stage, Downloads!DownloaderCrash
<1>10. CASE Downloads!HelperRuns
  BY <1>10 DEF Downloads!HelperRuns
<1>11. QED
  BY <1>1, <1>2, <1>3, <1>4, <1>5, <1>6, <1>7, <1>8, <1>9, <1>10 DEF Downloads!DownloadNext

LEMMA DownloadHolds == PartsSpec => [](part = "downloads" => DownloadInv)
<1>1. PartsInit => (part = "downloads" => DownloadInv)
  <2> SUFFICES ASSUME Downloads!DownloadInit PROVE DownloadInv
    BY DEF PartsInit, PartsStart
  <2> QED
    BY DEF Downloads!DownloadInit, DownloadInv, DownloadType, Verified, Downloads!NoLoad, Downloads!Has
<1>2. (part = "downloads" => DownloadInv) /\ [PartsNext]_partsVars => (part = "downloads" => DownloadInv)'
  <2> SUFFICES ASSUME part = "downloads" => DownloadInv, [PartsNext]_partsVars, part' = "downloads"
               PROVE  DownloadInv'
    OBVIOUS
  <2>1. part = "downloads"
    BY DEF PartsNext, partsVars
  <2>2. CASE Downloads!DownloadNext
    BY <2>1, <2>2, DownloadStepKeeps
  <2>3. CASE UNCHANGED downloads
    BY <2>1, <2>3 DEF downloads, DownloadInv, DownloadType, Verified, Downloads!Has
  <2>4. QED
    BY <2>1, <2>2, <2>3, DownloadMoves
<1>3. QED
  BY <1>1, <1>2, PTL DEF PartsSpec
-----------------------------------------------------------------------------
(* The question whether there is a newer release (UpdateChecks). *)

LEMMA CheckMoves ==
  ASSUME part = "checks", [PartsNext]_partsVars
  PROVE  part' = "checks" /\ (Checks!CheckNext \/ UNCHANGED checks)
BY DEF PartsNext, partsVars, TreeStep, StoreStep, CheckStep, DownloadStep, DeletionStep, RepositoryStep,
       InstallStep, CopyStep, RegistryStep, SettingStep, MirrorStep, FeedStep, EndpointStep, OpeningStep

Answer == [fresh : BOOLEAN, latest : Nat, asset : BOOLEAN]
\* A check that is under way has the record it began with.
Check == [step : {"idle", "start", "act"}, copy : Answer \cup {Nothing}, got : Nat]
         \cup [step : {"ask", "manifest", "failed"}, copy : Answer, got : Nat]
CheckType ==
  /\ published \in Nat /\ asked \in Nat /\ spared \in BOOLEAN /\ busy \in BOOLEAN
  /\ record \in Answer
  /\ check \in [Checks!Checker -> Check]
\* One background check at a time, and while nothing fails it has asked only if
\* its answer is on its way or was written down less than a day ago.
AsksWhenDue ==
  /\ ~busy => check["background"].step = "idle"
  /\ spared =>
       /\ \A c \in Checks!Checker : check[c].step # "failed"
       /\ asked = 0 \/ (asked = 1 /\ (record.fresh \/ check["background"].step = "manifest"))
       /\ check["background"].step = "ask" => asked = 0
ChecksInv ==
  /\ CheckType /\ AsksWhenDue
  /\ Checks!AutomaticIsItself

LEMMA CheckersTyped ==
  ASSUME CheckType, NEW c \in Checks!Checker, NEW r \in Check, check' = [check EXCEPT ![c] = r]
  PROVE  check' \in [Checks!Checker -> Check]
BY DEF CheckType

LEMMA CheckStepKeeps ==
  ASSUME ChecksInv, Checks!CheckNext
  PROVE  ChecksInv'
<1> USE DEF ChecksInv, CheckType, AsksWhenDue, Answer, Check, Checks!Checker, Checks!Background, Checks!Rest,
            Checks!NoCheck, Checks!AutomaticIsItself, Checks!Stops, Checks!Steps, Checks!Begins, Checks!Writes,
            Checks!should_check
<1>1. CASE Checks!Publish \/ Checks!ReadState \/ Checks!PaneDownloads
  BY <1>1 DEF Checks!Publish, Checks!ReadState, Checks!PaneDownloads
<1>2. CASE Checks!DayPasses
  <2>1. CheckType'
    BY <1>2 DEF Checks!DayPasses
  <2>2. AsksWhenDue'
    BY <1>2 DEF Checks!DayPasses
  <2>3. Checks!AutomaticIsItself'
    BY <1>2 DEF Checks!DayPasses
  <2>4. QED
    BY <2>1, <2>2, <2>3
<1>3. CASE Checks!schedule_background_check
  <2>1. CheckType'
    <3>1. [Checks!NoCheck EXCEPT !.step = "start"] \in Check
      OBVIOUS
    <3>2. check' \in [Checks!Checker -> Check]
      BY <1>3, <3>1 DEF Checks!schedule_background_check
    <3>3. QED
      BY <1>3, <3>2 DEF Checks!schedule_background_check
  <2>2. AsksWhenDue'
    BY <1>3 DEF Checks!schedule_background_check
  <2>3. Checks!AutomaticIsItself'
    BY <1>3 DEF Checks!schedule_background_check
  <2>4. QED
    BY <2>1, <2>2, <2>3
<1>4. CASE Checks!BackgroundStarts
  <2>1. CheckType'
    <3>1. [step |-> "ask", copy |-> record, got |-> 0] \in Check /\ Checks!NoCheck \in Check
      OBVIOUS
    <3>2. check' \in [Checks!Checker -> Check]
      BY <1>4, <3>1 DEF Checks!BackgroundStarts
    <3>3. QED
      BY <1>4, <3>2 DEF Checks!BackgroundStarts
  <2>2. AsksWhenDue'
    BY <1>4 DEF Checks!BackgroundStarts
  <2>3. Checks!AutomaticIsItself'
    BY <1>4 DEF Checks!BackgroundStarts
  <2>4. QED
    BY <2>1, <2>2, <2>3
<1>5. ASSUME NEW ready \in BOOLEAN, Checks!Acts(ready) PROVE ChecksInv'
  BY <1>5 DEF Checks!Acts
<1>6. ASSUME NEW c \in Caller, Checks!CallerStarts(c) PROVE ChecksInv'
  BY <1>6 DEF Checks!CallerStarts
<1>7. ASSUME NEW c \in Checks!Checker, Checks!Asks(c) PROVE ChecksInv'
  <2>1. CheckType'
    <3>1. check[c] \in Check /\ check[c].step = "ask"
      BY <1>7 DEF Checks!Asks
    <3>2. /\ [check[c] EXCEPT !.step = "manifest", !.got = published] \in Check
          /\ [check[c] EXCEPT !.step = "failed"] \in Check
      BY <3>1
    <3>3. \/ check' = [check EXCEPT ![c] = [check[c] EXCEPT !.step = "manifest", !.got = published]]
          \/ check' = [check EXCEPT ![c] = [check[c] EXCEPT !.step = "failed"]]
      BY <1>7 DEF Checks!Asks
    <3>4. check' \in [Checks!Checker -> Check]
      BY <3>2, <3>3
    <3>5. asked' \in {asked, asked + 1} /\ UNCHANGED <<published, busy, record>>
      BY <1>7 DEF Checks!Asks
    <3>6. asked' \in Nat
      BY <3>5
    <3>7. spared' \in BOOLEAN
      BY <1>7 DEF Checks!Asks
    <3>8. QED
      BY <3>4, <3>5, <3>6, <3>7
  <2>2. AsksWhenDue'
    BY <1>7 DEF Checks!Asks
  <2>3. Checks!AutomaticIsItself'
    BY <1>7 DEF Checks!Asks
  <2>4. QED
    BY <2>1, <2>2, <2>3
<1>8. ASSUME NEW c \in Checks!Checker, Checks!Answers(c) PROVE ChecksInv'
  <2>1. CheckType'
    <3>1. PICK found \in BOOLEAN :
            LET answer == [fresh |-> TRUE, latest |-> check[c].got, asset |-> found]
            IN /\ Checks!Writes(c, answer)
               /\ IF c = "background"
                  THEN check' = [check EXCEPT ![c].step = "act", ![c].copy = answer] /\ UNCHANGED busy
                  ELSE Checks!Stops(c)
      BY <1>8 DEF Checks!Answers
    <3> DEFINE answer == [fresh |-> TRUE, latest |-> check[c].got, asset |-> found]
    <3>2. answer \in Answer /\ check[c] \in Check /\ check[c].step = "manifest" /\ Checks!NoCheck \in Check
      BY <1>8 DEF Checks!Answers
    <3>3. [check[c] EXCEPT !.step = "act", !.copy = answer] \in Check
      BY <3>2
    <3>4. \/ check' = [check EXCEPT ![c] = [check[c] EXCEPT !.step = "act", !.copy = answer]]
          \/ check' = [check EXCEPT ![c] = Checks!NoCheck]
      BY <3>1
    <3>5. check' \in [Checks!Checker -> Check]
      BY <3>2, <3>3, <3>4, CheckersTyped
    <3>6. record' \in Answer /\ spared' \in BOOLEAN /\ busy' \in BOOLEAN
      BY <3>1, <3>2
    <3>7. QED
      BY <1>8, <3>5, <3>6 DEF Checks!Answers
  <2>2. AsksWhenDue'
    BY <1>8 DEF Checks!Answers
  <2>3. Checks!AutomaticIsItself'
    BY <1>8 DEF Checks!Answers
  <2>4. QED
    BY <2>1, <2>2, <2>3
<1>9. ASSUME NEW c \in Checks!Checker, Checks!Fails(c) PROVE ChecksInv'
  <2>1. CheckType'
    <3>1. check[c].copy \in Answer /\ Checks!NoCheck \in Check /\ check' = [check EXCEPT ![c] = Checks!NoCheck]
      BY <1>9 DEF Checks!Fails
    <3>2. check' \in [Checks!Checker -> Check]
      BY <3>1
    <3>3. record' \in Answer /\ spared' \in BOOLEAN /\ busy' \in BOOLEAN /\ UNCHANGED <<published, asked>>
      BY <1>9, <3>1 DEF Checks!Fails
    <3>4. QED
      BY <3>2, <3>3
  <2>2. AsksWhenDue'
    BY <1>9 DEF Checks!Fails
  <2>3. Checks!AutomaticIsItself'
    BY <1>9 DEF Checks!Fails
  <2>4. QED
    BY <2>1, <2>2, <2>3
<1>10. CASE Checks!CheckerCrash
  BY <1>10 DEF Checks!CheckerCrash
<1>11. QED
  BY <1>1, <1>2, <1>3, <1>4, <1>5, <1>6, <1>7, <1>8, <1>9, <1>10 DEF Checks!CheckNext

LEMMA CheckHolds == PartsSpec => [](part = "checks" => ChecksInv)
<1>1. PartsInit => (part = "checks" => ChecksInv)
  <2> SUFFICES ASSUME Checks!CheckInit PROVE ChecksInv
    BY DEF PartsInit, PartsStart
  <2> QED
    BY DEF Checks!CheckInit, ChecksInv, CheckType, AsksWhenDue, Answer, Check, Checks!Checker, Checks!Background,
           Checks!NoCheck, Checks!AutomaticIsItself
<1>2. (part = "checks" => ChecksInv) /\ [PartsNext]_partsVars => (part = "checks" => ChecksInv)'
  <2> SUFFICES ASSUME part = "checks" => ChecksInv, [PartsNext]_partsVars, part' = "checks"
               PROVE  ChecksInv'
    OBVIOUS
  <2>1. part = "checks"
    BY DEF PartsNext, partsVars
  <2>2. CASE Checks!CheckNext
    BY <2>1, <2>2, CheckStepKeeps
  <2>3. CASE UNCHANGED checks
    BY <2>1, <2>3 DEF checks, ChecksInv, CheckType, AsksWhenDue, Checks!AutomaticIsItself
  <2>4. QED
    BY <2>1, <2>2, <2>3, CheckMoves
<1>3. QED
  BY <1>1, <1>2, PTL DEF PartsSpec
-----------------------------------------------------------------------------
(* What is set (Settings). *)

LEMMA SettingMoves ==
  ASSUME part = "settings", [PartsNext]_partsVars
  PROVE  part' = "settings" /\ (Setting!SettingsNext \/ UNCHANGED settings)
BY DEF PartsNext, partsVars, TreeStep, StoreStep, CheckStep, DownloadStep, DeletionStep, RepositoryStep,
       InstallStep, CopyStep, RegistryStep, SettingStep, MirrorStep, FeedStep, EndpointStep, OpeningStep

Value == Nat \cup {"v", "old", "new", NotSet} \cup Storage
Said == {said \in [Setting!Field -> Value] : said["storage"] \in Storage \cup {NotSet}}
Work(op, steps, field, value) ==
  [op : {op}, step : steps, field : field, value : value, base : Said, clean : BOOLEAN]
SavingOne == Work("save", {"read", "write", "fill"}, {"plain", "selected"}, Value)
SavingStorage == Work("save", {"read", "write", "fill", "adopt"}, {"storage"}, Storage)
Looking == Work("vendor", {"look"}, {"digest"}, {"new"})
\* Vendoring has read a directory once it does anything to it.
Passing ==
  {work \in Work("vendor", {"clean", "copy", "rest", "write", "fill"}, {"digest"}, {"new"}) :
     work.base["storage"] # NotSet}
Works == SavingOne \cup SavingStorage \cup Looking \cup Passing \cup {Setting!AtRest}
Tree1 == [modules : {"none", "old", "new", "part"}, manifest : BOOLEAN]
SettingsType ==
  /\ saves \in Nat /\ mixed \in BOOLEAN
  /\ config \in [whole : BOOLEAN, said : Said]
  /\ works \in [Saver -> Works]
  /\ adopted \in Storage \cup {NotSet}
  /\ vendored \in [Storage -> Tree1]
  /\ promised \in [Setting!Field -> Value]

Holding(w) == works[w].op # "none" /\ works[w].step \notin {"read", "look", "adopt"}
Adopting(w) == Setting!At(w, "save", "adopt")
\* What is held and was not written over is what the file says.
HeldIsSaid == \A w \in Saver : Holding(w) /\ works[w].clean => works[w].base = config.said
PromisedIsSaid == \A f \in Setting!Field : promised[f] # NotSet => config.said[f] = promised[f]
\* Until two saves cross, the directory that is named is adopted or about to be.
NamedIsAdopted ==
  ~mixed => IF \E w \in Saver : Adopting(w)
            THEN \E w \in Saver : Adopting(w) /\ works[w].value = config.said["storage"]
            ELSE adopted = config.said["storage"]
\* A directory is in the hands of one pass, which leaves all the plugins in it.
OnePass ==
  \A s \in Storage \ spoilt :
    /\ \A w, x \in Saver : Setting!Vendoring(w, s) /\ Setting!Vendoring(x, s) => w = x
    /\ \A w \in Saver : Setting!Vendoring(w, s) /\ works[w].step \in {"write", "fill"} => vendored[s].modules = "new"
    /\ (vendored[s].manifest /\ \A w \in Saver : ~Setting!Vendoring(w, s)) => vendored[s].modules \in {"old", "new"}
\* The directory that is named has plugins, or somebody is about to see to it.
SeenTo ==
  (~mixed /\ config.said["storage"] \notin spoilt \cup {NotSet} /\ config.said["digest"] = "new") =>
    \/ vendored[config.said["storage"]].modules # "none"
    \/ \E w \in Saver : Adopting(w) \/ works[w].op = "vendor"
SettingsInv == SettingsType /\ HeldIsSaid /\ PromisedIsSaid /\ NamedIsAdopted /\ OnePass /\ SeenTo

\* What was read is not what is there any more.
LEMMA WrittenOver ==
  ASSUME NEW work \in Works, work # Setting!AtRest
  PROVE  [work EXCEPT !.clean = FALSE] \in Works
<1> DEFINE over == [work EXCEPT !.clean = FALSE]
<1>1. ASSUME work \in SavingOne PROVE over \in SavingOne
  BY <1>1 DEF SavingOne, Work
<1>2. ASSUME work \in SavingStorage PROVE over \in SavingStorage
  BY <1>2 DEF SavingStorage, Work
<1>3. ASSUME work \in Looking PROVE over \in Looking
  BY <1>3 DEF Looking, Work
<1>4. ASSUME work \in Passing PROVE over \in Passing
  <2>1. over \in Work("vendor", {"clean", "copy", "rest", "write", "fill"}, {"digest"}, {"new"})
    BY <1>4 DEF Passing, Work
  <2>2. over.base = work.base
    BY <1>4 DEF Passing, Work
  <2>3. over.base["storage"] # NotSet
    BY <1>4, <2>2 DEF Passing
  <2>4. QED
    BY <2>1, <2>3 DEF Passing
<1> HIDE DEF over
<1>5. over \in Works
  BY <1>1, <1>2, <1>3, <1>4 DEF Works
<1>6. QED
  BY <1>5 DEF over

\* A pass goes on to its next step.
LEMMA PassGoesOn ==
  ASSUME works \in [Saver -> Works], NEW w \in Saver, works[w].op = "vendor", works[w].step # "look",
         NEW s \in {"copy", "rest", "write"}, works' = [works EXCEPT ![w].step = s]
  PROVE  works' \in [Saver -> Works]
<1>1. works[w] \in Passing
  <2>1. works[w] \in SavingOne \cup SavingStorage \cup Looking \cup Passing \cup {Setting!AtRest}
    BY DEF Works
  <2>2. works[w] \notin SavingOne /\ works[w] \notin SavingStorage
    BY DEF SavingOne, SavingStorage, Work
  <2>3. works[w] \notin Looking /\ works[w] # Setting!AtRest
    BY DEF Looking, Work, Setting!AtRest
  <2>4. QED
    BY <2>1, <2>2, <2>3
<1>2. [works[w] EXCEPT !.step = s] \in Passing
  BY <1>1 DEF Passing, Work
<1>3. works' = [works EXCEPT ![w] = [works[w] EXCEPT !.step = s]]
  OBVIOUS
<1>4. QED
  BY <1>2, <1>3 DEF Works

\* A step that touches neither the file nor who adopts leaves the adoption as it was.
LEMMA AdoptionStays ==
  ASSUME NamedIsAdopted, UNCHANGED <<config, adopted, mixed>>, \A x \in Saver : Adopting(x)' <=> Adopting(x),
         \A x \in Saver : Adopting(x) => works'[x].value = works[x].value
  PROVE  NamedIsAdopted'
<1> SUFFICES ASSUME ~mixed'
             PROVE  IF \E w \in Saver : Adopting(w)'
                    THEN \E w \in Saver : Adopting(w)' /\ works'[w].value = config.said["storage"]
                    ELSE adopted = config.said["storage"]
  BY DEF NamedIsAdopted
<1> HIDE DEF Adopting
<1> QED
  BY DEF NamedIsAdopted

LEMMA SettingsStepKeeps ==
  ASSUME SettingsInv, Setting!SettingsNext
  PROVE  SettingsInv'
<1> USE DEF SettingsInv, SettingsType, HeldIsSaid, PromisedIsSaid, NamedIsAdopted, OnePass, SeenTo, Holding,
            Adopting, Value, Said, Work, Works, SavingOne, SavingStorage, Looking, Passing, Tree1, Setting!Field,
            Setting!Unsaid, Setting!NoTree, Setting!AtRest, Setting!At, Setting!Goes, Setting!Ends,
            Setting!Vendoring, Setting!Stands, Setting!Filled, Setting!Vendored, Setting!Named
<1>1. ASSUME NEW w \in Saver, Setting!SavesPlain(w) PROVE SettingsInv'
  <2>1. SettingsType'
    BY <1>1 DEF Setting!SavesPlain, Setting!Saves
  <2>2. HeldIsSaid'
    BY <1>1, <2>1 DEF Setting!SavesPlain, Setting!Saves
  <2>3. PromisedIsSaid'
    BY <1>1, <2>1 DEF Setting!SavesPlain, Setting!Saves
  <2>4. NamedIsAdopted'
    BY <1>1, <2>1 DEF Setting!SavesPlain, Setting!Saves
  <2>5. OnePass'
    BY <1>1, <2>1 DEF Setting!SavesPlain, Setting!Saves
  <2>6. SeenTo'
    BY <1>1, <2>1 DEF Setting!SavesPlain, Setting!Saves
  <2>7. QED
    BY <2>1, <2>2, <2>3, <2>4, <2>5, <2>6
<1>2. ASSUME NEW w \in Saver, Setting!Selects(w) PROVE SettingsInv'
  <2>1. SettingsType'
    BY <1>2 DEF Setting!Selects, Setting!Saves
  <2>2. HeldIsSaid'
    BY <1>2, <2>1 DEF Setting!Selects, Setting!Saves
  <2>3. PromisedIsSaid'
    BY <1>2, <2>1 DEF Setting!Selects, Setting!Saves
  <2>4. NamedIsAdopted'
    BY <1>2, <2>1 DEF Setting!Selects, Setting!Saves
  <2>5. OnePass'
    BY <1>2, <2>1 DEF Setting!Selects, Setting!Saves
  <2>6. SeenTo'
    BY <1>2, <2>1 DEF Setting!Selects, Setting!Saves
  <2>7. QED
    BY <2>1, <2>2, <2>3, <2>4, <2>5, <2>6
<1>3. ASSUME NEW w \in Saver, Setting!Unselects(w) PROVE SettingsInv'
  <2>1. SettingsType'
    BY <1>3 DEF Setting!Unselects, Setting!Saves
  <2>2. HeldIsSaid'
    BY <1>3, <2>1 DEF Setting!Unselects, Setting!Saves
  <2>3. PromisedIsSaid'
    BY <1>3, <2>1 DEF Setting!Unselects, Setting!Saves
  <2>4. NamedIsAdopted'
    BY <1>3, <2>1 DEF Setting!Unselects, Setting!Saves
  <2>5. OnePass'
    BY <1>3, <2>1 DEF Setting!Unselects, Setting!Saves
  <2>6. SeenTo'
    BY <1>3, <2>1 DEF Setting!Unselects, Setting!Saves
  <2>7. QED
    BY <2>1, <2>2, <2>3, <2>4, <2>5, <2>6
<1>4. ASSUME NEW w \in Saver, Setting!SavesStorage(w) PROVE SettingsInv'
  <2>1. SettingsType'
    BY <1>4 DEF Setting!SavesStorage, Setting!Saves
  <2>2. HeldIsSaid'
    BY <1>4, <2>1 DEF Setting!SavesStorage, Setting!Saves
  <2>3. PromisedIsSaid'
    BY <1>4, <2>1 DEF Setting!SavesStorage, Setting!Saves
  <2>4. NamedIsAdopted'
    BY <1>4, <2>1 DEF Setting!SavesStorage, Setting!Saves
  <2>5. OnePass'
    BY <1>4, <2>1 DEF Setting!SavesStorage, Setting!Saves
  <2>6. SeenTo'
    BY <1>4, <2>1 DEF Setting!SavesStorage, Setting!Saves
  <2>7. QED
    BY <2>1, <2>2, <2>3, <2>4, <2>5, <2>6
<1>5. ASSUME NEW w \in Saver, Setting!read_config(w) PROVE SettingsInv'
  <2>1. SettingsType'
    BY <1>5 DEF Setting!read_config
  <2>2. HeldIsSaid'
    BY <1>5, <2>1 DEF Setting!read_config
  <2>3. PromisedIsSaid'
    BY <1>5, <2>1 DEF Setting!read_config
  <2>4. NamedIsAdopted'
    BY <1>5, <2>1 DEF Setting!read_config
  <2>5. OnePass'
    <3>1. works[w].op = "save" /\ works'[w].op \in {"save", "none"} /\ UNCHANGED <<vendored, spoilt>>
      BY <1>5 DEF Setting!read_config
    <3>2. \A x \in Saver \ {w} : works'[x] = works[x]
      BY <1>5 DEF Setting!read_config
    <3>3. QED
      BY <3>1, <3>2
  <2>6. SeenTo'
    BY <1>5, <2>1 DEF Setting!read_config
  <2>7. QED
    BY <2>1, <2>2, <2>3, <2>4, <2>5, <2>6
<1>6. ASSUME NEW w \in Saver, Setting!Empties(w) PROVE SettingsInv'
  <2>1. SettingsType'
    <3>1. works[w] \in Works /\ works[w].step = "write"
      BY <1>6 DEF Setting!Empties
    <3>2. [works[w] EXCEPT !.step = "fill"] \in Works
      BY <3>1
    <3>3. works' \in [Saver -> Works]
      BY <1>6, <3>2 DEF Setting!Empties
    <3>4. QED
      BY <1>6, <3>3 DEF Setting!Empties
  <2>2. HeldIsSaid'
    BY <1>6, <2>1 DEF Setting!Empties
  <2>3. PromisedIsSaid'
    BY <1>6, <2>1 DEF Setting!Empties
  <2>4. NamedIsAdopted'
    BY <1>6, <2>1 DEF Setting!Empties
  <2>5. OnePass'
    BY <1>6, <2>1 DEF Setting!Empties
  <2>6. SeenTo'
    BY <1>6, <2>1 DEF Setting!Empties
  <2>7. QED
    BY <2>1, <2>2, <2>3, <2>4, <2>5, <2>6
<1>7. ASSUME NEW w \in Saver, Setting!write_config(w) PROVE SettingsInv'
  <2>1. SettingsType'
    <3>1. works[w] \in Works /\ works[w].step = "fill" /\ works[w].op # "none"
      BY <1>7 DEF Setting!write_config
    <3>2. works[w].field \in Setting!Field /\ works[w].value \in Value /\ works[w].base \in Said
          /\ (works[w].field = "storage" => works[w].value \in Storage)
      BY <3>1
    <3>3. Setting!Filled(w) \in Said
      BY <3>2
    <3>4. ASSUME NEW x \in Saver, works[x] # Setting!AtRest PROVE [works[x] EXCEPT !.clean = FALSE] \in Works
      BY <3>4, WrittenOver
    <3>5. works[w].field = "storage" => [works[w] EXCEPT !.step = "adopt"] \in Works
      BY <3>1
    <3>6. works' \in [Saver -> Works]
      BY <1>7, <3>4, <3>5 DEF Setting!write_config
    <3>7. promised' \in [Setting!Field -> Value]
      BY <1>7, <3>2 DEF Setting!write_config
    <3>8. config' \in [whole : BOOLEAN, said : Said]
      BY <1>7, <3>3 DEF Setting!write_config
    <3>9. UNCHANGED <<saves, adopted, vendored>> /\ mixed' \in BOOLEAN
      BY <1>7 DEF Setting!write_config
    <3>10. QED
      BY <3>6, <3>7, <3>8, <3>9
  <2>2. HeldIsSaid'
    BY <1>7, <2>1 DEF Setting!write_config
  <2>3. PromisedIsSaid'
    BY <1>7, <2>1 DEF Setting!write_config
  <2>4. NamedIsAdopted'
    <3> SUFFICES ASSUME ~mixed' PROVE NamedIsAdopted'
      OBVIOUS
    <3>1. ~mixed /\ works[w].clean /\ works[w].base = config.said /\ adopted' = adopted
      BY <1>7 DEF Setting!write_config
    <3>2. \A x \in Saver \ {w} : (Adopting(x)' <=> Adopting(x)) /\ (Adopting(x) => works'[x].value = works[x].value)
      BY <1>7 DEF Setting!write_config
    <3>3. ~Adopting(w) /\ config'.said = [config.said EXCEPT ![works[w].field] = works[w].value]
      BY <1>7, <3>1 DEF Setting!write_config
    <3>4. CASE works[w].field = "storage"
      <4>1. Adopting(w)' /\ works'[w].value = works[w].value /\ config'.said["storage"] = works[w].value
        BY <1>7, <3>3, <3>4 DEF Setting!write_config
      <4>2. QED
        BY <4>1
    <3>5. CASE works[w].field # "storage"
      <4>1. ~Adopting(w)' /\ config'.said["storage"] = config.said["storage"]
        BY <1>7, <3>3, <3>5 DEF Setting!write_config
      <4>2. QED
        BY <3>1, <3>2, <3>3, <4>1
    <3>6. QED
      BY <3>4, <3>5
  <2>5. OnePass'
    BY <1>7, <2>1 DEF Setting!write_config
  <2>6. SeenTo'
    <3> SUFFICES ASSUME ~mixed', config'.said["storage"] \notin spoilt \cup {NotSet}, config'.said["digest"] = "new"
                 PROVE  \/ vendored[config'.said["storage"]].modules # "none"
                        \/ \E x \in Saver : Adopting(x)' \/ works'[x].op = "vendor"
      BY <1>7 DEF Setting!write_config
    <3>1. ~mixed /\ works[w].clean /\ works[w].base = config.said
      BY <1>7 DEF Setting!write_config
    <3>2. \A x \in Saver \ {w} : (Adopting(x)' <=> Adopting(x)) /\ works'[x].op = works[x].op
      BY <1>7 DEF Setting!write_config
    <3>3. config'.said = [config.said EXCEPT ![works[w].field] = works[w].value] /\ ~Adopting(w)
      BY <1>7, <3>1 DEF Setting!write_config
    <3>4. CASE works[w].field = "storage"
      BY <1>7, <3>4 DEF Setting!write_config
    <3>5. CASE works[w].op = "vendor"
      <4>1. Setting!Vendoring(w, config.said["storage"]) /\ works[w].step = "fill"
        BY <1>7, <3>1, <3>5 DEF Setting!write_config
      <4>2. config'.said["storage"] = config.said["storage"] /\ config.said["storage"] \in Storage \ spoilt
        BY <3>3, <3>5
      <4>3. vendored[config.said["storage"]].modules = "new"
        BY <4>1, <4>2
      <4>4. QED
        BY <4>2, <4>3
    <3>6. CASE works[w].op = "save" /\ works[w].field \in {"plain", "selected"}
      <4>1. config'.said["storage"] = config.said["storage"] /\ config'.said["digest"] = config.said["digest"]
        BY <3>3, <3>6
      <4>2. CASE vendored[config.said["storage"]].modules # "none"
        BY <4>1, <4>2
      <4>3. CASE \E x \in Saver : Adopting(x) \/ works[x].op = "vendor"
        BY <3>2, <3>3, <3>6, <4>3
      <4>4. QED
        BY <3>1, <4>1, <4>2, <4>3
    <3>7. QED
      BY <1>7, <3>4, <3>5, <3>6 DEF Setting!write_config
  <2>7. QED
    BY <2>1, <2>2, <2>3, <2>4, <2>5, <2>6
<1>8. ASSUME NEW w \in Saver, Setting!adopt_config(w) PROVE SettingsInv'
  <2>1. SettingsType'
    BY <1>8 DEF Setting!adopt_config
  <2>2. HeldIsSaid'
    BY <1>8, <2>1 DEF Setting!adopt_config
  <2>3. PromisedIsSaid'
    BY <1>8, <2>1 DEF Setting!adopt_config
  <2>4. NamedIsAdopted'
    <3> SUFFICES ASSUME ~mixed' PROVE NamedIsAdopted'
      OBVIOUS
    <3>1. ~mixed /\ Adopting(w) /\ \A x \in Saver : Adopting(x) => x = w
      BY <1>8 DEF Setting!adopt_config
    <3>2. adopted' = config.said["storage"] /\ config' = config
      BY <1>8, <3>1 DEF Setting!adopt_config
    <3>3. \A x \in Saver : ~Adopting(x)'
      BY <1>8, <3>1 DEF Setting!adopt_config
    <3>4. QED
      BY <3>2, <3>3
  <2>5. OnePass'
    BY <1>8, <2>1 DEF Setting!adopt_config
  <2>6. SeenTo'
    BY <1>8, <2>1 DEF Setting!adopt_config
  <2>7. QED
    BY <2>1, <2>2, <2>3, <2>4, <2>5, <2>6
<1>9. ASSUME NEW w \in Saver, Setting!VendorStarts(w) PROVE SettingsInv'
  <2>1. SettingsType'
    BY <1>9 DEF Setting!VendorStarts
  <2>2. HeldIsSaid'
    BY <1>9, <2>1 DEF Setting!VendorStarts
  <2>3. PromisedIsSaid'
    BY <1>9, <2>1 DEF Setting!VendorStarts
  <2>4. NamedIsAdopted'
    <3>1. UNCHANGED <<config, adopted, mixed>>
      BY <1>9 DEF Setting!VendorStarts
    <3>2. ~Adopting(w) /\ ~Adopting(w)' /\ \A x \in Saver \ {w} : works'[x] = works[x]
      BY <1>9 DEF Setting!VendorStarts
    <3>3. \A x \in Saver : (Adopting(x)' <=> Adopting(x)) /\ (Adopting(x) => works'[x].value = works[x].value)
      BY <3>2
    <3>4. NamedIsAdopted
      OBVIOUS
    <3> HIDE DEF NamedIsAdopted, Adopting
    <3>5. QED
      BY <3>1, <3>3, <3>4, AdoptionStays
  <2>5. OnePass'
    BY <1>9, <2>1 DEF Setting!VendorStarts
  <2>6. SeenTo'
    BY <1>9, <2>1 DEF Setting!VendorStarts
  <2>7. QED
    BY <2>1, <2>2, <2>3, <2>4, <2>5, <2>6
<1>10. ASSUME NEW w \in Saver, Setting!VendorLooks(w) PROVE SettingsInv'
  <2>1. SettingsType'
    BY <1>10 DEF Setting!VendorLooks
  <2>2. HeldIsSaid'
    BY <1>10, <2>1 DEF Setting!VendorLooks
  <2>3. PromisedIsSaid'
    BY <1>10, <2>1 DEF Setting!VendorLooks
  <2>4. NamedIsAdopted'
    <3>1. UNCHANGED <<config, adopted, mixed>>
      BY <1>10 DEF Setting!VendorLooks
    <3>2. ~Adopting(w) /\ ~Adopting(w)' /\ \A x \in Saver \ {w} : works'[x] = works[x]
      BY <1>10 DEF Setting!VendorLooks
    <3>3. \A x \in Saver : (Adopting(x)' <=> Adopting(x)) /\ (Adopting(x) => works'[x].value = works[x].value)
      BY <3>2
    <3>4. NamedIsAdopted
      OBVIOUS
    <3> HIDE DEF NamedIsAdopted, Adopting
    <3>5. QED
      BY <3>1, <3>3, <3>4, AdoptionStays
  <2>5. OnePass'
    <3>1. \A x \in Saver \ {w} : works'[x] = works[x]
      BY <1>10 DEF Setting!VendorLooks
    <3>2. vendored' = vendored /\ spoilt \subseteq spoilt'
      BY <1>10 DEF Setting!VendorLooks
    <3>3. CASE works'[w] = Setting!AtRest
      BY <1>10, <3>1, <3>2, <3>3 DEF Setting!VendorLooks
    <3>4. CASE works'[w] # Setting!AtRest
      <4>1. works'[w].step = "clean" /\ works'[w].base = config.said
        BY <1>10, <3>4 DEF Setting!VendorLooks
      <4>2. \A s \in Storage : ~Setting!Vendoring(w, s)
        BY <1>10 DEF Setting!VendorLooks
      <4>3. \A x \in Saver : Setting!Vendoring(x, config.said["storage"]) => config.said["storage"] \in spoilt'
        BY <1>10, <3>4 DEF Setting!VendorLooks
      <4>4. SUFFICES ASSUME NEW s \in Storage \ spoilt'
                     PROVE  /\ \A x, y \in Saver : Setting!Vendoring(x, s)' /\ Setting!Vendoring(y, s)' => x = y
                            /\ \A x \in Saver : Setting!Vendoring(x, s)' /\ works'[x].step \in {"write", "fill"} =>
                                 vendored[s].modules = "new"
                            /\ (vendored[s].manifest /\ \A x \in Saver : ~Setting!Vendoring(x, s)') =>
                                 vendored[s].modules \in {"old", "new"}
        BY <3>2
      <4>5. \A x \in Saver \ {w} : Setting!Vendoring(x, s)' <=> Setting!Vendoring(x, s)
        BY <3>1
      <4>6. CASE s = config.said["storage"]
        <5>1. \A x \in Saver : ~Setting!Vendoring(x, s)
          BY <4>3, <4>6
        <5>2. Setting!Vendoring(w, s)'
          BY <1>10, <3>4, <4>1, <4>6 DEF Setting!VendorLooks
        <5>3. QED
          BY <4>1, <4>5, <5>1, <5>2
      <4>7. CASE s # config.said["storage"]
        <5>1. ~Setting!Vendoring(w, s)'
          BY <4>1, <4>7
        <5>2. s \in Storage \ spoilt
          BY <3>2
        <5>3. QED
          BY <3>1, <4>2, <4>5, <5>1, <5>2
      <4>8. QED
        BY <4>6, <4>7
    <3>5. QED
      BY <3>3, <3>4
  <2>6. SeenTo'
    <3> SUFFICES ASSUME ~mixed, config.said["storage"] \notin spoilt' \cup {NotSet}, config.said["digest"] = "new"
                 PROVE  \/ vendored[config.said["storage"]].modules # "none"
                        \/ \E x \in Saver : Adopting(x)' \/ works'[x].op = "vendor"
      BY <1>10 DEF Setting!VendorLooks
    <3>1. \A x \in Saver \ {w} : works'[x] = works[x]
      BY <1>10 DEF Setting!VendorLooks
    <3>2. config.said["storage"] \in Storage \ spoilt
      BY <1>10 DEF Setting!VendorLooks
    <3>3. CASE works'[w].op = "vendor"
      BY <3>3
    <3>4. CASE works'[w].op # "vendor"
      <4>1. config.whole /\ vendored[config.said["storage"]].manifest
        BY <1>10, <3>2, <3>4 DEF Setting!VendorLooks
      <4>2. CASE \E x \in Saver : Setting!Vendoring(x, config.said["storage"])
        BY <1>10, <3>1, <4>2 DEF Setting!VendorLooks
      <4>3. CASE \A x \in Saver : ~Setting!Vendoring(x, config.said["storage"])
        BY <3>2, <4>1, <4>3
      <4>4. QED
        BY <4>2, <4>3
    <3>5. QED
      BY <3>3, <3>4
  <2>7. QED
    BY <2>1, <2>2, <2>3, <2>4, <2>5, <2>6
<1>11. ASSUME NEW w \in Saver, Setting!VendorCleans(w) PROVE SettingsInv'
  <2>1. SettingsType'
    <3>1. works' \in [Saver -> Works]
      <4>1. works[w].op = "vendor" /\ works[w].step # "look"
        BY <1>11 DEF Setting!VendorCleans
      <4>2. PICK s \in {"copy", "rest", "write"} : works' = [works EXCEPT ![w].step = s]
        BY <1>11 DEF Setting!VendorCleans, Setting!Puts
      <4>3. works \in [Saver -> Works]
        OBVIOUS
      <4> HIDE DEF Works
      <4>4. QED
        BY <4>1, <4>2, <4>3, PassGoesOn
    <3>2. vendored' \in [Storage -> Tree1]
      BY <1>11 DEF Setting!VendorCleans, Setting!Puts
    <3>3. UNCHANGED <<config, saves, adopted, promised, mixed>>
      BY <1>11 DEF Setting!VendorCleans, Setting!Puts
    <3>4. QED
      BY <3>1, <3>2, <3>3
  <2>2. HeldIsSaid'
    BY <1>11, <2>1 DEF Setting!VendorCleans, Setting!Puts
  <2>3. PromisedIsSaid'
    BY <1>11, <2>1 DEF Setting!VendorCleans, Setting!Puts
  <2>4. NamedIsAdopted'
    <3>1. UNCHANGED <<config, adopted, mixed>>
      BY <1>11 DEF Setting!VendorCleans, Setting!Puts
    <3>2. ~Adopting(w) /\ ~Adopting(w)' /\ \A x \in Saver \ {w} : works'[x] = works[x]
      BY <1>11 DEF Setting!VendorCleans, Setting!Puts
    <3>3. \A x \in Saver : (Adopting(x)' <=> Adopting(x)) /\ (Adopting(x) => works'[x].value = works[x].value)
      BY <3>2
    <3>4. NamedIsAdopted
      OBVIOUS
    <3> HIDE DEF NamedIsAdopted, Adopting
    <3>5. QED
      BY <3>1, <3>3, <3>4, AdoptionStays
  <2>5. OnePass'
    BY <1>11, <2>1 DEF Setting!VendorCleans, Setting!Puts
  <2>6. SeenTo'
    BY <1>11, <2>1 DEF Setting!VendorCleans, Setting!Puts
  <2>7. QED
    BY <2>1, <2>2, <2>3, <2>4, <2>5, <2>6
<1>12. ASSUME NEW w \in Saver, Setting!VendorCopies(w) PROVE SettingsInv'
  <2>1. SettingsType'
    <3>1. works' \in [Saver -> Works]
      <4>1. works[w].op = "vendor" /\ works[w].step # "look"
        BY <1>12 DEF Setting!VendorCopies
      <4>2. PICK s \in {"copy", "rest", "write"} : works' = [works EXCEPT ![w].step = s]
        BY <1>12 DEF Setting!VendorCopies, Setting!Puts
      <4>3. works \in [Saver -> Works]
        OBVIOUS
      <4> HIDE DEF Works
      <4>4. QED
        BY <4>1, <4>2, <4>3, PassGoesOn
    <3>2. vendored' \in [Storage -> Tree1]
      BY <1>12 DEF Setting!VendorCopies, Setting!Puts
    <3>3. UNCHANGED <<config, saves, adopted, promised, mixed>>
      BY <1>12 DEF Setting!VendorCopies, Setting!Puts
    <3>4. QED
      BY <3>1, <3>2, <3>3
  <2>2. HeldIsSaid'
    BY <1>12, <2>1 DEF Setting!VendorCopies, Setting!Puts
  <2>3. PromisedIsSaid'
    BY <1>12, <2>1 DEF Setting!VendorCopies, Setting!Puts
  <2>4. NamedIsAdopted'
    <3>1. UNCHANGED <<config, adopted, mixed>>
      BY <1>12 DEF Setting!VendorCopies, Setting!Puts
    <3>2. ~Adopting(w) /\ ~Adopting(w)' /\ \A x \in Saver \ {w} : works'[x] = works[x]
      BY <1>12 DEF Setting!VendorCopies, Setting!Puts
    <3>3. \A x \in Saver : (Adopting(x)' <=> Adopting(x)) /\ (Adopting(x) => works'[x].value = works[x].value)
      BY <3>2
    <3>4. NamedIsAdopted
      OBVIOUS
    <3> HIDE DEF NamedIsAdopted, Adopting
    <3>5. QED
      BY <3>1, <3>3, <3>4, AdoptionStays
  <2>5. OnePass'
    BY <1>12, <2>1 DEF Setting!VendorCopies, Setting!Puts
  <2>6. SeenTo'
    BY <1>12, <2>1 DEF Setting!VendorCopies, Setting!Puts
  <2>7. QED
    BY <2>1, <2>2, <2>3, <2>4, <2>5, <2>6
<1>13. ASSUME NEW w \in Saver, Setting!VendorCopied(w) PROVE SettingsInv'
  <2>1. SettingsType'
    <3>1. works' \in [Saver -> Works]
      <4>1. works[w].op = "vendor" /\ works[w].step # "look"
        BY <1>13 DEF Setting!VendorCopied
      <4>2. PICK s \in {"copy", "rest", "write"} : works' = [works EXCEPT ![w].step = s]
        BY <1>13 DEF Setting!VendorCopied, Setting!Puts
      <4>3. works \in [Saver -> Works]
        OBVIOUS
      <4> HIDE DEF Works
      <4>4. QED
        BY <4>1, <4>2, <4>3, PassGoesOn
    <3>2. vendored' \in [Storage -> Tree1]
      BY <1>13 DEF Setting!VendorCopied, Setting!Puts
    <3>3. UNCHANGED <<config, saves, adopted, promised, mixed>>
      BY <1>13 DEF Setting!VendorCopied, Setting!Puts
    <3>4. QED
      BY <3>1, <3>2, <3>3
  <2>2. HeldIsSaid'
    BY <1>13, <2>1 DEF Setting!VendorCopied, Setting!Puts
  <2>3. PromisedIsSaid'
    BY <1>13, <2>1 DEF Setting!VendorCopied, Setting!Puts
  <2>4. NamedIsAdopted'
    <3>1. UNCHANGED <<config, adopted, mixed>>
      BY <1>13 DEF Setting!VendorCopied, Setting!Puts
    <3>2. ~Adopting(w) /\ ~Adopting(w)' /\ \A x \in Saver \ {w} : works'[x] = works[x]
      BY <1>13 DEF Setting!VendorCopied, Setting!Puts
    <3>3. \A x \in Saver : (Adopting(x)' <=> Adopting(x)) /\ (Adopting(x) => works'[x].value = works[x].value)
      BY <3>2
    <3>4. NamedIsAdopted
      OBVIOUS
    <3> HIDE DEF NamedIsAdopted, Adopting
    <3>5. QED
      BY <3>1, <3>3, <3>4, AdoptionStays
  <2>5. OnePass'
    BY <1>13, <2>1 DEF Setting!VendorCopied, Setting!Puts
  <2>6. SeenTo'
    BY <1>13, <2>1 DEF Setting!VendorCopied, Setting!Puts
  <2>7. QED
    BY <2>1, <2>2, <2>3, <2>4, <2>5, <2>6
<1>14. ASSUME NEW w \in Saver, Setting!Breaks(w) PROVE SettingsInv'
  <2>1. SettingsType'
    BY <1>14 DEF Setting!Breaks
  <2>2. HeldIsSaid'
    BY <1>14, <2>1 DEF Setting!Breaks
  <2>3. PromisedIsSaid'
    BY <1>14, <2>1 DEF Setting!Breaks
  <2>4. NamedIsAdopted'
    BY <1>14, <2>1 DEF Setting!Breaks
  <2>5. OnePass'
    BY <1>14, <2>1 DEF Setting!Breaks
  <2>6. SeenTo'
    <3>1. /\ \A x \in Saver \ {w} : works'[x] = works[x]
          /\ UNCHANGED <<config, vendored>> /\ spoilt \subseteq spoilt' /\ (~mixed' => ~mixed)
      BY <1>14 DEF Setting!Breaks
    <3>2. works[w].op = "vendor" => config.said["storage"] \in spoilt' \cup {NotSet}
      BY <1>14 DEF Setting!Breaks
    <3>3. Adopting(w) => mixed'
      BY <1>14 DEF Setting!Breaks
    <3>4. QED
      BY <3>1, <3>2, <3>3
  <2>7. QED
    BY <2>1, <2>2, <2>3, <2>4, <2>5, <2>6
<1>15. QED
  BY <1>1, <1>2, <1>3, <1>4, <1>5, <1>6, <1>7, <1>8, <1>9, <1>10, <1>11, <1>12, <1>13, <1>14 DEF Setting!SettingsNext

LEMMA SettingHolds == PartsSpec => [](part = "settings" => SettingsInv)
<1>1. PartsInit => (part = "settings" => SettingsInv)
  <2> SUFFICES ASSUME Setting!SettingsInit PROVE SettingsInv
    BY DEF PartsInit, PartsStart
  <2> USE DEF Setting!SettingsInit, Setting!Unsaid, Setting!NoTree, Setting!AtRest
  <2>1. PICK d \in Storage \cup {NotSet}, g \in {NotSet, "old", "new"} :
          /\ config = [whole |-> TRUE, said |-> [Setting!Unsaid EXCEPT !["storage"] = d, !["digest"] = g]]
          /\ adopted = d
          /\ vendored = [s \in Storage |-> IF s = d /\ g # NotSet THEN [modules |-> g, manifest |-> TRUE]
                                         ELSE Setting!NoTree]
    OBVIOUS
  <2>2. config.said["storage"] = d /\ config.said["digest"] = g
    BY <2>1 DEF Setting!Field
  <2>3. config.said \in [Setting!Field -> Value]
    BY <2>1 DEF Setting!Field, Value
  <2>4. SettingsType
    BY <2>1, <2>2, <2>3 DEF SettingsType, Said, Value, Works, Tree1
  <2>5. \A w \in Saver : works[w].op = "none"
    OBVIOUS
  <2>6. HeldIsSaid /\ PromisedIsSaid /\ NamedIsAdopted
    BY <2>1, <2>2, <2>5 DEF HeldIsSaid, PromisedIsSaid, NamedIsAdopted, Holding, Adopting, Setting!At
  <2>7. OnePass
    BY <2>1, <2>5 DEF OnePass, Setting!Vendoring
  <2>8. SeenTo
    BY <2>1, <2>2, SettingAssumption DEF SeenTo
  <2>9. QED
    BY <2>4, <2>6, <2>7, <2>8 DEF SettingsInv
<1>2. (part = "settings" => SettingsInv) /\ [PartsNext]_partsVars => (part = "settings" => SettingsInv)'
  <2> SUFFICES ASSUME part = "settings" => SettingsInv, [PartsNext]_partsVars, part' = "settings"
               PROVE  SettingsInv'
    OBVIOUS
  <2>1. part = "settings"
    BY DEF PartsNext, partsVars
  <2>2. CASE Setting!SettingsNext
    BY <2>1, <2>2, SettingsStepKeeps
  <2>3. CASE UNCHANGED settings
    BY <2>1, <2>3 DEF settings, SettingsInv, SettingsType, HeldIsSaid, PromisedIsSaid, NamedIsAdopted, OnePass,
                      SeenTo, Holding, Adopting, Setting!At, Setting!Vendoring
  <2>4. QED
    BY <2>1, <2>2, <2>3, SettingMoves
<1>3. QED
  BY <1>1, <1>2, PTL DEF PartsSpec

LEMMA SettingIsSound == ASSUME SettingsInv PROVE Setting!SettingsSound
<1>1. Setting!SavesKept
  BY DEF SettingsInv, PromisedIsSaid, Setting!SavesKept
<1>2. Setting!AdoptedIsSaved
  BY DEF SettingsInv, NamedIsAdopted, Adopting, Setting!AdoptedIsSaved
<1>3. Setting!ManifestIsWhole
  BY DEF SettingsInv, OnePass, Setting!ManifestIsWhole
<1>4. Setting!NamedIsVendored
  BY DEF SettingsInv, SeenTo, Adopting, Setting!At, Setting!AtRest, Setting!NamedIsVendored
<1>5. QED
  BY <1>1, <1>2, <1>3, <1>4 DEF Setting!SettingsSound

\* While nothing fails the background asks once a day, and fetches for a release
\* that release's installer; an installer that is called ready, or is installed, has
\* the bytes of its release, through cancels, discards and crashes; a setting is what
\* the last undisturbed save made it, its directory the one the daemon works in, and
\* the bundled plugins are in it.
THEOREM UpdatesSoundHolds == PartsSpec => []UpdatesSound
<1>1. DownloadInv => Downloads!DownloadsSound
  BY DEF DownloadInv, Verified, Downloads!DownloadsSound, Downloads!Ready
<1>2. ChecksInv => Checks!ChecksSound
  BY DEF ChecksInv, AsksWhenDue, Checks!ChecksSound, Checks!AskedOnce
<1>3. (part = "downloads" => DownloadInv) /\ (part = "checks" => ChecksInv) /\ (part = "settings" => SettingsInv)
      => UpdatesSound
  BY <1>1, <1>2, SettingIsSound DEF UpdatesSound, Of
<1>4. QED
  BY <1>3, DownloadHolds, CheckHolds, SettingHolds, PTL

-----------------------------------------------------------------------------
(* The repository of plugins and skills (ExtensionStore). *)

\* The ids that the first n tasks may have given to directories, and those of rows
\* that only refer to a package.
Given(n) == {Repository!ImportId(k) : k \in 1 .. n} \cup {Repository!BundleRowId(k, p) : k \in 1 .. n, p \in Plugin}
References == {Repository!RefId(p) : p \in Plugin}
\* A task that has not put its row, or its rows, into the index.
Making == (task.does = "local" /\ task.step \in {"install", "write"}) \/ (task.does = "bundle" /\ task.step = "entries")
\* The ids that may be in the index.
Old == Given(IF Making THEN ran - 1 ELSE ran)

Owned(r) == r.storage = "owned" /\ ~r.derived /\ r.id \in Given(ran)
Referring(r) == r.storage = "reference" /\ r.id \in References
Removing(t, steps) == thread[t].does = "remove" /\ thread[t].step \in steps
\* What the task that makes a bundle has added, and what it has taken out.
New == task.rows \ task.saw
Gone == task.saw \ task.rows

\* The records of a task, and of a thread.
ATask(x) ==
  \/ x = Repository!None
  \/ x.does = "reference" /\ x = [does |-> "reference", step |-> "write", of |-> x.of, saw |-> x.saw]
  \/ /\ x.does = "local" /\ x = [does |-> "local", step |-> x.step, of |-> x.of, id |-> x.id, saw |-> x.saw]
     /\ x.step \in {"install", "write", "pack", "undo"} /\ x.id = Repository!ImportId(ran)
  \/ /\ x.does = "bundle"
     /\ x = [does |-> "bundle", step |-> x.step, left |-> x.left, conflict |-> x.conflict, n |-> ran, saw |-> x.saw, rows |-> x.rows]
     /\ x.step \in {"entries", "list"} /\ x.left \subseteq Plugin
TaskType == ran \in Nat /\ (Making => ran # 0) /\ ATask(task) /\ (task.does = "reference" => task.of \in Plugin)
AThread(x) ==
  \/ x = Repository!None
  \/ x.does = "remove" /\ x.step = "look" /\ x = [does |-> "remove", step |-> "look", ids |-> x.ids]
  \/ /\ x.does = "remove" /\ x.step \in {"delete", "write", "bundles"}
     /\ x = [does |-> "remove", step |-> x.step, ids |-> x.ids, id |-> x.id, saw |-> x.saw]
  \/ x.does = "mirror" /\ x = [does |-> "mirror", step |-> "write", wanted |-> x.wanted, saw |-> x.saw] /\ x.wanted \subseteq Plugin
  \/ x.does = "create" /\ x = [does |-> "create", ids |-> x.ids]
ThreadType ==
  /\ DOMAIN thread = Thread /\ \A t \in Thread : AThread(thread[t])
  /\ \A t \in Thread : Removing(t, {"delete", "write", "bundles"}) => thread[t].id \in Old \cup References
IndexType ==
  /\ \A r \in catalogue : (Owned(r) /\ r.id \in Old) \/ Referring(r)
  /\ \A r, s \in catalogue : r.id = s.id /\ r.storage = "owned" => r = s
\* Who is not outdated works from the index as it is.
Current ==
  /\ ("task" \notin outdated /\ (task.does = "reference" \/ (task.does = "local" /\ task.step \in {"write", "undo"})
        \/ (task.does = "bundle" /\ task.step = "entries"))) => task.saw = catalogue
  /\ \A t \in Thread \ outdated : (Removing(t, {"delete", "write"}) \/ thread[t].does = "mirror") => thread[t].saw = catalogue
\* A copy that has no row yet is there.
CopyThere == (task.does = "local" /\ task.step \in {"install", "write"}) => task.id \in kept
\* The entries of a bundle: what was added has its directory, and what was taken out
\* has none, and is the user's no more.
Entries ==
  (task.does = "bundle" /\ task.step = "entries") =>
    /\ \A r \in task.saw : (Owned(r) /\ r.id \in Given(ran - 1)) \/ Referring(r)
    /\ \A r, s \in task.saw : r.id = s.id /\ r.storage = "owned" => r = s
    /\ \A r \in New :
         /\ r.storage = "owned" /\ ~r.derived /\ r.id = Repository!BundleRowId(ran, r.name[1])
         /\ r.name[1] \in Plugin \ task.left /\ r.id \in kept
    /\ \A r, s \in New : r.id = s.id => r = s
    /\ \A r \in Gone : r.id \notin kept \cup mine
\* A removal that writes has deleted, and nobody has imported the same since.
Deleted ==
  \A t \in Thread :
    /\ Removing(t, {"write", "bundles"}) => thread[t].id \notin kept
    /\ (t \notin outdated /\ Removing(t, {"write"})) => thread[t].id \notin mine
\* What a removal has in hand.
InRemoval == {thread[t].id : t \in {u \in Thread : Removing(u, {"delete", "write"})}}
\* What a task has in hand.
InTask ==
  IF task.does = "local" /\ task.step \in {"install", "write"} THEN {task.id}
  ELSE IF task.does = "bundle" /\ task.step = "entries"
       THEN (Repository!Ids(task.rows) \ Repository!Ids(task.saw)) \cup (Repository!Ids(task.saw) \ Repository!Ids(task.rows))
       ELSE {}
Matched(id) == id \in kept /\ id \in Repository!Ids(catalogue)
RowsMatch ==
  \A id \in kept \cup Repository!Ids({r \in catalogue : r.storage = "owned"}) :
    Matched(id) \/ id \in InTask \cup InRemoval \cup abandoned
RepositoryInv ==
  ~clobbered =>
    /\ TaskType /\ ThreadType /\ IndexType /\ Current /\ CopyThere /\ Entries /\ Deleted
    /\ kept \subseteq Given(ran) /\ RowsMatch /\ Repository!UserRowsKept

LEMMA RepositoryMoves ==
  ASSUME part = "repository", [PartsNext]_partsVars
  PROVE  part' = "repository" /\ (Repository!ExtNext \/ UNCHANGED repository)
BY DEF PartsNext, partsVars, TreeStep, StoreStep, CheckStep, DownloadStep, DeletionStep, RepositoryStep,
       InstallStep, CopyStep, RegistryStep, SettingStep, MirrorStep, FeedStep, EndpointStep, OpeningStep

\* The ids of the directories and rows are told apart by the task that made them.
LEMMA IdsApart ==
  /\ \A k, n : Repository!ImportId(k) = Repository!ImportId(n) => k = n
  /\ \A k, n, p, q : Repository!BundleRowId(k, p) = Repository!BundleRowId(n, q) => k = n /\ p = q
  /\ \A p, q : Repository!RefId(p) = Repository!RefId(q) => p = q
  /\ \A k, n, p : Repository!ImportId(k) # Repository!BundleRowId(n, p)
  /\ \A k, p : Repository!ImportId(k) # Repository!RefId(p)
  /\ \A k, n, p : Repository!BundleRowId(n, p) # Repository!RefId(k)
BY DEF Repository!ImportId, Repository!BundleRowId, Repository!RefId
\* The next task gives ids that are new.
LEMMA GivenGrows ==
  ASSUME NEW n \in Nat
  PROVE  /\ Given(n) \subseteq Given(n + 1) /\ Given(n) \cap References = {}
         /\ Repository!ImportId(n + 1) \in Given(n + 1) \ (Given(n) \cup References)
         /\ \A p \in Plugin : Repository!BundleRowId(n + 1, p) \in Given(n + 1) \ (Given(n) \cup References)
<1>1. 1 .. n \subseteq 1 .. n + 1 /\ n + 1 \in 1 .. n + 1 /\ n + 1 \notin 1 .. n
  OBVIOUS
<1>2. Given(n) \subseteq Given(n + 1) /\ Repository!ImportId(n + 1) \in Given(n + 1)
  BY <1>1 DEF Given
<1>3. \A p \in Plugin : Repository!BundleRowId(n + 1, p) \in Given(n + 1)
  BY <1>1 DEF Given
<1>4. Given(n) \cap References = {} /\ Repository!ImportId(n + 1) \notin References
      /\ \A p \in Plugin : Repository!BundleRowId(n + 1, p) \notin References
  BY IdsApart DEF Given, References
<1>5. Repository!ImportId(n + 1) \notin Given(n)
  BY <1>1, IdsApart DEF Given
<1>6. \A p \in Plugin : Repository!BundleRowId(n + 1, p) \notin Given(n)
  BY <1>1, IdsApart DEF Given
<1>7. QED
  BY <1>2, <1>3, <1>4, <1>5, <1>6

\* A task that imports a directory, and one that imports a bundle.
LEMMA LocalIs ==
  ASSUME TaskType, task.does = "local"
  PROVE  /\ task.step \in {"install", "write", "pack", "undo"} /\ task.id = Repository!ImportId(ran) /\ task # Repository!None
         /\ task = [does |-> "local", step |-> task.step, of |-> task.of, id |-> task.id, saw |-> task.saw]
BY DEF TaskType, ATask, Repository!None
LEMMA BundleIs ==
  ASSUME TaskType, task.does = "bundle"
  PROVE  /\ task.step \in {"entries", "list"} /\ task.left \subseteq Plugin /\ task.n = ran /\ task # Repository!None
         /\ task = [does |-> "bundle", step |-> task.step, left |-> task.left, conflict |-> task.conflict, n |-> ran,
                    saw |-> task.saw, rows |-> task.rows]
<1>1. /\ task.step \in {"entries", "list"} /\ task.left \subseteq Plugin /\ task # Repository!None
      /\ task = [does |-> "bundle", step |-> task.step, left |-> task.left, conflict |-> task.conflict, n |-> ran,
                 saw |-> task.saw, rows |-> task.rows]
  BY DEF TaskType, ATask, Repository!None
<1>2. task.n = ran
  BY <1>1
<1>3. QED
  BY <1>1, <1>2
\* The steps of a task, with the record it goes on as.
LEMMA LocalInstallsIs ==
  ASSUME TaskType, Repository!LocalInstalls
  PROVE  /\ task.does = "local" /\ task.step = "install" /\ UNCHANGED <<kept, packs, ran, thread, mine>>
         /\ \/ /\ task' = [does |-> "local", step |-> "write", of |-> task.of, id |-> task.id, saw |-> catalogue]
               /\ Repository!Reads("task") /\ UNCHANGED abandoned
            \/ task' = Repository!None /\ Repository!Same /\ abandoned' = abandoned \cup {task.id}
<1>1. /\ task.does = "local" /\ task.step = "install" /\ UNCHANGED <<kept, packs, ran, thread, mine>>
      /\ \/ /\ task' = [task EXCEPT !.step = "write", !.saw = catalogue]
            /\ Repository!Reads("task") /\ UNCHANGED abandoned
         \/ task' = Repository!None /\ Repository!Same /\ abandoned' = abandoned \cup {task.id}
  BY DEF Repository!LocalInstalls, Repository!TaskEnds
<1>2. task' = [task EXCEPT !.step = "write", !.saw = catalogue] =>
        task' = [does |-> "local", step |-> "write", of |-> task.of, id |-> task.id, saw |-> catalogue]
  BY <1>1, LocalIs
<1>3. QED
  BY <1>1, <1>2
LEMMA LocalWritesIs ==
  ASSUME TaskType, Repository!LocalWrites
  PROVE  /\ task.does = "local" /\ task.step = "write" /\ UNCHANGED <<kept, packs, ran, thread, abandoned>>
         /\ task' = [does |-> "local", step |-> "pack", of |-> task.of, id |-> task.id, saw |-> task.saw]
         /\ Repository!Replaces("task", task.saw \cup {Repository!OwnedRow(task.id, task.of, 1)})
         /\ mine' = mine \cup {task.id}
<1>1. task.does = "local" /\ task' = [task EXCEPT !.step = "pack"]
  BY DEF Repository!LocalWrites, Repository!TaskGoes
<1>2. task' = [does |-> "local", step |-> "pack", of |-> task.of, id |-> task.id, saw |-> task.saw]
  BY <1>1, LocalIs
<1>3. QED
  BY <1>1, <1>2 DEF Repository!LocalWrites
LEMMA LocalPacksIs ==
  ASSUME TaskType, Repository!LocalPacks
  PROVE  /\ task.does = "local" /\ task.step = "pack" /\ UNCHANGED <<kept, packs, ran, thread, abandoned, mine>>
         /\ \/ task' = Repository!None /\ Repository!Same
            \/ /\ task' = [does |-> "local", step |-> "undo", of |-> task.of, id |-> task.id, saw |-> catalogue]
               /\ Repository!Reads("task")
<1>1. /\ task.does = "local" /\ task.step = "pack" /\ UNCHANGED <<kept, packs, ran, thread, abandoned, mine>>
      /\ \/ task' = Repository!None /\ Repository!Same
         \/ task' = [task EXCEPT !.step = "undo", !.saw = catalogue] /\ Repository!Reads("task")
  BY DEF Repository!LocalPacks, Repository!TaskEnds
<1>2. task' = [task EXCEPT !.step = "undo", !.saw = catalogue] =>
        task' = [does |-> "local", step |-> "undo", of |-> task.of, id |-> task.id, saw |-> catalogue]
  BY <1>1, LocalIs
<1>3. QED
  BY <1>1, <1>2
LEMMA BundleWritesIs ==
  ASSUME TaskType, Repository!BundleWrites
  PROVE  /\ task.does = "bundle" /\ task.step = "entries" /\ UNCHANGED <<kept, packs, ran, thread, abandoned>>
         /\ task' = [does |-> "bundle", step |-> "list", left |-> task.left, conflict |-> task.conflict, n |-> ran,
                     saw |-> task.saw, rows |-> task.rows]
         /\ Repository!Replaces("task", task.rows)
         /\ mine' = mine \cup (Repository!Ids(task.rows) \ Repository!Ids(task.saw))
<1>1. task.does = "bundle" /\ task' = [task EXCEPT !.step = "list"]
  BY DEF Repository!BundleWrites, Repository!TaskGoes
<1>2. task' = [does |-> "bundle", step |-> "list", left |-> task.left, conflict |-> task.conflict, n |-> ran,
               saw |-> task.saw, rows |-> task.rows]
  BY <1>1, BundleIs
<1>3. QED
  BY <1>1, <1>2 DEF Repository!BundleWrites
\* One entry of a bundle.
LEMMA BundleEntryIs ==
  ASSUME TaskType, Repository!BundleEntry
  PROVE  /\ task.does = "bundle" /\ task.step = "entries" /\ Repository!Same /\ UNCHANGED <<packs, ran, thread, abandoned>>
         /\ \E p, k :
              /\ p \in Plugin /\ p \in task.left
              /\ task' = [does |-> "bundle", step |-> "entries", left |-> task.left \ {p}, conflict |-> task.conflict, n |-> ran,
                          saw |-> task.saw,
                          rows |-> (task.rows \ Repository!Stale(p)) \cup {Repository!OwnedRow(Repository!BundleRowId(ran, p), p, k)}]
              /\ kept' = (kept \ Repository!Ids(Repository!Stale(p))) \cup {Repository!BundleRowId(ran, p)}
              /\ mine' = mine \ Repository!Ids(Repository!Stale(p))
<1>1. /\ task.does = "bundle" /\ task.step = "entries" /\ Repository!Same /\ UNCHANGED <<packs, ran, thread, abandoned>>
      /\ task.n = ran /\ task.left \subseteq Plugin
  BY BundleIs DEF Repository!BundleEntry
<1>2. PICK p, k :
        /\ p \in task.left
        /\ task' = [task EXCEPT !.left = @ \ {p},
                                !.rows = (task.rows \ Repository!Stale(p)) \cup {Repository!OwnedRow(Repository!BundleRowId(ran, p), p, k)}]
        /\ kept' = (kept \ Repository!Ids(Repository!Stale(p))) \cup {Repository!BundleRowId(ran, p)}
        /\ mine' = mine \ Repository!Ids(Repository!Stale(p))
  BY <1>1 DEF Repository!BundleEntry
<1> DEFINE others == task.left \ {p}
           added == (task.rows \ Repository!Stale(p)) \cup {Repository!OwnedRow(Repository!BundleRowId(ran, p), p, k)}
<1>3. task' = [task EXCEPT !.left = others, !.rows = added]
  BY <1>1, <1>2
<1> HIDE DEF added, others
<1>4. PICK l, c, m, r : task = [does |-> "bundle", step |-> "entries", left |-> l, conflict |-> c, n |-> ran, saw |-> m, rows |-> r]
  BY <1>1, BundleIs
<1>5. task' = [does |-> "bundle", step |-> "entries", left |-> others, conflict |-> c, n |-> ran, saw |-> m, rows |-> added]
  BY <1>3, <1>4
<1>6. task.conflict = c /\ task.saw = m
  BY <1>4
<1>7. QED
  BY <1>1, <1>2, <1>5, <1>6 DEF added, others

\* The steps leave the records of the task and of the threads in order.
LEMMA TaskTyped ==
  ASSUME RepositoryInv, Repository!ExtNext, ~clobbered'
  PROVE  TaskType'
<1>a. ~clobbered
  BY DEF Repository!ExtNext
<1>b. TaskType
  BY <1>a DEF RepositoryInv
<1> USE DEF TaskType, Making, ATask
<1>1. ASSUME NEW p \in Plugin, Repository!ImportReference(p)
      PROVE  TaskType'
  BY <1>a, <1>b, RepositoryAssumption, <1>1 DEF Repository!ImportReference, Repository!TaskStarts, Repository!Reads, Repository!None
<1>2. ASSUME NEW p \in Plugin, Repository!ReuseLocal(p)
      PROVE  TaskType'
  BY <1>a, <1>b, RepositoryAssumption, <1>2 DEF Repository!ReuseLocal, Repository!TaskStarts, Repository!Same, Repository!None
<1>3. ASSUME NEW p \in Plugin, Repository!ImportLocal(p)
      PROVE  TaskType'
  BY <1>a, <1>b, RepositoryAssumption, <1>3 DEF Repository!ImportLocal, Repository!TaskStarts, Repository!Same, Repository!None
<1>4. ASSUME NEW l \in BundleArchives, NEW conflict, Repository!ImportBundle(l, conflict)
      PROVE  TaskType'
  BY <1>a, <1>b, RepositoryAssumption, <1>4 DEF Repository!ImportBundle, Repository!TaskStarts, Repository!Reads, Repository!None
<1>5. CASE Repository!upsert_reference_entry
  BY <1>a, <1>b, RepositoryAssumption, <1>5 DEF Repository!upsert_reference_entry, Repository!TaskEnds, Repository!Replaces, Repository!None
<1>6. CASE Repository!LocalInstalls
  BY <1>a, <1>b, <1>6, LocalInstallsIs, LocalIs DEF Repository!None
<1>7. CASE Repository!LocalWrites
  BY <1>a, <1>b, <1>7, LocalWritesIs, LocalIs DEF Repository!None
<1>8. CASE Repository!LocalPacks
  BY <1>a, <1>b, <1>8, LocalPacksIs, LocalIs DEF Repository!None
<1>9. CASE Repository!LocalUndoes
  BY <1>a, <1>b, RepositoryAssumption, <1>9 DEF Repository!LocalUndoes, Repository!TaskEnds, Repository!Replaces, Repository!None
<1>10. CASE Repository!BundleEntry
  <2>1. task.does = "bundle" /\ task.step = "entries" /\ ran' = ran
    BY <1>b, <1>10, BundleEntryIs
  <2>2. PICK p \in Plugin : \E m : task' =
          [does |-> "bundle", step |-> "entries", left |-> task.left \ {p}, conflict |-> task.conflict, n |-> ran,
           saw |-> task.saw, rows |-> m]
    BY <1>b, <1>10, BundleEntryIs
  <2>3. task.left \subseteq Plugin
    BY <1>b, <2>1, BundleIs
  <2>4. QED
    BY <1>b, <2>1, <2>2, <2>3
<1>11. CASE Repository!BundleFails
  BY <1>a, <1>b, RepositoryAssumption, <1>11 DEF Repository!BundleFails, Repository!TaskEnds, Repository!Same, Repository!None
<1>12. CASE Repository!BundleWrites
  BY <1>a, <1>b, <1>12, BundleWritesIs, BundleIs DEF Repository!None
<1>13. CASE Repository!BundleLists
  BY <1>a, <1>b, RepositoryAssumption, <1>13 DEF Repository!BundleLists, Repository!TaskEnds, Repository!Same, Repository!None
<1>14. ASSUME NEW t \in Thread, NEW ids, Repository!Removes(t, ids)
      PROVE  TaskType'
  BY <1>a, <1>b, RepositoryAssumption, <1>14 DEF Repository!Removes, Repository!Begins, Repository!Same, Repository!None
<1>15. ASSUME NEW t \in Thread, NEW ids, Repository!create_extension_bundle(t, ids)
      PROVE  TaskType'
  BY <1>a, <1>b, RepositoryAssumption, <1>15 DEF Repository!create_extension_bundle, Repository!Begins, Repository!Same, Repository!None
<1>16. ASSUME NEW t \in Thread, Repository!remove_repository_extension(t)
      PROVE  TaskType'
  BY <1>a, <1>b, RepositoryAssumption, <1>16 DEF Repository!remove_repository_extension, Repository!Reads, Repository!Finishes, Repository!None
<1>17. ASSUME NEW t \in Thread, Repository!RemoveDeletes(t)
      PROVE  TaskType'
  BY <1>a, <1>b, RepositoryAssumption, <1>17 DEF Repository!RemoveDeletes, Repository!Goes, Repository!Same, Repository!None
<1>18. ASSUME NEW t \in Thread, Repository!RemoveWrites(t)
      PROVE  TaskType'
  BY <1>a, <1>b, RepositoryAssumption, <1>18 DEF Repository!RemoveWrites, Repository!Goes, Repository!Replaces, Repository!None
<1>19. ASSUME NEW t \in Thread, Repository!RemoveBundles(t)
      PROVE  TaskType'
  BY <1>a, <1>b, RepositoryAssumption, <1>19 DEF Repository!RemoveBundles, Repository!Same, Repository!None
<1>20. ASSUME NEW t \in Thread, NEW wanted \in SUBSET Plugin, Repository!Mirrors(t, wanted)
      PROVE  TaskType'
  BY <1>a, <1>b, RepositoryAssumption, <1>20 DEF Repository!Mirrors, Repository!Begins, Repository!Reads, Repository!None
<1>21. ASSUME NEW t \in Thread, Repository!sync_derived_entries(t)
      PROVE  TaskType'
  BY <1>a, <1>b, RepositoryAssumption, <1>21 DEF Repository!sync_derived_entries, Repository!Finishes, Repository!Replaces, Repository!None
<1>22. ASSUME NEW t \in Thread, Repository!CreateWrites(t)
      PROVE  TaskType'
  BY <1>a, <1>b, RepositoryAssumption, <1>22 DEF Repository!CreateWrites, Repository!Finishes, Repository!Same, Repository!None
<1>23. ASSUME NEW t \in Thread, NEW id, Repository!delete_extension_bundle(t, id)
      PROVE  TaskType'
  BY <1>a, <1>b, RepositoryAssumption, <1>23 DEF Repository!delete_extension_bundle, Repository!Same, Repository!None
<1>24. CASE Repository!DaemonDies
  BY <1>a, <1>b, RepositoryAssumption, <1>24 DEF Repository!DaemonDies, Repository!Same, Repository!None
<1>25. QED
  BY <1>a, <1>1, <1>2, <1>3, <1>4, <1>5, <1>6, <1>7, <1>8, <1>9, <1>10, <1>11, <1>12, <1>13, <1>14, <1>15, <1>16, <1>17, <1>18, <1>19, <1>20, <1>21, <1>22, <1>23, <1>24 DEF Repository!ExtNext

\* An id that has been given stays given, and one that may be in the index stays so.
LEMMA GivenStays ==
  ASSUME RepositoryInv, Repository!ExtNext, ~clobbered'
  PROVE  Given(ran) \subseteq Given(ran') /\ Old \subseteq Old' /\ ran \in Nat /\ ran' \in {ran, ran + 1}
<1>a. ~clobbered
  BY DEF Repository!ExtNext
<1>b. TaskType
  BY <1>a DEF RepositoryInv
<1> USE DEF TaskType, Making, ATask
<1>1. ASSUME NEW p \in Plugin, Repository!ImportReference(p)
      PROVE  Given(ran) \subseteq Given(ran') /\ Old \subseteq Old' /\ ran \in Nat /\ ran' \in {ran, ran + 1}
  BY <1>a, <1>b, GivenGrows, <1>1 DEF Repository!ImportReference, Repository!TaskStarts, Repository!Reads, Old, Repository!None
<1>2. ASSUME NEW p \in Plugin, Repository!ReuseLocal(p)
      PROVE  Given(ran) \subseteq Given(ran') /\ Old \subseteq Old' /\ ran \in Nat /\ ran' \in {ran, ran + 1}
  BY <1>a, <1>b, GivenGrows, <1>2 DEF Repository!ReuseLocal, Repository!TaskStarts, Repository!Same, Old, Repository!None
<1>3. ASSUME NEW p \in Plugin, Repository!ImportLocal(p)
      PROVE  Given(ran) \subseteq Given(ran') /\ Old \subseteq Old' /\ ran \in Nat /\ ran' \in {ran, ran + 1}
  BY <1>a, <1>b, GivenGrows, <1>3 DEF Repository!ImportLocal, Repository!TaskStarts, Repository!Same, Old, Repository!None
<1>4. ASSUME NEW l \in BundleArchives, NEW conflict, Repository!ImportBundle(l, conflict)
      PROVE  Given(ran) \subseteq Given(ran') /\ Old \subseteq Old' /\ ran \in Nat /\ ran' \in {ran, ran + 1}
  BY <1>a, <1>b, GivenGrows, <1>4 DEF Repository!ImportBundle, Repository!TaskStarts, Repository!Reads, Old, Repository!None
<1>5. CASE Repository!upsert_reference_entry
  BY <1>a, <1>b, GivenGrows, <1>5 DEF Repository!upsert_reference_entry, Repository!TaskEnds, Repository!Replaces, Old, Repository!None
<1>6. CASE Repository!LocalInstalls
  <2>1. /\ task.does = "local" /\ task.step = "install" /\ ran' = ran
        /\ task'.does = "nothing" \/ (task'.does = "local" /\ task'.step = "write")
    BY <1>b, <1>6, LocalInstallsIs DEF Repository!None
  <2>2. Old = Given(ran - 1) /\ Old' \in {Given(ran - 1), Given(ran)} /\ ran - 1 \in Nat /\ ran = (ran - 1) + 1
    BY <1>b, <2>1 DEF Old
  <2>3. QED
    BY <2>1, <2>2, GivenGrows
<1>7. CASE Repository!LocalWrites
  <2>1. /\ task.does = "local" /\ task.step = "write" /\ ran' = ran /\ task'.does = "local" /\ task'.step = "pack"
    BY <1>b, <1>7, LocalWritesIs
  <2>2. Old = Given(ran - 1) /\ Old' = Given(ran) /\ ran - 1 \in Nat /\ ran = (ran - 1) + 1
    BY <1>b, <2>1 DEF Old
  <2>3. QED
    BY <2>1, <2>2, GivenGrows
<1>8. CASE Repository!LocalPacks
  BY <1>a, <1>b, <1>8, LocalPacksIs, GivenGrows, LocalIs DEF Repository!None, Old
<1>9. CASE Repository!LocalUndoes
  BY <1>a, <1>b, GivenGrows, <1>9 DEF Repository!LocalUndoes, Repository!TaskEnds, Repository!Replaces, Old, Repository!None
<1>10. CASE Repository!BundleEntry
  <2>1. task.does = "bundle" /\ task.step = "entries" /\ ran' = ran
    BY <1>b, <1>10, BundleEntryIs
  <2>2. PICK p \in Plugin : \E m : task' =
          [does |-> "bundle", step |-> "entries", left |-> task.left \ {p}, conflict |-> task.conflict, n |-> ran,
           saw |-> task.saw, rows |-> m]
    BY <1>b, <1>10, BundleEntryIs
  <2>3. task.left \subseteq Plugin
    BY <1>b, <2>1, BundleIs
  <2>4. QED
    BY <1>b, <2>1, <2>2, <2>3 DEF Old
<1>11. CASE Repository!BundleFails
  BY <1>a, <1>b, GivenGrows, <1>11 DEF Repository!BundleFails, Repository!TaskEnds, Repository!Same, Old, Repository!None
<1>12. CASE Repository!BundleWrites
  <2>1. task.does = "bundle" /\ task.step = "entries" /\ task'.step = "list" /\ task'.does = "bundle" /\ ran' = ran
    BY <1>b, <1>12, BundleWritesIs
  <2>2. Old = Given(ran - 1) /\ Old' = Given(ran) /\ ran - 1 \in Nat /\ ran = (ran - 1) + 1
    BY <1>b, <2>1 DEF Old
  <2>3. QED
    BY <2>1, <2>2, GivenGrows
<1>13. CASE Repository!BundleLists
  BY <1>a, <1>b, GivenGrows, <1>13 DEF Repository!BundleLists, Repository!TaskEnds, Repository!Same, Old, Repository!None
<1>14. ASSUME NEW t \in Thread, NEW ids, Repository!Removes(t, ids)
      PROVE  Given(ran) \subseteq Given(ran') /\ Old \subseteq Old' /\ ran \in Nat /\ ran' \in {ran, ran + 1}
  BY <1>a, <1>b, GivenGrows, <1>14 DEF Repository!Removes, Repository!Begins, Repository!Same, Old, Repository!None
<1>15. ASSUME NEW t \in Thread, NEW ids, Repository!create_extension_bundle(t, ids)
      PROVE  Given(ran) \subseteq Given(ran') /\ Old \subseteq Old' /\ ran \in Nat /\ ran' \in {ran, ran + 1}
  BY <1>a, <1>b, GivenGrows, <1>15 DEF Repository!create_extension_bundle, Repository!Begins, Repository!Same, Old, Repository!None
<1>16. ASSUME NEW t \in Thread, Repository!remove_repository_extension(t)
      PROVE  Given(ran) \subseteq Given(ran') /\ Old \subseteq Old' /\ ran \in Nat /\ ran' \in {ran, ran + 1}
  BY <1>a, <1>b, GivenGrows, <1>16 DEF Repository!remove_repository_extension, Repository!Reads, Repository!Finishes, Old, Repository!None
<1>17. ASSUME NEW t \in Thread, Repository!RemoveDeletes(t)
      PROVE  Given(ran) \subseteq Given(ran') /\ Old \subseteq Old' /\ ran \in Nat /\ ran' \in {ran, ran + 1}
  BY <1>a, <1>b, GivenGrows, <1>17 DEF Repository!RemoveDeletes, Repository!Goes, Repository!Same, Old, Repository!None
<1>18. ASSUME NEW t \in Thread, Repository!RemoveWrites(t)
      PROVE  Given(ran) \subseteq Given(ran') /\ Old \subseteq Old' /\ ran \in Nat /\ ran' \in {ran, ran + 1}
  BY <1>a, <1>b, GivenGrows, <1>18 DEF Repository!RemoveWrites, Repository!Goes, Repository!Replaces, Old, Repository!None
<1>19. ASSUME NEW t \in Thread, Repository!RemoveBundles(t)
      PROVE  Given(ran) \subseteq Given(ran') /\ Old \subseteq Old' /\ ran \in Nat /\ ran' \in {ran, ran + 1}
  BY <1>a, <1>b, GivenGrows, <1>19 DEF Repository!RemoveBundles, Repository!Same, Old, Repository!None
<1>20. ASSUME NEW t \in Thread, NEW wanted \in SUBSET Plugin, Repository!Mirrors(t, wanted)
      PROVE  Given(ran) \subseteq Given(ran') /\ Old \subseteq Old' /\ ran \in Nat /\ ran' \in {ran, ran + 1}
  BY <1>a, <1>b, GivenGrows, <1>20 DEF Repository!Mirrors, Repository!Begins, Repository!Reads, Old, Repository!None
<1>21. ASSUME NEW t \in Thread, Repository!sync_derived_entries(t)
      PROVE  Given(ran) \subseteq Given(ran') /\ Old \subseteq Old' /\ ran \in Nat /\ ran' \in {ran, ran + 1}
  BY <1>a, <1>b, GivenGrows, <1>21 DEF Repository!sync_derived_entries, Repository!Finishes, Repository!Replaces, Old, Repository!None
<1>22. ASSUME NEW t \in Thread, Repository!CreateWrites(t)
      PROVE  Given(ran) \subseteq Given(ran') /\ Old \subseteq Old' /\ ran \in Nat /\ ran' \in {ran, ran + 1}
  BY <1>a, <1>b, GivenGrows, <1>22 DEF Repository!CreateWrites, Repository!Finishes, Repository!Same, Old, Repository!None
<1>23. ASSUME NEW t \in Thread, NEW id, Repository!delete_extension_bundle(t, id)
      PROVE  Given(ran) \subseteq Given(ran') /\ Old \subseteq Old' /\ ran \in Nat /\ ran' \in {ran, ran + 1}
  BY <1>a, <1>b, GivenGrows, <1>23 DEF Repository!delete_extension_bundle, Repository!Same, Old, Repository!None
<1>24. CASE Repository!DaemonDies
  BY <1>a, <1>b, GivenGrows, <1>24 DEF Repository!DaemonDies, Repository!Same, Old, Repository!None
<1>25. QED
  BY <1>a, <1>1, <1>2, <1>3, <1>4, <1>5, <1>6, <1>7, <1>8, <1>9, <1>10, <1>11, <1>12, <1>13, <1>14, <1>15, <1>16, <1>17, <1>18, <1>19, <1>20, <1>21, <1>22, <1>23, <1>24 DEF Repository!ExtNext

\* The records a thread may have.
LEMMA ThreadShapes ==
  ASSUME NEW x, NEW l, NEW i, NEW m, NEW s \in {"delete", "write", "bundles"},
         x \in {Repository!None, [does |-> "remove", step |-> "look", ids |-> l],
                [does |-> "remove", step |-> s, ids |-> l, id |-> i, saw |-> m], [does |-> "create", ids |-> l]}
  PROVE  AThread(x)
BY DEF AThread, Repository!None
\* A thread that goes on, while the others stay as they are.
LEMMA OneThread ==
  ASSUME ThreadType, NEW t \in Thread, NEW x, thread' = [thread EXCEPT ![t] = x]
  PROVE  DOMAIN thread' = Thread /\ thread'[t] = x /\ \A u \in Thread \ {t} : thread'[u] = thread[u]
BY DEF ThreadType
\* A removal past its first look names a row that was in the index.
LEMMA RemovalIs ==
  ASSUME ThreadType, NEW t \in Thread, thread[t].does = "remove", thread[t].step # "look"
  PROVE  /\ thread[t].step \in {"delete", "write", "bundles"} /\ thread[t].id \in Old \cup References
         /\ \E l, i, m : thread[t] = [does |-> "remove", step |-> thread[t].step, ids |-> l, id |-> i, saw |-> m]
<1>1. AThread(thread[t])
  BY DEF ThreadType
<1>2. thread[t].step \in {"delete", "write", "bundles"}
      /\ thread[t] = [does |-> "remove", step |-> thread[t].step, ids |-> thread[t].ids, id |-> thread[t].id, saw |-> thread[t].saw]
  BY <1>1 DEF AThread, Repository!None
<1>3. QED
  BY <1>2 DEF ThreadType, Removing
\* The steps of a thread, with the record it goes on as.
LEMMA BeginsIs ==
  ASSUME ThreadType, NEW t \in Thread, NEW x, Repository!Begins(t, x)
  PROVE  DOMAIN thread' = Thread /\ thread'[t] = x /\ \A u \in Thread \ {t} : thread'[u] = thread[u]
BY OneThread DEF Repository!Begins
LEMMA FinishesIs ==
  ASSUME ThreadType, NEW t \in Thread, Repository!Finishes(t)
  PROVE  DOMAIN thread' = Thread /\ thread'[t] = Repository!None /\ \A u \in Thread \ {t} : thread'[u] = thread[u]
BY OneThread DEF Repository!Finishes
LEMMA LooksIs ==
  ASSUME ThreadType, NEW t \in Thread, Repository!remove_repository_extension(t)
  PROVE  /\ DOMAIN thread' = Thread /\ \A u \in Thread \ {t} : thread'[u] = thread[u]
         /\ thread[t].does = "remove" /\ thread[t].step = "look"
         /\ UNCHANGED <<kept, packs, task, ran, abandoned, mine>> /\ Repository!Reads(t)
         /\ \/ thread'[t] = Repository!None
            \/ \E l, i : /\ i \in Repository!Ids(catalogue)
                         /\ thread'[t] = [does |-> "remove", step |-> "delete", ids |-> l, id |-> i, saw |-> catalogue]
<1>1. PICK i : IF i \notin Repository!Ids(catalogue) THEN Repository!Finishes(t)
               ELSE thread' = [thread EXCEPT ![t] = [does |-> "remove", step |-> "delete", ids |-> @.ids \ {i}, id |-> i, saw |-> catalogue]]
  BY DEF Repository!remove_repository_extension
<1>2. CASE i \notin Repository!Ids(catalogue)
  BY <1>1, <1>2, FinishesIs DEF Repository!remove_repository_extension
<1>3. CASE i \in Repository!Ids(catalogue)
  <2> DEFINE x == [does |-> "remove", step |-> "delete", ids |-> thread[t].ids \ {i}, id |-> i, saw |-> catalogue]
  <2>1. thread' = [thread EXCEPT ![t] = x]
    BY <1>1, <1>3
  <2>2. DOMAIN thread' = Thread /\ thread'[t] = x /\ \A u \in Thread \ {t} : thread'[u] = thread[u]
    BY <2>1, OneThread
  <2>3. QED
    BY <1>3, <2>2 DEF Repository!remove_repository_extension
<1>4. QED
  BY <1>2, <1>3
LEMMA GoesIs ==
  ASSUME ThreadType, NEW t \in Thread, NEW x \in {"write", "bundles"}, Repository!Goes(t, x), thread[t].does = "remove", thread[t].step # "look"
  PROVE  /\ DOMAIN thread' = Thread /\ \A u \in Thread \ {t} : thread'[u] = thread[u]
         /\ thread'[t].does = "remove" /\ thread'[t].step = x /\ thread'[t].id = thread[t].id /\ thread'[t].saw = thread[t].saw
         /\ AThread(thread'[t])
<1>1. PICK l, i, m : thread[t] = [does |-> "remove", step |-> thread[t].step, ids |-> l, id |-> i, saw |-> m]
  BY RemovalIs
<1> DEFINE y == [thread[t] EXCEPT !.step = x]
<1>2. thread' = [thread EXCEPT ![t] = y]
  BY DEF Repository!Goes
<1>3. DOMAIN thread' = Thread /\ thread'[t] = y /\ \A u \in Thread \ {t} : thread'[u] = thread[u]
  BY <1>2, OneThread
<1>4. thread'[t] = [does |-> "remove", step |-> x, ids |-> l, id |-> i, saw |-> m]
  BY <1>1, <1>3
<1>5. AThread(thread'[t])
  BY <1>4, ThreadShapes
<1>6. QED
  BY <1>1, <1>3, <1>4, <1>5
LEMMA NamesIs ==
  ASSUME ThreadType, NEW t \in Thread, Repository!RemoveBundles(t)
  PROVE  /\ DOMAIN thread' = Thread /\ \A u \in Thread \ {t} : thread'[u] = thread[u]
         /\ thread[t].does = "remove" /\ thread[t].step = "bundles"
         /\ UNCHANGED <<kept, task, ran, abandoned, mine>> /\ Repository!Same
         /\ AThread(thread'[t]) /\ ~Removing(t, {"delete", "write", "bundles"})'
         /\ thread'[t].does \in {"nothing", "remove"}
<1> DEFINE x == IF thread[t].ids = {} THEN Repository!None ELSE [does |-> "remove", step |-> "look", ids |-> thread[t].ids]
<1>1. thread' = [thread EXCEPT ![t] = x]
  BY DEF Repository!RemoveBundles
<1>2. DOMAIN thread' = Thread /\ thread'[t] = x /\ \A u \in Thread \ {t} : thread'[u] = thread[u]
  BY <1>1, OneThread
<1>3. CASE x = Repository!None
  BY <1>2, <1>3, ThreadShapes DEF Repository!RemoveBundles, Removing, Repository!None
<1>4. CASE x = [does |-> "remove", step |-> "look", ids |-> thread[t].ids]
  <2>1. AThread(thread'[t])
    BY <1>2, <1>4, ThreadShapes
  <2>2. thread'[t].step = "look" /\ thread'[t].does = "remove"
    BY <1>2, <1>4
  <2>3. QED
    BY <1>2, <2>1, <2>2 DEF Repository!RemoveBundles, Removing
<1>5. QED
  BY <1>3, <1>4

\* One thread's step leaves the records of all in order.
LEMMA ThreadKept ==
  ASSUME ThreadType, NEW t \in Thread, DOMAIN thread' = Thread, \A u \in Thread \ {t} : thread'[u] = thread[u],
         AThread(thread'[t]), Removing(t, {"delete", "write", "bundles"})' => thread'[t].id \in Old' \cup References,
         Old \subseteq Old'
  PROVE  ThreadType'
<1>1. \A u \in Thread : AThread(thread'[u])
  BY DEF ThreadType
<1>2. \A u \in Thread : Removing(u, {"delete", "write", "bundles"})' => thread'[u].id \in Old' \cup References
  BY DEF ThreadType, Removing
<1>3. QED
  BY <1>1, <1>2 DEF ThreadType

LEMMA ThreadTyped ==
  ASSUME RepositoryInv, Repository!ExtNext, ~clobbered'
  PROVE  ThreadType'
<1>a. ~clobbered
  BY DEF Repository!ExtNext
<1>b. TaskType /\ ThreadType /\ IndexType
  BY <1>a DEF RepositoryInv
<1>c. TaskType' /\ Old \subseteq Old'
  BY TaskTyped, GivenStays
<1>1. ASSUME NEW p \in Plugin, Repository!ImportReference(p)
      PROVE  ThreadType'
  <2>1. UNCHANGED thread
    BY <1>b, <1>1, <1>a DEF Repository!ImportReference
  <2>2. QED
    BY <1>b, <1>c, <2>1 DEF Removing, ThreadType
<1>2. ASSUME NEW p \in Plugin, Repository!ReuseLocal(p)
      PROVE  ThreadType'
  <2>1. UNCHANGED thread
    BY <1>b, <1>2, <1>a DEF Repository!ReuseLocal
  <2>2. QED
    BY <1>b, <1>c, <2>1 DEF Removing, ThreadType
<1>3. ASSUME NEW p \in Plugin, Repository!ImportLocal(p)
      PROVE  ThreadType'
  <2>1. UNCHANGED thread
    BY <1>b, <1>3, <1>a DEF Repository!ImportLocal
  <2>2. QED
    BY <1>b, <1>c, <2>1 DEF Removing, ThreadType
<1>4. ASSUME NEW l \in BundleArchives, NEW conflict, Repository!ImportBundle(l, conflict)
      PROVE  ThreadType'
  <2>1. UNCHANGED thread
    BY <1>b, <1>4, <1>a DEF Repository!ImportBundle
  <2>2. QED
    BY <1>b, <1>c, <2>1 DEF Removing, ThreadType
<1>5. CASE Repository!upsert_reference_entry
  <2>1. UNCHANGED thread
    BY <1>b, <1>5, <1>a DEF Repository!upsert_reference_entry
  <2>2. QED
    BY <1>b, <1>c, <2>1 DEF Removing, ThreadType
<1>6. CASE Repository!LocalInstalls
  <2>1. UNCHANGED thread
    BY <1>b, <1>6, LocalInstallsIs DEF Removing
  <2>2. QED
    BY <1>b, <1>c, <2>1 DEF Removing, ThreadType
<1>7. CASE Repository!LocalWrites
  <2>1. UNCHANGED thread
    BY <1>b, <1>7, LocalWritesIs DEF Removing
  <2>2. QED
    BY <1>b, <1>c, <2>1 DEF Removing, ThreadType
<1>8. CASE Repository!LocalPacks
  <2>1. UNCHANGED thread
    BY <1>b, <1>8, LocalPacksIs DEF Removing
  <2>2. QED
    BY <1>b, <1>c, <2>1 DEF Removing, ThreadType
<1>9. CASE Repository!LocalUndoes
  <2>1. UNCHANGED thread
    BY <1>b, <1>9, <1>a DEF Repository!LocalUndoes
  <2>2. QED
    BY <1>b, <1>c, <2>1 DEF Removing, ThreadType
<1>10. CASE Repository!BundleEntry
  <2>1. UNCHANGED thread
    BY <1>b, <1>10, BundleEntryIs DEF Removing
  <2>2. QED
    BY <1>b, <1>c, <2>1 DEF Removing, ThreadType
<1>11. CASE Repository!BundleFails
  <2>1. UNCHANGED thread
    BY <1>b, <1>11, <1>a DEF Repository!BundleFails
  <2>2. QED
    BY <1>b, <1>c, <2>1 DEF Removing, ThreadType
<1>12. CASE Repository!BundleWrites
  <2>1. UNCHANGED thread
    BY <1>b, <1>12, BundleWritesIs DEF Removing
  <2>2. QED
    BY <1>b, <1>c, <2>1 DEF Removing, ThreadType
<1>13. CASE Repository!BundleLists
  <2>1. UNCHANGED thread
    BY <1>b, <1>13, <1>a DEF Repository!BundleLists
  <2>2. QED
    BY <1>b, <1>c, <2>1 DEF Removing, ThreadType
<1>14. ASSUME NEW t \in Thread, NEW ids, Repository!Removes(t, ids)
      PROVE  ThreadType'
  <2>1. DOMAIN thread' = Thread /\ \A u \in Thread \ {t} : thread'[u] = thread[u]
    BY <1>b, <1>14, BeginsIs DEF Repository!Removes
  <2>2. AThread(thread'[t])
    BY <1>b, <1>14, BeginsIs DEF Repository!Removes, AThread, Repository!None
  <2>3. Removing(t, {"delete", "write", "bundles"})' => thread'[t].id \in Old \cup References
    BY <1>b, <1>14, BeginsIs DEF Repository!Removes, Removing, Repository!None
  <2>4. QED
    BY <1>b, <1>c, <2>1, <2>2, <2>3, ThreadKept
<1>15. ASSUME NEW t \in Thread, NEW ids, Repository!create_extension_bundle(t, ids)
      PROVE  ThreadType'
  <2>1. DOMAIN thread' = Thread /\ \A u \in Thread \ {t} : thread'[u] = thread[u]
    BY <1>b, <1>15, BeginsIs DEF Repository!create_extension_bundle
  <2>2. AThread(thread'[t])
    BY <1>b, <1>15, BeginsIs DEF Repository!create_extension_bundle, AThread, Repository!None
  <2>3. Removing(t, {"delete", "write", "bundles"})' => thread'[t].id \in Old \cup References
    BY <1>b, <1>15, BeginsIs DEF Repository!create_extension_bundle, Removing, Repository!None
  <2>4. QED
    BY <1>b, <1>c, <2>1, <2>2, <2>3, ThreadKept
<1>16. ASSUME NEW t \in Thread, Repository!remove_repository_extension(t)
      PROVE  ThreadType'
  <2>1. \A i \in Repository!Ids(catalogue) : i \in Old \cup References
    BY <1>b DEF IndexType, Repository!Ids, Owned, Referring
  <2>2. DOMAIN thread' = Thread /\ \A u \in Thread \ {t} : thread'[u] = thread[u]
    BY <1>b, <1>16, LooksIs
  <2>3. AThread(thread'[t])
    BY <1>b, <1>16, LooksIs, ThreadShapes
  <2>4. Removing(t, {"delete", "write", "bundles"})' => thread'[t].id \in Old \cup References
    <3>1. CASE thread'[t] = Repository!None
      BY <3>1 DEF Removing, Repository!None
    <3>2. ASSUME NEW l, NEW i \in Repository!Ids(catalogue),
                 thread'[t] = [does |-> "remove", step |-> "delete", ids |-> l, id |-> i, saw |-> catalogue]
          PROVE  thread'[t].id \in Old \cup References
      BY <2>1, <3>2
    <3>3. QED
      BY <1>b, <1>16, LooksIs, <3>1, <3>2
  <2>5. QED
    BY <1>b, <1>c, <2>2, <2>3, <2>4, ThreadKept
<1>17. ASSUME NEW t \in Thread, Repository!RemoveDeletes(t)
      PROVE  ThreadType'
  <2>1. DOMAIN thread' = Thread /\ \A u \in Thread \ {t} : thread'[u] = thread[u]
    BY <1>b, <1>17, GoesIs, RemovalIs DEF Repository!RemoveDeletes
  <2>2. AThread(thread'[t])
    BY <1>b, <1>17, GoesIs, RemovalIs DEF Repository!RemoveDeletes
  <2>3. Removing(t, {"delete", "write", "bundles"})' => thread'[t].id \in Old \cup References
    BY <1>b, <1>17, GoesIs, RemovalIs DEF Repository!RemoveDeletes, Removing, Repository!None
  <2>4. QED
    BY <1>b, <1>c, <2>1, <2>2, <2>3, ThreadKept
<1>18. ASSUME NEW t \in Thread, Repository!RemoveWrites(t)
      PROVE  ThreadType'
  <2>1. DOMAIN thread' = Thread /\ \A u \in Thread \ {t} : thread'[u] = thread[u]
    BY <1>b, <1>18, GoesIs, RemovalIs DEF Repository!RemoveWrites
  <2>2. AThread(thread'[t])
    BY <1>b, <1>18, GoesIs, RemovalIs DEF Repository!RemoveWrites
  <2>3. Removing(t, {"delete", "write", "bundles"})' => thread'[t].id \in Old \cup References
    BY <1>b, <1>18, GoesIs, RemovalIs DEF Repository!RemoveWrites, Removing, Repository!None
  <2>4. QED
    BY <1>b, <1>c, <2>1, <2>2, <2>3, ThreadKept
<1>19. ASSUME NEW t \in Thread, Repository!RemoveBundles(t)
      PROVE  ThreadType'
  <2>1. DOMAIN thread' = Thread /\ \A u \in Thread \ {t} : thread'[u] = thread[u]
    BY <1>b, <1>19, NamesIs
  <2>2. AThread(thread'[t])
    BY <1>b, <1>19, NamesIs
  <2>3. Removing(t, {"delete", "write", "bundles"})' => thread'[t].id \in Old \cup References
    BY <1>b, <1>19, NamesIs DEF Removing, Repository!None
  <2>4. QED
    BY <1>b, <1>c, <2>1, <2>2, <2>3, ThreadKept
<1>20. ASSUME NEW t \in Thread, NEW wanted \in SUBSET Plugin, Repository!Mirrors(t, wanted)
      PROVE  ThreadType'
  <2>1. DOMAIN thread' = Thread /\ \A u \in Thread \ {t} : thread'[u] = thread[u]
    BY <1>b, <1>20, BeginsIs DEF Repository!Mirrors
  <2>2. AThread(thread'[t])
    BY <1>b, <1>20, BeginsIs DEF Repository!Mirrors, AThread, Repository!None
  <2>3. Removing(t, {"delete", "write", "bundles"})' => thread'[t].id \in Old \cup References
    BY <1>b, <1>20, BeginsIs DEF Repository!Mirrors, Removing, Repository!None
  <2>4. QED
    BY <1>b, <1>c, <2>1, <2>2, <2>3, ThreadKept
<1>21. ASSUME NEW t \in Thread, Repository!sync_derived_entries(t)
      PROVE  ThreadType'
  <2>1. DOMAIN thread' = Thread /\ \A u \in Thread \ {t} : thread'[u] = thread[u]
    BY <1>b, <1>21, FinishesIs DEF Repository!sync_derived_entries
  <2>2. AThread(thread'[t])
    BY <1>b, <1>21, FinishesIs DEF Repository!sync_derived_entries, AThread, Repository!None
  <2>3. Removing(t, {"delete", "write", "bundles"})' => thread'[t].id \in Old \cup References
    BY <1>b, <1>21, FinishesIs DEF Repository!sync_derived_entries, Removing, Repository!None
  <2>4. QED
    BY <1>b, <1>c, <2>1, <2>2, <2>3, ThreadKept
<1>22. ASSUME NEW t \in Thread, Repository!CreateWrites(t)
      PROVE  ThreadType'
  <2>1. DOMAIN thread' = Thread /\ \A u \in Thread \ {t} : thread'[u] = thread[u]
    BY <1>b, <1>22, FinishesIs DEF Repository!CreateWrites
  <2>2. AThread(thread'[t])
    BY <1>b, <1>22, FinishesIs DEF Repository!CreateWrites, AThread, Repository!None
  <2>3. Removing(t, {"delete", "write", "bundles"})' => thread'[t].id \in Old \cup References
    BY <1>b, <1>22, FinishesIs DEF Repository!CreateWrites, Removing, Repository!None
  <2>4. QED
    BY <1>b, <1>c, <2>1, <2>2, <2>3, ThreadKept
<1>23. ASSUME NEW t \in Thread, NEW id, Repository!delete_extension_bundle(t, id)
      PROVE  ThreadType'
  <2>1. UNCHANGED thread
    BY <1>b, <1>23, <1>a DEF Repository!delete_extension_bundle
  <2>2. QED
    BY <1>b, <1>c, <2>1 DEF Removing, ThreadType
<1>24. CASE Repository!DaemonDies
  <2>1. DOMAIN thread' = Thread /\ \A t \in Thread : thread'[t] = Repository!None
    BY <1>24 DEF Repository!DaemonDies
  <2>2. QED
    BY <2>1 DEF AThread, Removing, Repository!None, ThreadType
<1>25. QED
  BY <1>a, <1>1, <1>2, <1>3, <1>4, <1>5, <1>6, <1>7, <1>8, <1>9, <1>10, <1>11, <1>12, <1>13, <1>14, <1>15, <1>16, <1>17, <1>18, <1>19, <1>20, <1>21, <1>22, <1>23, <1>24 DEF Repository!ExtNext

\* Who writes the index back replaces what it read.
LEMMA ReplacesIs ==
  ASSUME Current, NEW w, NEW x, Repository!Replaces(w, x), ~clobbered'
  PROVE  /\ catalogue' = x /\ outdated' = Repository!Busy \ {w}
         /\ w = "task" /\ (task.does = "reference" \/ (task.does = "local" /\ task.step \in {"write", "undo"})
               \/ (task.does = "bundle" /\ task.step = "entries")) => task.saw = catalogue
         /\ w \in Thread /\ (Removing(w, {"delete", "write"}) \/ thread[w].does = "mirror") => thread[w].saw = catalogue
BY DEF Repository!Replaces, Current
LEMMA IndexShrinks ==
  ASSUME IndexType, catalogue' \subseteq catalogue, Given(ran) \subseteq Given(ran'), Old \subseteq Old'
  PROVE  IndexType'
BY DEF IndexType, Owned, Referring
\* The rows that are added.
LEMMA OwnedRowIs ==
  ASSUME NEW i, NEW p, NEW k
  PROVE  /\ Repository!OwnedRow(i, p, k).id = i /\ Repository!OwnedRow(i, p, k).name[1] = p
         /\ Repository!OwnedRow(i, p, k).storage = "owned" /\ ~Repository!OwnedRow(i, p, k).derived
BY DEF Repository!OwnedRow
LEMMA RefRowIs ==
  ASSUME NEW p, NEW d
  PROVE  /\ Repository!RefRow(p, d).id = Repository!RefId(p) /\ Repository!RefRow(p, d).storage = "reference"
         /\ Repository!RefRow(p, d).storage # "owned"
         /\ Repository!RefRow(p, d).derived = d /\ (p \in Plugin => Referring(Repository!RefRow(p, d)))
<1>1. /\ Repository!RefRow(p, d).id = Repository!RefId(p) /\ Repository!RefRow(p, d).storage = "reference"
      /\ Repository!RefRow(p, d).derived = d
  BY DEF Repository!RefRow
<1>2. QED
  BY <1>1 DEF Referring, References

\* The index: whoever replaces it had read it as it is, so what it writes differs by its own row.
LEMMA IndexTyped ==
  ASSUME RepositoryInv, Repository!ExtNext, ~clobbered'
  PROVE  IndexType'
<1>a. ~clobbered
  BY DEF Repository!ExtNext
<1>b. TaskType /\ ThreadType /\ IndexType /\ Current /\ Entries
  BY <1>a DEF RepositoryInv
<1>c. TaskType' /\ Given(ran) \subseteq Given(ran') /\ Old \subseteq Old' /\ ran \in Nat
  BY TaskTyped, GivenStays
<1>1. ASSUME NEW p \in Plugin, Repository!ImportReference(p)
      PROVE  IndexType'
  <2>1. UNCHANGED catalogue
    BY <1>b, <1>a, <1>1 DEF Repository!ImportReference, Repository!Reads
  <2>2. QED
    BY <1>b, <1>c, <2>1, <2>1 DEF IndexType, Owned, Referring
<1>2. ASSUME NEW p \in Plugin, Repository!ReuseLocal(p)
      PROVE  IndexType'
  <2>1. UNCHANGED catalogue
    BY <1>b, <1>a, <1>2 DEF Repository!ReuseLocal, Repository!Same
  <2>2. QED
    BY <1>b, <1>c, <2>1, <2>1 DEF IndexType, Owned, Referring
<1>3. ASSUME NEW p \in Plugin, Repository!ImportLocal(p)
      PROVE  IndexType'
  <2>1. UNCHANGED catalogue
    BY <1>b, <1>a, <1>3 DEF Repository!ImportLocal, Repository!Same
  <2>2. QED
    BY <1>b, <1>c, <2>1, <2>1 DEF IndexType, Owned, Referring
<1>4. ASSUME NEW l \in BundleArchives, NEW conflict, Repository!ImportBundle(l, conflict)
      PROVE  IndexType'
  <2>1. UNCHANGED catalogue
    BY <1>b, <1>a, <1>4 DEF Repository!ImportBundle, Repository!Reads
  <2>2. QED
    BY <1>b, <1>c, <2>1, <2>1 DEF IndexType, Owned, Referring
<1>5. CASE Repository!upsert_reference_entry
  <2>1. /\ task.saw = catalogue /\ task.of \in Plugin
        /\ catalogue' = {r \in catalogue : r.id # Repository!RefId(task.of)} \cup {Repository!RefRow(task.of, FALSE)}
    BY <1>b, <1>5, ReplacesIs DEF Repository!upsert_reference_entry, TaskType
  <2>2. Referring(Repository!RefRow(task.of, FALSE)) /\ Repository!RefRow(task.of, FALSE).storage # "owned"
        /\ Repository!RefRow(task.of, FALSE).id = Repository!RefId(task.of)
    BY <2>1, RefRowIs
  <2>3. \A r \in catalogue : r.storage = "owned" => r.id # Repository!RefId(task.of)
    BY <1>b, <1>c, <2>1, GivenGrows DEF IndexType, Owned, Referring, References
  <2>4. \A r \in catalogue' : (Owned(r) /\ r.id \in Old) \/ Referring(r)
    BY <1>b, <2>1, <2>2 DEF IndexType
  <2>5. \A r, s \in catalogue' : r.id = s.id /\ r.storage = "owned" => r = s
    <3> SUFFICES ASSUME NEW r \in catalogue', NEW s \in catalogue', r.id = s.id, r.storage = "owned" PROVE r = s
      OBVIOUS
    <3>1. r \in catalogue /\ r.id # Repository!RefId(task.of)
      BY <2>1, <2>2, <2>3
    <3>2. s \in catalogue
      BY <2>1, <2>2, <3>1
    <3>3. QED
      BY <1>b, <3>1, <3>2 DEF IndexType
  <2>6. QED
    BY <1>c, <2>4, <2>5 DEF IndexType, Owned, Referring
<1>6. CASE Repository!LocalInstalls
  <2>1. UNCHANGED catalogue
    BY <1>b, LocalInstallsIs, <1>6 DEF Repository!Same, Repository!Reads
  <2>2. QED
    BY <1>b, <1>c, <2>1, <2>1 DEF IndexType, Owned, Referring
<1>7. CASE Repository!LocalWrites
  <2>1. /\ task.saw = catalogue /\ catalogue' = catalogue \cup {Repository!OwnedRow(task.id, task.of, 1)} /\ UNCHANGED ran
        /\ task.id = Repository!ImportId(ran) /\ Making /\ ~Making' /\ task.does = "local"
    BY <1>b, <1>7, LocalWritesIs, LocalIs, ReplacesIs DEF Making
  <2>2. task.id \in Given(ran) /\ \A r \in catalogue : r.id # task.id
    BY <1>b, <1>c, <2>1, GivenGrows DEF IndexType, Owned, Referring, Old, TaskType
  <2>3. Old' = Given(ran)
    BY <2>1 DEF Old
  <2>4. \A r \in catalogue' : (Owned(r) /\ r.id \in Old') \/ Referring(r)
    BY <1>b, <1>c, <2>1, <2>2, <2>3, OwnedRowIs DEF IndexType, Owned
  <2>5. \A r, s \in catalogue' : r.id = s.id /\ r.storage = "owned" => r = s
    BY <1>b, <2>1, <2>2, OwnedRowIs DEF IndexType
  <2>6. QED
    BY <2>1, <2>4, <2>5 DEF IndexType, Owned, Referring
<1>8. CASE Repository!LocalPacks
  <2>1. UNCHANGED catalogue
    BY <1>b, LocalPacksIs, <1>8 DEF Repository!Same, Repository!Reads
  <2>2. QED
    BY <1>b, <1>c, <2>1, <2>1 DEF IndexType, Owned, Referring
<1>9. CASE Repository!LocalUndoes
  <2>1. task.saw = catalogue /\ catalogue' = {r \in task.saw : r.id # task.id}
    BY <1>b, <1>9, ReplacesIs DEF Repository!LocalUndoes
  <2>2. QED
    BY <1>b, <1>c, <2>1, IndexShrinks
<1>10. CASE Repository!BundleEntry
  <2>1. UNCHANGED catalogue
    BY <1>b, BundleEntryIs, <1>10 DEF Repository!Same, Repository!Reads
  <2>2. QED
    BY <1>b, <1>c, <2>1, <2>1 DEF IndexType, Owned, Referring
<1>11. CASE Repository!BundleFails
  <2>1. UNCHANGED catalogue
    BY <1>b, <1>a, <1>11 DEF Repository!BundleFails, Repository!TaskEnds, Repository!Same
  <2>2. QED
    BY <1>b, <1>c, <2>1, <2>1 DEF IndexType, Owned, Referring
<1>12. CASE Repository!BundleWrites
  <2>1. /\ task.does = "bundle" /\ task.step = "entries" /\ task.saw = catalogue /\ catalogue' = task.rows /\ UNCHANGED ran
        /\ Making /\ ~Making'
    BY <1>b, <1>12, BundleWritesIs, ReplacesIs DEF Making
  <2>2. Old = Given(ran - 1) /\ Old' = Given(ran) /\ Given(ran - 1) \cap References = {}
        /\ \A p \in Plugin : Repository!BundleRowId(ran, p) \in Given(ran) \ (Given(ran - 1) \cup References)
    BY <1>b, <1>c, <2>1, GivenGrows DEF Old, TaskType
  <2>3. /\ \A r \in New : r.storage = "owned" /\ ~r.derived /\ r.id \in Given(ran) \ (Given(ran - 1) \cup References)
        /\ \A r, s \in New : r.id = s.id => r = s
    BY <1>b, <2>1, <2>2 DEF Entries
  <2>4. task.rows \subseteq catalogue \cup New
    BY <2>1 DEF New
  <2>5. \A r \in catalogue' : (Owned(r) /\ r.id \in Old') \/ Referring(r)
    BY <1>b, <1>c, <2>1, <2>2, <2>3, <2>4 DEF IndexType, Owned
  <2>6. \A r \in catalogue : r.id \in Given(ran - 1) \cup References
    BY <1>b, <2>2 DEF IndexType, Owned, Referring
  <2>7. \A r, s \in catalogue' : r.id = s.id /\ r.storage = "owned" => r = s
    BY <1>b, <2>1, <2>3, <2>4, <2>6 DEF IndexType
  <2>8. QED
    BY <2>1, <2>5, <2>7 DEF IndexType, Owned, Referring
<1>13. CASE Repository!BundleLists
  <2>1. UNCHANGED catalogue
    BY <1>b, <1>a, <1>13 DEF Repository!BundleLists, Repository!TaskEnds, Repository!Same
  <2>2. QED
    BY <1>b, <1>c, <2>1, <2>1 DEF IndexType, Owned, Referring
<1>14. ASSUME NEW t \in Thread, NEW ids, Repository!Removes(t, ids)
      PROVE  IndexType'
  <2>1. UNCHANGED catalogue
    BY <1>b, <1>a, <1>14 DEF Repository!Removes, Repository!Same
  <2>2. QED
    BY <1>b, <1>c, <2>1, <2>1 DEF IndexType, Owned, Referring
<1>15. ASSUME NEW t \in Thread, NEW ids, Repository!create_extension_bundle(t, ids)
      PROVE  IndexType'
  <2>1. UNCHANGED catalogue
    BY <1>b, <1>a, <1>15 DEF Repository!create_extension_bundle, Repository!Same
  <2>2. QED
    BY <1>b, <1>c, <2>1, <2>1 DEF IndexType, Owned, Referring
<1>16. ASSUME NEW t \in Thread, Repository!remove_repository_extension(t)
      PROVE  IndexType'
  <2>1. UNCHANGED catalogue
    BY <1>b, LooksIs, <1>16 DEF Repository!Reads
  <2>2. QED
    BY <1>b, <1>c, <2>1, <2>1 DEF IndexType, Owned, Referring
<1>17. ASSUME NEW t \in Thread, Repository!RemoveDeletes(t)
      PROVE  IndexType'
  <2>1. UNCHANGED catalogue
    BY <1>b, <1>a, <1>17 DEF Repository!RemoveDeletes, Repository!Same
  <2>2. QED
    BY <1>b, <1>c, <2>1, <2>1 DEF IndexType, Owned, Referring
<1>18. ASSUME NEW t \in Thread, Repository!RemoveWrites(t)
      PROVE  IndexType'
  <2>1. thread[t].saw = catalogue /\ catalogue' = {r \in thread[t].saw : r.id # thread[t].id}
    BY <1>b, <1>18, ReplacesIs DEF Repository!RemoveWrites, Removing
  <2>2. QED
    BY <1>b, <1>c, <2>1, IndexShrinks
<1>19. ASSUME NEW t \in Thread, Repository!RemoveBundles(t)
      PROVE  IndexType'
  <2>1. UNCHANGED catalogue
    BY <1>b, <1>a, <1>19 DEF Repository!RemoveBundles, Repository!Same
  <2>2. QED
    BY <1>b, <1>c, <2>1, <2>1 DEF IndexType, Owned, Referring
<1>20. ASSUME NEW t \in Thread, NEW wanted \in SUBSET Plugin, Repository!Mirrors(t, wanted)
      PROVE  IndexType'
  <2>1. UNCHANGED catalogue
    BY <1>b, <1>a, <1>20 DEF Repository!Mirrors, Repository!Reads
  <2>2. QED
    BY <1>b, <1>c, <2>1, <2>1 DEF IndexType, Owned, Referring
<1>21. ASSUME NEW t \in Thread, Repository!sync_derived_entries(t)
      PROVE  IndexType'
  <2>1. thread[t].saw = catalogue /\ catalogue' = Repository!Mirrored(catalogue, thread[t].wanted) /\ thread[t].wanted \subseteq Plugin
    <3>1. AThread(thread[t])
      BY <1>b DEF ThreadType
    <3>2. QED
      BY <1>b, <3>1, <1>21, ReplacesIs DEF Repository!sync_derived_entries, AThread, Repository!None
  <2>2. \A r \in catalogue' : r \in catalogue \/ \E p \in Plugin : r = Repository!RefRow(p, TRUE)
    BY <2>1 DEF Repository!Mirrored
  <2>3. \A p \in Plugin : Referring(Repository!RefRow(p, TRUE)) /\ Repository!RefRow(p, TRUE).storage # "owned"
    BY RefRowIs
  <2>4. \A r \in catalogue' : (Owned(r) /\ r.id \in Old) \/ Referring(r)
    BY <1>b, <2>2, <2>3 DEF IndexType
  <2>5. \A r, s \in catalogue' : r.id = s.id /\ r.storage = "owned" => r = s
    <3> SUFFICES ASSUME NEW r \in catalogue', NEW s \in catalogue', r.id = s.id, r.storage = "owned" PROVE r = s
      OBVIOUS
    <3>1. r \in catalogue /\ r.id \notin References
      BY <1>b, <1>c, <2>2, <2>3, GivenGrows DEF IndexType, Owned, Referring
    <3>2. s \in catalogue
      BY <2>2, <2>3, <3>1 DEF Referring
    <3>3. QED
      BY <1>b, <3>1, <3>2 DEF IndexType
  <2>6. QED
    BY <1>c, <2>4, <2>5 DEF IndexType, Owned, Referring
<1>22. ASSUME NEW t \in Thread, Repository!CreateWrites(t)
      PROVE  IndexType'
  <2>1. UNCHANGED catalogue
    BY <1>b, <1>a, <1>22 DEF Repository!CreateWrites, Repository!Same
  <2>2. QED
    BY <1>b, <1>c, <2>1, <2>1 DEF IndexType, Owned, Referring
<1>23. ASSUME NEW t \in Thread, NEW id, Repository!delete_extension_bundle(t, id)
      PROVE  IndexType'
  <2>1. UNCHANGED catalogue
    BY <1>b, <1>a, <1>23 DEF Repository!delete_extension_bundle, Repository!Same
  <2>2. QED
    BY <1>b, <1>c, <2>1, <2>1 DEF IndexType, Owned, Referring
<1>24. CASE Repository!DaemonDies
  <2>1. UNCHANGED catalogue
    BY <1>b, <1>a, <1>24 DEF Repository!DaemonDies, Repository!Same
  <2>2. QED
    BY <1>b, <1>c, <2>1, <2>1 DEF IndexType, Owned, Referring
<1>25. QED
  BY <1>a, <1>1, <1>2, <1>3, <1>4, <1>5, <1>6, <1>7, <1>8, <1>9, <1>10, <1>11, <1>12, <1>13, <1>14, <1>15, <1>16, <1>17, <1>18, <1>19, <1>20, <1>21, <1>22, <1>23, <1>24 DEF Repository!ExtNext

\* Who is not outdated goes on seeing the index as it is.
LEMMA CurrentStays ==
  ASSUME RepositoryInv, Repository!ExtNext, ~clobbered'
  PROVE  Current'
<1>a. ~clobbered
  BY DEF Repository!ExtNext
<1>b. TaskType /\ ThreadType /\ IndexType /\ Current /\ CopyThere /\ Entries /\ Deleted
  BY <1>a DEF RepositoryInv
<1>c. TaskType' /\ Given(ran) \subseteq Given(ran') /\ Old \subseteq Old' /\ ran \in Nat
  BY TaskTyped, GivenStays
<1>d. ThreadType' /\ IndexType'
  BY ThreadTyped, IndexTyped
<1>1. ASSUME NEW p \in Plugin, Repository!ImportReference(p)
      PROVE  Current'
  BY <1>a, <1>b, RepositoryAssumption, <1>1 DEF Repository!ImportReference, Repository!TaskStarts, Repository!Reads, Current, Removing, Repository!None
<1>2. ASSUME NEW p \in Plugin, Repository!ReuseLocal(p)
      PROVE  Current'
  BY <1>a, <1>b, RepositoryAssumption, <1>2 DEF Repository!ReuseLocal, Repository!TaskStarts, Repository!Same, Current, Removing, Repository!None
<1>3. ASSUME NEW p \in Plugin, Repository!ImportLocal(p)
      PROVE  Current'
  BY <1>a, <1>b, RepositoryAssumption, <1>3 DEF Repository!ImportLocal, Repository!TaskStarts, Repository!Same, Current, Removing, Repository!None
<1>4. ASSUME NEW l \in BundleArchives, NEW conflict, Repository!ImportBundle(l, conflict)
      PROVE  Current'
  BY <1>a, <1>b, RepositoryAssumption, <1>4 DEF Repository!ImportBundle, Repository!TaskStarts, Repository!Reads, Current, Removing, Repository!None
<1>5. CASE Repository!upsert_reference_entry
  <2>1. outdated' = Repository!Busy \ {"task"} /\ UNCHANGED thread /\ task'.does = "nothing"
    BY <1>b, <1>5, ReplacesIs DEF Repository!upsert_reference_entry, Repository!TaskEnds, Repository!None
  <2>2. QED
    BY <2>1, RepositoryAssumption DEF Current, Repository!Busy, Repository!None, Removing
<1>6. CASE Repository!LocalInstalls
  <2>1. /\ UNCHANGED <<thread, catalogue>> /\ \A t \in Thread : t \in outdated <=> t \in outdated'
        /\ task'.does = "nothing" \/ (task'.does = "local" /\ task'.saw = catalogue)
    BY <1>b, <1>6, LocalInstallsIs, RepositoryAssumption DEF Repository!Reads, Repository!Same, Repository!None
  <2>2. QED
    BY <1>b, <2>1 DEF Current, Removing
<1>7. CASE Repository!LocalWrites
  <2>1. outdated' = Repository!Busy \ {"task"} /\ UNCHANGED thread /\ task'.does = "local" /\ task'.step = "pack"
    BY <1>b, <1>7, LocalWritesIs, ReplacesIs
  <2>2. QED
    BY <2>1, RepositoryAssumption DEF Current, Repository!Busy, Repository!None, Removing
<1>8. CASE Repository!LocalPacks
  <2>1. /\ UNCHANGED <<thread, catalogue>> /\ \A t \in Thread : t \in outdated <=> t \in outdated'
        /\ task'.does = "nothing" \/ (task'.does = "local" /\ task'.saw = catalogue)
    BY <1>b, <1>8, LocalPacksIs, RepositoryAssumption DEF Repository!Reads, Repository!Same, Repository!None
  <2>2. QED
    BY <1>b, <2>1 DEF Current, Removing
<1>9. CASE Repository!LocalUndoes
  <2>1. outdated' = Repository!Busy \ {"task"} /\ UNCHANGED thread /\ task'.does = "nothing"
    BY <1>b, <1>9, ReplacesIs DEF Repository!LocalUndoes, Repository!TaskEnds, Repository!None
  <2>2. QED
    BY <2>1, RepositoryAssumption DEF Current, Repository!Busy, Repository!None, Removing
<1>10. CASE Repository!BundleEntry
  <2>1. /\ UNCHANGED <<thread, catalogue, outdated>> /\ task.does = "bundle" /\ task.step = "entries"
        /\ task'.does = "bundle" /\ task'.saw = task.saw
    BY <1>b, <1>10, BundleEntryIs DEF Repository!Same
  <2>2. QED
    BY <1>b, <2>1 DEF Current, Removing
<1>11. CASE Repository!BundleFails
  BY <1>a, <1>b, RepositoryAssumption, <1>11 DEF Repository!BundleFails, Repository!TaskEnds, Repository!Same, Current, Removing, Repository!None
<1>12. CASE Repository!BundleWrites
  <2>1. outdated' = Repository!Busy \ {"task"} /\ UNCHANGED thread /\ task'.does = "bundle" /\ task'.step = "list"
    BY <1>b, <1>12, BundleWritesIs, ReplacesIs
  <2>2. QED
    BY <2>1, RepositoryAssumption DEF Current, Repository!Busy, Repository!None, Removing
<1>13. CASE Repository!BundleLists
  BY <1>a, <1>b, RepositoryAssumption, <1>13 DEF Repository!BundleLists, Repository!TaskEnds, Repository!Same, Current, Removing, Repository!None
<1>14. ASSUME NEW t \in Thread, NEW ids, Repository!Removes(t, ids)
      PROVE  Current'
  <2>1. /\ UNCHANGED <<task, catalogue>> /\ outdated \ {t} \subseteq outdated' /\ ("task" \in outdated => "task" \in outdated')
        /\ \A u \in Thread \ {t} : thread'[u] = thread[u]
    BY <1>b, <1>14, BeginsIs, RepositoryAssumption DEF Repository!Removes, Repository!Same, Repository!Reads
  <2>2. (Removing(t, {"delete", "write"}) \/ thread[t].does = "mirror")' => (t \in outdated') \/ thread'[t].saw = catalogue
    BY <1>b, <1>14, BeginsIs DEF Repository!Removes, Removing, Repository!None
  <2>3. QED
    BY <1>b, <2>1, <2>2 DEF Current, Removing
<1>15. ASSUME NEW t \in Thread, NEW ids, Repository!create_extension_bundle(t, ids)
      PROVE  Current'
  <2>1. /\ UNCHANGED <<task, catalogue>> /\ outdated \ {t} \subseteq outdated' /\ ("task" \in outdated => "task" \in outdated')
        /\ \A u \in Thread \ {t} : thread'[u] = thread[u]
    BY <1>b, <1>15, BeginsIs, RepositoryAssumption DEF Repository!create_extension_bundle, Repository!Same, Repository!Reads
  <2>2. (Removing(t, {"delete", "write"}) \/ thread[t].does = "mirror")' => (t \in outdated') \/ thread'[t].saw = catalogue
    BY <1>b, <1>15, BeginsIs DEF Repository!create_extension_bundle, Removing, Repository!None
  <2>3. QED
    BY <1>b, <2>1, <2>2 DEF Current, Removing
<1>16. ASSUME NEW t \in Thread, Repository!remove_repository_extension(t)
      PROVE  Current'
  <2>1. /\ UNCHANGED <<task, catalogue>> /\ outdated \ {t} \subseteq outdated' /\ ("task" \in outdated => "task" \in outdated')
        /\ \A u \in Thread \ {t} : thread'[u] = thread[u]
    BY <1>b, <1>16, LooksIs, RepositoryAssumption DEF Removing, Repository!Same, Repository!Reads
  <2>2. (Removing(t, {"delete", "write"}) \/ thread[t].does = "mirror")' => (t \in outdated') \/ thread'[t].saw = catalogue
    <3>1. CASE thread'[t] = Repository!None
      BY <3>1 DEF Removing, Repository!None
    <3>2. CASE thread'[t] # Repository!None
      <4>1. PICK l, i : thread'[t] = [does |-> "remove", step |-> "delete", ids |-> l, id |-> i, saw |-> catalogue]
        BY <1>b, <1>16, <3>2, LooksIs
      <4>2. QED
        BY <4>1
    <3>3. QED
      BY <3>1, <3>2
  <2>3. QED
    BY <1>b, <2>1, <2>2 DEF Current, Removing
<1>17. ASSUME NEW t \in Thread, Repository!RemoveDeletes(t)
      PROVE  Current'
  <2>1. /\ UNCHANGED <<task, catalogue>> /\ outdated \ {t} \subseteq outdated' /\ ("task" \in outdated => "task" \in outdated')
        /\ \A u \in Thread \ {t} : thread'[u] = thread[u]
    BY <1>b, <1>17, GoesIs, RepositoryAssumption DEF Repository!RemoveDeletes, Repository!Same, Repository!Reads
  <2>2. (Removing(t, {"delete", "write"}) \/ thread[t].does = "mirror")' => (t \in outdated') \/ thread'[t].saw = catalogue
    BY <1>b, <1>17, GoesIs DEF Repository!RemoveDeletes, Repository!Same, Current, Removing
  <2>3. QED
    BY <1>b, <2>1, <2>2 DEF Current, Removing
<1>18. ASSUME NEW t \in Thread, Repository!RemoveWrites(t)
      PROVE  Current'
  <2>1. /\ outdated' = Repository!Busy \ {t} /\ UNCHANGED task /\ \A u \in Thread \ {t} : thread'[u] = thread[u]
    BY <1>b, <1>18, GoesIs, ReplacesIs DEF Repository!RemoveWrites
  <2>2. ~(Removing(t, {"delete", "write"}) \/ thread[t].does = "mirror")'
    BY <1>b, <1>18, GoesIs DEF Repository!RemoveWrites, Removing, Repository!None
  <2>3. QED
    BY <2>1, <2>2, RepositoryAssumption DEF Current, Repository!Busy, Repository!None, Removing
<1>19. ASSUME NEW t \in Thread, Repository!RemoveBundles(t)
      PROVE  Current'
  <2>1. /\ UNCHANGED <<task, catalogue>> /\ outdated \ {t} \subseteq outdated' /\ ("task" \in outdated => "task" \in outdated')
        /\ \A u \in Thread \ {t} : thread'[u] = thread[u]
    BY <1>b, <1>19, NamesIs, RepositoryAssumption DEF Removing, Repository!Same, Repository!Reads
  <2>2. (Removing(t, {"delete", "write"}) \/ thread[t].does = "mirror")' => (t \in outdated') \/ thread'[t].saw = catalogue
    BY <1>b, <1>19, NamesIs DEF Removing
  <2>3. QED
    BY <1>b, <2>1, <2>2 DEF Current, Removing
<1>20. ASSUME NEW t \in Thread, NEW wanted \in SUBSET Plugin, Repository!Mirrors(t, wanted)
      PROVE  Current'
  <2>1. /\ UNCHANGED <<task, catalogue>> /\ outdated \ {t} \subseteq outdated' /\ ("task" \in outdated => "task" \in outdated')
        /\ \A u \in Thread \ {t} : thread'[u] = thread[u]
    BY <1>b, <1>20, BeginsIs, RepositoryAssumption DEF Repository!Mirrors, Repository!Same, Repository!Reads
  <2>2. (Removing(t, {"delete", "write"}) \/ thread[t].does = "mirror")' => (t \in outdated') \/ thread'[t].saw = catalogue
    BY <1>b, <1>20, BeginsIs DEF Repository!Mirrors, Removing, Repository!None
  <2>3. QED
    BY <1>b, <2>1, <2>2 DEF Current, Removing
<1>21. ASSUME NEW t \in Thread, Repository!sync_derived_entries(t)
      PROVE  Current'
  <2>1. /\ outdated' = Repository!Busy \ {t} /\ UNCHANGED task /\ \A u \in Thread \ {t} : thread'[u] = thread[u]
    BY <1>b, <1>21, FinishesIs, ReplacesIs DEF Repository!sync_derived_entries
  <2>2. ~(Removing(t, {"delete", "write"}) \/ thread[t].does = "mirror")'
    BY <1>b, <1>21, FinishesIs DEF Repository!sync_derived_entries, Removing, Repository!None
  <2>3. QED
    BY <2>1, <2>2, RepositoryAssumption DEF Current, Repository!Busy, Repository!None, Removing
<1>22. ASSUME NEW t \in Thread, Repository!CreateWrites(t)
      PROVE  Current'
  <2>1. /\ UNCHANGED <<task, catalogue>> /\ outdated \ {t} \subseteq outdated' /\ ("task" \in outdated => "task" \in outdated')
        /\ \A u \in Thread \ {t} : thread'[u] = thread[u]
    BY <1>b, <1>22, FinishesIs, RepositoryAssumption DEF Repository!CreateWrites, Repository!Same, Repository!Reads
  <2>2. (Removing(t, {"delete", "write"}) \/ thread[t].does = "mirror")' => (t \in outdated') \/ thread'[t].saw = catalogue
    BY <1>b, <1>22, FinishesIs DEF Repository!CreateWrites, Removing, Repository!None
  <2>3. QED
    BY <1>b, <2>1, <2>2 DEF Current, Removing
<1>23. ASSUME NEW t \in Thread, NEW id, Repository!delete_extension_bundle(t, id)
      PROVE  Current'
  BY <1>a, <1>b, RepositoryAssumption, <1>23 DEF Repository!delete_extension_bundle, Repository!Same, Current, Removing, Repository!None
<1>24. CASE Repository!DaemonDies
  <2>1. \A t \in Thread : thread'[t] = Repository!None
    BY <1>24 DEF Repository!DaemonDies
  <2>2. QED
    BY <1>24, <2>1 DEF Repository!DaemonDies, Repository!None, Current, Removing
<1>25. QED
  BY <1>a, <1>1, <1>2, <1>3, <1>4, <1>5, <1>6, <1>7, <1>8, <1>9, <1>10, <1>11, <1>12, <1>13, <1>14, <1>15, <1>16, <1>17, <1>18, <1>19, <1>20, <1>21, <1>22, <1>23, <1>24 DEF Repository!ExtNext

\* What an entry of a bundle adds, and what it takes out.
LEMMA EntryAdds ==
  ASSUME TaskType, Entries, Repository!BundleEntry
  PROVE  /\ task.does = "bundle" /\ task.step = "entries" /\ task'.does = "bundle" /\ task'.step = "entries"
         /\ task'.saw = task.saw /\ UNCHANGED <<catalogue, outdated, clobbered, packs, ran, thread, abandoned>>
         /\ \E p, row, out :
              /\ p \in Plugin /\ p \in task.left /\ task'.left = task.left \ {p}
              /\ row.id = Repository!BundleRowId(ran, p) /\ row.name[1] = p /\ row.storage = "owned" /\ ~row.derived
              /\ row.id \in Given(ran) \ (Given(ran - 1) \cup References)
              /\ row \notin task.saw /\ \A r \in New : r.id # row.id
              /\ out \subseteq task.saw \cap task.rows
              /\ task'.rows = (task.rows \ out) \cup {row} /\ New' = New \cup {row} /\ Gone' = Gone \cup out
              /\ kept' = (kept \ Repository!Ids(out)) \cup {row.id}
              /\ mine' = mine \ Repository!Ids(out)
<1>1. /\ task.does = "bundle" /\ task.step = "entries" /\ Repository!Same /\ UNCHANGED <<packs, ran, thread, abandoned>>
      /\ ran \in Nat \ {0}
  BY BundleEntryIs DEF TaskType, Making
<1>2. PICK p, k :
        /\ p \in Plugin /\ p \in task.left
        /\ task' = [does |-> "bundle", step |-> "entries", left |-> task.left \ {p}, conflict |-> task.conflict, n |-> ran,
                    saw |-> task.saw,
                    rows |-> (task.rows \ Repository!Stale(p)) \cup {Repository!OwnedRow(Repository!BundleRowId(ran, p), p, k)}]
        /\ kept' = (kept \ Repository!Ids(Repository!Stale(p))) \cup {Repository!BundleRowId(ran, p)}
        /\ mine' = mine \ Repository!Ids(Repository!Stale(p))
  BY BundleEntryIs
<1> DEFINE out == Repository!Stale(p)
           row == Repository!OwnedRow(Repository!BundleRowId(ran, p), p, k)
<1>3. row.id = Repository!BundleRowId(ran, p) /\ row.name[1] = p /\ row.storage = "owned" /\ ~row.derived
  BY OwnedRowIs
<1>4. row.id \in Given(ran) \ (Given(ran - 1) \cup References)
  <2>1. ran - 1 \in Nat /\ ran = (ran - 1) + 1
    BY <1>1
  <2>2. p \in Plugin
    BY <1>2
  <2>3. QED
    BY <1>3, <2>1, <2>2, GivenGrows
<1>5. row \notin task.saw
  BY <1>1, <1>4 DEF Entries, Referring
<1>6. \A r \in New : r.id # row.id
  BY <1>1, <1>2, <1>3, IdsApart DEF Entries
<1>7. out \subseteq task.rows /\ \A r \in out : r.name[1] = p
  BY DEF Repository!Stale, Repository!Named
<1>8. out \subseteq task.saw
  BY <1>1, <1>2, <1>7 DEF Entries, New
<1>9. /\ task'.does = "bundle" /\ task'.step = "entries" /\ task'.left = task.left \ {p} /\ task'.saw = task.saw
      /\ task'.rows = (task.rows \ out) \cup {row}
      /\ kept' = (kept \ Repository!Ids(out)) \cup {row.id} /\ mine' = mine \ Repository!Ids(out)
  BY <1>2, <1>3
<1> HIDE DEF out, row
<1>10. New' = New \cup {row}
  BY <1>5, <1>7, <1>8, <1>9 DEF New
<1>11. Gone' = Gone \cup out
  BY <1>5, <1>7, <1>8, <1>9 DEF Gone
<1>12. QED
  BY <1>1, <1>2, <1>3, <1>4, <1>5, <1>6, <1>7, <1>8, <1>9, <1>10, <1>11 DEF Repository!Same

\* Directories have the ids of tasks.
LEMMA KeptGiven ==
  ASSUME RepositoryInv, Repository!ExtNext, ~clobbered'
  PROVE  kept' \subseteq Given(ran')
<1>a. ~clobbered
  BY DEF Repository!ExtNext
<1>b. TaskType /\ ThreadType /\ IndexType /\ Current /\ CopyThere /\ Entries /\ Deleted
  BY <1>a DEF RepositoryInv
<1>c. TaskType' /\ Given(ran) \subseteq Given(ran') /\ Old \subseteq Old' /\ ran \in Nat
  BY TaskTyped, GivenStays
<1>d. ThreadType' /\ IndexType'
  BY ThreadTyped, IndexTyped
<1>e. kept \subseteq Given(ran)
  BY <1>a DEF RepositoryInv
<1>f. /\ Making => Old = Given(ran - 1) /\ ran - 1 \in Nat /\ ran = (ran - 1) + 1
      /\ ~Making => Old = Given(ran)
  BY <1>b DEF Old, TaskType
<1>1. ASSUME NEW p \in Plugin, Repository!ImportReference(p)
      PROVE  kept' \subseteq Given(ran')
  <2>1. UNCHANGED kept
    BY <1>b, <1>a, <1>1 DEF Repository!ImportReference, Repository!Reads
  <2>2. QED
    BY <1>c, <1>e, <2>1
<1>2. ASSUME NEW p \in Plugin, Repository!ReuseLocal(p)
      PROVE  kept' \subseteq Given(ran')
  <2>1. UNCHANGED kept
    BY <1>b, <1>a, <1>2 DEF Repository!ReuseLocal, Repository!Same
  <2>2. QED
    BY <1>c, <1>e, <2>1
<1>3. ASSUME NEW p \in Plugin, Repository!ImportLocal(p)
      PROVE  kept' \subseteq Given(ran')
  <2>1. kept' = kept \cup {Repository!ImportId(ran + 1)} /\ ran' = ran + 1
    BY <1>3 DEF Repository!ImportLocal, Repository!TaskStarts
  <2>2. QED
    BY <1>c, <1>e, <2>1, GivenGrows
<1>4. ASSUME NEW l \in BundleArchives, NEW conflict, Repository!ImportBundle(l, conflict)
      PROVE  kept' \subseteq Given(ran')
  <2>1. UNCHANGED kept
    BY <1>b, <1>a, <1>4 DEF Repository!ImportBundle, Repository!Reads
  <2>2. QED
    BY <1>c, <1>e, <2>1
<1>5. CASE Repository!upsert_reference_entry
  <2>1. UNCHANGED kept
    BY <1>b, <1>a, <1>5 DEF Repository!upsert_reference_entry, Repository!TaskEnds
  <2>2. QED
    BY <1>c, <1>e, <2>1
<1>6. CASE Repository!LocalInstalls
  <2>1. UNCHANGED kept
    BY <1>b, LocalInstallsIs, <1>6 DEF Repository!Same, Repository!Reads
  <2>2. QED
    BY <1>c, <1>e, <2>1
<1>7. CASE Repository!LocalWrites
  <2>1. UNCHANGED kept
    BY <1>b, LocalWritesIs, <1>7 DEF Repository!Same, Repository!Reads
  <2>2. QED
    BY <1>c, <1>e, <2>1
<1>8. CASE Repository!LocalPacks
  <2>1. UNCHANGED kept
    BY <1>b, LocalPacksIs, <1>8 DEF Repository!Same, Repository!Reads
  <2>2. QED
    BY <1>c, <1>e, <2>1
<1>9. CASE Repository!LocalUndoes
  BY <1>c, <1>e, <1>9 DEF Repository!LocalUndoes
<1>10. CASE Repository!BundleEntry
  BY <1>b, <1>c, <1>e, <1>10, EntryAdds
<1>11. CASE Repository!BundleFails
  <2>1. UNCHANGED kept
    BY <1>b, <1>a, <1>11 DEF Repository!BundleFails, Repository!TaskEnds, Repository!Same
  <2>2. QED
    BY <1>c, <1>e, <2>1
<1>12. CASE Repository!BundleWrites
  <2>1. UNCHANGED kept
    BY <1>b, BundleWritesIs, <1>12 DEF Repository!Same, Repository!Reads
  <2>2. QED
    BY <1>c, <1>e, <2>1
<1>13. CASE Repository!BundleLists
  <2>1. UNCHANGED kept
    BY <1>b, <1>a, <1>13 DEF Repository!BundleLists, Repository!TaskEnds, Repository!Same
  <2>2. QED
    BY <1>c, <1>e, <2>1
<1>14. ASSUME NEW t \in Thread, NEW ids, Repository!Removes(t, ids)
      PROVE  kept' \subseteq Given(ran')
  <2>1. UNCHANGED kept
    BY <1>b, <1>a, <1>14 DEF Repository!Removes, Repository!Same
  <2>2. QED
    BY <1>c, <1>e, <2>1
<1>15. ASSUME NEW t \in Thread, NEW ids, Repository!create_extension_bundle(t, ids)
      PROVE  kept' \subseteq Given(ran')
  <2>1. UNCHANGED kept
    BY <1>b, <1>a, <1>15 DEF Repository!create_extension_bundle, Repository!Same
  <2>2. QED
    BY <1>c, <1>e, <2>1
<1>16. ASSUME NEW t \in Thread, Repository!remove_repository_extension(t)
      PROVE  kept' \subseteq Given(ran')
  <2>1. UNCHANGED kept
    BY <1>b, LooksIs, <1>16 DEF Repository!Reads
  <2>2. QED
    BY <1>c, <1>e, <2>1
<1>17. ASSUME NEW t \in Thread, Repository!RemoveDeletes(t)
      PROVE  kept' \subseteq Given(ran')
  BY <1>c, <1>e, <1>17 DEF Repository!RemoveDeletes
<1>18. ASSUME NEW t \in Thread, Repository!RemoveWrites(t)
      PROVE  kept' \subseteq Given(ran')
  <2>1. UNCHANGED kept
    BY <1>b, <1>a, <1>18 DEF Repository!RemoveWrites
  <2>2. QED
    BY <1>c, <1>e, <2>1
<1>19. ASSUME NEW t \in Thread, Repository!RemoveBundles(t)
      PROVE  kept' \subseteq Given(ran')
  <2>1. UNCHANGED kept
    BY <1>b, <1>a, <1>19 DEF Repository!RemoveBundles, Repository!Same
  <2>2. QED
    BY <1>c, <1>e, <2>1
<1>20. ASSUME NEW t \in Thread, NEW wanted \in SUBSET Plugin, Repository!Mirrors(t, wanted)
      PROVE  kept' \subseteq Given(ran')
  <2>1. UNCHANGED kept
    BY <1>b, <1>a, <1>20 DEF Repository!Mirrors, Repository!Reads
  <2>2. QED
    BY <1>c, <1>e, <2>1
<1>21. ASSUME NEW t \in Thread, Repository!sync_derived_entries(t)
      PROVE  kept' \subseteq Given(ran')
  <2>1. UNCHANGED kept
    BY <1>b, <1>a, <1>21 DEF Repository!sync_derived_entries
  <2>2. QED
    BY <1>c, <1>e, <2>1
<1>22. ASSUME NEW t \in Thread, Repository!CreateWrites(t)
      PROVE  kept' \subseteq Given(ran')
  <2>1. UNCHANGED kept
    BY <1>b, <1>a, <1>22 DEF Repository!CreateWrites, Repository!Same
  <2>2. QED
    BY <1>c, <1>e, <2>1
<1>23. ASSUME NEW t \in Thread, NEW id, Repository!delete_extension_bundle(t, id)
      PROVE  kept' \subseteq Given(ran')
  <2>1. UNCHANGED kept
    BY <1>b, <1>a, <1>23 DEF Repository!delete_extension_bundle, Repository!Same
  <2>2. QED
    BY <1>c, <1>e, <2>1
<1>24. CASE Repository!DaemonDies
  <2>1. UNCHANGED kept
    BY <1>b, <1>a, <1>24 DEF Repository!DaemonDies, Repository!Same
  <2>2. QED
    BY <1>c, <1>e, <2>1
<1>25. QED
  BY <1>a, <1>1, <1>2, <1>3, <1>4, <1>5, <1>6, <1>7, <1>8, <1>9, <1>10, <1>11, <1>12, <1>13, <1>14, <1>15, <1>16, <1>17, <1>18, <1>19, <1>20, <1>21, <1>22, <1>23, <1>24 DEF Repository!ExtNext

\* A copy waits for its row: a removal only names ids that were in the index.
LEMMA CopyStays ==
  ASSUME RepositoryInv, Repository!ExtNext, ~clobbered'
  PROVE  CopyThere'
<1>a. ~clobbered
  BY DEF Repository!ExtNext
<1>b. TaskType /\ ThreadType /\ IndexType /\ Current /\ CopyThere /\ Entries /\ Deleted
  BY <1>a DEF RepositoryInv
<1>c. TaskType' /\ Given(ran) \subseteq Given(ran') /\ Old \subseteq Old' /\ ran \in Nat
  BY TaskTyped, GivenStays
<1>d. ThreadType' /\ IndexType'
  BY ThreadTyped, IndexTyped
<1>e. kept \subseteq Given(ran)
  BY <1>a DEF RepositoryInv
<1>f. /\ Making => Old = Given(ran - 1) /\ ran - 1 \in Nat /\ ran = (ran - 1) + 1
      /\ ~Making => Old = Given(ran)
  BY <1>b DEF Old, TaskType
<1>1. ASSUME NEW p \in Plugin, Repository!ImportReference(p)
      PROVE  CopyThere'
  BY <1>a, <1>b, <1>1 DEF Repository!ImportReference, Repository!TaskStarts, Repository!Reads, CopyThere, Repository!None
<1>2. ASSUME NEW p \in Plugin, Repository!ReuseLocal(p)
      PROVE  CopyThere'
  BY <1>a, <1>b, <1>2 DEF Repository!ReuseLocal, Repository!TaskStarts, Repository!Same, CopyThere, Repository!None
<1>3. ASSUME NEW p \in Plugin, Repository!ImportLocal(p)
      PROVE  CopyThere'
  BY <1>a, <1>b, <1>3 DEF Repository!ImportLocal, Repository!TaskStarts, Repository!Same, CopyThere, Repository!None
<1>4. ASSUME NEW l \in BundleArchives, NEW conflict, Repository!ImportBundle(l, conflict)
      PROVE  CopyThere'
  BY <1>a, <1>b, <1>4 DEF Repository!ImportBundle, Repository!TaskStarts, Repository!Reads, CopyThere, Repository!None
<1>5. CASE Repository!upsert_reference_entry
  BY <1>a, <1>b, <1>5 DEF Repository!upsert_reference_entry, Repository!TaskEnds, Repository!Replaces, CopyThere, Repository!None
<1>6. CASE Repository!LocalInstalls
  BY <1>b, <1>6, LocalInstallsIs DEF CopyThere, Repository!None
<1>7. CASE Repository!LocalWrites
  BY <1>b, <1>7, LocalWritesIs DEF CopyThere, Repository!None
<1>8. CASE Repository!LocalPacks
  BY <1>b, <1>8, LocalPacksIs DEF CopyThere, Repository!None
<1>9. CASE Repository!LocalUndoes
  BY <1>a, <1>b, <1>9 DEF Repository!LocalUndoes, Repository!TaskEnds, Repository!Replaces, CopyThere, Repository!None
<1>10. CASE Repository!BundleEntry
  BY <1>b, <1>10, BundleEntryIs DEF CopyThere, Repository!None
<1>11. CASE Repository!BundleFails
  BY <1>a, <1>b, <1>11 DEF Repository!BundleFails, Repository!TaskEnds, Repository!Same, CopyThere, Repository!None
<1>12. CASE Repository!BundleWrites
  BY <1>b, <1>12, BundleWritesIs DEF CopyThere, Repository!None
<1>13. CASE Repository!BundleLists
  BY <1>a, <1>b, <1>13 DEF Repository!BundleLists, Repository!TaskEnds, Repository!Same, CopyThere, Repository!None
<1>14. ASSUME NEW t \in Thread, NEW ids, Repository!Removes(t, ids)
      PROVE  CopyThere'
  <2>1. UNCHANGED <<task, kept>>
    BY <1>b, <1>a, <1>14 DEF Repository!Removes
  <2>2. QED
    BY <1>b, <2>1 DEF CopyThere
<1>15. ASSUME NEW t \in Thread, NEW ids, Repository!create_extension_bundle(t, ids)
      PROVE  CopyThere'
  <2>1. UNCHANGED <<task, kept>>
    BY <1>b, <1>a, <1>15 DEF Repository!create_extension_bundle
  <2>2. QED
    BY <1>b, <2>1 DEF CopyThere
<1>16. ASSUME NEW t \in Thread, Repository!remove_repository_extension(t)
      PROVE  CopyThere'
  <2>1. UNCHANGED <<task, kept>>
    BY <1>b, LooksIs, <1>16 DEF CopyThere
  <2>2. QED
    BY <1>b, <2>1 DEF CopyThere
<1>17. ASSUME NEW t \in Thread, Repository!RemoveDeletes(t)
      PROVE  CopyThere'
  <2>1. UNCHANGED task /\ kept' = kept \ {thread[t].id} /\ thread[t].id \in Old \cup References
    BY <1>b, <1>17, RemovalIs DEF Repository!RemoveDeletes
  <2>2. SUFFICES ASSUME task.does = "local", task.step \in {"install", "write"} PROVE task.id \in kept'
    BY <2>1 DEF CopyThere
  <2>3. task.id \in kept /\ task.id = Repository!ImportId(ran) /\ Old = Given(ran - 1) /\ ran - 1 \in Nat /\ ran = (ran - 1) + 1
    BY <1>b, <1>f, <2>2, LocalIs DEF CopyThere, Making
  <2>4. task.id \notin Old \cup References
    BY <2>3, GivenGrows
  <2>5. QED
    BY <2>1, <2>3, <2>4
<1>18. ASSUME NEW t \in Thread, Repository!RemoveWrites(t)
      PROVE  CopyThere'
  <2>1. UNCHANGED <<task, kept>>
    BY <1>b, <1>a, <1>18 DEF Repository!RemoveWrites
  <2>2. QED
    BY <1>b, <2>1 DEF CopyThere
<1>19. ASSUME NEW t \in Thread, Repository!RemoveBundles(t)
      PROVE  CopyThere'
  <2>1. UNCHANGED <<task, kept>>
    BY <1>b, <1>a, <1>19 DEF Repository!RemoveBundles
  <2>2. QED
    BY <1>b, <2>1 DEF CopyThere
<1>20. ASSUME NEW t \in Thread, NEW wanted \in SUBSET Plugin, Repository!Mirrors(t, wanted)
      PROVE  CopyThere'
  <2>1. UNCHANGED <<task, kept>>
    BY <1>b, <1>a, <1>20 DEF Repository!Mirrors
  <2>2. QED
    BY <1>b, <2>1 DEF CopyThere
<1>21. ASSUME NEW t \in Thread, Repository!sync_derived_entries(t)
      PROVE  CopyThere'
  <2>1. UNCHANGED <<task, kept>>
    BY <1>b, <1>a, <1>21 DEF Repository!sync_derived_entries
  <2>2. QED
    BY <1>b, <2>1 DEF CopyThere
<1>22. ASSUME NEW t \in Thread, Repository!CreateWrites(t)
      PROVE  CopyThere'
  <2>1. UNCHANGED <<task, kept>>
    BY <1>b, <1>a, <1>22 DEF Repository!CreateWrites
  <2>2. QED
    BY <1>b, <2>1 DEF CopyThere
<1>23. ASSUME NEW t \in Thread, NEW id, Repository!delete_extension_bundle(t, id)
      PROVE  CopyThere'
  <2>1. UNCHANGED <<task, kept>>
    BY <1>b, <1>a, <1>23 DEF Repository!delete_extension_bundle
  <2>2. QED
    BY <1>b, <2>1 DEF CopyThere
<1>24. CASE Repository!DaemonDies
  BY <1>a, <1>b, <1>24 DEF Repository!DaemonDies, Repository!Same, CopyThere, Repository!None
<1>25. QED
  BY <1>a, <1>1, <1>2, <1>3, <1>4, <1>5, <1>6, <1>7, <1>8, <1>9, <1>10, <1>11, <1>12, <1>13, <1>14, <1>15, <1>16, <1>17, <1>18, <1>19, <1>20, <1>21, <1>22, <1>23, <1>24 DEF Repository!ExtNext

\* The rows a bundle has put together so far have their directories, those it took out have none.
LEMMA EntriesStay ==
  ASSUME RepositoryInv, Repository!ExtNext, ~clobbered'
  PROVE  Entries'
<1>a. ~clobbered
  BY DEF Repository!ExtNext
<1>b. TaskType /\ ThreadType /\ IndexType /\ Current /\ CopyThere /\ Entries /\ Deleted
  BY <1>a DEF RepositoryInv
<1>c. TaskType' /\ Given(ran) \subseteq Given(ran') /\ Old \subseteq Old' /\ ran \in Nat
  BY TaskTyped, GivenStays
<1>d. ThreadType' /\ IndexType'
  BY ThreadTyped, IndexTyped
<1>e. kept \subseteq Given(ran)
  BY <1>a DEF RepositoryInv
<1>f. /\ Making => Old = Given(ran - 1) /\ ran - 1 \in Nat /\ ran = (ran - 1) + 1
      /\ ~Making => Old = Given(ran)
  BY <1>b DEF Old, TaskType
<1>1. ASSUME NEW p \in Plugin, Repository!ImportReference(p)
      PROVE  Entries'
  BY <1>1 DEF Repository!ImportReference, Repository!TaskStarts, Entries, Repository!None
<1>2. ASSUME NEW p \in Plugin, Repository!ReuseLocal(p)
      PROVE  Entries'
  BY <1>2 DEF Repository!ReuseLocal, Repository!TaskStarts, Entries, Repository!None
<1>3. ASSUME NEW p \in Plugin, Repository!ImportLocal(p)
      PROVE  Entries'
  BY <1>3 DEF Repository!ImportLocal, Repository!TaskStarts, Entries, Repository!None
<1>4. ASSUME NEW l \in BundleArchives, NEW conflict, Repository!ImportBundle(l, conflict)
      PROVE  Entries'
  <2>1. /\ task'.saw = catalogue /\ task'.rows = catalogue /\ ran' = ran + 1 /\ (ran + 1) - 1 = ran /\ ~Making
    BY <1>c, <1>4 DEF Repository!ImportBundle, Repository!TaskStarts, Making, Repository!None
  <2>2. \A r \in catalogue : (Owned(r)' /\ r.id \in Given(ran' - 1)) \/ Referring(r)
    BY <1>b, <1>c, <1>f, <2>1 DEF IndexType, Owned
  <2>3. New' = {} /\ Gone' = {}
    BY <2>1 DEF New, Gone
  <2>4. QED
    BY <1>b, <2>1, <2>2, <2>3 DEF Entries, IndexType
<1>5. CASE Repository!upsert_reference_entry
  BY <1>5 DEF Repository!upsert_reference_entry, Repository!TaskEnds, Entries, Repository!None
<1>6. CASE Repository!LocalInstalls
  BY <1>b, <1>6, LocalInstallsIs DEF Entries, Repository!None
<1>7. CASE Repository!LocalWrites
  BY <1>b, <1>7, LocalWritesIs DEF Entries, Repository!None
<1>8. CASE Repository!LocalPacks
  BY <1>b, <1>8, LocalPacksIs DEF Entries, Repository!None
<1>9. CASE Repository!LocalUndoes
  BY <1>9 DEF Repository!LocalUndoes, Repository!TaskEnds, Entries, Repository!None
<1>10. CASE Repository!BundleEntry
  <2>1. /\ task.does = "bundle" /\ task.step = "entries" /\ task'.saw = task.saw /\ UNCHANGED ran
    BY <1>b, <1>10, EntryAdds
  <2>2. PICK p, row, out :
              /\ p \in Plugin /\ p \in task.left /\ task'.left = task.left \ {p}
              /\ row.id = Repository!BundleRowId(ran, p) /\ row.name[1] = p /\ row.storage = "owned" /\ ~row.derived
              /\ row.id \in Given(ran) \ (Given(ran - 1) \cup References)
              /\ row \notin task.saw /\ \A r \in New : r.id # row.id
              /\ out \subseteq task.saw \cap task.rows
              /\ task'.rows = (task.rows \ out) \cup {row} /\ New' = New \cup {row} /\ Gone' = Gone \cup out
              /\ kept' = (kept \ Repository!Ids(out)) \cup {row.id}
              /\ mine' = mine \ Repository!Ids(out)
    BY <1>b, <1>10, EntryAdds
  <2>3. \A r \in task.saw : r.id \in Given(ran - 1) \cup References
    BY <1>b, <2>1 DEF Entries, Referring
  <2>4. \A r \in New : r.id \notin Given(ran - 1) \cup References
    <3>1. ran - 1 \in Nat /\ ran = (ran - 1) + 1
      BY <1>f, <2>1 DEF Making
    <3>2. QED
      BY <1>b, <2>1, <3>1, GivenGrows DEF Entries
  <2>5. \A r \in New : r.id \notin Repository!Ids(out)
    BY <2>2, <2>3, <2>4 DEF Repository!Ids
  <2>6. \A r \in New' : /\ r.storage = "owned" /\ ~r.derived /\ r.id = Repository!BundleRowId(ran, r.name[1])
                        /\ r.name[1] \in Plugin \ task'.left /\ r.id \in kept'
    BY <1>b, <2>1, <2>2, <2>5 DEF Entries
  <2>7. \A r, s \in New' : r.id = s.id => r = s
    BY <1>b, <2>1, <2>2 DEF Entries
  <2>8. \A r \in Gone : r.id \in Given(ran - 1) \cup References
    BY <2>3 DEF Gone
  <2>9. \A r \in Gone' : r.id \notin kept' \cup mine'
    BY <1>b, <2>1, <2>2, <2>3, <2>8 DEF Entries, Repository!Ids
  <2>10. QED
    BY <1>b, <2>1, <2>6, <2>7, <2>9 DEF Entries, Owned, Referring
<1>11. CASE Repository!BundleFails
  BY <1>11 DEF Repository!BundleFails, Repository!TaskEnds, Entries, Repository!None
<1>12. CASE Repository!BundleWrites
  BY <1>b, <1>12, BundleWritesIs DEF Entries, Repository!None
<1>13. CASE Repository!BundleLists
  BY <1>13 DEF Repository!BundleLists, Repository!TaskEnds, Entries, Repository!None
<1>14. ASSUME NEW t \in Thread, NEW ids, Repository!Removes(t, ids)
      PROVE  Entries'
  <2>1. UNCHANGED <<task, kept, ran, mine>>
    BY <1>b, <1>a, <1>14 DEF Repository!Removes
  <2>2. QED
    BY <1>b, <2>1 DEF Entries, New, Gone, Owned, Referring
<1>15. ASSUME NEW t \in Thread, NEW ids, Repository!create_extension_bundle(t, ids)
      PROVE  Entries'
  <2>1. UNCHANGED <<task, kept, ran, mine>>
    BY <1>b, <1>a, <1>15 DEF Repository!create_extension_bundle
  <2>2. QED
    BY <1>b, <2>1 DEF Entries, New, Gone, Owned, Referring
<1>16. ASSUME NEW t \in Thread, Repository!remove_repository_extension(t)
      PROVE  Entries'
  <2>1. UNCHANGED <<task, kept, ran, mine>>
    BY <1>b, LooksIs, <1>16 DEF New
  <2>2. QED
    BY <1>b, <2>1 DEF Entries, New, Gone, Owned, Referring
<1>17. ASSUME NEW t \in Thread, Repository!RemoveDeletes(t)
      PROVE  Entries'
  <2>1. /\ UNCHANGED <<task, ran>> /\ kept' = kept \ {thread[t].id} /\ mine' = mine \ {thread[t].id}
        /\ thread[t].id \in Old \cup References
    BY <1>b, <1>17, RemovalIs DEF Repository!RemoveDeletes
  <2>2. SUFFICES ASSUME task.does = "bundle", task.step = "entries" PROVE Entries'
    BY <2>1 DEF Entries
  <2>3. Old = Given(ran - 1) /\ ran - 1 \in Nat /\ ran = (ran - 1) + 1
    BY <1>f, <2>2 DEF Making
  <2>4. \A p \in Plugin : Repository!BundleRowId(ran, p) # thread[t].id
    BY <2>1, <2>3, GivenGrows
  <2>5. New' = New /\ Gone' = Gone
    BY <2>1 DEF New, Gone
  <2>6. \A r \in New : r.id \in kept'
    BY <1>b, <2>1, <2>2, <2>4 DEF Entries
  <2>7. \A r \in Gone : r.id \notin kept' \cup mine'
    BY <1>b, <2>1, <2>2 DEF Entries
  <2>8. QED
    BY <1>b, <2>1, <2>2, <2>5, <2>6, <2>7 DEF Entries, Owned, Referring
<1>18. ASSUME NEW t \in Thread, Repository!RemoveWrites(t)
      PROVE  Entries'
  <2>1. UNCHANGED <<task, kept, ran, mine>>
    BY <1>b, <1>a, <1>18 DEF Repository!RemoveWrites
  <2>2. QED
    BY <1>b, <2>1 DEF Entries, New, Gone, Owned, Referring
<1>19. ASSUME NEW t \in Thread, Repository!RemoveBundles(t)
      PROVE  Entries'
  <2>1. UNCHANGED <<task, kept, ran, mine>>
    BY <1>b, <1>a, <1>19 DEF Repository!RemoveBundles
  <2>2. QED
    BY <1>b, <2>1 DEF Entries, New, Gone, Owned, Referring
<1>20. ASSUME NEW t \in Thread, NEW wanted \in SUBSET Plugin, Repository!Mirrors(t, wanted)
      PROVE  Entries'
  <2>1. UNCHANGED <<task, kept, ran, mine>>
    BY <1>b, <1>a, <1>20 DEF Repository!Mirrors
  <2>2. QED
    BY <1>b, <2>1 DEF Entries, New, Gone, Owned, Referring
<1>21. ASSUME NEW t \in Thread, Repository!sync_derived_entries(t)
      PROVE  Entries'
  <2>1. UNCHANGED <<task, kept, ran, mine>>
    BY <1>b, <1>a, <1>21 DEF Repository!sync_derived_entries
  <2>2. QED
    BY <1>b, <2>1 DEF Entries, New, Gone, Owned, Referring
<1>22. ASSUME NEW t \in Thread, Repository!CreateWrites(t)
      PROVE  Entries'
  <2>1. UNCHANGED <<task, kept, ran, mine>>
    BY <1>b, <1>a, <1>22 DEF Repository!CreateWrites
  <2>2. QED
    BY <1>b, <2>1 DEF Entries, New, Gone, Owned, Referring
<1>23. ASSUME NEW t \in Thread, NEW id, Repository!delete_extension_bundle(t, id)
      PROVE  Entries'
  <2>1. UNCHANGED <<task, kept, ran, mine>>
    BY <1>b, <1>a, <1>23 DEF Repository!delete_extension_bundle
  <2>2. QED
    BY <1>b, <2>1 DEF Entries, New, Gone, Owned, Referring
<1>24. CASE Repository!DaemonDies
  BY <1>24 DEF Repository!DaemonDies, Entries, Repository!None
<1>25. QED
  BY <1>a, <1>1, <1>2, <1>3, <1>4, <1>5, <1>6, <1>7, <1>8, <1>9, <1>10, <1>11, <1>12, <1>13, <1>14, <1>15, <1>16, <1>17, <1>18, <1>19, <1>20, <1>21, <1>22, <1>23, <1>24 DEF Repository!ExtNext

\* What a removal has deleted does not come back: a new directory has a new id.
LEMMA DeletedStay ==
  ASSUME RepositoryInv, Repository!ExtNext, ~clobbered'
  PROVE  Deleted'
<1>a. ~clobbered
  BY DEF Repository!ExtNext
<1>b. TaskType /\ ThreadType /\ IndexType /\ Current /\ CopyThere /\ Entries /\ Deleted
  BY <1>a DEF RepositoryInv
<1>c. TaskType' /\ Given(ran) \subseteq Given(ran') /\ Old \subseteq Old' /\ ran \in Nat
  BY TaskTyped, GivenStays
<1>d. ThreadType' /\ IndexType'
  BY ThreadTyped, IndexTyped
<1>e. kept \subseteq Given(ran)
  BY <1>a DEF RepositoryInv
<1>f. /\ Making => Old = Given(ran - 1) /\ ran - 1 \in Nat /\ ran = (ran - 1) + 1
      /\ ~Making => Old = Given(ran)
  BY <1>b DEF Old, TaskType
<1>1. ASSUME NEW p \in Plugin, Repository!ImportReference(p)
      PROVE  Deleted'
  <2>1. UNCHANGED thread /\ kept' \subseteq kept /\ mine' \subseteq mine /\ \A t \in Thread : t \in outdated => t \in outdated'
    BY <1>b, RepositoryAssumption, <1>a, <1>1 DEF Repository!ImportReference, Repository!TaskStarts, Repository!Reads
  <2>2. QED
    BY <1>b, <2>1 DEF Deleted, Removing
<1>2. ASSUME NEW p \in Plugin, Repository!ReuseLocal(p)
      PROVE  Deleted'
  <2>1. UNCHANGED thread /\ kept' \subseteq kept /\ mine' \subseteq mine /\ \A t \in Thread : t \in outdated => t \in outdated'
    BY <1>b, RepositoryAssumption, <1>a, <1>2 DEF Repository!ReuseLocal, Repository!TaskStarts, Repository!Same
  <2>2. QED
    BY <1>b, <2>1 DEF Deleted, Removing
<1>3. ASSUME NEW p \in Plugin, Repository!ImportLocal(p)
      PROVE  Deleted'
  <2>1. /\ UNCHANGED <<thread, mine, outdated>> /\ kept' = kept \cup {Repository!ImportId(ran + 1)} /\ ~Making
    BY <1>3 DEF Repository!ImportLocal, Repository!TaskStarts, Repository!Same, Making, Repository!None
  <2>2. Repository!ImportId(ran + 1) \notin Old \cup References
    BY <1>c, <1>f, <2>1, GivenGrows
  <2>3. \A t \in Thread : Removing(t, {"write", "bundles"}) => thread[t].id \in Old \cup References
    BY <1>b DEF ThreadType, Removing
  <2>4. QED
    BY <1>b, <2>1, <2>2, <2>3 DEF Deleted, Removing
<1>4. ASSUME NEW l \in BundleArchives, NEW conflict, Repository!ImportBundle(l, conflict)
      PROVE  Deleted'
  <2>1. UNCHANGED thread /\ kept' \subseteq kept /\ mine' \subseteq mine /\ \A t \in Thread : t \in outdated => t \in outdated'
    BY <1>b, RepositoryAssumption, <1>a, <1>4 DEF Repository!ImportBundle, Repository!TaskStarts, Repository!Reads
  <2>2. QED
    BY <1>b, <2>1 DEF Deleted, Removing
<1>5. CASE Repository!upsert_reference_entry
  <2>1. outdated' = Repository!Busy \ {"task"} /\ UNCHANGED thread /\ kept' \subseteq kept
    BY <1>b, <1>5, ReplacesIs DEF Repository!upsert_reference_entry
  <2>2. \A t \in Thread : t \notin outdated' => ~Removing(t, {"write"})'
    BY <2>1, RepositoryAssumption DEF Repository!Busy, Repository!None, Removing
  <2>3. QED
    BY <1>b, <2>1, <2>2 DEF Deleted, Removing
<1>6. CASE Repository!LocalInstalls
  <2>1. UNCHANGED thread /\ kept' \subseteq kept /\ mine' \subseteq mine /\ \A t \in Thread : t \in outdated => t \in outdated'
    BY <1>b, RepositoryAssumption, LocalInstallsIs, <1>6 DEF Repository!Same, Repository!Reads
  <2>2. QED
    BY <1>b, <2>1 DEF Deleted, Removing
<1>7. CASE Repository!LocalWrites
  <2>1. outdated' = Repository!Busy \ {"task"} /\ UNCHANGED thread /\ kept' \subseteq kept
    BY <1>b, <1>7, ReplacesIs, LocalWritesIs
  <2>2. \A t \in Thread : t \notin outdated' => ~Removing(t, {"write"})'
    BY <2>1, RepositoryAssumption DEF Repository!Busy, Repository!None, Removing
  <2>3. QED
    BY <1>b, <2>1, <2>2 DEF Deleted, Removing
<1>8. CASE Repository!LocalPacks
  <2>1. UNCHANGED thread /\ kept' \subseteq kept /\ mine' \subseteq mine /\ \A t \in Thread : t \in outdated => t \in outdated'
    BY <1>b, RepositoryAssumption, LocalPacksIs, <1>8 DEF Repository!Same, Repository!Reads
  <2>2. QED
    BY <1>b, <2>1 DEF Deleted, Removing
<1>9. CASE Repository!LocalUndoes
  <2>1. outdated' = Repository!Busy \ {"task"} /\ UNCHANGED thread /\ kept' \subseteq kept
    BY <1>b, <1>9, ReplacesIs DEF Repository!LocalUndoes
  <2>2. \A t \in Thread : t \notin outdated' => ~Removing(t, {"write"})'
    BY <2>1, RepositoryAssumption DEF Repository!Busy, Repository!None, Removing
  <2>3. QED
    BY <1>b, <2>1, <2>2 DEF Deleted, Removing
<1>10. CASE Repository!BundleEntry
  <2>1. UNCHANGED <<thread, outdated>> /\ task.does = "bundle" /\ task.step = "entries" /\ mine' \subseteq mine
    BY <1>b, <1>10, EntryAdds
  <2>2. PICK i : i \in Given(ran) \ (Given(ran - 1) \cup References) /\ kept' \subseteq kept \cup {i}
    BY <1>b, <1>10, EntryAdds
  <2>3. i \notin Old \cup References
    BY <1>f, <2>1, <2>2 DEF Making
  <2>4. \A t \in Thread : Removing(t, {"write", "bundles"}) => thread[t].id \in Old \cup References
    BY <1>b DEF ThreadType, Removing
  <2>5. QED
    BY <1>b, <2>1, <2>2, <2>3, <2>4 DEF Deleted, Removing
<1>11. CASE Repository!BundleFails
  <2>1. UNCHANGED thread /\ kept' \subseteq kept /\ mine' \subseteq mine /\ \A t \in Thread : t \in outdated => t \in outdated'
    BY <1>b, RepositoryAssumption, <1>a, <1>11 DEF Repository!BundleFails, Repository!TaskEnds, Repository!Same
  <2>2. QED
    BY <1>b, <2>1 DEF Deleted, Removing
<1>12. CASE Repository!BundleWrites
  <2>1. outdated' = Repository!Busy \ {"task"} /\ UNCHANGED thread /\ kept' \subseteq kept
    BY <1>b, <1>12, ReplacesIs, BundleWritesIs
  <2>2. \A t \in Thread : t \notin outdated' => ~Removing(t, {"write"})'
    BY <2>1, RepositoryAssumption DEF Repository!Busy, Repository!None, Removing
  <2>3. QED
    BY <1>b, <2>1, <2>2 DEF Deleted, Removing
<1>13. CASE Repository!BundleLists
  <2>1. UNCHANGED thread /\ kept' \subseteq kept /\ mine' \subseteq mine /\ \A t \in Thread : t \in outdated => t \in outdated'
    BY <1>b, RepositoryAssumption, <1>a, <1>13 DEF Repository!BundleLists, Repository!TaskEnds, Repository!Same
  <2>2. QED
    BY <1>b, <2>1 DEF Deleted, Removing
<1>14. ASSUME NEW t \in Thread, NEW ids, Repository!Removes(t, ids)
      PROVE  Deleted'
  <2>1. /\ kept' \subseteq kept /\ mine' \subseteq mine /\ \A u \in Thread \ {t} : u \in outdated => u \in outdated'
        /\ \A u \in Thread \ {t} : thread'[u] = thread[u]
    BY <1>b, <1>14, BeginsIs, RepositoryAssumption DEF Repository!Removes, Repository!Same, Repository!Reads
  <2>2. /\ Removing(t, {"write", "bundles"})' => thread'[t].id \notin kept'
        /\ (t \notin outdated' /\ Removing(t, {"write"})') => thread'[t].id \notin mine'
    BY <1>b, <1>14, BeginsIs DEF Repository!Removes, Removing, Repository!None
  <2>3. QED
    BY <1>b, <2>1, <2>2 DEF Deleted, Removing
<1>15. ASSUME NEW t \in Thread, NEW ids, Repository!create_extension_bundle(t, ids)
      PROVE  Deleted'
  <2>1. /\ kept' \subseteq kept /\ mine' \subseteq mine /\ \A u \in Thread \ {t} : u \in outdated => u \in outdated'
        /\ \A u \in Thread \ {t} : thread'[u] = thread[u]
    BY <1>b, <1>15, BeginsIs, RepositoryAssumption DEF Repository!create_extension_bundle, Repository!Same, Repository!Reads
  <2>2. /\ Removing(t, {"write", "bundles"})' => thread'[t].id \notin kept'
        /\ (t \notin outdated' /\ Removing(t, {"write"})') => thread'[t].id \notin mine'
    BY <1>b, <1>15, BeginsIs DEF Repository!create_extension_bundle, Removing, Repository!None
  <2>3. QED
    BY <1>b, <2>1, <2>2 DEF Deleted, Removing
<1>16. ASSUME NEW t \in Thread, Repository!remove_repository_extension(t)
      PROVE  Deleted'
  <2>1. /\ kept' \subseteq kept /\ mine' \subseteq mine /\ \A u \in Thread \ {t} : u \in outdated => u \in outdated'
        /\ \A u \in Thread \ {t} : thread'[u] = thread[u]
    BY <1>b, <1>16, LooksIs, RepositoryAssumption DEF Removing, Repository!Same, Repository!Reads
  <2>2. /\ Removing(t, {"write", "bundles"})' => thread'[t].id \notin kept'
        /\ (t \notin outdated' /\ Removing(t, {"write"})') => thread'[t].id \notin mine'
    <3>1. CASE thread'[t] = Repository!None
      BY <3>1 DEF Removing, Repository!None
    <3>2. CASE thread'[t] # Repository!None
      <4>1. PICK l, i : thread'[t] = [does |-> "remove", step |-> "delete", ids |-> l, id |-> i, saw |-> catalogue]
        BY <1>b, <1>16, <3>2, LooksIs
      <4>2. QED
        BY <4>1 DEF Removing
    <3>3. QED
      BY <3>1, <3>2
  <2>3. QED
    BY <1>b, <2>1, <2>2 DEF Deleted, Removing
<1>17. ASSUME NEW t \in Thread, Repository!RemoveDeletes(t)
      PROVE  Deleted'
  <2>1. /\ kept' \subseteq kept /\ mine' \subseteq mine /\ \A u \in Thread \ {t} : u \in outdated => u \in outdated'
        /\ \A u \in Thread \ {t} : thread'[u] = thread[u]
    BY <1>b, <1>17, GoesIs, RepositoryAssumption DEF Repository!RemoveDeletes, Repository!Same, Repository!Reads
  <2>2. /\ Removing(t, {"write", "bundles"})' => thread'[t].id \notin kept'
        /\ (t \notin outdated' /\ Removing(t, {"write"})') => thread'[t].id \notin mine'
    BY <1>b, <1>17, GoesIs DEF Repository!RemoveDeletes
  <2>3. QED
    BY <1>b, <2>1, <2>2 DEF Deleted, Removing
<1>18. ASSUME NEW t \in Thread, Repository!RemoveWrites(t)
      PROVE  Deleted'
  <2>1. /\ UNCHANGED <<kept, mine>> /\ outdated' = Repository!Busy \ {t}
        /\ \A u \in Thread \ {t} : thread'[u] = thread[u]
    BY <1>b, <1>18, GoesIs, ReplacesIs DEF Repository!RemoveWrites
  <2>2. \A u \in Thread \ {t} : Removing(u, {"write"}) => u \in outdated'
    BY <2>1 DEF Repository!Busy, Removing, Repository!None
  <2>3. thread'[t].step = "bundles" /\ thread'[t].id = thread[t].id /\ Removing(t, {"write", "bundles"})
    BY <1>b, <1>18, GoesIs DEF Repository!RemoveWrites, Removing
  <2>4. QED
    BY <1>b, <2>1, <2>2, <2>3 DEF Deleted, Removing
<1>19. ASSUME NEW t \in Thread, Repository!RemoveBundles(t)
      PROVE  Deleted'
  <2>1. /\ kept' \subseteq kept /\ mine' \subseteq mine /\ \A u \in Thread \ {t} : u \in outdated => u \in outdated'
        /\ \A u \in Thread \ {t} : thread'[u] = thread[u]
    BY <1>b, <1>19, NamesIs, RepositoryAssumption DEF Removing, Repository!Same, Repository!Reads
  <2>2. /\ Removing(t, {"write", "bundles"})' => thread'[t].id \notin kept'
        /\ (t \notin outdated' /\ Removing(t, {"write"})') => thread'[t].id \notin mine'
    BY <1>b, <1>19, NamesIs DEF Removing
  <2>3. QED
    BY <1>b, <2>1, <2>2 DEF Deleted, Removing
<1>20. ASSUME NEW t \in Thread, NEW wanted \in SUBSET Plugin, Repository!Mirrors(t, wanted)
      PROVE  Deleted'
  <2>1. /\ kept' \subseteq kept /\ mine' \subseteq mine /\ \A u \in Thread \ {t} : u \in outdated => u \in outdated'
        /\ \A u \in Thread \ {t} : thread'[u] = thread[u]
    BY <1>b, <1>20, BeginsIs, RepositoryAssumption DEF Repository!Mirrors, Repository!Same, Repository!Reads
  <2>2. /\ Removing(t, {"write", "bundles"})' => thread'[t].id \notin kept'
        /\ (t \notin outdated' /\ Removing(t, {"write"})') => thread'[t].id \notin mine'
    BY <1>b, <1>20, BeginsIs DEF Repository!Mirrors, Removing, Repository!None
  <2>3. QED
    BY <1>b, <2>1, <2>2 DEF Deleted, Removing
<1>21. ASSUME NEW t \in Thread, Repository!sync_derived_entries(t)
      PROVE  Deleted'
  <2>1. /\ kept' \subseteq kept /\ mine' \subseteq mine /\ \A u \in Thread \ {t} : Removing(u, {"write"}) => u \in outdated'
        /\ \A u \in Thread \ {t} : thread'[u] = thread[u]
    BY <1>b, <1>21, FinishesIs, RepositoryAssumption DEF Repository!sync_derived_entries, Repository!Replaces, Repository!Busy, Repository!None, Removing, Repository!Same, Repository!Reads
  <2>2. /\ Removing(t, {"write", "bundles"})' => thread'[t].id \notin kept'
        /\ (t \notin outdated' /\ Removing(t, {"write"})') => thread'[t].id \notin mine'
    BY <1>b, <1>21, FinishesIs DEF Repository!sync_derived_entries, Removing, Repository!None
  <2>3. QED
    BY <1>b, <2>1, <2>2 DEF Deleted, Removing
<1>22. ASSUME NEW t \in Thread, Repository!CreateWrites(t)
      PROVE  Deleted'
  <2>1. /\ kept' \subseteq kept /\ mine' \subseteq mine /\ \A u \in Thread \ {t} : u \in outdated => u \in outdated'
        /\ \A u \in Thread \ {t} : thread'[u] = thread[u]
    BY <1>b, <1>22, FinishesIs, RepositoryAssumption DEF Repository!CreateWrites, Repository!Same, Repository!Reads
  <2>2. /\ Removing(t, {"write", "bundles"})' => thread'[t].id \notin kept'
        /\ (t \notin outdated' /\ Removing(t, {"write"})') => thread'[t].id \notin mine'
    BY <1>b, <1>22, FinishesIs DEF Repository!CreateWrites, Removing, Repository!None
  <2>3. QED
    BY <1>b, <2>1, <2>2 DEF Deleted, Removing
<1>23. ASSUME NEW t \in Thread, NEW id, Repository!delete_extension_bundle(t, id)
      PROVE  Deleted'
  <2>1. UNCHANGED <<thread, kept, mine, outdated>>
    BY <1>23 DEF Repository!delete_extension_bundle, Repository!Same
  <2>2. QED
    BY <1>b, <2>1 DEF Deleted, Removing
<1>24. CASE Repository!DaemonDies
  <2>1. \A t \in Thread : thread'[t] = Repository!None
    BY <1>24 DEF Repository!DaemonDies
  <2>2. QED
    BY <2>1 DEF Deleted, Repository!None, Removing
<1>25. QED
  BY <1>a, <1>1, <1>2, <1>3, <1>4, <1>5, <1>6, <1>7, <1>8, <1>9, <1>10, <1>11, <1>12, <1>13, <1>14, <1>15, <1>16, <1>17, <1>18, <1>19, <1>20, <1>21, <1>22, <1>23, <1>24 DEF Repository!ExtNext

\* What is in hand stays in hand, or is given up.
LEMMA MatchStays ==
  ASSUME RowsMatch, UNCHANGED <<kept, catalogue>>,
         InTask \cup InRemoval \cup abandoned \subseteq InTask' \cup InRemoval' \cup abandoned'
  PROVE  RowsMatch'
BY DEF RowsMatch, Matched
LEMMA RemovalSame ==
  ASSUME UNCHANGED thread
  PROVE  InRemoval' = InRemoval
BY DEF InRemoval, Removing
LEMMA RemovalGoes ==
  ASSUME NEW t \in Thread, \A u \in Thread \ {t} : thread'[u] = thread[u]
  PROVE  /\ InRemoval \subseteq InRemoval' \cup {thread[t].id}
         /\ (Removing(t, {"delete", "write"}) => Removing(t, {"delete", "write"})' /\ thread'[t].id = thread[t].id)
              => InRemoval \subseteq InRemoval'
BY DEF InRemoval, Removing
\* The rows of a directory Box keeps are the user's or the tasks', one for each.
LEMMA OwnedIs ==
  ASSUME IndexType, ran \in Nat, NEW r \in catalogue
  PROVE  /\ r.id \in Given(ran) => Owned(r) /\ \A q \in catalogue : q.id = r.id => q = r
         /\ r.storage = "owned" => Owned(r) /\ r.id \in Given(ran)
<1>1. Given(ran) \cap References = {}
  BY GivenGrows
<1>2. Owned(r) \/ Referring(r)
  BY DEF IndexType
<1>3. QED
  BY <1>1, <1>2 DEF IndexType, Owned, Referring

\* Rows and directories match, but for what is in hand or was given up.
LEMMA RowsMatchStay ==
  ASSUME RepositoryInv, Repository!ExtNext, ~clobbered'
  PROVE  RowsMatch'
<1>a. ~clobbered
  BY DEF Repository!ExtNext
<1>b. TaskType /\ ThreadType /\ IndexType /\ Current /\ CopyThere /\ Entries /\ Deleted
  BY <1>a DEF RepositoryInv
<1>c. TaskType' /\ Given(ran) \subseteq Given(ran') /\ Old \subseteq Old' /\ ran \in Nat
  BY TaskTyped, GivenStays
<1>d. ThreadType' /\ IndexType'
  BY ThreadTyped, IndexTyped
<1>e. kept \subseteq Given(ran)
  BY <1>a DEF RepositoryInv
<1>f. /\ Making => Old = Given(ran - 1) /\ ran - 1 \in Nat /\ ran = (ran - 1) + 1
      /\ ~Making => Old = Given(ran)
  BY <1>b DEF Old, TaskType
<1>g. RowsMatch
  BY <1>a DEF RepositoryInv
<1>1. ASSUME NEW p \in Plugin, Repository!ImportReference(p)
      PROVE  RowsMatch'
  <2>1. UNCHANGED <<thread, kept, catalogue>>
    BY <1>b, <1>a, <1>1 DEF Repository!ImportReference, Repository!Reads
  <2>2. InTask \cup abandoned \subseteq InTask' \cup abandoned'
    BY <1>b, <1>a, <1>1 DEF Repository!ImportReference, Repository!TaskStarts, InTask, Repository!None
  <2>3. QED
    BY <1>g, <2>1, <2>2, RemovalSame, MatchStays
<1>2. ASSUME NEW p \in Plugin, Repository!ReuseLocal(p)
      PROVE  RowsMatch'
  <2>1. UNCHANGED <<thread, kept, catalogue>>
    BY <1>b, <1>a, <1>2 DEF Repository!ReuseLocal, Repository!Same
  <2>2. InTask \cup abandoned \subseteq InTask' \cup abandoned'
    BY <1>b, <1>a, <1>2 DEF Repository!ReuseLocal, Repository!TaskStarts, InTask, Repository!None
  <2>3. QED
    BY <1>g, <2>1, <2>2, RemovalSame, MatchStays
<1>3. ASSUME NEW p \in Plugin, Repository!ImportLocal(p)
      PROVE  RowsMatch'
  <2>1. /\ UNCHANGED <<thread, catalogue, abandoned>> /\ kept' = kept \cup {Repository!ImportId(ran + 1)}
        /\ InTask' = {Repository!ImportId(ran + 1)} /\ InTask = {}
    BY <1>3 DEF Repository!ImportLocal, Repository!TaskStarts, Repository!Same, InTask, Repository!None
  <2>2. QED
    BY <1>g, <2>1, RemovalSame DEF RowsMatch, Matched
<1>4. ASSUME NEW l \in BundleArchives, NEW conflict, Repository!ImportBundle(l, conflict)
      PROVE  RowsMatch'
  <2>1. UNCHANGED <<thread, kept, catalogue>>
    BY <1>b, <1>a, <1>4 DEF Repository!ImportBundle, Repository!Reads
  <2>2. InTask \cup abandoned \subseteq InTask' \cup abandoned'
    BY <1>b, <1>a, <1>4 DEF Repository!ImportBundle, Repository!TaskStarts, InTask, Repository!None
  <2>3. QED
    BY <1>g, <2>1, <2>2, RemovalSame, MatchStays
<1>5. CASE Repository!upsert_reference_entry
  <2>1. /\ UNCHANGED <<thread, kept, abandoned>> /\ InTask = {} /\ InTask' = {} /\ task.of \in Plugin
        /\ catalogue' = {r \in catalogue : r.id # Repository!RefId(task.of)} \cup {Repository!RefRow(task.of, FALSE)}
    BY <1>b, <1>5, ReplacesIs DEF Repository!upsert_reference_entry, Repository!TaskEnds, InTask, Repository!None, TaskType
  <2>2. /\ Repository!RefRow(task.of, FALSE).storage # "owned"
        /\ Repository!RefId(task.of) \notin Given(ran)
    <3>1. Repository!RefId(task.of) \in References
      BY <2>1 DEF References
    <3>2. QED
      BY <1>c, <3>1, GivenGrows, RefRowIs
  <2>3. \A r \in catalogue' : r.storage = "owned" => r \in catalogue
    BY <2>1, <2>2
  <2>4. \A r \in catalogue : r.id \in Given(ran) => r \in catalogue'
    BY <2>1, <2>2
  <2>5. \A r \in catalogue : r.storage = "owned" => r.id \in Given(ran)
    BY <1>b, <1>c, OwnedIs
  <2>6. SUFFICES ASSUME NEW id \in kept \cup Repository!Ids({r \in catalogue : r.storage = "owned"})
                 PROVE  Matched(id)' \/ id \in InTask' \cup InRemoval' \cup abandoned'
    BY <2>1, <2>3 DEF RowsMatch, Repository!Ids
  <2>7. id \in Given(ran)
    BY <1>e, <2>5, <2>6 DEF Repository!Ids
  <2>8. Matched(id) \/ id \in InRemoval \cup abandoned
    BY <1>g, <2>1, <2>6 DEF RowsMatch
  <2>9. Matched(id) => Matched(id)'
    BY <2>1, <2>4, <2>7 DEF Matched, Repository!Ids
  <2>10. QED
    BY <2>1, <2>8, <2>9, RemovalSame
<1>6. CASE Repository!LocalInstalls
  <2>1. UNCHANGED <<thread, kept, catalogue>>
    BY <1>b, LocalInstallsIs, <1>6 DEF Repository!Same, Repository!Reads
  <2>2. InTask \cup abandoned \subseteq InTask' \cup abandoned'
    BY <1>b, LocalInstallsIs, <1>6 DEF InTask, Repository!None
  <2>3. QED
    BY <1>g, <2>1, <2>2, RemovalSame, MatchStays
<1>7. CASE Repository!LocalWrites
  <2>1. PICK i : i = task.id
    OBVIOUS
  <2>2. /\ UNCHANGED <<thread, kept, abandoned>> /\ InTask = {i} /\ i \in kept
        /\ catalogue' = catalogue \cup {Repository!OwnedRow(i, task.of, 1)}
    BY <1>b, <2>1, <1>7, LocalWritesIs, ReplacesIs DEF InTask, CopyThere
  <2>3. Repository!OwnedRow(i, task.of, 1).id = i
    BY OwnedRowIs
  <2>4. Matched(i)' /\ \A id : Matched(id) => Matched(id)'
    BY <2>2, <2>3 DEF Matched, Repository!Ids
  <2>5. QED
    BY <1>g, <2>2, <2>3, <2>4, RemovalSame DEF RowsMatch, Repository!Ids
<1>8. CASE Repository!LocalPacks
  <2>1. UNCHANGED <<thread, kept, catalogue>>
    BY <1>b, LocalPacksIs, <1>8 DEF Repository!Same, Repository!Reads
  <2>2. InTask \cup abandoned \subseteq InTask' \cup abandoned'
    BY <1>b, LocalPacksIs, <1>8 DEF InTask, Repository!None
  <2>3. QED
    BY <1>g, <2>1, <2>2, RemovalSame, MatchStays
<1>9. CASE Repository!LocalUndoes
  <2>1. /\ UNCHANGED <<thread, abandoned>> /\ InTask = {} /\ kept' = kept \ {task.id}
        /\ catalogue' = {r \in catalogue : r.id # task.id}
    BY <1>b, <1>9, ReplacesIs DEF Repository!LocalUndoes, InTask
  <2>2. task.id \notin kept' \cup Repository!Ids(catalogue') /\ \A id : Matched(id) /\ id # task.id => Matched(id)'
    BY <2>1 DEF Matched, Repository!Ids
  <2>3. QED
    BY <1>g, <2>1, <2>2, RemovalSame DEF RowsMatch, Repository!Ids
<1>10. CASE Repository!BundleEntry
  <2>1. /\ task.does = "bundle" /\ task.step = "entries" /\ task'.does = "bundle" /\ task'.step = "entries"
        /\ task'.saw = task.saw /\ UNCHANGED <<catalogue, thread, abandoned, ran>>
    BY <1>b, <1>10, EntryAdds
  <2>2. PICK row, out :
              /\ row.id \in Given(ran) \ (Given(ran - 1) \cup References)
              /\ out \subseteq task.saw \cap task.rows
              /\ task'.rows = (task.rows \ out) \cup {row} /\ New' = New \cup {row}
              /\ kept' = (kept \ Repository!Ids(out)) \cup {row.id}
    BY <1>b, <1>10, EntryAdds
  <2>3. \A r \in task.saw : r.id \in Given(ran - 1) \cup References
    BY <1>b, <2>1 DEF Entries, Referring
  <2>4. row.id \notin Repository!Ids(task.saw)
    BY <2>2, <2>3 DEF Repository!Ids
  <2>5. InTask \subseteq InTask' /\ row.id \in InTask'
    <3>1. InTask = (Repository!Ids(task.rows) \ Repository!Ids(task.saw)) \cup (Repository!Ids(task.saw) \ Repository!Ids(task.rows))
      BY <2>1 DEF InTask
    <3>2. InTask' = (Repository!Ids(task'.rows) \ Repository!Ids(task.saw)) \cup (Repository!Ids(task.saw) \ Repository!Ids(task'.rows))
      BY <2>1 DEF InTask
    <3>3. Repository!Ids(task'.rows) \subseteq Repository!Ids(task.rows) \cup {row.id} /\ row.id \in Repository!Ids(task'.rows)
      BY <2>2 DEF Repository!Ids
    <3>4. Repository!Ids(task.rows) \subseteq Repository!Ids(task'.rows) \cup Repository!Ids(task.saw)
      BY <2>2 DEF Repository!Ids
    <3>5. QED
      BY <2>4, <3>1, <3>2, <3>3, <3>4
  <2>6. \A id \in Repository!Ids(out) : id \in Given(ran) => id \in InTask'
    <3> SUFFICES ASSUME NEW q \in out, q.id \in Given(ran) PROVE q.id \in InTask'
      BY DEF Repository!Ids
    <3>1. q \in task.saw /\ q.id \in Given(ran - 1) \cup References /\ q.id # row.id
      BY <2>2, <2>3
    <3>2. Owned(q)
      BY <1>b, <1>c, <2>1, <3>1, GivenGrows DEF Entries, Owned, Referring
    <3>3. \A r \in task.rows \ out : r.id # q.id
      <4> SUFFICES ASSUME NEW r \in task.rows \ out, r.id = q.id PROVE FALSE
        OBVIOUS
      <4>1. CASE r \in task.saw
        BY <1>b, <2>1, <3>1, <3>2, <4>1 DEF Entries, Owned
      <4>2. CASE r \in New
        <5>1. ran - 1 \in Nat /\ ran = (ran - 1) + 1
          BY <1>f, <2>1 DEF Making
        <5>2. r.id \notin Given(ran - 1) \cup References
          BY <1>b, <2>1, <4>2, <5>1, GivenGrows DEF Entries
        <5>3. QED
          BY <3>1, <5>2
      <4>3. QED
        BY <4>1, <4>2 DEF New
    <3>4. q.id \in Repository!Ids(task.saw) \ Repository!Ids(task'.rows)
      BY <2>2, <3>1, <3>3 DEF Repository!Ids
    <3>5. QED
      BY <2>1, <3>4 DEF InTask
  <2>7. SUFFICES ASSUME NEW id \in kept' \cup Repository!Ids({r \in catalogue : r.storage = "owned"})
                 PROVE  Matched(id)' \/ id \in InTask' \cup InRemoval \cup abandoned
    BY <2>1, RemovalSame DEF RowsMatch
  <2>8. CASE id = row.id
    BY <2>5, <2>8
  <2>9. CASE id # row.id
    <3>1. id \in kept \cup Repository!Ids({r \in catalogue : r.storage = "owned"})
      BY <2>2, <2>7, <2>9
    <3>2. id \in Given(ran)
      BY <1>b, <1>c, <1>e, <3>1, OwnedIs DEF Repository!Ids
    <3>3. CASE id \in Repository!Ids(out)
      BY <2>6, <3>2, <3>3
    <3>4. CASE id \notin Repository!Ids(out) /\ Matched(id)
      BY <2>1, <2>2, <3>4 DEF Matched
    <3>5. CASE ~Matched(id)
      BY <1>g, <2>5, <3>1, <3>5 DEF RowsMatch
    <3>6. QED
      BY <3>3, <3>4, <3>5
  <2>10. QED
    BY <2>8, <2>9
<1>11. CASE Repository!BundleFails
  <2>1. UNCHANGED <<thread, kept, catalogue>>
    BY <1>b, <1>a, <1>11 DEF Repository!BundleFails, Repository!Same
  <2>2. InTask \cup abandoned \subseteq InTask' \cup abandoned'
    BY <1>b, <1>a, <1>11 DEF Repository!BundleFails, Repository!TaskEnds, InTask, Repository!None
  <2>3. QED
    BY <1>g, <2>1, <2>2, RemovalSame, MatchStays
<1>12. CASE Repository!BundleWrites
  <2>1. /\ task.does = "bundle" /\ task.step = "entries" /\ task.saw = catalogue /\ catalogue' = task.rows
        /\ UNCHANGED <<thread, kept, abandoned>>
    BY <1>b, <1>12, BundleWritesIs, ReplacesIs
  <2>2. InTask = (Repository!Ids(task.rows) \ Repository!Ids(catalogue)) \cup (Repository!Ids(catalogue) \ Repository!Ids(task.rows))
    BY <2>1 DEF InTask
  <2>3. \A r \in New : r.id \in kept
    BY <1>b, <2>1 DEF Entries
  <2>4. \A i \in Repository!Ids(task.rows) \ Repository!Ids(catalogue) : i \in kept
    BY <2>1, <2>3 DEF New, Repository!Ids
  <2>5. \A i \in Repository!Ids(catalogue) \ Repository!Ids(task.rows) : i \notin kept
    BY <1>b, <2>1 DEF Entries, Gone, Repository!Ids
  <2>6. SUFFICES ASSUME NEW id \in kept \cup Repository!Ids({r \in task.rows : r.storage = "owned"})
                 PROVE  Matched(id)' \/ id \in InRemoval \cup abandoned
    BY <2>1, RemovalSame DEF RowsMatch
  <2>7. Matched(id)' <=> id \in kept /\ id \in Repository!Ids(task.rows)
    BY <2>1 DEF Matched
  <2>8. CASE id \in kept
    <3>1. Matched(id) \/ id \in InTask \cup InRemoval \cup abandoned
      BY <1>g, <2>8 DEF RowsMatch
    <3>2. QED
      BY <2>2, <2>5, <2>7, <2>8, <3>1 DEF Matched
  <2>9. CASE id \notin kept
    <3>1. PICK r \in task.rows : r.storage = "owned" /\ r.id = id
      BY <2>6, <2>9 DEF Repository!Ids
    <3>2. r \in catalogue
      BY <2>1, <2>3, <2>9, <3>1 DEF New
    <3>3. id \in Repository!Ids({q \in catalogue : q.storage = "owned"}) /\ id \in Repository!Ids(catalogue) \cap Repository!Ids(task.rows)
      BY <3>1, <3>2 DEF Repository!Ids
    <3>4. QED
      BY <1>g, <2>2, <2>9, <3>3 DEF RowsMatch, Matched
  <2>10. QED
    BY <2>8, <2>9
<1>13. CASE Repository!BundleLists
  <2>1. UNCHANGED <<thread, kept, catalogue>>
    BY <1>b, <1>a, <1>13 DEF Repository!BundleLists, Repository!Same
  <2>2. InTask \cup abandoned \subseteq InTask' \cup abandoned'
    BY <1>b, <1>a, <1>13 DEF Repository!BundleLists, Repository!TaskEnds, InTask, Repository!None
  <2>3. QED
    BY <1>g, <2>1, <2>2, RemovalSame, MatchStays
<1>14. ASSUME NEW t \in Thread, NEW ids, Repository!Removes(t, ids)
      PROVE  RowsMatch'
  <2>1. /\ UNCHANGED <<task, kept, catalogue, abandoned>> /\ \A u \in Thread \ {t} : thread'[u] = thread[u]
    BY <1>b, <1>14, BeginsIs DEF Repository!Same, Repository!Reads, Repository!Removes
  <2>2. ~Removing(t, {"delete", "write"})
    BY <1>b, <1>14, BeginsIs DEF Repository!Begins, Repository!None, Removing, Repository!Removes
  <2>3. InTask' = InTask
    BY <2>1 DEF InTask
  <2>4. QED
    BY <1>g, <2>1, <2>2, <2>3, RemovalGoes, MatchStays
<1>15. ASSUME NEW t \in Thread, NEW ids, Repository!create_extension_bundle(t, ids)
      PROVE  RowsMatch'
  <2>1. /\ UNCHANGED <<task, kept, catalogue, abandoned>> /\ \A u \in Thread \ {t} : thread'[u] = thread[u]
    BY <1>b, <1>15, BeginsIs DEF Repository!Same, Repository!Reads, Repository!create_extension_bundle
  <2>2. ~Removing(t, {"delete", "write"})
    BY <1>b, <1>15, BeginsIs DEF Repository!Begins, Repository!None, Removing, Repository!create_extension_bundle
  <2>3. InTask' = InTask
    BY <2>1 DEF InTask
  <2>4. QED
    BY <1>g, <2>1, <2>2, <2>3, RemovalGoes, MatchStays
<1>16. ASSUME NEW t \in Thread, Repository!remove_repository_extension(t)
      PROVE  RowsMatch'
  <2>1. /\ UNCHANGED <<task, kept, catalogue, abandoned>> /\ \A u \in Thread \ {t} : thread'[u] = thread[u]
    BY <1>b, <1>16, LooksIs DEF Repository!Same, Repository!Reads
  <2>2. ~Removing(t, {"delete", "write"})
    BY <1>b, <1>16, LooksIs DEF Removing
  <2>3. InTask' = InTask
    BY <2>1 DEF InTask
  <2>4. QED
    BY <1>g, <2>1, <2>2, <2>3, RemovalGoes, MatchStays
<1>17. ASSUME NEW t \in Thread, Repository!RemoveDeletes(t)
      PROVE  RowsMatch'
  <2>1. /\ UNCHANGED <<task, catalogue, abandoned>> /\ kept' = kept \ {thread[t].id}
        /\ \A u \in Thread \ {t} : thread'[u] = thread[u]
    BY <1>b, <1>17, GoesIs DEF Repository!RemoveDeletes, Repository!Same
  <2>2. Removing(t, {"delete", "write"})' /\ thread'[t].id = thread[t].id
    BY <1>b, <1>17, GoesIs DEF Repository!RemoveDeletes, Removing
  <2>3. InTask' = InTask /\ InRemoval \subseteq InRemoval' /\ thread[t].id \in InRemoval'
    <3>1. thread[t].id \in InRemoval'
      BY <2>2 DEF InRemoval, Removing
    <3>2. QED
      BY <2>1, <2>2, <3>1, RemovalGoes DEF InTask
  <2>4. \A id : Matched(id) /\ id # thread[t].id => Matched(id)'
    BY <2>1 DEF Matched
  <2>5. QED
    BY <1>g, <2>1, <2>3, <2>4 DEF RowsMatch
<1>18. ASSUME NEW t \in Thread, Repository!RemoveWrites(t)
      PROVE  RowsMatch'
  <2>1. /\ UNCHANGED <<task, kept, abandoned>> /\ catalogue' = {r \in catalogue : r.id # thread[t].id}
        /\ \A u \in Thread \ {t} : thread'[u] = thread[u]
    BY <1>b, <1>18, GoesIs, ReplacesIs DEF Repository!RemoveWrites, Removing
  <2>2. thread[t].id \notin kept
    BY <1>b, <1>18 DEF Deleted, Removing, Repository!RemoveWrites
  <2>3. InTask' = InTask /\ InRemoval \subseteq InRemoval' \cup {thread[t].id}
    BY <2>1, RemovalGoes DEF InTask
  <2>4. thread[t].id \notin kept' \cup Repository!Ids(catalogue') /\ \A id : Matched(id) => Matched(id)'
    BY <2>1, <2>2 DEF Matched, Repository!Ids
  <2>5. QED
    BY <1>g, <2>1, <2>3, <2>4 DEF RowsMatch, Repository!Ids
<1>19. ASSUME NEW t \in Thread, Repository!RemoveBundles(t)
      PROVE  RowsMatch'
  <2>1. /\ UNCHANGED <<task, kept, catalogue, abandoned>> /\ \A u \in Thread \ {t} : thread'[u] = thread[u]
    BY <1>b, <1>19, NamesIs DEF Repository!Same, Repository!Reads
  <2>2. ~Removing(t, {"delete", "write"})
    BY <1>b, <1>19, NamesIs DEF Removing
  <2>3. InTask' = InTask
    BY <2>1 DEF InTask
  <2>4. QED
    BY <1>g, <2>1, <2>2, <2>3, RemovalGoes, MatchStays
<1>20. ASSUME NEW t \in Thread, NEW wanted \in SUBSET Plugin, Repository!Mirrors(t, wanted)
      PROVE  RowsMatch'
  <2>1. /\ UNCHANGED <<task, kept, catalogue, abandoned>> /\ \A u \in Thread \ {t} : thread'[u] = thread[u]
    BY <1>b, <1>20, BeginsIs DEF Repository!Same, Repository!Reads, Repository!Mirrors
  <2>2. ~Removing(t, {"delete", "write"})
    BY <1>b, <1>20, BeginsIs DEF Repository!Begins, Repository!None, Removing, Repository!Mirrors
  <2>3. InTask' = InTask
    BY <2>1 DEF InTask
  <2>4. QED
    BY <1>g, <2>1, <2>2, <2>3, RemovalGoes, MatchStays
<1>21. ASSUME NEW t \in Thread, Repository!sync_derived_entries(t)
      PROVE  RowsMatch'
  <2>1. /\ UNCHANGED <<task, kept, abandoned>> /\ \A u \in Thread \ {t} : thread'[u] = thread[u]
        /\ catalogue' = Repository!Mirrored(catalogue, thread[t].wanted) /\ thread[t].wanted \subseteq Plugin
        /\ ~Removing(t, {"delete", "write"})
    <3>1. AThread(thread[t])
      BY <1>b DEF ThreadType
    <3>2. QED
      BY <1>b, <3>1, <1>21, ReplacesIs, FinishesIs DEF Repository!sync_derived_entries, AThread, Removing, Repository!None
  <2>2. \A r \in catalogue' : r \in catalogue \/ \E p \in Plugin : r = Repository!RefRow(p, TRUE)
    BY <2>1 DEF Repository!Mirrored
  <2>3. \A r \in catalogue' : r.storage = "owned" => r \in catalogue
    <3>1. \A p \in Plugin : Repository!RefRow(p, TRUE).storage # "owned"
      BY RefRowIs
    <3>2. QED
      BY <2>2, <3>1
  <2>4. \A r \in catalogue : r.id \in Given(ran) => r \in catalogue'
    BY <1>b, <1>c, <2>1, OwnedIs DEF Repository!Mirrored, Owned
  <2>5. \A r \in catalogue : r.storage = "owned" => r.id \in Given(ran)
    BY <1>b, <1>c, OwnedIs
  <2>6. SUFFICES ASSUME NEW id \in kept \cup Repository!Ids({r \in catalogue : r.storage = "owned"})
                 PROVE  Matched(id)' \/ id \in InTask' \cup InRemoval' \cup abandoned'
    BY <2>1, <2>3 DEF RowsMatch, Repository!Ids
  <2>7. id \in Given(ran)
    BY <1>e, <2>5, <2>6 DEF Repository!Ids
  <2>8. Matched(id) \/ id \in InTask \cup InRemoval \cup abandoned
    BY <1>g, <2>6 DEF RowsMatch
  <2>9. Matched(id) => Matched(id)'
    BY <2>1, <2>4, <2>7 DEF Matched, Repository!Ids
  <2>10. InTask' = InTask /\ InRemoval \subseteq InRemoval'
    BY <2>1, RemovalGoes DEF InTask
  <2>11. QED
    BY <2>1, <2>8, <2>9, <2>10
<1>22. ASSUME NEW t \in Thread, Repository!CreateWrites(t)
      PROVE  RowsMatch'
  <2>1. /\ UNCHANGED <<task, kept, catalogue, abandoned>> /\ \A u \in Thread \ {t} : thread'[u] = thread[u]
    BY <1>b, <1>22, FinishesIs DEF Repository!Same, Repository!Reads, Repository!CreateWrites
  <2>2. ~Removing(t, {"delete", "write"})
    BY <1>b, <1>22, FinishesIs DEF Removing, Repository!CreateWrites
  <2>3. InTask' = InTask
    BY <2>1 DEF InTask
  <2>4. QED
    BY <1>g, <2>1, <2>2, <2>3, RemovalGoes, MatchStays
<1>23. ASSUME NEW t \in Thread, NEW id, Repository!delete_extension_bundle(t, id)
      PROVE  RowsMatch'
  <2>1. UNCHANGED <<thread, task, kept, catalogue, abandoned>>
    BY <1>23 DEF Repository!delete_extension_bundle, Repository!Same
  <2>2. InTask' = InTask
    BY <2>1 DEF InTask
  <2>3. QED
    BY <1>g, <2>1, <2>2, RemovalSame, MatchStays
<1>24. CASE Repository!DaemonDies
  <2>1. UNCHANGED <<kept, catalogue>> /\ abandoned' = abandoned \cup Repository!InWork
    BY <1>24 DEF Repository!DaemonDies, Repository!Same
  <2>2. InTask \cup InRemoval \subseteq Repository!InWork
    BY DEF Repository!InWork, InTask, InRemoval, Removing
  <2>3. QED
    BY <1>g, <2>1, <2>2, MatchStays
<1>25. QED
  BY <1>a, <1>1, <1>2, <1>3, <1>4, <1>5, <1>6, <1>7, <1>8, <1>9, <1>10, <1>11, <1>12, <1>13, <1>14, <1>15, <1>16, <1>17, <1>18, <1>19, <1>20, <1>21, <1>22, <1>23, <1>24 DEF Repository!ExtNext

\* Every row of the user's has a row in the index that is not a mirrored one.
LEMMA UserRowsStay ==
  ASSUME RepositoryInv, Repository!ExtNext, ~clobbered'
  PROVE  Repository!UserRowsKept'
<1>a. ~clobbered
  BY DEF Repository!ExtNext
<1>b. TaskType /\ ThreadType /\ IndexType /\ Current /\ CopyThere /\ Entries /\ Deleted
  BY <1>a DEF RepositoryInv
<1>c. TaskType' /\ Given(ran) \subseteq Given(ran') /\ Old \subseteq Old' /\ ran \in Nat
  BY TaskTyped, GivenStays
<1>d. ThreadType' /\ IndexType'
  BY ThreadTyped, IndexTyped
<1>e. kept \subseteq Given(ran)
  BY <1>a DEF RepositoryInv
<1>f. /\ Making => Old = Given(ran - 1) /\ ran - 1 \in Nat /\ ran = (ran - 1) + 1
      /\ ~Making => Old = Given(ran)
  BY <1>b DEF Old, TaskType
<1>g. RowsMatch
  BY <1>a DEF RepositoryInv
<1>h. Repository!UserRowsKept
  BY <1>a DEF RepositoryInv
<1>1. ASSUME NEW p \in Plugin, Repository!ImportReference(p)
      PROVE  Repository!UserRowsKept'
  <2>1. mine' \subseteq mine /\ UNCHANGED catalogue
    BY <1>b, <1>a, <1>1 DEF Repository!ImportReference, Repository!Reads
  <2>2. QED
    BY <1>h, <2>1 DEF Repository!UserRowsKept
<1>2. ASSUME NEW p \in Plugin, Repository!ReuseLocal(p)
      PROVE  Repository!UserRowsKept'
  <2>1. mine' \subseteq mine /\ UNCHANGED catalogue
    BY <1>b, <1>a, <1>2 DEF Repository!ReuseLocal, Repository!Same
  <2>2. QED
    BY <1>h, <2>1 DEF Repository!UserRowsKept
<1>3. ASSUME NEW p \in Plugin, Repository!ImportLocal(p)
      PROVE  Repository!UserRowsKept'
  <2>1. mine' \subseteq mine /\ UNCHANGED catalogue
    BY <1>b, <1>a, <1>3 DEF Repository!ImportLocal, Repository!Same
  <2>2. QED
    BY <1>h, <2>1 DEF Repository!UserRowsKept
<1>4. ASSUME NEW l \in BundleArchives, NEW conflict, Repository!ImportBundle(l, conflict)
      PROVE  Repository!UserRowsKept'
  <2>1. mine' \subseteq mine /\ UNCHANGED catalogue
    BY <1>b, <1>a, <1>4 DEF Repository!ImportBundle, Repository!Reads
  <2>2. QED
    BY <1>h, <2>1 DEF Repository!UserRowsKept
<1>5. CASE Repository!upsert_reference_entry
  <2>1. /\ mine' = mine \cup {Repository!RefId(task.of)}
        /\ catalogue' = {r \in catalogue : r.id # Repository!RefId(task.of)} \cup {Repository!RefRow(task.of, FALSE)}
    BY <1>b, <1>5, ReplacesIs DEF Repository!upsert_reference_entry
  <2>2. Repository!RefRow(task.of, FALSE).id = Repository!RefId(task.of) /\ ~Repository!RefRow(task.of, FALSE).derived
    BY DEF Repository!RefRow
  <2>3. QED
    BY <1>h, <2>1, <2>2 DEF Repository!UserRowsKept
<1>6. CASE Repository!LocalInstalls
  <2>1. mine' \subseteq mine /\ UNCHANGED catalogue
    BY <1>b, LocalInstallsIs, <1>6 DEF Repository!Same, Repository!Reads
  <2>2. QED
    BY <1>h, <2>1 DEF Repository!UserRowsKept
<1>7. CASE Repository!LocalWrites
  <2>1. mine' = mine \cup {task.id} /\ catalogue' = catalogue \cup {Repository!OwnedRow(task.id, task.of, 1)}
    BY <1>b, <1>7, LocalWritesIs, ReplacesIs
  <2>2. Repository!OwnedRow(task.id, task.of, 1).id = task.id /\ ~Repository!OwnedRow(task.id, task.of, 1).derived
    BY OwnedRowIs
  <2>3. QED
    BY <1>h, <2>1, <2>2 DEF Repository!UserRowsKept
<1>8. CASE Repository!LocalPacks
  <2>1. mine' \subseteq mine /\ UNCHANGED catalogue
    BY <1>b, LocalPacksIs, <1>8 DEF Repository!Same, Repository!Reads
  <2>2. QED
    BY <1>h, <2>1 DEF Repository!UserRowsKept
<1>9. CASE Repository!LocalUndoes
  <2>1. mine' = mine \ {task.id} /\ catalogue' = {r \in catalogue : r.id # task.id}
    BY <1>b, <1>9, ReplacesIs DEF Repository!LocalUndoes
  <2>2. QED
    BY <1>h, <2>1 DEF Repository!UserRowsKept
<1>10. CASE Repository!BundleEntry
  <2>1. mine' \subseteq mine /\ UNCHANGED catalogue
    BY <1>b, <1>10, EntryAdds
  <2>2. QED
    BY <1>h, <2>1 DEF Repository!UserRowsKept
<1>11. CASE Repository!BundleFails
  <2>1. mine' \subseteq mine /\ UNCHANGED catalogue
    BY <1>b, <1>a, <1>11 DEF Repository!BundleFails, Repository!Same
  <2>2. QED
    BY <1>h, <2>1 DEF Repository!UserRowsKept
<1>12. CASE Repository!BundleWrites
  <2>1. /\ task.does = "bundle" /\ task.step = "entries" /\ task.saw = catalogue /\ catalogue' = task.rows
        /\ mine' = mine \cup (Repository!Ids(task.rows) \ Repository!Ids(catalogue))
    BY <1>b, <1>12, BundleWritesIs, ReplacesIs
  <2>2. \A r \in New : ~r.derived
    BY <1>b, <2>1 DEF Entries
  <2>3. \A r \in catalogue \ task.rows : r.id \notin mine
    BY <1>b, <2>1 DEF Entries, Gone
  <2>4. \A i \in mine : \E r \in task.rows : r.id = i /\ ~r.derived
    BY <1>h, <2>3 DEF Repository!UserRowsKept
  <2>5. \A i \in Repository!Ids(task.rows) \ Repository!Ids(catalogue) : \E r \in task.rows : r.id = i /\ ~r.derived
    BY <2>1, <2>2 DEF New, Repository!Ids
  <2>6. QED
    BY <2>1, <2>4, <2>5 DEF Repository!UserRowsKept
<1>13. CASE Repository!BundleLists
  <2>1. mine' \subseteq mine /\ UNCHANGED catalogue
    BY <1>b, <1>a, <1>13 DEF Repository!BundleLists, Repository!Same
  <2>2. QED
    BY <1>h, <2>1 DEF Repository!UserRowsKept
<1>14. ASSUME NEW t \in Thread, NEW ids, Repository!Removes(t, ids)
      PROVE  Repository!UserRowsKept'
  <2>1. mine' \subseteq mine /\ UNCHANGED catalogue
    BY <1>b, <1>a, <1>14 DEF Repository!Removes, Repository!Same
  <2>2. QED
    BY <1>h, <2>1 DEF Repository!UserRowsKept
<1>15. ASSUME NEW t \in Thread, NEW ids, Repository!create_extension_bundle(t, ids)
      PROVE  Repository!UserRowsKept'
  <2>1. mine' \subseteq mine /\ UNCHANGED catalogue
    BY <1>b, <1>a, <1>15 DEF Repository!create_extension_bundle, Repository!Same
  <2>2. QED
    BY <1>h, <2>1 DEF Repository!UserRowsKept
<1>16. ASSUME NEW t \in Thread, Repository!remove_repository_extension(t)
      PROVE  Repository!UserRowsKept'
  <2>1. mine' \subseteq mine /\ UNCHANGED catalogue
    BY <1>b, LooksIs, <1>16 DEF Repository!Reads
  <2>2. QED
    BY <1>h, <2>1 DEF Repository!UserRowsKept
<1>17. ASSUME NEW t \in Thread, Repository!RemoveDeletes(t)
      PROVE  Repository!UserRowsKept'
  <2>1. mine' \subseteq mine /\ UNCHANGED catalogue
    BY <1>17 DEF Repository!RemoveDeletes, Repository!Same
  <2>2. QED
    BY <1>h, <2>1 DEF Repository!UserRowsKept
<1>18. ASSUME NEW t \in Thread, Repository!RemoveWrites(t)
      PROVE  Repository!UserRowsKept'
  <2>1. mine' = mine /\ catalogue' = {r \in catalogue : r.id # thread[t].id}
    BY <1>b, <1>18, ReplacesIs DEF Repository!RemoveWrites, Removing
  <2>2. t \notin outdated
    BY <1>18 DEF Repository!RemoveWrites, Repository!Replaces
  <2>3. thread[t].id \notin mine
    BY <1>b, <1>18, <2>2 DEF Deleted, Removing, Repository!RemoveWrites
  <2>4. QED
    BY <1>h, <2>1, <2>3 DEF Repository!UserRowsKept
<1>19. ASSUME NEW t \in Thread, Repository!RemoveBundles(t)
      PROVE  Repository!UserRowsKept'
  <2>1. mine' \subseteq mine /\ UNCHANGED catalogue
    BY <1>b, <1>a, <1>19 DEF Repository!RemoveBundles, Repository!Same
  <2>2. QED
    BY <1>h, <2>1 DEF Repository!UserRowsKept
<1>20. ASSUME NEW t \in Thread, NEW wanted \in SUBSET Plugin, Repository!Mirrors(t, wanted)
      PROVE  Repository!UserRowsKept'
  <2>1. mine' \subseteq mine /\ UNCHANGED catalogue
    BY <1>b, <1>a, <1>20 DEF Repository!Mirrors, Repository!Reads
  <2>2. QED
    BY <1>h, <2>1 DEF Repository!UserRowsKept
<1>21. ASSUME NEW t \in Thread, Repository!sync_derived_entries(t)
      PROVE  Repository!UserRowsKept'
  <2>1. mine' = mine /\ catalogue' = Repository!Mirrored(catalogue, thread[t].wanted)
    BY <1>b, <1>21, ReplacesIs DEF Repository!sync_derived_entries
  <2>2. \A r \in catalogue : ~r.derived => r \in catalogue'
    BY <2>1 DEF Repository!Mirrored
  <2>3. QED
    BY <1>h, <2>1, <2>2 DEF Repository!UserRowsKept
<1>22. ASSUME NEW t \in Thread, Repository!CreateWrites(t)
      PROVE  Repository!UserRowsKept'
  <2>1. mine' \subseteq mine /\ UNCHANGED catalogue
    BY <1>b, <1>a, <1>22 DEF Repository!CreateWrites, Repository!Same
  <2>2. QED
    BY <1>h, <2>1 DEF Repository!UserRowsKept
<1>23. ASSUME NEW t \in Thread, NEW id, Repository!delete_extension_bundle(t, id)
      PROVE  Repository!UserRowsKept'
  <2>1. mine' \subseteq mine /\ UNCHANGED catalogue
    BY <1>b, <1>a, <1>23 DEF Repository!delete_extension_bundle, Repository!Same
  <2>2. QED
    BY <1>h, <2>1 DEF Repository!UserRowsKept
<1>24. CASE Repository!DaemonDies
  <2>1. mine' \subseteq mine /\ UNCHANGED catalogue
    BY <1>b, <1>a, <1>24 DEF Repository!DaemonDies, Repository!Same
  <2>2. QED
    BY <1>h, <2>1 DEF Repository!UserRowsKept
<1>25. QED
  BY <1>a, <1>1, <1>2, <1>3, <1>4, <1>5, <1>6, <1>7, <1>8, <1>9, <1>10, <1>11, <1>12, <1>13, <1>14, <1>15, <1>16, <1>17, <1>18, <1>19, <1>20, <1>21, <1>22, <1>23, <1>24 DEF Repository!ExtNext

\* Every behaviour of the part keeps the invariant.
LEMMA RepositoryHolds == PartsSpec => [](part = "repository" => RepositoryInv)
<1>1. PartsInit => (part = "repository" => RepositoryInv)
  <2> SUFFICES ASSUME Repository!ExtInit PROVE RepositoryInv
    BY DEF PartsInit, PartsStart
  <2>1. /\ catalogue = {} /\ kept = {} /\ task = Repository!None /\ ran = 0 /\ thread = [t \in Thread |-> Repository!None]
        /\ mine = {}
    BY DEF Repository!ExtInit
  <2>2. TaskType /\ ~Making
    BY <2>1 DEF TaskType, Making, ATask, Repository!None
  <2>3. ThreadType
    BY <2>1 DEF ThreadType, AThread, Removing, Repository!None
  <2>4. IndexType /\ Current /\ CopyThere /\ Entries /\ Deleted
    BY <2>1 DEF IndexType, Current, CopyThere, Entries, Deleted, Removing, Repository!None
  <2>5. RowsMatch /\ Repository!UserRowsKept
    BY <2>1 DEF RowsMatch, Repository!UserRowsKept, Repository!Ids
  <2>6. QED
    BY <2>1, <2>2, <2>3, <2>4, <2>5 DEF RepositoryInv
<1>2. (part = "repository" => RepositoryInv) /\ [PartsNext]_partsVars => (part = "repository" => RepositoryInv)'
  <2> SUFFICES ASSUME part = "repository" => RepositoryInv, [PartsNext]_partsVars, part' = "repository" PROVE RepositoryInv'
    OBVIOUS
  <2>1. part = "repository"
    BY DEF PartsNext, partsVars
  <2>2. RepositoryInv /\ (Repository!ExtNext \/ UNCHANGED repository)
    BY <2>1, RepositoryMoves
  <2>3. CASE Repository!ExtNext /\ ~clobbered'
    <3>1. TaskType' /\ ThreadType' /\ IndexType' /\ Current'
      BY <2>2, <2>3, TaskTyped, ThreadTyped, IndexTyped, CurrentStays
    <3>2. CopyThere' /\ Entries' /\ Deleted'
      BY <2>2, <2>3, CopyStays, EntriesStay, DeletedStay
    <3>3. kept' \subseteq Given(ran') /\ RowsMatch' /\ Repository!UserRowsKept'
      BY <2>2, <2>3, KeptGiven, RowsMatchStay, UserRowsStay
    <3>4. QED
      BY <3>1, <3>2, <3>3 DEF RepositoryInv
  <2>4. CASE UNCHANGED repository
    <3>1. UNCHANGED <<catalogue, kept, task, ran, thread, outdated, clobbered, abandoned, mine>>
      BY <2>4 DEF repository
    <3>2. CASE clobbered
      BY <3>1, <3>2 DEF RepositoryInv
    <3>3. CASE ~clobbered
      <4>1. (Making' <=> Making) /\ New' = New /\ Gone' = Gone /\ InTask' = InTask /\ InRemoval' = InRemoval
        BY <3>1, RemovalSame DEF Making, New, Gone, InTask
      <4>2. Old' = Old
        BY <3>1, <4>1 DEF Old
      <4>3. TaskType' /\ ThreadType' /\ IndexType'
        <5>1. TaskType /\ ThreadType /\ IndexType
          BY <2>2, <3>3 DEF RepositoryInv
        <5>2. TaskType'
          BY <3>1, <4>1, <5>1 DEF TaskType, ATask
        <5>3. ThreadType'
          BY <3>1, <4>2, <5>1 DEF ThreadType, Removing
        <5>4. IndexType'
          BY <3>1, <4>2, <5>1 DEF IndexType, Owned, Referring
        <5>5. QED
          BY <5>2, <5>3, <5>4
      <4>4. Current' /\ CopyThere' /\ Deleted'
        BY <2>2, <3>1, <3>3 DEF RepositoryInv, Current, CopyThere, Deleted, Removing
      <4>5. Entries'
        BY <2>2, <3>1, <3>3, <4>1 DEF RepositoryInv, Entries, Owned, Referring
      <4>6. RowsMatch' /\ Repository!UserRowsKept'
        BY <2>2, <3>1, <3>3, <4>1 DEF RepositoryInv, RowsMatch, Matched, Repository!UserRowsKept
      <4>7. QED
        BY <2>2, <3>1, <3>3, <4>3, <4>4, <4>5, <4>6 DEF RepositoryInv
    <3>4. QED
      BY <3>2, <3>3
  <2>5. CASE clobbered'
    BY <2>5 DEF RepositoryInv
  <2>6. QED
    BY <2>2, <2>3, <2>4, <2>5
<1>3. QED
  BY <1>1, <1>2, PTL DEF PartsSpec

\* What the invariant says of the rows and the directories.
LEMMA RowsMatched ==
  ASSUME RepositoryInv
  PROVE  Repository!RepositorySound
<1>1. InTask \cup InRemoval \subseteq Repository!InWork
  BY DEF Repository!InWork, InTask, InRemoval, Removing
<1>2. RowsMatch => Repository!RowsMatchDirectories
  BY <1>1 DEF RowsMatch, Matched, Repository!RowsMatchDirectories, Repository!Ids
<1>3. QED
  BY <1>2 DEF RepositoryInv, Repository!RepositorySound

-----------------------------------------------------------------------------
(* What is installed in a container (ContainerPlugins). *)

Sources == {"own", "repository", "registry"}
Files == Sources \cup {Installs!NoFiles, Installs!Part}
Manifests == [listed : SUBSET Package, deps : [Package -> {"none", "star", "spec"}]]
\* The steps of an installation, before and after its plugin is listed.
Listing == {"store", "read", "manifest", "pnpm"}
Copying == {"clear", "copy", "record"}
InstallType ==
  \/ install = Installs!Rest
  \/ /\ install = [x \in DOMAIN install |-> install[x]] /\ {"step", "of", "from", "left", "saw"} \subseteq DOMAIN install
     /\ install.from \in Sources
     /\ \/ install.step \in Listing \cup Copying /\ install.of \in Package
        \/ install.step = "next" /\ install.of = "nothing"
        \/ install.step \in {"skill", "again"} /\ install.of \in Skill
     /\ install.step = "manifest" => install.saw \in Manifests
AdderType == adder = Installs!Rest \/ (adder.of \in Package /\ adder = [step |-> "pnpm", of |-> adder.of])
UninstallType ==
  \/ uninstall = Installs!Rest
  \/ /\ uninstall.of \in Package /\ uninstall.step \in {"manifest", "delete", "record"}
     /\ uninstall = [step |-> uninstall.step, of |-> uninstall.of, saw |-> uninstall.saw]
Typed ==
  /\ manifest \in Manifests /\ payload \in [Package -> Files]
  /\ InstallType /\ AdderType /\ UninstallType
\* Nobody works on the plugin of another.
Apart ==
  /\ install.of \in Package => install.of \notin {adder.of, uninstall.of}
  /\ adder.of \in Package => adder.of # uninstall.of
\* Who is not outdated works from the manifest as it is; a plugin that is being
\* installed is in the manifest as it was when it was read.
AsRead ==
  /\ ("task" \notin late /\ install.step = "manifest") => install.saw = manifest
  /\ ("remover" \notin late /\ uninstall.step = "manifest") => uninstall.saw = manifest
  /\ install.step = "manifest" =>
       /\ install.of \in install.saw.listed <=> install.of \in manifest.listed
       /\ install.saw.deps[install.of] = manifest.deps[install.of]
\* An installation lists its plugin, then puts its files, then the record.
InstallGoes ==
  /\ install.step \in Copying => install.of \in manifest.listed /\ manifest.deps[install.of] # "star"
  /\ install.step = "record" => payload[install.of] \in Sources
\* A removal takes them back in the same order.
UninstallGoes ==
  /\ uninstall.step \in {"delete", "record"} => uninstall.of \notin manifest.listed
  /\ uninstall.step = "record" => payload[uninstall.of] = Installs!NoFiles
\* A skill that is about to be recorded is there.
SkillGoes == (install.step = "skill") => install.of \in skills
InstallsInv ==
  ~crossed => Typed /\ Apart /\ AsRead /\ InstallGoes /\ UninstallGoes /\ SkillGoes /\ Installs!InstalledAgrees

LEMMA InstallsMove ==
  ASSUME part = "installs", [PartsNext]_partsVars
  PROVE  part' = "installs" /\ (Installs!PluginsNext \/ UNCHANGED installs)
BY DEF PartsNext, partsVars, TreeStep, StoreStep, CheckStep, DownloadStep, DeletionStep, RepositoryStep,
       InstallStep, CopyStep, RegistryStep, SettingStep, MirrorStep, FeedStep, EndpointStep, OpeningStep

\* What an installation has that is at one of these steps.
LEMMA InstallIs ==
  ASSUME InstallType
  PROVE  /\ install.step \in Listing \cup Copying => install.of \in Package /\ install.from \in Sources
         /\ install.step = "manifest" => install.saw \in Manifests
         /\ install.step \in {"skill", "again"} => install.of \in Skill
         /\ install.step \in {"rest", "next"} => install.of = "nothing"
         /\ install.step \in Listing \cup Copying \cup {"skill", "again", "next", "rest"}
         /\ install.step # "rest" => install # Installs!Rest
         /\ install.step = "rest" => install = Installs!Rest
<1> USE DEF Listing, Copying, Installs!Rest
<1>1. CASE install = Installs!Rest
  BY <1>1
<1>2. CASE install # Installs!Rest
  BY <1>2 DEF InstallType
<1>3. QED
  BY <1>1, <1>2

\* An installation that goes on.
LEMMA InstallSteps ==
  ASSUME InstallType, install # Installs!Rest, NEW t, NEW n, NEW l, NEW m,
         install' \in {[install EXCEPT !.step = t], [install EXCEPT !.left = l], [install EXCEPT !.step = t, !.of = n],
                       [install EXCEPT !.step = t, !.of = n, !.left = l], [install EXCEPT !.step = t, !.saw = m]}
  PROVE  /\ install' = [x \in DOMAIN install' |-> install'[x]]
         /\ {"step", "of", "from", "left", "saw"} \subseteq DOMAIN install'
         /\ install'.from = install.from /\ install'.from \in Sources
<1>1. /\ install = [x \in DOMAIN install |-> install[x]] /\ {"step", "of", "from", "left", "saw"} \subseteq DOMAIN install
      /\ install.from \in Sources
  BY DEF InstallType
<1>2. QED
  BY <1>1

\* What an entry of a bundle begins.
LEMMA EntryIs ==
  ASSUME InstallType, Installs!NextEntry, ~crossed'
  PROVE  /\ install # Installs!Rest /\ install.step = "next" /\ install.of = "nothing"
         /\ UNCHANGED <<manifest, payload, records, known, adder, uninstall, late, midway>>
         /\ \/ install' = Installs!Rest /\ UNCHANGED skills
            \/ /\ install'.step = "read" /\ install'.of \in Package /\ ~Installs!OnIt(install'.of)
               /\ UNCHANGED skills
            \/ /\ install'.step = "skill" /\ install'.of \in Skill /\ skills' = skills \cup {install'.of}
            \/ /\ install'.step = "again" /\ install'.of \in Skill /\ skills' = skills \ {install'.of}
            \/ /\ install'.step = "next" /\ install'.of = "nothing" /\ UNCHANGED skills
<1>1. install # Installs!Rest /\ install.step = "next" /\ install.of = "nothing"
  BY InstallIs DEF Installs!NextEntry, Installs!Rest
<1>2. UNCHANGED <<manifest, payload, records, known, adder, uninstall, late, midway>>
  BY DEF Installs!NextEntry
<1>3. {"step", "of", "left"} \subseteq DOMAIN install
  BY <1>1 DEF InstallType
<1>4. PICK n \in install.left :
        \/ /\ n \in Package /\ (crossed' <=> crossed \/ Installs!OnIt(n)) /\ UNCHANGED skills
           /\ \/ install' = Installs!Rest
              \/ install' = [install EXCEPT !.step = "read", !.of = n, !.left = @ \ {n}]
        \/ /\ n \in Skill \ skills /\ skills' = skills \cup {n}
           /\ install' = [install EXCEPT !.step = "skill", !.of = n, !.left = @ \ {n}]
        \/ UNCHANGED skills /\ install' = [install EXCEPT !.left = @ \ {n}]
        \/ /\ n \in Skill \cap skills /\ skills' = skills \ {n}
           /\ install' = [install EXCEPT !.step = "again", !.of = n, !.left = @ \ {n}]
  BY DEF Installs!NextEntry
<1>5. \A t : [install EXCEPT !.step = t, !.of = n, !.left = @ \ {n}].step = t
  BY <1>3
<1>6. \A t : [install EXCEPT !.step = t, !.of = n, !.left = @ \ {n}].of = n
  BY <1>3
<1>7. [install EXCEPT !.left = @ \ {n}].step = "next" /\ [install EXCEPT !.left = @ \ {n}].of = "nothing"
  BY <1>1, <1>3
<1>8. QED
  BY <1>1, <1>2, <1>4, <1>5, <1>6, <1>7

\* The steps leave the records of the installation, the addition and the removal in order.
LEMMA InstallTyped ==
  ASSUME InstallsInv, Installs!PluginsNext, ~crossed'
  PROVE  InstallType'
<1>a. ~crossed
  BY DEF Installs!PluginsNext
<1>b. InstallType /\ AdderType /\ UninstallType /\ manifest \in Manifests /\ payload \in [Package -> Files]
  BY <1>a DEF InstallsInv, Typed
<1> USE DEF InstallType
<1>1. ASSUME NEW p \in Package, Installs!install_container_extension(p)
      PROVE  InstallType'
  BY <1>a, <1>b, InstallAssumption, <1>1 DEF Installs!install_container_extension, Installs!Begins, Installs!Installs, Listing, Copying, Sources, Installs!Rest
<1>2. ASSUME NEW p \in Package, Installs!link_repository_extension(p)
      PROVE  InstallType'
  BY <1>a, <1>b, InstallAssumption, <1>2 DEF Installs!link_repository_extension, Installs!Begins, Installs!Installs, Listing, Copying, Sources, Installs!Rest
<1>3. ASSUME NEW p \in Package, Installs!LinkReference(p)
      PROVE  InstallType'
  BY <1>a, <1>b, InstallAssumption, <1>3 DEF Installs!LinkReference, Installs!Begins, Installs!Installs, Listing, Copying, Sources, Installs!Rest
<1>4. ASSUME NEW p \in Package, Installs!container_plugin_add(p)
      PROVE  InstallType'
  BY <1>a, <1>b, InstallAssumption, <1>4 DEF Installs!container_plugin_add, Installs!Begins, Listing, Copying, Sources, Installs!Rest
<1>5. ASSUME NEW p \in Package, Installs!remove_repository_plugin(p)
      PROVE  InstallType'
  BY <1>a, <1>b, InstallAssumption, <1>5 DEF Installs!remove_repository_plugin, Installs!Begins, Listing, Copying, Sources, Installs!Rest
<1>6. ASSUME NEW s \in Skill, Installs!InstallSkill(s)
      PROVE  InstallType'
  BY <1>a, <1>b, InstallAssumption, <1>6 DEF Installs!InstallSkill, Installs!Untouched, Listing, Copying, Sources, Installs!Rest
<1>7. ASSUME NEW pick \in Picks, NEW keep \in BOOLEAN, Installs!install_container_bundle(pick, keep)
      PROVE  InstallType'
  BY <1>a, <1>b, InstallAssumption, <1>7 DEF Installs!install_container_bundle, Listing, Copying, Sources, Installs!Rest
<1>8. CASE Installs!StoresSource
  BY <1>a, <1>b, InstallAssumption, <1>8 DEF Installs!StoresSource, Installs!Steps, Installs!Untouched, Listing, Copying, Sources, Installs!Rest
<1>9. CASE Installs!NextEntry
  <2>1. install # Installs!Rest /\ install.step = "next" /\ install.of = "nothing"
    BY <1>b, <1>9, InstallIs DEF Installs!NextEntry, Installs!Rest
  <2>2. PICK n \in install.left :
          \/ install' = Installs!Rest
          \/ n \in Package /\ install' = [install EXCEPT !.step = "read", !.of = n, !.left = @ \ {n}]
          \/ n \in Skill /\ install' = [install EXCEPT !.step = "skill", !.of = n, !.left = @ \ {n}]
          \/ n \in Skill /\ install' = [install EXCEPT !.step = "again", !.of = n, !.left = @ \ {n}]
          \/ install' = [install EXCEPT !.left = @ \ {n}]
    BY <1>9 DEF Installs!NextEntry
  <2>3. install' # Installs!Rest =>
          /\ install' = [x \in DOMAIN install' |-> install'[x]]
          /\ {"step", "of", "from", "left", "saw"} \subseteq DOMAIN install' /\ install'.from \in Sources
    <3> DEFINE l == install.left \ {n}
    <3>1. ASSUME NEW t, install' = [install EXCEPT !.step = t, !.of = n, !.left = l]
          PROVE  /\ install' = [x \in DOMAIN install' |-> install'[x]]
                 /\ {"step", "of", "from", "left", "saw"} \subseteq DOMAIN install' /\ install'.from \in Sources
      BY <1>b, <2>1, <3>1, InstallSteps
    <3>2. CASE install' = [install EXCEPT !.left = l]
      BY <1>b, <2>1, <3>2, InstallSteps
    <3>3. \/ install' = Installs!Rest
          \/ \E t : install' = [install EXCEPT !.step = t, !.of = n, !.left = l]
          \/ install' = [install EXCEPT !.left = l]
      BY <2>2
    <3>4. QED
      BY <3>1, <3>2, <3>3
  <2>4. install' # Installs!Rest =>
          \/ install'.step = "read" /\ install'.of \in Package
          \/ install'.step \in {"skill", "again"} /\ install'.of \in Skill
          \/ install'.step = "next" /\ install'.of = "nothing"
    BY <1>b, <2>1, <2>2
  <2>5. QED
    BY <2>3, <2>4 DEF Listing
<1>10. CASE Installs!EntriesEnd
  BY <1>a, <1>b, InstallAssumption, <1>10 DEF Installs!EntriesEnd, Installs!Untouched, Listing, Copying, Sources, Installs!Rest
<1>11. CASE Installs!PutAgain
  BY <1>a, <1>b, InstallAssumption, <1>11 DEF Installs!PutAgain, Installs!Steps, Installs!Untouched, Listing, Copying, Sources, Installs!Rest
<1>12. CASE Installs!SkillRecorded
  <2>1. install # Installs!Rest
    BY <1>12 DEF Installs!SkillRecorded, Installs!Rest
  <2>2. install' = Installs!Rest \/ install' = [install EXCEPT !.step = "next", !.of = "nothing"]
    BY <1>12 DEF Installs!SkillRecorded, Installs!After
  <2>3. CASE install' = [install EXCEPT !.step = "next", !.of = "nothing"]
    <3>1. /\ install' = [x \in DOMAIN install' |-> install'[x]]
          /\ {"step", "of", "from", "left", "saw"} \subseteq DOMAIN install' /\ install'.from \in Sources
      BY <1>b, <2>1, <2>3, InstallSteps
    <3>2. install'.step = "next" /\ install'.of = "nothing"
      BY <1>b, <2>1, <2>3 DEF InstallType
    <3>3. QED
      BY <3>1, <3>2
  <2>4. QED
    BY <2>2, <2>3
<1>13. CASE Installs!ReadsManifest
  <2>1. install # Installs!Rest /\ install.step = "read" /\ install.of \in Package
    BY <1>b, <1>13, InstallIs DEF Installs!ReadsManifest, Installs!Rest, Listing
  <2>2. install' = [install EXCEPT !.step = "manifest", !.saw = manifest]
    BY <1>13 DEF Installs!ReadsManifest
  <2>3. /\ install' = [x \in DOMAIN install' |-> install'[x]]
        /\ {"step", "of", "from", "left", "saw"} \subseteq DOMAIN install' /\ install'.from \in Sources
    BY <1>b, <2>1, <2>2, InstallSteps
  <2>4. install'.step = "manifest" /\ install'.of = install.of /\ install'.saw = manifest
    BY <1>b, <2>1, <2>2
  <2>5. QED
    BY <1>b, <2>1, <2>3, <2>4 DEF Listing
<1>14. CASE Installs!WritesManifest
  BY <1>a, <1>b, InstallAssumption, <1>14 DEF Installs!WritesManifest, Installs!Steps, Installs!Untouched, Installs!WritesBack, Installs!Registered, Installs!Others, Listing, Copying, Sources, Installs!Rest
<1>15. CASE Installs!ClearsPayload
  BY <1>a, <1>b, InstallAssumption, <1>15 DEF Installs!ClearsPayload, Installs!Steps, Installs!Untouched, Listing, Copying, Sources, Installs!Rest
<1>16. CASE Installs!CopiesPayload
  BY <1>a, <1>b, InstallAssumption, <1>16 DEF Installs!CopiesPayload, Installs!Steps, Installs!Untouched, Listing, Copying, Sources, Installs!Rest
<1>17. CASE Installs!CopyFails
  BY <1>a, <1>b, InstallAssumption, <1>17 DEF Installs!CopyFails, Installs!Untouched, Listing, Copying, Sources, Installs!Rest
<1>18. CASE Installs!WritesRecord
  <2>1. install # Installs!Rest
    BY <1>18 DEF Installs!WritesRecord, Installs!Rest
  <2>2. install' = Installs!Rest \/ install' = [install EXCEPT !.step = "next", !.of = "nothing"]
    BY <1>18 DEF Installs!WritesRecord, Installs!After
  <2>3. CASE install' = [install EXCEPT !.step = "next", !.of = "nothing"]
    <3>1. /\ install' = [x \in DOMAIN install' |-> install'[x]]
          /\ {"step", "of", "from", "left", "saw"} \subseteq DOMAIN install' /\ install'.from \in Sources
      BY <1>b, <2>1, <2>3, InstallSteps
    <3>2. install'.step = "next" /\ install'.of = "nothing"
      BY <1>b, <2>1, <2>3 DEF InstallType
    <3>3. QED
      BY <3>1, <3>2
  <2>4. QED
    BY <2>2, <2>3
<1>19. CASE Installs!AdderEnds
  BY <1>a, <1>b, InstallAssumption, <1>19 DEF Installs!AdderEnds, Installs!Adds, Installs!AddFails, Installs!Others, Installs!Untouched, Listing, Copying, Sources, Installs!Rest
<1>20. CASE Installs!ReferenceAdded
  BY <1>a, <1>b, InstallAssumption, <1>20 DEF Installs!ReferenceAdded, Installs!Adds, Installs!AddFails, Installs!Others, Installs!Untouched, Installs!Steps, Listing, Copying, Sources, Installs!Rest
<1>21. CASE Installs!Unlists
  BY <1>a, <1>b, InstallAssumption, <1>21 DEF Installs!Unlists, Installs!RemoverSteps, Installs!WritesBack, Installs!Others, Listing, Copying, Sources, Installs!Rest
<1>22. CASE Installs!DeletesPayload
  BY <1>a, <1>b, InstallAssumption, <1>22 DEF Installs!DeletesPayload, Installs!RemoverSteps, Installs!Untouched, Listing, Copying, Sources, Installs!Rest
<1>23. CASE Installs!remove_plugin_record
  BY <1>a, <1>b, InstallAssumption, <1>23 DEF Installs!remove_plugin_record, Installs!Untouched, Listing, Copying, Sources, Installs!Rest
<1>24. CASE Installs!PluginsDie
  BY <1>a, <1>b, InstallAssumption, <1>24 DEF Installs!PluginsDie, Listing, Copying, Sources, Installs!Rest
<1>25. QED
  BY <1>a, <1>1, <1>2, <1>3, <1>4, <1>5, <1>6, <1>7, <1>8, <1>9, <1>10, <1>11, <1>12, <1>13, <1>14, <1>15, <1>16, <1>17, <1>18, <1>19, <1>20, <1>21, <1>22, <1>23, <1>24 DEF Installs!PluginsNext

LEMMA OthersTyped ==
  ASSUME InstallsInv, Installs!PluginsNext, ~crossed'
  PROVE  AdderType' /\ UninstallType'
<1>a. ~crossed
  BY DEF Installs!PluginsNext
<1>b. InstallType /\ AdderType /\ UninstallType /\ manifest \in Manifests /\ payload \in [Package -> Files]
  BY <1>a DEF InstallsInv, Typed
<1> USE DEF AdderType, UninstallType
<1>1. ASSUME NEW p \in Package, Installs!install_container_extension(p)
      PROVE  AdderType' /\ UninstallType'
  BY <1>a, <1>b, <1>1 DEF Installs!install_container_extension, Installs!Begins, Installs!Installs, Installs!Rest
<1>2. ASSUME NEW p \in Package, Installs!link_repository_extension(p)
      PROVE  AdderType' /\ UninstallType'
  BY <1>a, <1>b, <1>2 DEF Installs!link_repository_extension, Installs!Begins, Installs!Installs, Installs!Rest
<1>3. ASSUME NEW p \in Package, Installs!LinkReference(p)
      PROVE  AdderType' /\ UninstallType'
  BY <1>a, <1>b, <1>3 DEF Installs!LinkReference, Installs!Begins, Installs!Installs, Installs!Rest
<1>4. ASSUME NEW p \in Package, Installs!container_plugin_add(p)
      PROVE  AdderType' /\ UninstallType'
  BY <1>a, <1>b, <1>4 DEF Installs!container_plugin_add, Installs!Begins, Installs!Rest
<1>5. ASSUME NEW p \in Package, Installs!remove_repository_plugin(p)
      PROVE  AdderType' /\ UninstallType'
  BY <1>a, <1>b, <1>5 DEF Installs!remove_repository_plugin, Installs!Begins, Installs!Rest
<1>6. ASSUME NEW s \in Skill, Installs!InstallSkill(s)
      PROVE  AdderType' /\ UninstallType'
  BY <1>a, <1>b, <1>6 DEF Installs!InstallSkill, Installs!Untouched, Installs!Rest
<1>7. ASSUME NEW pick \in Picks, NEW keep \in BOOLEAN, Installs!install_container_bundle(pick, keep)
      PROVE  AdderType' /\ UninstallType'
  BY <1>a, <1>b, <1>7 DEF Installs!install_container_bundle, Installs!Rest
<1>8. CASE Installs!StoresSource
  BY <1>a, <1>b, <1>8 DEF Installs!StoresSource, Installs!Steps, Installs!Untouched, Installs!Rest
<1>9. CASE Installs!NextEntry
  BY <1>a, <1>b, <1>9 DEF Installs!NextEntry, Installs!Rest
<1>10. CASE Installs!EntriesEnd
  BY <1>a, <1>b, <1>10 DEF Installs!EntriesEnd, Installs!Untouched, Installs!Rest
<1>11. CASE Installs!PutAgain
  BY <1>a, <1>b, <1>11 DEF Installs!PutAgain, Installs!Steps, Installs!Untouched, Installs!Rest
<1>12. CASE Installs!SkillRecorded
  BY <1>a, <1>b, <1>12 DEF Installs!SkillRecorded, Installs!After, Installs!Untouched, Installs!Rest
<1>13. CASE Installs!ReadsManifest
  BY <1>a, <1>b, <1>13 DEF Installs!ReadsManifest, Installs!ReadsAgain, Installs!Rest
<1>14. CASE Installs!WritesManifest
  BY <1>a, <1>b, <1>14 DEF Installs!WritesManifest, Installs!Steps, Installs!Untouched, Installs!WritesBack, Installs!Registered, Installs!Others, Installs!Rest
<1>15. CASE Installs!ClearsPayload
  BY <1>a, <1>b, <1>15 DEF Installs!ClearsPayload, Installs!Steps, Installs!Untouched, Installs!Rest
<1>16. CASE Installs!CopiesPayload
  BY <1>a, <1>b, <1>16 DEF Installs!CopiesPayload, Installs!Steps, Installs!Untouched, Installs!Rest
<1>17. CASE Installs!CopyFails
  BY <1>a, <1>b, <1>17 DEF Installs!CopyFails, Installs!Untouched, Installs!Rest
<1>18. CASE Installs!WritesRecord
  BY <1>a, <1>b, <1>18 DEF Installs!WritesRecord, Installs!After, Installs!Untouched, Installs!Rest
<1>19. CASE Installs!AdderEnds
  BY <1>a, <1>b, <1>19 DEF Installs!AdderEnds, Installs!Adds, Installs!AddFails, Installs!Others, Installs!Untouched, Installs!Rest
<1>20. CASE Installs!ReferenceAdded
  BY <1>a, <1>b, <1>20 DEF Installs!ReferenceAdded, Installs!Adds, Installs!AddFails, Installs!Others, Installs!Untouched, Installs!Steps, Installs!Rest
<1>21. CASE Installs!Unlists
  BY <1>a, <1>b, <1>21 DEF Installs!Unlists, Installs!RemoverSteps, Installs!WritesBack, Installs!Others, Installs!Rest
<1>22. CASE Installs!DeletesPayload
  BY <1>a, <1>b, <1>22 DEF Installs!DeletesPayload, Installs!RemoverSteps, Installs!Untouched, Installs!Rest
<1>23. CASE Installs!remove_plugin_record
  BY <1>a, <1>b, <1>23 DEF Installs!remove_plugin_record, Installs!Untouched, Installs!Rest
<1>24. CASE Installs!PluginsDie
  BY <1>a, <1>b, <1>24 DEF Installs!PluginsDie, Installs!Rest
<1>25. QED
  BY <1>a, <1>1, <1>2, <1>3, <1>4, <1>5, <1>6, <1>7, <1>8, <1>9, <1>10, <1>11, <1>12, <1>13, <1>14, <1>15, <1>16, <1>17, <1>18, <1>19, <1>20, <1>21, <1>22, <1>23, <1>24 DEF Installs!PluginsNext

\* The manifest lists plugins, and the files come from where plugins come from.
LEMMA ManifestTyped ==
  ASSUME InstallsInv, Installs!PluginsNext, ~crossed'
  PROVE  (manifest \in Manifests /\ payload \in [Package -> Files])'
<1>a. ~crossed
  BY DEF Installs!PluginsNext
<1>b. InstallType /\ AdderType /\ UninstallType /\ manifest \in Manifests /\ payload \in [Package -> Files]
  BY <1>a DEF InstallsInv, Typed
<1> USE DEF Manifests, Files
<1>1. ASSUME NEW p \in Package, Installs!install_container_extension(p)
      PROVE  (manifest \in Manifests /\ payload \in [Package -> Files])'
  BY <1>a, <1>b, <1>1 DEF Installs!install_container_extension, Installs!Begins, Installs!Installs, Installs!Rest
<1>2. ASSUME NEW p \in Package, Installs!link_repository_extension(p)
      PROVE  (manifest \in Manifests /\ payload \in [Package -> Files])'
  BY <1>a, <1>b, <1>2 DEF Installs!link_repository_extension, Installs!Begins, Installs!Installs, Installs!Rest
<1>3. ASSUME NEW p \in Package, Installs!LinkReference(p)
      PROVE  (manifest \in Manifests /\ payload \in [Package -> Files])'
  BY <1>a, <1>b, <1>3 DEF Installs!LinkReference, Installs!Begins, Installs!Installs, Installs!Rest
<1>4. ASSUME NEW p \in Package, Installs!container_plugin_add(p)
      PROVE  (manifest \in Manifests /\ payload \in [Package -> Files])'
  BY <1>a, <1>b, <1>4 DEF Installs!container_plugin_add, Installs!Begins, Installs!Rest
<1>5. ASSUME NEW p \in Package, Installs!remove_repository_plugin(p)
      PROVE  (manifest \in Manifests /\ payload \in [Package -> Files])'
  BY <1>a, <1>b, <1>5 DEF Installs!remove_repository_plugin, Installs!Begins, Installs!Rest
<1>6. ASSUME NEW s \in Skill, Installs!InstallSkill(s)
      PROVE  (manifest \in Manifests /\ payload \in [Package -> Files])'
  BY <1>a, <1>b, <1>6 DEF Installs!InstallSkill, Installs!Untouched, Installs!Rest
<1>7. ASSUME NEW pick \in Picks, NEW keep \in BOOLEAN, Installs!install_container_bundle(pick, keep)
      PROVE  (manifest \in Manifests /\ payload \in [Package -> Files])'
  BY <1>a, <1>b, <1>7 DEF Installs!install_container_bundle, Installs!Rest
<1>8. CASE Installs!StoresSource
  BY <1>a, <1>b, <1>8 DEF Installs!StoresSource, Installs!Steps, Installs!Untouched, Installs!Rest
<1>9. CASE Installs!NextEntry
  BY <1>a, <1>b, <1>9 DEF Installs!NextEntry, Installs!Rest
<1>10. CASE Installs!EntriesEnd
  BY <1>a, <1>b, <1>10 DEF Installs!EntriesEnd, Installs!Untouched, Installs!Rest
<1>11. CASE Installs!PutAgain
  BY <1>a, <1>b, <1>11 DEF Installs!PutAgain, Installs!Steps, Installs!Untouched, Installs!Rest
<1>12. CASE Installs!SkillRecorded
  BY <1>a, <1>b, <1>12 DEF Installs!SkillRecorded, Installs!After, Installs!Untouched, Installs!Rest
<1>13. CASE Installs!ReadsManifest
  BY <1>a, <1>b, <1>13 DEF Installs!ReadsManifest, Installs!ReadsAgain, Installs!Rest
<1>14. CASE Installs!WritesManifest
  <2>1. install.of \in Package /\ install.from \in Sources
    BY <1>b, <1>14, InstallIs DEF Installs!WritesManifest, Listing, Copying
  <2>2. payload' = payload /\ (manifest' = manifest \/ manifest' = Installs!Registered(install.saw, install.of))
    BY <1>14 DEF Installs!WritesManifest
  <2>3. install.saw \in Manifests
    BY <1>b, <1>14, InstallIs DEF Installs!WritesManifest
  <2>4. Installs!Registered(install.saw, install.of) \in Manifests
    BY <2>1, <2>3 DEF Installs!Registered
  <2>5. QED
    BY <1>b, <2>2, <2>4
<1>15. CASE Installs!ClearsPayload
  BY <1>a, <1>b, <1>15 DEF Installs!ClearsPayload, Installs!Steps, Installs!Untouched, Installs!Rest
<1>16. CASE Installs!CopiesPayload
  <2>1. install.of \in Package /\ install.from \in Sources
    BY <1>b, <1>16, InstallIs DEF Installs!CopiesPayload, Listing, Copying
  <2>2. manifest' = manifest /\ payload' = [payload EXCEPT ![install.of] = install.from]
    BY <1>16 DEF Installs!CopiesPayload
  <2>3. QED
    BY <1>b, <2>1, <2>2
<1>17. CASE Installs!CopyFails
  BY <1>a, <1>b, <1>17 DEF Installs!CopyFails, Installs!Untouched, Installs!Rest
<1>18. CASE Installs!WritesRecord
  BY <1>a, <1>b, <1>18 DEF Installs!WritesRecord, Installs!After, Installs!Untouched, Installs!Rest
<1>19. CASE Installs!AdderEnds
  <2>1. PICK p \in Package : Installs!Adds("adder", p) \/ Installs!AddFails(p)
    BY <1>b, <1>19, InstallIs DEF Installs!AdderEnds, AdderType, Listing, Installs!Rest
  <2>2. CASE Installs!Adds("adder", p)
    BY <1>b, <2>2 DEF Installs!Adds, Sources
  <2>3. CASE Installs!AddFails(p)
    BY <1>b, <2>3 DEF Installs!AddFails
  <2>4. QED
    BY <2>1, <2>2, <2>3
<1>20. CASE Installs!ReferenceAdded
  <2>1. PICK p \in Package : Installs!Adds("task", p) \/ Installs!AddFails(p)
    BY <1>b, <1>20, InstallIs DEF Installs!ReferenceAdded, AdderType, Listing, Installs!Rest
  <2>2. CASE Installs!Adds("task", p)
    BY <1>b, <2>2 DEF Installs!Adds, Sources
  <2>3. CASE Installs!AddFails(p)
    BY <1>b, <2>3 DEF Installs!AddFails
  <2>4. QED
    BY <2>1, <2>2, <2>3
<1>21. CASE Installs!Unlists
  <2>0. "remover" \notin late /\ uninstall.step = "manifest"
    BY <1>21 DEF Installs!Unlists, Installs!WritesBack
  <2>1. uninstall.of \in Package /\ uninstall.saw = manifest
    BY <1>a, <1>b, <2>0 DEF UninstallType, Installs!Rest, InstallsInv, AsRead
  <2>2. payload' = payload
    BY <1>21 DEF Installs!Unlists
  <2>3. manifest' = [listed |-> manifest.listed \ {uninstall.of}, deps |-> [manifest.deps EXCEPT ![uninstall.of] = "none"]]
    BY <2>1, <1>21 DEF Installs!Unlists
  <2>4. QED
    BY <1>b, <2>1, <2>2, <2>3
<1>22. CASE Installs!DeletesPayload
  BY <1>a, <1>b, <1>22 DEF Installs!DeletesPayload, Installs!RemoverSteps, Installs!Untouched, Installs!Rest
<1>23. CASE Installs!remove_plugin_record
  BY <1>a, <1>b, <1>23 DEF Installs!remove_plugin_record, Installs!Untouched, Installs!Rest
<1>24. CASE Installs!PluginsDie
  BY <1>a, <1>b, <1>24 DEF Installs!PluginsDie, Installs!Rest
<1>25. QED
  BY <1>a, <1>1, <1>2, <1>3, <1>4, <1>5, <1>6, <1>7, <1>8, <1>9, <1>10, <1>11, <1>12, <1>13, <1>14, <1>15, <1>16, <1>17, <1>18, <1>19, <1>20, <1>21, <1>22, <1>23, <1>24 DEF Installs!PluginsNext

\* Nobody begins with the plugin of another, as long as nobody overlaps.
LEMMA ApartStays ==
  ASSUME InstallsInv, Installs!PluginsNext, ~crossed'
  PROVE  Apart'
<1>a. ~crossed
  BY DEF Installs!PluginsNext
<1>b. InstallType /\ AdderType /\ UninstallType /\ manifest \in Manifests /\ payload \in [Package -> Files]
  BY <1>a DEF InstallsInv, Typed
<1>c. InstallType' /\ AdderType' /\ UninstallType' /\ (manifest \in Manifests /\ payload \in [Package -> Files])'
  BY InstallTyped, OthersTyped, ManifestTyped
<1>d. Apart
  BY <1>a DEF InstallsInv
<1> USE DEF Apart
<1>1. ASSUME NEW p \in Package, Installs!install_container_extension(p)
      PROVE  Apart'
  BY <1>a, <1>b, <1>c, <1>d, InstallAssumption, InstallIs, <1>1 DEF Installs!install_container_extension, Installs!Begins, Installs!Installs, Installs!Rest, AdderType, UninstallType, Installs!OnIt, Listing, Copying
<1>2. ASSUME NEW p \in Package, Installs!link_repository_extension(p)
      PROVE  Apart'
  BY <1>a, <1>b, <1>c, <1>d, InstallAssumption, InstallIs, <1>2 DEF Installs!link_repository_extension, Installs!Begins, Installs!Installs, Installs!Rest, AdderType, UninstallType, Installs!OnIt, Listing, Copying
<1>3. ASSUME NEW p \in Package, Installs!LinkReference(p)
      PROVE  Apart'
  BY <1>a, <1>b, <1>c, <1>d, InstallAssumption, InstallIs, <1>3 DEF Installs!LinkReference, Installs!Begins, Installs!Installs, Installs!Rest, AdderType, UninstallType, Installs!OnIt, Listing, Copying
<1>4. ASSUME NEW p \in Package, Installs!container_plugin_add(p)
      PROVE  Apart'
  BY <1>a, <1>b, <1>c, <1>d, InstallAssumption, InstallIs, <1>4 DEF Installs!container_plugin_add, Installs!Begins, Installs!Rest, AdderType, UninstallType, Installs!OnIt, Listing, Copying
<1>5. ASSUME NEW p \in Package, Installs!remove_repository_plugin(p)
      PROVE  Apart'
  BY <1>a, <1>b, <1>c, <1>d, InstallAssumption, InstallIs, <1>5 DEF Installs!remove_repository_plugin, Installs!Begins, Installs!Rest, AdderType, UninstallType, Installs!OnIt, Listing, Copying
<1>6. ASSUME NEW s \in Skill, Installs!InstallSkill(s)
      PROVE  Apart'
  BY <1>a, <1>b, <1>c, <1>d, InstallAssumption, InstallIs, <1>6 DEF Installs!InstallSkill, Installs!Untouched, Installs!Rest, AdderType, UninstallType, Installs!OnIt, Listing, Copying
<1>7. ASSUME NEW pick \in Picks, NEW keep \in BOOLEAN, Installs!install_container_bundle(pick, keep)
      PROVE  Apart'
  BY <1>a, <1>b, <1>c, <1>d, InstallAssumption, InstallIs, <1>7 DEF Installs!install_container_bundle, Installs!Rest, AdderType, UninstallType, Installs!OnIt, Listing, Copying
<1>8. CASE Installs!StoresSource
  BY <1>a, <1>b, <1>c, <1>d, InstallAssumption, InstallIs, <1>8 DEF Installs!StoresSource, Installs!Steps, Installs!Untouched, Installs!Rest, AdderType, UninstallType, Installs!OnIt, Listing, Copying
<1>9. CASE Installs!NextEntry
  BY <1>b, <1>c, <1>d, <1>9, EntryIs, InstallAssumption DEF Installs!OnIt, Installs!Rest
<1>10. CASE Installs!EntriesEnd
  BY <1>a, <1>b, <1>c, <1>d, InstallAssumption, InstallIs, <1>10 DEF Installs!EntriesEnd, Installs!Untouched, Installs!Rest, AdderType, UninstallType, Installs!OnIt, Listing, Copying
<1>11. CASE Installs!PutAgain
  BY <1>a, <1>b, <1>c, <1>d, InstallAssumption, InstallIs, <1>11 DEF Installs!PutAgain, Installs!Steps, Installs!Untouched, Installs!Rest, AdderType, UninstallType, Installs!OnIt, Listing, Copying
<1>12. CASE Installs!SkillRecorded
  BY <1>a, <1>b, <1>c, <1>d, InstallAssumption, InstallIs, <1>12 DEF Installs!SkillRecorded, Installs!After, Installs!Untouched, Installs!Rest, AdderType, UninstallType, Installs!OnIt, Listing, Copying
<1>13. CASE Installs!ReadsManifest
  BY <1>a, <1>b, <1>c, <1>d, InstallAssumption, InstallIs, <1>13 DEF Installs!ReadsManifest, Installs!ReadsAgain, Installs!Rest, AdderType, UninstallType, Installs!OnIt, Listing, Copying
<1>14. CASE Installs!WritesManifest
  BY <1>a, <1>b, <1>c, <1>d, InstallAssumption, InstallIs, <1>14 DEF Installs!WritesManifest, Installs!Steps, Installs!Untouched, Installs!WritesBack, Installs!Registered, Installs!Others, Installs!Rest, AdderType, UninstallType, Installs!OnIt, Listing, Copying
<1>15. CASE Installs!ClearsPayload
  BY <1>a, <1>b, <1>c, <1>d, InstallAssumption, InstallIs, <1>15 DEF Installs!ClearsPayload, Installs!Steps, Installs!Untouched, Installs!Rest, AdderType, UninstallType, Installs!OnIt, Listing, Copying
<1>16. CASE Installs!CopiesPayload
  BY <1>a, <1>b, <1>c, <1>d, InstallAssumption, InstallIs, <1>16 DEF Installs!CopiesPayload, Installs!Steps, Installs!Untouched, Installs!Rest, AdderType, UninstallType, Installs!OnIt, Listing, Copying
<1>17. CASE Installs!CopyFails
  BY <1>a, <1>b, <1>c, <1>d, InstallAssumption, InstallIs, <1>17 DEF Installs!CopyFails, Installs!Untouched, Installs!Rest, AdderType, UninstallType, Installs!OnIt, Listing, Copying
<1>18. CASE Installs!WritesRecord
  BY <1>a, <1>b, <1>c, <1>d, InstallAssumption, InstallIs, <1>18 DEF Installs!WritesRecord, Installs!After, Installs!Untouched, Installs!Rest, AdderType, UninstallType, Installs!OnIt, Listing, Copying
<1>19. CASE Installs!AdderEnds
  BY <1>a, <1>b, <1>c, <1>d, InstallAssumption, InstallIs, <1>19 DEF Installs!AdderEnds, Installs!Adds, Installs!AddFails, Installs!Others, Installs!Untouched, Installs!Rest, AdderType, UninstallType, Installs!OnIt, Listing, Copying
<1>20. CASE Installs!ReferenceAdded
  <2>1. install.of \in Package /\ install # Installs!Rest
    BY <1>b, <1>20, InstallIs DEF Installs!ReferenceAdded, Listing, Installs!Rest
  <2>2. install' = [install EXCEPT !.step = "record"] \/ install' = Installs!Rest
    BY <1>20 DEF Installs!ReferenceAdded, Installs!Steps
  <2>3. install'.of \in {install.of, "nothing"}
    BY <1>b, <2>1, <2>2 DEF InstallType, Installs!Rest
  <2>4. UNCHANGED <<adder, uninstall>>
    BY <1>20 DEF Installs!ReferenceAdded
  <2>5. QED
    BY <1>d, <2>1, <2>3, <2>4, InstallAssumption
<1>21. CASE Installs!Unlists
  BY <1>a, <1>b, <1>c, <1>d, InstallAssumption, InstallIs, <1>21 DEF Installs!Unlists, Installs!RemoverSteps, Installs!WritesBack, Installs!Others, Installs!Rest, AdderType, UninstallType, Installs!OnIt, Listing, Copying
<1>22. CASE Installs!DeletesPayload
  BY <1>a, <1>b, <1>c, <1>d, InstallAssumption, InstallIs, <1>22 DEF Installs!DeletesPayload, Installs!RemoverSteps, Installs!Untouched, Installs!Rest, AdderType, UninstallType, Installs!OnIt, Listing, Copying
<1>23. CASE Installs!remove_plugin_record
  BY <1>a, <1>b, <1>c, <1>d, InstallAssumption, InstallIs, <1>23 DEF Installs!remove_plugin_record, Installs!Untouched, Installs!Rest, AdderType, UninstallType, Installs!OnIt, Listing, Copying
<1>24. CASE Installs!PluginsDie
  BY <1>a, <1>b, <1>c, <1>d, InstallAssumption, InstallIs, <1>24 DEF Installs!PluginsDie, Installs!Rest, AdderType, UninstallType, Installs!OnIt, Listing, Copying
<1>25. QED
  BY <1>a, <1>1, <1>2, <1>3, <1>4, <1>5, <1>6, <1>7, <1>8, <1>9, <1>10, <1>11, <1>12, <1>13, <1>14, <1>15, <1>16, <1>17, <1>18, <1>19, <1>20, <1>21, <1>22, <1>23, <1>24 DEF Installs!PluginsNext

\* A manifest that was read stays as it was read, for the plugin of its reader at least.
LEMMA AsReadStays ==
  ASSUME InstallsInv, Installs!PluginsNext, ~crossed'
  PROVE  AsRead'
<1>a. ~crossed
  BY DEF Installs!PluginsNext
<1>b. InstallType /\ AdderType /\ UninstallType /\ manifest \in Manifests /\ payload \in [Package -> Files]
  BY <1>a DEF InstallsInv, Typed
<1>c. InstallType' /\ AdderType' /\ UninstallType' /\ (manifest \in Manifests /\ payload \in [Package -> Files])'
  BY InstallTyped, OthersTyped, ManifestTyped
<1>d. Apart
  BY <1>a DEF InstallsInv
<1>e. Apart' /\ AsRead
  BY <1>a, ApartStays DEF InstallsInv
<1> USE DEF AsRead, Manifests
<1>1. ASSUME NEW p \in Package, Installs!install_container_extension(p)
      PROVE  AsRead'
  BY <1>a, <1>b, <1>d, <1>e, InstallAssumption, InstallIs, <1>1 DEF Installs!install_container_extension, Installs!Begins, Installs!Installs, Installs!Rest, AdderType, UninstallType, Apart, Listing, Copying
<1>2. ASSUME NEW p \in Package, Installs!link_repository_extension(p)
      PROVE  AsRead'
  BY <1>a, <1>b, <1>d, <1>e, InstallAssumption, InstallIs, <1>2 DEF Installs!link_repository_extension, Installs!Begins, Installs!Installs, Installs!Rest, AdderType, UninstallType, Apart, Listing, Copying
<1>3. ASSUME NEW p \in Package, Installs!LinkReference(p)
      PROVE  AsRead'
  BY <1>a, <1>b, <1>d, <1>e, InstallAssumption, InstallIs, <1>3 DEF Installs!LinkReference, Installs!Begins, Installs!Installs, Installs!Rest, AdderType, UninstallType, Apart, Listing, Copying
<1>4. ASSUME NEW p \in Package, Installs!container_plugin_add(p)
      PROVE  AsRead'
  BY <1>a, <1>b, <1>d, <1>e, InstallAssumption, InstallIs, <1>4 DEF Installs!container_plugin_add, Installs!Begins, Installs!Rest, AdderType, UninstallType, Apart, Listing, Copying
<1>5. ASSUME NEW p \in Package, Installs!remove_repository_plugin(p)
      PROVE  AsRead'
  BY <1>a, <1>b, <1>d, <1>e, InstallAssumption, InstallIs, <1>5 DEF Installs!remove_repository_plugin, Installs!Begins, Installs!Rest, AdderType, UninstallType, Apart, Listing, Copying
<1>6. ASSUME NEW s \in Skill, Installs!InstallSkill(s)
      PROVE  AsRead'
  BY <1>a, <1>b, <1>d, <1>e, InstallAssumption, InstallIs, <1>6 DEF Installs!InstallSkill, Installs!Untouched, Installs!Rest, AdderType, UninstallType, Apart, Listing, Copying
<1>7. ASSUME NEW pick \in Picks, NEW keep \in BOOLEAN, Installs!install_container_bundle(pick, keep)
      PROVE  AsRead'
  BY <1>a, <1>b, <1>d, <1>e, InstallAssumption, InstallIs, <1>7 DEF Installs!install_container_bundle, Installs!Rest, AdderType, UninstallType, Apart, Listing, Copying
<1>8. CASE Installs!StoresSource
  BY <1>a, <1>b, <1>d, <1>e, InstallAssumption, InstallIs, <1>8 DEF Installs!StoresSource, Installs!Steps, Installs!Untouched, Installs!Rest, AdderType, UninstallType, Apart, Listing, Copying
<1>9. CASE Installs!NextEntry
  BY <1>b, <1>e, <1>9, EntryIs DEF Installs!Rest
<1>10. CASE Installs!EntriesEnd
  BY <1>a, <1>b, <1>d, <1>e, InstallAssumption, InstallIs, <1>10 DEF Installs!EntriesEnd, Installs!Untouched, Installs!Rest, AdderType, UninstallType, Apart, Listing, Copying
<1>11. CASE Installs!PutAgain
  BY <1>a, <1>b, <1>d, <1>e, InstallAssumption, InstallIs, <1>11 DEF Installs!PutAgain, Installs!Steps, Installs!Untouched, Installs!Rest, AdderType, UninstallType, Apart, Listing, Copying
<1>12. CASE Installs!SkillRecorded
  BY <1>a, <1>b, <1>d, <1>e, InstallAssumption, InstallIs, <1>12 DEF Installs!SkillRecorded, Installs!After, Installs!Untouched, Installs!Rest, AdderType, UninstallType, Apart, Listing, Copying
<1>13. CASE Installs!ReadsManifest
  BY <1>a, <1>b, <1>d, <1>e, InstallAssumption, InstallIs, <1>13 DEF Installs!ReadsManifest, Installs!ReadsAgain, Installs!Rest, AdderType, UninstallType, Apart, Listing, Copying
<1>14. CASE Installs!WritesManifest
  BY <1>a, <1>b, <1>d, <1>e, InstallAssumption, InstallIs, <1>14 DEF Installs!WritesManifest, Installs!Steps, Installs!Untouched, Installs!WritesBack, Installs!Registered, Installs!Others, Installs!Rest, AdderType, UninstallType, Apart, Listing, Copying
<1>15. CASE Installs!ClearsPayload
  BY <1>a, <1>b, <1>d, <1>e, InstallAssumption, InstallIs, <1>15 DEF Installs!ClearsPayload, Installs!Steps, Installs!Untouched, Installs!Rest, AdderType, UninstallType, Apart, Listing, Copying
<1>16. CASE Installs!CopiesPayload
  BY <1>a, <1>b, <1>d, <1>e, InstallAssumption, InstallIs, <1>16 DEF Installs!CopiesPayload, Installs!Steps, Installs!Untouched, Installs!Rest, AdderType, UninstallType, Apart, Listing, Copying
<1>17. CASE Installs!CopyFails
  BY <1>a, <1>b, <1>d, <1>e, InstallAssumption, InstallIs, <1>17 DEF Installs!CopyFails, Installs!Untouched, Installs!Rest, AdderType, UninstallType, Apart, Listing, Copying
<1>18. CASE Installs!WritesRecord
  BY <1>a, <1>b, <1>d, <1>e, InstallAssumption, InstallIs, <1>18 DEF Installs!WritesRecord, Installs!After, Installs!Untouched, Installs!Rest, AdderType, UninstallType, Apart, Listing, Copying
<1>19. CASE Installs!AdderEnds
  <2>1. PICK p \in Package : (Installs!Adds("adder", p) \/ Installs!AddFails(p)) /\ adder.of = p
    BY <1>b, <1>19, InstallIs DEF Installs!AdderEnds, AdderType, Listing, Installs!Rest
  <2>2. UNCHANGED <<install, uninstall>>
    BY <1>19 DEF Installs!AdderEnds
  <2>3. install' = install
    BY <1>b, <1>19, InstallIs DEF Installs!AdderEnds, Installs!Rest, Installs!Steps, InstallType
  <2>4. CASE Installs!Adds("adder", p)
    <3>1. late' = Installs!Others("adder")
      BY <2>4 DEF Installs!Adds
    <3>2. p \notin {install.of, uninstall.of}
      BY <1>d, <2>1 DEF Apart
    <3>3. \A q \in Package \ {p} : (q \in manifest.listed <=> q \in manifest'.listed) /\ manifest'.deps[q] = manifest.deps[q]
      BY <1>b, <2>4 DEF Installs!Adds
    <3>4. QED
      BY <1>b, <1>e, <2>1, <2>2, <2>3, <3>1, <3>2, <3>3, InstallIs, InstallAssumption DEF Installs!Others, Installs!Rest, UninstallType, Listing
  <2>5. CASE Installs!AddFails(p)
    BY <1>e, <2>2, <2>3, <2>5 DEF Installs!AddFails, Installs!Untouched
  <2>6. QED
    BY <2>1, <2>4, <2>5
<1>20. CASE Installs!ReferenceAdded
  <2>1. PICK p \in Package : (Installs!Adds("task", p) \/ Installs!AddFails(p)) /\ install.of = p
    BY <1>b, <1>20, InstallIs DEF Installs!ReferenceAdded, AdderType, Listing, Installs!Rest
  <2>2. UNCHANGED uninstall
    BY <1>20 DEF Installs!ReferenceAdded
  <2>3. install'.step # "manifest" 
    BY <1>b, <1>20, InstallIs DEF Installs!ReferenceAdded, Installs!Rest, Installs!Steps, InstallType
  <2>4. CASE Installs!Adds("task", p)
    <3>1. late' = Installs!Others("task")
      BY <2>4 DEF Installs!Adds
    <3>2. p \notin {uninstall.of}
      BY <1>d, <2>1 DEF Apart
    <3>3. \A q \in Package \ {p} : (q \in manifest.listed <=> q \in manifest'.listed) /\ manifest'.deps[q] = manifest.deps[q]
      BY <1>b, <2>4 DEF Installs!Adds
    <3>4. QED
      BY <1>b, <1>e, <2>1, <2>2, <2>3, <3>1, <3>2, <3>3, InstallIs, InstallAssumption DEF Installs!Others, Installs!Rest, UninstallType, Listing
  <2>5. CASE Installs!AddFails(p)
    BY <1>e, <2>2, <2>3, <2>5 DEF Installs!AddFails, Installs!Untouched
  <2>6. QED
    BY <2>1, <2>4, <2>5
<1>21. CASE Installs!Unlists
  <2>0. "remover" \notin late /\ uninstall.step = "manifest" /\ late' = Installs!Others("remover") /\ install' = install
    BY <1>21 DEF Installs!Unlists, Installs!WritesBack
  <2>1. uninstall.of \in Package /\ uninstall.saw = manifest
    BY <1>b, <1>e, <2>0 DEF UninstallType, Installs!Rest, AsRead
  <2>2. uninstall'.step # "manifest"
    BY <1>b, <2>0, <1>21 DEF Installs!Unlists, Installs!RemoverSteps, UninstallType, Installs!Rest
  <2>3. manifest' = [listed |-> manifest.listed \ {uninstall.of}, deps |-> [manifest.deps EXCEPT ![uninstall.of] = "none"]]
    BY <2>1, <1>21 DEF Installs!Unlists
  <2>4. \A q \in Package \ {uninstall.of} :
          (q \in manifest.listed <=> q \in manifest'.listed) /\ manifest'.deps[q] = manifest.deps[q]
    BY <1>b, <2>1, <2>3
  <2>5. install.step = "manifest" => install.of \in Package \ {uninstall.of} /\ install # Installs!Rest
    BY <1>b, <1>d, InstallIs DEF Listing, Apart, Installs!Rest
  <2>6. QED
    BY <1>e, <2>0, <2>2, <2>4, <2>5 DEF Installs!Others
<1>22. CASE Installs!DeletesPayload
  BY <1>a, <1>b, <1>d, <1>e, InstallAssumption, InstallIs, <1>22 DEF Installs!DeletesPayload, Installs!RemoverSteps, Installs!Untouched, Installs!Rest, AdderType, UninstallType, Apart, Listing, Copying
<1>23. CASE Installs!remove_plugin_record
  BY <1>a, <1>b, <1>d, <1>e, InstallAssumption, InstallIs, <1>23 DEF Installs!remove_plugin_record, Installs!Untouched, Installs!Rest, AdderType, UninstallType, Apart, Listing, Copying
<1>24. CASE Installs!PluginsDie
  BY <1>a, <1>b, <1>d, <1>e, InstallAssumption, InstallIs, <1>24 DEF Installs!PluginsDie, Installs!Rest, AdderType, UninstallType, Apart, Listing, Copying
<1>25. QED
  BY <1>a, <1>1, <1>2, <1>3, <1>4, <1>5, <1>6, <1>7, <1>8, <1>9, <1>10, <1>11, <1>12, <1>13, <1>14, <1>15, <1>16, <1>17, <1>18, <1>19, <1>20, <1>21, <1>22, <1>23, <1>24 DEF Installs!PluginsNext

\* A plugin that is listed, and the others stay as they were.
LEMMA WritesIs ==
  ASSUME InstallsInv, Installs!WritesManifest, ~crossed, ~crossed'
  PROVE  /\ install.of \in Package /\ install.step = "manifest"
         /\ install'.step = "clear" /\ install'.of = install.of
         /\ install.of \in manifest'.listed /\ manifest'.deps[install.of] # "star"
         /\ \A q \in Package \ {install.of} :
              (q \in manifest.listed <=> q \in manifest'.listed) /\ manifest'.deps[q] = manifest.deps[q]
<1>1. InstallType /\ manifest \in Manifests /\ AsRead
  BY DEF InstallsInv, Typed
<1>2. install.step = "manifest" /\ install' = [install EXCEPT !.step = "clear"]
  BY DEF Installs!WritesManifest, Installs!Steps
<1>3. install.of \in Package /\ install.saw \in Manifests /\ install # Installs!Rest
  BY <1>1, <1>2, InstallIs DEF Listing
<1>4. install'.step = "clear" /\ install'.of = install.of
  BY <1>1, <1>2, <1>3 DEF InstallType
<1> DEFINE new == Installs!Registered(install.saw, install.of)
<1>5. /\ install.of \in new.listed /\ new.deps[install.of] # "star" /\ new.deps \in [Package -> {"none", "star", "spec"}]
      /\ \A q \in Package \ {install.of} : (q \in new.listed <=> q \in install.saw.listed) /\ new.deps[q] = install.saw.deps[q]
  BY <1>3 DEF Manifests, Installs!Registered
<1>6. \/ new = install.saw /\ UNCHANGED manifest
      \/ "task" \notin late /\ manifest' = new
  BY DEF Installs!WritesManifest, Installs!WritesBack, Installs!Untouched
<1> HIDE DEF new
<1>7. CASE new = install.saw /\ UNCHANGED manifest
  BY <1>1, <1>2, <1>3, <1>4, <1>5, <1>7 DEF AsRead
<1>8. CASE "task" \notin late /\ manifest' = new
  <2>1. install.saw = manifest
    BY <1>1, <1>2, <1>8 DEF AsRead
  <2>2. QED
    BY <1>2, <1>3, <1>4, <1>5, <1>8, <2>1
<1>9. QED
  BY <1>6, <1>7, <1>8

\* A package that pnpm has added, or has not.
LEMMA AddedIs ==
  ASSUME manifest \in Manifests, payload \in [Package -> Files], NEW w, NEW p \in Package, Installs!Adds(w, p)
  PROVE  /\ p \in manifest'.listed /\ manifest'.deps[p] = "spec" /\ payload'[p] = "registry" /\ midway' = midway \ {p}
         /\ \A q \in Package \ {p} :
              /\ (q \in manifest.listed <=> q \in manifest'.listed) /\ manifest'.deps[q] = manifest.deps[q]
              /\ payload'[q] = payload[q]
BY DEF Installs!Adds, Manifests
LEMMA AddFailedIs ==
  ASSUME payload \in [Package -> Files], NEW p \in Package, Installs!AddFails(p)
  PROVE  /\ manifest' = manifest /\ midway' = midway \cup {p}
         /\ \A q \in Package \ {p} : payload'[q] = payload[q]
BY DEF Installs!AddFails
\* A package of the repository that pnpm adds.
LEMMA ReferenceIs ==
  ASSUME InstallType, Installs!ReferenceAdded
  PROVE  /\ install.of \in Package /\ install.step = "pnpm" /\ UNCHANGED <<records, skills, known, adder, uninstall>>
         /\ \/ Installs!Adds("task", install.of) /\ install'.step = "record" /\ install'.of = install.of
            \/ Installs!AddFails(install.of) /\ install' = Installs!Rest
<1>1. install.step = "pnpm" /\ install.of \in Package /\ install # Installs!Rest
  BY InstallIs DEF Installs!ReferenceAdded, Listing, Installs!Rest
<1>2. /\ UNCHANGED <<records, skills, known, adder, uninstall>>
      /\ \/ Installs!Adds("task", install.of) /\ install' = [install EXCEPT !.step = "record"]
         \/ Installs!AddFails(install.of) /\ install' = Installs!Rest
  BY DEF Installs!ReferenceAdded, Installs!Steps
<1>3. [install EXCEPT !.step = "record"].step = "record" /\ [install EXCEPT !.step = "record"].of = install.of
  BY <1>1 DEF InstallType
<1>4. QED
  BY <1>1, <1>2, <1>3

\* A plugin that is listed no more.
LEMMA UnlistsIs ==
  ASSUME InstallsInv, Installs!Unlists, ~crossed, ~crossed'
  PROVE  /\ uninstall.of \in Package /\ uninstall.step = "manifest"
         /\ uninstall'.step = "delete" /\ uninstall'.of = uninstall.of
         /\ UNCHANGED <<payload, records, skills, known, install, adder, midway>>
         /\ uninstall.of \notin manifest'.listed
         /\ \A q \in Package \ {uninstall.of} :
              (q \in manifest.listed <=> q \in manifest'.listed) /\ manifest'.deps[q] = manifest.deps[q]
<1>1. "remover" \notin late /\ uninstall.step = "manifest" /\ UNCHANGED <<payload, records, skills, known, install, adder, midway>>
  BY DEF Installs!Unlists, Installs!WritesBack
<1>2. uninstall.of \in Package /\ uninstall.saw = manifest /\ manifest \in Manifests
  BY <1>1 DEF UninstallType, Installs!Rest, InstallsInv, AsRead, Typed
<1>3. uninstall'.step = "delete" /\ uninstall'.of = uninstall.of
  BY <1>1 DEF Installs!Unlists, Installs!RemoverSteps, UninstallType, Installs!Rest, InstallsInv, Typed
<1>4. manifest' = [listed |-> manifest.listed \ {uninstall.of}, deps |-> [manifest.deps EXCEPT ![uninstall.of] = "none"]]
  BY <1>2 DEF Installs!Unlists
<1>5. QED
  BY <1>1, <1>2, <1>3, <1>4 DEF Manifests

\* A plugin that is being copied is listed, and one about to be recorded has its files.
LEMMA InstallGoesOn ==
  ASSUME InstallsInv, Installs!PluginsNext, ~crossed'
  PROVE  InstallGoes'
<1>a. ~crossed
  BY DEF Installs!PluginsNext
<1>b. InstallType /\ AdderType /\ UninstallType /\ manifest \in Manifests /\ payload \in [Package -> Files]
  BY <1>a DEF InstallsInv, Typed
<1>c. InstallType' /\ AdderType' /\ UninstallType' /\ (manifest \in Manifests /\ payload \in [Package -> Files])'
  BY InstallTyped, OthersTyped, ManifestTyped
<1>d. Apart
  BY <1>a DEF InstallsInv
<1>e. Apart' /\ AsRead /\ AsRead'
  BY <1>a, ApartStays, AsReadStays DEF InstallsInv
<1>f. InstallGoes /\ UninstallGoes /\ SkillGoes
  BY <1>a DEF InstallsInv
<1> USE DEF InstallGoes
<1>1. ASSUME NEW p \in Package, Installs!install_container_extension(p)
      PROVE  InstallGoes'
  BY <1>a, <1>b, <1>d, <1>f, InstallAssumption, InstallIs, <1>1 DEF Installs!install_container_extension, Installs!Begins, Installs!Installs, Installs!Rest, AdderType, UninstallType, Apart, Listing, Copying, Manifests
<1>2. ASSUME NEW p \in Package, Installs!link_repository_extension(p)
      PROVE  InstallGoes'
  BY <1>a, <1>b, <1>d, <1>f, InstallAssumption, InstallIs, <1>2 DEF Installs!link_repository_extension, Installs!Begins, Installs!Installs, Installs!Rest, AdderType, UninstallType, Apart, Listing, Copying, Manifests
<1>3. ASSUME NEW p \in Package, Installs!LinkReference(p)
      PROVE  InstallGoes'
  BY <1>a, <1>b, <1>d, <1>f, InstallAssumption, InstallIs, <1>3 DEF Installs!LinkReference, Installs!Begins, Installs!Installs, Installs!Rest, AdderType, UninstallType, Apart, Listing, Copying, Manifests
<1>4. ASSUME NEW p \in Package, Installs!container_plugin_add(p)
      PROVE  InstallGoes'
  BY <1>a, <1>b, <1>d, <1>f, InstallAssumption, InstallIs, <1>4 DEF Installs!container_plugin_add, Installs!Begins, Installs!Rest, AdderType, UninstallType, Apart, Listing, Copying, Manifests
<1>5. ASSUME NEW p \in Package, Installs!remove_repository_plugin(p)
      PROVE  InstallGoes'
  BY <1>a, <1>b, <1>d, <1>f, InstallAssumption, InstallIs, <1>5 DEF Installs!remove_repository_plugin, Installs!Begins, Installs!Rest, AdderType, UninstallType, Apart, Listing, Copying, Manifests
<1>6. ASSUME NEW s \in Skill, Installs!InstallSkill(s)
      PROVE  InstallGoes'
  BY <1>a, <1>b, <1>d, <1>f, InstallAssumption, InstallIs, <1>6 DEF Installs!InstallSkill, Installs!Untouched, Installs!Rest, AdderType, UninstallType, Apart, Listing, Copying, Manifests
<1>7. ASSUME NEW pick \in Picks, NEW keep \in BOOLEAN, Installs!install_container_bundle(pick, keep)
      PROVE  InstallGoes'
  BY <1>a, <1>b, <1>d, <1>f, InstallAssumption, InstallIs, <1>7 DEF Installs!install_container_bundle, Installs!Rest, AdderType, UninstallType, Apart, Listing, Copying, Manifests
<1>8. CASE Installs!StoresSource
  BY <1>a, <1>b, <1>d, <1>f, InstallAssumption, InstallIs, <1>8 DEF Installs!StoresSource, Installs!Steps, Installs!Untouched, Installs!Rest, AdderType, UninstallType, Apart, Listing, Copying, Manifests
<1>9. CASE Installs!NextEntry
  BY <1>b, <1>f, <1>9, EntryIs DEF Copying, Installs!Rest
<1>10. CASE Installs!EntriesEnd
  BY <1>a, <1>b, <1>d, <1>f, InstallAssumption, InstallIs, <1>10 DEF Installs!EntriesEnd, Installs!Untouched, Installs!Rest, AdderType, UninstallType, Apart, Listing, Copying, Manifests
<1>11. CASE Installs!PutAgain
  BY <1>a, <1>b, <1>d, <1>f, InstallAssumption, InstallIs, <1>11 DEF Installs!PutAgain, Installs!Steps, Installs!Untouched, Installs!Rest, AdderType, UninstallType, Apart, Listing, Copying, Manifests
<1>12. CASE Installs!SkillRecorded
  BY <1>a, <1>b, <1>d, <1>f, InstallAssumption, InstallIs, <1>12 DEF Installs!SkillRecorded, Installs!After, Installs!Untouched, Installs!Rest, AdderType, UninstallType, Apart, Listing, Copying, Manifests
<1>13. CASE Installs!ReadsManifest
  BY <1>a, <1>b, <1>d, <1>f, InstallAssumption, InstallIs, <1>13 DEF Installs!ReadsManifest, Installs!ReadsAgain, Installs!Rest, AdderType, UninstallType, Apart, Listing, Copying, Manifests
<1>14. CASE Installs!WritesManifest
  <2>1. UNCHANGED <<payload, records, uninstall, adder, skills, known>>
    BY <1>14 DEF Installs!WritesManifest
  <2>2. QED
    BY <1>a, <1>b, <1>d, <1>f, <1>14, <2>1, WritesIs DEF Copying, Apart, UninstallType, Installs!Rest
<1>15. CASE Installs!ClearsPayload
  BY <1>a, <1>b, <1>d, <1>f, InstallAssumption, InstallIs, <1>15 DEF Installs!ClearsPayload, Installs!Steps, Installs!Untouched, Installs!Rest, AdderType, UninstallType, Apart, Listing, Copying, Manifests
<1>16. CASE Installs!CopiesPayload
  BY <1>a, <1>b, <1>d, <1>f, InstallAssumption, InstallIs, <1>16 DEF Installs!CopiesPayload, Installs!Steps, Installs!Untouched, Installs!Rest, AdderType, UninstallType, Apart, Listing, Copying, Manifests
<1>17. CASE Installs!CopyFails
  BY <1>a, <1>b, <1>d, <1>f, InstallAssumption, InstallIs, <1>17 DEF Installs!CopyFails, Installs!Untouched, Installs!Rest, AdderType, UninstallType, Apart, Listing, Copying, Manifests
<1>18. CASE Installs!WritesRecord
  BY <1>a, <1>b, <1>d, <1>f, InstallAssumption, InstallIs, <1>18 DEF Installs!WritesRecord, Installs!After, Installs!Untouched, Installs!Rest, AdderType, UninstallType, Apart, Listing, Copying, Manifests
<1>19. CASE Installs!AdderEnds
  BY <1>a, <1>b, <1>d, <1>f, InstallAssumption, InstallIs, <1>19 DEF Installs!AdderEnds, Installs!Adds, Installs!AddFails, Installs!Others, Installs!Untouched, Installs!Rest, AdderType, UninstallType, Apart, Listing, Copying, Manifests
<1>20. CASE Installs!ReferenceAdded
  <2>1. CASE Installs!Adds("task", install.of)
    BY <1>b, <1>d, <1>f, <1>20, <2>1, ReferenceIs, AddedIs DEF Copying, Apart, Sources, Installs!Rest
  <2>2. CASE Installs!AddFails(install.of) /\ install' = Installs!Rest
    BY <1>b, <1>d, <1>f, <1>20, <2>2, ReferenceIs, AddFailedIs DEF Copying, Apart, Installs!Rest
  <2>3. QED
    BY <1>b, <1>20, <2>1, <2>2, ReferenceIs
<1>21. CASE Installs!Unlists
  BY <1>a, <1>b, <1>d, <1>f, <1>21, UnlistsIs, InstallIs DEF Copying, Apart
<1>22. CASE Installs!DeletesPayload
  BY <1>a, <1>b, <1>d, <1>f, InstallAssumption, InstallIs, <1>22 DEF Installs!DeletesPayload, Installs!RemoverSteps, Installs!Untouched, Installs!Rest, AdderType, UninstallType, Apart, Listing, Copying, Manifests
<1>23. CASE Installs!remove_plugin_record
  BY <1>a, <1>b, <1>d, <1>f, InstallAssumption, InstallIs, <1>23 DEF Installs!remove_plugin_record, Installs!Untouched, Installs!Rest, AdderType, UninstallType, Apart, Listing, Copying, Manifests
<1>24. CASE Installs!PluginsDie
  BY <1>a, <1>b, <1>d, <1>f, InstallAssumption, InstallIs, <1>24 DEF Installs!PluginsDie, Installs!Rest, AdderType, UninstallType, Apart, Listing, Copying, Manifests
<1>25. QED
  BY <1>a, <1>1, <1>2, <1>3, <1>4, <1>5, <1>6, <1>7, <1>8, <1>9, <1>10, <1>11, <1>12, <1>13, <1>14, <1>15, <1>16, <1>17, <1>18, <1>19, <1>20, <1>21, <1>22, <1>23, <1>24 DEF Installs!PluginsNext

\* A plugin that is being taken away is listed no more, and before its record its files are gone.
LEMMA UninstallGoesOn ==
  ASSUME InstallsInv, Installs!PluginsNext, ~crossed'
  PROVE  UninstallGoes'
<1>a. ~crossed
  BY DEF Installs!PluginsNext
<1>b. InstallType /\ AdderType /\ UninstallType /\ manifest \in Manifests /\ payload \in [Package -> Files]
  BY <1>a DEF InstallsInv, Typed
<1>c. InstallType' /\ AdderType' /\ UninstallType' /\ (manifest \in Manifests /\ payload \in [Package -> Files])'
  BY InstallTyped, OthersTyped, ManifestTyped
<1>d. Apart
  BY <1>a DEF InstallsInv
<1>e. Apart' /\ AsRead /\ AsRead'
  BY <1>a, ApartStays, AsReadStays DEF InstallsInv
<1>f. InstallGoes /\ UninstallGoes /\ SkillGoes
  BY <1>a DEF InstallsInv
<1> USE DEF UninstallGoes
<1>1. ASSUME NEW p \in Package, Installs!install_container_extension(p)
      PROVE  UninstallGoes'
  BY <1>a, <1>b, <1>d, <1>f, InstallAssumption, InstallIs, <1>1 DEF Installs!install_container_extension, Installs!Begins, Installs!Installs, Installs!Rest, AdderType, UninstallType, Apart, Listing, Copying, Manifests
<1>2. ASSUME NEW p \in Package, Installs!link_repository_extension(p)
      PROVE  UninstallGoes'
  BY <1>a, <1>b, <1>d, <1>f, InstallAssumption, InstallIs, <1>2 DEF Installs!link_repository_extension, Installs!Begins, Installs!Installs, Installs!Rest, AdderType, UninstallType, Apart, Listing, Copying, Manifests
<1>3. ASSUME NEW p \in Package, Installs!LinkReference(p)
      PROVE  UninstallGoes'
  BY <1>a, <1>b, <1>d, <1>f, InstallAssumption, InstallIs, <1>3 DEF Installs!LinkReference, Installs!Begins, Installs!Installs, Installs!Rest, AdderType, UninstallType, Apart, Listing, Copying, Manifests
<1>4. ASSUME NEW p \in Package, Installs!container_plugin_add(p)
      PROVE  UninstallGoes'
  BY <1>a, <1>b, <1>d, <1>f, InstallAssumption, InstallIs, <1>4 DEF Installs!container_plugin_add, Installs!Begins, Installs!Rest, AdderType, UninstallType, Apart, Listing, Copying, Manifests
<1>5. ASSUME NEW p \in Package, Installs!remove_repository_plugin(p)
      PROVE  UninstallGoes'
  BY <1>a, <1>b, <1>d, <1>f, InstallAssumption, InstallIs, <1>5 DEF Installs!remove_repository_plugin, Installs!Begins, Installs!Rest, AdderType, UninstallType, Apart, Listing, Copying, Manifests
<1>6. ASSUME NEW s \in Skill, Installs!InstallSkill(s)
      PROVE  UninstallGoes'
  BY <1>a, <1>b, <1>d, <1>f, InstallAssumption, InstallIs, <1>6 DEF Installs!InstallSkill, Installs!Untouched, Installs!Rest, AdderType, UninstallType, Apart, Listing, Copying, Manifests
<1>7. ASSUME NEW pick \in Picks, NEW keep \in BOOLEAN, Installs!install_container_bundle(pick, keep)
      PROVE  UninstallGoes'
  BY <1>a, <1>b, <1>d, <1>f, InstallAssumption, InstallIs, <1>7 DEF Installs!install_container_bundle, Installs!Rest, AdderType, UninstallType, Apart, Listing, Copying, Manifests
<1>8. CASE Installs!StoresSource
  BY <1>a, <1>b, <1>d, <1>f, InstallAssumption, InstallIs, <1>8 DEF Installs!StoresSource, Installs!Steps, Installs!Untouched, Installs!Rest, AdderType, UninstallType, Apart, Listing, Copying, Manifests
<1>9. CASE Installs!NextEntry
  BY <1>b, <1>f, <1>9, EntryIs DEF Copying, Installs!Rest
<1>10. CASE Installs!EntriesEnd
  BY <1>a, <1>b, <1>d, <1>f, InstallAssumption, InstallIs, <1>10 DEF Installs!EntriesEnd, Installs!Untouched, Installs!Rest, AdderType, UninstallType, Apart, Listing, Copying, Manifests
<1>11. CASE Installs!PutAgain
  BY <1>a, <1>b, <1>d, <1>f, InstallAssumption, InstallIs, <1>11 DEF Installs!PutAgain, Installs!Steps, Installs!Untouched, Installs!Rest, AdderType, UninstallType, Apart, Listing, Copying, Manifests
<1>12. CASE Installs!SkillRecorded
  BY <1>a, <1>b, <1>d, <1>f, InstallAssumption, InstallIs, <1>12 DEF Installs!SkillRecorded, Installs!After, Installs!Untouched, Installs!Rest, AdderType, UninstallType, Apart, Listing, Copying, Manifests
<1>13. CASE Installs!ReadsManifest
  BY <1>a, <1>b, <1>d, <1>f, InstallAssumption, InstallIs, <1>13 DEF Installs!ReadsManifest, Installs!ReadsAgain, Installs!Rest, AdderType, UninstallType, Apart, Listing, Copying, Manifests
<1>14. CASE Installs!WritesManifest
  <2>1. UNCHANGED <<payload, records, uninstall, adder, skills, known>>
    BY <1>14 DEF Installs!WritesManifest
  <2>2. QED
    BY <1>a, <1>b, <1>d, <1>f, <1>14, <2>1, WritesIs DEF Copying, Apart, UninstallType, Installs!Rest
<1>15. CASE Installs!ClearsPayload
  BY <1>a, <1>b, <1>d, <1>f, InstallAssumption, InstallIs, <1>15 DEF Installs!ClearsPayload, Installs!Steps, Installs!Untouched, Installs!Rest, AdderType, UninstallType, Apart, Listing, Copying, Manifests
<1>16. CASE Installs!CopiesPayload
  BY <1>a, <1>b, <1>d, <1>f, InstallAssumption, InstallIs, <1>16 DEF Installs!CopiesPayload, Installs!Steps, Installs!Untouched, Installs!Rest, AdderType, UninstallType, Apart, Listing, Copying, Manifests
<1>17. CASE Installs!CopyFails
  BY <1>a, <1>b, <1>d, <1>f, InstallAssumption, InstallIs, <1>17 DEF Installs!CopyFails, Installs!Untouched, Installs!Rest, AdderType, UninstallType, Apart, Listing, Copying, Manifests
<1>18. CASE Installs!WritesRecord
  BY <1>a, <1>b, <1>d, <1>f, InstallAssumption, InstallIs, <1>18 DEF Installs!WritesRecord, Installs!After, Installs!Untouched, Installs!Rest, AdderType, UninstallType, Apart, Listing, Copying, Manifests
<1>19. CASE Installs!AdderEnds
  BY <1>a, <1>b, <1>d, <1>f, InstallAssumption, InstallIs, <1>19 DEF Installs!AdderEnds, Installs!Adds, Installs!AddFails, Installs!Others, Installs!Untouched, Installs!Rest, AdderType, UninstallType, Apart, Listing, Copying, Manifests
<1>20. CASE Installs!ReferenceAdded
  BY <1>a, <1>b, <1>d, <1>f, InstallAssumption, InstallIs, <1>20 DEF Installs!ReferenceAdded, Installs!Adds, Installs!AddFails, Installs!Others, Installs!Untouched, Installs!Steps, Installs!Rest, AdderType, UninstallType, Apart, Listing, Copying, Manifests
<1>21. CASE Installs!Unlists
  BY <1>a, <1>b, <1>d, <1>f, <1>21, UnlistsIs, InstallIs DEF Copying, Apart
<1>22. CASE Installs!DeletesPayload
  BY <1>a, <1>b, <1>d, <1>f, InstallAssumption, InstallIs, <1>22 DEF Installs!DeletesPayload, Installs!RemoverSteps, Installs!Untouched, Installs!Rest, AdderType, UninstallType, Apart, Listing, Copying, Manifests
<1>23. CASE Installs!remove_plugin_record
  BY <1>a, <1>b, <1>d, <1>f, InstallAssumption, InstallIs, <1>23 DEF Installs!remove_plugin_record, Installs!Untouched, Installs!Rest, AdderType, UninstallType, Apart, Listing, Copying, Manifests
<1>24. CASE Installs!PluginsDie
  BY <1>a, <1>b, <1>d, <1>f, InstallAssumption, InstallIs, <1>24 DEF Installs!PluginsDie, Installs!Rest, AdderType, UninstallType, Apart, Listing, Copying, Manifests
<1>25. QED
  BY <1>a, <1>1, <1>2, <1>3, <1>4, <1>5, <1>6, <1>7, <1>8, <1>9, <1>10, <1>11, <1>12, <1>13, <1>14, <1>15, <1>16, <1>17, <1>18, <1>19, <1>20, <1>21, <1>22, <1>23, <1>24 DEF Installs!PluginsNext

\* A skill that is about to be recorded is there.
LEMMA SkillGoesOn ==
  ASSUME InstallsInv, Installs!PluginsNext, ~crossed'
  PROVE  SkillGoes'
<1>a. ~crossed
  BY DEF Installs!PluginsNext
<1>b. InstallType /\ AdderType /\ UninstallType /\ manifest \in Manifests /\ payload \in [Package -> Files]
  BY <1>a DEF InstallsInv, Typed
<1>c. InstallType' /\ AdderType' /\ UninstallType' /\ (manifest \in Manifests /\ payload \in [Package -> Files])'
  BY InstallTyped, OthersTyped, ManifestTyped
<1>d. Apart
  BY <1>a DEF InstallsInv
<1>e. Apart' /\ AsRead /\ AsRead'
  BY <1>a, ApartStays, AsReadStays DEF InstallsInv
<1>f. InstallGoes /\ UninstallGoes /\ SkillGoes
  BY <1>a DEF InstallsInv
<1> USE DEF SkillGoes
<1>1. ASSUME NEW p \in Package, Installs!install_container_extension(p)
      PROVE  SkillGoes'
  BY <1>a, <1>b, <1>d, <1>f, InstallAssumption, InstallIs, <1>1 DEF Installs!install_container_extension, Installs!Begins, Installs!Installs, Installs!Rest, AdderType, UninstallType, Apart, Listing, Copying, Manifests
<1>2. ASSUME NEW p \in Package, Installs!link_repository_extension(p)
      PROVE  SkillGoes'
  BY <1>a, <1>b, <1>d, <1>f, InstallAssumption, InstallIs, <1>2 DEF Installs!link_repository_extension, Installs!Begins, Installs!Installs, Installs!Rest, AdderType, UninstallType, Apart, Listing, Copying, Manifests
<1>3. ASSUME NEW p \in Package, Installs!LinkReference(p)
      PROVE  SkillGoes'
  BY <1>a, <1>b, <1>d, <1>f, InstallAssumption, InstallIs, <1>3 DEF Installs!LinkReference, Installs!Begins, Installs!Installs, Installs!Rest, AdderType, UninstallType, Apart, Listing, Copying, Manifests
<1>4. ASSUME NEW p \in Package, Installs!container_plugin_add(p)
      PROVE  SkillGoes'
  BY <1>a, <1>b, <1>d, <1>f, InstallAssumption, InstallIs, <1>4 DEF Installs!container_plugin_add, Installs!Begins, Installs!Rest, AdderType, UninstallType, Apart, Listing, Copying, Manifests
<1>5. ASSUME NEW p \in Package, Installs!remove_repository_plugin(p)
      PROVE  SkillGoes'
  BY <1>a, <1>b, <1>d, <1>f, InstallAssumption, InstallIs, <1>5 DEF Installs!remove_repository_plugin, Installs!Begins, Installs!Rest, AdderType, UninstallType, Apart, Listing, Copying, Manifests
<1>6. ASSUME NEW s \in Skill, Installs!InstallSkill(s)
      PROVE  SkillGoes'
  BY <1>a, <1>b, <1>d, <1>f, InstallAssumption, InstallIs, <1>6 DEF Installs!InstallSkill, Installs!Untouched, Installs!Rest, AdderType, UninstallType, Apart, Listing, Copying, Manifests
<1>7. ASSUME NEW pick \in Picks, NEW keep \in BOOLEAN, Installs!install_container_bundle(pick, keep)
      PROVE  SkillGoes'
  BY <1>a, <1>b, <1>d, <1>f, InstallAssumption, InstallIs, <1>7 DEF Installs!install_container_bundle, Installs!Rest, AdderType, UninstallType, Apart, Listing, Copying, Manifests
<1>8. CASE Installs!StoresSource
  BY <1>a, <1>b, <1>d, <1>f, InstallAssumption, InstallIs, <1>8 DEF Installs!StoresSource, Installs!Steps, Installs!Untouched, Installs!Rest, AdderType, UninstallType, Apart, Listing, Copying, Manifests
<1>9. CASE Installs!NextEntry
  BY <1>b, <1>f, <1>9, EntryIs DEF Copying, Installs!Rest
<1>10. CASE Installs!EntriesEnd
  BY <1>a, <1>b, <1>d, <1>f, InstallAssumption, InstallIs, <1>10 DEF Installs!EntriesEnd, Installs!Untouched, Installs!Rest, AdderType, UninstallType, Apart, Listing, Copying, Manifests
<1>11. CASE Installs!PutAgain
  BY <1>a, <1>b, <1>d, <1>f, InstallAssumption, InstallIs, <1>11 DEF Installs!PutAgain, Installs!Steps, Installs!Untouched, Installs!Rest, AdderType, UninstallType, Apart, Listing, Copying, Manifests
<1>12. CASE Installs!SkillRecorded
  BY <1>a, <1>b, <1>d, <1>f, InstallAssumption, InstallIs, <1>12 DEF Installs!SkillRecorded, Installs!After, Installs!Untouched, Installs!Rest, AdderType, UninstallType, Apart, Listing, Copying, Manifests
<1>13. CASE Installs!ReadsManifest
  BY <1>a, <1>b, <1>d, <1>f, InstallAssumption, InstallIs, <1>13 DEF Installs!ReadsManifest, Installs!ReadsAgain, Installs!Rest, AdderType, UninstallType, Apart, Listing, Copying, Manifests
<1>14. CASE Installs!WritesManifest
  <2>1. UNCHANGED <<payload, records, uninstall, adder, skills, known>>
    BY <1>14 DEF Installs!WritesManifest
  <2>2. QED
    BY <1>a, <1>b, <1>d, <1>f, <1>14, <2>1, WritesIs DEF Copying, Apart, UninstallType, Installs!Rest
<1>15. CASE Installs!ClearsPayload
  BY <1>a, <1>b, <1>d, <1>f, InstallAssumption, InstallIs, <1>15 DEF Installs!ClearsPayload, Installs!Steps, Installs!Untouched, Installs!Rest, AdderType, UninstallType, Apart, Listing, Copying, Manifests
<1>16. CASE Installs!CopiesPayload
  BY <1>a, <1>b, <1>d, <1>f, InstallAssumption, InstallIs, <1>16 DEF Installs!CopiesPayload, Installs!Steps, Installs!Untouched, Installs!Rest, AdderType, UninstallType, Apart, Listing, Copying, Manifests
<1>17. CASE Installs!CopyFails
  BY <1>a, <1>b, <1>d, <1>f, InstallAssumption, InstallIs, <1>17 DEF Installs!CopyFails, Installs!Untouched, Installs!Rest, AdderType, UninstallType, Apart, Listing, Copying, Manifests
<1>18. CASE Installs!WritesRecord
  BY <1>a, <1>b, <1>d, <1>f, InstallAssumption, InstallIs, <1>18 DEF Installs!WritesRecord, Installs!After, Installs!Untouched, Installs!Rest, AdderType, UninstallType, Apart, Listing, Copying, Manifests
<1>19. CASE Installs!AdderEnds
  BY <1>a, <1>b, <1>d, <1>f, InstallAssumption, InstallIs, <1>19 DEF Installs!AdderEnds, Installs!Adds, Installs!AddFails, Installs!Others, Installs!Untouched, Installs!Rest, AdderType, UninstallType, Apart, Listing, Copying, Manifests
<1>20. CASE Installs!ReferenceAdded
  <2>1. CASE Installs!Adds("task", install.of)
    BY <1>b, <1>d, <1>f, <1>20, <2>1, ReferenceIs, AddedIs DEF Copying, Apart, Sources, Installs!Rest
  <2>2. CASE Installs!AddFails(install.of) /\ install' = Installs!Rest
    BY <1>b, <1>d, <1>f, <1>20, <2>2, ReferenceIs, AddFailedIs DEF Copying, Apart, Installs!Rest
  <2>3. QED
    BY <1>b, <1>20, <2>1, <2>2, ReferenceIs
<1>21. CASE Installs!Unlists
  BY <1>a, <1>b, <1>d, <1>f, <1>21, UnlistsIs, InstallIs DEF Copying, Apart
<1>22. CASE Installs!DeletesPayload
  BY <1>a, <1>b, <1>d, <1>f, InstallAssumption, InstallIs, <1>22 DEF Installs!DeletesPayload, Installs!RemoverSteps, Installs!Untouched, Installs!Rest, AdderType, UninstallType, Apart, Listing, Copying, Manifests
<1>23. CASE Installs!remove_plugin_record
  BY <1>a, <1>b, <1>d, <1>f, InstallAssumption, InstallIs, <1>23 DEF Installs!remove_plugin_record, Installs!Untouched, Installs!Rest, AdderType, UninstallType, Apart, Listing, Copying, Manifests
<1>24. CASE Installs!PluginsDie
  BY <1>a, <1>b, <1>d, <1>f, InstallAssumption, InstallIs, <1>24 DEF Installs!PluginsDie, Installs!Rest, AdderType, UninstallType, Apart, Listing, Copying, Manifests
<1>25. QED
  BY <1>a, <1>1, <1>2, <1>3, <1>4, <1>5, <1>6, <1>7, <1>8, <1>9, <1>10, <1>11, <1>12, <1>13, <1>14, <1>15, <1>16, <1>17, <1>18, <1>19, <1>20, <1>21, <1>22, <1>23, <1>24 DEF Installs!PluginsNext

\* What agrees about a plugin nobody works on.
LEMMA AgreesAt ==
  ASSUME Installs!PluginsAgree, NEW q \in Package, q \notin {install.of, adder.of, uninstall.of}, q \notin midway
  PROVE  /\ ~(q \in manifest.listed /\ payload[q] = Installs!NoFiles) /\ payload[q] # Installs!Part
         /\ (payload[q] # Installs!NoFiles \/ q \in records) => q \in manifest.listed
         /\ q \in records /\ q \in manifest.listed => manifest.deps[q] # "star"
BY DEF Installs!PluginsAgree, Installs!Settled, Installs!OnIt, Installs!Diagnosed

\* Every step leaves in order the plugins nobody works on.
LEMMA PluginsAgreeOn ==
  ASSUME InstallsInv, Installs!PluginsNext, ~crossed'
  PROVE  Installs!PluginsAgree'
<1>a. ~crossed
  BY DEF Installs!PluginsNext
<1>b. InstallType /\ AdderType /\ UninstallType /\ manifest \in Manifests /\ payload \in [Package -> Files]
  BY <1>a DEF InstallsInv, Typed
<1>c. InstallType' /\ AdderType' /\ UninstallType' /\ (manifest \in Manifests /\ payload \in [Package -> Files])'
  BY InstallTyped, OthersTyped, ManifestTyped
<1>d. Apart
  BY <1>a DEF InstallsInv
<1>e. Apart' /\ AsRead /\ AsRead'
  BY <1>a, ApartStays, AsReadStays DEF InstallsInv
<1>f. InstallGoes /\ UninstallGoes /\ SkillGoes
  BY <1>a DEF InstallsInv
<1>g. Installs!PluginsAgree /\ Installs!SkillsAgree
  BY <1>a DEF InstallsInv, Installs!InstalledAgrees
<1>h. InstallGoes' /\ UninstallGoes' /\ SkillGoes'
  BY InstallGoesOn, UninstallGoesOn, SkillGoesOn
<1> USE DEF Installs!PluginsAgree, Installs!Settled, Installs!OnIt, Installs!Diagnosed
<1>1. ASSUME NEW p \in Package, Installs!install_container_extension(p)
      PROVE  Installs!PluginsAgree'
  BY <1>a, <1>b, <1>d, <1>f, <1>g, InstallAssumption, InstallIs, <1>1 DEF Installs!install_container_extension, Installs!Begins, Installs!Installs, Installs!Rest, AdderType, UninstallType, Apart, Listing, Copying, Manifests, Sources, InstallGoes, UninstallGoes
<1>2. ASSUME NEW p \in Package, Installs!link_repository_extension(p)
      PROVE  Installs!PluginsAgree'
  BY <1>a, <1>b, <1>d, <1>f, <1>g, InstallAssumption, InstallIs, <1>2 DEF Installs!link_repository_extension, Installs!Begins, Installs!Installs, Installs!Rest, AdderType, UninstallType, Apart, Listing, Copying, Manifests, Sources, InstallGoes, UninstallGoes
<1>3. ASSUME NEW p \in Package, Installs!LinkReference(p)
      PROVE  Installs!PluginsAgree'
  BY <1>a, <1>b, <1>d, <1>f, <1>g, InstallAssumption, InstallIs, <1>3 DEF Installs!LinkReference, Installs!Begins, Installs!Installs, Installs!Rest, AdderType, UninstallType, Apart, Listing, Copying, Manifests, Sources, InstallGoes, UninstallGoes
<1>4. ASSUME NEW p \in Package, Installs!container_plugin_add(p)
      PROVE  Installs!PluginsAgree'
  BY <1>a, <1>b, <1>d, <1>f, <1>g, InstallAssumption, InstallIs, <1>4 DEF Installs!container_plugin_add, Installs!Begins, Installs!Rest, AdderType, UninstallType, Apart, Listing, Copying, Manifests, Sources, InstallGoes, UninstallGoes
<1>5. ASSUME NEW p \in Package, Installs!remove_repository_plugin(p)
      PROVE  Installs!PluginsAgree'
  BY <1>a, <1>b, <1>d, <1>f, <1>g, InstallAssumption, InstallIs, <1>5 DEF Installs!remove_repository_plugin, Installs!Begins, Installs!Rest, AdderType, UninstallType, Apart, Listing, Copying, Manifests, Sources, InstallGoes, UninstallGoes
<1>6. ASSUME NEW s \in Skill, Installs!InstallSkill(s)
      PROVE  Installs!PluginsAgree'
  BY <1>a, <1>b, <1>d, <1>f, <1>g, InstallAssumption, InstallIs, <1>6 DEF Installs!InstallSkill, Installs!Untouched, Installs!Rest, AdderType, UninstallType, Apart, Listing, Copying, Manifests, Sources, InstallGoes, UninstallGoes
<1>7. ASSUME NEW pick \in Picks, NEW keep \in BOOLEAN, Installs!install_container_bundle(pick, keep)
      PROVE  Installs!PluginsAgree'
  BY <1>a, <1>b, <1>d, <1>f, <1>g, InstallAssumption, InstallIs, <1>7 DEF Installs!install_container_bundle, Installs!Rest, AdderType, UninstallType, Apart, Listing, Copying, Manifests, Sources, InstallGoes, UninstallGoes
<1>8. CASE Installs!StoresSource
  BY <1>a, <1>b, <1>d, <1>f, <1>g, InstallAssumption, InstallIs, <1>8 DEF Installs!StoresSource, Installs!Steps, Installs!Untouched, Installs!Rest, AdderType, UninstallType, Apart, Listing, Copying, Manifests, Sources, InstallGoes, UninstallGoes
<1>9. CASE Installs!NextEntry
  BY <1>a, <1>b, <1>d, <1>f, <1>g, InstallAssumption, InstallIs, <1>9 DEF Installs!NextEntry, Installs!Rest, AdderType, UninstallType, Apart, Listing, Copying, Manifests, Sources, InstallGoes, UninstallGoes
<1>10. CASE Installs!EntriesEnd
  BY <1>a, <1>b, <1>d, <1>f, <1>g, InstallAssumption, InstallIs, <1>10 DEF Installs!EntriesEnd, Installs!Untouched, Installs!Rest, AdderType, UninstallType, Apart, Listing, Copying, Manifests, Sources, InstallGoes, UninstallGoes
<1>11. CASE Installs!PutAgain
  BY <1>a, <1>b, <1>d, <1>f, <1>g, InstallAssumption, InstallIs, <1>11 DEF Installs!PutAgain, Installs!Steps, Installs!Untouched, Installs!Rest, AdderType, UninstallType, Apart, Listing, Copying, Manifests, Sources, InstallGoes, UninstallGoes
<1>12. CASE Installs!SkillRecorded
  BY <1>a, <1>b, <1>d, <1>f, <1>g, InstallAssumption, InstallIs, <1>12 DEF Installs!SkillRecorded, Installs!After, Installs!Untouched, Installs!Rest, AdderType, UninstallType, Apart, Listing, Copying, Manifests, Sources, InstallGoes, UninstallGoes
<1>13. CASE Installs!ReadsManifest
  BY <1>a, <1>b, <1>d, <1>f, <1>g, InstallAssumption, InstallIs, <1>13 DEF Installs!ReadsManifest, Installs!ReadsAgain, Installs!Rest, AdderType, UninstallType, Apart, Listing, Copying, Manifests, Sources, InstallGoes, UninstallGoes
<1>14. CASE Installs!WritesManifest
  <2> SUFFICES ASSUME NEW q \in Package, q \notin {install'.of, adder'.of, uninstall'.of}, q \notin midway'
               PROVE  /\ ~(q \in manifest'.listed /\ payload'[q] = Installs!NoFiles) /\ payload'[q] # Installs!Part
                      /\ (payload'[q] # Installs!NoFiles \/ q \in records') => q \in manifest'.listed
                      /\ q \in records' /\ q \in manifest'.listed => manifest'.deps[q] # "star"
    OBVIOUS
  <2>1. UNCHANGED <<payload, records, uninstall, adder, midway>>
    BY <1>14 DEF Installs!WritesManifest
  <2>2. QED
    BY <1>a, <1>g, <1>14, <2>1, WritesIs, AgreesAt
<1>15. CASE Installs!ClearsPayload
  BY <1>a, <1>b, <1>d, <1>f, <1>g, InstallAssumption, InstallIs, <1>15 DEF Installs!ClearsPayload, Installs!Steps, Installs!Untouched, Installs!Rest, AdderType, UninstallType, Apart, Listing, Copying, Manifests, Sources, InstallGoes, UninstallGoes
<1>16. CASE Installs!CopiesPayload
  BY <1>a, <1>b, <1>d, <1>f, <1>g, InstallAssumption, InstallIs, <1>16 DEF Installs!CopiesPayload, Installs!Steps, Installs!Untouched, Installs!Rest, AdderType, UninstallType, Apart, Listing, Copying, Manifests, Sources, InstallGoes, UninstallGoes
<1>17. CASE Installs!CopyFails
  BY <1>a, <1>b, <1>d, <1>f, <1>g, InstallAssumption, InstallIs, <1>17 DEF Installs!CopyFails, Installs!Untouched, Installs!Rest, AdderType, UninstallType, Apart, Listing, Copying, Manifests, Sources, InstallGoes, UninstallGoes
<1>18. CASE Installs!WritesRecord
  <2> SUFFICES ASSUME NEW q \in Package, q \notin {install'.of, adder'.of, uninstall'.of}, q \notin midway'
               PROVE  /\ ~(q \in manifest'.listed /\ payload'[q] = Installs!NoFiles) /\ payload'[q] # Installs!Part
                      /\ (payload'[q] # Installs!NoFiles \/ q \in records') => q \in manifest'.listed
                      /\ q \in records' /\ q \in manifest'.listed => manifest'.deps[q] # "star"
    OBVIOUS
  <2>1. /\ UNCHANGED <<payload, manifest, uninstall, adder>> /\ install.step = "record"
        /\ records' = records \cup {install.of} /\ midway' = midway \ {install.of}
    BY <1>18 DEF Installs!WritesRecord, Installs!Untouched
  <2>2. CASE q = install.of
    BY <1>f, <2>1, <2>2 DEF InstallGoes, Copying, Sources, Installs!NoFiles, Installs!Part
  <2>3. CASE q # install.of
    BY <1>g, <2>1, <2>3, AgreesAt
  <2>4. QED
    BY <2>2, <2>3
<1>19. CASE Installs!AdderEnds
  <2> SUFFICES ASSUME NEW q \in Package, q \notin {install'.of, adder'.of, uninstall'.of}, q \notin midway'
               PROVE  /\ ~(q \in manifest'.listed /\ payload'[q] = Installs!NoFiles) /\ payload'[q] # Installs!Part
                      /\ (payload'[q] # Installs!NoFiles \/ q \in records') => q \in manifest'.listed
                      /\ q \in records' /\ q \in manifest'.listed => manifest'.deps[q] # "star"
    OBVIOUS
  <2>1. /\ adder.of \in Package /\ UNCHANGED <<records, install, uninstall>>
        /\ Installs!Adds("adder", adder.of) \/ Installs!AddFails(adder.of)
    BY <1>b, <1>19 DEF Installs!AdderEnds, AdderType, Installs!Rest
  <2>2. CASE Installs!Adds("adder", adder.of)
    BY <1>b, <1>g, <2>1, <2>2, AddedIs, AgreesAt DEF Installs!NoFiles, Installs!Part
  <2>3. CASE Installs!AddFails(adder.of)
    BY <1>b, <1>g, <2>1, <2>3, AddFailedIs, AgreesAt
  <2>4. QED
    BY <2>1, <2>2, <2>3
<1>20. CASE Installs!ReferenceAdded
  <2> SUFFICES ASSUME NEW q \in Package, q \notin {install'.of, adder'.of, uninstall'.of}, q \notin midway'
               PROVE  /\ ~(q \in manifest'.listed /\ payload'[q] = Installs!NoFiles) /\ payload'[q] # Installs!Part
                      /\ (payload'[q] # Installs!NoFiles \/ q \in records') => q \in manifest'.listed
                      /\ q \in records' /\ q \in manifest'.listed => manifest'.deps[q] # "star"
    OBVIOUS
  <2>1. CASE Installs!Adds("task", install.of) /\ install'.of = install.of
    BY <1>b, <1>g, <1>20, <2>1, ReferenceIs, AddedIs, AgreesAt
  <2>2. CASE Installs!AddFails(install.of)
    BY <1>b, <1>g, <1>20, <2>2, ReferenceIs, AddFailedIs, AgreesAt
  <2>3. QED
    BY <1>b, <1>20, <2>1, <2>2, ReferenceIs
<1>21. CASE Installs!Unlists
  <2> SUFFICES ASSUME NEW q \in Package, q \notin {install'.of, adder'.of, uninstall'.of}, q \notin midway'
               PROVE  /\ ~(q \in manifest'.listed /\ payload'[q] = Installs!NoFiles) /\ payload'[q] # Installs!Part
                      /\ (payload'[q] # Installs!NoFiles \/ q \in records') => q \in manifest'.listed
                      /\ q \in records' /\ q \in manifest'.listed => manifest'.deps[q] # "star"
    OBVIOUS
  <2>1. QED
    BY <1>a, <1>b, <1>g, <1>21, UnlistsIs, AgreesAt
<1>22. CASE Installs!DeletesPayload
  BY <1>a, <1>b, <1>d, <1>f, <1>g, InstallAssumption, InstallIs, <1>22 DEF Installs!DeletesPayload, Installs!RemoverSteps, Installs!Untouched, Installs!Rest, AdderType, UninstallType, Apart, Listing, Copying, Manifests, Sources, InstallGoes, UninstallGoes
<1>23. CASE Installs!remove_plugin_record
  <2> SUFFICES ASSUME NEW q \in Package, q \notin {install'.of, adder'.of, uninstall'.of}, q \notin midway'
               PROVE  /\ ~(q \in manifest'.listed /\ payload'[q] = Installs!NoFiles) /\ payload'[q] # Installs!Part
                      /\ (payload'[q] # Installs!NoFiles \/ q \in records') => q \in manifest'.listed
                      /\ q \in records' /\ q \in manifest'.listed => manifest'.deps[q] # "star"
    OBVIOUS
  <2>1. /\ UNCHANGED <<payload, manifest, install, adder>> /\ uninstall.step = "record"
        /\ records' = records \ {uninstall.of} /\ midway' = midway \ {uninstall.of}
    BY <1>23 DEF Installs!remove_plugin_record, Installs!Untouched
  <2>2. CASE q = uninstall.of
    BY <1>f, <2>1, <2>2 DEF UninstallGoes, Installs!NoFiles, Installs!Part
  <2>3. CASE q # uninstall.of
    BY <1>g, <2>1, <2>3, AgreesAt
  <2>4. QED
    BY <2>2, <2>3
<1>24. CASE Installs!PluginsDie
  <2> SUFFICES ASSUME NEW q \in Package, q \notin {install'.of, adder'.of, uninstall'.of}, q \notin midway'
               PROVE  /\ ~(q \in manifest'.listed /\ payload'[q] = Installs!NoFiles) /\ payload'[q] # Installs!Part
                      /\ (payload'[q] # Installs!NoFiles \/ q \in records') => q \in manifest'.listed
                      /\ q \in records' /\ q \in manifest'.listed => manifest'.deps[q] # "star"
    OBVIOUS
  <2>1. /\ UNCHANGED <<manifest, records>> /\ midway' = midway \cup ({install.of, adder.of, uninstall.of} \cap (Package \cup Skill))
        /\ payload' \in {payload, [p \in Package |-> IF p \in Installs!InHand THEN Installs!Part ELSE payload[p]]}
    BY <1>24 DEF Installs!PluginsDie
  <2>2. q \notin {install.of, adder.of, uninstall.of} /\ q \notin midway
    BY <2>1
  <2>3. q \notin Installs!InHand
    BY <2>2 DEF Installs!InHand
  <2>4. payload'[q] = payload[q]
    BY <2>1, <2>3
  <2>5. QED
    BY <1>g, <2>1, <2>2, <2>4, AgreesAt
<1>25. QED
  BY <1>a, <1>1, <1>2, <1>3, <1>4, <1>5, <1>6, <1>7, <1>8, <1>9, <1>10, <1>11, <1>12, <1>13, <1>14, <1>15, <1>16, <1>17, <1>18, <1>19, <1>20, <1>21, <1>22, <1>23, <1>24 DEF Installs!PluginsNext

\* Every step leaves in order the skills nobody works on.
LEMMA SkillsAgreeOn ==
  ASSUME InstallsInv, Installs!PluginsNext, ~crossed'
  PROVE  Installs!SkillsAgree'
<1>a. ~crossed
  BY DEF Installs!PluginsNext
<1>b. InstallType /\ AdderType /\ UninstallType /\ manifest \in Manifests /\ payload \in [Package -> Files]
  BY <1>a DEF InstallsInv, Typed
<1>c. InstallType' /\ AdderType' /\ UninstallType' /\ (manifest \in Manifests /\ payload \in [Package -> Files])'
  BY InstallTyped, OthersTyped, ManifestTyped
<1>d. Apart
  BY <1>a DEF InstallsInv
<1>e. Apart' /\ AsRead /\ AsRead'
  BY <1>a, ApartStays, AsReadStays DEF InstallsInv
<1>f. InstallGoes /\ UninstallGoes /\ SkillGoes
  BY <1>a DEF InstallsInv
<1>g. Installs!PluginsAgree /\ Installs!SkillsAgree
  BY <1>a DEF InstallsInv, Installs!InstalledAgrees
<1>h. InstallGoes' /\ UninstallGoes' /\ SkillGoes'
  BY InstallGoesOn, UninstallGoesOn, SkillGoesOn
<1> USE DEF Installs!SkillsAgree, Installs!Settled, Installs!OnIt
<1>1. ASSUME NEW p \in Package, Installs!install_container_extension(p)
      PROVE  Installs!SkillsAgree'
  BY <1>a, <1>b, <1>d, <1>f, <1>g, InstallAssumption, InstallIs, <1>1 DEF Installs!install_container_extension, Installs!Begins, Installs!Installs, Installs!Rest, AdderType, UninstallType, Apart, Listing, Copying, Manifests, Sources, SkillGoes
<1>2. ASSUME NEW p \in Package, Installs!link_repository_extension(p)
      PROVE  Installs!SkillsAgree'
  BY <1>a, <1>b, <1>d, <1>f, <1>g, InstallAssumption, InstallIs, <1>2 DEF Installs!link_repository_extension, Installs!Begins, Installs!Installs, Installs!Rest, AdderType, UninstallType, Apart, Listing, Copying, Manifests, Sources, SkillGoes
<1>3. ASSUME NEW p \in Package, Installs!LinkReference(p)
      PROVE  Installs!SkillsAgree'
  BY <1>a, <1>b, <1>d, <1>f, <1>g, InstallAssumption, InstallIs, <1>3 DEF Installs!LinkReference, Installs!Begins, Installs!Installs, Installs!Rest, AdderType, UninstallType, Apart, Listing, Copying, Manifests, Sources, SkillGoes
<1>4. ASSUME NEW p \in Package, Installs!container_plugin_add(p)
      PROVE  Installs!SkillsAgree'
  BY <1>a, <1>b, <1>d, <1>f, <1>g, InstallAssumption, InstallIs, <1>4 DEF Installs!container_plugin_add, Installs!Begins, Installs!Rest, AdderType, UninstallType, Apart, Listing, Copying, Manifests, Sources, SkillGoes
<1>5. ASSUME NEW p \in Package, Installs!remove_repository_plugin(p)
      PROVE  Installs!SkillsAgree'
  BY <1>a, <1>b, <1>d, <1>f, <1>g, InstallAssumption, InstallIs, <1>5 DEF Installs!remove_repository_plugin, Installs!Begins, Installs!Rest, AdderType, UninstallType, Apart, Listing, Copying, Manifests, Sources, SkillGoes
<1>6. ASSUME NEW s \in Skill, Installs!InstallSkill(s)
      PROVE  Installs!SkillsAgree'
  BY <1>a, <1>b, <1>d, <1>f, <1>g, InstallAssumption, InstallIs, <1>6 DEF Installs!InstallSkill, Installs!Untouched, Installs!Rest, AdderType, UninstallType, Apart, Listing, Copying, Manifests, Sources, SkillGoes
<1>7. ASSUME NEW pick \in Picks, NEW keep \in BOOLEAN, Installs!install_container_bundle(pick, keep)
      PROVE  Installs!SkillsAgree'
  BY <1>a, <1>b, <1>d, <1>f, <1>g, InstallAssumption, InstallIs, <1>7 DEF Installs!install_container_bundle, Installs!Rest, AdderType, UninstallType, Apart, Listing, Copying, Manifests, Sources, SkillGoes
<1>8. CASE Installs!StoresSource
  BY <1>a, <1>b, <1>d, <1>f, <1>g, InstallAssumption, InstallIs, <1>8 DEF Installs!StoresSource, Installs!Steps, Installs!Untouched, Installs!Rest, AdderType, UninstallType, Apart, Listing, Copying, Manifests, Sources, SkillGoes
<1>9. CASE Installs!NextEntry
  BY <1>b, <1>g, <1>9, EntryIs, InstallAssumption
<1>10. CASE Installs!EntriesEnd
  BY <1>a, <1>b, <1>d, <1>f, <1>g, InstallAssumption, InstallIs, <1>10 DEF Installs!EntriesEnd, Installs!Untouched, Installs!Rest, AdderType, UninstallType, Apart, Listing, Copying, Manifests, Sources, SkillGoes
<1>11. CASE Installs!PutAgain
  BY <1>a, <1>b, <1>d, <1>f, <1>g, InstallAssumption, InstallIs, <1>11 DEF Installs!PutAgain, Installs!Steps, Installs!Untouched, Installs!Rest, AdderType, UninstallType, Apart, Listing, Copying, Manifests, Sources, SkillGoes
<1>12. CASE Installs!SkillRecorded
  BY <1>a, <1>b, <1>d, <1>f, <1>g, InstallAssumption, InstallIs, <1>12 DEF Installs!SkillRecorded, Installs!After, Installs!Untouched, Installs!Rest, AdderType, UninstallType, Apart, Listing, Copying, Manifests, Sources, SkillGoes
<1>13. CASE Installs!ReadsManifest
  BY <1>a, <1>b, <1>d, <1>f, <1>g, InstallAssumption, InstallIs, <1>13 DEF Installs!ReadsManifest, Installs!ReadsAgain, Installs!Rest, AdderType, UninstallType, Apart, Listing, Copying, Manifests, Sources, SkillGoes
<1>14. CASE Installs!WritesManifest
  BY <1>a, <1>b, <1>d, <1>f, <1>g, InstallAssumption, InstallIs, <1>14 DEF Installs!WritesManifest, Installs!Steps, Installs!Untouched, Installs!WritesBack, Installs!Registered, Installs!Others, Installs!Rest, AdderType, UninstallType, Apart, Listing, Copying, Manifests, Sources, SkillGoes
<1>15. CASE Installs!ClearsPayload
  BY <1>a, <1>b, <1>d, <1>f, <1>g, InstallAssumption, InstallIs, <1>15 DEF Installs!ClearsPayload, Installs!Steps, Installs!Untouched, Installs!Rest, AdderType, UninstallType, Apart, Listing, Copying, Manifests, Sources, SkillGoes
<1>16. CASE Installs!CopiesPayload
  BY <1>a, <1>b, <1>d, <1>f, <1>g, InstallAssumption, InstallIs, <1>16 DEF Installs!CopiesPayload, Installs!Steps, Installs!Untouched, Installs!Rest, AdderType, UninstallType, Apart, Listing, Copying, Manifests, Sources, SkillGoes
<1>17. CASE Installs!CopyFails
  BY <1>a, <1>b, <1>d, <1>f, <1>g, InstallAssumption, InstallIs, <1>17 DEF Installs!CopyFails, Installs!Untouched, Installs!Rest, AdderType, UninstallType, Apart, Listing, Copying, Manifests, Sources, SkillGoes
<1>18. CASE Installs!WritesRecord
  BY <1>a, <1>b, <1>d, <1>f, <1>g, InstallAssumption, InstallIs, <1>18 DEF Installs!WritesRecord, Installs!After, Installs!Untouched, Installs!Rest, AdderType, UninstallType, Apart, Listing, Copying, Manifests, Sources, SkillGoes
<1>19. CASE Installs!AdderEnds
  BY <1>a, <1>b, <1>d, <1>f, <1>g, InstallAssumption, InstallIs, <1>19 DEF Installs!AdderEnds, Installs!Adds, Installs!AddFails, Installs!Others, Installs!Untouched, Installs!Rest, AdderType, UninstallType, Apart, Listing, Copying, Manifests, Sources, SkillGoes
<1>20. CASE Installs!ReferenceAdded
  BY <1>a, <1>b, <1>d, <1>f, <1>g, InstallAssumption, InstallIs, <1>20 DEF Installs!ReferenceAdded, Installs!Adds, Installs!AddFails, Installs!Others, Installs!Untouched, Installs!Steps, Installs!Rest, AdderType, UninstallType, Apart, Listing, Copying, Manifests, Sources, SkillGoes
<1>21. CASE Installs!Unlists
  BY <1>a, <1>b, <1>d, <1>f, <1>g, InstallAssumption, InstallIs, <1>21 DEF Installs!Unlists, Installs!RemoverSteps, Installs!WritesBack, Installs!Others, Installs!Rest, AdderType, UninstallType, Apart, Listing, Copying, Manifests, Sources, SkillGoes
<1>22. CASE Installs!DeletesPayload
  BY <1>a, <1>b, <1>d, <1>f, <1>g, InstallAssumption, InstallIs, <1>22 DEF Installs!DeletesPayload, Installs!RemoverSteps, Installs!Untouched, Installs!Rest, AdderType, UninstallType, Apart, Listing, Copying, Manifests, Sources, SkillGoes
<1>23. CASE Installs!remove_plugin_record
  BY <1>a, <1>b, <1>d, <1>f, <1>g, InstallAssumption, InstallIs, <1>23 DEF Installs!remove_plugin_record, Installs!Untouched, Installs!Rest, AdderType, UninstallType, Apart, Listing, Copying, Manifests, Sources, SkillGoes
<1>24. CASE Installs!PluginsDie
  BY <1>a, <1>b, <1>d, <1>f, <1>g, InstallAssumption, InstallIs, <1>24 DEF Installs!PluginsDie, Installs!Rest, AdderType, UninstallType, Apart, Listing, Copying, Manifests, Sources, SkillGoes
<1>25. QED
  BY <1>a, <1>1, <1>2, <1>3, <1>4, <1>5, <1>6, <1>7, <1>8, <1>9, <1>10, <1>11, <1>12, <1>13, <1>14, <1>15, <1>16, <1>17, <1>18, <1>19, <1>20, <1>21, <1>22, <1>23, <1>24 DEF Installs!PluginsNext

\* Every behaviour of the part keeps the invariant.
LEMMA InstallsHolds == PartsSpec => [](part = "installs" => InstallsInv)
<1>1. PartsInit => (part = "installs" => InstallsInv)
  <2> SUFFICES ASSUME PartsInit, part = "installs" PROVE InstallsInv
    OBVIOUS
  <2>1. Installs!PluginsInit
    BY DEF PartsInit, PartsStart
  <2>2. install = Installs!Rest /\ adder = Installs!Rest /\ uninstall = Installs!Rest
    BY <2>1 DEF Installs!PluginsInit
  <2>3. /\ manifest \in Manifests /\ manifest.listed = {} /\ payload = [p \in Package |-> Installs!NoFiles] /\ records = {}
        /\ skills = {} /\ known = {}
    BY <2>1 DEF Installs!PluginsInit, Manifests
  <2>4. Typed
    BY <2>2, <2>3 DEF Typed, InstallType, AdderType, UninstallType, Files
  <2>5. Apart /\ AsRead /\ InstallGoes /\ UninstallGoes /\ SkillGoes
    BY <2>2, InstallAssumption DEF Apart, AsRead, InstallGoes, UninstallGoes, SkillGoes, Installs!Rest, Copying
  <2>6. Installs!InstalledAgrees
    BY <2>3 DEF Installs!InstalledAgrees, Installs!PluginsAgree, Installs!SkillsAgree, Installs!Diagnosed, Installs!NoFiles, Installs!Part
  <2>7. QED
    BY <2>4, <2>5, <2>6 DEF InstallsInv
<1>2. (part = "installs" => InstallsInv) /\ [PartsNext]_partsVars => (part = "installs" => InstallsInv)'
  <2> SUFFICES ASSUME part = "installs" => InstallsInv, [PartsNext]_partsVars, part' = "installs" PROVE InstallsInv'
    OBVIOUS
  <2>1. part = "installs"
    BY DEF PartsNext, partsVars, TreeStep, StoreStep, CheckStep, DownloadStep, DeletionStep, RepositoryStep,
           InstallStep, CopyStep, RegistryStep, SettingStep, MirrorStep, FeedStep, EndpointStep, OpeningStep
  <2>2. InstallsInv /\ (Installs!PluginsNext \/ UNCHANGED installs)
    BY <2>1, InstallsMove
  <2>3. CASE Installs!PluginsNext /\ ~crossed'
    <3>1. InstallType' /\ AdderType' /\ UninstallType' /\ (manifest \in Manifests /\ payload \in [Package -> Files])'
      BY <2>2, <2>3, InstallTyped, OthersTyped, ManifestTyped
    <3>2. Apart' /\ AsRead' /\ InstallGoes' /\ UninstallGoes' /\ SkillGoes'
      BY <2>2, <2>3, ApartStays, AsReadStays, InstallGoesOn, UninstallGoesOn, SkillGoesOn
    <3>3. Installs!PluginsAgree' /\ Installs!SkillsAgree'
      BY <2>2, <2>3, PluginsAgreeOn, SkillsAgreeOn
    <3>4. QED
      BY <3>1, <3>2, <3>3 DEF InstallsInv, Typed, Installs!InstalledAgrees
  <2>4. CASE UNCHANGED installs
    BY <2>2, <2>4 DEF installs, InstallsInv, Typed, InstallType, AdderType, UninstallType, Apart, AsRead, InstallGoes,
       UninstallGoes, SkillGoes, Installs!InstalledAgrees, Installs!PluginsAgree, Installs!SkillsAgree, Installs!Settled,
       Installs!OnIt, Installs!Diagnosed
  <2>5. CASE crossed'
    BY <2>5 DEF InstallsInv
  <2>6. QED
    BY <2>2, <2>3, <2>4, <2>5
<1>3. QED
  BY <1>1, <1>2, PTL DEF PartsSpec

-----------------------------------------------------------------------------
\* The repository of extensions and what is installed in a container keep what they
\* promise.  As long as nobody replaces an index another has changed, a directory has
\* its row and a row that owns one its directory, but for what is in work or was left
\* in the middle, and what a user imported stays until the user takes it away.  As
\* long as no two work on one plugin, the manifest, the files and the records agree
\* of every plugin whose last operation ended well, and the directories and the
\* records of every such skill.
THEOREM RepositorySoundHolds == PartsSpec => []RepositorySound
<1>1. (part = "repository" => RepositoryInv) /\ (part = "installs" => InstallsInv) => RepositorySound
  <2>1. ASSUME part = "installs" => InstallsInv
        PROVE  Of("installs", Installs!InstalledAgrees)
    BY <2>1 DEF InstallsInv, Installs!InstalledAgrees, Of
  <2>2. ASSUME part = "repository" => RepositoryInv
        PROVE  Of("repository", Repository!RepositorySound)
    BY <2>2, RowsMatched DEF Of
  <2>3. QED
    BY <2>1, <2>2 DEF RepositorySound
<1>2. QED
  BY <1>1, RepositoryHolds, InstallsHolds, PTL
=============================================================================
