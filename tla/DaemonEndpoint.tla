--------------------------- MODULE DaemonEndpoint ---------------------------
(***************************************************************************)
(* How the daemon is started, found and stopped: run, the single instance  *)
(* check and the shutdown of dshboxd/main.rs, the discovery file of        *)
(* box-server-core, the client of box-client, and what the desktop does    *)
(* about a daemon when it starts (desktop/app/services.rs).  The discovery *)
(* file is all that processes know of each other.  That the loopback       *)
(* connect of a living daemon times out is left out.                       *)
(***************************************************************************)
EXTENDS Naturals, FiniteSets

CONSTANTS
  Daemon,    \* processes that may be started
  Ours,      \* those of the build of the desktop
  Port,
  MaxForeign \* how often another program takes a port

VARIABLES
  daemons,   \* where every process is, its port, and the record it read
  discovery, \* the discovery file
  temporary, \* discovery.json.tmp
  foreign,   \* the ports that other programs listen on
  takes,
  finder,    \* a client that looks for the daemon
  notice,    \* what the desktop says of the daemon it found: nothing, or that it is stale
  raced      \* while a daemon started another one did, or was stopped
endpointVars == <<daemons, discovery, temporary, foreign, takes, finder, notice, raced>>

NoRecord == [by |-> "none", port |-> 0]
NotStarted == [at |-> "none", port |-> 0, saw |-> NoRecord]
Looking == [at |-> "idle", saw |-> NoRecord, with |-> "none", spawned |-> FALSE]

EndpointInit ==
  /\ daemons = [d \in Daemon |-> NotStarted]
  /\ discovery = NoRecord /\ temporary = NoRecord /\ foreign = {} /\ takes = 0
  /\ finder = Looking /\ notice = "none" /\ raced = FALSE

In(d, steps) == daemons[d].at \in steps
\* What a process read, and its port, are its own until it needs them no more.
Goes(d, step) ==
  daemons' = [daemons EXCEPT ![d] = [at |-> step, saw |-> NoRecord,
                                     port |-> IF step \in {"dead", "refused"} THEN 0 ELSE @.port]]
Starting == {"probe", "dial", "clear", "load", "bound", "named"}
Hurries == raced' = (raced \/ \E e \in Daemon : In(e, Starting))
Listens(d) == In(d, {"bound", "named", "serving", "stopping", "leaving"})
Taken == foreign \cup {daemons[d].port : d \in {e \in Daemon : Listens(e)}}
Files == <<discovery, temporary>>
Others == UNCHANGED <<foreign, takes, finder, notice, raced>>
-----------------------------------------------------------------------------
(* run *)

Spawns(d) ==
  /\ In(d, {"none"}) /\ Goes(d, "probe")
  /\ raced' = (raced \/ \E e \in Daemon : In(e, Starting \cup {"stopping", "leaving"}))
\* The service manager, a user, or another client.
Starts(d) == Spawns(d) /\ UNCHANGED <<foreign, takes, finder, notice>> /\ UNCHANGED Files

\* ensure_single_instance: a record, a connect to its port, and the record removed
\* when nobody answers.
Probes(d) ==
  /\ In(d, {"probe"})
  /\ daemons' = [daemons EXCEPT ![d].saw = discovery, ![d].at = IF discovery = NoRecord THEN "load" ELSE "dial"]
  /\ UNCHANGED Files /\ Others
\* seeded fault: whatever is recorded is stale.
DialsNobody(d) == In(d, {"dial"}) /\ Goes(d, "clear") /\ UNCHANGED Files /\ Others
Dials(d) ==
  /\ In(d, {"dial"}) /\ Goes(d, IF daemons[d].saw.port \in Taken THEN "refused" ELSE "clear")
  /\ UNCHANGED Files /\ Others
Clears(d) ==
  /\ In(d, {"clear"}) /\ discovery' = NoRecord /\ Goes(d, "load") /\ UNCHANGED temporary /\ Others
LoadFails(d) == In(d, {"load"}) /\ Goes(d, "dead") /\ UNCHANGED Files /\ Others
Binds(d) ==
  /\ In(d, {"load"})
  /\ \E p \in Port \ Taken : daemons' = [daemons EXCEPT ![d].at = "bound", ![d].port = p]
  /\ UNCHANGED Files /\ Others
\* write_discovery: one temporary name for all, then the rename; a rename that fails
\* ends the process.
WritesRecord(d) ==
  /\ In(d, {"bound"}) /\ temporary' = [by |-> d, port |-> daemons[d].port] /\ Goes(d, "named")
  /\ UNCHANGED discovery /\ Others
Publishes(d) ==
  /\ In(d, {"named"}) /\ temporary' = NoRecord
  /\ IF temporary = NoRecord THEN Goes(d, "dead") /\ UNCHANGED discovery
     ELSE Goes(d, "serving") /\ discovery' = temporary
  /\ Others

\* A signal: everything it runs is stopped first, and it still answers.
ShutsDown(d) ==
  /\ In(d, {"serving"}) /\ Goes(d, "stopping") /\ Hurries
  /\ UNCHANGED <<foreign, takes, finder, notice>> /\ UNCHANGED Files
remove_discovery(d) ==
  /\ In(d, {"stopping"}) /\ Goes(d, "leaving") /\ discovery' = NoRecord /\ UNCHANGED temporary /\ Others
\* The thread that listens removes the file as well, before or after the other one.
RemovesAgain(d) ==
  /\ In(d, {"leaving"}) /\ discovery # NoRecord /\ discovery' = NoRecord
  /\ UNCHANGED <<daemons, temporary>> /\ Others
Exits(d) == In(d, {"leaving"}) /\ Goes(d, "dead") /\ UNCHANGED Files /\ Others
Crashes(d) == ~In(d, {"none", "dead", "refused"}) /\ Goes(d, "dead") /\ UNCHANGED Files /\ Others
-----------------------------------------------------------------------------
(* RpcClient::connect, spawn_daemon_fallback and reconcile_daemon_build *)

\* seeded fault: whoever listens there answers.
AnswersAny(d, r) == Listens(d) /\ ~In(d, {"bound", "named"}) /\ r.port = daemons[d].port
\* Only the daemon that wrote a record knows its token.
Answers(d, r) == Listens(d) /\ ~In(d, {"bound", "named"}) /\ r.by = d /\ r.port = daemons[d].port
Finds(f) == finder' = f /\ UNCHANGED <<foreign, takes, raced>> /\ UNCHANGED Files

read_discovery ==
  /\ finder.at = "idle" /\ discovery # NoRecord /\ Finds([finder EXCEPT !.at = "ping", !.saw = discovery])
  /\ UNCHANGED <<daemons, notice>>
ping(d) ==
  /\ finder.at = "ping" /\ Answers(d, finder.saw)
  /\ finder' = [finder EXCEPT !.at = "found", !.with = d, !.spawned = FALSE]
  /\ UNCHANGED <<daemons, notice, foreign, takes, raced>> /\ UNCHANGED Files
PingFails ==
  /\ finder.at = "ping" /\ ~\E d \in Daemon : Answers(d, finder.saw)
  /\ Finds([finder EXCEPT !.at = IF finder.spawned THEN "idle" ELSE "spawn"]) /\ UNCHANGED <<daemons, notice>>
NoneThere ==
  /\ finder.at = "idle" /\ discovery = NoRecord /\ ~finder.spawned /\ Finds([finder EXCEPT !.at = "spawn"])
  /\ UNCHANGED <<daemons, notice>>
spawn_daemon(d) ==
  /\ finder.at = "spawn" /\ Spawns(d) /\ finder' = [Looking EXCEPT !.spawned = TRUE]
  /\ UNCHANGED <<foreign, takes, notice>> /\ UNCHANGED Files
\* Three seconds are over.
GivesUp ==
  /\ finder.at = "idle" /\ finder.spawned /\ Finds(Looking) /\ UNCHANGED <<daemons, notice>>
record_daemon_build(d) == notice' = IF d \in Ours THEN "none" ELSE "stale"
\* The desktop compares the builds, and says so; nothing is stopped or started.
reconcile_daemon_build ==
  /\ finder.at = "found" /\ Answers(finder.with, finder.saw)
  /\ record_daemon_build(finder.with)
  /\ Finds(Looking) /\ UNCHANGED daemons
\* stop_user_service where there is no service manager: it is asked to, and killed
\* when it does not go.  A daemon that is asked removes the file and leaves at once.
AsksToStop ==
  /\ finder.at = "found" /\ In(finder.with, {"serving"})
  /\ discovery' = NoRecord /\ Goes(finder.with, "leaving") /\ finder' = Looking
  /\ Hurries /\ UNCHANGED <<temporary, foreign, takes, notice>>
Lets == finder.at = "found" /\ Finds(Looking) /\ UNCHANGED <<daemons, notice>>

\* Other programs of the machine take ports, and leave them.
TakesPort(p) ==
  /\ p \in Port \ Taken /\ takes < MaxForeign /\ takes' = takes + 1 /\ foreign' = foreign \cup {p}
  /\ UNCHANGED <<daemons, finder, notice, raced>> /\ UNCHANGED Files
LeavesPort(p) ==
  /\ p \in foreign /\ foreign' = foreign \ {p}
  /\ UNCHANGED <<daemons, takes, finder, notice, raced>> /\ UNCHANGED Files

EndpointNext ==
  \/ \E d \in Daemon :
       \/ Starts(d) \/ Probes(d) \/ Dials(d) \/ Clears(d) \/ LoadFails(d) \/ Binds(d) \/ WritesRecord(d)
       \/ Publishes(d) \/ ShutsDown(d) \/ remove_discovery(d) \/ RemovesAgain(d) \/ Exits(d) \/ Crashes(d)
       \/ ping(d) \/ spawn_daemon(d)
  \/ read_discovery \/ PingFails \/ NoneThere \/ GivesUp \/ reconcile_daemon_build \/ AsksToStop \/ Lets
  \/ \E p \in Port : TakesPort(p) \/ LeavesPort(p)
EndpointSpec == EndpointInit /\ [][EndpointNext]_endpointVars
-----------------------------------------------------------------------------
Serving == {d \in Daemon : In(d, {"serving", "stopping"})}
\* One daemon at most serves (main.rs 547-558), as long as they are started one
\* after the other, whatever crashed in between.
OneServing == ~raced => Cardinality(Serving) <= 1
\* And the file names it, so that it is found.
ServedIsFound == ~raced => \A d \in Serving : discovery = [by |-> d, port |-> daemons[d].port]
\* A client talks to the daemon of the record it read, also when its port went to
\* another one: it is asked for with the token of the record.
FoundIsNamed == finder.at = "found" => finder.with = finder.saw.by
EndpointSound == OneServing /\ ServedIsFound /\ FoundIsNamed

\* However they are started.  Both fail: see the README.
OneDaemon == Cardinality(Serving) <= 1
FileIsAlive == \A d \in Daemon : discovery.by = d => ~In(d, {"named", "bound"})
\* A daemon is refused only for another daemon (main.rs 551-553).  It fails: see
\* the README.
RefusedForADaemon ==
  [][\A d \in Daemon : (daemons'[d].at = "refused" /\ In(d, {"dial"})) => \E e \in Daemon : Listens(e)]_endpointVars
\* A daemon of the build of the desktop is not called stale.  It fails: see the README.
NoticeIsCurrent == (notice = "stale" /\ Serving # {}) => Serving \ Ours # {}
=============================================================================
