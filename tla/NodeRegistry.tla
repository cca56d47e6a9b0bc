---------------------------- MODULE NodeRegistry ----------------------------
(***************************************************************************)
(* dshboxd's node registry (NodeManager): enroll grants, registration,     *)
(* sessions, heartbeats, the sweep, deregistration, the SSE streams opened *)
(* with a session, and daemon restarts.                                    *)
(*                                                                         *)
(* The rows live in the document store, which offers load and upsert of a  *)
(* whole record and no compare-and-set; sessions and grants are two maps   *)
(* under two mutexes.  Every handler runs on a connection thread of its    *)
(* own, so an action is one access to one of them and a handler is several *)
(* actions.  Sessions die with the daemon, so the epoch a session carries  *)
(* is always the current one and is left out.                              *)
(***************************************************************************)
EXTENDS Naturals

CONSTANTS
  Node,         \* node ids
  Host,         \* the id reserved for the daemon itself
  Token,        \* enroll grants; the session a grant buys has the grant's name
  NodeOf,       \* the node id each grant is asked for
  NoToken,
  OfflineAfter, \* OFFLINE_AFTER_SECONDS, in ticks of the clock
  MaxClock,     \* bound on the clock
  MaxCrashes,   \* bound on daemon crashes
  Calls         \* what helpers, the control plane and the sweeper do

ASSUME NodeAssumption ==
  /\ Host \in Node
  /\ NodeOf \in [Token -> Node]
  /\ NoToken \notin Token
  /\ OfflineAfter \in Nat /\ MaxClock \in Nat /\ MaxCrashes \in Nat
  /\ Calls \subseteq {"heartbeat", "deregister", "sweep", "stream"}

VARIABLES
  rows,     \* the registry in the store
  sessions, \* the live session of each node
  grants,   \* enroll grants not yet consumed
  issued,   \* every grant ever minted
  streams,  \* SSE streams, by the bearer they were opened with
  reg,      \* the node_register call of each grant
  beat,     \* the node_heartbeat call of each session
  dereg,    \* the node_deregister call for each node
  sweeper,  \* the sweep thread
  up, clock, crashes

calls == <<reg, beat, dereg, sweeper>>
vars  == <<rows, sessions, grants, issued, streams, calls, up, clock, crashes>>

\* enrolled and seen are seconds: two calls can share one.
Row == [status : {"none", "registering", "online", "offline"},
        enrolled : 0..MaxClock, seen : 0..MaxClock]
NoRow   == [status |-> "none", enrolled |-> 0, seen |-> 0]
HostRow == [status |-> "online", enrolled |-> 0, seen |-> 0]

NoCall == [at |-> "idle", now |-> 0, copy |-> NoRow]
Call(points) == [at : points, now : 0..MaxClock, copy : Row]
NoSweep == [at |-> "idle", todo |-> {}, node |-> Host, copy |-> NoRow]

Init ==
  /\ rows = [n \in Node |-> IF n = Host THEN HostRow ELSE NoRow]
  /\ sessions = [n \in Node |-> NoToken]
  /\ grants = {} /\ issued = {} /\ streams = {}
  /\ reg = [g \in Token |-> NoCall]
  /\ beat = [g \in Token |-> NoCall]
  /\ dereg = [n \in Node |-> "idle"]
  /\ sweeper = NoSweep
  /\ up = TRUE /\ clock = 0 /\ crashes = 0

Put(n, row) == rows' = [rows EXCEPT ![n] = row]
-----------------------------------------------------------------------------
(* enroll and register. *)

\* seeded fault: the id of the host node is not reserved.
EnrollAnyId(g) ==
  /\ up /\ g \notin issued
  /\ issued' = issued \cup {g} /\ grants' = grants \cup {g}
  /\ UNCHANGED <<rows, sessions, streams, calls, up, clock, crashes>>

Enroll(g) ==
  /\ up /\ g \notin issued
  /\ NodeOf[g] # Host
  /\ issued' = issued \cup {g} /\ grants' = grants \cup {g}
  /\ UNCHANGED <<rows, sessions, streams, calls, up, clock, crashes>>

\* A grant's time runs out, and the sweep or a late register drops it.
Expire(g) ==
  /\ up /\ g \in grants
  /\ grants' = grants \ {g}
  /\ UNCHANGED <<rows, sessions, issued, streams, calls, up, clock, crashes>>

\* Bound: no node registers so late that the clock could not find it stale.
EarlyEnough == clock + OfflineAfter < MaxClock

\* register takes the grant out of the map, once and for all ...
Consume(g) ==
  /\ up /\ g \in grants
  /\ EarlyEnough
  /\ grants' = grants \ {g}
  /\ reg' = [reg EXCEPT ![g] = [NoCall EXCEPT !.at = "consumed", !.now = clock]]
  /\ UNCHANGED <<rows, sessions, issued, streams, beat, dereg, sweeper, up, clock, crashes>>

\* ... writes the record as registering ...
WriteRegistering(g) ==
  /\ reg[g].at = "consumed"
  /\ Put(NodeOf[g], [status |-> "registering", enrolled |-> reg[g].now, seen |-> reg[g].now])
  /\ reg' = [reg EXCEPT ![g].at = "written"]
  /\ UNCHANGED <<sessions, grants, issued, streams, beat, dereg, sweeper, up, clock, crashes>>

\* ... puts the session in its map, replacing the one that was there ...
InsertSession(g) ==
  /\ reg[g].at = "written"
  /\ sessions' = [sessions EXCEPT ![NodeOf[g]] = g]
  /\ reg' = [reg EXCEPT ![g].at = "sessioned"]
  /\ UNCHANGED <<rows, grants, issued, streams, beat, dereg, sweeper, up, clock, crashes>>

\* ... reads the record back, goes on only if it is the one it wrote ...
CheckOwnRecord(g) ==
  LET row == rows[NodeOf[g]]
  IN /\ reg[g].at = "sessioned"
     /\ reg' = [reg EXCEPT ![g] =
          IF row.status = "registering" /\ row.enrolled = reg[g].now
          THEN [@ EXCEPT !.at = "promoting", !.copy = row]
          ELSE [NoCall EXCEPT !.at = "answered"]]
     /\ UNCHANGED <<rows, sessions, grants, issued, streams, beat, dereg, sweeper, up, clock, crashes>>

\* ... and writes its copy back as online.
Promote(g) ==
  /\ reg[g].at = "promoting"
  /\ Put(NodeOf[g], [reg[g].copy EXCEPT !.status = "online", !.seen = clock])
  /\ reg' = [reg EXCEPT ![g] = [NoCall EXCEPT !.at = "answered"]]
  /\ UNCHANGED <<sessions, grants, issued, streams, beat, dereg, sweeper, up, clock, crashes>>
-----------------------------------------------------------------------------
(* node_heartbeat: the session is checked, the record is read, the copy is  *)
(* written back as online.  A helper knows its session once register        *)
(* answered.                                                                *)

SessionLive(g) == sessions[NodeOf[g]] = g

Authenticate(g) ==
  /\ "heartbeat" \in Calls
  /\ up /\ reg[g].at = "answered" /\ beat[g].at = "idle" /\ SessionLive(g)
  /\ beat' = [beat EXCEPT ![g].at = "authed"]
  /\ UNCHANGED <<rows, sessions, grants, issued, streams, reg, dereg, sweeper, up, clock, crashes>>

ReadForBeat(g) ==
  LET row == rows[NodeOf[g]]
  IN /\ beat[g].at = "authed"
     /\ beat' = [beat EXCEPT ![g] = IF row = NoRow \/ NodeOf[g] = Host THEN NoCall
                                    ELSE [@ EXCEPT !.at = "read", !.copy = row]]
     /\ UNCHANGED <<rows, sessions, grants, issued, streams, reg, dereg, sweeper, up, clock, crashes>>

WriteBeat(g) ==
  /\ beat[g].at = "read"
  /\ Put(NodeOf[g], [beat[g].copy EXCEPT !.status = "online", !.seen = clock])
  /\ beat' = [beat EXCEPT ![g] = NoCall]
  /\ UNCHANGED <<sessions, grants, issued, streams, reg, dereg, sweeper, up, clock, crashes>>
-----------------------------------------------------------------------------
(* node_deregister, by the helper's session or by the control plane: the    *)
(* record is looked up, its row goes, its session goes.                     *)

LookUp(n) ==
  /\ "deregister" \in Calls
  /\ up /\ dereg[n] = "idle" /\ rows[n] # NoRow /\ n # Host
  /\ dereg' = [dereg EXCEPT ![n] = "found"]
  /\ UNCHANGED <<rows, sessions, grants, issued, streams, reg, beat, sweeper, up, clock, crashes>>

\* seeded fault: the record is marked instead of deleted.
MarkRow(n) ==
  /\ dereg[n] = "found"
  /\ Put(n, [rows[n] EXCEPT !.status = "removed"])
  /\ dereg' = [dereg EXCEPT ![n] = "deleted"]
  /\ UNCHANGED <<sessions, grants, issued, streams, reg, beat, sweeper, up, clock, crashes>>

DeleteRow(n) ==
  /\ dereg[n] = "found"
  /\ Put(n, NoRow)
  /\ dereg' = [dereg EXCEPT ![n] = "deleted"]
  /\ UNCHANGED <<sessions, grants, issued, streams, reg, beat, sweeper, up, clock, crashes>>

DropSession(n) ==
  /\ dereg[n] = "deleted"
  /\ sessions' = [sessions EXCEPT ![n] = NoToken]
  /\ dereg' = [dereg EXCEPT ![n] = "idle"]
  /\ UNCHANGED <<rows, grants, issued, streams, reg, beat, sweeper, up, clock, crashes>>
-----------------------------------------------------------------------------
(* The sweep thread: list what is stale, then set_status one by one, which  *)
(* reads the record again and writes its copy back as offline.              *)

IsStale(n) == clock > rows[n].seen + OfflineAfter

\* seeded fault: only online records expire.
StaleOnline == {n \in Node \ {Host} : rows[n].status = "online" /\ IsStale(n)}

Stale == {n \in Node \ {Host} : rows[n].status \in {"online", "registering"} /\ IsStale(n)}

ListStale ==
  /\ "sweep" \in Calls
  /\ up /\ sweeper.at = "idle" /\ Stale # {}
  /\ sweeper' = [NoSweep EXCEPT !.at = "marking", !.todo = Stale]
  /\ UNCHANGED <<rows, sessions, grants, issued, streams, reg, beat, dereg, up, clock, crashes>>

ReadForMark(n) ==
  /\ sweeper.at = "marking" /\ n \in sweeper.todo
  /\ sweeper' = IF rows[n] = NoRow
                THEN [sweeper EXCEPT !.todo = @ \ {n}]
                ELSE [at |-> "writing", todo |-> sweeper.todo \ {n}, node |-> n, copy |-> rows[n]]
  /\ UNCHANGED <<rows, sessions, grants, issued, streams, reg, beat, dereg, up, clock, crashes>>

WriteOffline ==
  /\ sweeper.at = "writing"
  /\ Put(sweeper.node, [sweeper.copy EXCEPT !.status = "offline"])
  /\ sweeper' = [NoSweep EXCEPT !.at = "marking", !.todo = sweeper.todo]
  /\ UNCHANGED <<sessions, grants, issued, streams, reg, beat, dereg, up, clock, crashes>>

SweepEnds ==
  /\ sweeper.at = "marking" /\ sweeper.todo = {}
  /\ sweeper' = NoSweep
  /\ UNCHANGED <<rows, sessions, grants, issued, streams, reg, beat, dereg, up, clock, crashes>>
-----------------------------------------------------------------------------
(* GET /events with a session token, and the check an open stream repeats   *)
(* every REVOKE_CHECK_INTERVAL and before every event.                      *)

OpenStream(g) ==
  /\ "stream" \in Calls
  /\ up /\ reg[g].at = "answered" /\ SessionLive(g)
  /\ streams' = streams \cup {g}
  /\ UNCHANGED <<rows, sessions, grants, issued, calls, up, clock, crashes>>

\* seeded fault: has_session, any session of the node will do.
StillMatchesNode(g) == sessions[NodeOf[g]] # NoToken

\* session_still_matches: the very bearer the stream was opened with.
StillMatches(g) == SessionLive(g)

CloseRevoked(g) ==
  /\ up /\ g \in streams /\ ~StillMatches(g)
  /\ streams' = streams \ {g}
  /\ UNCHANGED <<rows, sessions, grants, issued, calls, up, clock, crashes>>
-----------------------------------------------------------------------------
(* The daemon process and time. *)

\* The rows are durable; a helper's register call does not outlive the daemon.
Crash ==
  /\ up /\ crashes < MaxCrashes
  /\ up' = FALSE
  /\ crashes' = crashes + 1
  /\ sessions' = [n \in Node |-> NoToken]
  /\ grants' = {} /\ streams' = {}
  /\ reg' = [g \in Token |-> NoCall]
  /\ beat' = [g \in Token |-> NoCall]
  /\ dereg' = [n \in Node |-> "idle"]
  /\ sweeper' = NoSweep
  /\ UNCHANGED <<rows, issued, clock>>

\* seeded fault: the rows are taken as they were left.
Reloaded(n) == IF n = Host THEN [rows[n] EXCEPT !.status = "online"] ELSE rows[n]

\* upsert_host_node and demote_orphans_after_restart, before the listener.
Loaded(n) ==
  IF n = Host THEN [rows[n] EXCEPT !.status = "online"]
  ELSE IF rows[n].status = "online" THEN [rows[n] EXCEPT !.status = "offline"]
  ELSE rows[n]

Start ==
  /\ ~up
  /\ up' = TRUE
  /\ rows' = [n \in Node |-> Loaded(n)]
  /\ UNCHANGED <<sessions, grants, issued, streams, calls, clock, crashes>>

Tick ==
  /\ clock < MaxClock
  /\ clock' = clock + 1
  /\ UNCHANGED <<rows, sessions, grants, issued, streams, calls, up, crashes>>

Registering(g) ==
  WriteRegistering(g) \/ InsertSession(g) \/ CheckOwnRecord(g) \/ Promote(g)
Beating(g) == ReadForBeat(g) \/ WriteBeat(g)
Deregistering(n) == DeleteRow(n) \/ DropSession(n)
Sweeping == ListStale \/ (\E n \in Node : ReadForMark(n)) \/ WriteOffline \/ SweepEnds

Next ==
  \/ \E g \in Token :
       \/ Enroll(g) \/ Expire(g) \/ Consume(g) \/ Registering(g)
       \/ Authenticate(g) \/ Beating(g)
       \/ OpenStream(g) \/ CloseRevoked(g)
  \/ \E n \in Node : LookUp(n) \/ Deregistering(n)
  \/ Sweeping
  \/ Crash \/ Start \/ Tick

Spec == Init /\ [][Next]_vars

\* Threads that began a call go on, the sweeper and the streams' checks are
\* loops, the daemon is started again, and time passes.  Nothing makes a helper
\* call again.
FairSpec ==
  /\ Spec
  /\ \A g \in Token : /\ WF_vars(Registering(g)) /\ WF_vars(Beating(g))
                      /\ WF_vars(CloseRevoked(g))
  /\ \A n \in Node : WF_vars(Deregistering(n))
  /\ WF_vars(Sweeping) /\ WF_vars(Start) /\ WF_vars(Tick)
-----------------------------------------------------------------------------
(* Properties. *)

TypeOK ==
  /\ rows \in [Node -> Row]
  /\ sessions \in [Node -> Token \cup {NoToken}]
  /\ grants \subseteq issued /\ issued \subseteq Token /\ streams \subseteq Token
  /\ reg \in [Token -> Call({"idle", "consumed", "written", "sessioned", "promoting", "answered"})]
  /\ beat \in [Token -> Call({"idle", "authed", "read"})]
  /\ dereg \in [Node -> {"idle", "found", "deleted"}]
  /\ sweeper \in [at : {"idle", "marking", "writing"}, todo : SUBSET Node, node : Node, copy : Row]
  /\ up \in BOOLEAN /\ clock \in 0..MaxClock /\ crashes \in 0..MaxCrashes

\* The daemon's own record stays there and stays online, whatever ids helpers
\* ask for and whoever deregisters what.
HostProtected == rows[Host].status = "online"

\* A node that reads online can be reached: it has a live session (the order
\* register keeps on purpose, and the demotion at load).
OnlineHasSession ==
  \A n \in Node \ {Host} : up /\ rows[n].status = "online" => sessions[n] # NoToken

Quiet(n) == dereg[n] = "idle" /\ \A g \in Token : NodeOf[g] = n => reg[g].at \in {"idle", "answered"}

\* Revocation revokes: with no call in flight, a session belongs to a node that
\* is in the registry.
SessionHasNode ==
  \A n \in Node : Quiet(n) /\ sessions[n] # NoToken => rows[n] # NoRow

\* A node that was removed comes back only by registering again.
RemovedStaysRemoved ==
  [][\A n \in Node : rows[n] = NoRow /\ rows'[n] # NoRow =>
       \E g \in Token : NodeOf[g] = n /\ reg[g].at = "consumed" /\ reg'[g].at = "written"]_vars

\* Only a node whose last sign of life is older than the threshold is marked
\* offline, as long as the daemon runs.
OnlyStaleGoOffline ==
  [][\A n \in Node : up /\ rows[n].status = "online" /\ rows'[n].status = "offline" => IsStale(n)]_vars

\* A helper that died between its record and its session does not stay
\* registering forever.
RegisteringEnds ==
  \A n \in Node : rows[n].status = "registering" ~> rows[n].status # "registering"

\* An open stream whose bearer is no longer the node's session is closed, also
\* when another helper registered under the same id.
RevokedStreamsClose ==
  \A g \in Token : g \in streams /\ ~SessionLive(g) ~> g \notin streams
=============================================================================
