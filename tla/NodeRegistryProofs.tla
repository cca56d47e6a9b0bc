------------------------- MODULE NodeRegistryProofs -------------------------
(***************************************************************************)
(* Theorems about NodeRegistry for every set of nodes and grants, every    *)
(* choice of the ids grants are asked for, any threshold and any number of *)
(* daemon crashes.                                                         *)
(***************************************************************************)
EXTENDS NodeRegistry, TLAPS

USE NodeAssumption

-----------------------------------------------------------------------------
(* Type correctness. *)

LEMMA Rows ==
  /\ 0 \in 0..MaxClock /\ NoRow \in Row /\ HostRow \in Row
  /\ \A r \in Row, s \in {"online", "offline", "registering"} :
       [r EXCEPT !.status = s] \in Row /\ [r EXCEPT !.status = s].status = s
  /\ \A r \in Row, t \in 0..MaxClock :
       /\ [r EXCEPT !.status = "online", !.seen = t] \in Row
       /\ [r EXCEPT !.status = "online", !.seen = t].status = "online"
       /\ [status |-> "registering", enrolled |-> t, seen |-> t] \in Row
<1>1. 0 \in 0..MaxClock /\ NoRow \in Row /\ HostRow \in Row
  BY DEF Row, NoRow, HostRow
<1>2. ASSUME NEW r \in Row, NEW s \in {"online", "offline", "registering"}
      PROVE  [r EXCEPT !.status = s] \in Row /\ [r EXCEPT !.status = s].status = s
  BY DEF Row
<1>3. ASSUME NEW r \in Row, NEW t \in 0..MaxClock
      PROVE  /\ [r EXCEPT !.status = "online", !.seen = t] \in Row
             /\ [r EXCEPT !.status = "online", !.seen = t].status = "online"
             /\ [status |-> "registering", enrolled |-> t, seen |-> t] \in Row
  BY DEF Row
<1>4. QED
  BY <1>1, <1>2, <1>3

LEMMA CallFields ==
  ASSUME NEW points, NEW c \in Call(points)
  PROVE  c.at \in points /\ c.now \in 0..MaxClock /\ c.copy \in Row
BY DEF Call

LEMMA CallRecords ==
  ASSUME NEW points, NEW p \in points, NEW t \in 0..MaxClock, NEW r \in Row
  PROVE  /\ [NoCall EXCEPT !.at = p] \in Call(points)
         /\ [NoCall EXCEPT !.at = p, !.now = t] \in Call(points)
         /\ "idle" \in points => NoCall \in Call(points)
         /\ \A c \in Call(points) :
              /\ [c EXCEPT !.at = p] \in Call(points)
              /\ [c EXCEPT !.at = p, !.copy = r] \in Call(points)
<1>1. NoRow \in Row /\ 0 \in 0..MaxClock
  BY Rows
<1>2. [NoCall EXCEPT !.at = p] \in Call(points)
  BY <1>1 DEF Call, NoCall
<1>3. [NoCall EXCEPT !.at = p, !.now = t] \in Call(points)
  BY <1>1 DEF Call, NoCall
<1>4. "idle" \in points => NoCall \in Call(points)
  BY <1>1 DEF Call, NoCall
<1>5. ASSUME NEW c \in Call(points)
      PROVE  /\ [c EXCEPT !.at = p] \in Call(points)
             /\ [c EXCEPT !.at = p, !.copy = r] \in Call(points)
  BY DEF Call
<1>6. QED
  BY <1>2, <1>3, <1>4, <1>5

LEMMA TypeStep == TypeOK /\ [Next]_vars => TypeOK'
<1> SUFFICES ASSUME TypeOK, [Next]_vars PROVE TypeOK'
  OBVIOUS
<1> DEFINE RP == {"idle", "consumed", "written", "sessioned", "promoting", "answered"}
           BP == {"idle", "authed", "read"}
<1>a. /\ reg \in [Token -> Call(RP)] /\ beat \in [Token -> Call(BP)]
      /\ rows \in [Node -> Row] /\ clock \in 0..MaxClock
  BY DEF TypeOK
<1>b. NoCall \in Call(RP) /\ NoCall \in Call(BP)
  BY <1>a, CallRecords, Rows
<1> USE DEF TypeOK
<1>1. ASSUME NEW g \in Token, Enroll(g) \/ Expire(g) \/ Consume(g) PROVE TypeOK'
  <2>1. CASE Enroll(g)
    BY <2>1 DEF Enroll, calls
  <2>2. CASE Expire(g)
    BY <2>2 DEF Expire, calls
  <2>3. CASE Consume(g)
    <3>1. [NoCall EXCEPT !.at = "consumed", !.now = clock] \in Call(RP)
      BY <1>a, <1>b, CallRecords, Rows
    <3>2. QED
      BY <2>3, <3>1, <1>a DEF Consume
  <2>4. QED
    BY <1>1, <2>1, <2>2, <2>3
<1>2. ASSUME NEW g \in Token, Registering(g) PROVE TypeOK'
  <2>a. /\ reg[g] \in Call(RP) /\ NodeOf[g] \in Node
        /\ reg[g].now \in 0..MaxClock /\ reg[g].copy \in Row
    BY <1>a, CallFields
  <2>1. CASE WriteRegistering(g)
    <3>1. [status |-> "registering", enrolled |-> reg[g].now, seen |-> reg[g].now] \in Row
      BY <2>a, CallRecords, Rows
    <3>2. [reg[g] EXCEPT !.at = "written"] \in Call(RP)
      BY <2>a, CallRecords, Rows, <1>a
    <3>3. QED
      BY <2>1, <3>1, <3>2, <1>a, <2>a DEF WriteRegistering, Put
  <2>2. CASE InsertSession(g)
    <3>1. [reg[g] EXCEPT !.at = "sessioned"] \in Call(RP)
      BY <2>a, CallRecords, Rows, <1>a
    <3>2. QED
      BY <2>2, <3>1, <1>a, <2>a DEF InsertSession
  <2>3. CASE CheckOwnRecord(g)
    <3>1. /\ [reg[g] EXCEPT !.at = "promoting", !.copy = rows[NodeOf[g]]] \in Call(RP)
          /\ [NoCall EXCEPT !.at = "answered"] \in Call(RP)
      BY <2>a, CallRecords, <1>a
    <3>2. QED
      BY <2>3, <3>1, <1>a, <2>a DEF CheckOwnRecord
  <2>4. CASE Promote(g)
    <3>1. [reg[g].copy EXCEPT !.status = "online", !.seen = clock] \in Row
      BY <2>a, CallRecords, Rows, <1>a
    <3>2. [NoCall EXCEPT !.at = "answered"] \in Call(RP)
      BY <2>a, CallRecords, Rows, <1>a
    <3>3. QED
      BY <2>4, <3>1, <3>2, <1>a, <2>a DEF Promote, Put
  <2>5. QED
    BY <1>2, <2>1, <2>2, <2>3, <2>4 DEF Registering
<1>3. ASSUME NEW g \in Token, Authenticate(g) \/ Beating(g) PROVE TypeOK'
  <2>a. beat[g] \in Call(BP) /\ NodeOf[g] \in Node /\ beat[g].copy \in Row
    BY <1>a, CallFields
  <2>1. CASE Authenticate(g)
    <3>1. [beat[g] EXCEPT !.at = "authed"] \in Call(BP)
      BY <2>a, CallRecords, Rows, <1>a
    <3>2. QED
      BY <2>1, <3>1, <1>a, <2>a DEF Authenticate
  <2>2. CASE ReadForBeat(g)
    <3>1. [beat[g] EXCEPT !.at = "read", !.copy = rows[NodeOf[g]]] \in Call(BP)
      BY <2>a, CallRecords, <1>a
    <3>2. QED
      BY <2>2, <3>1, <1>a, <1>b, <2>a DEF ReadForBeat
  <2>3. CASE WriteBeat(g)
    <3>1. [beat[g].copy EXCEPT !.status = "online", !.seen = clock] \in Row
      BY <2>a, CallRecords, Rows, <1>a
    <3>2. QED
      BY <2>3, <3>1, <1>a, <1>b, <2>a DEF WriteBeat, Put
  <2>4. QED
    BY <1>3, <2>1, <2>2, <2>3 DEF Beating
<1>4. ASSUME NEW g \in Token, OpenStream(g) \/ CloseRevoked(g) PROVE TypeOK'
  BY <1>4 DEF OpenStream, CloseRevoked, calls
<1>5. ASSUME NEW n \in Node, LookUp(n) \/ Deregistering(n) PROVE TypeOK'
  <2>1. CASE LookUp(n)
    BY <2>1 DEF LookUp
  <2>2. CASE DeleteRow(n)
    BY <2>2, Rows DEF DeleteRow, Put
  <2>3. CASE DropSession(n)
    BY <2>3 DEF DropSession
  <2>4. QED
    BY <1>5, <2>1, <2>2, <2>3 DEF Deregistering
<1>6. CASE Sweeping
  <2>1. CASE ListStale
    BY <2>1, Rows DEF ListStale, Stale, NoSweep
  <2>2. ASSUME NEW n \in Node, ReadForMark(n) PROVE TypeOK'
    BY <2>2 DEF ReadForMark
  <2>3. CASE WriteOffline
    <3>1. [sweeper.copy EXCEPT !.status = "offline"] \in Row
      BY Rows, <1>a
    <3>2. QED
      BY <2>3, <3>1, Rows DEF WriteOffline, Put, NoSweep
  <2>4. CASE SweepEnds
    BY <2>4, Rows DEF SweepEnds, NoSweep
  <2>5. QED
    BY <1>6, <2>1, <2>2, <2>3, <2>4 DEF Sweeping
<1>7. CASE Crash \/ Start \/ Tick
  <2>1. CASE Crash
    <3>1. NoSweep \in [at : {"idle", "marking", "writing"}, todo : SUBSET Node, node : Node, copy : Row]
      BY Rows DEF NoSweep
    <3>2. crashes' \in 0..MaxCrashes
      BY <2>1 DEF Crash
    <3>3. QED
      BY <2>1, <1>b, <3>1, <3>2 DEF Crash
  <2>2. CASE Start
    <3>1. \A n \in Node : Loaded(n) \in Row
      BY <1>a, Rows DEF Loaded
    <3>2. QED
      BY <2>2, <3>1 DEF Start, calls
  <2>3. CASE Tick
    BY <2>3 DEF Tick, calls
  <2>4. QED
    BY <1>7, <2>1, <2>2, <2>3
<1>8. CASE UNCHANGED vars
  BY <1>8 DEF vars, calls
<1>9. QED
  BY <1>1, <1>2, <1>3, <1>4, <1>5, <1>6, <1>7, <1>8 DEF Next

\* Every variable of the registry keeps its type: a row, and every copy of a row
\* that a handler carries from its read to its write, stays a whole record.
THEOREM TypeCorrect == Spec => []TypeOK
<1>1. Init => TypeOK
  <2>1. NoCall \in Call({"idle", "consumed", "written", "sessioned", "promoting", "answered"})
    BY Rows, CallRecords
  <2>2. NoCall \in Call({"idle", "authed", "read"})
    BY Rows, CallRecords
  <2>3. NoSweep \in [at : {"idle", "marking", "writing"}, todo : SUBSET Node, node : Node, copy : Row]
    BY Rows DEF NoSweep
  <2>4. 0 \in 0..MaxClock /\ 0 \in 0..MaxCrashes
    OBVIOUS
  <2> SUFFICES ASSUME Init PROVE TypeOK
    OBVIOUS
  <2>5. rows \in [Node -> Row] /\ sessions \in [Node -> Token \cup {NoToken}]
    BY Rows DEF Init
  <2>6. /\ reg \in [Token -> Call({"idle", "consumed", "written", "sessioned", "promoting", "answered"})]
        /\ beat \in [Token -> Call({"idle", "authed", "read"})]
    BY <2>1, <2>2 DEF Init
  <2>7. dereg \in [Node -> {"idle", "found", "deleted"}] /\ up \in BOOLEAN
    BY DEF Init
  <2>8. QED
    BY <2>3, <2>4, <2>5, <2>6, <2>7 DEF Init, TypeOK
<1>2. QED
  BY <1>1, TypeStep, PTL DEF Spec

-----------------------------------------------------------------------------
(* The host's own record. *)

\* Nobody ever gets near the host's record: no grant is asked for under its id,
\* so no register or heartbeat call is about it, no deregistration finds it, and
\* the sweep lists and marks other nodes.
HostInv ==
  /\ HostProtected
  /\ \A g \in Token : NodeOf[g] = Host =>
       g \notin issued /\ reg[g].at = "idle" /\ beat[g].at = "idle"
  /\ dereg[Host] = "idle"
  /\ Host \notin sweeper.todo
  /\ sweeper.at = "writing" => sweeper.node # Host

LEMMA HostStep == TypeOK /\ HostInv /\ [Next]_vars => HostInv'
<1> SUFFICES ASSUME TypeOK, HostInv, [Next]_vars PROVE HostInv'
  OBVIOUS
<1>a. /\ reg \in [Token -> Call({"idle", "consumed", "written", "sessioned", "promoting", "answered"})]
      /\ beat \in [Token -> Call({"idle", "authed", "read"})]
      /\ rows \in [Node -> Row] /\ grants \subseteq issued
      /\ dereg \in [Node -> {"idle", "found", "deleted"}]
  BY DEF TypeOK
<1>b. NoCall.at = "idle" /\ NoSweep.at = "idle" /\ NoSweep.todo = {}
  BY DEF NoCall, NoSweep
<1> USE DEF HostInv, HostProtected
<1>1. ASSUME NEW g \in Token, Enroll(g) \/ Expire(g) \/ Consume(g) PROVE HostInv'
  <2>1. CASE Enroll(g)
    BY <2>1, <1>a DEF Enroll, calls
  <2>2. CASE Expire(g)
    BY <2>2, <1>a DEF Expire, calls
  <2>3. CASE Consume(g)
    BY <2>3, <1>a DEF Consume
  <2>4. QED
    BY <1>1, <2>1, <2>2, <2>3
<1>2. ASSUME NEW g \in Token, Registering(g) PROVE HostInv'
  <2>1. reg[g].at # "idle" => NodeOf[g] # Host
    OBVIOUS
  <2>2. CASE WriteRegistering(g)
    BY <2>1, <2>2, <1>a DEF WriteRegistering, Put
  <2>3. CASE InsertSession(g)
    BY <2>1, <2>3, <1>a DEF InsertSession
  <2>4. CASE CheckOwnRecord(g)
    BY <2>1, <2>4, <1>a DEF CheckOwnRecord
  <2>5. CASE Promote(g)
    BY <2>1, <2>5, <1>a DEF Promote, Put
  <2>6. QED
    BY <1>2, <2>2, <2>3, <2>4, <2>5 DEF Registering
<1>3. ASSUME NEW g \in Token, Authenticate(g) \/ Beating(g) PROVE HostInv'
  <2>1. reg[g].at # "idle" \/ beat[g].at # "idle" => NodeOf[g] # Host
    OBVIOUS
  <2>2. CASE Authenticate(g)
    BY <2>1, <2>2, <1>a DEF Authenticate
  <2>3. CASE ReadForBeat(g)
    BY <2>1, <2>3, <1>a, <1>b DEF ReadForBeat
  <2>4. CASE WriteBeat(g)
    BY <2>1, <2>4, <1>a, <1>b DEF WriteBeat, Put
  <2>5. QED
    BY <1>3, <2>2, <2>3, <2>4 DEF Beating
<1>4. ASSUME NEW g \in Token, OpenStream(g) \/ CloseRevoked(g) PROVE HostInv'
  BY <1>4 DEF OpenStream, CloseRevoked, calls
<1>5. ASSUME NEW n \in Node, LookUp(n) \/ Deregistering(n) PROVE HostInv'
  <2>1. CASE LookUp(n)
    BY <2>1, <1>a DEF LookUp
  <2>2. CASE DeleteRow(n)
    BY <2>2, <1>a DEF DeleteRow, Put
  <2>3. CASE DropSession(n)
    BY <2>3, <1>a DEF DropSession
  <2>4. QED
    BY <1>5, <2>1, <2>2, <2>3 DEF Deregistering
<1>6. CASE Sweeping
  <2>1. CASE ListStale
    BY <2>1, <1>b DEF ListStale, Stale, NoSweep
  <2>2. ASSUME NEW n \in Node, ReadForMark(n) PROVE HostInv'
    BY <2>2 DEF ReadForMark, TypeOK
  <2>3. CASE WriteOffline
    BY <2>3, <1>a DEF WriteOffline, Put, NoSweep
  <2>4. CASE SweepEnds
    BY <2>4, <1>b DEF SweepEnds
  <2>5. QED
    BY <1>6, <2>1, <2>2, <2>3, <2>4 DEF Sweeping
<1>7. CASE Crash \/ Start \/ Tick
  <2>1. CASE Crash
    BY <2>1, <1>b DEF Crash
  <2>2. CASE Start
    BY <2>2, <1>a DEF Start, Loaded, calls, Row
  <2>3. CASE Tick
    BY <2>3 DEF Tick, calls
  <2>4. QED
    BY <1>7, <2>1, <2>2, <2>3
<1>8. CASE UNCHANGED vars
  BY <1>8 DEF vars, calls
<1>9. QED
  BY <1>1, <1>2, <1>3, <1>4, <1>5, <1>6, <1>7, <1>8 DEF Next

\* The daemon's own record is there and online in every reachable state, whatever
\* ids helpers ask for, whoever deregisters what, and however often the daemon
\* dies (enroll's reserved id, the guards of deregister and of the sweep).
THEOREM HostProtectedHolds == Spec => []HostProtected
<1>1. Init => HostInv
  BY DEF Init, HostInv, HostProtected, HostRow, NoCall, NoSweep
<1>2. HostInv => HostProtected
  BY DEF HostInv
<1>3. QED
  BY <1>1, <1>2, HostStep, TypeCorrect, PTL DEF Spec

-----------------------------------------------------------------------------
(* Nodes that read online. *)

\* A register call past its second write, and a heartbeat past its check, have a
\* session behind them; a daemon that is down has no call in flight.
Served ==
  /\ \A g \in Token :
       /\ reg[g].at \in {"sessioned", "promoting", "answered"} => sessions[NodeOf[g]] # NoToken
       /\ beat[g].at # "idle" => sessions[NodeOf[g]] # NoToken
       /\ ~up => reg[g].at = "idle" /\ beat[g].at = "idle"
  /\ \A n \in Node : dereg[n] = "idle"

SessionInv == OnlineHasSession /\ Served

LEMMA SessionStep ==
  ASSUME "deregister" \notin Calls
  PROVE  TypeOK /\ SessionInv /\ [Next]_vars => SessionInv'
<1> SUFFICES ASSUME TypeOK, SessionInv, [Next]_vars PROVE SessionInv'
  OBVIOUS
<1>a. /\ reg \in [Token -> Call({"idle", "consumed", "written", "sessioned", "promoting", "answered"})]
      /\ beat \in [Token -> Call({"idle", "authed", "read"})]
      /\ rows \in [Node -> Row] /\ sessions \in [Node -> Token \cup {NoToken}]
  BY DEF TypeOK
<1>b. NoCall.at = "idle" /\ NoRow.status = "none"
  BY DEF NoCall, NoRow
<1> USE DEF SessionInv, Served, OnlineHasSession
<1>1. ASSUME NEW g \in Token, Enroll(g) \/ Expire(g) \/ Consume(g) PROVE SessionInv'
  <2>1. CASE Enroll(g)
    BY <2>1 DEF Enroll, calls
  <2>2. CASE Expire(g)
    BY <2>2 DEF Expire, calls
  <2>3. CASE Consume(g)
    BY <2>3, <1>a DEF Consume
  <2>4. QED
    BY <1>1, <2>1, <2>2, <2>3
<1>2. ASSUME NEW g \in Token, Registering(g) PROVE SessionInv'
  <2>1. CASE WriteRegistering(g)
    BY <2>1, <1>a DEF WriteRegistering, Put
  <2>2. CASE InsertSession(g)
    BY <2>2, <1>a DEF InsertSession
  <2>3. CASE CheckOwnRecord(g)
    BY <2>3, <1>a DEF CheckOwnRecord
  <2>4. CASE Promote(g)
    BY <2>4, <1>a DEF Promote, Put
  <2>5. QED
    BY <1>2, <2>1, <2>2, <2>3, <2>4 DEF Registering
<1>3. ASSUME NEW g \in Token, Authenticate(g) \/ Beating(g) PROVE SessionInv'
  <2>1. CASE Authenticate(g)
    BY <2>1, <1>a DEF Authenticate, SessionLive
  <2>2. CASE ReadForBeat(g)
    BY <2>2, <1>a, <1>b DEF ReadForBeat
  <2>3. CASE WriteBeat(g)
    BY <2>3, <1>a, <1>b DEF WriteBeat, Put
  <2>4. QED
    BY <1>3, <2>1, <2>2, <2>3 DEF Beating
<1>4. ASSUME NEW g \in Token, OpenStream(g) \/ CloseRevoked(g) PROVE SessionInv'
  BY <1>4 DEF OpenStream, CloseRevoked, calls
<1>5. ASSUME NEW n \in Node, LookUp(n) \/ Deregistering(n) PROVE SessionInv'
  BY <1>5 DEF LookUp, Deregistering, DeleteRow, DropSession
<1>6. CASE Sweeping
  <2>1. CASE ListStale
    BY <2>1 DEF ListStale
  <2>2. ASSUME NEW n \in Node, ReadForMark(n) PROVE SessionInv'
    BY <2>2 DEF ReadForMark
  <2>3. CASE WriteOffline
    <3>1. sweeper.copy \in Row
      BY DEF TypeOK
    <3>2. [sweeper.copy EXCEPT !.status = "offline"].status = "offline"
      BY <3>1, Rows
    <3>3. QED
      BY <2>3, <3>2, <1>a DEF WriteOffline, Put
  <2>4. CASE SweepEnds
    BY <2>4 DEF SweepEnds
  <2>5. QED
    BY <1>6, <2>1, <2>2, <2>3, <2>4 DEF Sweeping
<1>7. CASE Crash \/ Start \/ Tick
  <2>1. CASE Crash
    BY <2>1, <1>b DEF Crash
  <2>2. CASE Start
    <3>1. \A n \in Node \ {Host} : rows'[n].status # "online"
      <4> SUFFICES ASSUME NEW n \in Node \ {Host} PROVE Loaded(n).status # "online"
        BY <2>2 DEF Start
      <4>1. [rows[n] EXCEPT !.status = "offline"].status = "offline"
        BY <1>a, Rows
      <4>2. QED
        BY <4>1 DEF Loaded
    <3>2. QED
      BY <2>2, <3>1 DEF Start, calls
  <2>3. CASE Tick
    BY <2>3 DEF Tick, calls
  <2>4. QED
    BY <1>7, <2>1, <2>2, <2>3
<1>8. CASE UNCHANGED vars
  BY <1>8 DEF vars, calls
<1>9. QED
  BY <1>1, <1>2, <1>3, <1>4, <1>5, <1>6, <1>7, <1>8 DEF Next

\* As long as no node is deregistered, a node that reads online has a session
\* while the daemon is up: register writes the session before it promotes the
\* record, a heartbeat that was let in writes online only behind a session, and
\* the load after a restart demotes what was left online.
THEOREM OnlineHasSessionHolds ==
  ASSUME "deregister" \notin Calls
  PROVE  Spec => []OnlineHasSession
<1>1. Init => SessionInv
  BY DEF Init, SessionInv, OnlineHasSession, Served, NoRow, NoCall
<1>2. TypeOK /\ SessionInv /\ [Next]_vars => SessionInv'
  BY SessionStep
<1>3. SessionInv => OnlineHasSession
  BY DEF SessionInv
<1>4. QED
  BY <1>1, <1>2, <1>3, TypeCorrect, PTL DEF Spec
=============================================================================
