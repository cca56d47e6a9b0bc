---------------------------- MODULE TasksProofs ----------------------------
(***************************************************************************)
(* Theorems about what becomes of tasks outside their scheduler, and about *)
(* the stored copies and the registry of workspaces that tasks and hosts   *)
(* write, for every number of tasks, users, templates, calls, directories  *)
(* and copies.                                                             *)
(***************************************************************************)
EXTENDS Parts, SequenceTheorems, WellFoundedInduction, TLAPS

USE ProgressAssumption

-----------------------------------------------------------------------------
(* How a task reaches the panel (TaskFeed). *)

LEMMA FeedMoves ==
  ASSUME part = "feed", [PartsNext]_partsVars
  PROVE  part' = "feed" /\ (Feed!FeedNext \/ UNCHANGED feed)
BY DEF PartsNext, partsVars, TreeStep, StoreStep, CheckStep, DownloadStep, DeletionStep, RepositoryStep,
       InstallStep, CopyStep, RegistryStep, SettingStep, MirrorStep, FeedStep, EndpointStep, OpeningStep

Statuses == {"none", "queued", "running", "rolling_back"} \cup Feed!Final
Shown == [status : Statuses, progress : Nat]
Frames == [kind : {"snapshot", "stage", "finished"}, of : Shown]
BodySteps == {"queued", "work", "read", "undo", "stage", "finished", "done"}
Entries == [status : Statuses, progress : Nat, cancel : BOOLEAN]
Bodies == [at : BodySteps, of : Shown, next : BodySteps]
Beats == [at : {"off", "idle", "read", "stage"}, of : Shown]
Wires == [at : {"off", "joined", "open"}, queue : Seq(Frames)]
Asking == [at : {"idle", "asked", "answered"}, of : Shown]
FeedType ==
  /\ owner \in {"daemon", "desktop"}
  /\ entry \in Entries /\ body \in Bodies /\ beat \in Beats
  /\ wire \in Wires /\ direct \in Seq(Shown)
  /\ echo \in Shown /\ panel \in Shown /\ told \in Shown
  /\ lists \in [Feed!Asks -> Asking]
  /\ refreshed \in BOOLEAN /\ replaced \in BOOLEAN

\* The record has come to its end, or is gone.
Over == entry = Feed!Gone \/ entry.status \in Feed!Final
\* Where the worker and its ticker are in the life of the record.
WorkInv ==
  /\ Feed!At("queued") => entry.status \in {"queued"} /\ entry.progress = 0
  /\ body.at \in {"work", "read"} => entry.status = "running"
  /\ Feed!At("undo") => entry.status = "rolling_back"
  /\ Feed!At("stage") =>
       /\ body.next \in {"work", "undo", "finished"}
       /\ body.next = "work" => entry.status = "running"
       /\ body.next = "undo" => entry.status = "rolling_back"
       /\ body.next = "finished" => Over /\ (entry = Feed!Gone \/ body.of = Feed!shown(entry))
  /\ body.at \in {"finished", "done"} => Over
  /\ beat.at # "off" => body.at \in {"work", "read"} \/ (Feed!At("stage") /\ body.next = "work")
  /\ beat.at # "off" => owner = "daemon"
\* An end that is told, asked for or shown is the one the record came to.
Agrees(e, s) == s.status \in Feed!Final => e = Feed!Gone \/ s.status = e.status
EndsAgree ==
  /\ Agrees(entry, panel) /\ Agrees(entry, told) /\ Agrees(entry, echo)
  /\ \A k \in Feed!Asks : Agrees(entry, lists[k].of)
  /\ \A i \in 1 .. Len(direct) : Agrees(entry, direct[i])
  /\ \A i \in 1 .. Len(wire.queue) : wire.queue[i].kind # "stage" => Agrees(entry, wire.queue[i].of)
\* A snapshot is the first thing in a stream ...
StreamInv ==
  /\ wire.at = "off" => wire.queue = <<>>
  /\ wire.at = "joined" => \A i \in 1 .. Len(wire.queue) : wire.queue[i].kind # "snapshot"
  /\ \A i \in 1 .. Len(wire.queue) :
       /\ wire.queue[i].kind = "snapshot" => i = 1
       /\ wire.queue[i].kind = "finished" => entry = Feed!Gone \/ wire.queue[i].of.status \in Feed!Final
\* ... and before it nothing was said.
NothingSaid ==
  (wire.at = "joined" \/ \E i \in 1 .. Len(wire.queue) : wire.queue[i].kind = "snapshot") => told = Feed!Nowhere
\* The end of a daemon's task has been told, or waits in the stream ...
EndComes ==
  (owner = "daemon" /\ Feed!At("done") /\ wire.at = "open" /\ entry # Feed!Gone) =>
    \/ told.status = entry.status
    \/ \E i \in 1 .. Len(wire.queue) : wire.queue[i].kind # "stage" /\ wire.queue[i].of.status = entry.status
\* ... and so has its last progress, with nothing behind it that says otherwise.
LastProgress ==
  (owner = "daemon" /\ body.at \in {"queued", "finished", "done"} /\ wire.at # "off" /\ entry # Feed!Gone) =>
    \/ \E i \in 1 .. Len(wire.queue) :
         /\ wire.queue[i].kind # "finished" /\ wire.queue[i].of.progress = entry.progress
         /\ \A j \in 1 .. Len(wire.queue) : j > i => wire.queue[j].kind = "finished"
    \/ /\ \A j \in 1 .. Len(wire.queue) : wire.queue[j].kind = "finished"
       /\ wire.at = "open" => told.progress = entry.progress
FeedInv ==
  FeedType /\ WorkInv /\ EndsAgree /\ StreamInv /\ NothingSaid /\ EndComes /\ LastProgress /\ Feed!SuccessRefreshes
-----------------------------------------------------------------------------
\* What appending, reading and putting before do to the places of a queue.
LEMMA Appended ==
  ASSUME NEW S, NEW q \in Seq(S), NEW x \in S
  PROVE  /\ Append(q, x) \in Seq(S) /\ Len(Append(q, x)) = Len(q) + 1
         /\ \A i \in 1 .. Len(q) : Append(q, x)[i] = q[i]
         /\ Append(q, x)[Len(q) + 1] = x
BY AppendProperties
LEMMA Taken ==
  ASSUME NEW S, NEW q \in Seq(S), q # <<>>
  PROVE  /\ Tail(q) \in Seq(S) /\ Len(Tail(q)) = Len(q) - 1 /\ Len(q) \in Nat /\ Len(q) >= 1
         /\ \A i \in 1 .. Len(Tail(q)) : Tail(q)[i] = q[i + 1] /\ i + 1 \in 1 .. Len(q)
         /\ Head(q) = q[1] /\ Head(q) \in S
BY HeadTailProperties
LEMMA Preceded ==
  ASSUME NEW S, NEW q \in Seq(S), NEW x \in S
  PROVE  /\ <<x>> \o q \in Seq(S) /\ Len(<<x>> \o q) = Len(q) + 1
         /\ (<<x>> \o q)[1] = x
         /\ \A i \in 1 .. Len(q) : (<<x>> \o q)[i + 1] = q[i]
<1>1. <<x>> \in Seq(S) /\ Len(<<x>>) = 1 /\ <<x>>[1] = x
  OBVIOUS
<1>2. QED
  BY <1>1, ConcatProperties

LEMMA Broadcast ==
  ASSUME FeedType, NEW frame \in Frames, Feed!broadcast(frame)
  PROVE  /\ wire' \in Wires /\ direct' \in Seq(Shown)
         /\ \/ wire' = wire
            \/ /\ owner = "daemon" /\ wire.at # "off" /\ wire'.at = wire.at
               /\ wire'.queue = Append(wire.queue, frame)
         /\ owner = "daemon" /\ wire.at # "off" => wire' # wire
         /\ \/ direct' = direct
            \/ owner = "desktop" /\ direct' = Append(direct, Feed!shown(entry))
<1>1. Feed!shown(entry) \in Shown
  BY DEF FeedType, Entries, Shown, Feed!shown
<1>2. wire.queue \in Seq(Frames) /\ wire.at \in {"off", "joined", "open"}
  BY DEF FeedType, Wires
<1>3. /\ Append(wire.queue, frame) \in Seq(Frames)
      /\ Append(wire.queue, frame) # wire.queue
      /\ Append(direct, Feed!shown(entry)) \in Seq(Shown)
  BY <1>1, <1>2, Appended, LenProperties DEF FeedType
<1>4. CASE owner = "desktop"
  BY <1>3, <1>4 DEF FeedType, Feed!broadcast
<1>5. CASE owner = "daemon"
  <2>1. wire' = IF wire.at = "off" THEN wire ELSE [wire EXCEPT !.queue = Append(@, frame)]
    BY <1>5 DEF Feed!broadcast
  <2>2. CASE wire.at = "off"
    BY <1>5, <2>1, <2>2 DEF FeedType, Feed!broadcast
  <2>3. CASE wire.at # "off"
    <3>1. wire' = [wire EXCEPT !.queue = Append(wire.queue, frame)]
      BY <2>1, <2>3
    <3>2. wire'.at = wire.at /\ wire'.queue = Append(wire.queue, frame) /\ wire' \in Wires
      BY <1>2, <1>3, <3>1 DEF FeedType, Wires
    <3>3. wire' # wire
      BY <1>3, <3>2
    <3>4. QED
      BY <1>5, <2>3, <3>2, <3>3 DEF FeedType, Feed!broadcast
  <2>4. QED
    BY <2>2, <2>3
<1>6. QED
  BY <1>4, <1>5 DEF FeedType

LEMMA ReadsHead ==
  ASSUME FeedType, NEW kind, Feed!Reads(kind)
  PROVE  /\ wire' \in Wires /\ wire.at = "open" /\ wire'.at = "open" /\ wire.queue # <<>>
         /\ wire'.queue = Tail(wire.queue)
         /\ Head(wire.queue) = wire.queue[1] /\ Head(wire.queue).kind = kind
         /\ Head(wire.queue).of \in Shown
<1>1. wire.queue \in Seq(Frames) /\ wire.queue # <<>>
  BY DEF FeedType, Wires, Feed!Reads
<1>2. Tail(wire.queue) \in Seq(Frames) /\ Head(wire.queue) = wire.queue[1] /\ Head(wire.queue) \in Frames
  BY <1>1, Taken
<1>3. QED
  BY <1>1, <1>2 DEF FeedType, Wires, Frames, Feed!Reads

LEMMA SaidFrames ==
  ASSUME FeedType
  PROVE  /\ [kind |-> "stage", of |-> body.of] \in Frames /\ [kind |-> "stage", of |-> beat.of] \in Frames
         /\ [kind |-> "finished", of |-> Feed!shown(entry)] \in Frames
BY DEF FeedType, Frames, Bodies, Beats, Entries, Shown, Feed!shown

LEMMA FeedTypeKept ==
  ASSUME FeedType, Feed!FeedNext
  PROVE  FeedType'
<1> USE DEF FeedType, Statuses, Shown, Frames, BodySteps, Entries, Bodies, Beats, Wires, Asking, Feed!Final, Feed!Asks, Feed!Nowhere, Feed!Gone, Feed!shown,
            Feed!Idle, Feed!Asked, Feed!Rests, Feed!Quiet, Feed!Closed, Feed!At, Feed!Tells, Feed!Works, Feed!Said,
            Feed!Ticks, Feed!Streams, Feed!Lists, Feed!OfPanel, Feed!OfStream, Feed!Replaces, Feed!Reads,
            Feed!absorb, Feed!broadcast
<1>1. CASE Feed!try_start
  <2>1. owner' \in {"daemon", "desktop"} /\ entry' \in Entries
    BY <1>1 DEF Feed!try_start
  <2>2. body' \in Bodies
    BY <1>1 DEF Feed!try_start
  <2>3. beat' \in Beats
    BY <1>1 DEF Feed!try_start
  <2>4. wire' \in Wires
    BY <1>1 DEF Feed!try_start
  <2>5. direct' \in Seq(Shown) /\ echo' \in Shown
    BY <1>1 DEF Feed!try_start
  <2>6. panel' \in Shown /\ told' \in Shown
    BY <1>1 DEF Feed!try_start
  <2>7. lists' \in [Feed!Asks -> Asking] /\ refreshed' \in BOOLEAN /\ replaced' \in BOOLEAN
    BY <1>1 DEF Feed!try_start
  <2>8. QED
    BY <2>1, <2>2, <2>3, <2>4, <2>5, <2>6, <2>7
<1>2. CASE Feed!publish_stages
  BY <1>2 DEF Feed!publish_stages
<1>3. CASE Feed!finish
  <2>1. owner' \in {"daemon", "desktop"} /\ entry' \in Entries
    BY <1>3 DEF Feed!finish
  <2>2. body' \in Bodies
    BY <1>3 DEF Feed!finish
  <2>3. beat' \in Beats
    BY <1>3 DEF Feed!finish
  <2>4. wire' \in Wires
    BY <1>3 DEF Feed!finish
  <2>5. direct' \in Seq(Shown) /\ echo' \in Shown
    BY <1>3 DEF Feed!finish
  <2>6. panel' \in Shown /\ told' \in Shown
    BY <1>3 DEF Feed!finish
  <2>7. lists' \in [Feed!Asks -> Asking] /\ refreshed' \in BOOLEAN /\ replaced' \in BOOLEAN
    BY <1>3 DEF Feed!finish
  <2>8. QED
    BY <2>1, <2>2, <2>3, <2>4, <2>5, <2>6, <2>7
<1>4. CASE Feed!start_rollback
  <2>1. owner' \in {"daemon", "desktop"} /\ entry' \in Entries
    BY <1>4 DEF Feed!start_rollback
  <2>2. body' \in Bodies
    BY <1>4 DEF Feed!start_rollback
  <2>3. beat' \in Beats
    BY <1>4 DEF Feed!start_rollback
  <2>4. wire' \in Wires
    BY <1>4 DEF Feed!start_rollback
  <2>5. direct' \in Seq(Shown) /\ echo' \in Shown
    BY <1>4 DEF Feed!start_rollback
  <2>6. panel' \in Shown /\ told' \in Shown
    BY <1>4 DEF Feed!start_rollback
  <2>7. lists' \in [Feed!Asks -> Asking] /\ refreshed' \in BOOLEAN /\ replaced' \in BOOLEAN
    BY <1>4 DEF Feed!start_rollback
  <2>8. QED
    BY <2>1, <2>2, <2>3, <2>4, <2>5, <2>6, <2>7
<1>5. CASE Feed!finish_rollback
  <2>1. owner' \in {"daemon", "desktop"} /\ entry' \in Entries
    BY <1>5 DEF Feed!finish_rollback
  <2>2. body' \in Bodies
    BY <1>5 DEF Feed!finish_rollback
  <2>3. beat' \in Beats
    BY <1>5 DEF Feed!finish_rollback
  <2>4. wire' \in Wires
    BY <1>5 DEF Feed!finish_rollback
  <2>5. direct' \in Seq(Shown) /\ echo' \in Shown
    BY <1>5 DEF Feed!finish_rollback
  <2>6. panel' \in Shown /\ told' \in Shown
    BY <1>5 DEF Feed!finish_rollback
  <2>7. lists' \in [Feed!Asks -> Asking] /\ refreshed' \in BOOLEAN /\ replaced' \in BOOLEAN
    BY <1>5 DEF Feed!finish_rollback
  <2>8. QED
    BY <2>1, <2>2, <2>3, <2>4, <2>5, <2>6, <2>7
<1>0. \A p \in entry.progress .. Full - 1 : p \in Nat
  OBVIOUS
<1>6. ASSUME NEW p \in entry.progress .. Full - 1, Feed!tick_stage(p) PROVE FeedType'
  <2>1. owner' \in {"daemon", "desktop"} /\ entry' \in Entries
    BY <1>0, <1>6 DEF Feed!tick_stage
  <2>2. body' \in Bodies
    BY <1>6 DEF Feed!tick_stage
  <2>3. beat' \in Beats
    BY <1>6 DEF Feed!tick_stage
  <2>4. wire' \in Wires
    BY <1>6 DEF Feed!tick_stage
  <2>5. direct' \in Seq(Shown) /\ echo' \in Shown
    BY <1>6 DEF Feed!tick_stage
  <2>6. panel' \in Shown /\ told' \in Shown
    BY <1>6 DEF Feed!tick_stage
  <2>7. lists' \in [Feed!Asks -> Asking] /\ refreshed' \in BOOLEAN /\ replaced' \in BOOLEAN
    BY <1>6 DEF Feed!tick_stage
  <2>8. QED
    BY <2>1, <2>2, <2>3, <2>4, <2>5, <2>6, <2>7
<1>7. ASSUME NEW p \in entry.progress .. Full - 1, Feed!update(p) PROVE FeedType'
  <2>1. owner' \in {"daemon", "desktop"} /\ entry' \in Entries
    BY <1>0, <1>7 DEF Feed!update
  <2>2. body' \in Bodies
    BY <1>7 DEF Feed!update
  <2>3. beat' \in Beats
    BY <1>7 DEF Feed!update
  <2>4. wire' \in Wires
    BY <1>7 DEF Feed!update
  <2>5. direct' \in Seq(Shown) /\ echo' \in Shown
    BY <1>7 DEF Feed!update
  <2>6. panel' \in Shown /\ told' \in Shown
    BY <1>7 DEF Feed!update
  <2>7. lists' \in [Feed!Asks -> Asking] /\ refreshed' \in BOOLEAN /\ replaced' \in BOOLEAN
    BY <1>7 DEF Feed!update
  <2>8. QED
    BY <2>1, <2>2, <2>3, <2>4, <2>5, <2>6, <2>7
<1>8. ASSUME NEW p \in entry.progress .. Full - 1, Feed!Stages(p) PROVE FeedType'
  <2>1. owner' \in {"daemon", "desktop"} /\ entry' \in Entries
    BY <1>0, <1>8 DEF Feed!Stages
  <2>2. body' \in Bodies
    BY <1>8 DEF Feed!Stages
  <2>3. beat' \in Beats
    BY <1>8 DEF Feed!Stages
  <2>4. wire' \in Wires
    BY <1>8 DEF Feed!Stages
  <2>5. direct' \in Seq(Shown) /\ echo' \in Shown
    BY <1>8 DEF Feed!Stages
  <2>6. panel' \in Shown /\ told' \in Shown
    BY <1>8 DEF Feed!Stages
  <2>7. lists' \in [Feed!Asks -> Asking] /\ refreshed' \in BOOLEAN /\ replaced' \in BOOLEAN
    BY <1>8 DEF Feed!Stages
  <2>8. QED
    BY <2>1, <2>2, <2>3, <2>4, <2>5, <2>6, <2>7
<1>9. CASE Feed!SaysStage
  <2>1. owner' \in {"daemon", "desktop"} /\ entry' \in Entries
    BY <1>9, Broadcast DEF Feed!SaysStage
  <2>2. body' \in Bodies
    BY <1>9, Broadcast DEF Feed!SaysStage
  <2>3. beat' \in Beats
    BY <1>9, Broadcast DEF Feed!SaysStage
  <2>4. wire' \in Wires
    BY <1>9, Broadcast DEF Feed!SaysStage
  <2>5. direct' \in Seq(Shown) /\ echo' \in Shown
    BY <1>9, Broadcast DEF Feed!SaysStage
  <2>6. panel' \in Shown /\ told' \in Shown
    BY <1>9, Broadcast DEF Feed!SaysStage
  <2>7. lists' \in [Feed!Asks -> Asking] /\ refreshed' \in BOOLEAN /\ replaced' \in BOOLEAN
    BY <1>9, Broadcast DEF Feed!SaysStage
  <2>8. QED
    BY <2>1, <2>2, <2>3, <2>4, <2>5, <2>6, <2>7
<1>10. CASE Feed!SaysFinished
  <2>1. owner' \in {"daemon", "desktop"} /\ entry' \in Entries
    BY <1>10, Broadcast DEF Feed!SaysFinished
  <2>2. body' \in Bodies
    BY <1>10, Broadcast DEF Feed!SaysFinished
  <2>3. beat' \in Beats
    BY <1>10, Broadcast DEF Feed!SaysFinished
  <2>4. wire' \in Wires
    BY <1>10, Broadcast DEF Feed!SaysFinished
  <2>5. direct' \in Seq(Shown) /\ echo' \in Shown
    BY <1>10, Broadcast DEF Feed!SaysFinished
  <2>6. panel' \in Shown /\ told' \in Shown
    BY <1>10, Broadcast DEF Feed!SaysFinished
  <2>7. lists' \in [Feed!Asks -> Asking] /\ refreshed' \in BOOLEAN /\ replaced' \in BOOLEAN
    BY <1>10, Broadcast DEF Feed!SaysFinished
  <2>8. QED
    BY <2>1, <2>2, <2>3, <2>4, <2>5, <2>6, <2>7
<1>11. CASE Feed!TickerStarts
  <2>1. owner' \in {"daemon", "desktop"} /\ entry' \in Entries
    BY <1>11 DEF Feed!TickerStarts
  <2>2. body' \in Bodies
    BY <1>11 DEF Feed!TickerStarts
  <2>3. beat' \in Beats
    BY <1>11 DEF Feed!TickerStarts
  <2>4. wire' \in Wires
    BY <1>11 DEF Feed!TickerStarts
  <2>5. direct' \in Seq(Shown) /\ echo' \in Shown
    BY <1>11 DEF Feed!TickerStarts
  <2>6. panel' \in Shown /\ told' \in Shown
    BY <1>11 DEF Feed!TickerStarts
  <2>7. lists' \in [Feed!Asks -> Asking] /\ refreshed' \in BOOLEAN /\ replaced' \in BOOLEAN
    BY <1>11 DEF Feed!TickerStarts
  <2>8. QED
    BY <2>1, <2>2, <2>3, <2>4, <2>5, <2>6, <2>7
<1>12. CASE Feed!TickerStops
  <2>1. owner' \in {"daemon", "desktop"} /\ entry' \in Entries
    BY <1>12 DEF Feed!TickerStops
  <2>2. body' \in Bodies
    BY <1>12 DEF Feed!TickerStops
  <2>3. beat' \in Beats
    BY <1>12 DEF Feed!TickerStops
  <2>4. wire' \in Wires
    BY <1>12 DEF Feed!TickerStops
  <2>5. direct' \in Seq(Shown) /\ echo' \in Shown
    BY <1>12 DEF Feed!TickerStops
  <2>6. panel' \in Shown /\ told' \in Shown
    BY <1>12 DEF Feed!TickerStops
  <2>7. lists' \in [Feed!Asks -> Asking] /\ refreshed' \in BOOLEAN /\ replaced' \in BOOLEAN
    BY <1>12 DEF Feed!TickerStops
  <2>8. QED
    BY <2>1, <2>2, <2>3, <2>4, <2>5, <2>6, <2>7
<1>13. CASE Feed!TickRead
  BY <1>13 DEF Feed!TickRead
<1>14. CASE Feed!TickSays
  <2>1. owner' \in {"daemon", "desktop"} /\ entry' \in Entries
    BY <1>14, Broadcast DEF Feed!TickSays
  <2>2. body' \in Bodies
    BY <1>14, Broadcast DEF Feed!TickSays
  <2>3. beat' \in Beats
    BY <1>14, Broadcast DEF Feed!TickSays
  <2>4. wire' \in Wires
    BY <1>14, Broadcast DEF Feed!TickSays
  <2>5. direct' \in Seq(Shown) /\ echo' \in Shown
    BY <1>14, Broadcast DEF Feed!TickSays
  <2>6. panel' \in Shown /\ told' \in Shown
    BY <1>14, Broadcast DEF Feed!TickSays
  <2>7. lists' \in [Feed!Asks -> Asking] /\ refreshed' \in BOOLEAN /\ replaced' \in BOOLEAN
    BY <1>14, Broadcast DEF Feed!TickSays
  <2>8. QED
    BY <2>1, <2>2, <2>3, <2>4, <2>5, <2>6, <2>7
<1>15. CASE Feed!subscribe
  <2>1. owner' \in {"daemon", "desktop"} /\ entry' \in Entries
    BY <1>15 DEF Feed!subscribe
  <2>2. body' \in Bodies
    BY <1>15 DEF Feed!subscribe
  <2>3. beat' \in Beats
    BY <1>15 DEF Feed!subscribe
  <2>4. wire' \in Wires
    BY <1>15 DEF Feed!subscribe
  <2>5. direct' \in Seq(Shown) /\ echo' \in Shown
    BY <1>15 DEF Feed!subscribe
  <2>6. panel' \in Shown /\ told' \in Shown
    BY <1>15 DEF Feed!subscribe
  <2>7. lists' \in [Feed!Asks -> Asking] /\ refreshed' \in BOOLEAN /\ replaced' \in BOOLEAN
    BY <1>15 DEF Feed!subscribe
  <2>8. QED
    BY <2>1, <2>2, <2>3, <2>4, <2>5, <2>6, <2>7
<1>16. CASE Feed!WritesSnapshot
  BY <1>16, Preceded DEF Feed!WritesSnapshot
<1>17. CASE Feed!forward_snapshot
  <2>1. owner' \in {"daemon", "desktop"} /\ entry' \in Entries
    BY <1>17, ReadsHead DEF Feed!forward_snapshot
  <2>2. body' \in Bodies
    BY <1>17, ReadsHead DEF Feed!forward_snapshot
  <2>3. beat' \in Beats
    BY <1>17, ReadsHead DEF Feed!forward_snapshot
  <2>4. wire' \in Wires
    BY <1>17, ReadsHead DEF Feed!forward_snapshot
  <2>5. direct' \in Seq(Shown) /\ echo' \in Shown
    BY <1>17, ReadsHead DEF Feed!forward_snapshot
  <2>6. panel' \in Shown /\ told' \in Shown
    BY <1>17, ReadsHead DEF Feed!forward_snapshot
  <2>7. lists' \in [Feed!Asks -> Asking] /\ refreshed' \in BOOLEAN /\ replaced' \in BOOLEAN
    BY <1>17, ReadsHead DEF Feed!forward_snapshot
  <2>8. QED
    BY <2>1, <2>2, <2>3, <2>4, <2>5, <2>6, <2>7
<1>18. CASE Feed!forward_stage
  <2>1. owner' \in {"daemon", "desktop"} /\ entry' \in Entries
    BY <1>18, ReadsHead DEF Feed!forward_stage
  <2>2. body' \in Bodies
    BY <1>18, ReadsHead DEF Feed!forward_stage
  <2>3. beat' \in Beats
    BY <1>18, ReadsHead DEF Feed!forward_stage
  <2>4. wire' \in Wires
    BY <1>18, ReadsHead DEF Feed!forward_stage
  <2>5. direct' \in Seq(Shown) /\ echo' \in Shown
    BY <1>18, ReadsHead DEF Feed!forward_stage
  <2>6. panel' \in Shown /\ told' \in Shown
    BY <1>18, ReadsHead DEF Feed!forward_stage
  <2>7. lists' \in [Feed!Asks -> Asking] /\ refreshed' \in BOOLEAN /\ replaced' \in BOOLEAN
    BY <1>18, ReadsHead DEF Feed!forward_stage
  <2>8. QED
    BY <2>1, <2>2, <2>3, <2>4, <2>5, <2>6, <2>7
<1>19. CASE Feed!forward_finished
  <2>1. owner' \in {"daemon", "desktop"} /\ entry' \in Entries
    BY <1>19, ReadsHead DEF Feed!forward_finished
  <2>2. body' \in Bodies
    BY <1>19, ReadsHead DEF Feed!forward_finished
  <2>3. beat' \in Beats
    BY <1>19, ReadsHead DEF Feed!forward_finished
  <2>4. wire' \in Wires
    BY <1>19, ReadsHead DEF Feed!forward_finished
  <2>5. direct' \in Seq(Shown) /\ echo' \in Shown
    BY <1>19, ReadsHead DEF Feed!forward_finished
  <2>6. panel' \in Shown /\ told' \in Shown
    BY <1>19, ReadsHead DEF Feed!forward_finished
  <2>7. lists' \in [Feed!Asks -> Asking] /\ refreshed' \in BOOLEAN /\ replaced' \in BOOLEAN
    BY <1>19, ReadsHead DEF Feed!forward_finished
  <2>8. QED
    BY <2>1, <2>2, <2>3, <2>4, <2>5, <2>6, <2>7
<1>20. CASE Feed!Breaks
  BY <1>20 DEF Feed!Breaks
<1>21. CASE Feed!Restarts
  <2>1. owner' \in {"daemon", "desktop"} /\ entry' \in Entries
    BY <1>21 DEF Feed!Restarts
  <2>2. body' \in Bodies
    BY <1>21 DEF Feed!Restarts
  <2>3. beat' \in Beats
    BY <1>21 DEF Feed!Restarts
  <2>4. wire' \in Wires
    BY <1>21 DEF Feed!Restarts
  <2>5. direct' \in Seq(Shown) /\ echo' \in Shown
    BY <1>21 DEF Feed!Restarts
  <2>6. panel' \in Shown /\ told' \in Shown
    BY <1>21 DEF Feed!Restarts
  <2>7. lists' \in [Feed!Asks -> Asking] /\ refreshed' \in BOOLEAN /\ replaced' \in BOOLEAN
    BY <1>21 DEF Feed!Restarts
  <2>8. QED
    BY <2>1, <2>2, <2>3, <2>4, <2>5, <2>6, <2>7
<1>22. CASE Feed!Polls
  BY <1>22 DEF Feed!Polls
<1>23. CASE Feed!cancel_task
  <2>1. owner' \in {"daemon", "desktop"} /\ entry' \in Entries
    BY <1>23 DEF Feed!cancel_task
  <2>2. body' \in Bodies
    BY <1>23 DEF Feed!cancel_task
  <2>3. beat' \in Beats
    BY <1>23 DEF Feed!cancel_task
  <2>4. wire' \in Wires
    BY <1>23 DEF Feed!cancel_task
  <2>5. direct' \in Seq(Shown) /\ echo' \in Shown
    BY <1>23 DEF Feed!cancel_task
  <2>6. panel' \in Shown /\ told' \in Shown
    BY <1>23 DEF Feed!cancel_task
  <2>7. lists' \in [Feed!Asks -> Asking] /\ refreshed' \in BOOLEAN /\ replaced' \in BOOLEAN
    BY <1>23 DEF Feed!cancel_task
  <2>8. QED
    BY <2>1, <2>2, <2>3, <2>4, <2>5, <2>6, <2>7
<1>24. CASE Feed!emit_task_update
  BY <1>24, Appended DEF Feed!emit_task_update
<1>25. CASE Feed!delete_task
  BY <1>25 DEF Feed!delete_task
<1>26. CASE Feed!Raised
  <2>1. owner' \in {"daemon", "desktop"} /\ entry' \in Entries
    BY <1>26, Taken DEF Feed!Raised
  <2>2. body' \in Bodies
    BY <1>26, Taken DEF Feed!Raised
  <2>3. beat' \in Beats
    BY <1>26, Taken DEF Feed!Raised
  <2>4. wire' \in Wires
    BY <1>26, Taken DEF Feed!Raised
  <2>5. direct' \in Seq(Shown) /\ echo' \in Shown
    BY <1>26, Taken DEF Feed!Raised
  <2>6. panel' \in Shown /\ told' \in Shown
    BY <1>26, Taken DEF Feed!Raised
  <2>7. lists' \in [Feed!Asks -> Asking] /\ refreshed' \in BOOLEAN /\ replaced' \in BOOLEAN
    BY <1>26, Taken DEF Feed!Raised
  <2>8. QED
    BY <2>1, <2>2, <2>3, <2>4, <2>5, <2>6, <2>7
<1>27. ASSUME NEW k \in Feed!Asks, Feed!list_tasks(k) PROVE FeedType'
  BY <1>27 DEF Feed!list_tasks
<1>28. ASSUME NEW k \in Feed!Asks, Feed!ListFails(k) PROVE FeedType'
  BY <1>28 DEF Feed!ListFails
<1>29. ASSUME NEW k \in Feed!Asks, Feed!Absorbs(k) PROVE FeedType'
  BY <1>29 DEF Feed!Absorbs
<1>30. ASSUME NEW k \in Feed!Asks, Feed!Sets(k) PROVE FeedType'
  BY <1>30 DEF Feed!Sets
<1>31. QED
  BY <1>1, <1>2, <1>3, <1>4, <1>5, <1>6, <1>7, <1>8, <1>9, <1>10, <1>11, <1>12, <1>13, <1>14, <1>15, <1>16, <1>17, <1>18, <1>19, <1>20, <1>21, <1>22, <1>23, <1>24, <1>25, <1>26, <1>27, <1>28, <1>29, <1>30 DEF Feed!FeedNext

LEMMA WorkKept ==
  ASSUME FeedType, WorkInv, Feed!FeedNext
  PROVE  WorkInv'
<1> USE DEF FeedType, WorkInv, Over, Statuses, Shown, BodySteps, Entries, Bodies, Beats, Feed!Final, Feed!Gone,
            Feed!shown, Feed!Rests, Feed!Quiet, Feed!At, Feed!Tells, Feed!Works, Feed!Said, Feed!Ticks, Feed!Streams, Feed!Lists, Feed!Nowhere
<1>1. CASE Feed!try_start
  BY <1>1 DEF Feed!try_start
<1>2. CASE Feed!publish_stages
  BY <1>2 DEF Feed!publish_stages
<1>3. CASE Feed!finish
  BY <1>3 DEF Feed!finish
<1>4. CASE Feed!start_rollback
  BY <1>4 DEF Feed!start_rollback
<1>5. CASE Feed!finish_rollback
  BY <1>5 DEF Feed!finish_rollback
<1>6. ASSUME NEW p \in entry.progress .. Full - 1, Feed!tick_stage(p) PROVE WorkInv'
  BY <1>6 DEF Feed!tick_stage
<1>7. ASSUME NEW p \in entry.progress .. Full - 1, Feed!update(p) PROVE WorkInv'
  BY <1>7 DEF Feed!update
<1>8. ASSUME NEW p \in entry.progress .. Full - 1, Feed!Stages(p) PROVE WorkInv'
  BY <1>8 DEF Feed!Stages
<1>9. CASE Feed!SaysStage
  BY <1>9 DEF Feed!SaysStage
<1>10. CASE Feed!SaysFinished
  BY <1>10 DEF Feed!SaysFinished
<1>11. CASE Feed!TickerStarts
  BY <1>11 DEF Feed!TickerStarts
<1>12. CASE Feed!TickerStops
  BY <1>12 DEF Feed!TickerStops
<1>13. CASE Feed!TickRead
  BY <1>13 DEF Feed!TickRead
<1>14. CASE Feed!TickSays
  BY <1>14 DEF Feed!TickSays
<1>15. CASE Feed!subscribe
  BY <1>15 DEF Feed!subscribe
<1>16. CASE Feed!WritesSnapshot
  BY <1>16 DEF Feed!WritesSnapshot
<1>17. CASE Feed!forward_snapshot
  BY <1>17 DEF Feed!forward_snapshot
<1>18. CASE Feed!forward_stage
  BY <1>18 DEF Feed!forward_stage
<1>19. CASE Feed!forward_finished
  BY <1>19 DEF Feed!forward_finished
<1>20. CASE Feed!Breaks
  BY <1>20 DEF Feed!Breaks
<1>21. CASE Feed!Restarts
  BY <1>21 DEF Feed!Restarts
<1>22. CASE Feed!Polls
  BY <1>22 DEF Feed!Polls
<1>23. CASE Feed!cancel_task
  BY <1>23 DEF Feed!cancel_task
<1>24. CASE Feed!emit_task_update
  BY <1>24 DEF Feed!emit_task_update
<1>25. CASE Feed!delete_task
  BY <1>25 DEF Feed!delete_task
<1>26. CASE Feed!Raised
  BY <1>26 DEF Feed!Raised
<1>27. ASSUME NEW k \in Feed!Asks, Feed!list_tasks(k) PROVE WorkInv'
  BY <1>27 DEF Feed!list_tasks
<1>28. ASSUME NEW k \in Feed!Asks, Feed!ListFails(k) PROVE WorkInv'
  BY <1>28 DEF Feed!ListFails
<1>29. ASSUME NEW k \in Feed!Asks, Feed!Absorbs(k) PROVE WorkInv'
  BY <1>29 DEF Feed!Absorbs
<1>30. ASSUME NEW k \in Feed!Asks, Feed!Sets(k) PROVE WorkInv'
  BY <1>30 DEF Feed!Sets
<1>31. QED
  BY <1>1, <1>2, <1>3, <1>4, <1>5, <1>6, <1>7, <1>8, <1>9, <1>10, <1>11, <1>12, <1>13, <1>14, <1>15, <1>16, <1>17, <1>18, <1>19, <1>20, <1>21, <1>22, <1>23, <1>24, <1>25, <1>26, <1>27, <1>28, <1>29, <1>30 DEF Feed!FeedNext

\* A record that came to its end keeps it, or is deleted.
Lasts == Over => entry' = Feed!Gone \/ (entry # Feed!Gone /\ entry'.status = entry.status /\ entry'.progress = entry.progress)
LEMMA OverLasts ==
  ASSUME FeedType, WorkInv, Feed!FeedNext
  PROVE  Lasts
<1> USE DEF FeedType, WorkInv, Over, Statuses, Entries, Bodies, Beats, Feed!Final, Feed!Gone,
            Feed!shown, Feed!At, Feed!Tells, Feed!Works, Feed!Said, Feed!Ticks, Feed!Streams, Feed!Lists, Lasts
<1>1. CASE Feed!try_start
  BY <1>1 DEF Feed!try_start
<1>2. CASE Feed!publish_stages
  BY <1>2 DEF Feed!publish_stages
<1>3. CASE Feed!finish
  BY <1>3 DEF Feed!finish
<1>4. CASE Feed!start_rollback
  BY <1>4 DEF Feed!start_rollback
<1>5. CASE Feed!finish_rollback
  BY <1>5 DEF Feed!finish_rollback
<1>6. ASSUME NEW p \in entry.progress .. Full - 1, Feed!tick_stage(p) PROVE Lasts
  BY <1>6 DEF Feed!tick_stage
<1>7. ASSUME NEW p \in entry.progress .. Full - 1, Feed!update(p) PROVE Lasts
  BY <1>7 DEF Feed!update
<1>8. ASSUME NEW p \in entry.progress .. Full - 1, Feed!Stages(p) PROVE Lasts
  BY <1>8 DEF Feed!Stages
<1>9. CASE Feed!SaysStage
  BY <1>9 DEF Feed!SaysStage
<1>10. CASE Feed!SaysFinished
  BY <1>10 DEF Feed!SaysFinished
<1>11. CASE Feed!TickerStarts
  BY <1>11 DEF Feed!TickerStarts
<1>12. CASE Feed!TickerStops
  BY <1>12 DEF Feed!TickerStops
<1>13. CASE Feed!TickRead
  BY <1>13 DEF Feed!TickRead
<1>14. CASE Feed!TickSays
  BY <1>14 DEF Feed!TickSays
<1>15. CASE Feed!subscribe
  BY <1>15 DEF Feed!subscribe
<1>16. CASE Feed!WritesSnapshot
  BY <1>16 DEF Feed!WritesSnapshot
<1>17. CASE Feed!forward_snapshot
  BY <1>17 DEF Feed!forward_snapshot
<1>18. CASE Feed!forward_stage
  BY <1>18 DEF Feed!forward_stage
<1>19. CASE Feed!forward_finished
  BY <1>19 DEF Feed!forward_finished
<1>20. CASE Feed!Breaks
  BY <1>20 DEF Feed!Breaks
<1>21. CASE Feed!Restarts
  BY <1>21 DEF Feed!Restarts
<1>22. CASE Feed!Polls
  BY <1>22 DEF Feed!Polls
<1>23. CASE Feed!cancel_task
  BY <1>23 DEF Feed!cancel_task
<1>24. CASE Feed!emit_task_update
  BY <1>24 DEF Feed!emit_task_update
<1>25. CASE Feed!delete_task
  BY <1>25 DEF Feed!delete_task
<1>26. CASE Feed!Raised
  BY <1>26 DEF Feed!Raised
<1>27. ASSUME NEW k \in Feed!Asks, Feed!list_tasks(k) PROVE Lasts
  BY <1>27 DEF Feed!list_tasks
<1>28. ASSUME NEW k \in Feed!Asks, Feed!ListFails(k) PROVE Lasts
  BY <1>28 DEF Feed!ListFails
<1>29. ASSUME NEW k \in Feed!Asks, Feed!Absorbs(k) PROVE Lasts
  BY <1>29 DEF Feed!Absorbs
<1>30. ASSUME NEW k \in Feed!Asks, Feed!Sets(k) PROVE Lasts
  BY <1>30 DEF Feed!Sets
<1>31. QED
  BY <1>1, <1>2, <1>3, <1>4, <1>5, <1>6, <1>7, <1>8, <1>9, <1>10, <1>11, <1>12, <1>13, <1>14, <1>15, <1>16, <1>17, <1>18, <1>19, <1>20, <1>21, <1>22, <1>23, <1>24, <1>25, <1>26, <1>27, <1>28, <1>29, <1>30 DEF Feed!FeedNext

\* ... so that what agreed with it still does.
LEMMA StillAgrees ==
  ASSUME FeedType, WorkInv, Feed!FeedNext, NEW s, Agrees(entry, s)
  PROVE  Agrees(entry', s)
<1>1. Lasts
  BY OverLasts
<1>2. QED
  BY <1>1 DEF Lasts, Over, Agrees, Feed!Gone

LEMMA ShownAgrees == \A e : Agrees(e, Feed!shown(e)) /\ Agrees(e, Feed!Nowhere)
BY DEF Agrees, Feed!shown, Feed!Nowhere, Feed!Final

LEMMA PanelAgrees ==
  ASSUME FeedType, WorkInv, EndsAgree, Feed!FeedNext
  PROVE  /\ Agrees(entry', panel') /\ Agrees(entry', told') /\ Agrees(entry', echo')
         /\ \A k \in Feed!Asks : Agrees(entry', lists'[k].of)
<1> USE DEF Feed!Idle, Feed!Asked, Feed!Works, Feed!Said, Feed!Ticks, Feed!Streams, Feed!Lists,
            Feed!OfPanel, Feed!OfStream, Feed!Replaces, Feed!absorb, Feed!Asks, Asking
<1> DEFINE Ag(s) == Agrees(entry', s)
<1>a. Ag(panel) /\ Ag(told) /\ Ag(echo) /\ \A k \in Feed!Asks : Ag(lists[k].of)
  BY StillAgrees DEF EndsAgree
<1>b. \A i \in 1 .. Len(direct) : Ag(direct[i])
  BY StillAgrees DEF EndsAgree
<1>c. \A i \in 1 .. Len(wire.queue) : wire.queue[i].kind # "stage" => Ag(wire.queue[i].of)
  BY StillAgrees DEF EndsAgree
<1>d. Ag(Feed!shown(entry)) /\ Ag(Feed!Nowhere)
  BY StillAgrees, ShownAgrees
<1>e. \A s \in Shown, t \in Shown : Ag(s) => Ag([s EXCEPT !.progress = t.progress])
  BY DEF Agrees, Shown
<1>i. \A s \in Shown, t \in Shown : Ag(t) => Ag([s EXCEPT !.status = t.status])
  BY DEF Agrees, Shown
<1>f. wire.queue # <<>> => 1 \in 1 .. Len(wire.queue)
  BY Taken DEF FeedType, Wires
<1>g. direct # <<>> => Head(direct) = direct[1] /\ 1 \in 1 .. Len(direct)
  BY Taken DEF FeedType
<1>h. panel \in Shown /\ told \in Shown /\ lists \in [Feed!Asks -> Asking]
  BY DEF FeedType
<1> DEFINE All == Ag(panel') /\ Ag(told') /\ Ag(echo') /\ \A k \in Feed!Asks : Ag(lists'[k].of)
<1> HIDE DEF Ag
<1>1. ASSUME Feed!try_start PROVE All
  BY <1>1, <1>a, <1>d, <1>h DEF Feed!try_start
<1>2. ASSUME Feed!publish_stages PROVE All
  BY <1>2, <1>a, <1>d, <1>h DEF Feed!publish_stages
<1>3. ASSUME Feed!finish PROVE All
  BY <1>3, <1>a, <1>d, <1>h DEF Feed!finish
<1>4. ASSUME Feed!start_rollback PROVE All
  BY <1>4, <1>a, <1>d, <1>h DEF Feed!start_rollback
<1>5. ASSUME Feed!finish_rollback PROVE All
  BY <1>5, <1>a, <1>d, <1>h DEF Feed!finish_rollback
<1>6. ASSUME NEW p \in entry.progress .. Full - 1, Feed!tick_stage(p) PROVE All
  BY <1>6, <1>a, <1>d, <1>h DEF Feed!tick_stage
<1>7. ASSUME NEW p \in entry.progress .. Full - 1, Feed!update(p) PROVE All
  BY <1>7, <1>a, <1>d, <1>h DEF Feed!update
<1>8. ASSUME NEW p \in entry.progress .. Full - 1, Feed!Stages(p) PROVE All
  BY <1>8, <1>a, <1>d, <1>h DEF Feed!Stages
<1>9. ASSUME Feed!SaysStage PROVE All
  BY <1>9, <1>a, <1>d, <1>h DEF Feed!SaysStage
<1>10. ASSUME Feed!SaysFinished PROVE All
  BY <1>10, <1>a, <1>d, <1>h DEF Feed!SaysFinished
<1>11. ASSUME Feed!TickerStarts PROVE All
  BY <1>11, <1>a, <1>d, <1>h DEF Feed!TickerStarts
<1>12. ASSUME Feed!TickerStops PROVE All
  BY <1>12, <1>a, <1>d, <1>h DEF Feed!TickerStops
<1>13. ASSUME Feed!TickRead PROVE All
  BY <1>13, <1>a, <1>d, <1>h DEF Feed!TickRead
<1>14. ASSUME Feed!TickSays PROVE All
  BY <1>14, <1>a, <1>d, <1>h DEF Feed!TickSays
<1>15. ASSUME Feed!subscribe PROVE All
  BY <1>15, <1>a, <1>d, <1>h DEF Feed!subscribe
<1>16. ASSUME Feed!WritesSnapshot PROVE All
  BY <1>16, <1>a, <1>d, <1>h DEF Feed!WritesSnapshot
<1>17. ASSUME Feed!forward_snapshot PROVE All
  BY <1>17, <1>a, <1>c, <1>f, <1>h, ReadsHead DEF Feed!forward_snapshot
<1>18. ASSUME Feed!forward_stage PROVE All
  <2>1. PICK t \in Shown : t = Head(wire.queue).of
    BY <1>18, ReadsHead DEF Feed!forward_stage
  <2>2. \A s \in Shown : Ag(s) => Ag([s EXCEPT !.progress = t.progress])
    BY <1>e
  <2>3. Ag(told')
    BY <1>18, <1>a, <1>h, <2>1, <2>2 DEF Feed!forward_stage
  <2>4. Ag(panel')
    BY <1>18, <1>a, <1>h, <2>1, <2>2 DEF Feed!forward_stage
  <2>5. QED
    BY <1>18, <1>a, <2>3, <2>4 DEF Feed!forward_stage
<1>19. ASSUME Feed!forward_finished PROVE All
  <2>1. /\ Head(wire.queue).of \in Shown /\ Head(wire.queue) = wire.queue[1] /\ Head(wire.queue).kind = "finished"
        /\ wire.queue # <<>>
    BY <1>19, ReadsHead DEF Feed!forward_finished
  <2>2. Ag(Head(wire.queue).of)
    BY <1>c, <1>f, <2>1
  <2>3. Ag(told')
    <3>1. PICK t \in Shown : t = Head(wire.queue).of
      BY <2>1
    <3>2. Ag([told EXCEPT !.status = t.status])
      BY <1>h, <1>i, <2>2, <3>1
    <3>3. QED
      BY <1>19, <3>1, <3>2 DEF Feed!forward_finished
  <2>4. QED
    BY <1>19, <1>a, <1>d, <1>h, <2>3 DEF Feed!forward_finished
<1>20. ASSUME Feed!Breaks PROVE All
  BY <1>20, <1>a, <1>d, <1>h DEF Feed!Breaks
<1>21. ASSUME Feed!Restarts PROVE All
  BY <1>21, <1>a, <1>d, <1>h DEF Feed!Restarts
<1>22. ASSUME Feed!Polls PROVE All
  BY <1>22, <1>a, <1>d, <1>h DEF Feed!Polls
<1>23. ASSUME Feed!cancel_task PROVE All
  BY <1>23, <1>a, <1>d, <1>h DEF Feed!cancel_task
<1>24. ASSUME Feed!emit_task_update PROVE All
  BY <1>24, <1>a, <1>d, <1>h DEF Feed!emit_task_update
<1>25. ASSUME Feed!delete_task PROVE All
  BY <1>25, <1>a, <1>d, <1>h DEF Feed!delete_task
<1>26. ASSUME Feed!Raised PROVE All
  BY <1>26, <1>a, <1>b, <1>g, <1>h DEF Feed!Raised
<1>27. ASSUME NEW k \in Feed!Asks, Feed!list_tasks(k) PROVE All
  BY <1>27, <1>a, <1>d, <1>h DEF Feed!list_tasks
<1>28. ASSUME NEW k \in Feed!Asks, Feed!ListFails(k) PROVE All
  BY <1>28, <1>a, <1>d, <1>h DEF Feed!ListFails
<1>29. ASSUME NEW k \in Feed!Asks, Feed!Absorbs(k) PROVE All
  BY <1>29, <1>a, <1>d, <1>h DEF Feed!Absorbs
<1>30. ASSUME NEW k \in Feed!Asks, Feed!Sets(k) PROVE All
  BY <1>30, <1>a, <1>d, <1>h DEF Feed!Sets
<1>31. All
  BY <1>1, <1>2, <1>3, <1>4, <1>5, <1>6, <1>7, <1>8, <1>9, <1>10, <1>11, <1>12, <1>13, <1>14, <1>15, <1>16, <1>17, <1>18, <1>19, <1>20, <1>21, <1>22, <1>23, <1>24, <1>25, <1>26, <1>27, <1>28, <1>29, <1>30 DEF Feed!FeedNext
<1>32. QED
  BY <1>31 DEF Ag

\* What a step does to the stream when it says nothing and reads nothing of it.
Settled == {"queued", "finished", "done"}
StreamStill ==
  /\ UNCHANGED <<owner, wire, told>>
  /\ body.at \in Settled => entry' = Feed!Gone \/ (entry # Feed!Gone /\ entry'.progress = entry.progress)
  /\ Feed!At("done") => entry' = Feed!Gone \/ (entry # Feed!Gone /\ entry'.status = entry.status)
  /\ body'.at \in Settled => body.at \in Settled
  /\ body'.at = "done" => body.at = "done"
Speaks ==
  \/ Feed!SaysStage \/ Feed!SaysFinished \/ Feed!TickSays \/ Feed!subscribe \/ Feed!WritesSnapshot
  \/ Feed!forward_snapshot \/ Feed!forward_stage \/ Feed!forward_finished
  \/ wire' = Feed!Closed
LEMMA StreamMoves ==
  ASSUME FeedType, WorkInv, Feed!FeedNext
  PROVE  StreamStill \/ Speaks
<1> USE DEF WorkInv, Over, StreamStill, Speaks, Settled, FeedType, Entries, Bodies, Feed!At, Feed!Tells, Feed!Works, Feed!Ticks, Feed!Lists,
            Feed!OfPanel, Feed!OfStream, Feed!Final, Feed!Gone
<1>1. CASE Feed!try_start
  BY <1>1 DEF Feed!try_start
<1>2. CASE Feed!publish_stages
  BY <1>2 DEF Feed!publish_stages
<1>3. CASE Feed!finish
  BY <1>3 DEF Feed!finish
<1>4. CASE Feed!start_rollback
  BY <1>4 DEF Feed!start_rollback
<1>5. CASE Feed!finish_rollback
  BY <1>5 DEF Feed!finish_rollback
<1>6. ASSUME NEW p \in entry.progress .. Full - 1, Feed!tick_stage(p) PROVE StreamStill \/ Speaks
  BY <1>6 DEF Feed!tick_stage
<1>7. ASSUME NEW p \in entry.progress .. Full - 1, Feed!update(p) PROVE StreamStill \/ Speaks
  BY <1>7 DEF Feed!update
<1>8. ASSUME NEW p \in entry.progress .. Full - 1, Feed!Stages(p) PROVE StreamStill \/ Speaks
  BY <1>8 DEF Feed!Stages
<1>9. CASE Feed!SaysStage
  BY <1>9 DEF Feed!SaysStage
<1>10. CASE Feed!SaysFinished
  BY <1>10 DEF Feed!SaysFinished
<1>11. CASE Feed!TickerStarts
  BY <1>11 DEF Feed!TickerStarts
<1>12. CASE Feed!TickerStops
  BY <1>12 DEF Feed!TickerStops
<1>13. CASE Feed!TickRead
  BY <1>13 DEF Feed!TickRead
<1>14. CASE Feed!TickSays
  BY <1>14 DEF Feed!TickSays
<1>15. CASE Feed!subscribe
  BY <1>15 DEF Feed!subscribe
<1>16. CASE Feed!WritesSnapshot
  BY <1>16 DEF Feed!WritesSnapshot
<1>17. CASE Feed!forward_snapshot
  BY <1>17 DEF Feed!forward_snapshot
<1>18. CASE Feed!forward_stage
  BY <1>18 DEF Feed!forward_stage
<1>19. CASE Feed!forward_finished
  BY <1>19 DEF Feed!forward_finished
<1>20. CASE Feed!Breaks
  BY <1>20 DEF Feed!Breaks
<1>21. CASE Feed!Restarts
  BY <1>21 DEF Feed!Restarts
<1>22. CASE Feed!Polls
  BY <1>22 DEF Feed!Polls
<1>23. CASE Feed!cancel_task
  BY <1>23 DEF Feed!cancel_task
<1>24. CASE Feed!emit_task_update
  BY <1>24 DEF Feed!emit_task_update
<1>25. CASE Feed!delete_task
  BY <1>25 DEF Feed!delete_task
<1>26. CASE Feed!Raised
  BY <1>26 DEF Feed!Raised
<1>27. ASSUME NEW k \in Feed!Asks, Feed!list_tasks(k) PROVE StreamStill \/ Speaks
  BY <1>27 DEF Feed!list_tasks
<1>28. ASSUME NEW k \in Feed!Asks, Feed!ListFails(k) PROVE StreamStill \/ Speaks
  BY <1>28 DEF Feed!ListFails
<1>29. ASSUME NEW k \in Feed!Asks, Feed!Absorbs(k) PROVE StreamStill \/ Speaks
  BY <1>29 DEF Feed!Absorbs
<1>30. ASSUME NEW k \in Feed!Asks, Feed!Sets(k) PROVE StreamStill \/ Speaks
  BY <1>30 DEF Feed!Sets
<1>31. QED
  BY <1>1, <1>2, <1>3, <1>4, <1>5, <1>6, <1>7, <1>8, <1>9, <1>10, <1>11, <1>12, <1>13, <1>14, <1>15, <1>16, <1>17, <1>18, <1>19, <1>20, <1>21, <1>22, <1>23, <1>24, <1>25, <1>26, <1>27, <1>28, <1>29, <1>30 DEF Feed!FeedNext

LEMMA DirectMoves ==
  ASSUME FeedType, Feed!FeedNext
  PROVE  \/ direct' = direct
         \/ direct' = Append(direct, Feed!shown(entry))
         \/ direct' = Append(direct, echo)
         \/ direct # <<>> /\ direct' = Tail(direct)
<1> USE DEF Feed!Works, Feed!Ticks, Feed!Streams, Feed!Lists, Feed!OfStream
<1> DEFINE Moved == \/ direct' = direct
                    \/ direct' = Append(direct, Feed!shown(entry))
                    \/ direct' = Append(direct, echo)
                    \/ direct # <<>> /\ direct' = Tail(direct)
<1>1. ASSUME Feed!try_start PROVE Moved
  BY <1>1 DEF Feed!try_start
<1>2. ASSUME Feed!publish_stages PROVE Moved
  BY <1>2 DEF Feed!publish_stages
<1>3. ASSUME Feed!finish PROVE Moved
  BY <1>3 DEF Feed!finish
<1>4. ASSUME Feed!start_rollback PROVE Moved
  BY <1>4 DEF Feed!start_rollback
<1>5. ASSUME Feed!finish_rollback PROVE Moved
  BY <1>5 DEF Feed!finish_rollback
<1>6. ASSUME NEW p \in entry.progress .. Full - 1, Feed!tick_stage(p) PROVE Moved
  BY <1>6 DEF Feed!tick_stage
<1>7. ASSUME NEW p \in entry.progress .. Full - 1, Feed!update(p) PROVE Moved
  BY <1>7 DEF Feed!update
<1>8. ASSUME NEW p \in entry.progress .. Full - 1, Feed!Stages(p) PROVE Moved
  BY <1>8 DEF Feed!Stages
<1>9. ASSUME Feed!SaysStage PROVE Moved
  BY <1>9, SaidFrames, Broadcast DEF Feed!SaysStage
<1>10. ASSUME Feed!SaysFinished PROVE Moved
  BY <1>10, SaidFrames, Broadcast DEF Feed!SaysFinished
<1>11. ASSUME Feed!TickerStarts PROVE Moved
  BY <1>11 DEF Feed!TickerStarts
<1>12. ASSUME Feed!TickerStops PROVE Moved
  BY <1>12 DEF Feed!TickerStops
<1>13. ASSUME Feed!TickRead PROVE Moved
  BY <1>13 DEF Feed!TickRead
<1>14. ASSUME Feed!TickSays PROVE Moved
  BY <1>14, SaidFrames, Broadcast DEF Feed!TickSays
<1>15. ASSUME Feed!subscribe PROVE Moved
  BY <1>15 DEF Feed!subscribe
<1>16. ASSUME Feed!WritesSnapshot PROVE Moved
  BY <1>16 DEF Feed!WritesSnapshot
<1>17. ASSUME Feed!forward_snapshot PROVE Moved
  BY <1>17 DEF Feed!forward_snapshot
<1>18. ASSUME Feed!forward_stage PROVE Moved
  BY <1>18 DEF Feed!forward_stage
<1>19. ASSUME Feed!forward_finished PROVE Moved
  BY <1>19 DEF Feed!forward_finished
<1>20. ASSUME Feed!Breaks PROVE Moved
  BY <1>20 DEF Feed!Breaks
<1>21. ASSUME Feed!Restarts PROVE Moved
  BY <1>21 DEF Feed!Restarts
<1>22. ASSUME Feed!Polls PROVE Moved
  BY <1>22 DEF Feed!Polls
<1>23. ASSUME Feed!cancel_task PROVE Moved
  BY <1>23 DEF Feed!cancel_task
<1>24. ASSUME Feed!emit_task_update PROVE Moved
  BY <1>24 DEF Feed!emit_task_update
<1>25. ASSUME Feed!delete_task PROVE Moved
  BY <1>25 DEF Feed!delete_task
<1>26. ASSUME Feed!Raised PROVE Moved
  BY <1>26 DEF Feed!Raised
<1>27. ASSUME NEW k \in Feed!Asks, Feed!list_tasks(k) PROVE Moved
  BY <1>27 DEF Feed!list_tasks
<1>28. ASSUME NEW k \in Feed!Asks, Feed!ListFails(k) PROVE Moved
  BY <1>28 DEF Feed!ListFails
<1>29. ASSUME NEW k \in Feed!Asks, Feed!Absorbs(k) PROVE Moved
  BY <1>29 DEF Feed!Absorbs
<1>30. ASSUME NEW k \in Feed!Asks, Feed!Sets(k) PROVE Moved
  BY <1>30 DEF Feed!Sets
<1>31. QED
  BY <1>1, <1>2, <1>3, <1>4, <1>5, <1>6, <1>7, <1>8, <1>9, <1>10, <1>11, <1>12, <1>13, <1>14, <1>15, <1>16, <1>17, <1>18, <1>19, <1>20, <1>21, <1>22, <1>23, <1>24, <1>25, <1>26, <1>27, <1>28, <1>29, <1>30 DEF Feed!FeedNext

LEMMA DirectAgrees ==
  ASSUME FeedType, WorkInv, EndsAgree, Feed!FeedNext
  PROVE  \A i \in 1 .. Len(direct') : Agrees(entry', direct'[i])
<1>1. direct \in Seq(Shown) /\ echo \in Shown /\ Feed!shown(entry) \in Shown
  BY DEF FeedType, Entries, Shown, Feed!shown
<1>2. /\ \A i \in 1 .. Len(direct) : Agrees(entry', direct[i])
      /\ Agrees(entry', Feed!shown(entry)) /\ Agrees(entry', echo)
  BY StillAgrees, ShownAgrees DEF EndsAgree
<1>3. ASSUME NEW s \in Shown, Agrees(entry', s), direct' = Append(direct, s)
      PROVE  \A i \in 1 .. Len(direct') : Agrees(entry', direct'[i])
  <2>1. SUFFICES ASSUME NEW i \in 1 .. Len(direct') PROVE Agrees(entry', direct'[i])
    OBVIOUS
  <2>2. i \in 1 .. Len(direct) \/ i = Len(direct) + 1
    BY <1>1, <1>3, Appended, LenProperties
  <2>3. QED
    BY <1>1, <1>2, <1>3, <2>2, Appended
<1>4. ASSUME direct # <<>>, direct' = Tail(direct)
      PROVE  \A i \in 1 .. Len(direct') : Agrees(entry', direct'[i])
  BY <1>1, <1>2, <1>4, Taken
<1>5. QED
  BY <1>1, <1>2, <1>3, <1>4, DirectMoves

\* What the frames of the stream come from.
Ending(frame) == frame = [kind |-> "finished", of |-> Feed!shown(entry)] /\ Over
WireGrows ==
  /\ wire.at # "off" /\ wire'.at = wire.at /\ entry' = entry
  /\ \E frame \in Frames : wire'.queue = Append(wire.queue, frame) /\ (frame.kind = "stage" \/ Ending(frame))

LEMMA WireExtends ==
  ASSUME FeedType, entry' = entry, NEW frame \in Frames, Feed!broadcast(frame), frame.kind = "stage" \/ Ending(frame)
  PROVE  wire' = wire \/ WireGrows
<1>1. wire' = wire \/ (wire.at # "off" /\ wire'.at = wire.at /\ wire'.queue = Append(wire.queue, frame))
  BY Broadcast
<1>2. QED
  BY <1>1 DEF WireGrows

LEMMA WireMoves ==
  ASSUME FeedType, WorkInv, Feed!FeedNext
  PROVE  \/ wire' = wire
         \/ wire' = Feed!Closed
         \/ wire.at = "off" /\ wire'.at = "joined" /\ wire'.queue = wire.queue
         \/ /\ wire.at = "joined" /\ wire'.at = "open" /\ entry' = entry
            /\ \E s \in Shown : /\ s = Feed!Nowhere \/ s = Feed!shown(entry)
                              /\ wire'.queue = <<[kind |-> "snapshot", of |-> s]>> \o wire.queue
         \/ wire.at = "open" /\ wire.queue # <<>> /\ wire'.at = "open" /\ wire'.queue = Tail(wire.queue)
         \/ WireGrows
<1>1. ASSUME Feed!SaysStage PROVE wire' = wire \/ WireGrows
  <2>1. entry' = entry /\ Feed!broadcast([kind |-> "stage", of |-> body.of])
    BY <1>1 DEF Feed!SaysStage, Feed!Said
  <2>2. [kind |-> "stage", of |-> body.of].kind = "stage"
    OBVIOUS
  <2>3. QED
    BY <2>1, <2>2, SaidFrames, WireExtends
<1>2. ASSUME Feed!TickSays PROVE wire' = wire \/ WireGrows
  <2>1. entry' = entry /\ Feed!broadcast([kind |-> "stage", of |-> beat.of])
    BY <1>2 DEF Feed!TickSays, Feed!Said
  <2>2. [kind |-> "stage", of |-> beat.of].kind = "stage"
    OBVIOUS
  <2>3. QED
    BY <2>1, <2>2, SaidFrames, WireExtends
<1>3. ASSUME Feed!SaysFinished PROVE wire' = wire \/ WireGrows
  <2>1. entry' = entry /\ Over /\ Feed!broadcast([kind |-> "finished", of |-> Feed!shown(entry)])
    BY <1>3 DEF Feed!SaysFinished, Feed!Said, WorkInv, Feed!At
  <2>2. Ending([kind |-> "finished", of |-> Feed!shown(entry)])
    BY <2>1 DEF Ending
  <2>3. QED
    BY <2>1, <2>2, SaidFrames, WireExtends
<1>4. CASE Feed!subscribe
  BY <1>4 DEF Feed!subscribe, FeedType, Wires
<1>5. CASE Feed!WritesSnapshot
  <2>1. Feed!shown(entry) \in Shown /\ Feed!Nowhere \in Shown
    BY DEF FeedType, Entries, Shown, Feed!shown, Feed!Nowhere, Statuses
  <2>2. PICK s \in Shown : /\ s = Feed!Nowhere \/ s = Feed!shown(entry)
                           /\ s = IF owner = "daemon" THEN Feed!shown(entry) ELSE Feed!Nowhere
    BY <2>1
  <2>3. wire.at = "joined" /\ wire' = [at |-> "open", queue |-> <<[kind |-> "snapshot", of |-> s]>> \o wire.queue]
    BY <1>5, <2>2 DEF Feed!WritesSnapshot
  <2>4. QED
    BY <1>5, <2>2, <2>3 DEF Feed!WritesSnapshot, Feed!Streams
<1>6. CASE Feed!forward_snapshot \/ Feed!forward_stage \/ Feed!forward_finished
  BY <1>6, ReadsHead DEF Feed!forward_snapshot, Feed!forward_stage, Feed!forward_finished
<1>7. StreamStill \/ wire' = Feed!Closed => wire' = wire \/ wire' = Feed!Closed
  BY DEF StreamStill
<1>8. QED
  BY <1>1, <1>2, <1>3, <1>4, <1>5, <1>6, <1>7, StreamMoves DEF Speaks

LEMMA StreamKept ==
  ASSUME FeedType, WorkInv, EndsAgree, StreamInv, Feed!FeedNext
  PROVE  /\ \A i \in 1 .. Len(wire'.queue) : wire'.queue[i].kind # "stage" => Agrees(entry', wire'.queue[i].of)
         /\ StreamInv'
<1> DEFINE q == wire.queue
           Fits(e, i, frame) ==
             /\ frame.kind # "stage" => Agrees(e, frame.of)
             /\ frame.kind = "snapshot" => i = 1
             /\ frame.kind = "finished" => e = Feed!Gone \/ frame.of.status \in Feed!Final
           Good == /\ \A i \in 1 .. Len(wire'.queue) : Fits(entry', i, wire'.queue[i])
                   /\ wire'.at = "off" => wire'.queue = <<>>
                   /\ wire'.at = "joined" => \A i \in 1 .. Len(wire'.queue) : wire'.queue[i].kind # "snapshot"
<1>1. q \in Seq(Frames) /\ Len(q) \in Nat
  BY LenProperties DEF FeedType, Wires
<1>2. entry = Feed!Gone => entry' = Feed!Gone
  BY OverLasts DEF Over, Lasts
<1>3. \A i \in 1 .. Len(q) : Fits(entry', i, q[i])
  BY <1>2, StillAgrees DEF EndsAgree, StreamInv
<1>4. ASSUME wire' = wire PROVE Good
  BY <1>3, <1>4 DEF StreamInv
<1>5. ASSUME wire' = Feed!Closed PROVE Good
  <2>1. wire'.queue = <<>> /\ wire'.at = "off"
    BY <1>5 DEF Feed!Closed
  <2>2. QED
    BY <2>1
<1>6. ASSUME wire.at = "off" /\ wire'.at = "joined" /\ wire'.queue = wire.queue PROVE Good
  <2>1. wire'.queue = <<>>
    BY <1>6 DEF StreamInv
  <2>2. QED
    BY <1>6, <2>1
<1>7. ASSUME wire.at = "joined", wire'.at = "open", entry' = entry,
             NEW s \in Shown, s = Feed!Nowhere \/ s = Feed!shown(entry),
             wire'.queue = <<[kind |-> "snapshot", of |-> s]>> \o q
      PROVE  Good
  <2> DEFINE f == [kind |-> "snapshot", of |-> s]
  <2>1. f \in Frames /\ f.kind = "snapshot" /\ f.of = s
    BY DEF Frames
  <2>2. Agrees(entry', s)
    BY <1>7, ShownAgrees
  <2>3. Fits(entry', 1, f)
    BY <2>1, <2>2
  <2> HIDE DEF f, q
  <2>4. Len(wire'.queue) = Len(q) + 1 /\ wire'.queue[1] = f /\ \A i \in 1 .. Len(q) : wire'.queue[i + 1] = q[i]
    BY <1>1, <1>7, <2>1, Preceded DEF f
  <2>5. \A i \in 1 .. Len(q) : q[i].kind # "snapshot"
    BY <1>7 DEF StreamInv, q
  <2>6. \A i \in 1 .. Len(q) : Fits(entry', i + 1, wire'.queue[i + 1])
    BY <1>3, <2>4, <2>5
  <2>7. \A i \in 1 .. Len(wire'.queue) : i = 1 \/ (i - 1 \in 1 .. Len(q) /\ (i - 1) + 1 = i)
    BY <1>1, <2>4
  <2>8. \A i \in 1 .. Len(wire'.queue) : Fits(entry', i, wire'.queue[i])
    <3> HIDE DEF Fits
    <3> QED
      BY <2>3, <2>4, <2>6, <2>7
  <2>9. QED
    BY <1>7, <2>8
<1>8. ASSUME wire.at = "open" /\ wire.queue # <<>> /\ wire'.at = "open" /\ wire'.queue = Tail(wire.queue) PROVE Good
  <2> HIDE DEF q
  <2>1. \A i \in 1 .. Len(wire'.queue) : wire'.queue[i] = q[i + 1] /\ i + 1 \in 1 .. Len(q)
    BY <1>1, <1>8, Taken DEF q
  <2>2. \A i \in 1 .. Len(wire'.queue) : i + 1 # 1 /\ Fits(entry', i + 1, wire'.queue[i])
    <3> HIDE DEF Fits
    <3> QED
      BY <1>3, <2>1
  <2>3. QED
    BY <1>8, <2>2
<1>9. ASSUME WireGrows PROVE Good
  <2>1. PICK frame \in Frames : wire'.queue = Append(q, frame) /\ (frame.kind = "stage" \/ Ending(frame))
    BY <1>9 DEF WireGrows
  <2>2. wire.at # "off" /\ wire'.at = wire.at /\ entry' = entry
    BY <1>9 DEF WireGrows
  <2>3. \A i : Fits(entry', i, frame)
    <3>1. CASE frame.kind = "stage"
      BY <3>1
    <3>2. CASE Ending(frame)
      <4>1. frame.kind = "finished" /\ frame.of = Feed!shown(entry) /\ Over
        BY <3>2 DEF Ending
      <4>2. Agrees(entry', frame.of) /\ (entry = Feed!Gone \/ frame.of.status \in Feed!Final)
        BY <2>2, <4>1, ShownAgrees DEF Over, Feed!shown
      <4>3. QED
        BY <2>2, <4>1, <4>2
    <3>3. QED
      BY <2>1, <3>1, <3>2
  <2>4. frame.kind # "snapshot"
    BY <2>1 DEF Ending
  <2> HIDE DEF q
  <2>5. /\ Len(wire'.queue) = Len(q) + 1 /\ wire'.queue[Len(q) + 1] = frame
        /\ \A i \in 1 .. Len(q) : wire'.queue[i] = q[i]
    BY <1>1, <2>1, Appended
  <2>6. \A i \in 1 .. Len(wire'.queue) : i \in 1 .. Len(q) \/ i = Len(q) + 1
    BY <1>1, <2>5
  <2>7. \A i \in 1 .. Len(wire'.queue) : Fits(entry', i, wire'.queue[i])
    <3> HIDE DEF Fits
    <3> QED
      BY <1>3, <2>3, <2>5, <2>6
  <2>8. wire'.at = "joined" => \A i \in 1 .. Len(wire'.queue) : wire'.queue[i].kind # "snapshot"
    BY <2>2, <2>4, <2>5, <2>6 DEF StreamInv, q
  <2>9. QED
    BY <2>2, <2>7, <2>8
<1>10. Good
  <2> HIDE DEF Good
  <2> QED
    BY <1>4, <1>5, <1>6, <1>7, <1>8, <1>9, WireMoves
<1>11. QED
  BY <1>10 DEF StreamInv

LEMMA TellingKept ==
  ASSUME FeedType, WorkInv, EndsAgree, StreamInv, NothingSaid, EndComes, LastProgress, Feed!FeedNext
  PROVE  NothingSaid' /\ EndComes' /\ LastProgress'
<1> DEFINE q == wire.queue
           Kept == NothingSaid' /\ EndComes' /\ LastProgress'
<1>1. q \in Seq(Frames) /\ Len(q) \in Nat
  BY LenProperties DEF FeedType, Wires
<1>2. ASSUME StreamStill PROVE Kept
  <2>1. NothingSaid'
    BY <1>2 DEF StreamStill, NothingSaid
  <2>2. EndComes'
    BY <1>2 DEF StreamStill, EndComes, Feed!At
  <2>3. LastProgress'
    <3>1. SUFFICES ASSUME owner' = "daemon", body'.at \in Settled, wire'.at # "off", entry' # Feed!Gone
                   PROVE  LastProgress'
      BY DEF LastProgress, Settled
    <3>2. /\ owner = "daemon" /\ body.at \in Settled /\ wire' = wire /\ told' = told
          /\ entry # Feed!Gone /\ entry'.progress = entry.progress
      BY <1>2, <3>1 DEF StreamStill
    <3>3. QED
      BY <3>1, <3>2 DEF LastProgress, Settled
  <2>4. QED
    BY <2>1, <2>2, <2>3
<1>3. ASSUME Feed!SaysStage \/ Feed!TickSays \/ Feed!SaysFinished PROVE Kept
  <2>1. PICK frame \in Frames :
          /\ Feed!broadcast(frame)
          /\ \/ Feed!SaysStage /\ frame = [kind |-> "stage", of |-> body.of]
             \/ Feed!TickSays /\ frame = [kind |-> "stage", of |-> beat.of]
             \/ Feed!SaysFinished /\ frame = [kind |-> "finished", of |-> Feed!shown(entry)]
    BY <1>3, SaidFrames DEF Feed!SaysStage, Feed!TickSays, Feed!SaysFinished
  <2>2. UNCHANGED <<owner, entry, told>>
    BY <1>3 DEF Feed!SaysStage, Feed!TickSays, Feed!SaysFinished, Feed!Said
  <2>3. /\ frame.kind \in {"stage", "finished"}
        /\ Feed!SaysFinished \/ frame.kind = "stage"
        /\ Feed!SaysFinished => frame.kind = "finished" /\ frame.of = Feed!shown(entry)
    <3>1. Feed!SaysFinished => ~Feed!SaysStage /\ ~Feed!TickSays
      BY DEF Feed!SaysStage, Feed!TickSays, Feed!SaysFinished, Feed!At, Feed!Rests
    <3>2. QED
      BY <2>1, <3>1
  <2>4. /\ Feed!SaysFinished => Feed!At("finished") /\ body'.at = "done"
        /\ Feed!SaysStage => Feed!At("stage") /\ body'.at = body.next
        /\ Feed!TickSays => UNCHANGED body /\ body.at \notin Settled
    BY <2>1 DEF Feed!SaysStage, Feed!TickSays, Feed!SaysFinished, Feed!At, Feed!Rests, WorkInv, Settled
  <2>5. CASE wire' = wire
    <3>1. wire.at = "off" \/ owner # "daemon"
      BY <2>1, <2>5, Broadcast
    <3>2. wire.at = "off" => wire.queue = <<>>
      BY DEF StreamInv
    <3>3. QED
      BY <2>2, <2>5, <3>1, <3>2 DEF NothingSaid, EndComes, LastProgress
  <2>6. CASE wire.at # "off" /\ wire'.at = wire.at /\ wire'.queue = Append(q, frame)
    <3> HIDE DEF q
    <3>1. /\ Len(wire'.queue) = Len(q) + 1 /\ wire'.queue[Len(q) + 1] = frame
          /\ \A i \in 1 .. Len(q) : wire'.queue[i] = q[i]
      BY <1>1, <2>6, Appended
    <3>2. /\ \A i \in 1 .. Len(wire'.queue) : i \in 1 .. Len(q) \/ i = Len(q) + 1
          /\ \A i \in 1 .. Len(q) : i \in 1 .. Len(wire'.queue)
          /\ Len(q) + 1 \in 1 .. Len(wire'.queue)
      BY <1>1, <3>1
    <3>3. NothingSaid'
      <4>1. (\E i \in 1 .. Len(wire'.queue) : wire'.queue[i].kind = "snapshot") => \E i \in 1 .. Len(q) : q[i].kind = "snapshot"
        BY <2>3, <3>1, <3>2
      <4>2. QED
        BY <2>2, <2>6, <4>1 DEF NothingSaid, q
    <3>4. EndComes'
      <4>1. SUFFICES ASSUME Feed!At("done")', entry' # Feed!Gone PROVE EndComes'
        BY DEF EndComes
      <4>2. Feed!SaysFinished
        BY <1>3, <2>4, <4>1 DEF Feed!At, Settled, WorkInv
      <4>3. frame.kind # "stage" /\ frame.of.status = entry'.status
        BY <2>2, <2>3, <4>2 DEF Feed!shown
      <4>4. QED
        BY <3>1, <3>2, <4>3 DEF EndComes
    <3>5. LastProgress'
      <4>1. SUFFICES ASSUME owner' = "daemon", body'.at \in Settled, entry' # Feed!Gone PROVE LastProgress'
        BY DEF LastProgress, Settled
      <4>2. CASE Feed!SaysStage
        <5>1. body.next = "finished" /\ frame.kind = "stage" /\ frame.of.progress = entry'.progress
          <6>1. body.next = "finished"
            BY <2>4, <4>1, <4>2 DEF WorkInv, Settled
          <6>2. body.of = Feed!shown(entry)
            BY <2>2, <2>4, <4>1, <4>2, <6>1 DEF WorkInv
          <6>3. frame = [kind |-> "stage", of |-> body.of]
            BY <2>1, <2>4, <4>2, <6>1 DEF WorkInv, Settled, Feed!SaysFinished, Feed!At
          <6>4. QED
            BY <2>2, <6>1, <6>2, <6>3 DEF Feed!shown
        <5>2. \A j \in 1 .. Len(wire'.queue) : ~(j > Len(q) + 1)
          BY <1>1, <3>1
        <5>3. QED
          BY <3>1, <3>2, <5>1, <5>2 DEF LastProgress
      <4>3. CASE Feed!SaysFinished
        <5>1. body.at = "finished" /\ frame.kind = "finished" /\ owner = "daemon" /\ entry # Feed!Gone
          BY <2>2, <2>3, <2>4, <4>1, <4>3 DEF Feed!At
        <5>2. CASE \E i \in 1 .. Len(q) : /\ q[i].kind # "finished" /\ q[i].of.progress = entry.progress
                                         /\ \A j \in 1 .. Len(q) : j > i => q[j].kind = "finished"
          <6>1. PICK i \in 1 .. Len(q) : /\ q[i].kind # "finished" /\ q[i].of.progress = entry.progress
                                         /\ \A j \in 1 .. Len(q) : j > i => q[j].kind = "finished"
            BY <5>2
          <6>2. \A j \in 1 .. Len(wire'.queue) : j > i => wire'.queue[j].kind = "finished"
            BY <3>1, <3>2, <5>1, <6>1
          <6>3. i \in 1 .. Len(wire'.queue) /\ wire'.queue[i].kind # "finished" /\ wire'.queue[i].of.progress = entry'.progress
            BY <2>2, <3>1, <3>2, <6>1
          <6>4. QED
            BY <6>2, <6>3 DEF LastProgress
        <5>3. CASE /\ \A j \in 1 .. Len(q) : q[j].kind = "finished"
                   /\ wire.at = "open" => told.progress = entry.progress
          <6>1. \A j \in 1 .. Len(wire'.queue) : wire'.queue[j].kind = "finished"
            BY <3>1, <3>2, <5>1, <5>3
          <6>2. QED
            BY <2>2, <2>6, <5>3, <6>1 DEF LastProgress
        <5>4. QED
          BY <2>6, <5>1, <5>2, <5>3 DEF LastProgress, q
      <4>4. QED
        BY <1>3, <2>4, <4>1, <4>2, <4>3
    <3>6. QED
      BY <3>3, <3>4, <3>5
  <2>7. QED
    BY <2>1, <2>5, <2>6, Broadcast
<1>4. ASSUME Feed!subscribe PROVE Kept
  <2>1. wire'.at = "joined" /\ wire'.queue = <<>> /\ told' = Feed!Nowhere
    BY <1>4 DEF Feed!subscribe, StreamInv, FeedType, Wires
  <2>2. QED
    BY <2>1 DEF NothingSaid, EndComes, LastProgress
<1>5. ASSUME Feed!WritesSnapshot PROVE Kept
  <2>1. UNCHANGED <<owner, entry, body, told>> /\ wire.at = "joined"
    BY <1>5 DEF Feed!WritesSnapshot, Feed!Streams
  <2>2. told' = Feed!Nowhere
    BY <2>1 DEF NothingSaid
  <2>3. PICK s \in Shown : s = IF owner = "daemon" THEN Feed!shown(entry) ELSE Feed!Nowhere
    BY DEF FeedType, Entries, Shown, Feed!shown, Feed!Nowhere, Statuses
  <2> DEFINE f == [kind |-> "snapshot", of |-> s]
  <2>4. f \in Frames /\ f.kind = "snapshot" /\ f.of = s
    BY DEF Frames
  <2> HIDE DEF f, q
  <2>5. wire' = [at |-> "open", queue |-> <<f>> \o q]
    BY <1>5, <2>3 DEF Feed!WritesSnapshot, f, q
  <2>6. Len(wire'.queue) = Len(q) + 1 /\ wire'.queue[1] = f /\ \A i \in 1 .. Len(q) : wire'.queue[i + 1] = q[i]
    BY <1>1, <2>4, <2>5, Preceded
  <2>7. /\ \A i \in 1 .. Len(wire'.queue) : i = 1 \/ (i - 1 \in 1 .. Len(q) /\ (i - 1) + 1 = i)
        /\ \A i \in 1 .. Len(q) : i + 1 \in 1 .. Len(wire'.queue)
        /\ 1 \in 1 .. Len(wire'.queue)
    BY <1>1, <2>6
  <2>8. NothingSaid'
    BY <2>2 DEF NothingSaid
  <2>9. EndComes'
    <3>1. owner = "daemon" => f.of.status = entry'.status
      BY <2>1, <2>3, <2>4 DEF Feed!shown
    <3>2. QED
      BY <2>1, <2>4, <2>6, <2>7, <3>1 DEF EndComes
  <2>10. LastProgress'
    <3>1. SUFFICES ASSUME owner' = "daemon", body'.at \in Settled, entry' # Feed!Gone PROVE LastProgress'
      BY DEF LastProgress, Settled
    <3>2. f.of.progress = entry'.progress
      BY <2>1, <2>3, <2>4, <3>1 DEF Feed!shown
    <3>3. CASE \E i \in 1 .. Len(q) : /\ q[i].kind # "finished" /\ q[i].of.progress = entry.progress
                                     /\ \A j \in 1 .. Len(q) : j > i => q[j].kind = "finished"
      <4>1. PICK i \in 1 .. Len(q) : /\ q[i].kind # "finished" /\ q[i].of.progress = entry.progress
                                     /\ \A j \in 1 .. Len(q) : j > i => q[j].kind = "finished"
        BY <3>3
      <4>2. \A j \in 1 .. Len(wire'.queue) : j > i + 1 => wire'.queue[j].kind = "finished"
        <5>1. SUFFICES ASSUME NEW j \in 1 .. Len(wire'.queue), j > i + 1 PROVE wire'.queue[j].kind = "finished"
          OBVIOUS
        <5>2. j - 1 \in 1 .. Len(q) /\ (j - 1) + 1 = j /\ j - 1 > i
          BY <1>1, <2>6, <4>1, <5>1
        <5>3. wire'.queue[j] = q[j - 1]
          BY <2>6, <5>2
        <5>4. QED
          BY <4>1, <5>2, <5>3
      <4>3. i + 1 \in 1 .. Len(wire'.queue) /\ wire'.queue[i + 1].kind # "finished" /\ wire'.queue[i + 1].of.progress = entry'.progress
        BY <2>1, <2>6, <2>7, <4>1
      <4>4. QED
        BY <4>2, <4>3 DEF LastProgress
    <3>4. CASE \A j \in 1 .. Len(q) : q[j].kind = "finished"
      <4>1. \A j \in 1 .. Len(wire'.queue) : j > 1 => wire'.queue[j].kind = "finished"
        <5>1. SUFFICES ASSUME NEW j \in 1 .. Len(wire'.queue), j > 1 PROVE wire'.queue[j].kind = "finished"
          OBVIOUS
        <5>2. j - 1 \in 1 .. Len(q) /\ (j - 1) + 1 = j
          BY <1>1, <2>6, <5>1
        <5>3. wire'.queue[j] = q[j - 1]
          BY <2>6, <5>2
        <5>4. QED
          BY <3>4, <5>2, <5>3
      <4>2. QED
        BY <2>4, <2>6, <2>7, <3>2, <4>1 DEF LastProgress
    <3>5. QED
      BY <2>1, <3>1, <3>3, <3>4 DEF LastProgress, Settled, q
  <2>11. QED
    BY <2>8, <2>9, <2>10
<1>6. ASSUME Feed!forward_snapshot \/ Feed!forward_stage \/ Feed!forward_finished PROVE Kept
  <2>1. UNCHANGED <<owner, entry, body>>
    BY <1>6 DEF Feed!forward_snapshot, Feed!forward_stage, Feed!forward_finished, Feed!Streams
  <2>2. PICK kind : /\ Feed!Reads(kind)
                    /\ \/ kind = "snapshot" /\ told' = Head(q).of
                       \/ kind = "stage" /\ told' = [told EXCEPT !.progress = Head(q).of.progress]
                       \/ kind = "finished" /\ told' = [told EXCEPT !.status = Head(q).of.status]
    BY <1>6 DEF Feed!forward_snapshot, Feed!forward_stage, Feed!forward_finished
  <2>3. /\ wire.at = "open" /\ wire'.at = "open" /\ q # <<>> /\ wire'.queue = Tail(q)
        /\ Head(q) = q[1] /\ q[1].kind = kind /\ q[1].of \in Shown
    BY <2>2, ReadsHead
  <2>4. told \in Shown
    BY DEF FeedType
  <2>5. /\ kind = "snapshot" => told' = q[1].of
        /\ kind = "stage" => told'.progress = q[1].of.progress /\ told'.status = told.status
        /\ kind = "finished" => told'.status = q[1].of.status /\ told'.progress = told.progress
        /\ kind \in {"snapshot", "stage", "finished"}
    BY <2>2, <2>3, <2>4 DEF Shown
  <2> HIDE DEF q
  <2>6. /\ Len(wire'.queue) = Len(q) - 1 /\ Len(q) >= 1 /\ 1 \in 1 .. Len(q)
        /\ \A i \in 1 .. Len(wire'.queue) : wire'.queue[i] = q[i + 1] /\ i + 1 \in 1 .. Len(q) /\ i + 1 > 1
    BY <1>1, <2>3, Taken
  <2>7. \A j \in 1 .. Len(q) : j = 1 \/ (j - 1 \in 1 .. Len(wire'.queue) /\ wire'.queue[j - 1] = q[j])
    <3>1. SUFFICES ASSUME NEW j \in 1 .. Len(q), j # 1 PROVE j - 1 \in 1 .. Len(wire'.queue) /\ wire'.queue[j - 1] = q[j]
      OBVIOUS
    <3>2. j - 1 \in 1 .. Len(wire'.queue) /\ (j - 1) + 1 = j
      BY <1>1, <2>6, <3>1
    <3>3. QED
      BY <2>6, <3>2
  <2>8. NothingSaid'
    <3>1. \A i \in 1 .. Len(wire'.queue) : wire'.queue[i].kind # "snapshot"
      <4>1. \A i \in 1 .. Len(q) : q[i].kind = "snapshot" => i = 1
        BY DEF StreamInv, q
      <4>2. QED
        BY <2>6, <4>1
    <3>2. QED
      BY <2>3, <3>1 DEF NothingSaid
  <2>9. EndComes'
    <3>1. SUFFICES ASSUME owner' = "daemon", Feed!At("done")', entry' # Feed!Gone PROVE EndComes'
      BY DEF EndComes
    <3>2. /\ owner = "daemon" /\ Feed!At("done") /\ entry # Feed!Gone /\ entry' = entry
          /\ entry.status \in Feed!Final
      BY <2>1, <3>1 DEF Feed!At, WorkInv, Over
    <3>3. CASE told.status = entry.status
      <4>1. kind # "snapshot"
        <5>1. told.status # "none"
          BY <3>2, <3>3 DEF Feed!Final
        <5>2. told # Feed!Nowhere
          BY <5>1 DEF Feed!Nowhere
        <5>3. \A i \in 1 .. Len(q) : q[i].kind # "snapshot"
          BY <5>2 DEF NothingSaid, q
        <5>4. QED
          BY <2>3, <2>6, <5>3
      <4>2. kind = "finished" => q[1].of.status = entry.status
        <5>1. \A i \in 1 .. Len(q) : q[i].kind = "finished" => q[i].of.status \in Feed!Final /\ Agrees(entry, q[i].of)
          BY <3>2 DEF StreamInv, EndsAgree, q
        <5>2. QED
          BY <2>3, <2>6, <3>2, <5>1 DEF Agrees
      <4>3. told'.status = entry'.status
        BY <2>5, <3>2, <3>3, <4>1, <4>2
      <4>4. QED
        BY <4>3 DEF EndComes
    <3>4. CASE \E i \in 1 .. Len(q) : q[i].kind # "stage" /\ q[i].of.status = entry.status
      <4>1. PICK i \in 1 .. Len(q) : q[i].kind # "stage" /\ q[i].of.status = entry.status
        BY <3>4
      <4>2. CASE i = 1
        <5>1. told'.status = entry'.status
          BY <2>3, <2>5, <3>2, <4>1, <4>2
        <5>2. QED
          BY <5>1 DEF EndComes
      <4>3. CASE i # 1
        <5>1. i - 1 \in 1 .. Len(wire'.queue) /\ wire'.queue[i - 1] = q[i]
          BY <2>7, <4>3
        <5>2. QED
          BY <3>2, <4>1, <5>1 DEF EndComes
      <4>4. QED
        BY <4>2, <4>3
    <3>5. QED
      BY <2>3, <3>2, <3>3, <3>4 DEF EndComes, q
  <2>10. LastProgress'
    <3>1. SUFFICES ASSUME owner' = "daemon", body'.at \in Settled, entry' # Feed!Gone PROVE LastProgress'
      BY DEF LastProgress, Settled
    <3>2. owner = "daemon" /\ body.at \in Settled /\ entry # Feed!Gone /\ entry' = entry
      BY <2>1, <3>1
    <3>3. CASE \E i \in 1 .. Len(q) : /\ q[i].kind # "finished" /\ q[i].of.progress = entry.progress
                                     /\ \A j \in 1 .. Len(q) : j > i => q[j].kind = "finished"
      <4>1. PICK i \in 1 .. Len(q) : /\ q[i].kind # "finished" /\ q[i].of.progress = entry.progress
                                     /\ \A j \in 1 .. Len(q) : j > i => q[j].kind = "finished"
        BY <3>3
      <4>2. CASE i = 1
        <5>1. told'.progress = entry'.progress
          BY <2>3, <2>5, <3>2, <4>1, <4>2
        <5>2. \A j \in 1 .. Len(wire'.queue) : wire'.queue[j].kind = "finished"
          BY <2>6, <4>1, <4>2
        <5>3. QED
          BY <5>1, <5>2 DEF LastProgress
      <4>3. CASE i # 1
        <5>1. i - 1 \in 1 .. Len(wire'.queue) /\ wire'.queue[i - 1] = q[i]
          BY <2>7, <4>3
        <5>2. \A j \in 1 .. Len(wire'.queue) : j > i - 1 => wire'.queue[j].kind = "finished"
          <6>1. SUFFICES ASSUME NEW j \in 1 .. Len(wire'.queue), j > i - 1 PROVE wire'.queue[j].kind = "finished"
            OBVIOUS
          <6>2. wire'.queue[j] = q[j + 1] /\ j + 1 \in 1 .. Len(q)
            BY <2>6
          <6>3. j + 1 > i
            BY <1>1, <4>1, <6>1
          <6>4. QED
            BY <4>1, <6>2, <6>3
        <5>3. QED
          BY <3>2, <4>1, <5>1, <5>2 DEF LastProgress
      <4>4. QED
        BY <4>2, <4>3
    <3>4. CASE (\A j \in 1 .. Len(q) : q[j].kind = "finished") /\ told.progress = entry.progress
      <4>1. kind = "finished" /\ told'.progress = entry'.progress
        BY <2>3, <2>5, <2>6, <3>2, <3>4
      <4>2. \A j \in 1 .. Len(wire'.queue) : wire'.queue[j].kind = "finished"
        BY <2>6, <3>4
      <4>3. QED
        BY <4>1, <4>2 DEF LastProgress
    <3>5. QED
      BY <2>3, <3>2, <3>3, <3>4 DEF LastProgress, Settled, q
  <2>11. QED
    BY <2>8, <2>9, <2>10
<1>7. ASSUME wire' = Feed!Closed PROVE Kept
  <2>1. wire'.at = "off" /\ wire'.queue = <<>>
    BY <1>7 DEF Feed!Closed
  <2>2. QED
    BY <2>1 DEF NothingSaid, EndComes, LastProgress
<1>8. QED
  BY <1>2, <1>3, <1>4, <1>5, <1>6, <1>7, StreamMoves DEF Speaks

LEMMA RefreshesKept ==
  ASSUME FeedType, Feed!SuccessRefreshes, Feed!FeedNext
  PROVE  Feed!SuccessRefreshes'
<1> USE DEF FeedType, Feed!SuccessRefreshes, Shown, Feed!Nowhere, Feed!Works, Feed!Said, Feed!Ticks, Feed!Streams, Feed!Lists,
            Feed!OfPanel, Feed!Replaces, Feed!absorb
<1>1. CASE Feed!try_start
  BY <1>1 DEF Feed!try_start
<1>2. CASE Feed!publish_stages
  BY <1>2 DEF Feed!publish_stages
<1>3. CASE Feed!finish
  BY <1>3 DEF Feed!finish
<1>4. CASE Feed!start_rollback
  BY <1>4 DEF Feed!start_rollback
<1>5. CASE Feed!finish_rollback
  BY <1>5 DEF Feed!finish_rollback
<1>6. ASSUME NEW p \in entry.progress .. Full - 1, Feed!tick_stage(p) PROVE Feed!SuccessRefreshes'
  BY <1>6 DEF Feed!tick_stage
<1>7. ASSUME NEW p \in entry.progress .. Full - 1, Feed!update(p) PROVE Feed!SuccessRefreshes'
  BY <1>7 DEF Feed!update
<1>8. ASSUME NEW p \in entry.progress .. Full - 1, Feed!Stages(p) PROVE Feed!SuccessRefreshes'
  BY <1>8 DEF Feed!Stages
<1>9. CASE Feed!SaysStage
  BY <1>9 DEF Feed!SaysStage
<1>10. CASE Feed!SaysFinished
  BY <1>10 DEF Feed!SaysFinished
<1>11. CASE Feed!TickerStarts
  BY <1>11 DEF Feed!TickerStarts
<1>12. CASE Feed!TickerStops
  BY <1>12 DEF Feed!TickerStops
<1>13. CASE Feed!TickRead
  BY <1>13 DEF Feed!TickRead
<1>14. CASE Feed!TickSays
  BY <1>14 DEF Feed!TickSays
<1>15. CASE Feed!subscribe
  BY <1>15 DEF Feed!subscribe
<1>16. CASE Feed!WritesSnapshot
  BY <1>16 DEF Feed!WritesSnapshot
<1>17. CASE Feed!forward_snapshot
  BY <1>17 DEF Feed!forward_snapshot
<1>18. CASE Feed!forward_stage
  BY <1>18 DEF Feed!forward_stage
<1>19. CASE Feed!forward_finished
  BY <1>19 DEF Feed!forward_finished
<1>20. CASE Feed!Breaks
  BY <1>20 DEF Feed!Breaks
<1>21. CASE Feed!Restarts
  BY <1>21 DEF Feed!Restarts
<1>22. CASE Feed!Polls
  BY <1>22 DEF Feed!Polls
<1>23. CASE Feed!cancel_task
  BY <1>23 DEF Feed!cancel_task
<1>24. CASE Feed!emit_task_update
  BY <1>24 DEF Feed!emit_task_update
<1>25. CASE Feed!delete_task
  BY <1>25 DEF Feed!delete_task
<1>26. CASE Feed!Raised
  BY <1>26 DEF Feed!Raised
<1>27. ASSUME NEW k \in Feed!Asks, Feed!list_tasks(k) PROVE Feed!SuccessRefreshes'
  BY <1>27 DEF Feed!list_tasks
<1>28. ASSUME NEW k \in Feed!Asks, Feed!ListFails(k) PROVE Feed!SuccessRefreshes'
  BY <1>28 DEF Feed!ListFails
<1>29. ASSUME NEW k \in Feed!Asks, Feed!Absorbs(k) PROVE Feed!SuccessRefreshes'
  BY <1>29 DEF Feed!Absorbs
<1>30. ASSUME NEW k \in Feed!Asks, Feed!Sets(k) PROVE Feed!SuccessRefreshes'
  BY <1>30 DEF Feed!Sets
<1>31. QED
  BY <1>1, <1>2, <1>3, <1>4, <1>5, <1>6, <1>7, <1>8, <1>9, <1>10, <1>11, <1>12, <1>13, <1>14, <1>15, <1>16, <1>17, <1>18, <1>19, <1>20, <1>21, <1>22, <1>23, <1>24, <1>25, <1>26, <1>27, <1>28, <1>29, <1>30 DEF Feed!FeedNext

LEMMA FeedHolds == PartsSpec => [](part = "feed" => FeedInv)
<1>1. PartsInit => (part = "feed" => FeedInv)
  <2> SUFFICES ASSUME Feed!FeedInit PROVE FeedInv
    BY DEF PartsInit, PartsStart
  <2> USE DEF Feed!FeedInit, Feed!Rests, Feed!Quiet, Feed!Closed, Feed!Nowhere, Feed!Idle, Feed!Asked, Feed!Asks
  <2>1. FeedType
    <3>1. Feed!Nowhere \in Shown
      BY DEF Statuses, Shown
    <3>2. wire \in Wires /\ direct \in Seq(Shown)
      BY DEF Wires
    <3>3. lists \in [Feed!Asks -> Asking]
      BY <3>1 DEF Asking
    <3>4. entry \in Entries
      BY DEF Entries, Statuses
    <3>5. body \in Bodies /\ beat \in Beats
      BY <3>1 DEF Bodies, Beats, BodySteps
    <3>6. QED
      BY <3>1, <3>2, <3>3, <3>4, <3>5 DEF FeedType
  <2>2. WorkInv
    BY DEF WorkInv, Feed!At
  <2>3. wire.queue = <<>> /\ direct = <<>> /\ wire.at = "off" /\ body.at = "queued"
    OBVIOUS
  <2>4. EndsAgree
    BY <2>3 DEF EndsAgree, Agrees, Feed!Final
  <2>5. StreamInv /\ NothingSaid /\ EndComes /\ LastProgress
    BY <2>3 DEF StreamInv, NothingSaid, EndComes, LastProgress
  <2>6. QED
    BY <2>1, <2>2, <2>4, <2>5 DEF FeedInv, Feed!SuccessRefreshes
<1>2. (part = "feed" => FeedInv) /\ [PartsNext]_partsVars => (part = "feed" => FeedInv)'
  <2> SUFFICES ASSUME part = "feed" => FeedInv, [PartsNext]_partsVars, part' = "feed"
               PROVE  FeedInv'
    OBVIOUS
  <2>1. part = "feed"
    BY DEF PartsNext, partsVars
  <2>2. CASE Feed!FeedNext
    <3> USE <2>1, <2>2 DEF FeedInv
    <3>1. FeedType'
      BY FeedTypeKept
    <3>2. WorkInv'
      BY WorkKept
    <3>3. StreamInv' /\ EndsAgree'
      BY PanelAgrees, DirectAgrees, StreamKept DEF EndsAgree
    <3>4. NothingSaid' /\ EndComes' /\ LastProgress'
      BY TellingKept
    <3>5. Feed!SuccessRefreshes'
      BY RefreshesKept
    <3>6. QED
      BY <3>1, <3>2, <3>3, <3>4, <3>5
  <2>3. CASE UNCHANGED feed
    BY <2>1, <2>3 DEF feed, FeedInv, FeedType, WorkInv, Over, EndsAgree, StreamInv, NothingSaid, EndComes, LastProgress,
                      Feed!SuccessRefreshes, Feed!At
  <2>4. QED
    BY <2>1, <2>2, <2>3, FeedMoves
<1>3. QED
  BY <1>1, <1>2, PTL DEF PartsSpec

LEMMA FeedIsSound == ASSUME FeedInv PROVE Feed!FeedSound
<1>1. Feed!StreamTold
  <2>1. SUFFICES ASSUME owner = "daemon", wire = [at |-> "open", queue |-> <<>>], Feed!At("done"), entry # Feed!Gone
                 PROVE  told = Feed!shown(entry)
    BY DEF Feed!StreamTold
  <2>2. wire.at = "open" /\ Len(wire.queue) = 0
    BY <2>1
  <2>3. told.status = entry.status
    BY <2>1, <2>2 DEF FeedInv, EndComes
  <2>4. told.progress = entry.progress
    BY <2>1, <2>2 DEF FeedInv, LastProgress, Feed!At
  <2>5. QED
    BY <2>3, <2>4 DEF FeedInv, FeedType, Shown, Feed!shown
<1>2. Feed!PanelIsTrue
  BY DEF FeedInv, EndsAgree, Agrees, Feed!PanelIsTrue
<1>3. QED
  BY <1>1, <1>2 DEF FeedInv, Feed!FeedSound
-----------------------------------------------------------------------------
(* How the store is opened (StoreOpening). *)

LEMMA OpeningMoves ==
  ASSUME part = "opening", [PartsNext]_partsVars
  PROVE  part' = "opening" /\ (Opening!OpeningNext \/ UNCHANGED opening)
BY DEF PartsNext, partsVars, TreeStep, StoreStep, CheckStep, DownloadStep, DeletionStep, RepositoryStep,
       InstallStep, CopyStep, RegistryStep, SettingStep, MirrorStep, FeedStep, EndpointStep, OpeningStep

Rows == SUBSET (Legacy \cup Fresh)
Files == {Opening!NoFile, Opening!Torn} \cup [form : {"array", "object"}, tasks : Rows]
Openers == [at : {"idle", "exists", "read", "load", "put", "rename"}, saw : Rows]
Fillings == [into : {"nowhere", "file", "archive", "lost"}, tasks : Rows, task : Rows]
OpeningType ==
  /\ tasksFile \in Files /\ archive \in Files /\ database \in Rows
  /\ opener \in [Opening!Opener -> Openers]
  /\ backend \in [Opening!Process -> {"none", "sqlite", "json", "memory"}]
  /\ inMemory \in [Opening!Process -> Rows]
  /\ filling \in Fillings
  /\ nodesIn \in {"none", "sqlite", "memory"}
  /\ faults \in Nat /\ fellBack \in BOOLEAN /\ entwined \in BOOLEAN

\* An import that runs alone keeps the file it has read.
RunsAlone ==
  ~entwined =>
    /\ \A o, q \in Opening!Opener : ~Opening!At(o, {"idle"}) /\ ~Opening!At(q, {"idle"}) => o = q
    /\ \A o \in Opening!Opener :
         /\ ~Opening!At(o, {"idle"}) => filling = Opening!Written
         /\ Opening!At(o, {"read"}) => tasksFile # Opening!NoFile
         /\ Opening!At(o, {"load", "put", "rename"}) => tasksFile.form \in {"array", "object"}
\* While no process has fallen back, nobody writes the file, and nobody has a
\* database to work with before the file is imported and put aside.
Imported == tasksFile.tasks \subseteq database \cup deleted
FileFirst ==
  ~fellBack =>
    /\ filling = Opening!Written
    /\ \A p \in Opening!Process : /\ backend[p] \in {"none", "sqlite"}
                                  /\ backend[p] = "sqlite" => tasksFile = Opening!NoFile
    /\ tasksFile # Opening!NoFile => database = {} \/ Imported
    /\ \A o \in Opening!Opener :
         /\ Opening!At(o, {"load", "put"}) => tasksFile = Opening!NoFile \/ opener[o].saw = tasksFile.tasks
         /\ Opening!At(o, {"rename"}) => tasksFile = Opening!NoFile \/ Imported
\* Who opens alone, and without a fault, gets the database, or meets a file that
\* does not parse and stays as it is.
GetsDatabase ==
  (~entwined /\ faults = 0) =>
    /\ filling = Opening!Written
    /\ \/ tasksFile = Opening!Torn
       \/ (\A p \in Opening!Process : backend[p] \in {"none", "sqlite"}) /\ nodesIn \in {"none", "sqlite"}
OpeningInv ==
  /\ OpeningType /\ RunsAlone /\ FileFirst /\ GetsDatabase
  /\ Opening!ImportedFirst /\ Opening!DatabaseKeeps /\ Opening!TornStays


\* What follows an open keeps the types ...
LEMMA OpenedTyped ==
  ASSUME OpeningType, NEW o \in Opening!Opener, Opening!Opened(o)
  PROVE  /\ opener' \in [Opening!Opener -> Openers]
         /\ backend' \in [Opening!Process -> {"none", "sqlite", "json", "memory"}]
         /\ inMemory' \in [Opening!Process -> Rows]
         /\ nodesIn' \in {"none", "sqlite", "memory"} /\ fellBack' \in BOOLEAN
BY DEF OpeningType, Openers, Rows, Opening!Opened, Opening!Idle, Opening!Opener, Opening!Process

\* ... and so does falling back.
LEMMA RefusedTyped ==
  ASSUME OpeningType, NEW o \in Opening!Opener, Opening!Refused(o)
  PROVE  /\ opener' \in [Opening!Opener -> Openers]
         /\ backend' \in [Opening!Process -> {"none", "sqlite", "json", "memory"}]
         /\ inMemory' \in [Opening!Process -> Rows]
         /\ nodesIn' \in {"none", "sqlite", "memory"} /\ fellBack' \in BOOLEAN
         /\ tasksFile' \in Files /\ archive' \in Files /\ filling' \in Fillings /\ entwined' \in BOOLEAN
         /\ database' = database
<1>1. Opening!load_scope \in Rows
  BY DEF OpeningType, Files, Rows, Opening!load_scope, Opening!NoFile, Opening!Torn
<1>2. Opening!FallBack(o) /\ Opening!Restored(o)
  BY DEF Opening!Refused
<1>3. opener' \in [Opening!Opener -> Openers]
  BY <1>2 DEF OpeningType, Openers, Rows, Opening!FallBack, Opening!Idle
<1>4. /\ backend' \in [Opening!Process -> {"none", "sqlite", "json", "memory"}]
      /\ nodesIn' \in {"none", "sqlite", "memory"} /\ fellBack' \in BOOLEAN
  BY <1>2 DEF OpeningType, Opening!FallBack, Opening!Opener, Opening!Process
<1>5. inMemory' \in [Opening!Process -> Rows]
  BY <1>1, <1>2 DEF OpeningType, Rows, Opening!FallBack, Opening!Opener, Opening!Process
<1>6. /\ tasksFile' \in Files /\ archive' \in Files /\ filling' \in Fillings /\ entwined' \in BOOLEAN
      /\ database' = database
  <2> HIDE DEF Opening!load_scope
  <2>1. CASE UNCHANGED Opening!Stored /\ UNCHANGED entwined
    BY <2>1 DEF OpeningType, Opening!Stored
  <2>2. CASE Opening!Truncates(Opening!load_scope, {}) /\ UNCHANGED <<archive, database>>
    BY <1>1, <2>2 DEF OpeningType, Files, Fillings, Rows, Opening!Truncates, Opening!Torn
  <2>3. QED
    BY <1>2, <2>1, <2>2 DEF Opening!Restored
<1>7. QED
  BY <1>3, <1>4, <1>5, <1>6

LEMMA OpenerTyped ==
  ASSUME OpeningType, NEW o \in Opening!Opener,
         Opening!Fails(o) \/ Opening!Exists(o) \/ Opening!read_legacy_documents(o) \/ Opening!Archives(o)
  PROVE  OpeningType'
<1>1. faults' \in Nat /\ database' \in Rows
  BY RefusedTyped
  DEF OpeningType, Opening!Fails, Opening!Exists, Opening!read_legacy_documents, Opening!Archives, Opening!Past,
      Opening!Stored
<1>2. ASSUME Opening!Refused(o) PROVE OpeningType'
  BY <1>1, <1>2, RefusedTyped DEF OpeningType
<1>3. ASSUME NEW f \in Openers, opener' = [opener EXCEPT ![o] = f],
             UNCHANGED Opening!Stored, UNCHANGED Opening!Backends, UNCHANGED Opening!Past
      PROVE  OpeningType'
  BY <1>3 DEF OpeningType, Opening!Stored, Opening!Backends, Opening!Past
<1>4. CASE Opening!Fails(o)
  BY <1>2, <1>4 DEF Opening!Fails
<1>5. CASE Opening!Exists(o)
  <2>1. CASE tasksFile = Opening!NoFile
    <3>1. Opening!Opened(o) /\ UNCHANGED Opening!Stored /\ UNCHANGED Opening!Past
      BY <1>5, <2>1 DEF Opening!Exists
    <3>2. QED
      BY <3>1, OpenedTyped DEF OpeningType, Opening!Stored, Opening!Past
  <2>2. CASE tasksFile # Opening!NoFile
    <3>1. /\ opener' = [opener EXCEPT ![o].at = "read"]
          /\ UNCHANGED Opening!Stored /\ UNCHANGED Opening!Backends /\ UNCHANGED Opening!Past
      BY <1>5, <2>2 DEF Opening!Exists, Opening!Steps
    <3>2. [opener[o] EXCEPT !.at = "read"] \in Openers /\ opener' = [opener EXCEPT ![o] = [opener[o] EXCEPT !.at = "read"]]
      BY <3>1 DEF OpeningType, Openers
    <3>3. QED
      BY <1>3, <3>1, <3>2
  <2>3. QED
    BY <2>1, <2>2
<1>6. CASE Opening!read_legacy_documents(o)
  <2>1. CASE tasksFile.form \in {"absent", "torn"}
    BY <1>2, <1>6, <2>1 DEF Opening!read_legacy_documents
  <2>2. CASE tasksFile.form \notin {"absent", "torn"}
    <3>1. /\ opener' = [opener EXCEPT ![o] = [at |-> "load", saw |-> tasksFile.tasks]]
          /\ UNCHANGED Opening!Stored /\ UNCHANGED Opening!Backends /\ UNCHANGED Opening!Past
      BY <1>6, <2>2 DEF Opening!read_legacy_documents
    <3>2. [at |-> "load", saw |-> tasksFile.tasks] \in Openers
      BY DEF OpeningType, Openers, Files, Rows, Opening!NoFile, Opening!Torn
    <3>3. QED
      BY <1>3, <3>1, <3>2
  <2>3. QED
    BY <2>1, <2>2
<1>7. CASE Opening!Archives(o)
  <2>1. CASE tasksFile = Opening!NoFile
    BY <1>2, <1>7, <2>1 DEF Opening!Archives
  <2>2. CASE tasksFile # Opening!NoFile
    <3>1. /\ archive' = tasksFile /\ tasksFile' = Opening!NoFile
          /\ filling' = [filling EXCEPT !.into = CASE @ = "file" -> "archive" [] @ = "archive" -> "lost" [] OTHER -> @]
          /\ Opening!Opened(o) /\ UNCHANGED database /\ UNCHANGED Opening!Past
      BY <1>7, <2>2 DEF Opening!Archives
    <3>2. filling' \in Fillings
      BY <3>1 DEF OpeningType, Fillings
    <3>3. archive' \in Files /\ tasksFile' \in Files
      BY <3>1 DEF OpeningType, Files
    <3>4. QED
      BY <3>1, <3>2, <3>3, OpenedTyped DEF OpeningType, Opening!Past
  <2>3. QED
    BY <2>1, <2>2
<1>8. QED
  BY <1>4, <1>5, <1>6, <1>7

LEMMA OpeningStepKeeps ==
  ASSUME OpeningInv, Opening!OpeningNext
  PROVE  OpeningInv'
<1> USE DEF OpeningInv, OpeningType, RunsAlone, FileFirst, GetsDatabase, Imported, Rows, Files, Openers, Fillings,
            Opening!ImportedFirst, Opening!DatabaseKeeps, Opening!TornStays, Opening!Process, Opening!Opener, Opening!Row,
            Opening!NoFile, Opening!Torn, Opening!Holding, Opening!Idle, Opening!Written, Opening!At,
            Opening!Importing, Opening!Steps, Opening!Backends, Opening!Stored, Opening!Past, Opening!load_scope,
            Opening!Usable, Opening!Truncates, Opening!Opened, Opening!FallBack, Opening!Restored, Opening!Refused
<1>1. ASSUME NEW o \in Opening!Opener, Opening!Opens(o) PROVE OpeningInv'
  <2>1. OpeningType'
    BY <1>1 DEF Opening!Opens
  <2>2. RunsAlone'
    <3>1. SUFFICES ASSUME ~entwined' PROVE RunsAlone'
      OBVIOUS
    <3>2. (\A q \in Opening!Opener : opener[q].at = "idle") /\ filling' = Opening!Written
      BY <1>1, <3>1 DEF Opening!Opens
    <3>3. \A q \in Opening!Opener : q # o => opener'[q] = opener[q]
      BY <1>1 DEF Opening!Opens
    <3>4. opener'[o].at = "exists"
      BY <1>1 DEF Opening!Opens
    <3>5. QED
      BY <3>2, <3>3, <3>4
  <2>3. FileFirst'
    BY <1>1 DEF Opening!Opens
  <2>4. GetsDatabase'
    BY <1>1 DEF Opening!Opens
  <2>5. Opening!ImportedFirst'
    BY <1>1 DEF Opening!Opens
  <2>6. Opening!DatabaseKeeps'
    BY <1>1 DEF Opening!Opens
  <2>7. Opening!TornStays'
    BY <1>1 DEF Opening!Opens
  <2>8. QED
    BY <2>1, <2>2, <2>3, <2>4, <2>5, <2>6, <2>7
<1>2. ASSUME NEW o \in Opening!Opener, Opening!Fails(o) PROVE OpeningInv'
  <2>1. OpeningType'
    <3> HIDE DEF OpeningType
    <3> QED
      BY <1>2, OpenerTyped
  <2>2. RunsAlone'
    BY <1>2 DEF Opening!Fails
  <2>3. FileFirst'
    BY <1>2 DEF Opening!Fails
  <2>4. GetsDatabase'
    BY <1>2 DEF Opening!Fails
  <2>5. Opening!ImportedFirst'
    BY <1>2 DEF Opening!Fails
  <2>6. Opening!DatabaseKeeps'
    BY <1>2 DEF Opening!Fails
  <2>7. Opening!TornStays'
    BY <1>2 DEF Opening!Fails
  <2>8. QED
    BY <2>1, <2>2, <2>3, <2>4, <2>5, <2>6, <2>7
<1>3. ASSUME NEW o \in Opening!Opener, Opening!Exists(o) PROVE OpeningInv'
  <2>1. OpeningType'
    <3> HIDE DEF OpeningType
    <3> QED
      BY <1>3, OpenerTyped
  <2>2. RunsAlone'
    BY <1>3 DEF Opening!Exists
  <2>3. FileFirst'
    BY <1>3 DEF Opening!Exists
  <2>4. GetsDatabase'
    BY <1>3 DEF Opening!Exists
  <2>5. Opening!ImportedFirst'
    BY <1>3 DEF Opening!Exists
  <2>6. Opening!DatabaseKeeps'
    BY <1>3 DEF Opening!Exists
  <2>7. Opening!TornStays'
    BY <1>3 DEF Opening!Exists
  <2>8. QED
    BY <2>1, <2>2, <2>3, <2>4, <2>5, <2>6, <2>7
<1>4. ASSUME NEW o \in Opening!Opener, Opening!read_legacy_documents(o) PROVE OpeningInv'
  <2>1. OpeningType'
    <3> HIDE DEF OpeningType
    <3> QED
      BY <1>4, OpenerTyped
  <2>2. RunsAlone'
    BY <1>4 DEF Opening!read_legacy_documents
  <2>3. FileFirst'
    BY <1>4 DEF Opening!read_legacy_documents
  <2>4. GetsDatabase'
    BY <1>4 DEF Opening!read_legacy_documents
  <2>5. Opening!ImportedFirst'
    BY <1>4 DEF Opening!read_legacy_documents
  <2>6. Opening!DatabaseKeeps'
    BY <1>4 DEF Opening!read_legacy_documents
  <2>7. Opening!TornStays'
    BY <1>4 DEF Opening!read_legacy_documents
  <2>8. QED
    BY <2>1, <2>2, <2>3, <2>4, <2>5, <2>6, <2>7
<1>5. ASSUME NEW o \in Opening!Opener, Opening!Compares(o) PROVE OpeningInv'
  <2>1. OpeningType'
    BY <1>5 DEF Opening!Compares
  <2>2. RunsAlone'
    BY <1>5 DEF Opening!Compares
  <2>3. FileFirst'
    BY <1>5 DEF Opening!Compares
  <2>4. GetsDatabase'
    BY <1>5 DEF Opening!Compares
  <2>5. Opening!ImportedFirst'
    BY <1>5 DEF Opening!Compares
  <2>6. Opening!DatabaseKeeps'
    BY <1>5 DEF Opening!Compares
  <2>7. Opening!TornStays'
    BY <1>5 DEF Opening!Compares
  <2>8. QED
    BY <2>1, <2>2, <2>3, <2>4, <2>5, <2>6, <2>7
<1>6. ASSUME NEW o \in Opening!Opener, Opening!Puts(o) PROVE OpeningInv'
  <2>1. OpeningType'
    BY <1>6 DEF Opening!Puts
  <2>2. RunsAlone'
    BY <1>6 DEF Opening!Puts
  <2>3. FileFirst'
    BY <1>6 DEF Opening!Puts
  <2>4. GetsDatabase'
    BY <1>6 DEF Opening!Puts
  <2>5. Opening!ImportedFirst'
    BY <1>6 DEF Opening!Puts
  <2>6. Opening!DatabaseKeeps'
    BY <1>6 DEF Opening!Puts
  <2>7. Opening!TornStays'
    BY <1>6 DEF Opening!Puts
  <2>8. QED
    BY <2>1, <2>2, <2>3, <2>4, <2>5, <2>6, <2>7
<1>7. ASSUME NEW o \in Opening!Opener, Opening!Archives(o) PROVE OpeningInv'
  <2>1. OpeningType'
    <3> HIDE DEF OpeningType
    <3> QED
      BY <1>7, OpenerTyped
  <2>2. RunsAlone'
    BY <1>7 DEF Opening!Archives
  <2>3. FileFirst'
    BY <1>7 DEF Opening!Archives
  <2>4. GetsDatabase'
    BY <1>7 DEF Opening!Archives
  <2>5. Opening!ImportedFirst'
    BY <1>7 DEF Opening!Archives
  <2>6. Opening!DatabaseKeeps'
    BY <1>7 DEF Opening!Archives
  <2>7. Opening!TornStays'
    BY <1>7 DEF Opening!Archives
  <2>8. QED
    BY <2>1, <2>2, <2>3, <2>4, <2>5, <2>6, <2>7
<1>8. ASSUME Opening!Fills PROVE OpeningInv'
  <2>1. OpeningType'
    BY <1>8 DEF Opening!Fills
  <2>2. RunsAlone'
    BY <1>8 DEF Opening!Fills
  <2>3. FileFirst'
    BY <1>8 DEF Opening!Fills
  <2>4. GetsDatabase'
    BY <1>8 DEF Opening!Fills
  <2>5. Opening!ImportedFirst'
    BY <1>8 DEF Opening!Fills
  <2>6. Opening!DatabaseKeeps'
    BY <1>8 DEF Opening!Fills
  <2>7. Opening!TornStays'
    BY <1>8 DEF Opening!Fills
  <2>8. QED
    BY <2>1, <2>2, <2>3, <2>4, <2>5, <2>6, <2>7
<1>9. ASSUME NEW p \in Opening!Process, NEW t \in Opening!Row, Opening!Enqueue(p, t) PROVE OpeningInv'
  <2>1. OpeningType'
    BY <1>9 DEF Opening!Enqueue
  <2>2. RunsAlone'
    BY <1>9 DEF Opening!Enqueue
  <2>3. FileFirst'
    BY <1>9 DEF Opening!Enqueue
  <2>4. GetsDatabase'
    BY <1>9 DEF Opening!Enqueue
  <2>5. Opening!ImportedFirst'
    BY <1>9 DEF Opening!Enqueue
  <2>6. Opening!DatabaseKeeps'
    BY <1>9 DEF Opening!Enqueue
  <2>7. Opening!TornStays'
    BY <1>9 DEF Opening!Enqueue
  <2>8. QED
    BY <2>1, <2>2, <2>3, <2>4, <2>5, <2>6, <2>7
<1>10. ASSUME NEW p \in Opening!Process, NEW t \in Opening!Row, Opening!Remove(p, t) PROVE OpeningInv'
  <2>1. OpeningType'
    BY <1>10 DEF Opening!Remove
  <2>2. RunsAlone'
    BY <1>10 DEF Opening!Remove
  <2>3. FileFirst'
    BY <1>10 DEF Opening!Remove
  <2>4. GetsDatabase'
    BY <1>10 DEF Opening!Remove
  <2>5. Opening!ImportedFirst'
    BY <1>10 DEF Opening!Remove
  <2>6. Opening!DatabaseKeeps'
    BY <1>10 DEF Opening!Remove
  <2>7. Opening!TornStays'
    BY <1>10 DEF Opening!Remove
  <2>8. QED
    BY <2>1, <2>2, <2>3, <2>4, <2>5, <2>6, <2>7
<1>11. ASSUME NEW p \in Opening!Process, Opening!Dies(p) PROVE OpeningInv'
  <2>1. OpeningType'
    BY <1>11 DEF Opening!Dies
  <2>2. RunsAlone'
    BY <1>11 DEF Opening!Dies
  <2>3. FileFirst'
    BY <1>11 DEF Opening!Dies
  <2>4. GetsDatabase'
    BY <1>11 DEF Opening!Dies
  <2>5. Opening!ImportedFirst'
    BY <1>11 DEF Opening!Dies
  <2>6. Opening!DatabaseKeeps'
    BY <1>11 DEF Opening!Dies
  <2>7. Opening!TornStays'
    BY <1>11 DEF Opening!Dies
  <2>8. QED
    BY <2>1, <2>2, <2>3, <2>4, <2>5, <2>6, <2>7
<1>12. QED
  BY <1>1, <1>2, <1>3, <1>4, <1>5, <1>6, <1>7, <1>8, <1>9, <1>10, <1>11 DEF Opening!OpeningNext

LEMMA OpeningHolds == PartsSpec => [](part = "opening" => OpeningInv)
<1>1. PartsInit => (part = "opening" => OpeningInv)
  <2> SUFFICES ASSUME Opening!OpeningInit PROVE OpeningInv
    BY DEF PartsInit, PartsStart
  <2> USE DEF Opening!OpeningInit, Opening!Idle, Opening!Written, Opening!NoFile, Opening!Torn, Opening!Holding
  <2>1. OpeningType
    <3>1. tasksFile \in Files /\ archive \in Files /\ database \in Rows
      BY DEF Files, Rows
    <3>2. opener \in [Opening!Opener -> Openers] /\ inMemory \in [Opening!Process -> Rows]
      BY DEF Openers, Rows
    <3>3. filling \in Fillings
      BY DEF Fillings, Rows
    <3>4. QED
      BY <3>1, <3>2, <3>3 DEF OpeningType
  <2>2. \A o \in Opening!Opener : opener[o].at = "idle"
    OBVIOUS
  <2>3. \A p \in Opening!Process : backend[p] = "none"
    OBVIOUS
  <2>4. RunsAlone /\ FileFirst /\ GetsDatabase
    BY <2>2, <2>3 DEF RunsAlone, FileFirst, GetsDatabase, Opening!At
  <2>5. QED
    BY <2>1, <2>4 DEF OpeningInv, Opening!ImportedFirst, Opening!DatabaseKeeps, Opening!TornStays
<1>2. (part = "opening" => OpeningInv) /\ [PartsNext]_partsVars => (part = "opening" => OpeningInv)'
  <2> SUFFICES ASSUME part = "opening" => OpeningInv, [PartsNext]_partsVars, part' = "opening"
               PROVE  OpeningInv'
    OBVIOUS
  <2>1. part = "opening"
    BY DEF PartsNext, partsVars
  <2>2. CASE Opening!OpeningNext
    BY <2>1, <2>2, OpeningStepKeeps
  <2>3. CASE UNCHANGED opening
    BY <2>1, <2>3 DEF opening, OpeningInv, OpeningType, RunsAlone, FileFirst, Imported, GetsDatabase, Opening!At,
                      Opening!ImportedFirst, Opening!DatabaseKeeps, Opening!TornStays
  <2>4. QED
    BY <2>1, <2>2, <2>3, OpeningMoves
<1>3. QED
  BY <1>1, <1>2, PTL DEF PartsSpec

LEMMA OpeningIsSound == ASSUME OpeningInv PROVE Opening!OpeningSound
<1>1. Opening!Converges
  BY DEF OpeningInv, GetsDatabase, Opening!Converges, Opening!Torn
<1>2. QED
  BY <1>1 DEF OpeningInv, Opening!OpeningSound

-----------------------------------------------------------------------------
USE RetriesAssumption

-----------------------------------------------------------------------------
(* The directories of templates, on their way from the map to the queue and *)
(* to the worker (DeletionQueue).                                           *)

LEMMA DeletionsMove ==
  ASSUME part = "deletions", [PartsNext]_partsVars
  PROVE  part' = "deletions" /\ (Deletions!QueueNext \/ UNCHANGED deletions)
BY DEF PartsNext, partsVars, TreeStep, StoreStep, CheckStep, DownloadStep, DeletionStep, RepositoryStep,
       InstallStep, CopyStep, RegistryStep, SettingStep, MirrorStep, FeedStep, EndpointStep, OpeningStep

Paths == Template \cup {NoPath}
MapRows == [path : Paths, refs : SUBSET {Holder}]
IsMap(file) == \A t \in DOMAIN file : file[t] \in MapRows
Waiting == [path : Paths, retry : Nat]
QueueFiles == [fast : Seq(Waiting), slow : Seq(Waiting), failed : SUBSET Template]
MapCalls == {"install", "uninstall", "refer", "release", "delete"}
\* A call that works on a template.
IsCall(c) == /\ c.op \in MapCalls /\ c.on \in Paths
             /\ c.step \in {"map", "mapped", "queue", "queued", "index"}
             /\ {"op", "on", "step"} \subseteq DOMAIN c
CallsTyped ==
  /\ DOMAIN calls = User
  /\ \A u \in User : calls[u] = Deletions!NoCall \/ IsCall(calls[u])
  /\ \A u \in User : calls[u].step = "mapped" => IsMap(calls[u].saw)
  /\ \A u \in User : calls[u].step = "queued" => calls[u].saw \in QueueFiles
Working == [step : {"fast", "slow"}, saw : QueueFiles, left : Seq(Waiting), writes : QueueFiles]
DeletionsType ==
  /\ IsMap(rows) /\ dirs \subseteq Template /\ queue \in QueueFiles
  /\ worker = Deletions!Idle \/ worker \in Working
  /\ CallsTyped
  /\ overlapped \in BOOLEAN /\ attempts \in [Template -> Nat]

\* So often it was tried to remove a directory as its entry says, and more often
\* when it was given up.
Tried(tries, e) == e.path \in Template /\ e.retry \in 1 .. MaxRetries /\ tries[e.path] >= e.retry
Tries(tries, file) ==
  /\ \A e \in Deletions!ToSet(file.slow) : Tried(tries, e)
  /\ \A t \in file.failed : tries[t] > MaxRetries
TriesInv ==
  /\ Tries(attempts, queue)
  /\ \A u \in User : calls[u].step = "queued" => Tries(attempts, calls[u].saw)
  /\ worker # Deletions!Idle => Tries(attempts, worker.writes)
  /\ worker.step = "slow" => \A e \in Deletions!ToSet(worker.left) : Tried(attempts, e)

\* A row names the directory, or a call is at work that will name it or hand it over.
RowHolds(file, t) == t \in DOMAIN file /\ file[t].path = t
CallHolds(c, t) ==
  /\ c.on = t
  /\ (c.op = "install" /\ c.step \in {"map", "mapped"}) \/ (c.op = "delete" /\ c.step \in {"queue", "queued"})
Held(t) == RowHolds(rows, t) \/ \E u \in User : calls[u] # Deletions!NoCall /\ CallHolds(calls[u], t)
\* A template that is being uninstalled has no directory any more.
Uninstalled == \A u \in User : calls[u] # Deletions!NoCall /\ calls[u].op = "uninstall" => calls[u].on \notin dirs
KeptInv == \A t \in dirs : Held(t) \/ t \in Deletions!Queued(queue)
\* Only the worker shortens the queue.
GrowsInv == worker # Deletions!Idle => queue = worker.saw \/ Len(queue.fast) > Len(worker.saw.fast)
\* What the worker found it still has to do, or it is in what it will write.
HandInv ==
  (worker # Deletions!Idle /\ queue = worker.saw) =>
    \A t \in dirs \cap Deletions!Queued(worker.saw) : Held(t) \/ t \in Deletions!InHand
LostInv == ~overlapped => Uninstalled /\ KeptInv /\ GrowsInv /\ HandInv
DeletionsInv == DeletionsType /\ TriesInv /\ LostInv

LEMMA EmptyToSet == Deletions!ToSet(<<>>) = {}
BY DEF Deletions!ToSet

LEMMA AppendToSet ==
  ASSUME NEW S, NEW s \in Seq(S), NEW e \in S
  PROVE  Deletions!ToSet(Append(s, e)) = Deletions!ToSet(s) \cup {e}
<1>1. Len(s) \in Nat /\ DOMAIN s = 1 .. Len(s)
  OBVIOUS
<1>2. Append(s, e) \in Seq(S) /\ Len(Append(s, e)) = Len(s) + 1
  BY AppendProperties
<1>3. DOMAIN Append(s, e) = 1 .. Len(s) + 1
  BY <1>2
<1>4. (\A i \in 1 .. Len(s) : Append(s, e)[i] = s[i]) /\ Append(s, e)[Len(s) + 1] = e
  BY AppendProperties
<1>5. 1 .. Len(s) + 1 = (1 .. Len(s)) \cup {Len(s) + 1}
  BY <1>1
<1>6. QED
  BY <1>1, <1>3, <1>4, <1>5 DEF Deletions!ToSet

LEMMA TailToSet ==
  ASSUME NEW S, NEW s \in Seq(S), s # <<>>
  PROVE  Deletions!ToSet(s) = Deletions!ToSet(Tail(s)) \cup {Head(s)}
<1>1. Len(s) \in Nat \ {0} /\ DOMAIN s = 1 .. Len(s) /\ Head(s) = s[1]
  BY EmptySeq
<1>2. Tail(s) \in Seq(S) /\ Len(Tail(s)) = Len(s) - 1
  BY HeadTailProperties
<1>3. DOMAIN Tail(s) = 1 .. Len(s) - 1
  BY <1>2
<1>4. \A i \in 1 .. Len(s) - 1 : Tail(s)[i] = s[i + 1]
  BY <1>2, HeadTailProperties
<1>5. ASSUME NEW i \in 1 .. Len(s) PROVE s[i] \in Deletions!ToSet(Tail(s)) \cup {Head(s)}
  <2>1. CASE i = 1
    BY <1>1, <2>1
  <2>2. CASE i # 1
    <3>1. i - 1 \in 1 .. Len(s) - 1
      BY <1>1, <2>2
    <3>2. Tail(s)[i - 1] = s[i]
      BY <1>1, <1>4, <3>1
    <3>3. QED
      BY <1>3, <3>1, <3>2 DEF Deletions!ToSet
  <2>3. QED
    BY <2>1, <2>2
<1>6. ASSUME NEW i \in 1 .. Len(s) - 1 PROVE Tail(s)[i] \in Deletions!ToSet(s)
  <2>1. i + 1 \in 1 .. Len(s) /\ Tail(s)[i] = s[i + 1]
    BY <1>1, <1>4
  <2>2. QED
    BY <1>1, <2>1 DEF Deletions!ToSet
<1>7. Head(s) \in Deletions!ToSet(s)
  BY <1>1 DEF Deletions!ToSet
<1>8. QED
  BY <1>1, <1>3, <1>5, <1>6, <1>7 DEF Deletions!ToSet

\* A call goes on to another step ...
LEMMA GoesOn ==
  ASSUME CallsTyped, NEW u \in User, IsCall(calls[u]), NEW s \in {"map", "queue", "index"},
         Deletions!Goes(u, s)
  PROVE  /\ CallsTyped' /\ calls'[u].op = calls[u].op /\ calls'[u].on = calls[u].on /\ calls'[u].step = s
         /\ \A v \in User \ {u} : calls'[v] = calls[v]
<1>1. calls' = [calls EXCEPT ![u] = [calls[u] EXCEPT !.step = s]]
  BY DEF Deletions!Goes
<1>2. calls'[u] = [calls[u] EXCEPT !.step = s] /\ DOMAIN calls' = User
  BY <1>1 DEF CallsTyped
<1>3. \A v \in User \ {u} : calls'[v] = calls[v]
  BY <1>1 DEF CallsTyped
<1>4. calls'[u].op = calls[u].op /\ calls'[u].on = calls[u].on /\ calls'[u].step = s /\ DOMAIN calls'[u] = DOMAIN calls[u]
  BY <1>2 DEF IsCall
<1>5. IsCall(calls'[u])
  BY <1>4 DEF IsCall
<1>6. QED
  BY <1>2, <1>3, <1>4, <1>5 DEF CallsTyped

\* ... reads a file ...
LEMMA ReadsOn ==
  ASSUME CallsTyped, NEW u \in User, IsCall(calls[u]), NEW s \in {"mapped", "queued"}, NEW file,
         s = "mapped" => IsMap(file), s = "queued" => file \in QueueFiles,
         Deletions!Reads(u, s, file)
  PROVE  /\ CallsTyped' /\ calls'[u].op = calls[u].op /\ calls'[u].on = calls[u].on /\ calls'[u].step = s
         /\ calls'[u].saw = file /\ \A v \in User \ {u} : calls'[v] = calls[v]
<1>1. calls' = [calls EXCEPT ![u] = [op |-> calls[u].op, on |-> calls[u].on, step |-> s, saw |-> file]]
  BY DEF Deletions!Reads
<1>2. calls'[u] = [op |-> calls[u].op, on |-> calls[u].on, step |-> s, saw |-> file] /\ DOMAIN calls' = User
  BY <1>1 DEF CallsTyped
<1>3. \A v \in User \ {u} : calls'[v] = calls[v]
  BY <1>1 DEF CallsTyped
<1>4. IsCall(calls'[u])
  BY <1>2 DEF IsCall
<1>5. QED
  BY <1>2, <1>3, <1>4 DEF CallsTyped

\* ... begins, or is another call from here on ...
LEMMA BecomesCall ==
  ASSUME CallsTyped, NEW u \in User, NEW op \in MapCalls, NEW p \in Paths, NEW s \in {"map", "queue"},
         calls' = [calls EXCEPT ![u] = [op |-> op, on |-> p, step |-> s]]
  PROVE  /\ CallsTyped' /\ calls'[u] = [op |-> op, on |-> p, step |-> s]
         /\ \A v \in User \ {u} : calls'[v] = calls[v]
<1>1. calls'[u] = [op |-> op, on |-> p, step |-> s] /\ DOMAIN calls' = User
  BY DEF CallsTyped
<1>2. \A v \in User \ {u} : calls'[v] = calls[v]
  BY DEF CallsTyped
<1>3. IsCall(calls'[u])
  BY <1>1 DEF IsCall
<1>4. QED
  BY <1>1, <1>2, <1>3 DEF CallsTyped

\* ... or ends.
LEMMA EndsCall ==
  ASSUME CallsTyped, NEW u \in User, Deletions!Ends(u)
  PROVE  /\ CallsTyped' /\ calls'[u] = Deletions!NoCall
         /\ \A v \in User \ {u} : calls'[v] = calls[v]
<1>1. calls' = [calls EXCEPT ![u] = Deletions!NoCall]
  BY DEF Deletions!Ends
<1>2. calls'[u] = Deletions!NoCall /\ DOMAIN calls' = User
  BY <1>1 DEF CallsTyped
<1>3. \A v \in User \ {u} : calls'[v] = calls[v]
  BY <1>1 DEF CallsTyped
<1>4. calls'[u].step = "none"
  BY <1>2 DEF Deletions!NoCall
<1>5. QED
  BY <1>2, <1>3, <1>4 DEF CallsTyped

LEMMA AtWork ==
  ASSUME CallsTyped, NEW u \in User, calls[u].step # "none"
  PROVE  IsCall(calls[u])
BY DEF CallsTyped, Deletions!NoCall
\* What a call writes into the map is a map again.
LEMMA MapTyped ==
  ASSUME DeletionsType, NEW u \in User, Deletions!WriteMap(u)
  PROVE  IsMap(rows') /\ overlapped' \in BOOLEAN
<1> DEFINE t == calls[u].on
           saw == calls[u].saw
           op == calls[u].op
<1>1. IsCall(calls[u]) /\ IsMap(saw)
  BY AtWork DEF DeletionsType, CallsTyped, Deletions!WriteMap
<1>2. ASSUME ~Deletions!Refused(saw, op, t) PROVE IsMap(rows')
  <2>1. rows' = CASE op = "install" -> Deletions!With(saw, t, Deletions!NewRow(t))
                  [] op = "refer" -> Deletions!add_reference(saw, t)
                  [] op = "release" -> Deletions!remove_reference(saw, t)
                  [] OTHER -> Deletions!Without(saw, t)
    BY <1>2 DEF Deletions!WriteMap
  <2>2. t \in Paths /\ op \in MapCalls
    BY <1>1 DEF IsCall
  <2> HIDE DEF t, saw, op
  <2>3. IsMap(Deletions!With(saw, t, Deletions!NewRow(t)))
    BY <1>1, <2>2 DEF IsMap, MapRows, Paths, Deletions!With, Deletions!NewRow, Deletions!Named
  <2>4. IsMap(Deletions!add_reference(saw, t))
    BY <1>1, <2>2 DEF IsMap, MapRows, Paths, Deletions!With, Deletions!add_reference, Deletions!Named
  <2>5. IsMap(Deletions!remove_reference(saw, t))
    BY <1>1, <2>2 DEF IsMap, MapRows, Paths, Deletions!remove_reference
  <2>6. IsMap(Deletions!Without(saw, t))
    BY <1>1, <2>2 DEF IsMap, Deletions!Without, Deletions!Named
  <2>7. CASE op = "install"
    BY <2>1, <2>3, <2>7
  <2>8. CASE op = "refer"
    BY <2>1, <2>4, <2>8
  <2>9. CASE op = "release"
    BY <2>1, <2>5, <2>9
  <2>10. CASE op \in {"uninstall", "delete"}
    BY <2>1, <2>6, <2>10
  <2>11. QED
    BY <2>2, <2>7, <2>8, <2>9, <2>10 DEF MapCalls
<1>3. ASSUME Deletions!Refused(saw, op, t) PROVE IsMap(rows')
  BY <1>3 DEF Deletions!WriteMap, DeletionsType
<1>4. overlapped' \in BOOLEAN
  BY DEF Deletions!WriteMap, DeletionsType
<1>5. QED
  BY <1>2, <1>3, <1>4

\* How a call that writes the map goes on.
LEMMA WriterGoesOn ==
  ASSUME DeletionsType, NEW u \in User, Deletions!WriteMap(u)
  PROVE  /\ CallsTyped' /\ \A v \in User \ {u} : calls'[v] = calls[v]
         /\ calls'[u].step \notin {"mapped", "queued"}
         /\ calls[u].op = "uninstall" =>
              calls'[u].op = "uninstall" /\ calls'[u].on = calls[u].on /\ calls'[u].step = "index"
         /\ calls[u].op = "delete" /\ ~Deletions!Refused(calls[u].saw, "delete", calls[u].on) =>
              calls'[u] = [op |-> "delete", on |-> calls[u].saw[calls[u].on].path, step |-> "queue"]
         /\ calls[u].op # "uninstall" /\ (calls[u].op = "delete" => Deletions!Refused(calls[u].saw, "delete", calls[u].on)) =>
              calls'[u] = Deletions!NoCall
<1>1. IsCall(calls[u]) /\ IsMap(calls[u].saw) /\ CallsTyped
  BY AtWork DEF DeletionsType, CallsTyped, Deletions!WriteMap
<1>2. CASE calls[u].op = "uninstall"
  <2>1. Deletions!Goes(u, "index")
    BY <1>2 DEF Deletions!WriteMap
  <2>2. QED
    BY <1>1, <1>2, <2>1, GoesOn
<1>3. CASE calls[u].op = "delete" /\ ~Deletions!Refused(calls[u].saw, "delete", calls[u].on)
  <2>1. calls' = [calls EXCEPT ![u] = [op |-> "delete", on |-> calls[u].saw[calls[u].on].path, step |-> "queue"]]
    BY <1>3 DEF Deletions!WriteMap
  <2>2. calls[u].on \in DOMAIN calls[u].saw
    BY <1>3 DEF Deletions!Refused, Deletions!Named
  <2>3. calls[u].saw[calls[u].on].path \in Paths
    BY <1>1, <2>2 DEF IsMap, MapRows
  <2>4. "delete" \in MapCalls /\ "queue" \in {"map", "queue"}
    BY DEF MapCalls
  <2>5. /\ CallsTyped' /\ \A v \in User \ {u} : calls'[v] = calls[v]
        /\ calls'[u] = [op |-> "delete", on |-> calls[u].saw[calls[u].on].path, step |-> "queue"]
    BY <1>1, <2>1, <2>3, <2>4, BecomesCall
  <2>6. calls[u].op # "uninstall" /\ calls'[u].step = "queue"
    BY <1>3, <2>5
  <2>7. QED
    BY <1>3, <2>5, <2>6
<1>4. CASE calls[u].op # "uninstall" /\ (calls[u].op = "delete" => Deletions!Refused(calls[u].saw, "delete", calls[u].on))
  <2>1. Deletions!Ends(u)
    BY <1>4 DEF Deletions!WriteMap
  <2>2. calls[u].op \notin {"uninstall"} /\ Deletions!NoCall.step = "none"
    BY <1>4 DEF Deletions!NoCall
  <2>3. QED
    BY <1>1, <1>4, <2>1, <2>2, EndsCall
<1>5. QED
  BY <1>2, <1>3, <1>4

\* What the worker takes, and what it will write when a removal failed.
LEMMA TakenTyped ==
  ASSUME queue \in QueueFiles, NEW of \in {"fast", "slow"}
  PROVE  Deletions!Takes(of) \in Working
BY EmptySeq DEF QueueFiles, Working, Deletions!Takes

LEMMA RetriedTyped ==
  ASSUME worker \in Working, worker.left # <<>>, Head(worker.left).path \in Template
  PROVE  Deletions!AfterFailure \in QueueFiles
<1>1. Head(worker.left) \in Waiting
  BY HeadTailProperties DEF Working
<1>2. ASSUME NEW n \in Nat PROVE Deletions!SlowAgain(n) \in QueueFiles
  <2>1. [path |-> Head(worker.left).path, retry |-> n] \in Waiting
    BY <1>1 DEF Waiting
  <2>2. Append(worker.writes.slow, [path |-> Head(worker.left).path, retry |-> n]) \in Seq(Waiting)
    BY <2>1, AppendProperties DEF Working, QueueFiles
  <2>3. QED
    BY <2>2 DEF Working, QueueFiles, Deletions!SlowAgain
<1>3. Deletions!Given \in QueueFiles
  BY DEF Working, QueueFiles, Deletions!Given
<1>4. Head(worker.left).retry + 1 \in Nat /\ 1 \in Nat
  BY <1>1 DEF Waiting
<1>5. QED
  BY <1>2, <1>3, <1>4 DEF Deletions!AfterFailure

\* A try is counted up to the cap.
LEMMA CountTyped ==
  ASSUME attempts \in [Template -> Nat], NEW p \in Template
  PROVE  /\ Deletions!Counted(p) \in [Template -> Nat]
         /\ \A t \in Template : Deletions!Counted(p)[t] >= attempts[t]
         /\ Deletions!Counted(p)[p] > MaxRetries \/ Deletions!Counted(p)[p] = attempts[p] + 1
BY DEF Deletions!Counted
LEMMA DeletionsTypeKept ==
  ASSUME DeletionsType, Deletions!QueueNext
  PROVE  DeletionsType'
<1> USE DEF DeletionsType
<1>1. ASSUME NEW u \in User, NEW t \in Template, NEW op \in MapCalls, NEW s \in {"map", "queue"},
             Deletions!Starts(u, op, t, s)
      PROVE  CallsTyped' /\ overlapped' \in BOOLEAN
  <2>1. calls' = [calls EXCEPT ![u] = [op |-> op, on |-> t, step |-> s]] /\ t \in Paths
    BY <1>1 DEF Deletions!Starts, Paths
  <2>2. CallsTyped'
    BY <2>1, BecomesCall
  <2>3. QED
    BY <1>1, <2>2 DEF Deletions!Starts
<1>2. ASSUME NEW u \in User, NEW t \in Template, Deletions!install_template(u, t) PROVE DeletionsType'
  <2>1. CallsTyped' /\ overlapped' \in BOOLEAN
    BY <1>1, <1>2 DEF Deletions!install_template, MapCalls
  <2>2. QED
    BY <1>2, <2>1 DEF Deletions!install_template
<1>3. ASSUME NEW u \in User, NEW t \in Template, Deletions!uninstall_template(u, t) PROVE DeletionsType'
  <2>1. CallsTyped' /\ overlapped' \in BOOLEAN
    BY <1>1, <1>3 DEF Deletions!uninstall_template, MapCalls
  <2>2. QED
    BY <1>3, <2>1 DEF Deletions!uninstall_template
<1>4. ASSUME NEW u \in User, NEW t \in Template, NEW op \in {"refer", "release", "delete"}, Deletions!OnMap(u, op, t)
      PROVE  DeletionsType'
  <2>1. CallsTyped' /\ overlapped' \in BOOLEAN
    BY <1>1, <1>4 DEF Deletions!OnMap, MapCalls
  <2>2. QED
    BY <1>4, <2>1 DEF Deletions!OnMap
<1>5. ASSUME NEW u \in User, Deletions!ReadMap(u) PROVE DeletionsType'
  <2>1. CallsTyped'
    BY <1>5, AtWork, ReadsOn DEF Deletions!ReadMap
  <2>2. QED
    BY <1>5, <2>1 DEF Deletions!ReadMap
<1>6. ASSUME NEW u \in User, Deletions!WriteMap(u) PROVE DeletionsType'
  <2>1. CallsTyped' /\ IsMap(rows') /\ overlapped' \in BOOLEAN
    BY <1>6, MapTyped, WriterGoesOn
  <2>2. QED
    BY <1>6, <2>1 DEF Deletions!WriteMap
<1>7. ASSUME NEW u \in User, Deletions!ReadQueue(u) PROVE DeletionsType'
  <2>1. CallsTyped'
    BY <1>7, AtWork, ReadsOn DEF Deletions!ReadQueue
  <2>2. QED
    BY <1>7, <2>1 DEF Deletions!ReadQueue
<1>8. ASSUME NEW u \in User, Deletions!enqueue_for_hard_delete(u) PROVE DeletionsType'
  <2>1. IsCall(calls[u]) /\ calls[u].saw \in QueueFiles
    BY <1>8, AtWork DEF Deletions!enqueue_for_hard_delete, CallsTyped
  <2>2. [path |-> calls[u].on, retry |-> 0] \in Waiting
    BY <2>1 DEF IsCall, Waiting
  <2>3. Append(calls[u].saw.fast, [path |-> calls[u].on, retry |-> 0]) \in Seq(Waiting)
    BY <2>1, <2>2, AppendProperties DEF QueueFiles
  <2>4. queue' \in QueueFiles
    BY <1>8, <2>1, <2>3 DEF Deletions!enqueue_for_hard_delete, QueueFiles
  <2>5. CASE Deletions!Goes(u, "map")
    BY <1>8, <2>1, <2>4, <2>5, GoesOn DEF Deletions!enqueue_for_hard_delete
  <2>6. CASE Deletions!Ends(u)
    BY <1>8, <2>4, <2>6, EndsCall DEF Deletions!enqueue_for_hard_delete
  <2>7. QED
    BY <1>8, <2>5, <2>6 DEF Deletions!enqueue_for_hard_delete
<1>9. ASSUME NEW u \in User, Deletions!LeaveIndex(u) PROVE DeletionsType'
  <2>1. CallsTyped'
    BY <1>9, EndsCall DEF Deletions!LeaveIndex
  <2>2. QED
    BY <1>9, <2>1 DEF Deletions!LeaveIndex
<1>10. CASE Deletions!drain_fast_queue
  BY <1>10, TakenTyped DEF Deletions!drain_fast_queue, CallsTyped
<1>11. CASE Deletions!process_slow_queue
  BY <1>11, TakenTyped DEF Deletions!process_slow_queue, CallsTyped
<1>12. CASE Deletions!RemovesNext
  <2>1. worker \in Working /\ worker.left # <<>>
    BY <1>12 DEF Deletions!RemovesNext, Deletions!Idle
  <2>2. Tail(worker.left) \in Seq(Waiting)
    BY <2>1, HeadTailProperties DEF Working
  <2>3. worker' = [worker EXCEPT !.left = Tail(worker.left)]
    BY <1>12 DEF Deletions!RemovesNext
  <2>4. worker' \in Working
    BY <2>1, <2>2, <2>3 DEF Working
  <2>5. attempts' \in [Template -> Nat]
    BY <1>12, CountTyped DEF Deletions!RemovesNext
  <2>6. QED
    BY <1>12, <2>4, <2>5 DEF Deletions!RemovesNext, CallsTyped
<1>13. CASE Deletions!FailsNext
  <2>1. worker \in Working /\ worker.left # <<>> /\ Head(worker.left).path \in Template
    BY <1>13 DEF Deletions!FailsNext, Deletions!Idle
  <2>2. Tail(worker.left) \in Seq(Waiting)
    BY <2>1, HeadTailProperties DEF Working
  <2>3. worker' = [worker EXCEPT !.left = Tail(worker.left), !.writes = Deletions!AfterFailure]
    BY <1>13 DEF Deletions!FailsNext
  <2>4. Deletions!AfterFailure \in QueueFiles
    BY <2>1, RetriedTyped
  <2>5. worker' \in Working
    BY <2>1, <2>2, <2>3, <2>4 DEF Working
  <2>6. attempts' \in [Template -> Nat]
    BY <1>13, <2>1, CountTyped DEF Deletions!FailsNext
  <2>7. QED
    BY <1>13, <2>5, <2>6 DEF Deletions!FailsNext, CallsTyped
<1>14. CASE Deletions!WorkerWrites
  <2>1. worker \in Working
    BY <1>14 DEF Deletions!WorkerWrites, Deletions!Idle
  <2>2. queue' \in QueueFiles /\ overlapped' \in BOOLEAN
    BY <1>14, <2>1 DEF Deletions!WorkerWrites, Working
  <2>3. QED
    BY <1>14, <2>2 DEF Deletions!WorkerWrites, CallsTyped
<1>15. CASE Deletions!WorkerDies
  BY <1>15 DEF Deletions!WorkerDies, CallsTyped
<1>16. QED
  BY <1>2, <1>3, <1>4, <1>5, <1>6, <1>7, <1>8, <1>9, <1>10, <1>11, <1>12, <1>13, <1>14, <1>15
  DEF Deletions!QueueNext
\* What was tried often enough stays so ...
LEMMA TriesGrow ==
  ASSUME NEW a \in [Template -> Nat], NEW b \in [Template -> Nat], \A t \in Template : b[t] >= a[t],
         NEW file, file.failed \subseteq Template, Tries(a, file)
  PROVE  Tries(b, file)
BY DEF Tries, Tried

\* ... and an entry whose removal failed once more has its count ...
LEMMA RetriedTries ==
  ASSUME worker \in Working, worker.left # <<>>, attempts \in [Template -> Nat], Head(worker.left).path \in Template,
         Tries(attempts, worker.writes),
         worker.step = "slow" => Tried(attempts, Head(worker.left))
  PROVE  Tries(Deletions!Counted(Head(worker.left).path), Deletions!AfterFailure)
<1> DEFINE p == Head(worker.left).path
           more == Deletions!Counted(p)
<1>1. /\ more \in [Template -> Nat] /\ \A t \in Template : more[t] >= attempts[t]
      /\ more[p] > MaxRetries \/ more[p] = attempts[p] + 1
  BY CountTyped
<1>2. worker.writes \in QueueFiles /\ worker.step \in {"fast", "slow"} /\ Head(worker.left) \in Waiting
  BY HeadTailProperties DEF Working
<1>3. Tries(more, worker.writes)
  BY <1>1, <1>2, TriesGrow DEF QueueFiles
<1> HIDE DEF more
<1>4. ASSUME NEW n \in 1 .. MaxRetries, more[p] >= n PROVE Tries(more, Deletions!SlowAgain(n))
  <2>1. [path |-> p, retry |-> n] \in Waiting
    BY DEF Waiting, Paths
  <2>2. Deletions!SlowAgain(n) = [worker.writes EXCEPT !.slow = Append(worker.writes.slow, [path |-> p, retry |-> n])]
    BY DEF Deletions!SlowAgain
  <2>3. /\ Deletions!SlowAgain(n).failed = worker.writes.failed
        /\ Deletions!SlowAgain(n).slow = Append(worker.writes.slow, [path |-> p, retry |-> n])
    BY <1>2, <2>2 DEF QueueFiles
  <2>4. Deletions!ToSet(Deletions!SlowAgain(n).slow) = Deletions!ToSet(worker.writes.slow) \cup {[path |-> p, retry |-> n]}
    BY <1>2, <2>1, <2>3, AppendToSet DEF QueueFiles
  <2>5. Tried(more, [path |-> p, retry |-> n])
    BY <1>4 DEF Tried
  <2> HIDE DEF p
  <2>6. QED
    BY <1>3, <2>3, <2>4, <2>5 DEF Tries
<1>5. CASE worker.step = "fast"
  <2>1. Deletions!AfterFailure = Deletions!SlowAgain(1)
    BY <1>5 DEF Deletions!AfterFailure
  <2>2. more[p] >= 1 /\ 1 \in 1 .. MaxRetries
    BY <1>1
  <2>3. QED
    BY <1>4, <2>1, <2>2 DEF more
<1>6. CASE worker.step = "slow"
  <2>1. Head(worker.left).retry \in 1 .. MaxRetries /\ attempts[p] >= Head(worker.left).retry
    BY <1>6 DEF Tried
  <2>2. CASE Head(worker.left).retry >= MaxRetries
    <3>1. Deletions!AfterFailure = Deletions!Given
      BY <1>6, <2>2 DEF Deletions!AfterFailure
    <3>2. more[p] > MaxRetries
      BY <1>1, <2>1, <2>2
    <3>3. /\ Deletions!Given.slow = worker.writes.slow
          /\ Deletions!Given.failed = worker.writes.failed \cup {p}
      BY <1>2 DEF Deletions!Given, QueueFiles
    <3>4. Tries(more, Deletions!Given)
      BY <1>3, <3>2, <3>3 DEF Tries
    <3>5. QED
      BY <3>1, <3>4 DEF more
  <2>3. CASE ~(Head(worker.left).retry >= MaxRetries)
    <3>1. Deletions!AfterFailure = Deletions!SlowAgain(Head(worker.left).retry + 1)
      BY <1>6, <2>3 DEF Deletions!AfterFailure
    <3>2. Head(worker.left).retry + 1 \in 1 .. MaxRetries /\ more[p] >= Head(worker.left).retry + 1
      BY <1>1, <2>1, <2>3
    <3>3. QED
      BY <1>4, <3>1, <3>2 DEF more
  <2>4. QED
    BY <2>2, <2>3
<1>7. QED
  BY <1>2, <1>5, <1>6

\* ... so a directory is given up after the first try and all retries.
LEMMA TriesKept ==
  ASSUME DeletionsType, TriesInv, Deletions!QueueNext
  PROVE  TriesInv'
<1> USE DEF TriesInv
<1>0. Deletions!Idle.step = "idle" /\ Deletions!NoCall.step = "none"
  BY DEF Deletions!Idle, Deletions!NoCall
<1>1. ASSUME NEW u \in User, UNCHANGED <<queue, worker, attempts>>, \A v \in User \ {u} : calls'[v] = calls[v],
             calls'[u].step = "queued" => Tries(attempts, calls'[u].saw)
      PROVE  TriesInv'
  BY <1>1
<1>2. ASSUME NEW u \in User, NEW t \in Template, NEW op \in MapCalls, NEW s \in {"map", "queue"},
             Deletions!Starts(u, op, t, s), UNCHANGED <<queue, worker, attempts>>
      PROVE  TriesInv'
  <2>1. calls' = [calls EXCEPT ![u] = [op |-> op, on |-> t, step |-> s]] /\ t \in Paths
    BY <1>2 DEF Deletions!Starts, Paths
  <2>2. calls'[u] = [op |-> op, on |-> t, step |-> s] /\ \A v \in User \ {u} : calls'[v] = calls[v]
    BY <2>1, BecomesCall DEF DeletionsType
  <2>3. calls'[u].step # "queued"
    BY <2>2
  <2>4. QED
    BY <1>1, <1>2, <2>2, <2>3
<1>3. ASSUME NEW u \in User, NEW t \in Template, Deletions!install_template(u, t) PROVE TriesInv'
  BY <1>2, <1>3 DEF Deletions!install_template, MapCalls
<1>4. ASSUME NEW u \in User, NEW t \in Template, Deletions!uninstall_template(u, t) PROVE TriesInv'
  BY <1>2, <1>4 DEF Deletions!uninstall_template, MapCalls
<1>5. ASSUME NEW u \in User, NEW t \in Template, NEW op \in {"refer", "release", "delete"}, Deletions!OnMap(u, op, t)
      PROVE  TriesInv'
  BY <1>2, <1>5 DEF Deletions!OnMap, MapCalls
<1>6. ASSUME NEW u \in User, Deletions!ReadMap(u) PROVE TriesInv'
  <2>1. calls'[u].step = "mapped" /\ \A v \in User \ {u} : calls'[v] = calls[v]
    BY <1>6, AtWork, ReadsOn DEF Deletions!ReadMap, DeletionsType
  <2>2. QED
    BY <1>1, <1>6, <2>1 DEF Deletions!ReadMap
<1>7. ASSUME NEW u \in User, Deletions!WriteMap(u) PROVE TriesInv'
  <2>1. calls'[u].step # "queued" /\ \A v \in User \ {u} : calls'[v] = calls[v]
    BY <1>7, WriterGoesOn
  <2>2. QED
    BY <1>1, <1>7, <2>1 DEF Deletions!WriteMap
<1>8. ASSUME NEW u \in User, Deletions!ReadQueue(u) PROVE TriesInv'
  <2>1. calls'[u].saw = queue /\ \A v \in User \ {u} : calls'[v] = calls[v]
    BY <1>8, AtWork, ReadsOn DEF Deletions!ReadQueue, DeletionsType
  <2>2. QED
    BY <1>1, <1>8, <2>1 DEF Deletions!ReadQueue
<1>9. ASSUME NEW u \in User, Deletions!enqueue_for_hard_delete(u) PROVE TriesInv'
  <2>1. IsCall(calls[u]) /\ calls[u].saw \in QueueFiles /\ Tries(attempts, calls[u].saw) /\ CallsTyped
    BY <1>9, AtWork DEF Deletions!enqueue_for_hard_delete, CallsTyped, DeletionsType
  <2>2. queue'.slow = calls[u].saw.slow /\ queue'.failed = calls[u].saw.failed
    BY <1>9, <2>1 DEF Deletions!enqueue_for_hard_delete, QueueFiles
  <2>3. Tries(attempts, queue')
    BY <2>1, <2>2 DEF Tries
  <2>4. calls'[u].step # "queued" /\ \A v \in User \ {u} : calls'[v] = calls[v]
    <3>1. CASE Deletions!Goes(u, "map")
      BY <2>1, <3>1, GoesOn
    <3>2. CASE Deletions!Ends(u)
      BY <1>0, <2>1, <3>2, EndsCall
    <3>3. QED
      BY <1>9, <3>1, <3>2 DEF Deletions!enqueue_for_hard_delete
  <2>5. QED
    BY <1>9, <2>3, <2>4 DEF Deletions!enqueue_for_hard_delete
<1>10. ASSUME NEW u \in User, Deletions!LeaveIndex(u) PROVE TriesInv'
  <2>1. calls'[u].step # "queued" /\ \A v \in User \ {u} : calls'[v] = calls[v]
    BY <1>0, <1>10, EndsCall DEF Deletions!LeaveIndex, DeletionsType
  <2>2. QED
    BY <1>1, <1>10, <2>1 DEF Deletions!LeaveIndex
<1>11. CASE Deletions!drain_fast_queue
  <2>1. worker'.step = "fast" /\ worker'.writes.slow = queue.slow /\ worker'.writes.failed = queue.failed
    BY <1>11 DEF Deletions!drain_fast_queue, Deletions!Takes, QueueFiles, DeletionsType
  <2>2. Tries(attempts, worker'.writes)
    BY <2>1 DEF Tries
  <2>3. QED
    BY <1>11, <2>1, <2>2 DEF Deletions!drain_fast_queue
<1>12. CASE Deletions!process_slow_queue
  <2>1. worker'.left = queue.slow /\ worker'.writes.slow = <<>> /\ worker'.writes.failed = queue.failed
    BY <1>12 DEF Deletions!process_slow_queue, Deletions!Takes, QueueFiles, DeletionsType
  <2>2. Tries(attempts, worker'.writes) /\ \A e \in Deletions!ToSet(worker'.left) : Tried(attempts, e)
    BY <2>1, EmptyToSet DEF Tries
  <2>3. QED
    BY <1>12, <2>2 DEF Deletions!process_slow_queue
<1>13. ASSUME attempts' \in [Template -> Nat], \A t \in Template : attempts'[t] >= attempts[t],
              UNCHANGED <<queue, calls>>, Tries(attempts', worker'.writes), worker \in Working, worker.left # <<>>,
              worker'.step = worker.step, worker'.left = Tail(worker.left)
       PROVE  TriesInv'
  <2>1. Tries(attempts', queue)
    BY <1>13, TriesGrow DEF DeletionsType, QueueFiles
  <2>2. ASSUME NEW u \in User, calls[u].step = "queued" PROVE Tries(attempts', calls[u].saw)
    BY <1>13, <2>2, TriesGrow DEF DeletionsType, CallsTyped, QueueFiles
  <2>3. ASSUME worker.step = "slow", NEW e \in Deletions!ToSet(Tail(worker.left)) PROVE Tried(attempts', e)
    <3>1. e \in Deletions!ToSet(worker.left)
      BY <1>13, <2>3, TailToSet DEF Working
    <3>2. QED
      BY <1>13, <2>3, <3>1 DEF Tried, DeletionsType
  <2>4. QED
    BY <1>13, <2>1, <2>2, <2>3
<1>14. ASSUME worker \in Working, worker.left # <<>>, worker.step = "slow" PROVE Tried(attempts, Head(worker.left))
  BY <1>14, TailToSet DEF Working
<1>15. CASE Deletions!RemovesNext
  <2>1. worker \in Working /\ worker.left # <<>> /\ worker # Deletions!Idle
    BY <1>0, <1>15 DEF Deletions!RemovesNext, DeletionsType
  <2>2. worker'.writes = worker.writes /\ worker'.step = worker.step /\ worker'.left = Tail(worker.left)
    BY <1>15, <2>1 DEF Deletions!RemovesNext, Working
  <2>3. attempts' \in [Template -> Nat] /\ \A t \in Template : attempts'[t] >= attempts[t]
    BY <1>15, CountTyped DEF Deletions!RemovesNext, DeletionsType
  <2>4. Tries(attempts', worker'.writes)
    BY <2>1, <2>2, <2>3, TriesGrow DEF DeletionsType, Working, QueueFiles
  <2>5. UNCHANGED <<queue, calls>>
    BY <1>15 DEF Deletions!RemovesNext
  <2>6. QED
    BY <1>13, <2>1, <2>2, <2>3, <2>4, <2>5
<1>16. CASE Deletions!FailsNext
  <2>1. worker \in Working /\ worker.left # <<>> /\ worker # Deletions!Idle /\ Head(worker.left).path \in Template
    BY <1>0, <1>16 DEF Deletions!FailsNext, DeletionsType
  <2>2. /\ worker'.writes = Deletions!AfterFailure /\ worker'.step = worker.step
        /\ worker'.left = Tail(worker.left)
    BY <1>16, <2>1 DEF Deletions!FailsNext, Working
  <2>3. attempts' = Deletions!Counted(Head(worker.left).path)
    BY <1>16 DEF Deletions!FailsNext
  <2>4. attempts' \in [Template -> Nat] /\ \A t \in Template : attempts'[t] >= attempts[t]
    BY <2>1, <2>3, CountTyped DEF DeletionsType
  <2>5. Tries(attempts', worker'.writes)
    BY <1>14, <2>1, <2>2, <2>3, RetriedTries DEF DeletionsType
  <2>6. UNCHANGED <<queue, calls>>
    BY <1>16 DEF Deletions!FailsNext
  <2>7. QED
    BY <1>13, <2>1, <2>2, <2>4, <2>5, <2>6
<1>17. CASE Deletions!WorkerWrites
  <2>1. worker # Deletions!Idle
    BY <1>0, <1>17 DEF Deletions!WorkerWrites
  <2>2. Tries(attempts, queue')
    BY <1>17, <2>1 DEF Deletions!WorkerWrites
  <2>3. QED
    BY <1>0, <1>17, <2>2 DEF Deletions!WorkerWrites
<1>18. CASE Deletions!WorkerDies
  BY <1>0, <1>18 DEF Deletions!WorkerDies
<1>19. QED
  BY <1>3, <1>4, <1>5, <1>6, <1>7, <1>8, <1>9, <1>10, <1>11, <1>12, <1>15, <1>16, <1>17, <1>18
  DEF Deletions!QueueNext
\* A directory stays held when the row that names it and the call of one user
\* stay, or hand it on.
LEMMA StillHeld ==
  ASSUME NEW t, NEW u \in User, Held(t), \A v \in User \ {u} : calls'[v] = calls[v],
         RowHolds(rows, t) => Held(t)',
         calls[u] # Deletions!NoCall /\ CallHolds(calls[u], t) => Held(t)'
  PROVE  Held(t)'
BY DEF Held

\* When nothing but one call changed, and what is held stays held, all the rest stays.
LEMMA CallStays ==
  ASSUME LostInv, NEW u \in User, \A v \in User \ {u} : calls'[v] = calls[v],
         UNCHANGED <<dirs, queue, worker>>, overlapped => overlapped',
         \A t \in dirs : Held(t) => Held(t)',
         calls'[u] # Deletions!NoCall /\ calls'[u].op = "uninstall" =>
           calls[u] # Deletions!NoCall /\ calls[u].op = "uninstall" /\ calls'[u].on = calls[u].on
  PROVE  LostInv'
<1> SUFFICES ASSUME ~overlapped' PROVE Uninstalled' /\ KeptInv' /\ GrowsInv' /\ HandInv'
  BY DEF LostInv
<1>1. Uninstalled /\ KeptInv /\ GrowsInv /\ HandInv
  BY DEF LostInv
<1>2. Uninstalled'
  BY <1>1 DEF Uninstalled
<1>3. KeptInv'
  BY <1>1 DEF KeptInv, Deletions!Queued
<1>4. GrowsInv'
  BY <1>1 DEF GrowsInv
<1>5. HandInv'
  BY <1>1 DEF HandInv, Deletions!InHand, Deletions!Queued
<1>6. QED
  BY <1>2, <1>3, <1>4, <1>5

LEMMA InstallLoses ==
  ASSUME DeletionsType, LostInv, NEW u \in User, NEW t0 \in Template, Deletions!install_template(u, t0)
  PROVE  LostInv'
<1> SUFFICES ASSUME ~overlapped' PROVE Uninstalled' /\ KeptInv' /\ GrowsInv' /\ HandInv'
  BY DEF LostInv
<1>1. /\ calls[u] = Deletions!NoCall /\ \A v \in User : calls[v] = Deletions!NoCall \/ calls[v].on # t0
      /\ ~overlapped
  BY DEF Deletions!install_template, Deletions!Starts
<1>2. Uninstalled /\ KeptInv /\ GrowsInv /\ HandInv
  BY <1>1 DEF LostInv
<1>3. calls' = [calls EXCEPT ![u] = [op |-> "install", on |-> t0, step |-> "map"]] /\ t0 \in Paths
  BY DEF Deletions!install_template, Deletions!Starts, Paths
<1>4. /\ calls'[u] = [op |-> "install", on |-> t0, step |-> "map"]
      /\ \A v \in User \ {u} : calls'[v] = calls[v]
  BY <1>3, BecomesCall DEF DeletionsType, MapCalls
<1>5. dirs' = dirs \cup {t0} /\ UNCHANGED <<rows, queue, worker>>
  BY DEF Deletions!install_template
<1>6. Held(t0)'
  BY <1>4 DEF Held, CallHolds, Deletions!NoCall
<1>7. ASSUME NEW t, Held(t) PROVE Held(t)'
  BY <1>1, <1>4, <1>5, <1>7 DEF Held
<1>8. calls'[u].op = "install"
  BY <1>4
<1>9. Uninstalled'
  BY <1>1, <1>2, <1>4, <1>5, <1>8 DEF Uninstalled
<1>10. KeptInv'
  BY <1>2, <1>5, <1>6, <1>7 DEF KeptInv, Deletions!Queued
<1>11. GrowsInv'
  BY <1>2, <1>5 DEF GrowsInv
<1>12. HandInv'
  BY <1>2, <1>5, <1>6, <1>7 DEF HandInv, Deletions!InHand, Deletions!Queued
<1>13. QED
  BY <1>9, <1>10, <1>11, <1>12

LEMMA UninstallLoses ==
  ASSUME DeletionsType, LostInv, NEW u \in User, NEW t0 \in Template, Deletions!uninstall_template(u, t0)
  PROVE  LostInv'
<1> SUFFICES ASSUME ~overlapped' PROVE Uninstalled' /\ KeptInv' /\ GrowsInv' /\ HandInv'
  BY DEF LostInv
<1>1. calls[u] = Deletions!NoCall /\ ~overlapped
  BY DEF Deletions!uninstall_template, Deletions!Starts
<1>2. Uninstalled /\ KeptInv /\ GrowsInv /\ HandInv
  BY <1>1 DEF LostInv
<1>3. PICK s \in {"map", "queue"} : calls' = [calls EXCEPT ![u] = [op |-> "uninstall", on |-> t0, step |-> s]]
  BY DEF Deletions!uninstall_template, Deletions!Starts
<1>4. /\ calls'[u] = [op |-> "uninstall", on |-> t0, step |-> s]
      /\ \A v \in User \ {u} : calls'[v] = calls[v]
  BY <1>3, BecomesCall DEF DeletionsType, MapCalls, Paths
<1>5. dirs' = dirs \ {t0} /\ UNCHANGED <<rows, queue, worker>>
  BY DEF Deletions!uninstall_template
<1>6. ASSUME NEW t, Held(t) PROVE Held(t)'
  BY <1>1, <1>4, <1>5, <1>6 DEF Held
<1>7. calls'[u].on = t0
  BY <1>4
<1>8. Uninstalled'
  BY <1>2, <1>4, <1>5, <1>7 DEF Uninstalled
<1>9. KeptInv'
  BY <1>2, <1>5, <1>6 DEF KeptInv, Deletions!Queued
<1>10. GrowsInv'
  BY <1>2, <1>5 DEF GrowsInv
<1>11. HandInv'
  BY <1>2, <1>5, <1>6 DEF HandInv, Deletions!InHand, Deletions!Queued
<1>12. QED
  BY <1>8, <1>9, <1>10, <1>11

\* The map is written: what a row named is named again or handed on.
LEMMA WriteLoses ==
  ASSUME DeletionsType, LostInv, NEW u \in User, Deletions!WriteMap(u)
  PROVE  LostInv'
<1> SUFFICES ASSUME ~overlapped' PROVE LostInv'
  BY DEF LostInv
<1> DEFINE t0 == calls[u].on
           saw == calls[u].saw
           op == calls[u].op
<1>1. IsCall(calls[u]) /\ IsMap(saw) /\ calls[u] # Deletions!NoCall /\ calls[u].step = "mapped"
  BY AtWork DEF DeletionsType, CallsTyped, Deletions!WriteMap, Deletions!NoCall
<1>2. ~overlapped /\ (~Deletions!Refused(saw, op, t0) => rows = saw)
  BY DEF Deletions!WriteMap
<1>3. UNCHANGED <<dirs, queue, worker>>
  BY DEF Deletions!WriteMap
<1>4. /\ \A v \in User \ {u} : calls'[v] = calls[v]
      /\ op = "uninstall" => calls'[u].on = t0 /\ calls'[u].op = "uninstall"
      /\ op = "delete" /\ ~Deletions!Refused(saw, "delete", t0) =>
           calls'[u] = [op |-> "delete", on |-> saw[t0].path, step |-> "queue"]
      /\ op # "uninstall" /\ (op = "delete" => Deletions!Refused(saw, "delete", t0)) => calls'[u] = Deletions!NoCall
  BY WriterGoesOn
<1>5. ~Deletions!Refused(saw, op, t0) =>
        rows' = CASE op = "install" -> Deletions!With(saw, t0, Deletions!NewRow(t0))
                  [] op = "refer" -> Deletions!add_reference(saw, t0)
                  [] op = "release" -> Deletions!remove_reference(saw, t0)
                  [] OTHER -> Deletions!Without(saw, t0)
  BY DEF Deletions!WriteMap
<1>6. Deletions!Refused(saw, op, t0) => rows' = rows
  BY DEF Deletions!WriteMap
<1>7. op \in MapCalls
  BY <1>1 DEF IsCall
<1>8. Uninstalled
  BY <1>2 DEF LostInv
<1> HIDE DEF t0, saw, op
<1>9. ASSUME NEW t \in dirs, RowHolds(rows, t) PROVE Held(t)'
  <2>1. CASE Deletions!Refused(saw, op, t0)
    BY <1>6, <1>9, <2>1 DEF Held
  <2>2. CASE ~Deletions!Refused(saw, op, t0) /\ op = "install"
    <3>1. RowHolds(Deletions!With(saw, t0, Deletions!NewRow(t0)), t)
      BY <1>2, <1>9, <2>2 DEF RowHolds, Deletions!With, Deletions!NewRow, Deletions!Named
    <3>2. QED
      BY <1>5, <2>2, <3>1 DEF Held
  <2>3. CASE ~Deletions!Refused(saw, op, t0) /\ op = "refer"
    <3>1. RowHolds(Deletions!add_reference(saw, t0), t)
      <4>1. saw[t] \in MapRows /\ t \in DOMAIN saw /\ saw[t].path = t
        BY <1>1, <1>2, <1>9, <2>3 DEF RowHolds, IsMap
      <4>2. QED
        BY <4>1 DEF RowHolds, MapRows, Deletions!With, Deletions!add_reference, Deletions!Named
    <3>2. QED
      BY <1>5, <2>3, <3>1 DEF Held
  <2>4. CASE ~Deletions!Refused(saw, op, t0) /\ op = "release"
    <3>1. RowHolds(Deletions!remove_reference(saw, t0), t)
      <4>1. saw[t] \in MapRows /\ t \in DOMAIN saw /\ saw[t].path = t
        BY <1>1, <1>2, <1>9, <2>4 DEF RowHolds, IsMap
      <4>2. QED
        BY <4>1 DEF RowHolds, MapRows, Deletions!remove_reference
    <3>2. QED
      BY <1>5, <2>4, <3>1 DEF Held
  <2>5. CASE ~Deletions!Refused(saw, op, t0) /\ op \in {"uninstall", "delete"}
    <3>1. rows' = Deletions!Without(saw, t0)
      BY <1>5, <2>5
    <3>2. CASE t # t0
      <4>1. RowHolds(rows', t)
        BY <1>2, <1>9, <2>5, <3>1, <3>2 DEF RowHolds, Deletions!Without, Deletions!Named
      <4>2. QED
        BY <4>1 DEF Held
    <3>3. CASE t = t0 /\ op = "uninstall"
      BY <1>1, <1>8, <3>3 DEF Uninstalled, t0, op
    <3>4. CASE t = t0 /\ op = "delete"
      <4>1. saw[t0].path = t
        BY <1>2, <1>9, <2>5, <3>4 DEF RowHolds
      <4>2. calls'[u] = [op |-> "delete", on |-> t, step |-> "queue"]
        BY <1>4, <2>5, <3>4, <4>1
      <4>3. QED
        BY <4>2 DEF Held, CallHolds, Deletions!NoCall
    <3>5. QED
      BY <2>5, <3>2, <3>3, <3>4
  <2>6. QED
    BY <1>7, <2>1, <2>2, <2>3, <2>4, <2>5 DEF MapCalls
<1>10. ASSUME NEW t \in dirs, CallHolds(calls[u], t) PROVE Held(t)'
  <2>1. op = "install" /\ t0 = t
    BY <1>1, <1>10 DEF CallHolds, op, t0
  <2>2. rows' = Deletions!With(saw, t0, Deletions!NewRow(t0))
    BY <1>5, <2>1 DEF Deletions!Refused
  <2>3. QED
    BY <2>1, <2>2 DEF Held, RowHolds, Deletions!With, Deletions!NewRow, Deletions!Named
<1>11. \A t \in dirs : Held(t) => Held(t)'
  BY <1>4, <1>9, <1>10, StillHeld
<1>12. calls'[u] # Deletions!NoCall /\ calls'[u].op = "uninstall" =>
         calls[u] # Deletions!NoCall /\ calls[u].op = "uninstall" /\ calls'[u].on = calls[u].on
  <2>1. CASE op = "uninstall"
    BY <1>1, <1>4, <2>1 DEF op, t0
  <2>2. CASE op = "delete" /\ ~Deletions!Refused(saw, "delete", t0)
    <3>1. calls'[u].op = "delete"
      BY <1>4, <2>2
    <3>2. QED
      BY <3>1
  <2>3. QED
    BY <1>4, <2>1, <2>2
<1>13. QED
  BY <1>2, <1>3, <1>4, <1>11, <1>12, CallStays

\* The queue gets the directory a deleted row named.
LEMMA EnqueueLoses ==
  ASSUME DeletionsType, LostInv, NEW u \in User, Deletions!enqueue_for_hard_delete(u)
  PROVE  LostInv'
<1> SUFFICES ASSUME ~overlapped' PROVE Uninstalled' /\ KeptInv' /\ GrowsInv' /\ HandInv'
  BY DEF LostInv
<1>1. ~overlapped /\ calls[u].saw = queue
  BY DEF Deletions!enqueue_for_hard_delete
<1>2. Uninstalled /\ KeptInv /\ GrowsInv /\ HandInv
  BY <1>1 DEF LostInv
<1>3. IsCall(calls[u]) /\ CallsTyped /\ calls[u].step = "queued" /\ calls[u] # Deletions!NoCall
  BY AtWork DEF DeletionsType, CallsTyped, Deletions!enqueue_for_hard_delete, Deletions!NoCall
<1>4. [path |-> calls[u].on, retry |-> 0] \in Waiting
  BY <1>3 DEF IsCall, Waiting
<1>5. /\ queue'.fast = Append(queue.fast, [path |-> calls[u].on, retry |-> 0])
      /\ queue'.slow = queue.slow /\ queue'.failed = queue.failed
  BY <1>1 DEF DeletionsType, QueueFiles, Deletions!enqueue_for_hard_delete
<1>6. /\ Deletions!ToSet(queue'.fast) = Deletions!ToSet(queue.fast) \cup {[path |-> calls[u].on, retry |-> 0]}
      /\ Len(queue'.fast) = Len(queue.fast) + 1 /\ Len(queue.fast) \in Nat
  BY <1>4, <1>5, AppendToSet, AppendProperties DEF DeletionsType, QueueFiles
<1>7. Deletions!Queued(queue') = Deletions!Queued(queue) \cup {calls[u].on}
  BY <1>5, <1>6 DEF Deletions!Queued
<1>8. UNCHANGED <<rows, dirs, worker>>
  BY DEF Deletions!enqueue_for_hard_delete
<1>9. /\ \A v \in User \ {u} : calls'[v] = calls[v]
      /\ calls'[u] # Deletions!NoCall /\ calls'[u].op = "uninstall" => calls[u].op = "uninstall" /\ calls'[u].on = calls[u].on
  <2>1. CASE Deletions!Goes(u, "map")
    BY <1>3, <2>1, GoesOn
  <2>2. CASE Deletions!Ends(u)
    BY <1>3, <2>2, EndsCall
  <2>3. QED
    BY <2>1, <2>2 DEF Deletions!enqueue_for_hard_delete
<1>10. ASSUME NEW t, Held(t) PROVE Held(t)' \/ t = calls[u].on
  BY <1>8, <1>9, <1>10 DEF Held, CallHolds
<1>11. Uninstalled'
  BY <1>2, <1>3, <1>8, <1>9 DEF Uninstalled
<1>12. KeptInv'
  BY <1>2, <1>7, <1>8, <1>10 DEF KeptInv
<1>13. worker # Deletions!Idle => Len(queue'.fast) > Len(worker.saw.fast)
  <2>1. ASSUME worker # Deletions!Idle PROVE Len(worker.saw.fast) \in Nat
    BY <2>1 DEF DeletionsType, Working, QueueFiles
  <2>2. QED
    BY <1>2, <1>6, <2>1 DEF GrowsInv
<1>14. GrowsInv'
  BY <1>8, <1>13 DEF GrowsInv
<1>15. HandInv'
  <2>1. ASSUME worker # Deletions!Idle PROVE queue' # worker.saw
    <3>1. Len(worker.saw.fast) \in Nat
      BY <2>1 DEF DeletionsType, Working, QueueFiles
    <3>2. QED
      BY <1>13, <2>1, <3>1
  <2>2. QED
    BY <1>8, <2>1 DEF HandInv
<1>16. QED
  BY <1>11, <1>12, <1>14, <1>15
\* What the worker has in hand while it works.
LEMMA InHandIs ==
  ASSUME worker # Deletions!Idle
  PROVE  Deletions!InHand = {e.path : e \in Deletions!ToSet(worker.left)} \cup Deletions!Queued(worker.writes)
BY DEF Deletions!InHand

\* Nothing that is held is let go while the map and the calls stay.
LEMMA HeldStays ==
  ASSUME UNCHANGED <<rows, calls>>, NEW t, Held(t)
  PROVE  Held(t)'
BY DEF Held

\* The worker takes everything it found in the list ...
LEMMA TakeLoses ==
  ASSUME DeletionsType, LostInv, NEW of \in {"fast", "slow"}, worker' = Deletions!Takes(of),
         UNCHANGED <<rows, dirs, queue, calls, overlapped>>
  PROVE  LostInv'
<1> SUFFICES ASSUME ~overlapped' PROVE Uninstalled' /\ KeptInv' /\ GrowsInv' /\ HandInv'
  BY DEF LostInv
<1>1. Uninstalled /\ KeptInv
  BY DEF LostInv
<1>2. Uninstalled'
  BY <1>1 DEF Uninstalled
<1>3. KeptInv'
  BY <1>1, HeldStays DEF KeptInv, Deletions!Queued
<1>4. worker'.saw = queue /\ worker'.left = queue[of] /\ worker'.writes = [queue EXCEPT ![of] = <<>>]
  BY DEF Deletions!Takes
<1>5. /\ worker'.writes.failed = queue.failed
      /\ of = "fast" => worker'.left = queue.fast /\ worker'.writes.slow = queue.slow /\ worker'.writes.fast = <<>>
      /\ of = "slow" => worker'.left = queue.slow /\ worker'.writes.fast = queue.fast /\ worker'.writes.slow = <<>>
  BY <1>4 DEF DeletionsType, QueueFiles
<1>6. ASSUME NEW t \in Deletions!Queued(queue)
      PROVE  t \in {e.path : e \in Deletions!ToSet(worker'.left)} \cup Deletions!Queued(worker'.writes)
  BY <1>5, <1>6 DEF Deletions!Queued
<1>7. GrowsInv'
  BY <1>4 DEF GrowsInv
<1>8. HandInv'
  BY <1>4, <1>6 DEF HandInv, Deletions!InHand
<1>9. QED
  BY <1>2, <1>3, <1>7, <1>8

\* ... tries one entry after the other: the directory is gone, or what it will write names it ...
LEMMA TryLoses ==
  ASSUME LostInv, worker \in Working, worker' \in Working, worker # Deletions!Idle, worker' # Deletions!Idle,
         worker.left # <<>>, worker'.left = Tail(worker.left), worker'.saw = worker.saw,
         UNCHANGED <<rows, queue, calls, overlapped>>, dirs' \subseteq dirs,
         Deletions!Queued(worker.writes) \subseteq Deletions!Queued(worker'.writes),
         Head(worker.left).path \in dirs' => Head(worker.left).path \in Deletions!Queued(worker'.writes)
  PROVE  LostInv'
<1> SUFFICES ASSUME ~overlapped' PROVE Uninstalled' /\ KeptInv' /\ GrowsInv' /\ HandInv'
  BY DEF LostInv
<1>1. Uninstalled /\ KeptInv /\ GrowsInv /\ HandInv
  BY DEF LostInv
<1>2. Uninstalled'
  BY <1>1 DEF Uninstalled
<1>3. KeptInv'
  BY <1>1, HeldStays DEF KeptInv, Deletions!Queued
<1>4. GrowsInv'
  BY <1>1 DEF GrowsInv
<1>5. Deletions!ToSet(worker.left) = Deletions!ToSet(worker'.left) \cup {Head(worker.left)}
  BY TailToSet DEF Working
<1>6. ASSUME NEW t \in dirs', t \in Deletions!InHand PROVE t \in Deletions!InHand'
  <2>1. t \in {e.path : e \in Deletions!ToSet(worker.left)} \cup Deletions!Queued(worker.writes)
    BY <1>6, InHandIs
  <2>2. CASE t \in Deletions!Queued(worker.writes)
    BY <2>2 DEF Deletions!InHand
  <2>3. CASE \E e \in Deletions!ToSet(worker.left) : t = e.path
    <3>1. PICK e \in Deletions!ToSet(worker.left) : t = e.path
      BY <2>3
    <3>2. CASE e \in Deletions!ToSet(worker'.left)
      BY <3>1, <3>2 DEF Deletions!InHand
    <3>3. CASE e = Head(worker.left)
      BY <1>6, <3>1, <3>3 DEF Deletions!InHand
    <3>4. QED
      BY <1>5, <3>1, <3>2, <3>3
  <2>4. QED
    BY <2>1, <2>2, <2>3
<1>7. HandInv'
  <2> SUFFICES ASSUME queue = worker.saw, NEW t \in dirs', t \in Deletions!Queued(worker.saw)
               PROVE  Held(t)' \/ t \in Deletions!InHand'
    BY DEF HandInv, Deletions!Queued
  <2>1. Held(t) \/ t \in Deletions!InHand
    BY <1>1 DEF HandInv
  <2>2. QED
    BY <1>6, <2>1, HeldStays
<1>8. QED
  BY <1>2, <1>3, <1>4, <1>7

\* ... and at last what it writes names all that it did not remove.
LEMMA WriteBackLoses ==
  ASSUME DeletionsType, LostInv, Deletions!WorkerWrites
  PROVE  LostInv'
<1> SUFFICES ASSUME ~overlapped' PROVE Uninstalled' /\ KeptInv' /\ GrowsInv' /\ HandInv'
  BY DEF LostInv
<1>1. /\ ~overlapped /\ UNCHANGED <<rows, dirs, calls>> /\ worker' = Deletions!Idle
      /\ worker # Deletions!Idle /\ worker.left = <<>>
  <2>1. UNCHANGED <<rows, dirs, calls>> /\ worker' = Deletions!Idle /\ worker.left = <<>>
    BY DEF Deletions!WorkerWrites
  <2>2. worker.step # "idle" /\ Deletions!Idle.step = "idle"
    BY DEF Deletions!WorkerWrites, Deletions!Idle
  <2>3. ~overlapped
    BY DEF Deletions!WorkerWrites
  <2>4. QED
    BY <2>1, <2>2, <2>3
<1>2. Uninstalled /\ KeptInv /\ HandInv
  BY <1>1 DEF LostInv
<1>3. Uninstalled' /\ GrowsInv' /\ HandInv'
  BY <1>1, <1>2 DEF Uninstalled, GrowsInv, HandInv
<1>4. KeptInv'
  <2>1. CASE UNCHANGED queue
    BY <1>1, <1>2, <2>1, HeldStays DEF KeptInv, Deletions!Queued
  <2>2. CASE queue' = worker.writes /\ queue = worker.saw
    <3>1. Deletions!InHand = Deletions!Queued(worker.writes)
      BY <1>1, InHandIs, EmptyToSet
    <3>2. ASSUME NEW t \in dirs PROVE Held(t) \/ t \in Deletions!Queued(queue')
      BY <1>1, <1>2, <2>2, <3>1 DEF KeptInv, HandInv
    <3>3. QED
      BY <1>1, <3>2, HeldStays DEF KeptInv
  <2>3. QED
    BY <2>1, <2>2 DEF Deletions!WorkerWrites
<1>5. QED
  BY <1>3, <1>4

LEMMA LostKept ==
  ASSUME DeletionsType, TriesInv, LostInv, Deletions!QueueNext
  PROVE  LostInv'
<1>0. DeletionsType'
  BY DeletionsTypeKept
<1>1. ASSUME NEW u \in User, NEW t \in Template, NEW op \in {"refer", "release", "delete"}, Deletions!OnMap(u, op, t)
      PROVE  LostInv'
  <2>1. /\ calls[u] = Deletions!NoCall /\ (overlapped => overlapped') /\ UNCHANGED <<rows, dirs, queue, worker>>
        /\ calls' = [calls EXCEPT ![u] = [op |-> op, on |-> t, step |-> "map"]]
    BY <1>1 DEF Deletions!OnMap, Deletions!Starts
  <2>2. /\ calls'[u] = [op |-> op, on |-> t, step |-> "map"]
        /\ \A v \in User \ {u} : calls'[v] = calls[v]
    <3>1. op \in MapCalls /\ t \in Paths /\ CallsTyped
      BY DEF DeletionsType, MapCalls, Paths
    <3>2. QED
      BY <2>1, <3>1, BecomesCall
  <2>3. \A s \in dirs : Held(s) => Held(s)'
    BY <2>1, <2>2 DEF Held
  <2>4. calls'[u].op = op
    BY <2>2
  <2>5. QED
    BY <2>1, <2>2, <2>3, <2>4, CallStays
<1>2. ASSUME NEW u \in User, Deletions!ReadMap(u) \/ Deletions!ReadQueue(u) PROVE LostInv'
  <2>1. IsCall(calls[u]) /\ calls[u] # Deletions!NoCall
    BY <1>2, AtWork DEF Deletions!ReadMap, Deletions!ReadQueue, DeletionsType, Deletions!NoCall
  <2>2. /\ \A v \in User \ {u} : calls'[v] = calls[v]
        /\ calls'[u].op = calls[u].op /\ calls'[u].on = calls[u].on
        /\ \/ calls[u].step = "map" /\ calls'[u].step = "mapped"
           \/ calls[u].step = "queue" /\ calls'[u].step = "queued"
    <3>1. CASE Deletions!ReadMap(u)
      BY <2>1, <3>1, ReadsOn DEF Deletions!ReadMap, DeletionsType
    <3>2. CASE Deletions!ReadQueue(u)
      BY <2>1, <3>2, ReadsOn DEF Deletions!ReadQueue, DeletionsType
    <3>3. QED
      BY <1>2, <3>1, <3>2
  <2>3. UNCHANGED <<rows, dirs, queue, worker, overlapped>>
    BY <1>2 DEF Deletions!ReadMap, Deletions!ReadQueue
  <2>4. calls'[u] # Deletions!NoCall
    BY <2>2 DEF Deletions!NoCall
  <2>5. ASSUME NEW s, Held(s) PROVE Held(s)'
    <3>1. RowHolds(rows, s) => Held(s)'
      BY <2>3 DEF Held
    <3>2. CallHolds(calls[u], s) => Held(s)'
      BY <2>2, <2>4 DEF Held, CallHolds
    <3>3. QED
      BY <2>2, <2>5, <3>1, <3>2, StillHeld
  <2>6. QED
    BY <2>1, <2>2, <2>3, <2>5, CallStays
<1>3. ASSUME NEW u \in User, Deletions!LeaveIndex(u) PROVE LostInv'
  <2>1. calls'[u] = Deletions!NoCall /\ \A v \in User \ {u} : calls'[v] = calls[v]
    BY <1>3, EndsCall DEF Deletions!LeaveIndex, DeletionsType
  <2>2. UNCHANGED <<rows, dirs, queue, worker, overlapped>> /\ calls[u].step = "index"
    BY <1>3 DEF Deletions!LeaveIndex
  <2>3. ASSUME NEW s, Held(s) PROVE Held(s)'
    BY <2>1, <2>2, <2>3, StillHeld DEF Held, CallHolds
  <2>4. QED
    BY <2>1, <2>2, <2>3, CallStays
<1>4. CASE Deletions!RemovesNext
  <2>1. worker \in Working /\ worker # Deletions!Idle /\ worker.left # <<>>
    BY <1>4 DEF Deletions!RemovesNext, Deletions!Idle, DeletionsType
  <2>2. /\ worker'.left = Tail(worker.left) /\ worker'.saw = worker.saw /\ worker'.writes = worker.writes
        /\ worker'.step = worker.step
    BY <1>4, <2>1 DEF Deletions!RemovesNext, Working
  <2>3. worker' # Deletions!Idle
    BY <2>1, <2>2 DEF Deletions!Idle, Working
  <2>4. worker' \in Working
    BY <1>0, <2>3 DEF DeletionsType
  <2>5. dirs' = dirs \ {Head(worker.left).path} /\ UNCHANGED <<rows, queue, calls, overlapped>>
    BY <1>4 DEF Deletions!RemovesNext
  <2>6. QED
    BY <2>1, <2>2, <2>3, <2>4, <2>5, TryLoses
<1>5. CASE Deletions!FailsNext
  <2>1. worker \in Working /\ worker # Deletions!Idle /\ worker.left # <<>>
    BY <1>5 DEF Deletions!FailsNext, Deletions!Idle, DeletionsType
  <2>2. /\ worker'.left = Tail(worker.left) /\ worker'.saw = worker.saw /\ worker'.writes = Deletions!AfterFailure
        /\ worker'.step = worker.step
    BY <1>5, <2>1 DEF Deletions!FailsNext, Working
  <2>3. worker' # Deletions!Idle
    BY <2>1, <2>2 DEF Deletions!Idle, Working
  <2>4. worker' \in Working
    BY <1>0, <2>3 DEF DeletionsType
  <2>5. UNCHANGED <<rows, dirs, queue, calls, overlapped>>
    BY <1>5 DEF Deletions!FailsNext
  <2>6. Deletions!Queued(Deletions!AfterFailure) = Deletions!Queued(worker.writes) \cup {Head(worker.left).path}
    <3>1. worker.writes \in QueueFiles /\ Head(worker.left) \in Waiting
      BY <2>1, HeadTailProperties DEF Working
    <3>2. ASSUME NEW n \in Nat
          PROVE  Deletions!Queued(Deletions!SlowAgain(n)) = Deletions!Queued(worker.writes) \cup {Head(worker.left).path}
      <4>1. [path |-> Head(worker.left).path, retry |-> n] \in Waiting
        BY <3>1 DEF Waiting
      <4>2. /\ Deletions!SlowAgain(n).failed = worker.writes.failed /\ Deletions!SlowAgain(n).fast = worker.writes.fast
            /\ Deletions!SlowAgain(n).slow = Append(worker.writes.slow, [path |-> Head(worker.left).path, retry |-> n])
        BY <3>1 DEF QueueFiles, Deletions!SlowAgain
      <4>3. Deletions!ToSet(Deletions!SlowAgain(n).slow) =
              Deletions!ToSet(worker.writes.slow) \cup {[path |-> Head(worker.left).path, retry |-> n]}
        BY <3>1, <4>1, <4>2, AppendToSet DEF QueueFiles
      <4>4. QED
        BY <4>2, <4>3 DEF Deletions!Queued
    <3>3. Deletions!Queued(Deletions!Given) = Deletions!Queued(worker.writes) \cup {Head(worker.left).path}
      <4>1. /\ Deletions!Given.failed = worker.writes.failed \cup {Head(worker.left).path}
            /\ Deletions!Given.fast = worker.writes.fast /\ Deletions!Given.slow = worker.writes.slow
        BY <3>1 DEF QueueFiles, Deletions!Given
      <4>2. QED
        BY <4>1 DEF Deletions!Queued
    <3>4. Head(worker.left).retry + 1 \in Nat /\ 1 \in Nat
      BY <3>1 DEF Waiting
    <3>5. QED
      BY <3>2, <3>3, <3>4 DEF Deletions!AfterFailure
  <2>7. QED
    BY <2>1, <2>2, <2>3, <2>4, <2>5, <2>6, TryLoses
<1>6. CASE Deletions!WorkerDies
  <2>1. UNCHANGED <<rows, dirs, queue, calls, overlapped>> /\ worker' = Deletions!Idle
    BY <1>6 DEF Deletions!WorkerDies
  <2>2. QED
    BY <2>1, HeldStays DEF LostInv, Uninstalled, KeptInv, GrowsInv, HandInv, Deletions!Queued
<1>7. CASE Deletions!drain_fast_queue
  BY <1>7, TakeLoses DEF Deletions!drain_fast_queue
<1>8. CASE Deletions!process_slow_queue
  BY <1>8, TakeLoses DEF Deletions!process_slow_queue
<1>9. QED
  BY <1>1, <1>2, <1>3, <1>4, <1>5, <1>6, <1>7, <1>8, InstallLoses, UninstallLoses, WriteLoses, EnqueueLoses,
     WriteBackLoses
  DEF Deletions!QueueNext

LEMMA DeletionsHold == PartsSpec => [](part = "deletions" => DeletionsInv)
<1>1. PartsInit => (part = "deletions" => DeletionsInv)
  <2> SUFFICES ASSUME Deletions!QueueInit PROVE DeletionsInv
    BY DEF PartsInit, PartsStart
  <2>1. /\ rows = <<>> /\ dirs = {} /\ queue = [fast |-> <<>>, slow |-> <<>>, failed |-> {}]
        /\ worker = Deletions!Idle /\ calls = [u \in User |-> Deletions!NoCall]
        /\ overlapped = FALSE /\ attempts = [t \in Template |-> 0]
    BY DEF Deletions!QueueInit
  <2>2. \A u \in User : calls[u] = Deletions!NoCall /\ calls[u].step = "none"
    BY <2>1 DEF Deletions!NoCall
  <2>3. CallsTyped
    BY <2>1, <2>2 DEF CallsTyped
  <2>4. DOMAIN rows = {}
    BY <2>1
  <2>5. queue \in QueueFiles
    BY <2>1 DEF QueueFiles
  <2>6. DeletionsType
    BY <2>1, <2>3, <2>4, <2>5 DEF DeletionsType, IsMap
  <2>7. TriesInv
    BY <2>1, <2>2, EmptyToSet DEF TriesInv, Tries, Deletions!Idle
  <2>8. LostInv
    BY <2>1, <2>2 DEF LostInv, Uninstalled, KeptInv, GrowsInv, HandInv
  <2>9. QED
    BY <2>6, <2>7, <2>8 DEF DeletionsInv
<1>2. (part = "deletions" => DeletionsInv) /\ [PartsNext]_partsVars => (part = "deletions" => DeletionsInv)'
  <2> SUFFICES ASSUME part = "deletions" => DeletionsInv, [PartsNext]_partsVars, part' = "deletions"
               PROVE  DeletionsInv'
    OBVIOUS
  <2>1. part = "deletions"
    BY DEF PartsNext, partsVars
  <2>2. CASE Deletions!QueueNext
    BY <2>1, <2>2, DeletionsTypeKept, TriesKept, LostKept DEF DeletionsInv
  <2>3. CASE UNCHANGED deletions
    <3>1. DeletionsType'
      BY <2>1, <2>3 DEF deletions, DeletionsInv, DeletionsType, CallsTyped
    <3>2. TriesInv'
      BY <2>1, <2>3 DEF deletions, DeletionsInv, TriesInv
    <3>3. LostInv'
      BY <2>1, <2>3, HeldStays
      DEF deletions, DeletionsInv, LostInv, Uninstalled, KeptInv, GrowsInv, HandInv, Deletions!Queued, Deletions!InHand
    <3>4. QED
      BY <3>1, <3>2, <3>3 DEF DeletionsInv
  <2>4. QED
    BY <2>1, <2>2, <2>3, DeletionsMove
<1>3. QED
  BY <1>1, <1>2, PTL DEF PartsSpec

LEMMA DeletionsAreSound == ASSUME DeletionsInv PROVE Deletions!DeletionsSound
<1>1. Deletions!GivesUpLate
  BY DEF DeletionsInv, TriesInv, Tries, Deletions!GivesUpLate
<1>2. Deletions!WithinBudget
  BY DEF DeletionsInv, TriesInv, Tries, Tried, Deletions!WithinBudget
<1>3. ASSUME ~overlapped PROVE Deletions!Accounted
  <2>1. ASSUME NEW t, Held(t) PROVE RowHolds(rows, t) \/ Deletions!Busy(t)
    BY <2>1 DEF Held, CallHolds, Deletions!Busy
  <2>2. KeptInv
    BY <1>3 DEF DeletionsInv, LostInv
  <2>3. QED
    BY <2>1, <2>2 DEF KeptInv, Deletions!Accounted, RowHolds, Deletions!Named
<1>4. QED
  BY <1>1, <1>2, <1>3 DEF Deletions!DeletionsSound

\* Whoever asks, dies, fails or races: a directory is given up only after all its
\* tries and, as long as calls and files do not overlap, none is lost between the map,
\* the queue and the worker; an end the panel shows, or is told, is the one the record
\* came to; and what is enqueued is in the store that is opened again.
THEOREM TasksSoundHolds == PartsSpec => []TasksSound
<1>1. /\ part = "deletions" => DeletionsInv
      /\ part = "feed" => FeedInv
      /\ part = "opening" => OpeningInv
      => TasksSound
  BY DeletionsAreSound, FeedIsSound, OpeningIsSound DEF TasksSound, Of
<1>2. QED
  BY <1>1, DeletionsHold, FeedHolds, OpeningHolds, PTL

-----------------------------------------------------------------------------
(* Stored copies (ResourceCopies). *)

LEMMA CopyMoves ==
  ASSUME part = "copies", [PartsNext]_partsVars
  PROVE  part' = "copies" /\ (Copies!CopiesNext \/ UNCHANGED copies)
BY DEF PartsNext, partsVars, TreeStep, StoreStep, CheckStep, DownloadStep, DeletionStep, RepositoryStep,
       InstallStep, CopyStep, RegistryStep, SettingStep, MirrorStep, FeedStep, EndpointStep, OpeningStep

Payload == [by : Nat, whole : BOOLEAN]
Extracting ==
  [op : {"extract"}, step : {"wipe", "fill", "register"}, home : Home, copy : Copies!Copy, by : Nat, from : Home,
   was : BOOLEAN, up : BOOLEAN, put : Payload]
Inserting ==
  [op : {"inject", "write"}, step : {"stage", "stop", "put", "rest", "restart"}, home : Home,
   copy : Copies!Copy \cup {0}, by : Nat, from : Home, was : BOOLEAN, up : BOOLEAN, put : Payload]
Finished ==
  [op : {"none"}, step : {"over"}, home : Home, copy : {0}, was : BOOLEAN, up : BOOLEAN]
Tasks == Extracting \cup Inserting \cup Finished \cup {Copies!Idle}
Removals == [op : {"delete"}, step : {"files", "row"}, copy : Copies!Copy] \cup {Copies!Idle}
CopiesType ==
  /\ copied \in [Copies!Copy -> Nat] /\ packed \in [Copies!Copy -> Payload]
  /\ jobs \in [Job -> Tasks] /\ remover \in Removals
  /\ taken \in Nat /\ doubled \in BOOLEAN /\ cut \subseteq Copies!Copy

\* A copy that is being taken has no row yet, and nobody else is at it; when its
\* row is about to be written, all of it is there.
TakenAlone ==
  \A j \in Job : jobs[j].op = "extract" =>
    /\ copied[jobs[j].copy] = 0 /\ ~Copies!Removing(jobs[j].copy)
    /\ \A k \in Job \ {j} : jobs[k] # Copies!Idle => jobs[k].copy # jobs[j].copy
    /\ jobs[j].step = "register" => packed[jobs[j].copy] = [by |-> jobs[j].by, whole |-> TRUE]
\* A copy that is being put somewhere keeps its row.
PutKeeps ==
  \A j \in Job : (jobs[j].op = "inject" /\ jobs[j].copy # 0) =>
    /\ jobs[j].by # 0 /\ copied[jobs[j].copy] = jobs[j].by /\ ~Copies!Removing(jobs[j].copy)
    /\ (jobs[j].step = "restart" /\ jobs[j].copy \notin cut) => jobs[j].put = [by |-> jobs[j].by, whole |-> TRUE]
CopiesInv ==
  /\ CopiesType /\ Copies!WrittenAtRest
  /\ ~doubled => TakenAlone /\ PutKeeps /\ Copies!RowsHavePayloads

Below == OpToRel(<, Nat)
\* The order of the ids, as the library's theorems on least elements have it.
LEMMA BelowMeans ==
  ASSUME NEW x \in Nat, NEW y \in Nat, y < x
  PROVE  <<y, x>> \in Below
<1>1. <<y, x>> \in Nat \X Nat /\ <<y, x>>[1] = y /\ <<y, x>>[2] = x
  OBVIOUS
<1>2. <<y, x>>[1] < <<y, x>>[2]
  BY <1>1
<1>3. QED
  BY <1>1, <1>2, Zenon DEF Below, OpToRel
\* The first id without a row is one.
LEMMA FreeId ==
  ASSUME NEW used \in [Copies!Copy -> Nat], NEW d \in Copies!Copy, used[d] = 0
  PROVE  Copies!free_record_id(used) \in Copies!Copy /\ used[Copies!free_record_id(used)] = 0
<1> DEFINE T == {c \in Copies!Copy : used[c] = 0}
<1>1. T \subseteq Nat /\ T # {}
  BY DEF Copies!Copy
<1>2. PICK c \in T : \A e \in T : ~(<<e, c>> \in Below)
  BY <1>1, NatLessThanWellFounded, WFMin DEF Below
<1>3. ASSUME NEW e \in 1 .. c - 1 PROVE used[e] # 0
  <2>1. c \in Nat /\ e \in Copies!Copy /\ e \in Nat /\ e < c
    BY <1>1, CopiesAssumption DEF Copies!Copy
  <2>2. e \notin T
    BY <1>2, <2>1, BelowMeans
  <2>3. QED
    BY <2>1, <2>2
<1>4. \E e \in Copies!Copy : used[e] = 0 /\ \A f \in 1 .. e - 1 : used[f] # 0
  BY <1>2, <1>3
<1>5. QED
  BY <1>4, Zenon DEF Copies!free_record_id

\* One task changes.
LEMMA JobBecomes ==
  ASSUME jobs \in [Job -> Tasks], NEW j \in Job, NEW r \in Tasks, jobs' = [jobs EXCEPT ![j] = r]
  PROVE  jobs' \in [Job -> Tasks]
OBVIOUS
LEMMA JobStarts ==
  ASSUME jobs \in [Job -> Tasks], NEW j \in Job, NEW h \in Home, NEW op \in {"extract", "inject", "write"},
         NEW step \in {"wipe", "stage", "stop"}, op = "extract" <=> step = "wipe",
         NEW copy \in Copies!Copy \cup {0}, copy = 0 => op # "extract", NEW by \in Nat, NEW from \in Home,
         Copies!Begins(j, op, h, step, copy, by, from)
  PROVE  jobs' \in [Job -> Tasks]
<1>1. PICK up \in BOOLEAN :
        jobs' = [jobs EXCEPT ![j] = [op |-> op, step |-> step, home |-> h, copy |-> copy, by |-> by, from |-> from,
                                     was |-> up, up |-> up, put |-> Copies!None]]
  BY DEF Copies!Begins
<1> DEFINE r == [op |-> op, step |-> step, home |-> h, copy |-> copy, by |-> by, from |-> from,
                 was |-> up, up |-> up, put |-> Copies!None]
<1>2. Copies!None \in Payload
  BY DEF Payload, Copies!None
<1>3. CASE op = "extract"
  <2>1. r \in Extracting
    BY <1>2, <1>3 DEF Extracting
  <2>2. QED
    BY <1>1, <2>1, JobBecomes DEF Tasks
<1>4. CASE op # "extract"
  <2>1. r \in Inserting
    BY <1>2, <1>4 DEF Inserting
  <2>2. QED
    BY <1>1, <2>1, JobBecomes DEF Tasks
<1>5. QED
  BY <1>3, <1>4
\* What a task is, by its step.
LEMMA TaskIs ==
  ASSUME jobs \in [Job -> Tasks], NEW j \in Job
  PROVE  /\ jobs[j].op = "extract" => jobs[j] \in Extracting
         /\ jobs[j].step \in {"stage", "stop", "put", "rest", "restart"} => jobs[j] \in Inserting
         /\ Copies!Idle \in Tasks
BY DEF Tasks, Extracting, Inserting, Finished, Copies!Idle
LEMMA PackedBecomes ==
  ASSUME packed \in [Copies!Copy -> Payload], NEW c \in Copies!Copy, NEW r \in Payload, packed' = [packed EXCEPT ![c] = r]
  PROVE  packed' \in [Copies!Copy -> Payload]
OBVIOUS

\* A task has the record of its operation, and what is stored has an owner.
LEMMA CopiesTyped ==
  ASSUME CopiesInv, Copies!CopiesNext
  PROVE  CopiesType'
<1>1. CopiesType
  BY DEF CopiesInv
<1> USE DEF CopiesType
<1>i. jobs \in [Job -> Tasks] /\ Copies!Idle \in Tasks /\ packed \in [Copies!Copy -> Payload] /\ remover \in Removals
  BY <1>1, TaskIs DEF Tasks
<1>e. ASSUME NEW j \in Job, Copies!Ends(j) PROVE jobs' \in [Job -> Tasks]
  BY <1>i, <1>e, JobBecomes DEF Copies!Ends
<1>2. ASSUME NEW j \in Job, NEW h \in Home, Copies!Chooses(j, h)
      PROVE  CopiesType'
  <2> DEFINE c == Copies!free_record_id(copied)
  <2>1. c \in Copies!Copy
    BY <1>1, <1>2, FreeId DEF Copies!Chooses
  <2>2. Copies!Begins(j, "extract", h, "wipe", c, taken + 1, h) /\ taken + 1 \in Nat
    BY <1>1, <1>2 DEF Copies!Chooses
  <2>3. c # 0
    BY <2>1 DEF Copies!Copy
  <2> HIDE DEF c
  <2>4. jobs' \in [Job -> Tasks]
    BY <1>i, <2>1, <2>2, <2>3, JobStarts
  <2>5. QED
    BY <1>1, <1>2, <2>4 DEF Copies!Chooses
<1>3. ASSUME NEW j \in Job, NEW h \in Home, Copies!Finds(j, h)
      PROVE  CopiesType'
  <2>1. CASE \E c \in Copies!Copy : copied[c] # 0 /\ Copies!Begins(j, "inject", h, "stop", c, copied[c], h)
    BY <1>1, <1>3, <2>1, JobStarts DEF Copies!Finds
  <2>2. CASE \E from \in Home \ {h} : Copies!Begins(j, "inject", h, "stage", 0, 0, from)
    BY <1>1, <1>3, <2>2, JobStarts DEF Copies!Finds
  <2>3. QED
    BY <1>3, <2>1, <2>2 DEF Copies!Finds
<1>4. ASSUME NEW j \in Job, NEW h \in Home, Copies!Composes(j, h)
      PROVE  CopiesType'
  BY <1>1, <1>4, JobStarts DEF Copies!Composes
<1>5. ASSUME NEW j \in Job, Copies!Wipes(j)
      PROVE  CopiesType'
  <2>1. jobs[j] \in Extracting
    BY <1>i, <1>5, TaskIs DEF Copies!Wipes, Copies!Step
  <2>2. [jobs[j] EXCEPT !.step = "fill"] \in Tasks /\ [by |-> jobs[j].by, whole |-> FALSE] \in Payload
        /\ jobs[j].copy \in Copies!Copy
    BY <2>1 DEF Tasks, Extracting, Payload
  <2>3. jobs' = [jobs EXCEPT ![j] = [jobs[j] EXCEPT !.step = "fill"]]
    BY <1>i, <1>5 DEF Copies!Wipes, Copies!Goes
  <2>4. jobs' \in [Job -> Tasks]
    BY <1>i, <2>2, <2>3, JobBecomes
  <2>5. packed' \in [Copies!Copy -> Payload]
    BY <1>i, <1>5, <2>2, PackedBecomes DEF Copies!Wipes
  <2>6. QED
    BY <1>1, <1>5, <2>4, <2>5 DEF Copies!Wipes
<1>6. ASSUME NEW j \in Job, Copies!Fills(j)
      PROVE  CopiesType'
  <2>1. jobs[j] \in Extracting
    BY <1>i, <1>6, TaskIs DEF Copies!Fills, Copies!Step
  <2>2. [jobs[j] EXCEPT !.step = "register"] \in Tasks /\ [by |-> jobs[j].by, whole |-> TRUE] \in Payload
        /\ jobs[j].copy \in Copies!Copy
    BY <2>1 DEF Tasks, Extracting, Payload
  <2>3. CASE Copies!Goes(j, "register") /\ packed' = [packed EXCEPT ![jobs[j].copy] = [by |-> jobs[j].by, whole |-> TRUE]]
    <3>1. jobs' = [jobs EXCEPT ![j] = [jobs[j] EXCEPT !.step = "register"]]
      BY <1>i, <2>3 DEF Copies!Goes
    <3>2. jobs' \in [Job -> Tasks]
      BY <1>i, <2>2, <3>1, JobBecomes
    <3>3. packed' \in [Copies!Copy -> Payload]
      BY <1>i, <2>3, <2>2, PackedBecomes
    <3>4. QED
      BY <1>1, <1>6, <3>2, <3>3 DEF Copies!Fills
  <2>4. CASE Copies!Ends(j) /\ UNCHANGED packed
    BY <1>1, <1>6, <1>e, <2>4 DEF Copies!Fills
  <2>5. QED
    BY <1>6, <2>3, <2>4 DEF Copies!Fills
<1>7. ASSUME NEW j \in Job, Copies!Registers(j)
      PROVE  CopiesType'
  <2>1. jobs[j] \in Extracting
    BY <1>i, <1>7, TaskIs DEF Copies!Registers, Copies!Step
  <2>2. jobs[j].copy \in Copies!Copy /\ jobs[j].by \in Nat
    BY <2>1 DEF Extracting
  <2>3. copied' \in [Copies!Copy -> Nat]
    BY <1>1, <1>7, <2>2 DEF Copies!Registers
  <2>4. QED
    BY <1>1, <1>7, <1>e, <2>3 DEF Copies!Registers
<1>8. ASSUME NEW j \in Job, Copies!Stages(j)
      PROVE  CopiesType'
  <2>1. jobs[j] \in Inserting
    BY <1>i, <1>8, TaskIs DEF Copies!Stages, Copies!Step
  <2>2. \A put \in Payload : [jobs[j] EXCEPT !.step = "stop", !.put = put] \in Tasks
    BY <2>1 DEF Tasks, Inserting
  <2>3. Copies!None \in Payload /\ Copies!Own \in Payload
    BY DEF Copies!None, Copies!Own, Payload
  <2>4. Copies!Ends(j) \/ \E put \in Payload : jobs' = [jobs EXCEPT ![j] = [jobs[j] EXCEPT !.step = "stop", !.put = put]]
    BY <1>i, <1>8, <2>3 DEF Copies!Stages
  <2>5. jobs' \in [Job -> Tasks]
    BY <1>i, <1>e, <2>2, <2>4, JobBecomes
  <2>6. QED
    BY <1>1, <1>8, <2>5 DEF Copies!Stages
<1>9. ASSUME NEW j \in Job, NEW restart \in BOOLEAN, Copies!Stops(j, restart)
      PROVE  CopiesType'
  <2>1. jobs[j] \in Inserting
    BY <1>i, <1>9, TaskIs DEF Copies!Stops, Copies!Step
  <2>2. [jobs[j] EXCEPT !.step = "put", !.up = FALSE] \in Tasks
    BY <2>1 DEF Tasks, Inserting
  <2>4. Copies!Ends(j) \/ jobs' = [jobs EXCEPT ![j] = [jobs[j] EXCEPT !.step = "put", !.up = FALSE]]
    BY <1>i, <1>9 DEF Copies!Stops
  <2>5. jobs' \in [Job -> Tasks]
    BY <1>i, <1>e, <2>2, <2>4, JobBecomes
  <2>6. QED
    BY <1>1, <1>9, <2>5 DEF Copies!Stops
<1>10. ASSUME NEW j \in Job, Copies!Puts(j)
      PROVE  CopiesType'
  <2>1. jobs[j] \in Inserting
    BY <1>i, <1>10, TaskIs DEF Copies!Puts, Copies!Step
  <2>2. Copies!Source(j) \in Payload
    BY <1>i, <2>1 DEF Copies!Source, Copies!Own, Inserting, Payload
  <2>3. [jobs[j] EXCEPT !.step = "rest"] \in Tasks /\ [jobs[j] EXCEPT !.step = "restart", !.put = Copies!Source(j)] \in Tasks
    BY <2>1, <2>2 DEF Tasks, Inserting
  <2>4. \/ jobs' = [jobs EXCEPT ![j] = [jobs[j] EXCEPT !.step = "rest"]]
        \/ jobs' = [jobs EXCEPT ![j] = [jobs[j] EXCEPT !.step = "restart", !.put = Copies!Source(j)]]
    BY <1>i, <1>10 DEF Copies!Puts, Copies!Goes
  <2>5. jobs' \in [Job -> Tasks]
    BY <1>i, <2>3, <2>4, JobBecomes
  <2>6. QED
    BY <1>1, <1>10, <2>5 DEF Copies!Puts
<1>11. ASSUME NEW j \in Job, Copies!PutFails(j)
      PROVE  CopiesType'
  BY <1>1, <1>11, <1>e DEF Copies!PutFails
<1>12. ASSUME NEW j \in Job, Copies!Restarts(j)
      PROVE  CopiesType'
  <2>1. jobs[j] \in Inserting
    BY <1>i, <1>12, TaskIs DEF Copies!Restarts, Copies!Step
  <2>2. PICK again \in {FALSE, jobs[j].was} :
          jobs' = [jobs EXCEPT ![j] = [op |-> "none", step |-> "over", home |-> @.home, copy |-> 0, was |-> @.was, up |-> again]]
    BY <1>12 DEF Copies!Restarts
  <2> DEFINE r == [op |-> "none", step |-> "over", home |-> jobs[j].home, copy |-> 0, was |-> jobs[j].was, up |-> again]
  <2>3. r \in Tasks
    BY <2>1 DEF Tasks, Inserting, Finished
  <2>4. jobs' = [jobs EXCEPT ![j] = r]
    BY <1>i, <2>2
  <2> HIDE DEF r
  <2>5. jobs' \in [Job -> Tasks]
    BY <1>i, <2>3, <2>4, JobBecomes
  <2>6. QED
    BY <1>1, <1>12, <2>5 DEF Copies!Restarts
<1>13. ASSUME NEW j \in Job, Copies!IsOver(j)
      PROVE  CopiesType'
  BY <1>1, <1>13, <1>e DEF Copies!IsOver
<1>14. ASSUME NEW c \in Copies!Copy, Copies!Deletes(c)
      PROVE  CopiesType'
  BY <1>1, <1>14 DEF Copies!Deletes, Removals
<1>15. ASSUME Copies!DeletesFiles
      PROVE  CopiesType'
  <2>1. remover.copy \in Copies!Copy
    BY <1>i, <1>15 DEF Copies!DeletesFiles, Removals, Copies!Idle
  <2>2. [packed[remover.copy] EXCEPT !.whole = FALSE] \in Payload /\ Copies!None \in Payload
    BY <1>i, <2>1 DEF Payload, Copies!None
  <2>3. packed' = [packed EXCEPT ![remover.copy] = [packed[remover.copy] EXCEPT !.whole = FALSE]]
        \/ packed' = [packed EXCEPT ![remover.copy] = Copies!None]
    BY <1>i, <1>15, <2>1 DEF Copies!DeletesFiles
  <2>4. packed' \in [Copies!Copy -> Payload]
    BY <1>i, <2>1, <2>2, <2>3, PackedBecomes
  <2>5. remover' \in Removals
    BY <1>i, <1>15 DEF Copies!DeletesFiles, Removals, Copies!Idle
  <2>6. QED
    BY <1>1, <1>15, <2>4, <2>5 DEF Copies!DeletesFiles
<1>16. ASSUME Copies!DeletesRow
      PROVE  CopiesType'
  <2>1. remover.copy \in Copies!Copy /\ remover' \in Removals
    BY <1>i, <1>16 DEF Copies!DeletesRow, Removals, Copies!Idle
  <2>2. copied' \in [Copies!Copy -> Nat] /\ cut' \subseteq Copies!Copy
    BY <1>1, <1>16, <2>1 DEF Copies!DeletesRow
  <2>3. QED
    BY <1>1, <1>16, <2>1, <2>2 DEF Copies!DeletesRow
<1>17. ASSUME Copies!CopiesDie
      PROVE  CopiesType'
  <2>1. remover # Copies!Idle => remover.copy \in Copies!Copy
    BY <1>i DEF Removals
  <2>2. remover' \in Removals
    BY <1>17 DEF Copies!CopiesDie, Removals
  <2>3. QED
    BY <1>1, <1>i, <1>17, <2>1, <2>2 DEF Copies!CopiesDie
<1>18. QED
  BY <1>2, <1>3, <1>4, <1>5, <1>6, <1>7, <1>8, <1>9, <1>10, <1>11, <1>12, <1>13, <1>14, <1>15, <1>16, <1>17
  DEF Copies!CopiesNext, Copies!JobStep

\* A host is stopped before the first part is put, and stays so up to the restart.
LEMMA WritesAtRest ==
  ASSUME CopiesInv, Copies!CopiesNext
  PROVE  Copies!WrittenAtRest'
<1> USE DEF CopiesInv, CopiesType, Copies!Step, Copies!Ends, Copies!Goes, Copies!Begins, Tasks, Extracting, Inserting,
        Finished, Removals, Payload, Copies!Idle, Copies!None, Copies!Own, Copies!WrittenAtRest
<1>1. ASSUME NEW j \in Job, NEW h \in Home, Copies!Chooses(j, h)
      PROVE  Copies!WrittenAtRest'
  BY <1>1 DEF Copies!Chooses
<1>2. ASSUME NEW j \in Job, NEW h \in Home, Copies!Finds(j, h)
      PROVE  Copies!WrittenAtRest'
  BY <1>2 DEF Copies!Finds
<1>3. ASSUME NEW j \in Job, NEW h \in Home, Copies!Composes(j, h)
      PROVE  Copies!WrittenAtRest'
  BY <1>3 DEF Copies!Composes
<1>4. ASSUME NEW j \in Job, Copies!Wipes(j)
      PROVE  Copies!WrittenAtRest'
  BY <1>4 DEF Copies!Wipes
<1>5. ASSUME NEW j \in Job, Copies!Fills(j)
      PROVE  Copies!WrittenAtRest'
  BY <1>5 DEF Copies!Fills
<1>6. ASSUME NEW j \in Job, Copies!Registers(j)
      PROVE  Copies!WrittenAtRest'
  BY <1>6 DEF Copies!Registers
<1>7. ASSUME NEW j \in Job, Copies!Stages(j)
      PROVE  Copies!WrittenAtRest'
  BY <1>7 DEF Copies!Stages
<1>8. ASSUME NEW j \in Job, NEW restart \in BOOLEAN, Copies!Stops(j, restart)
      PROVE  Copies!WrittenAtRest'
  BY <1>8 DEF Copies!Stops
<1>9. ASSUME NEW j \in Job, Copies!Puts(j)
      PROVE  Copies!WrittenAtRest'
  BY <1>9 DEF Copies!Puts
<1>10. ASSUME NEW j \in Job, Copies!PutFails(j)
      PROVE  Copies!WrittenAtRest'
  BY <1>10 DEF Copies!PutFails
<1>11. ASSUME NEW j \in Job, Copies!Restarts(j)
      PROVE  Copies!WrittenAtRest'
  BY <1>11 DEF Copies!Restarts
<1>12. ASSUME NEW j \in Job, Copies!IsOver(j)
      PROVE  Copies!WrittenAtRest'
  BY <1>12 DEF Copies!IsOver
<1>13. ASSUME NEW c \in Copies!Copy, Copies!Deletes(c)
      PROVE  Copies!WrittenAtRest'
  BY <1>13 DEF Copies!Deletes
<1>14. ASSUME Copies!DeletesFiles
      PROVE  Copies!WrittenAtRest'
  BY <1>14 DEF Copies!DeletesFiles
<1>15. ASSUME Copies!DeletesRow
      PROVE  Copies!WrittenAtRest'
  BY <1>15 DEF Copies!DeletesRow
<1>16. ASSUME Copies!CopiesDie
      PROVE  Copies!WrittenAtRest'
  BY <1>16 DEF Copies!CopiesDie
<1>17. QED
  BY <1>1, <1>2, <1>3, <1>4, <1>5, <1>6, <1>7, <1>8, <1>9, <1>10, <1>11, <1>12, <1>13, <1>14, <1>15,
     <1>16 DEF Copies!CopiesNext, Copies!JobStep

\* What a task that starts has, and that the others are as before.
LEMMA StartIs ==
  ASSUME jobs \in [Job -> Tasks], NEW j \in Job, NEW h, NEW op, NEW step, NEW copy, NEW by, NEW from,
         Copies!Begins(j, op, h, step, copy, by, from)
  PROVE  /\ jobs[j] = Copies!Idle /\ \A k \in Job \ {j} : jobs'[k] = jobs[k]
         /\ jobs'[j].op = op /\ jobs'[j].step = step /\ jobs'[j].copy = copy /\ jobs'[j].by = by
BY DEF Copies!Begins
LEMMA AloneStays ==
  ASSUME CopiesInv, Copies!CopiesNext, ~doubled'
  PROVE  TakenAlone'
<1> DEFINE Before == CopiesType /\ TakenAlone /\ PutKeeps /\ Copies!RowsHavePayloads
<1>b. Before
  BY DEF CopiesInv, Copies!CopiesNext
<1> USE DEF CopiesType, Tasks, Extracting, Inserting, Finished, Removals, Payload, Copies!Idle, Copies!None,
        Copies!Own, Copies!Step, Copies!Ends, Copies!Goes, Copies!Begins, Copies!Removing, Copies!AtCopy, TakenAlone,
        PutKeeps, Copies!RowsHavePayloads
<1>1. ASSUME NEW j \in Job, NEW h \in Home, Copies!Chooses(j, h)
      PROVE  TakenAlone'
  <2> DEFINE c == Copies!free_record_id(copied)
  <2>1. c \in Copies!Copy /\ copied[c] = 0
    BY <1>b, <1>1, FreeId DEF Copies!Chooses
  <2>2. Copies!Begins(j, "extract", h, "wipe", c, taken + 1, h) /\ ~Copies!AtCopy(c) /\ ~Copies!Removing(c)
    BY <1>1 DEF Copies!Chooses
  <2>3. UNCHANGED <<copied, packed, remover>>
    BY <1>1 DEF Copies!Chooses
  <2> HIDE DEF c
  <2>4. /\ jobs[j] = Copies!Idle /\ \A k \in Job \ {j} : jobs'[k] = jobs[k]
        /\ jobs'[j].op = "extract" /\ jobs'[j].step = "wipe" /\ jobs'[j].copy = c
    BY <1>b, <2>2, StartIs
  <2>5. \A k \in Job : jobs[k] # Copies!Idle => jobs[k].copy # c
    BY <2>2
  <2>6. QED
    BY <1>b, <2>1, <2>2, <2>3, <2>4, <2>5
<1>2. ASSUME NEW j \in Job, NEW h \in Home, Copies!Finds(j, h)
      PROVE  TakenAlone'
  <2>1. UNCHANGED <<copied, packed, remover>>
    BY <1>2 DEF Copies!Finds
  <2> DEFINE Started == /\ jobs[j] = Copies!Idle /\ (\A k \in Job \ {j} : jobs'[k] = jobs[k]) /\ jobs'[j].op = "inject"
                        /\ jobs'[j].copy # 0 => copied[jobs'[j].copy] # 0
  <2>2. ASSUME NEW c \in Copies!Copy, copied[c] # 0, Copies!Begins(j, "inject", h, "stop", c, copied[c], h)
        PROVE  Started
    <3>1. jobs[j] = Copies!Idle /\ (\A k \in Job \ {j} : jobs'[k] = jobs[k]) /\ jobs'[j].op = "inject" /\ jobs'[j].copy = c
      BY <1>b, <2>2, StartIs
    <3>2. QED
      BY <2>2, <3>1
  <2>3. ASSUME NEW from \in Home \ {h}, Copies!Begins(j, "inject", h, "stage", 0, 0, from)
        PROVE  Started
    <3>1. jobs[j] = Copies!Idle /\ (\A k \in Job \ {j} : jobs'[k] = jobs[k]) /\ jobs'[j].op = "inject" /\ jobs'[j].copy = 0
      BY <1>b, <2>3, StartIs
    <3>2. QED
      BY <3>1
  <2>4. Started
    <3> HIDE DEF Started, Copies!Begins
    <3>1. QED
      BY <1>2, <2>2, <2>3 DEF Copies!Finds
  <2>5. \A i \in Job : jobs[i].op = "extract" => jobs[i] \in Extracting /\ jobs[i].copy # 0
    BY <1>b DEF Copies!Copy
  <2>6. ASSUME NEW i \in Job, jobs'[i].op = "extract"
        PROVE  i # j /\ jobs'[i] = jobs[i] /\ jobs[i].copy # 0 /\ copied[jobs[i].copy] = 0
    BY <1>b, <2>4, <2>5, <2>6
  <2>7. ASSUME NEW i \in Job, jobs'[i].op = "extract", NEW k \in Job \ {i}, jobs'[k] # Copies!Idle
        PROVE  jobs'[k].copy # jobs'[i].copy
    <3>1. CASE k = j
      BY <2>4, <2>6, <2>7, <3>1
    <3>2. CASE k # j
      <4>1. jobs'[k] = jobs[k] /\ jobs'[i] = jobs[i] /\ TakenAlone
        BY <1>b, <2>4, <2>6, <2>7, <3>2
      <4> HIDE DEF Copies!Idle
      <4>2. QED
        BY <2>7, <4>1
    <3>3. QED
      BY <3>1, <3>2
  <2>8. TakenAlone
    BY <1>b
  <2> HIDE DEF Started, Copies!Idle, Copies!Removing
  <2>9. \A i \in Job : jobs'[i].op = "extract" =>
          /\ copied[jobs'[i].copy] = 0 /\ ~Copies!Removing(jobs'[i].copy)
          /\ jobs'[i].step = "register" => packed[jobs'[i].copy] = [by |-> jobs'[i].by, whole |-> TRUE]
    BY <2>6, <2>8
  <2>10. \A c : Copies!Removing(c)' <=> Copies!Removing(c)
    BY <2>1 DEF Copies!Removing, Copies!Idle
  <2>11. QED
    BY <2>1, <2>7, <2>9, <2>10
<1>3. ASSUME NEW j \in Job, NEW h \in Home, Copies!Composes(j, h)
      PROVE  TakenAlone'
  <2>1. UNCHANGED <<copied, packed, remover>> /\ Copies!Begins(j, "write", h, "stop", 0, 0, h)
    BY <1>3 DEF Copies!Composes
  <2>2. /\ jobs[j] = Copies!Idle /\ \A k \in Job \ {j} : jobs'[k] = jobs[k]
        /\ jobs'[j].op = "write" /\ jobs'[j].copy = 0
    BY <1>b, <2>1, StartIs
  <2>3. \A i \in Job : jobs[i].op = "extract" => jobs[i] \in Extracting /\ jobs[i].copy # 0
    BY <1>b DEF Copies!Copy
  <2>4. QED
    BY <1>b, <2>1, <2>2, <2>3
<1>4. ASSUME NEW j \in Job, Copies!Wipes(j)
      PROVE  TakenAlone'
  BY <1>b, <1>4 DEF Copies!Wipes
<1>5. ASSUME NEW j \in Job, Copies!Fills(j)
      PROVE  TakenAlone'
  <2>1. UNCHANGED <<copied, remover>> /\ jobs[j] \in Extracting
    BY <1>b, <1>5 DEF Copies!Fills
  <2>2. CASE Copies!Goes(j, "register") /\ packed' = [packed EXCEPT ![jobs[j].copy] = [by |-> jobs[j].by, whole |-> TRUE]]
    <3>1. /\ jobs'[j].op = "extract" /\ jobs'[j].copy = jobs[j].copy /\ jobs'[j].by = jobs[j].by
          /\ \A k \in Job \ {j} : jobs'[k] = jobs[k] /\ (jobs[k] # Copies!Idle => jobs[k].copy # jobs[j].copy)
          /\ jobs[j] # Copies!Idle
      BY <1>b, <2>1, <2>2
    <3>2. packed'[jobs[j].copy] = [by |-> jobs[j].by, whole |-> TRUE]
          /\ \A c \in Copies!Copy \ {jobs[j].copy} : packed'[c] = packed[c]
      BY <1>b, <2>1, <2>2
    <3>3. ASSUME NEW i \in Job, jobs'[i].op = "extract", i # j
          PROVE  jobs[i] \in Extracting /\ jobs[i].copy # jobs[j].copy /\ jobs'[i] = jobs[i] /\ packed'[jobs[i].copy] = packed[jobs[i].copy]
      BY <1>b, <3>1, <3>2, <3>3
    <3>4. \A k \in Job : jobs'[k] # Copies!Idle => jobs[k] # Copies!Idle /\ jobs'[k].copy = jobs[k].copy
      BY <3>1
    <3>0. jobs[j].op = "extract"
      BY <2>1
    <3>5. ASSUME NEW i \in Job, jobs'[i].op = "extract"
          PROVE  /\ copied[jobs'[i].copy] = 0 /\ ~Copies!Removing(jobs'[i].copy)
                 /\ \A k \in Job \ {i} : jobs'[k] # Copies!Idle => jobs'[k].copy # jobs'[i].copy
                 /\ jobs'[i].step = "register" => packed'[jobs'[i].copy] = [by |-> jobs'[i].by, whole |-> TRUE]
      <4>1. jobs[i].op = "extract" /\ jobs'[i].copy = jobs[i].copy
        <5>1. CASE i = j
          BY <3>0, <3>1, <5>1
        <5>2. CASE i # j
          BY <3>1, <3>5, <5>2
        <5>3. QED
          BY <5>1, <5>2
      <4>2. TakenAlone
        BY <1>b
      <4>3. copied[jobs[i].copy] = 0 /\ ~Copies!Removing(jobs[i].copy)
        BY <4>1, <4>2
      <4>4. \A k \in Job \ {i} : jobs[k] # Copies!Idle => jobs[k].copy # jobs[i].copy
        BY <4>1, <4>2
      <4>5. jobs'[i].step = "register" => packed'[jobs'[i].copy] = [by |-> jobs'[i].by, whole |-> TRUE]
        <5>1. CASE i = j
          BY <3>1, <3>2, <5>1
        <5>2. CASE i # j
          <6>1. jobs'[i] = jobs[i] /\ packed'[jobs[i].copy] = packed[jobs[i].copy]
            BY <3>3, <3>5, <5>2
          <6>2. QED
            BY <4>1, <4>2, <6>1
        <5>3. QED
          BY <5>1, <5>2
      <4> HIDE DEF Copies!Idle, Copies!Removing
      <4>6. QED
        BY <3>4, <4>1, <4>3, <4>4, <4>5
    <3>6. QED
      BY <2>1, <3>5 DEF TakenAlone
  <2>3. CASE Copies!Ends(j) /\ UNCHANGED packed
    BY <1>b, <2>1, <2>3
  <2>4. QED
    BY <1>5, <2>2, <2>3 DEF Copies!Fills
<1>6. ASSUME NEW j \in Job, Copies!Registers(j)
      PROVE  TakenAlone'
  BY <1>b, <1>6 DEF Copies!Registers
<1>7. ASSUME NEW j \in Job, Copies!Stages(j)
      PROVE  TakenAlone'
  BY <1>b, <1>7 DEF Copies!Stages
<1>8. ASSUME NEW j \in Job, NEW restart \in BOOLEAN, Copies!Stops(j, restart)
      PROVE  TakenAlone'
  BY <1>b, <1>8 DEF Copies!Stops
<1>9. ASSUME NEW j \in Job, Copies!Puts(j)
      PROVE  TakenAlone'
  <2>1. UNCHANGED <<copied, packed, remover>> /\ jobs[j] \in Inserting
    BY <1>b, <1>9 DEF Copies!Puts
  <2>2. /\ jobs'[j].op # "extract" /\ (jobs'[j] # Copies!Idle => jobs'[j].copy \in {0, jobs[j].copy}) /\ jobs[j] # Copies!Idle
        /\ \A k \in Job \ {j} : jobs'[k] = jobs[k]
    BY <1>b, <2>1, <1>9 DEF Copies!Puts
  <2>3. \A i \in Job : jobs[i].op = "extract" => jobs[i] \in Extracting /\ jobs[i].copy # 0
    BY <1>b DEF Copies!Copy
  <2>4. QED
    BY <1>b, <2>1, <2>2, <2>3
<1>10. ASSUME NEW j \in Job, Copies!PutFails(j)
      PROVE  TakenAlone'
  BY <1>b, <1>10 DEF Copies!PutFails
<1>11. ASSUME NEW j \in Job, Copies!Restarts(j)
      PROVE  TakenAlone'
  <2>1. UNCHANGED <<copied, packed, remover>> /\ jobs[j] \in Inserting
    BY <1>b, <1>11 DEF Copies!Restarts
  <2>2. /\ jobs'[j].op # "extract" /\ (jobs'[j] # Copies!Idle => jobs'[j].copy \in {0, jobs[j].copy}) /\ jobs[j] # Copies!Idle
        /\ \A k \in Job \ {j} : jobs'[k] = jobs[k]
    BY <1>b, <2>1, <1>11 DEF Copies!Restarts
  <2>3. \A i \in Job : jobs[i].op = "extract" => jobs[i] \in Extracting /\ jobs[i].copy # 0
    BY <1>b DEF Copies!Copy
  <2>4. QED
    BY <1>b, <2>1, <2>2, <2>3
<1>12. ASSUME NEW j \in Job, Copies!IsOver(j)
      PROVE  TakenAlone'
  BY <1>b, <1>12 DEF Copies!IsOver
<1>13. ASSUME NEW c \in Copies!Copy, Copies!Deletes(c)
      PROVE  TakenAlone'
  BY <1>b, <1>13 DEF Copies!Deletes
<1>14. ASSUME Copies!DeletesFiles
      PROVE  TakenAlone'
  BY <1>b, <1>14 DEF Copies!DeletesFiles
<1>15. ASSUME Copies!DeletesRow
      PROVE  TakenAlone'
  BY <1>b, <1>15 DEF Copies!DeletesRow
<1>16. ASSUME Copies!CopiesDie
      PROVE  TakenAlone'
  BY <1>b, <1>16 DEF Copies!CopiesDie
<1>17. QED
  BY <1>1, <1>2, <1>3, <1>4, <1>5, <1>6, <1>7, <1>8, <1>9, <1>10, <1>11, <1>12, <1>13, <1>14, <1>15,
     <1>16 DEF Copies!CopiesNext, Copies!JobStep

\* As long as nobody meets: what a task puts somewhere keeps its row and its payload.
LEMMA PutStays ==
  ASSUME CopiesInv, Copies!CopiesNext, ~doubled'
  PROVE  PutKeeps'
<1> DEFINE Before == CopiesType /\ TakenAlone /\ PutKeeps /\ Copies!RowsHavePayloads
<1>b. Before
  BY DEF CopiesInv, Copies!CopiesNext
<1> USE DEF CopiesType, Tasks, Extracting, Inserting, Finished, Removals, Payload, Copies!Idle, Copies!None,
        Copies!Own, Copies!Step, Copies!Ends, Copies!Goes, Copies!Begins, Copies!Removing, Copies!AtCopy, TakenAlone,
        PutKeeps, Copies!RowsHavePayloads, Copies!Source
<1>1. ASSUME NEW j \in Job, NEW h \in Home, Copies!Chooses(j, h)
      PROVE  PutKeeps'
  BY <1>b, <1>1 DEF Copies!Chooses
<1>2. ASSUME NEW j \in Job, NEW h \in Home, Copies!Finds(j, h)
      PROVE  PutKeeps'
  <2>1. UNCHANGED <<copied, packed, remover, cut>>
    BY <1>2 DEF Copies!Finds
  <2>2. CASE \E c \in Copies!Copy : copied[c] # 0 /\ ~Copies!Removing(c) /\ Copies!Begins(j, "inject", h, "stop", c, copied[c], h)
    <3>1. PICK c \in Copies!Copy : copied[c] # 0 /\ ~Copies!Removing(c) /\ Copies!Begins(j, "inject", h, "stop", c, copied[c], h)
      BY <2>2
    <3>2. /\ \A k \in Job \ {j} : jobs'[k] = jobs[k]
          /\ jobs'[j].step = "stop" /\ jobs'[j].copy = c /\ jobs'[j].by = copied[c]
      BY <1>b, <3>1, StartIs
    <3>3. QED
      BY <1>b, <2>1, <3>1, <3>2
  <2>3. CASE \E from \in Home \ {h} : Copies!Begins(j, "inject", h, "stage", 0, 0, from)
    <3>1. /\ \A k \in Job \ {j} : jobs'[k] = jobs[k]
          /\ jobs'[j].copy = 0
      BY <1>b, <2>3, StartIs
    <3>2. QED
      BY <1>b, <2>1, <3>1
  <2>4. QED
    BY <1>2, <2>2, <2>3 DEF Copies!Finds
<1>3. ASSUME NEW j \in Job, NEW h \in Home, Copies!Composes(j, h)
      PROVE  PutKeeps'
  BY <1>b, <1>3 DEF Copies!Composes
<1>4. ASSUME NEW j \in Job, Copies!Wipes(j)
      PROVE  PutKeeps'
  BY <1>b, <1>4 DEF Copies!Wipes
<1>5. ASSUME NEW j \in Job, Copies!Fills(j)
      PROVE  PutKeeps'
  BY <1>b, <1>5 DEF Copies!Fills
<1>6. ASSUME NEW j \in Job, Copies!Registers(j)
      PROVE  PutKeeps'
  <2>0. jobs[j] \in Extracting /\ jobs'[j] = Copies!Idle /\ \A k \in Job \ {j} : jobs'[k] = jobs[k]
    BY <1>b, <1>6 DEF Copies!Registers
  <2>1. jobs[j] # Copies!Idle /\ jobs'[j] = Copies!Idle
        /\ \A k \in Job \ {j} : jobs'[k] = jobs[k] /\ (jobs[k] # Copies!Idle => jobs[k].copy # jobs[j].copy)
    <3>1. TakenAlone /\ jobs[j].op = "extract" /\ jobs[j] # Copies!Idle
      BY <1>b, <2>0
    <3> HIDE DEF Copies!Idle, Copies!Removing
    <3>2. QED
      BY <2>0, <3>1
  <2>2. /\ \A c \in Copies!Copy \ {jobs[j].copy} : copied'[c] = copied[c] /\ (c \in cut' <=> c \in cut)
        /\ remover' = remover
    BY <1>b, <1>6, <2>0 DEF Copies!Registers
  <2>3. ASSUME NEW i \in Job, jobs'[i].op = "inject", jobs'[i].copy # 0
        PROVE  i # j /\ jobs'[i] = jobs[i] /\ jobs[i].copy \in Copies!Copy \ {jobs[j].copy}
    <3>1. i # j
      BY <2>1, <2>3
    <3>2. jobs'[i] = jobs[i] /\ jobs[i] # Copies!Idle /\ jobs[i].copy # jobs[j].copy
      BY <2>1, <2>3, <3>1
    <3>3. jobs[i].copy \in Copies!Copy
      BY <1>b, <2>3, <3>2
    <3>4. QED
      BY <3>1, <3>2, <3>3
  <2>4. QED
    BY <1>b, <2>2, <2>3 DEF PutKeeps
<1>7. ASSUME NEW j \in Job, Copies!Stages(j)
      PROVE  PutKeeps'
  BY <1>b, <1>7 DEF Copies!Stages
<1>8. ASSUME NEW j \in Job, NEW restart \in BOOLEAN, Copies!Stops(j, restart)
      PROVE  PutKeeps'
  BY <1>b, <1>8 DEF Copies!Stops
<1>9. ASSUME NEW j \in Job, Copies!Puts(j)
      PROVE  PutKeeps'
  <2>1. UNCHANGED <<copied, packed, remover, cut>> /\ jobs[j] \in Inserting
    BY <1>b, <1>9 DEF Copies!Puts
  <2>2. /\ \A k \in Job \ {j} : jobs'[k] = jobs[k]
        /\ jobs'[j].op = jobs[j].op /\ jobs'[j].copy = jobs[j].copy /\ jobs'[j].by = jobs[j].by
        /\ jobs'[j].step = "restart" => jobs'[j].put = Copies!Source(j)
    <3> HIDE DEF Copies!Source
    <3>1. CASE Copies!Step(j, jobs[j].op, "put") /\ Copies!Goes(j, "rest")
      BY <1>b, <2>1, <3>1
    <3>2. CASE /\ Copies!Step(j, jobs[j].op, "rest")
               /\ jobs' = [jobs EXCEPT ![j].step = "restart", ![j].put = Copies!Source(j)]
      BY <1>b, <2>1, <3>2
    <3>3. QED
      BY <1>9, <3>1, <3>2 DEF Copies!Puts
  <2>3. (jobs[j].op = "inject" /\ jobs[j].copy # 0 /\ jobs[j].copy \notin cut) =>
          Copies!Source(j) = [by |-> jobs[j].by, whole |-> TRUE]
    <3> SUFFICES ASSUME jobs[j].op = "inject", jobs[j].copy # 0, jobs[j].copy \notin cut
                 PROVE  Copies!Source(j) = [by |-> jobs[j].by, whole |-> TRUE]
      OBVIOUS
    <3>1. jobs[j].by # 0 /\ copied[jobs[j].copy] = jobs[j].by /\ ~Copies!Removing(jobs[j].copy)
      BY <1>b
    <3>2. jobs[j].copy \in Copies!Copy /\ Copies!Source(j) = packed[jobs[j].copy]
      BY <2>1
    <3>3. Copies!RowsHavePayloads /\ ~doubled
      BY <1>b DEF Copies!CopiesNext
    <3> HIDE DEF Copies!Source, Copies!Removing
    <3>4. QED
      BY <3>1, <3>2, <3>3
  <2> HIDE DEF Copies!Source
  <2>4. ASSUME NEW i \in Job, jobs'[i].op = "inject", jobs'[i].copy # 0
        PROVE  /\ jobs'[i].by # 0 /\ copied[jobs'[i].copy] = jobs'[i].by /\ ~Copies!Removing(jobs'[i].copy)
               /\ (jobs'[i].step = "restart" /\ jobs'[i].copy \notin cut) =>
                     jobs'[i].put = [by |-> jobs'[i].by, whole |-> TRUE]
    <3>1. PutKeeps
      BY <1>b
    <3> HIDE DEF Copies!Removing
    <3>2. CASE i = j
      BY <2>2, <2>3, <2>4, <3>1, <3>2
    <3>3. CASE i # j
      BY <2>2, <2>4, <3>1, <3>3
    <3>4. QED
      BY <3>2, <3>3
  <2>5. QED
    BY <2>1, <2>4
<1>10. ASSUME NEW j \in Job, Copies!PutFails(j)
      PROVE  PutKeeps'
  BY <1>b, <1>10 DEF Copies!PutFails
<1>11. ASSUME NEW j \in Job, Copies!Restarts(j)
      PROVE  PutKeeps'
  BY <1>b, <1>11 DEF Copies!Restarts
<1>12. ASSUME NEW j \in Job, Copies!IsOver(j)
      PROVE  PutKeeps'
  BY <1>b, <1>12 DEF Copies!IsOver
<1>13. ASSUME NEW c \in Copies!Copy, Copies!Deletes(c)
      PROVE  PutKeeps'
  <2>1. UNCHANGED <<copied, packed, jobs, cut>> /\ remover'.copy = c /\ ~Copies!AtCopy(c)
    BY <1>13 DEF Copies!Deletes
  <2>2. \A i \in Job : jobs[i].op = "inject" => jobs[i] # Copies!Idle /\ jobs[i].copy # c
    BY <1>b, <2>1
  <2>3. QED
    BY <1>b, <2>1, <2>2
<1>14. ASSUME Copies!DeletesFiles
      PROVE  PutKeeps'
  BY <1>b, <1>14 DEF Copies!DeletesFiles
<1>15. ASSUME Copies!DeletesRow
      PROVE  PutKeeps'
  BY <1>b, <1>15 DEF Copies!DeletesRow
<1>16. ASSUME Copies!CopiesDie
      PROVE  PutKeeps'
  BY <1>b, <1>16 DEF Copies!CopiesDie
<1>17. QED
  BY <1>1, <1>2, <1>3, <1>4, <1>5, <1>6, <1>7, <1>8, <1>9, <1>10, <1>11, <1>12, <1>13, <1>14, <1>15,
     <1>16 DEF Copies!CopiesNext, Copies!JobStep

\* As long as nobody meets: a row has its payload.
LEMMA RowsStay ==
  ASSUME CopiesInv, Copies!CopiesNext, ~doubled'
  PROVE  Copies!RowsHavePayloads'
<1> DEFINE Before == CopiesType /\ TakenAlone /\ PutKeeps /\ Copies!RowsHavePayloads
<1>b. Before
  BY DEF CopiesInv, Copies!CopiesNext
<1> USE DEF CopiesType, Tasks, Extracting, Inserting, Finished, Removals, Payload, Copies!Idle, Copies!None,
        Copies!Own, Copies!Step, Copies!Ends, Copies!Goes, Copies!Begins, Copies!Removing, Copies!AtCopy, TakenAlone,
        PutKeeps, Copies!RowsHavePayloads
<1>1. ASSUME NEW j \in Job, NEW h \in Home, Copies!Chooses(j, h)
      PROVE  Copies!RowsHavePayloads'
  BY <1>b, <1>1 DEF Copies!Chooses
<1>2. ASSUME NEW j \in Job, NEW h \in Home, Copies!Finds(j, h)
      PROVE  Copies!RowsHavePayloads'
  BY <1>b, <1>2 DEF Copies!Finds
<1>3. ASSUME NEW j \in Job, NEW h \in Home, Copies!Composes(j, h)
      PROVE  Copies!RowsHavePayloads'
  BY <1>b, <1>3 DEF Copies!Composes
<1>4. ASSUME NEW j \in Job, Copies!Wipes(j)
      PROVE  Copies!RowsHavePayloads'
  BY <1>b, <1>4 DEF Copies!Wipes
<1>5. ASSUME NEW j \in Job, Copies!Fills(j)
      PROVE  Copies!RowsHavePayloads'
  BY <1>b, <1>5 DEF Copies!Fills
<1>6. ASSUME NEW j \in Job, Copies!Registers(j)
      PROVE  Copies!RowsHavePayloads'
  <2>1. /\ jobs[j].copy \in Copies!Copy /\ packed[jobs[j].copy] = [by |-> jobs[j].by, whole |-> TRUE]
        /\ UNCHANGED <<packed, remover>> /\ copied' \in {copied, [copied EXCEPT ![jobs[j].copy] = jobs[j].by]}
        /\ cut' = IF copied' = copied THEN cut ELSE cut \ {jobs[j].copy}
    BY <1>b, <1>6 DEF Copies!Registers
  <2>2. ~doubled => \A c \in Copies!Copy :
          copied[c] = 0 \/ c \in cut \/ Copies!Removing(c) \/ packed[c] = [by |-> copied[c], whole |-> TRUE]
    BY <1>b
  <2>3. ~doubled
    BY DEF Copies!CopiesNext
  <2>4. CASE copied' = copied
    BY <2>1, <2>2, <2>3, <2>4
  <2>5. CASE copied' # copied
    BY <1>b, <2>1, <2>2, <2>3, <2>5
  <2>6. QED
    BY <2>4, <2>5
<1>7. ASSUME NEW j \in Job, Copies!Stages(j)
      PROVE  Copies!RowsHavePayloads'
  BY <1>b, <1>7 DEF Copies!Stages
<1>8. ASSUME NEW j \in Job, NEW restart \in BOOLEAN, Copies!Stops(j, restart)
      PROVE  Copies!RowsHavePayloads'
  BY <1>b, <1>8 DEF Copies!Stops
<1>9. ASSUME NEW j \in Job, Copies!Puts(j)
      PROVE  Copies!RowsHavePayloads'
  BY <1>b, <1>9 DEF Copies!Puts
<1>10. ASSUME NEW j \in Job, Copies!PutFails(j)
      PROVE  Copies!RowsHavePayloads'
  BY <1>b, <1>10 DEF Copies!PutFails
<1>11. ASSUME NEW j \in Job, Copies!Restarts(j)
      PROVE  Copies!RowsHavePayloads'
  BY <1>b, <1>11 DEF Copies!Restarts
<1>12. ASSUME NEW j \in Job, Copies!IsOver(j)
      PROVE  Copies!RowsHavePayloads'
  BY <1>b, <1>12 DEF Copies!IsOver
<1>13. ASSUME NEW c \in Copies!Copy, Copies!Deletes(c)
      PROVE  Copies!RowsHavePayloads'
  BY <1>b, <1>13 DEF Copies!Deletes
<1>14. ASSUME Copies!DeletesFiles
      PROVE  Copies!RowsHavePayloads'
  <2>1. remover # Copies!Idle /\ UNCHANGED <<copied, cut>> /\ remover'.copy = remover.copy /\ remover' # Copies!Idle
    BY <1>b, <1>14 DEF Copies!DeletesFiles
  <2>2. \A c \in Copies!Copy \ {remover.copy} : packed'[c] = packed[c]
    BY <1>b, <1>14 DEF Copies!DeletesFiles
  <2>3. Copies!RowsHavePayloads /\ ~doubled
    BY <1>b DEF Copies!CopiesNext
  <2> HIDE DEF Copies!Idle
  <2>4. QED
    BY <2>1, <2>2, <2>3
<1>15. ASSUME Copies!DeletesRow
      PROVE  Copies!RowsHavePayloads'
  BY <1>b, <1>15 DEF Copies!DeletesRow
<1>16. ASSUME Copies!CopiesDie
      PROVE  Copies!RowsHavePayloads'
  BY <1>b, <1>16 DEF Copies!CopiesDie
<1>17. QED
  BY <1>1, <1>2, <1>3, <1>4, <1>5, <1>6, <1>7, <1>8, <1>9, <1>10, <1>11, <1>12, <1>13, <1>14, <1>15,
     <1>16 DEF Copies!CopiesNext, Copies!JobStep

LEMMA CopyStepKeeps ==
  ASSUME CopiesInv, Copies!CopiesNext
  PROVE  CopiesInv'
BY CopiesTyped, WritesAtRest, AloneStays, PutStays, RowsStay DEF CopiesInv

LEMMA CopyHolds == PartsSpec => [](part = "copies" => CopiesInv)
<1>1. PartsInit => (part = "copies" => CopiesInv)
  <2> SUFFICES ASSUME Copies!CopiesInit PROVE CopiesInv
    BY DEF PartsInit, PartsStart
  <2> USE DEF Copies!CopiesInit, Copies!Idle, Copies!None
  <2>1. CopiesType
    BY DEF CopiesType, Tasks, Removals, Payload
  <2>2. QED
    BY <2>1 DEF CopiesInv, TakenAlone, PutKeeps, Copies!RowsHavePayloads, Copies!WrittenAtRest
<1>2. (part = "copies" => CopiesInv) /\ [PartsNext]_partsVars => (part = "copies" => CopiesInv)'
  <2> SUFFICES ASSUME part = "copies" => CopiesInv, [PartsNext]_partsVars, part' = "copies"
               PROVE  CopiesInv'
    OBVIOUS
  <2>1. part = "copies"
    BY DEF PartsNext, partsVars
  <2>2. CASE Copies!CopiesNext
    BY <2>1, <2>2, CopyStepKeeps
  <2>3. CASE UNCHANGED copies
    BY <2>1, <2>3 DEF copies, CopiesInv, CopiesType, TakenAlone, PutKeeps, Copies!RowsHavePayloads,
                      Copies!WrittenAtRest, Copies!Removing
  <2>4. QED
    BY <2>1, <2>2, <2>3, CopyMoves
<1>3. QED
  BY <1>1, <1>2, PTL DEF PartsSpec

\* What the invariant says of rows, writes and injections.
LEMMA CopyIsSound ==
  ASSUME CopiesInv
  PROVE  Copies!CopiesSound
<1>1. Copies!InjectedWhole
  BY DEF CopiesInv, PutKeeps, Copies!InjectedWhole, Copies!Step
<1>2. QED
  BY <1>1 DEF CopiesInv, Copies!CopiesSound, Copies!RowsHavePayloads

-----------------------------------------------------------------------------
(* The registry of workspaces (Workspaces). *)

LEMMA RegistryMoves ==
  ASSUME part = "registry", [PartsNext]_partsVars
  PROVE  part' = "registry" /\ (Registry!WorkspacesNext \/ UNCHANGED registry)
BY DEF PartsNext, partsVars, TreeStep, StoreStep, CheckStep, DownloadStep, DeletionStep, RepositoryStep,
       InstallStep, CopyStep, RegistryStep, SettingStep, MirrorStep, FeedStep, EndpointStep, OpeningStep

RowIds == Registry!Row \cup {1, 2}
Tables == UNION {[s -> Folder] : s \in SUBSET RowIds}
Registries ==
  [form : {"absent", "garbled", "odd", "good"}, table : Tables, order : Seq(RowIds)]
Registering ==
  [at : {"stop", "read", "write", "torn", "start"}, folder : Folder, task : BOOLEAN, met : BOOLEAN, base : Registries]
RegistryType ==
  /\ doc \in Registries /\ probed \in [up : {"none", "starting", "ready"}, has : Registries]
  /\ adders \in [Adder -> Registering \cup {Registry!AtRest}]
  /\ adds \in Nat /\ answered \subseteq Folder /\ colds \in BOOLEAN

\* A document with a row for each directory, and no id twice in its order.
Single(d) ==
  /\ \A i, j \in DOMAIN d.table : d.table[i] = d.table[j] => i = j
  /\ \A k, l \in DOMAIN d.order : d.order[k] = d.order[l] => k = l
\* So is each document that somebody has in memory; and what is about to be added
\* is not in the one it is added to.
DocumentsSingle ==
  /\ Single(doc) /\ Single(probed.has) /\ probed.has.form = "good"
  /\ \A a \in Adder : adders[a].at # "none" => Single(adders[a].base)
  /\ \A a \in Adder : adders[a].at \in {"write", "torn"} => ~Registry!Registered(adders[a].base, adders[a].folder)
\* A registration that has met nobody yet has read all that was answered.
AnswersRead ==
  /\ doc.form \in {"absent", "garbled"} => answered = {}
  /\ \A a \in Adder : (adders[a].at \in {"write", "torn"} /\ ~adders[a].met) =>
       \A f \in answered : Registry!Registered(adders[a].base, f)
\* Tasks have the key one at a time, and write while there is no host.
TasksCold ==
  /\ \A a, b \in Adder : adders[a].task /\ adders[b].task => a = b
  /\ \A a \in Adder : adders[a].at \in {"stop", "start"} => adders[a].task
  /\ \A a \in Adder : adders[a].task /\ adders[a].at \in {"read", "write", "torn"} => probed.up = "none"
RegistryInv ==
  /\ RegistryType /\ DocumentsSingle /\ AnswersRead /\ Registry!AnsweredStays /\ TasksCold /\ colds
LEMMA EmptyIs ==
  /\ Registry!empty_registry \in Registries /\ Single(Registry!empty_registry)
  /\ Registry!empty_registry.form = "good" /\ \A f : ~Registry!Registered(Registry!empty_registry, f)
<1>1. DOMAIN Registry!NoRow = {} /\ Registry!NoRow \in [{} -> Folder]
  BY DEF Registry!NoRow
<1>2. Registry!NoRow \in Tables
  BY <1>1 DEF Tables
<1>3. QED
  BY <1>1, <1>2 DEF Registry!empty_registry, Registries, Single, Registry!Registered

\* A file that has been emptied is a document that nobody can read.
LEMMA TornIs ==
  LET torn == [form |-> "odd", table |-> Registry!NoRow, order |-> <<>>]
  IN torn \in Registries /\ Single(torn)
BY EmptyIs DEF Registry!empty_registry, Registries, Single

\* What is read of a document that can be read.
LEMMA Reading ==
  ASSUME NEW d \in Registries, Single(d)
  PROVE  /\ d.form = "odd" => Registry!read_registry(d).form = "null"
         /\ d.form = "good" => Registry!read_registry(d) = d
         /\ d.form \in {"absent", "garbled"} => Registry!read_registry(d) = Registry!empty_registry
         /\ d.form # "odd" => /\ Registry!read_registry(d) \in Registries /\ Single(Registry!read_registry(d))
                              /\ Registry!read_registry(d).form = "good"
<1>1. d.form \in {"absent", "garbled", "odd", "good"}
  BY DEF Registries
<1>2. CASE d.form \in {"absent", "garbled"}
  <2>1. Registry!read_registry(d) = Registry!empty_registry
    BY <1>2 DEF Registry!read_registry
  <2>2. QED
    BY <1>2, <2>1, EmptyIs
<1>3. CASE d.form = "good"
  BY <1>3 DEF Registry!read_registry
<1>4. CASE d.form = "odd"
  BY <1>4 DEF Registry!read_registry, Registries
<1>5. QED
  BY <1>1, <1>2, <1>3, <1>4

\* A directory that is added to a document is one more of its rows.
LEMMA Adding ==
  ASSUME NEW d \in Registries, Single(d), NEW f \in Folder, ~Registry!Registered(d, f),
         NEW i \in Registry!new_workspace_id(d)
  PROVE  /\ Registry!add_workspace(d, f, i) \in Registries /\ Single(Registry!add_workspace(d, f, i))
         /\ Registry!add_workspace(d, f, i).form = "good"
         /\ \A g : Registry!Registered(Registry!add_workspace(d, f, i), g) <=> Registry!Registered(d, g) \/ g = f
<1> DEFINE e == Registry!add_workspace(d, f, i)
<1>1. PICK s \in SUBSET RowIds : d.table \in [s -> Folder]
  BY DEF Registries, Tables
<1>2. i \in RowIds /\ i \notin s /\ \A k \in DOMAIN d.order : d.order[k] # i
  BY <1>1 DEF Registry!new_workspace_id, Registry!Range, RowIds
<1>3. e.table \in [s \cup {i} -> Folder] /\ (\A j \in s : e.table[j] = d.table[j]) /\ e.table[i] = f
  BY <1>1, <1>2 DEF Registry!add_workspace
<1>4. s \cup {i} \in SUBSET RowIds
  BY <1>2
<1>5. e.table \in Tables
  BY <1>3, <1>4 DEF Tables
<1>6. e.form = "good" /\ e.order = Append(d.order, i) /\ e = [form |-> e.form, table |-> e.table, order |-> e.order]
  BY DEF Registry!add_workspace
<1>7. d.order \in Seq(RowIds)
  BY DEF Registries
<1> HIDE DEF e
<1>8. e.order \in Seq(RowIds) /\ \A k, l \in DOMAIN e.order : e.order[k] = e.order[l] => k = l
  <2>1. /\ DOMAIN e.order = 1 .. Len(d.order) + 1 /\ DOMAIN d.order = 1 .. Len(d.order) /\ Len(d.order) \in Nat
        /\ e.order[Len(d.order) + 1] = i /\ \A k \in 1 .. Len(d.order) : e.order[k] = d.order[k]
    BY <1>6, <1>7, <1>2
  <2>2. e.order \in Seq(RowIds)
    BY <1>2, <1>6, <1>7
  <2>3. QED
    BY <1>2, <2>1, <2>2 DEF Single
<1>9. \A j, k \in s \cup {i} : e.table[j] = e.table[k] => j = k
  BY <1>1, <1>2, <1>3 DEF Single, Registry!Registered
<1>10. e \in Registries
  BY <1>5, <1>6, <1>8 DEF Registries
<1>11. Single(e)
  BY <1>3, <1>8, <1>9 DEF Single
<1>12. \A g : Registry!Registered(e, g) <=> Registry!Registered(d, g) \/ g = f
  BY <1>1, <1>2, <1>3 DEF Registry!Registered
<1>13. QED
  BY <1>6, <1>10, <1>11, <1>12 DEF e

Registrations == Registering \cup {Registry!AtRest}
\* One registration changes.
LEMMA AdderBecomes ==
  ASSUME NEW all \in [Adder -> Registrations], NEW a \in Adder, NEW r \in Registrations, adders' = [all EXCEPT ![a] = r]
  PROVE  adders' \in [Adder -> Registrations]
OBVIOUS
LEMMA RegistrationIs ==
  ASSUME adders \in [Adder -> Registrations], NEW a \in Adder
  PROVE  /\ adders[a].at # "none" => adders[a] \in Registering
         /\ adders[a].at = "none" => adders[a] = Registry!AtRest
BY DEF Registrations, Registering, Registry!AtRest
LEMMA LeftIs ==
  ASSUME NEW a \in Adder, adders[a] \in Registering
  PROVE  Registry!Left(a) \in Registrations
BY EmptyIs DEF Registrations, Registering, Registry!Left
LEMMA NoticedIs ==
  ASSUME adders \in [Adder -> Registrations]
  PROVE  Registry!Noticed \in [Adder -> Registrations]
<1>1. ASSUME NEW b \in Adder, adders[b].at \notin {"none", "start"}
      PROVE  [adders[b] EXCEPT !.met = TRUE] \in Registrations
  BY <1>1, RegistrationIs DEF Registrations, Registering
<1>2. QED
  BY <1>1 DEF Registry!Noticed

\* Whoever writes, what is in the file and in memory are documents.
LEMMA RegistryTyped ==
  ASSUME RegistryInv, Registry!WorkspacesNext
  PROVE  RegistryType'
<1> USE DEF RegistryInv, RegistryType, Registering, Registry!At, Registry!Goes, Registry!AtRest, Registry!Down
<1>1. ASSUME NEW a \in Adder, Registry!Asks(a)
      PROVE  RegistryType'
  BY EmptyIs, <1>1 DEF Registry!Asks, Registry!Begins
<1>2. ASSUME NEW a \in Adder, Registry!AsksRestart(a)
      PROVE  RegistryType'
  BY EmptyIs, <1>2 DEF Registry!AsksRestart, Registry!Begins, Registry!KeyFree
<1>3. ASSUME NEW a \in Adder, Registry!StopsHost(a)
      PROVE  RegistryType'
  BY EmptyIs, <1>3 DEF Registry!StopsHost
<1>4. ASSUME NEW a \in Adder, Registry!StopFails(a)
      PROVE  RegistryType'
  BY EmptyIs, <1>4 DEF Registry!StopFails
<1>5. ASSUME NEW a \in Adder, Registry!Reads(a)
      PROVE  RegistryType'
  <2>0. doc \in Registries /\ Single(doc)
    BY DEF DocumentsSingle
  <2> DEFINE d == Registry!read_registry(doc)
  <2>1. /\ d.form # "null" => d \in Registries /\ Single(d) /\ d.form = "good"
        /\ doc.form \in {"absent", "garbled"} => d = Registry!empty_registry
        /\ doc.form = "good" => d = doc
        /\ doc.form = "odd" => d.form = "null"
    <3>1. doc.form \in {"absent", "garbled", "odd", "good"}
      BY <2>0 DEF Registries
    <3>2. QED
      BY <2>0, <3>1, Reading
  <2>2. \/ d.form = "null" /\ adders' = [adders EXCEPT ![a] = Registry!AtRest]
        \/ d.form # "null" /\ adders' = [adders EXCEPT ![a] = Registry!Left(a)]
        \/ /\ d.form # "null" /\ ~Registry!Registered(d, adders[a].folder)
           /\ adders' = [adders EXCEPT ![a] = [adders[a] EXCEPT !.at = "write", !.met = Registry!Meets(a), !.base = d]]
    BY <1>5 DEF Registry!Reads
  <2>3. UNCHANGED <<doc, probed, adds, answered, colds>> /\ adders[a].at = "read"
    BY <1>5 DEF Registry!Reads
  <2>4. Registry!Meets(a) \in BOOLEAN
    BY DEF Registry!Meets
  <2> HIDE DEF d
  <2>5. QED
    <3>1. adders \in [Adder -> Registrations]
      BY DEF Registrations
    <3>2. adders[a] \in Registering
      BY <2>3, <3>1, RegistrationIs
    <3>3. Registry!Left(a) \in Registrations /\ Registry!AtRest \in Registrations
      BY <3>2, LeftIs DEF Registrations
    <3>4. d.form # "null" => [adders[a] EXCEPT !.at = "write", !.met = Registry!Meets(a), !.base = d] \in Registrations
      BY <2>1, <2>4, <3>2 DEF Registrations
    <3> HIDE DEF Registering, Registry!AtRest
    <3>5. adders' \in [Adder -> Registrations]
      BY <2>2, <3>1, <3>3, <3>4, AdderBecomes
    <3>6. QED
      BY <2>3, <3>5 DEF Registrations
<1>6. ASSUME NEW a \in Adder, Registry!Empties(a)
      PROVE  RegistryType'
  <2>1. adders \in [Adder -> Registrations]
    BY DEF Registrations
  <2>2. adders[a] \in Registering
    BY <1>6, <2>1, RegistrationIs DEF Registry!Empties
  <2>3. adders[a].met \/ Registry!Meets(a) \in BOOLEAN
    BY DEF Registry!Meets
  <2>4. [adders[a] EXCEPT !.at = "torn", !.met = @ \/ Registry!Meets(a)] \in Registrations
    BY <2>2, <2>3 DEF Registrations, Registry!Meets
  <2> HIDE DEF Registering, Registry!AtRest
  <2>5. adders' \in [Adder -> Registrations]
    BY <1>6, <2>1, <2>4, NoticedIs, AdderBecomes DEF Registry!Empties
  <2>6. QED
    BY <1>6, <2>5, TornIs DEF Registry!Empties, Registrations
<1>7. ASSUME NEW a \in Adder, Registry!write_registry(a)
      PROVE  RegistryType'
  <2> DEFINE d == adders[a].base
  <2>1. d \in Registries /\ Single(d) /\ adders[a].folder \in Folder /\ ~Registry!Registered(d, adders[a].folder)
        /\ adders[a].at = "torn"
    BY <1>7 DEF Registry!write_registry, DocumentsSingle
  <2>2. PICK i \in Registry!new_workspace_id(d) : doc' = Registry!add_workspace(d, adders[a].folder, i)
    BY <1>7 DEF Registry!write_registry
  <2>3. /\ doc' \in Registries /\ Single(doc') /\ doc'.form = "good"
        /\ \A g : Registry!Registered(doc', g) <=> Registry!Registered(d, g) \/ g = adders[a].folder
    BY <2>1, <2>2, Adding
  <2>4. /\ adders' = [Registry!Noticed EXCEPT ![a] = Registry!Left(a)] /\ UNCHANGED <<probed, adds, colds>>
        /\ answered' = IF adders[a].met \/ Registry!Meets(a) THEN {} ELSE answered \cup {adders[a].folder}
    BY <1>7 DEF Registry!write_registry
  <2>5. QED
    <3>1. adders \in [Adder -> Registrations]
      BY DEF Registrations
    <3>2. adders[a] \in Registering
      BY <2>1, <3>1, RegistrationIs
    <3>3. Registry!Left(a) \in Registrations
      BY <3>2, LeftIs
    <3> HIDE DEF Registering, Registry!AtRest
    <3>4. adders' \in [Adder -> Registrations]
      BY <2>4, <3>1, <3>3, NoticedIs, AdderBecomes
    <3>5. answered' \subseteq Folder
      BY <2>1, <2>4
    <3>6. QED
      BY <2>3, <2>4, <3>4, <3>5 DEF Registrations
<1>8. ASSUME NEW a \in Adder, Registry!StartsHost(a)
      PROVE  RegistryType'
  BY EmptyIs, <1>8 DEF Registry!StartsHost
<1>9. ASSUME Registry!Start
      PROVE  RegistryType'
  BY EmptyIs, <1>9 DEF Registry!Start, Registry!KeyFree
<1>10. ASSUME Registry!Opens
      PROVE  RegistryType'
  <2>1. doc.form \in {"absent", "garbled", "good"} /\ doc \in Registries /\ Single(doc)
    BY <1>10 DEF Registry!Opens, Registries, DocumentsSingle
  <2>2. Registry!read_registry(doc) \in Registries
    BY <2>1, Reading
  <2>3. adders \in [Adder -> Registrations]
    BY DEF Registrations
  <2> HIDE DEF Registering, Registry!AtRest
  <2>4. adders' \in [Adder -> Registrations]
    BY <1>10, <2>3, NoticedIs DEF Registry!Opens
  <2>5. QED
    BY <1>10, <2>2, <2>4 DEF Registry!Opens, Registrations
<1>11. ASSUME Registry!HostWrites
      PROVE  RegistryType'
  BY EmptyIs, <1>11 DEF Registry!HostWrites, Registry!Noticed
<1>12. ASSUME Registry!Stop
      PROVE  RegistryType'
  BY EmptyIs, <1>12 DEF Registry!Stop
<1>13. QED
  BY <1>1, <1>2, <1>3, <1>4, <1>5, <1>6, <1>7, <1>8, <1>9, <1>10, <1>11, <1>12 DEF Registry!WorkspacesNext

\* No document has a directory twice, whoever writes last.
LEMMA DocumentsStay ==
  ASSUME RegistryInv, Registry!WorkspacesNext
  PROVE  DocumentsSingle'
<1> USE DEF RegistryInv, RegistryType, Registering, Registry!At, Registry!Goes, Registry!AtRest, Registry!Down,
        DocumentsSingle
<1>1. ASSUME NEW a \in Adder, Registry!Asks(a)
      PROVE  DocumentsSingle'
  BY EmptyIs, <1>1 DEF Registry!Asks, Registry!Begins
<1>2. ASSUME NEW a \in Adder, Registry!AsksRestart(a)
      PROVE  DocumentsSingle'
  BY EmptyIs, <1>2 DEF Registry!AsksRestart, Registry!Begins, Registry!KeyFree
<1>3. ASSUME NEW a \in Adder, Registry!StopsHost(a)
      PROVE  DocumentsSingle'
  BY EmptyIs, <1>3 DEF Registry!StopsHost
<1>4. ASSUME NEW a \in Adder, Registry!StopFails(a)
      PROVE  DocumentsSingle'
  BY EmptyIs, <1>4 DEF Registry!StopFails
<1>5. ASSUME NEW a \in Adder, Registry!Reads(a)
      PROVE  DocumentsSingle'
  <2>0. doc \in Registries /\ Single(doc)
    BY DEF DocumentsSingle
  <2> DEFINE d == Registry!read_registry(doc)
  <2>1. /\ d.form # "null" => d \in Registries /\ Single(d) /\ d.form = "good"
        /\ doc.form \in {"absent", "garbled"} => d = Registry!empty_registry
        /\ doc.form = "good" => d = doc
        /\ doc.form = "odd" => d.form = "null"
    <3>1. doc.form \in {"absent", "garbled", "odd", "good"}
      BY <2>0 DEF Registries
    <3>2. QED
      BY <2>0, <3>1, Reading
  <2>2. \/ d.form = "null" /\ adders' = [adders EXCEPT ![a] = Registry!AtRest]
        \/ d.form # "null" /\ adders' = [adders EXCEPT ![a] = Registry!Left(a)]
        \/ /\ d.form # "null" /\ ~Registry!Registered(d, adders[a].folder)
           /\ adders' = [adders EXCEPT ![a] = [adders[a] EXCEPT !.at = "write", !.met = Registry!Meets(a), !.base = d]]
    BY <1>5 DEF Registry!Reads
  <2>3. UNCHANGED <<doc, probed, adds, answered, colds>> /\ adders[a].at = "read"
    BY <1>5 DEF Registry!Reads
  <2>4. Registry!Meets(a) \in BOOLEAN
    BY DEF Registry!Meets
  <2> HIDE DEF d
  <2>5. QED
    <3>1. CASE d.form = "null" /\ adders' = [adders EXCEPT ![a] = Registry!AtRest]
      BY <2>3, <3>1
    <3>2. CASE d.form # "null" /\ adders' = [adders EXCEPT ![a] = Registry!Left(a)]
      BY EmptyIs, <2>3, <3>2 DEF Registry!Left
    <3>3. CASE /\ d.form # "null" /\ ~Registry!Registered(d, adders[a].folder)
               /\ adders' = [adders EXCEPT ![a] = [adders[a] EXCEPT !.at = "write", !.met = Registry!Meets(a), !.base = d]]
      <4>1. /\ adders'[a].at = "write" /\ adders'[a].base = d /\ adders'[a].folder = adders[a].folder
            /\ adders'[a].met = Registry!Meets(a) /\ \A b \in Adder \ {a} : adders'[b] = adders[b]
        BY <2>3, <3>3
      <4>2. QED
        BY <2>1, <2>3, <2>4, <3>3, <4>1
    <3>4. QED
      BY <2>2, <3>1, <3>2, <3>3
<1>6. ASSUME NEW a \in Adder, Registry!Empties(a)
      PROVE  DocumentsSingle'
  BY EmptyIs, TornIs, <1>6 DEF Registry!Empties, Registry!Noticed
<1>7. ASSUME NEW a \in Adder, Registry!write_registry(a)
      PROVE  DocumentsSingle'
  <2> DEFINE d == adders[a].base
  <2>1. d \in Registries /\ Single(d) /\ adders[a].folder \in Folder /\ ~Registry!Registered(d, adders[a].folder)
        /\ adders[a].at = "torn"
    BY <1>7 DEF Registry!write_registry, DocumentsSingle
  <2>2. PICK i \in Registry!new_workspace_id(d) : doc' = Registry!add_workspace(d, adders[a].folder, i)
    BY <1>7 DEF Registry!write_registry
  <2>3. /\ doc' \in Registries /\ Single(doc') /\ doc'.form = "good"
        /\ \A g : Registry!Registered(doc', g) <=> Registry!Registered(d, g) \/ g = adders[a].folder
    BY <2>1, <2>2, Adding
  <2>4. /\ adders' = [Registry!Noticed EXCEPT ![a] = Registry!Left(a)] /\ UNCHANGED <<probed, adds, colds>>
        /\ answered' = IF adders[a].met \/ Registry!Meets(a) THEN {} ELSE answered \cup {adders[a].folder}
    BY <1>7 DEF Registry!write_registry
  <2>5. QED
    BY EmptyIs, <2>1, <2>3, <2>4 DEF Registry!Noticed, Registry!Left
<1>8. ASSUME NEW a \in Adder, Registry!StartsHost(a)
      PROVE  DocumentsSingle'
  BY EmptyIs, <1>8 DEF Registry!StartsHost
<1>9. ASSUME Registry!Start
      PROVE  DocumentsSingle'
  BY EmptyIs, <1>9 DEF Registry!Start, Registry!KeyFree
<1>10. ASSUME Registry!Opens
      PROVE  DocumentsSingle'
  BY EmptyIs, Reading, <1>10 DEF Registry!Opens, Registry!Noticed
<1>11. ASSUME Registry!HostWrites
      PROVE  DocumentsSingle'
  BY EmptyIs, <1>11 DEF Registry!HostWrites, Registry!Noticed
<1>12. ASSUME Registry!Stop
      PROVE  DocumentsSingle'
  BY EmptyIs, <1>12 DEF Registry!Stop
<1>13. QED
  BY <1>1, <1>2, <1>3, <1>4, <1>5, <1>6, <1>7, <1>8, <1>9, <1>10, <1>11, <1>12 DEF Registry!WorkspacesNext

\* What was answered is in what a writer read that has met nobody.
LEMMA AnswersStay ==
  ASSUME RegistryInv, Registry!WorkspacesNext
  PROVE  (AnswersRead /\ Registry!AnsweredStays)'
<1> USE DEF RegistryInv, RegistryType, Registering, Registry!At, Registry!Goes, Registry!AtRest, Registry!Down,
        AnswersRead, Registry!AnsweredStays, Registry!Meets, Registry!Writing
<1>1. ASSUME NEW a \in Adder, Registry!Asks(a)
      PROVE  (AnswersRead /\ Registry!AnsweredStays)'
  BY <1>1 DEF Registry!Asks, Registry!Begins
<1>2. ASSUME NEW a \in Adder, Registry!AsksRestart(a)
      PROVE  (AnswersRead /\ Registry!AnsweredStays)'
  BY <1>2 DEF Registry!AsksRestart, Registry!Begins, Registry!KeyFree
<1>3. ASSUME NEW a \in Adder, Registry!StopsHost(a)
      PROVE  (AnswersRead /\ Registry!AnsweredStays)'
  BY <1>3 DEF Registry!StopsHost
<1>4. ASSUME NEW a \in Adder, Registry!StopFails(a)
      PROVE  (AnswersRead /\ Registry!AnsweredStays)'
  BY <1>4 DEF Registry!StopFails
<1>5. ASSUME NEW a \in Adder, Registry!Reads(a)
      PROVE  (AnswersRead /\ Registry!AnsweredStays)'
  <2>0. doc \in Registries /\ Single(doc)
    BY DEF DocumentsSingle
  <2> DEFINE d == Registry!read_registry(doc)
  <2>1. /\ d.form # "null" => d \in Registries /\ Single(d) /\ d.form = "good"
        /\ doc.form \in {"absent", "garbled"} => d = Registry!empty_registry
        /\ doc.form = "good" => d = doc
        /\ doc.form = "odd" => d.form = "null"
    <3>1. doc.form \in {"absent", "garbled", "odd", "good"}
      BY <2>0 DEF Registries
    <3>2. QED
      BY <2>0, <3>1, Reading
  <2>2. \/ d.form = "null" /\ adders' = [adders EXCEPT ![a] = Registry!AtRest]
        \/ d.form # "null" /\ adders' = [adders EXCEPT ![a] = Registry!Left(a)]
        \/ /\ d.form # "null" /\ ~Registry!Registered(d, adders[a].folder)
           /\ adders' = [adders EXCEPT ![a] = [adders[a] EXCEPT !.at = "write", !.met = Registry!Meets(a), !.base = d]]
    BY <1>5 DEF Registry!Reads
  <2>3. UNCHANGED <<doc, probed, adds, answered, colds>> /\ adders[a].at = "read"
    BY <1>5 DEF Registry!Reads
  <2>4. Registry!Meets(a) \in BOOLEAN
    BY DEF Registry!Meets
  <2> HIDE DEF d
  <2>5. QED
    <3>1. CASE d.form = "null" /\ adders' = [adders EXCEPT ![a] = Registry!AtRest]
      BY <2>3, <3>1
    <3>2. CASE d.form # "null" /\ adders' = [adders EXCEPT ![a] = Registry!Left(a)]
      BY EmptyIs, <2>3, <3>2 DEF Registry!Left
    <3>3. CASE /\ d.form # "null" /\ ~Registry!Registered(d, adders[a].folder)
               /\ adders' = [adders EXCEPT ![a] = [adders[a] EXCEPT !.at = "write", !.met = Registry!Meets(a), !.base = d]]
      <4>1. /\ adders'[a].at = "write" /\ adders'[a].base = d /\ adders'[a].folder = adders[a].folder
            /\ adders'[a].met = Registry!Meets(a) /\ \A b \in Adder \ {a} : adders'[b] = adders[b]
        BY <2>3, <3>3
      <4>2. QED
        <5>1. doc.form \in {"absent", "garbled", "odd", "good"}
          BY DEF Registries
        <5>2. \A f \in answered : Registry!Registered(d, f)
          BY <2>1, <3>3, <5>1
        <5>3. \A b \in Adder : (adders'[b].at \in {"write", "torn"} /\ ~adders'[b].met) =>
                \A f \in answered : Registry!Registered(adders'[b].base, f)
          BY <4>1, <5>2
        <5>4. QED
          BY <2>3, <5>3
    <3>4. QED
      BY <2>2, <3>1, <3>2, <3>3
<1>6. ASSUME NEW a \in Adder, Registry!Empties(a)
      PROVE  (AnswersRead /\ Registry!AnsweredStays)'
  BY <1>6 DEF Registry!Empties, Registry!Noticed
<1>7. ASSUME NEW a \in Adder, Registry!write_registry(a)
      PROVE  (AnswersRead /\ Registry!AnsweredStays)'
  <2> DEFINE d == adders[a].base
  <2>1. d \in Registries /\ Single(d) /\ adders[a].folder \in Folder /\ ~Registry!Registered(d, adders[a].folder)
        /\ adders[a].at = "torn"
    BY <1>7 DEF Registry!write_registry, DocumentsSingle
  <2>2. PICK i \in Registry!new_workspace_id(d) : doc' = Registry!add_workspace(d, adders[a].folder, i)
    BY <1>7 DEF Registry!write_registry
  <2>3. /\ doc' \in Registries /\ Single(doc') /\ doc'.form = "good"
        /\ \A g : Registry!Registered(doc', g) <=> Registry!Registered(d, g) \/ g = adders[a].folder
    BY <2>1, <2>2, Adding
  <2>4. /\ adders' = [Registry!Noticed EXCEPT ![a] = Registry!Left(a)] /\ UNCHANGED <<probed, adds, colds>>
        /\ answered' = IF adders[a].met \/ Registry!Meets(a) THEN {} ELSE answered \cup {adders[a].folder}
    BY <1>7 DEF Registry!write_registry
  <2>5. QED
    BY EmptyIs, <2>1, <2>3, <2>4 DEF Registry!Noticed, Registry!Left
<1>8. ASSUME NEW a \in Adder, Registry!StartsHost(a)
      PROVE  (AnswersRead /\ Registry!AnsweredStays)'
  BY <1>8 DEF Registry!StartsHost
<1>9. ASSUME Registry!Start
      PROVE  (AnswersRead /\ Registry!AnsweredStays)'
  BY <1>9 DEF Registry!Start, Registry!KeyFree
<1>10. ASSUME Registry!Opens
      PROVE  (AnswersRead /\ Registry!AnsweredStays)'
  BY <1>10 DEF Registry!Opens, Registry!Noticed
<1>11. ASSUME Registry!HostWrites
      PROVE  (AnswersRead /\ Registry!AnsweredStays)'
  BY <1>11 DEF Registry!HostWrites, Registry!Noticed
<1>12. ASSUME Registry!Stop
      PROVE  (AnswersRead /\ Registry!AnsweredStays)'
  BY <1>12 DEF Registry!Stop
<1>13. QED
  BY <1>1, <1>2, <1>3, <1>4, <1>5, <1>6, <1>7, <1>8, <1>9, <1>10, <1>11, <1>12 DEF Registry!WorkspacesNext

\* The key and the stop keep the host away from the write of a task.
LEMMA ColdStays ==
  ASSUME RegistryInv, Registry!WorkspacesNext
  PROVE  (TasksCold /\ colds)'
<1> USE DEF RegistryInv, RegistryType, Registering, Registry!At, Registry!Goes, Registry!AtRest, Registry!Down,
        TasksCold
<1>1. ASSUME NEW a \in Adder, Registry!Asks(a)
      PROVE  (TasksCold /\ colds)'
  BY <1>1 DEF Registry!Asks, Registry!Begins
<1>2. ASSUME NEW a \in Adder, Registry!AsksRestart(a)
      PROVE  (TasksCold /\ colds)'
  BY <1>2 DEF Registry!AsksRestart, Registry!Begins, Registry!KeyFree
<1>3. ASSUME NEW a \in Adder, Registry!StopsHost(a)
      PROVE  (TasksCold /\ colds)'
  BY <1>3 DEF Registry!StopsHost
<1>4. ASSUME NEW a \in Adder, Registry!StopFails(a)
      PROVE  (TasksCold /\ colds)'
  BY <1>4 DEF Registry!StopFails
<1>5. ASSUME NEW a \in Adder, Registry!Reads(a)
      PROVE  (TasksCold /\ colds)'
  BY <1>5 DEF Registry!Reads, Registry!Left
<1>6. ASSUME NEW a \in Adder, Registry!Empties(a)
      PROVE  (TasksCold /\ colds)'
  <2>1. adders[a].at = "write" /\ probed' = probed /\ colds' = (colds /\ (adders[a].task => probed.up = "none"))
    BY <1>6 DEF Registry!Empties
  <2>2. \A b \in Adder : adders'[b].task = adders[b].task /\ (b # a => adders'[b].at = adders[b].at)
    BY <1>6 DEF Registry!Empties, Registry!Noticed
  <2>3. adders'[a].at = "torn"
    <3>1. adders[a] \in Registering
      BY <2>1, RegistrationIs DEF Registrations
    <3>2. DOMAIN Registry!Noticed = Adder
      BY DEF Registry!Noticed
    <3>3. QED
      BY <1>6, <3>1, <3>2 DEF Registry!Empties
  <2>4. QED
    BY <2>1, <2>2, <2>3
<1>7. ASSUME NEW a \in Adder, Registry!write_registry(a)
      PROVE  (TasksCold /\ colds)'
  BY <1>7 DEF Registry!write_registry, Registry!Noticed, Registry!Left
<1>8. ASSUME NEW a \in Adder, Registry!StartsHost(a)
      PROVE  (TasksCold /\ colds)'
  BY <1>8 DEF Registry!StartsHost
<1>9. ASSUME Registry!Start
      PROVE  (TasksCold /\ colds)'
  BY <1>9 DEF Registry!Start, Registry!KeyFree
<1>10. ASSUME Registry!Opens
      PROVE  (TasksCold /\ colds)'
  BY <1>10 DEF Registry!Opens, Registry!Noticed
<1>11. ASSUME Registry!HostWrites
      PROVE  (TasksCold /\ colds)'
  BY <1>11 DEF Registry!HostWrites, Registry!Noticed
<1>12. ASSUME Registry!Stop
      PROVE  (TasksCold /\ colds)'
  BY <1>12 DEF Registry!Stop
<1>13. QED
  BY <1>1, <1>2, <1>3, <1>4, <1>5, <1>6, <1>7, <1>8, <1>9, <1>10, <1>11, <1>12 DEF Registry!WorkspacesNext

LEMMA RegistryHolds == PartsSpec => [](part = "registry" => RegistryInv)
<1>1. PartsInit => (part = "registry" => RegistryInv)
  <2> SUFFICES ASSUME Registry!WorkspacesInit PROVE RegistryInv
    BY DEF PartsInit, PartsStart
  <2> USE DEF Registry!WorkspacesInit, Registry!Down, Registry!AtRest
  <2>1. doc \in Registries /\ Single(doc)
    <3>1. CASE doc \in [form : {"absent", "garbled", "odd"}, table : {Registry!NoRow}, order : {<<>>}]
      BY <3>1, EmptyIs DEF Registry!empty_registry, Registries, Single
    <3>2. CASE doc \in [form : {"good"}, table : [{1} -> Folder], order : {<<>>, <<2>>}]
      <4>1. [{1} -> Folder] \subseteq Tables
        BY DEF Tables, RowIds
      <4>2. <<>> \in Seq(RowIds) /\ <<2>> \in Seq(RowIds)
        BY DEF RowIds
      <4>3. doc.form = "good" /\ doc.table \in [{1} -> Folder] /\ doc.order \in {<<>>, <<2>>}
            /\ doc = [form |-> doc.form, table |-> doc.table, order |-> doc.order]
        BY <3>2
      <4>4. doc \in Registries
        BY <4>1, <4>2, <4>3 DEF Registries
      <4>5. \A k, l \in DOMAIN doc.order : k = l
        BY <4>3
      <4>6. QED
        BY <4>3, <4>4, <4>5 DEF Single
    <3>3. QED
      BY <3>1, <3>2
  <2>2. RegistryType
    BY <2>1, EmptyIs DEF RegistryType
  <2>3. DocumentsSingle
    BY <2>1, EmptyIs DEF DocumentsSingle
  <2>4. QED
    BY <2>2, <2>3 DEF RegistryInv, AnswersRead, Registry!AnsweredStays, TasksCold
<1>2. (part = "registry" => RegistryInv) /\ [PartsNext]_partsVars => (part = "registry" => RegistryInv)'
  <2> SUFFICES ASSUME part = "registry" => RegistryInv, [PartsNext]_partsVars, part' = "registry"
               PROVE  RegistryInv'
    OBVIOUS
  <2>1. part = "registry"
    BY DEF PartsNext, partsVars
  <2>2. CASE Registry!WorkspacesNext
    BY <2>1, <2>2, RegistryTyped, DocumentsStay, AnswersStay, ColdStays DEF RegistryInv
  <2>3. CASE UNCHANGED registry
    BY <2>1, <2>3 DEF registry, RegistryInv, RegistryType, DocumentsSingle, AnswersRead, Registry!AnsweredStays,
                      Registry!Registered, TasksCold
  <2>4. QED
    BY <2>1, <2>2, <2>3, RegistryMoves
<1>3. QED
  BY <1>1, <1>2, PTL DEF PartsSpec

\* A row is shown at its one place of the order, or after the end.
LEMMA RegistryIsSound ==
  ASSUME RegistryInv
  PROVE  Registry!WorkspacesSound
<1>1. Single(doc) /\ doc.order \in Seq(RowIds)
  BY DEF RegistryInv, DocumentsSingle, RegistryType, Registries
<1>2. ASSUME NEW i \in DOMAIN doc.table
      PROVE  \E k \in 1 .. Len(doc.order) + 1 : Registry!list_workspaces(doc)[i] = {k}
  <2> DEFINE places == {k \in DOMAIN doc.order : doc.order[k] = i}
  <2>1. Registry!list_workspaces(doc)[i] =
          places \cup {Len(doc.order) + 1 : o \in Registry!Orphans(doc) \cap {i}}
    BY DEF Registry!list_workspaces
  <2>2. DOMAIN doc.order = 1 .. Len(doc.order) /\ Len(doc.order) \in Nat
    BY <1>1
  <2>3. CASE places = {}
    <3>1. i \in Registry!Orphans(doc)
      BY <2>3 DEF Registry!Orphans, Registry!Range
    <3>2. Registry!list_workspaces(doc)[i] = {Len(doc.order) + 1}
      BY <2>1, <2>3, <3>1
    <3>3. Len(doc.order) + 1 \in 1 .. Len(doc.order) + 1
      BY <2>2
    <3>4. QED
      BY <3>2, <3>3
  <2>4. CASE places # {}
    <3>1. PICK k \in DOMAIN doc.order : doc.order[k] = i
      BY <2>4
    <3>2. places = {k}
      BY <1>1, <3>1 DEF Single
    <3>3. Registry!Orphans(doc) \cap {i} = {}
      BY <3>1 DEF Registry!Orphans, Registry!Range
    <3>4. Registry!list_workspaces(doc)[i] = {k}
      BY <2>1, <3>2, <3>3
    <3>5. k \in 1 .. Len(doc.order) + 1
      BY <2>2, <3>1
    <3>6. QED
      BY <3>4, <3>5
  <2>5. QED
    BY <2>3, <2>4
<1>3. Registry!RowsUnique
  BY <1>1, <1>2 DEF Registry!RowsUnique, Single
<1>4. QED
  BY <1>3 DEF RegistryInv, Registry!WorkspacesSound, Registry!WritesCold

-----------------------------------------------------------------------------
\* Stored copies and the registry of workspaces keep what they promise: a row of a
\* copy has the whole of that copy and an injection leaves the whole of it, as long
\* as nobody meets at a copy; nothing is put into a container that runs; a directory
\* has one row, shown once, and an answered one stays until an older document is
\* written over it.
THEOREM ResourcesSoundHolds == PartsSpec => []ResourcesSound
<1>1. (part = "copies" => CopiesInv) /\ (part = "registry" => RegistryInv) => ResourcesSound
  BY CopyIsSound, RegistryIsSound DEF ResourcesSound, Of
<1>2. QED
  BY <1>1, CopyHolds, RegistryHolds, PTL
=============================================================================
