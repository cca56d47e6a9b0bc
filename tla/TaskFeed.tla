------------------------------ MODULE TaskFeed ------------------------------
(***************************************************************************)
(* How a task reaches the panel of the desktop: the notifier of the        *)
(* scheduler (state.rs, box-scheduler), the stream of events of the daemon *)
(* (events.rs, handle_sse of main.rs), its subscriber in the desktop       *)
(* (desktop/app/events.rs), the lists that are asked for meanwhile and the *)
(* events of the tasks the desktop runs itself (desktop/app/tasks.rs), and *)
(* the panel (src/state/useTasks.ts).  One task is followed; the per-stage *)
(* picture and the log lines, which travel the same way, are left out.     *)
(***************************************************************************)
EXTENDS Naturals, Sequences, FiniteSets

CONSTANTS
  Full,      \* the progress of a task that is done
  MaxBreaks, \* how often the stream breaks
  MaxFrames, \* how much waits in the stream when a ticker ticks
  MaxAsked   \* how many lists are on their way at once

VARIABLES
  owner,     \* who runs the task: the daemon, or the desktop
  entry,     \* its record
  body,      \* its worker: where it is, and what it is about to tell
  beat,      \* its ticker, a second thread that reports
  wire,      \* the stream: what the daemon has written, and the panel has not read
  direct,    \* the events the desktop raises itself
  echo,      \* the record that a cancel has read and not raised yet
  lists,     \* the lists that are asked for, and their answers
  panel,     \* what the panel shows of the task
  told,      \* what this connection has said of it
  refreshed, \* the panel has run its refreshers for the success of the task
  replaced,  \* the panel was replaced as a whole
  breaks
feedVars == <<owner, entry, body, beat, wire, direct, echo, lists, panel, told, refreshed, replaced, breaks>>

Nowhere == [status |-> "none", progress |-> 0]
Gone == [status |-> "none", progress |-> 0, cancel |-> FALSE]
Final == {"succeeded", "failed", "cancelled", "rolled_back", "interrupted"}
shown(e) == [status |-> e.status, progress |-> e.progress]
Asks == {"mount", "poll", "finish", "reload"}
Idle == [at |-> "idle", of |-> Nowhere]
Asked == [at |-> "asked", of |-> Nowhere]
Room == Cardinality({k \in Asks : lists[k] # Idle}) < MaxAsked
Rests(step) == [at |-> step, of |-> Nowhere, next |-> step]
Quiet(step) == [at |-> step, of |-> Nowhere]
Closed == [at |-> "off", queue |-> <<>>]

FeedInit ==
  /\ owner \in {"daemon", "desktop"}
  /\ entry = [status |-> "queued", progress |-> 0, cancel |-> FALSE]
  /\ body = Rests("queued") /\ beat = Quiet("off")
  /\ wire = Closed /\ direct = <<>> /\ echo = Nowhere
  /\ lists = [k \in Asks |-> IF k = "mount" THEN Asked ELSE Idle]
  /\ panel = Nowhere /\ told = Nowhere /\ refreshed = FALSE /\ replaced = FALSE /\ breaks = 0

OfPanel == <<panel, refreshed, replaced>>
OfStream == <<wire, direct, told>>
-----------------------------------------------------------------------------
(* The worker of the task (run_queued, TaskContext) *)

At(step) == body.at = step
\* The record was written: it is told, and the worker goes on from there.
Tells(e, next) == body' = [at |-> "stage", of |-> shown(e), next |-> next]
Works == UNCHANGED <<owner, beat, echo, lists, breaks>> /\ UNCHANGED OfPanel /\ UNCHANGED OfStream

try_start ==
  /\ At("queued") /\ entry.status = "queued"
  /\ entry' = [entry EXCEPT !.status = IF entry.cancel THEN "cancelled" ELSE "running"]
  /\ IF entry.cancel THEN body' = [at |-> "finished", of |-> shown(entry'), next |-> "done"]
                     ELSE Tells(entry', "work")
  /\ Works
\* What is told is what the caller gave.
update(p) ==
  /\ At("work") /\ entry' = [entry EXCEPT !.progress = p] /\ Tells(entry', "work") /\ Works
\* A stage begins, advances or ends; the record is read again to be told.
Stages(p) ==
  /\ At("work") /\ entry' = [entry EXCEPT !.progress = p]
  /\ body' = [body EXCEPT !.at = "read"] /\ Works
publish_stages == At("read") /\ Tells(entry, "work") /\ UNCHANGED entry /\ Works
\* seeded fault: the ticker is stopped and not waited for.
finishUnjoined ==
  /\ At("work")
  /\ \E s \in (IF entry.cancel THEN {"cancelled"} ELSE {"failed", "succeeded"}) :
       entry' = [entry EXCEPT !.status = s, !.progress = IF s = "succeeded" THEN Full ELSE @]
  /\ Tells(entry', "finished") /\ Works
\* Every ticker was stopped, and waited for, before the worker returns.
finish ==
  /\ At("work") /\ beat.at = "off"
  /\ \E s \in (IF entry.cancel THEN {"cancelled"} ELSE {"failed", "succeeded"}) :
       entry' = [entry EXCEPT !.status = s, !.progress = IF s = "succeeded" THEN Full ELSE @]
  /\ Tells(entry', "finished") /\ Works
start_rollback ==
  /\ At("work") /\ beat.at = "off" /\ owner = "daemon"
  /\ entry' = [entry EXCEPT !.status = "rolling_back", !.progress = 0] /\ Tells(entry', "undo") /\ Works
finish_rollback ==
  /\ At("undo") /\ entry' = [entry EXCEPT !.status = "rolled_back", !.progress = Full]
  /\ Tells(entry', "finished") /\ Works

\* Every subscriber gets what is broadcast; the desktop raises the record itself.
broadcast(frame) ==
  IF owner = "desktop" THEN direct' = Append(direct, shown(entry)) /\ UNCHANGED wire
  ELSE /\ wire' = IF wire.at = "off" THEN wire ELSE [wire EXCEPT !.queue = Append(@, frame)]
       /\ UNCHANGED direct
Said == UNCHANGED <<owner, entry, echo, lists, told, breaks>> /\ UNCHANGED OfPanel
SaysStage ==
  /\ At("stage") /\ broadcast([kind |-> "stage", of |-> body.of])
  /\ body' = Rests(body.next) /\ UNCHANGED beat /\ Said
SaysFinished ==
  /\ At("finished") /\ broadcast([kind |-> "finished", of |-> shown(entry)])
  /\ body' = Rests("done") /\ UNCHANGED beat /\ Said
-----------------------------------------------------------------------------
(* StageTicker *)

Ticks == UNCHANGED <<owner, body, echo, lists, breaks>> /\ UNCHANGED OfPanel /\ UNCHANGED OfStream
TickerStarts ==
  /\ At("work") /\ owner = "daemon" /\ beat.at = "off"
  /\ beat' = [beat EXCEPT !.at = "idle"] /\ UNCHANGED entry /\ Ticks
TickerStops ==
  /\ At("work") /\ beat.at = "idle" /\ beat' = [beat EXCEPT !.at = "off"] /\ UNCHANGED entry /\ Ticks
tick_stage(p) ==
  /\ beat.at = "idle" /\ Len(wire.queue) < MaxFrames /\ entry' = [entry EXCEPT !.progress = p]
  /\ beat' = [beat EXCEPT !.at = "read"] /\ Ticks
TickRead ==
  /\ beat.at = "read" /\ beat' = [at |-> "stage", of |-> shown(entry)] /\ UNCHANGED entry /\ Ticks
TickSays ==
  /\ beat.at = "stage" /\ broadcast([kind |-> "stage", of |-> beat.of])
  /\ beat' = Quiet("idle") /\ UNCHANGED body /\ Said
-----------------------------------------------------------------------------
(* handle_sse, and the subscriber of the desktop *)

Streams == UNCHANGED <<owner, entry, body, beat, direct, echo, breaks>>
\* The stream is subscribed first; what is broadcast from now on waits in it.
subscribe ==
  /\ wire.at = "off" /\ wire' = [wire EXCEPT !.at = "joined"] /\ told' = Nowhere
  /\ UNCHANGED lists /\ UNCHANGED OfPanel /\ Streams
\* Then the tasks are listed, and that list is written before all that waited.
WritesSnapshot ==
  /\ wire.at = "joined"
  /\ wire' = [at |-> "open", queue |-> <<[kind |-> "snapshot", of |-> IF owner = "daemon" THEN shown(entry) ELSE Nowhere]>>
                                         \o wire.queue]
  /\ UNCHANGED <<lists, told>> /\ UNCHANGED OfPanel /\ Streams

\* Whatever of the panel is replaced by, refreshers are not run for it.
Replaces(e) == panel' = e /\ replaced' = TRUE /\ UNCHANGED refreshed
Reads(kind) == wire.at = "open" /\ wire.queue # <<>> /\ Head(wire.queue).kind = kind
               /\ wire' = [wire EXCEPT !.queue = Tail(@)]
forward_snapshot ==
  /\ Reads("snapshot") /\ told' = Head(wire.queue).of /\ Replaces(Head(wire.queue).of)
  /\ UNCHANGED lists /\ Streams
forward_stage ==
  /\ Reads("stage") /\ told' = [told EXCEPT !.progress = Head(wire.queue).of.progress]
  /\ panel' = IF panel = Nowhere THEN panel ELSE [panel EXCEPT !.progress = Head(wire.queue).of.progress]
  /\ UNCHANGED <<refreshed, replaced, lists>> /\ Streams
forward_finished ==
  /\ Reads("finished") /\ Room /\ told' = [told EXCEPT !.status = Head(wire.queue).of.status]
  /\ lists' = [lists EXCEPT !["finish"] = Asked] /\ UNCHANGED OfPanel /\ Streams
\* What was in flight is lost; a desktop's own task does not notice.
Breaks ==
  /\ wire.at # "off" /\ owner = "daemon" /\ breaks < MaxBreaks /\ breaks' = breaks + 1 /\ wire' = Closed /\ told' = Nowhere
  /\ UNCHANGED <<owner, entry, body, beat, direct, echo, lists>> /\ UNCHANGED OfPanel
\* The daemon dies, and is started again: what was running is not any more.
Restarts ==
  /\ owner = "daemon" /\ breaks < MaxBreaks /\ breaks' = breaks + 1 /\ wire' = Closed
  /\ entry' = IF entry = Gone \/ entry.status \in Final THEN entry ELSE [entry EXCEPT !.status = "interrupted"]
  /\ body' = Rests("done") /\ beat' = Quiet("off")
  /\ lists' = [k \in Asks |-> IF lists[k].at = "asked" THEN Idle ELSE lists[k]]
  /\ told' = Nowhere /\ UNCHANGED <<owner, direct, echo>> /\ UNCHANGED OfPanel
-----------------------------------------------------------------------------
(* list_tasks, cancel_task and delete_task of the desktop *)

Lists == UNCHANGED <<owner, body, beat, wire, told, breaks>>
\* One poll at a time.
Polls ==
  /\ lists["poll"] = Idle /\ Room /\ lists' = [lists EXCEPT !["poll"] = Asked]
  /\ UNCHANGED <<entry, direct, echo>> /\ UNCHANGED OfPanel /\ Lists
list_tasks(k) ==
  /\ lists[k].at = "asked" /\ lists' = [lists EXCEPT ![k] = [at |-> "answered", of |-> shown(entry)]]
  /\ UNCHANGED <<entry, direct, echo>> /\ UNCHANGED OfPanel /\ Lists
ListFails(k) ==
  /\ lists[k].at = "asked" /\ lists' = [lists EXCEPT ![k] = Idle]
  /\ UNCHANGED <<entry, direct, echo>> /\ UNCHANGED OfPanel /\ Lists
\* A list that is absorbed takes nothing away; a new success runs the refreshers.
absorb(e) ==
  /\ panel' = IF e = Nowhere THEN panel ELSE e
  /\ refreshed' = (refreshed \/ (e.status = "succeeded" /\ panel.status # "succeeded"))
  /\ replaced' = (replaced /\ panel'.status = panel.status)
Absorbs(k) ==
  /\ k \in {"poll", "finish"} /\ lists[k].at = "answered" /\ absorb(lists[k].of)
  /\ lists' = [lists EXCEPT ![k] = Idle] /\ UNCHANGED <<entry, direct, echo>> /\ Lists
Sets(k) ==
  /\ k \in {"mount", "reload"} /\ lists[k].at = "answered" /\ Replaces(lists[k].of)
  /\ lists' = [lists EXCEPT ![k] = Idle] /\ UNCHANGED <<entry, direct, echo>> /\ Lists

\* Of a task of its own the desktop raises the record, as it reads it.
cancel_task ==
  /\ entry.status \in {"queued", "running", "rolling_back"} /\ ~entry.cancel
  /\ entry' = [entry EXCEPT !.cancel = TRUE]
  /\ echo' = IF owner = "desktop" THEN shown(entry) ELSE echo
  /\ UNCHANGED <<direct, lists>> /\ UNCHANGED OfPanel /\ Lists
emit_task_update ==
  /\ echo # Nowhere /\ direct' = Append(direct, echo) /\ echo' = Nowhere
  /\ UNCHANGED <<entry, lists>> /\ UNCHANGED OfPanel /\ Lists
\* No event says that a task was deleted; the panel that asked reloads its list.
delete_task ==
  /\ entry.status \in Final /\ entry' = Gone
  /\ \E here \in {FALSE} \cup {Room} : lists' = IF here THEN [lists EXCEPT !["reload"] = Asked] ELSE lists
  /\ UNCHANGED <<direct, echo>> /\ UNCHANGED OfPanel /\ Lists
Raised ==
  /\ direct # <<>> /\ panel' = Head(direct) /\ direct' = Tail(direct)
  /\ refreshed' = (refreshed \/ panel'.status = "succeeded") /\ replaced' = FALSE
  /\ UNCHANGED <<entry, echo, lists>> /\ Lists

FeedNext ==
  \/ try_start \/ publish_stages \/ finish \/ start_rollback \/ finish_rollback
  \/ \E p \in entry.progress .. Full - 1 : tick_stage(p) \/ (p > entry.progress /\ (update(p) \/ Stages(p)))
  \/ SaysStage \/ SaysFinished \/ TickerStarts \/ TickerStops \/ TickRead \/ TickSays
  \/ subscribe \/ WritesSnapshot \/ forward_snapshot \/ forward_stage \/ forward_finished
  \/ Breaks \/ Restarts \/ Polls \/ cancel_task \/ emit_task_update \/ delete_task \/ Raised
  \/ \E k \in Asks : list_tasks(k) \/ ListFails(k) \/ Absorbs(k) \/ Sets(k)
FeedSpec == FeedInit /\ [][FeedNext]_feedVars
-----------------------------------------------------------------------------
\* Whoever has read all of its stream knows how the task ended, whenever it joined
\* (main.rs 488-490), and no tick that came late changed it (versions.rs 325-326).
StreamTold ==
  (owner = "daemon" /\ wire = [at |-> "open", queue |-> <<>>] /\ At("done") /\ entry # Gone)
    => told = shown(entry)
\* A panel that learned of a success has refreshed what depends on it, unless a
\* whole list replaced what it showed.
SuccessRefreshes == (panel.status = "succeeded" /\ ~replaced) => refreshed
\* No list, however late, shows an end that the task did not come to.
PanelIsTrue == panel.status \in Final => entry = Gone \/ panel.status = entry.status
FeedSound == StreamTold /\ SuccessRefreshes /\ PanelIsTrue

\* A success that is learned of refreshes, also when the stream broke before it
\* (desktop/app/events.rs 11-13).  It fails: see the README.
RefreshedAlways ==
  [][(panel.status = "running" /\ panel'.status = "succeeded") => refreshed']_feedVars
\* What is deleted goes from the panel when nothing more is on its way.  It fails:
\* see the README.
GhostsGone ==
  (entry = Gone /\ wire = [at |-> "open", queue |-> <<>>] /\ direct = <<>> /\ \A k \in Asks : lists[k] = Idle)
    => panel = Nowhere
\* An end that the panel showed stays.  It fails: see the README.
EndStays == [][panel.status \in Final => (panel'.status = panel.status \/ panel' = Nowhere)]_feedVars
=============================================================================
