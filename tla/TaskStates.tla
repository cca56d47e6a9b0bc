----------------------------- MODULE TaskStates -----------------------------
(***************************************************************************)
(* The lifecycle of a task record, as box-scheduler's TaskState enforces   *)
(* it.  A record stores its state as a string; "waiting_input" is the one  *)
(* string other parts of the product still know and TaskState does not.    *)
(***************************************************************************)

Known == {"queued", "running", "succeeded", "failed", "cancelled",
          "interrupted", "miss", "rolling_back", "rolled_back"}

Status == Known \cup {"waiting_input"}

\* TaskState::from(&str): a string it cannot spell reads as a failure.
AsState(s) == IF s \in Known THEN s ELSE "failed"

\* TaskState::valid_transitions.
Successors(s) ==
  CASE s = "queued" -> {"running", "succeeded", "failed", "cancelled",
                        "interrupted", "miss"}
    [] s = "running" -> {"succeeded", "failed", "cancelled", "interrupted",
                         "miss"}
    [] s = "failed" -> {"rolling_back"}
    [] s = "rolling_back" -> {"rolled_back", "failed", "interrupted"}
    [] OTHER -> {}

Terminal == {"succeeded", "cancelled", "interrupted", "rolled_back", "miss"}
Active   == {"queued", "running"}
Finished == Terminal \cup {"failed"}

\* TaskRecord::transition_to answers Ok ...
MayMove(s, target) == AsState(s) = target \/ target \in Successors(AsState(s))

\* ... and leaves this status behind: a refused or idempotent move writes
\* nothing.
Moved(s, target) ==
  IF target \in Successors(AsState(s)) THEN target ELSE s

\* is_live_record: the record is believed to hold a slot and its locks.
HoldsSlot(s) == s = "running" \/ s \notin Known

\* needs_shutdown_close.
NeedsClose(s) == s \notin Finished
=============================================================================
