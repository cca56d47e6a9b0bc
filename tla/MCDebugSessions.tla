--------------------------- MODULE MCDebugSessions ---------------------------
(***************************************************************************)
(* Instances of DebugSessions: one thread with the page tools, one that    *)
(* opens and closes beside it, a container that is worked on and one that  *)
(* is only opened, closed, started and stopped.                            *)
(***************************************************************************)
EXTENDS DebugSessions

ToolsAndOpens == <<{"console", "click_at"}, {"open", "close"}>>
OpensOnly == <<{"open"}, {"close"}>>
Clicks == <<{"open", "click_at"}, {"open"}>>
=============================================================================
