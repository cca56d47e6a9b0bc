------------------------------ MODULE TaskGate ------------------------------
(***************************************************************************)
(* What the task queue promises a task body, without saying how: at most   *)
(* MaxRunning bodies are inside at a time, no two of them over a common    *)
(* resource key, and each task goes in at most once.                       *)
(***************************************************************************)
EXTENDS Naturals, FiniteSets

CONSTANTS Task, KeysOf, MaxRunning

VARIABLE place   \* where each task is: "outside", "inside" or "left"

Inside == {t \in Task : place[t] = "inside"}

GateInit == place = [t \in Task |-> "outside"]

Enter(t) ==
  /\ place[t] = "outside"
  /\ Cardinality(Inside) < MaxRunning
  /\ \A u \in Inside : KeysOf[t] \cap KeysOf[u] = {}
  /\ place' = [place EXCEPT ![t] = "inside"]

\* A body ends, or its task is given up before its turn.
Leave(t) == place[t] # "left" /\ place' = [place EXCEPT ![t] = "left"]

GateNext == \E t \in Task : Enter(t) \/ Leave(t)

GateSpec == GateInit /\ [][GateNext]_place
=============================================================================
