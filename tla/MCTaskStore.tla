---------------------------- MODULE MCTaskStore ----------------------------
(***************************************************************************)
(* Instances of TaskStore: two threads of the daemon, and one of the       *)
(* desktop process where the instance has it.                              *)
(***************************************************************************)
EXTENDS TaskStore

CONSTANTS t1, t2, daemon, desktop, d1, d2, u1

Home == [w \in Thread |-> IF w = u1 THEN desktop ELSE daemon]
=============================================================================
