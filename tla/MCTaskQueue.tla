---------------------------- MODULE MCTaskQueue ----------------------------
(***************************************************************************)
(* Instances of TaskQueue.  The contended instance has four tasks: two on  *)
(* one container, one that needs that container and the repository, one    *)
(* with a key of its own -- so the gate, a shared key and a two-key        *)
(* acquisition all bite.                                                   *)
(***************************************************************************)
EXTENDS TaskQueue

CONSTANTS t1, t2, t3, t4, container, repository, mirror

Contended == [t \in Task |-> CASE t = t1 -> {container}
                                [] t = t2 -> {container, repository}
                                [] t = t3 -> {mirror}
                                [] OTHER  -> {}]

AllCalls  == CallNames
UserCalls == {"external", "cancel", "delete"}
=============================================================================
