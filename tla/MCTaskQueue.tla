---------------------------- MODULE MCTaskQueue ----------------------------
(* Instances of TaskQueue for TLC. *)
EXTENDS TaskQueue

CONSTANTS w1, w2, n1, n2, t1, t2

(* Two nodes of one pool process each. *)
TwoNodes == [w \in Workers |-> IF w = w1 THEN n1 ELSE n2]

(* One node of two pool processes. *)
OneNode == [w \in Workers |-> n1]

Budget(crash, redeliver, kill, error, expire) ==
  [k \in FaultKinds |->
     CASE k = "crash" -> crash [] k = "redeliver" -> redeliver [] k = "kill" -> kill
       [] k = "error" -> error [] k = "expire" -> expire]

NoFaults    == Budget(0, 0, 0, 0, 0)
EveryFault  == Budget(1, 1, 1, 1, 1)
Restarts    == Budget(1, 1, 0, 0, 0)
=============================================================================
