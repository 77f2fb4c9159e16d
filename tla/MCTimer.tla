------------------------------ MODULE MCTimer ------------------------------
(* Instances of Timer for TLC. *)
EXTENDS Timer, TLC

OneShots == Timers \ Periodic
TimerSymmetry == Permutations(OneShots)

Deinits == {"create", "start", "deinit"}
AllCalls == {"create", "start", "restart", "stop", "delete", "is_active"}
StartStop == {"create", "start", "stop"}
=============================================================================
