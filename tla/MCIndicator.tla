---------------------------- MODULE MCIndicator ----------------------------
(* Instances of Indicator for TLC. *)
EXTENDS Indicator

(* A list that loops, one that ends, and a step of 0 ms. *)
SomeLists == << <<"flash", "off", "stop">>, <<"on", "loop">>, <<"on", "off", "stop">> >>
(* A runner is alone from its first look at the list until it has the       *)
(* mutex, or others may hold the mutex longer than it waits.                *)
SafeWindows == {{}, {"update", "act"}}
=============================================================================
