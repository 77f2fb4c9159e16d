-------------------------- MODULE MCRpmsgDevices --------------------------
(* Instances of RpmsgDevices for TLC. *)
EXTENDS RpmsgDevices

(* The application is above the rpmsg task and Linux sends to any address   *)
(* or announces its endpoints, or the rpmsg task overtakes the application. *)
Above == [above |-> TRUE, removes |-> TRUE, stray |-> TRUE, names |-> FALSE, careful |-> TRUE]
Named == [above |-> TRUE, removes |-> FALSE, stray |-> FALSE, names |-> TRUE, careful |-> TRUE]
Beside == [above |-> FALSE, removes |-> TRUE, stray |-> FALSE, names |-> FALSE, careful |-> TRUE]
SafeWorlds == {Above, Named, Beside}
=============================================================================
