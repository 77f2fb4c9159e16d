---------------------------- MODULE MCRpmsgLite ----------------------------
(* Instances of RpmsgLite for TLC. *)
EXTENDS RpmsgLite

CONSTANTS s1, s2

(* Linux sends to anyone and the interrupt spares the windows, or Linux     *)
(* sends to known endpoints only and the interrupt hits a release anywhere, *)
(* or Linux may stop serving the M0.                                        *)
Sends(n1, n2) == [s \in Senders |-> IF s = s1 THEN n1 ELSE n2]
Quiet(n1, n2, posts) ==
  [stray |-> TRUE, serves |-> TRUE, windows |-> {}, sends |-> Sends(n1, n2), posts |-> posts]
Exposed(n1, n2, posts) ==
  [stray |-> FALSE, serves |-> TRUE, windows |-> {"free"}, sends |-> Sends(n1, n2), posts |-> posts]

Hung(n1, n2) == [Quiet(n1, n2, 0) EXCEPT !.serves = FALSE]

(* One ring at a time, with indices that wrap around or with two senders,   *)
(* and both rings together.                                                 *)
OneRing == {Quiet(Unlimited, 0, 0), Quiet(2, 1, 0), Quiet(0, 0, 3), Exposed(0, 0, Unlimited)}
BothRings == {Quiet(1, 0, 1), Exposed(1, 0, 2)}
SafeWorlds == OneRing \cup BothRings \cup {Hung(2, 1)}

Waits == {1, RL_BLOCK}
=============================================================================
