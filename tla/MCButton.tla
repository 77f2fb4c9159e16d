------------------------------ MODULE MCButton ------------------------------
(* Instances of Button for TLC. *)
EXTENDS Button
=============================================================================
