--------------------------- MODULE MCCommunication ---------------------------
(* A small instance of Communication for TLC. *)
EXTENDS Communication
=============================================================================
