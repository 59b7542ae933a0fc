---------------------------- MODULE MCRtuReceiver ----------------------------
(* A small instance of RtuReceiver for TLC. *)
EXTENDS RtuReceiver
=============================================================================
