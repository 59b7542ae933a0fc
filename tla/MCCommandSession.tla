-------------------------- MODULE MCCommandSession --------------------------
(* A small instance of CommandSession for TLC. *)
EXTENDS CommandSession

CONSTANTS h0, h1, r0, r1, m0, m1

MCHardware == {h0, h1}
MCRaws     == {r0, r1}
MCMasses   == {m0, m1}
=============================================================================
