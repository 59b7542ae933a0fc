--------------------------- MODULE MCPersistence ---------------------------
(* A small instance of Persistence for TLC. *)
EXTENDS Persistence

CONSTANTS p1, v1, dflt, none

\* Two current encodings and one record of the old schema.
MCPayloads == {p1, v1, dflt}
MCUpgrade  == [p \in MCPayloads |-> IF p = v1 THEN p1 ELSE p]

\* Records loaded at an ordinary sequence number and at the last one.
MCBootRevisions == {1, LastRevision}
=============================================================================
