---------------------------- MODULE MCBleCommand ----------------------------
(* A small instance of BleCommand for TLC. *)
EXTENDS BleCommand
CONSTANTS t1, t2, t3
MCTransactions == {t1, t2, t3}
\* One id is used for two operations.
MCRequests == {[id |-> t1, operation |-> "READ"], [id |-> t1, operation |-> "SAVE"],
               [id |-> t2, operation |-> "SAVE"], [id |-> t3, operation |-> "EDIT"]}
=============================================================================
