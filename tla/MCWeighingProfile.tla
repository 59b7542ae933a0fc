-------------------------- MODULE MCWeighingProfile --------------------------
(* A small instance of WeighingProfile for TLC. *)
EXTENDS WeighingProfile

MCProfiles == {"HIGH_PRECISION", "HIGH_SPEED"}
MCSettings == {10, 40}
MCDefaults == [HIGH_PRECISION |-> 10, HIGH_SPEED |-> 40]
=============================================================================
