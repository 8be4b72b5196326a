----------------------------- MODULE MCFailsafe -----------------------------
(* Instances of Failsafe for TLC: a stop and one speed.                    *)
EXTENDS Failsafe

const_Rpms == {0, 1}
=============================================================================
