---------------------------- MODULE MCControlLoop ----------------------------
(* Instances of ControlLoop for TLC: stop and one speed;                    *)
(* a write timeout of 1.5 s and a job age of 2 s in units of 500 ms.        *)
EXTENDS ControlLoop

const_Rpms == {0, 1}
=============================================================================
