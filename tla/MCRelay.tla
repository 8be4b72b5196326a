------------------------------ MODULE MCRelay ------------------------------
(* Instance of Relay for TLC: one app socket (Guardian has two in its own   *)
(* run), times of one tick, a ladder of one delay and a threshold of two.   *)
EXTENDS Relay

CONSTANT c1

const_Clients == {c1}

const_Rpms == {1}

const_Delays == <<500>>
=============================================================================
