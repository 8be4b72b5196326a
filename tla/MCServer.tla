------------------------------ MODULE MCServer ------------------------------
(* Instance of Server for TLC: two flushes at once, one manual speed beside *)
(* schedule and off, a keep-alive period of 5 s (the default) or 60 s (the  *)
(* longest that is accepted).                                               *)
EXTENDS Server, TLC

CONSTANTS f1, f2

const_Flushes == {f1, f2}

Symmetry == Permutations(const_Flushes)

const_Rpms == {1}

const_Periods == {5, 60}
=============================================================================
