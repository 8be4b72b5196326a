----------------------------- MODULE MCGuardian -----------------------------
(* Instance of Guardian for TLC: two sockets, two speeds, a keep-alive of  *)
(* two ticks and a ceiling of four, so that the deadline is due exactly    *)
(* when the interval fires, and a grace of two ticks.                      *)
EXTENDS Guardian

CONSTANTS c1, c2

const_Clients == {c1, c2}

const_Rpms == {1, 2}
=============================================================================
