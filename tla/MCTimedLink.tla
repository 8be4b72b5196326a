----------------------------- MODULE MCTimedLink -----------------------------
(* Instance of TimedLink for TLC: the deployed constants, in seconds.       *)
EXTENDS TimedLink

const_Delays == <<500, 1000, 2000, 3000, 5000>>
=============================================================================
