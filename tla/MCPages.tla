------------------------------- MODULE MCPages -------------------------------
(* Instance of Pages for TLC: two schedules, named as the two starters; the  *)
(* ranges today and 7d; Off and one speed.                                   *)
EXTENDS Pages

CONSTANTS maintenance, summer, h1, h2

const_Ids == {maintenance, summer}
const_Handlers == {h1, h2}
const_NameOf == maintenance :> "Maintenance" @@ summer :> "Summer"
const_STARTERS == <<"Maintenance", "Summer">>
const_Ranges == {"today", "7d"}
const_Rpms == {0, 1500}
=============================================================================
