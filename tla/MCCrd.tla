-------------------------------- MODULE MCCrd -------------------------------
(* Crd for TLC: three entries of the first values fit where only two are    *)
(* kept, and no other fits beside that of the fourth.                       *)
EXTENDS Crd

MCSize == <<1, 1, 1, 3, 1>>
=============================================================================
