--------------------------- MODULE MCGroundControl ---------------------------
(* A map with a mine at its edge and one in its middle, and three rovers:    *)
(* the edge keeps one on a mine, which it disarms twice and then leaves      *)
(* armed; one disarms the other mine, and one ends on it, armed, after a     *)
(* blocked cell.                                                             *)
EXTENDS GroundControl, TLC

(*  S . M   *)
(*  # M .   *)
MCMine == {<<2, 0>>, <<1, 1>>}
MCBlocked == {<<0, 1>>}
MCStart == <<0, 0>>
MCCommands == <<
    <<"R", "M", "M", "D", "M", "D", "M", "R">>,
    <<"R", "M", "R", "M", "D", "D">>,
    <<"R", "R", "M", "L", "x", "M", "R", "M">> >>
=============================================================================
