------------------------------- MODULE MCLab1 -------------------------------
(* Two rovers; three command strings; a map with a mine on the way; for the  *)
(* PINs a map, a list in which a serial is repeated and one of whose lines   *)
(* does not begin with a place, and an empty map.  Besides, a list with the  *)
(* same mine three times.                                                    *)
EXTENDS Lab1

\* Round to the mine, disarmed, back to it and on; onto it and on, armed.
MCAnswers == {<<"L", "M", "R", "M", "D", "L", "L", "M", "L", "L", "M", "R", "M">>,
              <<"x", "M", "L", "M", "L", "M">>, <<"x">>}
MCMined == {<<1, 1>>}

MCWords == {7}
Thrice == <<<<<<0>>, <<1>>, <<7>>>>, <<<<7>>, <<1>>, <<3>>>>, <<<<7>>>>>>
MCSources == {[grid |-> <<<<0, 1>>, <<1, 0>>>>, lines |-> <<>>],
              [grid |-> <<>>, lines |-> Thrice],
              [grid |-> <<<<0, 0>>>>, lines |-> <<>>]}

Line == <<<<1>>, <<2>>, <<7>>>>
MCMineThrice == {[grid |-> <<>>, lines |-> <<Line, Line, Line>>]}
=============================================================================
