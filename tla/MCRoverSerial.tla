--------------------------- MODULE MCRoverSerial ---------------------------
(* RoverControl with one request at a time.                                 *)
EXTENDS RoverControl

\* Programs that turn either way, leave the map and stand on a mine.
SerialPrograms == {<<>>, <<"M", "D", "M">>, <<"L", "M", "M">>, <<"R", "M">>}
=============================================================================
