------------------------- MODULE MCRoverConcurrent -------------------------
(* RoverControl with two requests in flight.                                *)
EXTENDS RoverControl

\* A program that defuses and moves.
ConcurrentPrograms == {<<"D", "M">>}
=============================================================================
