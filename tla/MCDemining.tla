----------------------------- MODULE MCDemining -----------------------------
(* Two rovers and two deminers on a map of two by two.  Both rovers report   *)
(* the mine at <<1, 0>>; the first then tries to leave the map and steps on  *)
(* it again, the second has a dig in its command file.                       *)
EXTENDS DeminePipeline, TLC

MCCell == <<0, 0>> :> "0" @@ <<1, 0>> :> "1" @@ <<0, 1>> :> "." @@ <<1, 1>> :> "M"
MCCommands == 1 :> <<"E", "RIGHT">> @@ 2 :> <<"DIG", "R">>
MCStart == 1 :> <<0, 0>> @@ 2 :> <<0, 0>>
=============================================================================
