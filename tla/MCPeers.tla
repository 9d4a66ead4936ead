------------------------------ MODULE MCPeers ------------------------------
(* Two peers, p and q, with a file each, and the places they can run at:    *)
(* machines of their own or one machine.                                    *)
EXTENDS PeerToPeer, TLC

CONSTANTS p, q, x, y

OwnNames == p :> "Ann" @@ q :> "Bob"
OwnHosts == p :> "h1" @@ q :> "h2"
OneHost == p :> "h1" @@ q :> "h1"
OwnPorts == p :> 1 @@ q :> 2
OwnDirs == p :> "ann" @@ q :> "bob"
FileEach == "ann" :> {x} @@ "bob" :> {y}
BothAtAnn == "ann" :> {x, y} @@ "bob" :> {}

\* Users give fewer commands where more may go wrong.
LossOnly == {"lose"}
LossOrAll == {LossOnly, FaultKinds}
SevenOrTwo == [c \in LossOrAll |-> IF c = LossOnly THEN 7 ELSE 2]
NoFaults == {{}}
Five == [c \in NoFaults |-> 5]
Four == [c \in NoFaults |-> 4]
=============================================================================
