----------------------------- MODULE MCTransfer -----------------------------
(* Two clients, a file of two full blocks and a last one, one that ends      *)
(* with an error after its first block, and a name the server does not have. *)
EXTENDS FileTransfer, TLC

MCNames == {"two", "bad", "no"}
MCSize == "two" :> 2 @@ "bad" :> 1
=============================================================================
