---------------------------- MODULE MCDirectory ----------------------------
(* The index server with a table of two slots, for three names on two       *)
(* hosts, and room for two of three contents in a slot.  The code compares  *)
(* names, addresses and contents for equality only, so each of these sets   *)
(* is symmetric.                                                            *)
EXTENDS DirectoryServer, TLC

MCSymmetry == Permutations(Names) \cup Permutations(Ips) \cup Permutations(Contents)
=============================================================================
