----------------------------- MODULE MCOciClient -----------------------------
(* A network with the instance's subnet and two others, and another network. *)
EXTENDS OciClient

CONSTANTS home, s1, s2, elsewhere, own, other

Networks == [s \in Subnets |-> IF s = elsewhere THEN other ELSE own]
=============================================================================
