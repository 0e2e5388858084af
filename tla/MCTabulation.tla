---------------------------- MODULE MCTabulation ----------------------------
(***************************************************************************)
(* Two values; one hash routine that tells them apart, one that does not.  *)
(***************************************************************************)
EXTENDS Tabulation

MCValue == 1..2
MCHasher == { [v \in MCValue |-> v], [v \in MCValue |-> 1] }
=============================================================================
