----------------------------- MODULE MCHashTree -----------------------------
(***************************************************************************)
(* Two bytes and all the keys of up to three of them.                      *)
(***************************************************************************)
EXTENDS HashTreeForeach, SequencesExt

MCHashes == BoundedSeq(Byte, 3)
=============================================================================
