----------------------------- MODULE MCBitString -----------------------------
EXTENDS BitString, TLC
CONSTANTS p, q
MCLength == p :> 17 @@ q :> 10
=============================================================================
