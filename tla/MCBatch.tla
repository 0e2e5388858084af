------------------------------- MODULE MCBatch -------------------------------
EXTENDS Batch

CONSTANTS a1, a2, a3
MCAddr == {a1, a2, a3}
=============================================================================
