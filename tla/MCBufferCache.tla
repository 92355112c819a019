---------------------------- MODULE MCBufferCache ----------------------------
\* A device of three blocks with two contents for TLC.
EXTENDS BufferCache, TLC

CONSTANTS a, b

MCBlock == 1 .. 3
MCValue == {a, b}
Contents == Permutations(MCValue)
=============================================================================
