------------------------------- MODULE MCCpu --------------------------------
(* The scalar instructions on all pairs of bytes and both values of the      *)
(* carry, the vector instructions on lanes of 3, 6, 12 and 24 bits.          *)
EXTENDS Vectors

MCBytes == 0 .. 255
MCFew == 0 .. 7
MCMany == 0 .. 63
MCCounts == 0 .. 40
=============================================================================
