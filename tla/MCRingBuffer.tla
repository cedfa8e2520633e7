---------------------------- MODULE MCRingBuffer ----------------------------
(* RingBuffer on small instances.                                          *)
EXTENDS RingBuffer, TLC

Symmetric == Permutations(Producers) \cup Permutations(Consumers)
=============================================================================
