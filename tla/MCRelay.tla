------------------------------ MODULE MCRelay ------------------------------
(* Model of Relay for TLC: two bytes per remote end, so that a direction  *)
(* can be cut off with data still buffered, and a two-byte copy buffer,  *)
(* so that reads of one and of two bytes both happen.  It extends the    *)
(* proof modules so that the inductive invariants and the refinement of  *)
(* RelayAbstract are checked on the same states.                          *)
EXTENDS RelayRefinement

MCMaxBytes == 2
MCBufSize == 2
=============================================================================
