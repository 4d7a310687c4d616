--------------------------- MODULE MCRelaxedMutex ---------------------------
(* Model of RelaxedMutex for TLC: see the cfg files for the bounds.        *)
EXTENDS RelaxedMutex
=============================================================================
