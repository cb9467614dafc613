------------------------------ MODULE Instruments ------------------------------
(***************************************************************************)
(* What is traded: the key of every map of the system (the symbol of a     *)
(* trade, include/risk/types.h).                                           *)
(***************************************************************************)
CONSTANT Symbols
=============================================================================
