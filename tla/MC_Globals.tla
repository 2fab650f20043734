----------------------------- MODULE MC_Globals -----------------------------
(***************************************************************************)
(* Globals for TLC: one object of type T or int, one function, one        *)
(* typedef name, and the initialisers the object may have.                 *)
(***************************************************************************)
EXTENDS Globals, InitCases
=============================================================================
