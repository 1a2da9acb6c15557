------------------------- MODULE MC_AccountHelpers -------------------------
(***************************************************************************)
(* Small instances of AccountHelpers for TLC: three addresses.             *)
(***************************************************************************)
EXTENDS AccountHelpers

CONSTANTS x1, x2, x3, nil
=============================================================================
