-------------------------- MODULE MC_VaspDomainMap --------------------------
(***************************************************************************)
(* A small instance of VaspDomainMap for TLC.                              *)
(***************************************************************************)
EXTENDS VaspDomainMap

CONSTANTS d1, d2, a1
=============================================================================
