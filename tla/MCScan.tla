-------------------------------- MODULE MCScan --------------------------------
(***************************************************************************)
(* Instances of Scan for TLC.                                              *)
(***************************************************************************)
EXTENDS Scan

CONSTANTS w1, w2
=============================================================================
