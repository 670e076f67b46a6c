----------------------------- MODULE MCEntrance -----------------------------
(***************************************************************************)
(* Instances of Entrance for TLC.                                          *)
(***************************************************************************)
EXTENDS Entrance, TLC

CONSTANTS s1, s2

ServerSymmetry == Permutations({s1, s2})
=============================================================================
