---------------------------- MODULE MCInstances ----------------------------
(***************************************************************************)
(* Instances of Instances for TLC.                                         *)
(***************************************************************************)
EXTENDS Instances, TLC

CONSTANTS alice, bob, s1, e1, e2, v1, ip1, ip2

\* Each has a certificate of their own, and bob was disabled.
Everybody == {alice, bob}
OnlyBob == {bob}
OwnCert == alice :> "a" @@ bob :> "b"

EditorSymmetry == Permutations({e1, e2})
=============================================================================
