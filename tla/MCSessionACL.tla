--------------------------- MODULE MCSessionACL ---------------------------
(***************************************************************************)
(* Instances of SessionACL for TLC.                                        *)
(***************************************************************************)
EXTENDS SessionACL, TLC

CONSTANTS alice, bob, ip1, ip2, n1

\* alice has a password only, bob a second factor too.
Everybody == {alice, bob}
WithMfa == {bob}

OnlyOverlap == {"overlap"}
=============================================================================
