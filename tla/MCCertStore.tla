---------------------------- MODULE MCCertStore ----------------------------
(***************************************************************************)
(* Instances of CertStore for TLC.                                         *)
(***************************************************************************)
EXTENDS CertStore

\* A root and a client's certificate made elsewhere; the root has the name of
\* a CA the panel may make.
Elsewhere == {
    [key |-> -1, signer |-> -1, subject |-> "A", issuer |-> "A", ca |-> TRUE, usage |-> {}],
    [key |-> -2, signer |-> -1, subject |-> "B", issuer |-> "A", ca |-> FALSE, usage |-> {"client"}]}

TwoUsages == {{"server"}, {"client"}}
=============================================================================
