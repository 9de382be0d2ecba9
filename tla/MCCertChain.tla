------------------------------ MODULE MCCertChain ------------------------------
(***************************************************************************)
(* CertChain for TLC.                                                      *)
(***************************************************************************)
EXTENDS CertChain

\* The server is restarted with no spare certificate and with two.
ShortAndLong == {1, 3}
=============================================================================
