------------------------ MODULE MCCredentialRefresh -------------------------
(* CredentialRefresh; the bounds are in the guards.                        *)
EXTENDS CredentialRefresh
=============================================================================
