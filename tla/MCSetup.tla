------------------------------ MODULE MCSetup -------------------------------
(* Two tries and one manual sync over channels of length one.              *)
EXTENDS Setup
=============================================================================
