------------------------------ MODULE MCAppLock ------------------------------
(* A right and a wrong PIN; two goroutines at a time, which is what it takes *)
(* for an answer to come late.                                               *)
EXTENDS AppLock
=============================================================================
