------------------------------ MODULE MCControl ------------------------------
(* Small instances of ServiceControl.                                       *)
EXTENDS ServiceControl
=============================================================================
