----------------------------- MODULE MCSettings -----------------------------
(* Small instances of ModelSettings.                                       *)
EXTENDS ModelSettings
=============================================================================
