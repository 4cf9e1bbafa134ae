---------------------------- MODULE MCLoadEngine -----------------------------
(* Small instances of LoadEngine.                                           *)
EXTENDS LoadEngine
=============================================================================
