----------------------------- MODULE MCReception -----------------------------
(* Small instances of Reception.                                           *)
EXTENDS Reception
=============================================================================
