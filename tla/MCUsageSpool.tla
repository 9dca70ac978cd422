---------------------------- MODULE MCUsageSpool ----------------------------
(* Small instances of UsageSpool: all its constants are numbers. *)
EXTENDS UsageSpool
=============================================================================
