-------------------------- MODULE MCIngestScheduler --------------------------
(***************************************************************************)
(* Three workspaces for two slots.                                          *)
(***************************************************************************)
EXTENDS IngestScheduler, TLC

CONSTANTS w1, w2, w3
Workspaces == {w1, w2, w3}
=============================================================================
