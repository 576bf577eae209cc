---------------------------- MODULE MCPolledWorker ----------------------------
(***************************************************************************)
(* Small instances of PolledWorker for TLC.                                *)
(***************************************************************************)
EXTENDS PolledWorker

CONSTANTS w1, d1
=============================================================================
