---------------------------- MODULE MCUsageQueue ----------------------------
(***************************************************************************)
(* Instance of UsageQueue for TLC.  MaxRecords bounds the records accepted *)
(* and MaxPlugins the plugins registered, so that the queue and the        *)
(* histories stay finite.  The run checks liveness: no symmetry is used.   *)
(***************************************************************************)
EXTENDS UsageQueue
=============================================================================
