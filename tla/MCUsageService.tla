--------------------------- MODULE MCUsageService ---------------------------
(***************************************************************************)
(* Instance of UsageService for TLC: a request publishes at most one       *)
(* record, MaxClock bounds the time after the service has started, and     *)
(* Grace is the time its shutdown is given.                                *)
(***************************************************************************)
EXTENDS UsageService
=============================================================================
