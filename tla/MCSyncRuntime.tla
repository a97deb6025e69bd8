---------------------------- MODULE MCSyncRuntime ----------------------------
(* A service worker and the options pages, for TLC. *)
EXTENDS SyncRuntime
=============================================================================
