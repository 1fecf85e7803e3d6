---------------------------- MODULE MCSyncPortal ----------------------------
(* Finite instances of SyncPortal. *)
EXTENDS SyncPortal
=============================================================================
