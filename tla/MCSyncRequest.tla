--------------------------- MODULE MCSyncRequest ---------------------------
(* Instances of SyncRequest for TLC: the pool's instances with one caller. *)
EXTENDS MCClientPool, SyncRequest
=============================================================================
