---------------------------- MODULE MCUserAgent ----------------------------
(* Instances of UserAgent for TLC: the pool's instances behind an agent. *)
EXTENDS MCClientPool, UserAgent
=============================================================================
