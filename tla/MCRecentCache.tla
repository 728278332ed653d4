----------------------------- MODULE MCRecentCache -----------------------------
(* A small instance of RecentCache for TLC.                                 *)
EXTENDS RecentCache
=============================================================================
