----------------------------- MODULE MCEndpointPool -----------------------------
(* A small instance of EndpointPool for TLC.                                *)
EXTENDS EndpointPool

\* Servers that serve both requests or neither.
UpOrDown == {[chat |-> "replies", probe |-> TRUE], [chat |-> "listed", probe |-> FALSE]}
=============================================================================
