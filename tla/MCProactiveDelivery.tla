-------------------------- MODULE MCProactiveDelivery --------------------------
(* Small instances of ProactiveDelivery for TLC.                            *)
EXTENDS ProactiveDelivery
=============================================================================
