----------------------------- MODULE MCFeedbackSweep -----------------------------
(* A small instance of FeedbackSweep for TLC.                               *)
EXTENDS FeedbackSweep
=============================================================================
