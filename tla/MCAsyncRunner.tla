------------------------------ MODULE MCAsyncRunner ------------------------------
(* A small instance of AsyncRunner for TLC.                                 *)
EXTENDS AsyncRunner

\* Enough for a task to have an older, an equal and a newer rival.
SomeVersions == 1..3
=============================================================================
