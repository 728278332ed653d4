-------------------------------- MODULE TaskBoard --------------------------------
(***************************************************************************)
(* What a caller of the background executor may count on, without the      *)
(* queue, the workers and the table of versions: a board of keyed,         *)
(* versioned tasks, each of which ends once, is skipped only for a newer   *)
(* one of its key, and takes effect in the order of the versions.          *)
(* AsyncRunner with a single worker implements it.                         *)
(***************************************************************************)
EXTENDS Naturals

CONSTANTS Tasks, Keys, Versions

VARIABLES label,    \* label[t]: the key and version t is enqueued with
          status,   \* status[t]: "new", "pending" or how t ended
          written   \* written[k]: version of the last task that took effect

vars == <<label, status, written>>

Init ==
  /\ label \in [Tasks -> [key: Keys, version: Versions]]
  /\ status = [t \in Tasks |-> "new"]
  /\ written = [k \in Keys |-> 0]

Newer(u, t) == label[u].key = label[t].key /\ label[u].version > label[t].version

Accept(t) ==
  /\ status[t] = "new"
  /\ status' = [status EXCEPT ![t] = "pending"]
  /\ UNCHANGED <<label, written>>

\* Only fresher input makes a task superfluous.
Skip(t) ==
  /\ status[t] = "pending"
  /\ \E u \in Tasks : Newer(u, t) /\ status[u] # "new"
  /\ status' = [status EXCEPT ![t] = "superseded"]
  /\ UNCHANGED <<label, written>>

\* A task may come to nothing: no room, nothing worth writing, or an error.
Abandon(t) ==
  /\ status[t] = "pending"
  /\ \E s \in {"dropped", "nothing", "failed"} : status' = [status EXCEPT ![t] = s]
  /\ UNCHANGED <<label, written>>

\* A task takes effect only over what older tasks, or its like, have written.
TakeEffect(t) ==
  /\ status[t] = "pending"
  /\ written[label[t].key] <= label[t].version
  /\ status' = [status EXCEPT ![t] = "committed"]
  /\ written' = [written EXCEPT ![label[t].key] = label[t].version]
  /\ UNCHANGED label

Next == \E t \in Tasks : Accept(t) \/ Skip(t) \/ Abandon(t) \/ TakeEffect(t)

Spec == Init /\ [][Next]_vars
=============================================================================
