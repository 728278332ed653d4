------------------------------- MODULE AsyncRunner -------------------------------
(***************************************************************************)
(* The background executor of internal/chat/async_runner.go: a bounded     *)
(* queue of keyed, versioned tasks, a pool of workers, and a table that    *)
(* remembers the newest version published for every key, by which older    *)
(* tasks of the key are skipped.                                           *)
(*                                                                         *)
(* The state reviewer runs on one instance (1 or 2 workers by              *)
(* configuration), structured extraction, topic slots, profile batch       *)
(* reviews and history summaries share another (always one worker).  What  *)
(* Build and commit do is the caller's business: here a build yields a     *)
(* commit, nothing, or an error, and a commit is the moment its version    *)
(* becomes the one last written for the key.                               *)
(***************************************************************************)
EXTENDS Naturals, Sequences

CONSTANTS Tasks,      \* the Enqueue calls that can be made
          Keys,       \* task keys: one per session or user and kind of work
          Versions,   \* task versions: message ids or clock readings
          Workers,    \* the goroutines started by NewAsyncRunner
          QueueSize,  \* capacity of the jobs channel
          Idle        \* what a worker holds while it waits for a task

ASSUME VersionsArePositive == Versions \subseteq Nat \ {0}
ASSUME QueueHasRoom == QueueSize \in Nat \ {0}
ASSUME IdleIsNoTask == Idle \notin Tasks

VARIABLES jobs,       \* the channel: a sequence of tasks
          latest,     \* latest[k]: newest version published for k, 0 if none
          label,      \* label[t]: the key and version t was enqueued with
          stage,      \* stage[t]: how far t has come
          holding,    \* holding[w]: the task worker w is running, or Idle
          written     \* written[k]: version of the last commit made for k

vars == <<jobs, latest, label, stage, holding, written>>

Labels == [key: Keys, version: Versions]

Ended == {"dropped", "superseded", "nothing", "failed", "committed"}
InHand == {"taken", "building", "built", "committing"}
Stages == {"new", "published", "queued"} \cup InHand \cup Ended

TypeOK ==
  /\ jobs \in Seq(Tasks) /\ Len(jobs) <= QueueSize
  /\ latest \in [Keys -> Nat]
  /\ label \in [Tasks -> Labels]
  /\ stage \in [Tasks -> Stages]
  /\ holding \in [Workers -> Tasks \cup {Idle}]
  /\ written \in [Keys -> Nat]

-----------------------------------------------------------------------------

KeyOf(t) == label[t].key
VersionOf(t) == label[t].version

\* A check that also skips a task for its own version.
SupersededByItself(t) == VersionOf(t) <= latest[KeyOf(t)]

\* isSuperseded.  Its two guards on zero do not show: no caller enqueues
\* version 0, and a task is only checked after its version was published.
IsSuperseded(t) == VersionOf(t) < latest[KeyOf(t)]

Init ==
  /\ jobs = <<>>
  /\ latest = [k \in Keys |-> 0]
  /\ label \in [Tasks -> Labels]
  /\ stage = [t \in Tasks |-> "new"]
  /\ holding = [w \in Workers |-> Idle]
  /\ written = [k \in Keys |-> 0]

\* A publication that forgets to keep the newest version.
PublishLast(t) ==
  /\ stage[t] = "new"
  /\ stage' = [stage EXCEPT ![t] = "published"]
  /\ latest' = [latest EXCEPT ![KeyOf(t)] = VersionOf(t)]
  /\ UNCHANGED <<jobs, label, holding, written>>

\* Enqueue, first half: the version is published under the mutex.
Publish(t) ==
  /\ stage[t] = "new"
  /\ stage' = [stage EXCEPT ![t] = "published"]
  /\ latest' = IF VersionOf(t) > latest[KeyOf(t)]
               THEN [latest EXCEPT ![KeyOf(t)] = VersionOf(t)]
               ELSE latest
  /\ UNCHANGED <<jobs, label, holding, written>>

\* Enqueue, second half: a send that never blocks.  A full channel drops the
\* task, whose version stays published.
Offer(t) ==
  /\ stage[t] = "published"
  /\ \/ /\ Len(jobs) < QueueSize
        /\ jobs' = Append(jobs, t)
        /\ stage' = [stage EXCEPT ![t] = "queued"]
     \/ /\ Len(jobs) >= QueueSize
        /\ stage' = [stage EXCEPT ![t] = "dropped"]
        /\ UNCHANGED jobs
  /\ UNCHANGED <<latest, label, holding, written>>

\* A worker that leaves the task it received in the channel.
TakeWithoutRemoving(w) ==
  /\ holding[w] = Idle
  /\ jobs # <<>>
  /\ holding' = [holding EXCEPT ![w] = Head(jobs)]
  /\ stage' = [stage EXCEPT ![Head(jobs)] = "taken"]
  /\ UNCHANGED <<jobs, latest, label, written>>

\* A worker receives the oldest task of the channel.
Take(w) ==
  /\ holding[w] = Idle
  /\ jobs # <<>>
  /\ holding' = [holding EXCEPT ![w] = Head(jobs)]
  /\ stage' = [stage EXCEPT ![Head(jobs)] = "taken"]
  /\ jobs' = Tail(jobs)
  /\ UNCHANGED <<latest, label, written>>

\* Worker w leaves its task at stage s, and is idle again once s is final.
MoveTo(w, s) ==
  /\ stage' = [stage EXCEPT ![holding[w]] = s]
  /\ holding' = IF s \in Ended THEN [holding EXCEPT ![w] = Idle] ELSE holding

Holds(w, s) == holding[w] # Idle /\ stage[holding[w]] = s

CheckBeforeBuild(w) ==
  /\ Holds(w, "taken")
  /\ MoveTo(w, IF IsSuperseded(holding[w]) THEN "superseded" ELSE "building")
  /\ UNCHANGED <<jobs, latest, label, written>>

\* A worker that runs a failed task again.
BuildOrRetry(w) ==
  /\ Holds(w, "building")
  /\ \E s \in {"built", "nothing", "taken"} : MoveTo(w, s)
  /\ UNCHANGED <<jobs, latest, label, written>>

\* Build ends within the task's timeout: with a commit to run, with none to
\* run (nothing worth writing), or with an error.
Build(w) ==
  /\ Holds(w, "building")
  /\ \E s \in {"built", "nothing", "failed"} : MoveTo(w, s)
  /\ UNCHANGED <<jobs, latest, label, written>>

\* The mutex is taken for this check and released before the commit runs.
CheckAfterBuild(w) ==
  /\ Holds(w, "built")
  /\ MoveTo(w, IF IsSuperseded(holding[w]) THEN "superseded" ELSE "committing")
  /\ UNCHANGED <<jobs, latest, label, written>>

Commit(w) ==
  /\ Holds(w, "committing")
  /\ \/ /\ MoveTo(w, "committed")
        /\ written' = [written EXCEPT ![KeyOf(holding[w])] = VersionOf(holding[w])]
     \/ /\ MoveTo(w, "failed")
        /\ UNCHANGED written
  /\ UNCHANGED <<jobs, latest, label>>

Enqueue(t) == Publish(t) \/ Offer(t)

RunWorker(w) ==
  \/ Take(w)
  \/ CheckBeforeBuild(w)
  \/ Build(w)
  \/ CheckAfterBuild(w)
  \/ Commit(w)

Next ==
  \/ \E t \in Tasks : Enqueue(t)
  \/ \E w \in Workers : RunWorker(w)

Spec == Init /\ [][Next]_vars

\* A caller that has published goes on to its send, and a worker never stops:
\* it ranges over a channel nobody closes, and a build is cut by its timeout.
\* Whether a task is enqueued at all is the caller's choice.
FairSpec ==
  /\ Spec
  /\ \A t \in Tasks : WF_vars(Offer(t))
  /\ \A w \in Workers : WF_vars(RunWorker(w))
-----------------------------------------------------------------------------
(* What the executor promises its callers.                                 *)

\* Exclusive hand-over: the accepted tasks are exactly those in the channel,
\* each once, and the running ones exactly those a worker holds, each held by
\* one worker; so no build or commit runs twice and no task is forgotten.
HandedOverOnce ==
  /\ \A t \in Tasks : stage[t] = "queued" <=> \E n \in 1..Len(jobs) : jobs[n] = t
  /\ \A m, n \in 1..Len(jobs) : jobs[m] = jobs[n] => m = n
  /\ \A t \in Tasks : stage[t] \in InHand <=> \E w \in Workers : holding[w] = t
  /\ \A v, w \in Workers : holding[v] = holding[w] /\ holding[v] # Idle => v = w

\* Skipping is only ever justified by fresher input: a superseded task has a
\* newer task of its key that was really enqueued.  The newest version of a
\* key is therefore never skipped.
SkippedOnlyForNewer ==
  \A t \in Tasks : stage[t] = "superseded" =>
    \E u \in Tasks : /\ KeyOf(u) = KeyOf(t)
                     /\ VersionOf(u) > VersionOf(t)
                     /\ stage[u] # "new"

\* Commits of a key keep the order of its versions on a runner with a single
\* worker: what an older task extracted never overwrites what a newer one
\* wrote, although the check and the commit are two steps.
CommitsInOrder ==
  \A t \in Tasks : stage[t] = "committed" => VersionOf(t) <= written[KeyOf(t)]

\* No task hangs: one that was published is dropped, skipped, or run to an end.
EveryTaskEnds ==
  \A t \in Tasks : stage[t] = "published" ~> stage[t] \in Ended

\* For its callers a task is new, pending from its publication on, or ended.
Status == [t \in Tasks |-> IF stage[t] \in {"new"} \cup Ended THEN stage[t] ELSE "pending"]

Board == INSTANCE TaskBoard WITH status <- Status

\* A runner with a single worker implements the board of tasks: each task ends
\* once, is skipped only for a newer one of its key, and never takes effect
\* after a newer one, although queue, check, build and commit are steps that
\* the other callers of Enqueue run between.
ImplementsBoard == Board!Spec
=============================================================================
