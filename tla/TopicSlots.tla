------------------------------- MODULE TopicSlots -------------------------------
(***************************************************************************)
(* The topics the bot remembers of one session (internal/chat:             *)
(* memory_slot_analyzer.go, memory_slots.go; the table tg_topic_slots in   *)
(* internal/store/postgres/memory_slots.go).                               *)
(*                                                                         *)
(* After every tenth turn a task is enqueued on the analytic runner, whose *)
(* only worker reads the open topics, has a model comment on them, merges  *)
(* its answer with what it read, and writes the result back row by row,    *)
(* best topics first.  Handlers enqueue in any order, calls fail, and a    *)
(* reset may delete the session at any time.                               *)
(*                                                                         *)
(* The answer is an arbitrary sequence of remarks, its texts are left out; *)
(* the limits of five open topics of each kind and of ten rows per read    *)
(* are constants.                                                          *)
(***************************************************************************)
EXTENDS Naturals, Sequences, FiniteSets

CONSTANTS Topics,         \* slot keys; labels with one key are one topic
          Messages,       \* the source messages tasks are enqueued for: their ids
          Limit,          \* how many topics of each kind stay open
          SnapshotLimit,  \* how many rows are read
          Remarks,        \* bound: what the model may say of a topic it names
          MaxNamed        \* bound: topics named in one answer

Open == {"active", "watch"}
Status == Open \cup {"resolved", "archived"}
Confidence == {"low", "medium", "high"}
DefaultImportance == 50
StrongImportance == 70

ASSUME MessageIds == Messages \subseteq Nat \ {0}
ASSUME TopicsAreFinite == IsFiniteSet(Topics)
ASSUME LimitIsPositive == Limit \in Nat \ {0}
ASSUME ReadsAllThatIsKept == SnapshotLimit \in Nat /\ SnapshotLimit >= Limit + Limit
ASSUME SomeBound == MaxNamed \in Nat
\* An importance of 0 and a status of "none" are those the model leaves out.
ASSUME RemarksAreParsed ==
  Remarks \subseteq [status: Status \cup {"none"}, importance: 0..100,
                     confidence: Confidence]

VARIABLES alive,    \* the session exists
          table,    \* table[t]: the row of t
          latest,   \* the newest version published for the session
          stage,    \* stage[m]: how far the task of message m has come
          queue,    \* the tasks of this session in the channel
          pc,       \* what the worker does next
          task,     \* the message it analyses
          clock,    \* counts the analyses: the time of the one under way
          draft,    \* draft[t]: the slot of t in byKey
          named,    \* the topics the answer has named so far, in order
          pending,  \* the slots not written yet
          kept,     \* the open slots written by this commit
          clean,    \* no commit has failed so far
          heard     \* heard[t]: analyses written that named t since it was opened

rows == <<alive, table, clean, heard>>
tasks == <<latest, stage, queue>>
worker == <<pc, task, clock, draft, named, pending, kept>>
vars == <<rows, tasks, worker>>

Rows == [status: Status \cup {"none"}, importance: 0..100, confidence: Confidence,
         mentions: Nat, seen: Nat, source: Messages \cup {0}]
NoRow == [status |-> "none", importance |-> 0, confidence |-> "low",
          mentions |-> 0, seen |-> 0, source |-> 0]
NoDraft == [t \in Topics |-> NoRow]

Stages == {"new", "published", "queued", "done"}
Steps == {"idle", "taken", "reading", "analyzing", "resolving", "naming",
          "built", "writing"}

TypeOK ==
  /\ alive \in BOOLEAN
  /\ table \in [Topics -> Rows]
  /\ latest \in Messages \cup {0}
  /\ stage \in [Messages -> Stages]
  /\ queue \in Seq(Messages)
  /\ pc \in Steps
  /\ task \in Messages \cup {0}
  /\ clock \in Nat
  /\ draft \in [Topics -> Rows]
  /\ named \in Seq(Topics)
  /\ pending \in SUBSET Topics
  /\ kept \in SUBSET Topics
  /\ clean \in BOOLEAN
  /\ heard \in [Topics -> Nat]

Init ==
  /\ alive = TRUE
  /\ table = NoDraft
  /\ latest = 0
  /\ stage = [m \in Messages |-> "new"]
  /\ queue = <<>>
  /\ pc = "idle"
  /\ task = 0
  /\ clock = 0
  /\ draft = NoDraft
  /\ named = <<>>
  /\ pending = {}
  /\ kept = {}
  /\ clean = TRUE
  /\ heard = [t \in Topics |-> 0]

-----------------------------------------------------------------------------
(* Tasks of the session on the analytic runner.                            *)

\* AsyncEnqueue: the handler of m publishes its version ...
Publish(m) ==
  /\ stage[m] = "new"
  /\ stage' = [stage EXCEPT ![m] = "published"]
  /\ latest' = IF m > latest THEN m ELSE latest
  /\ UNCHANGED <<rows, queue, worker>>

\* ... and offers the task to the channel, which tasks of other kinds fill too.
Offer(m) ==
  /\ stage[m] = "published"
  /\ \/ /\ queue' = Append(queue, m)
        /\ stage' = [stage EXCEPT ![m] = "queued"]
     \/ /\ stage' = [stage EXCEPT ![m] = "done"]
        /\ UNCHANGED queue
  /\ UNCHANGED <<rows, latest, worker>>

Take ==
  /\ pc = "idle" /\ queue # <<>>
  /\ pc' = "taken"
  /\ task' = Head(queue)
  /\ queue' = Tail(queue)
  /\ UNCHANGED <<rows, latest, stage, clock, draft, named, pending, kept>>

\* A check that only skips what was skipped before.
NeverSuperseded(m) == m = 0

IsSuperseded(m) == m < latest

\* The worker is done with its task, whatever became of it.
EndTask ==
  /\ pc' = "idle"
  /\ stage' = [stage EXCEPT ![task] = "done"]
  /\ task' = 0
  /\ draft' = NoDraft
  /\ named' = <<>>
  /\ pending' = {}
  /\ kept' = {}
  /\ UNCHANGED <<latest, queue, clock>>

CheckBeforeBuild ==
  /\ pc = "taken"
  /\ \/ /\ IsSuperseded(task)
        /\ EndTask
     \/ /\ ~IsSuperseded(task)
        /\ pc' = "reading"
        /\ UNCHANGED <<tasks, task, clock, draft, named, pending, kept>>
  /\ UNCHANGED rows

-----------------------------------------------------------------------------
(* Build: the open topics are read, commented on, and merged.              *)

TopicStatusRank(s) ==
  CASE s = "active" -> 0 [] s = "watch" -> 1 [] s = "resolved" -> 2 [] OTHER -> 3

\* The order of the sort and of the query: by status, importance, last seen.
Precedes(r, q) ==
  \/ TopicStatusRank(r.status) < TopicStatusRank(q.status)
  \/ /\ r.status = q.status
     /\ \/ r.importance > q.importance
        \/ r.importance = q.importance /\ r.seen > q.seen

OpenTopics == {t \in Topics : table[t].status \in Open}

\* Results of the query: all open rows, or as many of the best as it may return.
Snapshots ==
  {S \in SUBSET OpenTopics :
     \/ S = OpenTopics /\ Cardinality(S) <= SnapshotLimit
     \/ /\ Cardinality(S) = SnapshotLimit
        /\ \A t \in S, u \in OpenTopics \ S : ~Precedes(table[u], table[t])}

ListActiveTopicSlots ==
  /\ pc = "reading"
  /\ \E S \in Snapshots :
       draft' = [t \in Topics |-> IF t \in S THEN table[t] ELSE NoRow]
  /\ pc' = "analyzing"
  /\ UNCHANGED <<rows, tasks, task, clock, named, pending, kept>>

\* The answer arrives and is parsed.
Analyze ==
  /\ pc = "analyzing"
  /\ pc' = "resolving"
  /\ clock' = clock + 1
  /\ UNCHANGED <<rows, tasks, task, draft, named, pending, kept>>

\* A query, the model or the parser fails, or the task's time is over.
BuildFails ==
  /\ pc \in {"reading", "analyzing"}
  /\ EndTask
  /\ UNCHANGED rows

Known(t) == draft[t].status # "none"

Touch(slot, s) == [slot EXCEPT !.status = s, !.seen = clock, !.source = task]

\* result.ResolvedTopics, of which only those read count.
ResolveTopic(t) ==
  /\ pc = "resolving"
  /\ Known(t)
  /\ draft' = [draft EXCEPT ![t] = Touch(draft[t], "resolved")]
  /\ UNCHANGED <<rows, tasks, pc, task, clock, named, pending, kept>>

DeriveTopicStatus(remark, current) ==
  CASE remark.status # "none" -> remark.status
    [] remark.status = "none" /\ \/ remark.importance >= StrongImportance
                                 \/ remark.confidence = "high" -> "active"
    [] OTHER -> IF current # "none" THEN current ELSE "watch"

ClampImportance(next, current) ==
  IF next > 0 THEN next ELSE IF current > 0 THEN current ELSE DefaultImportance

DeriveConfidence(next, current) == IF next # "low" THEN next ELSE current

\* A merge that takes a named topic for a new one.
MentionedFirst(slot, remark) ==
  [Touch(slot, DeriveTopicStatus(remark, slot.status)) EXCEPT
     !.importance = ClampImportance(remark.importance, slot.importance),
     !.confidence = DeriveConfidence(remark.confidence, slot.confidence),
     !.mentions = 1]

Mentioned(slot, remark) ==
  [Touch(slot, DeriveTopicStatus(remark, slot.status)) EXCEPT
     !.importance = ClampImportance(remark.importance, slot.importance),
     !.confidence = DeriveConfidence(remark.confidence, slot.confidence),
     !.mentions = slot.mentions + 1]

\* The next entry of result.Topics, known or not.
NameTopic(t, remark) ==
  /\ pc \in {"resolving", "naming"}
  /\ Len(named) < MaxNamed
  /\ pc' = "naming"
  /\ draft' = [draft EXCEPT ![t] = Mentioned(draft[t], remark)]
  /\ named' = Append(named, t)
  /\ UNCHANGED <<rows, tasks, task, clock, pending, kept>>

\* The Supersedes of the entry: another topic, known by then.
SupersedeTopic(u) ==
  /\ pc = "naming"
  /\ u # named[Len(named)] /\ Known(u)
  /\ draft' = [draft EXCEPT ![u] = Touch(draft[u], "archived")]
  /\ UNCHANGED <<rows, tasks, pc, task, clock, named, pending, kept>>

\* MergeMemorySlotAnalysis is through with the answer.
FinishMerge ==
  /\ pc \in {"resolving", "naming"}
  /\ pc' = "built"
  /\ UNCHANGED <<rows, tasks, task, clock, draft, named, pending, kept>>

-----------------------------------------------------------------------------
(* Commit: the merged slots are written, best first.                       *)

CheckAfterBuild ==
  /\ pc = "built"
  /\ \/ /\ IsSuperseded(task)
        /\ EndTask
     \/ /\ ~IsSuperseded(task)
        /\ pc' = "writing"
        /\ pending' = {t \in Topics : Known(t)}
        /\ UNCHANGED <<tasks, task, clock, draft, named, kept>>
  /\ UNCHANGED rows

KeptWith(s) == {t \in kept : draft[t].status = s}

\* A limit that holds for the active topics only.
ActiveLimitedStatus(t) ==
  IF draft[t].status = "active" /\ Cardinality(KeptWith("active")) >= Limit
  THEN "archived"
  ELSE draft[t].status

\* EnforceTopicSlotLimits: beyond the limit an open topic is archived.
LimitedStatus(t) ==
  IF draft[t].status \in Open /\ Cardinality(KeptWith(draft[t].status)) >= Limit
  THEN "archived"
  ELSE draft[t].status

AtLeast(m, n) == IF m < n THEN n ELSE m

\* A sort that puts what was seen last at the end.
AnyPending == {t \in pending : t \in pending}

BestPending == {t \in pending : \A u \in pending : ~Precedes(draft[u], draft[t])}

\* The upsert of one row.  It also fails once the session is gone (its foreign
\* key), which is a case of WriteFails.
UpsertTopicSlot(t) ==
  /\ pc = "writing" /\ alive
  /\ t \in BestPending
  /\ LET status == LimitedStatus(t) IN
     /\ table' = [table EXCEPT ![t] =
          [draft[t] EXCEPT !.status = status,
                           !.mentions = AtLeast(draft[t].mentions, table[t].mentions)]]
     /\ kept' = IF status \in Open THEN kept \cup {t} ELSE kept
     /\ heard' = [heard EXCEPT ![t] =
          IF status \notin Open THEN 0
          ELSE IF \E n \in 1..Len(named) : named[n] = t THEN heard[t] + 1 ELSE heard[t]]
  /\ pending' = pending \ {t}
  /\ UNCHANGED <<alive, clean, tasks, pc, task, clock, draft, named>>

\* The first row that cannot be written ends the commit; those before it stay.
WriteFails ==
  /\ pc = "writing" /\ pending # {}
  /\ EndTask
  /\ clean' = FALSE
  /\ UNCHANGED <<alive, table, heard>>

CommitEnds ==
  /\ pc = "writing" /\ pending = {}
  /\ EndTask
  /\ UNCHANGED rows

-----------------------------------------------------------------------------

\* /reset deletes the user; the session and its topics go with it.
DeleteConversation ==
  /\ alive
  /\ alive' = FALSE
  /\ table' = NoDraft
  /\ heard' = [t \in Topics |-> 0]
  /\ UNCHANGED <<clean, tasks, worker>>

Enqueue(m) == Publish(m) \/ Offer(m)

Build ==
  \/ ListActiveTopicSlots
  \/ Analyze
  \/ BuildFails
  \/ \E t \in Topics : ResolveTopic(t)
  \/ \E t \in Topics, remark \in Remarks : NameTopic(t, remark)
  \/ \E t \in Topics : SupersedeTopic(t)
  \/ FinishMerge

Commit ==
  \/ \E t \in Topics : UpsertTopicSlot(t)
  \/ WriteFails
  \/ CommitEnds

RunWorker == Take \/ CheckBeforeBuild \/ Build \/ CheckAfterBuild \/ Commit

Next ==
  \/ \E m \in Messages : Enqueue(m)
  \/ RunWorker
  \/ DeleteConversation

Spec == Init /\ [][Next]_vars

-----------------------------------------------------------------------------
(* What the topics of a session promise.                                   *)

\* The limits hold of the table, not only of the slots merged in memory:
\* between two commits at most Limit topics are active and Limit are watched.
\* A commit that failed half-way may leave more, since new rows are written
\* before those they push out.
LimitsKept ==
  clean /\ pc # "writing" =>
    \A s \in Open : Cardinality({t \in Topics : table[t].status = s}) <= Limit

\* A topic the answer left open is only archived once Limit others of its kind,
\* none of them ranked below it, are in the table: a commit that stops half-way
\* never drops a topic in favour of one that was not saved.
PushedOutByBetter ==
  [][\A t \in Topics :
       table[t].status \in Open /\ table'[t].status = "archived"
         /\ draft[t].status \in Open
       => Cardinality({u \in Topics \ {t} : /\ table[u].status = draft[t].status
                                            /\ ~Precedes(draft[t], table[u])})
            >= Limit]_vars

\* Analyses of messages that finish out of order do not turn a topic back: the
\* message a row was last derived from is never replaced by an older one.
RowsMoveForward ==
  [][\A t \in Topics :
       table'[t].status # "none" => table[t].source <= table'[t].source]_vars

\* filterPromptTopicSlots: a weak topic that was mentioned once stays out of the prompt.
Hidden(t) ==
  /\ table[t].status \in Open
  /\ table[t].confidence = "low" /\ table[t].mentions < 2

\* "Hide weak one-off topics from the prompt until they recur": while no commit
\* failed, an open topic that two analyses have named is not hidden.  Once a
\* topic is closed the count starts again, as only open rows are read.
HiddenOnlyOnce ==
  clean => \A t \in Topics : Hidden(t) => heard[t] <= 1
=============================================================================
