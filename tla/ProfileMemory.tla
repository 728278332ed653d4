------------------------------ MODULE ProfileMemory ------------------------------
(***************************************************************************)
(* What the bot learns of a user (internal/chat: structured_extraction.go, *)
(* profile_candidates.go, profile_batch_review.go, profile_handlers.go;    *)
(* internal/store/postgres: profile_candidate.go, user_profile.go).        *)
(*                                                                         *)
(* Every message has a model extract values the user gave of himself.      *)
(* They are kept as candidates with what speaks for them; only a name goes *)
(* to the profile at once.  Every few turns, and on a command, a model     *)
(* reviews the best candidate of each slot, and those it confirms are      *)
(* written to the profile.  The user may also set a slot by a command.     *)
(*                                                                         *)
(* Extractions and reviews are tasks of the analytic runner, which has one *)
(* worker.  Every call to the database may fail and the process may stop   *)
(* between any two of them.  Texts are left out: what a model answers is   *)
(* arbitrary, and is chosen as the answer is applied.                      *)
(***************************************************************************)
EXTENDS Naturals, Sequences, FiniteSets

CONSTANTS Slots,          \* the slots of a profile
          Name,           \* the one that is promoted at once
          Values,         \* what a slot may hold
          Nobody,         \* an empty slot
          Evidence,       \* ranks of what speaks for a value
          N,              \* bound: the messages of the user
          ReviewInterval, \* profileBatchReviewInterval
          MaxForced,      \* bound: commands that force a review
          MaxChanges,     \* bound: commands that set a slot
          MaxDecisions,   \* bound: decisions in one review
          MaxFaults       \* bound: failed calls and crashes

ASSUME NameIsASlot == Name \in Slots
ASSUME NobodyIsNoValue == Nobody \notin Values
ASSUME EvidenceIsRanked == Evidence \subseteq 0..2
ASSUME IntervalIsPositive == ReviewInterval \in Nat \ {0}
ASSUME BoundsAreNumbers ==
  {N, MaxForced, MaxChanges, MaxDecisions, MaxFaults} \subseteq Nat

VARIABLES profile,    \* profile[s]: the confirmed value of s
          cand,       \* cand[s][v]: the row of the candidate v for s
          turn,       \* the user's messages so far; their ids are 1..turn
          due,        \* the handler has still to enqueue the review of this turn
          latest,     \* latest[k]: the newest version published for tasks of kind k
          newest,     \* newest[k]: the version of the last task of kind k enqueued
          queue,      \* the channel
          forced,     \* forced reviews so far
          changes,    \* slots set by hand so far
          pc,         \* what the worker does next
          task,       \* the task it holds
          todo,       \* the slots of an extraction not handled yet
          value,      \* the name being promoted
          top,        \* top[s]: the candidate for s the review has listed
          decisions,  \* decisions applied so far
          patch,      \* the slots the review will write
          unwritten,  \* confirmed candidates whose slot is still to be written
          faults      \* failed calls and crashes so far

handler == <<turn, due, latest, newest, queue, forced>>
tables == <<profile, cand, unwritten>>
worker == <<pc, task, todo, value, top, decisions, patch>>
vars == <<tables, handler, worker, changes, faults>>

Some == Values \cup {Nobody}
Kinds == {"extract", "review"}
Tasks == [kind: Kinds, version: Nat]
NoTask == [kind |-> "extract", version |-> 0]

\* evidence: the rank of best_evidence_type; seen: the message last_seen_at is of.
Candidates == [status: {"none", "active", "confirmed", "dismissed"},
               evidence: 0..2, mentions: Nat, seen: Nat]
NoCandidate == [status |-> "none", evidence |-> 0, mentions |-> 0, seen |-> 0]
Empty == [s \in Slots |-> Nobody]

Steps == {"idle", "taken", "building", "built", "merging", "promoting", "confirming",
          "deciding", "patching"}

TypeOK ==
  /\ profile \in [Slots -> Some]
  /\ cand \in [Slots -> [Values -> Candidates]]
  /\ turn \in 0..N
  /\ due \in BOOLEAN
  /\ latest \in [Kinds -> Nat]
  /\ newest \in [Kinds -> Nat]
  /\ queue \in Seq(Tasks)
  /\ forced \in 0..MaxForced
  /\ changes \in 0..MaxChanges
  /\ pc \in Steps
  /\ task \in Tasks
  /\ todo \in SUBSET Slots
  /\ value \in Some
  /\ pc \in {"promoting", "confirming"} => value \in Values
  /\ top \in [Slots -> Some]
  /\ decisions \in 0..MaxDecisions
  /\ patch \in [Slots -> Some]
  /\ unwritten \in SUBSET (Slots \X Values)
  /\ faults \in 0..MaxFaults

Init ==
  /\ profile = Empty
  /\ cand = [s \in Slots |-> [v \in Values |-> NoCandidate]]
  /\ turn = 0
  /\ due = FALSE
  /\ latest = [k \in Kinds |-> 0]
  /\ newest = [k \in Kinds |-> 0]
  /\ queue = <<>>
  /\ forced = 0
  /\ changes = 0
  /\ pc = "idle"
  /\ task = NoTask
  /\ todo = {}
  /\ value = Nobody
  /\ top = Empty
  /\ decisions = 0
  /\ patch = Empty
  /\ unwritten = {}
  /\ faults = 0

-----------------------------------------------------------------------------
(* Enqueueing: the version is published, whether or not the channel, which *)
(* other tasks share, has room for the task.                               *)

Enqueue(kind, version) ==
  /\ latest' = [latest EXCEPT ![kind] = IF version > @ THEN version ELSE @]
  /\ newest' = [newest EXCEPT ![kind] = version]
  /\ \/ queue' = Append(queue, [kind |-> kind, version |-> version])
     \/ UNCHANGED queue

\* The handler of the next message: it is saved under the chat's mutex, so that
\* messages get here in the order of their ids, and its extraction is enqueued
\* unless the input is too short.
CaptureUserSignals ==
  /\ turn < N /\ ~due
  /\ turn' = turn + 1
  /\ due' = (turn' % ReviewInterval = 0)
  /\ Enqueue("extract", turn') \/ UNCHANGED <<latest, newest, queue>>
  /\ UNCHANGED <<tables, forced, worker, changes, faults>>

EnqueueProfileBatchReview ==
  /\ due
  /\ due' = FALSE
  /\ Enqueue("review", turn)
  /\ UNCHANGED <<tables, turn, forced, worker, changes, faults>>

\* The command enqueues a review without a message: its version is the clock in
\* nanoseconds, which is above the id of any message.
ForcedVersion(n) == N + n

ForceReview ==
  /\ forced < MaxForced
  /\ forced' = forced + 1
  /\ Enqueue("review", ForcedVersion(forced'))
  /\ UNCHANGED <<tables, turn, due, worker, changes, faults>>

\* The command that sets a slot, without the chat's mutex.
UpdateMyInfo(s, v) ==
  /\ changes < MaxChanges
  /\ changes' = changes + 1
  /\ profile' = [profile EXCEPT ![s] = v]
  /\ UNCHANGED <<cand, unwritten, handler, worker, faults>>

-----------------------------------------------------------------------------
(* The worker of the analytic runner.                                      *)

IsSuperseded(t) == t.version < latest[t.kind]

EndTask ==
  /\ pc' = "idle"
  /\ task' = NoTask
  /\ todo' = {}
  /\ value' = Nobody
  /\ top' = Empty
  /\ decisions' = 0
  /\ patch' = Empty

\* A call fails: one of the bounded number of faults.
Fails == faults < MaxFaults /\ faults' = faults + 1

Take ==
  /\ pc = "idle" /\ queue # <<>>
  /\ pc' = "taken"
  /\ task' = Head(queue)
  /\ queue' = Tail(queue)
  /\ UNCHANGED <<tables, turn, due, latest, newest, forced, todo, value, top, decisions, patch,
                 changes, faults>>

CheckBeforeBuild ==
  /\ pc = "taken"
  /\ \/ IsSuperseded(task) /\ EndTask
     \/ /\ ~IsSuperseded(task)
        /\ pc' = "building"
        /\ UNCHANGED <<task, todo, value, top, decisions, patch>>
  /\ UNCHANGED <<tables, handler, changes, faults>>

\* Build: a query or the model fails, or its answer cannot be parsed.
BuildFails ==
  /\ pc = "building"
  /\ EndTask
  /\ UNCHANGED <<tables, handler, changes, faults>>

\* Extract has its answer; which values it holds shows as it is persisted.
Extract ==
  /\ pc = "building" /\ task.kind = "extract"
  /\ pc' = "built"
  /\ todo' = Slots
  /\ UNCHANGED <<tables, handler, task, value, top, decisions, patch, changes, faults>>

\* A query that forgets to leave out the candidates already confirmed.
ReviewableOrConfirmed(s) == {v \in Values : cand[s][v].status \in {"active", "confirmed"}}

\* What ListTopProfileCandidatesByUserID selects from: only active candidates, so
\* that one that was confirmed is never reviewed again.
Reviewable(s) == {v \in Values : cand[s][v].status = "active"}

\* Its order: by evidence, mentions, and the time of the last one.
Outranks(c, d) ==
  \/ c.evidence > d.evidence
  \/ /\ c.evidence = d.evidence
     /\ \/ c.mentions > d.mentions
        \/ c.mentions = d.mentions /\ c.seen > d.seen

Best(s) ==
  {v \in Reviewable(s) : \A w \in Reviewable(s) : ~Outranks(cand[s][w], cand[s][v])}

\* The review reads the messages of its window and the best candidates.  Without
\* any of either there is nothing to do; else the model answers.
Review ==
  /\ pc = "building" /\ task.kind = "review"
  /\ \/ /\ turn = 0 \/ \A s \in Slots : Reviewable(s) = {}
        /\ EndTask
     \/ /\ turn > 0 /\ \E s \in Slots : Reviewable(s) # {}
        /\ pc' = "built"
        /\ top' \in [Slots -> Some]
        /\ \A s \in Slots : IF Reviewable(s) = {} THEN top'[s] = Nobody
                            ELSE top'[s] \in Best(s)
        /\ UNCHANGED <<task, todo, value, decisions, patch>>
  /\ UNCHANGED <<tables, handler, changes, faults>>

CheckAfterBuild ==
  /\ pc = "built"
  /\ \/ IsSuperseded(task) /\ EndTask
     \/ /\ ~IsSuperseded(task)
        /\ pc' = IF task.kind = "extract" THEN "merging" ELSE "deciding"
        /\ UNCHANGED <<task, todo, value, top, decisions, patch>>
  /\ UNCHANGED <<tables, handler, changes, faults>>

-----------------------------------------------------------------------------
(* The commit of an extraction: persistStructuredExtraction.  No failure   *)
(* ends it.                                                                *)

\* The name comes first; the order of the others does not show.
NextSlot(s) == s \in todo /\ (Name \in todo => s = Name)

\* The answer holds no usable value for s.
NothingFound(s) ==
  /\ pc = "merging" /\ NextSlot(s)
  /\ todo' = todo \ {s}
  /\ UNCHANGED <<tables, handler, pc, task, value, top, decisions, patch, changes, faults>>

AtLeast(m, n) == IF m < n THEN n ELSE m

\* MergeProfileCandidate, one transaction: a new candidate is active; of a known
\* one the evidence grows, and it is active again if it had been dismissed.
Merged(c, evidence) ==
  [status |-> IF c.status \in {"none", "dismissed"} THEN "active" ELSE c.status,
   evidence |-> AtLeast(evidence, c.evidence),
   mentions |-> c.mentions + 1,
   seen |-> task.version]

\* The value v was found for s.  Even if it cannot be merged, a name goes on to
\* the profile.
MergeProfileCandidate(s, v, evidence) ==
  /\ pc = "merging" /\ NextSlot(s)
  /\ \/ /\ cand' = [cand EXCEPT ![s][v] = Merged(cand[s][v], evidence)]
        /\ UNCHANGED faults
     \/ /\ Fails
        /\ UNCHANGED cand
  /\ todo' = todo \ {s}
  /\ \/ /\ s = Name
        /\ pc' = "promoting" /\ value' = v
     \/ /\ s # Name
        /\ UNCHANGED <<pc, value>>
  /\ UNCHANGED <<profile, unwritten, handler, task, top, decisions, patch, changes>>

PromoteName ==
  /\ pc = "promoting"
  /\ \/ /\ profile' = [profile EXCEPT ![Name] = value]
        /\ pc' = "confirming"
        /\ UNCHANGED <<value, faults>>
     \/ /\ Fails
        /\ pc' = "merging" /\ value' = Nobody
        /\ UNCHANGED profile
  /\ UNCHANGED <<cand, unwritten, handler, task, todo, top, decisions, patch, changes>>

\* UpdateProfileCandidateStatus changes a row that exists, whatever its status.
SetStatus(s, v, status) ==
  cand' = IF cand[s][v].status = "none" THEN cand
          ELSE [cand EXCEPT ![s][v].status = status]

ConfirmName ==
  /\ pc = "confirming"
  /\ \/ /\ SetStatus(Name, value, "confirmed")
        /\ UNCHANGED faults
     \/ /\ Fails
        /\ UNCHANGED cand
  /\ pc' = "merging" /\ value' = Nobody
  /\ UNCHANGED <<profile, unwritten, handler, task, todo, top, decisions, patch, changes>>

ExtractionEnds ==
  /\ pc = "merging" /\ todo = {}
  /\ EndTask
  /\ UNCHANGED <<tables, handler, changes, faults>>

-----------------------------------------------------------------------------
(* The commit of a review: applyProfileBatchReview.                        *)

\* The next decision of the answer, on a slot whose candidate was listed.
Decides(s) ==
  /\ pc = "deciding" /\ decisions < MaxDecisions
  /\ top[s] # Nobody
  /\ decisions' = decisions + 1

\* Confirmed with evidence from the window: the value, the candidate's or one
\* the model put in its place, is left for the patch.
Confirm(s, v) ==
  /\ Decides(s)
  /\ patch' = [patch EXCEPT ![s] = v]
  /\ SetStatus(s, top[s], "confirmed")
  /\ unwritten' = unwritten \cup {<<s, top[s]>>}
  /\ UNCHANGED <<profile, handler, pc, task, todo, value, top, changes, faults>>

\* Dismissed, kept, or confirmed without evidence.
Reject(s, status) ==
  /\ Decides(s)
  /\ SetStatus(s, top[s], status)
  /\ unwritten' = unwritten \ {<<s, top[s]>>}
  /\ UNCHANGED <<profile, handler, pc, task, todo, value, top, patch, changes, faults>>

\* The status cannot be written: the commit ends there, and with it the patch.
\* Only for a confirmation without evidence the error is ignored.
DecisionFails(s) ==
  /\ Decides(s)
  /\ Fails
  /\ UNCHANGED <<pc, task, todo, value, top, patch>>
  /\ UNCHANGED <<tables, handler, changes>>

CommitFails ==
  /\ pc = "deciding" /\ decisions < MaxDecisions /\ top # Empty
  /\ Fails
  /\ EndTask
  /\ UNCHANGED <<tables, handler, changes>>

\* A commit that only writes its patch if that sets the name.
WritesNameOnly == patch[Name] # Nobody

HasProfileSlotUpdate == patch # Empty

DecisionsEnd ==
  /\ pc = "deciding"
  /\ \/ /\ HasProfileSlotUpdate
        /\ pc' = "patching"
        /\ UNCHANGED <<task, todo, value, top, decisions, patch>>
     \/ /\ ~HasProfileSlotUpdate
        /\ EndTask
  /\ UNCHANGED <<tables, handler, changes, faults>>

\* UpsertUserProfile: a slot the patch leaves out keeps its value.
WritePatch ==
  /\ pc = "patching"
  /\ \/ /\ profile' = [s \in Slots |-> IF patch[s] # Nobody THEN patch[s] ELSE profile[s]]
        /\ unwritten' = {c \in unwritten : patch[c[1]] = Nobody}
        /\ UNCHANGED faults
     \/ /\ Fails
        /\ UNCHANGED <<profile, unwritten>>
  /\ EndTask
  /\ UNCHANGED <<cand, handler, changes>>

-----------------------------------------------------------------------------

\* The process stops and starts again: the channel, the versions and what the
\* worker and the handler were doing are gone.
Crash ==
  /\ Fails
  /\ EndTask
  /\ queue' = <<>>
  /\ latest' = [k \in Kinds |-> 0]
  /\ newest' = [k \in Kinds |-> 0]
  /\ due' = FALSE
  /\ UNCHANGED <<tables, turn, forced, changes>>

HandleMessage == CaptureUserSignals \/ EnqueueProfileBatchReview

RunCommand == ForceReview \/ \E s \in Slots, v \in Values : UpdateMyInfo(s, v)

PersistExtraction ==
  \/ \E s \in Slots : NothingFound(s)
  \/ \E s \in Slots, v \in Values, e \in Evidence : MergeProfileCandidate(s, v, e)
  \/ PromoteName
  \/ ConfirmName
  \/ ExtractionEnds

ApplyReview ==
  \/ \E s \in Slots, v \in Values : Confirm(s, v)
  \/ \E s \in Slots, status \in {"active", "dismissed"} : Reject(s, status)
  \/ \E s \in Slots : DecisionFails(s)
  \/ CommitFails
  \/ DecisionsEnd
  \/ WritePatch

RunWorker ==
  \/ Take
  \/ CheckBeforeBuild
  \/ BuildFails
  \/ Extract
  \/ Review
  \/ CheckAfterBuild
  \/ PersistExtraction
  \/ ApplyReview

Next == HandleMessage \/ RunCommand \/ RunWorker \/ Crash

Spec == Init /\ [][Next]_vars

-----------------------------------------------------------------------------
(* What the profile promises.                                              *)

\* A candidate is marked confirmed before its value is written, and a confirmed
\* one is never reviewed again, so that a value left behind stays out of the
\* profile: no review leaves one it confirmed, unless it ends by a failed call.
ConfirmedIsWritten ==
  [][(pc \in {"deciding", "patching"} /\ pc' = "idle" /\ faults' = faults)
       => \A s \in Slots : <<s, top[s]>> \notin unwritten']_vars

\* Names are learned in the order they are said: while no call fails, neither an
\* extraction that comes late nor a review puts back a name in place of one said
\* after it.
NamesInOrder ==
  [][changes' = changes /\ profile'[Name] # profile[Name] /\ faults = 0
     => \A v \in Values : cand[Name][v].seen <= cand[Name][profile'[Name]].seen]_vars

-----------------------------------------------------------------------------
(* What the documentation promises and the code does not keep.             *)

\* docs/chatbot-harness-design.md:104 has stale jobs skipped.  The last task
\* enqueued for a key is not stale; but after a forced review, whose version is
\* a clock reading, every regular one is skipped until the process restarts.
OnlyStaleSkipped ==
  [][(pc \in {"taken", "built"} /\ pc' = "idle" /\ IsSuperseded(task))
       => newest[task.kind] # task.version]_vars
=============================================================================
