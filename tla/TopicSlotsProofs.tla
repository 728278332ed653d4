---------------------------- MODULE TopicSlotsProofs ----------------------------
(***************************************************************************)
(* The topics of a session for any topics, messages, remarks and limits:   *)
(* the rows keep the order of the messages, the limits hold after every    *)
(* commit that was not cut short, and what is archived for want of room    *)
(* makes room for better topics that are already saved.                    *)
(***************************************************************************)
EXTENDS TopicSlots, FiniteSetTheorems, TLAPS

\* Where there is no row there is one to read that says so.
LEMMA EmptyRows == NoRow \in Rows /\ NoDraft \in [Topics -> Rows]
<1>1. NoRow \in Rows
  BY DEF NoRow, Rows, Confidence
<1> QED BY <1>1 DEF NoDraft

\* The end of a task leaves the worker, and the stages, well typed.
LEMMA EndTaskTypes ==
  ASSUME TypeOK, EndTask
  PROVE  /\ latest' \in Messages \cup {0}
         /\ stage' \in [Messages -> Stages]
         /\ queue' \in Seq(Messages)
         /\ pc' \in Steps
         /\ task' \in Messages \cup {0}
         /\ clock' \in Nat
         /\ draft' \in [Topics -> Rows]
         /\ named' \in Seq(Topics)
         /\ pending' \in SUBSET Topics
         /\ kept' \in SUBSET Topics
<1>1. draft' \in [Topics -> Rows]
  BY EmptyRows DEF EndTask
<1>2. stage' \in [Messages -> Stages]
  BY DEF EndTask, TypeOK, Stages
<1> QED BY <1>1, <1>2 DEF EndTask, TypeOK, Steps

\* What the merge makes of a slot is a slot.
LEMMA MergedSlots ==
  ASSUME TypeOK, task \in Messages, NEW slot \in Rows
  PROVE  /\ \A s \in Status : Touch(slot, s) \in Rows /\ Touch(slot, s).status = s
         /\ \A remark \in Remarks : /\ Mentioned(slot, remark) \in Rows
                                    /\ Mentioned(slot, remark).status \in Status
                                    /\ Mentioned(slot, remark).mentions = slot.mentions + 1
<1>1. \A s \in Status : Touch(slot, s) \in Rows /\ Touch(slot, s).status = s
  BY DEF Touch, Rows, TypeOK
<1>2. ASSUME NEW remark \in Remarks
      PROVE  /\ Mentioned(slot, remark) \in Rows
             /\ Mentioned(slot, remark).status \in Status
             /\ Mentioned(slot, remark).mentions = slot.mentions + 1
  <2>1. /\ remark.status \in Status \cup {"none"}
        /\ remark.importance \in 0..100
        /\ remark.confidence \in Confidence
    BY <1>2, RemarksAreParsed
  <2>2. DeriveTopicStatus(remark, slot.status) \in Status
    BY <2>1 DEF DeriveTopicStatus, Rows, Status, Open
  <2>3. ClampImportance(remark.importance, slot.importance) \in 0..100
    BY <2>1 DEF ClampImportance, Rows, DefaultImportance
  <2>4. DeriveConfidence(remark.confidence, slot.confidence) \in Confidence
    BY <2>1 DEF DeriveConfidence, Rows
  <2>5. Touch(slot, DeriveTopicStatus(remark, slot.status)) \in Rows
    BY <1>1, <2>2
  <2> DEFINE r == Touch(slot, DeriveTopicStatus(remark, slot.status))
             i == ClampImportance(remark.importance, slot.importance)
             c == DeriveConfidence(remark.confidence, slot.confidence)
  <2>6. slot.mentions + 1 \in Nat
    BY DEF Rows
  <2>7. Mentioned(slot, remark) =
          [r EXCEPT !.importance = i, !.confidence = c, !.mentions = slot.mentions + 1]
    BY DEF Mentioned
  <2>8. r \in Rows /\ r.status \in Status /\ i \in 0..100 /\ c \in Confidence
    BY <1>1, <2>2, <2>3, <2>4, <2>5
  <2> HIDE DEF r, i, c
  <2> QED BY <2>6, <2>7, <2>8 DEF Rows
<1> QED BY <1>1, <1>2

\* While it has a task the worker has one of a message.
HasTask == pc # "idle" => task \in Messages

\* Every reachable state of the rows, the tasks and the worker is well typed.
THEOREM TopicTypes == Spec => [](TypeOK /\ HasTask)
<1> USE DEF HasTask
<1>1. Init => TypeOK /\ HasTask
  BY DEF Init, TypeOK, NoDraft, NoRow, Rows, Confidence, Status, Stages, Steps
<1>2. TypeOK /\ HasTask /\ [Next]_vars => TypeOK' /\ HasTask'
  <2> SUFFICES ASSUME TypeOK, HasTask, [Next]_vars PROVE TypeOK' /\ HasTask'
    OBVIOUS
  <2>1. ASSUME NEW m \in Messages, Publish(m) PROVE TypeOK' /\ HasTask'
    BY <2>1 DEF Publish, TypeOK, Stages, rows, worker
  <2>2. ASSUME NEW m \in Messages, Offer(m) PROVE TypeOK' /\ HasTask'
    <3>1. queue' \in Seq(Messages)
      <4>1. queue \in Seq(Messages) /\ Append(queue, m) \in Seq(Messages)
        BY DEF TypeOK
      <4> QED BY <2>2, <4>1 DEF Offer
    <3>2. stage' \in [Messages -> Stages]
      BY <2>2 DEF Offer, TypeOK, Stages
    <3> QED BY <2>2, <3>1, <3>2 DEF Offer, TypeOK, rows, worker
  <2>3. CASE Take
    <3>1. Head(queue) \in Messages /\ Tail(queue) \in Seq(Messages)
      BY <2>3 DEF Take, TypeOK
    <3> QED BY <2>3, <3>1 DEF Take, TypeOK, Steps, rows
  <2>4. CASE CheckBeforeBuild
    <3>1. CASE EndTask
      BY <2>4, <3>1, EndTaskTypes DEF CheckBeforeBuild, TypeOK, rows, EndTask
    <3>2. CASE pc' = "reading" /\ UNCHANGED <<tasks, task, clock, draft, named, pending, kept>>
      BY <2>4, <3>2 DEF CheckBeforeBuild, TypeOK, Steps, rows, tasks
    <3> QED BY <2>4, <3>1, <3>2 DEF CheckBeforeBuild
  <2>5. CASE ListActiveTopicSlots
    <3>1. draft' \in [Topics -> Rows]
      BY <2>5 DEF ListActiveTopicSlots, TypeOK, NoRow, Rows, Confidence, Status
    <3> QED BY <2>5, <3>1 DEF ListActiveTopicSlots, TypeOK, Steps, rows, tasks
  <2>6. CASE Analyze
    BY <2>6 DEF Analyze, TypeOK, Steps, rows, tasks
  <2>7. CASE BuildFails
    BY <2>7, EndTaskTypes DEF BuildFails, TypeOK, rows, EndTask
  <2>8. ASSUME NEW t \in Topics, ResolveTopic(t) PROVE TypeOK' /\ HasTask'
    <3>1. draft' \in [Topics -> Rows]
      BY <2>8, MergedSlots DEF ResolveTopic, TypeOK, Status
    <3> QED BY <2>8, <3>1 DEF ResolveTopic, TypeOK, rows, tasks
  <2>9. ASSUME NEW t \in Topics, NEW remark \in Remarks, NameTopic(t, remark)
        PROVE  TypeOK' /\ HasTask'
    <3>1. draft' \in [Topics -> Rows]
      BY <2>9, MergedSlots DEF NameTopic, TypeOK
    <3> QED BY <2>9, <3>1 DEF NameTopic, TypeOK, Steps, rows, tasks
  <2>10. ASSUME NEW t \in Topics, SupersedeTopic(t) PROVE TypeOK' /\ HasTask'
    <3>1. draft' \in [Topics -> Rows]
      BY <2>10, MergedSlots DEF SupersedeTopic, TypeOK, Status
    <3> QED BY <2>10, <3>1 DEF SupersedeTopic, TypeOK, rows, tasks
  <2>11. CASE FinishMerge
    BY <2>11 DEF FinishMerge, TypeOK, Steps, rows, tasks
  <2>12. CASE CheckAfterBuild
    <3>1. CASE EndTask
      BY <2>12, <3>1, EndTaskTypes DEF CheckAfterBuild, TypeOK, rows, EndTask
    <3>2. CASE /\ pc' = "writing" /\ pending' = {t \in Topics : Known(t)}
               /\ UNCHANGED <<tasks, task, clock, draft, named, kept>>
      BY <2>12, <3>2 DEF CheckAfterBuild, TypeOK, Steps, rows, tasks
    <3> QED BY <2>12, <3>1, <3>2 DEF CheckAfterBuild
  <2>13. ASSUME NEW t \in Topics, UpsertTopicSlot(t) PROVE TypeOK' /\ HasTask'
    <3>1. LimitedStatus(t) \in Status \cup {"none"}
      BY DEF LimitedStatus, TypeOK, Rows, Status
    <3>2. AtLeast(draft[t].mentions, table[t].mentions) \in Nat
      BY DEF AtLeast, TypeOK, Rows
    <3> DEFINE row == [draft[t] EXCEPT !.status = LimitedStatus(t),
                              !.mentions = AtLeast(draft[t].mentions, table[t].mentions)]
    <3>3. table' \in [Topics -> Rows]
      <4>1. draft[t] \in Rows
        BY DEF TypeOK
      <4>2. row \in Rows
        BY <3>1, <3>2, <4>1 DEF Rows
      <4>3. table' = [table EXCEPT ![t] = row]
        BY <2>13 DEF UpsertTopicSlot
      <4> HIDE DEF row
      <4> QED BY <4>2, <4>3 DEF TypeOK
    <3>4. heard' \in [Topics -> Nat] /\ kept' \in SUBSET Topics
      BY <2>13 DEF UpsertTopicSlot, TypeOK
    <3> QED BY <2>13, <3>3, <3>4 DEF UpsertTopicSlot, TypeOK, tasks
  <2>14. CASE WriteFails
    BY <2>14, EndTaskTypes DEF WriteFails, TypeOK, EndTask
  <2>15. CASE CommitEnds
    BY <2>15, EndTaskTypes DEF CommitEnds, TypeOK, EndTask, rows
  <2>16. CASE DeleteConversation
    BY <2>16, EmptyRows DEF DeleteConversation, TypeOK, tasks, worker
  <2>17. CASE UNCHANGED vars
    BY <2>17 DEF vars, rows, tasks, worker, TypeOK
  <2> QED BY <2>1, <2>2, <2>3, <2>4, <2>5, <2>6, <2>7, <2>8, <2>9, <2>10, <2>11, <2>12,
             <2>13, <2>14, <2>15, <2>16, <2>17
          DEF Next, Enqueue, RunWorker, Build, Commit
<1> QED BY <1>1, <1>2, PTL DEF Spec

-----------------------------------------------------------------------------
(* What the worker holds.                                                  *)

\* Slots are pending only while they are written, each of them was read or
\* named, and what is written already ranks no lower than what is pending and
\* is in the table as it was merged.
WorkerShape ==
  /\ pc # "writing" => pending = {} /\ kept = {}
  /\ pc \notin {"naming", "built", "writing"} => named = <<>>
  /\ pc \in {"idle", "taken", "reading"} => draft = NoDraft
  /\ \A t \in pending : Known(t)
  /\ \A t \in pending : t \notin kept
  /\ \A u \in kept : draft[u].status \in Open
  /\ alive => \A u \in kept : /\ table[u].status = draft[u].status
                             /\ table[u].importance = draft[u].importance
                             /\ table[u].seen = draft[u].seen
  /\ \A u \in kept, t \in pending : ~Precedes(draft[t], draft[u])

LEMMA WorkerShapes == Spec => []WorkerShape
<1> USE DEF WorkerShape
<1>1. Init => WorkerShape
  BY DEF Init
<1>2. TypeOK /\ HasTask /\ WorkerShape /\ [Next]_vars => WorkerShape'
  <2> SUFFICES ASSUME TypeOK, HasTask, WorkerShape, [Next]_vars PROVE WorkerShape'
    OBVIOUS
  <2>0. ASSUME EndTask PROVE WorkerShape'
    BY <2>0 DEF EndTask
  <2>1. ASSUME UNCHANGED <<pc, draft, named, pending, kept, table, alive>>
        PROVE  WorkerShape'
    BY <2>1 DEF Known
  <2>2. ASSUME pc # "writing", pc' # "writing", UNCHANGED <<pending, kept>>,
               pc' \in {"naming", "built"} \/ named' = named,
               pc \notin {"naming", "built"} \/ pc' \in {"naming", "built"},
               pc' \in {"idle", "taken", "reading"} => draft' = NoDraft
        PROVE  WorkerShape'
    BY <2>2
  <2>3. ASSUME NEW m \in Messages, Enqueue(m) PROVE WorkerShape'
    BY <2>1, <2>3 DEF Enqueue, Publish, Offer, rows, worker
  <2>4. CASE Take
    BY <2>2, <2>4 DEF Take
  <2>5. CASE CheckBeforeBuild
    BY <2>0, <2>2, <2>5 DEF CheckBeforeBuild
  <2>6. CASE ListActiveTopicSlots
    BY <2>2, <2>6 DEF ListActiveTopicSlots
  <2>7. CASE Analyze
    BY <2>2, <2>7 DEF Analyze
  <2>8. CASE BuildFails
    BY <2>0, <2>8 DEF BuildFails
  <2>9. ASSUME NEW t \in Topics, ResolveTopic(t) PROVE WorkerShape'
    BY <2>2, <2>9 DEF ResolveTopic
  <2>10. ASSUME NEW t \in Topics, NEW remark \in Remarks, NameTopic(t, remark)
         PROVE  WorkerShape'
    BY <2>2, <2>10 DEF NameTopic
  <2>11. ASSUME NEW t \in Topics, SupersedeTopic(t) PROVE WorkerShape'
    BY <2>2, <2>11 DEF SupersedeTopic
  <2>12. CASE FinishMerge
    BY <2>2, <2>12 DEF FinishMerge
  <2>13. CASE CheckAfterBuild
    <3>1. CASE pc' = "writing" /\ pending' = {t \in Topics : Known(t)}
                 /\ UNCHANGED <<tasks, task, clock, draft, named, kept>>
      BY <2>13, <3>1 DEF CheckAfterBuild, Known
    <3> QED BY <2>0, <2>13, <3>1 DEF CheckAfterBuild
  <2>14. ASSUME NEW t \in Topics, UpsertTopicSlot(t) PROVE WorkerShape'
    <3>1. /\ pc = "writing" /\ pc' = pc /\ alive /\ alive' = alive
          /\ t \in pending /\ pending' = pending \ {t}
          /\ draft' = draft /\ named' = named
          /\ \A u \in pending : ~Precedes(draft[u], draft[t])
      BY <2>14 DEF UpsertTopicSlot, BestPending
    <3>2. LimitedStatus(t) \in Open => LimitedStatus(t) = draft[t].status
      BY DEF LimitedStatus, Open
    <3>3. kept' = IF LimitedStatus(t) \in Open THEN kept \cup {t} ELSE kept
      BY <2>14 DEF UpsertTopicSlot
    <3>4. \A u \in kept' : draft[u].status \in Open
      BY <3>2, <3>3
    <3>5. \A u \in kept' : /\ table'[u].status = draft[u].status
                           /\ table'[u].importance = draft[u].importance
                           /\ table'[u].seen = draft[u].seen
      <4>1. /\ \A u \in Topics \ {t} : table'[u] = table[u]
            /\ table'[t].status = LimitedStatus(t)
            /\ table'[t].importance = draft[t].importance
            /\ table'[t].seen = draft[t].seen
        BY <2>14 DEF UpsertTopicSlot, TypeOK, Rows
      <4>2. t \notin kept /\ kept \subseteq Topics
        BY <3>1 DEF TypeOK
      <4> QED BY <3>1, <3>2, <3>3, <4>1, <4>2
    <3>6. \A u \in kept', v \in pending' : ~Precedes(draft[v], draft[u])
      BY <3>1, <3>3
    <3>7. \A v \in pending' : Known(v)' /\ v \notin kept'
      BY <3>1, <3>3 DEF Known
    <3> QED BY <3>1, <3>4, <3>5, <3>6, <3>7
  <2>15. CASE WriteFails
    BY <2>0, <2>15 DEF WriteFails
  <2>16. CASE CommitEnds
    BY <2>0, <2>16 DEF CommitEnds
  <2>17. CASE DeleteConversation
    BY <2>17 DEF DeleteConversation, worker, Known
  <2>18. CASE UNCHANGED vars
    BY <2>1, <2>18 DEF vars, rows, worker
  <2> QED BY <2>3, <2>4, <2>5, <2>6, <2>7, <2>8, <2>9, <2>10, <2>11, <2>12, <2>13, <2>14,
             <2>15, <2>16, <2>17, <2>18
          DEF Next, RunWorker, Build, Commit
<1> QED BY <1>1, <1>2, TopicTypes, PTL DEF Spec

\* A topic makes room only for better ones that are saved already.
THEOREM PushedOutForBetter == Spec => PushedOutByBetter
<1> DEFINE Better(t) == {u \in Topics \ {t} : /\ table[u].status = draft[t].status
                                              /\ ~Precedes(draft[t], table[u])}
           Pushed(t) == /\ table[t].status \in Open /\ table'[t].status = "archived"
                        /\ draft[t].status \in Open
<1>1. ASSUME TypeOK, WorkerShape, [Next]_vars, NEW t \in Topics, Pushed(t)
      PROVE  Cardinality(Better(t)) >= Limit
  <2>1. PICK v \in Topics : UpsertTopicSlot(v)
    <3>1. table' # table
      BY <1>1 DEF Open
    <3>2. ~DeleteConversation
      BY <1>1 DEF DeleteConversation, NoDraft, NoRow
    <3> QED BY <1>1, <3>1, <3>2
            DEF Next, Enqueue, Publish, Offer, RunWorker, Take, CheckBeforeBuild, Build,
                ListActiveTopicSlots, Analyze, BuildFails, ResolveTopic, NameTopic,
                SupersedeTopic, FinishMerge, CheckAfterBuild, Commit, WriteFails, CommitEnds,
                vars, rows
  <2>2. v = t
    BY <1>1, <2>1 DEF UpsertTopicSlot, TypeOK, Open
  <2>3. table'[t].status = LimitedStatus(t)
    BY <1>1, <2>1, <2>2 DEF UpsertTopicSlot, TypeOK, Rows
  <2>4. Cardinality(KeptWith(draft[t].status)) >= Limit
    BY <1>1, <2>3 DEF LimitedStatus, Open
  <2>5. t \in pending /\ alive
    BY <2>1, <2>2 DEF UpsertTopicSlot, BestPending
  <2>6. ASSUME NEW u \in KeptWith(draft[t].status) PROVE u \in Better(t)
    <3>1. u \in kept /\ draft[u].status = draft[t].status /\ u \in Topics
      BY <1>1, <2>6 DEF KeptWith, TypeOK
    <3>2. u # t
      BY <1>1, <2>5, <3>1 DEF WorkerShape
    <3>3. /\ table[u].status = draft[u].status
          /\ table[u].importance = draft[u].importance
          /\ table[u].seen = draft[u].seen
          /\ ~Precedes(draft[t], draft[u])
      BY <1>1, <2>5, <3>1 DEF WorkerShape
    <3>4. ~Precedes(draft[t], table[u])
      BY <3>3 DEF Precedes
    <3> QED BY <3>1, <3>2, <3>3, <3>4
  <2>7. IsFiniteSet(Better(t)) /\ KeptWith(draft[t].status) \subseteq Better(t)
    <3>1. Better(t) \subseteq Topics
      OBVIOUS
    <3> QED BY <2>6, <3>1, TopicsAreFinite, FS_Subset
  <2>8. /\ Cardinality(KeptWith(draft[t].status)) <= Cardinality(Better(t))
        /\ Cardinality(Better(t)) \in Nat
        /\ Cardinality(KeptWith(draft[t].status)) \in Nat
    <3> HIDE DEF Better
    <3> QED BY <2>7, FS_Subset, FS_CardinalityType
  <2> HIDE DEF Better
  <2> QED BY <2>4, <2>8, LimitIsPositive
<1>2. TypeOK /\ WorkerShape /\ [Next]_vars
        => [\A t \in Topics :
              table[t].status \in Open /\ table'[t].status = "archived"
                /\ draft[t].status \in Open
              => Cardinality({u \in Topics \ {t} : /\ table[u].status = draft[t].status
                                                   /\ ~Precedes(draft[t], table[u])})
                   >= Limit]_vars
  BY <1>1
<1> QED BY <1>2, TopicTypes, WorkerShapes, PTL DEF Spec, PushedOutByBetter

-----------------------------------------------------------------------------
(* The messages rows were last derived from.                               *)

\* Nothing is newer than what was published, and what the worker has merged is
\* of its own message or of one at least as new as that of the row.
Sources ==
  /\ \A m \in Messages : stage[m] # "new" => m <= latest
  /\ \A i \in 1..Len(queue) : queue[i] <= latest
  /\ task <= latest
  /\ \A t \in Topics : table[t].source <= latest
  /\ \A t \in Topics : draft[t].source <= latest
  /\ \A t \in Topics : Known(t) => \/ draft[t].source = task
                                  \/ table[t].source <= draft[t].source
  /\ pc = "writing" => \A t \in Topics : /\ table[t].source <= task
                                         /\ draft[t].source <= task

\* The numbers that name messages.
LEMMA SourceNumbers ==
  ASSUME TypeOK
  PROVE  /\ latest \in Nat /\ task \in Nat
         /\ \A m \in Messages : m \in Nat
         /\ \A t \in Topics : table[t].source \in Nat /\ draft[t].source \in Nat
         /\ \A i \in 1..Len(queue) : queue[i] \in Nat
<1>1. \A i \in 1..Len(queue) : queue[i] \in Messages
  BY DEF TypeOK
<1>2. Messages \cup {0} \subseteq Nat
  BY MessageIds
<1>3. \A t \in Topics : table[t].source \in Messages \cup {0} /\ draft[t].source \in Messages \cup {0}
  BY DEF TypeOK, Rows
<1>4. latest \in Messages \cup {0} /\ task \in Messages \cup {0}
  BY DEF TypeOK
<1> QED BY <1>1, <1>2, <1>3, <1>4

LEMMA SourcesOrdered == Spec => []Sources
<1> USE DEF Sources
<1>1. Init => Sources
  BY DEF Init, NoDraft, NoRow, Known
<1>2. TypeOK /\ TypeOK' /\ HasTask /\ WorkerShape /\ Sources /\ [Next]_vars => Sources'
  <2> SUFFICES ASSUME TypeOK, TypeOK', HasTask, WorkerShape, Sources, [Next]_vars
               PROVE  Sources'
    OBVIOUS
  <2> USE SourceNumbers
  <2>0. ASSUME EndTask, UNCHANGED table PROVE Sources'
    <3>1. \A m \in Messages : stage'[m] # "new" => stage[m] # "new" \/ m = task
      BY <2>0 DEF EndTask, TypeOK
    <3>2. \A t \in Topics : ~Known(t)' /\ draft'[t].source = 0
      BY <2>0 DEF EndTask, Known, NoDraft, NoRow
    <3> QED BY <2>0, <3>1, <3>2 DEF EndTask
  <2>1. ASSUME NEW m \in Messages, Publish(m) PROVE Sources'
    <3>1. /\ latest <= latest' /\ m <= latest' /\ latest' \in Nat
          /\ \A n \in Messages : stage'[n] # "new" => stage[n] # "new" \/ n = m
      BY <2>1 DEF Publish, TypeOK
    <3>2. UNCHANGED <<table, queue, pc, task, draft>>
      BY <2>1 DEF Publish, rows, worker
    <3> QED BY <3>1, <3>2 DEF Known
  <2>2. ASSUME NEW m \in Messages, Offer(m) PROVE Sources'
    <3>1. /\ stage[m] # "new"
          /\ \A n \in Messages : stage'[n] # "new" => stage[n] # "new" \/ n = m
      BY <2>2 DEF Offer, TypeOK
    <3>2. UNCHANGED <<latest, table, pc, task, draft>>
      BY <2>2 DEF Offer, rows, worker
    <3>3. \A i \in 1..Len(queue') : queue'[i] = m \/ (i \in 1..Len(queue) /\ queue'[i] = queue[i])
      <4>1. queue \in Seq(Messages)
        BY DEF TypeOK
      <4>2. queue' = Append(queue, m) \/ queue' = queue
        BY <2>2 DEF Offer
      <4> QED BY <4>1, <4>2
    <3> QED BY <3>1, <3>2, <3>3 DEF Known
  <2>3. CASE Take
    <3>1. queue \in Seq(Messages) /\ queue # <<>> /\ queue' = Tail(queue) /\ task' = Head(queue)
      BY <2>3 DEF Take, TypeOK
    <3>2. /\ Head(queue) = queue[1] /\ 1 \in 1..Len(queue)
          /\ \A i \in 1..Len(queue') : i + 1 \in 1..Len(queue) /\ queue'[i] = queue[i + 1]
      BY <3>1
    <3>3. UNCHANGED <<latest, stage, table, draft>> /\ pc' = "taken" /\ pc = "idle"
      BY <2>3 DEF Take, rows
    <3>4. \A t \in Topics : ~Known(t)
      BY <3>3 DEF WorkerShape, Known, NoDraft, NoRow
    <3> QED BY <3>1, <3>2, <3>3, <3>4 DEF Known
  <2>4. CASE CheckBeforeBuild
    BY <2>0, <2>4 DEF CheckBeforeBuild, rows, tasks, Known
  <2>5. CASE ListActiveTopicSlots
    <3>1. \A t \in Topics : draft'[t] = table[t] \/ (draft'[t].status = "none" /\ draft'[t].source = 0)
      BY <2>5 DEF ListActiveTopicSlots, NoRow
    <3>2. UNCHANGED <<latest, stage, queue, table, task>> /\ pc' = "analyzing"
      BY <2>5 DEF ListActiveTopicSlots, rows, tasks
    <3> QED BY <3>1, <3>2 DEF Known
  <2>6. CASE Analyze
    BY <2>6 DEF Analyze, rows, tasks, Known
  <2>7. CASE BuildFails
    BY <2>0, <2>7 DEF BuildFails, rows
  <2>8. ASSUME NEW t \in Topics, UNCHANGED <<latest, stage, queue, table, task>>,
               \A u \in Topics : u # t => draft'[u] = draft[u],
               draft'[t].source = task, pc' # "writing"
        PROVE  Sources'
    BY <2>8 DEF Known
  <2>9. \A t \in Topics, s \in Status : Touch(draft[t], s).source = task
    BY DEF Touch, TypeOK, Rows
  <2>10. ASSUME NEW t \in Topics, ResolveTopic(t) PROVE Sources'
    <3>1. draft'[t].source = task
      BY <2>9, <2>10 DEF ResolveTopic, TypeOK, Status
    <3> QED BY <2>8, <2>10, <3>1 DEF ResolveTopic, rows, tasks, TypeOK
  <2>11. ASSUME NEW t \in Topics, NEW remark \in Remarks, NameTopic(t, remark) PROVE Sources'
    <3>1. Mentioned(draft[t], remark).source = task
      BY DEF Mentioned, Touch, TypeOK, Rows
    <3>2. draft'[t].source = task
      BY <2>11, <3>1 DEF NameTopic, TypeOK
    <3> QED BY <2>8, <2>11, <3>2 DEF NameTopic, rows, tasks, TypeOK
  <2>12. ASSUME NEW t \in Topics, SupersedeTopic(t) PROVE Sources'
    <3>1. draft'[t].source = task
      BY <2>9, <2>12 DEF SupersedeTopic, TypeOK, Status
    <3> QED BY <2>8, <2>12, <3>1 DEF SupersedeTopic, rows, tasks, TypeOK
  <2>13. CASE FinishMerge
    BY <2>13 DEF FinishMerge, rows, tasks, Known
  <2>14. CASE CheckAfterBuild
    <3>1. CASE ~IsSuperseded(task) /\ UNCHANGED <<tasks, task, draft>>
      <4>1. latest <= task
        BY <3>1 DEF IsSuperseded
      <4> QED BY <2>14, <3>1, <4>1 DEF CheckAfterBuild, rows, tasks, Known
    <3> QED BY <2>0, <2>14, <3>1 DEF CheckAfterBuild, rows
  <2>15. ASSUME NEW t \in Topics, UpsertTopicSlot(t) PROVE Sources'
    <3>1. /\ UNCHANGED <<latest, stage, queue, task, draft>> /\ pc = "writing"
          /\ \A u \in Topics : table'[u].source = IF u = t THEN draft[u].source ELSE table[u].source
      BY <2>15 DEF UpsertTopicSlot, tasks, TypeOK, Rows
    <3> QED BY <3>1 DEF Known
  <2>16. CASE WriteFails
    BY <2>0, <2>16 DEF WriteFails
  <2>17. CASE CommitEnds
    BY <2>0, <2>17 DEF CommitEnds, rows
  <2>18. CASE DeleteConversation
    <3>1. \A t \in Topics : table'[t].source = 0
      BY <2>18 DEF DeleteConversation, NoDraft, NoRow
    <3> QED BY <2>18, <3>1 DEF DeleteConversation, tasks, worker, Known
  <2>19. CASE UNCHANGED vars
    BY <2>19 DEF vars, rows, tasks, worker, Known
  <2> QED BY <2>1, <2>2, <2>3, <2>4, <2>5, <2>6, <2>7, <2>10, <2>11, <2>12, <2>13, <2>14,
             <2>15, <2>16, <2>17, <2>18, <2>19
          DEF Next, Enqueue, RunWorker, Build, Commit
<1> QED BY <1>1, <1>2, TopicTypes, WorkerShapes, PTL DEF Spec

\* Analyses that end out of order never turn a row back to an older message.
THEOREM TopicsMoveForward == Spec => RowsMoveForward
<1>1. ASSUME TypeOK, WorkerShape, Sources, [Next]_vars, NEW t \in Topics,
             table'[t].status # "none"
      PROVE  table[t].source <= table'[t].source
  <2> USE SourceNumbers
  <2>1. CASE UNCHANGED table
    BY <1>1, <2>1
  <2>2. CASE DeleteConversation
    BY <1>1, <2>2 DEF DeleteConversation, NoDraft, NoRow
  <2>3. ASSUME NEW u \in Topics, UpsertTopicSlot(u) PROVE table[t].source <= table'[t].source
    <3>1. table'[t].source = IF t = u THEN draft[t].source ELSE table[t].source
      BY <1>1, <2>3 DEF UpsertTopicSlot, TypeOK, Rows
    <3>2. Known(u) /\ pc = "writing"
      BY <1>1, <2>3 DEF UpsertTopicSlot, BestPending, WorkerShape
    <3> QED BY <1>1, <3>1, <3>2 DEF Sources
  <2> QED BY <1>1, <2>1, <2>2, <2>3
          DEF Next, Enqueue, Publish, Offer, RunWorker, Take, CheckBeforeBuild, Build,
              ListActiveTopicSlots, Analyze, BuildFails, ResolveTopic, NameTopic,
              SupersedeTopic, FinishMerge, CheckAfterBuild, Commit, WriteFails, CommitEnds,
              vars, rows
<1>2. TypeOK /\ WorkerShape /\ Sources /\ [Next]_vars
        => [\A t \in Topics :
              table'[t].status # "none" => table[t].source <= table'[t].source]_vars
  BY <1>1
<1> QED BY <1>2, TopicTypes, WorkerShapes, SourcesOrdered, PTL DEF Spec, RowsMoveForward

-----------------------------------------------------------------------------
(* The limits.                                                             *)

OfStatus(s) == {t \in Topics : table[t].status = s}

\* While no commit was cut short the worker knows every open topic, and during
\* its commit those it has not written yet are the only ones beyond the limits.
Limits ==
  clean =>
    /\ pc # "writing" => \A s \in Open : Cardinality(OfStatus(s)) <= Limit
    /\ pc \in {"analyzing", "resolving", "naming", "built"} =>
         \A t \in OpenTopics : Known(t)
    /\ pc = "writing" =>
         \A t \in OpenTopics :
           t \in pending \/ (t \in kept /\ table[t].status = draft[t].status)
    /\ \A s \in Open : Cardinality(KeptWith(s)) <= Limit

\* Sets of topics are finite, and a subset has no more of them.
LEMMA TopicSets ==
  ASSUME NEW S \in SUBSET Topics, NEW T \in SUBSET S
  PROVE  /\ IsFiniteSet(S) /\ IsFiniteSet(T)
         /\ Cardinality(S) \in Nat /\ Cardinality(T) \in Nat
         /\ Cardinality(T) <= Cardinality(S)
         /\ Cardinality(T) = Cardinality(S) => T = S
<1>1. IsFiniteSet(S)
  BY TopicsAreFinite, FS_Subset
<1> QED BY <1>1, FS_Subset, FS_CardinalityType

\* Within the limits the query returns every open topic.
LEMMA SnapshotsAreWhole ==
  ASSUME \A s \in Open : Cardinality(OfStatus(s)) <= Limit, NEW S \in Snapshots
  PROVE  S = OpenTopics
<1>1. OpenTopics = OfStatus("active") \cup OfStatus("watch")
  BY DEF OpenTopics, OfStatus, Open
<1>2. /\ IsFiniteSet(OfStatus("active")) /\ IsFiniteSet(OfStatus("watch"))
      /\ Cardinality(OfStatus("active")) \in Nat /\ Cardinality(OfStatus("watch")) \in Nat
  BY TopicSets DEF OfStatus
<1>3. OfStatus("active") \cap OfStatus("watch") = {}
  BY DEF OfStatus
<1>4. Cardinality(OpenTopics) <= Limit + Limit
  <2>1. Cardinality({}) = 0
    BY FS_EmptySet
  <2>2. Cardinality(OpenTopics) =
          Cardinality(OfStatus("active")) + Cardinality(OfStatus("watch")) - 0
    BY <1>1, <1>2, <1>3, <2>1, FS_Union
  <2>3. /\ Cardinality(OfStatus("active")) <= Limit
        /\ Cardinality(OfStatus("watch")) <= Limit
    BY DEF Open
  <2> QED BY <1>2, <2>2, <2>3, LimitIsPositive
<1>5. S \subseteq OpenTopics /\ (S = OpenTopics \/ Cardinality(S) = SnapshotLimit)
  BY DEF Snapshots
<1>6. OpenTopics \subseteq Topics
  BY DEF OpenTopics
<1>7. CASE Cardinality(S) = SnapshotLimit
  <2>1. /\ Cardinality(S) \in Nat /\ Cardinality(OpenTopics) \in Nat
        /\ Cardinality(S) <= Cardinality(OpenTopics)
        /\ Cardinality(S) = Cardinality(OpenTopics) => S = OpenTopics
    BY <1>5, <1>6, TopicSets
  <2> QED BY <1>4, <1>7, <2>1, ReadsAllThatIsKept, LimitIsPositive
<1> QED BY <1>5, <1>7

LEMMA LimitsHold == Spec => []Limits
<1> USE DEF Limits
<1>0. Cardinality({}) = 0 /\ 0 <= Limit
  BY FS_EmptySet, LimitIsPositive
<1>1. Init => Limits
  <2> SUFFICES ASSUME Init PROVE Limits
    OBVIOUS
  <2>1. \A s \in Open : OfStatus(s) = {} /\ KeptWith(s) = {}
    BY DEF Init, OfStatus, KeptWith, NoDraft, NoRow, Open
  <2> QED BY <1>0, <2>1 DEF Init
<1>2. TypeOK /\ HasTask /\ WorkerShape /\ Limits /\ [Next]_vars => Limits'
  <2> SUFFICES ASSUME TypeOK, HasTask, WorkerShape, Limits, [Next]_vars PROVE Limits'
    OBVIOUS
  <2>0. ASSUME UNCHANGED table PROVE OpenTopics' = OpenTopics /\ \A s : OfStatus(s)' = OfStatus(s)
    BY <2>0 DEF OpenTopics, OfStatus
  <2>1. ASSUME kept' = {} PROVE \A s : KeptWith(s)' = {}
    BY <2>1 DEF KeptWith
  <2>2. ASSUME EndTask, UNCHANGED table, clean' => clean /\ pc # "writing" PROVE Limits'
    BY <1>0, <2>0, <2>1, <2>2 DEF EndTask
  <2>3. ASSUME UNCHANGED <<clean, table, pc, draft, pending, kept>> PROVE Limits'
    BY <2>3, <2>0 DEF KeptWith, Known
  <2>4. ASSUME UNCHANGED <<clean, table, kept>>, kept = {}, pc # "writing", pc' # "writing",
               \/ pc' \in {"taken", "reading"}
               \/ /\ pc \in {"analyzing", "resolving", "naming"}
                  /\ \A t \in Topics : Known(t) => Known(t)'
        PROVE  Limits'
    BY <1>0, <2>0, <2>1, <2>4 DEF OpenTopics
  <2>5. ASSUME NEW m \in Messages, Enqueue(m) PROVE Limits'
    BY <2>3, <2>5 DEF Enqueue, Publish, Offer, rows, worker
  <2>6. CASE Take
    BY <2>4, <2>6 DEF Take, rows, WorkerShape
  <2>7. CASE CheckBeforeBuild
    BY <2>2, <2>4, <2>7 DEF CheckBeforeBuild, rows, WorkerShape
  <2>8. CASE ListActiveTopicSlots
    <3>1. /\ pc = "reading" /\ pc' = "analyzing" /\ kept' = kept /\ kept = {}
          /\ UNCHANGED <<clean, table>>
      BY <2>8 DEF ListActiveTopicSlots, rows, WorkerShape
    <3>2. ASSUME clean PROVE \A t \in OpenTopics : Known(t)'
      <4>1. PICK S \in Snapshots :
              draft' = [t \in Topics |-> IF t \in S THEN table[t] ELSE NoRow]
        BY <2>8 DEF ListActiveTopicSlots
      <4>2. S = OpenTopics
        BY <3>1, <3>2, SnapshotsAreWhole
      <4> QED BY <4>1, <4>2 DEF Known, OpenTopics, Open
    <3> QED BY <1>0, <2>0, <2>1, <3>1, <3>2
  <2>9. CASE Analyze
    BY <2>4, <2>9 DEF Analyze, rows, WorkerShape, Known
  <2>10. CASE BuildFails
    BY <2>2, <2>10 DEF BuildFails, rows
  <2>11. ASSUME NEW t \in Topics, NEW r \in Rows, draft' = [draft EXCEPT ![t] = r],
                r.status # "none", UNCHANGED rows, UNCHANGED kept,
                pc \in {"resolving", "naming"}, pc' \in {pc, "naming"}
         PROVE  Limits'
    <3>1. \A u \in Topics : Known(u) => Known(u)'
      BY <2>11 DEF Known, TypeOK
    <3> QED BY <2>4, <2>11, <3>1 DEF rows, WorkerShape
  <2>12. ASSUME NEW t \in Topics, NEW s \in Status
         PROVE  pc # "idle" => Touch(draft[t], s) \in Rows /\ Touch(draft[t], s).status # "none"
    BY MergedSlots DEF HasTask, TypeOK, Status, Open
  <2>13. ASSUME NEW t \in Topics, ResolveTopic(t) PROVE Limits'
    BY <2>11, <2>12, <2>13 DEF ResolveTopic, Status
  <2>14. ASSUME NEW t \in Topics, NEW remark \in Remarks, NameTopic(t, remark)
         PROVE  Limits'
    <3>1. /\ Mentioned(draft[t], remark) \in Rows
          /\ Mentioned(draft[t], remark).status # "none"
      <4>1. task \in Messages /\ draft[t] \in Rows
        BY <2>14 DEF NameTopic, HasTask, TypeOK
      <4> QED BY <4>1, MergedSlots DEF Status, Open
    <3> QED BY <2>11, <2>14, <3>1 DEF NameTopic
  <2>15. ASSUME NEW t \in Topics, SupersedeTopic(t) PROVE Limits'
    BY <2>11, <2>12, <2>15 DEF SupersedeTopic, Status
  <2>16. CASE FinishMerge
    BY <2>4, <2>16 DEF FinishMerge, rows, WorkerShape, Known
  <2>17. CASE CheckAfterBuild
    <3>1. CASE pc' = "writing" /\ pending' = {t \in Topics : Known(t)} /\ UNCHANGED kept
      <4>1. pc = "built" /\ kept = {} /\ UNCHANGED <<clean, table>>
        BY <2>17 DEF CheckAfterBuild, rows, WorkerShape
      <4>2. clean => \A t \in OpenTopics : t \in pending'
        BY <3>1, <4>1 DEF OpenTopics
      <4> QED BY <1>0, <2>0, <2>1, <3>1, <4>1, <4>2
    <3> QED BY <2>2, <2>17, <3>1 DEF CheckAfterBuild, rows
  <2>18. ASSUME NEW t \in Topics, UpsertTopicSlot(t) PROVE Limits'
    <3>1. /\ pc = "writing" /\ pc' = pc /\ UNCHANGED <<clean, draft>>
          /\ pending' = pending \ {t} /\ t \in pending /\ t \notin kept
          /\ \A u \in Topics \ {t} : table'[u] = table[u]
          /\ table'[t].status = LimitedStatus(t)
          /\ kept' = IF LimitedStatus(t) \in Open THEN kept \cup {t} ELSE kept
      BY <2>18 DEF UpsertTopicSlot, BestPending, WorkerShape, TypeOK, Rows
    <3>2. LimitedStatus(t) \in Open => LimitedStatus(t) = draft[t].status
      BY DEF LimitedStatus, Open
    <3>3. \A u \in OpenTopics' : u # t => u \in OpenTopics
      BY <3>1 DEF OpenTopics
    <3>4. clean => \A u \in OpenTopics' :
                     u \in pending' \/ (u \in kept' /\ table'[u].status = draft'[u].status)
      BY <3>1, <3>2, <3>3 DEF OpenTopics
    <3>5. ASSUME NEW s \in Open, clean PROVE Cardinality(KeptWith(s)') <= Limit
      <4>1. CASE LimitedStatus(t) = s
        <5>1. draft[t].status = s /\ KeptWith(s)' = KeptWith(s) \cup {t} /\ t \notin KeptWith(s)
          BY <3>1, <3>2, <4>1 DEF KeptWith
        <5>2. ~(Cardinality(KeptWith(s)) >= Limit)
          BY <4>1, <5>1 DEF LimitedStatus, Open
        <5>3. IsFiniteSet(KeptWith(s)) /\ Cardinality(KeptWith(s)) \in Nat
          <6>1. KeptWith(s) \subseteq Topics
            BY DEF KeptWith, TypeOK
          <6> QED BY <6>1, TopicSets
        <5>4. Cardinality(KeptWith(s) \cup {t}) = Cardinality(KeptWith(s)) + 1
          BY <5>1, <5>3, FS_AddElement
        <5> QED BY <5>1, <5>2, <5>3, <5>4, LimitIsPositive
      <4>2. CASE LimitedStatus(t) # s
        <5>1. KeptWith(s)' = KeptWith(s)
          BY <3>1, <3>2, <4>2 DEF KeptWith
        <5> QED BY <3>5, <5>1
      <4> QED BY <4>1, <4>2
    <3> QED BY <3>1, <3>4, <3>5
  <2>19. CASE WriteFails
    BY <2>2, <2>19 DEF WriteFails
  <2>20. CASE CommitEnds
    <3>1. pc = "writing" /\ pending = {} /\ pc' = "idle" /\ kept' = {} /\ UNCHANGED <<clean, table>>
      BY <2>20 DEF CommitEnds, EndTask, rows
    <3>2. ASSUME clean, NEW s \in Open PROVE Cardinality(OfStatus(s)) <= Limit
      <4>1. OfStatus(s) \subseteq KeptWith(s)
        BY <3>1, <3>2 DEF OfStatus, KeptWith, OpenTopics
      <4>2. KeptWith(s) \subseteq Topics
        BY DEF KeptWith, TypeOK
      <4>3. /\ Cardinality(KeptWith(s)) <= Limit
            /\ Cardinality(OfStatus(s)) <= Cardinality(KeptWith(s))
            /\ Cardinality(OfStatus(s)) \in Nat /\ Cardinality(KeptWith(s)) \in Nat
        BY <3>2, <4>1, <4>2, TopicSets
      <4> QED BY <4>3, LimitIsPositive
    <3> QED BY <1>0, <2>0, <2>1, <3>1, <3>2
  <2>21. CASE DeleteConversation
    <3>1. OpenTopics' = {} /\ \A s \in Open : OfStatus(s)' = {}
      BY <2>21 DEF DeleteConversation, OpenTopics, OfStatus, NoDraft, NoRow, Open
    <3>2. \A s : KeptWith(s)' = KeptWith(s)
      BY <2>21 DEF DeleteConversation, worker, KeptWith
    <3> QED BY <1>0, <2>21, <3>1, <3>2 DEF DeleteConversation, worker
  <2>22. CASE UNCHANGED vars
    BY <2>3, <2>22 DEF vars, rows, worker
  <2> QED BY <2>5, <2>6, <2>7, <2>8, <2>9, <2>10, <2>13, <2>14, <2>15, <2>16, <2>17, <2>18,
             <2>19, <2>20, <2>21, <2>22
          DEF Next, RunWorker, Build, Commit
<1> QED BY <1>1, <1>2, TopicTypes, WorkerShapes, PTL DEF Spec

\* Between commits that were not cut short no kind has more open topics than the
\* limit, whatever the model answers and however many topics there are.
THEOREM TopicLimits == Spec => []LimitsKept
<1>1. Limits => LimitsKept
  BY DEF Limits, LimitsKept, OfStatus
<1> QED BY <1>1, LimitsHold, PTL

-----------------------------------------------------------------------------
(* Mentions.                                                               *)

\* While no commit was cut short a row, and a slot of the merge, has been
\* mentioned at least as often as analyses were written that named it.
Counts ==
  clean =>
    /\ \A t \in OpenTopics : heard[t] <= table[t].mentions
    /\ \A t \in Topics \ OpenTopics : heard[t] = 0
    /\ \A t \in Topics :
         pc \in {"analyzing", "resolving", "naming", "built"} \/ t \in pending =>
           /\ heard[t] <= draft[t].mentions
           /\ (\E n \in 1..Len(named) : named[n] = t) => heard[t] + 1 <= draft[t].mentions

LEMMA MentionsCounted == Spec => []Counts
<1> USE DEF Counts
<1>1. Init => Counts
  BY DEF Init, OpenTopics, NoDraft, NoRow, Open
<1>2. TypeOK /\ HasTask /\ WorkerShape /\ Limits /\ Counts /\ [Next]_vars => Counts'
  <2> SUFFICES ASSUME TypeOK, HasTask, WorkerShape, Limits, Counts, [Next]_vars PROVE Counts'
    OBVIOUS
  <2>0. \A t \in Topics : /\ heard[t] \in Nat /\ table[t].mentions \in Nat
                          /\ draft[t].mentions \in Nat
    BY DEF TypeOK, Rows
  <2>1. ASSUME UNCHANGED <<clean, table, heard>>, pending' = {},
               pc' \in {"idle", "taken", "reading"}
        PROVE  Counts'
    BY <2>1 DEF OpenTopics
  <2>2. ASSUME EndTask, UNCHANGED <<table, heard>>, clean' => clean PROVE Counts'
    BY <2>2 DEF EndTask, OpenTopics
  <2>3. ASSUME UNCHANGED <<clean, table, heard, named>>,
               \A t \in Topics : draft'[t].mentions = draft[t].mentions,
               \/ UNCHANGED <<pc, pending>>
               \/ pc \in {"analyzing", "resolving", "naming", "built"}
        PROVE  Counts'
    BY <2>3 DEF OpenTopics
  <2>4. ASSUME NEW m \in Messages, Enqueue(m) PROVE Counts'
    BY <2>3, <2>4 DEF Enqueue, Publish, Offer, rows, worker
  <2>5. CASE Take
    BY <2>1, <2>5 DEF Take, rows, WorkerShape
  <2>6. CASE CheckBeforeBuild
    BY <2>1, <2>2, <2>6 DEF CheckBeforeBuild, rows, WorkerShape
  <2>7. CASE ListActiveTopicSlots
    <3>1. pc = "reading" /\ named' = <<>> /\ UNCHANGED <<clean, table, heard>>
          /\ pending' = {}
      BY <2>7 DEF ListActiveTopicSlots, rows, WorkerShape
    <3>2. ASSUME clean, NEW t \in Topics PROVE heard[t] <= draft'[t].mentions
      <4>1. PICK S \in Snapshots :
              draft' = [u \in Topics |-> IF u \in S THEN table[u] ELSE NoRow]
        BY <2>7 DEF ListActiveTopicSlots
      <4>2. S = OpenTopics
        BY <3>1, <3>2, SnapshotsAreWhole DEF Limits
      <4>3. CASE t \in OpenTopics
        BY <3>2, <4>1, <4>2, <4>3
      <4>4. CASE t \notin OpenTopics
        BY <3>2, <4>1, <4>2, <4>4 DEF NoRow
      <4> QED BY <4>3, <4>4
    <3>3. 1..Len(named') = {}
      BY <3>1
    <3> QED BY <3>1, <3>2, <3>3 DEF OpenTopics
  <2>8. CASE Analyze
    BY <2>3, <2>8 DEF Analyze, rows
  <2>9. CASE BuildFails
    BY <2>2, <2>9 DEF BuildFails, rows
  <2>10. ASSUME NEW t \in Topics, NEW s \in Status,
                draft' = [draft EXCEPT ![t] = Touch(draft[t], s)],
                UNCHANGED <<rows, named>>, pc \in {"resolving", "naming"}
         PROVE  Counts'
    <3>1. \A u \in Topics : draft'[u].mentions = draft[u].mentions
      BY <2>10 DEF Touch, TypeOK, Rows
    <3> QED BY <2>3, <2>10, <3>1 DEF rows
  <2>11. ASSUME NEW t \in Topics, ResolveTopic(t) PROVE Counts'
    BY <2>10, <2>11 DEF ResolveTopic, Status
  <2>12. ASSUME NEW t \in Topics, NEW remark \in Remarks, NameTopic(t, remark) PROVE Counts'
    <3>1. task \in Messages /\ draft[t] \in Rows /\ named \in Seq(Topics)
      BY <2>12 DEF NameTopic, HasTask, TypeOK
    <3>2. Mentioned(draft[t], remark).mentions = draft[t].mentions + 1
      BY <3>1, MergedSlots
    <3>3. /\ pc \in {"resolving", "naming"} /\ pc' = "naming" /\ named' = Append(named, t)
          /\ UNCHANGED <<clean, table, heard, pending>>
          /\ draft' = [draft EXCEPT ![t] = Mentioned(draft[t], remark)]
      BY <2>12 DEF NameTopic, rows
    <3>4. \A u \in Topics : draft'[u].mentions =
                             IF u = t THEN draft[u].mentions + 1 ELSE draft[u].mentions
      BY <3>2, <3>3 DEF TypeOK
    <3>5. \A u : (\E n \in 1..Len(named') : named'[n] = u)
                   => u = t \/ \E n \in 1..Len(named) : named[n] = u
      BY <3>1, <3>3
    <3> QED BY <2>0, <3>3, <3>4, <3>5 DEF OpenTopics
  <2>13. ASSUME NEW t \in Topics, SupersedeTopic(t) PROVE Counts'
    BY <2>10, <2>13 DEF SupersedeTopic, Status
  <2>14. CASE FinishMerge
    BY <2>3, <2>14 DEF FinishMerge, rows
  <2>15. CASE CheckAfterBuild
    <3>1. CASE pc = "built" /\ UNCHANGED <<rows, draft, named>>
      BY <2>3, <3>1 DEF rows
    <3> QED BY <2>2, <2>15, <3>1 DEF CheckAfterBuild, rows
  <2>16. ASSUME NEW t \in Topics, UpsertTopicSlot(t) PROVE Counts'
    <3>1. /\ pc = "writing" /\ pc' = pc /\ UNCHANGED <<clean, draft, named>>
          /\ pending' = pending \ {t} /\ t \in pending
          /\ \A u \in Topics \ {t} : table'[u] = table[u] /\ heard'[u] = heard[u]
          /\ table'[t].status = LimitedStatus(t)
          /\ table'[t].mentions = AtLeast(draft[t].mentions, table[t].mentions)
          /\ heard'[t] = IF LimitedStatus(t) \notin Open THEN 0
                         ELSE IF \E n \in 1..Len(named) : named[n] = t THEN heard[t] + 1
                              ELSE heard[t]
      BY <2>16 DEF UpsertTopicSlot, BestPending, TypeOK, Rows
    <3>2. \A u \in Topics : u # t => (u \in OpenTopics' <=> u \in OpenTopics)
      BY <3>1 DEF OpenTopics
    <3>3. t \in OpenTopics' <=> LimitedStatus(t) \in Open
      BY <3>1 DEF OpenTopics
    <3>4. clean => (LimitedStatus(t) \in Open => heard'[t] <= table'[t].mentions)
      BY <2>0, <3>1 DEF AtLeast
    <3>5. clean => \A u \in OpenTopics' : heard'[u] <= table'[u].mentions
      BY <3>1, <3>2, <3>3, <3>4 DEF OpenTopics
    <3>6. clean => \A u \in Topics \ OpenTopics' : heard'[u] = 0
      BY <3>1, <3>2, <3>3
    <3>7. clean => \A u \in pending' :
            /\ heard'[u] <= draft'[u].mentions
            /\ (\E n \in 1..Len(named) : named[n] = u) => heard'[u] + 1 <= draft'[u].mentions
      BY <3>1 DEF TypeOK
    <3> QED BY <3>1, <3>5, <3>6, <3>7
  <2>17. CASE WriteFails
    BY <2>2, <2>17 DEF WriteFails
  <2>18. CASE CommitEnds
    BY <2>2, <2>18 DEF CommitEnds, rows
  <2>19. CASE DeleteConversation
    <3>1. /\ OpenTopics' = {} /\ \A t \in Topics : heard'[t] = 0
          /\ UNCHANGED <<clean, pc, draft, named, pending>>
      BY <2>19 DEF DeleteConversation, OpenTopics, NoDraft, NoRow, Open, worker
    <3> QED BY <2>0, <3>1
  <2>20. CASE UNCHANGED vars
    BY <2>3, <2>20 DEF vars, rows, worker
  <2> QED BY <2>4, <2>5, <2>6, <2>7, <2>8, <2>9, <2>11, <2>12, <2>13, <2>14, <2>15, <2>16,
             <2>17, <2>18, <2>19, <2>20
          DEF Next, RunWorker, Build, Commit
<1> QED BY <1>1, <1>2, TopicTypes, WorkerShapes, LimitsHold, PTL DEF Spec

\* A topic two written analyses have named since it was opened is not hidden.
THEOREM RecurringTopicsShow == Spec => []HiddenOnlyOnce
<1>1. TypeOK /\ Counts => HiddenOnlyOnce
  <2> SUFFICES ASSUME TypeOK, Counts, clean, NEW t \in Topics, Hidden(t) PROVE heard[t] <= 1
    BY DEF HiddenOnlyOnce
  <2>1. t \in OpenTopics /\ table[t].mentions < 2
    BY DEF Hidden, OpenTopics
  <2>2. heard[t] <= table[t].mentions /\ heard[t] \in Nat /\ table[t].mentions \in Nat
    BY <2>1 DEF Counts, TypeOK, Rows
  <2> QED BY <2>1, <2>2
<1> QED BY <1>1, TopicTypes, MentionsCounted, PTL
=============================================================================
