--------------------------- MODULE ProfileMemoryProofs ---------------------------
(***************************************************************************)
(* The profile for any slots, values, messages, commands and bounds: the   *)
(* state is well typed, a confirmed value is written unless a call fails,  *)
(* and while none fails names are learned in the order they are said.      *)
(***************************************************************************)
EXTENDS ProfileMemory, TLAPS

\* What the channel holds once a task was enqueued, or not accepted.
LEMMA Enqueued ==
  ASSUME TypeOK, NEW kind \in Kinds, NEW version \in Nat, Enqueue(kind, version)
  PROVE  /\ latest' \in [Kinds -> Nat] /\ newest' \in [Kinds -> Nat]
         /\ queue' \in Seq(Tasks)
         /\ \/ queue' = queue
            \/ /\ Len(queue') = Len(queue) + 1
               /\ queue'[Len(queue) + 1] = [kind |-> kind, version |-> version]
               /\ \A i \in 1..Len(queue) : queue'[i] = queue[i]
<1> DEFINE t == [kind |-> kind, version |-> version]
<1>1. t \in Tasks /\ queue \in Seq(Tasks)
  BY DEF Tasks, TypeOK
<1>2. queue' = queue \/ queue' = Append(queue, t)
  BY DEF Enqueue
<1>3. latest' \in [Kinds -> Nat] /\ newest' \in [Kinds -> Nat]
  BY DEF Enqueue, TypeOK
<1> HIDE DEF t
<1>4. /\ Append(queue, t) \in Seq(Tasks)
      /\ Len(Append(queue, t)) = Len(queue) + 1
      /\ Append(queue, t)[Len(queue) + 1] = t
      /\ \A i \in 1..Len(queue) : Append(queue, t)[i] = queue[i]
  BY <1>1
<1> QED BY <1>1, <1>2, <1>3, <1>4 DEF t

\* What Take leaves of the channel.
LEMMA Taken ==
  ASSUME TypeOK, Take
  PROVE  /\ task' \in Tasks /\ queue' \in Seq(Tasks)
         /\ 1 \in 1..Len(queue) /\ task' = queue[1]
         /\ \A i \in 1..Len(queue') : i + 1 \in 1..Len(queue) /\ queue'[i] = queue[i + 1]
<1>1. queue \in Seq(Tasks) /\ queue # <<>> /\ task' = Head(queue) /\ queue' = Tail(queue)
  BY DEF TypeOK, Take
<1> QED BY <1>1

\* The worker is well typed when it has ended a task.
LEMMA EndTaskTypes ==
  ASSUME EndTask, TypeOK
  PROVE  /\ pc' = "idle" /\ pc' \in Steps /\ task' \in Tasks /\ todo' \in SUBSET Slots
         /\ value' \in Some /\ top' \in [Slots -> Some] /\ decisions' \in 0..MaxDecisions
         /\ patch' \in [Slots -> Some]
BY BoundsAreNumbers DEF EndTask, TypeOK, Steps, Tasks, NoTask, Kinds, Some, Empty

\* What a status or a merge leaves of the candidates.
LEMMA CandidateTypes ==
  ASSUME TypeOK
  PROVE  /\ \A s \in Slots, v \in Values, x \in {"active", "confirmed", "dismissed"} :
               SetStatus(s, v, x) => cand' \in [Slots -> [Values -> Candidates]]
         /\ \A s \in Slots, v \in Values, e \in Evidence :
               /\ Merged(cand[s][v], e) \in Candidates
               /\ Merged(cand[s][v], e).seen = task.version
<1> USE DEF TypeOK
<1>0. \A s \in Slots, v \in Values : cand[s] \in [Values -> Candidates] /\ cand[s][v] \in Candidates
  OBVIOUS
<1>1. ASSUME NEW s \in Slots, NEW v \in Values, NEW x \in {"active", "confirmed", "dismissed"},
             SetStatus(s, v, x)
      PROVE  cand' \in [Slots -> [Values -> Candidates]]
  <2>1. [cand[s][v] EXCEPT !.status = x] \in Candidates
    <3>1. x \in {"none", "active", "confirmed", "dismissed"}
      OBVIOUS
    <3> DEFINE c == cand[s][v]
    <3>2. c \in Candidates
      BY <1>0
    <3> HIDE DEF c
    <3>3. [c EXCEPT !.status = x] \in Candidates
      BY ONLY <3>1, <3>2 DEF Candidates
    <3> QED BY <3>3 DEF c
  <2>2. [cand[s] EXCEPT ![v] = [cand[s][v] EXCEPT !.status = x]] \in [Values -> Candidates]
    BY <1>0, <2>1
  <2>3. \/ cand' = cand
        \/ cand' = [cand EXCEPT ![s] = [cand[s] EXCEPT ![v] = [cand[s][v] EXCEPT !.status = x]]]
    BY <1>1 DEF SetStatus
  <2> QED BY <2>2, <2>3
<1>2. ASSUME NEW s \in Slots, NEW v \in Values, NEW e \in Evidence
      PROVE  /\ Merged(cand[s][v], e) \in Candidates
             /\ Merged(cand[s][v], e).seen = task.version
  <2>1. cand[s][v] \in Candidates /\ e \in 0..2 /\ task.version \in Nat
    BY <1>0, EvidenceIsRanked DEF Tasks
  <2> QED BY <2>1 DEF Merged, Candidates, AtLeast
<1> QED BY <1>1, <1>2

\* Every reachable state of the tables, the handlers and the worker is well typed.
THEOREM ProfileTypes == Spec => []TypeOK
<1> USE BoundsAreNumbers
<1>1. Init => TypeOK
  <2> SUFFICES ASSUME Init PROVE TypeOK
    OBVIOUS
  <2>1. NoCandidate \in Candidates /\ NoTask \in Tasks
    BY DEF NoCandidate, Candidates, NoTask, Tasks, Kinds
  <2>2. cand \in [Slots -> [Values -> Candidates]] /\ task \in Tasks
    BY <2>1 DEF Init
  <2>3. profile \in [Slots -> Some] /\ top \in [Slots -> Some] /\ patch \in [Slots -> Some]
    BY DEF Init, Empty, Some
  <2>4. value \in Some /\ queue \in Seq(Tasks) /\ pc \in Steps /\ pc = "idle"
    BY DEF Init, Some, Steps
  <2>5. /\ turn \in 0..N /\ forced \in 0..MaxForced /\ changes \in 0..MaxChanges
        /\ decisions \in 0..MaxDecisions /\ faults \in 0..MaxFaults
    BY DEF Init
  <2>6. /\ due \in BOOLEAN /\ latest \in [Kinds -> Nat] /\ newest \in [Kinds -> Nat]
        /\ todo \in SUBSET Slots /\ unwritten \in SUBSET (Slots \X Values)
    BY DEF Init
  <2> QED BY <2>2, <2>3, <2>4, <2>5, <2>6 DEF TypeOK
<1>2. TypeOK /\ [Next]_vars => TypeOK'
  <2> SUFFICES ASSUME TypeOK, [Next]_vars PROVE TypeOK'
    OBVIOUS
  <2>0. ASSUME EndTask,
               profile' \in [Slots -> Some], cand' \in [Slots -> [Values -> Candidates]],
               turn' \in 0..N, due' \in BOOLEAN, latest' \in [Kinds -> Nat],
               newest' \in [Kinds -> Nat], queue' \in Seq(Tasks), forced' \in 0..MaxForced,
               changes' \in 0..MaxChanges, unwritten' \in SUBSET (Slots \X Values),
               faults' \in 0..MaxFaults
        PROVE  TypeOK'
    BY <2>0, EndTaskTypes DEF TypeOK
  <2>1. ASSUME Fails PROVE faults' \in 0..MaxFaults
    BY <2>1 DEF Fails, TypeOK
  <2>2. CASE CaptureUserSignals
    <3>1. turn' \in 0..N /\ turn' \in Nat /\ due' \in BOOLEAN
      <4>1. turn \in 0..N /\ turn < N /\ turn' = turn + 1 /\ N \in Nat
        BY <2>2 DEF CaptureUserSignals, TypeOK
      <4>2. due' \in BOOLEAN
        BY <2>2 DEF CaptureUserSignals
      <4> QED BY <4>1, <4>2
    <3>2. latest' \in [Kinds -> Nat] /\ newest' \in [Kinds -> Nat] /\ queue' \in Seq(Tasks)
      BY <2>2, <3>1, Enqueued DEF CaptureUserSignals, TypeOK, Kinds
    <3> QED BY <2>2, <3>1, <3>2 DEF CaptureUserSignals, TypeOK, tables, worker
  <2>3. CASE EnqueueProfileBatchReview
    <3>1. latest' \in [Kinds -> Nat] /\ newest' \in [Kinds -> Nat] /\ queue' \in Seq(Tasks)
      <4>1. turn \in Nat /\ Enqueue("review", turn) /\ "review" \in Kinds
        BY <2>3 DEF EnqueueProfileBatchReview, TypeOK, Kinds
      <4> QED BY <4>1, Enqueued
    <3> QED BY <2>3, <3>1 DEF EnqueueProfileBatchReview, TypeOK, tables, worker
  <2>4. CASE ForceReview
    <3>1. forced' \in 0..MaxForced /\ ForcedVersion(forced') \in Nat
      BY <2>4 DEF ForceReview, TypeOK, ForcedVersion
    <3>2. latest' \in [Kinds -> Nat] /\ newest' \in [Kinds -> Nat] /\ queue' \in Seq(Tasks)
      BY <2>4, <3>1, Enqueued DEF ForceReview, Kinds
    <3> QED BY <2>4, <3>1, <3>2 DEF ForceReview, TypeOK, tables, worker
  <2>5. ASSUME NEW s \in Slots, NEW v \in Values, UpdateMyInfo(s, v) PROVE TypeOK'
    BY <2>5 DEF UpdateMyInfo, TypeOK, Some, handler, worker
  <2>6. CASE Take
    BY <2>6, Taken DEF Take, TypeOK, Steps, tables
  <2>7. CASE CheckBeforeBuild
    <3>1. CASE EndTask
      BY <2>0, <2>7, <3>1 DEF CheckBeforeBuild, TypeOK, tables, handler
    <3> QED BY <2>7, <3>1 DEF CheckBeforeBuild, TypeOK, Steps, tables, handler
  <2>8. CASE BuildFails
    BY <2>0, <2>8 DEF BuildFails, TypeOK, tables, handler
  <2>9. CASE Extract
    BY <2>9 DEF Extract, TypeOK, Steps, tables, handler
  <2>10. CASE Review
    <3>1. CASE EndTask
      BY <2>0, <2>10, <3>1 DEF Review, TypeOK, tables, handler
    <3> QED BY <2>10, <3>1 DEF Review, TypeOK, Steps, tables, handler
  <2>11. CASE CheckAfterBuild
    <3>1. CASE EndTask
      BY <2>0, <2>11, <3>1 DEF CheckAfterBuild, TypeOK, tables, handler
    <3> QED BY <2>11, <3>1 DEF CheckAfterBuild, TypeOK, Steps, tables, handler
  <2>12. ASSUME NEW s \in Slots, NothingFound(s) PROVE TypeOK'
    BY <2>12 DEF NothingFound, TypeOK, tables, handler
  <2>13. ASSUME NEW s \in Slots, NEW v \in Values, NEW e \in Evidence,
                MergeProfileCandidate(s, v, e)
         PROVE  TypeOK'
    <3>1. cand' \in [Slots -> [Values -> Candidates]]
      <4>1. Merged(cand[s][v], e) \in Candidates
        BY CandidateTypes
      <4>2. cand' = cand \/ cand' = [cand EXCEPT ![s] = [cand[s] EXCEPT ![v] = Merged(cand[s][v], e)]]
        BY <2>13 DEF MergeProfileCandidate
      <4>3. cand[s] \in [Values -> Candidates]
        BY DEF TypeOK
      <4>4. [cand[s] EXCEPT ![v] = Merged(cand[s][v], e)] \in [Values -> Candidates]
        BY <4>1, <4>3
      <4> QED BY <4>2, <4>4 DEF TypeOK
    <3>2. faults' \in 0..MaxFaults
      BY <2>1, <2>13 DEF MergeProfileCandidate, TypeOK
    <3>3. pc' \in Steps /\ value' \in Some /\ (pc' \in {"promoting", "confirming"} => value' \in Values)
      BY <2>13 DEF MergeProfileCandidate, TypeOK, Steps, Some
    <3> QED BY <2>13, <3>1, <3>2, <3>3 DEF MergeProfileCandidate, TypeOK, handler
  <2>14. CASE PromoteName
    <3>1. profile' \in [Slots -> Some]
      BY <2>14, NameIsASlot DEF PromoteName, TypeOK, Some
    <3>2. faults' \in 0..MaxFaults
      BY <2>1, <2>14 DEF PromoteName, TypeOK
    <3> QED BY <2>14, <3>1, <3>2 DEF PromoteName, TypeOK, Steps, Some, handler
  <2>15. CASE ConfirmName
    <3>1. cand' \in [Slots -> [Values -> Candidates]]
      BY <2>15, CandidateTypes, NameIsASlot DEF ConfirmName, TypeOK
    <3>2. faults' \in 0..MaxFaults
      BY <2>1, <2>15 DEF ConfirmName, TypeOK
    <3> QED BY <2>15, <3>1, <3>2 DEF ConfirmName, TypeOK, Steps, Some, handler
  <2>16. CASE ExtractionEnds
    BY <2>0, <2>16 DEF ExtractionEnds, TypeOK, tables, handler
  <2>17. ASSUME NEW s \in Slots, Decides(s)
         PROVE  decisions' \in 0..MaxDecisions /\ top[s] \in Values
    BY <2>17 DEF Decides, TypeOK, Some
  <2>18. ASSUME NEW s \in Slots, NEW v \in Values, Confirm(s, v) PROVE TypeOK'
    <3>1. decisions' \in 0..MaxDecisions /\ top[s] \in Values
      BY <2>17, <2>18 DEF Confirm
    <3>2. cand' \in [Slots -> [Values -> Candidates]]
      BY <2>18, <3>1, CandidateTypes DEF Confirm
    <3>3. unwritten' \in SUBSET (Slots \X Values) /\ patch' \in [Slots -> Some]
      BY <2>18, <3>1 DEF Confirm, TypeOK, Some
    <3> QED BY <2>18, <3>1, <3>2, <3>3 DEF Confirm, TypeOK, handler
  <2>19. ASSUME NEW s \in Slots, NEW x \in {"active", "dismissed"}, Reject(s, x) PROVE TypeOK'
    <3>1. decisions' \in 0..MaxDecisions /\ top[s] \in Values
      BY <2>17, <2>19 DEF Reject
    <3>2. cand' \in [Slots -> [Values -> Candidates]]
      BY <2>19, <3>1, CandidateTypes DEF Reject
    <3>3. unwritten' \in SUBSET (Slots \X Values)
      BY <2>19 DEF Reject, TypeOK
    <3> QED BY <2>19, <3>1, <3>2, <3>3 DEF Reject, TypeOK, handler
  <2>20. ASSUME NEW s \in Slots, DecisionFails(s) PROVE TypeOK'
    BY <2>1, <2>17, <2>20 DEF DecisionFails, TypeOK, tables, handler
  <2>21. CASE CommitFails
    BY <2>0, <2>1, <2>21 DEF CommitFails, TypeOK, tables, handler
  <2>22. CASE DecisionsEnd
    <3>1. CASE EndTask
      BY <2>0, <2>22, <3>1 DEF DecisionsEnd, TypeOK, tables, handler
    <3> QED BY <2>22, <3>1 DEF DecisionsEnd, TypeOK, Steps, tables, handler
  <2>23. CASE WritePatch
    <3>1. profile' \in [Slots -> Some]
      BY <2>23 DEF WritePatch, TypeOK
    <3>2. unwritten' \in SUBSET (Slots \X Values)
      BY <2>23 DEF WritePatch, TypeOK
    <3>3. faults' \in 0..MaxFaults
      BY <2>1, <2>23 DEF WritePatch, TypeOK
    <3> QED BY <2>0, <2>23, <3>1, <3>2, <3>3 DEF WritePatch, TypeOK, handler
  <2>24. CASE Crash
    <3>1. queue' \in Seq(Tasks)
      BY <2>24 DEF Crash
    <3>2. faults' \in 0..MaxFaults
      BY <2>1, <2>24 DEF Crash
    <3> QED BY <2>0, <2>24, <3>1, <3>2 DEF Crash, TypeOK, tables
  <2>25. CASE UNCHANGED vars
    BY <2>25 DEF vars, tables, handler, worker, TypeOK
  <2> QED BY <2>2, <2>3, <2>4, <2>5, <2>6, <2>7, <2>8, <2>9, <2>10, <2>11, <2>12, <2>13,
             <2>14, <2>15, <2>16, <2>18, <2>19, <2>20, <2>21, <2>22, <2>23, <2>24, <2>25
          DEF Next, HandleMessage, RunCommand, RunWorker, PersistExtraction, ApplyReview
<1> QED BY <1>1, <1>2, PTL DEF Spec

-----------------------------------------------------------------------------

\* What a review confirmed is in its patch, and no review is about a candidate
\* that was confirmed before: those left behind stay confirmed.
Unwritten ==
  /\ \A s \in Slots : top[s] # Nobody => cand[s][top[s]].status # "none"
  /\ \A s \in Slots, v \in Values : <<s, v>> \in unwritten => cand[s][v].status = "confirmed"
  /\ \A s \in Slots : <<s, top[s]>> \in unwritten =>
       pc \in {"deciding", "patching"} /\ patch[s] # Nobody

\* What a change of the status of one candidate leaves of the others.
LEMMA StatusIsSet ==
  ASSUME TypeOK, NEW s \in Slots, NEW v \in Values, cand[s][v].status # "none",
         NEW status \in {"active", "confirmed", "dismissed"}, SetStatus(s, v, status)
  PROVE  /\ cand'[s][v].status = status
         /\ \A t \in Slots, w \in Values :
              t # s \/ w # v => cand'[t][w] = cand[t][w]
<1>1. cand' = [cand EXCEPT ![s] = [cand[s] EXCEPT ![v] = [cand[s][v] EXCEPT !.status = status]]]
  BY DEF SetStatus
<1>2. /\ cand[s] \in [Values -> Candidates] /\ cand[s][v] \in Candidates
      /\ cand \in [Slots -> [Values -> Candidates]]
  BY DEF TypeOK
<1>3. [cand[s][v] EXCEPT !.status = status].status = status
  BY <1>2 DEF Candidates
<1> QED BY <1>1, <1>2, <1>3

LEMMA PatchHoldsUnwritten == Spec => []Unwritten
<1> USE DEF Unwritten
<1>1. Init => Unwritten
  BY DEF Init, Empty
<1>2. TypeOK /\ Unwritten /\ [Next]_vars => Unwritten'
  <2> SUFFICES ASSUME TypeOK, Unwritten, [Next]_vars PROVE Unwritten'
    OBVIOUS
  <2>0. \A t \in Slots : <<t, Nobody>> \notin unwritten
    BY NobodyIsNoValue DEF TypeOK
  <2>1. ASSUME UNCHANGED <<cand, unwritten, top, patch>>,
               pc' = pc \/ pc' \in {"deciding", "patching"} \/ pc \notin {"deciding", "patching"}
        PROVE  Unwritten'
    BY <2>1
  <2>2. ASSUME EndTask, unwritten' \subseteq unwritten, UNCHANGED cand PROVE Unwritten'
    BY <2>0, <2>2 DEF EndTask, Empty
  <2>3. CASE HandleMessage \/ RunCommand
    BY <2>1, <2>3 DEF HandleMessage, RunCommand, CaptureUserSignals, EnqueueProfileBatchReview,
       ForceReview, UpdateMyInfo, tables, worker
  <2>4. CASE Take \/ Extract \/ BuildFails \/ CheckBeforeBuild \/ CheckAfterBuild
    BY <2>1, <2>2, <2>4 DEF Take, Extract, BuildFails, CheckBeforeBuild, CheckAfterBuild, tables
  <2>5. CASE Review
    <3>1. CASE EndTask
      BY <2>2, <2>5, <3>1 DEF Review, tables
    <3>2. CASE ~EndTask
      <4>1. /\ UNCHANGED <<cand, unwritten, patch>>
            /\ \A t \in Slots : top'[t] = Nobody \/ top'[t] \in Best(t)
        BY <2>5, <3>2 DEF Review, tables
      <4>2. \A t \in Slots : top'[t] = Nobody \/ (top'[t] \in Values
                                               /\ cand[t][top'[t]].status = "active")
        BY <4>1 DEF Best, Reviewable
      <4> QED BY <2>0, <4>1, <4>2
    <3> QED BY <3>1, <3>2
  <2>6. CASE (\E s \in Slots : NothingFound(s)) \/ PromoteName
    <3>1. UNCHANGED <<cand, unwritten, top, patch>> /\ pc \notin {"deciding", "patching"}
      BY <2>6 DEF NothingFound, PromoteName, tables
    <3> QED BY <2>1, <3>1
  <2>7. ASSUME NEW s \in Slots, NEW v \in Values, NEW e \in Evidence,
               MergeProfileCandidate(s, v, e)
        PROVE  Unwritten'
    <3>1. UNCHANGED <<unwritten, top, patch>> /\ pc \notin {"deciding", "patching"}
      BY <2>7 DEF MergeProfileCandidate
    <3>2. CASE cand' = [cand EXCEPT ![s][v] = Merged(cand[s][v], e)]
      <4>1. Merged(cand[s][v], e).status =
              IF cand[s][v].status \in {"none", "dismissed"} THEN "active" ELSE cand[s][v].status
        BY DEF Merged
      <4>2. \A t \in Slots, w \in Values :
              cand'[t][w] = IF t = s /\ w = v THEN Merged(cand[s][v], e) ELSE cand[t][w]
        BY <3>2 DEF TypeOK
      <4>3. \A t \in Slots, w \in Values :
              /\ cand[t][w].status = "confirmed" => cand'[t][w].status = "confirmed"
              /\ cand[t][w].status # "none" => cand'[t][w].status # "none"
        BY <4>1, <4>2
      <4>4. \A t \in Slots : top[t] \in Values \/ top[t] = Nobody
        BY DEF TypeOK, Some
      <4> QED BY <3>1, <4>3, <4>4
    <3> QED BY <2>1, <2>7, <3>1, <3>2 DEF MergeProfileCandidate
  <2>8. CASE ConfirmName
    <3>1. /\ UNCHANGED <<unwritten, top, patch>> /\ pc \notin {"deciding", "patching"}
          /\ value \in Values
      BY <2>8 DEF ConfirmName, TypeOK
    <3>2. CASE cand[Name][value].status # "none" /\ SetStatus(Name, value, "confirmed")
      <4>1. /\ cand'[Name][value].status = "confirmed"
            /\ \A t \in Slots, w \in Values :
                 t # Name \/ w # value => cand'[t][w] = cand[t][w]
        BY <3>1, <3>2, StatusIsSet, NameIsASlot
      <4>2. \A t \in Slots : top[t] \in Values \/ top[t] = Nobody
        BY DEF TypeOK, Some
      <4> QED BY <3>1, <4>1, <4>2
    <3>3. CASE UNCHANGED cand
      BY <2>1, <3>1, <3>3
    <3> QED BY <2>8, <3>2, <3>3 DEF ConfirmName, SetStatus
  <2>9. ASSUME NEW s \in Slots, top[s] # Nobody,
               NEW status \in {"active", "confirmed", "dismissed"}, SetStatus(s, top[s], status),
               UNCHANGED top, pc = "deciding", pc' = "deciding",
               \A t \in Slots : patch[t] # Nobody => patch'[t] # Nobody,
               unwritten' \subseteq unwritten \cup {<<s, top[s]>>},
               <<s, top[s]>> \in unwritten' => status = "confirmed" /\ patch'[s] # Nobody
        PROVE  Unwritten'
    <3>1. /\ top[s] \in Values /\ cand[s][top[s]].status # "none"
          /\ \A t \in Slots : top[t] \in Values \/ top[t] = Nobody
      BY <2>9 DEF TypeOK, Some
    <3>2. /\ cand'[s][top[s]].status = status
          /\ \A t \in Slots, w \in Values : t # s \/ w # top[s] => cand'[t][w] = cand[t][w]
      BY <2>9, <3>1, StatusIsSet
    <3> QED BY <2>9, <3>1, <3>2
  <2>10. ASSUME NEW s \in Slots, NEW v \in Values, Confirm(s, v) PROVE Unwritten'
    <3>1. \A t \in Slots : patch'[t] = IF t = s THEN v ELSE patch[t]
      BY <2>10 DEF Confirm, TypeOK
    <3>2. /\ top[s] # Nobody /\ SetStatus(s, top[s], "confirmed") /\ UNCHANGED top
          /\ pc = "deciding" /\ pc' = "deciding"
          /\ unwritten' = unwritten \cup {<<s, top[s]>>}
      BY <2>10 DEF Confirm, Decides
    <3>3. \A t \in Slots : patch[t] # Nobody \/ t = s => patch'[t] # Nobody
      BY <3>1, NobodyIsNoValue
    <3> HIDE DEF Unwritten
    <3> QED BY <2>9, <3>2, <3>3
  <2>11. ASSUME NEW s \in Slots, NEW x \in {"active", "dismissed"}, Reject(s, x) PROVE Unwritten'
    BY <2>9, <2>11 DEF Reject, Decides
  <2>12. CASE \E s \in Slots : DecisionFails(s)
    BY <2>1, <2>12 DEF DecisionFails, tables
  <2>13. CASE DecisionsEnd \/ CommitFails \/ ExtractionEnds \/ Crash
    BY <2>1, <2>2, <2>13 DEF DecisionsEnd, CommitFails, ExtractionEnds, Crash, tables
  <2>14. CASE WritePatch
    BY <2>2, <2>14 DEF WritePatch
  <2>15. CASE UNCHANGED vars
    BY <2>1, <2>15 DEF vars, tables, worker
  <2> QED BY <2>3, <2>4, <2>5, <2>6, <2>7, <2>8, <2>10, <2>11, <2>12, <2>13, <2>14, <2>15
          DEF Next, RunWorker, PersistExtraction, ApplyReview
<1> QED BY <1>1, <1>2, ProfileTypes, PTL DEF Spec

\* A review that no failed call ends leaves no value it confirmed out of the
\* profile, whatever failed before it.
THEOREM ConfirmedAreWritten == Spec => ConfirmedIsWritten
<1> DEFINE A == (pc \in {"deciding", "patching"} /\ pc' = "idle" /\ faults' = faults)
                => \A s \in Slots : <<s, top[s]>> \notin unwritten'
<1>1. TypeOK /\ Unwritten /\ [Next]_vars => [A]_vars
  <2> SUFFICES ASSUME TypeOK, Unwritten, Next, pc \in {"deciding", "patching"}, pc' = "idle",
                      faults' = faults, NEW s \in Slots
               PROVE  <<s, top[s]>> \notin unwritten'
    OBVIOUS
  <2>1. ~Fails
    BY BoundsAreNumbers DEF Fails, TypeOK
  <2>2. (DecisionsEnd /\ ~HasProfileSlotUpdate) \/ WritePatch
    BY <2>1 DEF Next, HandleMessage, CaptureUserSignals, EnqueueProfileBatchReview, RunCommand,
       ForceReview, UpdateMyInfo, RunWorker, Take, CheckBeforeBuild, BuildFails, Extract, Review,
       CheckAfterBuild, PersistExtraction, NothingFound, MergeProfileCandidate, PromoteName,
       ConfirmName, ExtractionEnds, ApplyReview, Confirm, Reject, Decides, DecisionFails,
       CommitFails, DecisionsEnd, Crash, tables, handler, worker
  <2>3. <<s, top[s]>> \in unwritten => patch[s] # Nobody
    BY DEF Unwritten
  <2>4. CASE DecisionsEnd /\ ~HasProfileSlotUpdate
    <3>1. patch[s] = Nobody /\ unwritten' = unwritten
      BY <2>4 DEF DecisionsEnd, HasProfileSlotUpdate, Empty, tables
    <3> QED BY <2>3, <3>1
  <2>5. CASE WritePatch
    <3>1. unwritten' = {c \in unwritten : patch[c[1]] = Nobody}
      BY <2>1, <2>5 DEF WritePatch
    <3> QED BY <2>3, <3>1
  <2> QED BY <2>2, <2>4, <2>5
<1> QED BY <1>1, ProfileTypes, PatchHoldsUnwritten, PTL DEF Spec, ConfirmedIsWritten

-----------------------------------------------------------------------------
(* The order of the names.                                                 *)

\* While no call has failed, extractions are queued and run in the order of the
\* messages, a name that was merged is promoted and confirmed by the same
\* extraction, and so no review ever has a name to decide on.
NamesKnown ==
  faults = 0 =>
    /\ \A v \in Values : cand[Name][v].seen <= turn
    /\ \A i \in 1..Len(queue) : queue[i].kind = "extract" =>
         /\ queue[i].version <= turn
         /\ \A j \in 1..Len(queue) :
              j < i /\ queue[j].kind = "extract" => queue[j].version <= queue[i].version
         /\ pc # "idle" /\ task.kind = "extract" => task.version <= queue[i].version
         /\ \A v \in Values : cand[Name][v].seen <= queue[i].version
    /\ pc # "idle" /\ task.kind = "extract" =>
         /\ task.version <= turn
         /\ \A v \in Values : cand[Name][v].seen <= task.version
    /\ pc \in {"merging", "promoting", "confirming"} => task.kind = "extract"
    /\ pc = "promoting" => cand[Name][value].seen = task.version
    /\ \A v \in Values : cand[Name][v].status = "active" =>
         pc \in {"promoting", "confirming"} /\ v = value
    /\ top[Name] = Nobody /\ patch[Name] = Nobody

\* The numbers and candidates the invariant compares.
LEMMA NameNumbers ==
  ASSUME TypeOK
  PROVE  /\ turn \in Nat /\ task.version \in Nat
         /\ \A i \in 1..Len(queue) : queue[i].version \in Nat /\ queue[i].kind \in Kinds
         /\ \A v \in Values : cand[Name][v] \in Candidates /\ cand[Name][v].seen \in Nat
         /\ faults \in Nat
<1>1. \A i \in 1..Len(queue) : queue[i] \in Tasks
  BY DEF TypeOK
<1>2. \A v \in Values : cand[Name][v] \in Candidates
  BY NameIsASlot DEF TypeOK
<1>3. turn \in Nat /\ faults \in Nat /\ task \in Tasks
  BY BoundsAreNumbers DEF TypeOK
<1> QED BY <1>1, <1>2, <1>3 DEF Tasks, Candidates

LEMMA NamesAreKnown == Spec => []NamesKnown
<1> USE DEF NamesKnown
<1>1. Init => NamesKnown
  <2> SUFFICES ASSUME Init PROVE NamesKnown
    OBVIOUS
  <2>1. \A v \in Values : cand[Name][v] = NoCandidate
    BY NameIsASlot DEF Init
  <2>2. 1..Len(queue) = {}
    BY DEF Init
  <2> QED BY <2>1, <2>2, NameIsASlot DEF Init, NoCandidate, Empty
<1>2. TypeOK /\ TypeOK' /\ NamesKnown /\ [Next]_vars => NamesKnown'
  <2> SUFFICES ASSUME TypeOK, TypeOK', NamesKnown, [Next]_vars, faults' = 0
               PROVE  NamesKnown'
    BY DEF NamesKnown
  <2> USE NameNumbers
  <2>0. ~Fails
    BY DEF Fails
  <2>1. ASSUME UNCHANGED <<cand, turn, queue, task, value, top, patch, faults>>,
               \/ pc' = pc
               \/ /\ pc \notin {"idle", "promoting", "confirming"}
                  /\ pc' \notin {"merging", "promoting", "confirming"}
        PROVE  NamesKnown'
    BY <2>1
  <2>2. ASSUME EndTask, UNCHANGED <<cand, turn, queue, faults>>,
               pc \notin {"promoting", "confirming"}
        PROVE  NamesKnown'
    BY <2>2, NameIsASlot DEF EndTask, Empty
  <2>3. ASSUME NEW kind \in Kinds, NEW version \in Nat, Enqueue(kind, version),
               turn' \in Nat, turn <= turn', kind = "extract" => version = turn',
               UNCHANGED <<cand, pc, task, value, top, patch, faults>>
        PROVE  NamesKnown'
    <3>1. \/ queue' = queue
          \/ /\ Len(queue') = Len(queue) + 1
             /\ queue'[Len(queue) + 1] = [kind |-> kind, version |-> version]
             /\ \A i \in 1..Len(queue) : queue'[i] = queue[i]
      BY <2>3, Enqueued
    <3>2. ASSUME queue' = queue PROVE NamesKnown'
      BY <2>3, <3>2
    <3>3. ASSUME Len(queue') = Len(queue) + 1,
                 queue'[Len(queue) + 1] = [kind |-> kind, version |-> version],
                 \A i \in 1..Len(queue) : queue'[i] = queue[i]
          PROVE  NamesKnown'
      <4>1. Len(queue) \in Nat
        BY DEF TypeOK
      <4>2. ASSUME NEW i \in 1..Len(queue'), queue'[i].kind = "extract"
            PROVE  /\ queue'[i].version <= turn'
                   /\ \A j \in 1..Len(queue') :
                        j < i /\ queue'[j].kind = "extract" => queue'[j].version <= queue'[i].version
                   /\ pc # "idle" /\ task.kind = "extract" => task.version <= queue'[i].version
                   /\ \A v \in Values : cand[Name][v].seen <= queue'[i].version
        <5>1. CASE i \in 1..Len(queue)
          <6>1. \A j \in 1..Len(queue') : j < i => j \in 1..Len(queue)
            BY <4>1, <5>1
          <6> QED BY <2>3, <3>3, <4>2, <5>1, <6>1
        <5>2. CASE i = Len(queue) + 1
          <6>1. queue'[i].version = turn' /\ kind = "extract"
            BY <2>3, <3>3, <4>2, <5>2
          <6>2. \A j \in 1..Len(queue') : j < i => j \in 1..Len(queue) /\ queue'[j] = queue[j]
            BY <3>3, <4>1, <5>2
          <6>3. ASSUME NEW j \in 1..Len(queue'), j < i, queue'[j].kind = "extract"
                PROVE  queue'[j].version <= turn'
            <7>1. queue[j].kind = "extract" /\ queue'[j] = queue[j] /\ j \in 1..Len(queue)
              BY <6>2, <6>3
            <7>2. queue[j].version <= turn /\ queue[j].version \in Nat
              BY <2>3, <7>1
            <7> QED BY <2>3, <7>1, <7>2
          <6> QED BY <2>3, <6>1, <6>3
        <5> QED BY <3>3, <4>1, <5>1, <5>2
      <4> QED BY <2>3, <4>2
    <3> QED BY <3>1, <3>2, <3>3
  <2>4. CASE CaptureUserSignals
    <3>1. turn' = turn + 1 /\ UNCHANGED <<cand, pc, task, value, top, patch, faults>>
      BY <2>4 DEF CaptureUserSignals, tables, worker
    <3>2. CASE Enqueue("extract", turn')
      BY <2>3, <3>1, <3>2 DEF Kinds
    <3>3. CASE UNCHANGED queue
      BY <3>1, <3>3
    <3> QED BY <2>4, <3>2, <3>3 DEF CaptureUserSignals
  <2>5. CASE EnqueueProfileBatchReview
    BY <2>3, <2>5 DEF EnqueueProfileBatchReview, tables, worker, Kinds
  <2>6. CASE ForceReview
    <3>1. ForcedVersion(forced') \in Nat
      BY <2>6, BoundsAreNumbers DEF ForceReview, ForcedVersion, TypeOK
    <3> QED BY <2>3, <2>6, <3>1 DEF ForceReview, tables, worker, Kinds
  <2>7. ASSUME NEW s \in Slots, NEW v \in Values, UpdateMyInfo(s, v) PROVE NamesKnown'
    BY <2>1, <2>7 DEF UpdateMyInfo, handler, worker
  <2>8. CASE Take
    <3>1. /\ 1 \in 1..Len(queue) /\ task' = queue[1]
          /\ \A i \in 1..Len(queue') : i + 1 \in 1..Len(queue) /\ queue'[i] = queue[i + 1]
      BY <2>8, Taken
    <3>2. /\ pc = "idle" /\ pc' = "taken"
          /\ UNCHANGED <<cand, turn, value, top, patch, faults>>
      BY <2>8 DEF Take, tables
    <3>3. ASSUME NEW i \in 1..Len(queue'), queue'[i].kind = "extract"
          PROVE  /\ queue'[i].version <= turn
                 /\ \A j \in 1..Len(queue') :
                      j < i /\ queue'[j].kind = "extract" => queue'[j].version <= queue'[i].version
                 /\ task'.kind = "extract" => task'.version <= queue'[i].version
                 /\ \A v \in Values : cand[Name][v].seen <= queue'[i].version
      <4>1. /\ i + 1 \in 1..Len(queue) /\ queue'[i] = queue[i + 1] /\ 1 < i + 1
            /\ \A j \in 1..Len(queue') : j < i => j + 1 < i + 1
        BY <3>1
      <4> QED BY <3>1, <3>2, <3>3, <4>1
    <3>4. task'.kind = "extract" =>
            /\ task'.version <= turn
            /\ \A v \in Values : cand[Name][v].seen <= task'.version
      BY <3>1, <3>2
    <3> QED BY <3>2, <3>3, <3>4
  <2>9. CASE CheckBeforeBuild
    BY <2>1, <2>2, <2>9 DEF CheckBeforeBuild, tables, handler
  <2>10. CASE BuildFails
    BY <2>2, <2>10 DEF BuildFails, tables, handler
  <2>11. CASE Extract
    BY <2>1, <2>11 DEF Extract, tables, handler
  <2>12. CASE Review
    <3>1. CASE EndTask
      BY <2>2, <2>12, <3>1 DEF Review, tables, handler
    <3>2. CASE pc' = "built"
      <4>1. pc = "building" /\ UNCHANGED <<cand, turn, queue, task, value, patch, faults>>
        BY <2>12, <3>2 DEF Review, EndTask, tables, handler
      <4>2. Reviewable(Name) = {}
        BY <4>1 DEF Reviewable
      <4>3. top'[Name] = Nobody
        BY <2>12, <3>2, <4>2, NameIsASlot DEF Review, EndTask
      <4> QED BY <3>2, <4>1, <4>3
    <3> QED BY <2>12, <3>1, <3>2 DEF Review
  <2>13. CASE CheckAfterBuild
    <3>1. CASE /\ pc' = IF task.kind = "extract" THEN "merging" ELSE "deciding"
               /\ UNCHANGED <<task, todo, value, top, decisions, patch>>
      BY <2>13, <3>1 DEF CheckAfterBuild, tables, handler
    <3> QED BY <2>2, <2>13, <3>1 DEF CheckAfterBuild, tables, handler
  <2>14. ASSUME NEW s \in Slots, NothingFound(s) PROVE NamesKnown'
    BY <2>1, <2>14 DEF NothingFound, tables, handler
  <2>15. ASSUME NEW s \in Slots, NEW v \in Values, NEW e \in Evidence,
                MergeProfileCandidate(s, v, e)
         PROVE  NamesKnown'
    <3>1. /\ pc = "merging" /\ task.kind = "extract"
          /\ cand' = [cand EXCEPT ![s] = [cand[s] EXCEPT ![v] = Merged(cand[s][v], e)]]
          /\ UNCHANGED <<turn, queue, task, top, patch, faults>>
      BY <2>0, <2>15 DEF MergeProfileCandidate, handler
    <3>2. CASE s # Name
      <4>1. cand'[Name] = cand[Name] /\ pc' = pc
        BY <2>15, <3>1, <3>2, NameIsASlot DEF MergeProfileCandidate, TypeOK
      <4> QED BY <3>1, <4>1
    <3>3. CASE s = Name
      <4>1. pc' = "promoting" /\ value' = v
        BY <2>15, <3>3 DEF MergeProfileCandidate
      <4>2. Merged(cand[s][v], e).seen = task.version
        BY DEF Merged
      <4>3. \A u \in Values : cand'[Name][u] = IF u = v THEN Merged(cand[s][v], e) ELSE cand[Name][u]
        BY <3>1, <3>3, NameIsASlot DEF TypeOK
      <4> QED BY <3>1, <4>1, <4>2, <4>3
    <3> QED BY <3>2, <3>3
  <2>16. CASE PromoteName
    <3>1. /\ pc = "promoting" /\ pc' = "confirming"
          /\ UNCHANGED <<cand, turn, queue, task, value, top, patch, faults>>
      BY <2>0, <2>16 DEF PromoteName, handler
    <3> QED BY <3>1
  <2>17. ASSUME NEW s \in Slots, NEW v \in Values, NEW x \in {"active", "confirmed", "dismissed"},
                SetStatus(s, v, x)
         PROVE  /\ s # Name => cand'[Name] = cand[Name]
                /\ s = Name /\ x = "confirmed" => \A u \in Values :
                     /\ cand'[Name][u].seen = cand[Name][u].seen
                     /\ cand'[Name][u].status = "active" => u # v /\ cand[Name][u].status = "active"
    <3>1. \/ cand' = cand /\ cand[s][v].status = "none"
          \/ cand' = [cand EXCEPT ![s] = [cand[s] EXCEPT ![v] = [cand[s][v] EXCEPT !.status = x]]]
      BY <2>17 DEF SetStatus
    <3>2. cand[s][v] \in Candidates /\ cand[s] \in [Values -> Candidates]
      BY DEF TypeOK
    <3>3. /\ [cand[s][v] EXCEPT !.status = x].seen = cand[s][v].seen
          /\ [cand[s][v] EXCEPT !.status = x].status = x
      BY <3>2 DEF Candidates
    <3> DEFINE c == [cand[s][v] EXCEPT !.status = x]
    <3>4. /\ c.seen = cand[s][v].seen /\ c.status = x
          /\ \/ cand' = cand /\ cand[s][v].status = "none"
             \/ cand' = [cand EXCEPT ![s] = [cand[s] EXCEPT ![v] = c]]
      BY <3>1, <3>3
    <3> HIDE DEF c
    <3>5. s # Name => cand'[Name] = cand[Name]
      BY <3>4, NameIsASlot DEF TypeOK
    <3>6. ASSUME s = Name, x = "confirmed", NEW u \in Values
          PROVE  /\ cand'[Name][u].seen = cand[Name][u].seen
                 /\ cand'[Name][u].status = "active" => u # v /\ cand[Name][u].status = "active"
      <4>1. CASE cand' = cand /\ cand[s][v].status = "none"
        BY <3>6, <4>1
      <4>2. CASE cand' = [cand EXCEPT ![s] = [cand[s] EXCEPT ![v] = c]]
        <5>1. cand'[Name][u] = IF u = v THEN c ELSE cand[Name][u]
          BY <3>2, <3>6, <4>2 DEF TypeOK
        <5> QED BY <3>4, <3>6, <5>1
      <4> QED BY <3>4, <4>1, <4>2
    <3> QED BY <3>5, <3>6
  <2>18. CASE ConfirmName
    <3>1. /\ pc = "confirming" /\ pc' = "merging" /\ SetStatus(Name, value, "confirmed")
          /\ value \in Values /\ UNCHANGED <<turn, queue, task, top, patch, faults>>
      BY <2>0, <2>18 DEF ConfirmName, handler, TypeOK
    <3>2. \A u \in Values :
             /\ cand'[Name][u].seen = cand[Name][u].seen
             /\ cand'[Name][u].status = "active" => u # value /\ cand[Name][u].status = "active"
      BY <2>17, <3>1, NameIsASlot
    <3> QED BY <3>1, <3>2
  <2>19. CASE ExtractionEnds
    BY <2>2, <2>19 DEF ExtractionEnds, tables, handler
  <2>20. ASSUME NEW s \in Slots, Decides(s), faults' = faults
         PROVE  s # Name /\ pc = "deciding" /\ top[s] \in Values
    BY <2>20 DEF Decides, TypeOK, Some
  <2>21. ASSUME NEW s \in Slots, NEW v \in Values, Confirm(s, v) PROVE NamesKnown'
    <3>1. s # Name /\ pc = "deciding" /\ top[s] \in Values /\ faults' = faults
      BY <2>20, <2>21 DEF Confirm
    <3>2. cand'[Name] = cand[Name] /\ patch'[Name] = patch[Name]
      BY <2>17, <2>21, <3>1, NameIsASlot DEF Confirm, TypeOK
    <3> QED BY <2>21, <3>1, <3>2 DEF Confirm, handler
  <2>22. ASSUME NEW s \in Slots, NEW x \in {"active", "dismissed"}, Reject(s, x) PROVE NamesKnown'
    <3>1. s # Name /\ pc = "deciding" /\ top[s] \in Values /\ faults' = faults
      BY <2>20, <2>22 DEF Reject
    <3>2. cand'[Name] = cand[Name]
      BY <2>17, <2>22, <3>1 DEF Reject
    <3> QED BY <2>22, <3>1, <3>2 DEF Reject, handler
  <2>23. CASE Crash \/ CommitFails \/ \E s \in Slots : DecisionFails(s)
    BY <2>0, <2>23 DEF Crash, CommitFails, DecisionFails
  <2>24. CASE DecisionsEnd
    BY <2>1, <2>2, <2>24 DEF DecisionsEnd, tables, handler
  <2>25. CASE WritePatch
    BY <2>0, <2>2, <2>25 DEF WritePatch, handler
  <2>26. CASE UNCHANGED vars
    BY <2>1, <2>26 DEF vars, tables, handler, worker
  <2> QED BY <2>4, <2>5, <2>6, <2>7, <2>8, <2>9, <2>10, <2>11, <2>12, <2>13, <2>14, <2>15,
             <2>16, <2>18, <2>19, <2>21, <2>22, <2>23, <2>24, <2>25, <2>26
          DEF Next, HandleMessage, RunCommand, RunWorker, PersistExtraction, ApplyReview
<1> QED BY <1>1, <1>2, ProfileTypes, PTL DEF Spec

\* While no call fails, a name in the profile only makes way for one said later,
\* or for one the user sets.
THEOREM NamesAreInOrder == Spec => NamesInOrder
<1>1. ASSUME TypeOK, TypeOK', NamesKnown, [Next]_vars,
             changes' = changes, profile'[Name] # profile[Name], faults = 0,
             NEW v \in Values
      PROVE  cand[Name][v].seen <= cand[Name][profile'[Name]].seen
  <2> USE NameNumbers
  <2>1. ~UNCHANGED profile
    BY <1>1
  <2>2. CASE PromoteName
    <3>1. pc = "promoting" /\ profile' = [profile EXCEPT ![Name] = value]
      BY <1>1, <2>1, <2>2 DEF PromoteName
    <3>2. profile'[Name] = value /\ task.kind = "extract" /\ pc # "idle"
      BY <1>1, <3>1, NameIsASlot DEF TypeOK, NamesKnown
    <3>3. cand[Name][value].seen = task.version /\ cand[Name][v].seen <= task.version
      BY <1>1, <3>1, <3>2 DEF NamesKnown
    <3> QED BY <3>2, <3>3
  <2>3. CASE WritePatch
    <3>1. profile' = [s \in Slots |-> IF patch[s] # Nobody THEN patch[s] ELSE profile[s]]
      BY <1>1, <2>1, <2>3 DEF WritePatch
    <3>2. patch[Name] = Nobody
      BY <1>1 DEF NamesKnown
    <3> QED BY <1>1, <3>1, <3>2, NameIsASlot
  <2>4. ~\E s \in Slots, u \in Values : UpdateMyInfo(s, u)
    BY <1>1 DEF UpdateMyInfo, TypeOK
  <2> QED BY <1>1, <2>1, <2>2, <2>3, <2>4
          DEF Next, HandleMessage, RunCommand, RunWorker, PersistExtraction, ApplyReview,
              CaptureUserSignals, EnqueueProfileBatchReview, ForceReview, Take,
              CheckBeforeBuild, BuildFails, Extract, Review, CheckAfterBuild, NothingFound,
              MergeProfileCandidate, ConfirmName, ExtractionEnds, Confirm, Reject,
              DecisionFails, CommitFails, DecisionsEnd, Crash, tables, vars
<1>2. TypeOK /\ TypeOK' /\ NamesKnown /\ [Next]_vars
        => [changes' = changes /\ profile'[Name] # profile[Name] /\ faults = 0
              => \A v \in Values : cand[Name][v].seen <= cand[Name][profile'[Name]].seen]_vars
  BY <1>1
<1> QED BY <1>2, ProfileTypes, NamesAreKnown, PTL DEF Spec, NamesInOrder
=============================================================================
