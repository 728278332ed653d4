---------------------------- MODULE AsyncRunnerProofs ----------------------------
(***************************************************************************)
(* Safety of the executor for any number of tasks, keys, versions and      *)
(* queue slots: the state is well typed, every accepted task is handed     *)
(* over exactly once, a task is only skipped for a newer one, with a       *)
(* single worker the commits of a key keep the order of its versions, and  *)
(* then the executor implements TaskBoard.                                 *)
(***************************************************************************)
EXTENDS AsyncRunner, TLAPS

\* Every reachable state of the executor is well typed.
THEOREM RunnerTypes == Spec => []TypeOK
<1> USE VersionsArePositive, IdleIsNoTask, QueueHasRoom
<1>1. Init => TypeOK
  BY DEF Init, TypeOK, Stages, Labels
<1>2. TypeOK /\ [Next]_vars => TypeOK'
  <2> SUFFICES ASSUME TypeOK, [Next]_vars PROVE TypeOK'
    OBVIOUS
  <2> USE DEF TypeOK, Stages, Ended, InHand, Labels, KeyOf, VersionOf
  <2>1. ASSUME NEW t \in Tasks, Publish(t) PROVE TypeOK'
    BY <2>1 DEF Publish
  <2>2. ASSUME NEW t \in Tasks, Offer(t) PROVE TypeOK'
    <3>1. /\ Append(jobs, t) \in Seq(Tasks)
          /\ Len(Append(jobs, t)) = Len(jobs) + 1
          /\ Len(jobs) \in Nat
      OBVIOUS
    <3>2. jobs' \in Seq(Tasks)
      BY <2>2, <3>1 DEF Offer
    <3>3. stage' \in [Tasks -> Stages]
      BY <2>2 DEF Offer
    <3>4. ASSUME Len(jobs) < QueueSize, jobs' = Append(jobs, t)
          PROVE  Len(jobs') <= QueueSize
      BY <3>1, <3>4
    <3>5. ASSUME UNCHANGED jobs
          PROVE  Len(jobs') <= QueueSize
      BY <3>5
    <3>6. Len(jobs') <= QueueSize
      BY <2>2, <3>4, <3>5 DEF Offer
    <3> QED BY <2>2, <3>2, <3>3, <3>6 DEF Offer
  <2>3. ASSUME NEW w \in Workers, Take(w) PROVE TypeOK'
    <3>1. /\ Head(jobs) \in Tasks
          /\ Tail(jobs) \in Seq(Tasks) /\ Len(Tail(jobs)) <= Len(jobs)
      BY <2>3 DEF Take
    <3> QED BY <2>3, <3>1 DEF Take
  <2>4. ASSUME NEW w \in Workers, CheckBeforeBuild(w) PROVE TypeOK'
    BY <2>4 DEF CheckBeforeBuild, MoveTo, Holds
  <2>5. ASSUME NEW w \in Workers, Build(w) PROVE TypeOK'
    BY <2>5 DEF Build, MoveTo, Holds
  <2>6. ASSUME NEW w \in Workers, CheckAfterBuild(w) PROVE TypeOK'
    BY <2>6 DEF CheckAfterBuild, MoveTo, Holds
  <2>7. ASSUME NEW w \in Workers, Commit(w) PROVE TypeOK'
    BY <2>7 DEF Commit, MoveTo, Holds
  <2>8. CASE UNCHANGED vars
    BY <2>8 DEF vars
  <2> QED BY <2>1, <2>2, <2>3, <2>4, <2>5, <2>6, <2>7, <2>8
          DEF Next, Enqueue, RunWorker
<1> QED BY <1>1, <1>2, PTL DEF Spec

-----------------------------------------------------------------------------

\* No element of s occurs twice in it.
Distinct(s) == \A m, n \in 1..Len(s) : s[m] = s[n] => m = n

Occurs(t, s) == \E n \in 1..Len(s) : s[n] = t

\* Removing the head of a channel without duplicates removes that task and
\* moves the others up by one.
LEMMA TailWithoutHead ==
  ASSUME NEW S, NEW s \in Seq(S), s # <<>>, Distinct(s)
  PROVE  /\ Distinct(Tail(s))
         /\ \A t : Occurs(t, Tail(s)) <=> t # Head(s) /\ Occurs(t, s)
<1>1. /\ Len(s) \in Nat /\ Len(s) > 0
      /\ Len(Tail(s)) = Len(s) - 1
      /\ \A n \in 1..Len(Tail(s)) : Tail(s)[n] = s[n + 1]
      /\ Head(s) = s[1]
  OBVIOUS
<1>2. \A m, n \in 1..Len(Tail(s)) : Tail(s)[m] = Tail(s)[n] => m = n
  <2> SUFFICES ASSUME NEW m \in 1..Len(Tail(s)), NEW n \in 1..Len(Tail(s)),
                      Tail(s)[m] = Tail(s)[n]
               PROVE  m = n
    OBVIOUS
  <2>1. m + 1 \in 1..Len(s) /\ n + 1 \in 1..Len(s) /\ s[m + 1] = s[n + 1]
    BY <1>1
  <2>2. m + 1 = n + 1
    BY <2>1 DEF Distinct
  <2> QED BY <2>2, <1>1
<1>3. ASSUME NEW t, NEW n \in 1..Len(Tail(s)), Tail(s)[n] = t
      PROVE  t # Head(s) /\ \E m \in 1..Len(s) : s[m] = t
  <2>1. n + 1 \in 1..Len(s) /\ s[n + 1] = t /\ n + 1 # 1 /\ 1 \in 1..Len(s)
    BY <1>1, <1>3
  <2> QED BY <2>1, <1>1 DEF Distinct
<1>4. ASSUME NEW t, t # Head(s), NEW m \in 1..Len(s), s[m] = t
      PROVE  \E n \in 1..Len(Tail(s)) : Tail(s)[n] = t
  <2>1. m # 1 /\ m - 1 \in 1..Len(Tail(s)) /\ Tail(s)[m - 1] = s[(m - 1) + 1]
    BY <1>1, <1>4
  <2>2. (m - 1) + 1 = m
    BY <1>1
  <2> QED BY <2>1, <2>2, <1>4
<1> QED BY <1>2, <1>3, <1>4 DEF Distinct, Occurs

\* Appending a task the channel does not hold keeps it without duplicates.
LEMMA AppendFresh ==
  ASSUME NEW S, NEW s \in Seq(S), NEW x \in S,
         \A m, n \in 1..Len(s) : s[m] = s[n] => m = n,
         \A n \in 1..Len(s) : s[n] # x
  PROVE  /\ \A m, n \in 1..Len(Append(s, x)) :
               Append(s, x)[m] = Append(s, x)[n] => m = n
         /\ \A t : (\E n \in 1..Len(Append(s, x)) : Append(s, x)[n] = t)
                     <=> t = x \/ \E n \in 1..Len(s) : s[n] = t
<1>1. /\ Len(s) \in Nat
      /\ Len(Append(s, x)) = Len(s) + 1
      /\ Append(s, x)[Len(s) + 1] = x
      /\ \A n \in 1..Len(s) : Append(s, x)[n] = s[n]
  OBVIOUS
<1>2. \A n \in 1..Len(s) + 1 : n \in 1..Len(s) \/ n = Len(s) + 1
  BY <1>1
<1>3. Len(s) + 1 \in 1..Len(s) + 1 /\ \A n \in 1..Len(s) : n \in 1..Len(s) + 1
  BY <1>1
<1> QED BY <1>1, <1>2, <1>3

\* An accepted task is in the channel once or with one worker, never both,
\* never twice and never lost.
THEOREM RunnerHandsOverOnce == Spec => []HandedOverOnce
<1> USE IdleIsNoTask
<1>1. Init => HandedOverOnce
  BY DEF Init, HandedOverOnce, InHand
<1>2. TypeOK /\ HandedOverOnce /\ [Next]_vars => HandedOverOnce'
  <2> SUFFICES ASSUME TypeOK, HandedOverOnce, [Next]_vars PROVE HandedOverOnce'
    OBVIOUS
  <2> USE DEF HandedOverOnce, TypeOK, InHand
  <2>1. ASSUME NEW t \in Tasks, Publish(t) PROVE HandedOverOnce'
    BY <2>1 DEF Publish
  <2>2. ASSUME NEW t \in Tasks, Offer(t) PROVE HandedOverOnce'
    <3>1. CASE Len(jobs) < QueueSize /\ jobs' = Append(jobs, t)
                 /\ stage' = [stage EXCEPT ![t] = "queued"]
      <4>1. \A n \in 1..Len(jobs) : jobs[n] # t
        BY <2>2 DEF Offer
      <4>2. /\ \A m, n \in 1..Len(jobs') : jobs'[m] = jobs'[n] => m = n
            /\ \A u : (\E n \in 1..Len(jobs') : jobs'[n] = u)
                        <=> u = t \/ \E n \in 1..Len(jobs) : jobs[n] = u
        BY <3>1, <4>1, AppendFresh
      <4> QED BY <2>2, <3>1, <4>2 DEF Offer
    <3>2. CASE stage' = [stage EXCEPT ![t] = "dropped"] /\ UNCHANGED jobs
      BY <2>2, <3>2 DEF Offer
    <3> QED BY <2>2, <3>1, <3>2 DEF Offer
  <2>3. ASSUME NEW w \in Workers, Take(w) PROVE HandedOverOnce'
    <3> DEFINE h == Head(jobs)
    <3>1. h \in Tasks /\ h = jobs[1] /\ 1 \in 1..Len(jobs) /\ stage[h] = "queued"
      BY <2>3 DEF Take
    <3>2. /\ \A m, n \in 1..Len(jobs') : jobs'[m] = jobs'[n] => m = n
          /\ \A u : (\E n \in 1..Len(jobs') : jobs'[n] = u)
                      <=> u # h /\ \E n \in 1..Len(jobs) : jobs[n] = u
      <4>1. jobs \in Seq(Tasks) /\ jobs # <<>> /\ jobs' = Tail(jobs)
        BY <2>3 DEF Take
      <4>2. Distinct(jobs)
        BY DEF Distinct
      <4>3. /\ Distinct(Tail(jobs))
            /\ \A u : Occurs(u, Tail(jobs)) <=> u # Head(jobs) /\ Occurs(u, jobs)
        <5> HIDE DEF HandedOverOnce, TypeOK, h
        <5> QED BY ONLY <4>1, <4>2, TailWithoutHead
      <4> QED BY ONLY <4>1, <4>3 DEF Distinct, Occurs
    <3>3. /\ stage' = [stage EXCEPT ![h] = "taken"]
          /\ holding' = [holding EXCEPT ![w] = h]
          /\ holding[w] = Idle
      BY <2>3 DEF Take
    <3>4. \A v \in Workers : holding[v] # h
      BY <3>1
    <3> HIDE DEF h
    <3>5. \A t \in Tasks : stage'[t] = IF t = h THEN "taken" ELSE stage[t]
      BY <3>1, <3>3
    <3>6. \A v \in Workers : holding'[v] = IF v = w THEN h ELSE holding[v]
      BY <3>3
    <3>7. \A t \in Tasks : stage'[t] = "queued" <=> \E n \in 1..Len(jobs') : jobs'[n] = t
      <4> SUFFICES ASSUME NEW t \in Tasks
                   PROVE  stage'[t] = "queued" <=> \E n \in 1..Len(jobs') : jobs'[n] = t
        OBVIOUS
      <4>1. stage[t] = "queued" <=> \E n \in 1..Len(jobs) : jobs[n] = t
        OBVIOUS
      <4>2. stage'[t] = "queued" <=> t # h /\ stage[t] = "queued"
        BY <3>5
      <4>3. (\E n \in 1..Len(jobs') : jobs'[n] = t)
              <=> t # h /\ \E n \in 1..Len(jobs) : jobs[n] = t
        BY <3>2
      <4> QED BY ONLY <4>1, <4>2, <4>3
    <3>8. \A t \in Tasks : stage'[t] \in InHand <=> \E v \in Workers : holding'[v] = t
      BY <3>1, <3>3, <3>4, <3>5, <3>6
    <3>9. \A u, v \in Workers : holding'[u] = holding'[v] /\ holding'[u] # Idle => u = v
      BY <3>1, <3>4, <3>6
    <3> QED BY <3>2, <3>7, <3>8, <3>9
  <2>4. ASSUME NEW w \in Workers, NEW s \in InHand \cup Ended,
               holding[w] # Idle, stage[holding[w]] \in InHand,
               MoveTo(w, s), UNCHANGED jobs
        PROVE  HandedOverOnce'
    <3>1. holding[w] \in Tasks
      BY <2>4
    <3>2. CASE s \in InHand
      BY <2>4, <3>1, <3>2 DEF MoveTo, Ended
    <3>3. CASE s \in Ended
      BY <2>4, <3>1, <3>3 DEF MoveTo, Ended
    <3> QED BY <2>4, <3>2, <3>3
  <2>5. ASSUME NEW w \in Workers, CheckBeforeBuild(w) PROVE HandedOverOnce'
    BY <2>5, <2>4 DEF CheckBeforeBuild, Holds, Ended
  <2>6. ASSUME NEW w \in Workers, Build(w) PROVE HandedOverOnce'
    BY <2>6, <2>4 DEF Build, Holds, Ended
  <2>7. ASSUME NEW w \in Workers, CheckAfterBuild(w) PROVE HandedOverOnce'
    BY <2>7, <2>4 DEF CheckAfterBuild, Holds, Ended
  <2>8. ASSUME NEW w \in Workers, Commit(w) PROVE HandedOverOnce'
    BY <2>8, <2>4 DEF Commit, Holds, Ended
  <2>9. CASE UNCHANGED vars
    BY <2>9 DEF vars
  <2> QED BY <2>1, <2>2, <2>3, <2>5, <2>6, <2>7, <2>8, <2>9
          DEF Next, Enqueue, RunWorker
<1> QED BY <1>1, <1>2, RunnerTypes, PTL DEF Spec

-----------------------------------------------------------------------------

\* The table is the maximum over the published tasks: it is never behind one,
\* and what it holds was published by some task.
LatestIsPublished ==
  /\ \A t \in Tasks : stage[t] # "new" => VersionOf(t) <= latest[KeyOf(t)]
  /\ \A k \in Keys : latest[k] # 0 =>
       \E u \in Tasks : KeyOf(u) = k /\ VersionOf(u) = latest[k] /\ stage[u] # "new"

\* A worker's step only moves the stage of the task it holds, which was already
\* past "new".
LEMMA WorkerStages ==
  ASSUME TypeOK, NEW w \in Workers, RunWorker(w), HandedOverOnce
  PROVE  /\ UNCHANGED <<latest, label>>
         /\ \A t \in Tasks : stage[t] = "new" <=> stage'[t] = "new"
<1> USE DEF TypeOK
<1>1. CASE Take(w)
  <2>1. Head(jobs) \in Tasks /\ stage[Head(jobs)] = "queued"
    <3>1. Head(jobs) = jobs[1] /\ 1 \in 1..Len(jobs) /\ Head(jobs) \in Tasks
      BY <1>1 DEF Take
    <3> QED BY <3>1 DEF HandedOverOnce
  <2> QED BY <1>1, <2>1 DEF Take
<1>2. CASE CheckBeforeBuild(w)
  BY <1>2 DEF CheckBeforeBuild, Holds, MoveTo
<1>3. CASE Build(w)
  BY <1>3 DEF Build, Holds, MoveTo
<1>4. CASE CheckAfterBuild(w)
  BY <1>4 DEF CheckAfterBuild, Holds, MoveTo
<1>5. CASE Commit(w)
  BY <1>5 DEF Commit, Holds, MoveTo
<1> QED BY <1>1, <1>2, <1>3, <1>4, <1>5 DEF RunWorker

THEOREM LatestInvariant == Spec => []LatestIsPublished
<1> USE VersionsArePositive DEF LatestIsPublished, KeyOf, VersionOf, Labels
<1>1. Init => LatestIsPublished
  BY DEF Init
<1>2. TypeOK /\ HandedOverOnce /\ LatestIsPublished /\ [Next]_vars
        => LatestIsPublished'
  <2> SUFFICES ASSUME TypeOK, HandedOverOnce, LatestIsPublished, [Next]_vars
               PROVE  LatestIsPublished'
    OBVIOUS
  <2>1. ASSUME NEW t \in Tasks, Publish(t) PROVE LatestIsPublished'
    <3>1. label[t].key \in Keys /\ label[t].version \in Nat \ {0}
      BY DEF TypeOK
    <3>2. CASE VersionOf(t) > latest[KeyOf(t)]
      <4>1. /\ stage' = [stage EXCEPT ![t] = "published"]
            /\ latest' = [latest EXCEPT ![KeyOf(t)] = VersionOf(t)]
            /\ label' = label
            /\ stage[t] = "new"
        BY <2>1, <3>2 DEF Publish
      <4>2. \A u \in Tasks : stage'[u] = IF u = t THEN "published" ELSE stage[u]
        BY <4>1 DEF TypeOK
      <4>3. \A k \in Keys : latest'[k] = IF k = KeyOf(t) THEN VersionOf(t) ELSE latest[k]
        BY <3>1, <4>1 DEF TypeOK
      <4>4. \A u \in Tasks : KeyOf(u) \in Keys /\ VersionOf(u) \in Nat
        BY DEF TypeOK
      <4>5. \A k \in Keys : latest[k] \in Nat
        BY DEF TypeOK
      <4>6. \A u \in Tasks : stage'[u] # "new" => VersionOf(u) <= latest'[KeyOf(u)]
        BY <3>2, <4>2, <4>3, <4>4, <4>5
      <4>7. ASSUME NEW k \in Keys, latest'[k] # 0
            PROVE  \E u \in Tasks : /\ KeyOf(u) = k /\ VersionOf(u) = latest'[k]
                                   /\ stage'[u] # "new"
        <5>1. CASE k = KeyOf(t)
          BY <4>2, <4>3, <5>1
        <5>2. CASE k # KeyOf(t)
          BY <4>2, <4>3, <4>7, <5>2
        <5> QED BY <5>1, <5>2
      <4> QED BY <4>1, <4>6, <4>7
    <3>3. CASE ~(VersionOf(t) > latest[KeyOf(t)])
      BY <2>1, <3>1, <3>3 DEF Publish, TypeOK
    <3> QED BY <3>2, <3>3
  <2>2. ASSUME NEW t \in Tasks, Offer(t) PROVE LatestIsPublished'
    BY <2>2 DEF Offer, TypeOK
  <2>3. ASSUME NEW w \in Workers, RunWorker(w) PROVE LatestIsPublished'
    BY <2>3, WorkerStages
  <2>4. CASE UNCHANGED vars
    BY <2>4 DEF vars
  <2> QED BY <2>1, <2>2, <2>3, <2>4 DEF Next, Enqueue
<1> QED BY <1>1, <1>2, RunnerTypes, RunnerHandsOverOnce, PTL DEF Spec

\* A task is only ever skipped because a newer one of its key was enqueued.
THEOREM RunnerSkipsForNewer == Spec => []SkippedOnlyForNewer
<1> USE VersionsArePositive DEF SkippedOnlyForNewer, KeyOf, VersionOf
<1>1. Init => SkippedOnlyForNewer
  BY DEF Init
<1>2. TypeOK /\ HandedOverOnce /\ LatestIsPublished /\ SkippedOnlyForNewer /\ [Next]_vars
        => SkippedOnlyForNewer'
  <2> SUFFICES ASSUME TypeOK, HandedOverOnce, LatestIsPublished,
                      SkippedOnlyForNewer, [Next]_vars
               PROVE  SkippedOnlyForNewer'
    OBVIOUS
  <2>1. ASSUME NEW t \in Tasks, Publish(t) PROVE SkippedOnlyForNewer'
    <3>1. label' = label /\ stage' = [stage EXCEPT ![t] = "published"]
      BY <2>1 DEF Publish
    <3>2. \A u \in Tasks : stage'[u] = IF u = t THEN "published" ELSE stage[u]
      BY <3>1 DEF TypeOK
    <3> QED BY <3>1, <3>2
  <2>2. ASSUME NEW t \in Tasks, Offer(t) PROVE SkippedOnlyForNewer'
    <3>1. label' = label
      BY <2>2 DEF Offer
    <3>2. \A u \in Tasks : \/ stage'[u] = stage[u]
                           \/ stage[u] # "new" /\ stage'[u] \in {"queued", "dropped"}
      BY <2>2 DEF Offer, TypeOK
    <3> QED BY <3>1, <3>2
  <2>3. ASSUME NEW w \in Workers, RunWorker(w) PROVE SkippedOnlyForNewer'
    <3>1. /\ UNCHANGED <<latest, label>>
          /\ \A t \in Tasks : stage[t] = "new" <=> stage'[t] = "new"
      BY <2>3, WorkerStages
    <3>2. ASSUME NEW t \in Tasks, stage'[t] = "superseded", stage[t] # "superseded"
          PROVE  IsSuperseded(t)
      <4>1. CASE Take(w)
        BY <3>2, <4>1 DEF Take, TypeOK
      <4>2. CASE CheckBeforeBuild(w)
        BY <3>2, <4>2 DEF CheckBeforeBuild, MoveTo, TypeOK
      <4>3. CASE Build(w)
        BY <3>2, <4>3 DEF Build, MoveTo, TypeOK
      <4>4. CASE CheckAfterBuild(w)
        BY <3>2, <4>4 DEF CheckAfterBuild, MoveTo, TypeOK
      <4>5. CASE Commit(w)
        BY <3>2, <4>5 DEF Commit, MoveTo, TypeOK
      <4> QED BY <2>3, <4>1, <4>2, <4>3, <4>4, <4>5 DEF RunWorker
    <3>3. ASSUME NEW t \in Tasks, IsSuperseded(t)
          PROVE  \E u \in Tasks : /\ KeyOf(u) = KeyOf(t)
                                 /\ VersionOf(u) > VersionOf(t)
                                 /\ stage[u] # "new"
      <4>1. KeyOf(t) \in Keys /\ latest[KeyOf(t)] \in Nat /\ VersionOf(t) \in Nat
        BY DEF TypeOK, Labels
      <4>2. latest[KeyOf(t)] # 0 /\ latest[KeyOf(t)] > VersionOf(t)
        BY <3>3, <4>1 DEF IsSuperseded
      <4> QED BY <4>1, <4>2 DEF LatestIsPublished
    <3> QED BY <3>1, <3>2, <3>3
  <2>4. CASE UNCHANGED vars
    BY <2>4 DEF vars
  <2> QED BY <2>1, <2>2, <2>3, <2>4 DEF Next, Enqueue
<1> QED BY <1>1, <1>2, RunnerTypes, RunnerHandsOverOnce, LatestInvariant, PTL DEF Spec

-----------------------------------------------------------------------------

\* Between its check and its commit a task is at least as new as anything
\* written for its key, and nothing written is newer than what was published.
WrittenInOrder ==
  /\ \A k \in Keys : written[k] <= latest[k]
  /\ \A t \in Tasks : stage[t] = "committing" => written[KeyOf(t)] <= VersionOf(t)
  /\ CommitsInOrder

LEMMA SingleWorkerWritesInOrder ==
  ASSUME \A v, w \in Workers : v = w
  PROVE  Spec => []WrittenInOrder
<1> USE VersionsArePositive
      DEF WrittenInOrder, CommitsInOrder, KeyOf, VersionOf
<1>1. Init => WrittenInOrder
  BY DEF Init
<1>2. TypeOK /\ HandedOverOnce /\ LatestIsPublished /\ WrittenInOrder /\ [Next]_vars
        => WrittenInOrder'
  <2> SUFFICES ASSUME TypeOK, HandedOverOnce, LatestIsPublished, WrittenInOrder,
                      [Next]_vars
               PROVE  WrittenInOrder'
    OBVIOUS
  <2>0. \A t \in Tasks : label[t].key \in Keys /\ label[t].version \in Nat
    BY DEF TypeOK, Labels
  <2>1. ASSUME NEW t \in Tasks, Publish(t) PROVE WrittenInOrder'
    BY <2>0, <2>1 DEF Publish, TypeOK
  <2>2. ASSUME NEW t \in Tasks, Offer(t) PROVE WrittenInOrder'
    BY <2>0, <2>2 DEF Offer, TypeOK
  <2>3. ASSUME NEW w \in Workers, Take(w) PROVE WrittenInOrder'
    BY <2>0, <2>3 DEF Take, TypeOK
  <2>4. ASSUME NEW w \in Workers, CheckBeforeBuild(w) PROVE WrittenInOrder'
    BY <2>0, <2>4 DEF CheckBeforeBuild, MoveTo, Holds, TypeOK
  <2>5. ASSUME NEW w \in Workers, Build(w) PROVE WrittenInOrder'
    BY <2>0, <2>5 DEF Build, MoveTo, Holds, TypeOK
  <2>6. ASSUME NEW w \in Workers, CheckAfterBuild(w) PROVE WrittenInOrder'
    BY <2>0, <2>6 DEF CheckAfterBuild, MoveTo, Holds, TypeOK, IsSuperseded
  <2>7. ASSUME NEW w \in Workers, Commit(w) PROVE WrittenInOrder'
    <3> DEFINE t == holding[w]
    <3>1. t \in Tasks /\ stage[t] = "committing"
      BY <2>7 DEF Commit, Holds, TypeOK
    <3>2. \A u \in Tasks : stage[u] = "committing" => u = t
      BY DEF HandedOverOnce, InHand
    <3>3. VersionOf(t) <= latest[KeyOf(t)]
      BY <3>1 DEF LatestIsPublished
    <3>4. CASE /\ MoveTo(w, "committed")
               /\ written' = [written EXCEPT ![KeyOf(t)] = VersionOf(t)]
      BY <2>0, <2>7, <3>1, <3>2, <3>3, <3>4 DEF Commit, MoveTo, TypeOK
    <3>5. CASE MoveTo(w, "failed") /\ UNCHANGED written
      BY <2>0, <2>7, <3>1, <3>5 DEF Commit, MoveTo, TypeOK
    <3> QED BY <2>7, <3>4, <3>5 DEF Commit
  <2>8. CASE UNCHANGED vars
    BY <2>8 DEF vars
  <2> QED BY <2>1, <2>2, <2>3, <2>4, <2>5, <2>6, <2>7, <2>8
          DEF Next, Enqueue, RunWorker
<1> QED BY <1>1, <1>2, RunnerTypes, RunnerHandsOverOnce, LatestInvariant, PTL DEF Spec

\* With a single worker, the analytic runner's configuration, no commit is
\* overtaken by a newer one: the commits of a key keep their versions' order.
THEOREM SingleWorkerCommitsInOrder ==
  ASSUME \A v, w \in Workers : v = w
  PROVE  Spec => []CommitsInOrder
<1>1. WrittenInOrder => CommitsInOrder
  BY DEF WrittenInOrder
<1> QED BY <1>1, SingleWorkerWritesInOrder, PTL

-----------------------------------------------------------------------------

\* A task that is checked and found superseded has a newer rival on the board.
LEMMA SupersededHasRival ==
  ASSUME TypeOK, LatestIsPublished, NEW t \in Tasks, IsSuperseded(t)
  PROVE  \E u \in Tasks : Board!Newer(u, t) /\ Status[u] # "new"
<1>1. KeyOf(t) \in Keys /\ latest[KeyOf(t)] \in Nat /\ VersionOf(t) \in Nat
  BY VersionsArePositive DEF TypeOK, Labels, KeyOf, VersionOf
<1>2. latest[KeyOf(t)] # 0 /\ latest[KeyOf(t)] > VersionOf(t)
  BY <1>1 DEF IsSuperseded
<1>3. PICK u \in Tasks : /\ KeyOf(u) = KeyOf(t) /\ VersionOf(u) = latest[KeyOf(t)]
                         /\ stage[u] # "new"
  BY <1>1, <1>2 DEF LatestIsPublished
<1>4. Board!Newer(u, t)
  BY <1>2, <1>3 DEF Board!Newer, KeyOf, VersionOf
<1>5. Status[u] # "new"
  BY <1>3 DEF Status, Ended
<1> QED BY <1>4, <1>5

\* A runner with a single worker is a board of tasks: for any tasks, keys,
\* versions and capacity every step of the executor is a step of the board or
\* invisible on it.
THEOREM RunnerImplementsBoard ==
  ASSUME \A v, w \in Workers : v = w
  PROVE  Spec => ImplementsBoard
<1> USE VersionsArePositive, IdleIsNoTask
<1>1. Init => Board!Init
  BY DEF Init, Board!Init, Status, Labels
<1>2. TypeOK /\ HandedOverOnce /\ LatestIsPublished /\ WrittenInOrder /\ [Next]_vars
        => [Board!Next]_Board!vars
  <2> SUFFICES ASSUME TypeOK, HandedOverOnce, LatestIsPublished, WrittenInOrder,
                      [Next]_vars
               PROVE  Board!Next \/ UNCHANGED Board!vars
    OBVIOUS
  <2> USE DEF Board!Next, Board!vars
  <2>1. \A t \in Tasks : label[t].key \in Keys /\ label[t].version \in Nat
    BY DEF TypeOK, Labels
  <2>2. ASSUME NEW t \in Tasks, Publish(t) PROVE Board!Accept(t)
    BY <2>2 DEF Publish, Board!Accept, Status, Ended, TypeOK
  <2>3. ASSUME NEW t \in Tasks, Offer(t)
        PROVE  Board!Abandon(t) \/ UNCHANGED Board!vars
    <3>1. CASE stage' = [stage EXCEPT ![t] = "queued"]
      BY <2>3, <3>1 DEF Offer, Status, Ended, TypeOK
    <3>2. CASE stage' = [stage EXCEPT ![t] = "dropped"]
      BY <2>3, <3>2 DEF Offer, Board!Abandon, Status, Ended, TypeOK
    <3> QED BY <2>3, <3>1, <3>2 DEF Offer
  <2>4. ASSUME NEW w \in Workers, Take(w) PROVE UNCHANGED Board!vars
    <3>1. Head(jobs) \in Tasks /\ stage[Head(jobs)] = "queued"
      <4>1. Head(jobs) = jobs[1] /\ 1 \in 1..Len(jobs) /\ Head(jobs) \in Tasks
        BY <2>4 DEF Take, TypeOK
      <4> QED BY <4>1 DEF HandedOverOnce
    <3> QED BY <2>4, <3>1 DEF Take, Status, Ended, TypeOK
  <2>5. ASSUME NEW w \in Workers, NEW s \in Stages, holding[w] # Idle,
               stage[holding[w]] \in InHand, MoveTo(w, s)
        PROVE  /\ holding[w] \in Tasks /\ Status[holding[w]] = "pending"
               /\ Status' = [Status EXCEPT ![holding[w]] =
                               IF s \in {"new"} \cup Ended THEN s ELSE "pending"]
    <3>1. holding[w] \in Tasks
      BY <2>5 DEF TypeOK
    <3> QED BY <2>5, <3>1 DEF MoveTo, Status, Ended, InHand, TypeOK
  <2>6. ASSUME NEW w \in Workers, CheckBeforeBuild(w) \/ CheckAfterBuild(w)
        PROVE  Board!Skip(holding[w]) \/ UNCHANGED Board!vars
    <3> DEFINE t == holding[w]
    <3>1. /\ holding[w] # Idle /\ stage[t] \in InHand /\ t \in Tasks
          /\ UNCHANGED <<label, written>>
      BY <2>6 DEF CheckBeforeBuild, CheckAfterBuild, Holds, InHand, TypeOK
    <3>2. CASE IsSuperseded(t)
      <4>1. MoveTo(w, "superseded")
        BY <2>6, <3>2 DEF CheckBeforeBuild, CheckAfterBuild
      <4>2. Status[t] = "pending" /\ Status' = [Status EXCEPT ![t] = "superseded"]
        BY <2>5, <3>1, <4>1 DEF Stages, Ended
      <4>3. \E u \in Tasks : Board!Newer(u, t) /\ Status[u] # "new"
        BY <3>1, <3>2, SupersededHasRival
      <4> QED BY <3>1, <4>2, <4>3 DEF Board!Skip
    <3>3. CASE ~IsSuperseded(t)
      <4>1. PICK s \in {"building", "committing"} : MoveTo(w, s)
        BY <2>6, <3>3 DEF CheckBeforeBuild, CheckAfterBuild
      <4>2. Status[t] = "pending" /\ Status' = [Status EXCEPT ![t] = "pending"]
        BY <2>5, <3>1, <4>1 DEF Stages, Ended, InHand
      <4>3. Status' = Status
        BY <4>2 DEF Status
      <4> QED BY <3>1, <4>3
    <3> QED BY <3>2, <3>3
  <2>7. ASSUME NEW w \in Workers, Build(w)
        PROVE  Board!Abandon(holding[w]) \/ UNCHANGED Board!vars
    <3>1. /\ holding[w] # Idle /\ stage[holding[w]] \in InHand
          /\ UNCHANGED <<label, written>>
      BY <2>7 DEF Build, Holds, InHand
    <3>2. PICK s \in {"built", "nothing", "failed"} : MoveTo(w, s)
      BY <2>7 DEF Build
    <3>3. /\ Status[holding[w]] = "pending"
          /\ Status' = [Status EXCEPT ![holding[w]] = IF s = "built" THEN "pending" ELSE s]
      BY <2>5, <3>1, <3>2 DEF Stages, Ended, InHand
    <3>4. CASE s = "built"
      BY <3>1, <3>3, <3>4 DEF Status
    <3>5. CASE s # "built"
      BY <3>1, <3>2, <3>3, <3>5 DEF Board!Abandon
    <3> QED BY <3>4, <3>5
  <2>8. ASSUME NEW w \in Workers, Commit(w)
        PROVE  Board!TakeEffect(holding[w]) \/ Board!Abandon(holding[w])
    <3> DEFINE t == holding[w]
    <3>1. holding[w] # Idle /\ stage[t] = "committing" /\ t \in Tasks /\ label' = label
      BY <2>8 DEF Commit, Holds, TypeOK
    <3>2. stage[t] \in InHand
      BY <3>1 DEF InHand
    <3>3. CASE /\ MoveTo(w, "committed")
               /\ written' = [written EXCEPT ![KeyOf(t)] = VersionOf(t)]
      <4>1. Status[t] = "pending" /\ Status' = [Status EXCEPT ![t] = "committed"]
        BY <2>5, <3>1, <3>2, <3>3 DEF Stages, Ended
      <4>2. written[label[t].key] <= label[t].version
        BY <3>1 DEF WrittenInOrder, KeyOf, VersionOf
      <4> QED BY <3>1, <3>3, <4>1, <4>2 DEF Board!TakeEffect, KeyOf, VersionOf
    <3>4. CASE MoveTo(w, "failed") /\ UNCHANGED written
      <4>1. Status[t] = "pending" /\ Status' = [Status EXCEPT ![t] = "failed"]
        BY <2>5, <3>1, <3>2, <3>4 DEF Stages, Ended
      <4> QED BY <3>1, <3>4, <4>1 DEF Board!Abandon
    <3> QED BY <2>8, <3>3, <3>4 DEF Commit
  <2>9. CASE UNCHANGED vars
    BY <2>9 DEF vars, Status
  <2>10. ASSUME NEW w \in Workers, RunWorker(w) PROVE Board!Next \/ UNCHANGED Board!vars
    <3>1. CASE Take(w)
      BY <2>4, <3>1
    <3>2. CASE ~Take(w)
      <4>1. holding[w] \in Tasks
        BY <2>10, <3>2 DEF RunWorker, CheckBeforeBuild, Build, CheckAfterBuild, Commit,
           Holds, TypeOK
      <4> QED BY <2>6, <2>7, <2>8, <2>10, <3>2, <4>1 DEF RunWorker
    <3> QED BY <3>1, <3>2
  <2> QED BY <2>2, <2>3, <2>9, <2>10 DEF Next, Enqueue
<1> QED BY <1>1, <1>2, RunnerTypes, RunnerHandsOverOnce, LatestInvariant,
           SingleWorkerWritesInOrder, PTL DEF Spec, ImplementsBoard, Board!Spec
=============================================================================
