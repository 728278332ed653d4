--------------------------- MODULE EndpointPoolProofs ---------------------------
(***************************************************************************)
(* The failover for any number of endpoints, requests and changes of the   *)
(* servers: no endpoint is passed over or taken out of service without a   *)
(* cause, and the recheck demotes none but in a race with a request.       *)
(***************************************************************************)
EXTENDS EndpointPool, TLAPS

\* Every reachable state of the pool is well typed.
THEOREM PoolTypes == Spec => []TypeOK
<1> USE PoolIsNotEmpty, ChangesAreBounded, ImpatientAreRequests, FirstConditions
<1> USE DEF TypeOK, Endpoints, Steps, Ended, Conditions
<1>1. Init => TypeOK
  <2> SUFFICES ASSUME Init PROVE TypeOK
    OBVIOUS
  <2>1. 1 \in 1..NumEndpoints /\ 0 \in 0..MaxChanges
    OBVIOUS
  <2>2. server \in [Endpoints -> Conditions]
    BY DEF Init
  <2>3. ailing \subseteq Endpoints
    BY DEF Init
  <2> QED BY <2>1, <2>2, <2>3 DEF Init
<1>2. TypeOK /\ [Next]_vars => TypeOK'
  <2> SUFFICES ASSUME TypeOK, [Next]_vars PROVE TypeOK'
    OBVIOUS
  <2> USE DEF request, monitor, world
  <2>1. ASSUME NEW r \in Requests, Begin(r) PROVE TypeOK'
    <3>1. doubted' \in [Requests -> SUBSET Endpoints]
      <4>1. {e \in Endpoints : ~healthy[e]} \in SUBSET Endpoints
        OBVIOUS
      <4> QED BY <2>1, <4>1 DEF Begin
    <3>2. pc' \in [Requests -> Steps]
      BY <2>1 DEF Begin
    <3> QED BY <2>1, <3>1, <3>2 DEF Begin
  <2>2. ASSUME NEW r \in Requests, ReadFlag(r) PROVE TypeOK'
    <3>1. pc' \in [Requests -> Steps]
      BY <2>2 DEF ReadFlag
    <3>2. at' \in [Requests -> Endpoints]
      <4>1. at[r] \in Endpoints /\ (at[r] < NumEndpoints => at[r] + 1 \in Endpoints)
        OBVIOUS
      <4>2. \/ UNCHANGED at
            \/ at[r] < NumEndpoints /\ at' = [at EXCEPT ![r] = at[r] + 1]
        BY <2>2 DEF ReadFlag
      <4> QED BY <4>1, <4>2
    <3>3. order' \in [Requests -> SUBSET Endpoints]
      <4> DEFINE found == IF healthy[at[r]] THEN order[r] \cup {at[r]} ELSE order[r]
      <4>1. found \in SUBSET Endpoints /\ RequestOrder(found) \in SUBSET Endpoints
        <5>1. at[r] \in Endpoints /\ order[r] \in SUBSET Endpoints
          OBVIOUS
        <5> QED BY <5>1 DEF RequestOrder
      <4>2. \E o \in {found, RequestOrder(found)} : order' = [order EXCEPT ![r] = o]
        BY <2>2 DEF ReadFlag
      <4> HIDE DEF found
      <4> QED BY <4>1, <4>2
    <3> QED BY <2>2, <3>1, <3>2, <3>3 DEF ReadFlag
  <2>3. ASSUME NEW r \in Requests, Call(r) PROVE TypeOK'
    BY <2>3 DEF Call
  <2>4. ASSUME NEW r \in Requests, MarkAnswered(r) PROVE TypeOK'
    BY <2>4 DEF MarkAnswered, MarkHealth, Rechecking
  <2>5. ASSUME NEW r \in Requests, MarkFailed(r) PROVE TypeOK'
    BY <2>5 DEF MarkFailed, MarkHealth
  <2>6. ASSUME NEW r \in Requests, ContextEnds(r) PROVE TypeOK'
    BY <2>6 DEF ContextEnds
  <2>7. CASE Tick
    BY <2>7 DEF Tick
  <2>0. ASSUME NextEndpoint
        PROVE  /\ checked' \in Endpoints /\ probing' \in BOOLEAN
               /\ step' \in {"look", "check", "wait"}
    <3>1. checked \in 1..NumEndpoints /\ 1 \in 1..NumEndpoints
      OBVIOUS
    <3>2. CASE checked < NumEndpoints
      <4>1. checked' = checked + 1 /\ probing' = probing /\ step' \in {"check", "look"}
        BY <2>0, <3>2 DEF NextEndpoint
      <4>2. checked + 1 \in 1..NumEndpoints
        BY <3>1, <3>2
      <4> QED BY <4>1, <4>2
    <3>3. CASE ~(checked < NumEndpoints)
      BY <2>0, <3>1, <3>3 DEF NextEndpoint
    <3> QED BY <3>2, <3>3
  <2>8. CASE Look
    BY <2>8, <2>0 DEF Look
  <2>9. CASE CheckHealth
    BY <2>9 DEF CheckHealth
  <2>10. CASE MarkChecked
    <3>1. healthy' \in [Endpoints -> BOOLEAN] /\ doubted' \in [Requests -> SUBSET Endpoints]
      BY <2>10 DEF MarkChecked, MarkHealth
    <3> QED BY <2>10, <2>0, <3>1 DEF MarkChecked
  <2>11. CASE ServerChanges
    BY <2>11 DEF ServerChanges
  <2>12. CASE UNCHANGED vars
    BY <2>12 DEF vars
  <2> QED BY <2>1, <2>2, <2>3, <2>4, <2>5, <2>6, <2>7, <2>8, <2>9, <2>10, <2>11, <2>12
          DEF Next, Chat, Run
<1> QED BY <1>1, <1>2, PTL DEF Spec

-----------------------------------------------------------------------------

\* While a request reads, what is flagged down now is doubted, and every
\* endpoint it has read was found healthy or is doubted; from then on every
\* endpoint is still to be called, has failed it, or is doubted, and what it
\* calls is the first of those left.
ReadingAccounted ==
  \A r \in Requests : pc[r] = "reading" =>
    /\ \A e \in Endpoints : ~healthy[e] => e \in doubted[r]
    /\ \A e \in Endpoints : e < at[r] => e \in order[r] \cup doubted[r]

AllAccounted ==
  \A r \in Requests : pc[r] \in {"calling", "answered", "failed", "exhausted"} =>
    Endpoints \subseteq order[r] \cup tried[r] \cup doubted[r]

CallsTheFirst ==
  \A r \in Requests :
    /\ pc[r] \in {"answered", "failed"} => \A e \in order[r] : at[r] <= e
    /\ pc[r] = "exhausted" => order[r] = {}

Accounted ==
  /\ ReadingAccounted /\ AllAccounted /\ CallsTheFirst /\ SkippedForCause
  /\ \A r \in Requests : pc[r] = "idle" => at[r] = 1

\* A step that only touches what these facts do not read keeps them.
LEMMA AccountedUnchanged ==
  ASSUME Accounted, UNCHANGED <<healthy, pc, at, order, tried, doubted>>
  PROVE  Accounted'
BY DEF Accounted, ReadingAccounted, AllAccounted, CallsTheFirst, SkippedForCause

\* A mark by the monitor keeps them: a request that is reading doubts what is
\* flagged down under it.
LEMMA AccountedAfterMark ==
  ASSUME TypeOK, Accounted, NEW e \in Endpoints, NEW v \in BOOLEAN, MarkHealth(e, v),
         UNCHANGED <<pc, at, order, tried>>
  PROVE  Accounted'
<1>1. \A f \in Endpoints : healthy'[f] = IF f = e THEN v ELSE healthy[f]
  BY DEF MarkHealth, TypeOK
<1>2. \A r \in Requests : /\ doubted[r] \subseteq doubted'[r]
                          /\ pc[r] = "reading" /\ ~v => e \in doubted'[r]
  BY DEF MarkHealth, TypeOK
<1>3. ReadingAccounted'
  BY <1>1, <1>2 DEF Accounted, ReadingAccounted
<1> QED BY <1>2, <1>3
        DEF Accounted, AllAccounted, CallsTheFirst, SkippedForCause

\* The mark of a request differs in that the request itself goes on.
LEMMA AccountedOfOthers ==
  ASSUME TypeOK, Accounted, NEW r \in Requests, NEW e \in Endpoints, NEW v \in BOOLEAN,
         MarkHealth(e, v), pc[r] # "reading", NEW s \in Requests, s # r,
         pc'[s] = pc[s], at'[s] = at[s], order'[s] = order[s], tried'[s] = tried[s]
  PROVE  /\ pc'[s] = "reading" =>
              /\ \A f \in Endpoints : ~healthy'[f] => f \in doubted'[s]
              /\ \A f \in Endpoints : f < at'[s] => f \in order'[s] \cup doubted'[s]
         /\ doubted[s] \subseteq doubted'[s]
<1>1. \A f \in Endpoints : healthy'[f] = IF f = e THEN v ELSE healthy[f]
  BY DEF MarkHealth, TypeOK
<1>2. /\ doubted[s] \subseteq doubted'[s]
      /\ pc[s] = "reading" /\ ~v => e \in doubted'[s]
  BY DEF MarkHealth, TypeOK
<1> QED BY <1>1, <1>2 DEF Accounted, ReadingAccounted

\* A request is only answered, rejected or given up after each endpoint before
\* has failed it or was flagged down while it read the flags.
THEOREM PassedOverForCause == Spec => []SkippedForCause
<1> USE PoolIsNotEmpty DEF Endpoints
<1>1. Init => Accounted
  BY DEF Init, Accounted, ReadingAccounted, AllAccounted, CallsTheFirst, SkippedForCause
<1>2. TypeOK /\ Accounted /\ [Next]_vars => Accounted'
  <2> SUFFICES ASSUME TypeOK, Accounted, [Next]_vars PROVE Accounted'
    OBVIOUS
  <2> USE DEF request, monitor, world
  <2>1. ASSUME NEW r \in Requests, Begin(r) PROVE Accounted'
    BY <2>1 DEF Begin, TypeOK, Accounted, ReadingAccounted, AllAccounted, CallsTheFirst,
                SkippedForCause
  <2>2. ASSUME NEW r \in Requests, ReadFlag(r) PROVE Accounted'
    <3> DEFINE found == IF healthy[at[r]] THEN order[r] \cup {at[r]} ELSE order[r]
    <3>1. /\ at[r] \in Endpoints /\ pc[r] = "reading"
          /\ \A e \in Endpoints : e <= at[r] => e \in found \cup doubted[r]
      BY <2>2 DEF ReadFlag, TypeOK, Accounted, ReadingAccounted
    <3>2. CASE at[r] < NumEndpoints
      <4>1. /\ at' = [at EXCEPT ![r] = at[r] + 1]
            /\ order' = [order EXCEPT ![r] = found]
            /\ UNCHANGED <<healthy, pc, tried, doubted>>
        BY <2>2, <3>2 DEF ReadFlag, TypeOK
      <4>2. \A e \in Endpoints : e < at[r] + 1 => e <= at[r]
        BY <3>1
      <4> HIDE DEF found
      <4> QED BY <3>1, <4>1, <4>2
              DEF TypeOK, Accounted, ReadingAccounted, AllAccounted, CallsTheFirst,
                  SkippedForCause
    <3>3. CASE at[r] = NumEndpoints
      <4>1. /\ order' = [order EXCEPT ![r] = RequestOrder(found)]
            /\ pc' = [pc EXCEPT ![r] = "calling"]
            /\ UNCHANGED <<healthy, at, tried, doubted>>
        BY <2>2, <3>3 DEF ReadFlag, TypeOK
      <4>2. Endpoints \subseteq RequestOrder(found) \cup doubted[r]
        BY <3>1, <3>3 DEF RequestOrder
      <4> HIDE DEF found
      <4> QED BY <4>1, <4>2, <3>1
              DEF TypeOK, Accounted, ReadingAccounted, AllAccounted, CallsTheFirst,
                  SkippedForCause
    <3> QED BY <2>2, <3>2, <3>3 DEF ReadFlag
  <2>3. ASSUME NEW r \in Requests, Call(r) PROVE Accounted'
    <3>1. PICK e \in order[r] :
            /\ \A f \in order[r] : e <= f
            /\ at' = [at EXCEPT ![r] = e]
            /\ \E s \in {"answered", "failed", "rejected"} : pc' = [pc EXCEPT ![r] = s]
      BY <2>3 DEF Call
    <3>2. /\ pc[r] = "calling"
          /\ UNCHANGED <<healthy, order, tried, doubted>>
      BY <2>3 DEF Call
    <3>3. e \in Endpoints /\ \A f \in Endpoints : f < e => f \notin order[r]
      <4>1. e \in 1..NumEndpoints
        BY DEF TypeOK
      <4> QED BY <3>1, <4>1
    <3>4. \A f \in Endpoints : f < e => f \in tried[r] \cup doubted[r]
      BY <3>2, <3>3 DEF Accounted, AllAccounted
    <3> QED BY <3>1, <3>2, <3>4
            DEF TypeOK, Accounted, ReadingAccounted, AllAccounted, CallsTheFirst,
                SkippedForCause
  <2>4. ASSUME NEW r \in Requests, MarkAnswered(r) PROVE Accounted'
    <3>1. /\ at[r] \in Endpoints /\ pc[r] = "answered"
          /\ pc' = [pc EXCEPT ![r] = "served"]
          /\ order' = [order EXCEPT ![r] = {}]
          /\ MarkHealth(at[r], TRUE)
          /\ UNCHANGED <<at, tried>>
      BY <2>4 DEF MarkAnswered, TypeOK
    <3>2. \A e \in Endpoints : e < at[r] => e \in tried[r] \cup doubted[r]
      <4>1. \A e \in Endpoints : e < at[r] => e \notin order[r]
        BY <3>1 DEF Accounted, CallsTheFirst, TypeOK
      <4> QED BY <3>1, <4>1 DEF Accounted, AllAccounted
    <3>3. \A s \in Requests : doubted[s] \subseteq doubted'[s]
      BY <3>1 DEF MarkHealth, TypeOK
    <3>4. ReadingAccounted'
      BY <3>1, AccountedOfOthers DEF TypeOK, ReadingAccounted
    <3> QED BY <3>1, <3>2, <3>3, <3>4
            DEF TypeOK, Accounted, AllAccounted, CallsTheFirst, SkippedForCause
  <2>5. ASSUME NEW r \in Requests, MarkFailed(r) PROVE Accounted'
    <3>1. /\ at[r] \in Endpoints /\ pc[r] = "failed"
          /\ pc' = [pc EXCEPT ![r] = IF order[r] = {at[r]} THEN "exhausted" ELSE "calling"]
          /\ order' = [order EXCEPT ![r] = order[r] \ {at[r]}]
          /\ tried' = [tried EXCEPT ![r] = tried[r] \cup {at[r]}]
          /\ MarkHealth(at[r], FALSE)
          /\ UNCHANGED at
      BY <2>5 DEF MarkFailed, TypeOK
    <3>2. Endpoints \subseteq order'[r] \cup tried'[r] \cup doubted[r]
      BY <3>1 DEF Accounted, AllAccounted, TypeOK
    <3>3. \A s \in Requests : doubted[s] \subseteq doubted'[s]
      BY <3>1 DEF MarkHealth, TypeOK
    <3>4. ReadingAccounted'
      BY <3>1, AccountedOfOthers DEF TypeOK, ReadingAccounted
    <3>5. pc'[r] = "exhausted" => order'[r] = {}
      BY <3>1 DEF TypeOK
    <3> QED BY <3>1, <3>2, <3>3, <3>4, <3>5
            DEF TypeOK, Accounted, AllAccounted, CallsTheFirst, SkippedForCause
  <2>6. ASSUME NEW r \in Requests, ContextEnds(r) PROVE Accounted'
    BY <2>6, AccountedUnchanged DEF ContextEnds
  <2>7. CASE Tick
    BY <2>7, AccountedUnchanged DEF Tick
  <2>8. CASE Look
    BY <2>8, AccountedUnchanged DEF Look
  <2>9. CASE CheckHealth
    BY <2>9, AccountedUnchanged DEF CheckHealth
  <2>10. CASE MarkChecked
    <3>1. checked \in Endpoints /\ MarkHealth(checked, step = "reachable")
          /\ UNCHANGED <<pc, at, order, tried>>
      BY <2>10 DEF MarkChecked, TypeOK
    <3> QED BY <3>1, AccountedAfterMark
  <2>11. CASE ServerChanges
    BY <2>11, AccountedUnchanged DEF ServerChanges
  <2>12. CASE UNCHANGED vars
    BY <2>12, AccountedUnchanged DEF vars
  <2> QED BY <2>1, <2>2, <2>3, <2>4, <2>5, <2>6, <2>7, <2>8, <2>9, <2>10, <2>11, <2>12,
             ImpatientAreRequests
          DEF Next, Chat, Run
<1>3. Accounted => SkippedForCause
  BY DEF Accounted
<1> QED BY <1>1, <1>2, <1>3, PoolTypes, PTL DEF Spec

-----------------------------------------------------------------------------

\* The verdicts under way have a cause too: a failure in hand, of a request or
\* of the monitor, comes from a server that was ailing or from a passed deadline.
Explained ==
  /\ MarkedDownForCause
  /\ \A r \in Requests : pc[r] = "failed" => at[r] \in ailing \/ context[r] = "expired"
  /\ step = "unreachable" => checked \in ailing
  /\ \A e \in Endpoints : Ailing(e) => e \in ailing

\* An endpoint out of service has had a server that failed probes or ended
\* generations in a listed error, or a request past its own deadline blamed it:
\* cancelled generations and unlisted errors alone never take one down.
THEOREM NoFalseAlarm == Spec => []MarkedDownForCause
<1> USE DEF Explained, MarkedDownForCause, Ailing
<1>1. Init => Explained
  BY DEF Init
<1>2. TypeOK /\ Explained /\ [Next]_vars => Explained'
  <2> SUFFICES ASSUME TypeOK, Explained, [Next]_vars PROVE Explained'
    OBVIOUS
  <2> USE DEF request, monitor, world, TypeOK
  <2>1. ASSUME NEW r \in Requests, Begin(r) PROVE Explained'
    BY <2>1 DEF Begin
  <2>2. ASSUME NEW r \in Requests, ReadFlag(r) PROVE Explained'
    BY <2>2 DEF ReadFlag
  <2>3. ASSUME NEW r \in Requests, Call(r) PROVE Explained'
    BY <2>3 DEF Call, FailsEligibly
  <2>4. ASSUME NEW r \in Requests, MarkAnswered(r) PROVE Explained'
    BY <2>4 DEF MarkAnswered, MarkHealth
  <2>5. ASSUME NEW r \in Requests, MarkFailed(r) PROVE Explained'
    BY <2>5 DEF MarkFailed, MarkHealth
  <2>6. ASSUME NEW r \in Requests, ContextEnds(r) PROVE Explained'
    BY <2>6 DEF ContextEnds
  <2>7. CASE Tick
    BY <2>7 DEF Tick
  <2>8. CASE Look
    BY <2>8 DEF Look, NextEndpoint
  <2>9. CASE CheckHealth
    BY <2>9 DEF CheckHealth
  <2>10. CASE MarkChecked
    BY <2>10 DEF MarkChecked, MarkHealth, NextEndpoint
  <2>11. CASE ServerChanges
    BY <2>11 DEF ServerChanges
  <2>12. CASE UNCHANGED vars
    BY <2>12 DEF vars
  <2> QED BY <2>1, <2>2, <2>3, <2>4, <2>5, <2>6, <2>7, <2>8, <2>9, <2>10, <2>11, <2>12,
             ImpatientAreRequests
          DEF Next, Chat, Run
<1>3. Explained => MarkedDownForCause
  OBVIOUS
<1> QED BY <1>1, <1>2, <1>3, PoolTypes, PTL DEF Spec

-----------------------------------------------------------------------------

\* What the monitor is rechecking has been flagged down since its look, or a
\* request has brought it back.
RecheckedIsDown == Rechecking /\ healthy[checked] => overtaken

\* Past its first pass the monitor demotes no endpoint, but in a race with a
\* request that brought it back during the check.
THEOREM RecheckOnlyRaises == Spec => RecheckDemotesOnlyInRace
<1> USE DEF RecheckedIsDown, Rechecking
<1>1. Init => RecheckedIsDown
  BY DEF Init
<1>2. TypeOK /\ RecheckedIsDown /\ [Next]_vars => RecheckedIsDown'
  <2> SUFFICES ASSUME TypeOK, RecheckedIsDown, [Next]_vars PROVE RecheckedIsDown'
    OBVIOUS
  <2> USE DEF request, monitor, world, TypeOK
  <2>1. ASSUME NEW r \in Requests, Begin(r) \/ ReadFlag(r) \/ Call(r) \/ ContextEnds(r)
        PROVE  RecheckedIsDown'
    BY <2>1 DEF Begin, ReadFlag, Call, ContextEnds
  <2>2. ASSUME NEW r \in Requests, MarkAnswered(r) PROVE RecheckedIsDown'
    BY <2>2 DEF MarkAnswered, MarkHealth
  <2>3. ASSUME NEW r \in Requests, MarkFailed(r) PROVE RecheckedIsDown'
    BY <2>3 DEF MarkFailed, MarkHealth
  <2>4. CASE Tick
    BY <2>4 DEF Tick
  <2>5. CASE Look
    BY <2>5 DEF Look, NextEndpoint
  <2>6. CASE CheckHealth
    BY <2>6 DEF CheckHealth
  <2>7. CASE MarkChecked
    BY <2>7 DEF MarkChecked, NextEndpoint
  <2>8. CASE ServerChanges
    BY <2>8 DEF ServerChanges
  <2>9. CASE UNCHANGED vars
    BY <2>9 DEF vars
  <2> QED BY <2>1, <2>2, <2>3, <2>4, <2>5, <2>6, <2>7, <2>8, <2>9, ImpatientAreRequests
          DEF Next, Chat, Run
<1>3. TypeOK /\ RecheckedIsDown
        => [\A e \in Endpoints :
              ~probing /\ MarkChecked /\ healthy[e] /\ ~healthy'[e] => overtaken]_vars
  <2> SUFFICES ASSUME TypeOK, RecheckedIsDown, NEW e \in Endpoints,
                      ~probing, MarkChecked, healthy[e], ~healthy'[e]
               PROVE  overtaken
    OBVIOUS
  <2>1. e = checked /\ step \in {"reachable", "unreachable"}
    BY DEF MarkChecked, MarkHealth, TypeOK
  <2> QED BY <2>1
<1> QED BY <1>1, <1>2, <1>3, PoolTypes, PTL DEF Spec, RecheckDemotesOnlyInRace
=============================================================================
