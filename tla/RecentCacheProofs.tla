--------------------------- MODULE RecentCacheProofs ---------------------------
(***************************************************************************)
(* The recent conversation for any number of messages, senders, commands,  *)
(* resets, sessions, expiries and failed calls: what a reset leaves behind *)
(* is of writes under way, and never reaches a later conversation.         *)
(***************************************************************************)
EXTENDS RecentCache, SequenceTheorems, FiniteSetTheorems, FunctionTheorems, TLAPS

\* The elements of a sequence, by its indices.
LEMMA Elements ==
  ASSUME NEW S, NEW s \in Seq(S)
  PROVE  /\ ToSet(s) = {s[i] : i \in 1..Len(s)}
         /\ ToSet(s) \subseteq S
BY ElementOfSeq, LenProperties DEF ToSet

\* Trimming a list leaves a list, of at most Limit turns, all of them of the list.
LEMMA LastTurnsOfSeq ==
  ASSUME NEW S, NEW s \in Seq(S)
  PROVE  /\ LastTurns(s) \in Seq(S)
         /\ Len(LastTurns(s)) <= Limit
         /\ ToSet(LastTurns(s)) \subseteq ToSet(s)
<1> USE LimitIsPositive
<1>1. CASE Len(s) <= Limit
  <2>1. Len(s) \in Nat
    BY LenProperties
  <2> QED BY <1>1, <2>1 DEF LastTurns
<1>2. CASE Len(s) > Limit
  <2> DEFINE m == Len(s) - Limit + 1
             t == SubSeq(s, m, Len(s))
  <2>1. Len(s) \in Nat /\ m \in Int /\ m \in 1..Len(s)
    BY <1>2, LenProperties
  <2>2. \A i \in m..Len(s) : s[i] \in S
    BY <2>1, ElementOfSeq
  <2>3. /\ t \in Seq(S)
        /\ Len(t) = IF m <= Len(s) THEN Len(s) - m + 1 ELSE 0
        /\ \A i \in 1..(Len(s) - m + 1) : t[i] = s[m + i - 1]
    <3> HIDE DEF m
    <3> QED BY <2>1, <2>2, SubSeqProperties
  <2>4. Len(t) = Limit
    BY <2>1, <2>3
  <2>5. \A i \in 1..Len(t) : t[i] = s[m + i - 1] /\ m + i - 1 \in 1..Len(s)
    BY <2>1, <2>3, <2>4
  <2>6. LastTurns(s) = t
    BY <1>2 DEF LastTurns
  <2> HIDE DEF m, t
  <2>7. ToSet(t) \subseteq ToSet(s)
    <3>1. ToSet(t) = {t[i] : i \in 1..Len(t)} /\ ToSet(s) = {s[i] : i \in 1..Len(s)}
      BY <2>3, Elements
    <3>2. \A i \in 1..Len(t) : t[i] \in {s[j] : j \in 1..Len(s)}
      BY <2>5
    <3> QED BY <3>1, <3>2
  <2> QED BY <2>3, <2>4, <2>6, <2>7
<1>3. Len(s) \in Nat
  BY LenProperties
<1> QED BY <1>1, <1>2, <1>3

\* A longer history of ids takes nothing from the sequences of ids.
LEMMA MoreIds ==
  ASSUME NEW n \in Nat, NEW m \in Nat, n <= m
  PROVE  Seq(1..n) \subseteq Seq(1..m)
<1> SUFFICES ASSUME NEW s \in Seq(1..n) PROVE s \in Seq(1..m)
  OBVIOUS
<1>1. s \in [1..Len(s) -> 1..n] /\ Len(s) \in Nat
  BY LenProperties
<1>2. s \in [1..Len(s) -> 1..m]
  BY <1>1
<1> QED BY <1>1, <1>2

-----------------------------------------------------------------------------

\* Who loads or saves has a session, and nobody else; whoever appends has saved
\* its row; and who has no session has nothing in hand.
Working ==
  \A a \in Actors :
    /\ pc[a] \in {"get", "select", "refill", "insert", "append"} <=> own[a] # 0
    /\ pc[a] = "append" => turn[a] # 0
    /\ own[a] = 0 => turn[a] = 0 /\ inHand[a] = <<>>

\* The locals of an operation that ends stay well typed.
LEMMA FinishTypes ==
  ASSUME TypeOK, Working, NEW a \in Actors, Finish(a), opened' = opened, saved' = saved
  PROVE  /\ lock' \in Messages \cup {NoOne}
         /\ pc' \in [Actors -> Steps]
         /\ own' \in [Actors -> 0..opened']
         /\ turn' \in [Actors -> 0..saved']
         /\ inHand' \in [Actors -> Seq(Ids')]
         /\ doomed' \in [Actors -> SUBSET Sessions]
         /\ since' \in [Actors -> 0..saved']
         /\ Working'
<1> USE DEF TypeOK, Finish, Steps, Ids
<1>1. <<>> \in Seq(Ids') /\ 0 \in 0..opened' /\ 0 \in 0..saved'
  OBVIOUS
<1>2. lock' \in Messages \cup {NoOne} /\ pc' \in [Actors -> Steps]
  OBVIOUS
<1>3. own' \in [Actors -> 0..opened'] /\ turn' \in [Actors -> 0..saved']
  BY <1>1
<1>4. /\ inHand' \in [Actors -> Seq(Ids')]
      /\ doomed' \in [Actors -> SUBSET Sessions]
      /\ since' \in [Actors -> 0..saved']
  BY <1>1
<1>5. Working'
  BY DEF Working
<1> QED BY <1>2, <1>3, <1>4, <1>5

\* And so do those of an operation that has loaded a conversation.
LEMMA LoadedTypes ==
  ASSUME TypeOK, Working, NEW a \in Actors, own[a] # 0, NEW c \in Seq(Ids), Loaded(a, c),
         opened' = opened, saved' = saved
  PROVE  /\ lock' \in Messages \cup {NoOne}
         /\ pc' \in [Actors -> Steps]
         /\ own' \in [Actors -> 0..opened']
         /\ turn' \in [Actors -> 0..saved']
         /\ inHand' \in [Actors -> Seq(Ids')]
         /\ doomed' \in [Actors -> SUBSET Sessions]
         /\ since' \in [Actors -> 0..saved']
         /\ Working'
<1>1. CASE a \in Viewers
  BY <1>1, FinishTypes DEF Loaded
<1>2. CASE a \notin Viewers
  BY <1>2 DEF Loaded, Goto, TypeOK, Working, Steps, Ids
<1> QED BY <1>1, <1>2

\* The types are inductive together with who has a session and a row.
LEMMA CacheInvariant == Spec => [](TypeOK /\ Working)
<1> USE SomeSessions, LimitIsPositive, ExpiriesAreBounded, FaultsAreBounded
<1>1. Init => TypeOK /\ Working
  <2> SUFFICES ASSUME Init PROVE TypeOK /\ Working
    OBVIOUS
  <2> USE DEF Init
  <2>1. <<>> \in Seq(Ids) /\ Len(<<>>) = 0
    OBVIOUS
  <2>2. \A s \in Sessions : Len(list[s]) <= Limit
    BY <2>1
  <2>3. rows \in [Sessions -> Seq(Ids)] /\ list \in [Sessions -> Seq(Ids)]
    BY <2>1
  <2> QED BY <2>1, <2>2, <2>3 DEF TypeOK, Working, Steps
<1>2. TypeOK /\ Working /\ [Next]_vars => (TypeOK /\ Working)'
  <2> SUFFICES ASSUME TypeOK, Working, [Next]_vars PROVE TypeOK' /\ Working'
    OBVIOUS
  <2> USE DEF database, history
  <2>1. ASSUME NEW a \in Actors, Begin(a) PROVE TypeOK' /\ Working'
    BY <2>1 DEF Begin, TypeOK, Working, Steps, Ids
  <2>2. ASSUME NEW a \in Actors, BeginSending(a) PROVE TypeOK' /\ Working'
    BY <2>2 DEF BeginSending, TypeOK, Working, Steps, Ids
  <2>3. ASSUME NEW a \in Actors, OpenSession(a) PROVE TypeOK' /\ Working'
    <3>1. /\ session' \in 1..opened' /\ opened' \in 0..MaxSessions /\ opened <= opened'
          /\ own' = [own EXCEPT ![a] = session']
      BY <2>3 DEF OpenSession, TypeOK
    <3>2. own' \in [Actors -> 0..opened'] /\ Working'
      <4>1. 0..opened \subseteq 0..opened' /\ session' \in 0..opened' /\ session' # 0
        BY <3>1 DEF TypeOK
      <4> QED BY <2>3, <3>1, <4>1 DEF OpenSession, Goto, TypeOK, Working
    <3>3. since' \in [Actors -> 0..saved] /\ pc' \in [Actors -> Steps]
      BY <2>3 DEF OpenSession, Goto, TypeOK, Steps
    <3> QED BY <2>3, <3>1, <3>2, <3>3 DEF OpenSession, Goto, TypeOK, Ids
  <2>4. ASSUME NEW a \in Actors, GetRecent(a) PROVE TypeOK' /\ Working'
    <3>1. own[a] \in Sessions /\ own[a] # 0 /\ list[own[a]] \in Seq(Ids)
      BY SMTT(30), <2>4 DEF GetRecent, TypeOK, Working, Sessions
    <3>2. CASE list[own[a]] # <<>>
      BY <2>4, <3>1, <3>2, LoadedTypes DEF GetRecent, TypeOK, Ids
    <3>3. CASE list[own[a]] = <<>>
      <4>1. {turn[b] : b \in {b \in Rivals(a) : Saving(b, own[a])}} \subseteq Ids
        BY DEF Rivals, Saving, Working, TypeOK, Ids, Actors
      <4> QED BY <2>4, <3>1, <3>3, <4>1 DEF GetRecent, Goto, TypeOK, Working, Steps, Ids
    <3> QED BY <3>2, <3>3
  <2>5. ASSUME NEW a \in Actors, SelectRows(a) PROVE TypeOK' /\ Working'
    <3> DEFINE found == LastTurns(rows[own[a]])
    <3>1. own[a] \in Sessions /\ own[a] # 0 /\ found \in Seq(Ids)
      <4>1. own[a] \in Sessions /\ own[a] # 0
        BY SMTT(30), <2>5 DEF SelectRows, TypeOK, Working, Sessions
      <4>2. rows[own[a]] \in Seq(Ids)
        BY <4>1 DEF TypeOK
      <4> QED BY <4>1, <4>2, LastTurnsOfSeq
    <3>2. \/ Loaded(a, <<>>)
          \/ /\ Goto(a, "refill") /\ inHand' = [inHand EXCEPT ![a] = found]
             /\ UNCHANGED <<own, turn, doomed, since>>
      BY <2>5, Zenon DEF SelectRows
    <3>3. UNCHANGED <<database, list, expiries, faults, raced, appended, erased, cleared, leaky>>
      BY <2>5 DEF SelectRows
    <3> HIDE DEF found
    <3>4. CASE Loaded(a, <<>>)
      <4>1. <<>> \in Seq(Ids)
        OBVIOUS
      <4> QED BY <3>1, <3>3, <3>4, <4>1, LoadedTypes DEF TypeOK, Ids
    <3>5. CASE Goto(a, "refill") /\ inHand' = [inHand EXCEPT ![a] = found]
               /\ UNCHANGED <<own, turn, doomed, since>>
      BY <3>1, <3>3, <3>5 DEF Goto, TypeOK, Working, Steps, Ids
    <3> QED BY <3>2, <3>4, <3>5
  <2>6. ASSUME NEW a \in Actors, SetRecent(a) PROVE TypeOK' /\ Working'
    <3>1. own[a] \in Sessions /\ own[a] # 0 /\ inHand[a] \in Seq(Ids)
      BY SMTT(30), <2>6 DEF SetRecent, TypeOK, Working, Sessions
    <3>2. LastTurns(inHand[a]) \in Seq(Ids) /\ Len(LastTurns(inHand[a])) <= Limit
      BY <3>1, LastTurnsOfSeq
    <3>3. UNCHANGED <<database, expiries, raced, appended, erased, cleared, leaky>>
      BY <2>6 DEF SetRecent
    <3>4. /\ list' \in [Sessions -> Seq(Ids)] /\ \A s \in Sessions : Len(list'[s]) <= Limit
          /\ faults' \in 0..MaxFaults
      <4>1. CASE list' = [list EXCEPT ![own[a]] = LastTurns(inHand[a])] /\ UNCHANGED faults
        BY <3>2, <4>1 DEF TypeOK
      <4>2. CASE CallFails /\ UNCHANGED list
        BY <4>2 DEF CallFails, TypeOK
      <4> QED BY <2>6, <4>1, <4>2 DEF SetRecent
    <3>5. Loaded(a, inHand[a])
      BY <2>6 DEF SetRecent
    <3> QED BY <3>1, <3>3, <3>4, <3>5, LoadedTypes DEF TypeOK, Ids
  <2>7. ASSUME NEW a \in Actors, InsertMessage(a) PROVE TypeOK' /\ Working'
    <3> USE <2>7 DEF InsertMessage
    <3>1. own[a] \in Sessions /\ own[a] # 0 /\ saved \in Nat /\ saved' = saved + 1
      BY DEF TypeOK, Working, Sessions
    <3>2. Seq(Ids) \subseteq Seq(Ids') /\ saved' \in Ids' /\ Ids \subseteq Ids'
      BY <3>1, MoreIds DEF Ids
    <3>3. rows' \in [Sessions -> Seq(Ids')]
      <4>1. rows[own[a]] \in Seq(Ids')
        BY <3>1, <3>2 DEF TypeOK
      <4>2. Append(rows[own[a]], saved') \in Seq(Ids')
        BY <3>2, <4>1, AppendProperties
      <4>3. rows' = [rows EXCEPT ![own[a]] = Append(rows[own[a]], saved')]
        OBVIOUS
      <4>4. rows \in [Sessions -> Seq(Ids')]
        BY <3>2 DEF TypeOK
      <4> QED BY <4>2, <4>3, <4>4
    <3>4. list' \in [Sessions -> Seq(Ids')] /\ inHand' \in [Actors -> Seq(Ids')]
      BY <3>2 DEF TypeOK
    <3>5. raced' \subseteq Ids' /\ appended' \subseteq Ids'
      <4>1. {turn[b] : b \in {b \in Rivals(a) : Saving(b, own[a])}} \subseteq Ids
        BY DEF Rivals, Saving, Working, TypeOK, Ids, Actors
      <4> QED BY <3>2, <4>1 DEF TypeOK
    <3>6. turn' \in [Actors -> 0..saved'] /\ since' \in [Actors -> 0..saved'] /\ erased' \in 0..saved'
      <4>1. 0..saved \subseteq 0..saved' /\ saved' \in 0..saved'
        BY <3>1
      <4> QED BY <4>1 DEF TypeOK
    <3>7. pc' \in [Actors -> Steps] /\ Working'
      BY SMTT(30), <3>1 DEF Goto, TypeOK, Working, Steps
    <3> QED BY SMTT(30), <3>1, <3>3, <3>4, <3>5, <3>6, <3>7 DEF TypeOK, Goto
  <2>8. ASSUME NEW a \in Actors, AppendRecent(a) PROVE TypeOK' /\ Working'
    <3>1. own[a] \in Sessions /\ own[a] # 0 /\ turn[a] \in Ids
      BY SMTT(30), <2>8 DEF AppendRecent, TypeOK, Working, Sessions, Ids
    <3> DEFINE new == LastTurns(Append(list[own[a]], turn[a]))
    <3>2. new \in Seq(Ids) /\ Len(new) <= Limit
      <4>1. Append(list[own[a]], turn[a]) \in Seq(Ids)
        BY <3>1, AppendProperties DEF TypeOK
      <4> QED BY <4>1, LastTurnsOfSeq
    <3>3. UNCHANGED <<database, expiries, raced, erased, cleared, leaky>> /\ Finish(a)
      BY <2>8 DEF AppendRecent
    <3>4. /\ list' \in [Sessions -> Seq(Ids)] /\ \A s \in Sessions : Len(list'[s]) <= Limit
          /\ faults' \in 0..MaxFaults /\ appended' \subseteq Ids
      <4>1. CASE list' = [list EXCEPT ![own[a]] = new] /\ UNCHANGED faults
                 /\ appended' = appended \cup {turn[a]}
        BY <3>1, <3>2, <4>1 DEF TypeOK
      <4>2. CASE CallFails /\ UNCHANGED <<list, appended>>
        BY <4>2 DEF CallFails, TypeOK
      <4> QED BY <2>8, <4>1, <4>2 DEF AppendRecent
    <3> QED BY <3>3, <3>4, FinishTypes DEF TypeOK, Ids
  <2>9. ASSUME NEW a \in Actors, ListSessions(a) PROVE TypeOK' /\ Working'
    <3>1. {session} \ {0} \subseteq Sessions
      BY DEF TypeOK, Sessions
    <3>2. doomed' \in [Actors -> SUBSET Sessions]
      BY <2>9, <3>1 DEF ListSessions, TypeOK
    <3> QED BY <2>9, <3>2 DEF ListSessions, Goto, TypeOK, Working, Steps, Ids
  <2>10. ASSUME NEW a \in Actors, DeleteConversation(a) PROVE TypeOK' /\ Working'
    <3>1. <<>> \in Seq(Ids')
      OBVIOUS
    <3>2. rows' \in [Sessions -> Seq(Ids')]
      BY <2>10, <3>1 DEF DeleteConversation, Erase
    <3> QED BY <2>10, <3>2 DEF DeleteConversation, Erase, Goto, TypeOK, Working, Steps, Ids
  <2>11. ASSUME NEW a \in Actors, ClearLists(a) PROVE TypeOK' /\ Working'
    <3>1. /\ list' \in [Sessions -> Seq(Ids)] /\ \A s \in Sessions : Len(list'[s]) <= Limit
          /\ faults' \in 0..MaxFaults
          /\ cleared' \subseteq Sessions /\ leaky' \subseteq cleared'
      <4>1. CASE CallFails /\ UNCHANGED <<list, cleared, leaky>>
        BY <4>1 DEF CallFails, TypeOK
      <4>2. CASE /\ list' = [s \in Sessions |-> IF s \in doomed[a] THEN <<>> ELSE list[s]]
                 /\ cleared' = cleared \cup doomed[a] /\ UNCHANGED faults
                 /\ leaky' = leaky \cup {s \in doomed[a] : \E b \in Actors :
                                           own[b] = s /\ pc[b] \in {"refill", "append"}}
        <5>1. <<>> \in Seq(Ids) /\ Len(<<>>) = 0
          OBVIOUS
        <5>2. list' \in [Sessions -> Seq(Ids)] /\ \A s \in Sessions : Len(list'[s]) <= Limit
          BY <4>2, <5>1 DEF TypeOK
        <5> QED BY <4>2, <5>2 DEF TypeOK
      <4> QED BY <2>11, <4>1, <4>2 DEF ClearLists
    <3> QED BY <2>11, <3>1 DEF ClearLists, Goto, TypeOK, Working, Steps, Ids
  <2>12. ASSUME NEW a \in Actors, Break(a) PROVE TypeOK' /\ Working'
    <3>1. /\ Finish(a) /\ faults' \in 0..MaxFaults
          /\ UNCHANGED <<database, list, expiries, raced, appended, erased, cleared, leaky>>
      BY <2>12 DEF Break, CallFails, TypeOK
    <3> QED BY <3>1, FinishTypes DEF TypeOK, Ids
  <2>13. ASSUME NEW s \in Sessions, Expire(s) PROVE TypeOK' /\ Working'
    <3>1. <<>> \in Seq(Ids) /\ Len(<<>>) = 0
      OBVIOUS
    <3>2. list' \in [Sessions -> Seq(Ids)] /\ \A t \in Sessions : Len(list'[t]) <= Limit
      BY <2>13, <3>1 DEF Expire, TypeOK
    <3> QED BY <2>13, <3>2 DEF Expire, TypeOK, Working, Ids
  <2>14. CASE UNCHANGED vars
    BY <2>14 DEF vars, TypeOK, Working, Ids
  <2> QED BY <2>1, <2>2, <2>3, <2>4, <2>5, <2>6, <2>7, <2>8, <2>9, <2>10, <2>11, <2>12,
             <2>13, <2>14 DEF Next, Load, SaveTurnRecord, ResetConversation
<1> QED BY <1>1, <1>2, PTL DEF Spec

\* Every reachable state of the conversation is well typed, and the list of a
\* session never longer than the limit.
THEOREM CacheTypes == Spec => []TypeOK
BY CacheInvariant, PTL

-----------------------------------------------------------------------------

\* All turns of a sequence are newer than e.
Above(s, e) == \A n \in ToSet(s) : n > e

\* Sequences made of newer turns hold newer turns.
LEMMA EmptyHasNoTurns == ToSet(<<>>) = {}
<1>1. <<>> \in Seq({}) /\ Len(<<>>) = 0
  OBVIOUS
<1>2. \A q \in Seq({}) : ToSet(q) \subseteq {}
  BY Elements
<1> QED BY <1>1, <1>2

LEMMA AboveEmpty == ASSUME NEW e PROVE Above(<<>>, e)
BY EmptyHasNoTurns DEF Above

LEMMA AboveAppend ==
  ASSUME NEW S, NEW s \in Seq(S), NEW n \in S, NEW e, Above(s, e), n > e
  PROVE  Above(Append(s, n), e)
<1>1. Append(s, n) \in Seq(S) /\ Len(Append(s, n)) = Len(s) + 1 /\ Len(s) \in Nat
  BY AppendProperties, LenProperties
<1>2. \A i \in 1..(Len(s) + 1) :
        Append(s, n)[i] = n \/ (i \in 1..Len(s) /\ Append(s, n)[i] = s[i])
  BY <1>1, AppendProperties
<1>3. ToSet(Append(s, n)) = {Append(s, n)[i] : i \in 1..(Len(s) + 1)}
  BY <1>1, Elements
<1>4. ToSet(s) = {s[i] : i \in 1..Len(s)}
  BY Elements
<1> QED BY <1>2, <1>3, <1>4 DEF Above

LEMMA AboveLastTurns ==
  ASSUME NEW S, NEW s \in Seq(S), NEW e, Above(s, e)
  PROVE  Above(LastTurns(s), e)
BY LastTurnsOfSeq DEF Above

\* Session s holds nothing up to turn e, nor does anyone who works on it.
Fresh(s, e) ==
  /\ Above(list[s], e) /\ Above(rows[s], e)
  /\ \A b \in Actors : own[b] = s => /\ turn[b] = 0 \/ turn[b] > e
                                     /\ Above(inHand[b], e)

\* A session holds nothing from before the last reset, an operation nothing from
\* before the one it followed, and sessions not opened yet nothing at all.
Generations ==
  /\ \A s \in Sessions : s > opened => list[s] = <<>> /\ rows[s] = <<>>
  /\ session # 0 => Fresh(session, erased)
  /\ \A a \in Actors : since[a] <= erased /\ (own[a] # 0 => Fresh(own[a], since[a]))

\* Ending an operation, or loading a conversation into it, keeps a session fresh.
LEMMA FinishKeepsFresh ==
  ASSUME TypeOK, NEW a \in Actors, Finish(a), NEW s \in Sessions, NEW e,
         Above(list'[s], e), Above(rows'[s], e), Fresh(s, e)
  PROVE  Fresh(s, e)'
BY SMTT(30) DEF Finish, Fresh, TypeOK, Sessions

LEMMA LoadedKeepsFresh ==
  ASSUME TypeOK, NEW a \in Actors, NEW c, Loaded(a, c), NEW s \in Sessions, NEW e,
         Above(list'[s], e), Above(rows'[s], e), Fresh(s, e), own[a] = s => Above(c, e)
  PROVE  Fresh(s, e)'
<1>1. CASE a \in Viewers
  BY <1>1, FinishKeepsFresh DEF Loaded
<1>2. CASE a \notin Viewers
  BY <1>2 DEF Loaded, Goto, Fresh, TypeOK
<1> QED BY <1>1, <1>2

\* No step brings an older turn into a session that held only newer ones.
LEMMA StaysFresh ==
  ASSUME TypeOK, Working, [Next]_vars, NEW s \in Sessions, NEW e \in 0..saved, Fresh(s, e)
  PROVE  Fresh(s, e)'
<1> USE DEF database, history
<1>0. /\ list[s] \in Seq(Ids) /\ rows[s] \in Seq(Ids) /\ s # 0
      /\ Above(list[s], e) /\ Above(rows[s], e)
  BY SomeSessions DEF TypeOK, Fresh, Sessions
<1>1. ASSUME NEW a \in Actors, Begin(a) PROVE Fresh(s, e)'
  BY <1>1 DEF Begin, Fresh
<1>2. ASSUME NEW a \in Actors, BeginSending(a) PROVE Fresh(s, e)'
  BY <1>2, AboveEmpty DEF BeginSending, Fresh, Working, TypeOK
<1>3. ASSUME NEW a \in Actors, OpenSession(a) PROVE Fresh(s, e)'
  BY <1>3, AboveEmpty DEF OpenSession, Goto, Fresh, Working, TypeOK
<1>4. ASSUME NEW a \in Actors, GetRecent(a) PROVE Fresh(s, e)'
  <2>1. CASE Loaded(a, list[own[a]])
    BY <1>4, <2>1, <1>0, LoadedKeepsFresh DEF GetRecent
  <2>2. CASE Goto(a, "select") /\ UNCHANGED <<own, turn, doomed, since, inHand>>
    BY <1>4, <2>2 DEF GetRecent, Goto, Fresh
  <2> QED BY <1>4, <2>1, <2>2 DEF GetRecent
<1>5. ASSUME NEW a \in Actors, SelectRows(a) PROVE Fresh(s, e)'
  <2> DEFINE found == LastTurns(rows[own[a]])
  <2>1. own[a] = s => Above(found, e)
    BY <1>0, AboveLastTurns
  <2>2. \/ Loaded(a, <<>>)
        \/ /\ Goto(a, "refill") /\ inHand' = [inHand EXCEPT ![a] = found]
           /\ UNCHANGED <<own, turn, doomed, since>>
    BY <1>5, Zenon DEF SelectRows
  <2>3. list' = list /\ rows' = rows
    BY <1>5 DEF SelectRows
  <2> HIDE DEF found
  <2>4. CASE Loaded(a, <<>>)
    BY <1>0, <2>3, <2>4, AboveEmpty, LoadedKeepsFresh
  <2>5. CASE /\ Goto(a, "refill") /\ inHand' = [inHand EXCEPT ![a] = found]
             /\ UNCHANGED <<own, turn, doomed, since>>
    BY <2>1, <2>3, <2>5 DEF Fresh, TypeOK
  <2> QED BY <2>2, <2>4, <2>5
<1>6. ASSUME NEW a \in Actors, SetRecent(a) PROVE Fresh(s, e)'
  <2>1. own[a] = s => Above(inHand[a], e) /\ inHand[a] \in Seq(Ids)
    BY DEF Fresh, TypeOK
  <2>2. own[a] = s => Above(LastTurns(inHand[a]), e)
    BY <2>1, AboveLastTurns
  <2>3. Above(list'[s], e) /\ rows' = rows
    BY <1>6, <1>0, <2>2 DEF SetRecent, TypeOK
  <2>4. Loaded(a, inHand[a])
    BY <1>6 DEF SetRecent
  <2> QED BY <1>0, <2>1, <2>3, <2>4, LoadedKeepsFresh
<1>7. ASSUME NEW a \in Actors, InsertMessage(a) PROVE Fresh(s, e)'
  <2>1. saved \in Nat /\ saved' = saved + 1 /\ saved' > e
    BY <1>7 DEF InsertMessage, TypeOK
  <2>2. saved' \in Nat /\ rows[s] \in Seq(Nat)
    BY <1>0, <2>1 DEF Ids
  <2>3. Above(Append(rows[s], saved'), e)
    BY <1>0, <2>1, <2>2, AboveAppend
  <2>4. Above(rows'[s], e) /\ list' = list
    BY <1>7, <1>0, <2>3 DEF InsertMessage, TypeOK
  <2> QED BY <1>7, <1>0, <2>1, <2>4 DEF InsertMessage, Fresh, TypeOK
<1>8. ASSUME NEW a \in Actors, AppendRecent(a) PROVE Fresh(s, e)'
  <2>1. own[a] = s => turn[a] \in Ids /\ turn[a] > e
    BY <1>8 DEF AppendRecent, Fresh, Working, TypeOK, Ids
  <2>2. own[a] = s => Append(list[s], turn[a]) \in Seq(Ids) /\ Above(Append(list[s], turn[a]), e)
    BY <1>0, <2>1, AppendProperties, AboveAppend
  <2>3. own[a] = s => Above(LastTurns(Append(list[s], turn[a])), e)
    BY <2>2, AboveLastTurns
  <2>4. Above(list'[s], e) /\ rows' = rows /\ Finish(a)
    BY <1>8, <1>0, <2>3 DEF AppendRecent, TypeOK
  <2> QED BY <1>0, <2>4, FinishKeepsFresh
<1>9. ASSUME NEW a \in Actors, ListSessions(a) PROVE Fresh(s, e)'
  BY <1>9 DEF ListSessions, Goto, Fresh
<1>10. ASSUME NEW a \in Actors, DeleteConversation(a) PROVE Fresh(s, e)'
  BY <1>10, <1>0, AboveEmpty DEF DeleteConversation, Erase, Goto, Fresh
<1>11. ASSUME NEW a \in Actors, ClearLists(a) PROVE Fresh(s, e)'
  <2>1. Above(list'[s], e)
    BY <1>11, <1>0, AboveEmpty DEF ClearLists
  <2> QED BY <1>11, <2>1 DEF ClearLists, Goto, Fresh
<1>12. ASSUME NEW a \in Actors, Break(a) PROVE Fresh(s, e)'
  BY <1>12, <1>0, FinishKeepsFresh DEF Break
<1>13. ASSUME NEW t \in Sessions, Expire(t) PROVE Fresh(s, e)'
  <2>1. Above(list'[s], e)
    BY <1>13, <1>0, AboveEmpty DEF Expire, TypeOK
  <2> QED BY <1>13, <2>1 DEF Expire, Fresh
<1>14. CASE UNCHANGED vars
  BY <1>14 DEF vars, Fresh
<1> QED BY <1>1, <1>2, <1>3, <1>4, <1>5, <1>6, <1>7, <1>8, <1>9, <1>10, <1>11, <1>12,
           <1>13, <1>14 DEF Next, Load, SaveTurnRecord, ResetConversation

\* Fresh since a later turn is fresh since an earlier one.
LEMMA FreshSinceEarlier ==
  ASSUME TypeOK, NEW s \in Sessions, NEW d \in Nat, NEW e \in Nat, d <= e, Fresh(s, e)
  PROVE  Fresh(s, d)
<1>1. ASSUME NEW q \in Seq(Ids), Above(q, e) PROVE Above(q, d)
  <2>1. ToSet(q) \subseteq Ids
    BY Elements
  <2> QED BY <1>1, <2>1 DEF Above, Ids, TypeOK
<1>2. list[s] \in Seq(Ids) /\ rows[s] \in Seq(Ids)
  BY DEF TypeOK
<1>3. ASSUME NEW b \in Actors, own[b] = s
      PROVE  (turn[b] = 0 \/ turn[b] > d) /\ Above(inHand[b], d)
  <2>1. inHand[b] \in Seq(Ids) /\ turn[b] \in 0..saved /\ saved \in Nat
    BY DEF TypeOK
  <2> QED BY <1>1, <1>3, <2>1 DEF Fresh
<1> QED BY <1>1, <1>2, <1>3 DEF Fresh

\* A new session is fresh since whatever was erased before it.
LEMMA NewIsFresh ==
  ASSUME TypeOK, Working, Generations, NEW a \in Actors, OpenSession(a), opened' = opened + 1,
         NEW e
  PROVE  Fresh(opened, e)'
<1>1. opened' \in Sessions /\ opened' > opened
  <2>1. opened \in Nat /\ opened < MaxSessions
    BY DEF OpenSession, TypeOK
  <2> QED BY <2>1, SomeSessions DEF Sessions
<1>2. list'[opened'] = <<>> /\ rows'[opened'] = <<>>
  BY <1>1 DEF Generations, OpenSession
<1>3. \A b \in Actors : own[b] # opened'
  BY <1>1 DEF TypeOK
<1>4. own[a] = 0 /\ turn[a] = 0 /\ inHand[a] = <<>>
  BY DEF OpenSession, Working
<1>5. \A b \in Actors : own'[b] = opened' => b = a
  BY <1>3 DEF OpenSession, TypeOK
<1> QED BY <1>2, <1>4, <1>5, AboveEmpty DEF OpenSession, Fresh

\* Sessions stay apart, and no turn outlives a reset in the one that follows.
LEMMA GenerationsInvariance == Spec => []Generations
<1> USE SomeSessions
<1>1. Init => Generations
  <2> SUFFICES ASSUME Init PROVE Generations
    OBVIOUS
  <2> USE DEF Init
  <2>1. \A s \in Sessions : list[s] = <<>> /\ rows[s] = <<>>
    OBVIOUS
  <2>2. session = 0 /\ erased = 0 /\ \A a \in Actors : own[a] = 0 /\ since[a] = 0
    OBVIOUS
  <2> QED BY <2>1, <2>2 DEF Generations
<1>2. TypeOK /\ Working /\ TypeOK' /\ Working' /\ Generations /\ [Next]_vars => Generations'
  <2> SUFFICES ASSUME TypeOK, Working, TypeOK', Working', Generations, [Next]_vars
               PROVE  Generations'
    OBVIOUS
  <2> USE DEF database, history
  <2>1. /\ session # 0 => session \in Sessions
        /\ saved \in Nat /\ erased \in 0..saved
        /\ \A a \in Actors : since[a] \in 0..saved /\ (own[a] # 0 => own[a] \in Sessions)
    <3>1. opened \in Nat /\ opened <= MaxSessions
      BY DEF TypeOK
    <3>2. \A n \in 0..opened : n # 0 => n \in Sessions
      BY <3>1 DEF Sessions
    <3> QED BY <3>2 DEF TypeOK
  <2>2. ASSUME NEW s \in Sessions, NEW e \in 0..saved, Fresh(s, e)
        PROVE  /\ Above(list'[s], e) /\ Above(rows'[s], e)
               /\ \A b \in Actors : own'[b] = s => /\ turn'[b] = 0 \/ turn'[b] > e
                                                   /\ Above(inHand'[b], e)
    BY <2>2, StaysFresh DEF Fresh
  <2>3. ASSUME NEW b \in Actors, own[b] # 0, own'[b] = own[b], since'[b] = since[b]
        PROVE  Fresh(own[b], since[b])'
    BY <2>1, <2>2, <2>3 DEF Generations, Fresh
  <2>4. ASSUME session # 0, session' = session, erased' = erased
        PROVE  Fresh(session, erased)'
    BY <2>1, <2>2, <2>4 DEF Generations, Fresh
  <2>5. ASSUME UNCHANGED <<session, opened, erased>>,
               \A s \in Sessions : s > opened => /\ list'[s] \in {list[s], <<>>}
                                                 /\ rows'[s] \in {rows[s], <<>>},
               \A b \in Actors : /\ own'[b] # 0 => own'[b] = own[b] /\ since'[b] = since[b]
                                 /\ since'[b] \in {0, since[b]}
        PROVE  Generations'
    <3>1. \A b \in Actors : own'[b] # 0 => Fresh(own[b], since[b])'
      BY <2>3, <2>5
    <3>2. \A b \in Actors : since'[b] <= erased'
      BY <2>1, <2>5 DEF Generations
    <3>3. \A s \in Sessions : s > opened' => list'[s] = <<>> /\ rows'[s] = <<>>
      BY <2>5 DEF Generations
    <3> QED BY <2>4, <2>5, <3>1, <3>2, <3>3 DEF Generations
  <2>6. ASSUME NEW a \in Actors, BeginSending(a) PROVE Generations'
    <3>1. /\ own' = [own EXCEPT ![a] = session] /\ session \in Sessions /\ session # 0
          /\ since' = since
      BY <2>1, <2>6 DEF BeginSending
    <3>2. Fresh(session, since[a])
      BY <2>1, <3>1, FreshSinceEarlier DEF Generations
    <3>3. Fresh(own[a], since[a])'
      BY <2>1, <2>2, <3>1, <3>2 DEF Fresh, TypeOK
    <3>4. ASSUME NEW b \in Actors, own'[b] # 0 PROVE Fresh(own[b], since[b])'
      BY <2>3, <3>1, <3>3, <3>4 DEF TypeOK
    <3> QED BY <2>4, <2>6, <3>4 DEF BeginSending, Generations
  <2>7. ASSUME NEW a \in Actors, OpenSession(a) PROVE Generations'
    <3>1. /\ own' = [own EXCEPT ![a] = session'] /\ since' = [since EXCEPT ![a] = erased]
          /\ erased' = erased /\ list' = list /\ rows' = rows
      BY <2>7 DEF OpenSession
    <3>2. session' # 0 /\ Fresh(session, erased)'
      <4>1. CASE session # 0 /\ session' = session
        BY <2>4, <3>1, <4>1
      <4>2. CASE session' = opened' /\ opened' = opened + 1
        <5>1. ASSUME NEW e PROVE Fresh(opened, e)'
          BY <2>7, <4>2, NewIsFresh
        <5>2. \A e : /\ Above(list'[session'], e) /\ Above(rows'[session'], e)
                     /\ \A b \in Actors : own'[b] = session' => /\ turn'[b] = 0 \/ turn'[b] > e
                                                                /\ Above(inHand'[b], e)
          BY <4>2, <5>1 DEF Fresh
        <5>3. session' # 0
          BY <4>2 DEF TypeOK
        <5> QED BY <5>2, <5>3 DEF Fresh
      <4> QED BY <2>7, <4>1, <4>2 DEF OpenSession
    <3>3. ASSUME NEW b \in Actors, own'[b] # 0 PROVE Fresh(own[b], since[b])'
      <4>1. CASE b = a
        BY <3>1, <3>2, <4>1 DEF Fresh, TypeOK
      <4>2. CASE b # a
        BY <2>3, <3>1, <3>3, <4>2 DEF TypeOK
      <4> QED BY <4>1, <4>2
    <3>4. \A b \in Actors : since'[b] <= erased'
      BY <2>1, <3>1 DEF Generations, TypeOK
    <3>5. opened' >= opened /\ opened' \in Nat /\ opened \in Nat
      BY <2>7 DEF OpenSession, TypeOK
    <3>6. \A s \in Sessions : s > opened' => list'[s] = <<>> /\ rows'[s] = <<>>
      BY <3>1, <3>5, SomeSessions DEF Generations, Sessions
    <3> QED BY <3>2, <3>3, <3>4, <3>6 DEF Generations
  <2>8. ASSUME NEW a \in Actors, DeleteConversation(a) PROVE Generations'
    <3> USE <2>8 DEF DeleteConversation, Erase, Goto
    <3>1. \A b \in Actors : own'[b] # 0 => Fresh(own[b], since[b])'
      BY <2>3
    <3>2. \A b \in Actors : since'[b] <= erased'
      BY <2>1
    <3> QED BY <3>1, <3>2 DEF Generations
  <2>9. ASSUME NEW a \in Actors, Finish(a)
        PROVE  \A b \in Actors : /\ own'[b] # 0 => own'[b] = own[b] /\ since'[b] = since[b]
                                 /\ since'[b] \in {0, since[b]}
    BY <2>9 DEF Finish, TypeOK
  <2>10. ASSUME NEW a \in Actors, NEW c, Loaded(a, c)
         PROVE  \A b \in Actors : /\ own'[b] # 0 => own'[b] = own[b] /\ since'[b] = since[b]
                                  /\ since'[b] \in {0, since[b]}
    BY <2>9, <2>10 DEF Loaded
  <2>11. ASSUME NEW a \in Actors, Begin(a) PROVE Generations'
    BY <2>5, <2>11 DEF Begin
  <2>12. ASSUME NEW a \in Actors, GetRecent(a) PROVE Generations'
    BY <2>5, <2>10, <2>12 DEF GetRecent
  <2>13. ASSUME NEW a \in Actors, SelectRows(a) PROVE Generations'
    <3>1. Loaded(a, <<>>) \/ UNCHANGED <<own, since>>
      BY <2>13 DEF SelectRows
    <3> QED BY <2>5, <2>10, <2>13, <3>1 DEF SelectRows
  <2>14. ASSUME NEW a \in Actors, SetRecent(a) PROVE Generations'
    <3>1. own[a] \in Sessions /\ own[a] <= opened
      <4>1. own[a] # 0
        BY <2>14 DEF SetRecent, Working
      <4> QED BY <2>1, <4>1 DEF TypeOK
    <3>2. \A s \in Sessions : s > opened => list'[s] = list[s]
      BY SMTT(30), <2>14, <3>1 DEF SetRecent, TypeOK
    <3> QED BY <2>5, <2>10, <2>14, <3>2 DEF SetRecent
  <2>15. ASSUME NEW a \in Actors, InsertMessage(a) PROVE Generations'
    <3>1. own[a] \in Sessions /\ own[a] <= opened
      <4>1. own[a] # 0
        BY <2>15 DEF InsertMessage, Working
      <4> QED BY <2>1, <4>1 DEF TypeOK
    <3>2. \A s \in Sessions : s > opened => rows'[s] = rows[s]
      BY <2>15, <3>1 DEF InsertMessage, TypeOK
    <3> QED BY <2>5, <2>15, <3>2 DEF InsertMessage
  <2>16. ASSUME NEW a \in Actors, AppendRecent(a) PROVE Generations'
    <3>1. own[a] \in Sessions /\ own[a] <= opened
      <4>1. own[a] # 0
        BY <2>16 DEF AppendRecent, Working
      <4> QED BY <2>1, <4>1 DEF TypeOK
    <3>2. \A s \in Sessions : s # own[a] => list'[s] = list[s]
      <4>1. \/ \E l : list' = [list EXCEPT ![own[a]] = l]
            \/ list' = list
        BY <2>16 DEF AppendRecent
      <4> QED BY <4>1 DEF TypeOK
    <3>3. \A s \in Sessions : s > opened => list'[s] = list[s]
      <4>1. own[a] \in Nat /\ opened \in Nat /\ Sessions \subseteq Nat
        BY <3>1 DEF Sessions, TypeOK
      <4> QED BY <3>1, <3>2, <4>1
    <3> QED BY <2>5, <2>9, <2>16, <3>3 DEF AppendRecent
  <2>17. ASSUME NEW a \in Actors, ListSessions(a) PROVE Generations'
    BY <2>5, <2>17 DEF ListSessions
  <2>18. ASSUME NEW a \in Actors, ClearLists(a) PROVE Generations'
    <3>1. \A s \in Sessions : list'[s] \in {list[s], <<>>}
      BY <2>18 DEF ClearLists
    <3> QED BY <2>5, <2>18, <3>1 DEF ClearLists
  <2>19. ASSUME NEW a \in Actors, Break(a) PROVE Generations'
    BY <2>5, <2>9, <2>19 DEF Break
  <2>20. ASSUME NEW t \in Sessions, Expire(t) PROVE Generations'
    <3>1. \A s \in Sessions : list'[s] \in {list[s], <<>>}
      BY <2>20 DEF Expire, TypeOK
    <3> QED BY <2>5, <2>20, <3>1 DEF Expire
  <2>21. CASE UNCHANGED vars
    BY <2>5, <2>21 DEF vars
  <2> QED BY <2>6, <2>7, <2>8, <2>11, <2>12, <2>13, <2>14, <2>15, <2>16, <2>17, <2>18, <2>19,
             <2>20, <2>21 DEF Next, Load, SaveTurnRecord, ResetConversation
<1> QED BY <1>1, <1>2, CacheInvariant, PTL DEF Spec

\* Whatever is still under way when a conversation is reset, the conversation
\* that follows holds nothing from before the reset.
THEOREM NothingComesBack == Spec => []NothingFromBeforeReset
<1>1. TypeOK /\ Working /\ Generations => NothingFromBeforeReset
  <2> SUFFICES ASSUME TypeOK, Working, Generations, NEW a \in Actors, NEW n \in ToSet(inHand[a])
               PROVE  n > since[a]
    BY DEF NothingFromBeforeReset
  <2>1. own[a] # 0
    BY EmptyHasNoTurns DEF Working
  <2> QED BY <2>1 DEF Generations, Fresh, Above
<1> QED BY <1>1, CacheInvariant, GenerationsInvariance, PTL

-----------------------------------------------------------------------------

\* A session that a reset has deleted.
Gone(s) == s <= opened /\ s # session /\ rows[s] = <<>>

\* Its list is empty, and no write to it is under way.
Quiet(s) ==
  list[s] = <<>> /\ \A b \in Actors : own[b] = s => pc[b] \notin {"refill", "append"}

\* A reset clears the lists of sessions that are gone, and those of the others
\* stay quiet.
Cleared ==
  /\ \A a \in Actors : \A s \in doomed[a] : s <= opened /\ (pc[a] = "clear" => Gone(s))
  /\ \A s \in cleared \ leaky : Gone(s) /\ Quiet(s)

\* A deleted session never comes back.
LEMMA StaysGone ==
  ASSUME TypeOK, Working, [Next]_vars, NEW s \in Sessions, Gone(s)
  PROVE  Gone(s)'
<1> USE DEF database, history
<1>1. ASSUME NEW a \in Actors, OpenSession(a) PROVE Gone(s)'
  <2>1. opened \in Nat /\ s \in Nat
    BY SomeSessions DEF TypeOK, Sessions
  <2> QED BY <1>1, <2>1 DEF OpenSession, Gone
<1>2. ASSUME NEW a \in Actors, InsertMessage(a) PROVE Gone(s)'
  BY <1>2 DEF InsertMessage, Gone, TypeOK
<1>3. ASSUME NEW a \in Actors, DeleteConversation(a) PROVE Gone(s)'
  BY <1>3, SomeSessions DEF DeleteConversation, Erase, Gone, Sessions
<1>4. ASSUME UNCHANGED database PROVE Gone(s)'
  BY <1>4 DEF Gone
<1> QED BY <1>1, <1>2, <1>3, <1>4
        DEF Next, Load, SaveTurnRecord, ResetConversation, Begin, BeginSending, GetRecent,
            SelectRows, SetRecent, AppendRecent, ListSessions, ClearLists, Break, Expire, vars

\* The list of a deleted session stays empty when no write to it is under way:
\* there is nothing to refill it with, and no row can be saved for it.
LEMMA StaysQuiet ==
  ASSUME TypeOK, Working, [Next]_vars, NEW s \in Sessions, Gone(s), Quiet(s)
  PROVE  Quiet(s)'
<1> USE DEF database, history
<1>1. s # 0 /\ s # session
  BY SomeSessions DEF Sessions, Gone
<1>2. ASSUME NEW a \in Actors, Finish(a), list'[s] = <<>> PROVE Quiet(s)'
  BY <1>1, <1>2 DEF Finish, Quiet, TypeOK
<1>3. ASSUME NEW a \in Actors, NEW c, Loaded(a, c), list'[s] = <<>> PROVE Quiet(s)'
  <2>1. CASE a \in Viewers
    BY <1>2, <1>3, <2>1 DEF Loaded
  <2>2. CASE a \notin Viewers
    BY <1>3, <2>2 DEF Loaded, Goto, Quiet, TypeOK
  <2> QED BY <2>1, <2>2
<1>4. ASSUME NEW a \in Actors, NEW p \in Steps \ {"refill", "append"},
             pc' = [pc EXCEPT ![a] = p], own' = own, list'[s] = <<>>
      PROVE  Quiet(s)'
  BY <1>4 DEF Quiet, TypeOK
<1>5. ASSUME NEW a \in Actors, Begin(a) PROVE Quiet(s)'
  BY <1>4, <1>5 DEF Begin, Quiet, Steps
<1>6. ASSUME NEW a \in Actors, BeginSending(a) PROVE Quiet(s)'
  BY <1>1, <1>6 DEF BeginSending, Quiet, TypeOK
<1>7. ASSUME NEW a \in Actors, OpenSession(a) PROVE Quiet(s)'
  BY <1>7 DEF OpenSession, Goto, Quiet, TypeOK
<1>8. ASSUME NEW a \in Actors, GetRecent(a) PROVE Quiet(s)'
  BY <1>3, <1>4, <1>8 DEF GetRecent, Goto, Quiet, Steps
<1>9. ASSUME NEW a \in Actors, SelectRows(a) PROVE Quiet(s)'
  <2>1. LastTurns(<<>>) = <<>>
    BY LimitIsPositive DEF LastTurns
  <2>2. Loaded(a, <<>>) \/ (own[a] # s /\ Goto(a, "refill") /\ UNCHANGED own)
    BY <1>9, <2>1 DEF SelectRows, Gone
  <2>3. list' = list
    BY <1>9 DEF SelectRows
  <2>4. CASE Loaded(a, <<>>)
    BY <1>3, <2>3, <2>4 DEF Quiet
  <2>5. CASE own[a] # s /\ Goto(a, "refill") /\ UNCHANGED own
    BY <2>3, <2>5 DEF Goto, Quiet, TypeOK
  <2> QED BY <2>2, <2>4, <2>5
<1>10. ASSUME NEW a \in Actors, SetRecent(a) PROVE Quiet(s)'
  <2>1. own[a] # s
    BY <1>10 DEF SetRecent, Quiet
  <2>2. list'[s] = <<>>
    BY <1>10, <2>1 DEF SetRecent, Quiet, TypeOK
  <2> QED BY <1>3, <1>10, <2>2 DEF SetRecent
<1>11. ASSUME NEW a \in Actors, InsertMessage(a) PROVE Quiet(s)'
  BY <1>1, <1>11 DEF InsertMessage, Goto, Quiet, TypeOK
<1>12. ASSUME NEW a \in Actors, AppendRecent(a) PROVE Quiet(s)'
  <2>1. own[a] # s
    BY <1>12 DEF AppendRecent, Quiet
  <2>2. list'[s] = <<>>
    BY <1>12, <2>1 DEF AppendRecent, Quiet, TypeOK
  <2> QED BY <1>2, <1>12, <2>2 DEF AppendRecent
<1>13. ASSUME NEW a \in Actors, ListSessions(a) \/ DeleteConversation(a) PROVE Quiet(s)'
  BY <1>4, <1>13 DEF ListSessions, DeleteConversation, Goto, Quiet, Steps
<1>14. ASSUME NEW a \in Actors, ClearLists(a) PROVE Quiet(s)'
  BY <1>4, <1>14 DEF ClearLists, Goto, Quiet, Steps
<1>15. ASSUME NEW a \in Actors, Break(a) PROVE Quiet(s)'
  BY <1>2, <1>15 DEF Break, Quiet
<1>16. ASSUME NEW t \in Sessions, Expire(t) PROVE Quiet(s)'
  BY <1>16 DEF Expire, Quiet, TypeOK
<1>17. CASE UNCHANGED vars
  BY <1>17 DEF vars, Quiet
<1> QED BY <1>5, <1>6, <1>7, <1>8, <1>9, <1>10, <1>11, <1>12, <1>13, <1>14, <1>15, <1>16,
           <1>17 DEF Next, Load, SaveTurnRecord, ResetConversation

LEMMA ClearedInvariance == Spec => []Cleared
<1>1. Init => Cleared
  BY DEF Init, Cleared
<1>2. TypeOK /\ Working /\ Cleared /\ [Next]_vars => Cleared'
  <2> SUFFICES ASSUME TypeOK, Working, Cleared, [Next]_vars PROVE Cleared'
    OBVIOUS
  <2> USE DEF database, history
  <2>1. \A s \in cleared \ leaky : Gone(s)' /\ Quiet(s)'
    BY StaysGone, StaysQuiet DEF Cleared, TypeOK
  <2>2. \A a \in Actors : \A s \in doomed[a] : pc[a] = "clear" => Gone(s) /\ Gone(s)'
    BY StaysGone DEF Cleared, TypeOK
  <2>3. opened \in Nat /\ opened' \in Nat /\ opened' >= opened
    <3>1. opened' \in {opened, opened + 1}
      BY DEF Next, Load, SaveTurnRecord, ResetConversation, Begin, BeginSending, OpenSession,
             GetRecent, SelectRows, SetRecent, InsertMessage, AppendRecent, ListSessions,
             DeleteConversation, ClearLists, Break, Expire, vars
    <3> QED BY <3>1 DEF TypeOK
  <2>4. \A a \in Actors : \A s \in doomed[a] : s \in Nat /\ s <= opened'
    BY <2>3, SomeSessions DEF Cleared, TypeOK, Sessions
  <2>5. ASSUME UNCHANGED <<cleared, leaky>>,
               \A a \in Actors : /\ doomed'[a] \in {{}, doomed[a]}
                                 /\ pc'[a] = "clear" => pc[a] = "clear"
        PROVE  Cleared'
    BY <2>1, <2>2, <2>4, <2>5 DEF Cleared
  <2>6. ASSUME NEW a \in Actors, Finish(a)
        PROVE  \A b \in Actors : /\ doomed'[b] \in {{}, doomed[b]}
                                 /\ pc'[b] = "clear" => pc[b] = "clear"
    BY <2>6 DEF Finish, TypeOK
  <2>7. ASSUME NEW a \in Actors, NEW c, Loaded(a, c)
        PROVE  \A b \in Actors : /\ doomed'[b] \in {{}, doomed[b]}
                                 /\ pc'[b] = "clear" => pc[b] = "clear"
    BY <2>6, <2>7 DEF Loaded, Goto, TypeOK
  <2>8. ASSUME NEW a \in Actors, Begin(a) PROVE Cleared'
    BY <2>5, <2>8 DEF Begin, TypeOK
  <2>9. ASSUME NEW a \in Actors, BeginSending(a) PROVE Cleared'
    BY <2>5, <2>9 DEF BeginSending, TypeOK
  <2>10. ASSUME NEW a \in Actors, OpenSession(a) PROVE Cleared'
    BY <2>5, <2>10 DEF OpenSession, Goto, TypeOK
  <2>11. ASSUME NEW a \in Actors, GetRecent(a) PROVE Cleared'
    BY <2>5, <2>7, <2>11 DEF GetRecent, Goto, TypeOK
  <2>12. ASSUME NEW a \in Actors, SelectRows(a) PROVE Cleared'
    BY <2>5, <2>7, <2>12 DEF SelectRows, Goto, TypeOK
  <2>13. ASSUME NEW a \in Actors, SetRecent(a) PROVE Cleared'
    BY <2>5, <2>7, <2>13 DEF SetRecent
  <2>14. ASSUME NEW a \in Actors, InsertMessage(a) PROVE Cleared'
    BY <2>5, <2>14 DEF InsertMessage, Goto, TypeOK
  <2>15. ASSUME NEW a \in Actors, AppendRecent(a) PROVE Cleared'
    BY <2>5, <2>6, <2>15 DEF AppendRecent
  <2>16. ASSUME NEW a \in Actors, ListSessions(a) PROVE Cleared'
    <3>1. \A b \in Actors : pc'[b] = "clear" => pc[b] = "clear" /\ doomed'[b] = doomed[b]
      BY <2>16 DEF ListSessions, Goto, TypeOK
    <3>2. \A b \in Actors : doomed'[b] \subseteq doomed[b] \cup {session}
      BY <2>16 DEF ListSessions, TypeOK
    <3>3. session <= opened'
      BY <2>16 DEF ListSessions, TypeOK
    <3> QED BY <2>1, <2>2, <2>4, <2>16, <3>1, <3>2, <3>3 DEF ListSessions, Cleared
  <2>17. ASSUME NEW a \in Actors, DeleteConversation(a) PROVE Cleared'
    <3>1. \A s \in Sessions : rows'[s] = <<>> /\ s # session'
      BY <2>17, SomeSessions DEF DeleteConversation, Erase, Sessions
    <3>2. \A b \in Actors : \A s \in doomed[b] : Gone(s)'
      BY <2>4, <3>1 DEF Gone, TypeOK
    <3> QED BY <2>1, <2>4, <2>17, <3>2 DEF DeleteConversation, Cleared
  <2>18. ASSUME NEW a \in Actors, ClearLists(a) PROVE Cleared'
    <3>1. \A b \in Actors : pc'[b] = "clear" => pc[b] = "clear"
      BY <2>18 DEF ClearLists, Goto, TypeOK
    <3>2. ASSUME NEW s \in cleared' \ leaky' PROVE Gone(s)' /\ Quiet(s)'
      <4>1. CASE s \in cleared
        BY <2>1, <2>18, <3>2, <4>1 DEF ClearLists
      <4>2. CASE s \notin cleared
        <5>1. s \in doomed[a] /\ Gone(s)' /\ list'[s] = <<>>
          BY <2>2, <2>18, <3>2, <4>2 DEF ClearLists, TypeOK
        <5>2. \A b \in Actors : own[b] = s => pc[b] \notin {"refill", "append"}
          BY <2>18, <3>2, <4>2, <5>1 DEF ClearLists
        <5>3. own' = own /\ \A b \in Actors : pc'[b] \in {pc[b], "open"}
          BY <2>18 DEF ClearLists, Goto, TypeOK
        <5> QED BY <5>1, <5>2, <5>3 DEF Quiet
      <4> QED BY <4>1, <4>2
    <3> QED BY <2>2, <2>4, <2>18, <3>1, <3>2 DEF ClearLists, Cleared
  <2>19. ASSUME NEW a \in Actors, Break(a) PROVE Cleared'
    BY <2>5, <2>6, <2>19 DEF Break
  <2>20. ASSUME NEW s \in Sessions, Expire(s) PROVE Cleared'
    BY <2>5, <2>20 DEF Expire
  <2>21. CASE UNCHANGED vars
    BY <2>5, <2>21 DEF vars
  <2> QED BY <2>8, <2>9, <2>10, <2>11, <2>12, <2>13, <2>14, <2>15, <2>16, <2>17, <2>18, <2>19,
             <2>20, <2>21 DEF Next, Load, SaveTurnRecord, ResetConversation
<1> QED BY <1>1, <1>2, CacheInvariant, PTL DEF Spec

\* A reset leaves a list behind only if a write to it was under way just then.
THEOREM ResetLeavesNothing == Spec => []ResidueOnlyFromInFlight
<1>1. Cleared => ResidueOnlyFromInFlight
  BY DEF Cleared, Quiet, ResidueOnlyFromInFlight
<1> QED BY <1>1, ClearedInvariance, PTL
-----------------------------------------------------------------------------
(* The order of the list, and what stays in it.                             *)

Increasing(q) == \A i, j \in 1..Len(q) : i < j => q[i] < q[j]

\* Appending adds one turn at the end.
LEMMA AppendedTurn ==
  ASSUME NEW S, NEW s \in Seq(S), NEW n \in S
  PROVE  /\ Append(s, n) \in Seq(S) /\ Len(Append(s, n)) = Len(s) + 1 /\ Len(s) \in Nat
         /\ \A i \in 1..Len(s) : Append(s, n)[i] = s[i]
         /\ Append(s, n)[Len(s) + 1] = n
         /\ ToSet(Append(s, n)) = ToSet(s) \cup {n}
<1>1. Append(s, n) \in Seq(S) /\ Len(Append(s, n)) = Len(s) + 1 /\ Len(s) \in Nat
  BY AppendProperties, LenProperties
<1>2. /\ \A i \in 1..Len(s) : Append(s, n)[i] = s[i]
      /\ Append(s, n)[Len(s) + 1] = n
  BY <1>1, AppendProperties
<1>3. /\ ToSet(Append(s, n)) = {Append(s, n)[i] : i \in 1..(Len(s) + 1)}
      /\ ToSet(s) = {s[i] : i \in 1..Len(s)}
  BY <1>1, Elements
<1>4. 1..(Len(s) + 1) = 1..Len(s) \cup {Len(s) + 1}
  BY <1>1
<1> QED BY <1>1, <1>2, <1>3, <1>4

\* How many turns a trim drops.
Dropped(s) == IF Len(s) > Limit THEN Len(s) - Limit ELSE 0

\* A trim drops the first turns and keeps the order of the others.
LEMMA TrimShifts ==
  ASSUME NEW S, NEW s \in Seq(S)
  PROVE  /\ Dropped(s) \in Nat /\ Len(s) \in Nat /\ Dropped(s) <= Len(s)
         /\ Len(LastTurns(s)) = Len(s) - Dropped(s)
         /\ \A i \in 1..Len(LastTurns(s)) : /\ LastTurns(s)[i] = s[i + Dropped(s)]
                                            /\ i + Dropped(s) \in 1..Len(s)
         /\ s # <<>> => LastTurns(s) # <<>>
<1> USE LimitIsPositive
<1>0. Len(s) \in Nat
  BY LenProperties
<1>1. CASE Len(s) <= Limit
  <2>1. LastTurns(s) = s /\ Dropped(s) = 0
    BY <1>0, <1>1 DEF LastTurns, Dropped
  <2>2. \A i \in 1..Len(s) : s[i] = s[i + 0] /\ i + 0 \in 1..Len(s)
    BY <1>0
  <2> QED BY <1>0, <2>1, <2>2
<1>2. CASE Len(s) > Limit
  <2> DEFINE m == Len(s) - Limit + 1
             t == SubSeq(s, m, Len(s))
  <2>1. m \in Int /\ m \in 1..Len(s)
    BY <1>0, <1>2
  <2>2. \A i \in m..Len(s) : s[i] \in S
    BY <2>1, ElementOfSeq
  <2>3. /\ t \in Seq(S)
        /\ Len(t) = IF m <= Len(s) THEN Len(s) - m + 1 ELSE 0
        /\ \A i \in 1..(Len(s) - m + 1) : t[i] = s[m + i - 1]
    <3> HIDE DEF m
    <3> QED BY <1>0, <2>1, <2>2, SubSeqProperties
  <2>4. Len(t) = Limit /\ LastTurns(s) = t /\ Dropped(s) = Len(s) - Limit
    BY <1>0, <1>2, <2>1, <2>3 DEF LastTurns, Dropped
  <2>5. \A i \in 1..Limit : t[i] = s[i + Dropped(s)] /\ i + Dropped(s) \in 1..Len(s)
    BY <1>0, <1>2, <2>3, <2>4
  <2>6. t # <<>>
    <3> HIDE DEF t
    <3> QED BY <2>4
  <2> QED BY <1>0, <1>2, <2>4, <2>5, <2>6
<1> QED BY <1>0, <1>1, <1>2

LEMMA TrimKeepsIncreasing ==
  ASSUME NEW S, NEW s \in Seq(S), Increasing(s)
  PROVE  Increasing(LastTurns(s))
<1> DEFINE t == LastTurns(s)
           d == Dropped(s)
<1>1. /\ d \in Nat /\ Len(t) = Len(s) - d /\ Len(s) \in Nat
      /\ \A i \in 1..Len(t) : t[i] = s[i + d] /\ i + d \in 1..Len(s)
  BY TrimShifts
<1> SUFFICES ASSUME NEW i \in 1..Len(t), NEW j \in 1..Len(t), i < j PROVE t[i] < t[j]
  BY DEF Increasing
<1> HIDE DEF t, d
<1>2. i \in Nat /\ j \in Nat /\ i + d < j + d
  BY <1>1
<1> QED BY <1>1, <1>2 DEF Increasing

\* A message under way holds the chat's mutex.
MutexHeld == \A m \in Messages : pc[m] \notin {"new", "done"} => lock = m

LEMMA MutexInvariance == Spec => []MutexHeld
<1>1. Init => MutexHeld
  BY DEF Init, MutexHeld, Actors
<1>2. TypeOK /\ MutexHeld /\ [Next]_vars => MutexHeld'
  <2> SUFFICES ASSUME TypeOK, MutexHeld, [Next]_vars PROVE MutexHeld'
    OBVIOUS
  <2> USE NoOneIsNoActor, OnlyMessagesWait DEF Actors
  <2>1. ASSUME NEW a \in Actors, NEW p, Goto(a, p), pc[a] \notin {"new", "done"}
         PROVE  MutexHeld'
    BY <2>1 DEF Goto, MutexHeld, TypeOK
  <2>2. ASSUME NEW a \in Actors, Finish(a) PROVE MutexHeld'
    BY <2>2 DEF Finish, MutexHeld, TypeOK
  <2>3. ASSUME NEW a \in Actors, NEW c, Loaded(a, c), pc[a] \notin {"new", "done"}
         PROVE  MutexHeld'
    BY <2>1, <2>2, <2>3 DEF Loaded
  <2>4. ASSUME NEW a \in Actors, Begin(a) PROVE MutexHeld'
    BY <2>4 DEF Begin, MutexHeld, TypeOK
  <2>5. ASSUME NEW a \in Actors, BeginSending(a) \/ ListSessions(a) PROVE MutexHeld'
    BY <2>5 DEF BeginSending, ListSessions, Goto, MutexHeld, TypeOK
  <2>6. ASSUME NEW a \in Actors, Load(a) PROVE MutexHeld'
    BY <2>1, <2>3, <2>6 DEF Load, OpenSession, GetRecent, SelectRows, SetRecent
  <2>7. ASSUME NEW a \in Actors, SaveTurnRecord(a) PROVE MutexHeld'
    BY <2>1, <2>2, <2>7 DEF SaveTurnRecord, InsertMessage, AppendRecent
  <2>8. ASSUME NEW a \in Actors, DeleteConversation(a) \/ ClearLists(a) PROVE MutexHeld'
    BY <2>1, <2>8 DEF DeleteConversation, ClearLists
  <2>9. ASSUME NEW a \in Actors, Break(a) PROVE MutexHeld'
    BY <2>2, <2>9 DEF Break
  <2>10. ASSUME NEW s \in Sessions, Expire(s) PROVE MutexHeld'
    BY <2>10 DEF Expire, MutexHeld
  <2>11. CASE UNCHANGED vars
    BY <2>11 DEF vars, MutexHeld
  <2> QED BY <2>4, <2>5, <2>6, <2>7, <2>8, <2>9, <2>10, <2>11 DEF Next, ResetConversation
<1> QED BY <1>1, <1>2, CacheInvariant, PTL DEF Spec

\* The turns being saved are different ones, not in the list yet, and each is a row
\* of no other session than its own.
TurnsApart ==
  \A b \in Actors : pc[b] = "append" =>
    /\ turn[b] \notin appended
    /\ \A a \in Actors : a # b /\ pc[a] = "append" => turn[a] # turn[b]
    /\ \A s \in Sessions : turn[b] \in ToSet(rows[s]) => s = own[b]

\* A turn of the active session that is being saved while another one is, while a
\* refill is, or while it is in the list already, is known to be raced; and so is
\* each later turn of its session.
OverlapsAreRaced ==
  \A b \in Actors : Saving(b, session) =>
    /\ \A a \in Actors : a # b /\ Saving(a, session) => turn[b] \in raced
    /\ \A a \in Actors : Refilling(a, session) => turn[b] \in raced
    /\ turn[b] \in ToSet(rows[session])
    /\ \A n \in ToSet(rows[session]) : n > turn[b] => n \in raced
    /\ turn[b] \in ToSet(list[session]) => turn[b] \in raced

\* The rows of the active session are in order, and so is what a refill has read
\* of them; its list holds no other turns.
RowsInOrder ==
  session # 0 =>
    /\ Increasing(rows[session])
    /\ ToSet(list[session]) \subseteq ToSet(rows[session])
    /\ \A a \in Actors : pc[a] = "refill" /\ own[a] = session =>
         /\ inHand[a] # <<>> /\ Increasing(inHand[a])
         /\ ToSet(inHand[a]) \subseteq ToSet(rows[session])

OrderInv == TurnsApart /\ OverlapsAreRaced /\ RowsInOrder /\ ListInOrder

\* No save and no refill begins in a step, and those under way keep what they have.
SavesGoOn ==
  \A b \in Actors : pc'[b] = "append" =>
    pc[b] = "append" /\ own'[b] = own[b] /\ turn'[b] = turn[b]
RefillsGoOn ==
  \A b \in Actors : pc'[b] \in {"select", "refill"} =>
    pc'[b] = pc[b] /\ own'[b] = own[b] /\ inHand'[b] = inHand[b]

LEMMA FinishGoesOn ==
  ASSUME TypeOK, NEW a \in Actors, Finish(a)
  PROVE  SavesGoOn /\ RefillsGoOn /\ pc'[a] = "done"
BY DEF Finish, TypeOK, SavesGoOn, RefillsGoOn

LEMMA LoadedGoesOn ==
  ASSUME TypeOK, NEW a \in Actors, NEW c, Loaded(a, c)
  PROVE  SavesGoOn /\ RefillsGoOn /\ pc'[a] \in {"done", "insert"}
<1>1. CASE a \in Viewers
  BY <1>1, FinishGoesOn DEF Loaded
<1>2. CASE a \notin Viewers
  BY <1>2 DEF Loaded, Goto, TypeOK, SavesGoOn, RefillsGoOn
<1> QED BY <1>1, <1>2

\* A step that means nothing to the order of the active session's list.
Calm ==
  /\ SavesGoOn /\ RefillsGoOn
  /\ UNCHANGED <<session, rows, raced, appended, expiries>>
  /\ session # 0 => list'[session] = list[session]

\* The steps that do.
Opens(a) == OpenSession(a) /\ session = 0
Misses(a) == GetRecent(a) /\ list[own[a]] = <<>>
Finds(a) == SelectRows(a) /\ LastTurns(rows[own[a]]) # <<>>
Refills(a) == SetRecent(a) /\ list' = [list EXCEPT ![own[a]] = LastTurns(inHand[a])]
Appends(a) ==
  /\ AppendRecent(a)
  /\ list' = [list EXCEPT ![own[a]] = LastTurns(Append(@, turn[a]))]
  /\ appended' = appended \cup {turn[a]}

LEMMA StepsThatMatter ==
  ASSUME TypeOK, Working, Cleared, [Next]_vars
  PROVE  \/ Calm
         \/ \E a \in Actors : \/ Opens(a) \/ Misses(a) \/ Finds(a) \/ Refills(a)
                             \/ InsertMessage(a) \/ Appends(a) \/ DeleteConversation(a)
         \/ \E s \in Sessions : Expire(s)
<1> USE DEF database, history
<1>1. ASSUME NEW a \in Actors, Begin(a) \/ BeginSending(a) \/ ListSessions(a) PROVE Calm
  BY <1>1 DEF Begin, BeginSending, ListSessions, Goto, Calm, SavesGoOn, RefillsGoOn, TypeOK
<1>2. ASSUME NEW a \in Actors, OpenSession(a), session # 0 PROVE Calm
  BY <1>2 DEF OpenSession, Goto, Calm, SavesGoOn, RefillsGoOn, TypeOK
<1>3. ASSUME NEW a \in Actors, GetRecent(a), list[own[a]] # <<>> PROVE Calm
  BY <1>3, LoadedGoesOn DEF GetRecent, Calm
<1>4. ASSUME NEW a \in Actors, SelectRows(a), LastTurns(rows[own[a]]) = <<>> PROVE Calm
  BY <1>4, LoadedGoesOn DEF SelectRows, Calm
<1>5. ASSUME NEW a \in Actors, SetRecent(a), UNCHANGED list PROVE Calm
  BY <1>5, LoadedGoesOn DEF SetRecent, Calm
<1>6. ASSUME NEW a \in Actors, AppendRecent(a), UNCHANGED <<list, appended>> PROVE Calm
  BY <1>6, FinishGoesOn DEF AppendRecent, Calm
<1>7. ASSUME NEW a \in Actors, ClearLists(a) PROVE Calm
  <2>1. session # 0 => session \in Sessions /\ session \notin doomed[a]
    BY <1>7, SomeSessions DEF ClearLists, Cleared, Gone, TypeOK, Sessions
  <2>2. session # 0 => list'[session] = list[session]
    BY <1>7, <2>1 DEF ClearLists
  <2> QED BY <1>7, <2>2 DEF ClearLists, Goto, Calm, SavesGoOn, RefillsGoOn, TypeOK
<1>8. ASSUME NEW a \in Actors, Break(a) PROVE Calm
  BY <1>8, FinishGoesOn DEF Break, Calm
<1>9. CASE UNCHANGED vars
  BY <1>9 DEF vars, Calm, SavesGoOn, RefillsGoOn
<1>10. ASSUME NEW a \in Actors, SetRecent(a) PROVE Refills(a) \/ UNCHANGED list
  BY <1>10 DEF SetRecent, Refills
<1>11. ASSUME NEW a \in Actors, AppendRecent(a) PROVE Appends(a) \/ UNCHANGED <<list, appended>>
  BY <1>11 DEF AppendRecent, Appends
<1> QED BY <1>1, <1>2, <1>3, <1>4, <1>5, <1>6, <1>7, <1>8, <1>9, <1>10, <1>11
        DEF Next, Load, SaveTurnRecord, ResetConversation, Opens, Misses, Finds

\* Whoever saves or refills has a session.
LEMMA Owners ==
  ASSUME TypeOK, Working, NEW b \in Actors, pc[b] \in {"get", "select", "refill", "insert", "append"}
  PROVE  own[b] \in Sessions /\ own[b] # 0 /\ own[b] <= opened
<1>1. own[b] \in 0..opened /\ opened \in 0..MaxSessions /\ own[b] # 0
  BY DEF TypeOK, Working
<1> QED BY <1>1, SomeSessions DEF Sessions

\* Everything in a session's rows and list is the id of a turn.
LEMMA TurnsAreIds ==
  ASSUME TypeOK, NEW s \in Sessions
  PROVE  /\ rows[s] \in Seq(Ids) /\ list[s] \in Seq(Ids)
         /\ ToSet(rows[s]) \subseteq Ids /\ ToSet(list[s]) \subseteq Ids /\ Ids \subseteq Nat
<1>1. rows[s] \in Seq(Ids) /\ list[s] \in Seq(Ids)
  BY DEF TypeOK
<1> QED BY <1>1, Elements DEF Ids, TypeOK

LEMMA ActiveIsASession ==
  ASSUME TypeOK, session # 0
  PROVE  session \in Sessions
BY SomeSessions DEF TypeOK, Sessions

LEMMA CalmKeepsOrder ==
  ASSUME TypeOK, Working, OrderInv, Calm
  PROVE  OrderInv'
<1> USE DEF OrderInv, Calm
<1>1. TurnsApart'
  BY DEF TurnsApart, SavesGoOn
<1>2. OverlapsAreRaced'
  <2> SUFFICES ASSUME NEW b \in Actors, Saving(b, session)'
               PROVE  /\ \A a \in Actors : a # b /\ Saving(a, session)' => turn'[b] \in raced
                      /\ \A a \in Actors : Refilling(a, session)' => turn'[b] \in raced
                      /\ turn'[b] \in ToSet(rows[session])
                      /\ \A n \in ToSet(rows[session]) : n > turn'[b] => n \in raced
                      /\ turn'[b] \in ToSet(list'[session]) => turn'[b] \in raced
    BY DEF OverlapsAreRaced
  <2>1. Saving(b, session) /\ turn'[b] = turn[b] /\ list'[session] = list[session]
    BY Owners DEF Saving, SavesGoOn
  <2>2. \A a \in Actors : /\ Saving(a, session)' => Saving(a, session)
                          /\ Refilling(a, session)' => Refilling(a, session)
    BY DEF Saving, Refilling, SavesGoOn, RefillsGoOn
  <2> QED BY <2>1, <2>2 DEF OverlapsAreRaced
<1>3. RowsInOrder'
  BY DEF RowsInOrder, RefillsGoOn
<1>4. ListInOrder'
  BY DEF ListInOrder
<1> QED BY <1>1, <1>2, <1>3, <1>4

\* A new session has no turns, and nobody saves or refills for it yet.
LEMMA NewSession ==
  ASSUME TypeOK, Working, Generations, NEW a \in Actors, Opens(a)
  PROVE  /\ session' # 0 /\ list'[session'] = <<>> /\ rows'[session'] = <<>>
         /\ ToSet(list'[session']) = {} /\ ToSet(rows'[session']) = {}
         /\ \A b \in Actors : ~Saving(b, session)' /\ ~Refilling(b, session)'
<1> USE DEF Opens, OpenSession
<1>1. session' = opened + 1 /\ session' \in Sessions /\ session' # 0 /\ list' = list /\ rows' = rows
  <2>1. opened \in Nat /\ opened < MaxSessions
    BY SomeSessions DEF TypeOK
  <2> QED BY <2>1, SomeSessions DEF Sessions
<1>2. list'[session'] = <<>> /\ rows'[session'] = <<>>
  BY <1>1 DEF Generations, TypeOK
<1>3. \A b \in Actors : own[b] # session'
  BY <1>1 DEF TypeOK
<1>4. \A b \in Actors : ~Saving(b, session)' /\ ~Refilling(b, session)'
  BY <1>3 DEF Goto, Saving, Refilling, TypeOK
<1> QED BY <1>1, <1>2, <1>4, EmptyHasNoTurns

LEMMA OpeningKeepsOrder ==
  ASSUME TypeOK, Working, Generations, OrderInv, NEW a \in Actors, Opens(a)
  PROVE  OrderInv'
<1>1. TurnsApart'
  <2>1. SavesGoOn /\ appended' = appended /\ rows' = rows
    BY DEF Opens, OpenSession, Goto, SavesGoOn, TypeOK
  <2> QED BY <2>1 DEF OrderInv, TurnsApart, SavesGoOn
<1>2. OverlapsAreRaced'
  BY NewSession DEF OverlapsAreRaced
<1>3. RowsInOrder'
  <2>1. Len(<<>>) = 0 /\ 1..0 = {}
    OBVIOUS
  <2>2. Increasing(<<>>)
    BY <2>1 DEF Increasing
  <2> QED BY <2>2, NewSession DEF RowsInOrder, Refilling
<1>4. ListInOrder'
  <2>1. Len(<<>>) = 0 /\ 1..0 = {}
    OBVIOUS
  <2> QED BY <2>1, NewSession DEF ListInOrder
<1> QED BY <1>1, <1>2, <1>3, <1>4 DEF OrderInv

\* One message at a time: whoever the mutex holds back is not at work.
LEMMA RivalsAtWork ==
  ASSUME MutexHeld, NEW a \in Actors, NEW b \in Actors, a # b,
         pc[a] \notin {"new", "done"}, pc[b] \notin {"new", "done"}
  PROVE  b \in Rivals(a)
BY DEF MutexHeld, Rivals

\* A refill that begins marks the turns being saved.
LEMMA MissKeepsOrder ==
  ASSUME TypeOK, Working, MutexHeld, OrderInv, NEW a \in Actors, Misses(a)
  PROVE  OrderInv'
<1> USE DEF OrderInv
<1>1. /\ UNCHANGED <<session, rows, list, appended, own, turn, inHand>>
      /\ pc[a] = "get" /\ pc' = [pc EXCEPT ![a] = "select"]
      /\ raced' = raced \cup {turn[b] : b \in {b \in Rivals(a) : Saving(b, own[a])}}
  BY DEF Misses, GetRecent, Goto, database
<1>2. \A b \in Actors : (pc'[b] = "append" <=> pc[b] = "append")
                        /\ (pc'[b] = "refill" <=> pc[b] = "refill")
  BY <1>1 DEF TypeOK
<1>3. TurnsApart'
  BY <1>1, <1>2 DEF TurnsApart
<1>4. OverlapsAreRaced'
  <2> SUFFICES ASSUME NEW b \in Actors, Saving(b, session)'
               PROVE  /\ \A c \in Actors : c # b /\ Saving(c, session)' => turn[b] \in raced'
                      /\ \A c \in Actors : Refilling(c, session)' => turn[b] \in raced'
                      /\ turn[b] \in ToSet(rows[session])
                      /\ \A n \in ToSet(rows[session]) : n > turn[b] => n \in raced'
                      /\ turn[b] \in ToSet(list[session]) => turn[b] \in raced'
    BY <1>1 DEF OverlapsAreRaced
  <2>1. Saving(b, session)
    BY <1>1, <1>2 DEF Saving
  <2>2. \A c \in Actors : Saving(c, session)' => Saving(c, session)
    BY <1>1, <1>2 DEF Saving
  <2>3. ASSUME NEW c \in Actors, Refilling(c, session)' PROVE turn[b] \in raced'
    <3>1. CASE c = a
      <4>1. own[a] = session /\ a # b
        BY <1>1, <2>1, <2>3, <3>1 DEF Refilling, Saving
      <4>2. b \in Rivals(a)
        BY <1>1, <2>1, <4>1, RivalsAtWork DEF Saving
      <4> QED BY <1>1, <2>1, <4>1, <4>2
    <3>2. CASE c # a
      <4>1. Refilling(c, session)
        BY <1>1, <2>3, <3>2 DEF Refilling, TypeOK
      <4> QED BY <1>1, <2>1, <4>1 DEF OverlapsAreRaced
    <3> QED BY <3>1, <3>2
  <2> QED BY <1>1, <2>1, <2>2, <2>3 DEF OverlapsAreRaced
<1>5. RowsInOrder'
  BY <1>1, <1>2 DEF RowsInOrder
<1>6. ListInOrder'
  BY <1>1 DEF ListInOrder
<1> QED BY <1>3, <1>4, <1>5, <1>6

\* What a refill reads is in order.
LEMMA FindKeepsOrder ==
  ASSUME TypeOK, Working, OrderInv, NEW a \in Actors, Finds(a)
  PROVE  OrderInv'
<1> USE DEF OrderInv
<1> DEFINE found == LastTurns(rows[own[a]])
<1>1. /\ UNCHANGED <<session, rows, list, appended, raced, own, turn>> /\ found # <<>>
      /\ pc[a] = "select" /\ pc' = [pc EXCEPT ![a] = "refill"]
      /\ inHand' = [inHand EXCEPT ![a] = found]
  BY DEF Finds, SelectRows, Goto, database
<1>2. \A b \in Actors : /\ pc'[b] = "append" <=> pc[b] = "append"
                        /\ pc'[b] \in {"select", "refill"} <=> pc[b] \in {"select", "refill"}
  BY <1>1 DEF TypeOK
<1>3. ASSUME own[a] = session
      PROVE  Increasing(rows[session]) => Increasing(found) /\ ToSet(found) \subseteq ToSet(rows[session])
  <2>1. session \in Sessions
    BY <1>1, <1>3, Owners
  <2> QED BY <1>3, <2>1, TurnsAreIds, TrimKeepsIncreasing, LastTurnsOfSeq
<1> HIDE DEF found
<1>4. TurnsApart'
  BY <1>1, <1>2 DEF TurnsApart
<1>5. OverlapsAreRaced'
  BY <1>1, <1>2 DEF OverlapsAreRaced, Saving, Refilling
<1>6. RowsInOrder'
  <2> SUFFICES ASSUME session # 0, NEW b \in Actors, pc'[b] = "refill", own[b] = session
               PROVE  /\ inHand'[b] # <<>> /\ Increasing(inHand'[b])
                      /\ ToSet(inHand'[b]) \subseteq ToSet(rows[session])
    BY <1>1 DEF RowsInOrder
  <2>1. CASE b = a
    BY <1>1, <1>3, <2>1 DEF RowsInOrder, TypeOK
  <2>2. CASE b # a
    BY <1>1, <2>2 DEF RowsInOrder, TypeOK
  <2> QED BY <2>1, <2>2
<1>7. ListInOrder'
  BY <1>1 DEF ListInOrder
<1> QED BY <1>4, <1>5, <1>6, <1>7

\* A refill that ends puts the rows it read in place of the list.
LEMMA RefillKeepsOrder ==
  ASSUME TypeOK, Working, OrderInv, NEW a \in Actors, Refills(a)
  PROVE  OrderInv'
<1> USE DEF OrderInv
<1>1. /\ UNCHANGED <<session, rows, appended, raced>>
      /\ pc[a] = "refill" /\ SavesGoOn /\ RefillsGoOn
      /\ list' = [list EXCEPT ![own[a]] = LastTurns(inHand[a])]
  BY LoadedGoesOn DEF Refills, SetRecent, database
<1>2. CASE own[a] # session
  <2>1. session # 0 => list'[session] = list[session]
    BY <1>1, <1>2 DEF TypeOK
  <2>2. OverlapsAreRaced'
    <3> SUFFICES ASSUME NEW b \in Actors, Saving(b, session)'
                 PROVE  /\ Saving(b, session) /\ turn'[b] = turn[b] /\ list'[session] = list[session]
                        /\ \A c \in Actors : /\ Saving(c, session)' => Saving(c, session)
                                             /\ Refilling(c, session)' => Refilling(c, session)
      BY <1>1 DEF OverlapsAreRaced
    <3> QED BY <1>1, <2>1, Owners DEF Saving, Refilling, SavesGoOn, RefillsGoOn
  <2> QED BY <1>1, <2>1, <2>2 DEF TurnsApart, SavesGoOn, RefillsGoOn, RowsInOrder, ListInOrder
<1>3. CASE own[a] = session
  <2>1. session \in Sessions /\ session # 0 /\ inHand[a] \in Seq(Ids)
    BY <1>1, <1>3, Owners DEF TypeOK
  <2>2. list'[session] = LastTurns(inHand[a])
    BY <1>1, <1>3, <2>1 DEF TypeOK
  <2>3. Increasing(list'[session]) /\ ToSet(list'[session]) \subseteq ToSet(rows[session])
    BY <1>1, <1>3, <2>1, <2>2, TrimKeepsIncreasing, LastTurnsOfSeq DEF RowsInOrder
  <2>4. TurnsApart'
    BY <1>1 DEF TurnsApart, SavesGoOn
  <2>5. OverlapsAreRaced'
    <3> SUFFICES ASSUME NEW b \in Actors, Saving(b, session)'
                 PROVE  /\ Saving(b, session) /\ turn'[b] = turn[b] /\ turn[b] \in raced
                        /\ \A c \in Actors : /\ Saving(c, session)' => Saving(c, session)
                                             /\ Refilling(c, session)' => Refilling(c, session)
      BY <1>1 DEF OverlapsAreRaced
    <3>1. Saving(b, session) /\ turn'[b] = turn[b] /\ Refilling(a, session)
      BY <1>1, <1>3 DEF Saving, Refilling, SavesGoOn
    <3> QED BY <1>1, <3>1 DEF OverlapsAreRaced, Saving, Refilling, SavesGoOn, RefillsGoOn
  <2>6. RowsInOrder'
    BY <1>1, <2>3 DEF RowsInOrder, RefillsGoOn
  <2>7. ListInOrder'
    BY <1>1, <2>3 DEF ListInOrder, Increasing
  <2> QED BY <2>4, <2>5, <2>6, <2>7
<1> QED BY <1>2, <1>3

\* What InsertMessage does to the active session.
LEMMA Inserting ==
  ASSUME TypeOK, Working, MutexHeld, NEW a \in Actors, InsertMessage(a)
  PROVE  /\ session \in Sessions /\ session # 0 /\ own[a] = session /\ saved' = saved + 1
         /\ UNCHANGED <<session, list, appended, own, inHand, expiries>>
         /\ rows' = [rows EXCEPT ![session] = Append(rows[session], saved')]
         /\ ToSet(rows'[session]) = ToSet(rows[session]) \cup {saved'}
         /\ turn' = [turn EXCEPT ![a] = saved']
         /\ pc[a] = "insert" /\ pc' = [pc EXCEPT ![a] = "append"]
         /\ raced \subseteq raced'
         /\ \A b \in Actors : Saving(b, session) => turn[b] \in raced' /\ saved' \in raced'
         /\ \A b \in Actors : Refilling(b, session) => saved' \in raced'
<1>1. /\ session \in Sessions /\ session # 0 /\ own[a] = session /\ saved' = saved + 1
      /\ pc[a] = "insert"
  BY Owners DEF InsertMessage
<1>2. /\ rows' = [rows EXCEPT ![session] = Append(rows[session], saved')]
      /\ turn' = [turn EXCEPT ![a] = saved'] /\ pc' = [pc EXCEPT ![a] = "append"]
      /\ UNCHANGED <<session, list, appended, own, inHand, expiries>>
  BY <1>1 DEF InsertMessage, Goto
<1>3. ToSet(rows'[session]) = ToSet(rows[session]) \cup {saved'}
  <2>1. saved \in Nat /\ saved' \in Nat /\ saved <= saved' /\ saved' \in 1..saved'
    BY <1>1 DEF TypeOK
  <2>2. rows[session] \in Seq(1..saved')
    BY <1>1, <2>1, TurnsAreIds, MoreIds DEF Ids
  <2>3. rows'[session] = Append(rows[session], saved')
    BY <1>1, <1>2 DEF TypeOK
  <2> HIDE DEF Ids
  <2> QED BY <2>1, <2>2, <2>3, AppendedTurn
<1> DEFINE saving == {b \in Rivals(a) : Saving(b, own[a])}
           refilling == {b \in Rivals(a) : Refilling(b, own[a])}
<1>4. raced' = raced \cup {turn[b] : b \in saving}
                     \cup (IF saving \cup refilling = {} THEN {} ELSE {saved'})
  BY DEF InsertMessage
<1>5. \A b \in Actors : Saving(b, session) => b \in saving
  BY <1>1, RivalsAtWork DEF Saving
<1>6. \A b \in Actors : Refilling(b, session) => b \in refilling
  BY <1>1, RivalsAtWork DEF Refilling
<1> HIDE DEF saving, refilling
<1> QED BY <1>1, <1>2, <1>3, <1>4, <1>5, <1>6

\* A new row is the newest of its session, and raced if anybody could see it late.
LEMMA InsertKeepsOrder ==
  ASSUME TypeOK, Working, MutexHeld, OrderInv, NEW a \in Actors, InsertMessage(a)
  PROVE  OrderInv'
<1> USE DEF OrderInv
<1>1. /\ \A b \in Actors : turn[b] \in 0..saved
      /\ \A s \in Sessions : /\ ToSet(rows[s]) \subseteq Ids /\ rows[s] \in Seq(Ids)
                             /\ ToSet(list[s]) \subseteq Ids
      /\ appended \subseteq Ids /\ saved \in Nat
  BY TurnsAreIds DEF TypeOK
<1>2. \A b \in Actors : b # a => pc'[b] = pc[b] /\ turn'[b] = turn[b]
  <2>1. turn' = [turn EXCEPT ![a] = saved'] /\ pc' = [pc EXCEPT ![a] = "append"]
    BY Inserting
  <2>2. pc \in [Actors -> Steps] /\ turn \in [Actors -> 0..saved]
    BY DEF TypeOK
  <2> QED BY ONLY <2>1, <2>2
<1>3. turn'[a] = saved + 1 /\ pc'[a] = "append" /\ saved + 1 \notin Ids
  BY SMTT(30), Inserting, <1>1 DEF TypeOK, Ids
<1>4. \A s \in Sessions : ToSet(rows'[s]) = ToSet(rows[s]) \cup (IF s = session THEN {saved + 1} ELSE {})
  <2>1. /\ rows' = [rows EXCEPT ![session] = Append(rows[session], saved + 1)]
        /\ ToSet(rows'[session]) = ToSet(rows[session]) \cup {saved + 1}
    BY Inserting
  <2>2. rows \in [Sessions -> Seq(Ids)]
    BY DEF TypeOK
  <2>3. \A s \in Sessions : s # session => rows'[s] = rows[s]
    BY ONLY <2>1, <2>2
  <2> QED BY <2>1, <2>3
<1>5. TurnsApart'
  <2> SUFFICES ASSUME NEW b \in Actors, pc'[b] = "append"
               PROVE  /\ turn'[b] \notin appended
                      /\ \A c \in Actors : c # b /\ pc'[c] = "append" => turn'[c] # turn'[b]
                      /\ \A s \in Sessions : turn'[b] \in ToSet(rows'[s]) => s = own[b]
    BY Inserting DEF TurnsApart
  <2>1. CASE b = a
    <3>1. turn'[b] = saved + 1 /\ own[b] = session
      BY Inserting, <1>3, <2>1
    <3>2. saved + 1 \notin appended /\ \A c \in Actors : turn[c] # saved + 1
      BY <1>1, <1>3
    <3>3. \A s \in Sessions : saved + 1 \in ToSet(rows'[s]) => s = session
      BY <1>1, <1>3, <1>4
    <3> QED BY <1>2, <2>1, <3>1, <3>2, <3>3
  <2>2. CASE b # a
    <3>1. turn[b] # saved + 1
      BY <1>1
    <3> QED BY <1>2, <1>3, <1>4, <2>2, <3>1 DEF TurnsApart
  <2> QED BY <2>1, <2>2
<1>6. OverlapsAreRaced'
  <2> SUFFICES ASSUME NEW b \in Actors, Saving(b, session)'
               PROVE  /\ \A c \in Actors : c # b /\ Saving(c, session)' => turn'[b] \in raced'
                      /\ \A c \in Actors : Refilling(c, session)' => turn'[b] \in raced'
                      /\ turn'[b] \in ToSet(rows'[session])
                      /\ \A n \in ToSet(rows'[session]) : n > turn'[b] => n \in raced'
                      /\ turn'[b] \in ToSet(list[session]) => turn'[b] \in raced'
    BY Inserting DEF OverlapsAreRaced
  <2>1. \A c \in Actors : c # a /\ Saving(c, session)' => Saving(c, session)
    BY Inserting, <1>2 DEF Saving
  <2>2. \A c \in Actors : Refilling(c, session)' => Refilling(c, session)
    BY Inserting, <1>2, <1>3 DEF Refilling
  <2>3. CASE b = a
    <3>1. \A n \in ToSet(rows'[session]) : ~(n > saved + 1)
      BY SMTT(30), Inserting, <1>1, <1>4 DEF Ids
    <3> QED BY SMTT(30), Inserting, <1>1, <1>3, <1>4, <2>1, <2>2, <2>3, <3>1
  <2>4. CASE b # a
    <3>1. Saving(b, session) /\ turn'[b] = turn[b] /\ turn[b] \in raced' /\ saved + 1 \in raced'
      BY Inserting, <1>2, <2>1, <2>4
    <3> QED BY Inserting, <1>4, <3>1 DEF OverlapsAreRaced
  <2> QED BY <2>3, <2>4
<1>7. RowsInOrder'
  <2> DEFINE q == rows[session]
  <2>1. q \in Seq(1..(saved + 1)) /\ saved + 1 \in 1..(saved + 1)
        /\ rows'[session] = Append(q, saved + 1)
    <3>1. saved <= saved + 1 /\ saved + 1 \in Nat
      BY <1>1
    <3>2. q \in Seq(1..saved) /\ session \in Sessions
      BY SMTT(30), Inserting, <1>1 DEF Ids
    <3>3. q \in Seq(1..(saved + 1)) /\ saved + 1 \in 1..(saved + 1)
      BY <1>1, <3>1, <3>2, MoreIds
    <3>4. rows'[session] = Append(rows[session], saved + 1)
      <4>1. rows' = [rows EXCEPT ![session] = Append(rows[session], saved + 1)]
        BY Inserting
      <4>2. rows \in [Sessions -> Seq(Ids)]
        BY DEF TypeOK
      <4> QED BY ONLY <3>2, <4>1, <4>2
    <3> QED BY <3>3, <3>4
  <2>2. Increasing(Append(q, saved + 1))
    <3>1. \A i \in 1..Len(q) : q[i] \in ToSet(q) /\ q[i] < saved + 1
      BY SMTT(30), Inserting, <1>1, <2>1, Elements DEF Ids
    <3>2. /\ Len(Append(q, saved + 1)) = Len(q) + 1 /\ Len(q) \in Nat
          /\ \A i \in 1..Len(q) : Append(q, saved + 1)[i] = q[i]
          /\ Append(q, saved + 1)[Len(q) + 1] = saved + 1
      BY <2>1, AppendedTurn
    <3>3. Increasing(q)
      BY Inserting DEF RowsInOrder
    <3> HIDE DEF q
    <3> QED BY <3>1, <3>2, <3>3 DEF Increasing
  <2>3. \A b \in Actors : pc'[b] = "refill" => pc[b] = "refill"
    BY <1>2, <1>3
  <2> QED BY Inserting, <2>1, <2>2, <2>3 DEF RowsInOrder
<1>8. ListInOrder'
  BY Inserting DEF ListInOrder
<1> QED BY <1>5, <1>6, <1>7, <1>8

\* What AppendRecent does to the list of the active session.
LEMMA Appending ==
  ASSUME TypeOK, Working, NEW a \in Actors, Appends(a)
  PROVE  /\ UNCHANGED <<session, rows, raced, expiries>>
         /\ SavesGoOn /\ RefillsGoOn /\ pc[a] = "append" /\ pc'[a] = "done"
         /\ own[a] \in Sessions /\ turn[a] \in Ids
         /\ appended' = appended \cup {turn[a]}
         /\ own[a] # session /\ session # 0 => list'[session] = list[session]
         /\ own[a] = session => list'[session] = LastTurns(Append(list[session], turn[a]))
<1>1. pc[a] = "append" /\ own[a] \in Sessions /\ turn[a] \in Ids
  BY SMTT(30), Owners DEF Appends, AppendRecent, Working, TypeOK, Ids
<1>2. SavesGoOn /\ RefillsGoOn /\ pc'[a] = "done"
  BY FinishGoesOn DEF Appends, AppendRecent
<1> QED BY <1>1, <1>2, ActiveIsASession DEF Appends, AppendRecent, database, TypeOK

\* The list after an append: a shift of the old one, and the turn at its end.
LEMMA AppendedList ==
  ASSUME TypeOK, NEW s \in Sessions, NEW n \in Ids
  PROVE  LET q == list[s]
             t == LastTurns(Append(q, n))
         IN /\ Len(q) \in Nat /\ Len(t) \in Nat /\ Len(t) > 0 /\ t # <<>>
            /\ t[Len(t)] = n
            /\ \E d \in {0, 1} :
                 /\ Len(q) + 1 = Len(t) + d /\ (d = 1 => Len(q) = Limit)
                 /\ \A i \in 1..(Len(t) - 1) : i + d \in 1..Len(q) /\ t[i] = q[i + d]
            /\ ToSet(t) \subseteq ToSet(q) \cup {n} /\ t \in Seq(Ids)
            /\ q \in Seq(Ids)
<1> DEFINE q == list[s]
           p == Append(q, n)
           t == LastTurns(p)
<1>1. q \in Seq(Ids) /\ Len(q) <= Limit /\ Limit \in Nat /\ Limit > 0
  BY LimitIsPositive DEF TypeOK
<1>2. /\ p \in Seq(Ids) /\ Len(p) = Len(q) + 1 /\ Len(q) \in Nat
      /\ \A i \in 1..Len(q) : p[i] = q[i]
      /\ p[Len(q) + 1] = n
      /\ ToSet(p) = ToSet(q) \cup {n}
  BY <1>1, AppendedTurn
<1> HIDE DEF p
<1>3. /\ Dropped(p) \in Nat /\ Dropped(p) <= Len(p) /\ Len(t) = Len(p) - Dropped(p)
      /\ \A i \in 1..Len(t) : t[i] = p[i + Dropped(p)] /\ i + Dropped(p) \in 1..Len(p)
      /\ ToSet(t) \subseteq ToSet(p) /\ t \in Seq(Ids)
  BY <1>2, TrimShifts, LastTurnsOfSeq
<1>4. Dropped(p) = 0 \/ (Dropped(p) = 1 /\ Len(q) = Limit)
  BY <1>1, <1>2 DEF Dropped
<1> HIDE DEF t, q
<1>5. Len(t) \in Nat /\ Len(t) > 0 /\ Dropped(p) = Len(q) + 1 - Len(t)
  BY <1>1, <1>2, <1>3, <1>4
<1>6. t[Len(t)] = n
  BY SMTT(30), <1>2, <1>3, <1>5
<1>7. ASSUME NEW i \in 1..(Len(t) - 1) PROVE i + Dropped(p) \in 1..Len(q) /\ t[i] = q[i + Dropped(p)]
  <2>1. i \in 1..Len(t) /\ i + Dropped(p) \in 1..Len(q)
    BY SMTT(30), <1>2, <1>3, <1>5
  <2> QED BY <1>2, <1>3, <2>1
<1>8. /\ Len(q) + 1 = Len(t) + Dropped(p) /\ (Dropped(p) = 1 => Len(q) = Limit)
      /\ Dropped(p) \in {0, 1}
  BY <1>1, <1>2, <1>4, <1>5
<1>9. \E d \in {0, 1} :
        /\ Len(q) + 1 = Len(t) + d /\ (d = 1 => Len(q) = Limit)
        /\ \A i \in 1..(Len(t) - 1) : i + d \in 1..Len(q) /\ t[i] = q[i + d]
  BY <1>7, <1>8
<1>10. Len(q) \in Nat /\ t # <<>> /\ ToSet(t) \subseteq ToSet(q) \cup {n}
  BY <1>2, <1>3, <1>5
<1> QED BY <1>1, <1>3, <1>5, <1>6, <1>9, <1>10 DEF q, t, p

\* A turn that nobody raced is newer than every other one in the list.
LEMMA AppendKeepsOrder ==
  ASSUME TypeOK, Working, OrderInv, NEW a \in Actors, Appends(a)
  PROVE  OrderInv'
<1> USE DEF OrderInv
<1>1. \A b \in Actors : /\ pc'[b] = "append" => b # a /\ turn'[b] = turn[b] /\ own'[b] = own[b]
                                                /\ pc[b] = "append"
                        /\ Saving(b, session)' => Saving(b, session)
                        /\ Refilling(b, session)' => Refilling(b, session)
  BY Appending DEF SavesGoOn, RefillsGoOn, Saving, Refilling
<1>2. TurnsApart'
  BY <1>1, Appending DEF TurnsApart
<1>3. own[a] = session => /\ session # 0 /\ ToSet(list'[session]) \subseteq ToSet(list[session]) \cup {turn[a]}
                          /\ turn[a] \in ToSet(rows[session]) /\ Saving(a, session)
  <2>1. own[a] # 0 /\ own[a] \in Sessions /\ turn[a] \in Ids /\ pc[a] = "append"
    BY Appending, Owners
  <2>2. \A s \in Sessions : ToSet(LastTurns(Append(list[s], turn[a]))) \subseteq ToSet(list[s]) \cup {turn[a]}
    BY <2>1, AppendedList
  <2> SUFFICES ASSUME own[a] = session
               PROVE  /\ session # 0
                      /\ ToSet(list'[session]) \subseteq ToSet(list[session]) \cup {turn[a]}
                      /\ turn[a] \in ToSet(rows[session]) /\ Saving(a, session)
    OBVIOUS
  <2>3. list'[session] = LastTurns(Append(list[session], turn[a]))
    BY Appending
  <2> QED BY <2>1, <2>2, <2>3 DEF OverlapsAreRaced, Saving
<1>4. OverlapsAreRaced'
  <2> SUFFICES ASSUME NEW b \in Actors, Saving(b, session)'
               PROVE  /\ Saving(b, session) /\ turn'[b] = turn[b]
                      /\ turn[b] \in ToSet(list'[session]) => turn[b] \in raced
    BY <1>1, Appending DEF OverlapsAreRaced
  <2>1. Saving(b, session) /\ turn'[b] = turn[b] /\ turn[b] # turn[a] /\ session # 0
    <3>1. pc'[b] = "append"
      BY DEF Saving
    <3>2. pc[b] = "append" /\ own[b] # 0
      BY <1>1, <3>1, Owners
    <3> QED BY <1>1, <3>1, <3>2, Appending DEF TurnsApart, Saving
  <2>2. turn[b] \in ToSet(list'[session]) => turn[b] \in ToSet(list[session])
    BY <1>3, <2>1, Appending
  <2> QED BY <2>1, <2>2 DEF OverlapsAreRaced
<1>5. RowsInOrder'
  BY <1>3, Appending DEF RowsInOrder, RefillsGoOn
<1>6. ListInOrder'
  <2>1. CASE own[a] # session
    BY <2>1, Appending DEF ListInOrder
  <2>2. CASE own[a] = session
    <3> DEFINE q == list[session]
               t == LastTurns(Append(q, turn[a]))
    <3>1. list'[session] = t /\ session \in Sessions /\ turn[a] \in Ids
      BY <2>2, Appending
    <3>0. /\ Len(q) \in Nat /\ Len(t) \in Nat /\ Len(t) > 0 /\ t[Len(t)] = turn[a]
          /\ \E d \in {0, 1} :
               /\ Len(q) + 1 = Len(t) + d
               /\ \A i \in 1..(Len(t) - 1) : i + d \in 1..Len(q) /\ t[i] = q[i + d]
          /\ q \in Seq(Ids)
      BY <3>1, AppendedList
    <3> HIDE DEF t
    <3>2. PICK d \in {0, 1} :
               /\ Len(q) + 1 = Len(t) + d
               /\ \A i \in 1..(Len(t) - 1) : i + d \in 1..Len(q) /\ t[i] = q[i + d]
      BY <3>0
    <3>3. \A i \in 1..Len(q) : q[i] \in ToSet(q) /\ q[i] \in Nat
      <4>1. ToSet(q) = {q[i] : i \in 1..Len(q)} /\ ToSet(q) \subseteq Nat
        BY <3>0, <3>1, Elements, TurnsAreIds
      <4> QED BY <4>1
    <3>4. \A i \in 1..Len(q) : q[i] \notin raced /\ turn[a] \notin raced => q[i] < turn[a]
      <4>1. turn[a] \in Nat
        BY Appending, TurnsAreIds
      <4> QED BY <1>3, <2>2, <3>3, <4>1 DEF OverlapsAreRaced, RowsInOrder
    <3>5. \A i, j \in 1..Len(q) : i < j /\ q[i] \notin raced /\ q[j] \notin raced => q[i] < q[j]
      BY <1>3, <2>2 DEF ListInOrder
    <3> HIDE DEF q
    <3>6. ASSUME NEW i \in 1..Len(t), NEW j \in 1..Len(t), i < j, t[i] \notin raced, t[j] \notin raced
          PROVE  t[i] < t[j]
      <4>1. i \in 1..(Len(t) - 1) /\ i + d \in 1..Len(q) /\ t[i] = q[i + d]
        BY SMTT(30), <3>0, <3>2, <3>6
      <4>2. CASE j = Len(t)
        BY <3>0, <3>2, <3>4, <3>6, <4>1, <4>2
      <4>3. CASE j # Len(t)
        <5>1. j + d \in 1..Len(q) /\ t[j] = q[j + d] /\ i + d < j + d
          BY SMTT(30), <3>0, <3>2, <3>6, <4>3
        <5> QED BY <3>5, <3>6, <4>1, <5>1
      <4> QED BY <4>2, <4>3
    <3> QED BY <3>1, <3>6, Appending DEF ListInOrder
  <2> QED BY <2>1, <2>2
<1> QED BY <1>2, <1>4, <1>5, <1>6

LEMMA DeletionKeepsOrder ==
  ASSUME TypeOK, Working, Working', OrderInv, NEW a \in Actors, DeleteConversation(a)
  PROVE  OrderInv'
<1>1. session' = 0 /\ appended' = {} /\ SavesGoOn /\ \A s \in Sessions : rows'[s] = <<>>
  BY DEF DeleteConversation, Erase, Goto, SavesGoOn, TypeOK
<1>2. \A b \in Actors : ~Saving(b, session)'
  BY <1>1 DEF Saving, Working
<1> QED BY <1>1, <1>2, EmptyHasNoTurns
        DEF OrderInv, TurnsApart, OverlapsAreRaced, RowsInOrder, ListInOrder, SavesGoOn

\* An expired list is empty.
LEMMA ExpiryKeepsOrder ==
  ASSUME TypeOK, Working, OrderInv, NEW s \in Sessions, Expire(s)
  PROVE  OrderInv'
<1>1. /\ UNCHANGED <<session, rows, raced, appended, pc, own, turn, inHand>>
      /\ \A t \in Sessions : list'[t] = list[t] \/ list'[t] = <<>>
  BY DEF Expire, database, history, TypeOK
<1>2. session # 0 => \/ list'[session] = list[session]
                     \/ list'[session] = <<>> /\ ToSet(list'[session]) = {} /\ Len(list'[session]) = 0
  BY <1>1, ActiveIsASession, EmptyHasNoTurns
<1>3. \A b \in Actors : Saving(b, session)' => Saving(b, session) /\ session # 0
  BY <1>1, Owners DEF Saving
<1>4. OverlapsAreRaced'
  BY <1>1, <1>2, <1>3 DEF OrderInv, OverlapsAreRaced, Saving, Refilling
<1>5. ListInOrder'
  <2>1. 1..0 = {}
    OBVIOUS
  <2> QED BY <1>1, <1>2, <2>1 DEF OrderInv, ListInOrder
<1> QED BY <1>1, <1>2, <1>4, <1>5 DEF OrderInv, TurnsApart, RowsInOrder

LEMMA OrderInvariance == Spec => []OrderInv
<1>1. Init => OrderInv
  BY DEF Init, OrderInv, TurnsApart, OverlapsAreRaced, RowsInOrder, ListInOrder, Saving
<1>2. TypeOK /\ Working /\ Working' /\ MutexHeld /\ Generations /\ Cleared /\ OrderInv /\ [Next]_vars
      => OrderInv'
  BY StepsThatMatter, CalmKeepsOrder, OpeningKeepsOrder, MissKeepsOrder, FindKeepsOrder,
     RefillKeepsOrder, InsertKeepsOrder, AppendKeepsOrder, DeletionKeepsOrder, ExpiryKeepsOrder
<1> QED BY <1>1, <1>2, CacheInvariant, MutexInvariance, GenerationsInvariance, ClearedInvariance,
           PTL DEF Spec

\* The list of the active session never repeats a turn nor loses the order of the
\* rows, but for turns saved while another save or a refill was under way.
THEOREM ListKeepsOrder == Spec => []ListInOrder
<1>1. OrderInv => ListInOrder
  BY DEF OrderInv
<1> QED BY <1>1, OrderInvariance, PTL

-----------------------------------------------------------------------------

\* The turns of the active session that reached the list and that nobody raced.
Kept == (appended \ raced) \cap ToSet(rows[session])
Newer(n) == {m \in ToSet(rows[session]) : m > n}

\* After a turn that is kept the list holds newer ones only, each of them once,
\* and all of them by being appended.
FollowedByNewer(q) ==
  \A i, j \in 1..Len(q) :
    i < j /\ q[i] \in Kept => /\ q[j] > q[i] /\ q[j] \in appended
                              /\ \A k \in 1..Len(q) : j < k => q[j] # q[k]

\* As long as no list has expired: nothing was appended to the list of the active
\* session while it is empty; a refill of it finds nothing worth keeping; and what is
\* kept is in the list, followed by newer turns, or has Limit newer ones.
KeptInv ==
  expiries = 0 /\ session # 0 =>
    /\ list[session] = <<>> => appended \cap ToSet(rows[session]) = {}
    /\ (\E a \in Actors : Refilling(a, session)) => Kept = {}
    /\ FollowedByNewer(list[session])
    /\ \A n \in Kept : n \in ToSet(list[session]) \/ Cardinality(Newer(n)) >= Limit

\* The newer turns of a session are finitely many, and do not get fewer.
LEMMA NewerGrows ==
  ASSUME TypeOK, TypeOK', session \in Sessions, session' = session, NEW n \in Nat,
         ToSet(rows[session]) \subseteq ToSet(rows'[session])
  PROVE  /\ IsFiniteSet(Newer(n)) /\ Cardinality(Newer(n)) \in Nat
         /\ Cardinality(Newer(n)') \in Nat /\ Cardinality(Newer(n)) <= Cardinality(Newer(n)')
<1>1. ToSet(rows[session]) \subseteq 1..saved /\ saved \in Nat
  BY TurnsAreIds DEF Ids, TypeOK
<1>2. ToSet(rows'[session]) \subseteq 1..saved' /\ saved' \in Nat
  <2>1. rows'[session] \in Seq(1..saved')
    BY DEF TypeOK, Ids
  <2> QED BY <2>1, Elements DEF TypeOK
<1>3. IsFiniteSet(1..saved')
  BY <1>2, FS_Interval
<1>4. Newer(n)' \subseteq 1..saved' /\ Newer(n) \subseteq Newer(n)'
  BY <1>2 DEF Newer
<1>5. IsFiniteSet(Newer(n)')
  BY <1>3, <1>4, FS_Subset
<1>6. IsFiniteSet(Newer(n)) /\ Cardinality(Newer(n)) <= Cardinality(Newer(n)')
  BY <1>4, <1>5, FS_Subset
<1> QED BY <1>5, <1>6, FS_CardinalityType

\* A step that takes nothing into the list and no turn out of the session.
LEMMA SameListKeeps ==
  ASSUME TypeOK, TypeOK', KeptInv, session' = session, expiries' = expiries,
         session # 0 =>
           /\ list'[session] = list[session] /\ appended \subseteq appended'
           /\ ToSet(rows[session]) \subseteq ToSet(rows'[session])
           /\ appended' \cap ToSet(rows'[session]) = appended \cap ToSet(rows[session])
           /\ raced \subseteq raced',
         \A a \in Actors : Refilling(a, session)' =>
           Refilling(a, session) \/ (session # 0 => list[session] = <<>>)
  PROVE  KeptInv'
<1> SUFFICES ASSUME expiries = 0, session # 0
             PROVE  /\ list[session] = <<>> => appended' \cap ToSet(rows'[session]) = {}
                    /\ (\E a \in Actors : Refilling(a, session)') => Kept' = {}
                    /\ FollowedByNewer(list[session])'
                    /\ \A n \in Kept' : n \in ToSet(list[session]) \/ Cardinality(Newer(n)') >= Limit
  BY DEF KeptInv
<1>1. session \in Sessions /\ Kept' \subseteq Kept
  BY ActiveIsASession DEF Kept
<1>2. (\E a \in Actors : Refilling(a, session)') => Kept' = {}
  <2> SUFFICES ASSUME NEW a \in Actors, Refilling(a, session)' PROVE Kept' = {}
    OBVIOUS
  <2>1. CASE Refilling(a, session)
    BY <1>1, <2>1 DEF KeptInv
  <2>2. CASE list[session] = <<>>
    BY <2>2 DEF KeptInv, Kept
  <2> QED BY <2>1, <2>2
<1>3. FollowedByNewer(list[session])'
  BY <1>1 DEF KeptInv, FollowedByNewer
<1>4. ASSUME NEW n \in Kept', n \notin ToSet(list[session]) PROVE Cardinality(Newer(n)') >= Limit
  <2>1. n \in Nat /\ Cardinality(Newer(n)) >= Limit
    BY <1>1, <1>4, TurnsAreIds DEF KeptInv, Kept
  <2> QED BY <1>1, <2>1, NewerGrows, LimitIsPositive
<1> QED BY <1>2, <1>3, <1>4 DEF KeptInv

\* A session that has just been opened keeps nothing.
LEMMA OpeningKeepsAll ==
  ASSUME TypeOK, Working, Generations, NEW a \in Actors, Opens(a)
  PROVE  KeptInv'
<1>1. Len(<<>>) = 0 /\ 1..0 = {}
  OBVIOUS
<1> QED BY <1>1, NewSession DEF KeptInv, Kept, FollowedByNewer

\* A refill replaces the list only when nothing is kept.
LEMMA RefillKeepsAll ==
  ASSUME TypeOK, TypeOK', Working, OrderInv, KeptInv, NEW a \in Actors, Refills(a)
  PROVE  KeptInv'
<1>1. /\ UNCHANGED <<session, rows, appended, raced, expiries>>
      /\ pc[a] = "refill" /\ RefillsGoOn
      /\ list' = [list EXCEPT ![own[a]] = LastTurns(inHand[a])]
  BY LoadedGoesOn DEF Refills, SetRecent, database
<1>2. \A b \in Actors : Refilling(b, session)' => Refilling(b, session)
  BY <1>1 DEF Refilling, RefillsGoOn
<1>3. CASE own[a] # session
  <2>1. session # 0 => list'[session] = list[session]
    BY <1>1, <1>3, ActiveIsASession DEF TypeOK
  <2> QED BY <1>1, <1>2, <2>1, SameListKeeps
<1>4. CASE own[a] = session
  <2>1. session \in Sessions /\ session # 0 /\ inHand[a] \in Seq(Ids)
    BY <1>1, <1>4, Owners DEF TypeOK
  <2>2. list'[session] # <<>>
    BY <1>1, <1>4, <2>1, TrimShifts DEF TypeOK, OrderInv, RowsInOrder
  <2>3. expiries = 0 => Kept = {} /\ Kept' = {}
    BY <1>1, <1>4, <2>1 DEF KeptInv, Kept, Refilling
  <2> QED BY <1>1, <2>2, <2>3 DEF KeptInv, FollowedByNewer
<1> QED BY <1>3, <1>4

LEMMA InsertKeepsAll ==
  ASSUME TypeOK, TypeOK', Working, MutexHeld, KeptInv, NEW a \in Actors, InsertMessage(a)
  PROVE  KeptInv'
<1>1. \A b \in Actors : Refilling(b, session)' => Refilling(b, session)
  BY Inserting DEF Refilling, TypeOK
<1>2. appended \cap {saved'} = {}
  <2>1. appended \subseteq 1..saved /\ saved \in Nat /\ saved' = saved + 1
    BY SMTT(30), Inserting DEF TypeOK, Ids
  <2> QED BY <2>1
<1> QED BY <1>1, <1>2, Inserting, SameListKeeps

\* An append to the list of the active session pushes out a turn that is kept
\* only when Limit newer ones follow it.
LEMMA AppendKeepsAll ==
  ASSUME TypeOK, TypeOK', Working, OrderInv, KeptInv, NEW a \in Actors, Appends(a)
  PROVE  KeptInv'
<1> DEFINE n0 == turn[a]
<1>1. /\ UNCHANGED <<session, rows, raced, expiries>> /\ pc[a] = "append"
      /\ own[a] \in Sessions /\ own[a] # 0 /\ n0 \in Ids /\ appended' = appended \cup {n0}
      /\ \A b \in Actors : Refilling(b, session)' => Refilling(b, session)
  BY Appending, Owners DEF Refilling, RefillsGoOn
<1>2. CASE own[a] # session
  <2>1. session # 0 => n0 \notin ToSet(rows[session]) /\ list'[session] = list[session]
    BY <1>1, <1>2, Appending, ActiveIsASession DEF OrderInv, TurnsApart
  <2> HIDE DEF n0
  <2> QED BY <1>1, <2>1, SameListKeeps
<1>3. CASE own[a] = session
  <2> DEFINE q == list[session]
             t == LastTurns(Append(q, n0))
  <2>1. session \in Sessions /\ session # 0 /\ list'[session] = t
    BY <1>1, <1>3, Appending
  <2>0. /\ Len(q) \in Nat /\ Len(t) \in Nat /\ Len(t) > 0 /\ t # <<>> /\ t[Len(t)] = n0
        /\ \E d \in {0, 1} :
             /\ Len(q) + 1 = Len(t) + d /\ (d = 1 => Len(q) = Limit)
             /\ \A i \in 1..(Len(t) - 1) : i + d \in 1..Len(q) /\ t[i] = q[i + d]
        /\ t \in Seq(Ids) /\ q \in Seq(Ids)
    <3> HIDE DEF n0
    <3> QED BY <1>1, <2>1, AppendedList
  <2>3. /\ n0 \in ToSet(rows[session]) /\ n0 \notin appended
        /\ \A n \in ToSet(rows[session]) : n > n0 => n \in raced
        /\ n0 \in ToSet(q) => n0 \in raced
        /\ (\E b \in Actors : Refilling(b, session)) => n0 \in raced
        /\ ToSet(q) \subseteq ToSet(rows[session]) /\ ToSet(rows[session]) \subseteq Nat
    BY <1>1, <1>3, <2>1, TurnsAreIds DEF OrderInv, TurnsApart, OverlapsAreRaced, RowsInOrder, Saving
  <2> HIDE DEF t
  <2>2. PICK d \in {0, 1} :
             /\ Len(q) + 1 = Len(t) + d /\ (d = 1 => Len(q) = Limit)
             /\ \A i \in 1..(Len(t) - 1) : i + d \in 1..Len(q) /\ t[i] = q[i + d]
    BY <2>0
  <2>4. ToSet(q) = {q[i] : i \in 1..Len(q)} /\ ToSet(t) = {t[i] : i \in 1..Len(t)}
    BY <2>0, Elements
  <2>5. Kept' = Kept \cup ({n0} \ raced)
    BY <1>1, <2>3 DEF Kept
  <2> SUFFICES ASSUME expiries = 0
               PROVE  /\ (\E b \in Actors : Refilling(b, session)') => Kept' = {}
                      /\ FollowedByNewer(list[session])'
                      /\ \A n \in Kept' : n \in ToSet(t) \/ Cardinality(Newer(n)') >= Limit
    BY <1>1, <2>0, <2>1 DEF KeptInv
  <2> HIDE DEF q, n0
  <2>6. (\E b \in Actors : Refilling(b, session)') => Kept' = {}
    BY <1>1, <2>1, <2>3, <2>5 DEF KeptInv
  <2>7. \A i, j \in 1..Len(q) :
          i < j /\ q[i] \in Kept => /\ q[j] > q[i] /\ q[j] \in appended
                                    /\ \A k \in 1..Len(q) : j < k => q[j] # q[k]
    BY <2>1 DEF KeptInv, FollowedByNewer, q
  <2>8. \A n \in Kept : n < n0 /\ n \in Nat
    BY <1>1, <2>3, TurnsAreIds DEF Kept
  <2>9. ASSUME NEW i \in 1..Len(t), NEW j \in 1..Len(t), i < j, t[i] \in Kept'
        PROVE  /\ t[j] > t[i] /\ t[j] \in appended'
               /\ \A k \in 1..Len(t) : j < k => t[j] # t[k]
    <3>1. i \in 1..(Len(t) - 1) /\ i + d \in 1..Len(q) /\ t[i] = q[i + d] /\ q[i + d] \in ToSet(q)
      BY <2>0, <2>2, <2>4, <2>9
    <3>2. t[i] \in Kept
      BY <2>3, <2>5, <2>9, <3>1
    <3>3. CASE j = Len(t)
      <4>1. \A k \in 1..Len(t) : ~(j < k)
        BY <2>0, <2>2, <3>3
      <4> QED BY <1>1, <2>0, <2>2, <2>8, <3>2, <3>3, <4>1
    <3>4. CASE j # Len(t)
      <4>1. j \in 1..(Len(t) - 1) /\ j + d \in 1..Len(q) /\ t[j] = q[j + d] /\ i + d < j + d
        BY <2>0, <2>2, <2>9, <3>4
      <4>2. q[j + d] > q[i + d] /\ q[j + d] \in appended
        BY <2>7, <3>1, <3>2, <4>1
      <4>3. ASSUME NEW k \in 1..Len(t), j < k PROVE t[j] # t[k]
        <5>1. CASE k = Len(t)
          BY <2>0, <2>2, <2>3, <4>1, <4>2, <5>1
        <5>2. CASE k # Len(t)
          <6>1. k + d \in 1..Len(q) /\ t[k] = q[k + d] /\ j + d < k + d
            BY SMTT(30), <2>0, <2>2, <4>1, <4>3, <5>2
          <6> QED BY <2>7, <3>1, <3>2, <4>1, <6>1
        <5> QED BY <5>1, <5>2
      <4> QED BY <1>1, <3>1, <4>1, <4>2, <4>3
    <3> QED BY <3>3, <3>4
  <2>10. FollowedByNewer(list[session])'
    <3> SUFFICES ASSUME NEW i \in 1..Len(list'[session']), NEW j \in 1..Len(list'[session']), i < j,
                        list'[session'][i] \in Kept'
                 PROVE  /\ list'[session'][j] > list'[session'][i] /\ list'[session'][j] \in appended'
                        /\ \A k \in 1..Len(list'[session']) :
                             j < k => list'[session'][j] # list'[session'][k]
      BY DEF FollowedByNewer
    <3>1. list'[session'] = t
      BY <1>1, <2>1
    <3> HIDE DEF Kept
    <3> QED BY <2>9, <3>1
  <2>11. ASSUME NEW n \in Kept', n \notin ToSet(t) PROVE Cardinality(Newer(n)') >= Limit
    <3>1. n # n0 /\ n \in Kept /\ n \in Nat
      BY <2>0, <2>2, <2>4, <2>5, <2>8, <2>11
    <3>2. Newer(n)' = Newer(n)
      BY <1>1 DEF Newer
    <3>3. CASE n \notin ToSet(q)
      BY <2>1, <3>1, <3>2, <3>3 DEF KeptInv, q
    <3>4. CASE n \in ToSet(q)
      <4>1. PICK i \in 1..Len(q) : q[i] = n
        BY <2>4, <3>4
      <4>2. i <= d
        <5> SUFFICES ASSUME i > d PROVE FALSE
          BY <2>0, <2>2
        <5>1. i - d \in 1..(Len(t) - 1) /\ (i - d) + d = i
          BY <2>0, <2>2
        <5>2. t[i - d] = n /\ i - d \in 1..Len(t)
          BY <2>0, <2>2, <4>1, <5>1
        <5> QED BY <2>4, <2>11, <5>2
      <4>3. i = 1 /\ d = 1 /\ Len(q) = Limit /\ Len(t) = Limit
        BY <2>0, <2>2, <4>1, <4>2
      <4>4. \A k \in 1..(Limit - 1) : /\ t[k] = q[k + 1] /\ k + 1 \in 1..Len(q)
                                      /\ q[k + 1] > n /\ q[k + 1] \in appended
                                      /\ q[k + 1] \in ToSet(rows[session])
        <5> SUFFICES ASSUME NEW k \in 1..(Limit - 1)
                     PROVE  /\ t[k] = q[k + 1] /\ k + 1 \in 1..Len(q)
                            /\ q[k + 1] > n /\ q[k + 1] \in appended
                            /\ q[k + 1] \in ToSet(rows[session])
          OBVIOUS
        <5>1. t[k] = q[k + 1] /\ k + 1 \in 1..Len(q) /\ 1 < k + 1 /\ 1 \in 1..Len(q)
          BY <2>0, <2>2, <4>3
        <5>2. q[1] \in Kept /\ q[1] = n
          BY <3>1, <4>1, <4>3
        <5> QED BY <2>3, <2>4, <2>7, <5>1, <5>2
      <4>5. \A k \in 1..Limit : t[k] \in Newer(n)
        <5> SUFFICES ASSUME NEW k \in 1..Limit PROVE t[k] \in Newer(n)
          OBVIOUS
        <5>1. CASE k = Limit
          BY <2>0, <2>2, <2>3, <2>8, <3>1, <4>3, <5>1 DEF Newer
        <5>2. CASE k # Limit
          <6>1. k \in 1..(Limit - 1)
            BY <2>0, <2>2, <4>3, <5>2
          <6> QED BY <4>4, <6>1 DEF Newer
        <5> QED BY <5>1, <5>2
      <4>6. ASSUME NEW k \in 1..Limit, NEW l \in 1..Limit, k < l PROVE t[k] # t[l]
        <5>1. k \in 1..(Limit - 1)
          BY <2>0, <2>2, <4>3, <4>6
        <5>2. CASE l = Limit
          BY <2>0, <2>2, <2>3, <4>3, <4>4, <5>1, <5>2
        <5>3. CASE l # Limit
          <6>1. l \in 1..(Limit - 1) /\ k + 1 < l + 1 /\ 1 < k + 1 /\ 1 \in 1..Len(q)
            BY <2>0, <2>2, <4>3, <4>6, <5>1, <5>3
          <6>2. q[1] \in Kept
            BY <3>1, <4>1, <4>3
          <6> QED BY <2>7, <4>4, <5>1, <6>1, <6>2
        <5> QED BY <5>2, <5>3
      <4> DEFINE f == [k \in 1..Limit |-> t[k]]
      <4>7. f \in Injection(1..Limit, Newer(n))
        <5>1. f \in [1..Limit -> Newer(n)]
          BY <4>5
        <5>2. ASSUME NEW k \in 1..Limit, NEW l \in 1..Limit, f[k] = f[l] PROVE k = l
          <6>1. k \in Nat /\ l \in Nat /\ t[k] = t[l]
            BY <5>2, LimitIsPositive
          <6> QED BY <4>6, <6>1
        <5> QED BY <5>1, <5>2, Fun_IsInj
      <4>8. IsFiniteSet(Newer(n)) /\ Cardinality(Newer(n)) \in Nat
        BY <1>1, <2>1, <3>1, NewerGrows
      <4>9. Cardinality(1..Limit) = Limit /\ Cardinality(1..Limit) <= Cardinality(Newer(n))
        <5> HIDE DEF f
        <5>1. Cardinality(1..Limit) = Limit
          BY LimitIsPositive, FS_Interval
        <5>2. Cardinality(1..Limit) <= Cardinality(Newer(n))
          BY <4>7, <4>8, FS_Injection
        <5> QED BY <5>1, <5>2
      <4> QED BY <3>2, <4>8, <4>9, LimitIsPositive
    <3> QED BY <3>3, <3>4
  <2> QED BY <2>6, <2>10, <2>11
<1> QED BY <1>2, <1>3

LEMMA KeptInvariance == Spec => []KeptInv
<1>1. Init => KeptInv
  BY DEF Init, KeptInv
<1>2. TypeOK /\ TypeOK' /\ Working /\ MutexHeld /\ Generations /\ Cleared /\ OrderInv /\ KeptInv /\ [Next]_vars
      => KeptInv'
  <2> SUFFICES ASSUME TypeOK, TypeOK', Working, MutexHeld, Generations, Cleared, OrderInv, KeptInv,
                      [Next]_vars
               PROVE  KeptInv'
    OBVIOUS
  <2>1. ASSUME Calm PROVE KeptInv'
    <3>1. \A a \in Actors : Refilling(a, session)' => Refilling(a, session)
      BY <2>1 DEF Calm, RefillsGoOn, Refilling
    <3> QED BY <2>1, <3>1, SameListKeeps DEF Calm
  <2>2. ASSUME NEW a \in Actors, Misses(a) PROVE KeptInv'
    <3>1. /\ UNCHANGED <<session, rows, list, appended, expiries, own>>
          /\ raced \subseteq raced' /\ list[own[a]] = <<>> /\ pc' = [pc EXCEPT ![a] = "select"]
      BY <2>2 DEF Misses, GetRecent, Goto, database
    <3>2. \A b \in Actors : Refilling(b, session)' =>
            Refilling(b, session) \/ (session # 0 => list[session] = <<>>)
      BY <3>1 DEF Refilling, TypeOK
    <3> QED BY <3>1, <3>2, SameListKeeps
  <2>3. ASSUME NEW a \in Actors, Finds(a) PROVE KeptInv'
    <3>1. /\ UNCHANGED <<session, rows, list, appended, expiries, own, raced>>
          /\ pc[a] = "select" /\ pc' = [pc EXCEPT ![a] = "refill"]
      BY <2>3 DEF Finds, SelectRows, Goto, database
    <3>2. \A b \in Actors : Refilling(b, session)' => Refilling(b, session)
      BY <3>1 DEF Refilling, TypeOK
    <3> QED BY <3>1, <3>2, SameListKeeps
  <2>4. ASSUME NEW a \in Actors, DeleteConversation(a) PROVE KeptInv'
    BY <2>4 DEF DeleteConversation, KeptInv
  <2>5. ASSUME NEW s \in Sessions, Expire(s) PROVE KeptInv'
    <3>1. expiries' # 0
      BY <2>5, ExpiriesAreBounded DEF Expire, TypeOK
    <3> QED BY <3>1 DEF KeptInv
  <2> QED BY <2>1, <2>2, <2>3, <2>4, <2>5, StepsThatMatter, OpeningKeepsAll, RefillKeepsAll,
             InsertKeepsAll, AppendKeepsAll
<1> QED BY <1>1, <1>2, CacheInvariant, MutexInvariance, GenerationsInvariance, ClearedInvariance,
           OrderInvariance, PTL DEF Spec

\* While no list expires, a turn that reached the list of the active session stays
\* in it until Limit newer ones were saved, unless it was raced.
THEOREM TurnsAreKept == Spec => []NoTurnLost
<1>1. TypeOK /\ KeptInv => NoTurnLost
  <2> SUFFICES ASSUME TypeOK, KeptInv, NEW n \in appended \ raced, expiries = 0, session # 0,
                      n \in ToSet(rows[session]),
                      Cardinality({m \in ToSet(rows[session]) : m > n}) < Limit
               PROVE  n \in ToSet(list[session])
    BY DEF NoTurnLost
  <2>1. n \in Kept /\ Newer(n) = {m \in ToSet(rows[session]) : m > n}
    BY DEF Kept, Newer
  <2>2. Cardinality(Newer(n)) < Limit /\ Cardinality(Newer(n)) \in Nat
    <3>1. IsFiniteSet(1..saved) /\ Newer(n) \subseteq 1..saved
      <4>1. saved \in Int /\ 1 \in Int
        BY DEF TypeOK
      <4> QED BY <2>1, <4>1, FS_Interval, ActiveIsASession, TurnsAreIds DEF Ids
    <3>2. IsFiniteSet(Newer(n))
      BY <3>1, FS_Subset
    <3> QED BY <2>1, <3>2, FS_CardinalityType
  <2>3. ~(Cardinality(Newer(n)) >= Limit)
    <3> DEFINE c == Cardinality(Newer(n))
    <3>1. c \in Nat /\ c < Limit
      BY <2>2
    <3> HIDE DEF c
    <3>2. ~(c >= Limit)
      BY <3>1, LimitIsPositive
    <3> QED BY <3>2 DEF c
  <2> QED BY <2>1, <2>3 DEF KeptInv
<1> QED BY <1>1, CacheInvariant, KeptInvariance, PTL

=============================================================================
