------------------------ MODULE ProactiveDeliveryProofs ------------------------
(***************************************************************************)
(* What ProactiveDelivery and FeedbackSweep promise for every number of    *)
(* sessions, messages and events, every length of the windows and every    *)
(* number of faults: an answer is credited and rewarded once, a trigger is *)
(* answered once, a session that was opted out when a pass began hears     *)
(* nothing from it, what goes missing from the books and which events are  *)
(* lost has cost a fault each, and messages keep their distance.  Last,    *)
(* that the deliveries implement the Outbox, and that the books are true.  *)
(***************************************************************************)
EXTENDS ProactiveDelivery, AnswerBook, FiniteSetTheorems, TLAPS

-----------------------------------------------------------------------------
(* What becomes of a message that was answered: the feedback sweep, which   *)
(* reads the rows the sender wrote.  FeedbackSweep is about one session and *)
(* has a state of its own, the AnswerBook.                                  *)

CONSTANTS MaxLog, MaxRows, MaxStarts
VARIABLES optIn, starts

Sweep == INSTANCE FeedbackSweep

LEMMA ReplaceOne ==
  ASSUME NEW S, NEW q \in Seq(S), NEW i \in 1..Len(q), NEW x \in S
  PROVE  LET p == [q EXCEPT ![i] = x]
         IN /\ p \in Seq(S) /\ Len(p) = Len(q) /\ p[i] = x
            /\ \A j \in 1..Len(q) : j # i => p[j] = q[j]
OBVIOUS

\* What the sweep does to a row: it counts, or it marks.  Rows that a reset has
\* deleted stay deleted.
Rewritten(new) ==
  /\ answers' \in Seq(Sweep!AnswerRows) /\ Len(answers') = Len(answers)
  /\ \A i \in 1..Len(answers) : i # row => answers'[i] = answers[i]
  /\ row # 0 => answers'[row] = new

LEMMA RowIsReplaced ==
  ASSUME Sweep!TypeOK, row # 0, NEW new \in Sweep!AnswerRows,
         answers' = [answers EXCEPT ![row] = new]
  PROVE  Rewritten(new)
<1>1. row \in 1..Len(answers) /\ answers \in Seq(Sweep!AnswerRows)
  BY DEF Sweep!TypeOK
<1> QED BY <1>1, ReplaceOne DEF Rewritten

LEMMA SweepCounts ==
  ASSUME Sweep!TypeOK, NEW field \in {"missed", "rewarded"},
         answers' = Sweep!Counted(field)
  PROVE  Rewritten([answers[row] EXCEPT ![field] = @ + 1])
<1>1. CASE row = 0
  BY <1>1 DEF Rewritten, Sweep!Counted, Sweep!TypeOK
<1>2. CASE row # 0
  <2>1. row \in 1..Len(answers) /\ answers[row] \in Sweep!AnswerRows
    BY <1>2 DEF Sweep!TypeOK
  <2>2. answers' = [answers EXCEPT ![row] = [answers[row] EXCEPT ![field] = @ + 1]]
    BY <1>2 DEF Sweep!Counted
  <2>3. [answers[row] EXCEPT ![field] = @ + 1] \in Sweep!AnswerRows
    <3>1. CASE field = "missed"
      BY <2>1, <3>1 DEF Sweep!AnswerRows
    <3>2. CASE field = "rewarded"
      BY <2>1, <3>2 DEF Sweep!AnswerRows
    <3> QED BY <3>1, <3>2
  <2> QED BY <1>2, <2>2, <2>3, RowIsReplaced
<1> QED BY <1>1, <1>2

\* The row that is swept with one more credit, for the entry taken.
CreditedRow == [answers[row] EXCEPT !.credited = @ + 1, !.heard = @ \cup {reply}]

LEMMA SweepCredits ==
  ASSUME Sweep!TypeOK, answers' = Sweep!Credited
  PROVE  Rewritten(CreditedRow)
<1>1. CASE row = 0
  BY <1>1 DEF Rewritten, Sweep!Credited, Sweep!TypeOK
<1>2. CASE row # 0
  <2>1. row \in 1..Len(answers) /\ answers[row] \in Sweep!AnswerRows /\ reply \in Nat
    BY <1>2 DEF Sweep!TypeOK
  <2>2. answers \in Seq(Sweep!AnswerRows)
    BY DEF Sweep!TypeOK
  <2>3. answers' = [answers EXCEPT ![row] = CreditedRow]
    BY <1>2, <2>1, <2>2 DEF Sweep!Credited, CreditedRow
  <2>4. CreditedRow \in Sweep!AnswerRows
    <3>1. answers[row].credited + 1 \in Nat /\ answers[row].heard \cup {reply} \in SUBSET Nat
      BY <2>1 DEF Sweep!AnswerRows
    <3>2. [answers[row] EXCEPT !.credited = answers[row].credited + 1] \in Sweep!AnswerRows
      BY <2>1, <3>1 DEF Sweep!AnswerRows
    <3> QED BY <3>1, <3>2 DEF CreditedRow, Sweep!AnswerRows
  <2> QED BY <1>2, <2>3, <2>4, RowIsReplaced
<1> QED BY <1>1, <1>2

LEMMA SweepMarks ==
  ASSUME Sweep!TypeOK, answers' = Sweep!Updated("replied", TRUE)
  PROVE  Rewritten([answers[row] EXCEPT !.replied = TRUE])
<1>1. CASE row = 0
  BY <1>1 DEF Rewritten, Sweep!Updated, Sweep!TypeOK
<1>2. CASE row # 0
  <2>1. row \in 1..Len(answers) /\ answers[row] \in Sweep!AnswerRows
    BY <1>2 DEF Sweep!TypeOK
  <2>2. answers' = [answers EXCEPT ![row] = [answers[row] EXCEPT !.replied = TRUE]]
    BY <1>2 DEF Sweep!Updated
  <2>3. [answers[row] EXCEPT !.replied = TRUE] \in Sweep!AnswerRows
    BY <2>1 DEF Sweep!AnswerRows
  <2> QED BY <1>2, <2>2, <2>3, RowIsReplaced
<1> QED BY <1>1, <1>2

\* A new row, of which nothing is counted yet.
NewRow(t) == [sent |-> t, replied |-> FALSE, missed |-> 0, credited |-> 0, rewarded |-> 0,
              heard |-> {}]

LEMMA SweepSends ==
  ASSUME Sweep!TypeOK, Sweep!SendProactive
  PROVE  \E t \in Nat : /\ answers' = Append(answers, NewRow(t)) /\ NewRow(t) \in Sweep!AnswerRows
                        /\ Len(answers') = Len(answers) + 1 /\ answers'[Len(answers) + 1] = NewRow(t)
                        /\ \A i \in 1..Len(answers) : answers'[i] = answers[i]
<1>1. PICK t \in {0, Len(log)} : answers' = Append(answers, NewRow(t))
  BY DEF Sweep!SendProactive, NewRow
<1>2. t \in Nat /\ answers \in Seq(Sweep!AnswerRows)
  BY DEF Sweep!TypeOK
<1>3. NewRow(t) \in Sweep!AnswerRows
  BY <1>2 DEF NewRow, Sweep!AnswerRows
<1> QED BY <1>1, <1>2, <1>3

\* The bounds of the model: it starts at least once, and fails finitely often.
SweepBounds == MaxStarts \in Nat \ {0} /\ MaxFaults \in Nat

LEMMA SweepTypesInvariance ==
  ASSUME SweepBounds, Sweep!TypeOK, [Sweep!Next]_Sweep!vars
  PROVE  Sweep!TypeOK'
<1>1. /\ log \in Seq({"user", "bot"}) /\ answers \in Seq(Sweep!AnswerRows) /\ row \in 0..Len(answers)
      /\ reply \in Nat /\ starts \in 0..MaxStarts /\ failures \in 0..MaxFaults
      /\ optIn \in BOOLEAN /\ stage \in Sweep!Steps /\ Len(log) \in Nat /\ Len(answers) \in Nat
      /\ failures \in Nat /\ MaxFaults \in Nat /\ starts \in Nat /\ MaxStarts \in Nat
      /\ 0 \in 0..Len(answers)
  BY DEF Sweep!TypeOK, SweepBounds
<1>2. Sweep!Fails => failures' \in 0..MaxFaults
  BY <1>1 DEF Sweep!Fails
<1>3. ASSUME NEW new, Rewritten(new)
      PROVE  answers' \in Seq(Sweep!AnswerRows) /\ Len(answers') = Len(answers)
  BY <1>3 DEF Rewritten
<1> USE DEF Sweep!conversation, Sweep!sweep, Sweep!Steps, Sweep!Continue
<1>4. ASSUME NEW who \in {"user", "bot"}, Sweep!Say(who) PROVE Sweep!TypeOK'
  <2>1. log' \in Seq({"user", "bot"})
    BY <1>1, <1>4 DEF Sweep!Say
  <2> QED BY <1>1, <1>4, <2>1 DEF Sweep!Say, Sweep!TypeOK
<1>5. ASSUME NEW on \in BOOLEAN, Sweep!Opt(on) PROVE Sweep!TypeOK'
  BY <1>1, <1>5 DEF Sweep!Opt, Sweep!TypeOK
<1>6. CASE Sweep!Reset
  <2>1. /\ log' \in Seq({"user", "bot"}) /\ answers' \in Seq(Sweep!AnswerRows) /\ Len(answers') \in Nat
        /\ row' = 0
    BY <1>6 DEF Sweep!Reset
  <2> QED BY <1>1, <1>6, <2>1 DEF Sweep!Reset, Sweep!TypeOK
<1>7. CASE Sweep!SendProactive
  <2>1. PICK t \in Nat : /\ answers' = Append(answers, NewRow(t)) /\ NewRow(t) \in Sweep!AnswerRows
                         /\ Len(answers') = Len(answers) + 1
    BY <1>7, SweepSends
  <2>2. answers' \in Seq(Sweep!AnswerRows) /\ row \in 0..Len(answers')
    BY <1>1, <2>1
  <2>3. log' \in Seq({"user", "bot"})
    <3>1. log' \in {log, Append(log, "bot")}
      BY <1>7 DEF Sweep!SendProactive
    <3> QED BY SMTT(30), <1>1, <3>1
  <2>4. failures' \in 0..MaxFaults
    BY <1>1, <1>2, <1>7 DEF Sweep!SendProactive
  <2> QED BY <1>1, <1>7, <2>2, <2>3, <2>4 DEF Sweep!SendProactive, Sweep!TypeOK
<1>8. CASE Sweep!PassesEnd
  BY <1>1, <1>2, <1>8 DEF Sweep!PassesEnd, Sweep!TypeOK
<1>9. CASE Sweep!ListSessionsForProactive
  BY <1>1, <1>2, <1>9 DEF Sweep!ListSessionsForProactive, Sweep!TypeOK
<1>10. CASE Sweep!SelectLatest
  BY <1>1, <1>2, <1>10 DEF Sweep!SelectLatest, Sweep!TypeOK
<1>11. CASE Sweep!AssessFeedback
  <2>1. reply' \in Nat
    BY <1>1, <1>11
       DEF Sweep!AssessFeedback, Sweep!FindFirstUserReplyAfter, Sweep!Recent
  <2>2. row' \in {0, row} /\ stage' \in Sweep!Steps
    BY <1>11 DEF Sweep!AssessFeedback
  <2>3. failures' \in 0..MaxFaults
    BY <1>1, <1>2, <1>11 DEF Sweep!AssessFeedback
  <2>4. UNCHANGED <<log, optIn, answers, starts>>
    BY <1>11 DEF Sweep!AssessFeedback
  <2> QED BY <1>1, <2>1, <2>2, <2>3, <2>4 DEF Sweep!TypeOK
<1>12. CASE Sweep!MarkProactiveMessageReplied
  <2>1. answers' \in Seq(Sweep!AnswerRows) /\ Len(answers') = Len(answers)
    BY <1>3, <1>12, SweepCounts, SweepMarks DEF Sweep!MarkProactiveMessageReplied
  <2> QED BY <1>1, <1>2, <1>12, <2>1 DEF Sweep!MarkProactiveMessageReplied, Sweep!TypeOK
<1>13. CASE Sweep!CreditSession
  <2>1. answers' \in Seq(Sweep!AnswerRows) /\ Len(answers') = Len(answers)
    BY <1>1, <1>3, <1>13, SweepCredits DEF Sweep!CreditSession
  <2> QED BY <1>1, <1>2, <1>13, <2>1 DEF Sweep!CreditSession, Sweep!TypeOK
<1>14. CASE Sweep!UpdateProactiveProfile
  BY <1>1, <1>2, <1>14 DEF Sweep!UpdateProactiveProfile, Sweep!TypeOK
<1>15. CASE Sweep!SendRewardAudio
  <2>1. answers' \in Seq(Sweep!AnswerRows) /\ Len(answers') = Len(answers)
    BY <1>1, <1>3, <1>15, SweepCounts DEF Sweep!SendRewardAudio
  <2> QED BY <1>1, <1>2, <1>15, <2>1 DEF Sweep!SendRewardAudio, Sweep!TypeOK
<1>16. CASE Sweep!Restart
  BY <1>1, <1>2, <1>16 DEF Sweep!Restart, Sweep!TypeOK
<1>17. CASE UNCHANGED Sweep!vars
  BY <1>1, <1>17 DEF Sweep!vars, Sweep!TypeOK
<1> QED BY <1>4, <1>5, <1>6, <1>7, <1>8, <1>9, <1>10, <1>11, <1>12, <1>13, <1>14, <1>15,
           <1>16, <1>17 DEF Sweep!Next, Sweep!Handle, Sweep!Sweep

\* The sweep's state keeps its types, for every window and every bound.
THEOREM SweepTypes ==
  ASSUME SweepBounds
  PROVE  Sweep!Spec => []Sweep!TypeOK
<1>1. Sweep!Init => Sweep!TypeOK
  BY DEF Sweep!Init, Sweep!TypeOK, Sweep!Steps, SweepBounds
<1> QED BY <1>1, SweepTypesInvariance, PTL DEF Sweep!Spec

\* What a row may have been credited and rewarded: once for every mark that failed,
\* and once for the one that did not.
Allowance(r) == r.missed + (IF r.replied THEN 1 ELSE 0)

\* The row that is swept is not marked before its turn, and what is still to come
\* of its sweep is within what it is allowed.
Sparing(r, step) ==
  /\ r.credited <= Allowance(r) /\ r.rewarded <= Allowance(r)
  /\ step \in {"matching", "marking"} => ~r.replied
  /\ step = "crediting" => r.credited < Allowance(r)
  /\ step \in {"crediting", "learning", "rewarding"} => r.rewarded < Allowance(r)

SweepSpares ==
  \A i \in 1..Len(answers) : Sparing(answers[i], IF i = row THEN stage ELSE "running")

\* A row that is left alone, or is no longer swept, stays within what it is allowed.
LEMMA SparedRows ==
  ASSUME Sweep!TypeOK, SweepSpares, NEW i \in 1..Len(answers), answers'[i] = answers[i],
         \/ i # row' \/ stage' \in {"starting", "listing", "selecting", "running"}
         \/ i = row /\ UNCHANGED <<row, stage>>
  PROVE  Sparing(answers'[i], IF i = row' THEN stage' ELSE "running")
<1>1. Sparing(answers[i], IF i = row THEN stage ELSE "running")
  BY DEF SweepSpares
<1> QED BY <1>1 DEF Sparing, Allowance

\* A step that rewrites the row being swept, and goes on with it or leaves it.
LEMMA SweptRow ==
  ASSUME Sweep!TypeOK, SweepSpares, NEW new, Rewritten(new), row' \in {0, row},
         row' # 0 => Sparing(new, stage'), row # 0 => Sparing(new, "running")
  PROVE  SweepSpares'
<1>1. Len(answers') = Len(answers) /\ Len(answers) \in Nat /\ row \in 0..Len(answers)
  BY DEF Rewritten, Sweep!TypeOK
<1>2. ASSUME NEW i \in 1..Len(answers), i # row
      PROVE  Sparing(answers'[i], IF i = row' THEN stage' ELSE "running")
  <2>1. answers'[i] = answers[i] /\ i # row'
    BY <1>1, <1>2 DEF Rewritten
  <2> QED BY <2>1, SparedRows
<1>3. ASSUME row # 0
      PROVE  Sparing(answers'[row], IF row = row' THEN stage' ELSE "running")
  BY <1>3 DEF Rewritten
<1> QED BY <1>1, <1>2, <1>3 DEF SweepSpares

LEMMA SweepSparesInvariance ==
  ASSUME Sweep!TypeOK, Sweep!TypeOK', SweepSpares, [Sweep!Next]_Sweep!vars
  PROVE  SweepSpares'
<1> USE DEF Sweep!conversation, Sweep!sweep, Sweep!Continue
<1> DEFINE resting == {"starting", "listing", "selecting", "running"}
<1>1. Len(answers) \in Nat /\ row \in 0..Len(answers)
  BY DEF Sweep!TypeOK
<1>2. ASSUME answers' = answers,
             \/ UNCHANGED <<row, stage>>
             \/ row' = 0
             \/ stage' \in resting
      PROVE  SweepSpares'
  <2>1. ASSUME NEW i \in 1..Len(answers)
        PROVE  Sparing(answers'[i], IF i = row' THEN stage' ELSE "running")
    BY <1>1, <1>2, <2>1, SparedRows
  <2> QED BY <1>2, <2>1 DEF SweepSpares
<1>3. ASSUME row # 0
      PROVE  /\ answers[row] \in Sweep!AnswerRows /\ Sparing(answers[row], stage)
             /\ Allowance(answers[row]) \in Nat
  <2>1. row \in 1..Len(answers) /\ answers[row] \in Sweep!AnswerRows
    BY <1>1, <1>3 DEF Sweep!TypeOK
  <2> QED BY <2>1 DEF SweepSpares, Allowance, Sweep!AnswerRows
<1>4. ASSUME NEW who \in {"user", "bot"}, Sweep!Say(who) PROVE SweepSpares'
  BY <1>2, <1>4 DEF Sweep!Say
<1>5. ASSUME NEW on \in BOOLEAN, Sweep!Opt(on) PROVE SweepSpares'
  BY <1>2, <1>5 DEF Sweep!Opt
<1>6. CASE Sweep!Reset
  BY <1>6 DEF Sweep!Reset, SweepSpares
<1>7. CASE Sweep!SendProactive
  <2>1. PICK t \in Nat : /\ answers' = Append(answers, NewRow(t))
                         /\ Len(answers') = Len(answers) + 1 /\ answers'[Len(answers) + 1] = NewRow(t)
                         /\ \A i \in 1..Len(answers) : answers'[i] = answers[i]
    BY <1>7, SweepSends
  <2>2. UNCHANGED <<row, stage>>
    BY <1>7 DEF Sweep!SendProactive
  <2>3. ASSUME NEW i \in 1..Len(answers)
        PROVE  Sparing(answers'[i], IF i = row' THEN stage' ELSE "running")
    BY <2>1, <2>2, SparedRows
  <2>4. Sparing(NewRow(t), "running")
    BY DEF Sparing, Allowance, NewRow
  <2>5. Len(answers) + 1 # row'
    BY <1>1, <2>2
  <2> QED BY <1>1, <2>1, <2>3, <2>4, <2>5 DEF SweepSpares
<1>8. CASE Sweep!PassesEnd
  BY <1>2, <1>8 DEF Sweep!PassesEnd
<1>9. CASE Sweep!ListSessionsForProactive
  BY <1>2, <1>9 DEF Sweep!ListSessionsForProactive
<1>10. CASE Sweep!SelectLatest
  <2>1. CASE row' = Len(answers) /\ stage' = "matching" /\ Sweep!Unanswered
    <3>1. ASSUME NEW i \in 1..Len(answers), i # row'
          PROVE  Sparing(answers'[i], IF i = row' THEN stage' ELSE "running")
      <4>1. answers'[i] = answers[i]
        BY <1>10 DEF Sweep!SelectLatest
      <4> QED BY <3>1, <4>1, SparedRows
    <3>2. row' \in 1..Len(answers) /\ ~answers[row'].replied
      BY <1>1, <2>1 DEF Sweep!Unanswered, Sweep!TypeOK
    <3>3. Sparing(answers[row'], "matching")
      <4>1. Sparing(answers[row'], IF row' = row THEN stage ELSE "running")
        BY <3>2 DEF SweepSpares
      <4> QED BY <3>2, <4>1 DEF Sparing
    <3> QED BY <1>10, <2>1, <3>1, <3>2, <3>3 DEF SweepSpares, Sweep!SelectLatest
  <2> QED BY <1>2, <1>10, <2>1 DEF Sweep!SelectLatest
<1>11. CASE Sweep!AssessFeedback
  <2>1. CASE stage' = "marking" /\ row' = row
    <3>1. Rewritten(answers[row]) /\ (row # 0 => Sparing(answers[row], "marking"))
      <4>1. stage = "matching" /\ answers' = answers
        BY <1>11 DEF Sweep!AssessFeedback
      <4> QED BY <1>3, <4>1 DEF Rewritten, Sparing, Sweep!TypeOK
    <3>2. row # 0 => Sparing(answers[row], "running")
      BY <3>1 DEF Sparing
    <3> QED BY <2>1, <3>1, <3>2, SweptRow
  <2> QED BY <1>2, <1>11, <2>1 DEF Sweep!AssessFeedback
<1>12. CASE Sweep!MarkProactiveMessageReplied
  <2>1. stage = "marking" /\ stage' = "crediting" /\ row' = row
    BY <1>12 DEF Sweep!MarkProactiveMessageReplied
  <2>2. CASE answers' = Sweep!Updated("replied", TRUE)
    <3>1. Rewritten([answers[row] EXCEPT !.replied = TRUE])
      BY <2>2, SweepMarks
    <3>2. ASSUME row # 0
          PROVE  /\ Sparing([answers[row] EXCEPT !.replied = TRUE], "crediting")
                 /\ Sparing([answers[row] EXCEPT !.replied = TRUE], "running")
      BY <1>3, <2>1, <3>2 DEF Sparing, Allowance, Sweep!AnswerRows
    <3> QED BY <2>1, <3>1, <3>2, SweptRow
  <2>3. CASE answers' = Sweep!Counted("missed")
    <3>1. Rewritten([answers[row] EXCEPT !.missed = @ + 1])
      BY <2>3, SweepCounts
    <3>2. ASSUME row # 0
          PROVE  /\ Sparing([answers[row] EXCEPT !.missed = @ + 1], "crediting")
                 /\ Sparing([answers[row] EXCEPT !.missed = @ + 1], "running")
      BY <1>3, <2>1, <3>2 DEF Sparing, Allowance, Sweep!AnswerRows
    <3> QED BY <2>1, <3>1, <3>2, SweptRow
  <2> QED BY <1>12, <2>2, <2>3 DEF Sweep!MarkProactiveMessageReplied
<1>13. CASE Sweep!CreditSession
  <2>1. stage = "crediting" /\ stage' = "learning" /\ row' = row
    BY <1>13 DEF Sweep!CreditSession
  <2>2. CASE answers' = Sweep!Credited
    <3>1. Rewritten(CreditedRow)
      BY <2>2, SweepCredits
    <3>2. ASSUME row # 0
          PROVE  Sparing(CreditedRow, "learning") /\ Sparing(CreditedRow, "running")
      <4>1. /\ CreditedRow.credited = answers[row].credited + 1
            /\ CreditedRow.rewarded = answers[row].rewarded
            /\ CreditedRow.replied = answers[row].replied
            /\ CreditedRow.missed = answers[row].missed
        BY <1>3, <3>2 DEF CreditedRow, Sweep!AnswerRows
      <4> QED BY <1>3, <2>1, <3>2, <4>1 DEF Sparing, Allowance, Sweep!AnswerRows
    <3> QED BY <2>1, <3>1, <3>2, SweptRow
  <2>3. CASE answers' = answers
    <3>1. Rewritten(answers[row])
      BY <2>3 DEF Rewritten, Sweep!TypeOK
    <3>2. row # 0 => Sparing(answers[row], "learning") /\ Sparing(answers[row], "running")
      BY <1>3, <2>1 DEF Sparing
    <3> QED BY <2>1, <3>1, <3>2, SweptRow
  <2> QED BY <1>13, <2>2, <2>3 DEF Sweep!CreditSession
<1>14. CASE Sweep!UpdateProactiveProfile
  <2>1. stage = "learning" /\ stage' = "rewarding" /\ row' = row /\ answers' = answers
    BY <1>14 DEF Sweep!UpdateProactiveProfile
  <2>2. Rewritten(answers[row])
    BY <2>1 DEF Rewritten, Sweep!TypeOK
  <2>3. row # 0 => Sparing(answers[row], "rewarding") /\ Sparing(answers[row], "running")
    BY <1>3, <2>1 DEF Sparing
  <2> QED BY <2>1, <2>2, <2>3, SweptRow
<1>15. CASE Sweep!SendRewardAudio
  <2>1. stage = "rewarding" /\ row' = 0
    BY <1>15 DEF Sweep!SendRewardAudio
  <2>2. CASE answers' = Sweep!Counted("rewarded")
    <3>1. Rewritten([answers[row] EXCEPT !.rewarded = @ + 1])
      BY <2>2, SweepCounts
    <3>2. row # 0 => Sparing([answers[row] EXCEPT !.rewarded = @ + 1], "running")
      BY <1>3, <2>1 DEF Sparing, Allowance, Sweep!AnswerRows
    <3> QED BY <2>1, <3>1, <3>2, SweptRow
  <2>3. CASE answers' = answers
    BY <1>2, <2>1, <2>3
  <2> QED BY <1>15, <2>2, <2>3 DEF Sweep!SendRewardAudio
<1>16. CASE Sweep!Restart
  BY <1>2, <1>16 DEF Sweep!Restart
<1>17. CASE UNCHANGED Sweep!vars
  BY <1>2, <1>17 DEF Sweep!vars
<1> QED BY <1>4, <1>5, <1>6, <1>7, <1>8, <1>9, <1>10, <1>11, <1>12, <1>13, <1>14, <1>15,
           <1>16, <1>17 DEF Sweep!Next, Sweep!Handle, Sweep!Sweep

\* However often the process starts, an answer is credited and rewarded once, and
\* once more at most for every mark of it that failed.
THEOREM AnswersRewardedOnce ==
  ASSUME SweepBounds
  PROVE  Sweep!Spec => []RewardedOnce
<1>1. Sweep!Init => Sweep!TypeOK /\ SweepSpares
  BY DEF Sweep!Init, Sweep!TypeOK, Sweep!Steps, SweepBounds, SweepSpares
<1>2. Sweep!TypeOK /\ SweepSpares => RewardedOnce
  <2> SUFFICES ASSUME Sweep!TypeOK, SweepSpares, NEW i \in 1..Len(answers)
               PROVE  /\ answers[i].rewarded <= 1 + answers[i].missed
                      /\ answers[i].credited <= 1 + answers[i].missed
    BY DEF RewardedOnce
  <2>1. /\ answers[i] \in Sweep!AnswerRows
        /\ answers[i].credited <= Allowance(answers[i]) /\ answers[i].rewarded <= Allowance(answers[i])
    BY DEF SweepSpares, Sparing, Sweep!TypeOK
  <2> QED BY <2>1 DEF Allowance, Sweep!AnswerRows
<1> QED BY <1>1, <1>2, SweepTypesInvariance, SweepSparesInvariance, PTL DEF Sweep!Spec

\* A message joins those whose mark was not credited in one way only: the sweep
\* leaves it where it should be credited, which takes a failed call or a crash.
LEMMA UncreditedStep ==
  ASSUME Sweep!TypeOK, [Sweep!Next]_Sweep!vars
  PROVE  \/ failures' = failures /\ Uncredited' \subseteq Uncredited
         \/ failures' = failures + 1 /\ Uncredited' \subseteq Uncredited \cup {row}
<1> USE DEF Sweep!conversation, Sweep!sweep, Sweep!Continue, Sweep!Fails
<1>1. Len(answers) \in Nat /\ row \in 0..Len(answers)
  BY DEF Sweep!TypeOK
<1>2. ASSUME answers' = answers, UNCHANGED <<row, stage>> \/ stage # "crediting"
      PROVE  Uncredited' \subseteq Uncredited
  BY <1>2 DEF Uncredited
<1>3. ASSUME answers' = answers
      PROVE  Uncredited' \subseteq Uncredited \cup {row}
  BY <1>3 DEF Uncredited
<1>4. ASSUME NEW new, Rewritten(new), row' \in {0, row},
             row # 0 /\ new.replied /\ new.credited = 0 =>
               \/ stage' = "crediting" /\ row' = row
               \/ stage # "crediting" /\ answers[row].replied /\ answers[row].credited = 0
      PROVE  Uncredited' \subseteq Uncredited
  <2>1. ASSUME NEW i \in Uncredited', i # row PROVE i \in Uncredited
    BY <1>4, <2>1 DEF Rewritten, Uncredited
  <2>2. ASSUME row \in Uncredited' PROVE row \in Uncredited
    BY <1>1, <1>4, <2>2 DEF Rewritten, Uncredited
  <2> QED BY <2>1, <2>2
<1>5. CASE \/ \E who \in {"user", "bot"} : Sweep!Say(who)
           \/ \E on \in BOOLEAN : Sweep!Opt(on)
           \/ UNCHANGED Sweep!vars
  BY <1>2, <1>5 DEF Sweep!Say, Sweep!Opt, Sweep!vars
<1>6. CASE Sweep!Reset
  BY <1>6 DEF Sweep!Reset, Uncredited
<1>7. CASE Sweep!SendProactive
  <2>1. PICK t \in Nat : /\ answers' = Append(answers, NewRow(t))
                         /\ Len(answers') = Len(answers) + 1 /\ answers'[Len(answers) + 1] = NewRow(t)
                         /\ \A i \in 1..Len(answers) : answers'[i] = answers[i]
    BY <1>7, SweepSends
  <2>2. \A i \in 1..Len(answers') : i \in 1..Len(answers) \/ i = Len(answers) + 1
    BY <1>1, <2>1
  <2>3. ~NewRow(t).replied
    BY DEF NewRow
  <2>4. UNCHANGED <<row, stage>> /\ failures' \in {failures, failures + 1}
    BY <1>7 DEF Sweep!SendProactive
  <2>5. Uncredited' \subseteq Uncredited
    BY <2>1, <2>2, <2>3, <2>4 DEF Uncredited
  <2> QED BY <2>4, <2>5
<1>8. CASE \/ Sweep!PassesEnd \/ Sweep!ListSessionsForProactive \/ Sweep!SelectLatest
           \/ Sweep!AssessFeedback \/ Sweep!UpdateProactiveProfile
  <2>1. answers' = answers /\ stage # "crediting" /\ failures' \in {failures, failures + 1}
    BY <1>8 DEF Sweep!PassesEnd, Sweep!ListSessionsForProactive, Sweep!SelectLatest,
                Sweep!AssessFeedback, Sweep!UpdateProactiveProfile
  <2> QED BY <1>2, <2>1
<1>9. CASE Sweep!MarkProactiveMessageReplied
  <2>1. /\ stage = "marking" /\ stage' = "crediting" /\ row' = row
        /\ failures' \in {failures, failures + 1}
    BY <1>9 DEF Sweep!MarkProactiveMessageReplied
  <2>2. \E new : Rewritten(new)
    BY <1>9, SweepMarks, SweepCounts DEF Sweep!MarkProactiveMessageReplied
  <2> QED BY <1>4, <2>1, <2>2
<1>10. CASE Sweep!CreditSession
  <2>1. CASE answers' = Sweep!Credited /\ failures' = failures
    <3>1. Rewritten(CreditedRow)
      BY <2>1, SweepCredits
    <3>2. row # 0 => CreditedRow.credited # 0
      <4>1. row # 0 => answers[row] \in Sweep!AnswerRows
        BY <1>1 DEF Sweep!TypeOK
      <4> QED BY <4>1 DEF CreditedRow, Sweep!AnswerRows
    <3>3. row' = row
      BY <1>10 DEF Sweep!CreditSession
    <3> QED BY <1>4, <2>1, <3>1, <3>2, <3>3
  <2>2. CASE answers' = answers /\ failures' = failures + 1
    BY <1>3, <2>2
  <2> QED BY <1>10, <2>1, <2>2 DEF Sweep!CreditSession
<1>11. CASE Sweep!SendRewardAudio
  <2>1. stage = "rewarding" /\ row' = 0 /\ failures' \in {failures, failures + 1}
    BY <1>11 DEF Sweep!SendRewardAudio
  <2>2. CASE answers' = Sweep!Counted("rewarded")
    <3>1. Rewritten([answers[row] EXCEPT !.rewarded = @ + 1])
      BY <2>2, SweepCounts
    <3>2. ASSUME row # 0
          PROVE  /\ [answers[row] EXCEPT !.rewarded = @ + 1].replied = answers[row].replied
                 /\ [answers[row] EXCEPT !.rewarded = @ + 1].credited = answers[row].credited
      <4>1. answers[row] \in Sweep!AnswerRows
        BY <1>1, <3>2 DEF Sweep!TypeOK
      <4> QED BY <4>1 DEF Sweep!AnswerRows
    <3> QED BY <1>4, <2>1, <3>1, <3>2
  <2> QED BY <1>2, <1>11, <2>1, <2>2 DEF Sweep!SendRewardAudio
<1>12. CASE Sweep!Restart
  <2>1. CASE stage = "running" /\ failures' = failures
    BY <1>2, <1>12, <2>1 DEF Sweep!Restart
  <2>2. CASE failures' = failures + 1
    BY <1>3, <1>12, <2>2 DEF Sweep!Restart
  <2> QED BY <1>12, <2>1, <2>2 DEF Sweep!Restart
<1> QED BY <1>5, <1>6, <1>7, <1>8, <1>9, <1>10, <1>11, <1>12
        DEF Sweep!Next, Sweep!Handle, Sweep!Sweep

\* Every message that was marked but not credited has cost a failed call or a crash
\* of its own: one failure never loses the credit of two answers.
THEOREM MarkedAnswersCredited ==
  ASSUME SweepBounds
  PROVE  Sweep!Spec => []MarkedIsCredited
<1> DEFINE Counted == IsFiniteSet(Uncredited) /\ MarkedIsCredited
<1>1. Sweep!Init => Sweep!TypeOK /\ Counted
  <2> SUFFICES ASSUME Sweep!Init PROVE Sweep!TypeOK /\ Counted
    OBVIOUS
  <2>1. Sweep!TypeOK
    BY DEF Sweep!Init, Sweep!TypeOK, Sweep!Steps, SweepBounds
  <2>2. Uncredited = {}
    BY DEF Sweep!Init, Uncredited
  <2>3. failures = 0
    BY DEF Sweep!Init
  <2> QED BY <2>1, <2>2, <2>3, FS_EmptySet DEF MarkedIsCredited
<1>2. Sweep!TypeOK /\ Counted /\ [Sweep!Next]_Sweep!vars => Counted'
  <2> SUFFICES ASSUME Sweep!TypeOK, Counted, [Sweep!Next]_Sweep!vars PROVE Counted'
    OBVIOUS
  <2> DEFINE U == Uncredited
  <2>1. failures \in Nat /\ Cardinality(U) \in Nat /\ IsFiniteSet(U)
    BY FS_CardinalityType DEF Sweep!TypeOK
  <2>2. CASE failures' = failures /\ U' \subseteq U
    <3>1. IsFiniteSet(U') /\ Cardinality(U') <= Cardinality(U)
      BY <2>1, <2>2, FS_Subset
    <3>2. Cardinality(U') \in Nat
      BY <3>1, FS_CardinalityType
    <3> QED BY <2>1, <2>2, <3>1, <3>2 DEF MarkedIsCredited
  <2>3. CASE failures' = failures + 1 /\ U' \subseteq U \cup {row}
    <3>1. IsFiniteSet(U \cup {row}) /\ Cardinality(U \cup {row}) <= Cardinality(U) + 1
      <4>1. /\ IsFiniteSet(U \cup {row})
            /\ Cardinality(U \cup {row})
                 = IF row \in U THEN Cardinality(U) ELSE Cardinality(U) + 1
        BY <2>1, FS_AddElement
      <4> QED BY <2>1, <4>1
    <3>2. IsFiniteSet(U') /\ Cardinality(U') <= Cardinality(U \cup {row})
      BY <2>3, <3>1, FS_Subset
    <3>3. Cardinality(U') \in Nat /\ Cardinality(U \cup {row}) \in Nat
      BY <3>1, <3>2, FS_CardinalityType
    <3> QED BY <2>1, <2>3, <3>1, <3>2, <3>3
        DEF MarkedIsCredited
  <2> QED BY <2>2, <2>3, UncreditedStep
<1>3. Counted => MarkedIsCredited
  OBVIOUS
<1> QED BY <1>1, <1>2, <1>3, SweepTypesInvariance, PTL DEF Sweep!Spec

\* What a credit rests on while the sweep is under way: no message is sent during
\* it, so the row is the latest one, and the entry taken came after its delivery.
SweepsLatest ==
  row # 0 =>
    /\ stage \in {"matching", "marking", "crediting"} => row = Len(answers)
    /\ stage \in {"marking", "crediting"} =>
         answers[row].sent # 0 /\ answers[row].sent < reply /\ reply <= Len(log)

\* What was credited had been said, so a later message is delivered after it.
CreditedWasSaid == \A p \in 1..Len(answers) : \A i \in answers[p].heard : i <= Len(log)

Attributed == CreditedToItsMessage /\ CreditedWasSaid /\ SweepsLatest

\* A step that neither sends nor credits, and forgets nothing that was said.
SameCredits ==
  /\ Len(answers') = Len(answers)
  /\ \A p \in 1..Len(answers) :
       answers'[p].sent = answers[p].sent /\ answers'[p].heard = answers[p].heard

LEMMA CreditsKept ==
  ASSUME Sweep!TypeOK, Attributed, SameCredits, Len(log') \in {Len(log), Len(log) + 1}
  PROVE  CreditedToItsMessage' /\ CreditedWasSaid'
<1>1. Len(log) \in Nat /\ \A p \in 1..Len(answers) : answers[p].heard \subseteq Nat
  <2>1. Len(log) \in Nat /\ \A p \in 1..Len(answers) : answers[p] \in Sweep!AnswerRows
    BY DEF Sweep!TypeOK
  <2> QED BY <2>1 DEF Sweep!AnswerRows
<1>2. CreditedToItsMessage'
  BY DEF Attributed, CreditedToItsMessage, SameCredits
<1>3. ASSUME NEW p \in 1..Len(answers'), NEW i \in answers'[p].heard PROVE i <= Len(log')
  <2>1. p \in 1..Len(answers) /\ i \in answers[p].heard
    BY <1>3 DEF SameCredits
  <2>2. i \in Nat /\ i <= Len(log)
    BY <1>1, <2>1 DEF Attributed, CreditedWasSaid
  <2> QED BY <1>1, <2>2
<1> QED BY <1>2, <1>3 DEF CreditedWasSaid

LEMMA AttributedInvariance ==
  ASSUME Sweep!TypeOK, Attributed, [Sweep!Next]_Sweep!vars
  PROVE  Attributed'
<1> USE DEF Sweep!conversation, Sweep!sweep, Sweep!Continue
<1>1. /\ log \in Seq({"user", "bot"}) /\ Len(log) \in Nat /\ Len(answers) \in Nat
      /\ row \in 0..Len(answers) /\ reply \in Nat
      /\ \A p \in 1..Len(answers) : answers[p] \in Sweep!AnswerRows
  BY DEF Sweep!TypeOK
<1>2. \A p \in 1..Len(answers) : answers[p].sent \in Nat /\ answers[p].heard \subseteq Nat
  BY <1>1 DEF Sweep!AnswerRows
<1>3. answers' = answers => SameCredits
  BY DEF SameCredits
<1>4. ASSUME answers' = answers, UNCHANGED log,
             row' = 0 \/ stage' \notin {"matching", "marking", "crediting"}
      PROVE  Attributed'
  <2>1. SweepsLatest'
    BY <1>4 DEF SweepsLatest
  <2> QED BY <1>3, <1>4, <2>1, CreditsKept DEF Attributed
<1>5. ASSUME NEW who \in {"user", "bot"}, Sweep!Say(who) PROVE Attributed'
  <2>1. Len(log') = Len(log) + 1
    BY <1>1, <1>5 DEF Sweep!Say
  <2>2. UNCHANGED <<answers, stage, row, reply>>
    BY <1>5 DEF Sweep!Say
  <2>3. SweepsLatest'
    <3>1. row # 0 => answers[row].sent \in Nat
      BY <1>1, <1>2
    <3> QED BY <1>1, <2>1, <2>2, <3>1 DEF Attributed, SweepsLatest
  <2> QED BY <1>3, <2>1, <2>2, <2>3, CreditsKept DEF Attributed
<1>6. CASE (\E on \in BOOLEAN : Sweep!Opt(on)) \/ UNCHANGED Sweep!vars
  <2>1. UNCHANGED <<log, answers, stage, row, reply>>
    BY <1>6 DEF Sweep!Opt, Sweep!vars
  <2> QED BY <2>1 DEF Attributed, CreditedToItsMessage, CreditedWasSaid, SweepsLatest
<1>7. CASE Sweep!Reset
  <2>1. answers' = <<>> /\ row' = 0
    BY <1>7 DEF Sweep!Reset
  <2> QED BY <2>1 DEF Attributed, CreditedToItsMessage, CreditedWasSaid, SweepsLatest
<1>8. CASE Sweep!SendProactive
  <2>1. PICK t \in {0, Len(log)} : answers' = Append(answers, NewRow(t))
    BY <1>8 DEF Sweep!SendProactive, NewRow
  <2>2. /\ Len(answers') = Len(answers) + 1 /\ answers'[Len(answers) + 1] = NewRow(t)
        /\ \A p \in 1..Len(answers) : answers'[p] = answers[p]
    BY <1>1, <2>1 DEF Sweep!TypeOK
  <2>3. Len(log') \in {Len(log), Len(log) + 1}
    <3>1. log' \in {log, Append(log, "bot")}
      BY <1>8 DEF Sweep!SendProactive
    <3> QED BY <1>1, <3>1
  <2>4. ASSUME NEW p \in 1..Len(answers'), NEW i \in answers'[p].heard
        PROVE  /\ p \in 1..Len(answers) /\ i \in answers[p].heard /\ i \in Nat
               /\ i <= Len(log)
    <3>1. p \in 1..Len(answers) \/ p = Len(answers) + 1
      BY <1>1, <2>2
    <3>2. p # Len(answers) + 1
      BY <2>2, <2>4 DEF NewRow
    <3>3. p \in 1..Len(answers) /\ i \in answers[p].heard
      BY <2>2, <2>4, <3>1, <3>2
    <3> QED BY <1>2, <3>3 DEF Attributed, CreditedWasSaid
  <2>5. CreditedWasSaid'
    BY <1>1, <2>3, <2>4 DEF CreditedWasSaid
  <2>6. ASSUME NEW p \in 1..Len(answers'), NEW i \in answers'[p].heard
        PROVE  /\ answers'[p].sent # 0 /\ answers'[p].sent < i
               /\ \A q \in 1..Len(answers') :
                    p < q /\ answers'[q].sent # 0 => i <= answers'[q].sent
    <3>1. p \in 1..Len(answers) /\ i \in answers[p].heard /\ i <= Len(log)
      BY <2>4, <2>6
    <3>2. answers'[p].sent # 0 /\ answers'[p].sent < i
      BY <2>2, <3>1 DEF Attributed, CreditedToItsMessage
    <3>3. ASSUME NEW q \in 1..Len(answers'), p < q, answers'[q].sent # 0
          PROVE  i <= answers'[q].sent
      <4>1. CASE q \in 1..Len(answers)
        BY <2>2, <3>1, <3>3, <4>1 DEF Attributed, CreditedToItsMessage
      <4>2. CASE q = Len(answers) + 1
        BY <2>1, <2>2, <3>1, <3>3, <4>2 DEF NewRow
      <4> QED BY <1>1, <2>2, <4>1, <4>2
    <3> QED BY <3>2, <3>3
  <2>7. CreditedToItsMessage'
    BY <2>6 DEF CreditedToItsMessage
  <2>8. SweepsLatest'
    BY <1>8 DEF Sweep!SendProactive, SweepsLatest
  <2> QED BY <2>5, <2>7, <2>8 DEF Attributed
<1>9. CASE Sweep!PassesEnd
  BY <1>4, <1>9 DEF Sweep!PassesEnd
<1>10. CASE Sweep!ListSessionsForProactive
  BY <1>4, <1>10 DEF Sweep!ListSessionsForProactive
<1>11. CASE Sweep!SelectLatest
  <2>1. CASE stage' = "matching" /\ row' = Len(answers)
    <3>1. UNCHANGED <<log, answers>>
      BY <1>11 DEF Sweep!SelectLatest
    <3>2. SweepsLatest'
      BY <2>1, <3>1 DEF SweepsLatest
    <3> QED BY <1>3, <3>1, <3>2, CreditsKept DEF Attributed
  <2> QED BY <1>4, <1>11, <2>1 DEF Sweep!SelectLatest
<1>12. CASE Sweep!AssessFeedback
  <2>1. CASE stage' = "marking"
    <3>1. /\ UNCHANGED <<log, answers, row>> /\ stage = "matching" /\ row # 0
          /\ answers[row].sent # 0 /\ reply' \in Sweep!FindFirstUserReplyAfter(answers[row].sent)
      BY <1>12, <2>1 DEF Sweep!AssessFeedback
    <3>2. answers[row].sent < reply' /\ reply' <= Len(log)
      <4>1. reply' \in 1..Len(log) /\ reply' > answers[row].sent
        BY <3>1 DEF Sweep!FindFirstUserReplyAfter, Sweep!Recent
      <4>2. answers[row].sent \in Nat
        BY <1>1, <1>2, <3>1
      <4> QED BY <1>1, <4>1, <4>2
    <3>3. SweepsLatest'
      BY <2>1, <3>1, <3>2 DEF Attributed, SweepsLatest
    <3> QED BY <1>3, <3>1, <3>3, CreditsKept DEF Attributed
  <2> QED BY <1>4, <1>12, <2>1 DEF Sweep!AssessFeedback
<1>13. CASE Sweep!MarkProactiveMessageReplied
  <2>1. /\ UNCHANGED <<log, row, reply>> /\ stage = "marking" /\ stage' = "crediting"
    BY <1>13 DEF Sweep!MarkProactiveMessageReplied
  <2>2. PICK new : /\ Rewritten(new)
                   /\ row # 0 => new.sent = answers[row].sent /\ new.heard = answers[row].heard
    <3>1. CASE answers' = Sweep!Updated("replied", TRUE)
      <4>1. Rewritten([answers[row] EXCEPT !.replied = TRUE])
        BY <3>1, SweepMarks
      <4>2. row # 0 => /\ [answers[row] EXCEPT !.replied = TRUE].sent = answers[row].sent
                       /\ [answers[row] EXCEPT !.replied = TRUE].heard = answers[row].heard
        BY <1>1 DEF Sweep!AnswerRows
      <4> QED BY <4>1, <4>2
    <3>2. CASE answers' = Sweep!Counted("missed")
      <4>1. Rewritten([answers[row] EXCEPT !.missed = @ + 1])
        BY <3>2, SweepCounts
      <4>2. row # 0 => /\ [answers[row] EXCEPT !.missed = @ + 1].sent = answers[row].sent
                       /\ [answers[row] EXCEPT !.missed = @ + 1].heard = answers[row].heard
        BY <1>1 DEF Sweep!AnswerRows
      <4> QED BY <4>1, <4>2
    <3> QED BY <1>13, <3>1, <3>2 DEF Sweep!MarkProactiveMessageReplied
  <2>3. SameCredits
    BY <1>1, <2>2 DEF Rewritten, SameCredits
  <2>4. SweepsLatest'
    <3>1. SUFFICES ASSUME row # 0 PROVE SweepsLatest'
      BY <2>1 DEF SweepsLatest
    <3>2. row \in 1..Len(answers)
      BY <1>1, <3>1
    <3> QED BY <2>1, <2>3, <3>2 DEF Attributed, SweepsLatest, SameCredits
  <2> QED BY <2>1, <2>3, <2>4, CreditsKept DEF Attributed
<1>14. CASE Sweep!CreditSession
  <2>1. UNCHANGED <<log, row>> /\ stage = "crediting" /\ stage' = "learning"
    BY <1>14 DEF Sweep!CreditSession
  <2>2. CASE answers' = answers
    BY <1>4, <2>1, <2>2
  <2>3. CASE answers' = Sweep!Credited
    <3>1. Rewritten(CreditedRow)
      BY <2>3, SweepCredits
    <3>2. SweepsLatest'
      BY <2>1 DEF SweepsLatest
    <3>3. CASE row = 0
      <4>1. answers' = answers
        BY <2>3, <3>3 DEF Sweep!Credited
      <4> QED BY <1>4, <2>1, <4>1
    <3>4. CASE row # 0
      <4>1. /\ row \in 1..Len(answers) /\ row = Len(answers)
            /\ answers[row].sent # 0 /\ answers[row].sent < reply /\ reply <= Len(log)
        BY <1>1, <2>1, <3>4 DEF Attributed, SweepsLatest
      <4>2. /\ Len(answers') = Len(answers) /\ answers'[row] = CreditedRow
            /\ \A p \in 1..Len(answers) : p # row => answers'[p] = answers[p]
        BY <3>1, <3>4 DEF Rewritten
      <4>3. /\ CreditedRow.sent = answers[row].sent
            /\ CreditedRow.heard = answers[row].heard \cup {reply}
        BY <1>1, <4>1 DEF CreditedRow, Sweep!AnswerRows
      <4>4. \A p \in 1..Len(answers) : answers'[p].sent = answers[p].sent
        BY <4>2, <4>3
      <4>5. ASSUME NEW p \in 1..Len(answers'), NEW i \in answers'[p].heard
            PROVE  /\ answers'[p].sent # 0 /\ answers'[p].sent < i /\ i <= Len(log)
                   /\ \A q \in 1..Len(answers') :
                        p < q /\ answers'[q].sent # 0 => i <= answers'[q].sent
        <5>1. CASE i \in answers[p].heard
          BY <4>2, <4>4, <5>1 DEF Attributed, CreditedToItsMessage, CreditedWasSaid
        <5>2. CASE i \notin answers[p].heard
          <6>1. p = row /\ i = reply
            BY <4>2, <4>3, <4>5, <5>2
          <6> QED BY <1>1, <4>1, <4>2, <4>3, <6>1
        <5> QED BY <5>1, <5>2
      <4>6. CreditedToItsMessage' /\ CreditedWasSaid'
        BY <2>1, <4>5 DEF CreditedToItsMessage, CreditedWasSaid
      <4> QED BY <3>2, <4>6 DEF Attributed
    <3> QED BY <3>3, <3>4
  <2> QED BY <1>14, <2>2, <2>3 DEF Sweep!CreditSession
<1>15. CASE Sweep!UpdateProactiveProfile
  BY <1>4, <1>15 DEF Sweep!UpdateProactiveProfile
<1>16. CASE Sweep!SendRewardAudio
  <2>1. UNCHANGED log /\ row' = 0
    BY <1>16 DEF Sweep!SendRewardAudio
  <2>2. CASE answers' = answers
    BY <1>4, <2>1, <2>2
  <2>3. CASE answers' = Sweep!Counted("rewarded")
    <3>1. Rewritten([answers[row] EXCEPT !.rewarded = @ + 1])
      BY <2>3, SweepCounts
    <3>2. row # 0 => /\ [answers[row] EXCEPT !.rewarded = @ + 1].sent = answers[row].sent
                     /\ [answers[row] EXCEPT !.rewarded = @ + 1].heard = answers[row].heard
      BY <1>1 DEF Sweep!AnswerRows
    <3>3. SameCredits
      <4> DEFINE new == [answers[row] EXCEPT !.rewarded = @ + 1]
      <4>1. Rewritten(new)
        BY <3>1
      <4>2. row # 0 => new.sent = answers[row].sent /\ new.heard = answers[row].heard
        BY <3>2
      <4> HIDE DEF new
      <4> QED BY <1>1, <4>1, <4>2 DEF Rewritten, SameCredits
    <3>4. SweepsLatest'
      BY <2>1 DEF SweepsLatest
    <3> QED BY <2>1, <3>3, <3>4, CreditsKept DEF Attributed
  <2> QED BY <1>16, <2>2, <2>3 DEF Sweep!SendRewardAudio
<1>17. CASE Sweep!Restart
  BY <1>4, <1>17 DEF Sweep!Restart
<1> QED BY <1>5, <1>6, <1>7, <1>8, <1>9, <1>10, <1>11, <1>12, <1>13, <1>14, <1>15, <1>16, <1>17
        DEF Sweep!Next, Sweep!Handle, Sweep!Sweep

\* What the user says is credited to the message it followed, and never to two,
\* however often the process starts, whatever fails and whatever is sent between.
THEOREM CreditsGoToTheirMessage ==
  ASSUME SweepBounds
  PROVE  Sweep!Spec => []CreditedToItsMessage
<1>1. Sweep!Init => Sweep!TypeOK /\ Attributed
  BY DEF Sweep!Init, Sweep!TypeOK, Sweep!Steps, SweepBounds, Attributed, CreditedToItsMessage,
         CreditedWasSaid, SweepsLatest
<1>2. Attributed => CreditedToItsMessage
  BY DEF Attributed
<1> QED BY <1>1, <1>2, SweepTypesInvariance, AttributedInvariance, PTL DEF Sweep!Spec

-----------------------------------------------------------------------------
(* The messages themselves: what the deliveries keep true.                  *)

\* The unique key of the table, of which OncePerTrigger is the visible part.
UniqueKeys == \A p, q \in rows : p.key = q.key => p = q

\* Ids are never given twice, so an update by id reaches the job's row only.
IdsAreUsed == \A r \in rows : r.id <= serial
JobIsCandidate == job # NoJob => job.key \in Candidates
JobOwnsItsRow ==
  pc \in {"send", "record", "save", "stamp"} =>
    \A r \in rows : r.id = job.id => r.key = job.key

\* The muted sessions are left out of the list, of the choice and of the job.
MutedIsLeftOut ==
  /\ pc = "listed" => \A s \in Sessions : Listed(s) => s \notin pass.muted
  /\ \A c \in pass.winners : c.session \notin pass.muted
  /\ job # NoJob => job.key.session \notin pass.muted

Inv == /\ TypeOK /\ UniqueKeys /\ IdsAreUsed
       /\ JobIsCandidate /\ JobOwnsItsRow /\ MutedIsLeftOut

USE BoundsAreNumbers, DurationsAreNumbers, DayIsPositive, NeutralIsAMood

-----------------------------------------------------------------------------
(* The candidates of a pass, and the records the state is made of.          *)

LEMMA RecordTypes ==
  /\ NoSession \in SessionRow /\ NewSession \in SessionRow
  /\ NoPass \in Passes /\ NoJob \in Jobs
  /\ NoCandidate \notin Candidates
<1>1. NoSession \in SessionRow /\ NewSession \in SessionRow
  BY DEF NoSession, NewSession, SessionRow
<1>2. NoPass \in Passes
  BY <1>1 DEF NoPass, Passes, Time
<1>3. NoJob \in Jobs
  BY DEF NoJob, Jobs
<1>4. NoCandidate \notin Candidates
  BY DEF NoCandidate, Candidates, Triggers
<1> QED BY <1>1, <1>2, <1>3, <1>4

\* Candidates carry a session that was listed.
LEMMA ScannedIsListed ==
  ASSUME TypeOK
  PROVE  Scanned \subseteq {c \in Candidates : Listed(c.session)}
<1>1. ASSUME NEW c \in EventCandidates
      PROVE  c \in Candidates /\ Listed(c.session)
  <2>1. PICK e \in Events :
          /\ Listed(e.session)
          /\ c = [session |-> e.session, tag |-> e.at,
                  trigger |-> IF e.kind = "reminder" THEN "reminder"
                              ELSE "event_followup"]
    BY DEF EventCandidates
  <2> QED BY <2>1 DEF Events, Candidates, Triggers
<1>2. ASSUME NEW s \in Sessions, Listed(s), NEW c \in SessionCandidates(s)
      PROVE  c \in Candidates /\ Listed(c.session)
  <2>1. c \in [session : {s}, trigger : Triggers,
               tag : {pass.at, pass.at \div Day, pass.listed[s].mood}]
    BY DEF SessionCandidates
  <2>2. pass.at \in Nat
    BY DEF TypeOK, Passes, Time
  <2>3. pass.at \div Day \in Nat
    BY <2>2
  <2>4. pass.listed[s].mood \in Moods
    BY DEF TypeOK, Passes, SessionRow
  <2> QED BY <1>2, <2>1, <2>2, <2>3, <2>4 DEF Candidates
<1> QED BY <1>1, <1>2 DEF Scanned

LEMMA ChosenIsPass ==
  ASSUME TypeOK, NEW winners \in SUBSET Candidates, NEW unread \in SUBSET Sessions
  PROVE  /\ Chosen(winners, unread) \in Passes
         /\ Chosen(winners, unread).winners = winners
         /\ Chosen(winners, unread).muted = pass.muted
         /\ Chosen(winners, unread).unread = unread
BY RecordTypes DEF Chosen, NoPass, Passes, TypeOK, Time

\* A scan may fail to read the rows of several sessions, at a fault each.
LEMMA ScanFaults ==
  ASSUME TypeOK, Scan
  PROVE  faults' \in 0..MaxFaults /\ faults <= faults'
<1>1. PICK unread \in SUBSET {c.session : c \in Scanned} :
        faults' = faults + Cardinality(unread) /\ faults' <= MaxFaults
  BY DEF Scan
<1>2. unread \subseteq Sessions
  BY <1>1, ScannedIsListed DEF Candidates
<1>3. Cardinality(unread) \in Nat
  BY <1>2, TablesAreFinite, FS_Subset, FS_CardinalityType
<1> QED BY <1>1, <1>3 DEF TypeOK

-----------------------------------------------------------------------------
(* Updates of rows keep their ids and keys.                                 *)

LEMMA Updated ==
  ASSUME TypeOK, UniqueKeys, IdsAreUsed, serial' = serial,
         NEW f, rows' = {f[r] : r \in rows},
         \A r \in rows : f[r] \in Rows /\ f[r].id = r.id /\ f[r].key = r.key
  PROVE  /\ rows' \subseteq Rows /\ UniqueKeys' /\ IdsAreUsed'
         /\ \A q \in rows' : \E p \in rows : p.id = q.id /\ p.key = q.key
BY DEF UniqueKeys, IdsAreUsed

LEMMA InitInv == Init => Inv
<1> SUFFICES ASSUME Init PROVE Inv
  OBVIOUS
<1>1. TypeOK
  BY RecordTypes DEF Init, TypeOK, Time, Steps
<1>2. UniqueKeys /\ IdsAreUsed /\ JobIsCandidate /\ JobOwnsItsRow
  BY DEF Init, UniqueKeys, IdsAreUsed, JobIsCandidate, JobOwnsItsRow
<1>3. MutedIsLeftOut
  BY DEF Init, MutedIsLeftOut, NoPass
<1> QED BY <1>1, <1>2, <1>3 DEF Inv

\* The users change neither the goroutine nor the keys of the rows.
LEMMA UserStep ==
  ASSUME Inv, UserAct
  PROVE  Inv'
<1>1. PICK s \in Sessions :
        \/ Open(s)
        \/ \E mood \in Moods : \/ Speak(s, mood, {})
                               \/ \E e \in Events : Speak(s, mood, {e})
        \/ \E on \in BOOLEAN : Opt(s, on)
        \/ Reset(s)
  BY DEF UserAct
<1>2. UNCHANGED <<now, serial, scheduler, faults>> /\ rows' \subseteq rows
  BY <1>1 DEF Open, Speak, Opt, Reset, messages
<1>3. session' \in [Sessions -> SessionRow]
  <2>1. CASE Open(s)
    BY <2>1, RecordTypes DEF Open, Inv, TypeOK
  <2>2. CASE \E mood \in Moods : \/ Speak(s, mood, {})
                                 \/ \E e \in Events : Speak(s, mood, {e})
    <3>1. PICK mood \in Moods :
            session' = [session EXCEPT ![s] =
                          [@ EXCEPT !.lastUser = now, !.mood = mood]]
      BY <2>2 DEF Speak
    <3>2. [session[s] EXCEPT !.lastUser = now, !.mood = mood] \in SessionRow
      BY DEF SessionRow, Inv, TypeOK
    <3> QED BY <3>1, <3>2 DEF Inv, TypeOK
  <2>3. CASE \E on \in BOOLEAN : Opt(s, on)
    BY <2>3 DEF Opt, Inv, TypeOK, SessionRow
  <2>4. CASE Reset(s)
    BY <2>4, RecordTypes DEF Reset, Inv, TypeOK, SessionRow
  <2> QED BY <1>1, <2>1, <2>2, <2>3, <2>4
<1>4. event' \in [Events -> {"none", "fresh", "used"}]
  BY <1>1 DEF Open, Speak, Opt, Reset, Inv, TypeOK
<1>5. TypeOK'
  BY <1>2, <1>3, <1>4 DEF Inv, TypeOK, scheduler
<1>6. UniqueKeys' /\ IdsAreUsed'
  BY <1>2 DEF Inv, UniqueKeys, IdsAreUsed
<1>7. JobIsCandidate' /\ JobOwnsItsRow'
  BY <1>2 DEF Inv, JobIsCandidate, JobOwnsItsRow, scheduler
<1>8. MutedIsLeftOut'
  BY <1>2 DEF Inv, MutedIsLeftOut, Listed, scheduler
<1> QED BY <1>5, <1>6, <1>7, <1>8 DEF Inv

LEMMA TickStep ==
  ASSUME Inv, Tick
  PROVE  Inv'
<1>1. TypeOK'
  BY DEF Tick, Inv, TypeOK, Time, messages, scheduler
<1> QED BY <1>1 DEF Tick, Inv, UniqueKeys, IdsAreUsed, JobIsCandidate,
                    JobOwnsItsRow, MutedIsLeftOut, Listed, messages, scheduler

LEMMA BeginStep ==
  ASSUME Inv, NEW kind \in {"reminder", "standard"}, Begin(kind)
  PROVE  Inv'
<1>1. ListSessionsForProactive \in [Sessions -> SessionRow]
  BY RecordTypes DEF ListSessionsForProactive, Inv, TypeOK
<1>2. pass' \in Passes
  BY <1>1 DEF Begin, Passes, Inv, TypeOK
<1>3. TypeOK'
  BY <1>2 DEF Begin, Inv, TypeOK, Steps, messages
<1>4. \A s \in Sessions : Listed(s)' => s \notin pass'.muted
  BY DEF Begin, Listed, ListSessionsForProactive
<1>5. MutedIsLeftOut'
  BY <1>4 DEF Begin, MutedIsLeftOut, Inv, TypeOK
<1>6. UniqueKeys' /\ IdsAreUsed' /\ JobIsCandidate' /\ JobOwnsItsRow'
  BY DEF Begin, Inv, UniqueKeys, IdsAreUsed, JobIsCandidate, JobOwnsItsRow, messages
<1> QED BY <1>3, <1>5, <1>6 DEF Inv

\* The choice is made among candidates whose sessions are listed.
LEMMA ScanStep ==
  ASSUME Inv, Scan
  PROVE  Inv'
<1>1. PICK unread \in SUBSET {c.session : c \in Scanned},
           winners \in SUBSET Scanned, judged \in BOOLEAN :
        pass' = IF judged THEN Chosen(winners, unread)
                 ELSE [pass EXCEPT !.winners = winners, !.unread = unread]
  BY DEF Scan
<1>2. /\ winners \in SUBSET {c \in Candidates : Listed(c.session)}
      /\ unread \in SUBSET Sessions
  BY ScannedIsListed DEF Inv, Candidates
<1>3. pass' \in Passes /\ pass'.winners = winners /\ pass'.muted = pass.muted
  <2>1. CASE pass' = Chosen(winners, unread)
    BY <1>2, <2>1, ChosenIsPass DEF Inv
  <2>2. CASE pass' = [pass EXCEPT !.winners = winners, !.unread = unread]
    BY <1>2, <2>2 DEF Inv, TypeOK, Passes
  <2> QED BY <1>1, <2>1, <2>2
<1>4. TypeOK'
  BY <1>3, ScanFaults DEF Scan, Inv, TypeOK, Steps, messages
<1>5. \A c \in winners : c.session \in Sessions /\ c.session \notin pass.muted
  BY <1>2 DEF Scan, Inv, MutedIsLeftOut, Candidates
<1>6. MutedIsLeftOut'
  BY <1>3, <1>5 DEF Scan, Inv, MutedIsLeftOut
<1>7. UniqueKeys' /\ IdsAreUsed' /\ JobIsCandidate' /\ JobOwnsItsRow'
  BY DEF Scan, Inv, UniqueKeys, IdsAreUsed, JobIsCandidate, JobOwnsItsRow, messages
<1> QED BY <1>4, <1>6, <1>7 DEF Inv

\* A pass that is over leaves nothing behind, nor does one cut short.
LEMMA OverStep ==
  ASSUME Inv, ScanFails \/ EndPass \/ Crash
  PROVE  Inv'
<1>1. pc' = "idle" /\ pass' = NoPass /\ job' = NoJob
  BY DEF ScanFails, EndPass, Crash, Inv, TypeOK
<1>2. UNCHANGED <<now, session, event, messages>>
  BY DEF ScanFails, EndPass, Crash
<1>3. boot' \in {"reminder", "standard", "loop"} /\ faults' \in 0..MaxFaults
  BY DEF ScanFails, EndPass, Crash, BootAfter, Fault, Inv, TypeOK
<1>4. TypeOK'
  BY <1>1, <1>2, <1>3, RecordTypes DEF Inv, TypeOK, Steps, messages
<1> QED BY <1>1, <1>2, <1>4 DEF Inv, UniqueKeys, IdsAreUsed, JobIsCandidate,
                    JobOwnsItsRow, MutedIsLeftOut, NoPass, messages

LEMMA TakeUpStep ==
  ASSUME Inv, NEW c \in pass.winners, TakeUp(c)
  PROVE  Inv'
<1>1. /\ c \in Candidates /\ pass.winners \ {c} \in SUBSET Candidates
      /\ pass.unread \in SUBSET Sessions
  BY DEF Inv, TypeOK, Passes
<1>2. /\ pass' \in Passes /\ pass'.winners = pass.winners \ {c}
      /\ pass'.muted = pass.muted
  BY <1>1, ChosenIsPass DEF TakeUp, Inv
<1>3. \/ /\ job' = [NoJob EXCEPT !.key = c] /\ pc' \in {"mark", "compose"}
      \/ /\ job' = NoJob /\ pc' = "choose"
  BY DEF TakeUp, Inv, TypeOK
<1>4. job' = [NoJob EXCEPT !.key = c] => job' \in Jobs /\ job' # NoJob /\ job'.key = c
  BY <1>1, RecordTypes DEF NoJob, Jobs
<1>5. TypeOK'
  BY <1>2, <1>3, <1>4, RecordTypes DEF TakeUp, Inv, TypeOK, Steps, messages
<1>6. MutedIsLeftOut'
  BY <1>2, <1>3, <1>4 DEF Inv, MutedIsLeftOut
<1>7. JobIsCandidate'
  BY <1>1, <1>3, <1>4 DEF JobIsCandidate
<1>8. UniqueKeys' /\ IdsAreUsed' /\ JobOwnsItsRow'
  BY <1>3 DEF TakeUp, Inv, UniqueKeys, IdsAreUsed, JobOwnsItsRow, messages
<1> QED BY <1>5, <1>6, <1>7, <1>8 DEF Inv

LEMMA MarkStep ==
  ASSUME Inv, MarkUsed \/ Compose
  PROVE  Inv'
<1>1. /\ UNCHANGED <<now, session, messages, boot, pass>>
      /\ event' \in [Events -> {"none", "fresh", "used"}]
      /\ faults' \in 0..MaxFaults
  BY DEF MarkUsed, Compose, Fault, NoFault, Inv, TypeOK
<1>2. job # NoJob
  BY DEF MarkUsed, Compose, Inv, TypeOK
<1>3. job' = job /\ pc' \in {"insert", "compose"}
  BY DEF MarkUsed, Compose
<1>4. TypeOK'
  BY <1>1, <1>2, <1>3, RecordTypes DEF Inv, TypeOK, Steps, messages
<1>5. JobIsCandidate' /\ MutedIsLeftOut'
  BY <1>1, <1>2, <1>3 DEF Inv, JobIsCandidate, MutedIsLeftOut
<1>6. UniqueKeys' /\ IdsAreUsed' /\ JobOwnsItsRow'
  BY <1>1, <1>3 DEF Inv, UniqueKeys, IdsAreUsed, JobOwnsItsRow, messages
<1> QED BY <1>4, <1>5, <1>6 DEF Inv

\* A row is inserted under an id of its own and a key of its own.
LEMMA InsertStep ==
  ASSUME Inv, Insert
  PROVE  Inv'
<1>1. /\ UNCHANGED <<now, session, event, boot, pass>>
      /\ faults' \in 0..MaxFaults /\ job # NoJob
  BY DEF Insert, Fault, NoFault, Inv, TypeOK
<1>2. CASE /\ Insertable(job.key) /\ serial' = serial + 1
           /\ rows' = rows \cup
                {QueuedRow(serial', job.key, job.key.session \in pass.unread)}
           /\ pc' = "send" /\ job' = [job EXCEPT !.id = serial']
  <2> DEFINE r == QueuedRow(serial', job.key, job.key.session \in pass.unread)
  <2>1. r \in Rows /\ r.id = serial + 1 /\ r.key = job.key
    BY <1>1, <1>2 DEF QueuedRow, Rows, Inv, TypeOK, JobIsCandidate
  <2>2. job' \in Jobs /\ job' # NoJob /\ job'.id = serial + 1 /\ job'.key = job.key
    BY <1>2 DEF Jobs, NoJob, Inv, TypeOK
  <2>3. rows' = rows \cup {r}
    BY <1>2
  <2>4. \A p \in rows : p.id # r.id /\ p.key # r.key /\ p.id \in Nat
    BY <1>2, <2>1 DEF Insertable, Inv, IdsAreUsed, TypeOK, Rows
  <2> HIDE DEF r
  <2>5. TypeOK'
    BY <1>1, <1>2, <2>1, <2>2, <2>3 DEF Inv, TypeOK, Steps
  <2>6. UniqueKeys' /\ IdsAreUsed'
    BY <1>2, <2>1, <2>3, <2>4 DEF Inv, UniqueKeys, IdsAreUsed, TypeOK
  <2>7. JobIsCandidate' /\ JobOwnsItsRow' /\ MutedIsLeftOut'
    BY <1>1, <1>2, <2>1, <2>2, <2>3, <2>4
    DEF Inv, JobIsCandidate, JobOwnsItsRow, MutedIsLeftOut
  <2> QED BY <2>5, <2>6, <2>7 DEF Inv
<1>3. CASE GiveUp /\ UNCHANGED messages
  <2>1. TypeOK'
    BY <1>1, <1>3, RecordTypes DEF Inv, TypeOK, Steps, messages, GiveUp
  <2> QED BY <1>1, <1>3, <2>1 DEF Inv, UniqueKeys, IdsAreUsed, JobIsCandidate,
                        JobOwnsItsRow, MutedIsLeftOut, messages, GiveUp
<1> QED BY <1>2, <1>3 DEF Insert

\* Send, Record, Save and Stamp update the job's row.
LEMMA SendStep ==
  ASSUME Inv, Send
  PROVE  Inv'
<1>1. PICK ok \in BOOLEAN, seen \in BOOLEAN :
        /\ job' = [job EXCEPT !.ok = ok, !.sentAt = IF ok THEN now ELSE Never]
        /\ rows' = Others \cup
             {[r EXCEPT !.seenAt = IF seen THEN now ELSE Never] : r \in Mine}
  BY DEF Send
<1> DEFINE when == IF seen THEN now ELSE Never
           f == [r \in rows |-> IF r \in Mine THEN [r EXCEPT !.seenAt = when] ELSE r]
<1>2. when \in Time \cup {Never}
  BY DEF Inv, TypeOK
<1>3. rows' = {f[r] : r \in rows}
  BY <1>1 DEF Others, Mine
<1> HIDE DEF when
<1>4. \A r \in rows : f[r] \in Rows /\ f[r].id = r.id /\ f[r].key = r.key
  BY <1>2 DEF Rows, Inv, TypeOK
<1> HIDE DEF f
<1>5. serial' = serial
  BY DEF Send
<1>6. /\ rows' \subseteq Rows /\ UniqueKeys' /\ IdsAreUsed'
      /\ \A q \in rows' : \E p \in rows : p.id = q.id /\ p.key = q.key
  BY <1>3, <1>4, <1>5, Updated DEF Inv
<1>7. job # NoJob /\ job.key # NoCandidate
  BY RecordTypes DEF Send, Inv, TypeOK, JobIsCandidate
<1>8. job' \in Jobs /\ job' # NoJob /\ job'.key = job.key /\ job'.id = job.id
  BY <1>1, <1>7 DEF Jobs, NoJob, Inv, TypeOK
<1>9. TypeOK'
  BY <1>6, <1>8 DEF Send, Inv, TypeOK, Steps, Fault, NoFault
<1> QED BY <1>6, <1>7, <1>8, <1>9
        DEF Send, Inv, JobIsCandidate, JobOwnsItsRow, MutedIsLeftOut

\* What the three steps after the sending have in common.
LEMMA BookStep ==
  ASSUME Inv, NEW f, rows' = {f[r] : r \in rows},
         \A r \in rows : f[r] \in Rows /\ f[r].id = r.id /\ f[r].key = r.key,
         session' \in [Sessions -> SessionRow],
         UNCHANGED <<now, event, serial, boot, pass>>,
         faults' \in 0..MaxFaults,
         pc \in {"record", "save", "stamp"},
         \/ pc' \in {"save", "stamp"} /\ job' = job
         \/ GiveUp
  PROVE  Inv'
<1>1. /\ rows' \subseteq Rows /\ UniqueKeys' /\ IdsAreUsed'
      /\ \A q \in rows' : \E p \in rows : p.id = q.id /\ p.key = q.key
  BY Updated DEF Inv
<1>2. TypeOK'
  BY <1>1, RecordTypes DEF Inv, TypeOK, Steps, GiveUp
<1> QED BY <1>1, <1>2
        DEF GiveUp, Inv, JobIsCandidate, JobOwnsItsRow, MutedIsLeftOut

LEMMA RecordStep ==
  ASSUME Inv, Record
  PROVE  Inv'
<1> DEFINE g == [r \in rows |-> r]
           f == [r \in rows |->
                  IF r \in Mine
                    THEN [r EXCEPT !.status = IF job.ok THEN "sent" ELSE "failed",
                                   !.sentAt = job.sentAt]
                    ELSE r]
<1>1. job.sentAt \in Time \cup {Never} /\ rows \subseteq Rows
  BY DEF Inv, TypeOK, Jobs
<1>2. \A r \in rows : f[r] \in Rows /\ f[r].id = r.id /\ f[r].key = r.key
  <2> SUFFICES ASSUME NEW r \in rows
               PROVE  f[r] \in Rows /\ f[r].id = r.id /\ f[r].key = r.key
    OBVIOUS
  <2> DEFINE u == [r EXCEPT !.status = IF job.ok THEN "sent" ELSE "failed",
                      !.sentAt = job.sentAt]
  <2>1. u \in Rows /\ u.id = r.id /\ u.key = r.key
    BY <1>1 DEF Rows
  <2>2. f[r] = u \/ f[r] = r
    OBVIOUS
  <2> HIDE DEF u, f
  <2> QED BY <1>1, <2>1, <2>2
<1>3. \A r \in rows : g[r] \in Rows /\ g[r].id = r.id /\ g[r].key = r.key
  BY <1>1
<1>4. rows' = {f[r] : r \in rows} \/ rows' = {g[r] : r \in rows}
  BY DEF Record, Others, Mine
<1>5. /\ session' \in [Sessions -> SessionRow]
      /\ UNCHANGED <<now, event, serial, boot, pass>>
      /\ faults' \in 0..MaxFaults
      /\ pc \in {"record", "save", "stamp"}
  <2>1. faults' = faults \/ (faults < MaxFaults /\ faults' = faults + 1)
    <3>1. NoFault \/ Fault
      BY DEF Record
    <3> QED BY <3>1 DEF Fault, NoFault
  <2>2. UNCHANGED <<now, session, event, serial, boot, pass>> /\ pc = "record"
    BY DEF Record
  <2> QED BY <2>1, <2>2 DEF Inv, TypeOK
<1>6. \/ pc' \in {"save", "stamp"} /\ job' = job
      \/ GiveUp
  BY DEF Record
<1> HIDE DEF f, g
<1> QED BY <1>2, <1>3, <1>4, <1>5, <1>6, BookStep

LEMMA SaveStep ==
  ASSUME Inv, Save
  PROVE  Inv'
<1> DEFINE g == [r \in rows |-> r]
           f == [r \in rows |-> IF r \in Mine THEN [r EXCEPT !.logged = TRUE] ELSE r]
<1>1. rows \subseteq Rows
  BY DEF Inv, TypeOK
<1>2. \A r \in rows : f[r] \in Rows /\ f[r].id = r.id /\ f[r].key = r.key
  <2> SUFFICES ASSUME NEW r \in rows
               PROVE  f[r] \in Rows /\ f[r].id = r.id /\ f[r].key = r.key
    OBVIOUS
  <2> DEFINE u == [r EXCEPT !.logged = TRUE]
  <2>1. u \in Rows /\ u.id = r.id /\ u.key = r.key
    BY <1>1 DEF Rows
  <2>2. f[r] = u \/ f[r] = r
    OBVIOUS
  <2> HIDE DEF u, f
  <2> QED BY <1>1, <2>1, <2>2
<1>3. \A r \in rows : g[r] \in Rows /\ g[r].id = r.id /\ g[r].key = r.key
  BY <1>1
<1>4. rows' = {f[r] : r \in rows} \/ rows' = {g[r] : r \in rows}
  BY DEF Save, Others, Mine
<1>5. /\ session' \in [Sessions -> SessionRow]
      /\ UNCHANGED <<now, event, serial, boot, pass, job>>
      /\ faults' \in 0..MaxFaults
      /\ pc \in {"record", "save", "stamp"} /\ pc' \in {"save", "stamp"}
  BY DEF Save, Fault, NoFault, Inv, TypeOK
<1> HIDE DEF f, g
<1> QED BY <1>2, <1>3, <1>4, <1>5, BookStep

LEMMA StampStep ==
  ASSUME Inv, Stamp
  PROVE  Inv'
<1> DEFINE g == [r \in rows |-> r]
           f == [r \in rows |-> IF r \in Mine THEN [r EXCEPT !.stamped = TRUE] ELSE r]
<1>1. rows \subseteq Rows /\ job.sentAt \in Time \cup {Never}
  BY DEF Inv, TypeOK, Jobs
<1>2. \A r \in rows : f[r] \in Rows /\ f[r].id = r.id /\ f[r].key = r.key
  <2> SUFFICES ASSUME NEW r \in rows
               PROVE  f[r] \in Rows /\ f[r].id = r.id /\ f[r].key = r.key
    OBVIOUS
  <2> DEFINE u == [r EXCEPT !.stamped = TRUE]
  <2>1. u \in Rows /\ u.id = r.id /\ u.key = r.key
    BY <1>1 DEF Rows
  <2>2. f[r] = u \/ f[r] = r
    OBVIOUS
  <2> HIDE DEF u, f
  <2> QED BY <1>1, <2>1, <2>2
<1>3. \A r \in rows : g[r] \in Rows /\ g[r].id = r.id /\ g[r].key = r.key
  BY <1>1
<1>4. rows' = {f[r] : r \in rows} \/ rows' = {g[r] : r \in rows}
  BY DEF Stamp, Others, Mine
<1>5. session' \in [Sessions -> SessionRow]
  <2>1. \A s \in Sessions :
          [session[s] EXCEPT !.lastProactive = job.sentAt] \in SessionRow
    BY <1>1 DEF SessionRow, Inv, TypeOK
  <2> QED BY <2>1 DEF Stamp, Inv, TypeOK
<1>6. /\ UNCHANGED <<now, event, serial, boot, pass>> /\ GiveUp
      /\ faults' \in 0..MaxFaults
      /\ pc \in {"record", "save", "stamp"}
  BY DEF Stamp, Fault, NoFault, Inv, TypeOK
<1> HIDE DEF f, g
<1> QED BY <1>2, <1>3, <1>4, <1>5, <1>6, BookStep
-----------------------------------------------------------------------------
(* The theorems.                                                            *)

LEMMA NextInv == Inv /\ [Next]_vars => Inv'
<1> SUFFICES ASSUME Inv, [Next]_vars PROVE Inv'
  OBVIOUS
<1>1. CASE Tick
  BY <1>1, TickStep
<1>2. CASE UserAct
  BY <1>2, UserStep
<1>3. CASE \E kind \in {"reminder", "standard"} : Begin(kind)
  BY <1>3, BeginStep
<1>4. CASE Work
  <2>1. CASE Scan
    BY <2>1, ScanStep
  <2>2. CASE ScanFails \/ EndPass
    BY <2>2, OverStep
  <2>3. CASE \E c \in pass.winners : TakeUp(c)
    BY <2>3, TakeUpStep
  <2>4. CASE MarkUsed \/ Compose
    BY <2>4, MarkStep
  <2>5. CASE Insert
    BY <2>5, InsertStep
  <2>6. CASE Send
    BY <2>6, SendStep
  <2>7. CASE Record
    BY <2>7, RecordStep
  <2>8. CASE Save
    BY <2>8, SaveStep
  <2>9. CASE Stamp
    BY <2>9, StampStep
  <2> QED BY <1>4, <2>1, <2>2, <2>3, <2>4, <2>5, <2>6, <2>7, <2>8, <2>9 DEF Work
<1>5. CASE Crash
  BY <1>5, OverStep
<1>6. CASE UNCHANGED vars
  <2>1. TypeOK'
    BY <1>6 DEF vars, messages, scheduler, Inv, TypeOK
  <2> QED BY <1>6, <2>1
          DEF vars, messages, scheduler, Inv, UniqueKeys, IdsAreUsed,
              JobIsCandidate, JobOwnsItsRow, MutedIsLeftOut, Listed
<1> QED BY <1>1, <1>2, <1>3, <1>4, <1>5, <1>6 DEF Next

THEOREM Invariance == Spec => []Inv
BY InitInv, NextInv, PTL DEF Spec

\* Whatever the users do and whatever fails, the tables hold rows of their
\* types and a candidate is being handled exactly between TakeUp and GiveUp.
THEOREM ProactiveTypes == Spec => []TypeOK
<1>1. Inv => TypeOK
  BY DEF Inv
<1> QED BY <1>1, Invariance, PTL

\* INSERT comes before the sending and refuses a key the table has: no trigger
\* of a session is answered by two messages the user saw.
THEOREM TriggersAnsweredOnce == Spec => []OncePerTrigger
<1>1. Inv => OncePerTrigger
  BY DEF Inv, UniqueKeys, OncePerTrigger
<1> QED BY <1>1, Invariance, PTL

\* Only the job's row becomes visible in a step, and the job's session was not
\* muted when the pass listed the sessions.
LEMMA MutedStep ==
  ASSUME Inv, [Next]_vars, NEW q \in rows', Seen(q),
         \A p \in rows : p.id = q.id => ~Seen(p)
  PROVE  q.key.session \notin pass.muted
<1>1. q \notin rows
  OBVIOUS
<1>2. CASE Send
  <2>1. q \in {[r EXCEPT !.seenAt = IF TRUE THEN now ELSE Never] : r \in Mine}
        \/ q \in {[r EXCEPT !.seenAt = Never] : r \in Mine}
    BY <1>1, <1>2 DEF Send, Others
  <2>2. PICK r \in Mine : q.key = r.key
    BY <2>1 DEF Mine, Rows, Inv, TypeOK
  <2>3. r.key = job.key /\ job # NoJob
    BY <1>2, <2>2 DEF Send, Mine, Inv, TypeOK, JobOwnsItsRow
  <2> QED BY <2>2, <2>3 DEF Inv, MutedIsLeftOut
<1>3. CASE Insert
  <2>1. q = QueuedRow(serial', job.key, job.key.session \in pass.unread)
    BY <1>1, <1>3 DEF Insert, messages
  <2> QED BY <2>1 DEF QueuedRow, Seen
<1>4. CASE Record \/ Save \/ Stamp
  <2> SUFFICES \E r \in rows : q.id = r.id /\ q.seenAt = r.seenAt
    BY DEF Seen
  <2>1. rows \subseteq Rows /\ Mine \subseteq rows /\ Others \subseteq rows
    BY DEF Inv, TypeOK, Mine, Others
  <2>2. CASE Record
    <3>1. q \in {[r EXCEPT !.status = IF job.ok THEN "sent" ELSE "failed",
                           !.sentAt = job.sentAt] : r \in Mine}
      BY <1>1, <2>1, <2>2 DEF Record
    <3>2. PICK r \in Mine :
            q = [r EXCEPT !.status = IF job.ok THEN "sent" ELSE "failed",
                          !.sentAt = job.sentAt]
      BY <3>1
    <3>3. q.id = r.id /\ q.seenAt = r.seenAt
      BY <2>1, <3>2 DEF Rows
    <3> QED BY <2>1, <3>3
  <2>3. CASE Save
    <3>1. PICK r \in Mine : q = [r EXCEPT !.logged = TRUE]
      BY <1>1, <2>1, <2>3 DEF Save
    <3>2. q.id = r.id /\ q.seenAt = r.seenAt
      BY <2>1, <3>1 DEF Rows
    <3> QED BY <2>1, <3>2
  <2>4. CASE Stamp
    <3>1. PICK r \in Mine : q = [r EXCEPT !.stamped = TRUE]
      BY <1>1, <2>1, <2>4 DEF Stamp
    <3>2. q.id = r.id /\ q.seenAt = r.seenAt
      BY SMTT(30), <2>1, <3>1 DEF Rows
    <3> QED BY <2>1, <3>2
  <2> QED BY <1>4, <2>2, <2>3, <2>4
<1>5. ASSUME ~Send, ~Insert, ~(Record \/ Save \/ Stamp)
      PROVE  rows' \subseteq rows
  BY <1>5 DEF Next, UserAct, Work, vars, messages, Tick, Open, Speak, Opt, Reset,
     Begin, Scan, ScanFails, EndPass, TakeUp, MarkUsed, Compose, Crash
<1> QED BY <1>1, <1>2, <1>3, <1>4, <1>5

\* A session that was opted out when a pass listed the sessions gets no
\* message from that pass, whatever its user does in the meantime.
THEOREM MutedSessions == Spec => MutedStaysQuiet
<1>1. Inv /\ [Next]_vars =>
        [\A q \in rows' :
           Seen(q) /\ (\A p \in rows : p.id = q.id => ~Seen(p))
           => q.key.session \notin pass.muted]_vars
  BY MutedStep
<1> QED BY <1>1, Invariance, PTL DEF Spec, MutedStaysQuiet
-----------------------------------------------------------------------------
(* Faults pay for what goes missing.  A set whose elements each cost a fault *)
(* is inside a finite set of no more elements than there were faults: it     *)
(* grows by one element at most, and only in a step that fails once.        *)

Covered(S) == \E F : IsFiniteSet(F) /\ Cardinality(F) <= faults /\ S \subseteq F

LEMMA CoverGrows ==
  ASSUME TypeOK, TypeOK', NEW S, NEW T, NEW x,
         \E F : IsFiniteSet(F) /\ Cardinality(F) <= faults /\ S \subseteq F,
         \/ faults <= faults' /\ T \subseteq S
         \/ faults' = faults + 1 /\ T \subseteq S \cup {x}
  PROVE  \E F : IsFiniteSet(F) /\ Cardinality(F) <= faults' /\ T \subseteq F
<1>1. PICK F : IsFiniteSet(F) /\ Cardinality(F) <= faults /\ S \subseteq F
  OBVIOUS
<1>2. faults \in Nat /\ faults' \in Nat /\ Cardinality(F) \in Nat
  BY <1>1, FS_CardinalityType DEF TypeOK
<1>3. CASE faults <= faults' /\ T \subseteq S
  BY <1>1, <1>2, <1>3
<1>4. CASE faults' = faults + 1 /\ T \subseteq S \cup {x}
  <2>1. IsFiniteSet(F \cup {x}) /\ Cardinality(F \cup {x}) <= Cardinality(F) + 1
    <3>1. IsFiniteSet(F)
      BY <1>1
    <3>2. /\ IsFiniteSet(F \cup {x})
          /\ Cardinality(F \cup {x}) = IF x \in F THEN Cardinality(F) ELSE Cardinality(F) + 1
      BY ONLY <3>1, FS_AddElement
    <3> QED BY <1>2, <3>2
  <2>2. Cardinality(F \cup {x}) <= faults' /\ T \subseteq F \cup {x}
    <3>1. Cardinality(F \cup {x}) \in Nat
      BY <2>1, FS_CardinalityType
    <3> QED BY <1>1, <1>2, <1>4, <2>1, <3>1
  <2> QED BY <2>1, <2>2
<1> QED BY <1>3, <1>4

LEMMA CoverBounds ==
  ASSUME TypeOK, NEW S, NEW g, Covered({g[x] : x \in S}),
         \A x, y \in S : g[x] = g[y] => x = y
  PROVE  IsFiniteSet(S) /\ Cardinality(S) <= faults
<1>1. PICK F : /\ IsFiniteSet(F) /\ Cardinality(F) <= faults
               /\ {g[x] : x \in S} \subseteq F
  BY DEF Covered
<1> DEFINE h == [x \in S |-> g[x]]
<1>2. h \in Injection(S, F)
  BY <1>1 DEF Injection, IsInjective
<1>3. IsFiniteSet(S) /\ Cardinality(S) <= Cardinality(F)
  BY <1>1, <1>2, FS_Injection
<1>4. faults \in Nat /\ Cardinality(F) \in Nat /\ Cardinality(S) \in Nat
  BY <1>1, <1>3, FS_CardinalityType DEF TypeOK
<1> QED BY <1>1, <1>3, <1>4

-----------------------------------------------------------------------------
(* The steps that write rows, and the others.                               *)

\* Send, Record, Save and Stamp rewrite the job's row, field by field, and
\* leave the others alone.
Rewrites(f) ==
  /\ rows' = {f[r] : r \in rows}
  /\ \A r \in rows : /\ f[r].id = r.id /\ f[r].key = r.key
                     /\ r.id # job.id => f[r] = r

LEMMA SendRewrites ==
  ASSUME Inv, Send
  PROVE  \E f : Rewrites(f)
<1>1. PICK seen \in BOOLEAN :
        rows' = Others \cup
             {[r EXCEPT !.seenAt = IF seen THEN now ELSE Never] : r \in Mine}
  BY DEF Send
<1> DEFINE f == [r \in rows |-> IF r \in Mine
                   THEN [r EXCEPT !.seenAt = IF seen THEN now ELSE Never] ELSE r]
<1>2. rows' = {f[r] : r \in rows}
  BY <1>1 DEF Others, Mine
<1>3. \A r \in rows : /\ f[r].id = r.id /\ f[r].key = r.key
                      /\ r.id # job.id => f[r] = r
  BY DEF Rows, Inv, TypeOK, Mine
<1> HIDE DEF f
<1> QED BY <1>2, <1>3 DEF Rewrites

LEMMA RecordRewrites ==
  ASSUME Inv, Record
  PROVE  \E f : /\ Rewrites(f)
                /\ \A r \in rows :
                     /\ f[r].seenAt = r.seenAt
                     /\ faults' = faults /\ job.ok /\ r.id = job.id => f[r].status = "sent"
<1> DEFINE g == [r \in rows |-> r]
           f == [r \in rows |->
                  IF r \in Mine
                    THEN [r EXCEPT !.status = IF job.ok THEN "sent" ELSE "failed",
                                   !.sentAt = job.sentAt]
                    ELSE r]
<1>1. rows \subseteq Rows
  BY DEF Inv, TypeOK
<1>2. CASE NoFault /\ rows' = {f[r] : r \in rows}
  <2>1. \A r \in rows : /\ f[r].id = r.id /\ f[r].key = r.key /\ f[r].seenAt = r.seenAt
                        /\ r.id # job.id => f[r] = r
                        /\ job.ok /\ r.id = job.id => f[r].status = "sent"
    BY <1>1 DEF Rows, Mine
  <2> HIDE DEF f
  <2> QED BY <1>2, <2>1 DEF Rewrites
<1>3. CASE Fault /\ rows' = {g[r] : r \in rows}
  <2>1. faults' # faults
    BY <1>3 DEF Fault, Inv, TypeOK
  <2>2. \A r \in rows : g[r] = r
    OBVIOUS
  <2> HIDE DEF g
  <2> QED BY <1>3, <2>1, <2>2 DEF Rewrites
<1>4. \/ NoFault /\ rows' = {f[r] : r \in rows}
      \/ Fault /\ rows' = {g[r] : r \in rows}
  BY DEF Record, Others, Mine
<1> HIDE DEF f, g
<1> QED BY <1>2, <1>3, <1>4

LEMMA SaveRewrites ==
  ASSUME Inv, Save
  PROVE  \E f : /\ Rewrites(f)
                /\ \A r \in rows :
                     /\ f[r].seenAt = r.seenAt /\ f[r].status = r.status
                     /\ faults' = faults /\ r.id = job.id => f[r].logged
<1> DEFINE g == [r \in rows |-> r]
           f == [r \in rows |-> IF r \in Mine THEN [r EXCEPT !.logged = TRUE] ELSE r]
<1>1. rows \subseteq Rows
  BY DEF Inv, TypeOK
<1>2. CASE NoFault /\ rows' = {f[r] : r \in rows}
  <2>1. \A r \in rows : /\ f[r].id = r.id /\ f[r].key = r.key /\ f[r].seenAt = r.seenAt
                        /\ f[r].status = r.status
                        /\ r.id # job.id => f[r] = r
                        /\ r.id = job.id => f[r].logged
    BY <1>1 DEF Rows, Mine
  <2> HIDE DEF f
  <2> QED BY <1>2, <2>1 DEF Rewrites
<1>3. CASE Fault /\ rows' = {g[r] : r \in rows}
  <2>1. faults' # faults
    BY <1>3 DEF Fault, Inv, TypeOK
  <2>2. \A r \in rows : g[r] = r
    OBVIOUS
  <2> HIDE DEF g
  <2> QED BY <1>3, <2>1, <2>2 DEF Rewrites
<1>4. \/ NoFault /\ rows' = {f[r] : r \in rows}
      \/ Fault /\ rows' = {g[r] : r \in rows}
  BY DEF Save, Others, Mine
<1> HIDE DEF f, g
<1> QED BY <1>2, <1>3, <1>4

LEMMA StampRewrites ==
  ASSUME Inv, Stamp
  PROVE  \E f : /\ Rewrites(f)
                /\ \A r \in rows :
                     /\ f[r].seenAt = r.seenAt /\ f[r].status = r.status
                     /\ f[r].logged = r.logged
                     /\ faults' = faults /\ r.id = job.id => f[r].stamped
<1> DEFINE g == [r \in rows |-> r]
           f == [r \in rows |-> IF r \in Mine THEN [r EXCEPT !.stamped = TRUE] ELSE r]
<1>1. rows \subseteq Rows
  BY DEF Inv, TypeOK
<1>2. CASE NoFault /\ rows' = {f[r] : r \in rows}
  <2>1. \A r \in rows : /\ f[r].id = r.id /\ f[r].key = r.key /\ f[r].seenAt = r.seenAt
                        /\ f[r].status = r.status /\ f[r].logged = r.logged
                        /\ r.id # job.id => f[r] = r
                        /\ r.id = job.id => f[r].stamped
    BY <1>1 DEF Rows, Mine
  <2> HIDE DEF f
  <2> QED BY <1>2, <2>1 DEF Rewrites
<1>3. CASE Fault /\ rows' = {g[r] : r \in rows}
  <2>1. faults' # faults
    BY <1>3 DEF Fault, Inv, TypeOK
  <2>2. \A r \in rows : g[r] = r
    OBVIOUS
  <2> HIDE DEF g
  <2> QED BY <1>3, <2>1, <2>2 DEF Rewrites
<1>4. \/ NoFault /\ rows' = {f[r] : r \in rows}
      \/ Fault /\ rows' = {g[r] : r \in rows}
  BY DEF Stamp, Others, Mine
<1> HIDE DEF f, g
<1> QED BY <1>2, <1>3, <1>4

\* The other steps insert one row, or none, and keep the locals of the job or end it.
LEMMA OtherSteps ==
  ASSUME Inv, [Next]_vars, ~(Send \/ Record \/ Save \/ Stamp), ~Insert
  PROVE  /\ rows' \subseteq rows
         /\ faults <= faults'
         /\ \/ pc' = pc /\ job' = job
            \/ /\ pc \notin {"send", "record", "save", "stamp"}
               /\ pc' \notin {"send", "record", "save", "stamp"}
               /\ job'.id = job.id \/ job'.id = 0
            \/ faults' = faults + 1 /\ pc' = "idle" /\ job'.id = 0
<1> faults \in Nat
  BY DEF Inv, TypeOK
<1>1. CASE Tick \/ UserAct \/ UNCHANGED vars
  <2>1. UNCHANGED <<pc, job, faults>> /\ rows' \subseteq rows
    BY <1>1 DEF Tick, UserAct, Open, Speak, Opt, Reset, vars, messages, scheduler
  <2> QED BY <2>1
<1>2. CASE \E kind \in {"reminder", "standard"} : Begin(kind)
  BY <1>2 DEF Begin, messages
<1>3. CASE Scan \/ ScanFails \/ EndPass
  <2>1. faults <= faults'
    <3>1. CASE Scan
      BY <3>1, ScanFaults DEF Inv
    <3>2. CASE ScanFails
      <4>1. faults' = faults + 1
        BY <3>2 DEF ScanFails, Fault
      <4> QED BY <4>1
    <3>3. CASE EndPass
      <4>1. faults' = faults
        BY <3>3 DEF EndPass
      <4> QED BY <4>1
    <3> QED BY <1>3, <3>1, <3>2, <3>3
  <2> QED BY <1>3, <2>1 DEF Scan, ScanFails, EndPass, messages
<1>4. CASE \E c \in pass.winners : TakeUp(c)
  BY <1>4 DEF TakeUp, messages, NoJob
<1>5. CASE MarkUsed \/ Compose
  BY <1>5 DEF MarkUsed, Compose, messages, Fault, NoFault
<1>6. CASE Crash
  BY <1>6 DEF Crash, NoJob, messages, Fault
<1> QED BY SMTT(30), <1>1, <1>2, <1>3, <1>4, <1>5, <1>6 DEF Next, Work

\* An id stands for one row, and the job has one from Insert on; its row is not
\* seen before it is sent.
Numbered ==
  /\ \A r \in rows : r.id # 0
  /\ \A p, q \in rows : p.id = q.id => p = q
  /\ pc \notin {"send", "record", "save", "stamp"} => job.id = 0
  /\ pc = "send" => \A r \in rows : r.id = job.id => ~Seen(r)

LEMMA NumberedStep ==
  ASSUME Inv, Numbered, [Next]_vars
  PROVE  Numbered'
<1>1. CASE Insert
  <2>1. CASE /\ serial' = serial + 1
             /\ rows' = rows \cup
                  {QueuedRow(serial', job.key, job.key.session \in pass.unread)}
             /\ pc' = "send" /\ job' = [job EXCEPT !.id = serial']
    <3> DEFINE r == QueuedRow(serial', job.key, job.key.session \in pass.unread)
    <3>1. r.id = serial + 1 /\ ~Seen(r)
      BY <2>1 DEF QueuedRow, Seen
    <3>2. job'.id = serial + 1
      BY <2>1 DEF Jobs, Inv, TypeOK
    <3>3. \A p \in rows : p.id # serial + 1 /\ p.id \in Nat
      BY DEF Inv, IdsAreUsed, TypeOK, Rows
    <3>4. rows' = rows \cup {r} /\ serial + 1 # 0
      BY <2>1 DEF Inv, TypeOK
    <3> HIDE DEF r
    <3> QED BY <2>1, <3>1, <3>2, <3>3, <3>4 DEF Numbered, Seen
  <2>2. CASE GiveUp /\ UNCHANGED messages
    BY <2>2 DEF Numbered, GiveUp, NoJob, messages, Seen
  <2> QED BY <1>1, <2>1, <2>2 DEF Insert
<1>2. CASE Send \/ Record \/ Save \/ Stamp
  <2>1. PICK f : Rewrites(f)
    BY <1>2, SendRewrites, RecordRewrites, SaveRewrites, StampRewrites
  <2>2. (\A r \in rows' : r.id # 0) /\ \A p, q \in rows' : p.id = q.id => p = q
    BY <2>1 DEF Rewrites, Numbered
  <2>3. /\ pc' # "send"
        /\ pc' \notin {"send", "record", "save", "stamp"} => job'.id = 0
    <3>1. CASE Send
      BY <3>1 DEF Send
    <3>2. CASE Record
      <4>1. pc' = "save" \/ GiveUp
        BY <3>2 DEF Record
      <4> QED BY <4>1 DEF GiveUp, NoJob
    <3>3. CASE Save
      BY <3>3 DEF Save
    <3>4. CASE Stamp
      <4>1. GiveUp
        BY <3>4 DEF Stamp
      <4> QED BY <4>1 DEF GiveUp, NoJob
    <3> QED BY <1>2, <3>1, <3>2, <3>3, <3>4
  <2> QED BY <2>2, <2>3 DEF Numbered
<1>3. CASE ~(Send \/ Record \/ Save \/ Stamp) /\ ~Insert
  BY <1>3, OtherSteps DEF Numbered, Seen, Never
<1> QED BY <1>1, <1>2, <1>3

\* What the books of a message the user saw should show by now, and do not.
Missing(r) ==
  /\ Seen(r)
  /\ IF r.id # job.id
       THEN r.status # "sent" \/ ~r.logged \/ ~r.stamped
       ELSE \/ pc = "record" /\ ~job.ok
            \/ pc \in {"save", "stamp"} /\ r.status # "sent"
            \/ pc = "stamp" /\ ~r.logged

MissingIds == {n \in Nat : \E r \in rows : r.id = n /\ Missing(r)}

\* Whatever goes missing in a step without a fault was missing before; a fault
\* makes the job's row miss something at most.
LEMMA MissingStep ==
  ASSUME Inv, Numbered, [Next]_vars
  PROVE  \/ faults <= faults' /\ MissingIds' \subseteq MissingIds
         \/ faults' = faults + 1 /\ MissingIds' \subseteq MissingIds \cup {job.id}
<1> SUFFICES \/ faults' = faults /\ MissingIds' \subseteq MissingIds
             \/ faults <= faults' /\ MissingIds' \subseteq MissingIds
             \/ faults' = faults + 1 /\ MissingIds' \subseteq MissingIds \cup {job.id}
  BY DEF Inv, TypeOK
<1>1. CASE Insert
  <2>1. job.id = 0 /\ (NoFault \/ Fault)
    BY <1>1 DEF Insert, Numbered
  <2>2. CASE /\ serial' = serial + 1
             /\ rows' = rows \cup
                  {QueuedRow(serial', job.key, job.key.session \in pass.unread)}
             /\ pc' = "send" /\ job' = [job EXCEPT !.id = serial']
    <3>1. /\ job'.id = serial + 1
          /\ ~Seen(QueuedRow(serial', job.key, job.key.session \in pass.unread))
      BY <2>2 DEF QueuedRow, Seen, Jobs, Inv, TypeOK
    <3>2. \A p \in rows : p.id # serial + 1 /\ p.id # 0
      BY DEF Inv, IdsAreUsed, TypeOK, Rows, Numbered
    <3>3. ASSUME NEW r \in rows', Missing(r)' PROVE r \in rows /\ Missing(r)
      <4>1. r \in rows
        BY <2>2, <3>1, <3>3 DEF Missing, Seen, Never
      <4> QED BY <2>1, <3>1, <3>2, <3>3, <4>1 DEF Missing, Seen, Never
    <3> QED BY <2>1, <3>3 DEF MissingIds, NoFault, Fault
  <2>3. CASE GiveUp /\ UNCHANGED messages
    <3>1. job'.id = 0 /\ rows' = rows
      BY <2>3 DEF GiveUp, NoJob, messages
    <3>2. ASSUME NEW r \in rows, Missing(r)' PROVE Missing(r)
      BY <2>1, <3>1, <3>2 DEF Missing, Numbered, Seen, Never
    <3> QED BY <2>1, <3>1, <3>2 DEF MissingIds, NoFault, Fault
  <2> QED BY <1>1, <2>2, <2>3 DEF Insert
<1>2. CASE Send
  <2>1. PICK f : Rewrites(f)
    BY <1>2, SendRewrites
  <2>2. \/ faults' = faults /\ job'.ok
        \/ faults' = faults + 1
    BY <1>2 DEF Send, NoFault, Fault, Jobs, Inv, TypeOK
  <2>3. job'.id = job.id /\ pc' = "record"
    BY <1>2 DEF Send, Jobs, Inv, TypeOK
  <2>4. ASSUME NEW r \in rows, Missing(f[r])'
        PROVE  /\ f[r].id = r.id
               /\ Missing(r) \/ (faults' = faults + 1 /\ r.id = job.id)
    BY <2>1, <2>2, <2>3, <2>4 DEF Rewrites, Missing, Seen, Never
  <2> QED BY <2>1, <2>2, <2>4 DEF Rewrites, MissingIds
<1>3. CASE Record
  <2>1. PICK f : /\ Rewrites(f)
                 /\ \A r \in rows :
                      /\ f[r].seenAt = r.seenAt
                      /\ faults' = faults /\ job.ok /\ r.id = job.id => f[r].status = "sent"
    BY <1>3, RecordRewrites
  <2>2. faults' = faults \/ faults' = faults + 1
    BY <1>3 DEF Record, NoFault, Fault
  <2>3. /\ pc = "record"
        /\ \/ job.ok /\ pc' = "save" /\ job' = job
           \/ ~job.ok /\ job'.id = 0 /\ pc' = "choose"
    <3>1. /\ pc = "record"
          /\ \/ job.ok /\ pc' = "save" /\ job' = job
             \/ ~job.ok /\ GiveUp
      BY <1>3 DEF Record
    <3> QED BY <3>1 DEF GiveUp, NoJob
  <2>4. ASSUME NEW r \in rows, Missing(f[r])'
        PROVE  /\ f[r].id = r.id
               /\ Missing(r) \/ (faults' = faults + 1 /\ r.id = job.id)
    <3>1. CASE r.id = job.id
      BY <2>1, <2>2, <2>3, <2>4, <3>1 DEF Rewrites, Missing, Seen, Never, Numbered
    <3>2. CASE r.id # job.id
      BY <2>1, <2>3, <2>4, <3>2 DEF Rewrites, Missing, Seen, Never, Numbered
    <3> QED BY <3>1, <3>2
  <2> QED BY <2>1, <2>2, <2>4 DEF Rewrites, MissingIds
<1>4. CASE Save
  <2>1. PICK f : /\ Rewrites(f)
                 /\ \A r \in rows :
                      /\ f[r].seenAt = r.seenAt /\ f[r].status = r.status
                      /\ faults' = faults /\ r.id = job.id => f[r].logged
    BY <1>4, SaveRewrites
  <2>2. faults' = faults \/ faults' = faults + 1
    BY <1>4 DEF Save, NoFault, Fault
  <2>3. pc = "save" /\ pc' = "stamp" /\ job' = job
    BY <1>4 DEF Save
  <2>4. ASSUME NEW r \in rows, Missing(f[r])'
        PROVE  /\ f[r].id = r.id
               /\ Missing(r) \/ (faults' = faults + 1 /\ r.id = job.id)
    <3>1. CASE r.id = job.id
      BY <2>1, <2>2, <2>3, <2>4, <3>1 DEF Rewrites, Missing, Seen, Never
    <3>2. CASE r.id # job.id
      BY <2>1, <2>3, <2>4, <3>2 DEF Rewrites, Missing, Seen, Never
    <3> QED BY <3>1, <3>2
  <2> QED BY <2>1, <2>2, <2>4 DEF Rewrites, MissingIds
<1>5. CASE Stamp
  <2>1. PICK f : /\ Rewrites(f)
                 /\ \A r \in rows :
                      /\ f[r].seenAt = r.seenAt /\ f[r].status = r.status
                      /\ f[r].logged = r.logged
                      /\ faults' = faults /\ r.id = job.id => f[r].stamped
    BY <1>5, StampRewrites
  <2>2. faults' = faults \/ faults' = faults + 1
    BY <1>5 DEF Stamp, NoFault, Fault
  <2>3. pc = "stamp" /\ pc' = "choose" /\ job'.id = 0
    BY <1>5 DEF Stamp, GiveUp, NoJob
  <2>4. ASSUME NEW r \in rows, Missing(f[r])'
        PROVE  /\ f[r].id = r.id
               /\ Missing(r) \/ (faults' = faults + 1 /\ r.id = job.id)
    <3>1. CASE r.id = job.id
      BY <2>1, <2>2, <2>3, <2>4, <3>1 DEF Rewrites, Missing, Seen, Never, Numbered
    <3>2. CASE r.id # job.id
      BY <2>1, <2>3, <2>4, <3>2 DEF Rewrites, Missing, Seen, Never, Numbered
    <3> QED BY <3>1, <3>2
  <2> QED BY <2>1, <2>2, <2>4 DEF Rewrites, MissingIds
<1>6. CASE ~(Send \/ Record \/ Save \/ Stamp) /\ ~Insert
  <2>1. ASSUME NEW r \in rows', Missing(r)'
        PROVE  r \in rows /\ (Missing(r) \/ (faults' = faults + 1 /\ r.id = job.id))
    BY <1>6, <2>1, OtherSteps DEF Missing, Seen, Never, Numbered
  <2> QED BY <1>6, <2>1, OtherSteps DEF MissingIds
<1> QED BY <1>1, <1>2, <1>3, <1>4, <1>5, <1>6

Books == Numbered /\ Covered(MissingIds)

LEMMA BooksInvariance == Spec => []Books
<1>1. Init => Books
  <2> SUFFICES ASSUME Init PROVE Books
    OBVIOUS
  <2>1. Numbered /\ MissingIds = {}
    BY DEF Init, Numbered, MissingIds, NoJob
  <2>2. IsFiniteSet({}) /\ Cardinality({}) = 0 /\ faults = 0
    BY FS_EmptySet DEF Init
  <2> QED BY <2>1, <2>2 DEF Books, Covered
<1>2. Inv /\ Inv' /\ Books /\ [Next]_vars => Books'
  <2> SUFFICES ASSUME Inv, Inv', Books, [Next]_vars PROVE Books'
    OBVIOUS
  <2>1. Numbered'
    BY NumberedStep DEF Books
  <2>2. \/ faults <= faults' /\ MissingIds' \subseteq MissingIds
        \/ faults' = faults + 1 /\ MissingIds' \subseteq MissingIds \cup {job.id}
    BY MissingStep DEF Books
  <2>3. TypeOK /\ TypeOK'
    BY DEF Inv
  <2>4. \E F : IsFiniteSet(F) /\ Cardinality(F) <= faults /\ MissingIds \subseteq F
    BY DEF Books, Covered
  <2>5. \E F : IsFiniteSet(F) /\ Cardinality(F) <= faults' /\ MissingIds' \subseteq F
    <3> DEFINE S == MissingIds
               T == MissingIds'
               x == job.id
    <3>1. \/ faults <= faults' /\ T \subseteq S
          \/ faults' = faults + 1 /\ T \subseteq S \cup {x}
      BY <2>2
    <3>2. \E F : IsFiniteSet(F) /\ Cardinality(F) <= faults /\ S \subseteq F
      BY <2>4
    <3> HIDE DEF S, T, x
    <3>3. \E F : IsFiniteSet(F) /\ Cardinality(F) <= faults' /\ T \subseteq F
      BY ONLY <2>3, <3>1, <3>2, CoverGrows
    <3> QED BY <3>3 DEF T
  <2> QED BY <2>1, <2>5 DEF Books, Covered
<1> QED BY <1>1, <1>2, Invariance, PTL DEF Spec

\* Every message the user saw whose books are incomplete has cost a fault of its
\* own, however many messages are sent and whichever of the calls fail.
THEOREM SentIsBooked == Spec => []BookedOrFaulted
<1>1. Inv /\ Books => BookedOrFaulted
  <2> SUFFICES ASSUME Inv, Books PROVE Cardinality(Unbooked) <= faults
    BY DEF BookedOrFaulted
  <2> DEFINE g == [r \in rows |-> r.id]
  <2>1. {g[r] : r \in Unbooked} \subseteq MissingIds
    BY DEF Unbooked, MissingIds, Missing, Inv, TypeOK, Rows
  <2>2. Covered({g[r] : r \in Unbooked})
    <3> HIDE DEF g
    <3> QED BY <2>1 DEF Books, Covered
  <2>3. \A p, q \in Unbooked : g[p] = g[q] => p = q
    BY DEF Unbooked, Books, Numbered
  <2>4. TypeOK
    BY DEF Inv
  <2> DEFINE S == Unbooked
  <2> HIDE DEF g, S
  <2>5. Covered({g[r] : r \in S}) /\ \A p, q \in S : g[p] = g[q] => p = q
    BY <2>2, <2>3 DEF S
  <2>6. Cardinality(S) <= faults
    BY ONLY <2>4, <2>5, CoverBounds
  <2> QED BY <2>6 DEF S
<1> QED BY <1>1, Invariance, BooksInvariance, PTL

-----------------------------------------------------------------------------
(* Events.                                                                  *)

\* Events are of active sessions, and no event is marked for a job without one;
\* from Insert on the job has its row, unless a reset has taken the session with it.
Backed ==
  /\ \A e \in Events : event[e] # "none" => session[e.session].state = "active"
  /\ pc = "mark" => HasEvent(job.key)
  /\ pc \in {"send", "record", "save", "stamp"} =>
       \/ \E r \in rows : r.key = job.key
       \/ session[job.key.session].state = "gone"

\* A step keeps what it does not touch of an event's record.
StateKept(s) == session'[s].state = session[s].state

LEMMA KeysOfRewrites ==
  ASSUME NEW f, Rewrites(f), NEW c, \E r \in rows : r.key = c
  PROVE  \E r \in rows' : r.key = c
BY DEF Rewrites

LEMMA BackedStep ==
  ASSUME Inv, Backed, [Next]_vars
  PROVE  Backed'
<1> USE DEF StateKept
<1>1. CASE UNCHANGED vars \/ Tick
  BY <1>1 DEF vars, Tick, Backed, HasEvent, messages, scheduler
<1>2. CASE UserAct
  <2>1. PICK s \in Sessions :
          \/ Open(s)
          \/ \E mood \in Moods : \/ Speak(s, mood, {})
                                 \/ \E e \in Events : Speak(s, mood, {e})
          \/ \E on \in BOOLEAN : Opt(s, on)
          \/ Reset(s)
    BY <1>2 DEF UserAct
  <2>2. pc' = pc /\ job' = job
    BY <2>1 DEF Open, Speak, Opt, Reset, scheduler
  <2>3. session \in [Sessions -> SessionRow] /\ event \in [Events -> {"none", "fresh", "used"}]
    BY DEF Inv, TypeOK
  <2>4. pc \in {"send", "record", "save", "stamp"} => job.key.session \in Sessions
    BY RecordTypes DEF Inv, TypeOK, JobIsCandidate, Candidates, NoJob
  <2>5. CASE Open(s)
    <3>1. /\ \A t \in Sessions : StateKept(t) \/ session[t].state = "none"
          /\ \A t \in Sessions : session[t].state = "active" => StateKept(t)
          /\ event' = event /\ rows' = rows
      BY <2>3, <2>5 DEF Open, messages
    <3> QED BY <2>2, <2>4, <3>1 DEF Backed, HasEvent, Events
  <2>6. CASE \E mood \in Moods, mentioned \in SUBSET Events : Speak(s, mood, mentioned)
    <3>1. PICK mood \in Moods, mentioned \in SUBSET Events : Speak(s, mood, mentioned)
      BY <2>6
    <3>2. \A t \in Sessions : StateKept(t)
      BY <2>3, <3>1 DEF Speak, SessionRow
    <3>3. /\ \A e \in Events : event'[e] = event[e] \/ e.session = s
          /\ session[s].state = "active" /\ rows' = rows
      BY <2>3, <3>1 DEF Speak, messages
    <3> QED BY <2>2, <2>4, <3>2, <3>3 DEF Backed, HasEvent, Events
  <2>7. CASE \E on \in BOOLEAN : Opt(s, on)
    <3>1. PICK on \in BOOLEAN : Opt(s, on)
      BY <2>7
    <3>2. /\ \A t \in Sessions : StateKept(t)
          /\ event' = event /\ rows' = rows
      BY <2>3, <3>1 DEF Opt, SessionRow, messages
    <3> QED BY <2>2, <2>4, <3>2 DEF Backed, HasEvent, Events
  <2>8. CASE Reset(s)
    <3>1. /\ \A t \in Sessions : t # s => StateKept(t)
          /\ session'[s].state = "gone"
          /\ \A e \in Events : event'[e] = IF e.session = s THEN "none" ELSE event[e]
          /\ rows' = {r \in rows : r.key.session # s}
      BY <2>3, <2>8 DEF Reset, NoSession, NewSession, SessionRow
    <3> QED BY <2>2, <2>4, <3>1 DEF Backed, HasEvent, Events
  <2>9. (\E mood \in Moods : \/ Speak(s, mood, {})
                             \/ \E e \in Events : Speak(s, mood, {e}))
        => \E mood \in Moods, mentioned \in SUBSET Events : Speak(s, mood, mentioned)
    <3>1. {} \in SUBSET Events /\ \A e \in Events : {e} \in SUBSET Events
      OBVIOUS
    <3> QED BY <3>1
  <2> QED BY <2>1, <2>5, <2>6, <2>7, <2>8, <2>9
<1>3. CASE \/ \E kind \in {"reminder", "standard"} : Begin(kind)
           \/ Scan \/ ScanFails \/ EndPass \/ Crash
  BY <1>3 DEF Begin, Scan, ScanFails, EndPass, Crash, Backed, HasEvent, messages
<1>4. CASE \E c \in pass.winners : TakeUp(c)
  <2>1. PICK c \in pass.winners : TakeUp(c)
    BY <1>4
  <2>2. UNCHANGED <<session, event, rows>> /\ pc' \in {"mark", "compose", "choose"}
    BY <2>1 DEF TakeUp, messages
  <2>3. pc' = "mark" => HasEvent(job'.key)
    BY <2>1 DEF TakeUp, NoJob, HasEvent
  <2> QED BY <2>2, <2>3 DEF Backed, HasEvent
<1>5. CASE MarkUsed \/ Compose
  <2>1. UNCHANGED <<session, rows>> /\ pc' \in {"insert", "compose"}
    BY <1>5 DEF MarkUsed, Compose, messages
  <2>2. \A e \in Events : event'[e] # "none" => event[e] # "none"
    BY <1>5 DEF MarkUsed, Compose, Inv, TypeOK
  <2> QED BY <2>1, <2>2 DEF Backed, HasEvent
<1>6. CASE Insert
  <2>1. UNCHANGED <<session, event>>
    BY <1>6 DEF Insert
  <2>2. CASE /\ rows' = rows \cup
                  {QueuedRow(serial', job.key, job.key.session \in pass.unread)}
             /\ pc' = "send" /\ job' = [job EXCEPT !.id = serial']
    <3>1. /\ job'.key = job.key
          /\ QueuedRow(serial', job.key, job.key.session \in pass.unread).key = job.key
      BY <2>2 DEF QueuedRow, Inv, TypeOK, Jobs
    <3> QED BY <2>1, <2>2, <3>1 DEF Backed, HasEvent
  <2>3. CASE GiveUp
    BY <2>1, <2>3 DEF Backed, HasEvent, GiveUp
  <2> QED BY <1>6, <2>2, <2>3 DEF Insert
<1>7. CASE Send \/ Record \/ Save \/ Stamp
  <2>1. PICK f : Rewrites(f)
    BY <1>7, SendRewrites, RecordRewrites, SaveRewrites, StampRewrites
  <2>2. (\E r \in rows : r.key = job.key) => \E r \in rows' : r.key = job.key
    BY <2>1, KeysOfRewrites
  <2>3. event' = event /\ \A s \in Sessions : StateKept(s)
    <3>1. CASE Send \/ Record \/ Save
      BY <3>1 DEF Send, Record, Save
    <3>2. CASE Stamp
      BY <3>2 DEF Stamp, Inv, TypeOK, SessionRow
    <3> QED BY <1>7, <3>1, <3>2
  <2>4. \/ pc' \in {"record", "save", "stamp"} /\ job'.key = job.key
        \/ pc' = "choose"
    <3>1. CASE Send
      BY <3>1 DEF Send, Inv, TypeOK, Jobs
    <3>2. CASE Record
      <4>1. (pc' = "save" /\ job' = job) \/ GiveUp
        BY <3>2 DEF Record
      <4> QED BY <4>1 DEF GiveUp
    <3>3. CASE Save
      BY <3>3 DEF Save
    <3>4. CASE Stamp
      BY <3>4 DEF Stamp, GiveUp
    <3> QED BY <1>7, <3>1, <3>2, <3>3, <3>4
  <2>5. pc \in {"send", "record", "save", "stamp"} /\ job.key.session \in Sessions
    <3>1. pc \in {"send", "record", "save", "stamp"}
      BY <1>7 DEF Send, Record, Save, Stamp
    <3> QED BY SMTT(30), <3>1, RecordTypes DEF Inv, TypeOK, JobIsCandidate, Candidates, NoJob
  <2> QED BY <2>2, <2>3, <2>4, <2>5 DEF Backed, HasEvent, Events
<1> QED BY <1>1, <1>2, <1>3, <1>4, <1>5, <1>6, <1>7 DEF Next, Work

\* Without a fault no event is lost that was not lost before; a fault loses at most
\* the event of the job.
LEMMA LostStep ==
  ASSUME Inv, Backed, [Next]_vars
  PROVE  \/ faults <= faults' /\ Lost' \subseteq Lost
         \/ faults' = faults + 1 /\ Lost' \subseteq Lost \cup {EventOf(job.key)}
<1> SUFFICES \/ faults' = faults /\ Lost' \subseteq Lost
             \/ faults <= faults' /\ Lost' \subseteq Lost
             \/ faults' = faults + 1 /\ Lost' \subseteq Lost \cup {EventOf(job.key)}
  BY DEF Inv, TypeOK
<1> DEFINE Answered(e) == (\E r \in rows : Answers(r.key, e)) \/ Answers(job.key, e)
<1>1. /\ \A e \in Events : e \in Lost <=> event[e] = "used" /\ ~Answered(e)
      /\ \A e \in Events : e \in Lost' <=> event'[e] = "used" /\ ~Answered(e)'
      /\ Lost \subseteq Events /\ Lost' \subseteq Events
  BY DEF Lost, Answers, HasEvent, EventOf
<1>2. \A e \in Events : ~Answers(NoCandidate, e)
  BY DEF Answers
<1>3. \A e : Answers(job.key, e) => e = EventOf(job.key)
  BY DEF Answers
<1>4. Answers(job.key, EventOf(job.key)) \/ ~HasEvent(job.key) \/ job = NoJob
  BY RecordTypes DEF Answers, Inv, JobIsCandidate
<1> HIDE DEF Answered
<1>5. ASSUME faults' = faults,
             \A e \in Events : event'[e] = "used" /\ ~Answered(e)'
                               => event[e] = "used" /\ ~Answered(e)
      PROVE  faults' = faults /\ Lost' \subseteq Lost
  BY <1>1, <1>5
<1>6. ASSUME faults' = faults + 1,
             \A e \in Events : event'[e] = "used" /\ ~Answered(e)'
                               => (event[e] = "used" /\ ~Answered(e)) \/ e = EventOf(job.key)
      PROVE  faults' = faults + 1 /\ Lost' \subseteq Lost \cup {EventOf(job.key)}
  BY <1>1, <1>6
<1>7. ASSUME faults' = faults, UNCHANGED event,
             \A r \in rows : \E q \in rows' : q.key = r.key, job'.key = job.key
      PROVE  faults' = faults /\ Lost' \subseteq Lost
  <2>1. \A e \in Events : Answered(e) => Answered(e)'
    BY <1>7 DEF Answered, Answers, HasEvent, EventOf
  <2> QED BY <1>5, <1>7, <2>1
<1>8. ASSUME faults' = faults + 1, UNCHANGED event,
             \A r \in rows : \E q \in rows' : q.key = r.key
      PROVE  faults' = faults + 1 /\ Lost' \subseteq Lost \cup {EventOf(job.key)}
  <2>1. ASSUME NEW e \in Events, Answered(e), e # EventOf(job.key) PROVE Answered(e)'
    <3>1. \E r \in rows : Answers(r.key, e)
      BY <1>3, <2>1 DEF Answered
    <3> QED BY <1>8, <3>1 DEF Answered, Answers, HasEvent, EventOf
  <2> QED BY <1>6, <1>8, <2>1
<1>9. CASE UNCHANGED vars \/ Tick
  BY <1>7, <1>9 DEF vars, Tick, messages, scheduler
<1>10. CASE UserAct
  <2>1. PICK s \in Sessions :
          \/ Open(s)
          \/ \E mood \in Moods : \/ Speak(s, mood, {})
                                 \/ \E e \in Events : Speak(s, mood, {e})
          \/ \E on \in BOOLEAN : Opt(s, on)
          \/ Reset(s)
    BY <1>10 DEF UserAct
  <2>2. job' = job /\ faults' = faults
    BY <2>1 DEF Open, Speak, Opt, Reset, scheduler
  <2>3. CASE Open(s) \/ \E on \in BOOLEAN : Opt(s, on)
    BY <1>7, <2>2, <2>3 DEF Open, Opt, messages
  <2>4. CASE \E mood \in Moods : \/ Speak(s, mood, {})
                                 \/ \E e \in Events : Speak(s, mood, {e})
    <3>1. rows' = rows /\ \A e \in Events : event'[e] = "used" => event[e] = "used"
      BY <2>4 DEF Speak, messages
    <3>2. \A e \in Events : Answered(e)' <=> Answered(e)
      BY <2>2, <3>1 DEF Answered, Answers, HasEvent, EventOf
    <3> QED BY <1>5, <2>2, <3>1, <3>2
  <2>5. CASE Reset(s)
    <3>1. ASSUME NEW e \in Events, event'[e] = "used", ~Answered(e)'
          PROVE  event[e] = "used" /\ ~Answered(e)
      <4>1. e.session # s /\ event[e] = "used"
        BY <2>5, <3>1 DEF Reset
      <4>2. \A r \in rows : Answers(r.key, e) => r \in rows'
        BY <2>5, <4>1 DEF Reset, Answers, EventOf
      <4>3. Answered(e) => Answered(e)'
        BY <2>2, <4>2 DEF Answered, Answers, HasEvent, EventOf
      <4> QED BY <3>1, <4>1, <4>3
    <3> QED BY <1>5, <2>2, <3>1
  <2> QED BY <2>1, <2>3, <2>4, <2>5
<1>11. CASE (\E kind \in {"reminder", "standard"} : Begin(kind)) \/ EndPass
  BY <1>7, <1>11 DEF Begin, EndPass, messages
<1>18. CASE Scan
  <2>1. UNCHANGED <<event, rows, job>> /\ faults <= faults'
    BY <1>18, ScanFaults DEF Scan, messages, Inv
  <2>2. \A e \in Events : Answered(e)' <=> Answered(e)
    BY <2>1 DEF Answered, Answers, HasEvent, EventOf
  <2> QED BY <1>1, <2>1, <2>2
<1>12. CASE ScanFails \/ Crash
  BY <1>8, <1>12 DEF ScanFails, Crash, messages, Fault
<1>13. CASE \E c \in pass.winners : TakeUp(c)
  <2>1. faults' = faults /\ UNCHANGED <<event, rows>> /\ job = NoJob
    BY <1>13 DEF TakeUp, messages, Inv, TypeOK
  <2>2. \A e \in Events : Answered(e) => Answered(e)'
    BY <1>2, <2>1 DEF Answered, NoJob, Answers, HasEvent, EventOf
  <2> QED BY <1>5, <2>1, <2>2
<1>14. CASE MarkUsed
  <2>1. job' = job /\ rows' = rows /\ pc = "mark"
    BY <1>14 DEF MarkUsed, messages
  <2>2. CASE event' = event /\ Fault
    BY <1>8, <2>1, <2>2 DEF Fault
  <2>3. CASE /\ event' = [event EXCEPT ![EventOf(job.key)] = IF @ = "none" THEN "none" ELSE "used"]
             /\ NoFault
    <3>1. \A e \in Events : Answered(e)' <=> Answered(e)
      BY <2>1 DEF Answered, Answers, HasEvent, EventOf
    <3>2. Answered(EventOf(job.key))
      BY <1>4, <2>1 DEF Backed, Answered, Inv, TypeOK
    <3>3. \A e \in Events : e # EventOf(job.key) => event'[e] = event[e]
      BY <2>3 DEF Inv, TypeOK
    <3> QED BY <1>5, <2>3, <3>1, <3>2, <3>3 DEF NoFault
  <2> QED BY <1>14, <2>2, <2>3 DEF MarkUsed
<1>15. CASE Compose
  <2>1. UNCHANGED <<event, rows, job, faults>>
    BY <1>15 DEF Compose, messages
  <2> QED BY <1>7, <2>1
<1>16. CASE Insert
  <2>1. UNCHANGED <<event, session>> /\ pc = "insert"
    BY <1>16 DEF Insert
  <2>2. CASE /\ rows' = rows \cup
                  {QueuedRow(serial', job.key, job.key.session \in pass.unread)}
             /\ job' = [job EXCEPT !.id = serial'] /\ NoFault
    <3>1. job'.key = job.key
      BY <2>2 DEF Inv, TypeOK, Jobs
    <3> QED BY <1>7, <2>1, <2>2, <3>1 DEF NoFault
  <2>3. CASE ~Insertable(job.key) /\ GiveUp /\ UNCHANGED messages /\ NoFault
    <3>1. ASSUME NEW e \in Events, event'[e] = "used", ~Answered(e)'
          PROVE  event[e] = "used" /\ ~Answered(e)
      <4>1. event[e] = "used" /\ rows' = rows /\ session[e.session].state = "active"
        BY <2>1, <2>3, <3>1 DEF messages, Backed
      <4>2. ~\E r \in rows : Answers(r.key, e)
        BY <3>1, <4>1 DEF Answered, Answers, HasEvent, EventOf
      <4>3. ASSUME Answers(job.key, e) PROVE FALSE
        <5>1. job.key.session = e.session
          BY <4>3 DEF Answers, EventOf
        <5>2. PICK r \in rows : r.key = job.key
          BY <2>3, <4>1, <5>1 DEF Insertable
        <5> QED BY <4>2, <4>3, <5>2
      <4> QED BY <4>1, <4>2, <4>3 DEF Answered
    <3> QED BY <1>5, <2>3, <3>1 DEF NoFault
  <2>4. CASE UNCHANGED messages /\ Fault
    BY <1>8, <2>1, <2>4 DEF messages, Fault
  <2> QED BY <1>16, <2>2, <2>3, <2>4 DEF Insert
<1>17. CASE Send \/ Record \/ Save \/ Stamp
  <2>1. PICK f : Rewrites(f)
    BY <1>17, SendRewrites, RecordRewrites, SaveRewrites, StampRewrites
  <2>2. \A r \in rows : \E q \in rows' : q.key = r.key
    BY SMTT(30), <2>1 DEF Rewrites
  <2>3. event' = event /\ (NoFault \/ Fault)
    BY <1>17 DEF Send, Record, Save, Stamp
  <2>4. pc \in {"send", "record", "save", "stamp"}
    BY <1>17 DEF Send, Record, Save, Stamp
  <2>5. job'.key = job.key \/ job' = NoJob
    <3>1. CASE Send \/ Save
      BY <3>1 DEF Send, Save, Inv, TypeOK, Jobs
    <3>2. CASE Record
      BY <3>2 DEF Record, GiveUp
    <3>3. CASE Stamp
      BY <3>3 DEF Stamp, GiveUp
    <3> QED BY <1>17, <3>1, <3>2, <3>3
  <2>6. CASE Fault
    BY <1>8, <2>2, <2>3, <2>6 DEF Fault
  <2>7. CASE NoFault /\ job'.key = job.key
    BY <1>7, <2>2, <2>3, <2>7 DEF NoFault
  <2>8. CASE NoFault /\ job' = NoJob
    <3>1. ASSUME NEW e \in Events, event'[e] = "used", ~Answered(e)'
          PROVE  event[e] = "used" /\ ~Answered(e)
      <4>1. event[e] = "used" /\ session[e.session].state = "active"
        BY <2>3, <3>1 DEF Backed
      <4>2. ~\E r \in rows : Answers(r.key, e)
        BY <2>2, <3>1 DEF Answered, Answers, HasEvent, EventOf
      <4>3. ASSUME Answers(job.key, e) PROVE FALSE
        <5>1. job.key.session = e.session
          BY <4>3 DEF Answers, EventOf
        <5>2. PICK r \in rows : r.key = job.key
          BY <2>4, <4>1, <5>1 DEF Backed
        <5> QED BY <4>2, <4>3, <5>2
      <4> QED BY <4>1, <4>2, <4>3 DEF Answered
    <3> QED BY <1>5, <2>8, <3>1 DEF NoFault
  <2> QED BY <2>3, <2>5, <2>6, <2>7, <2>8
<1> QED BY <1>9, <1>10, <1>11, <1>12, <1>13, <1>14, <1>15, <1>16, <1>17, <1>18
        DEF Next, Work

Remembered == Backed /\ Covered(Lost)

LEMMA RememberedInvariance == Spec => []Remembered
<1>1. Init => Remembered
  <2> SUFFICES ASSUME Init PROVE Remembered
    OBVIOUS
  <2>1. Backed /\ Lost = {}
    BY DEF Init, Backed, Lost
  <2>2. IsFiniteSet({}) /\ Cardinality({}) = 0 /\ faults = 0
    BY FS_EmptySet DEF Init
  <2> QED BY <2>1, <2>2 DEF Remembered, Covered
<1>2. Inv /\ Inv' /\ Remembered /\ [Next]_vars => Remembered'
  <2> SUFFICES ASSUME Inv, Inv', Remembered, [Next]_vars PROVE Remembered'
    OBVIOUS
  <2>1. Backed'
    BY BackedStep DEF Remembered
  <2>2. TypeOK /\ TypeOK'
    BY DEF Inv
  <2> DEFINE S == Lost
             T == Lost'
             x == EventOf(job.key)
  <2>3. \/ faults <= faults' /\ T \subseteq S
        \/ faults' = faults + 1 /\ T \subseteq S \cup {x}
    BY LostStep DEF Remembered
  <2>4. \E F : IsFiniteSet(F) /\ Cardinality(F) <= faults /\ S \subseteq F
    BY DEF Remembered, Covered
  <2> HIDE DEF S, T, x
  <2>5. \E F : IsFiniteSet(F) /\ Cardinality(F) <= faults' /\ T \subseteq F
    BY ONLY <2>2, <2>3, <2>4, CoverGrows
  <2> QED BY <2>1, <2>5 DEF Remembered, Covered, T
<1> QED BY <1>1, <1>2, Invariance, PTL DEF Spec

\* An event used up with no message to show for it has cost a fault of its own,
\* whatever the user does with it and with the session meanwhile.
THEOREM EventsAreAnswered == Spec => []NoSilentLoss
<1>1. Inv /\ Remembered => NoSilentLoss
  <2> SUFFICES ASSUME Inv, Remembered PROVE Cardinality(Lost) <= faults
    BY DEF NoSilentLoss
  <2>1. PICK F : IsFiniteSet(F) /\ Cardinality(F) <= faults /\ Lost \subseteq F
    BY DEF Remembered, Covered
  <2>2. faults \in Nat /\ TypeOK
    BY DEF Inv, TypeOK
  <2> DEFINE S == Lost
  <2> HIDE DEF S
  <2>3. S \subseteq F
    BY <2>1 DEF S
  <2>4. IsFiniteSet(S) /\ Cardinality(S) <= Cardinality(F)
    BY ONLY <2>1, <2>3, FS_Subset
  <2>5. Cardinality(S) \in Nat /\ Cardinality(F) \in Nat
    BY <2>1, <2>4, FS_CardinalityType
  <2> QED BY <2>1, <2>2, <2>4, <2>5 DEF S
<1> QED BY <1>1, Invariance, RememberedInvariance, PTL

-----------------------------------------------------------------------------
(* The gap between messages.  A message that was sent keeps the next one of  *)
(* its session away in two ways: the time of the last message in the         *)
(* session, and the daily cap, which counts the rows that are sent.          *)

\* One message a day, and too few faults to hide it from the rows that are read.
Capped == MaxPerDay = 1 /\ MinGap <= Day /\ MaxFaults < RecentLimit

\* What the next candidate of the session must wait for, and must even if its pass
\* did not read the rows.
Counts(p, blind) == p.stamped \/ (Capped /\ p.status = "sent" /\ ~blind)
LastOf(s) == session[s].lastProactive

\* Rows are of sessions that are there, and the job's is the latest of them.
LiveRows ==
  /\ IsFiniteSet(rows)
  /\ \A r \in rows : session[r.key.session].state = "active"
  /\ Delivering => job.id = serial

\* What was recorded happened when the records say, in the order of the rows.
Clocked ==
  /\ \A s \in Sessions : LastOf(s) # Never => LastOf(s) <= now
  /\ \A r \in rows :
       /\ Seen(r) => r.seenAt <= now
       /\ r.status = "sent" => Seen(r) /\ r.sentAt = r.seenAt
       /\ r.stamped => /\ Seen(r) /\ LastOf(r.key.session) # Never
                       /\ r.seenAt <= LastOf(r.key.session)
  /\ \A p, q \in rows : p.id < q.id /\ Seen(p) /\ Seen(q) => p.seenAt <= q.seenAt

\* How far the job's row is, and what the job knows of it.
Underway ==
  /\ pc \in {"send", "record"} => \A r \in Mine : ~r.stamped /\ r.status = "queued"
  /\ pc \in {"save", "stamp"} => job.ok
  /\ pc \in {"record", "save", "stamp"} /\ job.ok =>
       /\ job.sentAt <= now
       /\ LastOf(job.key.session) # Never => LastOf(job.key.session) <= job.sentAt
       /\ \A r \in Mine : Seen(r) /\ r.seenAt = job.sentAt

\* Until a pass has judged, what it has read of a session is up to date.
Snapshot ==
  /\ \A s \in Sessions : Listed(s) => session[s].state # "none"
  /\ pc \in {"listed", "choose"} /\ ~pass.judged =>
       /\ \A s \in Sessions : Listed(s) /\ session[s].state = "active" =>
            pass.listed[s].lastProactive = LastOf(s)
       /\ \A c \in pass.winners : Listed(c.session)

\* A pass takes up one candidate of a session, and judges before it takes up.
OneEach ==
  /\ \A b, c \in pass.winners : b.session = c.session => b = c
  /\ job # NoJob => pass.judged /\ \A c \in pass.winners : c.session # job.key.session
  /\ pc \in {"idle", "listed"} => pass.winners = {} /\ ~pass.judged
  /\ ~pass.judged => \A b, c \in pass.winners : b = c

\* A message nobody asked for may go: what counts is a gap ago.
Clear(c, unread) ==
  c.trigger # "reminder" =>
    \A p \in rows : p.key.session = c.session /\ Seen(p) /\ Counts(p, c.session \in unread)
                      => p.seenAt + MinGap <= now
Cleared ==
  /\ pass.judged => \A c \in pass.winners : Clear(c, pass.unread)
  /\ pc \in {"mark", "compose", "insert", "send"} => Clear(job.key, pass.unread)

\* The job's row tells whether the pass read the rows of its session.
Aware == Delivering => \A r \in Mine : r.blind <=> job.key.session \in pass.unread

\* The sent row of a session that is followed by unsent ones only.
NewestSent ==
  \A p \in rows : p.status = "sent" =>
    \E r \in rows : /\ r.status = "sent" /\ r.key.session = p.key.session
                    /\ \A q \in rows : q.status = "sent" /\ q.key.session = p.key.session
                                        => q.id <= r.id

\* A row that is not recorded as sent, and will not be.
Unsent(r) ==
  IF r.id # job.id
    THEN r.status # "sent"
    ELSE (pc = "record" /\ ~job.ok) \/ (pc \in {"save", "stamp"} /\ r.status # "sent")
UnsentIds == {n \in Nat : \E r \in rows : r.id = n /\ Unsent(r)}

Spaced ==
  \A p, q \in rows :
    /\ p.id < q.id /\ p.key.session = q.key.session
    /\ Seen(p) /\ Seen(q) /\ q.key.trigger # "reminder" /\ Counts(p, q.blind)
    => p.seenAt + MinGap <= q.seenAt

Spacing ==
  /\ Numbered /\ LiveRows /\ Clocked /\ Underway /\ Snapshot /\ OneEach /\ Cleared
  /\ Aware /\ NewestSent /\ Covered(UnsentIds) /\ Spaced

-----------------------------------------------------------------------------
(* A pass that judges nothing has found one candidate at most.               *)

LEMMA AtMostOne ==
  ASSUME NEW S, IsFiniteSet(S), Cardinality(S) <= 1, NEW b \in S, NEW c \in S
  PROVE  b = c
<1> SUFFICES ASSUME b # c PROVE FALSE
  OBVIOUS
<1>1. IsFiniteSet(S \ {b}) /\ Cardinality(S \ {b}) = Cardinality(S) - 1
  BY FS_RemoveElement
<1>2. c \in S \ {b}
  OBVIOUS
<1>3. Cardinality(S \ {b}) # 0
  BY <1>1, <1>2, FS_EmptySet
<1>4. Cardinality(S \ {b}) \in Nat /\ Cardinality(S) \in Nat
  BY <1>1, FS_CardinalityType
<1> QED BY <1>1, <1>3, <1>4

LEMMA FiniteImage ==
  ASSUME NEW S, IsFiniteSet(S), NEW f
  PROVE  IsFiniteSet({f[x] : x \in S})
<1> DEFINE g == [x \in S |-> f[x]]
<1>1. g \in Surjection(S, {f[x] : x \in S})
  BY DEF Surjection
<1> QED BY <1>1, FS_Surjection

LEMMA FiniteEvents == IsFiniteSet(Events)
<1>1. IsFiniteSet(EventKinds)
  <2>1. IsFiniteSet({"reminder"}) /\ IsFiniteSet({"reminder"} \cup {"schedule"})
    BY FS_Singleton, FS_AddElement
  <2>2. EventKinds \in SUBSET ({"reminder"} \cup {"schedule"})
    OBVIOUS
  <2> QED BY <2>1, <2>2, FS_Subset
<1> DEFINE triples == Sessions \X (EventKinds \X EventTimes)
           f == [t \in triples |-> [session |-> t[1], kind |-> t[2][1], at |-> t[2][2]]]
<1>2. IsFiniteSet(EventKinds \X EventTimes)
  BY <1>1, TablesAreFinite, FS_Product
<1>3. IsFiniteSet(triples)
  BY <1>2, TablesAreFinite, FS_Product
<1>4. ASSUME NEW e \in Events PROVE \E t \in triples : e = f[t]
  <2> DEFINE t == <<e.session, <<e.kind, e.at>>>>
  <2>1. t \in triples /\ e = f[t]
    BY DEF Events
  <2> QED BY <2>1
<1>5. IsFiniteSet({f[t] : t \in triples})
  <2> HIDE DEF triples, f
  <2> QED BY <1>3, FiniteImage
<1>6. Events \in SUBSET {f[t] : t \in triples}
  BY <1>4
<1> QED BY <1>5, <1>6, FS_Subset

LEMMA FiniteScan == ASSUME TypeOK PROVE IsFiniteSet(Scanned)
<1>1. IsFiniteSet(EventCandidates)
  <2> DEFINE f == [e \in Events |-> [session |-> e.session, tag |-> e.at,
                                     trigger |-> IF e.kind = "reminder" THEN "reminder"
                                                 ELSE "event_followup"]]
  <2>1. IsFiniteSet({f[e] : e \in Events})
    <3> HIDE DEF f
    <3> QED BY FiniteEvents, FiniteImage
  <2>2. EventCandidates \in SUBSET {f[e] : e \in Events}
    BY DEF EventCandidates
  <2> QED BY <2>1, <2>2, FS_Subset
<1>2. ASSUME NEW s \in Sessions PROVE IsFiniteSet(SessionCandidates(s))
  <2> DEFINE tags == {pass.at, pass.at \div Day, pass.listed[s].mood}
             pairs == Triggers \X tags
             f == [t \in pairs |-> [session |-> s, trigger |-> t[1], tag |-> t[2]]]
  <2>1. IsFiniteSet(tags)
    <3>1. IsFiniteSet({pass.at})
      BY FS_Singleton
    <3>2. IsFiniteSet({pass.at} \cup {pass.at \div Day})
      BY <3>1, FS_AddElement
    <3>3. IsFiniteSet(({pass.at} \cup {pass.at \div Day}) \cup {pass.listed[s].mood})
      BY <3>2, FS_AddElement
    <3>4. tags = ({pass.at} \cup {pass.at \div Day}) \cup {pass.listed[s].mood}
      OBVIOUS
    <3> QED BY <3>3, <3>4
  <2>2. IsFiniteSet(Triggers)
    <3> DEFINE two == {"reminder"} \cup {"event_followup"}
               four == (two \cup {"mood_repair"}) \cup {"habit_ping"}
    <3>1. IsFiniteSet(two)
      BY FS_Singleton, FS_AddElement
    <3>2. IsFiniteSet(two \cup {"mood_repair"})
      BY <3>1, FS_AddElement
    <3>3. IsFiniteSet(four)
      BY <3>2, FS_AddElement
    <3>4. IsFiniteSet(four \cup {"reconnect"})
      BY <3>3, FS_AddElement
    <3> QED BY <3>4 DEF Triggers
  <2> HIDE DEF tags
  <2>3. IsFiniteSet(pairs)
    BY <2>1, <2>2, FS_Product
  <2>4. ASSUME NEW c \in SessionCandidates(s) PROVE \E t \in pairs : c = f[t]
    <3>1. c \in [session : {s}, trigger : Triggers, tag : tags]
      BY DEF SessionCandidates, tags
    <3>2. <<c.trigger, c.tag>> \in pairs /\ c = f[<<c.trigger, c.tag>>]
      BY <3>1
    <3> QED BY <3>2
  <2>5. IsFiniteSet({f[t] : t \in pairs})
    <3> HIDE DEF pairs, f
    <3> QED BY <2>3, FiniteImage
  <2>6. SessionCandidates(s) \in SUBSET {f[t] : t \in pairs}
    BY <2>4
  <2> QED BY <2>5, <2>6, FS_Subset
<1>3. IsFiniteSet(UNION {SessionCandidates(s) : s \in {t \in Sessions : Listed(t)}})
  <2> DEFINE listed == {t \in Sessions : Listed(t)}
             f == [s \in listed |-> SessionCandidates(s)]
  <2>1. IsFiniteSet(listed)
    BY TablesAreFinite, FS_Subset
  <2>2. IsFiniteSet({f[s] : s \in listed})
    <3> HIDE DEF listed, f
    <3> QED BY <2>1, FiniteImage
  <2>3. {f[s] : s \in listed} = {SessionCandidates(s) : s \in listed}
    OBVIOUS
  <2>4. \A C \in {SessionCandidates(s) : s \in listed} : IsFiniteSet(C)
    BY <1>2
  <2> HIDE DEF f
  <2> QED BY <2>2, <2>3, <2>4, FS_UNION
<1>4. IsFiniteSet({})
  BY FS_EmptySet
<1> QED BY <1>1, <1>3, <1>4, FS_Union DEF Scanned

-----------------------------------------------------------------------------
(* What the rules of eligibility are worth: a candidate that passes them may *)
(* go as far as the gap is concerned.                                        *)

LEMMA CooldownIsGap ==
  ASSUME NEW trigger PROVE Cooldown(trigger) \in Nat /\ Cooldown(trigger) >= MinGap
BY DEF Cooldown

\* A stamped message is a gap ago: the time in the session is no earlier.
LEMMA StampIsHeeded ==
  ASSUME Inv, Spacing, pc \in {"listed", "choose"}, ~pass.judged,
         NEW unread, NEW c \in Candidates, Listed(c.session), Eligible(c, unread),
         c.trigger # "reminder", NEW p \in rows, p.key.session = c.session, Seen(p), p.stamped
  PROVE  p.seenAt + MinGap <= now
<1> DEFINE last == pass.listed[c.session].lastProactive
<1>1. c.session \in Sessions /\ session[c.session].state = "active"
  BY DEF Spacing, LiveRows, Candidates
<1>2. last = LastOf(c.session)
  BY <1>1 DEF Spacing, Snapshot
<1>3. last # Never /\ last <= now /\ p.seenAt <= last
  BY <1>1, <1>2 DEF Spacing, Clocked
<1>4. last \in Nat /\ now \in Nat /\ p.seenAt \in Nat /\ MinGap \in Nat
  <2>1. p \in Rows /\ session[c.session] \in SessionRow /\ now \in Time
    BY <1>1 DEF Inv, TypeOK
  <2>2. LastOf(c.session) \in Time \cup {Never} /\ p.seenAt \in Time \cup {Never}
    BY <2>1 DEF SessionRow, Rows, LastOf
  <2> QED BY <1>2, <2>1, <2>2 DEF Time, Never
<1>5. last = Never \/ now - last >= Cooldown(c.trigger)
  BY DEF Eligible
<1> HIDE DEF last
<1>6. Cooldown(c.trigger) \in Nat /\ Cooldown(c.trigger) >= MinGap
  BY CooldownIsGap
<1> QED BY ONLY <1>3, <1>4, <1>5, <1>6

\* A message that is recorded as sent is a gap ago: the last one of those of its
\* session is among the rows that are read, and fills the day.
LEMMA CapIsHeeded ==
  ASSUME Inv, Spacing, pc \in {"listed", "choose"}, ~pass.judged,
         NEW unread, NEW c \in Candidates, Eligible(c, unread), c.session \notin unread,
         c.trigger # "reminder", NEW p \in rows, p.key.session = c.session, Seen(p), p.status = "sent", Capped
  PROVE  p.seenAt + MinGap <= now
<1>1. PICK r \in rows : /\ r.status = "sent" /\ r.key.session = c.session
                        /\ \A q \in rows : q.status = "sent" /\ q.key.session = c.session
                                            => q.id <= r.id
  BY DEF Spacing, NewestSent
<1>2. /\ Seen(r) /\ r.sentAt = r.seenAt /\ p.id <= r.id
      /\ \A q \in rows : q \in Rows
  BY <1>1 DEF Spacing, Clocked, Inv, TypeOK
<1>3. p.seenAt <= r.seenAt /\ p.seenAt \in Nat /\ r.seenAt \in Nat /\ now \in Nat
  <2>1. p.seenAt \in Time /\ r.seenAt \in Time /\ p.id \in Nat /\ r.id \in Nat /\ now \in Time
    BY <1>2 DEF Rows, Seen, Inv, TypeOK
  <2>2. p.id = r.id => p = r
    BY DEF Spacing, Numbered
  <2>3. p.id < r.id => p.seenAt <= r.seenAt
    BY <1>2 DEF Spacing, Clocked
  <2> QED BY <1>2, <2>1, <2>2, <2>3 DEF Time
<1>4. r \in RecentRows(c.session)
  <2> DEFINE all == {q \in rows : q.key.session = c.session}
             later == {q \in all : q.id > r.id}
             g == [q \in rows |-> q.id]
  <2>1. job.id = 0
    BY DEF Spacing, Numbered
  <2>2. \A q \in later : Unsent(q)
    <3> SUFFICES ASSUME NEW q \in later PROVE Unsent(q)
      OBVIOUS
    <3>1. q \in rows /\ q.id \in Nat /\ r.id \in Nat /\ q.id > r.id /\ q.key.session = c.session
      BY <1>2 DEF Rows
    <3>2. q.status # "sent"
      BY <1>1, <3>1
    <3>3. q.id # job.id
      BY <2>1, <3>1 DEF Spacing, Numbered
    <3> QED BY <3>2, <3>3 DEF Unsent
  <2>3. {g[q] : q \in later} \subseteq UnsentIds
    BY <1>2, <2>2 DEF UnsentIds, Rows
  <2>4. Covered({g[q] : q \in later})
    <3> HIDE DEF g, later
    <3> QED BY <2>3 DEF Spacing, Covered
  <2>5. \A q, o \in later : g[q] = g[o] => q = o
    BY DEF Spacing, Numbered
  <2>6. TypeOK
    BY DEF Inv
  <2>7. Cardinality(later) <= faults /\ IsFiniteSet(later)
    <3> HIDE DEF g, later
    <3> QED BY ONLY <2>4, <2>5, <2>6, CoverBounds
  <2>8. Cardinality(later) < RecentLimit
    <3>1. Cardinality(later) \in Nat /\ faults \in Nat /\ faults <= MaxFaults
      BY <2>6, <2>7, FS_CardinalityType DEF TypeOK
    <3> HIDE DEF later
    <3> QED BY <2>7, <3>1 DEF Capped
  <2> QED BY <1>1, <2>8 DEF RecentRows
<1>5. ~(now <= r.sentAt + Day)
  <2> DEFINE counted == CountedRows(RecentRows(c.session), Day)
  <2>1. ~(MaxPerDay > 0 /\ Cardinality(counted) >= MaxPerDay)
    BY DEF Eligible, ReachedSendCap, RecentProactives
  <2>2. IsFiniteSet(counted)
    <3>1. counted \in SUBSET rows /\ IsFiniteSet(rows)
      BY DEF CountedRows, RecentRows, Spacing, LiveRows
    <3> HIDE DEF counted
    <3> QED BY <3>1, FS_Subset
  <2>3. counted = {}
    <3> HIDE DEF counted
    <3>1. Cardinality(counted) \in Nat
      BY <2>2, FS_CardinalityType
    <3>2. Cardinality(counted) = 0
      BY <2>1, <3>1 DEF Capped
    <3> QED BY <2>2, <3>2, FS_EmptySet
  <2> QED BY <1>1, <1>4, <2>3 DEF CountedRows
<1>6. MinGap <= Day /\ MinGap \in Nat /\ Day \in Nat
  BY DEF Capped
<1> QED BY ONLY <1>2, <1>3, <1>5, <1>6

LEMMA EligibleIsClear ==
  ASSUME Inv, Spacing, pc \in {"listed", "choose"}, ~pass.judged,
         NEW unread, NEW c \in Candidates, Listed(c.session), Eligible(c, unread)
  PROVE  Clear(c, unread)
<1> SUFFICES ASSUME c.trigger # "reminder", NEW p \in rows, p.key.session = c.session,
                    Seen(p), Counts(p, c.session \in unread)
             PROVE  p.seenAt + MinGap <= now
  BY DEF Clear
<1> QED BY StampIsHeeded, CapIsHeeded DEF Counts

-----------------------------------------------------------------------------
(* What the steps do to the rows, the sessions and the clock.                *)

\* Most steps touch neither the rows nor the sessions.
Still == UNCHANGED <<session, rows, serial>> /\ now' \in {now, now + 1}

\* The users open sessions, and reset them together with their rows.
ByUser ==
  /\ UNCHANGED <<now, serial, scheduler, faults>> /\ rows' \subseteq rows
  /\ \A p \in rows', q \in rows : q.key.session = p.key.session => q \in rows'
  /\ \A s \in Sessions :
       \/ session'[s].state = session[s].state /\ LastOf(s)' = LastOf(s)
       \/ session[s].state = "none" /\ session'[s].state = "active" /\ LastOf(s)' = Never
       \/ /\ session'[s].state = "gone" /\ LastOf(s)' = Never
          /\ \A r \in rows' : r.key.session # s

Inserts ==
  /\ pc = "insert" /\ Insertable(job.key) /\ serial' = serial + 1
  /\ rows' = rows \cup {QueuedRow(serial', job.key, job.key.session \in pass.unread)}
  /\ pc' = "send" /\ job' = [job EXCEPT !.id = serial']
  /\ UNCHANGED <<now, session, event, boot, pass, faults>>

\* The job's row is rewritten, the others are left alone.
Writes(f) ==
  /\ Rewrites(f) /\ UNCHANGED <<now, serial, pass>>
  /\ \A r \in rows : f[r] \in Rows /\ f[r].blind = r.blind
  /\ ~(pc = "stamp" /\ faults' = faults) => UNCHANGED session

LEMMA UserEffect == ASSUME Inv, UserAct PROVE ByUser
<1>1. PICK s \in Sessions :
        \/ Open(s)
        \/ \E mood \in Moods : \/ Speak(s, mood, {})
                               \/ \E e \in Events : Speak(s, mood, {e})
        \/ \E on \in BOOLEAN : Opt(s, on)
        \/ Reset(s)
  BY DEF UserAct
<1>2. session \in [Sessions -> SessionRow] /\ session[s] \in SessionRow
  BY DEF Inv, TypeOK
<1>3. CASE Open(s)
  BY <1>2, <1>3 DEF Open, ByUser, LastOf, NewSession, messages
<1>4. CASE \E mood \in Moods : \/ Speak(s, mood, {})
                               \/ \E e \in Events : Speak(s, mood, {e})
  <2>1. PICK mood \in Moods :
          /\ session' = [session EXCEPT ![s] = [@ EXCEPT !.lastUser = now, !.mood = mood]]
          /\ UNCHANGED <<now, messages, scheduler, faults>>
    BY <1>4 DEF Speak
  <2>2. \A t \in Sessions : session'[t].state = session[t].state /\ LastOf(t)' = LastOf(t)
    BY <1>2, <2>1 DEF LastOf, SessionRow
  <2> QED BY <2>1, <2>2 DEF ByUser, messages
<1>5. CASE \E on \in BOOLEAN : Opt(s, on)
  <2>1. PICK on \in BOOLEAN :
          /\ session' = [session EXCEPT ![s] = [@ EXCEPT !.optIn = on]]
          /\ UNCHANGED <<now, messages, scheduler, faults>>
    BY <1>5 DEF Opt
  <2>2. \A t \in Sessions : session'[t].state = session[t].state /\ LastOf(t)' = LastOf(t)
    BY <1>2, <2>1 DEF LastOf, SessionRow
  <2> QED BY <2>1, <2>2 DEF ByUser, messages
<1>6. CASE Reset(s)
  BY <1>2, <1>6 DEF Reset, ByUser, LastOf, NoSession, NewSession
<1> QED BY <1>1, <1>3, <1>4, <1>5, <1>6

\* Sending: what arrives is seen now, and all of it unless a fault is paid for it.
LEMMA SendEffect ==
  ASSUME Inv, Numbered, Send
  PROVE  \E f : /\ Writes(f) /\ pc = "send" /\ pc' = "record"
                /\ job'.id = job.id /\ job'.key = job.key /\ job' # NoJob
                /\ \A r \in rows : f[r].status = r.status /\ f[r].stamped = r.stamped
                                   /\ f[r].sentAt = r.sentAt /\ f[r].logged = r.logged
                /\ \A r \in rows : r.id = job.id => f[r].seenAt \in {now, Never}
                /\ job'.ok => job'.sentAt = now
                /\ job'.ok => \A r \in rows : r.id = job.id => f[r].seenAt = now
                /\ faults' = (IF job'.ok THEN faults ELSE faults + 1)
<1>1. PICK ok \in BOOLEAN, seen \in BOOLEAN :
        /\ ok => seen
        /\ job' = [job EXCEPT !.ok = ok, !.sentAt = IF ok THEN now ELSE Never]
        /\ rows' = Others \cup
             {[r EXCEPT !.seenAt = IF seen THEN now ELSE Never] : r \in Mine}
        /\ IF ok THEN NoFault ELSE Fault
  BY DEF Send
<1> DEFINE when == IF seen THEN now ELSE Never
           f == [r \in rows |-> IF r \in Mine THEN [r EXCEPT !.seenAt = when] ELSE r]
<1>2. when \in Time \cup {Never} /\ rows \subseteq Rows
  BY DEF Inv, TypeOK
<1>3. rows' = {f[r] : r \in rows}
  BY <1>1 DEF Others, Mine
<1>4. /\ pc = "send" /\ pc' = "record" /\ UNCHANGED <<now, session, serial, pass>>
      /\ job \in Jobs /\ job # NoJob
  BY DEF Send, Inv, TypeOK
<1>5. job'.id = job.id /\ job'.key = job.key /\ job'.ok = ok /\ (ok => job'.sentAt = now)
  BY <1>1, <1>4 DEF Jobs
<1>6. job' # NoJob
  BY <1>4, <1>5, RecordTypes DEF Inv, JobIsCandidate, NoJob
<1>7. ok => when = now
  BY <1>1
<1> HIDE DEF when
<1>8. \A r \in rows : /\ f[r] \in Rows /\ f[r].id = r.id /\ f[r].key = r.key
                      /\ r.id # job.id => f[r] = r
                      /\ f[r].status = r.status /\ f[r].stamped = r.stamped
                      /\ f[r].sentAt = r.sentAt /\ f[r].logged = r.logged
                      /\ f[r].blind = r.blind
                      /\ r.id = job.id => f[r].seenAt = when
  BY <1>2 DEF Rows, Mine
<1> HIDE DEF f
<1>9. when \in {now, Never}
  BY DEF when
<1>10. faults' = (IF job'.ok THEN faults ELSE faults + 1)
  BY <1>1, <1>5 DEF Fault, NoFault
<1>11. Writes(f)
  BY <1>2, <1>3, <1>4, <1>8 DEF Writes, Rewrites
<1> QED BY <1>4, <1>5, <1>6, <1>7, <1>8, <1>9, <1>10, <1>11

\* The updates of a row leave a row.
LEMMA RowUpdates ==
  ASSUME NEW r \in Rows, NEW status \in {"queued", "sent", "failed"},
         NEW t \in Time \cup {Never}
  PROVE  /\ [r EXCEPT !.status = status, !.sentAt = t] \in Rows
         /\ [r EXCEPT !.logged = TRUE] \in Rows
         /\ [r EXCEPT !.stamped = TRUE] \in Rows
BY DEF Rows

\* Recording: the status and its time, unless a fault is paid for it.
LEMMA RecordEffect ==
  ASSUME Inv, Numbered, Record
  PROVE  \E f : /\ Writes(f) /\ pc = "record" /\ session' = session
                /\ \A r \in rows : /\ f[r].seenAt = r.seenAt /\ f[r].stamped = r.stamped
                                   /\ f[r].logged = r.logged
                /\ \/ /\ faults' = faults + 1
                      /\ \A r \in rows : f[r] = r
                   \/ /\ faults' = faults
                      /\ \A r \in rows : r.id = job.id =>
                           /\ f[r].status = (IF job.ok THEN "sent" ELSE "failed")
                           /\ f[r].sentAt = job.sentAt
                /\ IF job.ok THEN pc' = "save" /\ job' = job ELSE GiveUp
<1>1. rows \subseteq Rows /\ job \in Jobs
  BY DEF Inv, TypeOK
<1>2. /\ pc = "record" /\ UNCHANGED <<now, session, serial, pass>>
      /\ IF job.ok THEN pc' = "save" /\ job' = job ELSE GiveUp
  BY DEF Record
<1>3. CASE NoFault /\ rows' = Others \cup
             {[r EXCEPT !.status = IF job.ok THEN "sent" ELSE "failed",
                        !.sentAt = job.sentAt] : r \in Mine}
  <2> DEFINE f == [r \in rows |->
                     IF r \in Mine
                       THEN [r EXCEPT !.status = IF job.ok THEN "sent" ELSE "failed",
                                      !.sentAt = job.sentAt]
                       ELSE r]
  <2>1. rows' = {f[r] : r \in rows}
    BY <1>3 DEF Others, Mine
  <2>2. \A r \in rows : f[r] \in Rows
    BY <1>1, RowUpdates DEF Jobs
  <2>3. \A r \in rows : /\ f[r].id = r.id /\ f[r].key = r.key
                        /\ r.id # job.id => f[r] = r
                        /\ f[r].seenAt = r.seenAt /\ f[r].stamped = r.stamped
                        /\ f[r].logged = r.logged /\ f[r].blind = r.blind
                        /\ r.id = job.id => /\ f[r].status = (IF job.ok THEN "sent" ELSE "failed")
                                            /\ f[r].sentAt = job.sentAt
    BY <1>1 DEF Rows, Mine, Jobs
  <2> HIDE DEF f
  <2>4. Writes(f) /\ faults' = faults
    BY <1>2, <1>3, <2>1, <2>2, <2>3 DEF Writes, Rewrites, NoFault
  <2> QED BY <1>2, <2>3, <2>4
<1>4. CASE Fault /\ UNCHANGED rows
  <2> DEFINE f == [r \in rows |-> r]
  <2>1. rows' = {f[r] : r \in rows} /\ \A r \in rows : f[r] = r
    BY <1>4
  <2> HIDE DEF f
  <2> QED BY <1>1, <1>2, <1>4, <2>1 DEF Writes, Rewrites, Fault
<1> QED BY <1>3, <1>4 DEF Record

LEMMA SaveEffect ==
  ASSUME Inv, Numbered, Save
  PROVE  \E f : /\ Writes(f) /\ pc = "save" /\ pc' = "stamp" /\ job' = job
                /\ session' = session
                /\ \A r \in rows : /\ f[r].seenAt = r.seenAt /\ f[r].stamped = r.stamped
                                   /\ f[r].status = r.status /\ f[r].sentAt = r.sentAt
                /\ \/ /\ faults' = faults + 1
                      /\ \A r \in rows : f[r] = r
                   \/ /\ faults' = faults
                      /\ \A r \in rows : r.id = job.id => f[r].logged
<1>1. rows \subseteq Rows
  BY DEF Inv, TypeOK
<1>2. /\ pc = "save" /\ pc' = "stamp" /\ UNCHANGED <<now, session, serial, pass, job>>
  BY DEF Save
<1>3. CASE NoFault /\ rows' = Others \cup {[r EXCEPT !.logged = TRUE] : r \in Mine}
  <2> DEFINE f == [r \in rows |-> IF r \in Mine THEN [r EXCEPT !.logged = TRUE] ELSE r]
  <2>1. rows' = {f[r] : r \in rows}
    BY <1>3 DEF Others, Mine
  <2>2. \A r \in rows : f[r] \in Rows
    BY <1>1, RowUpdates DEF Jobs
  <2>3. \A r \in rows : /\ f[r].id = r.id /\ f[r].key = r.key
                        /\ r.id # job.id => f[r] = r
                        /\ f[r].seenAt = r.seenAt /\ f[r].stamped = r.stamped
                        /\ f[r].status = r.status /\ f[r].sentAt = r.sentAt
                        /\ f[r].blind = r.blind
                        /\ r.id = job.id => f[r].logged
    BY <1>1 DEF Rows, Mine
  <2> HIDE DEF f
  <2>4. Writes(f) /\ faults' = faults
    BY <1>2, <1>3, <2>1, <2>2, <2>3 DEF Writes, Rewrites, NoFault
  <2> QED BY <1>2, <2>3, <2>4
<1>4. CASE Fault /\ UNCHANGED rows
  <2> DEFINE f == [r \in rows |-> r]
  <2>1. rows' = {f[r] : r \in rows} /\ \A r \in rows : f[r] = r
    BY <1>4
  <2> HIDE DEF f
  <2> QED BY <1>1, <1>2, <1>4, <2>1 DEF Writes, Rewrites, Fault
<1> QED BY <1>3, <1>4 DEF Save

\* Stamping: the time of the message goes into its session, if that is there.
LEMMA StampEffect ==
  ASSUME Inv, Numbered, Stamp
  PROVE  \E f : /\ Writes(f) /\ pc = "stamp" /\ GiveUp
                /\ \A r \in rows : /\ f[r].seenAt = r.seenAt
                                   /\ f[r].status = r.status /\ f[r].sentAt = r.sentAt
                                   /\ f[r].logged = r.logged
                /\ \/ /\ faults' = faults + 1 /\ session' = session
                      /\ \A r \in rows : f[r] = r
                   \/ /\ faults' = faults
                      /\ \A r \in rows : r.id = job.id => f[r].stamped
                      /\ OptedOut' = OptedOut
                      /\ \A s \in Sessions :
                           /\ session'[s].state = session[s].state
                           /\ LastOf(s)' = IF s = job.key.session /\ session[s].state = "active"
                                             THEN job.sentAt ELSE LastOf(s)
<1>1. rows \subseteq Rows /\ session \in [Sessions -> SessionRow]
  BY DEF Inv, TypeOK
<1>2. pc = "stamp" /\ GiveUp /\ UNCHANGED <<now, serial, pass>>
  BY DEF Stamp
<1>3. CASE /\ session' = [session EXCEPT ![job.key.session] =
                            IF @.state = "active"
                              THEN [@ EXCEPT !.lastProactive = job.sentAt] ELSE @]
           /\ rows' = Others \cup {[r EXCEPT !.stamped = TRUE] : r \in Mine}
           /\ NoFault
  <2> DEFINE f == [r \in rows |-> IF r \in Mine THEN [r EXCEPT !.stamped = TRUE] ELSE r]
  <2>1. rows' = {f[r] : r \in rows}
    BY SMTT(30), <1>3 DEF Others, Mine
  <2>2. \A r \in rows : f[r] \in Rows
    BY <1>1, RowUpdates DEF Jobs
  <2>3. \A r \in rows : /\ f[r].id = r.id /\ f[r].key = r.key
                        /\ r.id # job.id => f[r] = r
                        /\ f[r].seenAt = r.seenAt /\ f[r].logged = r.logged
                        /\ f[r].status = r.status /\ f[r].sentAt = r.sentAt
                        /\ f[r].blind = r.blind
                        /\ r.id = job.id => f[r].stamped
    BY <1>1 DEF Rows, Mine
  <2>4. \A s \in Sessions :
          /\ session'[s].state = session[s].state
          /\ LastOf(s)' = IF s = job.key.session /\ session[s].state = "active"
                            THEN job.sentAt ELSE LastOf(s)
    <3> SUFFICES ASSUME NEW s \in Sessions
                 PROVE  /\ session'[s].state = session[s].state
                        /\ LastOf(s)' = IF s = job.key.session /\ session[s].state = "active"
                                          THEN job.sentAt ELSE LastOf(s)
      OBVIOUS
    <3>1. session[s] \in SessionRow
      BY <1>1
    <3> QED BY <1>1, <1>3, <3>1 DEF LastOf, SessionRow
  <2>5. OptedOut' = OptedOut
    <3>1. \A s \in Sessions : session[s] \in SessionRow
      BY <1>1
    <3>2. \A s \in Sessions : session'[s].optIn = session[s].optIn
      BY <1>1, <1>3, <3>1 DEF SessionRow
    <3> QED BY <3>2 DEF OptedOut
  <2> HIDE DEF f
  <2>6. Writes(f) /\ faults' = faults
    BY <1>2, <1>3, <2>1, <2>2, <2>3 DEF Writes, Rewrites, NoFault
  <2> QED BY <1>2, <2>3, <2>4, <2>5, <2>6
<1>4. CASE UNCHANGED <<session, rows>> /\ Fault
  <2> DEFINE f == [r \in rows |-> r]
  <2>1. rows' = {f[r] : r \in rows} /\ \A r \in rows : f[r] = r
    BY <1>4
  <2> HIDE DEF f
  <2> QED BY <1>1, <1>2, <1>4, <2>1 DEF Writes, Rewrites, Fault
<1> QED BY <1>3, <1>4 DEF Stamp

\* What is left leaves the deliveries alone, or stops one for good.
LEMMA RestEffect ==
  ASSUME Inv, [Next]_vars, ~UserAct, ~Inserts, ~(Send \/ Record \/ Save \/ Stamp)
  PROVE  /\ Still
         /\ faults <= faults'
         /\ \/ UNCHANGED <<pc, job, pass>>
            \/ ~Delivering /\ ~Delivering'
            \/ faults' = faults + 1 /\ ~Delivering'
<1> faults \in Nat
  BY DEF Inv, TypeOK
<1>1. CASE Tick \/ UNCHANGED vars
  BY <1>1 DEF Tick, vars, messages, scheduler, Still
<1>2. CASE \E kind \in {"reminder", "standard"} : Begin(kind)
  BY <1>2 DEF Begin, messages, Still, Delivering
<1>3. CASE Scan
  BY <1>3, ScanFaults DEF Scan, messages, Still, Delivering, Inv
<1>8. CASE ScanFails
  <2>1. /\ pc = "listed" /\ pc' = "idle" /\ faults' = faults + 1
        /\ UNCHANGED <<now, session, event, messages, job>>
    BY <1>8 DEF ScanFails, Fault
  <2> QED BY <2>1 DEF messages, Still, Delivering
<1>9. CASE EndPass
  <2>1. /\ pc = "choose" /\ pc' = "idle"
        /\ UNCHANGED <<now, session, event, messages, job, faults>>
    BY <1>9 DEF EndPass
  <2> QED BY <2>1 DEF messages, Still, Delivering
<1>4. CASE \E c \in pass.winners : TakeUp(c)
  BY <1>4 DEF TakeUp, messages, Still, Delivering
<1>5. CASE MarkUsed \/ Compose
  BY <1>5 DEF MarkUsed, Compose, messages, Fault, NoFault, Still, Delivering
<1>6. CASE Insert
  <2>1. GiveUp /\ UNCHANGED messages /\ (NoFault \/ Fault)
    BY <1>6 DEF Insert, Inserts, messages, NoFault
  <2> QED BY <1>6, <2>1 DEF Insert, GiveUp, messages, Fault, NoFault, Still, Delivering
<1>7. CASE Crash
  BY <1>7 DEF Crash, messages, Fault, Still, Delivering
<1> QED BY SMTT(30), <1>1, <1>2, <1>3, <1>4, <1>5, <1>6, <1>7, <1>8, <1>9 DEF Next, Work

\* What the four steps that rewrite the job's row have in common.
LEMMA WriteEffect ==
  ASSUME Inv, Numbered, Send \/ Record \/ Save \/ Stamp
  PROVE  \E f : /\ Writes(f) /\ Delivering /\ \A s \in Sessions : StateKept(s)
                /\ \/ ~Delivering' /\ job' = NoJob
                   \/ Delivering' /\ job'.id = job.id /\ job'.key = job.key
<1>1. CASE Send
  <2>1. PICK f : /\ Writes(f) /\ pc = "send" /\ pc' = "record"
                 /\ job'.id = job.id /\ job'.key = job.key
    BY <1>1, SendEffect
  <2> QED BY <2>1 DEF Writes, Delivering, StateKept
<1>2. CASE Record
  <2>1. PICK f : /\ Writes(f) /\ pc = "record" /\ session' = session
                 /\ IF job.ok THEN pc' = "save" /\ job' = job ELSE GiveUp
    BY <1>2, RecordEffect
  <2> QED BY <2>1 DEF Delivering, StateKept, GiveUp
<1>3. CASE Save
  <2>1. PICK f : /\ Writes(f) /\ pc = "save" /\ pc' = "stamp" /\ job' = job
                 /\ session' = session
    BY <1>3, SaveEffect
  <2> QED BY <2>1 DEF Delivering, StateKept
<1>4. CASE Stamp
  <2>1. PICK f : /\ Writes(f) /\ pc = "stamp" /\ GiveUp
                 /\ \/ session' = session
                    \/ \A s \in Sessions : session'[s].state = session[s].state
    BY <1>4, StampEffect
  <2> QED BY <2>1 DEF Delivering, StateKept, GiveUp
<1> QED BY <1>1, <1>2, <1>3, <1>4

-----------------------------------------------------------------------------
(* The parts of the invariant, one at a time.                                *)

LEMMA LiveRowsStep ==
  ASSUME Inv, Numbered, LiveRows, [Next]_vars
  PROVE  LiveRows'
<1>1. \A r \in rows : r.key.session \in Sessions
  BY DEF Inv, TypeOK, Rows, Candidates
<1>2. CASE UserAct
  <2>1. ByUser
    BY <1>2, UserEffect
  <2>2. rows' \in SUBSET rows
    BY <2>1 DEF ByUser
  <2>3. IsFiniteSet(rows')
    BY <2>2, FS_Subset DEF LiveRows
  <2> QED BY <1>1, <2>1, <2>3 DEF ByUser, LiveRows, Delivering, scheduler
<1>3. CASE Inserts
  <2>1. /\ rows' = rows \cup {QueuedRow(serial', job.key, job.key.session \in pass.unread)}
        /\ session' = session
        /\ job'.id = serial' /\ session[job.key.session].state = "active"
    BY <1>3 DEF Inserts, Insertable, Jobs, Inv, TypeOK
  <2>2. IsFiniteSet(rows')
    BY <2>1, FS_AddElement DEF LiveRows
  <2> QED BY <2>1, <2>2 DEF LiveRows, QueuedRow
<1>4. CASE Send \/ Record \/ Save \/ Stamp
  <2>1. PICK f : /\ Writes(f) /\ Delivering /\ \A s \in Sessions : StateKept(s)
                 /\ \/ ~Delivering' /\ job' = NoJob
                    \/ Delivering' /\ job'.id = job.id /\ job'.key = job.key
    BY <1>4, WriteEffect
  <2>2. IsFiniteSet(rows')
    BY <2>1, FiniteImage DEF Writes, Rewrites, LiveRows
  <2> QED BY <1>1, <2>1, <2>2 DEF Writes, Rewrites, LiveRows, StateKept
<1>5. CASE ~UserAct /\ ~Inserts /\ ~(Send \/ Record \/ Save \/ Stamp)
  BY <1>5, RestEffect DEF Still, LiveRows, Delivering
<1> QED BY <1>2, <1>3, <1>4, <1>5

\* The times in the state are numbers or Never, which is none of the clock's.
LEMMA Times ==
  ASSUME TypeOK
  PROVE  /\ now \in Nat /\ MaxTime \in Nat /\ now <= MaxTime /\ Never = MaxTime + 1
         /\ \A s \in Sessions : LastOf(s) \in Nat
         /\ \A r \in rows : /\ r.id \in Nat /\ r.seenAt \in Nat /\ r.sentAt \in Nat
                            /\ Seen(r) <=> r.seenAt <= MaxTime
         /\ job.sentAt \in Nat /\ job.id \in Nat /\ MinGap \in Nat
<1>1. now \in Time /\ job \in Jobs /\ rows \subseteq Rows /\ session \in [Sessions -> SessionRow]
  BY DEF TypeOK
<1>2. \A t \in Time \cup {Never} : t \in Nat /\ (t # Never <=> t <= MaxTime)
  BY DEF Time, Never
<1>3. \A s \in Sessions : LastOf(s) \in Time \cup {Never}
  BY <1>1 DEF SessionRow, LastOf
<1>4. \A r \in rows : r.id \in Nat /\ {r.seenAt, r.sentAt} \subseteq Time \cup {Never}
  BY <1>1 DEF Rows
<1>5. job.sentAt \in Time \cup {Never} /\ job.id \in Nat
  BY <1>1 DEF Jobs
<1>6. now <= MaxTime /\ now \in Nat
  BY <1>1 DEF Time
<1> QED BY <1>2, <1>3, <1>4, <1>5, <1>6 DEF Seen, Never

LEMMA ClockedStep ==
  ASSUME Inv, Inv', Numbered, LiveRows, Underway, Clocked, [Next]_vars
  PROVE  Clocked'
<1>1. /\ \A r \in rows : r.key.session \in Sessions /\ r.id <= serial
      /\ TypeOK /\ TypeOK'
  BY DEF Inv, IdsAreUsed, TypeOK, Rows, Candidates
<1>2. CASE UserAct
  <2>1. ByUser
    BY <1>2, UserEffect
  <2>2. \A r \in rows' : /\ r \in rows
                         /\ LastOf(r.key.session)' = LastOf(r.key.session)
    BY <1>1, <2>1 DEF ByUser, LiveRows
  <2>3. now' = now /\ \A s \in Sessions : LastOf(s)' \in {LastOf(s), Never}
    BY <2>1 DEF ByUser
  <2> QED BY <2>2, <2>3 DEF Clocked, Seen, Never
<1>3. CASE Inserts
  <2> DEFINE q == QueuedRow(serial', job.key, job.key.session \in pass.unread)
  <2>1. /\ rows' = rows \cup {q} /\ session' = session /\ now' = now
    BY <1>3 DEF Inserts
  <2>2. ~Seen(q) /\ q.status # "sent" /\ ~q.stamped
    BY DEF QueuedRow, Seen
  <2> HIDE DEF q
  <2> QED BY <2>1, <2>2 DEF Clocked, LastOf, Seen, Never
<1>4. CASE Send
  <2>1. PICK f : /\ Writes(f) /\ pc = "send"
                 /\ \A r \in rows : f[r].status = r.status /\ f[r].stamped = r.stamped
                                    /\ f[r].sentAt = r.sentAt
                 /\ \A r \in rows : r.id = job.id => f[r].seenAt \in {now, Never}
    BY <1>4, SendEffect
  <2>2. /\ rows' = {f[r] : r \in rows} /\ session' = session /\ now' = now
        /\ \A r \in rows : /\ f[r].id = r.id /\ f[r].key = r.key
                           /\ r.id # job.id => f[r] = r
    BY <2>1 DEF Writes, Rewrites
  <2>3. /\ job.id = serial
        /\ \A r \in rows : r.id = job.id => ~r.stamped /\ r.status = "queued"
    BY <2>1 DEF LiveRows, Underway, Delivering, Mine
  <2>4. /\ \A s \in Sessions : LastOf(s)' # Never => LastOf(s)' <= now'
        /\ \A r \in rows' :
             /\ Seen(r)' => r.seenAt <= now'
             /\ r.status = "sent" => Seen(r)' /\ r.sentAt = r.seenAt
             /\ r.stamped => /\ Seen(r)' /\ LastOf(r.key.session)' # Never
                             /\ r.seenAt <= LastOf(r.key.session)'
    <3>1. now \in Nat /\ now <= now
      BY <1>1, Times
    <3> QED BY <2>1, <2>2, <2>3, <3>1 DEF Clocked, LastOf, Seen, Never
  <2>5. ASSUME NEW p \in rows, NEW q \in rows, f[p].id < f[q].id, Seen(f[p]), Seen(f[q])
        PROVE  f[p].seenAt <= f[q].seenAt
    <3>1. p.id < q.id /\ p.id # job.id
      BY <1>1, <2>2, <2>3, <2>5, Times
    <3>2. CASE q.id = job.id
      BY <2>1, <2>2, <2>5, <3>1, <3>2 DEF Clocked, Seen
    <3>3. CASE q.id # job.id
      BY <2>2, <2>5, <3>1, <3>3 DEF Clocked
    <3> QED BY <3>2, <3>3
  <2> QED BY <2>2, <2>4, <2>5 DEF Clocked, Seen, Never
<1>5. CASE Record
  <2>1. PICK f : /\ Writes(f) /\ pc = "record" /\ session' = session
                 /\ \A r \in rows : f[r].seenAt = r.seenAt /\ f[r].stamped = r.stamped
                 /\ \/ \A r \in rows : f[r] = r
                    \/ \A r \in rows : r.id = job.id =>
                            /\ f[r].status = (IF job.ok THEN "sent" ELSE "failed")
                            /\ f[r].sentAt = job.sentAt
    BY <1>5, RecordEffect
  <2>2. /\ rows' = {f[r] : r \in rows} /\ now' = now
        /\ \A r \in rows : /\ f[r].id = r.id /\ f[r].key = r.key
                           /\ r.id # job.id => f[r] = r
    BY <2>1 DEF Writes, Rewrites
  <2>3. job.ok => \A r \in rows : r.id = job.id => Seen(r) /\ r.seenAt = job.sentAt
    BY <2>1 DEF Underway, Mine
  <2>4. ASSUME NEW r \in rows, f[r].status = "sent"
        PROVE  Seen(f[r]) /\ f[r].sentAt = f[r].seenAt
    BY <2>1, <2>2, <2>3, <2>4 DEF Clocked, Seen
  <2> QED BY <2>1, <2>2, <2>4 DEF Clocked, LastOf, Seen, Never
<1>6. CASE Save
  <2>1. PICK f : /\ Writes(f) /\ session' = session
                 /\ \A r \in rows : /\ f[r].seenAt = r.seenAt /\ f[r].stamped = r.stamped
                                    /\ f[r].status = r.status /\ f[r].sentAt = r.sentAt
    BY <1>6, SaveEffect
  <2> QED BY <2>1 DEF Writes, Rewrites, Clocked, LastOf, Seen, Never
<1>7. CASE Stamp
  <2>1. PICK f : /\ Writes(f) /\ pc = "stamp"
                 /\ \A r \in rows : /\ f[r].seenAt = r.seenAt
                                    /\ f[r].status = r.status /\ f[r].sentAt = r.sentAt
                 /\ \/ session' = session /\ \A r \in rows : f[r] = r
                    \/ \A s \in Sessions :
                            LastOf(s)' = IF s = job.key.session /\ session[s].state = "active"
                                           THEN job.sentAt ELSE LastOf(s)
    BY <1>7, StampEffect
  <2>2. /\ rows' = {f[r] : r \in rows} /\ now' = now
        /\ \A r \in rows : /\ f[r].id = r.id /\ f[r].key = r.key
                           /\ r.id # job.id => f[r] = r
    BY <2>1 DEF Writes, Rewrites
  <2>3. /\ job.sentAt <= now
        /\ LastOf(job.key.session) # Never => LastOf(job.key.session) <= job.sentAt
        /\ \A r \in rows : r.id = job.id =>
             /\ Seen(r) /\ r.seenAt = job.sentAt /\ r.key = job.key
             /\ session[r.key.session].state = "active"
    BY <2>1 DEF Underway, Mine, Inv, JobOwnsItsRow, LiveRows
  <2>4. \A s \in Sessions : LastOf(s)' # Never => LastOf(s)' <= now'
    BY <2>1, <2>2, <2>3 DEF Clocked, LastOf, Never
  <2>5. ASSUME NEW r \in rows, f[r].stamped
        PROVE  /\ Seen(f[r]) /\ LastOf(r.key.session)' # Never
               /\ f[r].seenAt <= LastOf(r.key.session)'
    <3>1. CASE session' = session /\ \A t \in rows : f[t] = t
      BY <2>5, <3>1 DEF Clocked, LastOf, Never
    <3>2. CASE \A s \in Sessions :
                 LastOf(s)' = IF s = job.key.session /\ session[s].state = "active"
                                THEN job.sentAt ELSE LastOf(s)
      <4>1. r.key.session \in Sessions /\ session[r.key.session].state = "active"
        BY <1>1 DEF LiveRows
      <4>2. job.sentAt # Never
        BY <1>1, <2>3, Times
      <4>3. CASE r.id = job.id
        BY <1>1, <2>1, <2>3, <3>2, <4>1, <4>2, <4>3, Times DEF Seen
      <4>4. CASE r.id # job.id
        <5>1. Seen(r) /\ LastOf(r.key.session) # Never /\ r.seenAt <= LastOf(r.key.session)
          BY <2>2, <2>5, <4>4 DEF Clocked
        <5>2. CASE r.key.session = job.key.session
          BY <1>1, <2>1, <2>3, <3>2, <4>1, <4>2, <5>1, <5>2, Times DEF Seen
        <5>3. CASE r.key.session # job.key.session
          BY <2>1, <3>2, <4>1, <5>1, <5>3 DEF Seen
        <5> QED BY <5>2, <5>3
      <4> QED BY <4>3, <4>4
    <3> QED BY <2>1, <3>1, <3>2
  <2> QED BY <2>1, <2>2, <2>4, <2>5 DEF Clocked, Seen, Never
<1>8. CASE ~UserAct /\ ~Inserts /\ ~(Send \/ Record \/ Save \/ Stamp)
  <2>1. UNCHANGED <<session, rows>> /\ now' \in {now, now + 1}
    BY <1>8, RestEffect DEF Still
  <2>2. now \in Nat /\ (\A s \in Sessions : LastOf(s) \in Nat) /\ \A r \in rows : r.seenAt \in Nat
    BY <1>1, Times
  <2> QED BY <2>1, <2>2 DEF Clocked, LastOf, Seen, Never
<1> QED BY <1>2, <1>3, <1>4, <1>5, <1>6, <1>7, <1>8

LEMMA UnderwayStep ==
  ASSUME Inv, Numbered, LiveRows, Clocked, Underway, [Next]_vars
  PROVE  Underway'
<1>1. /\ \A r \in rows : r.id <= serial /\ r.id \in Nat
      /\ TypeOK /\ serial \in Nat /\ job \in Jobs
      /\ Delivering => job.key \in Candidates /\ job.key.session \in Sessions
  <2>1. Delivering => job # NoJob
    BY DEF Inv, TypeOK, Delivering
  <2> QED BY <2>1 DEF Inv, IdsAreUsed, TypeOK, Rows, JobIsCandidate, Candidates
<1>2. CASE UserAct
  <2>1. ByUser
    BY <1>2, UserEffect
  <2>2. /\ pc' = pc /\ job' = job /\ now' = now
        /\ \A s \in Sessions : LastOf(s)' \in {LastOf(s), Never}
        /\ Mine' \subseteq Mine
    BY <2>1 DEF ByUser, scheduler, Mine
  <2>3. Delivering => LastOf(job.key.session)' \in {LastOf(job.key.session), Never}
    BY <1>1, <2>2
  <2> QED BY <2>2, <2>3 DEF Underway, Seen, Never, LastOf, Delivering
<1>3. CASE Inserts
  <2> DEFINE q == QueuedRow(serial', job.key, job.key.session \in pass.unread)
  <2>1. /\ rows' = rows \cup {q} /\ pc' = "send" /\ job'.id = serial + 1
    BY <1>1, <1>3 DEF Inserts, Jobs
  <2>2. ~q.stamped /\ q.status = "queued"
    BY DEF QueuedRow
  <2> HIDE DEF q
  <2>3. Mine' \subseteq {q}
    BY <1>1, <2>1 DEF Mine
  <2> QED BY <2>1, <2>2, <2>3 DEF Underway
<1>4. CASE Send
  <2>1. PICK f : /\ Writes(f) /\ pc = "send" /\ pc' = "record"
                 /\ job'.id = job.id /\ job'.key = job.key
                 /\ \A r \in rows : f[r].status = r.status /\ f[r].stamped = r.stamped
                 /\ job'.ok => job'.sentAt = now
                 /\ job'.ok => \A r \in rows : r.id = job.id => f[r].seenAt = now
    BY <1>4, SendEffect
  <2>2. /\ rows' = {f[r] : r \in rows} /\ session' = session /\ now' = now
        /\ \A r \in rows : f[r].id = r.id
    BY <2>1 DEF Writes, Rewrites
  <2>3. \A r \in Mine' : ~r.stamped /\ r.status = "queued"
    BY <2>1, <2>2 DEF Underway, Mine
  <2>4. LastOf(job.key.session)' # Never => LastOf(job.key.session)' <= now
    BY <1>1, <2>1, <2>2 DEF Clocked, LastOf, Delivering
  <2>5. now \in Nat /\ now # Never /\ now <= now
    BY <1>1, Times
  <2>6. job'.ok => \A r \in Mine' : r.seenAt = now
    BY <2>1, <2>2 DEF Mine
  <2> QED BY <2>1, <2>2, <2>3, <2>4, <2>5, <2>6 DEF Underway, LastOf, Seen, Never
<1>5. CASE Record
  <2>1. PICK f : /\ Writes(f) /\ pc = "record" /\ session' = session
                 /\ \A r \in rows : f[r].seenAt = r.seenAt
                 /\ IF job.ok THEN pc' = "save" /\ job' = job ELSE GiveUp
    BY <1>5, RecordEffect
  <2>2. /\ rows' = {f[r] : r \in rows} /\ now' = now
        /\ \A r \in rows : f[r].id = r.id
    BY <2>1 DEF Writes, Rewrites
  <2>3. CASE job.ok
    BY <2>1, <2>2, <2>3 DEF Underway, LastOf, Seen, Never, Mine
  <2>4. CASE ~job.ok
    BY <2>1, <2>4 DEF GiveUp, Underway
  <2> QED BY <2>3, <2>4
<1>6. CASE Save
  <2>1. PICK f : /\ Writes(f) /\ pc = "save" /\ pc' = "stamp" /\ job' = job
                 /\ session' = session
                 /\ \A r \in rows : f[r].seenAt = r.seenAt
    BY <1>6, SaveEffect
  <2>2. /\ rows' = {f[r] : r \in rows} /\ now' = now
        /\ \A r \in rows : f[r].id = r.id
    BY <2>1 DEF Writes, Rewrites
  <2> QED BY <2>1, <2>2 DEF Underway, LastOf, Seen, Never, Mine
<1>7. CASE Stamp
  BY <1>7 DEF Stamp, GiveUp, Underway
<1>8. CASE ~UserAct /\ ~Inserts /\ ~(Send \/ Record \/ Save \/ Stamp)
  <2>1. /\ UNCHANGED <<session, rows>> /\ now' \in {now, now + 1}
        /\ (pc' = pc /\ job' = job) \/ ~Delivering'
    BY <1>8, RestEffect DEF Still
  <2>2. now \in Nat /\ job.sentAt \in Nat
    BY <1>1, Times
  <2> QED BY <2>1, <2>2 DEF Underway, LastOf, Seen, Never, Mine, Delivering
<1> QED BY <1>2, <1>3, <1>4, <1>5, <1>6, <1>7, <1>8

NewestUnder(f) ==
  \A p \in rows : f[p].status = "sent" =>
    \E r \in rows : /\ f[r].status = "sent" /\ r.key.session = p.key.session
                   /\ \A q \in rows : f[q].status = "sent" /\ q.key.session = p.key.session
                                       => q.id <= r.id

LEMMA NewestRewritten ==
  ASSUME NEW f, Rewrites(f), NewestUnder(f)
  PROVE  NewestSent'
<1>1. SUFFICES ASSUME NEW o \in rows', o.status = "sent"
               PROVE  \E t \in rows' : /\ t.status = "sent" /\ t.key.session = o.key.session
                                      /\ \A q \in rows' : q.status = "sent"
                                            /\ q.key.session = o.key.session => q.id <= t.id
  BY DEF NewestSent
<1>2. PICK p \in rows : o = f[p]
  BY DEF Rewrites
<1>3. PICK r \in rows : /\ f[r].status = "sent" /\ r.key.session = p.key.session
                       /\ \A q \in rows : f[q].status = "sent"
                             /\ q.key.session = p.key.session => q.id <= r.id
  BY <1>1, <1>2 DEF NewestUnder
<1>4. f[r] \in rows' /\ f[r].key = r.key /\ f[r].id = r.id /\ f[p].key = p.key
  BY DEF Rewrites
<1>5. ASSUME NEW u \in rows', u.status = "sent", u.key.session = o.key.session
      PROVE  u.id <= f[r].id
  <2>1. PICK q \in rows : u = f[q]
    BY DEF Rewrites
  <2>2. f[q].key = q.key /\ f[q].id = q.id
    BY DEF Rewrites
  <2> QED BY <1>2, <1>3, <1>4, <1>5, <2>1, <2>2
<1> QED BY <1>2, <1>3, <1>4, <1>5

\* Only Record adds a sent row, and the job's id is the last one given.
LEMMA NewestSentStep ==
  ASSUME Inv, Numbered, LiveRows, Underway, NewestSent, [Next]_vars
  PROVE  NewestSent'
<1>1. \A r \in rows : r.id <= serial /\ r.id \in Nat
  BY DEF Inv, IdsAreUsed, TypeOK, Rows
<1>2. CASE UserAct
  <2>1. /\ rows' \subseteq rows
        /\ \A p \in rows', q \in rows : q.key.session = p.key.session => q \in rows'
    BY <1>2, UserEffect DEF ByUser
  <2> QED BY <2>1 DEF NewestSent
<1>3. CASE Inserts
  <2>1. rows' = rows \cup {QueuedRow(serial', job.key, job.key.session \in pass.unread)}
    BY <1>3 DEF Inserts
  <2> QED BY <2>1 DEF NewestSent, QueuedRow
<1>4. CASE Send \/ Save \/ Stamp
  <2>1. PICK f : Writes(f) /\ \A r \in rows : f[r].status = r.status
    <3>1. CASE Send
      BY <3>1, SendEffect
    <3>2. CASE Save
      BY <3>2, SaveEffect
    <3>3. CASE Stamp
      BY <3>3, StampEffect
    <3> QED BY <1>4, <3>1, <3>2, <3>3
  <2>2. /\ rows' = {f[r] : r \in rows}
        /\ \A r \in rows : f[r].id = r.id /\ f[r].key = r.key /\ f[r].status = r.status
    BY <2>1 DEF Writes, Rewrites
  <2> SUFFICES ASSUME NEW p \in rows, f[p].status = "sent"
               PROVE  \E r \in rows : /\ f[r].status = "sent" /\ r.key.session = p.key.session
                                      /\ \A q \in rows : f[q].status = "sent"
                                            /\ q.key.session = p.key.session => q.id <= r.id
    <3>1. Rewrites(f)
      BY <2>1 DEF Writes
    <3>2. SUFFICES NewestUnder(f)
      BY <3>1, NewestRewritten
    <3> QED BY DEF NewestUnder
  <2>3. PICK r \in rows : /\ r.status = "sent" /\ r.key.session = p.key.session
                          /\ \A q \in rows : q.status = "sent" /\ q.key.session = p.key.session
                                              => q.id <= r.id
    BY <2>2 DEF NewestSent
  <2> QED BY <2>2, <2>3
<1>5. CASE Record
  <2>1. PICK f : /\ Writes(f) /\ pc = "record"
                 /\ \/ /\ faults' = faults + 1
                       /\ \A r \in rows : f[r] = r
                    \/ /\ faults' = faults
                       /\ \A r \in rows : r.id = job.id =>
                            /\ f[r].status = (IF job.ok THEN "sent" ELSE "failed")
                            /\ f[r].sentAt = job.sentAt
    BY <1>5, RecordEffect
  <2>2. /\ rows' = {f[r] : r \in rows}
        /\ \A r \in rows : /\ f[r].id = r.id /\ f[r].key = r.key
                           /\ r.id # job.id => f[r] = r
        /\ \/ \A r \in rows : f[r] = r
           \/ \A r \in rows : r.id = job.id =>
                f[r].status = (IF job.ok THEN "sent" ELSE "failed")
    BY <2>1 DEF Writes, Rewrites
  <2>3. \A r \in rows : r.id = job.id => r.status = "queued" /\ r.id = serial
    BY <2>1 DEF Underway, Mine, LiveRows, Delivering
  <2> SUFFICES ASSUME NEW p \in rows, f[p].status = "sent"
               PROVE  \E r \in rows : /\ f[r].status = "sent" /\ r.key.session = p.key.session
                                      /\ \A q \in rows : f[q].status = "sent"
                                            /\ q.key.session = p.key.session => q.id <= r.id
    <3>1. Rewrites(f)
      BY <2>1 DEF Writes
    <3>2. SUFFICES NewestUnder(f)
      BY <3>1, NewestRewritten
    <3> QED BY DEF NewestUnder
  <2>4. CASE \E r \in rows : /\ f[r].status = "sent" /\ r.key.session = p.key.session
                             /\ r.id = job.id
    BY <1>1, <2>2, <2>3, <2>4
  <2>5. CASE \A r \in rows : f[r].status = "sent" /\ r.key.session = p.key.session
                                => r.id # job.id
    <3>1. p.status = "sent"
      BY <2>2, <2>5
    <3>2. PICK r \in rows : /\ r.status = "sent" /\ r.key.session = p.key.session
                            /\ \A q \in rows : q.status = "sent" /\ q.key.session = p.key.session
                                                => q.id <= r.id
      BY <3>1 DEF NewestSent
    <3>3. f[r].status = "sent" /\ r.key.session = p.key.session
      BY <2>2, <2>3, <3>2
    <3>4. \A q \in rows : f[q].status = "sent" /\ q.key.session = p.key.session => q.id <= r.id
      BY <2>2, <2>5, <3>2
    <3> QED BY <3>3, <3>4
  <2> QED BY <2>4, <2>5
<1>6. CASE ~UserAct /\ ~Inserts /\ ~(Send \/ Record \/ Save \/ Stamp)
  BY <1>6, RestEffect DEF Still, NewestSent
<1> QED BY <1>2, <1>3, <1>4, <1>5, <1>6

\* Once a candidate is taken up, its steps keep the pass, and the job until it ends.
LEMMA JobEffect ==
  ASSUME Inv, MarkUsed \/ Compose \/ Insert \/ Send \/ Record \/ Save \/ Stamp
  PROVE  /\ pass' = pass /\ now' = now /\ job # NoJob
         /\ \/ job' = NoJob /\ pc' = "choose"
            \/ job'.key = job.key /\ pc' \notin {"idle", "listed", "choose"}
<1>1. job \in Jobs
  BY DEF Inv, TypeOK
<1>2. CASE MarkUsed
  BY <1>2 DEF MarkUsed, Inv, TypeOK
<1>3. CASE Compose
  BY <1>3 DEF Compose, Inv, TypeOK
<1>4. CASE Insert
  <2>1. /\ pass' = pass /\ now' = now /\ pc = "insert"
        /\ GiveUp \/ (pc' = "send" /\ job' = [job EXCEPT !.id = serial'])
    BY <1>4 DEF Insert
  <2> QED BY <1>1, <2>1 DEF GiveUp, Jobs, Inv, TypeOK
<1>5. CASE Send
  <2>1. /\ pass' = pass /\ now' = now /\ pc = "send" /\ pc' = "record"
        /\ \E ok \in BOOLEAN : job' = [job EXCEPT !.ok = ok, !.sentAt = IF ok THEN now ELSE Never]
    BY <1>5 DEF Send
  <2> QED BY <1>1, <2>1 DEF Jobs, Inv, TypeOK
<1>6. CASE Record
  BY <1>6 DEF Record, GiveUp, Inv, TypeOK
<1>7. CASE Save
  BY <1>7 DEF Save, Inv, TypeOK
<1>8. CASE Stamp
  BY <1>8 DEF Stamp, GiveUp, Inv, TypeOK
<1> QED BY <1>2, <1>3, <1>4, <1>5, <1>6, <1>7, <1>8

\* A choice takes one candidate of a session; unjudged, it is the only one.
LEMMA ScanEffect ==
  ASSUME Inv, Scan, ~pass.judged
  PROVE  /\ pc = "listed" /\ pc' = "choose" /\ job = NoJob /\ job' = NoJob
         /\ UNCHANGED <<now, session, rows>>
         /\ \A c \in pass'.winners : c \in Candidates /\ Listed(c.session)
         /\ \/ /\ pass'.judged /\ pass'.listed = NoPass.listed
               /\ \A c \in pass'.winners : Eligible(c, pass'.unread)
               /\ \A b, c \in pass'.winners : b.session = c.session => b = c
            \/ /\ ~pass'.judged /\ pass'.listed = pass.listed
               /\ \A b, c \in pass'.winners : b = c
<1>1. /\ pc = "listed" /\ pc' = "choose" /\ job' = job /\ UNCHANGED <<now, session, rows>>
  BY DEF Scan, messages
<1>2. PICK unread \in SUBSET {c.session : c \in Scanned},
           winners \in SUBSET Scanned, judged \in BOOLEAN :
        /\ SelectSessionWinners(Scanned, unread, winners, judged)
        /\ pass' = IF judged THEN Chosen(winners, unread)
                    ELSE [pass EXCEPT !.winners = winners, !.unread = unread]
  BY DEF Scan
<1>3. Scanned \subseteq {c \in Candidates : Listed(c.session)} /\ IsFiniteSet(Scanned)
  BY ScannedIsListed, FiniteScan DEF Inv
<1>4. pass \in Passes /\ job = NoJob
  BY <1>1 DEF Inv, TypeOK
<1>5. pass'.winners = winners
  BY <1>2, <1>4 DEF Chosen, NoPass, Passes
<1>6. \A c \in pass'.winners : c \in Candidates /\ Listed(c.session)
  BY <1>3, <1>5
<1>7. CASE Cardinality(Scanned) <= 1
  <2>1. winners = Scanned /\ ~judged
    BY <1>2, <1>7 DEF SelectSessionWinners
  <2>2. \A b, c \in winners : b = c
    BY <1>3, <1>7, <2>1, AtMostOne
  <2>3. ~pass'.judged /\ pass'.listed = pass.listed
    BY <1>2, <1>4, <2>1 DEF Passes
  <2> QED BY <1>1, <1>4, <1>5, <1>6, <2>2, <2>3
<1>8. CASE ~(Cardinality(Scanned) <= 1)
  <2>1. /\ judged
        /\ \E high \in SUBSET {c \in Scanned : Eligible(c, unread)} : Best(high, winners)
    BY <1>2, <1>8 DEF SelectSessionWinners
  <2>2. /\ \A c \in winners : Eligible(c, unread)
        /\ \A b, c \in winners : b.session = c.session => b = c
    BY <2>1 DEF Best
  <2>3. pass'.judged /\ pass'.listed = NoPass.listed /\ pass'.unread = unread
    BY <1>2, <2>1 DEF Chosen, NoPass
  <2> QED BY <1>1, <1>4, <1>5, <1>6, <2>2, <2>3
<1> QED BY <1>7, <1>8

\* Taking a candidate up judges it, if the choice did not.
LEMMA TakeUpEffect ==
  ASSUME Inv, NEW c \in pass.winners, TakeUp(c)
  PROVE  /\ pc = "choose" /\ job = NoJob /\ c \in Candidates
         /\ UNCHANGED <<now, session, rows>>
         /\ pass'.winners = pass.winners \ {c} /\ pass'.judged
         /\ pass'.listed = NoPass.listed /\ pass'.unread = pass.unread
         /\ \/ /\ pass.judged \/ Eligible(c, pass.unread)
               /\ job'.key = c /\ pc' \in {"mark", "compose"}
            \/ pc' = pc /\ job' = job
<1>1. /\ pc = "choose" /\ pass' = Chosen(pass.winners \ {c}, pass.unread)
      /\ UNCHANGED <<now, session, rows>>
  BY DEF TakeUp, messages
<1>2. job = NoJob /\ c \in Candidates
  BY <1>1 DEF Inv, TypeOK, Passes
<1>3. \/ /\ pass.judged \/ Eligible(c, pass.unread)
         /\ job'.key = c /\ pc' \in {"mark", "compose"}
      \/ pc' = pc /\ job' = job
  BY DEF TakeUp, NoJob
<1>4. /\ pass'.winners = pass.winners \ {c} /\ pass'.judged
      /\ pass'.listed = NoPass.listed /\ pass'.unread = pass.unread
  BY <1>1 DEF Chosen, NoPass
<1> QED BY <1>1, <1>2, <1>3, <1>4

LEMMA OneEachStep ==
  ASSUME Inv, OneEach, [Next]_vars
  PROVE  OneEach'
<1>1. CASE Tick \/ UserAct \/ UNCHANGED vars
  <2>1. UNCHANGED scheduler
    BY <1>1, UserEffect DEF Tick, vars, ByUser
  <2> QED BY <2>1 DEF scheduler, OneEach
<1>2. CASE \E kind \in {"reminder", "standard"} : Begin(kind)
  <2>1. pass'.winners = {} /\ ~pass'.judged /\ job' = job /\ job = NoJob
    BY <1>2 DEF Begin, Inv, TypeOK
  <2> QED BY <2>1 DEF OneEach
<1>3. CASE Scan
  <2>1. ~pass.judged
    BY <1>3 DEF Scan, OneEach
  <2> QED BY <1>3, <2>1, ScanEffect DEF OneEach
<1>4. CASE ScanFails \/ EndPass \/ Crash
  <2>1. pass' = NoPass /\ job' = NoJob
    BY <1>4 DEF ScanFails, EndPass, Crash, Inv, TypeOK
  <2> QED BY <2>1 DEF OneEach, NoPass
<1>5. ASSUME NEW c \in pass.winners, TakeUp(c)
      PROVE  OneEach'
  BY <1>5, TakeUpEffect DEF OneEach
<1>6. CASE MarkUsed \/ Compose \/ Insert \/ Send \/ Record \/ Save \/ Stamp
  BY <1>6, JobEffect DEF OneEach
<1> QED BY <1>1, <1>2, <1>3, <1>4, <1>5, <1>6 DEF Next, Work

LEMMA SnapshotStep ==
  ASSUME Inv, Numbered, OneEach, Snapshot, [Next]_vars
  PROVE  Snapshot'
<1>1. CASE UserAct
  <2>1. /\ pc' = pc /\ pass' = pass
        /\ \A s \in Sessions :
             \/ session'[s].state = session[s].state /\ LastOf(s)' = LastOf(s)
             \/ session[s].state = "none" /\ session'[s].state = "active"
             \/ session'[s].state = "gone"
    BY <1>1, UserEffect DEF ByUser, scheduler
  <2> QED BY <2>1 DEF Snapshot, Listed
<1>2. CASE Tick \/ UNCHANGED vars
  BY <1>2 DEF Tick, vars, scheduler, Snapshot, Listed, LastOf
<1>3. CASE \E kind \in {"reminder", "standard"} : Begin(kind)
  <2>1. /\ pass'.listed = ListSessionsForProactive /\ pass'.winners = {} /\ session' = session
    BY <1>3 DEF Begin
  <2>2. \A s \in Sessions : Listed(s)' => /\ session[s].state = "active"
                                          /\ pass'.listed[s] = session[s]
    BY <2>1 DEF Listed, ListSessionsForProactive
  <2> QED BY <2>1, <2>2 DEF Snapshot, LastOf
<1>4. ASSUME pass'.listed = NoPass.listed, pass'.winners = {} \/ pass'.judged,
             UNCHANGED session
      PROVE  Snapshot'
  <2>1. \A s \in Sessions : ~Listed(s)'
    BY <1>4 DEF Listed, NoPass
  <2> QED BY <1>4, <2>1 DEF Snapshot
<1>5. CASE Scan
  <2>1. ~pass.judged
    BY <1>5 DEF Scan, OneEach
  <2>2. CASE pass'.judged
    BY <1>4, <1>5, <2>1, <2>2, ScanEffect
  <2>3. CASE ~pass'.judged
    BY <1>5, <2>1, <2>3, ScanEffect DEF Snapshot, Listed, LastOf
  <2> QED BY <2>2, <2>3
<1>6. CASE ScanFails \/ EndPass \/ Crash
  <2>1. pass' = NoPass /\ session' = session
    BY <1>6 DEF ScanFails, EndPass, Crash
  <2> QED BY <1>4, <2>1 DEF NoPass
<1>7. ASSUME NEW c \in pass.winners, TakeUp(c)
      PROVE  Snapshot'
  BY <1>4, <1>7, TakeUpEffect
<1>8. CASE MarkUsed \/ Compose \/ Insert \/ Send \/ Record \/ Save \/ Stamp
  <2>1. pass' = pass /\ pass.judged
    BY <1>8, JobEffect DEF OneEach
  <2>2. \A s \in Sessions : StateKept(s)
    <3>1. CASE MarkUsed \/ Compose \/ Insert
      BY <3>1 DEF MarkUsed, Compose, Insert, StateKept
    <3>2. CASE Send \/ Record \/ Save \/ Stamp
      BY <3>2, WriteEffect
    <3> QED BY <1>8, <3>1, <3>2
  <2> QED BY <2>1, <2>2 DEF Snapshot, Listed, StateKept
<1> QED BY <1>1, <1>2, <1>3, <1>5, <1>6, <1>7, <1>8 DEF Next, Work

\* What a candidate had to wait for grows only by the job's own row.
LEMMA WaitedFor ==
  ASSUME Inv, Numbered, [Next]_vars, NEW q \in rows', Seen(q)
  PROVE  \E p \in rows : /\ p.id = q.id /\ p.key = q.key
                         /\ Send \/ Record \/ Save \/ Stamp => p.id = job.id \/ p = q
                         /\ ~(Send \/ Record \/ Save \/ Stamp) => p = q
<1>1. CASE UserAct
  BY <1>1, UserEffect DEF ByUser, UserAct, Open, Speak, Opt, Reset, scheduler,
                          Send, Record, Save, Stamp
<1>2. CASE Inserts
  <2>1. ~Seen(QueuedRow(serial', job.key, job.key.session \in pass.unread))
    BY DEF QueuedRow, Seen
  <2> QED BY <1>2, <2>1 DEF Inserts, Send, Record, Save, Stamp
<1>3. CASE Send \/ Record \/ Save \/ Stamp
  <2>1. PICK f : Writes(f)
    BY <1>3, WriteEffect
  <2>2. PICK p \in rows : q = f[p]
    BY <2>1 DEF Writes, Rewrites
  <2> QED BY <1>3, <2>1, <2>2 DEF Writes, Rewrites
<1>4. CASE ~UserAct /\ ~Inserts /\ ~(Send \/ Record \/ Save \/ Stamp)
  BY <1>4, RestEffect DEF Still
<1> QED BY SMTT(30), <1>1, <1>2, <1>3, <1>4

LEMMA ClockGrows == ASSUME [Next]_vars, TypeOK PROVE now' \in Nat /\ now' >= now
<1>1. now \in Nat
  BY SMTT(30), Times
<1>2. now' \in {now, now + 1}
  BY DEF Next, Tick, UserAct, Open, Speak, Opt, Reset, Begin, Work, Scan, ScanFails, EndPass,
         TakeUp, MarkUsed, Compose, Insert, Send, Record, Save, Stamp, Crash, vars
<1> QED BY <1>1, <1>2

LEMMA ClearStays ==
  ASSUME Inv, Numbered, [Next]_vars, NEW c, NEW unread, Clear(c, unread),
         Send \/ Record \/ Save \/ Stamp => c.session # job.key.session
  PROVE  \A q \in rows' : /\ q.key.session = c.session /\ Seen(q)
                           /\ Counts(q, c.session \in unread) /\ c.trigger # "reminder"
                          => q.seenAt + MinGap <= now'
<1> SUFFICES ASSUME NEW q \in rows', q.key.session = c.session, Seen(q),
                    Counts(q, c.session \in unread), c.trigger # "reminder"
             PROVE  q.seenAt + MinGap <= now'
  OBVIOUS
<1>1. PICK p \in rows : /\ p.id = q.id /\ p.key = q.key
                        /\ Send \/ Record \/ Save \/ Stamp => p.id = job.id \/ p = q
                        /\ ~(Send \/ Record \/ Save \/ Stamp) => p = q
  BY SMTT(30), WaitedFor
<1>2. Send \/ Record \/ Save \/ Stamp => Delivering
  BY DEF Send, Record, Save, Stamp, Delivering
<1>3. p = q
  BY <1>1, <1>2 DEF Inv, JobOwnsItsRow, Delivering
<1>4. q.seenAt + MinGap <= now
  BY <1>3 DEF Clear
<1>5. now' \in Nat /\ now' >= now /\ now \in Nat /\ MinGap \in Nat /\ q.seenAt \in Nat
  BY <1>3, ClockGrows, Times DEF Inv
<1> QED BY ONLY <1>4, <1>5

\* A candidate that is clear stays so while nothing changes that it depends on.
StillClear(c, unread) ==
  c.trigger # "reminder" =>
    \A q \in rows' : q.key.session = c.session /\ Seen(q) /\ Counts(q, c.session \in unread)
                      => q.seenAt + MinGap <= now'

LEMMA ClearedLater ==
  ASSUME pass'.judged => \A c \in pass'.winners : StillClear(c, pass'.unread),
         pc' \in {"mark", "compose", "insert", "send"} => StillClear(job'.key, pass'.unread)
  PROVE  Cleared'
BY DEF Cleared, Clear, StillClear, Seen, Never, Counts, Capped

LEMMA ClearedStep ==
  ASSUME Inv, Spacing, [Next]_vars
  PROVE  Cleared'
<1>1. Numbered /\ OneEach /\ Snapshot /\ Cleared
  BY DEF Spacing
<1>2. ASSUME NEW c, NEW unread, Clear(c, unread), UNCHANGED <<now, rows>>
      PROVE  StillClear(c, unread)
  BY <1>2 DEF Clear, StillClear
<1>9. ASSUME NEW c, NEW unread, Clear(c, unread),
             Send \/ Record \/ Save \/ Stamp => c.session # job.key.session
      PROVE  StillClear(c, unread)
  BY <1>1, <1>9, ClearStays DEF StillClear
<1>3. CASE Tick \/ UserAct \/ UNCHANGED vars
  <2>1. UNCHANGED scheduler
    BY <1>3, UserEffect DEF Tick, vars, ByUser
  <2>2. ~(Send \/ Record \/ Save \/ Stamp)
    BY <2>1 DEF scheduler, Send, Record, Save, Stamp, GiveUp
  <2>3. \A c : Clear(c, pass.unread) => StillClear(c, pass.unread)
    BY <1>9, <2>2
  <2>4. pc' = pc /\ pass' = pass /\ job' = job
    BY <2>1 DEF scheduler
  <2> QED BY <1>1, <2>3, <2>4, ClearedLater DEF Cleared
<1>4. CASE \E kind \in {"reminder", "standard"} : Begin(kind)
  BY <1>4 DEF Begin, Cleared
<1>5. CASE Scan
  <2>1. ~pass.judged
    BY <1>1, <1>5 DEF Scan, OneEach
  <2>2. CASE pass'.judged
    <3>1. ASSUME NEW c \in pass'.winners
          PROVE  StillClear(c, pass'.unread)
      <4>1. /\ pc = "listed" /\ UNCHANGED <<now, rows>> /\ c \in Candidates
            /\ Listed(c.session) /\ Eligible(c, pass'.unread)
        BY <1>5, <2>1, <2>2, ScanEffect
      <4> DEFINE unread == pass'.unread
      <4>2. Eligible(c, unread)
        BY <4>1
      <4> HIDE DEF unread
      <4>3. Clear(c, unread)
        BY <2>1, <4>1, <4>2, EligibleIsClear
      <4>4. StillClear(c, unread)
        BY <1>2, <4>1, <4>3
      <4> QED BY <4>4 DEF unread
    <3>2. pc' = "choose"
      BY <1>5, <2>1, ScanEffect
    <3> QED BY <3>1, <3>2, ClearedLater
  <2>3. CASE ~pass'.judged
    BY <1>5, <2>1, <2>3, ScanEffect DEF Cleared
  <2> QED BY <2>2, <2>3
<1>6. CASE ScanFails \/ EndPass \/ Crash
  <2>1. pass' = NoPass /\ pc' = "idle"
    BY <1>6 DEF ScanFails, EndPass, Crash
  <2>2. ~pass'.judged
    BY <2>1 DEF NoPass
  <2> QED BY <2>1, <2>2 DEF Cleared
<1>7. ASSUME NEW c \in pass.winners, TakeUp(c)
      PROVE  Cleared'
  <2>1. /\ pc = "choose" /\ c \in Candidates /\ UNCHANGED <<now, rows>>
        /\ pass'.winners = pass.winners \ {c} /\ pass'.judged
        /\ pass'.unread = pass.unread
        /\ \/ /\ pass.judged \/ Eligible(c, pass.unread)
              /\ job'.key = c
           \/ pc' = pc /\ job' = job
    BY <1>7, TakeUpEffect
  <2>2. \A d \in pass'.winners : Clear(d, pass.unread)
    BY <1>1, <1>7, <2>1 DEF OneEach, Cleared
  <2>3. pass.judged \/ Eligible(c, pass.unread) => Clear(c, pass.unread)
    <3>1. CASE pass.judged
      BY <1>1, <1>7, <3>1 DEF Cleared
    <3>2. CASE ~pass.judged /\ Eligible(c, pass.unread)
      <4>1. Listed(c.session)
        BY <1>1, <1>7, <2>1, <3>2 DEF Snapshot
      <4> QED BY <2>1, <3>2, <4>1, EligibleIsClear
    <3> QED BY <3>1, <3>2
  <2>4. \A d : Clear(d, pass.unread) => StillClear(d, pass.unread)
    BY <1>2, <2>1
  <2>5. pc' \in {"mark", "compose", "insert", "send"} => job'.key = c /\ Clear(c, pass.unread)
    BY <2>1, <2>3
  <2> QED BY <2>1, <2>2, <2>4, <2>5, ClearedLater
<1>8. CASE MarkUsed \/ Compose \/ Insert \/ Send \/ Record \/ Save \/ Stamp
  <2>1. /\ pass' = pass /\ job # NoJob
        /\ \/ job' = NoJob /\ pc' = "choose"
           \/ job'.key = job.key
    BY <1>8, JobEffect
  <2>2. pass.judged /\ \A c \in pass.winners : c.session # job.key.session
    BY <1>1, <2>1 DEF OneEach
  <2>3. \A c \in pass'.winners : StillClear(c, pass'.unread)
    BY <1>1, <1>9, <2>1, <2>2 DEF Cleared
  <2>4. CASE Send \/ Record \/ Save \/ Stamp
    <3>1. pc' \notin {"mark", "compose", "insert", "send"}
      BY <2>4 DEF Send, Record, Save, Stamp, GiveUp
    <3> QED BY <2>3, <3>1, ClearedLater
  <2>5. CASE MarkUsed \/ Compose \/ Insert
    <3>1. /\ pc \in {"mark", "compose", "insert"}
          /\ ~(Send \/ Record \/ Save \/ Stamp)
      BY <2>5 DEF MarkUsed, Compose, Insert, Send, Record, Save, Stamp
    <3>2. Clear(job.key, pass.unread)
      BY <1>1, <3>1 DEF Cleared
    <3>3. StillClear(job.key, pass.unread)
      BY <1>9, <3>1, <3>2
    <3>4. pc' = "choose" \/ job'.key = job.key
      BY <2>1
    <3> QED BY <2>1, <2>3, <3>3, <3>4, ClearedLater
  <2> QED BY <1>8, <2>4, <2>5
<1> QED BY <1>3, <1>4, <1>5, <1>6, <1>7, <1>8 DEF Next, Work

\* The pass does not change while a delivery is under way, nor does its row's note of it.
LEMMA AwareStep ==
  ASSUME Inv, Numbered, Aware, [Next]_vars
  PROVE  Aware'
<1>1. \A r \in rows : r.id <= serial /\ r.id \in Nat
  BY DEF Inv, IdsAreUsed, TypeOK, Rows
<1>2. CASE UserAct
  <2>1. UNCHANGED scheduler /\ rows' \subseteq rows
    BY <1>2, UserEffect DEF ByUser
  <2> QED BY <2>1 DEF scheduler, Aware, Delivering, Mine
<1>3. CASE Inserts
  <2> DEFINE blind == job.key.session \in pass.unread
             q == QueuedRow(serial', job.key, blind)
  <2>1. /\ rows' = rows \cup {q} /\ pass' = pass
        /\ job'.id = serial + 1 /\ job'.key = job.key /\ serial \in Nat
    BY <1>3 DEF Inserts, Jobs, Inv, TypeOK
  <2>2. q.blind <=> blind
    BY DEF QueuedRow
  <2> HIDE DEF q
  <2>3. Mine' \subseteq {q}
    BY <1>1, <2>1 DEF Mine
  <2> QED BY <2>1, <2>2, <2>3 DEF Aware
<1>4. CASE Send \/ Record \/ Save \/ Stamp
  <2>1. PICK f : /\ Writes(f) /\ Delivering
                 /\ \/ ~Delivering'
                    \/ Delivering' /\ job'.id = job.id /\ job'.key = job.key
    BY <1>4, WriteEffect
  <2>2. /\ rows' = {f[r] : r \in rows} /\ pass' = pass
        /\ \A r \in rows : f[r].id = r.id /\ f[r].blind = r.blind
    BY <2>1 DEF Writes, Rewrites
  <2> QED BY <2>1, <2>2 DEF Aware, Mine
<1>5. CASE ~UserAct /\ ~Inserts /\ ~(Send \/ Record \/ Save \/ Stamp)
  <2>1. rows' = rows /\ (UNCHANGED <<pc, job, pass>> \/ ~Delivering')
    BY <1>5, RestEffect DEF Still
  <2> QED BY <2>1 DEF Aware, Delivering, Mine
<1> QED BY <1>2, <1>3, <1>4, <1>5

\* A row ends up unsent by a fault only: one that stops the job, or spoils it.
LEMMA UnsentStep ==
  ASSUME Inv, Numbered, Numbered', [Next]_vars
  PROVE  \/ faults <= faults' /\ UnsentIds' \subseteq UnsentIds
         \/ faults' = faults + 1 /\ UnsentIds' \subseteq UnsentIds \cup {job.id}
<1> SUFFICES \/ faults' = faults /\ UnsentIds' \subseteq UnsentIds
             \/ faults <= faults' /\ UnsentIds' \subseteq UnsentIds
             \/ faults' = faults + 1 /\ UnsentIds' \subseteq UnsentIds \cup {job.id}
  BY DEF Inv, TypeOK
<1>1. \A r \in rows : r.id <= serial /\ r.id \in Nat /\ r.id # 0
  BY DEF Inv, IdsAreUsed, TypeOK, Rows, Numbered
<1>2. CASE UserAct
  <2>1. UNCHANGED scheduler /\ faults' = faults /\ rows' \subseteq rows
    BY <1>2, UserEffect DEF ByUser
  <2> QED BY <2>1 DEF scheduler, UnsentIds, Unsent
<1>3. CASE Inserts
  <2> DEFINE q == QueuedRow(serial', job.key, job.key.session \in pass.unread)
  <2>1. /\ rows' = rows \cup {q} /\ pc' = "send" /\ job'.id = serial + 1 /\ faults' = faults
        /\ pc = "insert" /\ serial' = serial + 1
    BY <1>3 DEF Inserts, Jobs, Inv, TypeOK
  <2>2. job.id = 0 /\ serial \in Nat
    BY <2>1 DEF Numbered, Inv, TypeOK
  <2>3. q.id = serial + 1
    BY <2>1 DEF QueuedRow
  <2> HIDE DEF q
  <2>4. ASSUME NEW r \in rows', Unsent(r)' PROVE r \in rows /\ Unsent(r)
    BY <1>1, <2>1, <2>2, <2>3, <2>4 DEF Unsent
  <2> QED BY <2>1, <2>4 DEF UnsentIds
<1>4. CASE Send
  <2>1. PICK f : /\ Writes(f) /\ pc' = "record" /\ job'.id = job.id
                 /\ \A r \in rows : f[r].status = r.status
                 /\ faults' = (IF job'.ok THEN faults ELSE faults + 1)
    BY <1>4, SendEffect
  <2>2. /\ rows' = {f[r] : r \in rows}
        /\ \A r \in rows : f[r].id = r.id /\ f[r].status = r.status
    BY <2>1 DEF Writes, Rewrites
  <2>3. job' \in Jobs
    BY SendStep, <1>4 DEF Inv, TypeOK
  <2>4. ASSUME NEW r \in rows, Unsent(f[r])'
        PROVE  Unsent(r) \/ (faults' = faults + 1 /\ r.id = job.id)
    BY <2>1, <2>2, <2>3, <2>4 DEF Unsent, Jobs
  <2> QED BY <2>1, <2>2, <2>4 DEF UnsentIds
<1>5. CASE Record
  <2>1. PICK f : /\ Writes(f) /\ pc = "record"
                 /\ \/ /\ faults' = faults + 1
                       /\ \A r \in rows : f[r] = r
                    \/ /\ faults' = faults
                       /\ \A r \in rows : r.id = job.id =>
                            /\ f[r].status = (IF job.ok THEN "sent" ELSE "failed")
                            /\ f[r].sentAt = job.sentAt
                 /\ IF job.ok THEN pc' = "save" /\ job' = job ELSE GiveUp
    BY <1>5, RecordEffect
  <2>2. /\ rows' = {f[r] : r \in rows}
        /\ \A r \in rows : f[r].id = r.id /\ (r.id # job.id => f[r] = r)
    BY <2>1 DEF Writes, Rewrites
  <2>3. ~job.ok => job'.id = 0
    BY <2>1 DEF GiveUp, NoJob
  <2>4. ASSUME NEW r \in rows, Unsent(f[r])'
        PROVE  Unsent(r) \/ (faults' = faults + 1 /\ r.id = job.id)
    <3>1. CASE job.ok
      BY <2>1, <2>2, <2>4, <3>1 DEF Unsent
    <3>2. CASE ~job.ok
      BY <1>1, <2>1, <2>2, <2>3, <2>4, <3>2 DEF Unsent
    <3> QED BY <3>1, <3>2
  <2> QED BY <2>1, <2>2, <2>4 DEF UnsentIds
<1>6. CASE Save
  <2>1. PICK f : /\ Writes(f) /\ pc = "save" /\ pc' = "stamp" /\ job' = job
                 /\ \A r \in rows : f[r].status = r.status
                 /\ faults' = faults \/ faults' = faults + 1
    BY <1>6, SaveEffect
  <2>2. /\ rows' = {f[r] : r \in rows}
        /\ \A r \in rows : f[r].id = r.id /\ f[r].status = r.status
    BY <2>1 DEF Writes, Rewrites
  <2>3. ASSUME NEW r \in rows, Unsent(f[r])' PROVE Unsent(r)
    BY <2>1, <2>2, <2>3 DEF Unsent
  <2> QED BY <2>1, <2>2, <2>3 DEF UnsentIds
<1>7. CASE Stamp
  <2>1. PICK f : /\ Writes(f) /\ pc = "stamp" /\ GiveUp
                 /\ \A r \in rows : f[r].status = r.status
                 /\ faults' = faults \/ faults' = faults + 1
    BY <1>7, StampEffect
  <2>2. /\ rows' = {f[r] : r \in rows}
        /\ \A r \in rows : f[r].id = r.id /\ f[r].status = r.status
    BY <2>1 DEF Writes, Rewrites
  <2>3. job'.id = 0
    BY <2>1 DEF GiveUp, NoJob
  <2>4. ASSUME NEW r \in rows, Unsent(f[r])' PROVE Unsent(r)
    BY <1>1, <2>1, <2>2, <2>3, <2>4 DEF Unsent
  <2> QED BY <2>1, <2>2, <2>4 DEF UnsentIds
<1>8. CASE ~UserAct /\ ~Inserts /\ ~(Send \/ Record \/ Save \/ Stamp)
  <2>1. /\ rows' = rows
        /\ faults <= faults'
        /\ \/ pc' = pc /\ job' = job
           \/ ~Delivering /\ ~Delivering'
           \/ faults' = faults + 1 /\ ~Delivering'
    BY <1>8, RestEffect DEF Still
  <2>2. /\ ~Delivering => job.id = 0
        /\ ~Delivering' => job'.id = 0
    BY DEF Numbered, Delivering
  <2>3. ASSUME NEW r \in rows, Unsent(r)'
        PROVE  Unsent(r) \/ (faults' = faults + 1 /\ r.id = job.id)
    BY <1>1, <2>1, <2>2, <2>3 DEF Unsent
  <2> QED BY <2>1, <2>3 DEF UnsentIds
<1> QED BY <1>2, <1>3, <1>4, <1>5, <1>6, <1>7, <1>8

\* A message that is sent is clear of those that count, and later than any other.
LEMMA SpacedStep ==
  ASSUME Inv, Numbered, LiveRows, Underway, Cleared, Aware, Spaced, [Next]_vars
  PROVE  Spaced'
<1>1. \A r \in rows : r.id <= serial /\ r.id \in Nat
  BY DEF Inv, IdsAreUsed, TypeOK, Rows
<1>2. CASE UserAct
  <2>1. rows' \subseteq rows
    BY <1>2, UserEffect DEF ByUser
  <2> QED BY <2>1 DEF Spaced, Seen, Never, Counts
<1>3. CASE Inserts
  <2> DEFINE q == QueuedRow(serial', job.key, job.key.session \in pass.unread)
  <2>1. rows' = rows \cup {q}
    BY <1>3 DEF Inserts
  <2>2. ~Seen(q)
    BY DEF QueuedRow, Seen
  <2> HIDE DEF q
  <2> QED BY <2>1, <2>2 DEF Spaced, Seen, Never, Counts
<1>4. CASE Send
  <2>1. PICK f : /\ Writes(f) /\ pc = "send"
                 /\ \A r \in rows : f[r].status = r.status /\ f[r].stamped = r.stamped
                 /\ \A r \in rows : r.id = job.id => f[r].seenAt \in {now, Never}
    BY <1>4, SendEffect
  <2>2. /\ rows' = {f[r] : r \in rows}
        /\ \A r \in rows : /\ f[r].id = r.id /\ f[r].key = r.key /\ f[r].blind = r.blind
                           /\ r.id # job.id => f[r] = r
    BY <2>1 DEF Writes, Rewrites
  <2>3. /\ job.id = serial /\ Clear(job.key, pass.unread)
        /\ \A r \in rows : r.id = job.id =>
             r.key = job.key /\ (r.blind <=> job.key.session \in pass.unread)
    BY <2>1 DEF LiveRows, Delivering, Cleared, Aware, Mine, Inv, JobOwnsItsRow
  <2>4. ASSUME NEW p \in rows, NEW q \in rows, f[p].id < f[q].id,
               f[p].key.session = f[q].key.session, Seen(f[p]), Seen(f[q]),
               f[q].key.trigger # "reminder", Counts(f[p], f[q].blind)
        PROVE  f[p].seenAt + MinGap <= f[q].seenAt
    <3>1. p.id < q.id /\ p.id # job.id /\ f[p] = p
      BY <1>1, <2>2, <2>3, <2>4
    <3>2. CASE q.id = job.id
      <4>1. Counts(p, job.key.session \in pass.unread)
        BY <2>2, <2>3, <2>4, <3>1, <3>2 DEF Counts
      <4> QED BY <2>1, <2>2, <2>3, <2>4, <3>1, <3>2, <4>1 DEF Clear, Seen
    <3>3. CASE q.id # job.id
      BY <2>2, <2>4, <3>1, <3>3 DEF Spaced
    <3> QED BY <3>2, <3>3
  <2> QED BY <2>2, <2>4 DEF Spaced, Seen, Never, Counts
<1>5. CASE Record \/ Save \/ Stamp
  <2>1. PICK f : /\ Writes(f) /\ Delivering
                 /\ \A r \in rows : f[r].seenAt = r.seenAt
    <3>1. CASE Record
      BY <3>1, RecordEffect DEF Delivering
    <3>2. CASE Save
      BY <3>2, SaveEffect DEF Delivering
    <3>3. CASE Stamp
      BY <3>3, StampEffect DEF Delivering
    <3> QED BY <1>5, <3>1, <3>2, <3>3
  <2>2. /\ rows' = {f[r] : r \in rows} /\ job.id = serial
        /\ \A r \in rows : /\ f[r].id = r.id /\ f[r].key = r.key /\ f[r].seenAt = r.seenAt
                           /\ f[r].blind = r.blind
                           /\ r.id # job.id => f[r] = r
    BY <2>1 DEF Writes, Rewrites, LiveRows
  <2>3. ASSUME NEW p \in rows, NEW q \in rows, f[p].id < f[q].id,
               f[p].key.session = f[q].key.session, Seen(f[p]), Seen(f[q]),
               f[q].key.trigger # "reminder", Counts(f[p], f[q].blind)
        PROVE  f[p].seenAt + MinGap <= f[q].seenAt
    <3>1. p.id < q.id /\ p.id # job.id /\ f[p] = p
      BY <1>1, <2>2, <2>3
    <3> QED BY <2>2, <2>3, <3>1 DEF Spaced, Seen
  <2> QED BY <2>2, <2>3 DEF Spaced, Seen, Never, Counts
<1>6. CASE ~UserAct /\ ~Inserts /\ ~(Send \/ Record \/ Save \/ Stamp)
  <2>1. rows' = rows
    BY <1>6, RestEffect DEF Still
  <2> QED BY <2>1 DEF Spaced, Seen, Never, Counts
<1> QED BY <1>2, <1>3, <1>4, <1>5, <1>6

LEMMA SpacingInvariance == Spec => []Spacing
<1>1. Init => Spacing
  <2> SUFFICES ASSUME Init PROVE Spacing
    OBVIOUS
  <2>1. /\ now = 0 /\ rows = {} /\ serial = 0 /\ pc = "idle" /\ job.id = 0 /\ job = NoJob
        /\ session = [s \in Sessions |-> NoSession] /\ pass = NoPass /\ faults = 0
    BY DEF Init, NoJob
  <2>2. pass.winners = {} /\ ~pass.judged /\ pass.listed = [s \in Sessions |-> NoSession]
    BY <2>1 DEF NoPass
  <2>3. IsFiniteSet({}) /\ Cardinality({}) = 0
    BY FS_EmptySet
  <2>4. \A s \in Sessions : LastOf(s) = Never
    BY <2>1 DEF LastOf, NoSession, NewSession
  <2>5. Numbered /\ LiveRows /\ Clocked /\ Underway
    BY <2>1, <2>3, <2>4 DEF Numbered, LiveRows, Delivering, Clocked, Underway
  <2>6. Snapshot /\ OneEach /\ Cleared /\ Aware /\ NewestSent /\ Spaced
    BY <2>1, <2>2 DEF Snapshot, Listed, OneEach, Cleared, Aware, Delivering, NewestSent, Spaced
  <2>7. Covered(UnsentIds)
    <3>1. UnsentIds = {}
      BY <2>1 DEF UnsentIds
    <3> QED BY <2>1, <2>3, <3>1 DEF Covered
  <2> QED BY <2>5, <2>6, <2>7 DEF Spacing
<1>2. Inv /\ Inv' /\ Spacing /\ [Next]_vars => Spacing'
  <2> SUFFICES ASSUME Inv, Inv', Spacing, [Next]_vars PROVE Spacing'
    OBVIOUS
  <2>1. Numbered /\ LiveRows /\ Clocked /\ Underway /\ Snapshot /\ OneEach /\ Cleared
        /\ Aware /\ NewestSent /\ Covered(UnsentIds) /\ Spaced
    BY DEF Spacing
  <2>2. Numbered'
    BY <2>1, NumberedStep
  <2>3. LiveRows' /\ Clocked' /\ Underway'
    BY <2>1, LiveRowsStep, ClockedStep, UnderwayStep
  <2>4. Snapshot' /\ OneEach' /\ Cleared' /\ Aware'
    BY <2>1, SnapshotStep, OneEachStep, ClearedStep, AwareStep
  <2>5. NewestSent' /\ Spaced'
    BY <2>1, NewestSentStep, SpacedStep
  <2>6. \E F : IsFiniteSet(F) /\ Cardinality(F) <= faults' /\ UnsentIds' \subseteq F
    <3> DEFINE S == UnsentIds
               T == UnsentIds'
               x == job.id
    <3>1. \/ faults <= faults' /\ T \subseteq S
          \/ faults' = faults + 1 /\ T \subseteq S \cup {x}
      BY <2>1, <2>2, UnsentStep
    <3>2. \E F : IsFiniteSet(F) /\ Cardinality(F) <= faults /\ S \subseteq F
      BY <2>1 DEF Covered
    <3>3. TypeOK /\ TypeOK'
      BY DEF Inv
    <3> HIDE DEF S, T, x
    <3>4. \E F : IsFiniteSet(F) /\ Cardinality(F) <= faults' /\ T \subseteq F
      BY ONLY <3>1, <3>2, <3>3, CoverGrows
    <3> QED BY <3>4 DEF T
  <2> QED BY <2>2, <2>3, <2>4, <2>5, <2>6 DEF Spacing, Covered
<1> QED BY <1>1, <1>2, Invariance, PTL DEF Spec

\* Whatever the caps are and whatever fails: what the user saw and the session was
\* stamped with keeps the next message that nobody asked for a gap away.
THEOREM StampKeepsGap ==
  Spec => [](\A p, q \in rows :
               /\ p.id < q.id /\ p.key.session = q.key.session
               /\ Seen(p) /\ Seen(q) /\ q.key.trigger # "reminder" /\ p.stamped
               => p.seenAt + MinGap <= q.seenAt)
<1>1. Spacing => \A p, q \in rows :
                   /\ p.id < q.id /\ p.key.session = q.key.session
                   /\ Seen(p) /\ Seen(q) /\ q.key.trigger # "reminder" /\ p.stamped
                   => p.seenAt + MinGap <= q.seenAt
  BY DEF Spacing, Spaced, Counts
<1> QED BY <1>1, SpacingInvariance, PTL

\* NoBurst, for the cap and the gap of the defaults, which are one message a day
\* and 20 hours (defaults.go), and fewer faults than ListRecentProactiveMessages
\* returns rows: a message keeps its gap if its time was saved in the session, or
\* if its status was and the pass of the next one could read the rows.
THEOREM NoBurstUnderCap ==
  ASSUME MaxPerDay = 1, MinGap <= Day, MaxFaults < RecentLimit
  PROVE  Spec => []NoBurst
<1>1. Inv /\ Spacing => NoBurst
  <2> SUFFICES ASSUME Inv, Spacing,
                      NEW p \in rows, NEW q \in rows,
                      p.id < q.id, p.key.session = q.key.session, Seen(p), Seen(q),
                      q.key.trigger # "reminder", q.seenAt < p.seenAt + MinGap,
                      p.stamped \/ (p.status = "sent" /\ ~q.blind)
               PROVE  FALSE
    BY DEF NoBurst
  <2>1. p.seenAt + MinGap <= q.seenAt
    BY DEF Spacing, Spaced, Counts, Capped
  <2>2. p.seenAt \in Nat /\ q.seenAt \in Nat /\ MinGap \in Nat
    BY Times DEF Inv
  <2> QED BY <2>1, <2>2
<1> QED BY <1>1, Invariance, SpacingInvariance, PTL

-----------------------------------------------------------------------------
(* What the users may count on: ProactiveDelivery implements Outbox.         *)

\* A session that was never opened has not been opted out.
Unheard == \A s \in Sessions : session[s].state = "none" => session[s].optIn

LEMMA UnheardInvariance == Spec => []Unheard
<1>1. Init => Unheard
  BY DEF Init, Unheard, NoSession, NewSession
<1>2. ASSUME TypeOK, Unheard, [Next]_vars PROVE Unheard'
  <2>1. CASE UserAct
    <3> DEFINE Changed(s) ==
          /\ \A t \in Sessions \ {s} : session'[t] = session[t]
          /\ session'[s].state = "none" => session'[s].optIn
    <3>1. SUFFICES ASSUME NEW s \in Sessions,
                          \/ Open(s) \/ Reset(s)
                          \/ \E mood \in Moods, mentioned \in SUBSET Events :
                                 Speak(s, mood, mentioned)
                          \/ \E on \in BOOLEAN : Opt(s, on)
                   PROVE  Changed(s)
      BY <1>2, <2>1 DEF UserAct, Unheard
    <3>2. session \in [Sessions -> SessionRow] /\ session[s] \in SessionRow
      BY <1>2 DEF TypeOK
    <3>3. CASE Open(s)
      BY <3>2, <3>3 DEF Open, NewSession
    <3>4. CASE Reset(s)
      BY <3>2, <3>4 DEF Reset, NewSession, NoSession
    <3>5. CASE \E mood \in Moods, mentioned \in SUBSET Events : Speak(s, mood, mentioned)
      <4>1. PICK mood \in Moods, mentioned \in SUBSET Events : Speak(s, mood, mentioned)
        BY <3>5
      <4>2. session[s].state = "active"
              /\ session' = [session EXCEPT ![s] =
                                [session[s] EXCEPT !.lastUser = now, !.mood = mood]]
        BY <4>1 DEF Speak
      <4>3. session'[s].state = "active"
        BY <3>2, <4>2 DEF SessionRow
      <4> QED BY <3>2, <4>2, <4>3
    <3>6. CASE \E on \in BOOLEAN : Opt(s, on)
      <4>1. PICK on \in BOOLEAN : Opt(s, on)
        BY <3>6
      <4>2. session[s].state = "active"
              /\ session' = [session EXCEPT ![s] = [session[s] EXCEPT !.optIn = on]]
        BY <4>1 DEF Opt
      <4>3. session'[s].state = "active"
        BY <3>2, <4>2 DEF SessionRow
      <4> QED BY <3>2, <4>2, <4>3
    <3> QED BY <3>1, <3>3, <3>4, <3>5, <3>6
  <2>2. CASE Stamp
    <3>1. session' = session \/ session' = [session EXCEPT ![job.key.session] =
            IF @.state = "active" THEN [@ EXCEPT !.lastProactive = job.sentAt] ELSE @]
      BY <2>2 DEF Stamp
    <3>2. \A s \in Sessions : session[s] \in SessionRow
      BY <1>2 DEF TypeOK
    <3>3. \A s \in Sessions : /\ session'[s].state = session[s].state
                              /\ session'[s].optIn = session[s].optIn
      BY <1>2, <3>1, <3>2 DEF TypeOK, SessionRow
    <3> QED BY <1>2, <3>3 DEF Unheard
  <2>3. CASE ~UserAct /\ ~Stamp
    <3>1. session' = session
      BY <1>2, <2>3 DEF Next, Work, Tick, Begin, Scan, ScanFails, EndPass, TakeUp, MarkUsed,
         Compose, Insert, Send, Record, Save, Crash, vars
    <3> QED BY <1>2, <3>1 DEF Unheard
  <2> QED BY <2>1, <2>2, <2>3
<1> QED BY <1>1, <1>2, ProactiveTypes, PTL DEF Spec

\* The keys of some rows, before and after they were rewritten.
LEMMA KeysKept ==
  ASSUME NEW f, Rewrites(f), NEW S \in SUBSET rows, NEW T \in SUBSET rows',
         \A r \in rows : f[r] \in T <=> r \in S
  PROVE  KeysOf(T) = KeysOf(S)
BY DEF Rewrites, KeysOf

LEMMA KeysAdded ==
  ASSUME NEW f, Rewrites(f), NEW S \in SUBSET rows, NEW T \in SUBSET rows',
         \A r \in rows : f[r] \in T <=> r \in S \/ r \in Mine
  PROVE  KeysOf(T) = KeysOf(S) \cup KeysOf(Mine)
BY DEF Rewrites, KeysOf, Mine

\* The job has one row, or none if a reset took it.
LEMMA KeyOfMine ==
  ASSUME Inv, Delivering
  PROVE  /\ KeysOf(Mine) = {} \/ KeysOf(Mine) = {job.key}
         /\ KeysOf(Mine) \subseteq KeysOf(rows) /\ InHand = {job.key}
         /\ job.key \in Candidates
<1>1. \A r \in Mine : r.key = job.key
  BY DEF Inv, JobOwnsItsRow, Delivering, Mine
<1>2. job # NoJob
  BY DEF Inv, TypeOK, Delivering
<1> QED BY <1>1, <1>2 DEF KeysOf, Mine, InHand, Delivering, Inv, JobIsCandidate

\* What the user saw of the rows.
SeenRows == {r \in rows : Seen(r)}

Kept == UNCHANGED <<InState("active"), InState("gone"), OptedOut, Round>>
Filed == [b \in Ledgers |-> KeysOf(InLedger(b))]

\* What was read or written by no one but the users, or not at all.
LEMMA KeptByWrites ==
  ASSUME Inv, Numbered, Send \/ Record \/ Save \/ Stamp
  PROVE  Kept
<1>1. UNCHANGED <<InState("active"), InState("gone")>>
  <2>1. \A s \in Sessions : StateKept(s)
    BY WriteEffect
  <2> QED BY <2>1 DEF InState, StateKept
<1>2. OptedOut' = OptedOut
  <2>1. CASE Stamp
    <3>1. OptedOut' = OptedOut \/ session' = session
      BY <2>1, StampEffect
    <3> QED BY <3>1 DEF OptedOut
  <2>2. CASE Send \/ Record \/ Save
    BY <2>2 DEF Send, Record, Save, OptedOut
  <2> QED BY <2>1, <2>2
<1>3. Round' = Round
  <2>1. pc # "idle" /\ pc' # "idle" /\ pass' = pass
    BY DEF Send, Record, Save, Stamp, GiveUp
  <2> QED BY <2>1 DEF Round
<1> QED BY <1>1, <1>2, <1>3 DEF Kept

LEMMA NothingLost ==
  ASSUME NEW f, Rewrites(f), \A r \in rows : f[r].seenAt = r.seenAt
  PROVE  KeysOf(rows') = KeysOf(rows) /\ KeysOf(SeenRows') = KeysOf(SeenRows)
<1>1. \A r \in rows : f[r] \in rows'
  BY DEF Rewrites
<1>2. \A r \in rows : f[r] \in SeenRows' <=> r \in SeenRows
  BY <1>1 DEF SeenRows, Seen
<1>3. SeenRows' \in SUBSET rows' /\ SeenRows \in SUBSET rows
  BY DEF SeenRows
<1>4. KeysOf(rows') = KeysOf(rows)
  BY <1>1, KeysKept
<1>5. KeysOf(SeenRows') = KeysOf(SeenRows)
  BY <1>2, <1>3, KeysKept
<1> QED BY <1>4, <1>5

\* A book that no row enters or leaves, and one the job's row enters.
LEMMA BookKept ==
  ASSUME NEW f, Rewrites(f), NEW b \in Ledgers,
         \A r \in rows : f[r] \in InLedger(b)' <=> r \in InLedger(b)
  PROVE  KeysOf(InLedger(b)') = KeysOf(InLedger(b))
<1>1. InLedger(b)' \in SUBSET rows' /\ InLedger(b) \in SUBSET rows
  BY DEF InLedger
<1> QED BY <1>1, KeysKept

LEMMA NothingFiled ==
  ASSUME NEW f, Rewrites(f),
         \A b \in Ledgers, r \in rows : f[r] \in InLedger(b)' <=> r \in InLedger(b)
  PROVE  Filed' = Filed
<1>1. \A b \in Ledgers : KeysOf(InLedger(b)') = KeysOf(InLedger(b))
  BY BookKept
<1> QED BY <1>1 DEF Filed

FiledIn(b) ==
  \/ Filed' = Filed
  \/ /\ job.key \in KeysOf(SeenRows)
     /\ Filed' = [Filed EXCEPT ![b] = @ \cup {job.key}]

LEMMA OneFiled ==
  ASSUME Inv, Delivering, NEW f, Rewrites(f), NEW b \in Ledgers, Mine \subseteq SeenRows,
         \A d \in Ledgers \ {b}, r \in rows : f[r] \in InLedger(d)' <=> r \in InLedger(d),
         \A r \in rows : f[r] \in InLedger(b)' <=> r \in InLedger(b) \/ r \in Mine
  PROVE  FiledIn(b)
<1>1. \A d \in Ledgers \ {b} : KeysOf(InLedger(d)') = KeysOf(InLedger(d))
  BY BookKept
<1>2. InLedger(b)' \in SUBSET rows' /\ InLedger(b) \in SUBSET rows
  BY DEF InLedger
<1>3. KeysOf(InLedger(b)') = KeysOf(InLedger(b)) \cup KeysOf(Mine)
  BY <1>2, KeysAdded
<1>4. CASE KeysOf(Mine) = {}
  <2>1. KeysOf(InLedger(b)') = KeysOf(InLedger(b))
    BY <1>3, <1>4
  <2> QED BY <1>1, <2>1 DEF Filed, FiledIn
<1>5. CASE KeysOf(Mine) = {job.key}
  <2>1. job.key \in KeysOf(SeenRows)
    BY <1>5 DEF KeysOf
  <2>2. KeysOf(InLedger(b)') = KeysOf(InLedger(b)) \cup {job.key}
    BY <1>3, <1>5
  <2>3. Filed' = [Filed EXCEPT ![b] = @ \cup {job.key}]
    BY <1>1, <2>2 DEF Filed
  <2> QED BY <2>1, <2>3 DEF FiledIn
<1> QED BY <1>4, <1>5, KeyOfMine

\* Sending: nothing reaches the user, or a message that had not reached him.
LEMMA SendArrives ==
  ASSUME Inv, Numbered, Send
  PROVE  /\ KeysOf(rows') = KeysOf(rows) /\ Filed' = Filed /\ InHand' = InHand
         /\ \/ KeysOf(SeenRows') = KeysOf(SeenRows)
            \/ /\ job.key \in KeysOf(rows) \ KeysOf(SeenRows)
               /\ KeysOf(SeenRows') = KeysOf(SeenRows) \cup {job.key}
<1>1. PICK f : /\ Writes(f) /\ pc = "send" /\ pc' = "record" /\ job'.key = job.key
               /\ \A r \in rows : f[r].status = r.status /\ f[r].stamped = r.stamped
                                  /\ f[r].sentAt = r.sentAt /\ f[r].logged = r.logged
               /\ \A r \in rows : r.id = job.id => f[r].seenAt \in {now, Never}
  BY SendEffect
<1>2. Rewrites(f) /\ Delivering /\ \A r \in rows : f[r] \in rows'
  BY <1>1 DEF Writes, Rewrites, Delivering
<1>3. Filed' = Filed
  BY <1>1, <1>2, NothingFiled DEF InLedger
<1>4. KeysOf(rows') = KeysOf(rows)
  BY <1>2, KeysKept
<1>5. InHand' = InHand
  BY <1>1 DEF InHand, Delivering
<1>6. SeenRows' \in SUBSET rows' /\ SeenRows \in SUBSET rows
  BY DEF SeenRows
<1>7. CASE \A r \in Mine : ~Seen(f[r])
  <2>1. \A r \in rows : f[r] \in SeenRows' <=> r \in SeenRows
    BY <1>1, <1>2, <1>7 DEF SeenRows, Seen, Mine, Numbered, Rewrites
  <2>2. KeysOf(SeenRows') = KeysOf(SeenRows)
    BY <1>2, <1>6, <2>1, KeysKept
  <2> QED BY <1>3, <1>4, <1>5, <2>2
<1>8. CASE \E r \in Mine : Seen(f[r])
  <2>1. PICK m \in Mine : Seen(f[m])
    BY <1>8
  <2>2. \A r \in Mine : r = m
    BY <2>1 DEF Mine, Numbered
  <2>3. \A r \in rows : f[r] \in SeenRows' <=> r \in SeenRows \/ r \in Mine
    BY <1>1, <1>2, <2>1, <2>2 DEF SeenRows, Seen, Mine, Rewrites
  <2>4. KeysOf(SeenRows') = KeysOf(SeenRows) \cup KeysOf(Mine)
    BY <1>2, <1>6, <2>3, KeysAdded
  <2>5. KeysOf(Mine) = {job.key} /\ m.key = job.key
    BY <1>2, <2>1, KeyOfMine DEF KeysOf
  <2>6. job.key \in KeysOf(rows) \ KeysOf(SeenRows)
    <3>1. ~Seen(m) /\ m \in rows
      BY <1>1, <2>1 DEF Numbered, Mine
    <3>2. \A r \in rows : r.key = job.key => r = m
      BY <2>5, <3>1 DEF Inv, UniqueKeys
    <3> QED BY <2>5, <3>1, <3>2 DEF KeysOf, SeenRows
  <2> QED BY <1>3, <1>4, <1>5, <2>4, <2>5, <2>6
<1> QED BY <1>7, <1>8

\* Recording: the status of what arrived, and of nothing else, becomes "sent".
LEMMA RecordFiles ==
  ASSUME Inv, Numbered, Underway, Record
  PROVE  /\ KeysOf(rows') = KeysOf(rows) /\ KeysOf(SeenRows') = KeysOf(SeenRows)
         /\ InHand' \in {InHand, {}} /\ FiledIn("status")
<1>1. PICK f : /\ Writes(f) /\ pc = "record"
               /\ \A r \in rows : /\ f[r].seenAt = r.seenAt /\ f[r].stamped = r.stamped
                                  /\ f[r].logged = r.logged
               /\ \/ \A r \in rows : f[r] = r
                  \/ \A r \in rows : r.id = job.id =>
                       f[r].status = (IF job.ok THEN "sent" ELSE "failed")
               /\ IF job.ok THEN pc' = "save" /\ job' = job ELSE GiveUp
  BY RecordEffect
<1>2. Rewrites(f) /\ Delivering /\ \A r \in rows : f[r] \in rows'
  BY <1>1 DEF Writes, Rewrites, Delivering
<1>3. InHand' \in {InHand, {}}
  BY <1>1 DEF InHand, Delivering, GiveUp
<1>4. KeysOf(rows') = KeysOf(rows) /\ KeysOf(SeenRows') = KeysOf(SeenRows)
  BY <1>1, <1>2, NothingLost
<1>5. FiledIn("status")
  <2>1. CASE \A r \in rows : f[r] = r
    <3>1. \A b \in Ledgers, r \in rows : f[r] \in InLedger(b)' <=> r \in InLedger(b)
      BY <1>2, <2>1 DEF InLedger
    <3> QED BY <1>2, <3>1, NothingFiled DEF FiledIn
  <2>2. CASE ~job.ok /\ \A r \in rows : r.id = job.id => f[r].status = "failed"
    <3>1. \A r \in rows : f[r].status = "sent" <=> r.status = "sent"
      BY <1>1, <1>2, <2>2 DEF Rewrites, Underway, Mine
    <3>2. \A b \in Ledgers, r \in rows : f[r] \in InLedger(b)' <=> r \in InLedger(b)
      BY <1>1, <1>2, <3>1 DEF InLedger
    <3> QED BY <1>2, <3>2, NothingFiled DEF FiledIn
  <2>3. CASE job.ok /\ \A r \in rows : r.id = job.id => f[r].status = "sent"
    <3>1. Mine \subseteq SeenRows
      BY <1>1, <2>3 DEF Underway, SeenRows, Mine
    <3>2. \A d \in Ledgers \ {"status"}, r \in rows : f[r] \in InLedger(d)' <=> r \in InLedger(d)
      BY <1>1, <1>2 DEF InLedger
    <3>3. \A r \in rows : f[r] \in InLedger("status")' <=> r \in InLedger("status") \/ r \in Mine
      BY <1>2, <2>3 DEF InLedger, Mine, Rewrites
    <3>4. "status" \in Ledgers
      BY DEF Ledgers
    <3> QED BY <1>2, <3>1, <3>2, <3>3, <3>4, OneFiled
  <2> QED BY <1>1, <2>1, <2>2, <2>3
<1> QED BY <1>3, <1>4, <1>5

\* The log and the session are written for what arrived.
LEMMA SaveFiles ==
  ASSUME Inv, Numbered, Underway, Save
  PROVE  /\ KeysOf(rows') = KeysOf(rows) /\ KeysOf(SeenRows') = KeysOf(SeenRows)
         /\ InHand' = InHand /\ FiledIn("log")
<1>1. PICK f : /\ Writes(f) /\ pc = "save" /\ pc' = "stamp" /\ job' = job
               /\ \A r \in rows : /\ f[r].seenAt = r.seenAt /\ f[r].stamped = r.stamped
                                  /\ f[r].status = r.status
               /\ \/ \A r \in rows : f[r] = r
                  \/ \A r \in rows : r.id = job.id => f[r].logged
  BY SaveEffect
<1>2. Rewrites(f) /\ Delivering /\ \A r \in rows : f[r] \in rows'
  BY <1>1 DEF Writes, Rewrites, Delivering
<1>3. InHand' = InHand
  BY <1>1 DEF InHand, Delivering
<1>4. KeysOf(rows') = KeysOf(rows) /\ KeysOf(SeenRows') = KeysOf(SeenRows)
  BY <1>1, <1>2, NothingLost
<1>5. FiledIn("log")
  <2>1. CASE \A r \in rows : f[r] = r
    <3>1. \A b \in Ledgers, r \in rows : f[r] \in InLedger(b)' <=> r \in InLedger(b)
      BY <1>2, <2>1 DEF InLedger
    <3> QED BY <1>2, <3>1, NothingFiled DEF FiledIn
  <2>2. CASE \A r \in rows : r.id = job.id => f[r].logged
    <3>1. Mine \subseteq SeenRows
      BY <1>1 DEF Underway, SeenRows, Mine
    <3>2. \A d \in Ledgers \ {"log"}, r \in rows : f[r] \in InLedger(d)' <=> r \in InLedger(d)
      BY <1>1, <1>2 DEF InLedger
    <3>3. \A r \in rows : f[r] \in InLedger("log")' <=> r \in InLedger("log") \/ r \in Mine
      BY <1>2, <2>2 DEF InLedger, Mine, Rewrites
    <3>4. "log" \in Ledgers
      BY DEF Ledgers
    <3> QED BY <1>2, <3>1, <3>2, <3>3, <3>4, OneFiled
  <2> QED BY <1>1, <2>1, <2>2
<1> QED BY <1>3, <1>4, <1>5

LEMMA StampFiles ==
  ASSUME Inv, Numbered, Underway, Stamp
  PROVE  /\ KeysOf(rows') = KeysOf(rows) /\ KeysOf(SeenRows') = KeysOf(SeenRows)
         /\ InHand' = {} /\ FiledIn("session")
<1>1. PICK f : /\ Writes(f) /\ pc = "stamp" /\ GiveUp
               /\ \A r \in rows : /\ f[r].seenAt = r.seenAt /\ f[r].logged = r.logged
                                  /\ f[r].status = r.status
               /\ \/ \A r \in rows : f[r] = r
                  \/ \A r \in rows : r.id = job.id => f[r].stamped
  BY StampEffect
<1>2. Rewrites(f) /\ Delivering /\ \A r \in rows : f[r] \in rows'
  BY <1>1 DEF Writes, Rewrites, Delivering
<1>3. InHand' = {}
  BY <1>1 DEF InHand, Delivering, GiveUp
<1>4. KeysOf(rows') = KeysOf(rows) /\ KeysOf(SeenRows') = KeysOf(SeenRows)
  BY <1>1, <1>2, NothingLost
<1>5. FiledIn("session")
  <2>1. CASE \A r \in rows : f[r] = r
    <3>1. \A b \in Ledgers, r \in rows : f[r] \in InLedger(b)' <=> r \in InLedger(b)
      BY <1>2, <2>1 DEF InLedger
    <3> QED BY <1>2, <3>1, NothingFiled DEF FiledIn
  <2>2. CASE \A r \in rows : r.id = job.id => f[r].stamped
    <3>1. Mine \subseteq SeenRows
      BY <1>1 DEF Underway, SeenRows, Mine
    <3>2. \A d \in Ledgers \ {"session"}, r \in rows :
            f[r] \in InLedger(d)' <=> r \in InLedger(d)
      BY <1>1, <1>2 DEF InLedger
    <3>3. \A r \in rows :
            f[r] \in InLedger("session")' <=> r \in InLedger("session") \/ r \in Mine
      BY <1>2, <2>2 DEF InLedger, Mine, Rewrites
    <3>4. "session" \in Ledgers
      BY DEF Ledgers
    <3> QED BY <1>2, <3>1, <3>2, <3>3, <3>4, OneFiled
  <2> QED BY <1>1, <2>1, <2>2
<1> QED BY <1>3, <1>4, <1>5

\* The abstract state, and the part of it that a delivery leaves alone.
Rolls == <<InState("active"), InState("gone"), OptedOut>>
Marks == <<KeysOf(rows), KeysOf(SeenRows), Filed>>

LEMMA SameLedger ==
  ASSUME UNCHANGED <<session, rows>>
  PROVE  UNCHANGED Rolls /\ UNCHANGED Marks
<1>1. UNCHANGED Rolls
  BY DEF Rolls, InState, OptedOut
<1>2. UNCHANGED <<KeysOf(rows), KeysOf(SeenRows)>>
  BY DEF SeenRows
<1>3. \A b \in Ledgers : InLedger(b)' = InLedger(b)
  BY DEF InLedger
<1>4. Filed' = Filed
  BY <1>3 DEF Filed
<1> QED BY <1>1, <1>2, <1>4 DEF Marks

LEMMA InsertClaims ==
  ASSUME Inv, Inserts
  PROVE  Outgoing!Claim(job.key) /\ InHand' = {job.key}
<1>1. /\ pc = "insert" /\ pc' = "send" /\ UNCHANGED <<session, pass>>
      /\ job # NoJob /\ job \in Jobs /\ job' = [job EXCEPT !.id = serial']
      /\ rows' = rows \cup {QueuedRow(serial', job.key, job.key.session \in pass.unread)}
  BY DEF Inserts, Inv, TypeOK
<1>2. InHand = {} /\ InHand' = {job.key} /\ Round' = Round
  BY <1>1 DEF InHand, Delivering, Round, Jobs
<1>3. /\ job.key \in Candidates \ KeysOf(rows)
      /\ job.key.session \in Round \cap InState("active")
  <2>1. job.key \in Candidates /\ job.key.session \notin pass.muted
    BY <1>1 DEF Inv, JobIsCandidate, MutedIsLeftOut
  <2>2. job.key.session \in Sessions
    BY <2>1 DEF Candidates
  <2>3. session[job.key.session].state = "active" /\ \A r \in rows : r.key # job.key
    BY DEF Inserts, Insertable
  <2>4. job.key \notin KeysOf(rows)
    BY <2>3 DEF KeysOf
  <2> QED BY <1>1, <2>1, <2>2, <2>3, <2>4 DEF Round, InState
<1>4. UNCHANGED Rolls
  BY <1>1 DEF Rolls, InState, OptedOut
<1> DEFINE new == QueuedRow(serial', job.key, job.key.session \in pass.unread)
<1>5. /\ new.key = job.key /\ ~Seen(new) /\ new.status = "queued"
      /\ ~new.logged /\ ~new.stamped
  BY DEF QueuedRow, Seen
<1> HIDE DEF new
<1>6. KeysOf(rows') = KeysOf(rows) \cup {job.key}
  BY <1>1, <1>5 DEF KeysOf, new
<1>7. SeenRows' = SeenRows
  BY <1>1, <1>5 DEF SeenRows, Seen, new
<1>8. \A b \in Ledgers : InLedger(b)' = InLedger(b)
  BY <1>1, <1>5 DEF InLedger, new
<1>9. KeysOf(SeenRows') = KeysOf(SeenRows) /\ Filed' = Filed
  BY <1>7, <1>8 DEF Filed
<1> QED BY <1>2, <1>3, <1>4, <1>6, <1>9 DEF Outgoing!Claim, Rolls, SeenRows, Filed

\* What the users do, they do to the rolls; a reset takes their keys as well.
LEMMA UserMaps ==
  ASSUME Inv, Unheard, UserAct
  PROVE  Outgoing!Next \/ UNCHANGED Outgoing!vars
<1>1. PICK s \in Sessions :
        \/ Open(s)
        \/ \E mood \in Moods, mentioned \in SUBSET Events : Speak(s, mood, mentioned)
        \/ \E on \in BOOLEAN : Opt(s, on)
        \/ Reset(s)
  BY DEF UserAct
<1>2. /\ session \in [Sessions -> SessionRow] /\ session[s] \in SessionRow
      /\ rows \subseteq Rows
  BY DEF Inv, TypeOK
<1>3. UNCHANGED <<Round, InHand>>
  BY DEF UserAct, Open, Speak, Opt, Reset, scheduler, Round, InHand, Delivering
<1>4. CASE Open(s)
  <2>1. /\ session[s].state = "none" /\ session' = [session EXCEPT ![s] = NewSession]
        /\ rows' = rows /\ session[s].optIn
    BY <1>4 DEF Open, messages, Unheard
  <2>2. NewSession.state = "active" /\ NewSession.optIn
    BY DEF NewSession
  <2>3. /\ s \notin InState("active") \cup InState("gone")
        /\ InState("active")' = InState("active") \cup {s}
        /\ InState("gone")' = InState("gone")
        /\ OptedOut' = OptedOut
    BY <1>2, <2>1, <2>2 DEF InState, OptedOut
  <2>4. UNCHANGED Marks
    <3>1. \A b \in Ledgers : InLedger(b)' = InLedger(b)
      BY <2>1 DEF InLedger
    <3> QED BY <2>1, <3>1 DEF Marks, SeenRows, Filed
  <2>5. Outgoing!OpenSession(s)
    BY <1>3, <2>3, <2>4 DEF Outgoing!OpenSession, Outgoing!ledger, Marks, SeenRows, Filed
  <2> QED BY <2>5 DEF Outgoing!Next
<1>5. CASE \E mood \in Moods, mentioned \in SUBSET Events : Speak(s, mood, mentioned)
  <2>1. PICK mood \in Moods :
          /\ session' = [session EXCEPT ![s] =
                           [session[s] EXCEPT !.lastUser = now, !.mood = mood]]
          /\ rows' = rows
    BY <1>5 DEF Speak, messages
  <2>2. \A t \in Sessions : session'[t].state = session[t].state
                           /\ session'[t].optIn = session[t].optIn
    BY <1>2, <2>1 DEF SessionRow
  <2>3. UNCHANGED Rolls
    BY <2>2 DEF Rolls, InState, OptedOut
  <2>4. UNCHANGED Marks
    <3>1. \A b \in Ledgers : InLedger(b)' = InLedger(b)
      BY <2>1 DEF InLedger
    <3> QED BY <2>1, <3>1 DEF Marks, SeenRows, Filed
  <2> QED BY <1>3, <2>3, <2>4 DEF Outgoing!vars, Outgoing!ledger, Rolls, Marks, SeenRows, Filed
<1>6. CASE \E on \in BOOLEAN : Opt(s, on)
  <2>1. PICK on \in BOOLEAN :
          /\ session[s].state = "active" /\ rows' = rows
          /\ session' = [session EXCEPT ![s] = [session[s] EXCEPT !.optIn = on]]
    BY <1>6 DEF Opt, messages
  <2>2. /\ \A t \in Sessions : session'[t].state = session[t].state
        /\ \A t \in Sessions \ {s} : session'[t].optIn = session[t].optIn
        /\ session'[s].optIn = on
    BY <1>2, <2>1 DEF SessionRow
  <2>3. /\ s \in InState("active")
        /\ UNCHANGED <<InState("active"), InState("gone")>>
    BY <2>1, <2>2 DEF InState
  <2>4. OptedOut' \in {OptedOut \cup {s}, OptedOut \ {s}}
    BY <2>2 DEF OptedOut
  <2>5. UNCHANGED Marks
    <3>1. \A b \in Ledgers : InLedger(b)' = InLedger(b)
      BY <2>1 DEF InLedger
    <3> QED BY <2>1, <3>1 DEF Marks, SeenRows, Filed
  <2>6. Outgoing!ChangeMind(s)
    BY <1>3, <2>3, <2>4, <2>5 DEF Outgoing!ChangeMind, Outgoing!ledger, Marks, SeenRows, Filed
  <2> QED BY <2>6 DEF Outgoing!Next
<1>7. CASE Reset(s)
  <2> DEFINE after == [NoSession EXCEPT !.state = "gone"]
  <2>1. /\ session[s].state = "active" /\ session' = [session EXCEPT ![s] = after]
        /\ rows' = {r \in rows : r.key.session # s}
    BY <1>7 DEF Reset
  <2>2. after.state = "gone" /\ after.optIn
    BY DEF NoSession, NewSession
  <2> HIDE DEF after
  <2>3. /\ s \in InState("active")
        /\ InState("active")' = InState("active") \ {s}
        /\ InState("gone")' = InState("gone") \cup {s}
        /\ OptedOut' = OptedOut \ {s}
    BY <1>2, <2>1, <2>2 DEF InState, OptedOut
  <2>4. KeysOf(rows') = Outgoing!Without(s, KeysOf(rows))
    BY <2>1 DEF KeysOf, Outgoing!Without
  <2>5. KeysOf(SeenRows') = Outgoing!Without(s, KeysOf(SeenRows))
    BY <2>1 DEF KeysOf, SeenRows, Seen, Outgoing!Without
  <2>6. \A b \in Ledgers :
          KeysOf(InLedger(b)') = Outgoing!Without(s, KeysOf(InLedger(b)))
    BY <2>1 DEF KeysOf, InLedger, Outgoing!Without
  <2>7. Filed' = [b \in Ledgers |-> Outgoing!Without(s, Filed[b])]
    BY <2>6 DEF Filed
  <2>8. Outgoing!CloseSession(s)
    BY <1>3, <2>3, <2>4, <2>5, <2>7 DEF Outgoing!CloseSession, SeenRows, Filed
  <2> QED BY <2>8 DEF Outgoing!Next
<1> QED BY <1>1, <1>4, <1>5, <1>6, <1>7

\* What the steps of a delivery have in common, in the words of the Outbox.
LEMMA FilingMaps ==
  ASSUME Inv, Delivering, Kept, NEW b \in Ledgers, FiledIn(b), InHand' \in {InHand, {}},
         KeysOf(rows') = KeysOf(rows), KeysOf(SeenRows') = KeysOf(SeenRows)
  PROVE  Outgoing!Next \/ UNCHANGED Outgoing!vars
<1>1. InHand = {job.key}
  BY KeyOfMine
<1>2. CASE Filed' = Filed /\ InHand' = InHand
  BY <1>2 DEF Kept, Outgoing!vars, Outgoing!ledger, SeenRows, Filed
<1>3. CASE Filed' = Filed /\ InHand' = {}
  <2>1. Outgoing!LetGo
    BY <1>3 DEF Outgoing!LetGo, Kept, Outgoing!ledger, SeenRows, Filed
  <2> QED BY <2>1 DEF Outgoing!Next
<1>4. CASE /\ job.key \in KeysOf(SeenRows)
           /\ Filed' = [Filed EXCEPT ![b] = @ \cup {job.key}]
  <2>1. Outgoing!Book(job.key, b)
    BY <1>4 DEF Outgoing!Book, Kept, SeenRows, Filed
  <2> QED BY <1>1, <2>1 DEF Outgoing!Next
<1> QED BY <1>2, <1>3, <1>4 DEF FiledIn

LEMMA WriteMaps ==
  ASSUME Inv, Numbered, Underway, Send \/ Record \/ Save \/ Stamp
  PROVE  Outgoing!Next \/ UNCHANGED Outgoing!vars
<1>1. Kept
  BY KeptByWrites
<1>2. Delivering /\ InHand = {job.key}
  <2>1. Delivering
    BY DEF Send, Record, Save, Stamp, Delivering
  <2> QED BY <2>1, KeyOfMine
<1>3. CASE Send
  <2>1. /\ KeysOf(rows') = KeysOf(rows) /\ Filed' = Filed /\ InHand' = InHand
        /\ \/ KeysOf(SeenRows') = KeysOf(SeenRows)
           \/ /\ job.key \in KeysOf(rows) \ KeysOf(SeenRows)
              /\ KeysOf(SeenRows') = KeysOf(SeenRows) \cup {job.key}
    BY <1>3, SendArrives
  <2>2. CASE KeysOf(SeenRows') = KeysOf(SeenRows)
    BY <1>1, <2>1, <2>2 DEF Kept, Outgoing!vars, Outgoing!ledger, SeenRows, Filed
  <2>3. CASE /\ job.key \in KeysOf(rows) \ KeysOf(SeenRows)
             /\ KeysOf(SeenRows') = KeysOf(SeenRows) \cup {job.key}
    <3>1. Outgoing!Arrive(job.key)
      BY <1>1, <2>1, <2>3 DEF Outgoing!Arrive, Kept, SeenRows, Filed
    <3> QED BY <1>2, <3>1 DEF Outgoing!Next
  <2> QED BY <2>1, <2>2, <2>3
<1>4. CASE Record
  <2>1. "status" \in Ledgers
    BY DEF Ledgers
  <2> QED BY <1>1, <1>2, <1>4, <2>1, RecordFiles, FilingMaps
<1>5. CASE Save
  <2>1. "log" \in Ledgers
    BY DEF Ledgers
  <2> QED BY <1>1, <1>2, <1>5, <2>1, SaveFiles, FilingMaps
<1>6. CASE Stamp
  <2>1. "session" \in Ledgers
    BY DEF Ledgers
  <2> QED BY <1>1, <1>2, <1>6, <2>1, StampFiles, FilingMaps
<1> QED BY <1>3, <1>4, <1>5, <1>6

\* What is left begins a round, ends one, or is out of the users' sight.
LEMMA RestMaps ==
  ASSUME Inv, [Next]_vars, ~UserAct, ~Inserts, ~(Send \/ Record \/ Save \/ Stamp)
  PROVE  Outgoing!Next \/ UNCHANGED Outgoing!vars
<1>1. UNCHANGED Rolls /\ UNCHANGED Marks
  BY RestEffect, SameLedger DEF Still
<1>2. CASE UNCHANGED <<Round, InHand>>
  BY <1>1, <1>2 DEF Rolls, Marks, Outgoing!vars, Outgoing!ledger, SeenRows, Filed
<1>3. CASE Round' = {} /\ InHand' = {}
  <2>1. Outgoing!EndRound
    BY <1>1, <1>3 DEF Rolls, Marks, Outgoing!EndRound, Outgoing!ledger, SeenRows, Filed
  <2> QED BY <2>1 DEF Outgoing!Next
<1>4. CASE /\ Round = {} /\ InHand = {}
           /\ Round' = Sessions \ OptedOut /\ InHand' = InHand
  <2>1. Outgoing!BeginRound
    BY <1>1, <1>4 DEF Rolls, Marks, Outgoing!BeginRound, Outgoing!ledger, SeenRows, Filed
  <2> QED BY <2>1 DEF Outgoing!Next
<1>5. CASE Tick \/ UNCHANGED vars
  <2>1. UNCHANGED <<pc, pass, job>>
    BY <1>5 DEF Tick, vars, scheduler
  <2>2. UNCHANGED <<Round, InHand>>
    BY <2>1 DEF Round, InHand, Delivering
  <2> QED BY <1>2, <2>2
<1>6. CASE \E kind \in {"reminder", "standard"} : Begin(kind)
  <2>1. /\ pc = "idle" /\ pc' = "listed"
        /\ pass'.muted = OptedOut
    BY <1>6 DEF Begin, OptedOut
  <2> QED BY <1>4, <2>1 DEF Round, InHand, Delivering
<1>7. CASE ScanFails \/ EndPass \/ Crash
  BY <1>3, <1>7 DEF ScanFails, EndPass, Crash, Round, InHand, Delivering
<1>8. CASE Scan
  <2>1. pc = "listed" /\ pc' = "choose" /\ pass \in Passes
    BY <1>8 DEF Scan, Inv, TypeOK
  <2>2. PICK winners \in SUBSET Scanned, unread \in SUBSET {c.session : c \in Scanned} :
          pass' \in {Chosen(winners, unread),
                     [pass EXCEPT !.winners = winners, !.unread = unread]}
    BY <1>8 DEF Scan
  <2>3. pass'.muted = pass.muted
    BY <2>1, <2>2 DEF Chosen, NoPass, Passes
  <2> QED BY <1>2, <2>1, <2>3 DEF Round, InHand, Delivering
<1>9. CASE \E c \in pass.winners : TakeUp(c)
  <2>1. PICK c \in pass.winners : TakeUp(c)
    BY <1>9
  <2>2. /\ pc = "choose" /\ pc' \in {"choose", "mark", "compose"}
        /\ pass' = Chosen(pass.winners \ {c}, pass.unread)
    BY <2>1 DEF TakeUp
  <2>3. pass'.muted = pass.muted
    BY <2>2 DEF Chosen, NoPass
  <2> QED BY <1>2, <2>2, <2>3 DEF Round, InHand, Delivering
<1>10. CASE MarkUsed \/ Compose
  <2>1. /\ pc \in {"mark", "compose"} /\ pc' \in {"compose", "insert"}
        /\ pass' = pass
    BY <1>10 DEF MarkUsed, Compose
  <2> QED BY <1>2, <2>1 DEF Round, InHand, Delivering
<1>11. CASE Insert
  <2>1. pc = "insert" /\ GiveUp /\ pass' = pass
    BY <1>11 DEF Insert, Inserts, messages, NoFault
  <2> QED BY <1>2, <2>1 DEF Round, InHand, Delivering, GiveUp
<1> QED BY <1>5, <1>6, <1>7, <1>8, <1>9, <1>10, <1>11 DEF Next, Work

LEMMA StepMaps ==
  ASSUME Inv, Spacing, Unheard, [Next]_vars
  PROVE  [Outgoing!Next]_Outgoing!vars
<1>1. CASE UserAct
  BY <1>1, UserMaps
<1>2. CASE Inserts
  <2>1. Outgoing!Claim(job.key) /\ InHand' = {job.key}
    BY <1>2, InsertClaims
  <2> QED BY <2>1 DEF Outgoing!Next
<1>3. CASE Send \/ Record \/ Save \/ Stamp
  BY <1>3, WriteMaps DEF Spacing
<1>4. CASE ~UserAct /\ ~Inserts /\ ~(Send \/ Record \/ Save \/ Stamp)
  BY <1>4, RestMaps
<1> QED BY <1>1, <1>2, <1>3, <1>4

LEMMA InitMaps == Init => Outgoing!Init
<1> SUFFICES ASSUME Init PROVE Outgoing!Init
  OBVIOUS
<1>1. InState("active") = {} /\ InState("gone") = {} /\ OptedOut = {}
  BY DEF Init, InState, OptedOut, NoSession, NewSession
<1>2. Round = {} /\ InHand = {}
  BY DEF Init, Round, InHand, Delivering
<1>3. KeysOf(rows) = {} /\ KeysOf(SeenRows) = {} /\ Filed = [b \in Ledgers |-> {}]
  BY DEF Init, KeysOf, SeenRows, Filed, InLedger
<1> QED BY <1>1, <1>2, <1>3 DEF Outgoing!Init, SeenRows, Filed

\* Whatever fails and whenever the process stops, the users are written to as
\* the Outbox says: by a round that began when they had not opted out, once for
\* each trigger, one message after the other; and what the status, the log and
\* the session record as delivered had reached them.
THEOREM DeliveryImplementsOutbox == Spec => ImplementsOutbox
<1>1. Inv /\ Spacing /\ Unheard /\ [Next]_vars => [Outgoing!Next]_Outgoing!vars
  BY StepMaps
<1> QED BY <1>1, InitMaps, Invariance, SpacingInvariance, UnheardInvariance, PTL
        DEF Spec, ImplementsOutbox, Outgoing!Spec

\* What the Outbox says is enough for the books to be true: a message that its
\* status, the log or the session records as delivered did reach the user.
RecordedIsHeard == \A b \in Ledgers : KeysOf(InLedger(b)) \subseteq KeysOf(SeenRows)

LEMMA RecordedStep ==
  ASSUME RecordedIsHeard, [Outgoing!Next]_Outgoing!vars
  PROVE  RecordedIsHeard'
<1> DEFINE heard == KeysOf(SeenRows)
           Recorded(b) == KeysOf(InLedger(b))
<1>1. \A b \in Ledgers : Recorded(b) \subseteq heard /\ Filed[b] = Recorded(b)
  BY DEF RecordedIsHeard, Filed
<1>2. \A b \in Ledgers : Filed'[b] = Recorded(b)'
  BY DEF Filed
<1>3. SUFFICES \A b \in Ledgers : Filed'[b] \subseteq heard'
  BY <1>2 DEF RecordedIsHeard
<1>4. CASE Filed' = Filed /\ heard \subseteq heard'
  BY <1>1, <1>4
<1>5. CASE \E s \in Sessions : Outgoing!CloseSession(s)
  <2>1. PICK s \in Sessions : Outgoing!CloseSession(s)
    BY <1>5
  <2>2. /\ heard' = Outgoing!Without(s, heard)
        /\ Filed' = [b \in Ledgers |-> Outgoing!Without(s, Filed[b])]
    BY <2>1 DEF Outgoing!CloseSession, SeenRows, Filed
  <2> QED BY <1>1, <2>2 DEF Outgoing!Without
<1>6. CASE \E k \in InHand, b \in Ledgers : Outgoing!Book(k, b)
  <2>1. PICK k \in InHand, b \in Ledgers : Outgoing!Book(k, b)
    BY <1>6
  <2>2. k \in heard /\ heard' = heard /\ Filed' = [Filed EXCEPT ![b] = @ \cup {k}]
    BY <2>1 DEF Outgoing!Book, SeenRows, Filed
  <2>3. Filed \in [Ledgers -> {Filed[d] : d \in Ledgers}]
    BY DEF Filed
  <2> QED BY <1>1, <2>2, <2>3
<1>7. CASE \E k \in InHand : Outgoing!Arrive(k)
  BY <1>4, <1>7 DEF Outgoing!Arrive, SeenRows, Filed
<1>8. CASE \E s \in Sessions : Outgoing!OpenSession(s) \/ Outgoing!ChangeMind(s)
  BY <1>4, <1>8 DEF Outgoing!OpenSession, Outgoing!ChangeMind, Outgoing!ledger, SeenRows, Filed
<1>9. CASE Outgoing!BeginRound \/ Outgoing!EndRound \/ Outgoing!LetGo \/ UNCHANGED Outgoing!vars
  BY <1>4, <1>9 DEF Outgoing!BeginRound, Outgoing!EndRound, Outgoing!LetGo, Outgoing!vars,
     Outgoing!ledger, SeenRows, Filed
<1>10. CASE \E k \in InHand' : Outgoing!Claim(k)
  BY <1>4, <1>10 DEF Outgoing!Claim, SeenRows, Filed
<1> QED BY <1>5, <1>6, <1>7, <1>8, <1>9, <1>10 DEF Outgoing!Next

\* The books are true, whatever fails and whenever the process stops.  The proof
\* needs no step of the scheduler: it is the refinement that carries it over.
THEOREM BooksAreTrue == Spec => []RecordedIsHeard
<1>1. Outgoing!Init => RecordedIsHeard
  <2> SUFFICES ASSUME Outgoing!Init PROVE RecordedIsHeard
    OBVIOUS
  <2>1. Filed = [b \in Ledgers |-> {}]
    BY DEF Outgoing!Init, Filed
  <2>2. \A b \in Ledgers : KeysOf(InLedger(b)) = {}
    BY <2>1 DEF Filed
  <2> QED BY <2>2 DEF RecordedIsHeard
<1>2. RecordedIsHeard /\ [Outgoing!Next]_Outgoing!vars => RecordedIsHeard'
  BY RecordedStep
<1> QED BY <1>1, <1>2, DeliveryImplementsOutbox, PTL DEF ImplementsOutbox, Outgoing!Spec
=============================================================================
