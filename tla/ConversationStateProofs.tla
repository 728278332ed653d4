------------------------ MODULE ConversationStateProofs ------------------------
(***************************************************************************)
(* The conversation state for any number of messages, reviews, workers and *)
(* failures: the state is well typed, a stop keeps its pause, and reviews  *)
(* yield to newer messages, calm the reply under way and are skipped only  *)
(* for a reason, as far as no write of the row overtakes another.          *)
(***************************************************************************)
EXTENDS ConversationState, TLAPS

-----------------------------------------------------------------------------
(* What the rules do to a state.                                           *)

\* Adding to a count gives a count.
LEMMA Sums ==
  ASSUME NEW m \in Nat, NEW n \in Nat
  PROVE  m + n \in Nat /\ m >= m
OBVIOUS

\* The later of two turns is one, and before neither.
LEMMA LaterBounds ==
  ASSUME NEW m \in Nat, NEW n \in Nat
  PROVE  Later(m, n) \in Nat /\ Later(m, n) >= m /\ Later(m, n) >= n
BY DEF Later

\* The fast rules never lower a lock, a pause reaches as far as it says, and a
\* locked state becomes neutral unless the message asks for more.
LEMMA FastRules ==
  ASSUME NEW state \in States, NEW turn \in Nat, NEW signal \in Signals
  PROVE  LET next == FastState(state, turn, signal)
         IN  /\ next \in States
             /\ next.lock >= state.lock
             /\ next.revision = state.revision
             /\ signal.pause > 0 => next.lock >= turn + signal.pause
             /\ turn < state.lock /\ signal.phase \notin {"flirty", "sexual"}
                  => next.phase = "neutral"
             /\ signal.pause \in Nat
<1> DEFINE next == FastState(state, turn, signal)
           phase == IF signal.pause > 0 THEN "neutral" ELSE Steered(state, turn, signal)
           lock == IF signal.pause > 0 THEN Later(state.lock, turn + signal.pause)
                                       ELSE state.lock
<1>1. signal.pause \in Nat /\ signal.phase \in {"", "neutral", "flirty", "sexual"}
  <2>1. Pause \in Nat /\ 0 \in Nat
    BY CountsAreNumbers
  <2>2. NoSignal \in [phase: {""}, pause: {0}]
    BY DEF NoSignal
  <2>3. ASSUME NEW A, NEW B, signal \in [phase: A, pause: B]
        PROVE  signal.phase \in A /\ signal.pause \in B
    BY <2>3
  <2>4. CASE signal \in [phase: {""}, pause: {0}]
    BY <2>1, <2>3, <2>4, Zenon
  <2>5. CASE signal \in [phase: {"neutral", "flirty", "sexual"}, pause: {0}]
    BY <2>1, <2>3, <2>5, Zenon
  <2>6. CASE signal \in [phase: {"neutral"}, pause: {Pause}]
    BY <2>1, <2>3, <2>6, Zenon
  <2> QED BY <2>2, <2>4, <2>5, <2>6, Zenon DEF Signals
<1>2. state.lock \in Nat /\ state.phase \in Phases /\ state.revision \in Nat
  BY DEF States
<1>3. phase \in Phases
  BY <1>1, <1>2 DEF Steered, Settled, Redirected, Phases
<1>4. lock \in Nat /\ lock >= state.lock /\ (signal.pause > 0 => lock >= turn + signal.pause)
  <2>1. turn + signal.pause \in Nat /\ state.lock >= state.lock
    BY <1>1, <1>2, Sums, Zenon
  <2>2. /\ Later(state.lock, turn + signal.pause) \in Nat
        /\ Later(state.lock, turn + signal.pause) >= state.lock
        /\ Later(state.lock, turn + signal.pause) >= turn + signal.pause
    BY <1>2, <2>1, LaterBounds, Zenon
  <2> QED BY <1>2, <2>1, <2>2, Zenon
<1>5. turn < state.lock /\ signal.phase \notin {"flirty", "sexual"} => phase = "neutral"
  BY <1>1, <1>2 DEF Steered, Settled, MustCalm, Redirected, Phases
<1>6. next = [state EXCEPT !.phase = phase, !.lock = lock]
  BY DEF FastState
<1>7. /\ next \in States
      /\ next.phase = phase /\ next.lock = lock /\ next.revision = state.revision
  <2> HIDE DEF phase, lock, next
  <2> QED BY <1>3, <1>4, <1>6 DEF States
<1> QED BY <1>1, <1>4, <1>5, <1>7

\* A review never lowers a lock either, and leaves the revision to Stamped.
LEMMA ReviewRules ==
  ASSUME NEW state \in States, NEW turn \in Nat, NEW result \in Results
  PROVE  LET next == ReviewedState(state, turn, result)
         IN  /\ next \in States
             /\ next.lock >= state.lock
             /\ next.revision = state.revision
<1> DEFINE next == ReviewedState(state, turn, result)
           phase == CASE result.phase # "unchanged" -> result.phase
                      [] result.deescalate -> "neutral"
                      [] OTHER -> state.phase
           lock == IF result.deescalate /\ result.turns > 0
                   THEN Later(state.lock, turn + result.turns) ELSE state.lock
<1>1. /\ result.turns \in Nat
      /\ result.phase \in {"unchanged", "neutral", "flirty"}
  <2>1. /\ result.turns \in {0} \cup LockTurns
        /\ result.phase \in {"unchanged", "neutral", "flirty"}
    BY DEF Results
  <2>2. {0} \cup LockTurns \subseteq Nat
    BY TurnsAreNumbers
  <2> QED BY <2>1, <2>2, Zenon
<1>2. state.lock \in Nat /\ state.phase \in Phases /\ state.revision \in Nat
  BY DEF States
<1>3. phase \in Phases
  BY <1>1, <1>2 DEF Phases
<1>4. lock \in Nat /\ lock >= state.lock
  <2>1. turn + result.turns \in Nat /\ state.lock >= state.lock
    BY <1>1, <1>2, Sums, Zenon
  <2>2. /\ Later(state.lock, turn + result.turns) \in Nat
        /\ Later(state.lock, turn + result.turns) >= state.lock
    BY <1>2, <2>1, LaterBounds, Zenon
  <2> QED BY <1>2, <2>1, <2>2, Zenon
<1>5. next = [state EXCEPT !.phase = phase, !.lock = lock]
  BY DEF ReviewedState
<1>6. next \in States /\ next.lock = lock /\ next.revision = state.revision
  <2> HIDE DEF phase, lock, next
  <2> QED BY <1>3, <1>4, <1>5 DEF States
<1> QED BY <1>4, <1>6

\* A write counts the revision up and names its source, and changes nothing else.
LEMMA Stamps ==
  ASSUME NEW state \in States, NEW source \in Nat
  PROVE  /\ Stamped(state, source) \in States
         /\ Stamped(state, source).revision = state.revision + 1
         /\ Stamped(state, source).source = source
         /\ Stamped(state, source).phase = state.phase
         /\ Stamped(state, source).lock = state.lock
<1> DEFINE revision == state.revision + 1
           next == [state EXCEPT !.revision = revision, !.source = source]
<1>1. state.revision \in Nat
  BY DEF States
<1>2. revision \in Nat
  BY <1>1
<1>3. /\ next \in States
      /\ next.revision = revision /\ next.source = source
      /\ next.phase = state.phase /\ next.lock = state.lock
  <2> HIDE DEF revision
  <2> QED BY <1>2 DEF States
<1>4. next = Stamped(state, source)
  BY DEF Stamped
<1> HIDE DEF next
<1> QED BY <1>3, <1>4

-----------------------------------------------------------------------------
(* What each action does to the locals it assigns.                         *)

\* A handler's step moves its own program counter only.
LEMMA GotoMoves ==
  ASSUME TypeOK, NEW i \in Inputs, NEW step \in Steps, Goto(i, step)
  PROVE  /\ pc' \in [Inputs -> Steps]
         /\ pc'[i] = step
         /\ \A j \in Inputs : j # i => pc'[j] = pc[j]
BY DEF TypeOK, Goto

\* Moving a task keeps its copy of the row.
LEMMA ReviewMoves ==
  ASSUME TypeOK, NEW i \in Inputs, NEW stage \in Waiting \cup InHand \cup Ended,
         MoveReview(i, stage)
  PROVE  /\ review' \in [Inputs -> Reviews]
         /\ review'[i].stage = stage
         /\ review'[i].state = review[i].state
         /\ review'[i].seen = review[i].seen
         /\ \A j \in Inputs : j # i => review'[j] = review[j]
<1> DEFINE r == [review[i] EXCEPT !.stage = stage]
<1>1. review[i] \in Reviews
  BY DEF TypeOK
<1>2. /\ r \in Reviews
      /\ r.stage = stage /\ r.state = review[i].state /\ r.seen = review[i].seen
  BY <1>1 DEF Reviews
<1>3. review' = [review EXCEPT ![i] = r]
  BY DEF MoveReview
<1> HIDE DEF r
<1> QED BY <1>2, <1>3 DEF TypeOK

\* The locals of a handler that has its context.
LEMMA RecordMoves ==
  ASSUME TypeOK, NEW i \in Inputs, Record(i)
  PROVE  /\ handler' \in [Inputs -> Locals]
         /\ \A j \in Inputs : j # i => handler'[j] = handler[j]
         /\ handler'[i].turn = turns + 1
         /\ handler'[i].state = row
         /\ handler'[i].seen = writes
         /\ handler'[i].signal = handler[i].signal
         /\ handler'[i].failed = handler[i].failed
         /\ handler'[i].reloaded = handler[i].reloaded
         /\ handler'[i].saved => handler'[i].source = turns + 1
         /\ turns' \in Nat /\ turns' >= turns
<1>1. PICK saved \in BOOLEAN :
        /\ turns' = IF saved THEN turns + 1 ELSE turns
        /\ handler' = [handler EXCEPT ![i] =
             [@ EXCEPT !.turn = turns + 1,
                       !.source = IF saved THEN turns + 1 ELSE FirstUpdate + i,
                       !.saved = saved,
                       !.state = row,
                       !.seen = writes]]
  BY DEF Record
<1> DEFINE source == IF saved THEN turns + 1 ELSE FirstUpdate + i
           r == [handler[i] EXCEPT !.turn = turns + 1, !.source = source,
                                   !.saved = saved, !.state = row, !.seen = writes]
<1>2. source \in Nat /\ turns + 1 \in Nat /\ turns' \in Nat /\ turns' >= turns
  BY <1>1, CountsAreNumbers DEF TypeOK, Inputs
<1>3. handler[i] \in Locals /\ row \in States /\ writes \in Nat
  BY DEF TypeOK
<1>4. saved => source = turns + 1
  OBVIOUS
<1>5. /\ r \in Locals
      /\ r.turn = turns + 1 /\ r.state = row /\ r.seen = writes
      /\ r.saved = saved /\ r.source = source /\ r.signal = handler[i].signal
      /\ r.failed = handler[i].failed /\ r.reloaded = handler[i].reloaded
  <2> HIDE DEF source
  <2> QED BY <1>2, <1>3 DEF Locals
<1>6. handler' = [handler EXCEPT ![i] = r]
  BY <1>1
<1> HIDE DEF r, source
<1>7. handler'[i] = r /\ handler' \in [Inputs -> Locals]
      /\ \A j \in Inputs : j # i => handler'[j] = handler[j]
  BY <1>5, <1>6 DEF TypeOK
<1> QED BY <1>2, <1>4, <1>5, <1>7

\* The fast rules leave the row alone, write it, or fail to.
LEMMA ApplyMoves ==
  ASSUME TypeOK, NEW i \in Inputs, ApplyFastState(i)
  PROVE  \E signal \in Signals :
           LET own == handler[i]
               next == Stamped(FastState(own.state, own.turn, signal), own.source)
           IN  /\ handler' \in [Inputs -> Locals]
               /\ \A j \in Inputs : j # i => handler'[j] = handler[j]
               /\ handler'[i].turn = own.turn
               /\ handler'[i].source = own.source
               /\ handler'[i].saved = own.saved
               /\ handler'[i].signal = signal
               /\ handler'[i].reloaded = own.reloaded
               /\ \/ /\ FastState(own.state, own.turn, signal) = own.state
                     /\ handler'[i].state = own.state /\ handler'[i].seen = own.seen
                     /\ UNCHANGED <<row, history>>
                  \/ /\ Upsert(next, own.seen)
                     /\ handler'[i].state = next /\ handler'[i].seen = writes + 1
                  \/ /\ handler'[i].failed
                     /\ handler'[i].state = own.state /\ handler'[i].seen = own.seen
                     /\ UNCHANGED <<row, history>>
<1>1. PICK signal \in Signals :
       LET own == handler[i]
           next == Stamped(FastState(own.state, own.turn, signal), own.source)
       IN  \/ /\ ~FastChanges(own.state, own.turn, signal)
              /\ handler' = [handler EXCEPT ![i] = [@ EXCEPT !.signal = signal]]
              /\ NoFault
              /\ UNCHANGED <<row, history>>
           \/ /\ FastChanges(own.state, own.turn, signal)
              /\ Upsert(next, own.seen)
              /\ handler' = [handler EXCEPT ![i] =
                   [@ EXCEPT !.signal = signal, !.state = next, !.seen = writes + 1]]
              /\ NoFault
           \/ /\ FastChanges(own.state, own.turn, signal)
              /\ Fault
              /\ handler' = [handler EXCEPT ![i] =
                   [@ EXCEPT !.signal = signal, !.failed = TRUE]]
              /\ UNCHANGED <<row, history>>
  BY DEF ApplyFastState
<1> DEFINE own == handler[i]
           fast == FastState(own.state, own.turn, signal)
           next == Stamped(fast, own.source)
           r1 == [own EXCEPT !.signal = signal]
           r2 == [own EXCEPT !.signal = signal, !.state = next, !.seen = writes + 1]
           r3 == [own EXCEPT !.signal = signal, !.failed = TRUE]
<1>2. own \in Locals /\ own.state \in States /\ own.turn \in Nat /\ own.source \in Nat
      /\ writes + 1 \in Nat
  BY DEF TypeOK, Locals
<1>3. next \in States
  BY <1>2, FastRules, Stamps
<1>4. ~FastChanges(own.state, own.turn, signal) => fast = own.state
  BY DEF FastChanges
<1> HIDE DEF own, next, fast
<1>5. /\ r1 \in Locals
      /\ r1.turn = own.turn /\ r1.source = own.source /\ r1.saved = own.saved
      /\ r1.signal = signal /\ r1.reloaded = own.reloaded
      /\ r1.state = own.state /\ r1.seen = own.seen
  BY <1>2 DEF Locals
<1>6. /\ r2 \in Locals
      /\ r2.turn = own.turn /\ r2.source = own.source /\ r2.saved = own.saved
      /\ r2.signal = signal /\ r2.reloaded = own.reloaded
      /\ r2.state = next /\ r2.seen = writes + 1
  BY <1>2, <1>3 DEF Locals
<1>7. /\ r3 \in Locals
      /\ r3.turn = own.turn /\ r3.source = own.source /\ r3.saved = own.saved
      /\ r3.signal = signal /\ r3.reloaded = own.reloaded
      /\ r3.state = own.state /\ r3.seen = own.seen /\ r3.failed
  BY <1>2 DEF Locals
<1>8. \/ /\ handler' = [handler EXCEPT ![i] = r1] /\ fast = own.state
         /\ UNCHANGED <<row, history>>
      \/ handler' = [handler EXCEPT ![i] = r2] /\ Upsert(next, own.seen)
      \/ handler' = [handler EXCEPT ![i] = r3] /\ UNCHANGED <<row, history>>
  BY <1>1, <1>4 DEF own, next, fast
<1> HIDE DEF r1, r2, r3
<1>9. handler \in [Inputs -> Locals]
  BY DEF TypeOK
<1>10. ASSUME NEW r \in Locals, handler' = [handler EXCEPT ![i] = r]
       PROVE  /\ handler' \in [Inputs -> Locals] /\ handler'[i] = r
              /\ \A j \in Inputs : j # i => handler'[j] = handler[j]
  BY <1>9, <1>10
<1>11. /\ handler' \in [Inputs -> Locals]
       /\ \A j \in Inputs : j # i => handler'[j] = handler[j]
       /\ \/ handler'[i] = r1 /\ fast = own.state /\ UNCHANGED <<row, history>>
          \/ handler'[i] = r2 /\ Upsert(next, own.seen)
          \/ handler'[i] = r3 /\ UNCHANGED <<row, history>>
  BY <1>5, <1>6, <1>7, <1>8, <1>10
<1> WITNESS signal \in Signals
<1> QED BY <1>5, <1>6, <1>7, <1>11 DEF own, next, fast

\* A restate reloads the row, or goes on with the old state.
LEMMA ReloadMoves ==
  ASSUME TypeOK, NEW i \in Inputs, Reload(i)
  PROVE  /\ handler' \in [Inputs -> Locals]
         /\ \A j \in Inputs : j # i => handler'[j] = handler[j]
         /\ handler'[i].turn = handler[i].turn
         /\ handler'[i].source = handler[i].source
         /\ handler'[i].saved = handler[i].saved
         /\ handler'[i].signal = handler[i].signal
         /\ handler'[i].failed = handler[i].failed
         /\ handler'[i].reloaded
         /\ \/ handler'[i].state = row /\ handler'[i].seen = writes
            \/ handler'[i].state = handler[i].state /\ handler'[i].seen = handler[i].seen
<1> DEFINE own == handler[i]
           r1 == [own EXCEPT !.state = row, !.seen = writes, !.reloaded = TRUE]
           r2 == [own EXCEPT !.reloaded = TRUE]
<1>1. handler \in [Inputs -> Locals] /\ own \in Locals /\ row \in States /\ writes \in Nat
  BY DEF TypeOK
<1>2. handler' = [handler EXCEPT ![i] = r1] \/ handler' = [handler EXCEPT ![i] = r2]
  BY DEF Reload
<1> HIDE DEF own
<1>3. /\ r1 \in Locals
      /\ r1.turn = own.turn /\ r1.source = own.source /\ r1.saved = own.saved
      /\ r1.signal = own.signal /\ r1.failed = own.failed /\ r1.reloaded
      /\ r1.state = row /\ r1.seen = writes
  BY <1>1 DEF Locals
<1>4. /\ r2 \in Locals
      /\ r2.turn = own.turn /\ r2.source = own.source /\ r2.saved = own.saved
      /\ r2.signal = own.signal /\ r2.failed = own.failed /\ r2.reloaded
      /\ r2.state = own.state /\ r2.seen = own.seen
  BY <1>1 DEF Locals
<1> HIDE DEF r1, r2
<1>5. ASSUME NEW r \in Locals, handler' = [handler EXCEPT ![i] = r]
      PROVE  /\ handler' \in [Inputs -> Locals] /\ handler'[i] = r
             /\ \A j \in Inputs : j # i => handler'[j] = handler[j]
  BY <1>1, <1>5
<1>6. /\ handler' \in [Inputs -> Locals]
      /\ \A j \in Inputs : j # i => handler'[j] = handler[j]
      /\ handler'[i] = r1 \/ handler'[i] = r2
  BY <1>2, <1>3, <1>4, <1>5
<1> QED BY <1>3, <1>4, <1>6 DEF own

\* The commit's read copies the row, leaves it to a newer message, or fails.
LEMMA ReadMoves ==
  ASSUME TypeOK, NEW i \in Inputs, ReadRow(i)
  PROVE  /\ review' \in [Inputs -> Reviews]
         /\ \A j \in Inputs : j # i => review'[j] = review[j]
         /\ \/ /\ review'[i].stage = "writing"
               /\ review'[i].state = row /\ review'[i].seen = writes
               /\ handler[i].source >= row.source
            \/ /\ review'[i].stage = "outdated"
               /\ handler[i].source < row.source
            \/ review'[i].stage = "failed"
<1>1. CASE review' = [review EXCEPT ![i] =
             [stage |-> "writing", state |-> row, seen |-> writes]]
           /\ handler[i].source >= row.source
  <2> DEFINE r == [stage |-> "writing", state |-> row, seen |-> writes]
  <2>1. /\ r \in Reviews
        /\ r.stage = "writing" /\ r.state = row /\ r.seen = writes
    BY DEF TypeOK, Reviews, InHand
  <2>2. review' = [review EXCEPT ![i] = r]
    BY <1>1
  <2> HIDE DEF r
  <2>3. /\ review' \in [Inputs -> Reviews] /\ review'[i] = r
        /\ \A j \in Inputs : j # i => review'[j] = review[j]
    BY <2>1, <2>2 DEF TypeOK
  <2> QED BY <1>1, <2>1, <2>3
<1>2. CASE MoveReview(i, "outdated") /\ handler[i].source < row.source
  <2>1. "outdated" \in Waiting \cup InHand \cup Ended
    BY DEF Ended
  <2> QED BY <1>2, <2>1, ReviewMoves
<1>3. CASE MoveReview(i, "failed")
  <2>1. "failed" \in Waiting \cup InHand \cup Ended
    BY DEF Ended
  <2> QED BY <1>3, <2>1, ReviewMoves
<1> QED BY <1>1, <1>2, <1>3 DEF ReadRow

\* A review leaves the row alone, or writes it with its own change.
LEMMA WriteMoves ==
  ASSUME TypeOK, NEW i \in Inputs, WriteRow(i)
  PROVE  /\ review' \in [Inputs -> Reviews]
         /\ \A j \in Inputs : j # i => review'[j] = review[j]
         /\ review'[i].stage \in {"done", "failed", "restating"}
         /\ \/ review'[i].stage # "restating" /\ UNCHANGED <<row, history>>
            \/ \E next \in States :
                 /\ Upsert(next, review[i].seen)
                 /\ next.lock >= review[i].state.lock
                 /\ next.revision = review[i].state.revision + 1
                 /\ next.source = handler[i].source
                 /\ review'[i].state = next
                 /\ review'[i].seen = writes + 1
<1>1. PICK result \in Results :
       LET own == review[i]
           turn == handler[i].turn
           next == Stamped(ReviewedState(own.state, turn, result), handler[i].source)
       IN  \/ /\ ~ReviewChanges(own.state, turn, result)
              /\ MoveReview(i, "done")
              /\ NoFault
              /\ UNCHANGED <<row, history>>
           \/ /\ ReviewChanges(own.state, turn, result)
              /\ Upsert(next, own.seen)
              /\ review' = [review EXCEPT ![i] =
                   [stage |-> IF Urgent(own.state, turn, result) THEN "restating" ELSE "done",
                    state |-> next, seen |-> writes + 1]]
              /\ NoFault
           \/ /\ ReviewChanges(own.state, turn, result)
              /\ MoveReview(i, "failed")
              /\ Fault
              /\ UNCHANGED <<row, history>>
  BY DEF WriteRow
<1> DEFINE old == review[i].state
           turn == handler[i].turn
           calmed == ReviewedState(old, turn, result)
           next == Stamped(calmed, handler[i].source)
           stage == IF Urgent(old, turn, result) THEN "restating" ELSE "done"
           r == [stage |-> stage, state |-> next, seen |-> writes + 1]
<1>2. /\ review[i] \in Reviews /\ handler[i] \in Locals
      /\ writes \in Nat /\ writes + 1 \in Nat
  BY DEF TypeOK
<1>3. old \in States /\ turn \in Nat /\ handler[i].source \in Nat
  BY <1>2 DEF Reviews, Locals
<1>4. calmed \in States /\ calmed.lock >= old.lock /\ calmed.revision = old.revision
  BY <1>3, ReviewRules
<1>5. /\ next \in States /\ next.lock >= old.lock
      /\ next.revision = old.revision + 1 /\ next.source = handler[i].source
  <2> HIDE DEF calmed, old
  <2>1. /\ next \in States /\ next.source = handler[i].source
        /\ next.revision = calmed.revision + 1 /\ next.lock = calmed.lock
    BY <1>3, <1>4, Stamps
  <2> QED BY <1>4, <2>1, Zenon
<1>6. stage \in {"done", "restating"} /\ stage \in Waiting \cup InHand \cup Ended
  BY DEF Ended, InHand
<1>7. CASE \/ MoveReview(i, "done") /\ UNCHANGED <<row, history>>
           \/ MoveReview(i, "failed") /\ UNCHANGED <<row, history>>
  <2>1. {"done", "failed"} \subseteq Waiting \cup InHand \cup Ended
    BY DEF Ended
  <2> QED BY <1>7, <2>1, ReviewMoves
<1>8. CASE Upsert(next, review[i].seen) /\ review' = [review EXCEPT ![i] = r]
  <2> HIDE DEF next, stage
  <2>1. r \in Reviews /\ r.stage = stage /\ r.state = next /\ r.seen = writes + 1
    BY <1>2, <1>5, <1>6 DEF Reviews
  <2> HIDE DEF r
  <2>2. /\ review' \in [Inputs -> Reviews] /\ review'[i] = r
        /\ \A j \in Inputs : j # i => review'[j] = review[j]
    BY <1>8, <2>1 DEF TypeOK
  <2> QED BY <1>5, <1>6, <1>8, <2>1, <2>2
<1> QED BY <1>1, <1>7, <1>8

\* A decided message publishes its source and offers its task.
LEMMA EnqueueMoves ==
  ASSUME TypeOK, NEW i \in Inputs, EnqueueReview(i)
  PROVE  /\ review' \in [Inputs -> Reviews]
         /\ \A j \in Inputs : j # i => review'[j] = review[j]
         /\ review'[i].stage \in {"queued", "dropped"}
         /\ review'[i].state = review[i].state /\ review'[i].seen = review[i].seen
         /\ queue' \in Seq(Inputs)
         /\ latest' \in Nat /\ latest' \in {latest, handler[i].source}
<1>1. {"queued", "dropped"} \subseteq Waiting \cup InHand \cup Ended
  BY DEF Waiting, Ended
<1>2. MoveReview(i, "queued") \/ MoveReview(i, "dropped")
  BY DEF EnqueueReview, MoveReview
<1>3. queue' \in Seq(Inputs)
  <2>1. queue \in Seq(Inputs) /\ Append(queue, i) \in Seq(Inputs)
    BY DEF TypeOK
  <2> QED BY <2>1 DEF EnqueueReview
<1>4. latest \in Nat /\ handler[i].source \in Nat
  BY DEF TypeOK, Locals
<1>5. latest' \in Nat /\ latest' \in {latest, handler[i].source}
  BY <1>4 DEF EnqueueReview, Later
<1> QED BY <1>1, <1>2, <1>3, <1>5, ReviewMoves

-----------------------------------------------------------------------------
(* Types.                                                                  *)

\* Every reachable state is well typed.
THEOREM StateTypes == Spec => []TypeOK
<1>1. Init => TypeOK
  <2>1. InitialState \in States
    BY DEF InitialState, States, Phases
  <2>2. NoSignal \in Signals /\ NoLocals \in Locals
    <3>1. NoSignal \in Signals
      BY DEF Signals
    <3> HIDE DEF NoSignal, InitialState
    <3> QED BY <2>1, <3>1 DEF NoLocals, Locals
  <2>3. NoReview \in Reviews
    <3> HIDE DEF InitialState
    <3> QED BY <2>1 DEF NoReview, Reviews, Waiting
  <2>4. MaxFaults \in Nat /\ N \in Nat
    BY CountsAreNumbers
  <2> HIDE DEF InitialState, NoLocals, NoReview, NoHandle
  <2> SUFFICES ASSUME Init PROVE TypeOK
    OBVIOUS
  <2>5. /\ row \in States /\ handler \in [Inputs -> Locals]
        /\ review \in [Inputs -> Reviews] /\ active \in Handles \cup {NoHandle}
    BY <2>1, <2>2, <2>3 DEF Init
  <2>6. pc \in [Inputs -> Steps] /\ queue \in Seq(Inputs) /\ raced \in BOOLEAN
    <3>1. "arriving" \in Steps
      BY DEF Steps
    <3>2. pc \in [Inputs -> Steps]
      BY <3>1 DEF Init
    <3>3. queue = <<>> /\ raced = FALSE
      BY Zenon DEF Init
    <3>4. <<>> \in Seq(Inputs)
      OBVIOUS
    <3> QED BY <3>2, <3>3, <3>4
  <2>7. /\ turns \in Nat /\ mutex \in 0..N /\ latest \in Nat
        /\ faults \in 0..MaxFaults /\ writes \in Nat
    <3>1. 0 \in Nat /\ 0 \in 0..N /\ 0 \in 0..MaxFaults
      BY <2>4
    <3> QED BY <3>1, Zenon DEF Init
  <2> QED BY <2>5, <2>6, <2>7 DEF TypeOK
<1>2. TypeOK /\ [Next]_vars => TypeOK'
  <2> SUFFICES ASSUME TypeOK, [Next]_vars PROVE TypeOK'
    OBVIOUS
  <2>1. /\ row \in States /\ turns \in Nat
        /\ pc \in [Inputs -> Steps] /\ handler \in [Inputs -> Locals]
        /\ mutex \in 0..N /\ active \in Handles \cup {NoHandle}
        /\ latest \in Nat /\ queue \in Seq(Inputs) /\ review \in [Inputs -> Reviews]
        /\ faults \in 0..MaxFaults /\ writes \in Nat /\ raced \in BOOLEAN
    BY DEF TypeOK
  <2>2. MaxFaults \in Nat /\ N \in Nat /\ 0 \in 0..N /\ \A i \in Inputs : i \in 0..N
    BY CountsAreNumbers DEF Inputs
  <2>3. Fault \/ NoFault => faults' \in 0..MaxFaults
    BY <2>1, <2>2 DEF Fault, NoFault
  <2>4. ASSUME NEW i \in Inputs, NEW step \in Steps, Goto(i, step)
        PROVE  pc' \in [Inputs -> Steps]
    BY <2>4, GotoMoves
  <2>5. {"arriving", "locking", "deciding", "enqueueing", "beginning",
         "generating", "done"} \subseteq Steps
    BY DEF Steps
  <2>6. /\ Waiting \subseteq Waiting \cup InHand \cup Ended
        /\ {"superseded", "building", "reading", "failed", "done"}
             \subseteq Waiting \cup InHand \cup Ended
    BY DEF Waiting, InHand, Ended
  <2>7. ASSUME NEW handle \in Handles,
               NEW reason \in {"none", "new_input", "safety_restate"}
        PROVE  [handle EXCEPT !.reason = reason] \in Handles
    BY DEF Handles
  <2>8. NoHandle \in Handles \cup {NoHandle}
    OBVIOUS
  <2>9. ASSUME NEW next \in States, NEW seen \in Nat, Upsert(next, seen)
        PROVE  row' \in States /\ writes' \in Nat /\ raced' \in BOOLEAN
    BY <2>1, <2>9 DEF Upsert
  <2>10. ASSUME NEW i \in Inputs, Arrive(i) PROVE TypeOK'
    <3>1. active' \in Handles \cup {NoHandle}
      BY <2>1, <2>7, <2>10 DEF Arrive
    <3> QED BY <2>1, <2>4, <2>5, <2>10, <3>1
            DEF Arrive, TypeOK, runner, history
  <2>11. ASSUME NEW i \in Inputs, Record(i) PROVE TypeOK'
    <3>1. handler' \in [Inputs -> Locals] /\ turns' \in Nat
      BY <2>11, RecordMoves
    <3>2. faults' \in 0..MaxFaults
      BY <2>3, <2>11 DEF Record
    <3>3. mutex' \in 0..N
      BY <2>2, <2>11 DEF Record
    <3> QED BY <2>1, <2>4, <2>5, <2>11, <3>1, <3>2, <3>3
            DEF Record, TypeOK, runner, history
  <2>12. ASSUME NEW i \in Inputs, RecordFails(i) PROVE TypeOK'
    BY <2>1, <2>3, <2>4, <2>5, <2>12 DEF RecordFails, TypeOK, runner, history
  <2>13. ASSUME NEW i \in Inputs, ApplyFastState(i) PROVE TypeOK'
    <3>1. handler' \in [Inputs -> Locals]
      BY <2>13, ApplyMoves
    <3>2. faults' \in 0..MaxFaults
      BY <2>3, <2>13 DEF ApplyFastState
    <3>3. row' \in States /\ writes' \in Nat /\ raced' \in BOOLEAN
      <4>1. /\ handler[i].state \in States /\ handler[i].turn \in Nat
            /\ handler[i].source \in Nat /\ handler[i].seen \in Nat
        BY <2>1 DEF Locals
      <4>2. ASSUME NEW signal \in Signals
            PROVE  Stamped(FastState(handler[i].state, handler[i].turn, signal),
                           handler[i].source) \in States
        BY <4>1, FastRules, Stamps
      <4>3. CASE UNCHANGED <<row, history>>
        BY <2>1, <4>3 DEF history
      <4>4. ASSUME NEW signal \in Signals,
                   Upsert(Stamped(FastState(handler[i].state, handler[i].turn, signal),
                                  handler[i].source), handler[i].seen)
            PROVE  row' \in States /\ writes' \in Nat /\ raced' \in BOOLEAN
        BY <2>9, <4>1, <4>2, <4>4
      <4> QED BY <2>13, <4>3, <4>4, ApplyMoves
    <3> QED BY <2>1, <2>4, <2>5, <2>13, <3>1, <3>2, <3>3
            DEF ApplyFastState, TypeOK, runner
  <2>14. ASSUME NEW i \in Inputs, EnqueueReview(i) PROVE TypeOK'
    <3>1. /\ review' \in [Inputs -> Reviews] /\ queue' \in Seq(Inputs)
          /\ latest' \in Nat
      BY <2>14, EnqueueMoves
    <3>2. mutex' \in 0..N
      BY <2>2, <2>14 DEF EnqueueReview
    <3> QED BY <2>1, <2>4, <2>5, <2>14, <3>1, <3>2
            DEF EnqueueReview, TypeOK, history
  <2>15. ASSUME NEW i \in Inputs, Begin(i) PROVE TypeOK'
    <3>1. active' \in Handles
      BY <2>15 DEF Begin, Handles
    <3> QED BY <2>1, <2>4, <2>5, <2>15, <3>1 DEF Begin, TypeOK, runner, history
  <2>16. ASSUME NEW i \in Inputs, EndReply(i) PROVE TypeOK'
    <3>1. active' \in Handles \cup {NoHandle}
      BY <2>1, <2>8, <2>16 DEF EndReply
    <3> QED BY <2>1, <2>4, <2>5, <2>16, <3>1 DEF EndReply, TypeOK, runner, history
  <2>17. ASSUME NEW i \in Inputs, Reload(i) PROVE TypeOK'
    <3>1. handler' \in [Inputs -> Locals]
      BY <2>17, ReloadMoves
    <3>2. faults' \in 0..MaxFaults
      BY <2>3, <2>17 DEF Reload
    <3>3. active' \in Handles \cup {NoHandle}
      BY <2>8, <2>17 DEF Reload
    <3> QED BY <2>1, <2>4, <2>5, <2>17, <3>1, <3>2, <3>3
            DEF Reload, TypeOK, runner, history
  <2>18. ASSUME NEW i \in Inputs, TakeReview(i) PROVE TypeOK'
    <3>1. review' \in [Inputs -> Reviews]
      BY <2>6, <2>18, ReviewMoves DEF TakeReview
    <3>2. queue' \in Seq(Inputs)
      BY <2>1, <2>18 DEF TakeReview
    <3> QED BY <2>1, <2>18, <3>1, <3>2 DEF TakeReview, TypeOK, history
  <2>19. ASSUME NEW i \in Inputs, BuildReview(i) PROVE TypeOK'
    <3>1. review' \in [Inputs -> Reviews]
      BY <2>6, <2>19, ReviewMoves DEF BuildReview
    <3>2. faults' \in 0..MaxFaults
      BY <2>3, <2>19 DEF BuildReview
    <3> QED BY <2>1, <2>19, <3>1, <3>2 DEF BuildReview, TypeOK, history
  <2>20. ASSUME NEW i \in Inputs, ReadRow(i) PROVE TypeOK'
    <3>1. review' \in [Inputs -> Reviews]
      BY <2>20, ReadMoves
    <3>2. faults' \in 0..MaxFaults
      BY <2>3, <2>20 DEF ReadRow
    <3> QED BY <2>1, <2>20, <3>1, <3>2 DEF ReadRow, TypeOK, history
  <2>21. ASSUME NEW i \in Inputs, WriteRow(i) PROVE TypeOK'
    <3>1. review' \in [Inputs -> Reviews]
      BY <2>21, WriteMoves
    <3>2. faults' \in 0..MaxFaults
      BY <2>3, <2>21 DEF WriteRow
    <3>3. row' \in States /\ writes' \in Nat /\ raced' \in BOOLEAN
      <4>1. review[i].seen \in Nat
        BY <2>1 DEF Reviews
      <4>2. CASE UNCHANGED <<row, history>>
        BY <2>1, <4>2 DEF history
      <4> QED BY <2>9, <2>21, <4>1, <4>2, WriteMoves
    <3> QED BY <2>1, <2>21, <3>1, <3>2, <3>3 DEF WriteRow, TypeOK
  <2>22. ASSUME NEW i \in Inputs, RequestSafetyRestate(i) PROVE TypeOK'
    <3>1. review' \in [Inputs -> Reviews]
      BY <2>6, <2>22, ReviewMoves DEF RequestSafetyRestate
    <3>2. active' \in Handles \cup {NoHandle}
      BY <2>1, <2>7, <2>22 DEF RequestSafetyRestate, MayRestate
    <3> QED BY <2>1, <2>22, <3>1, <3>2 DEF RequestSafetyRestate, TypeOK, history
  <2>23. CASE UNCHANGED vars
    BY <2>1, <2>23 DEF vars, runner, history, TypeOK
  <2> QED BY <2>10, <2>11, <2>12, <2>13, <2>14, <2>15, <2>16, <2>17, <2>18,
             <2>19, <2>20, <2>21, <2>22, <2>23
          DEF Next, HandleMessage, Review
<1> QED BY <1>1, <1>2, PTL DEF Spec

-----------------------------------------------------------------------------
(* What a step can do to one message.                                      *)

\* A message whose reply is under way, or over.
Late == {"beginning", "generating", "done"}
Unreviewed == {"arriving", "locking", "deciding", "enqueueing"}

\* A handler's locals change when it records its message, applies the fast
\* rules or reloads the row, and in no other step.
LEMMA HandlerSteps ==
  ASSUME TypeOK, [Next]_vars, NEW j \in Inputs
  PROVE  \/ /\ handler'[j] = handler[j]
            /\ \/ pc'[j] = pc[j]
               \/ pc[j] = "arriving" /\ pc'[j] = "locking"
               \/ pc[j] = "locking" /\ pc'[j] = "beginning"
               \/ EnqueueReview(j) /\ pc[j] = "enqueueing" /\ pc'[j] = "beginning"
               \/ pc[j] \in Late /\ pc'[j] \in Late
         \/ Record(j) /\ pc[j] = "locking" /\ pc'[j] = "deciding"
         \/ ApplyFastState(j) /\ pc[j] = "deciding" /\ pc'[j] = "enqueueing"
         \/ Reload(j) /\ pc[j] = "generating" /\ pc'[j] = "beginning"
<1>1. CASE UNCHANGED vars
  BY <1>1 DEF vars
<1>2. ASSUME NEW i \in Inputs, HandleMessage(i) \/ Review(i)
      PROVE  \/ UNCHANGED <<pc, handler>>
             \/ /\ UNCHANGED handler
                /\ \/ Arrive(i) \/ RecordFails(i) \/ EnqueueReview(i)
                   \/ Begin(i) \/ EndReply(i)
             \/ Record(i) \/ ApplyFastState(i) \/ Reload(i)
  BY <1>2 DEF HandleMessage, Review, Arrive, RecordFails, EnqueueReview, Begin, EndReply,
              TakeReview, BuildReview, ReadRow, WriteRow, RequestSafetyRestate
<1>3. {"locking", "beginning", "generating", "deciding", "enqueueing", "done"} \subseteq Steps
  BY DEF Steps
<1>4. ASSUME NEW i \in Inputs, NEW step \in Steps, Goto(i, step)
      PROVE  pc'[i] = step /\ \A k \in Inputs : k # i => pc'[k] = pc[k]
  BY <1>4, GotoMoves
<1>5. ASSUME NEW i \in Inputs, UNCHANGED handler,
             Arrive(i) \/ RecordFails(i) \/ EnqueueReview(i) \/ Begin(i) \/ EndReply(i)
      PROVE  /\ handler'[j] = handler[j]
             /\ \/ pc'[j] = pc[j]
                \/ pc[j] = "arriving" /\ pc'[j] = "locking"
                \/ pc[j] = "locking" /\ pc'[j] = "beginning"
                \/ EnqueueReview(j) /\ pc[j] = "enqueueing" /\ pc'[j] = "beginning"
                \/ pc[j] \in Late /\ pc'[j] \in Late
  <2>1. CASE Arrive(i)
    BY <1>3, <1>4, <1>5, <2>1 DEF Arrive
  <2>2. CASE RecordFails(i)
    BY <1>3, <1>4, <1>5, <2>2 DEF RecordFails
  <2>3. CASE EnqueueReview(i)
    <3>1. Goto(i, "beginning") /\ pc[i] = "enqueueing"
      BY <2>3 DEF EnqueueReview
    <3> QED BY <1>3, <1>4, <1>5, <2>3, <3>1
  <2>4. CASE Begin(i)
    BY <1>3, <1>4, <1>5, <2>4 DEF Begin, Late
  <2>5. CASE EndReply(i)
    BY <1>3, <1>4, <1>5, <2>5 DEF EndReply, Late
  <2> QED BY <1>5, <2>1, <2>2, <2>3, <2>4, <2>5
<1>6. ASSUME NEW i \in Inputs, Record(i)
      PROVE  /\ pc[i] = "locking" /\ pc'[i] = "deciding"
             /\ i # j => handler'[j] = handler[j] /\ pc'[j] = pc[j]
  <2>1. Goto(i, "deciding") /\ pc[i] = "locking"
    BY <1>6 DEF Record
  <2> QED BY <1>3, <1>4, <1>6, <2>1, RecordMoves
<1>7. ASSUME NEW i \in Inputs, ApplyFastState(i)
      PROVE  /\ pc[i] = "deciding" /\ pc'[i] = "enqueueing"
             /\ i # j => handler'[j] = handler[j] /\ pc'[j] = pc[j]
  <2>1. Goto(i, "enqueueing") /\ pc[i] = "deciding"
    BY <1>7 DEF ApplyFastState
  <2> QED BY <1>3, <1>4, <1>7, <2>1, ApplyMoves
<1>8. ASSUME NEW i \in Inputs, Reload(i)
      PROVE  /\ pc[i] = "generating" /\ pc'[i] = "beginning"
             /\ i # j => handler'[j] = handler[j] /\ pc'[j] = pc[j]
  <2>1. Goto(i, "beginning") /\ pc[i] = "generating"
    BY <1>8 DEF Reload
  <2> QED BY <1>3, <1>4, <1>8, <2>1, ReloadMoves
<1>9. CASE Next
  <2>1. PICK i \in Inputs : HandleMessage(i) \/ Review(i)
    BY <1>9 DEF Next
  <2>2. CASE UNCHANGED <<pc, handler>>
    BY <2>2
  <2>3. CASE Record(i)
    BY <1>6, <2>3
  <2>4. CASE ApplyFastState(i)
    BY <1>7, <2>4
  <2>5. CASE Reload(i)
    BY <1>8, <2>5
  <2> QED BY <1>2, <1>5, <2>1, <2>2, <2>3, <2>4, <2>5
<1> QED BY <1>1, <1>9

\* The row is written by the fast rules and by reviews.
LEMMA RowSteps ==
  ASSUME [Next]_vars
  PROVE  \/ UNCHANGED <<row, history>>
         \/ \E i \in Inputs : ApplyFastState(i) /\ UNCHANGED review
         \/ \E i \in Inputs : WriteRow(i) /\ UNCHANGED handler
<1>1. CASE UNCHANGED vars
  BY <1>1 DEF vars
<1>2. CASE Next
  <2>1. PICK i \in Inputs : HandleMessage(i) \/ Review(i)
    BY <1>2 DEF Next
  <2>2. CASE ApplyFastState(i)
    BY <2>2 DEF ApplyFastState, runner
  <2>3. CASE WriteRow(i)
    BY <2>3 DEF WriteRow
  <2>4. CASE ~ApplyFastState(i) /\ ~WriteRow(i)
    BY <2>1, <2>4 DEF HandleMessage, Review, Arrive, Record, RecordFails,
              EnqueueReview, Begin, EndReply, Reload, TakeReview, BuildReview, ReadRow,
              RequestSafetyRestate
  <2> QED BY <2>2, <2>3, <2>4
<1> QED BY <1>1, <1>2

\* The task of a message is changed by its own steps only.
LEMMA ReviewSteps ==
  ASSUME TypeOK, [Next]_vars, NEW j \in Inputs
  PROVE  \/ review'[j] = review[j]
         \/ \/ EnqueueReview(j) \/ TakeReview(j) \/ BuildReview(j) \/ ReadRow(j)
            \/ WriteRow(j) \/ RequestSafetyRestate(j)
<1>1. CASE UNCHANGED vars
  BY <1>1 DEF vars, runner
<1>2. ASSUME NEW i \in Inputs, HandleMessage(i) \/ Review(i)
      PROVE  \/ UNCHANGED review
             \/ \/ EnqueueReview(i) \/ TakeReview(i) \/ BuildReview(i) \/ ReadRow(i)
                \/ WriteRow(i) \/ RequestSafetyRestate(i)
  <2>1. CASE HandleMessage(i)
    BY <2>1 DEF HandleMessage, Arrive, Record, RecordFails, ApplyFastState,
                Begin, EndReply, Reload, runner
  <2> QED BY <1>2, <2>1 DEF Review
<1>3. ASSUME NEW i \in Inputs, i # j,
             \/ TakeReview(i) \/ BuildReview(i) \/ RequestSafetyRestate(i)
      PROVE  review'[j] = review[j]
  <2>1. {"superseded", "building", "reading", "failed", "done"}
          \subseteq Waiting \cup InHand \cup Ended
    BY DEF InHand, Ended
  <2>2. PICK stage \in Waiting \cup InHand \cup Ended : MoveReview(i, stage)
    BY <1>3, <2>1 DEF TakeReview, BuildReview, RequestSafetyRestate
  <2> QED BY <1>3, <2>2, ReviewMoves
<1>4. ASSUME NEW i \in Inputs, i # j, EnqueueReview(i) \/ ReadRow(i) \/ WriteRow(i)
      PROVE  review'[j] = review[j]
  BY <1>4, EnqueueMoves, ReadMoves, WriteMoves
<1>5. CASE Next
  <2>1. PICK i \in Inputs : HandleMessage(i) \/ Review(i)
    BY <1>5 DEF Next
  <2> QED BY <1>2, <1>3, <1>4, <2>1
<1> QED BY <1>1, <1>5

-----------------------------------------------------------------------------
(* The inductive invariants, each resting on the ones before it.           *)

\* A message's locals are set once, under the chat mutex, and turns are
\* counted in that order.
TurnsInv ==
  /\ \A i \in Inputs : pc[i] \in {"arriving", "locking"} => handler[i] = NoLocals
  /\ \A i \in Inputs : pc[i] \in {"deciding", "enqueueing"} => mutex = i /\ Recorded(i)
  /\ \A i \in Inputs : handler[i].turn <= turns + 1
  /\ \A i, k \in Inputs : pc[i] = "deciding" => handler[k].turn <= handler[i].turn
  /\ \A i \in Inputs : handler[i].saved => handler[i].source = handler[i].turn

\* Whoever has seen the last write holds the row.
ReadsInv ==
  /\ \A i \in Inputs : handler[i].seen <= writes /\ review[i].seen <= writes
  /\ \A i \in Inputs : handler[i].seen = writes => handler[i].state = row
  /\ \A i \in Inputs : review[i].seen = writes => review[i].state = row

\* As long as no write overtook another, revisions count the writes.
RevisionsInv ==
  ~raced =>
    /\ row.revision = writes
    /\ \A i \in Inputs : handler[i].state.revision = handler[i].seen
    /\ \A i \in Inputs : review[i].state.revision = review[i].seen

\* A task is given to the runner after its handler's decision, and a review
\* that is about to write has found no newer decision.
ReviewsInv ==
  /\ \A i \in Inputs : pc[i] \in Unreviewed => review[i].stage = "none"
  /\ \A n \in 1..Len(queue) : pc[queue[n]] \notin Unreviewed /\ Recorded(queue[n])
  /\ \A i \in Inputs : review[i].stage # "none" => Recorded(i)
  /\ \A i \in Inputs : review[i].stage = "writing" =>
       handler[i].source >= review[i].state.source

\* The lock of a stop stays in the row, and reaches whoever decides next.
StopsInv ==
  ~raced =>
    /\ \A i \in Inputs : Stopped(i) =>
         row.lock >= handler[i].turn + handler[i].signal.pause
    /\ \A i, k \in Inputs : Stopped(i) /\ pc[k] = "deciding" =>
         handler[k].state.lock >= handler[i].turn + handler[i].signal.pause
    /\ \A k \in Inputs : pc[k] = "deciding" => row.lock >= handler[k].state.lock

\* Versions and the row's source come from messages that were recorded.
SourcesInv ==
  /\ latest = 0 \/ \E k \in Inputs : Recorded(k) /\ latest = handler[k].source
  /\ row.source = 0 \/ \E k \in Inputs : Recorded(k) /\ row.source = handler[k].source

\* Turns follow the order of the chat mutex.
LEMMA TurnsStep == TypeOK /\ TypeOK' /\ TurnsInv /\ [Next]_vars => TurnsInv'
<1> SUFFICES ASSUME TypeOK, TypeOK', TurnsInv, [Next]_vars PROVE TurnsInv'
  OBVIOUS
<1> DEFINE holds == {"deciding", "enqueueing"}
<1>1. /\ turns \in Nat /\ turns' \in Nat
      /\ \A j \in Inputs : handler[j].turn \in Nat /\ handler'[j].turn \in Nat
  BY DEF TypeOK, Locals
<1>2. /\ \A j \in Inputs : pc[j] \in holds => mutex = j
      /\ \A j \in Inputs : j # 0
  BY DEF TurnsInv, Inputs
<1>3. ASSUME NEW i \in Inputs, Record(i)
      PROVE  \A j \in Inputs : pc[j] \notin holds
  BY <1>2, <1>3 DEF Record
<1>4. ASSUME NEW j \in Inputs, ~Record(j)
      PROVE  /\ handler'[j].turn = handler[j].turn
             /\ handler'[j].source = handler[j].source
             /\ handler'[j].saved = handler[j].saved
             /\ pc'[j] = "deciding" => pc[j] = "deciding"
             /\ pc'[j] \in {"arriving", "locking"} =>
                  pc[j] \in {"arriving", "locking"} /\ handler'[j] = handler[j]
             /\ pc'[j] \in holds => pc[j] \in holds
  BY <1>4, HandlerSteps, ApplyMoves, ReloadMoves DEF Late
<1>5. turns' >= turns /\ (mutex' = mutex \/ (\E i \in Inputs : Record(i) \/ EnqueueReview(i)))
  <2>1. CASE UNCHANGED <<turns, mutex>>
    BY <1>1, <2>1
  <2>2. CASE \E i \in Inputs : Record(i)
    BY <2>2, RecordMoves
  <2>3. CASE \E i \in Inputs : EnqueueReview(i)
    BY <1>1, <2>3 DEF EnqueueReview
  <2> QED BY <2>1, <2>2, <2>3
          DEF Next, vars, HandleMessage, Review, Arrive, RecordFails, ApplyFastState,
              Begin, EndReply, Reload, TakeReview, BuildReview, ReadRow, WriteRow,
              RequestSafetyRestate
<1>6. ASSUME NEW i \in Inputs, EnqueueReview(i)
      PROVE  pc'[i] \notin holds
  <2>1. Goto(i, "beginning") /\ "beginning" \in Steps
    BY <1>6 DEF EnqueueReview, Steps
  <2> QED BY <2>1, GotoMoves
<1>7. ASSUME NEW i \in Inputs, pc'[i] \in {"arriving", "locking"}
      PROVE  handler'[i] = NoLocals
  <2>1. ~Record(i)
    <3>1. "deciding" \in Steps
      BY DEF Steps
    <3> QED BY <1>7, <3>1, GotoMoves DEF Record
  <2> QED BY <1>4, <1>7, <2>1 DEF TurnsInv
<1>8. ASSUME NEW i \in Inputs, pc'[i] \in holds
      PROVE  mutex' = i /\ Recorded(i)'
  <2>1. CASE Record(i)
    <3>1. mutex' = i
      BY <2>1 DEF Record
    <3>2. handler'[i].turn = turns + 1
      BY <2>1, RecordMoves
    <3> QED BY <1>1, <3>1, <3>2 DEF Recorded
  <2>2. CASE ~Record(i)
    <3>1. mutex = i /\ handler[i].turn > 0 /\ pc[i] \in holds
      BY <1>4, <1>8, <2>2 DEF TurnsInv, Recorded
    <3>2. \A k \in Inputs : ~Record(k)
      BY <1>3, <3>1
    <3>3. \A k \in Inputs : ~EnqueueReview(k)
      <4>1. SUFFICES ASSUME NEW k \in Inputs, EnqueueReview(k) PROVE FALSE
        OBVIOUS
      <4>2. k = i
        BY <1>2, <3>1, <4>1 DEF EnqueueReview
      <4> QED BY <1>6, <1>8, <4>1, <4>2
    <3> QED BY <1>4, <1>5, <2>2, <3>1, <3>2, <3>3 DEF Recorded
  <2> QED BY <2>1, <2>2
<1>9. ASSUME NEW i \in Inputs PROVE handler'[i].turn <= turns' + 1
  <2>1. CASE Record(i)
    BY <1>1, <2>1, RecordMoves
  <2>2. CASE ~Record(i)
    <3>1. handler'[i].turn <= turns + 1
      BY <1>4, <2>2 DEF TurnsInv
    <3> QED BY <1>1, <1>5, <3>1
  <2> QED BY <2>1, <2>2
<1>10. ASSUME NEW i \in Inputs, NEW k \in Inputs, pc'[i] = "deciding"
       PROVE  handler'[k].turn <= handler'[i].turn
  <2>1. CASE Record(i)
    <3>1. handler'[i].turn = turns + 1 /\ (k # i => handler'[k] = handler[k])
      BY <2>1, RecordMoves
    <3>2. handler[k].turn <= turns + 1
      BY DEF TurnsInv
    <3> QED BY <1>1, <3>1, <3>2
  <2>2. CASE ~Record(i)
    <3>1. pc[i] = "deciding" /\ handler'[i].turn = handler[i].turn
      BY <1>4, <1>10, <2>2
    <3>2. handler'[k].turn = handler[k].turn
      BY <1>3, <1>4, <3>1
    <3> QED BY <3>1, <3>2 DEF TurnsInv
  <2> QED BY <2>1, <2>2
<1>11. ASSUME NEW i \in Inputs, handler'[i].saved
       PROVE  handler'[i].source = handler'[i].turn
  <2>1. CASE Record(i)
    BY <1>11, <2>1, RecordMoves
  <2>2. CASE ~Record(i)
    BY <1>4, <1>11, <2>2 DEF TurnsInv
  <2> QED BY <2>1, <2>2
<1> QED BY <1>7, <1>8, <1>9, <1>10, <1>11 DEF TurnsInv

\* TurnsInv holds in every reachable state.
LEMMA Turns == Spec => []TurnsInv
<1>1. Init => TurnsInv
  <2>1. NoLocals.turn = 0 /\ NoLocals.saved = FALSE
    BY DEF NoLocals
  <2> SUFFICES ASSUME Init PROVE TurnsInv
    OBVIOUS
  <2>2. /\ \A i \in Inputs : pc[i] = "arriving" /\ handler[i] = NoLocals
        /\ turns = 0
    BY DEF Init
  <2> HIDE DEF NoLocals
  <2> QED BY <2>1, <2>2 DEF TurnsInv
<1> QED BY <1>1, TurnsStep, StateTypes, PTL DEF Spec

\* A copy of the row is kept as it is, or is the row as the step leaves it.
LEMMA CopiesOfTheRow ==
  ASSUME TypeOK, [Next]_vars, NEW j \in Inputs
  PROVE  /\ \/ handler'[j].state = handler[j].state /\ handler'[j].seen = handler[j].seen
            \/ handler'[j].state = row' /\ handler'[j].seen = writes'
         /\ \/ review'[j].state = review[j].state /\ review'[j].seen = review[j].seen
            \/ review'[j].state = row' /\ review'[j].seen = writes'
<1>1. \/ handler'[j].state = handler[j].state /\ handler'[j].seen = handler[j].seen
      \/ handler'[j].state = row' /\ handler'[j].seen = writes'
  <2>1. CASE handler'[j] = handler[j]
    BY <2>1
  <2>2. CASE Record(j)
    <3>1. UNCHANGED <<row, writes>>
      BY <2>2 DEF Record, history
    <3> QED BY <2>2, <3>1, RecordMoves
  <2>3. CASE ApplyFastState(j)
    BY <2>3, ApplyMoves DEF Upsert
  <2>4. CASE Reload(j)
    <3>1. UNCHANGED <<row, writes>>
      BY <2>4 DEF Reload, history
    <3> QED BY <2>4, <3>1, ReloadMoves
  <2> QED BY <2>1, <2>2, <2>3, <2>4, HandlerSteps
<1>2. \/ review'[j].state = review[j].state /\ review'[j].seen = review[j].seen
      \/ review'[j].state = row' /\ review'[j].seen = writes'
  <2>1. CASE review'[j] = review[j]
    BY <2>1
  <2>2. CASE TakeReview(j) \/ BuildReview(j) \/ RequestSafetyRestate(j)
    <3>1. {"superseded", "building", "reading", "failed", "done"}
            \subseteq Waiting \cup InHand \cup Ended
      BY DEF InHand, Ended
    <3>2. PICK stage \in Waiting \cup InHand \cup Ended : MoveReview(j, stage)
      BY <2>2, <3>1 DEF TakeReview, BuildReview, RequestSafetyRestate
    <3> QED BY <3>2, ReviewMoves
  <2>3. CASE EnqueueReview(j)
    BY <2>3, EnqueueMoves
  <2>4. CASE ReadRow(j)
    <3>1. UNCHANGED <<row, writes>>
      BY <2>4 DEF ReadRow, history
    <3>2. \/ review' = [review EXCEPT ![j] =
               [stage |-> "writing", state |-> row, seen |-> writes]]
          \/ MoveReview(j, "outdated") \/ MoveReview(j, "failed")
      BY <2>4 DEF ReadRow
    <3>3. {"outdated", "failed"} \subseteq Waiting \cup InHand \cup Ended
      BY DEF Ended
    <3>4. review \in [Inputs -> Reviews]
      BY DEF TypeOK
    <3> QED BY <3>1, <3>2, <3>3, <3>4, ReviewMoves
  <2>5. CASE WriteRow(j)
    <3>1. CASE \E next \in States :
                 /\ Upsert(next, review[j].seen)
                 /\ review'[j].state = next
                 /\ review'[j].seen = writes + 1
      BY <3>1 DEF Upsert
    <3>2. CASE MoveReview(j, "done") \/ MoveReview(j, "failed")
      <4>1. {"done", "failed"} \subseteq Waiting \cup InHand \cup Ended
        BY DEF Ended
      <4> QED BY <3>2, <4>1, ReviewMoves
    <3>3. MoveReview(j, "done") \/ MoveReview(j, "failed") \/ row' # row \/ writes' = writes + 1
      BY <2>5 DEF WriteRow, Upsert
    <3>4. UNCHANGED <<row, history>> => MoveReview(j, "done") \/ MoveReview(j, "failed")
      <4>1. writes \in Nat
        BY DEF TypeOK
      <4>2. UNCHANGED <<row, history>> => row' = row /\ writes' = writes
        BY DEF history
      <4>3. writes + 1 # writes
        BY <4>1
      <4> QED BY <3>3, <4>2, <4>3
    <3> QED BY <2>5, <3>1, <3>2, <3>4, WriteMoves
  <2> QED BY <2>1, <2>2, <2>3, <2>4, <2>5, ReviewSteps
<1> QED BY <1>1, <1>2

\* A write that has seen the row counts it up and never lowers its lock.
LEMMA WritesOfTheRow ==
  ASSUME TypeOK, ReadsInv, [Next]_vars
  PROVE  \/ UNCHANGED <<row, writes, raced>>
         \/ /\ writes' = writes + 1
            /\ ~raced' => /\ ~raced
                          /\ row'.revision = row.revision + 1
                          /\ row'.lock >= row.lock
<1>1. CASE UNCHANGED <<row, history>>
  BY <1>1 DEF history
<1>2. ASSUME NEW i \in Inputs, ApplyFastState(i)
      PROVE  \/ UNCHANGED <<row, writes, raced>>
             \/ /\ writes' = writes + 1
                /\ ~raced' => /\ ~raced
                              /\ row'.revision = row.revision + 1
                              /\ row'.lock >= row.lock
  <2> DEFINE own == handler[i]
  <2>1. own.state \in States /\ own.turn \in Nat /\ own.source \in Nat
    BY DEF TypeOK, Locals
  <2>2. own.seen = writes => own.state = row
    BY DEF ReadsInv
  <2> HIDE DEF own
  <2>3. PICK signal \in Signals :
          \/ UNCHANGED <<row, history>>
          \/ Upsert(Stamped(FastState(own.state, own.turn, signal), own.source), own.seen)
    BY <1>2, ApplyMoves DEF own
  <2> DEFINE fast == FastState(own.state, own.turn, signal)
             next == Stamped(fast, own.source)
  <2>4. fast \in States /\ fast.lock >= own.state.lock
        /\ fast.revision = own.state.revision
    BY <2>1, FastRules
  <2>5. next.lock >= own.state.lock /\ next.revision = own.state.revision + 1
    <3> HIDE DEF fast
    <3>1. next.lock = fast.lock /\ next.revision = fast.revision + 1
      BY <2>1, <2>4, Stamps
    <3> QED BY <2>4, <3>1, Zenon
  <2>6. CASE UNCHANGED <<row, history>>
    BY <2>6 DEF history
  <2>7. CASE Upsert(next, own.seen)
    <3> HIDE DEF next
    <3> QED BY <2>2, <2>5, <2>7 DEF Upsert
  <2> QED BY <2>3, <2>6, <2>7
<1>3. ASSUME NEW i \in Inputs, WriteRow(i)
      PROVE  \/ UNCHANGED <<row, writes, raced>>
             \/ /\ writes' = writes + 1
                /\ ~raced' => /\ ~raced
                              /\ row'.revision = row.revision + 1
                              /\ row'.lock >= row.lock
  <2>1. review[i].seen = writes => review[i].state = row
    BY DEF ReadsInv
  <2>2. CASE UNCHANGED <<row, history>>
    BY <2>2 DEF history
  <2>3. ASSUME NEW next \in States, Upsert(next, review[i].seen),
               next.lock >= review[i].state.lock,
               next.revision = review[i].state.revision + 1
        PROVE  /\ writes' = writes + 1
               /\ ~raced' => /\ ~raced
                             /\ row'.revision = row.revision + 1
                             /\ row'.lock >= row.lock
    BY <2>1, <2>3 DEF Upsert
  <2> QED BY <1>3, <2>2, <2>3, WriteMoves
<1> QED BY <1>1, <1>2, <1>3, RowSteps

\* A step leaves ReadsInv true: only a write makes a copy old.
LEMMA ReadsStep == TypeOK /\ TypeOK' /\ ReadsInv /\ [Next]_vars => ReadsInv'
<1> SUFFICES ASSUME TypeOK, TypeOK', ReadsInv, [Next]_vars PROVE ReadsInv'
  OBVIOUS
<1>1. /\ writes \in Nat /\ writes' \in Nat
      /\ \A j \in Inputs : handler[j].seen \in Nat /\ review[j].seen \in Nat
      /\ \A j \in Inputs : handler'[j].seen \in Nat /\ review'[j].seen \in Nat
  BY DEF TypeOK, Locals, Reviews
<1>2. UNCHANGED <<row, writes>> \/ writes' = writes + 1
  BY WritesOfTheRow
<1> SUFFICES ASSUME NEW j \in Inputs
             PROVE  /\ handler'[j].seen <= writes' /\ review'[j].seen <= writes'
                    /\ handler'[j].seen = writes' => handler'[j].state = row'
                    /\ review'[j].seen = writes' => review'[j].state = row'
  BY DEF ReadsInv
<1>3. /\ handler[j].seen <= writes /\ review[j].seen <= writes
      /\ handler[j].seen = writes => handler[j].state = row
      /\ review[j].seen = writes => review[j].state = row
  BY DEF ReadsInv
<1> QED BY <1>1, <1>2, <1>3, CopiesOfTheRow

\* ReadsInv holds in every reachable state.
LEMMA Reads == Spec => []ReadsInv
<1>1. Init => ReadsInv
  <2>1. /\ NoLocals.seen = 0 /\ NoLocals.state = InitialState
        /\ NoReview.seen = 0 /\ NoReview.state = InitialState
    BY DEF NoLocals, NoReview
  <2> SUFFICES ASSUME Init PROVE ReadsInv
    OBVIOUS
  <2>2. /\ \A i \in Inputs : handler[i] = NoLocals /\ review[i] = NoReview
        /\ writes = 0 /\ row = InitialState
    BY DEF Init
  <2> HIDE DEF NoLocals, NoReview, InitialState
  <2> QED BY <2>1, <2>2 DEF ReadsInv
<1> QED BY <1>1, ReadsStep, StateTypes, PTL DEF Spec

\* RevisionsInv holds in every reachable state.
LEMMA Revisions == Spec => []RevisionsInv
<1>1. Init => RevisionsInv
  <2>1. /\ NoLocals.seen = 0 /\ NoLocals.state = InitialState
        /\ NoReview.seen = 0 /\ NoReview.state = InitialState
        /\ InitialState.revision = 0
    BY DEF NoLocals, NoReview, InitialState
  <2> SUFFICES ASSUME Init PROVE RevisionsInv
    OBVIOUS
  <2>2. /\ \A i \in Inputs : handler[i] = NoLocals /\ review[i] = NoReview
        /\ writes = 0 /\ row = InitialState
    BY DEF Init
  <2> HIDE DEF NoLocals, NoReview, InitialState
  <2> QED BY <2>1, <2>2 DEF RevisionsInv
<1>2. TypeOK /\ ReadsInv /\ RevisionsInv /\ [Next]_vars => RevisionsInv'
  <2> SUFFICES ASSUME TypeOK, ReadsInv, RevisionsInv, [Next]_vars, ~raced'
               PROVE  /\ row'.revision = writes'
                      /\ \A j \in Inputs : handler'[j].state.revision = handler'[j].seen
                      /\ \A j \in Inputs : review'[j].state.revision = review'[j].seen
    BY DEF RevisionsInv
  <2>1. ~raced /\ row'.revision = writes'
    BY WritesOfTheRow DEF RevisionsInv
  <2> QED BY <2>1, CopiesOfTheRow DEF RevisionsInv
<1> QED BY <1>1, <1>2, StateTypes, Reads, PTL DEF Spec

\* The queue grows by the message that is enqueued and shrinks at its head.
LEMMA QueueSteps ==
  ASSUME [Next]_vars
  PROVE  \/ queue' = queue
         \/ \E k \in Inputs : EnqueueReview(k) /\ queue' = Append(queue, k)
         \/ queue # <<>> /\ queue' = Tail(queue)
<1>1. CASE UNCHANGED vars
  BY <1>1 DEF vars, runner
<1>2. CASE Next
  <2>1. PICK i \in Inputs : HandleMessage(i) \/ Review(i)
    BY <1>2 DEF Next
  <2>2. CASE EnqueueReview(i)
    BY <2>2 DEF EnqueueReview
  <2>3. CASE TakeReview(i)
    BY <2>3 DEF TakeReview
  <2>4. CASE ~EnqueueReview(i) /\ ~TakeReview(i)
    BY <2>1, <2>4 DEF HandleMessage, Review, Arrive, Record, RecordFails, ApplyFastState,
              Begin, EndReply, Reload, BuildReview, ReadRow, WriteRow,
              RequestSafetyRestate, runner
  <2> QED BY <2>2, <2>3, <2>4
<1> QED BY <1>1, <1>2

\* A message that is recorded stays so, with the source it has.
LEMMA RecordedStays ==
  ASSUME TypeOK, TurnsInv, [Next]_vars, NEW j \in Inputs, Recorded(j)
  PROVE  /\ Recorded(j)'
         /\ handler'[j].turn = handler[j].turn
         /\ handler'[j].source = handler[j].source
         /\ handler'[j].saved = handler[j].saved
<1>1. NoLocals.turn = 0
  BY DEF NoLocals
<1>2. ~Record(j)
  <2>1. pc[j] # "locking"
    <3> HIDE DEF NoLocals
    <3> QED BY <1>1 DEF TurnsInv, Recorded
  <2> QED BY <2>1 DEF Record
<1>3. /\ handler'[j].turn = handler[j].turn
      /\ handler'[j].source = handler[j].source
      /\ handler'[j].saved = handler[j].saved
  BY <1>2, HandlerSteps, ApplyMoves, ReloadMoves
<1> QED BY <1>3 DEF Recorded

\* The task of a message, as a step leaves it.
LEMMA TaskSteps ==
  ASSUME TypeOK, [Next]_vars, NEW j \in Inputs
  PROVE  \/ review'[j] = review[j]
         \/ EnqueueReview(j) /\ review'[j].stage \in {"queued", "dropped"}
         \/ TakeReview(j) /\ review'[j].stage \in {"superseded", "building"}
         \/ /\ BuildReview(j) /\ review[j].stage = "building"
            /\ review'[j].stage \in {"superseded", "reading", "failed"}
         \/ ReadRow(j) /\ review[j].stage = "reading"
         \/ WriteRow(j) /\ review[j].stage = "writing" /\ review'[j].stage # "writing"
         \/ /\ RequestSafetyRestate(j) /\ review[j].stage = "restating"
            /\ review'[j].stage = "done"
<1>1. ASSUME NEW stage \in Waiting \cup InHand \cup Ended, MoveReview(j, stage)
      PROVE  review'[j].stage = stage
  BY <1>1, ReviewMoves
<1>2. {"superseded", "building", "reading", "failed", "done"}
        \subseteq Waiting \cup InHand \cup Ended
  BY DEF InHand, Ended
<1>3. CASE EnqueueReview(j)
  BY <1>3, EnqueueMoves
<1>4. CASE TakeReview(j)
  BY <1>1, <1>2, <1>4 DEF TakeReview
<1>5. CASE BuildReview(j)
  BY <1>1, <1>2, <1>5 DEF BuildReview
<1>6. CASE ReadRow(j)
  BY <1>6 DEF ReadRow
<1>7. CASE WriteRow(j)
  <2>1. review[j].stage = "writing"
    BY <1>7 DEF WriteRow
  <2>2. review'[j].stage # "writing"
    BY <1>7, WriteMoves
  <2> QED BY <1>7, <2>1, <2>2
<1>8. CASE RequestSafetyRestate(j)
  BY <1>1, <1>2, <1>8 DEF RequestSafetyRestate
<1> QED BY <1>3, <1>4, <1>5, <1>6, <1>7, <1>8, ReviewSteps

\* A step leaves ReviewsInv true: recorded messages keep their sources.
LEMMA ReviewsStep == TypeOK /\ TypeOK' /\ TurnsInv /\ ReviewsInv /\ [Next]_vars => ReviewsInv'
<1> SUFFICES ASSUME TypeOK, TypeOK', TurnsInv, ReviewsInv, [Next]_vars PROVE ReviewsInv'
  OBVIOUS
<1> USE DEF Recorded
<1>1. ASSUME NEW j \in Inputs, pc'[j] \in Unreviewed
      PROVE  pc[j] \in Unreviewed /\ ~EnqueueReview(j)
  <2>1. pc[j] \in Unreviewed
    BY <1>1, HandlerSteps DEF Unreviewed, Late
  <2>2. ~EnqueueReview(j)
    <3>1. "beginning" \in Steps /\ "beginning" \notin Unreviewed
      BY DEF Steps, Unreviewed
    <3> QED BY <1>1, <3>1, GotoMoves DEF EnqueueReview
  <2> QED BY <2>1, <2>2
<1>2. queue \in Seq(Inputs) /\ queue' \in Seq(Inputs)
  BY DEF TypeOK
<1>3. ASSUME NEW j \in Inputs, TakeReview(j)
      PROVE  pc[j] \notin Unreviewed /\ Recorded(j)
  <2>1. queue # <<>> /\ j = Head(queue)
    BY <1>3 DEF TakeReview
  <2>2. 1 \in 1..Len(queue) /\ queue[1] = j
    BY <1>2, <2>1
  <2> QED BY <2>2 DEF ReviewsInv
<1>4. ASSUME NEW j \in Inputs, EnqueueReview(j)
      PROVE  pc'[j] \notin Unreviewed /\ Recorded(j)
  <2>1. pc[j] = "enqueueing"
    BY <1>4 DEF EnqueueReview
  <2> QED BY <1>1, <1>4, <2>1 DEF TurnsInv
<1>5. ASSUME NEW j \in Inputs, pc'[j] \in Unreviewed
      PROVE  review'[j].stage = "none"
  <2>1. review[j].stage = "none" /\ ~EnqueueReview(j) /\ ~TakeReview(j)
    BY <1>1, <1>3, <1>5 DEF ReviewsInv
  <2> QED BY <2>1, TaskSteps
<1>6. ASSUME NEW n \in 1..Len(queue')
      PROVE  pc'[queue'[n]] \notin Unreviewed /\ handler'[queue'[n]].turn > 0
  <2>1. ASSUME NEW m \in 1..Len(queue)
        PROVE  pc'[queue[m]] \notin Unreviewed /\ handler'[queue[m]].turn > 0
    <3>1. queue[m] \in Inputs
      BY <1>2
    <3>2. pc[queue[m]] \notin Unreviewed /\ Recorded(queue[m])
      BY DEF ReviewsInv
    <3> QED BY <1>1, <3>1, <3>2, RecordedStays
  <2>2. CASE queue' = queue
    BY <2>1, <2>2
  <2>3. ASSUME NEW k \in Inputs, EnqueueReview(k), queue' = Append(queue, k)
        PROVE  pc'[queue'[n]] \notin Unreviewed /\ handler'[queue'[n]].turn > 0
    <3>1. queue'[n] = k \/ (n \in 1..Len(queue) /\ queue'[n] = queue[n])
      BY <1>2, <2>3
    <3>2. pc'[k] \notin Unreviewed /\ Recorded(k)'
      BY <1>4, <2>3, RecordedStays
    <3> QED BY <2>1, <3>1, <3>2
  <2>4. CASE queue # <<>> /\ queue' = Tail(queue)
    <3>1. n + 1 \in 1..Len(queue) /\ queue'[n] = queue[n + 1]
      BY <1>2, <2>4
    <3> QED BY <2>1, <3>1
  <2> QED BY <2>2, <2>3, <2>4, QueueSteps
<1>7. ASSUME NEW j \in Inputs, review'[j].stage # "none" PROVE Recorded(j)'
  <2>1. CASE EnqueueReview(j) \/ TakeReview(j)
    BY <1>3, <1>4, <2>1, RecordedStays
  <2>2. CASE ~EnqueueReview(j) /\ ~TakeReview(j)
    <3>1. review[j].stage # "none"
      BY <1>7, <2>2, TaskSteps
    <3> QED BY <3>1, RecordedStays DEF ReviewsInv
  <2> QED BY <2>1, <2>2
<1>8. ASSUME NEW j \in Inputs, review'[j].stage = "writing"
      PROVE  handler'[j].source >= review'[j].state.source
  <2>1. CASE review'[j] = review[j]
    BY <1>8, <2>1, RecordedStays DEF ReviewsInv
  <2>2. CASE ReadRow(j) /\ review[j].stage = "reading"
    <3>1. review'[j].state = row /\ handler[j].source >= row.source
      BY <1>8, <2>2, ReadMoves
    <3>2. handler' = handler
      BY <2>2 DEF ReadRow
    <3> QED BY <3>1, <3>2
  <2> QED BY <1>8, <2>1, <2>2, TaskSteps
<1> QED BY <1>5, <1>6, <1>7, <1>8 DEF ReviewsInv

\* ReviewsInv holds in every reachable state.
LEMMA ReviewTasks == Spec => []ReviewsInv
<1>1. Init => ReviewsInv
  <2>1. NoReview.stage = "none"
    BY DEF NoReview
  <2> SUFFICES ASSUME Init PROVE ReviewsInv
    OBVIOUS
  <2>2. (\A i \in Inputs : review[i] = NoReview) /\ queue = <<>>
    BY DEF Init
  <2>3. 1..Len(queue) = {}
    BY <2>2
  <2> HIDE DEF NoReview
  <2> QED BY <2>1, <2>2, <2>3 DEF ReviewsInv
<1> QED BY <1>1, ReviewsStep, StateTypes, Turns, PTL DEF Spec

-----------------------------------------------------------------------------
(* Stops.                                                                  *)

\* The turn up to which a stop is kept.
Reach(i) == handler[i].turn + handler[i].signal.pause

\* What a handler counts with are numbers.
LEMMA NumbersOfHandlers ==
  ASSUME TypeOK, NEW i \in Inputs
  PROVE  /\ handler[i].turn \in Nat /\ handler[i].signal.pause \in Nat
         /\ handler[i].state.lock \in Nat /\ row.lock \in Nat /\ Reach(i) \in Nat
         /\ handler[i].state \in States /\ handler[i].source \in Nat
<1>1. handler[i].turn \in Nat /\ handler[i].signal \in Signals
      /\ handler[i].state \in States /\ row \in States /\ handler[i].source \in Nat
  BY DEF TypeOK, Locals
<1>2. handler[i].signal.pause \in Nat
  BY <1>1, FastRules
<1>3. handler[i].state.lock \in Nat /\ row.lock \in Nat
  BY <1>1 DEF States
<1> QED BY <1>1, <1>2, <1>3, Sums DEF Reach

\* A stop is one already, or has just been decided.
LEMMA StopsBegin ==
  ASSUME TypeOK, [Next]_vars, NEW i \in Inputs, Stopped(i)'
  PROVE  \/ /\ Stopped(i)
            /\ handler'[i].turn = handler[i].turn
            /\ handler'[i].signal = handler[i].signal
         \/ ApplyFastState(i) /\ pc[i] = "deciding"
<1>1. CASE handler'[i] = handler[i] /\ pc[i] # "deciding"
  BY <1>1 DEF Stopped, Decided, Recorded
<1>2. CASE Reload(i) /\ pc[i] = "generating"
  BY <1>2, ReloadMoves DEF Stopped, Decided, Recorded
<1>3. pc'[i] # "deciding"
  BY DEF Stopped, Decided
<1> QED BY <1>1, <1>2, <1>3, HandlerSteps DEF Late

\* One handler at a time decides.
LEMMA OneDecides ==
  ASSUME TurnsInv, NEW i \in Inputs, NEW k \in Inputs, i # k, pc[i] = "deciding"
  PROVE  pc[k] # "deciding" /\ ~Record(k)
<1>1. mutex = i /\ mutex # 0
  BY DEF TurnsInv, Inputs
<1>2. pc[k] # "deciding"
  BY <1>1 DEF TurnsInv
<1> QED BY <1>1, <1>2 DEF Record

\* The decision of a stop puts its lock into the row.
LEMMA StopsLock ==
  ASSUME TypeOK, StopsInv, ~raced, NEW i \in Inputs, ApplyFastState(i), Stopped(i)'
  PROVE  row'.lock >= Reach(i)'
<1> DEFINE own == handler[i]
<1>1. own.state \in States /\ own.turn \in Nat /\ own.source \in Nat
  BY NumbersOfHandlers
<1>2. own.state.lock \in Nat /\ row.lock \in Nat
  BY NumbersOfHandlers
<1>3. row.lock >= own.state.lock
  BY DEF StopsInv, ApplyFastState
<1>4. ~handler'[i].failed /\ handler'[i].signal.pause > 0
  BY DEF Stopped
<1> HIDE DEF own
<1>5. PICK signal \in Signals :
        /\ handler'[i].turn = own.turn /\ handler'[i].signal = signal
        /\ \/ /\ FastState(own.state, own.turn, signal) = own.state
              /\ row' = row
           \/ row' = Stamped(FastState(own.state, own.turn, signal), own.source)
  BY <1>4, ApplyMoves DEF own, Upsert
<1> DEFINE fast == FastState(own.state, own.turn, signal)
<1>6. /\ fast \in States /\ signal.pause \in Nat
      /\ fast.lock >= own.turn + signal.pause
  BY <1>1, <1>4, <1>5, FastRules
<1> HIDE DEF fast
<1>7. own.turn + signal.pause \in Nat
  BY <1>1, <1>6, Sums, Zenon
<1>8. CASE fast = own.state /\ row' = row
  <2>1. row.lock >= own.turn + signal.pause
    <3> DEFINE a == row.lock
               b == own.state.lock
               c == own.turn + signal.pause
    <3>1. a \in Nat /\ b \in Nat /\ c \in Nat /\ a >= b /\ b >= c
      BY <1>2, <1>3, <1>6, <1>7, <1>8, Zenon
    <3> HIDE DEF a, b, c
    <3>2. a >= c
      BY <3>1
    <3> QED BY <3>2 DEF a, c
  <2> QED BY <1>5, <1>8, <2>1, Zenon DEF Reach
<1>9. CASE row' = Stamped(fast, own.source)
  <2>1. row'.lock = fast.lock
    BY <1>1, <1>6, <1>9, Stamps
  <2> QED BY <1>5, <1>6, <2>1, Zenon DEF Reach
<1> QED BY <1>5, <1>8, <1>9 DEF fast

\* A step leaves StopsInv true: no write that has seen the row lowers a lock.
LEMMA StopsStep ==
  TypeOK /\ TypeOK' /\ TurnsInv /\ ReadsInv /\ StopsInv /\ [Next]_vars => StopsInv'
<1> SUFFICES ASSUME TypeOK, TypeOK', TurnsInv, ReadsInv, StopsInv, [Next]_vars, ~raced'
             PROVE  /\ \A i \in Inputs : Stopped(i)' => row'.lock >= Reach(i)'
                    /\ \A i, k \in Inputs : Stopped(i)' /\ pc'[k] = "deciding" =>
                         handler'[k].state.lock >= Reach(i)'
                    /\ \A k \in Inputs : pc'[k] = "deciding" =>
                         row'.lock >= handler'[k].state.lock
  BY DEF StopsInv, Reach
<1>1. ~raced /\ row.lock \in Nat /\ row'.lock \in Nat /\ row'.lock >= row.lock
  <2>1. row.lock \in Nat /\ row'.lock \in Nat
    BY DEF TypeOK, States
  <2>2. ~raced /\ (row' = row \/ row'.lock >= row.lock)
    BY WritesOfTheRow
  <2> QED BY <2>1, <2>2
<1>2. ASSUME NEW j \in Inputs
      PROVE  Reach(j) \in Nat /\ handler[j].state.lock \in Nat
  BY NumbersOfHandlers
<1>3. ASSUME NEW j \in Inputs, Stopped(j) PROVE row.lock >= Reach(j)
  BY <1>1, <1>3 DEF StopsInv, Reach
<1>4. ASSUME NEW j \in Inputs, pc'[j] = "deciding"
      PROVE  \/ Record(j) /\ handler'[j].state = row /\ row' = row
             \/ pc[j] = "deciding" /\ handler'[j] = handler[j]
  <2>1. CASE Record(j)
    BY <2>1, RecordMoves DEF Record
  <2>2. CASE ~Record(j)
    BY <1>4, <2>2, HandlerSteps DEF Late
  <2> QED BY <2>1, <2>2
<1>5. ASSUME NEW i \in Inputs, Stopped(i)' PROVE row'.lock >= Reach(i)'
  <2>1. CASE ApplyFastState(i)
    BY <1>1, <1>5, <2>1, StopsLock
  <2>2. CASE Stopped(i) /\ Reach(i)' = Reach(i)
    BY <1>1, <1>2, <1>3, <2>2
  <2> QED BY <1>5, <2>1, <2>2, StopsBegin DEF Reach
<1>6. ASSUME NEW i \in Inputs, NEW k \in Inputs, Stopped(i)', pc'[k] = "deciding"
      PROVE  handler'[k].state.lock >= Reach(i)'
  <2>1. i # k
    BY <1>6 DEF Stopped, Decided
  <2>2. ~(ApplyFastState(i) /\ pc[i] = "deciding")
    BY <1>4, <1>6, <2>1, OneDecides
  <2>3. Stopped(i) /\ Reach(i)' = Reach(i)
    BY <1>6, <2>2, StopsBegin DEF Reach
  <2>4. CASE handler'[k].state = row
    BY <1>3, <2>3, <2>4
  <2>5. CASE pc[k] = "deciding" /\ handler'[k] = handler[k]
    <3>1. handler[k].state.lock >= Reach(i)
      BY <1>1, <2>3, <2>5 DEF StopsInv, Reach
    <3> QED BY <2>3, <2>5, <3>1
  <2> QED BY <1>4, <1>6, <2>4, <2>5
<1>7. ASSUME NEW k \in Inputs, pc'[k] = "deciding"
      PROVE  row'.lock >= handler'[k].state.lock
  <2>1. CASE handler'[k].state = row /\ row' = row
    BY <1>1, <2>1
  <2>2. CASE pc[k] = "deciding" /\ handler'[k] = handler[k]
    <3>1. row.lock >= handler[k].state.lock
      BY <1>1, <2>2 DEF StopsInv
    <3> QED BY <1>1, <1>2, <2>2, <3>1
  <2> QED BY <1>4, <1>7, <2>1, <2>2
<1> QED BY <1>5, <1>6, <1>7

\* StopsInv holds in every reachable state.
LEMMA Stops == Spec => []StopsInv
<1>1. Init => StopsInv
  <2>1. NoLocals.turn = 0
    BY DEF NoLocals
  <2> SUFFICES ASSUME Init PROVE StopsInv
    OBVIOUS
  <2>2. \A i \in Inputs : handler[i] = NoLocals /\ pc[i] = "arriving"
    BY DEF Init
  <2> HIDE DEF NoLocals
  <2> QED BY <2>1, <2>2 DEF StopsInv, Stopped, Decided, Recorded
<1> QED BY <1>1, StopsStep, StateTypes, Turns, Reads, PTL DEF Spec

\* A user who says stop is answered from a neutral state for the turns of the
\* pause, with any number of messages, reviews and failed calls in between, as
\* long as no write of the row overtakes another.
THEOREM StopsAreKept == Spec => []StopIsKept
<1>1. Init => StopIsKept
  <2>1. NoLocals.turn = 0
    BY DEF NoLocals
  <2> SUFFICES ASSUME Init PROVE StopIsKept
    OBVIOUS
  <2>2. \A i \in Inputs : handler[i] = NoLocals
    BY DEF Init
  <2> HIDE DEF NoLocals
  <2> QED BY <2>1, <2>2 DEF StopIsKept, Stopped, Decided, Recorded
<1>2. TypeOK /\ TurnsInv /\ ReadsInv /\ StopsInv /\ StopIsKept /\ [Next]_vars => StopIsKept'
  <2> SUFFICES ASSUME TypeOK, TurnsInv, ReadsInv, StopsInv, StopIsKept, [Next]_vars,
                      NEW i \in Inputs, NEW k \in Inputs,
                      Stopped(i)', Decided(k)', Within(k, i)', ~raced',
                      ~AsksForMore(k)', ~handler'[k].failed, ~handler'[k].reloaded
               PROVE  handler'[k].state.phase = "neutral"
    BY DEF StopIsKept
  <2>1. ~raced
    BY WritesOfTheRow
  <2>2. i # k /\ pc'[k] # "deciding"
    <3>1. CASE i = k
      <4>1. handler'[k].turn > handler'[k].turn
        BY <3>1 DEF Within
      <4>2. handler'[k].turn = handler[k].turn \/ handler'[k].turn = turns + 1
        BY HandlerSteps, RecordMoves, ApplyMoves, ReloadMoves
      <4>3. handler[k].turn \in Nat /\ turns \in Nat
        BY NumbersOfHandlers DEF TypeOK
      <4> QED BY <4>1, <4>2, <4>3
    <3> QED BY <3>1 DEF Decided
  <2>3. CASE handler'[k] = handler[k] /\ pc[k] # "deciding"
    <3>1. Decided(k)
      BY <2>3 DEF Decided, Recorded
    <3>2. ~(ApplyFastState(i) /\ pc[i] = "deciding")
      <4> SUFFICES ASSUME ApplyFastState(i), pc[i] = "deciding" PROVE FALSE
        OBVIOUS
      <4>1. handler[k].turn <= handler[i].turn
        BY DEF TurnsInv
      <4>2. handler'[i].turn = handler[i].turn
        BY ApplyMoves
      <4>3. handler[k].turn > handler[i].turn
        BY <2>3, <4>2 DEF Within
      <4> QED BY <4>1, <4>3, NumbersOfHandlers
    <3>3. Stopped(i) /\ Within(k, i) /\ ~AsksForMore(k)
      BY <2>3, <3>2, StopsBegin DEF Within, AsksForMore
    <3> QED BY <2>1, <2>3, <3>1, <3>3 DEF StopIsKept
  <2>4. CASE ApplyFastState(k) /\ pc[k] = "deciding"
    <3> DEFINE own == handler[k]
    <3>1. Stopped(i) /\ Reach(i)' = Reach(i)
      BY <2>2, <2>4, StopsBegin, OneDecides DEF Reach
    <3>2. own.state.lock >= Reach(i)
      BY <2>1, <2>4, <3>1 DEF StopsInv, Reach
    <3>3. own.state \in States /\ own.turn \in Nat /\ own.source \in Nat
      BY NumbersOfHandlers
    <3>4. handler'[k].turn < Reach(i) /\ handler'[k].turn = own.turn
      BY <2>4, <3>1, ApplyMoves DEF Within, Reach
    <3>5. own.turn < own.state.lock
      BY <3>2, <3>3, <3>4, NumbersOfHandlers
    <3> HIDE DEF own
    <3>6. PICK signal \in Signals :
            /\ handler'[k].signal = signal
            /\ \/ /\ FastState(own.state, own.turn, signal) = own.state
                  /\ handler'[k].state = own.state
               \/ handler'[k].state =
                    Stamped(FastState(own.state, own.turn, signal), own.source)
      BY <2>4, ApplyMoves DEF own
    <3>7. signal.phase \notin {"flirty", "sexual"}
      BY <3>6 DEF AsksForMore
    <3> DEFINE fast == FastState(own.state, own.turn, signal)
    <3>8. fast \in States /\ fast.phase = "neutral"
      BY <3>3, <3>5, <3>7, FastRules
    <3>9. Stamped(fast, own.source).phase = fast.phase
      <4> HIDE DEF fast
      <4> QED BY <3>3, <3>8, Stamps
    <3> QED BY <3>6, <3>8, <3>9
  <2>5. CASE Record(k) /\ pc'[k] = "deciding"
    BY <2>2, <2>5
  <2>6. CASE Reload(k)
    BY <2>6, ReloadMoves
  <2> QED BY <2>2, <2>3, <2>4, <2>5, <2>6, HandlerSteps DEF Late
<1> QED BY <1>1, <1>2, StateTypes, Turns, Reads, Stops, PTL DEF Spec

-----------------------------------------------------------------------------
(* Reviews.                                                                *)

\* Whoever moves a version or the row's source is a recorded message.
LEMMA SourcesMove ==
  ASSUME TypeOK, TurnsInv, ReviewsInv, [Next]_vars
  PROVE  /\ latest' = latest \/ \E k \in Inputs : Recorded(k) /\ latest' = handler[k].source
         /\ row' = row \/ \E k \in Inputs : Recorded(k) /\ row'.source = handler[k].source
<1>1. latest' = latest \/ \E k \in Inputs : Recorded(k) /\ latest' = handler[k].source
  <2>1. ASSUME NEW k \in Inputs, EnqueueReview(k)
        PROVE  Recorded(k) /\ latest' \in {latest, handler[k].source}
    <3>1. pc[k] = "enqueueing"
      BY <2>1 DEF EnqueueReview
    <3> QED BY <2>1, <3>1, EnqueueMoves DEF TurnsInv
  <2>2. CASE \E k \in Inputs : EnqueueReview(k)
    BY <2>1, <2>2
  <2>3. CASE UNCHANGED vars
    BY <2>3 DEF vars, runner
  <2>4. ASSUME NEW i \in Inputs, HandleMessage(i) \/ Review(i), ~EnqueueReview(i)
        PROVE  latest' = latest
    BY <2>4 DEF HandleMessage, Review, Arrive, Record, RecordFails, ApplyFastState,
                Begin, EndReply, Reload, TakeReview, BuildReview, ReadRow, WriteRow,
                RequestSafetyRestate, runner
  <2> QED BY <2>2, <2>3, <2>4 DEF Next
<1>2. ASSUME NEW k \in Inputs, ApplyFastState(k)
      PROVE  row' = row \/ (Recorded(k) /\ row'.source = handler[k].source)
  <2>1. Recorded(k)
    BY <1>2 DEF ApplyFastState, TurnsInv
  <2> DEFINE own == handler[k]
  <2>2. own.state \in States /\ own.turn \in Nat /\ own.source \in Nat
    BY NumbersOfHandlers
  <2>3. PICK signal \in Signals :
          \/ row' = row
          \/ row' = Stamped(FastState(own.state, own.turn, signal), own.source)
    BY <1>2, ApplyMoves DEF Upsert
  <2> HIDE DEF own
  <2>4. FastState(own.state, own.turn, signal) \in States
    BY <2>2, FastRules
  <2>5. row' = row \/ row'.source = own.source
    BY <2>2, <2>3, <2>4, Stamps
  <2> QED BY <2>1, <2>5 DEF own
<1>3. ASSUME NEW k \in Inputs, WriteRow(k)
      PROVE  row' = row \/ (Recorded(k) /\ row'.source = handler[k].source)
  <2>1. Recorded(k)
    BY <1>3 DEF WriteRow, ReviewsInv
  <2> QED BY <1>3, <2>1, WriteMoves DEF Upsert
<1> QED BY <1>1, <1>2, <1>3, RowSteps

\* SourcesInv holds in every reachable state.
LEMMA Sources == Spec => []SourcesInv
<1>1. Init => SourcesInv
  <2>1. InitialState.source = 0
    BY DEF InitialState
  <2> HIDE DEF InitialState
  <2> QED BY <2>1 DEF Init, SourcesInv
<1>2. TypeOK /\ TurnsInv /\ ReviewsInv /\ SourcesInv /\ [Next]_vars => SourcesInv'
  <2> SUFFICES ASSUME TypeOK, TurnsInv, ReviewsInv, SourcesInv, [Next]_vars
               PROVE  SourcesInv'
    OBVIOUS
  <2>1. ASSUME NEW n, n = 0 \/ \E k \in Inputs : Recorded(k) /\ n = handler[k].source
        PROVE  n = 0 \/ \E k \in Inputs : Recorded(k)' /\ n = handler'[k].source
    BY <2>1, RecordedStays
  <2>2. latest' = 0 \/ \E k \in Inputs : Recorded(k)' /\ latest' = handler'[k].source
    BY <2>1, SourcesMove DEF SourcesInv
  <2>3. row'.source = 0 \/ \E k \in Inputs : Recorded(k)' /\ row'.source = handler'[k].source
    BY <2>1, SourcesMove DEF SourcesInv
  <2> QED BY <2>2, <2>3 DEF SourcesInv
<1> QED BY <1>1, <1>2, StateTypes, Turns, ReviewTasks, PTL DEF Spec

\* However messages, failures and workers interleave, the review of a saved
\* message is skipped only for a later message or for one that was not saved.
THEOREM ReviewsSkippedForReason == Spec => []SkippedForLaterOrUnsaved
<1>1. Init => SkippedForLaterOrUnsaved
  <2>1. NoReview.stage = "none"
    BY DEF NoReview
  <2> HIDE DEF NoReview
  <2> QED BY <2>1 DEF Init, SkippedForLaterOrUnsaved
<1>2. /\ TypeOK /\ TurnsInv /\ ReviewsInv /\ ReviewsInv' /\ SourcesInv
      /\ SkippedForLaterOrUnsaved /\ [Next]_vars
      => SkippedForLaterOrUnsaved'
  <2> SUFFICES ASSUME TypeOK, TurnsInv, ReviewsInv, ReviewsInv', SourcesInv,
                      SkippedForLaterOrUnsaved, [Next]_vars,
                      NEW i \in Inputs, handler'[i].saved,
                      review'[i].stage \in {"superseded", "outdated"}
               PROVE  \E k \in Inputs :
                        /\ Recorded(k)'
                        /\ handler'[k].turn > handler'[i].turn \/ ~handler'[k].saved
    BY DEF SkippedForLaterOrUnsaved
  <2>1. ASSUME Recorded(i),
               \E k \in Inputs :
                 /\ Recorded(k)
                 /\ handler[k].turn > handler[i].turn \/ ~handler[k].saved
        PROVE  \E k \in Inputs :
                 /\ Recorded(k)'
                 /\ handler'[k].turn > handler'[i].turn \/ ~handler'[k].saved
    BY <2>1, RecordedStays
  <2>2. ASSUME NEW n \in Nat, handler[i].source < n, UNCHANGED handler,
               n = 0 \/ \E k \in Inputs : Recorded(k) /\ n = handler[k].source
        PROVE  \E k \in Inputs :
                 /\ Recorded(k)'
                 /\ handler'[k].turn > handler'[i].turn \/ ~handler'[k].saved
    <3>1. handler[i].source \in Nat /\ handler[i].source = handler[i].turn
      BY <2>2, NumbersOfHandlers DEF TurnsInv
    <3>2. PICK k \in Inputs : Recorded(k) /\ n = handler[k].source
      BY <2>2, <3>1
    <3>3. handler[k].saved => handler[k].turn > handler[i].turn
      BY <2>2, <3>1, <3>2, NumbersOfHandlers DEF TurnsInv
    <3> QED BY <2>2, <3>2, <3>3 DEF Recorded
  <2>3. latest \in Nat /\ row.source \in Nat
    BY DEF TypeOK, States
  <2>4. CASE review'[i] = review[i]
    <3>1. review[i].stage \in {"superseded", "outdated"} /\ Recorded(i)
      BY <2>4 DEF ReviewsInv
    <3>2. handler[i].saved
      BY <3>1, RecordedStays
    <3> QED BY <2>1, <3>1, <3>2 DEF SkippedForLaterOrUnsaved
  <2>5. CASE TakeReview(i) \/ BuildReview(i)
    <3>1. UNCHANGED handler
      BY <2>5 DEF TakeReview, BuildReview
    <3>2. ASSUME NEW stage \in {"superseded", "building", "reading", "failed"},
                 MoveReview(i, stage)
          PROVE  stage = "superseded"
      <4>1. stage \in Waiting \cup InHand \cup Ended
        BY DEF InHand, Ended
      <4> QED BY <3>2, <4>1, ReviewMoves
    <3>3. IsSuperseded(i)
      BY <2>5, <3>2 DEF TakeReview, BuildReview
    <3> QED BY <2>2, <2>3, <3>1, <3>3 DEF IsSuperseded, SourcesInv
  <2>6. CASE ReadRow(i)
    <3>1. UNCHANGED handler
      BY <2>6 DEF ReadRow
    <3>2. handler[i].source < row.source
      BY <2>6, ReadMoves
    <3> QED BY <2>2, <2>3, <3>1, <3>2 DEF SourcesInv
  <2>7. CASE WriteRow(i)
    BY <2>7, WriteMoves
  <2> QED BY <2>4, <2>5, <2>6, <2>7, TaskSteps
<1> QED BY <1>1, <1>2, StateTypes, Turns, ReviewTasks, Sources, PTL DEF Spec

\* A review never writes over the decision of a newer message, unless it came
\* between the review's read and its write.
THEOREM ReviewsYield == Spec => ReviewsYieldToNewer
<1>1. TypeOK /\ TypeOK' /\ ReadsInv /\ ReviewsInv /\ [Next]_vars
      => [\A i \in Inputs :
            review[i].stage = "writing" /\ review'[i].stage # "writing"
            => row'.source >= row.source \/ raced']_vars
  <2> SUFFICES ASSUME TypeOK, TypeOK', ReadsInv, ReviewsInv, [Next]_vars,
                      NEW i \in Inputs,
                      review[i].stage = "writing", review'[i].stage # "writing", ~raced'
               PROVE  row'.source >= row.source
    OBVIOUS
  <2>1. row.source \in Nat /\ row'.source \in Nat
    BY DEF TypeOK, States
  <2>2. CASE row' = row
    BY <2>1, <2>2
  <2>3. CASE \E k \in Inputs : WriteRow(k)
    <3>1. WriteRow(i)
      <4>1. PICK k \in Inputs : WriteRow(k)
        BY <2>3
      <4> QED BY <4>1, WriteMoves
    <3>2. row' = row \/ (row'.source = handler[i].source /\ review[i].seen = writes)
      BY <3>1, WriteMoves DEF Upsert
    <3>3. review[i].seen = writes => handler[i].source >= row.source
      BY DEF ReadsInv, ReviewsInv
    <3> QED BY <2>1, <3>2, <3>3
  <2> QED BY <2>2, <2>3, RowSteps
<1> QED BY <1>1, StateTypes, Reads, ReviewTasks, PTL DEF Spec, ReviewsYieldToNewer

\* A review that calms the conversation has the reply under way generated again
\* when its state is older than the review's write, as long as no write of the
\* row overtakes another.
THEOREM UrgentReviews == Spec => UrgentReviewRestates
<1>1. TypeOK /\ RevisionsInv /\ [Next]_vars
      => [\A i \in Inputs :
            /\ review[i].stage = "restating" /\ review'[i].stage = "done"
            /\ active # NoHandle /\ active.reason # "new_input" /\ ~raced
            /\ Recorded(active.input) /\ ~handler[active.input].reloaded
            /\ handler[active.input].seen < review[i].seen
            => active'.reason = "safety_restate"]_vars
  <2> SUFFICES ASSUME TypeOK, RevisionsInv, [Next]_vars,
                      NEW i \in Inputs,
                      review[i].stage = "restating", review'[i].stage = "done",
                      active # NoHandle, ~raced,
                      Recorded(active.input), ~handler[active.input].reloaded,
                      handler[active.input].seen < review[i].seen
               PROVE  active'.reason = "safety_restate"
    OBVIOUS
  <2>1. active \in Handles /\ active.input \in Inputs
    BY DEF TypeOK, Handles
  <2>2. RequestSafetyRestate(i)
    BY TaskSteps
  <2>3. review[i].state.revision > handler[active.input].state.revision
    BY <2>1 DEF RevisionsInv
  <2>4. MayRestate(i)
    BY <2>1, <2>3 DEF MayRestate, Recorded
  <2>5. active' = [active EXCEPT !.reason = "safety_restate"]
    BY <2>2, <2>4 DEF RequestSafetyRestate
  <2> QED BY <2>1, <2>5 DEF Handles
<1> QED BY <1>1, StateTypes, Revisions, PTL DEF Spec, UrgentReviewRestates
=============================================================================
