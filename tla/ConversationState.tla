--------------------------- MODULE ConversationState ---------------------------
(***************************************************************************)
(* The conversation state of one session (tg_conversation_state_machine)   *)
(* and the three that work on it: the fast rules of each message, which    *)
(* run under the chat mutex; the state reviews, which a background worker  *)
(* runs minutes later without it; and the replies, generated from the copy *)
(* their handler holds, which a review may ask to generate again           *)
(* (internal/chat/service.go, fast_state_evaluator.go, state_reviewer.go). *)
(*                                                                         *)
(* Each of them reads the row, decides, and writes back all of it.  What a *)
(* message or a review says is an input: the signal its rules find, the    *)
(* result the model returns.  The fields that only go into prompts are one *)
(* bit of a review's result, "something else changed".                     *)
(***************************************************************************)
EXTENDS Naturals, Sequences, FiniteSets

CONSTANTS N,           \* messages the user sends to the session
          Pause,       \* pause_sexual_turns of deescalate_discomfort
          LockTurns,   \* safety_lock_turns a review may ask for
          Workers,     \* workers of the state review runner
          FirstUpdate, \* Telegram's update ids start above this one
          MaxFaults,   \* bound: failed calls
          Reviewed     \* bound: the messages whose review is followed

Inputs == 1..N

ASSUME CountsAreNumbers == {N, Pause, Workers, FirstUpdate, MaxFaults} \subseteq Nat
ASSUME TurnsAreNumbers == LockTurns \subseteq Nat
ASSUME SomeReviews == Reviewed \subseteq Inputs

VARIABLES row,      \* the state row; InitialState while there is none
          turns,    \* user messages of the session that are saved
          pc,       \* pc[i]: what the handler of message i does next
          handler,  \* handler[i]: its locals
          mutex,    \* message whose handler holds the chat mutex, 0 if none
          active,   \* the chat's generation handle
          latest,   \* newest version published to the review runner
          queue,    \* reviews waiting in the runner
          review,   \* review[i]: the task of message i
          faults,   \* failed calls so far
          writes,   \* history: writes of the row so far
          raced     \* history: one of them overwrote another it had not read

runner == <<latest, queue, review>>
history == <<writes, raced>>
vars == <<row, turns, pc, handler, mutex, active, runner, faults, history>>

Phases == {"neutral", "flirty", "sexual"}
States == [phase: Phases, lock: Nat, revision: Nat, source: Nat]
\* normalizeConversationStateMachine of a missing row.
InitialState == [phase |-> "neutral", lock |-> 0, revision |-> 0, source |-> 0]

\* The top candidate of the rules: none, or a phase with or without a pause.
NoSignal == [phase |-> "", pause |-> 0]
Signals == {NoSignal}
           \cup [phase: {"neutral", "flirty", "sexual"}, pause: {0}]
           \cup [phase: {"neutral"}, pause: {Pause}]

\* What a confident review says; one that is not confident changes nothing.
Results == [phase: {"unchanged", "neutral", "flirty"},
            deescalate: BOOLEAN, turns: {0} \cup LockTurns, other: BOOLEAN]

Steps == {"arriving", "locking", "deciding", "enqueueing", "beginning",
          "generating", "done"}
\* seen: how many writes the row had when the handler's copy was read.
Locals == [turn: Nat, source: Nat, saved: BOOLEAN, signal: Signals,
           state: States, seen: Nat, failed: BOOLEAN, reloaded: BOOLEAN]
NoLocals == [turn |-> 0, source |-> 0, saved |-> FALSE, signal |-> NoSignal,
             state |-> InitialState, seen |-> 0, failed |-> FALSE,
             reloaded |-> FALSE]

Waiting == {"none", "queued"}
InHand == {"building", "reading", "writing", "restating"}
Ended == {"done", "failed", "dropped", "superseded", "outdated"}
Reviews == [stage: Waiting \cup InHand \cup Ended, state: States, seen: Nat]
NoReview == [stage |-> "none", state |-> InitialState, seen |-> 0]

\* The handle of the generation under way: whose it is, and what it was told.
Handles == [input: Inputs, reason: {"none", "new_input", "safety_restate"}]
NoHandle == [input |-> 0, reason |-> "none"]

Init ==
  /\ row = InitialState
  /\ turns = 0
  /\ pc = [i \in Inputs |-> "arriving"]
  /\ handler = [i \in Inputs |-> NoLocals]
  /\ mutex = 0
  /\ active = NoHandle
  /\ latest = 0
  /\ queue = <<>>
  /\ review = [i \in Inputs |-> NoReview]
  /\ faults = 0
  /\ writes = 0
  /\ raced = FALSE

Fault == faults < MaxFaults /\ faults' = faults + 1
NoFault == UNCHANGED faults

Goto(i, step) == pc' = [pc EXCEPT ![i] = step]

\* UpsertConversationStateMachine: whatever is in the row is replaced, by a
\* state computed from the row as it was after `seen` writes.
Upsert(state, seen) ==
  /\ row' = state
  /\ writes' = writes + 1
  /\ raced' = (raced \/ seen # writes)

-----------------------------------------------------------------------------
(* The rules that move the state.                                          *)

\* There is no sexual phase any more: whoever asks for it gets the flirty one.
Redirected(phase) == IF phase = "sexual" THEN "flirty" ELSE phase

Later(m, n) == IF m > n THEN m ELSE n

\* The part of applyFastConversationState that depends on the row alone.
MustCalm(state, turn) == turn < state.lock /\ state.phase # "neutral"
Settled(state, turn) ==
  IF MustCalm(state, turn) THEN "neutral" ELSE Redirected(state.phase)

\* Then the message's own signal, which overrides a lock, and its pause.
Steered(state, turn, signal) ==
  IF signal.phase = "" THEN Settled(state, turn) ELSE Redirected(signal.phase)

\* A pause counted from the beginning instead of from this turn.
FastStateFromStart(state, turn, signal) ==
  [state EXCEPT
     !.phase = IF signal.pause > 0 THEN "neutral" ELSE Steered(state, turn, signal),
     !.lock = IF signal.pause > 0 THEN Later(@, signal.pause) ELSE @]

FastState(state, turn, signal) ==
  [state EXCEPT
     !.phase = IF signal.pause > 0 THEN "neutral" ELSE Steered(state, turn, signal),
     !.lock = IF signal.pause > 0 THEN Later(@, turn + signal.pause) ELSE @]

\* The flag `changed`: some step changed the phase, be it back again.
FastChanges(state, turn, signal) ==
  \/ MustCalm(state, turn)
  \/ Steered(state, turn, signal) # state.phase
  \/ FastState(state, turn, signal) # state

\* applyAsyncStateReviewResult: the de-escalation first, then the phase the
\* review names, which may undo it.
ReviewedState(state, turn, result) ==
  [state EXCEPT
     !.phase = CASE result.phase # "unchanged" -> result.phase
                 [] result.deescalate -> "neutral"
                 [] OTHER -> @,
     !.lock = IF result.deescalate /\ result.turns > 0
              THEN Later(@, turn + result.turns) ELSE @]

\* The flag triggerSafety.
Urgent(state, turn, result) ==
  /\ result.deescalate
  /\ state.phase # "neutral" \/ ReviewedState(state, turn, result).lock # state.lock

ReviewChanges(state, turn, result) ==
  \/ Urgent(state, turn, result)
  \/ ReviewedState(state, turn, result) # state
  \/ result.other

\* A write that forgets the revision.
StampedSource(state, source) == [state EXCEPT !.source = source]

\* What both add to the state they write.
Stamped(state, source) == [state EXCEPT !.revision = @ + 1, !.source = source]

-----------------------------------------------------------------------------
(* The handler of a message.                                               *)

\* A new message first interrupts the reply under way.
Arrive(i) ==
  /\ pc[i] = "arriving"
  /\ Goto(i, "locking")
  /\ active' = IF active = NoHandle THEN active ELSE [active EXCEPT !.reason = "new_input"]
  /\ UNCHANGED <<row, turns, handler, mutex, runner, faults, history>>

\* The chat mutex is taken, the row read with the context (BootstrapContext)
\* and the message saved.  A message that cannot be saved is not counted as a
\* turn, and goes by its update id instead of its message id.
Record(i) ==
  /\ pc[i] = "locking"
  /\ mutex = 0
  /\ \E saved \in BOOLEAN :
       /\ IF saved THEN NoFault ELSE Fault
       /\ turns' = IF saved THEN turns + 1 ELSE turns
       /\ handler' = [handler EXCEPT ![i] =
            [@ EXCEPT !.turn = turns + 1,
                      !.source = IF saved THEN turns + 1 ELSE FirstUpdate + i,
                      !.saved = saved,
                      !.state = row,
                      !.seen = writes]]
  /\ mutex' = i
  /\ Goto(i, "deciding")
  /\ UNCHANGED <<row, active, runner, history>>

\* Without its context a message is answered from an empty state.
RecordFails(i) ==
  /\ pc[i] = "locking"
  /\ mutex = 0
  /\ Fault
  /\ Goto(i, "beginning")
  /\ UNCHANGED <<row, turns, handler, mutex, active, runner, history>>

\* applyFastConversationState.  When the row cannot be written, the handler
\* goes on with the state it had read.
ApplyFastState(i) ==
  /\ pc[i] = "deciding"
  /\ \E signal \in Signals :
       LET own == handler[i]
           next == Stamped(FastState(own.state, own.turn, signal), own.source)
       IN  \/ /\ ~FastChanges(own.state, own.turn, signal)
              /\ handler' = [handler EXCEPT ![i] = [@ EXCEPT !.signal = signal]]
              /\ NoFault
              /\ UNCHANGED <<row, history>>
           \/ /\ FastChanges(own.state, own.turn, signal)
              /\ Upsert(next, own.seen)
              /\ handler' = [handler EXCEPT ![i] =
                   [@ EXCEPT !.signal = signal, !.state = next, !.seen = writes + 1]]
              /\ NoFault
           \/ /\ FastChanges(own.state, own.turn, signal)
              /\ Fault
              /\ handler' = [handler EXCEPT ![i] =
                   [@ EXCEPT !.signal = signal, !.failed = TRUE]]
              /\ UNCHANGED <<row, history>>
  /\ Goto(i, "enqueueing")
  /\ UNCHANGED <<turns, mutex, active, runner>>

\* enqueueAsyncStateReview publishes the version, and drops the task when the
\* queue, which all sessions share, is full.  The mutex is given back.
EnqueueReview(i) ==
  /\ pc[i] = "enqueueing"
  /\ latest' = Later(latest, handler[i].source)
  /\ \/ /\ i \in Reviewed
        /\ queue' = Append(queue, i)
        /\ review' = [review EXCEPT ![i] = [@ EXCEPT !.stage = "queued"]]
     \/ /\ review' = [review EXCEPT ![i] = [@ EXCEPT !.stage = "dropped"]]
        /\ UNCHANGED queue
  /\ mutex' = 0
  /\ Goto(i, "beginning")
  /\ UNCHANGED <<row, turns, handler, active, faults, history>>

\* Begin: this reply takes the chat over, whoever had it.
Begin(i) ==
  /\ pc[i] = "beginning"
  /\ active' = [input |-> i, reason |-> "none"]
  /\ Goto(i, "generating")
  /\ UNCHANGED <<row, turns, handler, mutex, runner, faults, history>>

Restated(i) == active.input = i /\ active.reason = "safety_restate"

\* The reply is sent, or given up for whatever interrupted it.
EndReply(i) ==
  /\ pc[i] = "generating"
  /\ Restated(i) => handler[i].reloaded
  /\ active' = IF active.input = i THEN NoHandle ELSE active
  /\ Goto(i, "done")
  /\ UNCHANGED <<row, turns, handler, mutex, runner, faults, history>>

\* reloadConversationStateMachine, before the reply is generated again.
Reload(i) ==
  /\ pc[i] = "generating"
  /\ Restated(i)
  /\ ~handler[i].reloaded
  /\ \/ /\ handler' = [handler EXCEPT ![i] =
             [@ EXCEPT !.state = row, !.seen = writes, !.reloaded = TRUE]]
        /\ NoFault
     \/ /\ handler' = [handler EXCEPT ![i] = [@ EXCEPT !.reloaded = TRUE]]
        /\ Fault
  /\ active' = NoHandle
  /\ Goto(i, "beginning")
  /\ UNCHANGED <<row, turns, mutex, runner, history>>

-----------------------------------------------------------------------------
(* The review of a message, on a worker of the runner.                     *)

Reviewing == {i \in Inputs : review[i].stage \in InHand}

\* A comparison that takes a task's own version for a newer one.
IsNotNewer(i) == handler[i].source <= latest

IsSuperseded(i) == handler[i].source < latest

MoveReview(i, stage) == review' = [review EXCEPT ![i] = [@ EXCEPT !.stage = stage]]

\* A worker takes the oldest task, and skips it when a newer one was published.
TakeReview(i) ==
  /\ queue # <<>>
  /\ Head(queue) = i
  /\ Cardinality(Reviewing) < Workers
  /\ queue' = Tail(queue)
  /\ MoveReview(i, IF IsSuperseded(i) THEN "superseded" ELSE "building")
  /\ UNCHANGED <<row, turns, pc, handler, mutex, active, latest, faults, history>>

\* The snapshot is read and the model asked; then the version is compared again.
BuildReview(i) ==
  /\ review[i].stage = "building"
  /\ \/ /\ MoveReview(i, IF IsSuperseded(i) THEN "superseded" ELSE "reading")
        /\ NoFault
     \/ MoveReview(i, "failed") /\ Fault
  /\ UNCHANGED <<row, turns, pc, handler, mutex, active, latest, queue, history>>

\* A commit that does not look whose decision the row holds.
ReadRowAnyway(i) ==
  /\ review[i].stage = "reading"
  /\ review' = [review EXCEPT ![i] =
       [stage |-> "writing", state |-> row, seen |-> writes]]
  /\ UNCHANGED <<row, turns, pc, handler, mutex, active, latest, queue, faults, history>>

\* The commit reads the row again, and leaves it to a newer message.
ReadRow(i) ==
  /\ review[i].stage = "reading"
  /\ \/ /\ handler[i].source >= row.source
        /\ review' = [review EXCEPT ![i] =
             [stage |-> "writing", state |-> row, seen |-> writes]]
        /\ NoFault
     \/ /\ handler[i].source < row.source
        /\ MoveReview(i, "outdated")
        /\ NoFault
     \/ MoveReview(i, "failed") /\ Fault
  /\ UNCHANGED <<row, turns, pc, handler, mutex, active, latest, queue, history>>

WriteRow(i) ==
  /\ review[i].stage = "writing"
  /\ \E result \in Results :
       LET own == review[i]
           turn == handler[i].turn
           next == Stamped(ReviewedState(own.state, turn, result), handler[i].source)
       IN  \/ /\ ~ReviewChanges(own.state, turn, result)
              /\ MoveReview(i, "done")
              /\ NoFault
              /\ UNCHANGED <<row, history>>
           \/ /\ ReviewChanges(own.state, turn, result)
              /\ Upsert(next, own.seen)
              /\ review' = [review EXCEPT ![i] =
                   [stage |-> IF Urgent(own.state, turn, result) THEN "restating" ELSE "done",
                    state |-> next, seen |-> writes + 1]]
              /\ NoFault
           \/ /\ ReviewChanges(own.state, turn, result)
              /\ MoveReview(i, "failed")
              /\ Fault
              /\ UNCHANGED <<row, history>>
  /\ UNCHANGED <<turns, pc, handler, mutex, active, latest, queue>>

\* RequestSafetyRestate: the reply under way is generated again if it has a
\* session, if its state is older, by its revision, and if it was not before.
MayRestate(i) ==
  /\ active # NoHandle
  /\ handler[active.input].turn > 0
  /\ ~handler[active.input].reloaded
  /\ review[i].state.revision > handler[active.input].state.revision

RequestSafetyRestate(i) ==
  /\ review[i].stage = "restating"
  /\ active' = IF MayRestate(i) THEN [active EXCEPT !.reason = "safety_restate"] ELSE active
  /\ MoveReview(i, "done")
  /\ UNCHANGED <<row, turns, pc, handler, mutex, latest, queue, faults, history>>

-----------------------------------------------------------------------------

HandleMessage(i) ==
  \/ Arrive(i) \/ Record(i) \/ RecordFails(i) \/ ApplyFastState(i)
  \/ EnqueueReview(i) \/ Begin(i) \/ EndReply(i) \/ Reload(i)

Review(i) ==
  \/ TakeReview(i) \/ BuildReview(i) \/ ReadRow(i) \/ WriteRow(i)
  \/ RequestSafetyRestate(i)

Next == \E i \in Inputs : HandleMessage(i) \/ Review(i)

Spec == Init /\ [][Next]_vars
-----------------------------------------------------------------------------
(* What the user and the prompts can rely on.                              *)

TypeOK ==
  /\ row \in States
  /\ turns \in Nat
  /\ pc \in [Inputs -> Steps]
  /\ handler \in [Inputs -> Locals]
  /\ mutex \in 0..N
  /\ active \in Handles \cup {NoHandle}
  /\ latest \in Nat
  /\ queue \in Seq(Inputs)
  /\ review \in [Inputs -> Reviews]
  /\ faults \in 0..MaxFaults
  /\ writes \in Nat
  /\ raced \in BOOLEAN

Recorded(i) == handler[i].turn > 0
Decided(i) == Recorded(i) /\ pc[i] # "deciding"

\* A user who says stop is left alone for the turns of the pause, whatever
\* reviews of earlier messages write in between: a later message within the
\* pause is answered from a neutral state unless it asks for more itself, its
\* state could not be written, or a review's restate has it reload the row.
\* The row has no lock of its own: once a write has overwritten another it had
\* not read, the pause may be lost.
Stopped(i) == Decided(i) /\ handler[i].signal.pause > 0 /\ ~handler[i].failed
Within(k, i) ==
  /\ handler[k].turn > handler[i].turn
  /\ handler[k].turn < handler[i].turn + handler[i].signal.pause
AsksForMore(k) == handler[k].signal.phase \in {"flirty", "sexual"}
StopIsKept ==
  \A i, k \in Inputs :
    /\ Stopped(i) /\ Decided(k) /\ Within(k, i) /\ ~raced
    /\ ~AsksForMore(k) /\ ~handler[k].failed /\ ~handler[k].reloaded
    => handler[k].state.phase = "neutral"

\* A review that calms the conversation while a reply, interrupted by nothing
\* else, is generated from the state before it has that reply generated again.
\* Both count the row's revisions, which tell old from new as long as no write
\* was overtaken.
UrgentReviewRestates ==
  [][\A i \in Inputs :
       /\ review[i].stage = "restating" /\ review'[i].stage = "done"
       /\ active # NoHandle /\ active.reason # "new_input" /\ ~raced
       /\ Recorded(active.input) /\ ~handler[active.input].reloaded
       /\ handler[active.input].seen < review[i].seen
       => active'.reason = "safety_restate"]_vars

\* A review never writes over what a newer message decided, unless that
\* decision came between the review's read and its write.
ReviewsYieldToNewer ==
  [][\A i \in Inputs :
       review[i].stage = "writing" /\ review'[i].stage # "writing"
       => row'.source >= row.source \/ raced']_vars

\* The review of a saved message is skipped only for a later message, or for
\* one that could not be saved: such a one goes by its update id, which is
\* larger than any message id, and silences the reviews after it too.
SkippedForLaterOrUnsaved ==
  \A i \in Inputs :
    /\ review[i].stage \in {"superseded", "outdated"}
    /\ handler[i].saved
    => \E k \in Inputs :
         /\ Recorded(k)
         /\ handler[k].turn > handler[i].turn \/ ~handler[k].saved
=============================================================================
