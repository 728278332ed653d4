----------------------------- MODULE ReplyGeneration -----------------------------
(***************************************************************************)
(* How one private chat is answered (internal/chat/service.go, HandleMessage*)
(* and handleResetCommand; internal/chat/generation_coordinator.go).       *)
(*                                                                         *)
(* The poller starts a goroutine per message, in arrival order, and the    *)
(* goroutines then run freely: a chat message is recorded under the chat's *)
(* mutex, and its reply is generated and sent outside it.  The coordinator *)
(* keeps one handle per chat, the generation that may currently send; a    *)
(* newer message, a reset and a background safety review interrupt it      *)
(* through that handle.  Chats share nothing here, so one chat is enough.  *)
(*                                                                         *)
(* The language model, Telegram and the database may fail at every call.   *)
(* What a reply says is not modelled, only which parts of it are delivered.*)
(***************************************************************************)
EXTENDS Naturals

CONSTANTS N,         \* messages the user sends, numbered in arrival order
          MaxParts,  \* parts SplitReplyForTelegram cuts a reply into, at most
          Reviewed   \* bound: the messages whose state review is followed

Inputs == 1..N

ASSUME SomeMessages == N \in Nat
ASSUME SomeParts == MaxParts \in Nat \ {0}
ASSUME SomeReviews == Reviewed \subseteq Inputs

VARIABLES kind,      \* kind[i]: "chat", "reset" or (another) "command"
          pc,        \* pc[i]: what the goroutine of message i does next
          run,       \* run[i]: the locals of its HandleMessage
          sent,      \* sent[i]: messages delivered to the user for i
          late,      \* late[i]: those of them sent after i was overtaken
          alone,     \* alone[i]: no other message's goroutine ran beside i's
          lock,      \* message whose goroutine holds the chat mutex, 0 if none
          handle,    \* the chat's entry in GenerationCoordinator.handles
          nextID,    \* GenerationCoordinator.nextID
          canceled,  \* canceled[i]: the context of i's generation is canceled
          session,   \* the user's active session row, 0 if there is none
          sessions,  \* how many session rows have been created
          revision,  \* revision of the session's state row, 0 if it has none
          review     \* review[i]: the background state review of message i

coordinator == <<handle, nextID, canceled>>
database == <<session, sessions, revision>>
vars == <<kind, pc, run, sent, late, alone, lock, coordinator, database, review>>

Kinds == {"chat", "reset", "command"}
Reasons == {"none", "new_input", "safety_restate", "reset"}
\* What follows Finish: another round of generateLoop, the fallback text, or
\* the end of the handler, and why it ended.
Verdicts == {"none", "reload", "fallback", "answered", "dropped", "broken"}

Preparing == {"idle", "arrived", "locking", "recording"}
Generating == {"generating", "checking", "sending", "marking", "pausing",
               "delaying", "finishing"}
Steps == Preparing \cup Generating
           \cup {"beginning", "reloading", "done"}
           \cup {"commanding", "resetting", "deleting", "reopening", "opening"}

\* GenerationHandle; id is its GenerationID, 0 in the absent handle.
\* PreSendEligible is always parts = 0 and is left out.  A reply is generated
\* again at most once.
Handles == [id: Nat \ {0}, input: Inputs, session: Nat, revision: Nat,
            reason: Reasons, parts: Nat, regen: 0..1]
NoHandle == [id |-> 0, input |-> 0, session |-> 0, revision |-> 0,
             reason |-> "none", parts |-> 0, regen |-> 0]

Locals == [gen: Nat, session: Nat, revision: Nat, regen: 0..1,
           part: 1..MaxParts, failed: BOOLEAN, then: Verdicts]
NoLocals == [gen |-> 0, session |-> 0, revision |-> 0, regen |-> 0,
             part |-> 1, failed |-> FALSE, then |-> "none"]

Reviews == [stage: {"none", "queued", "read", "restating", "done"},
            session: Nat, revision: Nat]
NoReview == [stage |-> "none", session |-> 0, revision |-> 0]
ReviewDone == [NoReview EXCEPT !.stage = "done"]

TypeOK ==
  /\ kind \in [Inputs -> Kinds]
  /\ pc \in [Inputs -> Steps]
  /\ run \in [Inputs -> Locals]
  /\ sent \in [Inputs -> Nat]
  /\ late \in [Inputs -> Nat]
  /\ alone \in [Inputs -> BOOLEAN]
  /\ lock \in 0..N
  /\ handle \in Handles \cup {NoHandle}
  /\ nextID \in Nat
  /\ canceled \in [Inputs -> BOOLEAN]
  /\ session \in Nat
  /\ sessions \in Nat
  /\ revision \in Nat
  /\ review \in [Inputs -> Reviews]

Init ==
  /\ kind \in [Inputs -> Kinds]
  /\ pc = [i \in Inputs |-> "idle"]
  /\ run = [i \in Inputs |-> NoLocals]
  /\ sent = [i \in Inputs |-> 0]
  /\ late = [i \in Inputs |-> 0]
  /\ alone = [i \in Inputs |-> TRUE]
  /\ lock = 0
  /\ handle = NoHandle
  /\ nextID = 0
  /\ canceled = [i \in Inputs |-> FALSE]
  /\ session = 0
  /\ sessions = 0
  /\ revision = 0
  /\ review = [i \in Inputs |-> NoReview]

Goto(i, step) == pc' = [pc EXCEPT ![i] = step]

-----------------------------------------------------------------------------
(* The coordinator's operations, each under its mutex.                     *)

Active(i) == handle.id # 0 /\ handle.id = run[i].gen

\* A coordinator that interrupts without looking whether there is a handle.
CancelUnseen(reason) ==
  /\ handle' = [handle EXCEPT !.reason = reason]
  /\ canceled' = [i \in Inputs |-> canceled[i] \/ i = handle.input]
  /\ UNCHANGED nextID

\* The cancel function of a handle belongs to the goroutine that began it.  It
\* is called right after the mutex is released.
CancelActive(reason) ==
  /\ IF handle.id = 0
     THEN UNCHANGED <<handle, canceled>>
     ELSE /\ handle' = [handle EXCEPT !.reason = reason]
          /\ canceled' = [canceled EXCEPT ![handle.input] = TRUE]
  /\ UNCHANGED nextID

\* A reason asked for after Finish, when the handle is gone.
ReasonAfterFinish(i) == "new_input"

\* InterruptReason: a generation that is no longer the chat's was replaced by a
\* newer message.
InterruptReason(i) == IF Active(i) THEN handle.reason ELSE "new_input"

\* A guard that forgets what was delivered.
RestateIfNotRestated == handle.regen < 1

\* A restate is refused once a part was counted or the reply was restated.
MayRestate == handle.parts = 0 /\ handle.regen < 1

-----------------------------------------------------------------------------
(* The handler of a chat message, up to its generateLoop.                  *)

\* Poller.Run starts the goroutine of the next update.
Arrive(i) ==
  /\ pc[i] = "idle"
  /\ \A j \in 1..(i - 1) : pc[j] # "idle"
  /\ Goto(i, "arrived")
  /\ alone' = [j \in Inputs |->
       alone[j] /\ IF j = i THEN \A k \in Inputs : pc[k] \in {"idle", "done"}
                           ELSE pc[j] \in {"idle", "done"}]
  /\ UNCHANGED <<kind, run, sent, late, lock, coordinator, database, review>>

\* Every message, commands included, first interrupts the active generation.
InterruptForNewInput(i) ==
  /\ pc[i] = "arrived"
  /\ CancelActive("new_input")
  /\ Goto(i, CASE kind[i] = "chat" -> "locking"
               [] kind[i] = "reset" -> "resetting"
               [] kind[i] = "command" -> "commanding")
  /\ UNCHANGED <<kind, run, sent, late, alone, lock, database, review>>

\* UpsertUser and GetOrCreateActiveSession: the active session, or a new one.
OpenSession ==
  IF session # 0
  THEN UNCHANGED database
  ELSE /\ session' = sessions + 1
       /\ sessions' = sessions + 1
       /\ revision' = 0

\* BootstrapContext: the handler's copy of the session and its state row.
BootstrapContext(i) ==
  /\ OpenSession
  /\ run' = [run EXCEPT ![i] = [@ EXCEPT !.session = session', !.revision = revision']]

\* GetConversationStateMachine: a session without a row has revision 0.
RowRevision(s) == IF s = session THEN revision ELSE 0

\* BootstrapContext gives up, before or after it opened a session.
BootstrapFails == (OpenSession \/ UNCHANGED database) /\ UNCHANGED run

\* The chat mutex is taken and the context read.  When that fails, the mutex
\* is given back and the message answered without a session.
Bootstrap(i) ==
  /\ pc[i] = "locking"
  /\ lock = 0
  /\ \/ BootstrapContext(i) /\ lock' = i /\ Goto(i, "recording")
     \/ BootstrapFails /\ UNCHANGED lock /\ Goto(i, "beginning")
  /\ UNCHANGED <<kind, sent, late, alone, coordinator, review>>

\* applyFastConversationState, when it has something to write and the write
\* works (the session still exists, the user's message was saved): the row
\* gets the revision after the one this handler bootstrapped with.
WriteFastState(i) ==
  /\ session = run[i].session
  /\ revision' = run[i].revision + 1
  /\ run' = [run EXCEPT ![i].revision = @ + 1]

\* A handler that returns from the recording with the mutex held.
RecordKeepingLock(i) ==
  /\ pc[i] = "recording"
  /\ WriteFastState(i) \/ UNCHANGED <<revision, run>>
  /\ Goto(i, "beginning")
  /\ UNCHANGED <<kind, sent, late, alone, lock, coordinator, session, sessions, review>>

\* SaveTurnRecord, applyFastConversationState and enqueueAsyncStateReview; then
\* the mutex is given back.
RecordInput(i) ==
  /\ pc[i] = "recording"
  /\ WriteFastState(i) \/ UNCHANGED <<revision, run>>
  /\ review' = IF i \in Reviewed
               THEN [review EXCEPT ![i] = [@ EXCEPT !.stage = "queued", !.session = run[i].session]]
               ELSE review
  /\ lock' = 0
  /\ Goto(i, "beginning")
  /\ UNCHANGED <<kind, sent, late, alone, coordinator, session, sessions>>

-----------------------------------------------------------------------------
(* generateLoop.                                                           *)

\* Begin takes the chat's handle over from whichever generation has it,
\* without canceling that one.  (The first round then waits 1.5 seconds, in
\* which it can be interrupted exactly as while the model runs.)
Begin(i) ==
  /\ pc[i] = "beginning"
  /\ nextID' = nextID + 1
  /\ handle' = [id |-> nextID + 1, input |-> i, session |-> run[i].session,
                revision |-> run[i].revision, reason |-> "none", parts |-> 0,
                regen |-> run[i].regen]
  /\ canceled' = [canceled EXCEPT ![i] = FALSE]
  /\ run' = [run EXCEPT ![i] = [@ EXCEPT !.gen = nextID + 1, !.part = 1]]
  /\ Goto(i, "generating")
  /\ UNCHANGED <<kind, sent, late, alone, lock, database, review>>

\* Handler i retires its generation; verdict says what it does after Finish.
RetireFor(i, verdict) ==
  /\ run' = [run EXCEPT ![i].then = verdict]
  /\ Goto(i, "finishing")

\* The context of the running generation was canceled: a safety restate
\* restarts a reply that was not restarted before, anything else drops it.
GenerateInterrupted(i) ==
  /\ pc[i] = "generating"
  /\ canceled[i]
  /\ RetireFor(i, IF InterruptReason(i) = "safety_restate" /\ run[i].regen < 1
                  THEN "reload" ELSE "dropped")
  /\ UNCHANGED <<kind, sent, late, alone, lock, coordinator, database, review>>

Generate(i) ==
  /\ pc[i] = "generating"
  /\ Goto(i, "checking")
  /\ UNCHANGED <<kind, run, sent, late, alone, lock, coordinator, database, review>>

\* The model fails for any other reason, a timeout for instance: the handler
\* retires its generation, then goes on with the fallback text as its reply.
GenerateFailed(i) ==
  /\ pc[i] = "generating"
  /\ run' = [run EXCEPT ![i] = [@ EXCEPT !.failed = TRUE, !.then = "fallback"]]
  /\ Goto(i, "finishing")
  /\ UNCHANGED <<kind, sent, late, alone, lock, coordinator, database, review>>

\* A check that trusts the chat's handle whoever it belongs to.
CheckAnyHandle(i) ==
  /\ pc[i] = "checking"
  /\ IF handle.reason \in {"none", "reset"}
     THEN Goto(i, "sending") /\ UNCHANGED run
     ELSE RetireFor(i, "dropped")
  /\ UNCHANGED <<kind, sent, late, alone, lock, coordinator, database, review>>

\* BeforeSend and what the handler makes of its decision.  The reason "reset"
\* is no reason to hold a part back.
CheckBeforeSend(i) ==
  /\ pc[i] = "checking"
  /\ IF Active(i) /\ handle.reason \in {"none", "reset"}
     THEN Goto(i, "sending") /\ UNCHANGED run
     ELSE RetireFor(i, IF /\ Active(i)
                          /\ handle.reason = "safety_restate"
                          /\ MayRestate
                          /\ run[i].regen < 1
                       THEN "reload" ELSE "dropped")
  /\ UNCHANGED <<kind, sent, late, alone, lock, coordinator, database, review>>

Overtaken(i) == ~Active(i) \/ canceled[i]

SendText(i) ==
  /\ pc[i] = "sending"
  /\ \/ /\ sent' = [sent EXCEPT ![i] = @ + 1]
        /\ late' = IF Overtaken(i) THEN [late EXCEPT ![i] = @ + 1] ELSE late
        /\ Goto(i, "marking")
        /\ UNCHANGED run
     \/ /\ RetireFor(i, "broken")
        /\ UNCHANGED <<sent, late>>
  /\ UNCHANGED <<kind, alone, lock, coordinator, database, review>>

\* MarkPartSent, then SaveTurnRecord, whose failure is ignored.  The reply may
\* have further parts, up to MaxParts.
MarkPartSent(i) ==
  /\ pc[i] = "marking"
  /\ handle' = IF Active(i) THEN [handle EXCEPT !.parts = @ + 1] ELSE handle
  /\ \/ /\ run[i].part < MaxParts
        /\ run' = [run EXCEPT ![i].part = @ + 1]
        /\ Goto(i, "pausing")
     \/ RetireFor(i, "answered")
  /\ UNCHANGED <<kind, sent, late, alone, lock, nextID, canceled, database, review>>

\* The pause before a further part ends at once in a canceled context.
PauseBegins(i) ==
  /\ pc[i] = "pausing"
  /\ IF canceled[i]
     THEN RetireFor(i, "dropped")
     ELSE Goto(i, "delaying") /\ UNCHANGED run
  /\ UNCHANGED <<kind, sent, late, alone, lock, coordinator, database, review>>

\* A further part that goes out without being checked.
PauseElapsedUnchecked(i) ==
  /\ pc[i] = "delaying"
  /\ Goto(i, "sending")
  /\ UNCHANGED <<kind, run, sent, late, alone, lock, coordinator, database, review>>

PauseElapsed(i) ==
  /\ pc[i] = "delaying"
  /\ Goto(i, "checking")
  /\ UNCHANGED <<kind, run, sent, late, alone, lock, coordinator, database, review>>

\* An exit from the pause that forgets to retire the generation.
PauseAbandoned(i) ==
  /\ pc[i] = "delaying"
  /\ canceled[i]
  /\ Goto(i, "done")
  /\ UNCHANGED <<kind, run, sent, late, alone, lock, coordinator, database, review>>

PauseInterrupted(i) ==
  /\ pc[i] = "delaying"
  /\ canceled[i]
  /\ RetireFor(i, "dropped")
  /\ UNCHANGED <<kind, sent, late, alone, lock, coordinator, database, review>>

\* Finish removes the handle if it is still this generation's.  When the
\* handler returns, its locals are gone but for what it came to.
Finish(i) ==
  /\ pc[i] = "finishing"
  /\ handle' = IF Active(i) THEN NoHandle ELSE handle
  /\ \/ run[i].then = "reload" /\ Goto(i, "reloading") /\ UNCHANGED run
     \/ run[i].then = "fallback" /\ Goto(i, "checking") /\ UNCHANGED run
     \/ /\ run[i].then \in {"answered", "dropped", "broken"}
        /\ Goto(i, "done")
        /\ run' = [run EXCEPT ![i] =
                    [NoLocals EXCEPT !.failed = run[i].failed, !.then = run[i].then]]
  /\ UNCHANGED <<kind, sent, late, alone, lock, nextID, canceled, database, review>>

\* reloadConversationStateMachine, unless it fails: the row's revision, 0 when
\* the session is gone.  Then the next round of generateLoop.
Reload(i) ==
  /\ pc[i] = "reloading"
  /\ \/ run' = [run EXCEPT ![i].regen = @ + 1]
     \/ /\ run[i].session # 0
        /\ run' = [run EXCEPT ![i] =
             [@ EXCEPT !.regen = run[i].regen + 1,
                       !.revision = RowRevision(run[i].session)]]
  /\ Goto(i, "beginning")
  /\ UNCHANGED <<kind, sent, late, alone, lock, coordinator, database, review>>

-----------------------------------------------------------------------------
(* Commands, which take no lock and no generation.                         *)

\* A command answers with one message, or fails to send it.
AnswerCommand(i) ==
  /\ pc[i] = "commanding"
  /\ sent' = [sent EXCEPT ![i] = 1] \/ UNCHANGED sent
  /\ Goto(i, "done")
  /\ UNCHANGED <<kind, run, late, alone, lock, coordinator, database, review>>

\* handleResetCommand interrupts a second time, with a reason of its own.
InterruptForReset(i) ==
  /\ pc[i] = "resetting"
  /\ CancelActive("reset")
  /\ Goto(i, "deleting")
  /\ UNCHANGED <<kind, run, sent, late, alone, lock, database, review>>

\* ResetConversation deletes the user with everything that hangs on it; if it
\* fails, an apology is all the handler sends.
DeleteConversation(i) ==
  /\ pc[i] = "deleting"
  /\ \/ /\ session' = 0
        /\ revision' = 0
        /\ Goto(i, "reopening")
        /\ UNCHANGED sessions
     \/ Goto(i, "done") /\ UNCHANGED database
  /\ UNCHANGED <<kind, run, sent, late, alone, lock, coordinator, review>>

\* BootstrapContext gives the user a clean session; if it fails, a plain
\* confirmation is all the handler sends.
ReopenSession(i) ==
  /\ pc[i] = "reopening"
  /\ \/ BootstrapContext(i) /\ Goto(i, "opening")
     \/ BootstrapFails /\ Goto(i, "done")
  /\ UNCHANGED <<kind, sent, late, alone, lock, coordinator, review>>

\* The opening line of the new conversation.
SendOpening(i) ==
  /\ pc[i] = "opening"
  /\ sent' = [sent EXCEPT ![i] = 1] \/ UNCHANGED sent
  /\ Goto(i, "done")
  /\ UNCHANGED <<kind, run, late, alone, lock, coordinator, database, review>>

-----------------------------------------------------------------------------
(* The background state review queued by RecordInput.  Whether and when it *)
(* gets to its commit is the executor's business (module AsyncRunner), and *)
(* what it decides is the model's.                                         *)

ReviewReads(i) ==
  /\ review[i].stage = "queued"
  /\ review' = [review EXCEPT ![i] =
                  [@ EXCEPT !.stage = "read", !.revision = RowRevision(review[i].session)]]
  /\ UNCHANGED <<kind, pc, run, sent, late, alone, lock, coordinator, database>>

\* The upsert writes the revision after the one it read, and fails when the
\* session is gone.  Only a de-escalation goes on to request a restate.
ReviewWrites(i) ==
  /\ review[i].stage = "read"
  /\ review[i].session = session
  /\ revision' = review[i].revision + 1
  /\ \/ review' = [review EXCEPT ![i] =
                       [@ EXCEPT !.stage = "restating", !.revision = revision']]
     \/ review' = [review EXCEPT ![i] = ReviewDone]
  /\ UNCHANGED <<kind, pc, run, sent, late, alone, lock, coordinator, session, sessions>>

RequestSafetyRestate(i) ==
  /\ review[i].stage = "restating"
  /\ review' = [review EXCEPT ![i] = ReviewDone]
  /\ IF /\ handle.id # 0
        /\ handle.session = review[i].session
        /\ MayRestate
        /\ review[i].revision > handle.revision
     THEN CancelActive("safety_restate")
     ELSE UNCHANGED coordinator
  /\ UNCHANGED <<kind, pc, run, sent, late, alone, lock, database>>

-----------------------------------------------------------------------------

PrepareReply(i) ==
  \/ InterruptForNewInput(i) \/ Bootstrap(i) \/ RecordInput(i)

GenerateReply(i) ==
  \/ Begin(i) \/ Generate(i) \/ GenerateInterrupted(i) \/ GenerateFailed(i)
  \/ CheckBeforeSend(i) \/ SendText(i) \/ MarkPartSent(i)
  \/ PauseBegins(i) \/ PauseElapsed(i) \/ PauseInterrupted(i)
  \/ Finish(i) \/ Reload(i)

RunCommand(i) ==
  \/ AnswerCommand(i) \/ InterruptForReset(i) \/ DeleteConversation(i)
  \/ ReopenSession(i) \/ SendOpening(i)

HandleMessage(i) == PrepareReply(i) \/ GenerateReply(i) \/ RunCommand(i)

Review(i) == ReviewReads(i) \/ ReviewWrites(i) \/ RequestSafetyRestate(i)

Next == \E i \in Inputs : Arrive(i) \/ HandleMessage(i) \/ Review(i)

Spec == Init /\ [][Next]_vars

\* A started goroutine goes on: its timers fire and its calls end, by an answer,
\* an error or a timeout, and the mutex is not held for ever.  The user need not
\* write again, and a queued review need not run.
FairSpec == Spec /\ \A i \in Inputs : WF_vars(HandleMessage(i))

-----------------------------------------------------------------------------
(* What the user and the coordinator can rely on.                          *)

\* The chat's handle always belongs to the newest generation begun and to a
\* goroutine that is still running it: no exit of generateLoop leaves a handle
\* behind for later messages to cancel, and none removes another's.
HandleHasOwner ==
  handle.id # 0 =>
    /\ handle.id = nextID
    /\ handle.input \in Inputs
    /\ run[handle.input].gen = handle.id
    /\ pc[handle.input] \in Generating

\* A reply is never started over once the user has seen part of it, although
\* a safety review may ask for it between sending the part and counting it.
NoRestartAfterFirstPart ==
  \A i \in Inputs :
    pc[i] \in {"reloading", "beginning", "generating"} => sent[i] = 0

\* Once a reply has been overtaken, by a newer message, a reset or a newer
\* generation, at most one more part of it reaches the user: the one that had
\* already passed BeforeSend.
AtMostOneLatePart == \A i \in Inputs : late[i] <= 1

\* A message whose reply the model produced and Telegram accepted is left
\* without any answer only if another message was being handled beside it:
\* safety reviews, its own and those of earlier messages, delay a reply, and
\* never silence it.
SilentOnlyWithRival ==
  \A i \in Inputs :
    /\ kind[i] = "chat" /\ pc[i] = "done" /\ alone[i]
    /\ run[i].then = "dropped" /\ ~run[i].failed
    => sent[i] > 0

\* For the user the reply with the chat's handle has the floor, whatever it was
\* interrupted for, and a message gets nothing more from the moment its handler
\* has settled on that.
Speaker == IF handle.id = 0 THEN 0 ELSE handle.input
Cleared == {i \in Inputs : pc[i] = "sending"}
Settled(i) ==
  \/ pc[i] = "done"
  \/ pc[i] = "finishing" /\ run[i].then \in {"answered", "dropped", "broken"}
Over == {i \in Inputs : Settled(i)}

Floor == INSTANCE ChatFloor WITH speaker <- Speaker, cleared <- Cleared,
                                 said <- sent, over <- Over

\* The pipeline gives each chat one floor: newer messages, resets, reviews and
\* failing calls that come between its steps never let two replies speak at will,
\* a reply begin twice or go on after a part that failed.
ImplementsFloor == Floor!Spec

\* Every message's goroutine comes to an end: no interruption, restate or wait
\* for the chat mutex keeps it for ever.
EveryHandlerEnds == \A i \in Inputs : pc[i] = "arrived" ~> pc[i] = "done"

-----------------------------------------------------------------------------
(* What the documentation promises and the code does not keep.             *)

\* A message handled alone is answered at least with the fallback text when
\* the model fails.
FallbackIsSent ==
  \A i \in Inputs :
    /\ pc[i] = "done" /\ alone[i] /\ run[i].failed /\ run[i].then # "broken"
    => sent[i] > 0
=============================================================================
