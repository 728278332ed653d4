# Verification of the Telegram companion bot

TLA+ models of the program under `src/`, the TLC runs that check them on small
instances, and TLAPS proofs of their main invariants for every instance.

The bot answers the messages of Telegram users with a language model served by
Ollama.  A reply is generated while the user may already be writing the next
message, resetting the conversation, or saying something that makes a
background review ask for a safer reply.  Next to the replies a scheduler
writes to users of its own accord: reminders of things they mentioned,
follow-ups, a habitual hour, a long silence.  What is hard in this program is
which of several goroutines may still speak to the user, and what remains
recorded when one of several calls fails.

Contents: [1 Inventory](#1-inventory), [2 Modules](#2-modules),
[3 Runs](#3-runs), [4 Proofs](#4-proofs), [5 Findings](#5-findings),
[6 What is not modelled](#6-what-is-not-modelled), [7 Plan](#7-plan).

To check a run: `tlc -workers 2 -config MCReplySafety.cfg MCReplyGeneration.tla`;
to check the proofs of a module: `tlapm ReplyGenerationProofs.tla`.

## 1 Inventory

### 1.1 Components, their state and operations

| Component | Code | State | Operations that change it |
|---|---|---|---|
| Telegram poller | `internal/telegram/polling.go` | the update offset | `Run`: fetch updates, move the offset past each, start one goroutine per update |
| Reply pipeline | `internal/chat/service.go` | locals of each `HandleMessage`, one mutex per chat | `HandleMessage` (record under the mutex, generate, send part by part), `handleResetCommand`, the other commands |
| Generation coordinator | `internal/chat/generation_coordinator.go` | the chat's active handle, a counter of generations | `CancelActive`, `Begin`, `BeforeSend`, `MarkPartSent`, `Finish`, `RequestSafetyRestate` |
| Async runner | `internal/chat/async_runner.go` | a bounded channel, a table of latest versions, the workers | `Enqueue`, `worker` |
| Conversation state machine | `fast_state_evaluator.go`, `phase_*.go`, `service.go` 975-1230 | phase, safety lock, revision, source and fields for the prompts, one row per session | fast rules at each message, async review, reload |
| Structured extraction, topic slots | `structured_extraction.go`, `memory_slot*.go`, `postgres/memory_slots.go` | the topics of a session: status, importance, confidence, mentions, the message each was last written from | an analysis every tenth turn: read the open topics, merge the model's answer, write the rows |
| Profile memory | `profile_*.go`, `postgres/profile_candidate.go`, `user_profile.go` | the profile of a user, candidates with their evidence, cooldowns of slots in prompts | extraction after each message, promotion of names, batch reviews, commands |
| History summarizer | `history_summarizer.go` | summary text and the turn it reaches | summarise after a turn |
| Store facade | `internal/store/store.go` | PostgreSQL rows and the recent conversation in Redis | `BootstrapContext`, `SaveTurnRecord`, `ResetConversation` |
| PostgreSQL repositories | `internal/store/postgres` | the tables | inserts, updates, listings |
| Redis caches | `internal/store/redis` | the recent list; locks and cooldowns that nothing uses | append, set, delete |
| Proactive scheduler and sender | `internal/proactive` | the sessions' proactive columns, `tg_memory_events`, `tg_proactive_messages` | standard pass, reminder pass, `Send` |
| Feedback sweep | `proactive/feedback.go`, `scheduler.go` 290-380 | the reply columns of `tg_proactive_messages`, scores of the session and the profile | at each start: find the answer of the last proactive message, mark, credit, reward |
| Proactive signal capture | `chat/proactive_signals.go` | mood, memory events | `captureProactiveSignals`, `/proactive on` and `off` |
| Ollama client and failover | `internal/ollama` | a health flag per endpoint | `Chat`, probes, refresh on a ticker |
| Reply texts, prompts, personas | `reply_*.go`, `prompt*.go`, `postprocess.go`, `configs` | none | pure text functions |
| Reward audio, speech | `reward_audio.go`, `internal/gemini` | none | a call after a reply |
| Holiday data | `internal/holiday` | a table of days | a periodic import |
| Wiring, configuration, HTTP, logs | `cmd`, `internal/app`, `internal/config`, `internal/httpserver`, `pkg/logx` | none | construction, adapters, health endpoint |

### 1.2 How they interact

    Telegram --> Poller --(goroutine per update)--> HandleMessage
                                                     |  chatMu: BootstrapContext, fast rules, SaveTurnRecord
                                                     |  --enqueue--> AsyncRunner (state, analytic) --> reviews
                                                     |  Begin .. Chat .. BeforeSend, sendText, MarkPartSent .. Finish
                                                     v                                         ^
                                          GenerationCoordinator <--- RequestSafetyRestate -----+
                                          GenerationCoordinator <--- CancelActive (next message, reset)

    Scheduler --scan--> sessions, events --> eligibility --> mark used --> compose --> Send
       ^                     ^                                                     |
       |                     +-- captureProactiveSignals, /proactive, reset        +--> row, Telegram, log, session
       +-- tickers (standard pass, reminder pass), one goroutine

* Goroutines of two updates share the chat's mutex while they record, and only
  the coordinator while they generate and send.
* A background review shares the state row with the fast rules (no lock), and
  may ask the coordinator to restate whichever reply is under way.
* Extractions, topics, summaries and profile reviews are tasks of the analytic runner, whose one
  worker runs them one at a time; a task is skipped when a newer one of its key has been enqueued.
* The scheduler shares the session row, the events and the conversation log
  with the chat side, through the database only.

### 1.3 Hard behaviours, and what makes each component correct

| Component | What is hard | What it must keep |
|---|---|---|
| Reply pipeline and coordinator | the next message, a reset and a review each interrupt a reply at any point between its parts; a goroutine can be overtaken between any two calls | one owner of the chat's handle; no reply started over once seen; at most one part after being overtaken; silence only when another message explains it; every goroutine ends |
| Async runner | supersession is checked before and after the build but the commit is a later step; a full queue drops a task whose version stays published | each task handed over once; skipped only for a newer one; commits in order with a single worker; a failing build releases its worker |
| Proactive scheduler | a fault between marking, inserting, sending and recording; users opting out, resetting or talking during a pass; caps and gaps kept in different records, and a failed read of one of them taken for an empty one | no trigger answered twice; nothing lost or left out of the books without a fault; no burst unless both records of the earlier message were lost or unread; opt-out respected from the next pass on; a lone reminder served within its window |
| Conversation state machine | the review and the fast rules read and write one row without a lock | a stop keeps its pause, unless a write overtakes another; a newer message's decision is not overwritten; a review that calms the state restates the reply generated from the old one; reviews are skipped for a reason |
| Recent cache | written after the database by saves and by refills, which only the messages of a chat do one at a time; a reset deletes both stores in turn | the list keeps the order of the turns and forgets none of the newest, but for named races, faults and expiries; nothing of a deleted conversation reaches the next one |
| Failover | requests and the monitor read and write the same flags around calls that take seconds; callers cancel or run out of time | an endpoint is passed over, or taken out of service, only for a cause; a recheck takes none down but in a race; every request ends; an endpoint whose probes succeed comes back |

| Topic slots | rows are read before the model answers and written back one by one afterwards; analyses of several messages queue up, any call fails | the limits of open topics; a topic loses its place to better ones only; no row goes back to an older message; a recurring topic shows |
| Profile memory | names are promoted at once, everything else by reviews, and a candidate's status is written before its value; regular and forced reviews share one key | a confirmed value reaches the profile; an older name never replaces a newer one |
| Feedback sweep | mark, credit and reward are three calls whose errors are ignored, and the process may restart between them | an answer is rewarded and credited again only after failed marks, and is the first answer |

`PROJECT.json` lists each hazard at its line, with the property that covers it.

## 2 Modules

| Module | Models | Used by |
|---|---|---|
| `TaskBoard` | what a caller of the executor may count on (abstract specification) | `AsyncRunner` |
| `AsyncRunner` | one executor of background tasks | `MCAsyncRunner`, `AsyncRunnerProofs` |
| `ChatFloor` | what the user of a chat may count on (abstract specification) | `ReplyGeneration` |
| `ReplyGeneration` | one chat: poller, pipeline, coordinator, state revision, review | `MCReplyGeneration`, `ReplyGenerationProofs` |
| `ConversationState` | the state row of one session: fast rules, reviews, the replies that use it | `MCConversationState`, `ConversationStateProofs` |
| `Outbox` | what users may count on when the bot writes of its own accord (abstract specification) | `ProactiveDelivery` |
| `ProactiveDelivery` | scheduler, sender, their tables, the users' side of them | `MCProactiveDelivery`, `ProactiveDeliveryProofs` |
| `EndpointPool` | the failover between model servers: health flags, requests, monitor | `MCEndpointPool`, `EndpointPoolProofs` |
| `RecentCache` | the recent conversation in PostgreSQL and in Redis | `MCRecentCache`, `RecentCacheProofs` |
| `TopicSlots` | the topics of one session and the analyses that write them | `MCTopicSlots`, `TopicSlotsProofs` |
| `ProfileMemory` | what is learned of one user: extractions, candidates, reviews | `MCProfileMemory`, `ProfileMemoryProofs` |
| `AnswerBook` | the answered messages of one session, and what must hold of them | `FeedbackSweep`, `ProactiveDeliveryProofs` |
| `FeedbackSweep` | the sweep over the answers to proactive messages | `MCFeedbackSweep`, `ProactiveDeliveryProofs` |

### 2.1 `AsyncRunner` and `TaskBoard`

`Tasks` are the calls of `Enqueue` that can be made, each with a key and a
version.  `Enqueue` is two actions, because the code is: `Publish` writes the
version into the table under the mutex, `Offer` tries the channel without
waiting and drops the task when it is full.  A worker takes a task (`Take`),
compares its version (`CheckBeforeBuild`), builds (`Build`, which may fail or
time out), compares again (`CheckAfterBuild`) and commits (`Commit`).  `stage`
says how far each task got.  What a task builds and commits is abstract:
`written` holds, per key, the version of the last commit.

`TaskBoard` is what this promises to its callers, with no queue, worker or table: a task that was
accepted ends once; it is skipped only while a newer task of its key has been accepted; it takes effect
only over what older tasks, or its like, have written.  The refinement mapping (`Board`, in `AsyncRunner`) keeps
the labels and `written`, and shows a task as new until it is published, as pending while it is
offered, queued or with a worker, and then as it ended (`Status`).  `CheckBeforeBuild` and `CheckAfterBuild`
map to `Skip` or to a stutter, `Offer` to `Abandon` when the channel is full,
`Commit` to `TakeEffect`.  The last needs the single worker: with two, a commit can
follow one of a newer version.

### 2.2 `ReplyGeneration` and `ChatFloor`

One chat and `N` messages, each an ordinary one, a `/reset` or another
command.  `pc[i]` is where the goroutine of message `i` stands, `run[i]` its
locals (session, revision, generation, parts), `handle` and `nextID` the coordinator,
`lock` the chat's `chatMu`, the rest the session and state rows a reset
deletes, and what the user has seen.

| Code | Actions |
|---|---|
| `Poller.Run` starting a goroutine | `Arrive` (any order of the goroutines is possible afterwards) |
| `HandleMessage` up to the generation | `InterruptForNewInput`, then under the mutex `Bootstrap`, `WriteFastState`, `RecordInput` |
| `generateLoop` and one reply | `Begin`, `Generate` / `GenerateInterrupted` / `GenerateFailed`, `Finish`, `Reload` |
| sending | `CheckBeforeSend` (`BeforeSend`), `SendText`, `MarkPartSent`, `PauseBegins` / `PauseElapsed` / `PauseInterrupted` |
| `handleResetCommand` | `InterruptForReset`, `DeleteConversation`, `ReopenSession`, `SendOpening` |
| other commands | `AnswerCommand` |
| the state review as the pipeline sees it | `ReviewReads`, `ReviewWrites`, `RequestSafetyRestate` |

Each call of the coordinator is one step, because it runs under its mutex; each
call outside the process (database, model, Telegram) is a step of its own that
may fail.  Two merges: `CancelActive` sets the reason under the mutex and calls
the cancel function right after releasing it, one step here; the wait of the
first round (1.5 s, for more input) is part of the generation, both being
interrupted by the same context.  A reply is a number of parts.

`ChatFloor` is what this promises to the user, without handles, contexts, sessions and reviews: one reply at a
time has the floor, and only it has parts let through; a reply that lost the floor says at most the part
that is on its way; one that has begun never takes the floor again, stops at a part that cannot be sent, and
keeps the floor until it is over or another takes it; a message that is over gets nothing more.  The
refinement mapping (`Floor`, in `ReplyGeneration`) gives the floor to the owner of the chat's handle, whatever the
handle was interrupted for; a part is on its way between `CheckBeforeSend` and the end of `SendText`; a
message is over from the step in which its handler settles on that (`Settled`).  `Begin` maps to `TakeFloor`,
`CheckBeforeSend` to `LetThrough` or `End`, `SendText` to `Deliver` or `BreakOff`, `Finish` to `LeaveFloor`, the answer of a
command to `AnswerAside`, the other ways to give up a reply to `End`, and everything else to a stutter.

### 2.3 `ConversationState`

`row` is the session's row of `tg_conversation_state_machine`: the phase, the
turn up to which the conversation is locked, the revision, and the message the last
decision came from.  `handler[i]` holds what `HandleMessage` of message `i` copied of
it, `review[i]` the task of its review, `latest` and `queue` the runner of the reviews.

| Code | Actions and operators |
|---|---|
| `CancelActive` for a new message | `Arrive` |
| `BootstrapContext` and `SaveTurnRecord`, under the chat mutex | `Record`, `RecordFails` |
| `applyFastConversationState` | `ApplyFastState`; `FastState` and `FastChanges` are its rules |
| `enqueueAsyncStateReview`, `Enqueue`, release of the mutex | `EnqueueReview` |
| `generateLoop` | `Begin`, `EndReply`, `Reload` |
| the runner's worker, the task's `Build` | `TakeReview`, `BuildReview` |
| the task's commit | `ReadRow`, `WriteRow`, `RequestSafetyRestate`; `ReviewedState`, `Urgent` and `ReviewChanges` are `applyAsyncStateReviewResult` |

Both writers read the row, compute and write back all of it; the fast rules hold the
chat mutex in between, a review holds nothing.  So a write can overwrite another it has not
read: `raced` remembers that this happened (`writes` counts the writes, and each copy
knows at which count it was read).  The properties say what holds until it happens.

Inputs are what the program cannot choose: the signal the rules find in a message (none, a
phase, or neutral with a pause; which phrase matches which rule is left out), and the
result of a review (confident ones only, others change nothing).  The fields that only
go into prompts are one bit of that result: whether one of them changes.  A message that is not
saved keeps its Telegram update id as version, larger than any message id
(`FirstUpdate`).  Merged: `Publish` and `Offer` of the runner, because the queue is shared with
other sessions and may be full at any time; the sending of a reply and its end, whose parts
are the business of `ReplyGeneration`; a failed write has no effect.  A reset is left to
`ReplyGeneration` as well.  When a newer message and a review interrupt the same
reply, the later reason stands, as in the code.

### 2.4 `ProactiveDelivery` and `Outbox`

Sessions with their proactive columns, the events users mention, the table of
proactive messages with its unique key, the conversation log, and the one
goroutine of the scheduler with its pass and its job.  Time is a small counter
moved by `Tick`; the windows, gaps, cooldowns and caps of the code are constants.

| Code | Actions |
|---|---|
| first message, later messages, `/proactive`, reset | `Open`, `Speak`, `Opt`, `Reset` |
| `Run` choosing a pass at a tick | `Begin` (start pass, standard pass, reminder pass) |
| `scanAt` and the listing query | `Scan`, `ScanFails` |
| `selectSessionWinners`, `EvaluateEligibility`, `pickBestCandidate` | operators `SelectSessionWinners`, `Eligible`, `Best`; `TakeUp` picks the next candidate, `GiveUp` leaves it |
| `handleScannedCandidate` | `MarkUsed`, `Compose` |
| `Sender.Send` | `Insert`, `Send`, `Record`, `Save`, `Stamp`, one per call |
| the process stopping and starting | `Crash` |

Every call of the chain may fail (`Fault`, at most `MaxFaults` of them, crashes
included); after each failure the code's own path is taken: give up, go on
and ignore the error, or leave the row as it is.  Composing is the exception: `Composer.Compose`
(`composer.go:71-145`) replaces a failed generation by its seed text and never ends in an error, so only
an insertion that fails, or a crash, loses a message between mark and send.

Three reads of the scan swallow their errors (`scanner.go:377-420`).  `Scan` has the one that decides anything
here: the recent rows of a session may not be readable (`unread`, a fault for each session), and then
`RecentProactives` is empty, so that neither the caps nor the check on a reminder already sent apply in this pass.  A row
inserted by such a pass is `blind`, which is history.  A profile that cannot be read is replaced by the defaults, which
are the values the constants stand for (no code of the repository writes a cap or a gap other than these), without the
best windows, so that there is no habit ping in that pass; recent messages that cannot be read only change the score and the text.

Scores are abstract: a session's candidates may reach the threshold or not,
whatever their values, with one exception the code makes, that a single scanned
candidate is not scored at all.  The condition on the relationship in
`shouldReconnect` is folded into that choice.  The order of the sessions within
a pass is free.  The database calls of one message of the user are one step
(`Speak`).  The rows eligibility compares with are read when a candidate is
judged, while the code reads them during the scan of the same pass; the two differ
only after a reset in between, and then the insertion fails on the deleted
session either way.

`Outbox` is what this promises to the users, without events, scores, rules, statuses and restarts: a round
may write to whoever had not opted out when it began; a key (session, trigger, tag) is claimed once, within a round, by
a session that is open, and then in hand until it is let go, one at a time; it arrives at most once; each of three
books records what has arrived and nothing else, while it is in hand; a session that is closed takes its keys along and
is not opened again.  The refinement mapping (`Outgoing`, in `ProactiveDelivery`) takes the rows for the
claimed keys, `seenAt` for what arrived, the status, the log and the session's stamp for the books, the time
from `Insert` to the end of `Sender.Send` for the hand, and the sessions that were not opted out at `Begin` for the round.
`Insert` maps to `Claim`, `Send` to `Arrive`, `Record`, `Save` and `Stamp` to `Book` or `LetGo`, `Begin` to
`BeginRound`, the end of a pass, a failing scan and a crash to `EndRound`, the users' commands to `OpenSession`,
`ChangeMind` and `CloseSession`, and everything else to a stutter, as are the writes of a delivery whose row a reset
has deleted.

### 2.5 `EndpointPool`

One health flag per endpoint (`healthy`), requests that read and write them
(`pc`, `at`, `order`, `context`), and the monitor (`probing`, `step`, `checked`).  A flag has
a lock of its own, and a call lasts seconds, so reading each flag, a call, and the
mark after it are separate steps.

| Code | Actions and operators |
|---|---|
| `EndpointPoolClient.Chat`, `requestOrder` | `Begin`, `ReadFlag` (one flag at a time), `RequestOrder` (those found healthy, or all if none was) |
| `Client.Chat` of one endpoint, and what its error means | `Call`, with `Answers` and `FailsEligibly` (`isFailoverEligible`) |
| `markHealth` after a call, next endpoint | `MarkAnswered`, `MarkFailed` |
| `Run`: the first probe, the rechecks at each tick | `Tick`, `Look` (skips an endpoint flagged up), `CheckHealth`, `MarkChecked` |
| a deadline or a newer message ends the caller's context | `ContextEnds` |
| the servers | `ServerChanges` |

The condition of a server is what its two kinds of requests come to, independently.  `chat`: a generation `replies`,
ends in an error whose text `isFailoverEligible` (`failover.go:189`) finds one of its words in (`listed`), or in one it does
not (`unlisted`).  `probe`: whether `CheckHealth` succeeds, which takes a connection and a status below 400
(`client.go:127`); a 401 or 404 on `/models` or `/api/tags` fails it as much as a lost connection, and every failure of a probe flags
down, whatever its text.  The classes are those of the code, not those one would wish for: a 4xx whose
body contains "timeout" is listed, an unexpected EOF or "no route to host" is not (section 5).  The four
history variables say what a request saw of each endpoint, whether a request and the monitor met on
one, and which servers have given cause to be flagged down (`ailing`).

### 2.6 `RecentCache`

One user's sessions: `rows` in PostgreSQL, `list` in Redis, `session` the
active one, and operations of four kinds.  A message loads and then saves its turn, under
the chat's mutex.  A sender (a later part of a reply, or a proactive message) saves a turn for the
session it knows.  A command only loads, and a reset deletes, loads and saves its
opening line; neither takes the mutex.

| Code | Actions |
|---|---|
| `BootstrapContext`: user and session | `OpenSession` |
| `loadRecentConversation` | `GetRecent`, and for an empty list `SelectRows`, `SetRecent` |
| `SaveTurnRecord` | `InsertMessage`, `AppendRecent` |
| `ResetConversation` | `ListSessions`, `DeleteConversation`, `ClearLists` |
| errors: of PostgreSQL and of reading the list | `Break` |
| errors of writing the list, only logged | the second branch of `SetRecent`, `AppendRecent`, `ClearLists` |
| the list's time to live | `Expire` |

Turns are their message ids, which the table hands out in increasing order.
`raced`, `erased`, `cleared` and `leaky` remember which turns were saved
while a save or refill that no mutex holds back was under way, and which lists a reset
deleted with a write to them under way.  Merged: the upserts of user and session, and the update of the
session's times with the insertion of the row.  A user has one session at a time, by the unique key
on user and status (`postgres/store.go:586`).

### 2.7 `TopicSlots`

`table` is the session's part of `tg_topic_slots`; `latest`, `stage` and `queue` are its tasks on
the analytic runner, and the worker keeps the message it analyses (`task`), the slots of its
merge (`draft`, the map `byKey` of the code), the topics the answer has named (`named`), the slots still to be
written (`pending`) and the open ones written (`kept`).  `clean` and `heard` are history: whether
a commit failed, and how many analyses have named a topic since it was opened.

| Code | Actions and operators |
|---|---|
| `AsyncEnqueue`, `Enqueue` of the runner | `Publish`, `Offer` |
| the runner's worker | `Take`, `CheckBeforeBuild`, `CheckAfterBuild` |
| `ListActiveTopicSlots` with its order and limit | `ListActiveTopicSlots`, `Snapshots`, `Precedes` |
| the model's answer | `Analyze`, `BuildFails` |
| `MergeMemorySlotAnalysis`: resolved, named and superseded topics | `ResolveTopic`, `NameTopic`, `SupersedeTopic`, `FinishMerge`; `Mentioned` with `DeriveTopicStatus`, `ClampImportance`, `DeriveConfidence` |
| `EnforceTopicSlotLimits` and `UpsertTopicSlot`, row by row | `UpsertTopicSlot`, `LimitedStatus`; `WriteFails`, `CommitEnds` |
| a reset that deletes the session | `DeleteConversation` |
| `filterPromptTopicSlots` | `Hidden`, in `HiddenOnlyOnce` |

The answer of the model is any sequence of remarks: resolved topics first, then named ones, each
with the topics it supersedes, as the code goes through them.  The limits are
computed before the first row is written in the code, and row by row here: both go through the slots in the same
order and depend only on those before.  Which text makes which key is left out.

### 2.8 `ProfileMemory`

`profile` and `cand` are the rows of one user, `latest` and `queue` his tasks on the analytic
runner, `task`, `todo`, `value`, `top`, `patch` what its worker holds.  `unwritten` remembers which
candidates were confirmed with their value still to be written, `newest` the last version enqueued per kind.

| Code | Actions and operators |
|---|---|
| the handler, under the chat's mutex | `CaptureUserSignals`, `EnqueueProfileBatchReview` |
| the commands | `ForceReview` (`service.go:751`), `UpdateMyInfo` |
| the runner's worker | `Take`, `CheckBeforeBuild`, `CheckAfterBuild`, `BuildFails` |
| the model on one message | `Extract` |
| `persistStructuredExtraction`, slot by slot | `MergeProfileCandidate` (one transaction), `NothingFound`, `ExtractionEnds` |
| a name goes to the profile at once | `PromoteName`, `ConfirmName` |
| `ListTopProfileCandidatesByUserID` and the model on the candidates | `Review`, `Best`, `Outranks` |
| `applyProfileBatchReview`, decision by decision | `Confirm`, `Reject`, `DecisionFails`, `CommitFails`, `DecisionsEnd`, `WritePatch` |
| the process stopping and starting | `Crash` |

What an answer says is chosen as it is applied, which spares the state between and loses nothing, as
nothing reads an answer before.

### 2.9 `FeedbackSweep` and `AnswerBook`

One session: its conversation `log`, the proactive messages (`answers`) with the columns the sweep
writes, and the scheduler in its sweep (`stage`, `row`, `reply`).  A position in the log is the time
of its entry.  These variables and the properties are declared in `AnswerBook`, which `FeedbackSweep` extends, so that
the theorems can be about them too.

| Code | Actions |
|---|---|
| the chat's handlers | `Say`, `Opt`, `Reset` |
| `Sender.Send` in the passes, as one step | `SendProactive` |
| `RunOnce` | `PassesEnd` (an error of a pass ends it without a sweep) |
| `runFeedbackSweep` | `ListSessionsForProactive`, `SelectLatest`, `AssessFeedback` with `FindFirstUserReplyAfter` over `Recent`, the entries the query returns |
| its four calls, whose errors are ignored or logged | `MarkProactiveMessageReplied`, `CreditSession`, `UpdateProactiveProfile`, `SendRewardAudio` |
| the process stopping, starting | `Restart` |

Each row counts its failed marks, credits and rewards, and remembers which entries of the log it was credited
for (`heard`, written by `Credited`), which is what the properties compare.

## 3 Runs

| Run | Configuration | Properties | Shows |
|---|---|---|---|
| `async_runner` | `MCAsyncRunner.cfg` | `ImplementsBoard`, `EveryTaskEnds` | the executor with one worker implements `TaskBoard`; a failing build releases the worker and every task ends |
| `reply_safety` | `MCReplySafety.cfg` | `TypeOK`, `HandleHasOwner`, `NoRestartAfterFirstPart`, `AtMostOneLatePart`, `SilentOnlyWithRival`, `ImplementsFloor`, `EveryHandlerEnds` | the pipeline implements `ChatFloor`; what two concurrent messages of any kind and a review can and cannot do to a reply; restates are bounded and the mutex is always released |
| `conversation_state` | `MCConversationState.cfg` | `StopIsKept`, `UrgentReviewRestates`, `SkippedForLaterOrUnsaved`, `ReviewsYieldToNewer` | what two messages, their reviews and one failed call do to a stop, to a newer decision, to the reply under way and to each other's reviews |
| `proactive_safety` | `MCProactiveSafety.cfg` | `OncePerTrigger`, `NoBurst`, `NoSilentLoss`, `BookedOrFaulted`, `MutedStaysQuiet` | what two faults anywhere, failed reads of the scan among them, can do to the books and to the user |
| `proactive_promises` | `MCProactivePromises.cfg` | `PassEnds`, `LoneReminderServed`, `ImplementsOutbox` | the passes implement `Outbox`; a pass ends whatever fails in it; a lone reminder is served or its window closes |
| `endpoint_pool` | `MCEndpointPool.cfg` | `SkippedForCause`, `MarkedDownForCause`, `RecheckDemotesOnlyInRace`, `RequestsEnd`, `ComesBack` | what takes an endpoint out of service or has it passed over, and that neither lasts without a cause |
| `recent_cache` | `MCRecentCache.cfg` | `TypeOK`, `ListInOrder`, `NoTurnLost`, `NothingFromBeforeReset`, `ResidueOnlyFromInFlight` | what one fault, one expiry and every interleaving of saves, loads and a reset do to the recent conversation |
| `topic_slots` | `MCTopicSlots.cfg` | `LimitsKept`, `HiddenOnlyOnce`, `PushedOutByBetter`, `RowsMoveForward` | what three analyses, any of whose reads and writes may fail, do to the limits, to a topic that loses its place, to the order of the messages and to a recurring topic |
| `profile_memory` | `MCProfileMemory.cfg` | `ConfirmedIsWritten`, `NamesInOrder` | what extractions, reviews, commands and one failed call or crash leave of a confirmed value and of a name |
| `feedback_sweep` | `MCFeedbackSweep.cfg` | `RewardedOnce`, `MarkedIsCredited`, `CreditedToItsMessage` | what restarts, failed calls and what is said and sent meanwhile do to the credit and the reward of an answer, and for which message it counts |
| `reply_fallback`, `profile_forced` | one cfg each | `FallbackIsSent`, `OnlyStaleSkipped`, violated | the findings of section 5 |

Where a module's `TypeOK` is in no run, it was checked with TLC and is now proved (section 4), and so
are `HandedOverOnce`, `SkippedOnlyForNewer` and `CommitsInOrder` of the executor, which say in its own variables what
`ImplementsBoard` says through the mapping.

### 3.1 Bounds, and why they are enough

* `async_runner`: three tasks over two keys with versions 1..3, a channel of
  one, one worker.  Two tasks of a key and one beside them give every
  order of two versions, a full queue, and a task of another key in the
  worker's way.  Versions are given to tasks arbitrarily, equal ones included.
  `ImplementsBoard` needs the single worker the analytic executor has; the theorem
  says the same for any number of tasks, and those on handing over and skipping hold for any number of workers.
* `reply_*`: two messages.  Every clash in the coordinator is between the owner
  of the handle and one other goroutine; a reply has one or two parts so that
  there is a step before the first, between two, and after the last.  In `reply_safety` the
  older message has a review, which may restate either reply; a second review multiplies the states
  and, the restates being limited per reply, adds no new clash.  The violated property needs no
  review.  That three messages or more reviews bring nothing new
  is what the theorems are for: the five invariants and the refinement are proved for every `N`, `MaxParts` and `Reviewed`.
* `conversation_state`: two messages, both reviewed on two workers (the code's default
  is one, `config.go:231`, and two when it is not set right, `service.go:102`), so that
  reviews overlap each other and the next message; a pause of two turns, which reaches
  over the second message and not over a third, and a lock of two turns for
  reviews; update ids above 9; one failed call.  Every pair of writers of the row is there.
* `proactive_safety`: one session (the goroutine handles sessions one after the
  other, and every record and rule is per session), two moods, two kinds of events,
  a clock of 0..2 with each window and the gap inside it and quiet hours at 0 and 1 (`Day = 3`, cap 1, gap 2, habit hour 2),
  so that two messages of a session can go out within a gap, and two faults: a burst after a lost stamp needs a second one,
  which loses the status or the read of the rows.
* `proactive_promises`: one reminder kind at two times, one mood, a clock of 0..2 of which the first two instants are
  quiet, and one fault.  Quiet hours must not hold a reminder back, and at the last instant other messages go out, so that
  claims of several kinds, resets and opting out meet a delivery under way.  The theorem has the refinement
  for any sessions, clock and faults.

* `endpoint_pool`: two endpoints, the least with a first, a last and a next one;
  two requests, one whose context may end, so that a request meets the monitor and another request
  on the same flag; servers start up or down (`UpOrDown`) and one of them changes once, to any of the six
  conditions, a server that serves generations and refuses probes among them.  The theorems hold for any numbers.
* `recent_cache`: two messages, one sender, one command and one reset, two
  sessions (before and after it), lists of two turns so that a third is trimmed, one
  expiry and one failed call.  Each pair of operations that may overlap is there.

* `topic_slots`: three topics of which one may be active and one watched (`Limit = 1`, and
  `SnapshotLimit = 2`, the same ratio as five and ten in the code), so that a third is pushed out and a fourth
  row's read is cut off; three analyses, so that one can be overtaken before and after its build;
  at most two topics named per answer, and three remarks: a certain topic, a
  weak one, one given up.  Topics are symmetric.
* `profile_memory`: a name and another slot, two values of each, two messages that are both
  extracted and reviewed (`ReviewInterval = 1`), one forced review, one slot set by hand, two decisions
  in a review (one per slot), one failed call or crash.  Values are symmetric.
* `feedback_sweep`: three messages, three starts, so that a message can be swept twice and another
  come in between; two faults, because crediting an answer twice takes two; a window of
  three in a log of six, so that an answer can leave the window, and an entry can follow two messages.

`CHECK_DEADLOCK FALSE` is set where every message, task or operation may have been
handled; the scheduler and the monitor never stop, and their runs check for deadlock.

### 3.2 Fairness, and why the code justifies it

* `AsyncRunner`: weak fairness of each worker and of the second half of an
  `Enqueue` that has begun.  A worker ranges over a channel nobody closes, and
  build and commit run under a context with a timeout (`async_runner.go:100`).
  Nothing forces a caller to enqueue.
* `ReplyGeneration`: weak fairness of each started goroutine.  Its calls
  to the database, the model and Telegram end, by an answer or an error: the HTTP
  client of the model has a timeout (`ollama/client.go:45`), the pauses are timers, and
  that a hung database or Telegram connection is eventually torn down is assumed.  The
  mutex needs no strong fairness with two messages, one of which waits at a time;
  Go's mutex is starvation-free in any case.  `reply_safety` runs under this fairness.  Users need not write, and a queued
  review need not run.
* `ProactiveDelivery`: weak fairness of the scheduler's own work (its calls end,
  with the same assumption), and strong fairness of beginning each kind of pass: both tickers keep
  ticking, and a Go `select` with both ready chooses at random, so neither is passed
  over for ever.  The clock, users, faults and crashes are not forced.

* `EndpointPool`: weak fairness of each request that has begun and of the monitor.  Every
  HTTP call ends by the timeout of its client (`client.go:45`, `:190`) or of its probe (10 s), and
  the ticker ticks as long as the program runs.  Nobody has to make a request, and servers
  change as they like.
* `TopicSlots`, `ProfileMemory` and `FeedbackSweep` state no fairness: their properties are safety.

## 4 Proofs

Each proof module EXTENDS its component and proves an inductive invariant, from
which the listed theorems follow (`ConversationStateProofs` a chain of six, each resting
on the ones before it).  They hold for all values of the constants that
satisfy the named assumptions of the component, which say no more than that
numbers are numbers, a channel has room, markers are no tasks, a message is no other kind
of operation, the tables of sessions and events are finite, and the process starts at least once.
Every safety property of the passing runs, invariant or action property, is stated by a theorem.

Two kinds of theorems have hypotheses of their own.  `SingleWorkerCommitsInOrder` and
`RunnerImplementsBoard` are about one worker, which the analytic executor has.
`NoBurstUnderCap` is about one message a day, a gap of at most a day and fewer faults than the
rows a pass reads back, which are the defaults of the code (`defaults.go:6`, `:19`, `:20`: 1, 20 hours, 14 rows).  It
needs them: a message is remembered by the stamp of its session and by its row.  The stamp alone keeps the
next message away by the gap, whatever the cap (`StampKeepsGap`).  If the stamp is lost, the row is what counts,
and it counts towards the cap only, so with a cap of two the next message may follow at once; and
if `RecentLimit` rows that were never sent come after it, no pass reads it any more.  The row does not count for a
pass that could not read it either, with any cap: `NoBurst` says so (`blind`), and two faults, a lost stamp and a
failed read, do lead to a burst (section 5).

| Module | Theorem | Statement |
|---|---|---|
| `AsyncRunnerProofs` | `RunnerTypes`, `RunnerHandsOverOnce`, `RunnerSkipsForNewer` | `TypeOK`, `HandedOverOnce`, `SkippedOnlyForNewer`, for any number of workers |
| | `SingleWorkerCommitsInOrder` | `CommitsInOrder`, if there is one worker |
| | `RunnerImplementsBoard` | `ImplementsBoard`, if there is one worker: every step of the executor is one of the board or a stutter |
| `ReplyGenerationProofs` | `ReplyTypes`, `HandlesAreOwned`, `RepliesStartOnce`, `OneLatePart` | `TypeOK`, `HandleHasOwner`, `NoRestartAfterFirstPart`, `AtMostOneLatePart`, for any number of messages and parts |
| | `LoneMessagesAnswered` | `SilentOnlyWithRival`, for any reviews |
| | `ReplyImplementsFloor` | `ImplementsFloor`: every step of the pipeline is one of the floor or a stutter, for any number of messages, parts and reviews |
| `ConversationStateProofs` | `StateTypes`, `StopsAreKept`, `ReviewsSkippedForReason`, `ReviewsYield`, `UrgentReviews` | `TypeOK`, `StopIsKept`, `SkippedForLaterOrUnsaved`, `ReviewsYieldToNewer`, `UrgentReviewRestates`, for any messages, pauses, workers and failures |
| `ProactiveDeliveryProofs` | `ProactiveTypes`, `TriggersAnsweredOnce`, `MutedSessions` | `TypeOK`, `OncePerTrigger`, `MutedStaysQuiet`, for any users, windows, caps and number of faults |
| | `SentIsBooked`, `EventsAreAnswered` | `BookedOrFaulted`, `NoSilentLoss`, for any number of messages, events and faults |
| | `StampKeepsGap` | a message nobody asked for comes at least `MinGap` after every earlier one of its session whose stamp was written, for any caps and faults |
| | `NoBurstUnderCap` | `NoBurst`, if the cap is one a day, the gap at most a day, and the faults fewer than the rows read |
| | `SweepTypes`, `AnswersRewardedOnce`, `MarkedAnswersCredited`, `CreditsGoToTheirMessage` | `TypeOK`, `RewardedOnce`, `MarkedIsCredited`, `CreditedToItsMessage` of `FeedbackSweep`, for any log, rows, starts, faults and window; the module extends `AnswerBook`, takes `FeedbackSweep` by INSTANCE, and `SweepBounds` is what the proofs need of the assumptions named there |
| | `DeliveryImplementsOutbox` | `ImplementsOutbox`: every step of the users, the clock, the scheduler and the sender, crashes included, is one of the outbox or a stutter, for any sessions, events, rules and faults |
| | `BooksAreTrue` | what the status, the log or the session records as delivered did reach the user; proved of `Outbox` and carried over by the refinement |
| `EndpointPoolProofs` | `PoolTypes`, `PassedOverForCause`, `NoFalseAlarm`, `RecheckOnlyRaises` | `TypeOK`, `SkippedForCause`, `MarkedDownForCause`, `RecheckDemotesOnlyInRace`, for any endpoints, requests and changes of the servers |
| `RecentCacheProofs` | `CacheTypes`, `NothingComesBack`, `ResetLeavesNothing` | `TypeOK`, `NothingFromBeforeReset`, `ResidueOnlyFromInFlight`, for any operations, sessions, limits, expiries and failed calls |
| | `ListKeepsOrder`, `TurnsAreKept` | `ListInOrder`, `NoTurnLost`, for the same |
| `TopicSlotsProofs` | `TopicTypes`, `TopicLimits`, `PushedOutForBetter`, `TopicsMoveForward`, `RecurringTopicsShow` | `TypeOK`, `LimitsKept`, `PushedOutByBetter`, `RowsMoveForward`, `HiddenOnlyOnce`, for any topics, messages, limits and answers |
| `ProfileMemoryProofs` | `ProfileTypes`, `ConfirmedAreWritten`, `NamesAreInOrder` | `TypeOK`, `ConfirmedIsWritten`, `NamesInOrder`, for any slots, values, messages, commands and number of faults |

Why the invariants have to be strengthened:

* **AsyncRunner.**  `LatestIsPublished`: the version table is never behind a
  task that was published, and what it holds was published by some task; so
  a task found superseded has a newer one.  `WrittenInOrder`: nothing written is newer than
  the table, and a task between its second check and its commit is at least as
  new as anything written for its key.  With one worker nothing can be
  committed in between, which is where the proof uses that assumption.  The refinement rests on two of these
  facts: `SingleWorkerWritesInOrder` gives `TakeEffect` its guard, `SupersededHasRival` gives it to `Skip`.
* **ReplyGeneration.**  `Inv` adds four facts about each message to the
  types and `HandleHasOwner`.  A round about to be repeated was the first one
  (`RegeneratedOnce`).  Nothing was delivered before the first check, nor by a round that
  is repeated or that failed (`NothingSentYet`).  What an active generation
  delivered is counted in its handle when the next part is checked (`SentIsCounted`): a
  restate may slip in between `sendText` and `MarkPartSent`, but the check comes after the
  count and then refuses to start over.  A handler that sent a late part is overtaken, and
  no longer active at its next check (`LateIsNoticed`), which gives one late part at most.
  `LoneInv`, for `SilentOnlyWithRival`: as long as a message is alone, its goroutine is the only
  one running (`Solitude`), its generation stays the chat's, and only a review that finds nothing sent and nothing
  restated yet interrupts it (`Undisturbed`), so that the second round cannot be silenced.
  `FloorInv`, for the refinement: no two messages run the generation that has the handle (`OneHolder`), so that
  whoever passes the check has the floor; and the part being handled is the one after those delivered
  (`PartsInOrder`), which bounds a reply by its parts and gives `AnswerAside` its guard.
* **ConversationState.**  `TurnsInv`: one handler at a time decides, and has the largest
  turn so far, so that a stop cannot come to apply to a message already decided.  `ReadsInv`: a copy
  read after the last write is the row; hence (`WritesOfTheRow`) a write that overtakes
  nothing counts the revision up and never lowers the lock.  From it `RevisionsInv`, revisions count the
  writes, which is why comparing them tells old copies from new, and `StopsInv`, the lock of
  every stop is in the row and in the copy of whoever decides next.  `ReviewsInv`: a review about to
  write has found no newer source in the row it read, and only recorded messages are reviewed.
  `SourcesInv`: versions and sources belong to recorded messages, so whatever skips a review exists.
* **ProactiveDelivery.**  Once per trigger rests on the unique key of the
  table, not on eligibility (section 5, known limits): the invariant carries `UniqueKeys`, that
  ids are never used twice (`IdsAreUsed`), so that an update by id touches only
  the job's row, that a job works on a candidate of its pass (`JobIsCandidate`)
  and on its own row (`JobOwnsItsRow`), through crashes and resets.  `MutedIsLeftOut`
  carries an opt-out from the listing to the winners and to the job.
  `SentIsBooked` and `EventsAreAnswered` bound a number of elements by the number of faults; both say that what is missing so
  far lies in a finite set that grows by at most one element per fault (`Covered`, `CoverGrows`), which every step keeps.  For the books,
  `Numbered` makes an id stand for one row, and `Missing` is what the rows seen lack beyond what the job is about to
  write; for the events, `Backed` says that from INSERT on the job's key has its row, unless a reset took
  the session, so that an event used up has a message, a fault, or an end its user caused.
  The gap rests on `Spacing`.  Recorded times are true and ordered as the rows are (`Clocked`), and what a
  pass has read of a session is current until it has judged (`Snapshot`), as the scheduler is the only
  writer of stamps.  So what it lets through is a gap after every message that counts (`Cleared`: a stamped one, or under
  the cap of one a sent one if the pass could read the rows, which its own row tells, `Aware`), and stays so until it goes out, because a pass takes up one candidate of a session
  (`OneEach`).  Under the cap the pass must see the last sent row: rows after it that were not sent
  cost a fault each (`Covered(UnsentIds)`), so there are fewer of them than rows read.
  The refinement takes its guards from the same facts: `UniqueKeys` and `Numbered` for `Arrive` (the job has one row at
  most, it is the only one of its key, and nobody has seen it), `Underway` for `Book` (the row is queued until `Record`,
  and after a delivery without failure it was seen), `MutedIsLeftOut` for `Claim`; and `Unheard`, that nobody has opted out
  before he wrote, for `OpenSession`.
* **FeedbackSweep.**  `SweepSpares`: a row is credited and rewarded at most once more than its mark has failed, and
  what is still to come of its sweep is within that, so a restart spends a failed mark and no more.  A row joins
  the marked ones without credit only in a step that fails (`UncreditedStep`), which bounds them by the faults.
  `Attributed`, for `CreditedToItsMessage`: a sweep that has selected a message is at the last one there is, since messages are
  sent by the goroutine that sweeps, and what it takes for the answer was said after it (`SweepsLatest`); what was credited before had
  been said, hence before any message sent later (`CreditedWasSaid`).
* **EndpointPool.**  `Accounted`: each endpoint below the one a request reads was
  found healthy or is doubted; once it calls, each endpoint is still in its order, failed it, or is doubted; and what is called
  is the first of the order, which is why a request that is answered has passed over no other.
  `Explained`: a failed call or probe not yet marked has its cause in the history already, and so does every server
  that is ailing now, so that the mark adds nothing unexplained.  `RecheckedIsDown`: an endpoint under recheck is still down, or a request has raised it.
* **RecentCache.**  `Working`: whoever loads or saves has a session, whoever appends has saved the
  row.  `Generations`: the active session is `Fresh` since the last reset, and the session of every operation since
  the reset it followed: neither its rows, nor its list, nor what anyone working on it has in hand, is older; no step
  brings an older turn in (`StaysFresh`), because every turn has one session and sessions are never used twice.
  `Cleared`: what a reset clears is gone from the table already, a session that is gone stays so (`StaysGone`), and
  its list stays empty once no write is under way (`StaysQuiet`), as there is nothing to refill it with and no row can be saved for it.
  Deleting the rows before the lists is what makes this hold.
  `OrderInv`: turns being saved are different ones and not in the list yet (`TurnsApart`); one that another
  save or a refill overlaps is `raced`, and so is every later row of the session meanwhile (`OverlapsAreRaced`); rows, and
  what a refill has read of them, are in order (`RowsInOrder`).  Messages hold the mutex all the while
  (`MutexHeld`), so that only a sender or a reader can overlap.  `KeptInv`, while no list has expired: a turn appended and not raced
  is in the list, followed by newer turns only, or as many newer ones as the limit were saved; a list that is still
  empty has seen no append, and while a refill is under way there is nothing to keep, so that a refill overwrites nothing.

* **TopicSlots.**  `WorkerShape`: what the worker holds at each step, and that between commits it holds
  nothing.  `Sources`: nothing, no row, draft or task, is from a later message than the latest one published, and when rows
  are written both they and the drafts are from messages no later than the task's, which has just been compared
  with the latest; so rows move forward.  `Limits`: during a
  commit the open rows are those kept, within the limit, and others still pending; what was open in the table and not
  read cannot be, because a clean table fits into one read (`ReadsAllThatIsKept`).  `Counts`: in a clean table a topic's mentions are no
  fewer than the analyses that named it.
* **ProfileMemory.**  `Unwritten`: a confirmed value not yet written is either in the patch of the review
  under way, or was left behind by a failed call; a value left behind stays confirmed, so that no review lists
  it again, and what a later review leaves is its own.  `NamesKnown`: extractions run in
  the order of their messages, and while no call fails a name is merged, promoted and confirmed by
  the extraction that found it, so that no review ever decides on a name.

Only model-checked: the liveness properties (`EveryTaskEnds`, `EveryHandlerEnds`, `PassEnds`,
`LoneReminderServed`, `RequestsEnd`, `ComesBack`), since the prover handles neither fairness nor
`ENABLED`.  No recursive operator is used in any module, and induction over data is not needed.

## 5 Findings

Each is a property that states what the repository's documents say, refuted by a run of what the code does.

1. **The fallback text is never sent** (`reply_fallback`).  When the model fails,
   `HandleMessage` retires the generation (`service.go:392`) before it
   takes the fallback text, and `BeforeSend` (`:433`) refuses for want of a handle.
   `docs/telegram-ollama-dating-bot-mvp.md:724` promises a short fallback message.
2. **A forced review silences the regular ones** (`profile_forced`).  The command that collects what is known of the user
   enqueues a review with a clock reading in nanoseconds as its version (`profile_batch_review.go:247`, called at
   `service.go:751`), regular reviews carry the id of their message, and both share the user's key.  From
   then on every regular review of the user counts as superseded, until the process restarts.
   `docs/chatbot-harness-design.md:104` has stale jobs skipped, not fresh ones.

Known limits, seen while modelling, with no run of their own:

* After a reset one more part of the old reply may come: `BeforeSend` lets the reason `reset` pass
  (`generation_coordinator.go:121`), and a handler between recording and `Begin` has no handle to interrupt.
  `AtMostOneLatePart` is the bound; `README.md:247` says the next conversation starts as a new session.
* An older message can silence the newest one.  The goroutines of two updates are not ordered;
  `CancelActive` and `Begin` of the older one, run late, take the chat from the newer
  (`generation_coordinator.go:88`).  `docs/telegram-ollama-dating-bot-mvp.md:786` and `:806` say that replies keep their order
  and processing goes on from the newest message; `SilentOnlyWithRival` is what holds.
* A trigger that has a row is taken up again.  Only reminders are compared with earlier
  rows (`eligibility.go:12`), and only with sent ones; any other is composed on every standard pass and then
  fails on the unique key, which keeps it from being sent twice (`OncePerTrigger`).
  `docs/proactive-messaging-system.md:409` says such a candidate is rejected.
* The poller moves its offset past an update as soon as its goroutine is started (`polling.go:71`): a crash before it is
  handled loses the message.
* A topic that was closed and comes up again starts from one mention, as only open rows are
  read: with low confidence it is hidden although it recurs (`memory_slots.go:239`, against the comment above it and
  `docs/telegram-ollama-dating-bot-mvp.md:355`).
* Only active candidates are reviewed (`postgres/profile_candidate.go:222`): a confirmed value that was replaced in the profile since is
  never brought back, however often the user repeats it; and a confirmed value whose patch failed is never written.
* The feedback sweep runs only when the process starts (`RunOnce`, `scheduler.go:104`); `PROACTIVE_FEEDBACK_INTERVAL_SEC`
  is read and used by nothing.  `docs/proactive-messaging-system.md:938` plans a sweep every ten minutes.
* The sweep looks at the latest row of a session only: a message that was not delivered hides the answered
  one before it.  When the profile cannot be read, the sweep takes an empty one for it (`scheduler.go:346`), and
  writes averages that have forgotten what was learned.
* An answer that later messages have pushed out of the eight the sweep reads (`scheduler.go:328`) is missed, or a later one is
  taken for it: the sweep takes the first one it reads.  `CreditedToItsMessage` leaves that open and says that it is
  credited to no other message.
* The rule on ignored messages (`eligibility.go:45`, doc line 389) can never apply:
  nothing calls `IncrementSessionProactiveIgnored`.
* `AcquireProactiveLock` (doc lines 401-402) has no caller; the single goroutine of the
  scheduler is what keeps passes apart, and two processes would rely on the unique key alone.
* The trigger reference of a mood carries the mood's name only, where the document's section 4.5 gives
  it a time as well: one mood is followed up once per session.
* Two reviews, or a review and the fast rules of the next message, can overwrite each other's
  write of the state row: the lock of a stop is lost, or the revision stands still and a restate is
  refused.  No document promises otherwise; the properties of `ConversationState` leave this case out (`raced`).
* A message that could not be saved silences the reviews of its session until the process restarts,
  and for good if the row took it as its source: its version, the update id, is not exceeded by
  a message id (`service.go:303`).
* A reminder needs the score threshold as soon as another candidate is scanned beside
  it, and not when it is alone; `LoneReminderServed` is about the latter.

* A request that finds some endpoint flagged up never tries those flagged down (`failover.go:141`),
  so it can fail with "all ollama endpoints failed" without having asked all of them; an expired deadline takes
  the endpoints it had no time for out of service until the next recheck, 30 minutes by default.
* A server that serves generations but answers 4xx on `/models` or `/api/tags` (`client.go:127`: no such route, another
  authorisation) is taken out of service by the first probe, and no recheck brings it back; only a request
  that finds every endpoint flagged down calls it, and flags it up if it replies.  `MarkedDownForCause` and `ComesBack` are about probes for
  that reason.
* `isFailoverEligible` searches the whole error text for its words (`failover.go:189-215`): a 4xx whose body mentions a
  "timeout" takes the endpoint out and the request to the next one, while an unexpected EOF or "no route to host" of a server
  that is gone ends the request with an error and leaves the flag up.
* A pass that cannot read the recent rows of a session takes it for one without any (`scanner.go:411-420`) and goes on:
  the caps and the check on a reminder already sent are skipped.  The stamp in the session still keeps the gap
  (`StampKeepsGap`) and the unique key still keeps triggers apart (`OncePerTrigger`); but with a stamp that was lost as well the
  next message may follow at once, two faults where the rows alone would have held it back.
* A list that has expired and is then appended to, by a proactive message say, holds one turn, and
  the next load takes it for the whole recent conversation: only an empty list is refilled
  (`store.go:584`).  `README.md:40` speaks of the last 14 turns from either store.
* A save or refill under way while a reset clears the lists leaves a list of the deleted session
  behind for its time to live; no later session reads it (`NothingFromBeforeReset`).

## 6 What is not modelled

* Of the pipeline: what follows a sent reply (reward audio, slot and
  holiday marks), shutdown, the text of prompts and replies.
* Of the scheduler: the texts, the values of the scores, averages and sentiments, and the limit
  of 200 of the listing queries.
* The text functions, configuration, logging, the holiday import and the speech
  client: formatting and best-effort I/O without state of interest.
* The proactive locks and cooldowns in Redis: dead code.
* Of the conversation state machine: the matching of phrases to rules (`phase_detector.go`),
  the prompt of a review, the values of the fields that only go into prompts.
* Of the failover: the requests and bodies of the HTTP calls (only their outcomes), and shutdown.
* Of the memory of topics and profile: which text is about which topic or slot, the prompts and the parsing of
  answers, traits and custom slots, the command that clears single fields (`service.go` 828-850), and the cooldown of
  fields in prompts (`profile_slots.go` 71-245).
* Of the history summarizer: what a summary says and how far it reaches; as a task it is one of `AsyncRunner`'s.

## 7 Plan

Done, in this order: `ReplyGeneration`, `AsyncRunner`, `ProactiveDelivery`, `ConversationState`, `EndpointPool`,
`RecentCache`, `TopicSlots` and `ProfileMemory` (first planned as one module), `FeedbackSweep`, and the abstract
specifications `TaskBoard`, `ChatFloor` and `Outbox`; proofs of every safety property of these modules and of the
three refinements.  What is left:

| | Module | Models | Properties meant | Run and bounds | Theorems meant |
|---|---|---|---|---|---|
| 1 | `ProactiveRules`, `PhaseRules` | pure functions: quiet hours across midnight, send caps, best candidate, phase transitions | against reference definitions over bounded inputs | one run | facts about quiet hours and choice |
| 2 | `Traits` | traits and custom slots with their expiry, the cooldown of fields in prompts | a field is not offered twice within its cooldown | one run | |

The runs are kept few, one per question; a later module may also
replace a run that has become redundant.

Compositions: `ReplyGeneration` already contains the coordinator with the
pipeline and the review as one system, and `ProactiveDelivery` the sender with the scheduler and
the users.  `ConversationState` composes the row with the runner of the reviews and the
replies, and has the rules behind the revision `ReplyGeneration` follows.  `TopicSlots` and `ProfileMemory` each
compose their rows with the handlers that enqueue and with the runner; `FeedbackSweep` takes the passes before it
and `Sender.Send` as single steps, which `ProactiveDelivery` has in detail.
