--------------------------- MODULE ProactiveDelivery ---------------------------
(***************************************************************************)
(* Messages the bot sends on its own (internal/proactive: scheduler.go,    *)
(* scanner.go, eligibility.go, sender.go; the queries behind them in       *)
(* internal/store/postgres/proactive.go).                                  *)
(*                                                                         *)
(* One goroutine per bot runs a pass on every tick: a reminder pass or a   *)
(* standard one.  A pass lists the sessions, reads the due events, chooses *)
(* at most one candidate of each session, and then takes the chosen ones   *)
(* up one after the other.  Users talk, opt in and out, and reset while it *)
(* runs.  Every call to the database, the model and Telegram may fail, and *)
(* the process may stop between any two of them and start again.           *)
(*                                                                         *)
(* Scores are abstracted to "reaches SendThreshold or not", the texts are  *)
(* left out, and time is a clock whose unit the constants choose.          *)
(***************************************************************************)
EXTENDS Naturals, FiniteSets

CONSTANTS Sessions,   \* session rows, in the order they are created
          Moods,      \* the moods detectMood tells apart
          Neutral,    \* the one that calls for nothing
          MaxTime,    \* bound: the last instant of the clock
          MaxFaults,  \* bound: failed calls and crashes
          EventKinds, \* bound: the kinds of events the users mention
          EventTimes  \* bound: when those take place

CONSTANTS ReminderWindow, FollowupBefore, FollowupAfter,   \* withinEventWindow
          Active,                                          \* recentlyActive
          MinGap, MaxPerDay, MaxPerWeek,                   \* ProactiveProfile
          MoodCooldown, HabitCooldown, ReconnectCooldown,  \* defaults.go
          ReconnectAge, Day, Week,
          RecentLimit,          \* DefaultRecentConversationLimit
          HabitTimes, QuietTimes \* instants in the best window, in quiet hours

ASSUME BoundsAreNumbers ==
  /\ {MaxTime, MaxFaults} \subseteq Nat
  /\ EventTimes \subseteq Nat
  /\ EventKinds \subseteq {"reminder", "schedule"}
ASSUME DurationsAreNumbers ==
  {ReminderWindow, FollowupBefore, FollowupAfter, Active, MinGap, MaxPerDay,
   MaxPerWeek, MoodCooldown, HabitCooldown, ReconnectCooldown, ReconnectAge,
   Day, Week, RecentLimit} \subseteq Nat
ASSUME TablesAreFinite == IsFiniteSet(Sessions) /\ IsFiniteSet(EventTimes)
ASSUME DayIsPositive == Day > 0
ASSUME NeutralIsAMood == Neutral \in Moods

VARIABLES now,      \* the clock
          session,  \* session[s]: the columns of tg_chat_sessions used here
          event,    \* event[e]: the row of tg_memory_events, if any
          rows,     \* the table tg_proactive_messages
          serial,   \* the last id of a row of it
          pc,       \* what the scheduler's goroutine does next
          boot,     \* how far RunOnce got since the process started
          pass,     \* the locals of the pass under way
          job,      \* the candidate being handled
          faults    \* failed calls and crashes so far

scheduler == <<pc, boot, pass, job>>
messages == <<rows, serial>>
vars == <<now, session, event, messages, scheduler, faults>>

Time == 0..MaxTime
Never == MaxTime + 1  \* the zero time.Time

SessionRow == [state: {"none", "active", "gone"}, optIn: BOOLEAN,
               lastUser: Time \cup {Never}, lastProactive: Time \cup {Never},
               mood: Moods]
\* The row CreateSession writes: proactive_opt_in DEFAULT TRUE.
NewSession == [state |-> "active", optIn |-> TRUE, lastUser |-> Never,
               lastProactive |-> Never, mood |-> Neutral]
NoSession == [NewSession EXCEPT !.state = "none"]

\* The unique key of tg_memory_events, without the subtype.
Events == [session: Sessions, kind: EventKinds, at: EventTimes]

Triggers == {"reminder", "event_followup", "mood_repair", "habit_ping", "reconnect"}

\* The unique key of tg_proactive_messages; tag stands for trigger_ref_id.
Candidates == [session: Sessions, trigger: Triggers, tag: Nat \cup Moods]
NoCandidate == [session |-> 0, trigger |-> "none", tag |-> 0]

\* A row, and what really became of it: seenAt, when some of the text reached
\* the user; logged and stamped, SaveConversationTurn and
\* MarkSessionProactiveSent took effect; blind, its pass could not read the
\* session's earlier rows.
Rows == [id: Nat, key: Candidates, status: {"queued", "sent", "failed"},
         sentAt: Time \cup {Never}, seenAt: Time \cup {Never},
         logged: BOOLEAN, stamped: BOOLEAN, blind: BOOLEAN]
QueuedRow(n, c, unaware) ==
  [id |-> n, key |-> c, status |-> "queued", sentAt |-> Never, seenAt |-> Never,
   logged |-> FALSE, stamped |-> FALSE, blind |-> unaware]

Steps == {"idle", "listed", "choose", "mark", "compose", "insert", "send",
          "record", "save", "stamp"}

\* muted: the sessions that were opted out when the pass listed the sessions;
\* unread: those whose rows it failed to read.
Passes == [kind: {"reminder", "standard"}, at: Time,
           listed: [Sessions -> SessionRow], winners: SUBSET Candidates,
           judged: BOOLEAN, muted: SUBSET Sessions, unread: SUBSET Sessions]
NoPass == [kind |-> "reminder", at |-> 0,
           listed |-> [s \in Sessions |-> NoSession],
           winners |-> {}, judged |-> FALSE, muted |-> {}, unread |-> {}]
\* id: the row inserted for the candidate; ok and sentAt: what Send came to.
Jobs == [key: Candidates \cup {NoCandidate}, id: Nat, ok: BOOLEAN,
         sentAt: Time \cup {Never}]
NoJob == [key |-> NoCandidate, id |-> 0, ok |-> FALSE, sentAt |-> Never]

TypeOK ==
  /\ now \in Time
  /\ session \in [Sessions -> SessionRow]
  /\ event \in [Events -> {"none", "fresh", "used"}]
  /\ rows \subseteq Rows
  /\ serial \in Nat
  /\ pc \in Steps
  /\ boot \in {"reminder", "standard", "loop"}
  /\ pass \in Passes
  /\ job \in Jobs
  /\ faults \in 0..MaxFaults
  /\ pc \in {"idle", "listed", "choose"} <=> job = NoJob

Init ==
  /\ now = 0
  /\ session = [s \in Sessions |-> NoSession]
  /\ event = [e \in Events |-> "none"]
  /\ rows = {}
  /\ serial = 0
  /\ pc = "idle"
  /\ boot = "reminder"
  /\ pass = NoPass
  /\ job = NoJob
  /\ faults = 0

-----------------------------------------------------------------------------
(* The clock, and what the users do.                                        *)

Tick ==
  /\ now < MaxTime
  /\ now' = now + 1
  /\ UNCHANGED <<session, event, messages, scheduler, faults>>

\* The first message of a user, or the first after a reset.
Open(s) ==
  /\ session[s].state = "none"
  /\ session' = [session EXCEPT ![s] = NewSession]
  /\ UNCHANGED <<now, event, messages, scheduler, faults>>

\* A chat message: its turn, its mood, and the event it may speak of, past
\* ("today" in the evening) or to come.  One that is mentioned again is armed
\* again, used or not.
Speak(s, mood, mentioned) ==
  /\ session[s].state = "active"
  /\ \A e \in mentioned : e.session = s
  /\ session' = [session EXCEPT ![s] = [@ EXCEPT !.lastUser = now, !.mood = mood]]
  /\ event' = [e \in Events |-> IF e \in mentioned THEN "fresh" ELSE event[e]]
  /\ UNCHANGED <<now, messages, scheduler, faults>>

\* The commands that turn proactive messages on and off.
Opt(s, on) ==
  /\ session[s].state = "active"
  /\ session' = [session EXCEPT ![s] = [@ EXCEPT !.optIn = on]]
  /\ UNCHANGED <<now, event, messages, scheduler, faults>>

\* The reset command deletes the user; the rows that refer to the session go
\* with it (ON DELETE CASCADE).
Reset(s) ==
  /\ session[s].state = "active"
  /\ session' = [session EXCEPT ![s] = [NoSession EXCEPT !.state = "gone"]]
  /\ event' = [e \in Events |-> IF e.session = s THEN "none" ELSE event[e]]
  /\ rows' = {r \in rows : r.key.session # s}
  /\ UNCHANGED <<now, serial, scheduler, faults>>

UserAct == \E s \in Sessions :
  \/ Open(s)
  \/ \E mood \in Moods : \/ Speak(s, mood, {})
                         \/ \E e \in Events : Speak(s, mood, {e})
  \/ \E on \in BOOLEAN : Opt(s, on)
  \/ Reset(s)
-----------------------------------------------------------------------------
(* Choosing: which candidates a pass finds, and the one of each session it   *)
(* takes up.                                                                *)

EventOf(c) ==
  [session |-> c.session, at |-> c.tag,
   kind |-> IF c.trigger = "reminder" THEN "reminder" ELSE "schedule"]
HasEvent(c) == c.trigger \in {"reminder", "event_followup"}

WithinEventWindow(e, at) ==
  IF e.kind = "reminder"
    THEN e.at <= at /\ at <= e.at + ReminderWindow
    ELSE e.at <= at + FollowupBefore /\ at <= e.at + FollowupAfter

\* A list that leaves the opting out to the rules of eligibility.
ListActiveSessions ==
  [s \in Sessions |-> IF session[s].state = "active" THEN session[s] ELSE NoSession]

\* Only active sessions that are opted in are listed.
ListSessionsForProactive ==
  [s \in Sessions |-> IF session[s].state = "active" /\ session[s].optIn
                        THEN session[s] ELSE NoSession]

Listed(s) == pass.listed[s] # NoSession

EventCandidates ==
  {[session |-> e.session, tag |-> e.at,
    trigger |-> IF e.kind = "reminder" THEN "reminder" ELSE "event_followup"] :
     e \in {d \in Events : /\ event[d] = "fresh"
                           /\ Listed(d.session)
                           /\ (d.kind = "reminder") = (pass.kind = "reminder")
                           /\ WithinEventWindow(d, pass.at)}}

\* Whether the relationship is close enough for an early reconnect is part of
\* the abstracted score.
SessionCandidates(s) ==
  LET row == pass.listed[s]
  IN {c \in [session : {s}, trigger : Triggers,
             tag : {pass.at, pass.at \div Day, row.mood}] :
        \/ /\ c.trigger = "reconnect"
           /\ c.tag = pass.at \div Day
           /\ row.lastUser = Never \/ pass.at - row.lastUser >= ReconnectAge
        \/ /\ c.trigger = "mood_repair"
           /\ c.tag = row.mood /\ row.mood # Neutral
           /\ row.lastUser # Never /\ pass.at - row.lastUser >= Active
        \/ /\ c.trigger = "habit_ping"
           /\ c.tag = pass.at /\ pass.at \in HabitTimes}

Scanned ==
  EventCandidates \cup
  (IF pass.kind = "reminder" THEN {}
   ELSE UNION {SessionCandidates(s) : s \in {t \in Sessions : Listed(t)}})

Cooldown(trigger) ==
  LET longer(a, b) == IF a > b THEN a ELSE b
  IN CASE trigger = "reconnect" -> longer(ReconnectCooldown, MinGap)
       [] trigger = "mood_repair" -> longer(MoodCooldown, MinGap)
       [] trigger = "habit_ping" -> longer(HabitCooldown, MinGap)
       [] OTHER -> MinGap

\* ListRecentProactiveMessages.
RecentRows(s) ==
  LET all == {r \in rows : r.key.session = s}
  IN {r \in all : Cardinality({q \in all : q.id > r.id}) < RecentLimit}

\* recentProactivesForSession: what a pass knows of a session's rows; a read
\* that failed counts as a session without any.
RecentProactives(s, unread) == IF s \in unread THEN {} ELSE RecentRows(s)

CountedRows(recent, window) ==
  {r \in recent : r.status = "sent" /\ now <= r.sentAt + window}

\* A cap that is off by one.
ExceededSendCap(recent, window, limit) ==
  limit > 0 /\ Cardinality(CountedRows(recent, window)) > limit

ReachedSendCap(recent, window, limit) ==
  limit > 0 /\ Cardinality(CountedRows(recent, window)) >= limit

HasTriggerRefBeenSent(recent, c) ==
  \E r \in recent : r.status = "sent" /\ r.key = c

\* EvaluateEligibility.  ConsecutiveProactiveIgnored is never raised by the
\* program, so the rule for ignored messages does not apply to any state.
Eligible(c, unread) ==
  LET row == pass.listed[c.session]
      recent == RecentProactives(c.session, unread)
  IN IF c.trigger = "reminder"
       THEN ~HasTriggerRefBeenSent(recent, c)
       ELSE /\ row.optIn
            /\ row.lastProactive = Never
                 \/ now - row.lastProactive >= Cooldown(c.trigger)
            /\ ~ReachedSendCap(recent, Day, MaxPerDay)
            /\ ~ReachedSendCap(recent, Week, MaxPerWeek)
            /\ row.lastUser = Never \/ now - row.lastUser >= Active
            /\ now \notin QuietTimes
            /\ c.trigger = "reconnect" =>
                 row.lastUser = Never \/ now - row.lastUser >= ReconnectAge

Priority(c) ==
  CASE c.trigger = "reminder" -> 120
    [] c.trigger = "event_followup" -> 100
    [] c.trigger = "mood_repair" -> 80
    [] c.trigger = "habit_ping" -> 60
    [] OTHER -> 40

\* pickBestCandidate on every session: high are the eligible candidates whose
\* score reaches SendThreshold; among those of equal priority it decides.
Best(high, best) ==
  /\ best \subseteq high
  /\ \A c \in high : \E b \in best :
       b.session = c.session /\ Priority(b) >= Priority(c)
  /\ \A b, c \in best : b.session = c.session => b = c

\* A choice that judges even a candidate that competes with no other.
JudgeEveryCandidate(found, unread, winners, judged) ==
  /\ judged
  /\ \E high \in SUBSET {c \in found : Eligible(c, unread)} : Best(high, winners)

\* selectSessionWinners: a candidate found alone is taken without a judgement.
SelectSessionWinners(found, unread, winners, judged) ==
  IF Cardinality(found) <= 1
    THEN winners = found /\ ~judged
    ELSE /\ judged
         /\ \E high \in SUBSET {c \in found : Eligible(c, unread)} : Best(high, winners)

-----------------------------------------------------------------------------
(* The scheduler's goroutine.                                               *)

Fault == faults < MaxFaults /\ faults' = faults + 1
NoFault == faults' = faults

\* Once its choice is made a pass needs nothing of what it read; what its list
\* left out and what it failed to read is history from then on.
Chosen(winners, unread) ==
  [NoPass EXCEPT !.winners = winners, !.judged = TRUE, !.muted = pass.muted,
                 !.unread = unread]

BootAfter(ok) ==
  IF boot = "reminder" /\ ok THEN "standard" ELSE "loop"

\* Run picks a tick; before its loop, RunOnce runs one pass of each kind.
Begin(kind) ==
  /\ pc = "idle"
  /\ boot \in {kind, "loop"}
  /\ pc' = "listed"
  /\ pass' = [kind |-> kind, at |-> now, winners |-> {}, judged |-> FALSE,
              listed |-> ListSessionsForProactive,
              muted |-> {s \in Sessions : ~session[s].optIn}, unread |-> {}]
  /\ UNCHANGED <<now, session, event, messages, boot, job, faults>>

\* The second query of the scan, those that read the rows of each session with a
\* candidate, whose errors are ignored, and the choice.
Scan ==
  /\ pc = "listed"
  /\ pc' = "choose"
  /\ LET found == Scanned
     IN \E unread \in SUBSET {c.session : c \in found} :
          /\ faults' = faults + Cardinality(unread)
          /\ faults' <= MaxFaults
          /\ \E winners \in SUBSET found, judged \in BOOLEAN :
               /\ SelectSessionWinners(found, unread, winners, judged)
               /\ pass' = IF judged THEN Chosen(winners, unread)
                           ELSE [pass EXCEPT !.winners = winners, !.unread = unread]
  /\ UNCHANGED <<now, session, event, messages, boot, job>>

ScanFails ==
  /\ pc = "listed"
  /\ pc' = "idle" /\ pass' = NoPass
  /\ boot' = BootAfter(FALSE)
  /\ Fault
  /\ UNCHANGED <<now, session, event, messages, job>>

EndPass ==
  /\ pc = "choose" /\ pass.winners = {}
  /\ pc' = "idle" /\ pass' = NoPass
  /\ boot' = BootAfter(TRUE)
  /\ UNCHANGED <<now, session, event, messages, job, faults>>

\* handleScannedCandidate up to its first write.  What was not judged during
\* the choice is judged here; a reminder needs no score.
TakeUp(c) ==
  /\ pc = "choose" /\ c \in pass.winners
  /\ pass' = Chosen(pass.winners \ {c}, pass.unread)
  /\ \/ /\ pass.judged \/ Eligible(c, pass.unread)
        /\ job' = [NoJob EXCEPT !.key = c]
        /\ pc' = IF HasEvent(c) THEN "mark" ELSE "compose"
     \/ /\ ~pass.judged
        /\ ~Eligible(c, pass.unread) \/ c.trigger # "reminder"
        /\ UNCHANGED <<pc, job>>
  /\ UNCHANGED <<now, session, event, messages, boot, faults>>

GiveUp == pc' = "choose" /\ job' = NoJob

\* An update that marks all events of the session.
MarkAllUsed ==
  /\ pc = "mark"
  /\ pc' = IF job.key.trigger = "reminder" THEN "insert" ELSE "compose"
  /\ \/ /\ event' = [e \in Events |-> IF e.session = job.key.session /\ event[e] = "fresh"
                                       THEN "used" ELSE event[e]]
        /\ NoFault
     \/ UNCHANGED event /\ Fault
  /\ UNCHANGED <<now, session, messages, boot, pass, job>>

\* MarkMemoryEventUsedForProactive; its error is ignored.  The text of a
\* reminder was prepared when it was asked for.
MarkUsed ==
  LET e == EventOf(job.key)
  IN /\ pc = "mark"
     /\ pc' = IF job.key.trigger = "reminder" THEN "insert" ELSE "compose"
     /\ \/ /\ event' = [event EXCEPT ![e] = IF @ = "none" THEN "none" ELSE "used"]
           /\ NoFault
        \/ UNCHANGED event /\ Fault
     /\ UNCHANGED <<now, session, messages, boot, pass, job>>

\* A failed generation is replaced by a prepared text: composing takes its time,
\* but it always ends in a message.
Compose ==
  /\ pc = "compose"
  /\ pc' = "insert"
  /\ UNCHANGED <<now, session, event, messages, boot, pass, job, faults>>

\* A table without the unique key.
InsertableAgain(c) == session[c.session].state = "active"

\* INSERT fails on the unique key, and on the foreign key once the session is
\* gone.
Insertable(c) ==
  /\ session[c.session].state = "active"
  /\ \A r \in rows : r.key # c

\* An insertion that is tried again on any error.
InsertOrRetry ==
  /\ pc = "insert"
  /\ \/ /\ Insertable(job.key)
        /\ serial' = serial + 1
        /\ rows' = rows \cup {QueuedRow(serial', job.key, job.key.session \in pass.unread)}
        /\ pc' = "send" /\ job' = [job EXCEPT !.id = serial'] /\ NoFault
     \/ /\ ~Insertable(job.key)
        /\ UNCHANGED <<pc, job, messages>> /\ NoFault
     \/ UNCHANGED <<pc, job, messages>> /\ Fault
  /\ UNCHANGED <<now, session, event, boot, pass>>

Insert ==
  /\ pc = "insert"
  /\ \/ /\ Insertable(job.key)
        /\ serial' = serial + 1
        /\ rows' = rows \cup {QueuedRow(serial', job.key, job.key.session \in pass.unread)}
        /\ pc' = "send" /\ job' = [job EXCEPT !.id = serial'] /\ NoFault
     \/ /\ ~Insertable(job.key)
        /\ GiveUp /\ UNCHANGED messages /\ NoFault
     \/ GiveUp /\ UNCHANGED messages /\ Fault
  /\ UNCHANGED <<now, session, event, boot, pass>>

\* Updates that address all rows of the session.
SessionRows == {r \in rows : r.key.session = job.key.session}

\* The row of the job, unless a reset deleted it, and the others.
Mine == {r \in rows : r.id = job.id}
Others == rows \ Mine

\* sendText sends the parts in turn and stops at the first that fails: all of
\* the text arrives, or some of it, or nothing.
Send ==
  /\ pc = "send"
  /\ pc' = "record"
  /\ \E ok \in BOOLEAN, seen \in BOOLEAN :
       /\ ok => seen
       /\ job' = [job EXCEPT !.ok = ok, !.sentAt = IF ok THEN now ELSE Never]
       /\ rows' = Others \cup
            {[r EXCEPT !.seenAt = IF seen THEN now ELSE Never] : r \in Mine}
       /\ IF ok THEN NoFault ELSE Fault
  /\ UNCHANGED <<now, session, event, serial, boot, pass>>

\* A sender that leaves the conversation log out.
RecordWithoutTurn ==
  /\ pc = "record"
  /\ IF job.ok THEN pc' = "stamp" /\ job' = job ELSE GiveUp
  /\ \/ /\ rows' = Others \cup
                     {[r EXCEPT !.status = IF job.ok THEN "sent" ELSE "failed",
                                !.sentAt = job.sentAt] : r \in Mine}
        /\ NoFault
     \/ UNCHANGED rows /\ Fault
  /\ UNCHANGED <<now, session, event, serial, boot, pass>>

\* UpdateProactiveMessage; its error is ignored.
Record ==
  /\ pc = "record"
  /\ IF job.ok THEN pc' = "save" /\ job' = job ELSE GiveUp
  /\ \/ /\ rows' = Others \cup
                     {[r EXCEPT !.status = IF job.ok THEN "sent" ELSE "failed",
                                !.sentAt = job.sentAt] : r \in Mine}
        /\ NoFault
     \/ UNCHANGED rows /\ Fault
  /\ UNCHANGED <<now, session, event, serial, boot, pass>>

\* SaveConversationTurn; its error is ignored.
Save ==
  /\ pc = "save"
  /\ pc' = "stamp"
  /\ \/ /\ rows' = Others \cup {[r EXCEPT !.logged = TRUE] : r \in Mine}
        /\ NoFault
     \/ UNCHANGED rows /\ Fault
  /\ UNCHANGED <<now, session, event, serial, boot, pass, job>>

\* MarkSessionProactiveSent; its error is ignored.
Stamp ==
  LET s == job.key.session
  IN /\ pc = "stamp"
     /\ GiveUp
     /\ \/ /\ session' = [session EXCEPT ![s] =
                            IF @.state = "active"
                              THEN [@ EXCEPT !.lastProactive = job.sentAt] ELSE @]
           /\ rows' = Others \cup {[r EXCEPT !.stamped = TRUE] : r \in Mine}
           /\ NoFault
        \/ UNCHANGED <<session, rows>> /\ Fault
     /\ UNCHANGED <<now, event, serial, boot, pass>>

\* The process stops; the next one knows only what the database holds.
Crash ==
  /\ Fault
  /\ pc' = "idle" /\ boot' = "reminder" /\ job' = NoJob
  /\ pass' = NoPass
  /\ UNCHANGED <<now, session, event, messages>>

Work ==
  \/ Scan \/ ScanFails \/ EndPass
  \/ \E c \in pass.winners : TakeUp(c)
  \/ MarkUsed \/ Compose \/ Insert \/ Send \/ Record \/ Save \/ Stamp

Next ==
  \/ Tick
  \/ UserAct
  \/ \E kind \in {"reminder", "standard"} : Begin(kind)
  \/ Work
  \/ Crash

Spec == Init /\ [][Next]_vars

\* Every call of the goroutine returns (the clients have timeouts), and a
\* select with both tickers ready chooses between them at random.
FairSpec ==
  /\ Spec
  /\ WF_vars(Work)
  /\ \A kind \in {"reminder", "standard"} : SF_vars(Begin(kind))
-----------------------------------------------------------------------------
(* Properties.                                                              *)

Seen(r) == r.seenAt # Never

\* However often the process restarts and an event is mentioned again, no two
\* messages that reached the user answer the same trigger of a session: the
\* row is inserted before the message is sent, and its key is unique.
OncePerTrigger ==
  \A p, q \in rows : Seen(p) /\ Seen(q) /\ p.key = q.key => p = q

\* A message nobody asked for follows an earlier one of any kind by less than
\* MinGap only if neither record of the earlier one could hold it back: the time
\* was not saved in the session, and the status, which the daily cap counts, was
\* not saved either or could not be read by the pass of the later one.
NoBurst ==
  \A p, q \in rows :
    /\ p.id < q.id /\ p.key.session = q.key.session
    /\ Seen(p) /\ Seen(q) /\ q.key.trigger # "reminder"
    /\ q.seenAt < p.seenAt + MinGap
    => ~p.stamped /\ (p.status # "sent" \/ q.blind)

\* An event that is used up without a message on record costs a fault: the
\* event is marked before the message is composed, so a failure loses it.
Answers(c, e) == c # NoCandidate /\ HasEvent(c) /\ EventOf(c) = e
Lost == {e \in Events : /\ event[e] = "used"
                        /\ \A r \in rows : ~Answers(r.key, e)
                        /\ ~Answers(job.key, e)}
NoSilentLoss == Cardinality(Lost) <= faults

\* What reached the user is in the books, the log and the session, but for one
\* message per fault.
Unbooked == {r \in rows : /\ Seen(r) /\ r.id # job.id
                          /\ r.status # "sent" \/ ~r.logged \/ ~r.stamped}
BookedOrFaulted == Cardinality(Unbooked) <= faults

\* A session that was opted out when the pass began gets nothing from it.
MutedStaysQuiet ==
  [][\A q \in rows' :
       Seen(q) /\ (\A p \in rows : p.id = q.id => ~Seen(p))
       => q.key.session \notin pass.muted]_vars

\* What the users may count on: the bot writes to them as Outbox says.  A key is
\* claimed by its row, and in hand until Send and what follows are over.
Delivering == pc \in {"send", "record", "save", "stamp"}

InState(state) == {s \in Sessions : session[s].state = state}
OptedOut == {s \in Sessions : ~session[s].optIn}
Round == IF pc = "idle" THEN {} ELSE Sessions \ pass.muted
InHand == IF Delivering THEN {job.key} ELSE {}

KeysOf(which) == {r.key : r \in which}
Ledgers == {"status", "log", "session"}
InLedger(b) == {r \in rows : \/ b = "status" /\ r.status = "sent"
                             \/ b = "log" /\ r.logged
                             \/ b = "session" /\ r.stamped}

Outgoing == INSTANCE Outbox WITH
  Keys <- Candidates, Books <- Ledgers,
  open <- InState("active"), closed <- InState("gone"), deaf <- OptedOut,
  round <- Round, hand <- InHand,
  claimed <- KeysOf(rows), heard <- KeysOf({r \in rows : Seen(r)}),
  books <- [b \in Ledgers |-> KeysOf(InLedger(b))]

ImplementsOutbox == Outgoing!Spec

\* Every pass ends, whatever fails in it.
PassEnds == pc # "idle" ~> pc = "idle"

\* A reminder that is due, and the only one that is, is taken up or its
\* window closes: only candidates that compete are judged by their score.
DueReminder(e) ==
  /\ e.kind = "reminder" /\ event[e] = "fresh"
  /\ session[e.session].state = "active" /\ session[e.session].optIn
  /\ WithinEventWindow(e, now)
LoneReminderServed ==
  \A e \in Events :
    DueReminder(e) ~>
      \/ ~DueReminder(e)
      \/ \E r \in rows : Answers(r.key, e)
      \/ \E d \in Events \ {e} : DueReminder(d)
=============================================================================
