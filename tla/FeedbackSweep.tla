------------------------------ MODULE FeedbackSweep ------------------------------
(***************************************************************************)
(* How the bot learns from the answers to its proactive messages           *)
(* (internal/proactive: scheduler.go, feedback.go; the table               *)
(* tg_proactive_messages in internal/store/postgres/proactive.go).         *)
(*                                                                         *)
(* When the process starts, and only then, the scheduler sweeps over the   *)
(* sessions after its first two passes: it looks whether the last          *)
(* proactive message of each has an answer, marks it, credits the session  *)
(* and the profile, and may reward the user with a voice message.  Calls   *)
(* fail, and most failures are ignored; the process may stop between any   *)
(* two calls; the chat's handlers go on meanwhile.                         *)
(*                                                                         *)
(* Sessions do not depend on each other: the module is about one.  Scores  *)
(* are left out; a position in the log stands for the time of an entry.    *)
(***************************************************************************)
EXTENDS AnswerBook

CONSTANTS MaxLog,    \* bound: entries of the log
          MaxRows,   \* bound: proactive messages
          MaxStarts, \* bound: starts of the process
          MaxFaults  \* bound: failed calls and crashes

ASSUME BoundsAreNumbers ==
  {MaxLog, MaxRows, MaxFaults} \subseteq Nat /\ MaxStarts \in Nat \ {0}

VARIABLES optIn,  \* the session takes proactive messages
          starts  \* starts of the process so far

conversation == <<log, optIn>>
sweep == <<stage, row, reply>>
vars == <<conversation, answers, sweep, starts, failures>>

Steps == {"starting", "listing", "selecting", "matching", "marking", "crediting",
          "learning", "rewarding", "running"}

TypeOK ==
  /\ log \in Seq({"user", "bot"})
  /\ answers \in Seq(AnswerRows)
  /\ optIn \in BOOLEAN
  /\ stage \in Steps
  /\ row \in 0..Len(answers)
  /\ reply \in Nat
  /\ starts \in 0..MaxStarts
  /\ failures \in 0..MaxFaults

Init ==
  /\ log = <<"user">>
  /\ answers = <<>>
  /\ optIn = TRUE
  /\ stage = "starting"
  /\ row = 0
  /\ reply = 0
  /\ starts = 1
  /\ failures = 0

-----------------------------------------------------------------------------
(* The chat's handlers.                                                    *)

Say(who) ==
  /\ Len(log) < MaxLog
  /\ log' = Append(log, who)
  /\ UNCHANGED <<optIn, answers, sweep, starts, failures>>

Opt(on) ==
  /\ optIn' = on
  /\ UNCHANGED <<log, answers, sweep, starts, failures>>

\* A reset deletes the session with its rows; its first message opens the next one.
Reset ==
  /\ log' = <<"user">>
  /\ answers' = <<>>
  /\ optIn' = TRUE
  /\ row' = 0
  /\ UNCHANGED <<stage, reply, starts, failures>>

-----------------------------------------------------------------------------
(* The scheduler's passes, which run in the goroutine of the sweep.        *)

\* A call fails, or a message is not delivered: one of the bounded number of faults.
Fails == failures < MaxFaults /\ failures' = failures + 1

\* A row is inserted and the message sent.  If it is not delivered, or its delivery
\* cannot be recorded, the row keeps no time; its turn may fail to be saved.
SendProactive ==
  /\ stage \in {"starting", "running"}
  /\ Len(answers) < MaxRows /\ Len(log) < MaxLog
  /\ LET Sent(at) == Append(answers, [sent |-> at, replied |-> FALSE, missed |-> 0,
                                   credited |-> 0, rewarded |-> 0, heard |-> {}])
     IN \/ answers' = Sent(Len(log)) /\ log' = Append(log, "bot") /\ UNCHANGED failures
        \/ answers' = Sent(Len(log)) /\ UNCHANGED log /\ Fails
        \/ answers' = Sent(0) /\ log' \in {log, Append(log, "bot")} /\ Fails
  /\ UNCHANGED <<optIn, sweep, starts>>

\* RunOnce: both passes are over; an error of either ends it without a sweep.
PassesEnd ==
  /\ stage = "starting"
  /\ \/ stage' = "listing" /\ UNCHANGED failures
     \/ stage' = "running" /\ Fails
  /\ UNCHANGED <<conversation, answers, row, reply, starts>>

-----------------------------------------------------------------------------
(* The sweep: runFeedbackSweep.                                            *)

\* On to the next session.
Continue == stage' = "running" /\ row' = 0 /\ reply' = 0

ListSessionsForProactive ==
  /\ stage = "listing"
  /\ \/ /\ optIn
        /\ stage' = "selecting"
        /\ UNCHANGED <<row, reply, failures>>
     \/ /\ ~optIn
        /\ Continue
        /\ UNCHANGED failures
     \/ Fails /\ Continue
  /\ UNCHANGED <<conversation, answers, starts>>

Unanswered == answers # <<>> /\ ~answers[Len(answers)].replied

\* A selection that does not look whether the message was answered before.
SelectAnyLatest ==
  /\ stage = "selecting"
  /\ \/ /\ answers # <<>>
        /\ stage' = "matching" /\ row' = Len(answers)
        /\ UNCHANGED <<reply, failures>>
     \/ /\ answers = <<>>
        /\ Continue
        /\ UNCHANGED failures
     \/ Fails /\ Continue
  /\ UNCHANGED <<conversation, answers, starts>>

\* A selection of any message that has no answer yet.
SelectUnanswered ==
  /\ stage = "selecting"
  /\ \/ \E p \in 1..Len(answers) :
          /\ ~answers[p].replied
          /\ stage' = "matching" /\ row' = p
          /\ UNCHANGED <<reply, failures>>
     \/ /\ ~Unanswered
        /\ Continue
        /\ UNCHANGED failures
     \/ Fails /\ Continue
  /\ UNCHANGED <<conversation, answers, starts>>

\* The last proactive message, if it is not answered yet.
SelectLatest ==
  /\ stage = "selecting"
  /\ \/ /\ Unanswered
        /\ stage' = "matching" /\ row' = Len(answers)
        /\ UNCHANGED <<reply, failures>>
     \/ /\ ~Unanswered
        /\ Continue
        /\ UNCHANGED failures
     \/ Fails /\ Continue
  /\ UNCHANGED <<conversation, answers, starts>>

\* The entries of the log ListRecentMessages returns.
Recent == {i \in 1..Len(log) : i + Window > Len(log)}

FindFirstUserReplyAfter(t) ==
  {i \in Recent : /\ log[i] = "user" /\ i > t
                  /\ \A j \in Recent : log[j] = "user" /\ j > t => i <= j}

\* AssessFeedback: a row without a time of delivery matches nothing.
AssessFeedback ==
  /\ stage = "matching"
  /\ LET sent == IF row = 0 THEN 0 ELSE answers[row].sent
         found == FindFirstUserReplyAfter(sent)
     IN \/ /\ sent # 0 /\ found # {}
           /\ stage' = "marking" /\ reply' \in found
           /\ UNCHANGED <<row, failures>>
        \/ /\ sent = 0 \/ found = {}
           /\ Continue
           /\ UNCHANGED failures
        \/ Fails /\ Continue
  /\ UNCHANGED <<conversation, answers, starts>>

\* What an update of the row that is swept makes of the table.
Updated(field, value) == IF row = 0 THEN answers ELSE [answers EXCEPT ![row][field] = value]
Counted(field) == IF row = 0 THEN answers ELSE [answers EXCEPT ![row][field] = @ + 1]

\* The credit of an answer, and the entry it is for.
Credited ==
  IF row = 0 THEN answers
  ELSE [answers EXCEPT ![row].credited = @ + 1, ![row].heard = @ \cup {reply}]

\* The error of this update is ignored.
MarkProactiveMessageReplied ==
  /\ stage = "marking"
  /\ \/ answers' = Updated("replied", TRUE) /\ UNCHANGED failures
     \/ answers' = Counted("missed") /\ Fails
  /\ stage' = "crediting"
  /\ UNCHANGED <<conversation, row, reply, starts>>

\* A sweep that ends where the session cannot be credited.
CreditOrLeave ==
  /\ stage = "crediting"
  /\ \/ answers' = answers /\ UNCHANGED failures
     \/ answers' = answers /\ Fails
  /\ stage' = "learning"
  /\ UNCHANGED <<conversation, row, reply, starts>>

\* UpdateSessionProactiveState: the time of the answer, the counter of ignored
\* messages and the score, one after the other; the first error ends it.
CreditSession ==
  /\ stage = "crediting"
  /\ \/ answers' = Credited /\ UNCHANGED failures
     \/ answers' = answers /\ Fails
  /\ stage' = "learning"
  /\ UNCHANGED <<conversation, row, reply, starts>>

\* UpdateProactiveProfile: the averages of the profile, which are left out.
UpdateProactiveProfile ==
  /\ stage = "learning"
  /\ UNCHANGED failures \/ Fails
  /\ stage' = "rewarding"
  /\ UNCHANGED <<conversation, answers, row, reply, starts>>

\* A voice message, for a warm answer or one that was followed up.
SendRewardAudio ==
  /\ stage = "rewarding"
  /\ \/ answers' = Counted("rewarded") /\ UNCHANGED failures
     \/ answers' = answers /\ UNCHANGED failures
     \/ answers' = answers /\ Fails
  /\ Continue
  /\ UNCHANGED <<conversation, starts>>

-----------------------------------------------------------------------------

\* The process is stopped, or crashes, and starts again.
Restart ==
  /\ starts < MaxStarts
  /\ starts' = starts + 1
  /\ \/ stage = "running" /\ UNCHANGED failures
     \/ stage # "running" /\ Fails
  /\ stage' = "starting" /\ row' = 0 /\ reply' = 0
  /\ UNCHANGED <<conversation, answers>>

Handle == (\E who \in {"user", "bot"} : Say(who)) \/ (\E on \in BOOLEAN : Opt(on)) \/ Reset

Sweep ==
  \/ ListSessionsForProactive
  \/ SelectLatest
  \/ AssessFeedback
  \/ MarkProactiveMessageReplied
  \/ CreditSession
  \/ UpdateProactiveProfile
  \/ SendRewardAudio

Next == Handle \/ SendProactive \/ PassesEnd \/ Sweep \/ Restart

Spec == Init /\ [][Next]_vars
=============================================================================
