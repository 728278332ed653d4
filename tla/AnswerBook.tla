-------------------------------- MODULE AnswerBook --------------------------------
(***************************************************************************)
(* The answers to the bot's proactive messages, as the rows of             *)
(* tg_proactive_messages and the conversation of one session have them,    *)
(* where the feedback sweep stands, and what these must say of each other. *)
(* FeedbackSweep says how they change.                                     *)
(***************************************************************************)
EXTENDS Naturals, Sequences, FiniteSets

CONSTANT Window  \* how many entries of the log the sweep reads

ASSUME WindowIsPositive == Window \in Nat \ {0}

VARIABLES log,      \* the conversation: who said each entry
          answers,  \* the proactive messages, in the order of their rows
          stage,    \* what the scheduler does next
          row,      \* the row being swept; 0 once a reset has deleted it
          reply,    \* the entry taken for its answer
          failures  \* failed calls and crashes so far

\* sent: the time of delivery, 0 while it is not recorded; replied: user_replied;
\* missed, credited, rewarded: failed marks, credits of the session, voice messages;
\* heard: the entries of the log it was credited for.  The last four are history.
AnswerRows ==
  [sent: Nat, replied: BOOLEAN, missed: Nat, credited: Nat, rewarded: Nat,
   heard: SUBSET Nat]

\* docs/chatbot-harness-design.md:99: what was answered is not rewarded again,
\* however often the process starts: a second reward, or a second credit, needs a
\* mark that failed each time before.
RewardedOnce ==
  \A r \in 1..Len(answers) :
    /\ answers[r].rewarded <= 1 + answers[r].missed
    /\ answers[r].credited <= 1 + answers[r].missed

\* An answer that was marked counts: each message whose mark the session was not
\* credited for has cost a failed call or a crash of its own.
Uncredited == {r \in 1..Len(answers) : /\ answers[r].replied /\ answers[r].credited = 0
                                       /\ ~(stage = "crediting" /\ row = r)}
MarkedIsCredited == Cardinality(Uncredited) <= failures

\* What the user says is credited to the message it answers: an entry counts for a
\* message only if it came after its delivery and before that of any later one, so
\* never for two, although each start sweeps again, marks fail, messages go out
\* and the user writes between the sweeps.
CreditedToItsMessage ==
  \A p \in 1..Len(answers) : \A i \in answers[p].heard :
    /\ answers[p].sent # 0 /\ answers[p].sent < i
    /\ \A q \in 1..Len(answers) :
         p < q /\ answers[q].sent # 0 => i <= answers[q].sent
=============================================================================
