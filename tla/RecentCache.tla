------------------------------ MODULE RecentCache ------------------------------
(***************************************************************************)
(* The recent conversation of one user: rows in PostgreSQL and, beside     *)
(* them, a list in Redis per session (internal/store/store.go).  Saving a  *)
(* turn inserts the row and then appends to the list; loading reads the    *)
(* list and, if it is empty, the rows, with which it fills the list again; *)
(* a reset deletes the rows and then the lists.  Nothing ties the two      *)
(* stores together, and only the messages of the chat wait for each other. *)
(*                                                                         *)
(* Every call to a store may fail.  A failed call to PostgreSQL, or a      *)
(* failed read of the list, ends the operation; a failed write to the list *)
(* is logged and forgotten.                                                *)
(***************************************************************************)
EXTENDS Naturals, FiniteSets, SequencesExt

CONSTANTS Messages,    \* load and then save a turn, under the chat's mutex
          Senders,     \* save a turn only: parts of replies, proactive messages
          Viewers,     \* load only, without the mutex: the commands
          Resets,      \* reset, then load and save the opening line, without it
          NoOne,       \* holder of the free mutex
          Limit,       \* recentTurnLimit
          MaxSessions, \* bound: the sessions that can be opened
          MaxExpiries, \* bound: how often a list reaches its time to live
          MaxFaults    \* bound: how many calls to a store fail

Actors == Messages \cup Senders \cup Viewers \cup Resets

ASSUME NoOneIsNoActor == NoOne \notin Actors
\* The kinds of operations are names of different handlers.
ASSUME OnlyMessagesWait == Messages \cap (Senders \cup Viewers \cup Resets) = {}
ASSUME LimitIsPositive == Limit \in Nat \ {0}
ASSUME SomeSessions == MaxSessions \in Nat
ASSUME ExpiriesAreBounded == MaxExpiries \in Nat
ASSUME FaultsAreBounded == MaxFaults \in Nat

VARIABLES session,   \* the user's active session, 0 if there is none
          opened,    \* the last session id given out
          saved,     \* the last message id given out
          rows,      \* rows[s]: the message ids of session s in PostgreSQL
          list,      \* list[s]: the message ids of its list in Redis
          lock,      \* who holds the chat's mutex
          pc,        \* pc[a]: the next step of operation a
          own,       \* own[a]: the session a works on, 0 before it has one
          turn,      \* turn[a]: the id of the row a inserted, 0 if none
          inHand,    \* inHand[a]: the conversation a has read
          doomed,    \* doomed[a]: the sessions reset a found
          expiries,  \* how often a list has expired
          faults,    \* how many calls have failed
          \* History, read by the properties only:
          raced,     \* turns saved while another save or a refill was under way
          appended,  \* turns that were appended to their list
          erased,    \* the newest turn that a reset has deleted
          since,     \* since[a]: what erased was when a opened its session
          cleared,   \* sessions whose list a reset has deleted
          leaky      \* those a write to the list was under way for just then

database == <<session, opened, saved, rows>>
history == <<raced, appended, erased, since, cleared, leaky>>
vars == <<database, list, lock, pc, own, turn, inHand, doomed, expiries, faults,
          history>>

Sessions == 1..MaxSessions
Ids == 1..saved
Steps == {"new", "delete", "clear", "open", "get", "select", "refill", "insert",
          "append", "done"}

TypeOK ==
  /\ session \in 0..opened /\ opened \in 0..MaxSessions
  /\ saved \in Nat
  /\ rows \in [Sessions -> Seq(Ids)]
  /\ list \in [Sessions -> Seq(Ids)] /\ \A s \in Sessions : Len(list[s]) <= Limit
  /\ lock \in Messages \cup {NoOne}
  /\ pc \in [Actors -> Steps]
  /\ own \in [Actors -> 0..opened]
  /\ turn \in [Actors -> 0..saved]
  /\ inHand \in [Actors -> Seq(Ids)]
  /\ doomed \in [Actors -> SUBSET Sessions]
  /\ expiries \in 0..MaxExpiries /\ faults \in 0..MaxFaults
  /\ raced \subseteq Ids /\ appended \subseteq Ids
  /\ erased \in 0..saved /\ since \in [Actors -> 0..saved]
  /\ cleared \subseteq Sessions /\ leaky \subseteq cleared

-----------------------------------------------------------------------------

Init ==
  /\ session = 0 /\ opened = 0 /\ saved = 0
  /\ rows = [s \in Sessions |-> <<>>]
  /\ list = [s \in Sessions |-> <<>>]
  /\ lock = NoOne
  /\ pc = [a \in Actors |-> "new"]
  /\ own = [a \in Actors |-> 0]
  /\ turn = [a \in Actors |-> 0]
  /\ inHand = [a \in Actors |-> <<>>]
  /\ doomed = [a \in Actors |-> {}]
  /\ expiries = 0 /\ faults = 0
  /\ raced = {} /\ appended = {} /\ cleared = {} /\ leaky = {}
  /\ erased = 0 /\ since = [a \in Actors |-> 0]

\* A trim that keeps one turn too few.
KeepLessThanLimit(s) ==
  IF Len(s) >= Limit THEN SubSeq(s, Len(s) - Limit + 2, Len(s)) ELSE s

\* LTRIM key -limit -1, and LIMIT of the newest rows in ascending order.
LastTurns(s) == IF Len(s) > Limit THEN SubSeq(s, Len(s) - Limit + 1, Len(s)) ELSE s

Goto(a, p) == pc' = [pc EXCEPT ![a] = p] /\ UNCHANGED lock

\* a is through: its locals are gone and a message releases the mutex.
Finish(a) ==
  /\ pc' = [pc EXCEPT ![a] = "done"]
  /\ lock' = IF lock = a THEN NoOne ELSE lock
  /\ own' = [own EXCEPT ![a] = 0]
  /\ turn' = [turn EXCEPT ![a] = 0]
  /\ inHand' = [inHand EXCEPT ![a] = <<>>]
  /\ doomed' = [doomed EXCEPT ![a] = {}]
  /\ since' = [since EXCEPT ![a] = 0]

\* a has loaded a conversation: a command is through with it, the others go on
\* to save a turn.
Loaded(a, conversation) ==
  IF a \in Viewers
  THEN Finish(a)
  ELSE /\ Goto(a, "insert")
       /\ inHand' = [inHand EXCEPT ![a] = conversation]
       /\ UNCHANGED <<own, turn, doomed, since>>

CallFails == faults < MaxFaults /\ faults' = faults + 1

Refilling(a, s) == pc[a] \in {"select", "refill"} /\ own[a] = s
\* Whom the mutex does not keep from running beside a.
Rivals(a) == IF a \in Messages THEN Actors \ Messages ELSE Actors \ {a}

Saving(a, s) == pc[a] = "append" /\ own[a] = s

-----------------------------------------------------------------------------
(* Beginning an operation.                                                 *)

\* A message that does not wait for the one before it.
BeginWithoutLock(a) ==
  /\ pc[a] = "new"
  /\ a \in Messages \cup Viewers
  /\ pc' = [pc EXCEPT ![a] = "open"]
  /\ UNCHANGED <<database, list, lock, own, turn, inHand, doomed, expiries, faults, history>>

\* HandleMessage takes the chat's mutex, the commands do not.
Begin(a) ==
  /\ pc[a] = "new"
  /\ \/ /\ a \in Messages /\ lock = NoOne
        /\ lock' = a
     \/ /\ a \in Viewers
        /\ UNCHANGED lock
  /\ pc' = [pc EXCEPT ![a] = "open"]
  /\ UNCHANGED <<database, list, own, turn, inHand, doomed, expiries, faults, history>>

\* A reply part or a proactive message is for the session of its time.
BeginSending(a) ==
  /\ pc[a] = "new"
  /\ a \in Senders
  /\ session # 0
  /\ own' = [own EXCEPT ![a] = session]
  /\ pc' = [pc EXCEPT ![a] = "insert"]
  /\ UNCHANGED <<database, list, lock, turn, inHand, doomed, expiries, faults, history>>

\* UpsertUser and GetOrCreateActiveSession of BootstrapContext.
OpenSession(a) ==
  /\ pc[a] = "open"
  /\ \/ /\ session # 0
        /\ own' = [own EXCEPT ![a] = session]
        /\ UNCHANGED <<session, opened>>
     \/ /\ session = 0 /\ opened < MaxSessions
        /\ opened' = opened + 1
        /\ session' = opened'
        /\ own' = [own EXCEPT ![a] = opened']
  /\ since' = [since EXCEPT ![a] = erased]
  /\ Goto(a, "get")
  /\ UNCHANGED <<saved, rows, list, turn, inHand, doomed, expiries, faults, raced, appended,
                 erased, cleared, leaky>>

-----------------------------------------------------------------------------
(* loadRecentConversation.                                                 *)

\* GetRecent.  An empty list, new or expired, is filled again from the rows.
GetRecent(a) ==
  /\ pc[a] = "get"
  /\ \/ /\ list[own[a]] # <<>>
        /\ Loaded(a, list[own[a]])
        /\ UNCHANGED raced
     \/ /\ list[own[a]] = <<>>
        /\ Goto(a, "select")
        /\ raced' = raced \cup {turn[b] : b \in {b \in Rivals(a) : Saving(b, own[a])}}
        /\ UNCHANGED <<own, turn, inHand, doomed, since>>
  /\ UNCHANGED <<database, list, expiries, faults, appended, erased, cleared, leaky>>

\* ListRecentMessages.
SelectRows(a) ==
  /\ pc[a] = "select"
  /\ LET found == LastTurns(rows[own[a]]) IN
       \/ found = <<>> /\ Loaded(a, <<>>)
       \/ /\ found # <<>>
          /\ Goto(a, "refill")
          /\ inHand' = [inHand EXCEPT ![a] = found]
          /\ UNCHANGED <<own, turn, doomed, since>>
  /\ UNCHANGED <<database, list, expiries, faults, raced, appended, erased, cleared, leaky>>

\* SetRecent: one transaction that deletes the list and pushes what was read
\* before, or a failure that is only logged.
SetRecent(a) ==
  /\ pc[a] = "refill"
  /\ \/ /\ list' = [list EXCEPT ![own[a]] = LastTurns(inHand[a])]
        /\ UNCHANGED faults
     \/ CallFails /\ UNCHANGED list
  /\ Loaded(a, inHand[a])
  /\ UNCHANGED <<database, expiries, raced, appended, erased, cleared, leaky>>

-----------------------------------------------------------------------------
(* SaveTurnRecord.                                                         *)

\* InsertMessage.  The row refers to its session and falls with it, so the
\* insert fails for one that a reset has deleted.
InsertMessage(a) ==
  /\ pc[a] = "insert"
  /\ own[a] = session
  /\ saved' = saved + 1
  /\ turn' = [turn EXCEPT ![a] = saved']
  /\ rows' = [rows EXCEPT ![own[a]] = Append(@, saved')]
  /\ LET saving == {b \in Rivals(a) : Saving(b, own[a])}
         refilling == {b \in Rivals(a) : Refilling(b, own[a])} IN
       raced' = raced \cup {turn[b] : b \in saving}
                      \cup (IF saving \cup refilling = {} THEN {} ELSE {saved'})
  /\ Goto(a, "append")
  /\ UNCHANGED <<session, opened, list, own, inHand, doomed, expiries, faults, appended, erased,
                 since, cleared, leaky>>

\* An append that forgets the trim.
AppendWithoutTrim(a) ==
  /\ pc[a] = "append"
  /\ \/ /\ list' = [list EXCEPT ![own[a]] = Append(@, turn[a])]
        /\ appended' = appended \cup {turn[a]}
        /\ UNCHANGED faults
     \/ CallFails /\ UNCHANGED <<list, appended>>
  /\ Finish(a)
  /\ UNCHANGED <<database, expiries, raced, erased, cleared, leaky>>

\* AppendRecent: push, trim and expiry in one transaction.
AppendRecent(a) ==
  /\ pc[a] = "append"
  /\ \/ /\ list' = [list EXCEPT ![own[a]] = LastTurns(Append(@, turn[a]))]
        /\ appended' = appended \cup {turn[a]}
        /\ UNCHANGED faults
     \/ CallFails /\ UNCHANGED <<list, appended>>
  /\ Finish(a)
  /\ UNCHANGED <<database, expiries, raced, erased, cleared, leaky>>

-----------------------------------------------------------------------------
(* ResetConversation, and the opening line after it.                       *)

\* Redis first: the lists are deleted before the rows they repeat.
ListAndClear(a) ==
  /\ pc[a] = "new"
  /\ a \in Resets
  /\ doomed' = [doomed EXCEPT ![a] = {session} \ {0}]
  /\ list' = [s \in Sessions |-> IF s = session THEN <<>> ELSE list[s]]
  /\ cleared' = cleared \cup doomed'[a]
  /\ leaky' = leaky \cup {s \in doomed'[a] : \E b \in Actors :
                            own[b] = s /\ pc[b] \in {"refill", "append"}}
  /\ Goto(a, "delete")
  /\ UNCHANGED <<database, own, turn, inHand, expiries, faults, raced, appended, erased, since>>

\* ListSessionIDsByExternalUser.
ListSessions(a) ==
  /\ pc[a] = "new"
  /\ a \in Resets
  /\ doomed' = [doomed EXCEPT ![a] = {session} \ {0}]
  /\ Goto(a, "delete")
  /\ UNCHANGED <<database, list, own, turn, inHand, expiries, faults, history>>

\* Every row of the user goes, and with it what the history says of its turn.
Erase ==
  /\ rows' = [s \in Sessions |-> <<>>]
  /\ erased' = saved
  /\ raced' = {} /\ appended' = {}

\* A deletion of the messages that leaves the session in place.
DeleteMessagesOnly(a) ==
  /\ pc[a] = "delete"
  /\ Erase
  /\ Goto(a, "clear")
  /\ UNCHANGED <<session, opened, saved, list, own, turn, inHand, doomed, expiries, faults, since,
                 cleared, leaky>>

\* DeleteConversationByExternalUser: the user, the session and the rows go.
DeleteConversation(a) ==
  /\ pc[a] = "delete"
  /\ Erase
  /\ session' = 0
  /\ Goto(a, "clear")
  /\ UNCHANGED <<opened, saved, list, own, turn, inHand, doomed, expiries, faults, since,
                 cleared, leaky>>

\* DeleteRecent, or a failure that is only logged.
ClearLists(a) ==
  /\ pc[a] = "clear"
  /\ \/ /\ list' = [s \in Sessions |-> IF s \in doomed[a] THEN <<>> ELSE list[s]]
        /\ cleared' = cleared \cup doomed[a]
        /\ leaky' = leaky \cup {s \in doomed[a] : \E b \in Actors :
                                  own[b] = s /\ pc[b] \in {"refill", "append"}}
        /\ UNCHANGED faults
     \/ CallFails /\ UNCHANGED <<list, cleared, leaky>>
  /\ Goto(a, "open")
  /\ UNCHANGED <<database, own, turn, inHand, doomed, expiries, raced, appended, erased, since>>

-----------------------------------------------------------------------------

\* A call to PostgreSQL or the read of the list fails, and the operation ends.
\* An insert fails without a fault when a reset has deleted the session.
Break(a) ==
  /\ \/ pc[a] \in {"delete", "open", "get", "select", "insert"} /\ CallFails
     \/ pc[a] = "insert" /\ own[a] # session /\ UNCHANGED faults
  /\ Finish(a)
  /\ UNCHANGED <<database, list, expiries, raced, appended, erased, cleared, leaky>>

\* A list nothing was written to for recentTTL disappears.
Expire(s) ==
  /\ list[s] # <<>>
  /\ expiries < MaxExpiries
  /\ expiries' = expiries + 1
  /\ list' = [list EXCEPT ![s] = <<>>]
  /\ UNCHANGED <<database, lock, pc, own, turn, inHand, doomed, faults, history>>

Load(a) == OpenSession(a) \/ GetRecent(a) \/ SelectRows(a) \/ SetRecent(a)
SaveTurnRecord(a) == InsertMessage(a) \/ AppendRecent(a)
ResetConversation(a) == ListSessions(a) \/ DeleteConversation(a) \/ ClearLists(a)

Next ==
  \/ \E a \in Actors : \/ Begin(a) \/ BeginSending(a)
                       \/ Load(a) \/ SaveTurnRecord(a) \/ ResetConversation(a)
                       \/ Break(a)
  \/ \E s \in Sessions : Expire(s)

Spec == Init /\ [][Next]_vars

-----------------------------------------------------------------------------
(* What the cache may and may not do to a conversation.                    *)

\* The list of the active session repeats no turn and keeps the order of the
\* rows, whatever expires or fails, but for turns saved while another save or a
\* refill that the mutex does not hold back was under way.
ListInOrder ==
  session # 0 =>
    LET turns == list[session] IN
      \A i, j \in 1..Len(turns) :
        i < j /\ turns[i] \notin raced /\ turns[j] \notin raced => turns[i] < turns[j]

\* No turn is forgotten: as long as no list expired, a turn of the current
\* session that reached the list stays in it until Limit newer ones were saved,
\* with the same exception.
NoTurnLost ==
  \A n \in appended \ raced :
    /\ expiries = 0 /\ session # 0 /\ n \in ToSet(rows[session])
    /\ Cardinality({m \in ToSet(rows[session]) : m > n}) < Limit
    => n \in ToSet(list[session])

\* A conversation begun after a reset holds nothing from before it, although
\* loads and saves of the old session may still be under way and write its list
\* after the reset has deleted it.
NothingFromBeforeReset ==
  \A a \in Actors : \A n \in ToSet(inHand[a]) : n > since[a]

\* A reset leaves the list of a session it found empty for good, unless a write
\* to that list was under way at the moment it deleted it.
ResidueOnlyFromInFlight ==
  \A s \in cleared \ leaky : list[s] = <<>>
=============================================================================
