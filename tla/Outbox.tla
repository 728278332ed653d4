---------------------------------- MODULE Outbox ----------------------------------
(***************************************************************************)
(* What users may count on when the bot writes of its own accord, without  *)
(* the events, scores, eligibility and restarts behind it: a round leaves  *)
(* out whoever had opted out when it began; a message is claimed before it *)
(* is delivered, and no message is claimed twice; one is in hand at a      *)
(* time; it arrives once at most; what the books say of it is true, and    *)
(* written while it is in hand or never.  A conversation that is closed    *)
(* takes all this with it and is not written to again, but for the message *)
(* in hand.  ProactiveDelivery implements it.                              *)
(***************************************************************************)
CONSTANTS Sessions, \* the conversations
          Keys,     \* what a message may answer; each names its session
          Books     \* the places a delivery is recorded in

VARIABLES open,    \* the sessions that are open
          closed,  \* those that were
          deaf,    \* those that want no such messages
          round,   \* those the round under way may write to
          hand,    \* the key of the message in hand, if any
          claimed, \* the keys that were claimed
          heard,   \* those of which something reached the user
          books    \* books[b]: those recorded in b

ledger == <<claimed, heard, books>>
vars == <<open, closed, deaf, round, hand, ledger>>

Init ==
  /\ open = {} /\ closed = {} /\ deaf = {} /\ round = {} /\ hand = {}
  /\ claimed = {} /\ heard = {}
  /\ books = [b \in Books |-> {}]

OpenSession(s) ==
  /\ s \notin open \cup closed
  /\ open' = open \cup {s}
  /\ UNCHANGED <<closed, deaf, round, hand, ledger>>

Without(s, keys) == {k \in keys : k.session # s}

CloseSession(s) ==
  /\ s \in open
  /\ open' = open \ {s} /\ closed' = closed \cup {s} /\ deaf' = deaf \ {s}
  /\ claimed' = Without(s, claimed) /\ heard' = Without(s, heard)
  /\ books' = [b \in Books |-> Without(s, books[b])]
  /\ UNCHANGED <<round, hand>>

ChangeMind(s) ==
  /\ s \in open
  /\ deaf' \in {deaf \cup {s}, deaf \ {s}}
  /\ UNCHANGED <<open, closed, round, hand, ledger>>

BeginRound ==
  /\ round = {} /\ hand = {}
  /\ round' = Sessions \ deaf
  /\ UNCHANGED <<open, closed, deaf, hand, ledger>>

\* A round is complete, or cut short; a message in hand is let go.
EndRound ==
  /\ round' = {} /\ hand' = {}
  /\ UNCHANGED <<open, closed, deaf, ledger>>

Claim(k) ==
  /\ hand = {} /\ hand' = {k}
  /\ k \in Keys \ claimed /\ k.session \in round \cap open
  /\ claimed' = claimed \cup {k}
  /\ UNCHANGED <<open, closed, deaf, round, heard, books>>

Arrive(k) ==
  /\ k \in claimed \ heard
  /\ heard' = heard \cup {k}
  /\ UNCHANGED <<open, closed, deaf, round, hand, claimed, books>>

\* A delivery is recorded in one of the books, the last time before it is let go.
Book(k, b) ==
  /\ k \in heard
  /\ books' = [books EXCEPT ![b] = @ \cup {k}]
  /\ hand' \in {hand, {}}
  /\ UNCHANGED <<open, closed, deaf, round, claimed, heard>>

LetGo ==
  /\ hand' = {}
  /\ UNCHANGED <<open, closed, deaf, round, ledger>>

Next ==
  \/ \E s \in Sessions : OpenSession(s) \/ CloseSession(s) \/ ChangeMind(s)
  \/ BeginRound \/ EndRound \/ LetGo
  \/ \E k \in hand' : Claim(k)
  \/ \E k \in hand : Arrive(k) \/ \E b \in Books : Book(k, b)

Spec == Init /\ [][Next]_vars
=============================================================================
