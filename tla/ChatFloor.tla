-------------------------------- MODULE ChatFloor --------------------------------
(***************************************************************************)
(* What the user of a chat may count on, without the handles, contexts,    *)
(* reviews and sessions behind it: one reply at a time has the floor and    *)
(* only it lets parts through; whoever loses the floor may say the one part *)
(* that is on its way already; a reply that has begun is never begun again, *)
(* stops at its first part that cannot be sent, and never has too many      *)
(* parts.  ReplyGeneration implements it.                                  *)
(***************************************************************************)
EXTENDS Naturals

CONSTANTS N,       \* messages the user sends
          MaxParts \* parts of a reply, at most

Messages == 1..N

VARIABLES speaker, \* the message whose reply has the floor, 0 if none has
          cleared, \* the messages with a part on its way
          said,    \* said[i]: the parts delivered in reply to i
          over     \* the messages that get nothing more

vars == <<speaker, cleared, said, over>>

Init ==
  /\ speaker = 0
  /\ cleared = {}
  /\ said = [i \in Messages |-> 0]
  /\ over = {}

Idle(i) == i \notin cleared \cup over

\* A reply that has not begun takes the floor from whoever has it.
TakeFloor(i) ==
  /\ Idle(i) /\ said[i] = 0
  /\ speaker' = i
  /\ UNCHANGED <<cleared, said, over>>

LetThrough(i) ==
  /\ Idle(i) /\ speaker = i /\ said[i] < MaxParts
  /\ cleared' = cleared \cup {i}
  /\ UNCHANGED <<speaker, said, over>>

\* A part that was let through arrives, whoever has the floor by then.
Deliver(i) ==
  /\ i \in cleared
  /\ cleared' = cleared \ {i}
  /\ said' = [said EXCEPT ![i] = @ + 1]
  /\ UNCHANGED <<speaker, over>>

\* A part that cannot be sent is the end of its reply.
BreakOff(i) ==
  /\ i \in cleared
  /\ cleared' = cleared \ {i}
  /\ over' = over \cup {i}
  /\ UNCHANGED <<speaker, said>>

\* A reply is complete or given up, at any part.
End(i) ==
  /\ Idle(i)
  /\ over' = over \cup {i}
  /\ UNCHANGED <<speaker, cleared, said>>

\* A reply that has begun keeps the floor until it is over or another takes it.
LeaveFloor(i) ==
  /\ speaker = i /\ i \notin cleared
  /\ i \in over \/ said[i] = 0
  /\ speaker' = 0
  /\ UNCHANGED <<cleared, said, over>>

\* A command is answered without the floor, once.
AnswerAside(i) ==
  /\ Idle(i) /\ speaker # i /\ said[i] = 0
  /\ said' = [said EXCEPT ![i] = 1]
  /\ over' = over \cup {i}
  /\ UNCHANGED <<speaker, cleared>>

Next ==
  \E i \in Messages :
    \/ TakeFloor(i) \/ LetThrough(i) \/ Deliver(i) \/ BreakOff(i)
    \/ End(i) \/ LeaveFloor(i) \/ AnswerAside(i)

Spec == Init /\ [][Next]_vars
=============================================================================
