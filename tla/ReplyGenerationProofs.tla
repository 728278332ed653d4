-------------------------- MODULE ReplyGenerationProofs --------------------------
(***************************************************************************)
(* Safety of the reply pipeline of a chat for any number of messages,      *)
(* parts and reviews, and that the pipeline implements ChatFloor.          *)
(***************************************************************************)
EXTENDS ReplyGeneration, TLAPS

-----------------------------------------------------------------------------
(* The inductive invariant.                                                *)

\* A round that is about to be repeated was the first one.
RegeneratedOnce(i) ==
  \/ pc[i] = "reloading"
  \/ pc[i] = "finishing" /\ run[i].then = "reload"
  => run[i].regen = 0

\* Nothing was delivered before the first check, nor by a round that is
\* repeated or answered with the fallback.
NothingSentYet(i) ==
  \/ pc[i] \in Preparing \cup {"beginning", "reloading", "generating"}
  \/ pc[i] = "finishing" /\ run[i].then \in {"reload", "fallback"}
  => sent[i] = 0

\* What an active generation delivered is counted when its next part is checked.
SentIsCounted(i) ==
  /\ pc[i] \in {"checking", "sending", "pausing", "delaying"}
  /\ Active(i)
  /\ sent[i] > 0
  => handle.parts > 0

\* After a late part the handler finds itself overtaken before the next one.
LateIsNoticed(i) ==
  /\ late[i] <= sent[i]
  /\ late[i] <= 1
  /\ late[i] > 0 =>
       /\ pc[i] # "sending"
       /\ pc[i] \in {"marking", "pausing"} => Overtaken(i)
       /\ pc[i] \in {"delaying", "checking"} => ~Active(i)

MessageSafe(i) ==
  /\ run[i].gen <= nextID
  /\ RegeneratedOnce(i)
  /\ NothingSentYet(i)
  /\ SentIsCounted(i)
  /\ LateIsNoticed(i)

Inv ==
  /\ TypeOK
  /\ HandleHasOwner
  /\ \A i \in Inputs : MessageSafe(i)

-----------------------------------------------------------------------------
(* What the helpers of the actions do to the variables they assign.        *)

LEMMA GotoMoves ==
  ASSUME TypeOK, NEW i \in Inputs, NEW step \in Steps, Goto(i, step)
  PROVE  /\ pc' \in [Inputs -> Steps]
         /\ pc'[i] = step
         /\ \A j \in Inputs : j # i => pc'[j] = pc[j]
BY DEF TypeOK, Goto

LEMMA LocalsMove ==
  ASSUME TypeOK, NEW i \in Inputs, NEW r \in Locals, run' = [run EXCEPT ![i] = r]
  PROVE  /\ run' \in [Inputs -> Locals]
         /\ run'[i] = r
         /\ \A j \in Inputs : j # i => run'[j] = run[j]
BY DEF TypeOK

\* What a handler keeps of its locals when it returns.
LEMMA LocalsEnd ==
  ASSUME NEW failed \in BOOLEAN, NEW verdict \in Verdicts
  PROVE  /\ [NoLocals EXCEPT !.failed = failed, !.then = verdict] \in Locals
         /\ [NoLocals EXCEPT !.failed = failed, !.then = verdict].gen = 0
<1>1. NoLocals \in Locals /\ NoLocals.gen = 0
  BY SomeParts DEF NoLocals, Locals, Verdicts
<1>2. ASSUME NEW r \in Locals
      PROVE  /\ [r EXCEPT !.failed = failed, !.then = verdict] \in Locals
             /\ [r EXCEPT !.failed = failed, !.then = verdict].gen = r.gen
  BY DEF Locals
<1> QED BY <1>1, <1>2

\* The locals of a further round.
LEMMA LocalsRepeat ==
  ASSUME NEW r \in Locals, NEW n \in 0..1, NEW rev \in Nat
  PROVE  /\ [r EXCEPT !.regen = n] \in Locals
         /\ [r EXCEPT !.regen = n].gen = r.gen
         /\ [r EXCEPT !.regen = n, !.revision = rev] \in Locals
         /\ [r EXCEPT !.regen = n, !.revision = rev].gen = r.gen
BY DEF Locals

LEMMA ReviewAdvances ==
  ASSUME NEW r \in Reviews, NEW rev \in Nat
  PROVE  /\ [r EXCEPT !.stage = "read", !.revision = rev] \in Reviews
         /\ [r EXCEPT !.stage = "restating", !.revision = rev] \in Reviews
BY DEF Reviews

LEMMA RetireMoves ==
  ASSUME TypeOK, NEW i \in Inputs, NEW verdict \in Verdicts, RetireFor(i, verdict)
  PROVE  /\ run' \in [Inputs -> Locals]
         /\ run'[i].gen = run[i].gen
         /\ run'[i].regen = run[i].regen
         /\ run'[i].failed = run[i].failed
         /\ run'[i].then = verdict
         /\ pc' \in [Inputs -> Steps]
         /\ pc'[i] = "finishing"
         /\ \A j \in Inputs : j # i => run'[j] = run[j] /\ pc'[j] = pc[j]
<1> DEFINE r == [run[i] EXCEPT !.then = verdict]
<1>1. run[i] \in Locals
  BY DEF TypeOK
<1>2. /\ r \in Locals
      /\ r.gen = run[i].gen /\ r.regen = run[i].regen
      /\ r.failed = run[i].failed /\ r.then = verdict
  BY <1>1 DEF Locals
<1>3. run' = [run EXCEPT ![i] = r]
  BY DEF RetireFor
<1>4. /\ run' \in [Inputs -> Locals]
      /\ run'[i] = r
      /\ \A j \in Inputs : j # i => run'[j] = run[j]
  BY <1>2, <1>3, LocalsMove
<1>5. "finishing" \in Steps /\ Goto(i, "finishing")
  BY DEF RetireFor, Steps, Generating
<1> QED BY <1>2, <1>4, <1>5, GotoMoves

LEMMA CancelMarks ==
  ASSUME TypeOK, NEW reason \in Reasons, CancelActive(reason)
  PROVE  /\ handle' \in Handles \cup {NoHandle}
         /\ handle'.id = handle.id /\ handle'.input = handle.input
         /\ handle'.parts = handle.parts /\ handle'.regen = handle.regen
         /\ nextID' = nextID
         /\ canceled' \in [Inputs -> BOOLEAN]
         /\ \A j \in Inputs : canceled[j] => canceled'[j]
         /\ \A j \in Inputs : canceled'[j] => canceled[j] \/ j = handle.input
         /\ handle.id # 0 => handle'.reason = reason
<1>1. CASE handle.id = 0
  BY <1>1 DEF TypeOK, CancelActive
<1>2. CASE handle.id # 0
  <2>1. handle \in Handles
    BY <1>2 DEF TypeOK, NoHandle
  <2>2. handle' = [handle EXCEPT !.reason = reason]
    BY <1>2 DEF CancelActive
  <2>3. /\ handle' \in Handles
        /\ handle'.id = handle.id /\ handle'.input = handle.input
        /\ handle'.parts = handle.parts /\ handle'.regen = handle.regen
        /\ handle'.reason = reason
    BY <2>1, <2>2 DEF Handles
  <2>4. handle.input \in Inputs
    BY <2>1 DEF Handles
  <2> QED
    BY <1>2, <2>3, <2>4 DEF TypeOK, CancelActive
<1> QED BY <1>1, <1>2

LEMMA SessionOpens ==
  ASSUME TypeOK, OpenSession \/ UNCHANGED database
  PROVE  session' \in Nat /\ sessions' \in Nat /\ revision' \in Nat
BY DEF TypeOK, OpenSession, database

\* A handler's copy of the session and the state row.
LEMMA ContextIsCopied ==
  ASSUME TypeOK, NEW i \in Inputs, BootstrapContext(i)
  PROVE  /\ run' \in [Inputs -> Locals]
         /\ \A j \in Inputs :
              /\ run'[j].gen = run[j].gen /\ run'[j].regen = run[j].regen
              /\ run'[j].failed = run[j].failed /\ run'[j].then = run[j].then
<1> DEFINE r == [run[i] EXCEPT !.session = session', !.revision = revision']
<1>1. run[i] \in Locals
  BY DEF TypeOK
<1>2. session' \in Nat /\ revision' \in Nat
  BY SessionOpens DEF BootstrapContext
<1>3. /\ r \in Locals
      /\ r.gen = run[i].gen /\ r.regen = run[i].regen
      /\ r.failed = run[i].failed /\ r.then = run[i].then
  BY <1>1, <1>2 DEF Locals
<1>4. run' = [run EXCEPT ![i] = r]
  BY DEF BootstrapContext
<1>5. /\ run' \in [Inputs -> Locals]
      /\ run'[i] = r
      /\ \A j \in Inputs : j # i => run'[j] = run[j]
  BY <1>3, <1>4, LocalsMove
<1> QED BY <1>3, <1>5

\* The fast state rules change the row and the handler's revision, or nothing.
LEMMA FastStateIsWritten ==
  ASSUME TypeOK, NEW i \in Inputs, WriteFastState(i) \/ UNCHANGED <<revision, run>>
  PROVE  /\ revision' \in Nat
         /\ run' \in [Inputs -> Locals]
         /\ \A j \in Inputs :
              /\ run'[j].gen = run[j].gen /\ run'[j].regen = run[j].regen
              /\ run'[j].failed = run[j].failed /\ run'[j].then = run[j].then
<1>1. CASE WriteFastState(i)
  <2> DEFINE r == [run[i] EXCEPT !.revision = @ + 1]
  <2>1. run[i] \in Locals
    BY DEF TypeOK
  <2>2. /\ r \in Locals
        /\ r.gen = run[i].gen /\ r.regen = run[i].regen
        /\ r.failed = run[i].failed /\ r.then = run[i].then
        /\ run[i].revision \in Nat
    BY <2>1 DEF Locals
  <2>3. run' = [run EXCEPT ![i] = r] /\ revision' = run[i].revision + 1
    BY <1>1 DEF WriteFastState
  <2>4. /\ run' \in [Inputs -> Locals]
        /\ run'[i] = r
        /\ \A j \in Inputs : j # i => run'[j] = run[j]
    BY <2>2, <2>3, LocalsMove
  <2> QED BY <2>2, <2>3, <2>4
<1>2. CASE UNCHANGED <<revision, run>>
  BY <1>2 DEF TypeOK
<1> QED BY <1>1, <1>2

-----------------------------------------------------------------------------
(* A step of message i's goroutine, or of its review, that begins and      *)
(* finishes no generation.                                                 *)

\* The other goroutines stay as they are.
Apart(i) ==
  \A j \in Inputs \ {i} :
    /\ pc'[j] = pc[j]
    /\ run'[j] = run[j]
    /\ sent'[j] = sent[j]
    /\ late'[j] = late[j]

\* The chat's handle stays whose it was, and what is canceled stays canceled.
HandleKept ==
  /\ handle'.id = handle.id
  /\ handle'.input = handle.input
  /\ handle'.parts >= handle.parts
  /\ nextID' = nextID
  /\ \A j \in Inputs : canceled[j] => canceled'[j]

\* A message is safe after a step that leaves it alone.
LEMMA Bystander ==
  ASSUME TypeOK, TypeOK', NEW j \in Inputs, MessageSafe(j),
         pc'[j] = pc[j], run'[j] = run[j], sent'[j] = sent[j], late'[j] = late[j],
         nextID' >= nextID, canceled[j] => canceled'[j],
         Active(j)' => Active(j) /\ handle'.parts >= handle.parts
  PROVE  MessageSafe(j)'
<1>1. /\ run[j] \in Locals /\ nextID \in Nat /\ nextID' \in Nat
      /\ handle.parts \in Nat /\ handle'.parts \in Nat
  BY DEF TypeOK, Handles, NoHandle
<1>2. run[j].gen \in Nat
  BY <1>1 DEF Locals
<1>3. (run[j].gen <= nextID)'
  BY <1>1, <1>2 DEF MessageSafe
<1>4. RegeneratedOnce(j)' /\ NothingSentYet(j)'
  BY DEF MessageSafe, RegeneratedOnce, NothingSentYet
<1>5. SentIsCounted(j)'
  BY <1>1 DEF MessageSafe, SentIsCounted
<1>6. LateIsNoticed(j)'
  BY DEF MessageSafe, LateIsNoticed, Overtaken
<1> QED BY <1>3, <1>4, <1>5, <1>6 DEF MessageSafe

LEMMA CalmStep ==
  ASSUME Inv, TypeOK', NEW i \in Inputs, Apart(i), HandleKept,
         run'[i].gen = run[i].gen,
         pc[i] \in Generating => pc'[i] \in Generating,
         MessageSafe(i)'
  PROVE  Inv'
<1>1. ASSUME NEW j \in Inputs, j # i
      PROVE  MessageSafe(j)'
  <2>1. nextID' >= nextID
    BY DEF HandleKept, Inv, TypeOK
  <2>2. Active(j)' => Active(j) /\ handle'.parts >= handle.parts
    BY <1>1 DEF Active, HandleKept, Apart
  <2> QED BY <1>1, <2>1, <2>2, Bystander DEF Inv, Apart, HandleKept
<1>2. HandleHasOwner'
  BY DEF Inv, HandleHasOwner, Apart, HandleKept
<1> QED BY <1>1, <1>2 DEF Inv

\* A step that moves no part of a message that the invariant speaks of.
LEMMA SilentStep ==
  ASSUME Inv, TypeOK', NEW i \in Inputs, Apart(i), HandleKept,
         pc'[i] = pc[i], run'[i] = run[i], sent'[i] = sent[i], late'[i] = late[i]
  PROVE  Inv'
<1>1. nextID' >= nextID
  BY DEF HandleKept, Inv, TypeOK
<1>2. Active(i)' => Active(i) /\ handle'.parts >= handle.parts
  BY DEF Active, HandleKept
<1>3. MessageSafe(i)'
  BY <1>1, <1>2, Bystander DEF Inv, HandleKept
<1> QED BY <1>3, CalmStep

LEMMA CoordinatorIdle ==
  ASSUME TypeOK, UNCHANGED coordinator
  PROVE  /\ HandleKept
         /\ UNCHANGED <<handle, nextID, canceled>>
         /\ \A j \in Inputs : Active(j) /\ run'[j] = run[j] => Active(j)'
BY DEF TypeOK, Handles, NoHandle, coordinator, HandleKept, Active

LEMMA CancelKeeps ==
  ASSUME TypeOK, NEW reason \in Reasons, CancelActive(reason)
  PROVE  /\ HandleKept
         /\ handle' \in Handles \cup {NoHandle}
         /\ nextID' \in Nat
         /\ canceled' \in [Inputs -> BOOLEAN]
<1>1. handle.parts \in Nat
  BY DEF TypeOK, Handles, NoHandle
<1> QED BY <1>1, CancelMarks DEF HandleKept, TypeOK

-----------------------------------------------------------------------------
(* Every action keeps the invariant.                                       *)

LEMMA ArriveSafe ==
  ASSUME Inv, NEW i \in Inputs, Arrive(i)
  PROVE  Inv'
<1> USE DEF Inv
<1>1. "arrived" \in Steps
  BY DEF Steps, Preparing
<1>2. /\ pc' \in [Inputs -> Steps] /\ pc'[i] = "arrived"
      /\ \A j \in Inputs : j # i => pc'[j] = pc[j]
  BY <1>1, GotoMoves DEF Arrive
<1>3. alone' \in [Inputs -> BOOLEAN]
  BY DEF Arrive, TypeOK
<1>4. TypeOK'
  BY <1>2, <1>3 DEF Arrive, TypeOK, coordinator, database
<1>5. HandleKept /\ UNCHANGED <<handle, nextID, canceled>>
  BY CoordinatorIdle DEF Arrive
<1>6. MessageSafe(i)'
  BY <1>2, <1>5 DEF Arrive, MessageSafe, RegeneratedOnce, NothingSentYet, SentIsCounted,
     LateIsNoticed, Preparing
<1>7. pc[i] \notin Generating
  BY DEF Arrive, Generating
<1> QED BY <1>2, <1>4, <1>5, <1>6, <1>7, CalmStep DEF Arrive, Apart

LEMMA InterruptForNewInputSafe ==
  ASSUME Inv, NEW i \in Inputs, InterruptForNewInput(i)
  PROVE  Inv'
<1> USE DEF Inv
<1>1. PICK step \in {"locking", "resetting", "commanding"} : Goto(i, step)
  BY DEF InterruptForNewInput, TypeOK, Kinds
<1>2. step \in Steps
  BY DEF Steps, Preparing
<1>3. /\ pc' \in [Inputs -> Steps] /\ pc'[i] = step
      /\ \A j \in Inputs : j # i => pc'[j] = pc[j]
  BY <1>1, <1>2, GotoMoves
<1>4. CancelActive("new_input") /\ "new_input" \in Reasons
  BY DEF InterruptForNewInput, Reasons
<1>5. /\ HandleKept
      /\ handle' \in Handles \cup {NoHandle}
      /\ nextID' \in Nat
      /\ canceled' \in [Inputs -> BOOLEAN]
  BY <1>4, CancelKeeps
<1>6. TypeOK'
  BY <1>3, <1>5 DEF InterruptForNewInput, TypeOK, database
<1>7. sent[i] = 0 /\ late[i] <= sent[i] /\ late[i] \in Nat /\ pc[i] \notin Generating
  BY DEF InterruptForNewInput, MessageSafe, NothingSentYet, LateIsNoticed, Preparing,
     TypeOK, Generating
<1>8. MessageSafe(i)'
  BY <1>3, <1>5, <1>7 DEF InterruptForNewInput, HandleKept, MessageSafe, RegeneratedOnce,
     NothingSentYet, SentIsCounted, LateIsNoticed, Preparing
<1> QED BY <1>3, <1>5, <1>6, <1>7, <1>8, CalmStep DEF InterruptForNewInput, Apart

LEMMA BootstrapSafe ==
  ASSUME Inv, NEW i \in Inputs, Bootstrap(i)
  PROVE  Inv'
<1> USE DEF Inv
<1>1. PICK step \in {"recording", "beginning"} : Goto(i, step)
  BY DEF Bootstrap
<1>2. step \in Steps
  BY DEF Steps, Preparing
<1>3. /\ pc' \in [Inputs -> Steps] /\ pc'[i] = step
      /\ \A j \in Inputs : j # i => pc'[j] = pc[j]
  BY <1>1, <1>2, GotoMoves
<1>4. BootstrapContext(i) \/ BootstrapFails
  BY DEF Bootstrap
<1>5. /\ run' \in [Inputs -> Locals]
      /\ \A j \in Inputs : j # i => run'[j] = run[j]
      /\ run'[i].gen = run[i].gen
  BY <1>4, ContextIsCopied DEF BootstrapContext, BootstrapFails, TypeOK
<1>6. session' \in Nat /\ sessions' \in Nat /\ revision' \in Nat
  BY <1>4, SessionOpens DEF BootstrapContext, BootstrapFails
<1>7. lock' \in 0..N
  BY SomeMessages DEF Bootstrap, TypeOK, Inputs
<1>8. TypeOK'
  BY <1>3, <1>5, <1>6, <1>7 DEF Bootstrap, TypeOK, coordinator
<1>9. HandleKept /\ UNCHANGED <<handle, nextID, canceled>>
  BY CoordinatorIdle DEF Bootstrap
<1>10. sent[i] = 0 /\ late[i] <= sent[i] /\ late[i] \in Nat /\ pc[i] \notin Generating
  BY DEF Bootstrap, MessageSafe, NothingSentYet, LateIsNoticed, Preparing, TypeOK, Generating
<1>11. MessageSafe(i)'
  BY <1>3, <1>5, <1>9, <1>10 DEF Bootstrap, MessageSafe, RegeneratedOnce, NothingSentYet,
     SentIsCounted, LateIsNoticed
<1> QED BY <1>3, <1>5, <1>8, <1>9, <1>10, <1>11, CalmStep DEF Bootstrap, Apart

LEMMA RecordInputSafe ==
  ASSUME Inv, NEW i \in Inputs, RecordInput(i)
  PROVE  Inv'
<1> USE DEF Inv
<1>1. "beginning" \in Steps
  BY DEF Steps
<1>2. /\ pc' \in [Inputs -> Steps] /\ pc'[i] = "beginning"
      /\ \A j \in Inputs : j # i => pc'[j] = pc[j]
  BY <1>1, GotoMoves DEF RecordInput
<1>3. WriteFastState(i) \/ UNCHANGED <<revision, run>>
  BY DEF RecordInput
<1>4. /\ revision' \in Nat
      /\ run' \in [Inputs -> Locals]
      /\ run'[i].gen = run[i].gen
      /\ \A j \in Inputs : j # i => run'[j] = run[j]
  BY <1>3, FastStateIsWritten DEF WriteFastState, TypeOK
<1>5. run[i].session \in Nat
  BY DEF TypeOK, Locals
<1>6. review' \in [Inputs -> Reviews]
  BY <1>5 DEF RecordInput, TypeOK, Reviews
<1>7. lock' \in 0..N
  BY SomeMessages DEF RecordInput
<1>8. TypeOK'
  BY <1>2, <1>4, <1>6, <1>7 DEF RecordInput, TypeOK, coordinator
<1>9. HandleKept /\ UNCHANGED <<handle, nextID, canceled>>
  BY CoordinatorIdle DEF RecordInput
<1>10. sent[i] = 0 /\ late[i] <= sent[i] /\ late[i] \in Nat /\ pc[i] \notin Generating
  BY DEF RecordInput, MessageSafe, NothingSentYet, LateIsNoticed, Preparing, TypeOK, Generating
<1>11. MessageSafe(i)'
  BY <1>2, <1>4, <1>9, <1>10 DEF RecordInput, MessageSafe, RegeneratedOnce, NothingSentYet,
     SentIsCounted, LateIsNoticed
<1> QED BY <1>2, <1>4, <1>8, <1>9, <1>10, <1>11, CalmStep DEF RecordInput, Apart

LEMMA BeginSafe ==
  ASSUME Inv, NEW i \in Inputs, Begin(i)
  PROVE  Inv'
<1> USE DEF Inv
<1> DEFINE r == [run[i] EXCEPT !.gen = nextID + 1, !.part = 1]
<1>1. run[i] \in Locals /\ nextID \in Nat /\ handle.parts \in Nat
  BY DEF TypeOK, Handles, NoHandle
<1>2. r \in Locals /\ r.gen = nextID + 1
  <2>1. nextID + 1 \in Nat /\ 1 \in 1..MaxParts
    BY <1>1, SomeParts
  <2> QED BY <1>1, <2>1 DEF Locals
<1>3. run' = [run EXCEPT ![i] = r]
  BY DEF Begin
<1>4. /\ run' \in [Inputs -> Locals]
      /\ run'[i] = r
      /\ \A j \in Inputs : j # i => run'[j] = run[j]
  BY <1>2, <1>3, LocalsMove
<1>5. "generating" \in Steps
  BY DEF Steps, Generating
<1>6. /\ pc' \in [Inputs -> Steps] /\ pc'[i] = "generating"
      /\ \A j \in Inputs : j # i => pc'[j] = pc[j]
  BY <1>5, GotoMoves DEF Begin
<1>7. nextID' = nextID + 1 /\ handle'.id = nextID + 1 /\ handle'.input = i
  BY DEF Begin
<1>8. handle' \in Handles
  BY <1>1 DEF Begin, Handles, Reasons, Locals
<1>9. /\ canceled' \in [Inputs -> BOOLEAN]
      /\ \A j \in Inputs : j # i => canceled'[j] = canceled[j]
  BY DEF Begin, TypeOK
<1>10. TypeOK'
  BY <1>1, <1>4, <1>6, <1>7, <1>8, <1>9 DEF Begin, TypeOK, database
<1>11. HandleHasOwner'
  BY <1>2, <1>4, <1>6, <1>7 DEF HandleHasOwner, Generating
<1>12. sent[i] = 0 /\ late[i] <= sent[i] /\ late[i] \in Nat
  BY DEF Begin, MessageSafe, NothingSentYet, LateIsNoticed, TypeOK
<1>13. MessageSafe(i)'
  BY <1>1, <1>2, <1>4, <1>6, <1>7, <1>12 DEF Begin, MessageSafe, RegeneratedOnce,
     NothingSentYet, SentIsCounted, LateIsNoticed
<1>14. ASSUME NEW j \in Inputs, j # i
       PROVE  MessageSafe(j)'
  <2>1. run[j].gen <= nextID /\ run[j].gen \in Nat
    BY DEF MessageSafe, TypeOK, Locals
  <2>2. ~Active(j)'
    BY <1>1, <1>4, <1>7, <1>14, <2>1 DEF Active
  <2>3. /\ pc'[j] = pc[j] /\ run'[j] = run[j]
        /\ sent'[j] = sent[j] /\ late'[j] = late[j]
        /\ nextID' >= nextID /\ (canceled[j] => canceled'[j])
    BY <1>1, <1>4, <1>6, <1>7, <1>9, <1>14 DEF Begin
  <2> QED BY <1>10, <2>2, <2>3, Bystander
<1> QED BY <1>10, <1>11, <1>13, <1>14

LEMMA GenerateSafe ==
  ASSUME Inv, NEW i \in Inputs, Generate(i)
  PROVE  Inv'
<1> USE DEF Inv
<1>1. "checking" \in Steps
  BY DEF Steps, Generating
<1>2. /\ pc' \in [Inputs -> Steps] /\ pc'[i] = "checking"
      /\ \A j \in Inputs : j # i => pc'[j] = pc[j]
  BY <1>1, GotoMoves DEF Generate
<1>3. TypeOK'
  BY <1>2 DEF Generate, TypeOK, coordinator, database
<1>4. HandleKept /\ UNCHANGED <<handle, nextID, canceled>>
  BY CoordinatorIdle DEF Generate
<1>5. sent[i] = 0 /\ late[i] <= sent[i] /\ late[i] \in Nat
  BY DEF Generate, MessageSafe, NothingSentYet, LateIsNoticed, TypeOK
<1>6. MessageSafe(i)'
  BY <1>2, <1>4, <1>5 DEF Generate, MessageSafe, RegeneratedOnce, NothingSentYet,
     SentIsCounted, LateIsNoticed, Preparing
<1> QED BY <1>2, <1>3, <1>4, <1>6, CalmStep DEF Generate, Apart, Generating

\* A handler that retires its generation and touches nothing else, with a
\* verdict its state allows.
LEMMA RetireSafe ==
  ASSUME Inv, NEW i \in Inputs, NEW verdict \in Verdicts, RetireFor(i, verdict),
         UNCHANGED <<kind, sent, late, alone, lock, coordinator, database, review>>,
         verdict = "reload" => run[i].regen = 0,
         verdict \in {"reload", "fallback"} => sent[i] = 0
  PROVE  Inv'
<1> USE DEF Inv
<1>1. /\ run' \in [Inputs -> Locals]
      /\ run'[i].gen = run[i].gen /\ run'[i].regen = run[i].regen
      /\ run'[i].then = verdict
      /\ pc' \in [Inputs -> Steps]
      /\ pc'[i] = "finishing"
      /\ \A j \in Inputs : j # i => run'[j] = run[j] /\ pc'[j] = pc[j]
  BY RetireMoves
<1>2. TypeOK'
  BY <1>1 DEF TypeOK, coordinator, database
<1>3. HandleKept /\ UNCHANGED <<handle, nextID, canceled>>
  BY CoordinatorIdle
<1>4. MessageSafe(i)'
  BY <1>1, <1>3 DEF MessageSafe, RegeneratedOnce, NothingSentYet, SentIsCounted,
     LateIsNoticed, Preparing
<1> QED BY <1>1, <1>2, <1>3, <1>4, CalmStep DEF Apart, Generating

LEMMA GenerateInterruptedSafe ==
  ASSUME Inv, NEW i \in Inputs, GenerateInterrupted(i)
  PROVE  Inv'
<1>1. run[i].regen \in 0..1
  BY DEF Inv, TypeOK, Locals
<1>2. sent[i] = 0
  BY DEF Inv, MessageSafe, NothingSentYet, GenerateInterrupted
<1>3. CASE RetireFor(i, "reload") /\ run[i].regen < 1
  BY <1>1, <1>2, <1>3, RetireSafe DEF GenerateInterrupted, Verdicts
<1>4. CASE RetireFor(i, "dropped")
  BY <1>4, RetireSafe DEF GenerateInterrupted, Verdicts
<1> QED BY <1>3, <1>4 DEF GenerateInterrupted

LEMMA GenerateFailedSafe ==
  ASSUME Inv, NEW i \in Inputs, GenerateFailed(i)
  PROVE  Inv'
<1> USE DEF Inv
<1> DEFINE r == [run[i] EXCEPT !.failed = TRUE, !.then = "fallback"]
<1>1. run[i] \in Locals
  BY DEF TypeOK
<1>2. r \in Locals /\ r.gen = run[i].gen /\ r.then = "fallback"
  BY <1>1 DEF Locals, Verdicts
<1>3. run' = [run EXCEPT ![i] = r]
  BY DEF GenerateFailed
<1>4. /\ run' \in [Inputs -> Locals]
      /\ run'[i] = r
      /\ \A j \in Inputs : j # i => run'[j] = run[j]
  BY <1>2, <1>3, LocalsMove
<1>5. "finishing" \in Steps
  BY DEF Steps, Generating
<1>6. /\ pc' \in [Inputs -> Steps] /\ pc'[i] = "finishing"
      /\ \A j \in Inputs : j # i => pc'[j] = pc[j]
  BY <1>5, GotoMoves DEF GenerateFailed
<1>7. TypeOK'
  BY <1>4, <1>6 DEF GenerateFailed, TypeOK, coordinator, database
<1>8. HandleKept /\ UNCHANGED <<handle, nextID, canceled>>
  BY CoordinatorIdle DEF GenerateFailed
<1>9. sent[i] = 0 /\ late[i] <= sent[i] /\ late[i] \in Nat
  BY DEF GenerateFailed, MessageSafe, NothingSentYet, LateIsNoticed, TypeOK
<1>10. MessageSafe(i)'
  BY <1>2, <1>4, <1>6, <1>8, <1>9 DEF GenerateFailed, MessageSafe, RegeneratedOnce,
     NothingSentYet, SentIsCounted, LateIsNoticed
<1> QED BY <1>2, <1>4, <1>6, <1>7, <1>8, <1>10, CalmStep DEF GenerateFailed, Apart, Generating

LEMMA CheckBeforeSendSafe ==
  ASSUME Inv, NEW i \in Inputs, CheckBeforeSend(i)
  PROVE  Inv'
<1> USE DEF Inv
<1>1. run[i].regen \in 0..1 /\ sent[i] \in Nat
  BY DEF TypeOK, Locals
<1>2. CASE Goto(i, "sending") /\ UNCHANGED run /\ Active(i)
  <2>1. "sending" \in Steps
    BY DEF Steps, Generating
  <2>2. /\ pc' \in [Inputs -> Steps] /\ pc'[i] = "sending"
        /\ \A j \in Inputs : j # i => pc'[j] = pc[j]
    BY <1>2, <2>1, GotoMoves
  <2>3. TypeOK'
    BY <1>2, <2>2 DEF CheckBeforeSend, TypeOK, coordinator, database
  <2>4. HandleKept /\ UNCHANGED <<handle, nextID, canceled>>
    BY CoordinatorIdle DEF CheckBeforeSend
  <2>5. late[i] \in Nat /\ ~(late[i] > 0)
    BY <1>2 DEF CheckBeforeSend, MessageSafe, LateIsNoticed, TypeOK
  <2>6. MessageSafe(i)'
    BY <1>1, <1>2, <2>2, <2>4, <2>5 DEF CheckBeforeSend, MessageSafe, RegeneratedOnce,
       NothingSentYet, SentIsCounted, LateIsNoticed, Preparing, Active
  <2> QED BY <1>2, <2>2, <2>3, <2>4, <2>6, CalmStep DEF CheckBeforeSend, Apart, Generating
<1>3. CASE RetireFor(i, "reload") /\ Active(i) /\ MayRestate /\ run[i].regen < 1
  <2>1. run[i].regen = 0
    BY <1>1, <1>3
  <2>2. sent[i] = 0
    BY <1>1, <1>3 DEF CheckBeforeSend, MessageSafe, SentIsCounted, MayRestate
  <2> QED BY <1>3, <2>1, <2>2, RetireSafe DEF CheckBeforeSend, Verdicts
<1>4. CASE RetireFor(i, "dropped")
  BY <1>4, RetireSafe DEF CheckBeforeSend, Verdicts
<1> QED BY <1>2, <1>3, <1>4 DEF CheckBeforeSend

LEMMA SendTextSafe ==
  ASSUME Inv, NEW i \in Inputs, SendText(i)
  PROVE  Inv'
<1> USE DEF Inv
<1>1. sent[i] \in Nat /\ late[i] \in Nat
  BY DEF TypeOK
<1>2. CASE RetireFor(i, "broken") /\ UNCHANGED <<sent, late>>
  BY <1>2, RetireSafe DEF SendText, Verdicts
<1>3. CASE /\ sent' = [sent EXCEPT ![i] = @ + 1]
           /\ late' = IF Overtaken(i) THEN [late EXCEPT ![i] = @ + 1] ELSE late
           /\ Goto(i, "marking")
           /\ UNCHANGED run
  <2>1. "marking" \in Steps
    BY DEF Steps, Generating
  <2>2. /\ pc' \in [Inputs -> Steps] /\ pc'[i] = "marking"
        /\ \A j \in Inputs : j # i => pc'[j] = pc[j]
    BY <1>3, <2>1, GotoMoves
  <2>3. /\ sent' \in [Inputs -> Nat] /\ sent'[i] = sent[i] + 1
        /\ \A j \in Inputs : j # i => sent'[j] = sent[j]
    BY <1>1, <1>3 DEF TypeOK
  <2>4. /\ late' \in [Inputs -> Nat]
        /\ late'[i] = IF Overtaken(i) THEN late[i] + 1 ELSE late[i]
        /\ \A j \in Inputs : j # i => late'[j] = late[j]
    BY <1>1, <1>3 DEF TypeOK
  <2>5. TypeOK'
    BY <1>3, <2>2, <2>3, <2>4 DEF SendText, TypeOK, coordinator, database
  <2>6. HandleKept /\ UNCHANGED <<handle, nextID, canceled>>
    BY CoordinatorIdle DEF SendText
  <2>7. late[i] = 0
    BY <1>1 DEF SendText, MessageSafe, LateIsNoticed
  <2>8. Overtaken(i)' <=> Overtaken(i)
    BY <1>3, <2>6 DEF Overtaken, Active
  <2>9. LateIsNoticed(i)'
    BY <1>1, <2>2, <2>3, <2>4, <2>7, <2>8 DEF LateIsNoticed
  <2>10. MessageSafe(i)'
    BY <1>3, <2>2, <2>6, <2>9 DEF SendText, MessageSafe, RegeneratedOnce,
       NothingSentYet, SentIsCounted, Preparing
  <2> QED BY <1>3, <2>2, <2>3, <2>4, <2>5, <2>6, <2>10, CalmStep DEF SendText, Apart, Generating
<1> QED BY <1>2, <1>3 DEF SendText

LEMMA MarkPartSentSafe ==
  ASSUME Inv, NEW i \in Inputs, MarkPartSent(i)
  PROVE  Inv'
<1> USE DEF Inv
<1>1. run[i] \in Locals /\ handle.parts \in Nat
  BY DEF TypeOK, Handles, NoHandle
<1>2. /\ handle' \in Handles \cup {NoHandle}
      /\ handle'.id = handle.id /\ handle'.input = handle.input
      /\ handle'.parts >= handle.parts
      /\ Active(i) => handle'.parts > 0
  <2>1. CASE Active(i)
    <3>1. handle \in Handles
      BY <2>1 DEF TypeOK, Active, NoHandle
    <3>2. handle' = [handle EXCEPT !.parts = @ + 1]
      BY <2>1 DEF MarkPartSent
    <3> QED BY <1>1, <3>1, <3>2 DEF Handles
  <2>2. CASE ~Active(i)
    BY <1>1, <2>2 DEF MarkPartSent, TypeOK
  <2> QED BY <2>1, <2>2
<1>3. UNCHANGED <<nextID, canceled>>
  BY DEF MarkPartSent
<1>4. HandleKept
  BY <1>2, <1>3 DEF HandleKept
<1>5. CASE RetireFor(i, "answered")
  <2>1. /\ run' \in [Inputs -> Locals]
        /\ run'[i].gen = run[i].gen /\ run'[i].then = "answered"
        /\ pc' \in [Inputs -> Steps]
        /\ pc'[i] = "finishing"
        /\ \A j \in Inputs : j # i => run'[j] = run[j] /\ pc'[j] = pc[j]
    BY <1>5, RetireMoves DEF Verdicts
  <2>2. TypeOK'
    BY <1>2, <1>3, <2>1 DEF MarkPartSent, TypeOK, database
  <2>3. MessageSafe(i)'
    BY <1>3, <2>1 DEF MarkPartSent, MessageSafe, RegeneratedOnce, NothingSentYet,
       SentIsCounted, LateIsNoticed, Preparing
  <2> QED BY <1>4, <2>1, <2>2, <2>3, CalmStep DEF MarkPartSent, Apart, Generating
<1>6. CASE /\ run[i].part < MaxParts
           /\ run' = [run EXCEPT ![i].part = @ + 1]
           /\ Goto(i, "pausing")
  <2> DEFINE r == [run[i] EXCEPT !.part = @ + 1]
  <2>1. run[i].part \in 1..MaxParts
    BY <1>1 DEF Locals
  <2>2. run[i].part + 1 \in 1..MaxParts
    BY <1>6, <2>1, SomeParts
  <2>3. r \in Locals /\ r.gen = run[i].gen
    BY <1>1, <2>2 DEF Locals
  <2>4. /\ run' \in [Inputs -> Locals]
        /\ run'[i] = r
        /\ \A j \in Inputs : j # i => run'[j] = run[j]
    BY <1>6, <2>3, LocalsMove
  <2>5. "pausing" \in Steps
    BY DEF Steps, Generating
  <2>6. /\ pc' \in [Inputs -> Steps] /\ pc'[i] = "pausing"
        /\ \A j \in Inputs : j # i => pc'[j] = pc[j]
    BY <1>6, <2>5, GotoMoves
  <2>7. TypeOK'
    BY <1>2, <1>3, <2>4, <2>6 DEF MarkPartSent, TypeOK, database
  <2>8. Active(i)' <=> Active(i)
    BY <1>2, <2>3, <2>4 DEF Active
  <2>9. SentIsCounted(i)'
    BY <1>2, <2>8 DEF SentIsCounted
  <2>10. LateIsNoticed(i)'
    BY <1>3, <2>6, <2>8 DEF MarkPartSent, MessageSafe, LateIsNoticed, Overtaken
  <2>11. MessageSafe(i)'
    BY <1>3, <2>3, <2>4, <2>6, <2>9, <2>10 DEF MarkPartSent, MessageSafe, RegeneratedOnce,
       NothingSentYet, Preparing
  <2> QED
    BY <1>4, <2>3, <2>4, <2>6, <2>7, <2>11, CalmStep DEF MarkPartSent, Apart, Generating
<1> QED BY <1>5, <1>6 DEF MarkPartSent

LEMMA PauseBeginsSafe ==
  ASSUME Inv, NEW i \in Inputs, PauseBegins(i)
  PROVE  Inv'
<1> USE DEF Inv
<1>1. CASE canceled[i]
  BY <1>1, RetireSafe DEF PauseBegins, Verdicts
<1>2. CASE ~canceled[i]
  <2>1. "delaying" \in Steps /\ Goto(i, "delaying") /\ UNCHANGED run
    BY <1>2 DEF PauseBegins, Steps, Generating
  <2>2. /\ pc' \in [Inputs -> Steps] /\ pc'[i] = "delaying"
        /\ \A j \in Inputs : j # i => pc'[j] = pc[j]
    BY <2>1, GotoMoves
  <2>3. TypeOK'
    BY <2>1, <2>2 DEF PauseBegins, TypeOK, coordinator, database
  <2>4. HandleKept /\ UNCHANGED <<handle, nextID, canceled>>
    BY CoordinatorIdle DEF PauseBegins
  <2>5. Active(i)' <=> Active(i)
    BY <2>1, <2>4 DEF Active
  <2>6. SentIsCounted(i)' /\ LateIsNoticed(i)'
    BY <1>2, <2>2, <2>4, <2>5 DEF PauseBegins, MessageSafe, SentIsCounted, LateIsNoticed,
       Overtaken
  <2>7. MessageSafe(i)'
    BY <2>1, <2>2, <2>4, <2>6 DEF PauseBegins, MessageSafe, RegeneratedOnce, NothingSentYet,
       Preparing
  <2> QED BY <2>1, <2>2, <2>3, <2>4, <2>7, CalmStep DEF PauseBegins, Apart, Generating
<1> QED BY <1>1, <1>2

LEMMA PauseElapsedSafe ==
  ASSUME Inv, NEW i \in Inputs, PauseElapsed(i)
  PROVE  Inv'
<1> USE DEF Inv
<1>1. "checking" \in Steps /\ Goto(i, "checking")
  BY DEF PauseElapsed, Steps, Generating
<1>2. /\ pc' \in [Inputs -> Steps] /\ pc'[i] = "checking"
      /\ \A j \in Inputs : j # i => pc'[j] = pc[j]
  BY <1>1, GotoMoves
<1>3. TypeOK'
  BY <1>2 DEF PauseElapsed, TypeOK, coordinator, database
<1>4. HandleKept /\ UNCHANGED <<handle, nextID, canceled>>
  BY CoordinatorIdle DEF PauseElapsed
<1>5. Active(i)' <=> Active(i)
  BY <1>4 DEF PauseElapsed, Active
<1>6. SentIsCounted(i)' /\ LateIsNoticed(i)'
  BY <1>2, <1>4, <1>5 DEF PauseElapsed, MessageSafe, SentIsCounted, LateIsNoticed
<1>7. MessageSafe(i)'
  BY <1>2, <1>4, <1>6 DEF PauseElapsed, MessageSafe, RegeneratedOnce, NothingSentYet, Preparing
<1> QED BY <1>2, <1>3, <1>4, <1>7, CalmStep DEF PauseElapsed, Apart, Generating

LEMMA PauseInterruptedSafe ==
  ASSUME Inv, NEW i \in Inputs, PauseInterrupted(i)
  PROVE  Inv'
BY RetireSafe DEF PauseInterrupted, Verdicts

LEMMA FinishSafe ==
  ASSUME Inv, NEW i \in Inputs, Finish(i)
  PROVE  Inv'
<1> USE DEF Inv
<1> DEFINE r == [NoLocals EXCEPT !.failed = run[i].failed, !.then = run[i].then]
<1>1. run[i] \in Locals /\ nextID \in Nat /\ handle.parts \in Nat
  BY DEF TypeOK, Handles, NoHandle
<1>2. r \in Locals /\ r.gen = 0
  <2>1. run[i].failed \in BOOLEAN /\ run[i].then \in Verdicts
    BY <1>1 DEF Locals
  <2> QED BY <2>1, LocalsEnd
<1>3. /\ handle' \in Handles \cup {NoHandle}
      /\ UNCHANGED <<nextID, canceled>>
      /\ IF Active(i) THEN handle'.id = 0 ELSE handle' = handle
  BY DEF Finish, TypeOK, NoHandle
<1>4. PICK step \in {"reloading", "checking", "done"} :
        /\ Goto(i, step)
        /\ \/ step = "reloading" /\ run[i].then = "reload" /\ UNCHANGED run
           \/ step = "checking" /\ run[i].then = "fallback" /\ UNCHANGED run
           \/ step = "done" /\ run' = [run EXCEPT ![i] = r]
  BY DEF Finish
<1>5. step \in Steps
  BY DEF Steps, Generating
<1>6. /\ pc' \in [Inputs -> Steps] /\ pc'[i] = step
      /\ \A j \in Inputs : j # i => pc'[j] = pc[j]
  BY <1>4, <1>5, GotoMoves
<1>7. /\ run' \in [Inputs -> Locals]
      /\ run'[i] = run[i] \/ run'[i] = r
      /\ \A j \in Inputs : j # i => run'[j] = run[j]
  <2>1. CASE UNCHANGED run
    BY <2>1 DEF TypeOK
  <2>2. CASE run' = [run EXCEPT ![i] = r]
    BY <1>2, <2>2, LocalsMove
  <2> QED BY <1>4, <2>1, <2>2
<1>8. TypeOK'
  BY <1>3, <1>6, <1>7 DEF Finish, TypeOK, database
<1>9. ~Active(i)'
  <2>1. CASE Active(i)
    BY <1>3, <2>1 DEF Active
  <2>2. CASE ~Active(i)
    BY <1>2, <1>3, <1>7, <2>2 DEF Active
  <2> QED BY <2>1, <2>2
<1>10. HandleHasOwner'
  BY <1>3, <1>6, <1>7 DEF HandleHasOwner, Active
<1>11. MessageSafe(i)'
  <2>1. run'[i].gen <= nextID
    <3> HIDE DEF r
    <3>1. run'[i].gen = run[i].gen \/ run'[i].gen = 0
      BY <1>2, <1>7
    <3> QED BY <1>1, <3>1 DEF MessageSafe
  <2>2. step \in {"reloading", "checking"} => sent[i] = 0
    BY <1>4 DEF Finish, MessageSafe, NothingSentYet
  <2>3. step = "reloading" => run'[i].regen = 0
    BY <1>4 DEF Finish, MessageSafe, RegeneratedOnce
  <2>4. sent'[i] = sent[i] /\ late'[i] = late[i] /\ sent[i] \in Nat /\ late[i] \in Nat
    BY DEF Finish, TypeOK
  <2>5. RegeneratedOnce(i)' /\ NothingSentYet(i)' /\ SentIsCounted(i)'
    BY <1>6, <1>9, <2>2, <2>3, <2>4 DEF RegeneratedOnce, NothingSentYet, SentIsCounted, Preparing
  <2>6. LateIsNoticed(i)'
    BY <1>6, <1>9, <2>4 DEF MessageSafe, LateIsNoticed
  <2> QED BY <1>3, <2>1, <2>5, <2>6 DEF MessageSafe
<1>12. ASSUME NEW j \in Inputs, j # i
       PROVE  MessageSafe(j)'
  <2>1. /\ pc'[j] = pc[j] /\ run'[j] = run[j]
        /\ sent'[j] = sent[j] /\ late'[j] = late[j]
        /\ nextID' >= nextID /\ (canceled[j] => canceled'[j])
    BY <1>1, <1>3, <1>6, <1>7, <1>12 DEF Finish
  <2>2. Active(j)' => Active(j) /\ handle'.parts >= handle.parts
    BY <1>1, <1>3, <2>1 DEF Active
  <2> QED BY <1>8, <2>1, <2>2, Bystander
<1> QED BY <1>8, <1>10, <1>11, <1>12

LEMMA ReloadSafe ==
  ASSUME Inv, NEW i \in Inputs, Reload(i)
  PROVE  Inv'
<1> USE DEF Inv
<1>1. run[i] \in Locals /\ run[i].regen = 0 /\ revision \in Nat
  BY DEF TypeOK, Reload, MessageSafe, RegeneratedOnce
<1>2. PICK r \in Locals : run' = [run EXCEPT ![i] = r] /\ r.gen = run[i].gen
  <2> DEFINE n == run[i].regen + 1
             rev == RowRevision(run[i].session)
             kept == [run[i] EXCEPT !.regen = n]
             fresh == [run[i] EXCEPT !.regen = n, !.revision = rev]
  <2>1. run' = [run EXCEPT ![i] = kept] \/ run' = [run EXCEPT ![i] = fresh]
    BY DEF Reload
  <2>2. run[i] \in Locals /\ n \in 0..1 /\ rev \in Nat
    BY <1>1 DEF RowRevision
  <2> HIDE DEF n, rev
  <2>3. /\ kept \in Locals /\ kept.gen = run[i].gen
        /\ fresh \in Locals /\ fresh.gen = run[i].gen
    BY ONLY <2>2, LocalsRepeat, Zenon
  <2> QED BY <2>1, <2>3
<1>3. /\ run' \in [Inputs -> Locals]
      /\ run'[i] = r
      /\ \A j \in Inputs : j # i => run'[j] = run[j]
  BY <1>2, LocalsMove
<1>4. "beginning" \in Steps /\ Goto(i, "beginning")
  BY DEF Reload, Steps
<1>5. /\ pc' \in [Inputs -> Steps] /\ pc'[i] = "beginning"
      /\ \A j \in Inputs : j # i => pc'[j] = pc[j]
  BY <1>4, GotoMoves
<1>6. TypeOK'
  BY <1>3, <1>5 DEF Reload, TypeOK, coordinator, database
<1>7. HandleKept /\ UNCHANGED <<handle, nextID, canceled>>
  BY CoordinatorIdle DEF Reload
<1>8. sent[i] = 0 /\ late[i] <= sent[i] /\ late[i] \in Nat /\ pc[i] \notin Generating
  BY DEF Reload, MessageSafe, NothingSentYet, LateIsNoticed, TypeOK, Generating
<1>9. MessageSafe(i)'
  BY <1>2, <1>3, <1>5, <1>7, <1>8 DEF Reload, MessageSafe, RegeneratedOnce, NothingSentYet,
     SentIsCounted, LateIsNoticed
<1> QED BY <1>2, <1>3, <1>5, <1>6, <1>7, <1>8, <1>9, CalmStep DEF Reload, Apart

\* Commands run outside generateLoop; until one ends it delivers nothing.
LEMMA CommandStep ==
  ASSUME Inv, TypeOK', NEW i \in Inputs, NEW step \in Steps, Goto(i, step),
         HandleKept, UNCHANGED late,
         pc[i] \in {"commanding", "resetting", "deleting", "reopening", "opening"},
         step \in {"deleting", "reopening", "opening", "done"},
         run'[i].gen = run[i].gen,
         \A j \in Inputs \ {i} : run'[j] = run[j] /\ sent'[j] = sent[j],
         sent'[i] >= late[i]
  PROVE  Inv'
<1> USE DEF Inv
<1>1. /\ pc'[i] = step
      /\ \A j \in Inputs : j # i => pc'[j] = pc[j]
  BY GotoMoves
<1>2. Apart(i)
  BY <1>1 DEF Apart
<1>3. MessageSafe(i)'
  BY <1>1 DEF HandleKept, MessageSafe, RegeneratedOnce, NothingSentYet, SentIsCounted,
     LateIsNoticed, Preparing
<1>4. pc[i] \notin Generating
  BY DEF Generating
<1> QED BY <1>2, <1>3, <1>4, CalmStep

LEMMA AnswerSafe ==
  ASSUME Inv, NEW i \in Inputs, AnswerCommand(i) \/ SendOpening(i)
  PROVE  Inv'
<1> USE DEF Inv
<1>1. "done" \in Steps /\ Goto(i, "done")
  BY DEF AnswerCommand, SendOpening, Steps
<1>2. late[i] \in Nat /\ sent[i] \in Nat /\ late[i] <= sent[i] /\ late[i] <= 1
  BY DEF TypeOK, MessageSafe, LateIsNoticed
<1>3. /\ sent' \in [Inputs -> Nat]
      /\ sent'[i] = 1 \/ sent'[i] = sent[i]
      /\ \A j \in Inputs \ {i} : sent'[j] = sent[j]
  BY DEF AnswerCommand, SendOpening, TypeOK
<1>4. pc' \in [Inputs -> Steps]
  BY <1>1, GotoMoves
<1>5. TypeOK'
  BY <1>3, <1>4 DEF AnswerCommand, SendOpening, TypeOK, coordinator, database
<1>6. HandleKept
  BY CoordinatorIdle DEF AnswerCommand, SendOpening
<1>7. UNCHANGED <<run, late>> /\ pc[i] \in {"commanding", "opening"}
  BY DEF AnswerCommand, SendOpening
<1>8. sent'[i] >= late[i]
  BY <1>2, <1>3
<1> QED BY <1>1, <1>3, <1>5, <1>6, <1>7, <1>8, CommandStep

LEMMA InterruptForResetSafe ==
  ASSUME Inv, NEW i \in Inputs, InterruptForReset(i)
  PROVE  Inv'
<1> USE DEF Inv
<1>1. "deleting" \in Steps /\ Goto(i, "deleting")
  BY DEF InterruptForReset, Steps
<1>2. CancelActive("reset") /\ "reset" \in Reasons
  BY DEF InterruptForReset, Reasons
<1>3. /\ HandleKept
      /\ handle' \in Handles \cup {NoHandle}
      /\ nextID' \in Nat
      /\ canceled' \in [Inputs -> BOOLEAN]
  BY <1>2, CancelKeeps
<1>4. pc' \in [Inputs -> Steps]
  BY <1>1, GotoMoves
<1>5. TypeOK'
  BY <1>3, <1>4 DEF InterruptForReset, TypeOK, database
<1>6. UNCHANGED <<run, sent, late>> /\ pc[i] = "resetting"
  BY DEF InterruptForReset
<1>7. sent'[i] >= late[i]
  BY <1>6 DEF TypeOK, MessageSafe, LateIsNoticed
<1> QED BY <1>1, <1>3, <1>5, <1>6, <1>7, CommandStep

LEMMA DeleteConversationSafe ==
  ASSUME Inv, NEW i \in Inputs, DeleteConversation(i)
  PROVE  Inv'
<1> USE DEF Inv
<1>1. PICK step \in {"reopening", "done"} : Goto(i, step)
  BY DEF DeleteConversation
<1>2. step \in Steps
  BY DEF Steps
<1>3. pc' \in [Inputs -> Steps]
  BY <1>1, <1>2, GotoMoves
<1>4. session' \in Nat /\ sessions' \in Nat /\ revision' \in Nat
  BY DEF DeleteConversation, TypeOK, database
<1>5. TypeOK'
  BY <1>3, <1>4 DEF DeleteConversation, TypeOK, coordinator
<1>6. HandleKept
  BY CoordinatorIdle DEF DeleteConversation
<1>7. UNCHANGED <<run, sent, late>> /\ pc[i] = "deleting"
  BY DEF DeleteConversation
<1>8. sent'[i] >= late[i]
  BY <1>7 DEF TypeOK, MessageSafe, LateIsNoticed
<1> QED BY <1>1, <1>2, <1>5, <1>6, <1>7, <1>8, CommandStep

LEMMA ReopenSessionSafe ==
  ASSUME Inv, NEW i \in Inputs, ReopenSession(i)
  PROVE  Inv'
<1> USE DEF Inv
<1>1. PICK step \in {"opening", "done"} : Goto(i, step)
  BY DEF ReopenSession
<1>2. step \in Steps
  BY DEF Steps
<1>3. pc' \in [Inputs -> Steps]
  BY <1>1, <1>2, GotoMoves
<1>4. BootstrapContext(i) \/ BootstrapFails
  BY DEF ReopenSession
<1>5. /\ run' \in [Inputs -> Locals]
      /\ \A j \in Inputs : j # i => run'[j] = run[j]
      /\ run'[i].gen = run[i].gen
  BY <1>4, ContextIsCopied DEF BootstrapContext, BootstrapFails, TypeOK
<1>6. session' \in Nat /\ sessions' \in Nat /\ revision' \in Nat
  BY <1>4, SessionOpens DEF BootstrapContext, BootstrapFails
<1>7. TypeOK'
  BY <1>3, <1>5, <1>6 DEF ReopenSession, TypeOK, coordinator
<1>8. HandleKept
  BY CoordinatorIdle DEF ReopenSession
<1>9. UNCHANGED <<sent, late>> /\ pc[i] = "reopening"
  BY DEF ReopenSession
<1>10. sent'[i] >= late[i]
  BY <1>9 DEF TypeOK, MessageSafe, LateIsNoticed
<1> QED BY <1>1, <1>2, <1>5, <1>7, <1>8, <1>9, <1>10, CommandStep

LEMMA ReviewSafe ==
  ASSUME Inv, NEW i \in Inputs, Review(i)
  PROVE  Inv'
<1> USE DEF Inv
<1>1. UNCHANGED <<kind, pc, run, sent, late, alone, lock, session, sessions>>
  BY DEF Review, ReviewReads, ReviewWrites, RequestSafetyRestate, coordinator, database
<1>2. review[i] \in Reviews /\ review[i].revision \in Nat /\ revision \in Nat
  BY DEF TypeOK, Reviews
<1>3. CASE ReviewReads(i)
  <2> DEFINE r == [review[i] EXCEPT !.stage = "read",
                                !.revision = RowRevision(review[i].session)]
  <2>1. RowRevision(review[i].session) \in Nat
    BY <1>2 DEF RowRevision
  <2> r \in Reviews
    BY <1>2, <2>1, ReviewAdvances
  <2>2. review' = [review EXCEPT ![i] = r]
    BY <1>3 DEF ReviewReads
  <2>3. TypeOK'
    BY <1>1, <1>3, <2>1, <2>2 DEF ReviewReads, TypeOK, coordinator, database
  <2>4. HandleKept
    BY <1>3, CoordinatorIdle DEF ReviewReads
  <2> QED BY <1>1, <2>3, <2>4, SilentStep DEF Apart
<1>4. CASE ReviewWrites(i)
  <2> DEFINE r == [review[i] EXCEPT !.stage = "restating", !.revision = revision']
  <2>1. revision' \in Nat
    BY <1>2, <1>4 DEF ReviewWrites
  <2>2. review' = [review EXCEPT ![i] = r] \/ review' = [review EXCEPT ![i] = ReviewDone]
    BY <1>4 DEF ReviewWrites
  <2>3. r \in Reviews
    BY <1>2, <2>1, ReviewAdvances
  <2>4. ReviewDone \in Reviews
    BY DEF Reviews, ReviewDone, NoReview
  <2>5. review' \in [Inputs -> Reviews]
    BY <2>2, <2>3, <2>4 DEF TypeOK
  <2>6. TypeOK'
    BY <1>1, <1>4, <2>1, <2>5 DEF ReviewWrites, TypeOK, coordinator
  <2>7. HandleKept
    BY <1>4, CoordinatorIdle DEF ReviewWrites
  <2> QED BY <1>1, <2>6, <2>7, SilentStep DEF Apart
<1>5. CASE RequestSafetyRestate(i)
  <2>1. ReviewDone \in Reviews
    BY DEF Reviews, ReviewDone, NoReview
  <2>2. review' \in [Inputs -> Reviews]
    BY <1>5, <2>1 DEF RequestSafetyRestate, TypeOK
  <2>3. CancelActive("safety_restate") \/ UNCHANGED coordinator
    BY <1>5 DEF RequestSafetyRestate
  <2>4. /\ HandleKept
        /\ handle' \in Handles \cup {NoHandle}
        /\ nextID' \in Nat
        /\ canceled' \in [Inputs -> BOOLEAN]
    BY <2>3, CancelKeeps, CoordinatorIdle DEF Reasons, TypeOK
  <2>5. TypeOK'
    BY <1>1, <1>5, <2>2, <2>4 DEF RequestSafetyRestate, TypeOK, database
  <2> QED BY <1>1, <2>4, <2>5, SilentStep DEF Apart
<1> QED BY <1>3, <1>4, <1>5 DEF Review

-----------------------------------------------------------------------------
(* A message that is handled alone.                                        *)

InRound == Generating \ {"finishing"}
Commanding == {"commanding", "resetting", "deleting", "reopening", "opening"}

\* The goroutine of a message handled alone is the only one that runs.
Solitude ==
  \A i \in Inputs :
    alone[i] /\ pc[i] \notin {"idle", "done"}
    => \A j \in Inputs \ {i} : pc[j] \in {"idle", "done"}

\* Its generation stays the chat's, and only a review that finds nothing sent and
\* nothing restated yet can interrupt it.
Undisturbed(i) ==
  /\ Active(i)
  /\ handle.regen = run[i].regen
  /\ sent[i] = 0 => handle.parts = 0
  /\ handle.reason \in {"none", "safety_restate"}
  /\ handle.reason = "safety_restate" => handle.regen = 0
  /\ canceled[i] => handle.reason = "safety_restate"

LoneReply(i) ==
  alone[i] /\ kind[i] = "chat" /\ ~run[i].failed
  => /\ pc[i] \notin Commanding
     /\ pc[i] \in InRound => Undisturbed(i)
     /\ pc[i] \in {"marking", "pausing", "delaying"} => sent[i] > 0
     /\ pc[i] \in {"finishing", "done"} /\ run[i].then = "dropped" => sent[i] > 0
     /\ pc[i] = "finishing" => run[i].then # "fallback"

LoneInv == Solitude /\ \A i \in Inputs : LoneReply(i)

\* While a goroutine acts, no other one is both alone and running: the step can
\* only disturb what is said of its own message.
LEMMA LoneStep ==
  ASSUME LoneInv, NEW i \in Inputs, pc[i] \notin {"idle", "done"}, Apart(i),
         UNCHANGED <<kind, alone>>, LoneReply(i)'
  PROVE  LoneInv'
<1>1. ASSUME NEW k \in Inputs \ {i}, alone[k]
      PROVE  pc[k] \in {"idle", "done"}
  BY <1>1 DEF LoneInv, Solitude
<1>2. ASSUME NEW k \in Inputs, alone[k]', pc[k]' \notin {"idle", "done"},
             NEW j \in Inputs \ {k}
      PROVE  pc[j]' \in {"idle", "done"}
  <2>1. k = i
    BY <1>1, <1>2 DEF Apart
  <2> QED BY <1>2, <2>1 DEF LoneInv, Solitude, Apart
<1>3. ASSUME NEW k \in Inputs, k # i
      PROVE  LoneReply(k)'
  <2>1. alone[k] => pc[k] \in {"idle", "done"}
    BY <1>1, <1>3
  <2>2. LoneReply(k)
    BY DEF LoneInv
  <2> QED BY <1>3, <2>1, <2>2 DEF LoneReply, Apart, InRound, Generating, Commanding
<1> QED BY <1>2, <1>3 DEF LoneInv, Solitude

LEMMA ArriveLone ==
  ASSUME Inv, LoneInv, NEW i \in Inputs, Arrive(i)
  PROVE  LoneInv'
<1>1. "arrived" \in Steps /\ TypeOK
  BY DEF Steps, Preparing, Inv
<1>2. /\ pc'[i] = "arrived"
      /\ \A j \in Inputs : j # i => pc'[j] = pc[j]
  BY <1>1, GotoMoves DEF Arrive
<1>3. \A k \in Inputs : alone'[k] => /\ alone[k]
                                     /\ k = i => \A j \in Inputs : pc[j] \in {"idle", "done"}
                                     /\ k # i => pc[k] \in {"idle", "done"}
  BY DEF Arrive
<1>4. Solitude'
  BY <1>2, <1>3 DEF Solitude
<1>5. ASSUME NEW k \in Inputs PROVE LoneReply(k)'
  <2>1. LoneReply(k) /\ (k # i => pc'[k] = pc[k])
    BY <1>2 DEF LoneInv
  <2>2. UNCHANGED <<kind, run, sent>>
    BY DEF Arrive
  <2>3. CASE k = i
    BY <1>2, <2>3 DEF LoneReply, InRound, Generating, Commanding
  <2>4. CASE k # i
    BY <1>3, <2>1, <2>2, <2>4 DEF LoneReply, InRound, Generating, Commanding
  <2> QED BY <2>3, <2>4
<1> QED BY <1>4, <1>5 DEF LoneInv

\* A step before the first round or between two: the message has no generation.
LEMMA BetweenRounds ==
  ASSUME LoneInv, NEW i \in Inputs, pc[i] \notin {"idle", "done"}, Apart(i),
         UNCHANGED <<kind, alone>>,
         pc'[i] \notin InRound \cup {"finishing"},
         kind[i] = "chat" => pc'[i] \notin Commanding \cup {"done"}
  PROVE  LoneInv'
<1>1. LoneReply(i)'
  BY DEF LoneReply, InRound, Generating
<1> QED BY <1>1, LoneStep

LEMMA PrepareLone ==
  ASSUME Inv, LoneInv, NEW i \in Inputs, PrepareReply(i)
  PROVE  LoneInv'
<1> USE DEF Inv
<1>1. PICK step \in {"locking", "recording", "beginning", "resetting", "commanding"} :
        /\ Goto(i, step)
        /\ step \in {"resetting", "commanding"} => kind[i] # "chat"
  BY DEF PrepareReply, InterruptForNewInput, Bootstrap, RecordInput, TypeOK, Kinds
<1>2. step \in Steps
  BY DEF Steps, Preparing
<1>3. /\ pc'[i] = step
      /\ \A j \in Inputs : j # i => pc'[j] = pc[j]
  BY <1>1, <1>2, GotoMoves
<1>4. \A j \in Inputs \ {i} : run'[j] = run[j]
  BY DEF PrepareReply, InterruptForNewInput, Bootstrap, BootstrapContext, BootstrapFails,
     RecordInput, WriteFastState, TypeOK
<1>5. UNCHANGED <<kind, sent, late, alone>> /\ pc[i] \in {"arrived", "locking", "recording"}
  BY DEF PrepareReply, InterruptForNewInput, Bootstrap, RecordInput
<1> QED BY <1>1, <1>3, <1>4, <1>5, BetweenRounds DEF Apart, InRound, Generating, Commanding

LEMMA CommandLone ==
  ASSUME Inv, LoneInv, NEW i \in Inputs, RunCommand(i)
  PROVE  LoneInv'
<1> USE DEF Inv
<1>1. PICK step \in {"deleting", "reopening", "opening", "done"} : Goto(i, step)
  BY DEF RunCommand, AnswerCommand, InterruptForReset, DeleteConversation, ReopenSession,
     SendOpening
<1>2. step \in Steps
  BY DEF Steps
<1>3. /\ pc'[i] = step
      /\ \A j \in Inputs : j # i => pc'[j] = pc[j]
  BY <1>1, <1>2, GotoMoves
<1>4. \A j \in Inputs \ {i} : run'[j] = run[j] /\ sent'[j] = sent[j]
  BY DEF RunCommand, AnswerCommand, InterruptForReset, DeleteConversation, ReopenSession,
     SendOpening, BootstrapContext, BootstrapFails, TypeOK
<1>5. /\ UNCHANGED <<kind, late, alone>>
      /\ pc[i] \in Commanding
      /\ \A j \in Inputs : run'[j].failed = run[j].failed
  <2>1. BootstrapContext(i) => \A j \in Inputs : run'[j].failed = run[j].failed
    BY ContextIsCopied
  <2> QED BY <2>1 DEF RunCommand, AnswerCommand, InterruptForReset, DeleteConversation,
             ReopenSession, BootstrapFails, SendOpening, Commanding
<1>6. LoneReply(i)'
  BY <1>5 DEF LoneInv, LoneReply
<1> QED BY <1>3, <1>4, <1>5, <1>6, LoneStep DEF Apart, Commanding

\* The verdict that the end of a round calls for.
LEMMA RetireLone ==
  ASSUME Inv, LoneInv, NEW i \in Inputs, NEW verdict \in Verdicts \ {"fallback"},
         RetireFor(i, verdict), pc[i] \in InRound,
         UNCHANGED <<kind, late, alone>>, \A j \in Inputs \ {i} : sent'[j] = sent[j],
         alone[i] /\ kind[i] = "chat" /\ ~run[i].failed /\ verdict = "dropped" => sent'[i] > 0
  PROVE  LoneInv'
<1>1. /\ run'[i].failed = run[i].failed /\ run'[i].then = verdict
      /\ pc'[i] = "finishing"
      /\ \A j \in Inputs : j # i => run'[j] = run[j] /\ pc'[j] = pc[j]
  BY RetireMoves DEF Inv
<1>2. LoneReply(i)'
  BY <1>1 DEF LoneReply, InRound, Commanding
<1> QED BY <1>1, <1>2, LoneStep DEF Apart, InRound, Generating

LEMMA BeginLone ==
  ASSUME Inv, LoneInv, NEW i \in Inputs, Begin(i)
  PROVE  LoneInv'
<1> USE DEF Inv
<1> DEFINE r == [run[i] EXCEPT !.gen = nextID + 1, !.part = 1]
<1>1. run[i] \in Locals /\ nextID \in Nat
  BY DEF TypeOK
<1>2. /\ r \in Locals
      /\ r.gen = nextID + 1 /\ r.regen = run[i].regen
  <2>1. nextID + 1 \in Nat /\ 1 \in 1..MaxParts
    BY <1>1, SomeParts
  <2> QED BY <1>1, <2>1 DEF Locals
<1>3. /\ run'[i] = r
      /\ \A j \in Inputs : j # i => run'[j] = run[j]
  BY <1>2, LocalsMove DEF Begin
<1>4. /\ pc'[i] = "generating"
      /\ \A j \in Inputs : j # i => pc'[j] = pc[j]
  <2>1. "generating" \in Steps
    BY DEF Steps, Generating
  <2> QED BY <2>1, GotoMoves DEF Begin
<1>5. /\ handle'.id = nextID + 1 /\ handle'.regen = run[i].regen
      /\ handle'.parts = 0 /\ handle'.reason = "none"
      /\ ~canceled'[i]
  BY DEF Begin, TypeOK
<1>6. Undisturbed(i)'
  BY <1>1, <1>2, <1>3, <1>5 DEF Undisturbed, Active
<1>7. UNCHANGED <<kind, sent, late, alone>> /\ pc[i] = "beginning"
  BY DEF Begin
<1>8. LoneReply(i)'
  BY <1>4, <1>6 DEF LoneReply, Commanding
<1> QED BY <1>3, <1>4, <1>7, <1>8, LoneStep DEF Apart

\* A step within a round that leaves its generation as it is.
LEMMA RoundStep ==
  ASSUME Inv, LoneInv, NEW i \in Inputs, pc[i] \in InRound,
         NEW step \in InRound, Goto(i, step),
         UNCHANGED <<kind, run, sent, late, alone>>, UNCHANGED coordinator,
         step \in {"marking", "pausing", "delaying"} => pc[i] \in {"marking", "pausing", "delaying"}
  PROVE  LoneInv'
<1>1. /\ pc'[i] = step
      /\ \A j \in Inputs : j # i => pc'[j] = pc[j]
  BY GotoMoves DEF Inv, InRound, Steps
<1>2. LoneReply(i)
  BY DEF LoneInv
<1>3. LoneReply(i)'
  BY <1>1, <1>2 DEF LoneReply, Undisturbed, Active, coordinator, InRound, Generating, Commanding
<1> QED BY <1>1, <1>3, LoneStep DEF Apart, InRound, Generating

LEMMA GenerateLone ==
  ASSUME Inv, LoneInv, NEW i \in Inputs,
         Generate(i) \/ GenerateInterrupted(i) \/ GenerateFailed(i)
  PROVE  LoneInv'
<1> USE DEF Inv
<1>1. CASE Generate(i)
  BY <1>1, RoundStep DEF Generate, InRound, Generating
<1>2. CASE GenerateInterrupted(i)
  <2>1. alone[i] /\ kind[i] = "chat" /\ ~run[i].failed => RetireFor(i, "reload")
    BY <1>2 DEF GenerateInterrupted, LoneInv, LoneReply, Undisturbed, InterruptReason,
       InRound, Generating
  <2>2. RetireFor(i, "reload") \/ RetireFor(i, "dropped")
    BY <1>2 DEF GenerateInterrupted
  <2>3. {"reload", "dropped"} \subseteq Verdicts \ {"fallback"}
    BY DEF Verdicts
  <2> QED BY <1>2, <2>1, <2>2, <2>3, RetireLone DEF GenerateInterrupted, InRound, Generating
<1>3. CASE GenerateFailed(i)
  <2> DEFINE r == [run[i] EXCEPT !.failed = TRUE, !.then = "fallback"]
  <2>1. run[i] \in Locals
    BY DEF TypeOK
  <2>2. r \in Locals /\ r.failed
    BY <2>1 DEF Locals, Verdicts
  <2>3. run'[i] = r /\ \A j \in Inputs : j # i => run'[j] = run[j]
    BY <1>3, <2>2, LocalsMove DEF GenerateFailed
  <2>4. "finishing" \in Steps /\ Goto(i, "finishing")
    BY <1>3 DEF GenerateFailed, Steps, Generating
  <2>5. \A j \in Inputs : j # i => pc'[j] = pc[j]
    BY <2>4, GotoMoves
  <2>6. LoneReply(i)'
    BY <2>2, <2>3 DEF LoneReply
  <2> QED BY <1>3, <2>3, <2>5, <2>6, LoneStep DEF GenerateFailed, Apart
<1> QED BY <1>1, <1>2, <1>3

LEMMA CheckLone ==
  ASSUME Inv, LoneInv, NEW i \in Inputs, CheckBeforeSend(i)
  PROVE  LoneInv'
<1>1. pc[i] = "checking" /\ UNCHANGED <<kind, sent, late, alone>> /\ UNCHANGED coordinator
  BY DEF CheckBeforeSend
<1>2. CASE Goto(i, "sending") /\ UNCHANGED run
  BY <1>1, <1>2, RoundStep DEF InRound, Generating
<1>3. CASE RetireFor(i, "reload")
  BY <1>1, <1>3, RetireLone DEF InRound, Generating, Verdicts
<1>4. CASE /\ RetireFor(i, "dropped")
           /\ ~(Active(i) /\ handle.reason \in {"none", "reset"})
           /\ ~(Active(i) /\ handle.reason = "safety_restate" /\ MayRestate /\ run[i].regen < 1)
  <2>1. ASSUME alone[i], kind[i] = "chat", ~run[i].failed
        PROVE  sent[i] > 0
    <3>1. Undisturbed(i)
      BY <1>1, <2>1 DEF LoneInv, LoneReply, InRound, Generating
    <3>2. sent[i] \in Nat
      BY DEF Inv, TypeOK
    <3> QED BY <1>4, <3>1, <3>2 DEF Undisturbed, MayRestate
  <2> QED BY <1>1, <1>4, <2>1, RetireLone DEF InRound, Generating, Verdicts
<1> QED BY <1>2, <1>3, <1>4 DEF CheckBeforeSend

LEMMA SendLone ==
  ASSUME Inv, LoneInv, NEW i \in Inputs, SendText(i)
  PROVE  LoneInv'
<1> USE DEF Inv
<1>1. /\ pc[i] = "sending" /\ UNCHANGED <<kind, alone>> /\ UNCHANGED coordinator
      /\ sent[i] \in Nat
  BY DEF SendText, TypeOK
<1>2. CASE RetireFor(i, "broken") /\ UNCHANGED <<sent, late>>
  BY <1>1, <1>2, RetireLone DEF InRound, Generating, Verdicts
<1>3. CASE /\ sent' = [sent EXCEPT ![i] = @ + 1]
           /\ late' = IF Overtaken(i) THEN [late EXCEPT ![i] = @ + 1] ELSE late
           /\ Goto(i, "marking") /\ UNCHANGED run
  <2>1. "marking" \in Steps
    BY DEF Steps, Generating
  <2>2. /\ pc'[i] = "marking" /\ sent'[i] > 0
        /\ \A j \in Inputs \ {i} : pc'[j] = pc[j] /\ sent'[j] = sent[j] /\ late'[j] = late[j]
    BY <1>1, <1>3, <2>1, GotoMoves DEF TypeOK
  <2>3. LoneReply(i)
    BY DEF LoneInv
  <2>4. LoneReply(i)'
    BY <1>1, <1>3, <2>2, <2>3 DEF LoneReply, Undisturbed, Active, coordinator, InRound,
       Generating, Commanding
  <2> QED BY <1>1, <1>3, <2>2, <2>4, LoneStep DEF Apart
<1> QED BY <1>2, <1>3 DEF SendText

LEMMA MarkLone ==
  ASSUME Inv, LoneInv, NEW i \in Inputs, MarkPartSent(i)
  PROVE  LoneInv'
<1> USE DEF Inv
<1>1. pc[i] = "marking" /\ UNCHANGED <<kind, sent, late, alone, canceled>>
  BY DEF MarkPartSent
<1>2. CASE RetireFor(i, "answered")
  BY <1>1, <1>2, RetireLone DEF InRound, Generating, Verdicts
<1>3. CASE /\ run[i].part < MaxParts
           /\ run' = [run EXCEPT ![i].part = @ + 1] /\ Goto(i, "pausing")
  <2> DEFINE r == [run[i] EXCEPT !.part = @ + 1]
  <2>1. run[i] \in Locals
    BY DEF TypeOK
  <2>2. /\ r \in Locals
        /\ r.gen = run[i].gen /\ r.regen = run[i].regen /\ r.failed = run[i].failed
    BY <1>3, <2>1, SomeParts DEF Locals
  <2>3. run'[i] = r /\ \A j \in Inputs : j # i => run'[j] = run[j]
    BY <1>3, <2>2, LocalsMove
  <2>4. "pausing" \in Steps
    BY DEF Steps, Generating
  <2>5. /\ pc'[i] = "pausing"
        /\ \A j \in Inputs : j # i => pc'[j] = pc[j]
    BY <1>3, <2>4, GotoMoves
  <2>6. /\ handle'.id = handle.id /\ handle'.regen = handle.regen
        /\ handle'.reason = handle.reason
    BY DEF MarkPartSent, TypeOK, Handles, NoHandle
  <2>7. LoneReply(i)
    BY DEF LoneInv
  <2>8. LoneReply(i)'
    BY <1>1, <2>2, <2>3, <2>5, <2>6, <2>7 DEF LoneReply, Undisturbed, Active, InRound,
       Generating, Commanding
  <2> QED BY <1>1, <2>3, <2>5, <2>8, LoneStep DEF Apart
<1> QED BY <1>2, <1>3 DEF MarkPartSent

LEMMA PauseLone ==
  ASSUME Inv, LoneInv, NEW i \in Inputs,
         PauseBegins(i) \/ PauseElapsed(i) \/ PauseInterrupted(i)
  PROVE  LoneInv'
<1>1. /\ pc[i] \in {"pausing", "delaying"}
      /\ UNCHANGED <<kind, sent, late, alone>> /\ UNCHANGED coordinator
  BY DEF PauseBegins, PauseElapsed, PauseInterrupted
<1>2. CASE RetireFor(i, "dropped")
  <2>1. alone[i] /\ kind[i] = "chat" /\ ~run[i].failed => sent[i] > 0
    BY <1>1 DEF LoneInv, LoneReply
  <2> QED BY <1>1, <1>2, <2>1, RetireLone DEF InRound, Generating, Verdicts
<1>3. CASE (Goto(i, "delaying") \/ Goto(i, "checking")) /\ UNCHANGED run
  BY <1>1, <1>3, RoundStep DEF InRound, Generating
<1> QED BY <1>2, <1>3 DEF PauseBegins, PauseElapsed, PauseInterrupted

LEMMA FinishLone ==
  ASSUME Inv, LoneInv, NEW i \in Inputs, Finish(i)
  PROVE  LoneInv'
<1> USE DEF Inv
<1> DEFINE r == [NoLocals EXCEPT !.failed = run[i].failed, !.then = run[i].then]
<1>1. run[i] \in Locals /\ run[i].failed \in BOOLEAN /\ run[i].then \in Verdicts
  BY DEF TypeOK, Locals
<1>2. r.failed = run[i].failed /\ r.then = run[i].then /\ r \in Locals
  BY <1>1, LocalsEnd DEF NoLocals
<1>3. PICK step \in {"reloading", "checking", "done"} :
        /\ Goto(i, step)
        /\ \/ step = "reloading" /\ UNCHANGED run
           \/ step = "checking" /\ run[i].then = "fallback" /\ UNCHANGED run
           \/ step = "done" /\ run' = [run EXCEPT ![i] = r]
  BY DEF Finish
<1>4. step \in Steps
  BY DEF Steps, Generating
<1>5. /\ pc'[i] = step
      /\ \A j \in Inputs : j # i => pc'[j] = pc[j]
  BY <1>3, <1>4, GotoMoves
<1>6. /\ run'[i].failed = run[i].failed /\ run'[i].then = run[i].then
      /\ \A j \in Inputs : j # i => run'[j] = run[j]
  <2>1. CASE UNCHANGED run
    BY <2>1
  <2>2. CASE run' = [run EXCEPT ![i] = r]
    <3>1. run'[i] = r /\ \A j \in Inputs : j # i => run'[j] = run[j]
      BY <1>2, <2>2, LocalsMove
    <3> QED BY <1>2, <3>1
  <2> QED BY <1>3, <2>1, <2>2
<1>7. pc[i] = "finishing" /\ UNCHANGED <<kind, sent, late, alone>>
  BY DEF Finish
<1>8. LoneReply(i)
  BY DEF LoneInv
<1>9. LoneReply(i)'
  BY <1>3, <1>5, <1>6, <1>7, <1>8 DEF LoneReply, InRound, Generating, Commanding
<1> QED BY <1>5, <1>6, <1>7, <1>9, LoneStep DEF Apart

LEMMA ReloadLone ==
  ASSUME Inv, LoneInv, NEW i \in Inputs, Reload(i)
  PROVE  LoneInv'
<1>1. "beginning" \in Steps /\ Goto(i, "beginning") /\ TypeOK
  BY DEF Reload, Steps, Inv
<1>2. /\ pc'[i] = "beginning"
      /\ \A j \in Inputs : j # i => pc'[j] = pc[j]
  BY <1>1, GotoMoves
<1>3. \A j \in Inputs \ {i} : run'[j] = run[j]
  BY <1>1 DEF Reload, TypeOK
<1>4. pc[i] = "reloading" /\ UNCHANGED <<kind, sent, late, alone>>
  BY DEF Reload
<1> QED BY <1>2, <1>3, <1>4, BetweenRounds DEF Apart, InRound, Generating, Commanding

\* A review interrupts a reply only to have it generated again, once.
LEMMA ReviewLone ==
  ASSUME Inv, LoneInv, NEW i \in Inputs, Review(i)
  PROVE  LoneInv'
<1> USE DEF Inv
<1>1. UNCHANGED <<kind, pc, run, sent, late, alone>>
  BY DEF Review, ReviewReads, ReviewWrites, RequestSafetyRestate
<1>2. CASE UNCHANGED coordinator
  BY <1>1, <1>2 DEF LoneInv, Solitude, LoneReply, Undisturbed, Active, coordinator
<1>3. CASE CancelActive("safety_restate") /\ MayRestate /\ handle.id # 0
  <2>1. "safety_restate" \in Reasons
    BY DEF Reasons
  <2>2. /\ handle'.id = handle.id /\ handle'.input = handle.input
        /\ handle'.parts = handle.parts /\ handle'.regen = handle.regen
        /\ handle'.reason = "safety_restate"
    BY <1>3, <2>1, CancelMarks
  <2>3. handle.regen = 0
    BY <1>3 DEF MayRestate, TypeOK, Handles, NoHandle
  <2>4. ASSUME NEW k \in Inputs, Undisturbed(k) PROVE Undisturbed(k)'
    BY <1>1, <2>2, <2>3, <2>4 DEF Undisturbed, Active
  <2> QED BY <1>1, <2>4 DEF LoneInv, Solitude, LoneReply
<1> QED BY <1>2, <1>3 DEF Review, ReviewReads, ReviewWrites, RequestSafetyRestate

-----------------------------------------------------------------------------

LEMMA InitSafe == Init => Inv
<1> SUFFICES ASSUME Init PROVE Inv
  OBVIOUS
<1>1. NoLocals \in Locals
  BY SomeParts DEF NoLocals, Locals, Verdicts
<1>2. NoReview \in Reviews
  BY DEF NoReview, Reviews
<1>3. 0 \in 0..N
  BY SomeMessages
<1>4. TypeOK
  BY <1>1, <1>2, <1>3 DEF Init, TypeOK, Steps, Preparing
<1>5. HandleHasOwner
  BY DEF Init, HandleHasOwner, NoHandle
<1>6. ASSUME NEW i \in Inputs
      PROVE  MessageSafe(i)
  BY DEF Init, NoLocals, MessageSafe, RegeneratedOnce, NothingSentYet, SentIsCounted,
     LateIsNoticed
<1> QED BY <1>4, <1>5, <1>6 DEF Inv

LEMMA StutterSafe == Inv /\ UNCHANGED vars => Inv'
<1> SUFFICES ASSUME Inv, UNCHANGED vars PROVE Inv'
  OBVIOUS
<1> USE DEF Inv, vars, coordinator, database
<1>1. TypeOK'
  BY DEF TypeOK
<1>2. HandleHasOwner'
  BY DEF HandleHasOwner
<1>3. ASSUME NEW j \in Inputs PROVE MessageSafe(j)'
  BY DEF MessageSafe, RegeneratedOnce, NothingSentYet, SentIsCounted, LateIsNoticed,
     Active, Overtaken
<1> QED BY <1>1, <1>2, <1>3

LEMMA NextSafe == Inv /\ [Next]_vars => Inv'
<1> SUFFICES ASSUME Inv, Next PROVE Inv'
  BY StutterSafe
<1>1. PICK i \in Inputs : Arrive(i) \/ HandleMessage(i) \/ Review(i)
  BY DEF Next
<1>2. CASE PrepareReply(i)
  BY <1>2, InterruptForNewInputSafe, BootstrapSafe, RecordInputSafe DEF PrepareReply
<1>3. CASE GenerateReply(i)
  BY <1>3, BeginSafe, GenerateSafe, GenerateInterruptedSafe, GenerateFailedSafe,
     CheckBeforeSendSafe, SendTextSafe, MarkPartSentSafe, PauseBeginsSafe,
     PauseElapsedSafe, PauseInterruptedSafe, FinishSafe, ReloadSafe
  DEF GenerateReply
<1>4. CASE RunCommand(i)
  BY <1>4, AnswerSafe, InterruptForResetSafe, DeleteConversationSafe, ReopenSessionSafe
  DEF RunCommand
<1> QED BY <1>1, <1>2, <1>3, <1>4, ArriveSafe, ReviewSafe DEF HandleMessage

LEMMA Invariance == Spec => []Inv
<1> QED BY InitSafe, NextSafe, PTL DEF Spec

LEMMA LoneInit == Init => LoneInv
BY DEF Init, LoneInv, Solitude, LoneReply, InRound, Generating, Commanding

LEMMA LoneNext == Inv /\ LoneInv /\ [Next]_vars => LoneInv'
<1> SUFFICES ASSUME Inv, LoneInv, [Next]_vars PROVE LoneInv'
  OBVIOUS
<1>1. CASE UNCHANGED vars
  BY <1>1 DEF LoneInv, Solitude, LoneReply, Undisturbed, Active, vars, coordinator
<1>2. CASE Next
  <2>1. PICK i \in Inputs : Arrive(i) \/ HandleMessage(i) \/ Review(i)
    BY <1>2 DEF Next
  <2>2. CASE GenerateReply(i)
    BY <2>2, BeginLone, GenerateLone, CheckLone, SendLone, MarkLone, PauseLone, FinishLone,
       ReloadLone DEF GenerateReply
  <2> QED BY <2>1, <2>2, ArriveLone, PrepareLone, CommandLone, ReviewLone DEF HandleMessage
<1> QED BY <1>1, <1>2

LEMMA LoneInvariance == Spec => []LoneInv
<1> QED BY Invariance, LoneInit, LoneNext, PTL DEF Spec

-----------------------------------------------------------------------------

\* Every reachable state of the pipeline is well typed.
THEOREM ReplyTypes == Spec => []TypeOK
<1>1. Inv => TypeOK
  BY DEF Inv
<1> QED BY <1>1, Invariance, PTL

\* The handle always belongs to the newest generation and to a goroutine that
\* is still running it: Finish leaves none behind and takes nobody else's.
THEOREM HandlesAreOwned == Spec => []HandleHasOwner
<1>1. Inv => HandleHasOwner
  BY DEF Inv
<1> QED BY <1>1, Invariance, PTL

\* No restate, fallback or retry starts a reply over after the user has seen
\* a part of it.
THEOREM RepliesStartOnce == Spec => []NoRestartAfterFirstPart
<1>1. Inv => NoRestartAfterFirstPart
  BY DEF Inv, MessageSafe, NothingSentYet, NoRestartAfterFirstPart
<1> QED BY <1>1, Invariance, PTL

\* Whatever overtakes a reply, at most one more part of it is delivered.
THEOREM OneLatePart == Spec => []AtMostOneLatePart
<1>1. Inv => AtMostOneLatePart
  BY DEF Inv, MessageSafe, LateIsNoticed, AtMostOneLatePart
<1> QED BY <1>1, Invariance, PTL

\* However many reviews ask for a restate, a message that is handled alone gets
\* the reply its model produced and Telegram accepted.
THEOREM LoneMessagesAnswered == Spec => []SilentOnlyWithRival
<1>1. LoneInv => SilentOnlyWithRival
  BY DEF LoneInv, LoneReply, SilentOnlyWithRival
<1> QED BY <1>1, LoneInvariance, PTL

-----------------------------------------------------------------------------
(* One floor for each chat: the pipeline implements ChatFloor.              *)

\* The part being handled is the one after those delivered; a command has
\* delivered nothing until it ends.
PartsInOrder(i) ==
  /\ pc[i] \in Commanding => sent[i] = 0
  /\ \/ pc[i] \in {"generating", "checking", "sending", "pausing", "delaying"}
     \/ pc[i] = "finishing" /\ run[i].then = "fallback"
     => sent[i] + 1 = run[i].part
  /\ pc[i] = "marking" => sent[i] = run[i].part

\* No two messages run the generation that has the handle.
OneHolder == \A i \in Inputs : Active(i) => handle.input = i

FloorInv == OneHolder /\ \A i \in Inputs : PartsInOrder(i)

Sending(i) == pc[i] = "sending"

\* A step of message i that leaves the handle whose it is moves no other message,
\* and i in or out of the sets by what becomes of it.
LEMMA FloorStep ==
  ASSUME Inv, FloorInv, NEW i \in Inputs, Apart(i), HandleKept,
         run'[i].gen \in {run[i].gen, 0}, PartsInOrder(i)'
  PROVE  /\ FloorInv' /\ Speaker' = Speaker
         /\ Cleared' = (Cleared \ {i}) \cup {j \in {i} : Sending(j)'}
         /\ Over' = (Over \ {i}) \cup {j \in {i} : Settled(j)'}
<1>1. \A j \in Inputs \ {i} : PartsInOrder(j)' /\ (Sending(j)' <=> Sending(j))
                              /\ (Settled(j)' <=> Settled(j))
  BY DEF FloorInv, PartsInOrder, Apart, Settled, Sending
<1>2. \A j \in Inputs : run'[j].gen \in {run[j].gen, 0}
  BY DEF Apart
<1>3. OneHolder'
  BY <1>2 DEF FloorInv, OneHolder, Active, HandleKept
<1>4. Speaker' = Speaker
  BY DEF Speaker, HandleKept
<1> QED BY <1>1, <1>3, <1>4 DEF FloorInv, Cleared, Over, Sending

\* A step that is not seen on the floor.
LEMMA Unseen ==
  ASSUME Inv, FloorInv, NEW i \in Inputs, Apart(i), HandleKept, UNCHANGED sent,
         run'[i].gen \in {run[i].gen, 0}, PartsInOrder(i)',
         Sending(i)' <=> Sending(i), Settled(i)' <=> Settled(i)
  PROVE  FloorInv' /\ UNCHANGED Floor!vars
<1>1. /\ FloorInv' /\ Speaker' = Speaker
      /\ Cleared' = (Cleared \ {i}) \cup {j \in {i} : Sending(j)'}
      /\ Over' = (Over \ {i}) \cup {j \in {i} : Settled(j)'}
  BY FloorStep
<1>2. Cleared' = Cleared /\ Over' = Over
  BY <1>1 DEF Cleared, Over, Sending
<1> QED BY <1>1, <1>2 DEF Floor!vars

\* A step by which a message is over.
LEMMA Ends ==
  ASSUME Inv, FloorInv, NEW i \in Inputs, Apart(i), HandleKept, UNCHANGED sent,
         run'[i].gen \in {run[i].gen, 0}, PartsInOrder(i)',
         ~Sending(i), ~Sending(i)', ~Settled(i), Settled(i)'
  PROVE  FloorInv' /\ Floor!End(i)
<1>1. /\ FloorInv' /\ Speaker' = Speaker
      /\ Cleared' = (Cleared \ {i}) \cup {j \in {i} : Sending(j)'}
      /\ Over' = (Over \ {i}) \cup {j \in {i} : Settled(j)'}
  BY FloorStep
<1>2. Cleared' = Cleared /\ Over' = Over \cup {i} /\ i \notin Cleared \cup Over
  BY <1>1 DEF Cleared, Over, Sending
<1> QED BY <1>1, <1>2 DEF Floor!End, Floor!Idle

\* What the floor shows of a step of message i.
OnTheFloor(i) ==
  FloorInv' /\ (UNCHANGED Floor!vars \/ \E j \in Inputs :
    \/ Floor!TakeFloor(j) \/ Floor!LetThrough(j) \/ Floor!Deliver(j) \/ Floor!BreakOff(j)
    \/ Floor!End(j) \/ Floor!LeaveFloor(j) \/ Floor!AnswerAside(j))

LEMMA PrepareFloor ==
  ASSUME Inv, FloorInv, NEW i \in Inputs, Arrive(i) \/ PrepareReply(i)
  PROVE  OnTheFloor(i)
<1> USE DEF Inv
<1>1. CASE Arrive(i)
  <2>1. "arrived" \in Steps
    BY DEF Steps, Preparing
  <2>2. pc'[i] = "arrived" /\ \A j \in Inputs : j # i => pc'[j] = pc[j]
    BY <1>1, <2>1, GotoMoves DEF Arrive
  <2>3. HandleKept
    BY <1>1, CoordinatorIdle DEF Arrive
  <2> QED BY <1>1, <2>2, <2>3, Unseen DEF Arrive, Apart, OnTheFloor, PartsInOrder, Sending,
          Settled, Commanding
<1>2. CASE InterruptForNewInput(i)
  <2>1. PICK step \in {"locking", "resetting", "commanding"} : Goto(i, step)
    BY <1>2 DEF InterruptForNewInput, TypeOK, Kinds
  <2>2. step \in Steps
    BY DEF Steps, Preparing
  <2>3. pc'[i] = step /\ \A j \in Inputs : j # i => pc'[j] = pc[j]
    BY <2>1, <2>2, GotoMoves
  <2>4. HandleKept
    BY <1>2, CancelKeeps DEF InterruptForNewInput, Reasons
  <2>5. sent[i] = 0
    BY <1>2 DEF InterruptForNewInput, MessageSafe, NothingSentYet, Preparing
  <2> QED BY <1>2, <2>3, <2>4, <2>5, Unseen DEF InterruptForNewInput, Apart, OnTheFloor,
          PartsInOrder, Sending, Settled, Commanding
<1>3. CASE Bootstrap(i)
  <2>1. PICK step \in {"recording", "beginning"} : Goto(i, step)
    BY <1>3 DEF Bootstrap
  <2>2. step \in Steps
    BY DEF Steps, Preparing
  <2>3. pc'[i] = step /\ \A j \in Inputs : j # i => pc'[j] = pc[j]
    BY <2>1, <2>2, GotoMoves
  <2>4. HandleKept
    BY <1>3, CoordinatorIdle DEF Bootstrap
  <2>5. /\ \A j \in Inputs : j # i => run'[j] = run[j]
        /\ run'[i].gen = run[i].gen
    BY <1>3, ContextIsCopied DEF Bootstrap, BootstrapContext, BootstrapFails, TypeOK
  <2> QED BY <1>3, <2>3, <2>4, <2>5, Unseen DEF Bootstrap, Apart, OnTheFloor,
          PartsInOrder, Sending, Settled, Commanding
<1>4. CASE RecordInput(i)
  <2>1. "beginning" \in Steps
    BY DEF Steps
  <2>2. pc'[i] = "beginning" /\ \A j \in Inputs : j # i => pc'[j] = pc[j]
    BY <1>4, <2>1, GotoMoves DEF RecordInput
  <2>3. HandleKept
    BY <1>4, CoordinatorIdle DEF RecordInput
  <2>4. /\ \A j \in Inputs : j # i => run'[j] = run[j]
        /\ run'[i].gen = run[i].gen
    <3>1. run'[i].gen = run[i].gen
      BY <1>4, FastStateIsWritten DEF RecordInput
    <3>2. \A j \in Inputs : j # i => run'[j] = run[j]
      BY <1>4 DEF RecordInput, WriteFastState, TypeOK
    <3> QED BY <3>1, <3>2
  <2> QED BY <1>4, <2>2, <2>3, <2>4, Unseen DEF RecordInput, Apart, OnTheFloor,
          PartsInOrder, Sending, Settled, Commanding
<1> QED BY <1>1, <1>2, <1>3, <1>4 DEF PrepareReply

\* Commands say nothing, or end with one message.
LEMMA CommandFloor ==
  ASSUME Inv, FloorInv, NEW i \in Inputs, RunCommand(i)
  PROVE  OnTheFloor(i)
<1> USE DEF Inv
<1>1. /\ sent[i] = 0 /\ ~Sending(i) /\ ~Settled(i) /\ pc[i] \notin Generating
      /\ sent \in [Inputs -> Nat]
  BY DEF RunCommand, AnswerCommand, InterruptForReset, DeleteConversation, ReopenSession,
     SendOpening, FloorInv, PartsInOrder, Commanding, Sending, Settled, Generating, TypeOK
<1>2. PICK step \in {"done", "deleting", "reopening", "opening"} : Goto(i, step)
  BY DEF RunCommand, AnswerCommand, InterruptForReset, DeleteConversation, ReopenSession,
     SendOpening
<1>3. pc'[i] = step /\ \A j \in Inputs : j # i => pc'[j] = pc[j]
  BY <1>2, GotoMoves DEF Steps
<1>4. ~Sending(i)' /\ (Settled(i)' <=> step = "done")
  BY <1>3 DEF Sending, Settled
<1>5. HandleKept
  <2>1. CASE InterruptForReset(i)
    BY <2>1, CancelKeeps DEF InterruptForReset, Reasons
  <2>2. CASE ~InterruptForReset(i)
    BY <2>2, CoordinatorIdle DEF RunCommand, AnswerCommand, DeleteConversation, ReopenSession,
       SendOpening
  <2> QED BY <2>1, <2>2
<1>6. /\ \A j \in Inputs : j # i => run'[j] = run[j]
      /\ run'[i].gen = run[i].gen
  <2>1. CASE ReopenSession(i)
    BY <2>1, ContextIsCopied DEF ReopenSession, BootstrapContext, BootstrapFails, TypeOK
  <2>2. CASE ~ReopenSession(i)
    BY <2>2 DEF RunCommand, AnswerCommand, InterruptForReset, DeleteConversation, SendOpening
  <2> QED BY <2>1, <2>2
<1>7. /\ UNCHANGED late
      /\ \/ sent' = [sent EXCEPT ![i] = 1] /\ step = "done"
         \/ UNCHANGED sent
  <2>1. CASE AnswerCommand(i) \/ SendOpening(i)
    <3>1. Goto(i, "done")
      BY <2>1 DEF AnswerCommand, SendOpening
    <3>2. step = "done"
      BY <1>3, <3>1, GotoMoves DEF Steps
    <3> QED BY <2>1, <3>2 DEF AnswerCommand, SendOpening
  <2>2. CASE InterruptForReset(i) \/ DeleteConversation(i) \/ ReopenSession(i)
    BY <2>2 DEF InterruptForReset, DeleteConversation, ReopenSession
  <2> QED BY <2>1, <2>2 DEF RunCommand
<1>8. Apart(i)
  BY <1>1, <1>3, <1>6, <1>7 DEF Apart
<1>9. CASE UNCHANGED sent
  <2>1. PartsInOrder(i)'
    BY <1>1, <1>3, <1>9 DEF PartsInOrder, Commanding
  <2>2. CASE step = "done"
    BY <1>1, <1>4, <1>5, <1>6, <1>8, <1>9, <2>1, <2>2, Ends DEF OnTheFloor
  <2>3. CASE step # "done"
    BY <1>1, <1>4, <1>5, <1>6, <1>8, <1>9, <2>1, <2>3, Unseen DEF OnTheFloor
  <2> QED BY <2>2, <2>3
<1>10. CASE sent' = [sent EXCEPT ![i] = 1] /\ step = "done"
  <2>1. PartsInOrder(i)'
    BY <1>3, <1>10 DEF PartsInOrder, Commanding
  <2>2. /\ FloorInv' /\ Speaker' = Speaker
        /\ Cleared' = (Cleared \ {i}) \cup {j \in {i} : Sending(j)'}
        /\ Over' = (Over \ {i}) \cup {j \in {i} : Settled(j)'}
    BY <1>5, <1>6, <1>8, <2>1, FloorStep
  <2>3. Cleared' = Cleared /\ Over' = Over \cup {i} /\ i \notin Cleared \cup Over
    BY <1>1, <1>4, <1>10, <2>2 DEF Cleared, Over, Sending
  <2>4. Speaker # i
    BY <1>1 DEF HandleHasOwner, Speaker, Inputs
  <2>5. Floor!AnswerAside(i)
    BY <1>1, <1>10, <2>2, <2>3, <2>4 DEF Floor!AnswerAside, Floor!Idle
  <2> QED BY <2>2, <2>5 DEF OnTheFloor
<1> QED BY <1>7, <1>9, <1>10

\* A handler that retires its generation has settled on the end of its reply, or
\* is about to begin it again or to send the fallback text.
LEMMA RetireFloor ==
  ASSUME Inv, FloorInv, NEW i \in Inputs, HandleKept, UNCHANGED <<sent, late>>,
         NEW verdict \in {"reload", "answered", "dropped", "broken"},
         RetireFor(i, verdict), ~Sending(i), ~Settled(i)
  PROVE  OnTheFloor(i)
<1> USE DEF Inv
<1>1. /\ run'[i].gen = run[i].gen /\ run'[i].then = verdict
      /\ pc'[i] = "finishing"
      /\ \A j \in Inputs : j # i => run'[j] = run[j] /\ pc'[j] = pc[j]
  BY RetireMoves DEF Verdicts
<1>2. Apart(i) /\ PartsInOrder(i)' /\ ~Sending(i)'
  BY <1>1 DEF Apart, PartsInOrder, Commanding, Sending
<1>3. CASE verdict = "reload"
  BY <1>1, <1>2, <1>3, Unseen DEF Settled, OnTheFloor
<1>4. CASE verdict # "reload"
  BY <1>1, <1>2, <1>4, Ends DEF Settled, OnTheFloor
<1> QED BY <1>3, <1>4

LEMMA BeginFloor ==
  ASSUME Inv, FloorInv, NEW i \in Inputs, Begin(i)
  PROVE  OnTheFloor(i)
<1> USE DEF Inv
<1> DEFINE r == [run[i] EXCEPT !.gen = nextID + 1, !.part = 1]
<1>1. run[i] \in Locals /\ nextID \in Nat /\ pc[i] = "beginning" /\ run' = [run EXCEPT ![i] = r]
  BY DEF TypeOK, Begin
<1>2. r \in Locals /\ r.gen = nextID + 1 /\ r.part = 1
  <2>1. nextID + 1 \in Nat /\ 1 \in 1..MaxParts
    BY <1>1, SomeParts
  <2> QED BY <1>1, <2>1 DEF Locals
<1>3. run'[i] = r /\ \A j \in Inputs : j # i => run'[j] = run[j]
  BY <1>1, <1>2, LocalsMove
<1>4. pc'[i] = "generating" /\ \A j \in Inputs : j # i => pc'[j] = pc[j]
  BY GotoMoves DEF Begin, Steps, Generating
<1>5. handle'.id = nextID + 1 /\ handle'.input = i /\ UNCHANGED <<sent, late>>
  BY DEF Begin
<1>6. sent[i] = 0
  BY <1>1 DEF MessageSafe, NothingSentYet
<1>7. ASSUME NEW j \in Inputs, j # i
      PROVE  PartsInOrder(j)' /\ ~Active(j)'
  <2>1. run[j].gen <= nextID /\ run[j].gen \in Nat
    BY DEF MessageSafe, TypeOK, Locals
  <2>2. ~Active(j)'
    BY <1>1, <1>3, <1>5, <1>7, <2>1 DEF Active
  <2> QED BY <1>3, <1>4, <1>5, <1>7, <2>2 DEF FloorInv, PartsInOrder
<1>8. PartsInOrder(i)'
  BY <1>2, <1>3, <1>4, <1>5, <1>6 DEF PartsInOrder, Commanding
<1>9. FloorInv'
  BY <1>5, <1>7, <1>8 DEF FloorInv, OneHolder
<1>10. Speaker' = i
  BY <1>1, <1>5 DEF Speaker
<1>11. Cleared' = Cleared /\ Over' = Over /\ i \notin Cleared \cup Over
  BY <1>1, <1>3, <1>4 DEF Cleared, Over, Settled
<1>12. Floor!TakeFloor(i)
  BY <1>5, <1>6, <1>10, <1>11 DEF Floor!TakeFloor, Floor!Idle
<1> QED BY <1>9, <1>12 DEF OnTheFloor

LEMMA GenerateFloor ==
  ASSUME Inv, FloorInv, NEW i \in Inputs,
         Generate(i) \/ GenerateInterrupted(i) \/ GenerateFailed(i)
  PROVE  OnTheFloor(i)
<1> USE DEF Inv
<1>1. /\ pc[i] = "generating" /\ ~Sending(i) /\ ~Settled(i) /\ HandleKept
      /\ UNCHANGED <<sent, late>>
  BY CoordinatorIdle DEF Generate, GenerateInterrupted, GenerateFailed, Sending, Settled
<1>2. CASE Generate(i)
  <2>1. pc'[i] = "checking" /\ \A j \in Inputs : j # i => pc'[j] = pc[j]
    BY <1>2, GotoMoves DEF Generate, Steps, Generating
  <2>2. UNCHANGED run
    BY <1>2 DEF Generate
  <2>3. PartsInOrder(i)'
    BY <1>1, <2>1, <2>2 DEF FloorInv, PartsInOrder, Commanding
  <2> QED BY <1>1, <2>1, <2>2, <2>3, Unseen DEF Apart, Sending, Settled, OnTheFloor
<1>3. CASE GenerateInterrupted(i)
  <2>1. RetireFor(i, "reload") \/ RetireFor(i, "dropped")
    BY <1>3 DEF GenerateInterrupted
  <2> QED BY <1>1, <2>1, RetireFloor
<1>4. CASE GenerateFailed(i)
  <2> DEFINE r == [run[i] EXCEPT !.failed = TRUE, !.then = "fallback"]
  <2>1. run[i] \in Locals
    BY DEF TypeOK
  <2>2. r \in Locals /\ r.gen = run[i].gen /\ r.then = "fallback" /\ r.part = run[i].part
    BY <2>1 DEF Locals, Verdicts
  <2>3. run' = [run EXCEPT ![i] = r]
    BY <1>4 DEF GenerateFailed
  <2>4. run'[i] = r /\ \A j \in Inputs : j # i => run'[j] = run[j]
    BY <2>2, <2>3, LocalsMove
  <2>5. pc'[i] = "finishing" /\ \A j \in Inputs : j # i => pc'[j] = pc[j]
    BY <1>4, GotoMoves DEF GenerateFailed, Steps, Generating
  <2>6. PartsInOrder(i)'
    BY <1>1, <2>2, <2>4, <2>5 DEF FloorInv, PartsInOrder, Commanding
  <2> QED BY <1>1, <2>2, <2>4, <2>5, <2>6, Unseen DEF Apart, Sending, Settled, OnTheFloor
<1> QED BY <1>2, <1>3, <1>4

LEMMA SendFloor ==
  ASSUME Inv, FloorInv, NEW i \in Inputs, CheckBeforeSend(i) \/ SendText(i)
  PROVE  OnTheFloor(i)
<1> USE DEF Inv
<1>1. HandleKept /\ run[i].part \in 1..MaxParts /\ sent \in [Inputs -> Nat]
  BY CoordinatorIdle DEF CheckBeforeSend, SendText, TypeOK, Locals
<1>2. CASE CheckBeforeSend(i) /\ Goto(i, "sending") /\ UNCHANGED run /\ Active(i)
  <2>1. pc'[i] = "sending" /\ \A j \in Inputs : j # i => pc'[j] = pc[j]
    BY <1>2, GotoMoves DEF Steps, Generating
  <2>2. pc[i] = "checking" /\ UNCHANGED <<sent, late>>
    BY <1>2 DEF CheckBeforeSend
  <2>3. PartsInOrder(i)' /\ sent[i] + 1 = run[i].part
    BY <1>2, <2>1, <2>2 DEF FloorInv, PartsInOrder, Commanding
  <2>4. /\ FloorInv' /\ Speaker' = Speaker
        /\ Cleared' = (Cleared \ {i}) \cup {j \in {i} : Sending(j)'}
        /\ Over' = (Over \ {i}) \cup {j \in {i} : Settled(j)'}
    BY <1>1, <1>2, <2>1, <2>2, <2>3, FloorStep DEF Apart
  <2>5. Cleared' = Cleared \cup {i} /\ Over' = Over /\ i \notin Cleared \cup Over
    BY <2>1, <2>2, <2>4 DEF Cleared, Over, Sending, Settled
  <2>6. Speaker = i
    BY <1>2 DEF Speaker, Active, FloorInv, OneHolder
  <2>7. sent[i] < MaxParts
    BY <1>1, <2>3, SomeParts
  <2>8. Floor!LetThrough(i)
    BY <2>2, <2>4, <2>5, <2>6, <2>7 DEF Floor!LetThrough, Floor!Idle
  <2> QED BY <2>4, <2>8 DEF OnTheFloor
<1>3. CASE CheckBeforeSend(i) /\ \E v \in {"reload", "dropped"} : RetireFor(i, v)
  <2>1. ~Sending(i) /\ ~Settled(i) /\ UNCHANGED <<sent, late>>
    BY <1>3 DEF CheckBeforeSend, Sending, Settled
  <2> QED BY <1>1, <1>3, <2>1, RetireFloor
<1>4. CASE SendText(i)
  <2>1. pc[i] = "sending" /\ i \in Cleared /\ i \notin Over
    BY <1>4 DEF SendText, Cleared, Over, Settled
  <2>2. CASE RetireFor(i, "broken") /\ UNCHANGED <<sent, late>>
    <3>1. /\ run'[i].gen = run[i].gen /\ run'[i].then = "broken"
          /\ pc'[i] = "finishing"
          /\ \A j \in Inputs : j # i => run'[j] = run[j] /\ pc'[j] = pc[j]
      BY <2>2, RetireMoves DEF Verdicts
    <3>2. Apart(i) /\ PartsInOrder(i)'
      BY <2>2, <3>1 DEF Apart, PartsInOrder, Commanding
    <3>3. /\ FloorInv' /\ Speaker' = Speaker
          /\ Cleared' = (Cleared \ {i}) \cup {j \in {i} : Sending(j)'}
          /\ Over' = (Over \ {i}) \cup {j \in {i} : Settled(j)'}
      BY <1>1, <3>1, <3>2, FloorStep
    <3>4. Cleared' = Cleared \ {i} /\ Over' = Over \cup {i}
      BY <3>1, <3>3 DEF Sending, Settled
    <3> QED BY <2>1, <2>2, <3>3, <3>4 DEF Floor!BreakOff, OnTheFloor
  <2>3. CASE /\ sent' = [sent EXCEPT ![i] = @ + 1]
             /\ late' = IF Overtaken(i) THEN [late EXCEPT ![i] = @ + 1] ELSE late
             /\ Goto(i, "marking")
             /\ UNCHANGED run
    <3>1. pc'[i] = "marking" /\ \A j \in Inputs : j # i => pc'[j] = pc[j]
      BY <2>3, GotoMoves DEF Steps, Generating
    <3>2. Apart(i)
      BY <1>1, <2>3, <3>1 DEF Apart, TypeOK
    <3>3. PartsInOrder(i)'
      BY <1>1, <2>1, <2>3, <3>1 DEF FloorInv, PartsInOrder, Commanding
    <3>4. /\ FloorInv' /\ Speaker' = Speaker
          /\ Cleared' = (Cleared \ {i}) \cup {j \in {i} : Sending(j)'}
          /\ Over' = (Over \ {i}) \cup {j \in {i} : Settled(j)'}
      BY <1>1, <2>3, <3>2, <3>3, FloorStep
    <3>5. Cleared' = Cleared \ {i} /\ Over' = Over
      BY <2>1, <3>1, <3>4 DEF Sending, Settled
    <3> QED BY <2>1, <2>3, <3>4, <3>5 DEF Floor!Deliver, OnTheFloor
  <2> QED BY <1>4, <2>2, <2>3 DEF SendText
<1> QED BY <1>2, <1>3, <1>4 DEF CheckBeforeSend

LEMMA MarkFloor ==
  ASSUME Inv, FloorInv, NEW i \in Inputs, MarkPartSent(i)
  PROVE  OnTheFloor(i)
<1> USE DEF Inv
<1>1. run[i] \in Locals /\ handle.parts \in Nat
  BY DEF TypeOK, Handles, NoHandle
<1>2. HandleKept
  <2>1. handle'.id = handle.id /\ handle'.input = handle.input /\ handle'.parts >= handle.parts
    <3>1. CASE Active(i)
      <4>1. handle \in Handles
        BY <3>1 DEF TypeOK, Active, NoHandle
      <4>2. handle' = [handle EXCEPT !.parts = @ + 1]
        BY <3>1 DEF MarkPartSent
      <4> QED BY <1>1, <4>1, <4>2 DEF Handles
    <3>2. CASE ~Active(i)
      BY <1>1, <3>2 DEF MarkPartSent
    <3> QED BY <3>1, <3>2
  <2> QED BY <2>1 DEF MarkPartSent, HandleKept
<1>3. ~Sending(i) /\ ~Settled(i) /\ pc[i] = "marking" /\ UNCHANGED <<sent, late>>
  BY DEF MarkPartSent, Sending, Settled
<1>4. CASE RetireFor(i, "answered")
  BY <1>2, <1>3, <1>4, RetireFloor
<1>5. CASE /\ run[i].part < MaxParts
           /\ run' = [run EXCEPT ![i].part = @ + 1]
           /\ Goto(i, "pausing")
  <2> DEFINE r == [run[i] EXCEPT !.part = @ + 1]
  <2>1. run[i].part \in 1..MaxParts
    BY <1>1 DEF Locals
  <2>2. run[i].part + 1 \in 1..MaxParts
    BY <1>5, <2>1, SomeParts
  <2>3. r \in Locals /\ r.gen = run[i].gen /\ r.part = run[i].part + 1
    BY <1>1, <2>2 DEF Locals
  <2>4. run'[i] = r /\ \A j \in Inputs : j # i => run'[j] = run[j]
    BY <1>5, <2>3, LocalsMove
  <2>5. pc'[i] = "pausing" /\ \A j \in Inputs : j # i => pc'[j] = pc[j]
    BY <1>5, GotoMoves DEF Steps, Generating
  <2>6. PartsInOrder(i)'
    BY <1>3, <2>3, <2>4, <2>5 DEF FloorInv, PartsInOrder, Commanding
  <2> QED BY <1>2, <1>3, <2>3, <2>4, <2>5, <2>6, Unseen DEF Apart, Sending, Settled, OnTheFloor
<1> QED BY <1>4, <1>5 DEF MarkPartSent

LEMMA PauseFloor ==
  ASSUME Inv, FloorInv, NEW i \in Inputs,
         PauseBegins(i) \/ PauseElapsed(i) \/ PauseInterrupted(i)
  PROVE  OnTheFloor(i)
<1> USE DEF Inv
<1>1. /\ pc[i] \in {"pausing", "delaying"} /\ ~Sending(i) /\ ~Settled(i) /\ HandleKept
      /\ UNCHANGED <<sent, late>>
  BY CoordinatorIdle DEF PauseBegins, PauseElapsed, PauseInterrupted, Sending, Settled
<1>2. CASE RetireFor(i, "dropped")
  BY <1>1, <1>2, RetireFloor
<1>3. CASE UNCHANGED run /\ \E step \in {"delaying", "checking"} : Goto(i, step)
  <2>1. PICK step \in {"delaying", "checking"} : Goto(i, step)
    BY <1>3
  <2>2. pc'[i] = step /\ \A j \in Inputs : j # i => pc'[j] = pc[j]
    BY <2>1, GotoMoves DEF Steps, Generating
  <2>3. PartsInOrder(i)'
    BY <1>1, <1>3, <2>2 DEF FloorInv, PartsInOrder, Commanding
  <2> QED BY <1>1, <1>3, <2>2, <2>3, Unseen DEF Apart, Sending, Settled, OnTheFloor
<1> QED BY <1>2, <1>3 DEF PauseBegins, PauseElapsed, PauseInterrupted

LEMMA FinishFloor ==
  ASSUME Inv, FloorInv, NEW i \in Inputs, Finish(i)
  PROVE  OnTheFloor(i)
<1> USE DEF Inv
<1> DEFINE r == [NoLocals EXCEPT !.failed = run[i].failed, !.then = run[i].then]
<1>1. pc[i] = "finishing" /\ UNCHANGED <<sent, late>> /\ ~Sending(i)
  BY DEF Finish, Sending
<1>2. r \in Locals /\ r.gen = 0
  <2>1. run[i].failed \in BOOLEAN /\ run[i].then \in Verdicts
    BY DEF TypeOK, Locals
  <2> QED BY <2>1, LocalsEnd
<1>3. PICK step \in {"reloading", "checking", "done"} :
        /\ Goto(i, step)
        /\ \/ step = "reloading" /\ run[i].then = "reload" /\ UNCHANGED run
           \/ step = "checking" /\ run[i].then = "fallback" /\ UNCHANGED run
           \/ /\ step = "done" /\ run' = [run EXCEPT ![i] = r]
              /\ run[i].then \in {"answered", "dropped", "broken"}
  BY DEF Finish
<1>4. pc'[i] = step /\ \A j \in Inputs : j # i => pc'[j] = pc[j]
  BY <1>3, GotoMoves DEF Steps, Generating
<1>5. /\ \A j \in Inputs : j # i => run'[j] = run[j]
      /\ step # "done" => run'[i] = run[i]
      /\ run'[i].gen \in {run[i].gen, 0}
  BY <1>2, <1>3, LocalsMove
<1>6. Apart(i) /\ ~Sending(i)' /\ (Settled(i)' <=> Settled(i))
  BY <1>1, <1>3, <1>4, <1>5 DEF Apart, Sending, Settled
<1>7. PartsInOrder(i)'
  BY <1>1, <1>3, <1>4, <1>5 DEF FloorInv, PartsInOrder, Commanding
<1>8. CASE ~Active(i)
  <2>1. HandleKept
    BY <1>8 DEF Finish, HandleKept, TypeOK, Handles, NoHandle
  <2> QED BY <1>1, <1>5, <1>6, <1>7, <2>1, Unseen DEF OnTheFloor
<1>9. CASE Active(i)
  <2>1. handle' = NoHandle /\ handle'.id = 0
    BY <1>9 DEF Finish, NoHandle
  <2>2. Speaker' = 0 /\ Speaker = i
    BY <1>9, <2>1 DEF Speaker, Active, FloorInv, OneHolder
  <2>3. \A j \in Inputs \ {i} : PartsInOrder(j)' /\ (Settled(j)' <=> Settled(j))
                                /\ (Sending(j)' <=> Sending(j))
    BY <1>6 DEF Apart, FloorInv, PartsInOrder, Settled, Sending
  <2>4. FloorInv'
    BY <1>7, <2>1, <2>3 DEF FloorInv, OneHolder, Active
  <2>5. Cleared' = Cleared /\ Over' = Over /\ i \notin Cleared
    BY <1>1, <1>6, <2>3 DEF Cleared, Over, Sending
  <2>6. i \in Over \/ sent[i] = 0
    BY <1>1, <1>3 DEF Over, Settled, MessageSafe, NothingSentYet
  <2>7. Floor!LeaveFloor(i)
    BY <1>1, <2>2, <2>5, <2>6 DEF Floor!LeaveFloor
  <2> QED BY <2>4, <2>7 DEF OnTheFloor
<1> QED BY <1>8, <1>9

LEMMA ReloadFloor ==
  ASSUME Inv, FloorInv, NEW i \in Inputs, Reload(i)
  PROVE  OnTheFloor(i)
<1> USE DEF Inv
<1>1. /\ pc[i] = "reloading" /\ HandleKept /\ UNCHANGED <<sent, late>>
  BY CoordinatorIdle DEF Reload
<1>2. pc'[i] = "beginning" /\ \A j \in Inputs : j # i => pc'[j] = pc[j]
  BY GotoMoves DEF Reload, Steps
<1>3. run'[i].gen = run[i].gen /\ \A j \in Inputs : j # i => run'[j] = run[j]
  <2> DEFINE n == run[i].regen + 1
             rev == RowRevision(run[i].session)
             kept == [run[i] EXCEPT !.regen = n]
             fresh == [run[i] EXCEPT !.regen = n, !.revision = rev]
  <2>1. run[i] \in Locals /\ run[i].regen = 0 /\ revision \in Nat
    BY <1>1 DEF TypeOK, MessageSafe, RegeneratedOnce
  <2>2. run[i] \in Locals /\ n \in 0..1 /\ rev \in Nat
    BY <2>1 DEF RowRevision
  <2>3. run' = [run EXCEPT ![i] = kept] \/ run' = [run EXCEPT ![i] = fresh]
    BY DEF Reload
  <2> HIDE DEF n, rev
  <2>4. /\ kept \in Locals /\ kept.gen = run[i].gen
        /\ fresh \in Locals /\ fresh.gen = run[i].gen
    BY ONLY <2>2, LocalsRepeat, Zenon
  <2> QED BY <2>3, <2>4, LocalsMove
<1>4. PartsInOrder(i)'
  BY <1>2 DEF PartsInOrder, Commanding
<1> QED BY <1>1, <1>2, <1>3, <1>4, Unseen DEF Apart, Sending, Settled, OnTheFloor

LEMMA ReviewFloor ==
  ASSUME Inv, FloorInv, NEW i \in Inputs, Review(i)
  PROVE  OnTheFloor(i)
<1> USE DEF Inv
<1>1. UNCHANGED <<pc, run, sent, late>>
  BY DEF Review, ReviewReads, ReviewWrites, RequestSafetyRestate
<1>2. CancelActive("safety_restate") \/ UNCHANGED coordinator
  BY DEF Review, ReviewReads, ReviewWrites, RequestSafetyRestate
<1>3. HandleKept
  BY <1>2, CancelKeeps, CoordinatorIdle DEF Reasons
<1>4. PartsInOrder(i)'
  BY <1>1 DEF FloorInv, PartsInOrder
<1> QED BY <1>1, <1>3, <1>4, Unseen DEF Apart, Sending, Settled, OnTheFloor

LEMMA FloorInit == Init => Floor!Init /\ FloorInv
<1> SUFFICES ASSUME Init PROVE Floor!Init /\ FloorInv
  OBVIOUS
<1>1. Speaker = 0 /\ Cleared = {} /\ Over = {} /\ sent = [i \in Floor!Messages |-> 0]
  BY DEF Init, NoHandle, Speaker, Cleared, Over, Settled, Inputs, Floor!Messages
<1>2. FloorInv
  BY DEF Init, NoHandle, FloorInv, OneHolder, Active, PartsInOrder, Commanding
<1> QED BY <1>1, <1>2 DEF Floor!Init

LEMMA FloorNext ==
  Inv /\ FloorInv /\ [Next]_vars => FloorInv' /\ [Floor!Next]_Floor!vars
<1> SUFFICES ASSUME Inv, FloorInv, [Next]_vars
             PROVE  FloorInv' /\ (Floor!Next \/ UNCHANGED Floor!vars)
  OBVIOUS
<1>1. CASE UNCHANGED vars
  <2>1. FloorInv'
    BY <1>1 DEF FloorInv, OneHolder, Active, PartsInOrder, vars, coordinator
  <2>2. UNCHANGED Floor!vars
    BY <1>1 DEF Floor!vars, Speaker, Cleared, Over, Settled, vars, coordinator
  <2> QED BY <2>1, <2>2
<1>2. CASE Next
  <2>1. PICK i \in Inputs : Arrive(i) \/ HandleMessage(i) \/ Review(i)
    BY <1>2 DEF Next
  <2>2. ASSUME GenerateReply(i) PROVE OnTheFloor(i)
    BY <2>2, BeginFloor, GenerateFloor, SendFloor, MarkFloor, PauseFloor, FinishFloor,
       ReloadFloor DEF GenerateReply
  <2>3. OnTheFloor(i)
    BY <2>1, <2>2, PrepareFloor, CommandFloor, ReviewFloor DEF HandleMessage
  <2> QED BY <2>3 DEF OnTheFloor, Floor!Next, Floor!Messages, Inputs
<1> QED BY <1>1, <1>2

\* Whatever messages, resets, reviews and failing calls come between, and however
\* many there are, every step of the pipeline is one of the floor or is not seen there.
THEOREM ReplyImplementsFloor == Spec => ImplementsFloor
BY Invariance, FloorInit, FloorNext, PTL DEF Spec, ImplementsFloor, Floor!Spec
=============================================================================
