------------------------------ MODULE EndpointPool ------------------------------
(***************************************************************************)
(* The pool of model servers of internal/ollama/failover.go: requests that *)
(* try the endpoints in order, and one monitor that probes them, all       *)
(* sharing one health flag per endpoint.                                   *)
(*                                                                         *)
(* A flag is guarded by a lock of its own, so reading the flags of all     *)
(* endpoints, calling a server and writing the verdict into its flag are   *)
(* separate steps here.  What a call ends with depends on the server at    *)
(* that moment and on the caller's context: the generation coordinator     *)
(* cancels contexts, background tasks give theirs a deadline.              *)
(***************************************************************************)
EXTENDS Naturals

CONSTANTS Requests,      \* the calls of EndpointPoolClient.Chat
          Impatient,     \* those whose caller may cancel or has a deadline
          NumEndpoints,  \* the length of c.endpoints
          AtFirst,       \* bound: the conditions the servers may start in
          MaxChanges     \* bound: how often a server's condition changes

ASSUME ImpatientAreRequests == Impatient \subseteq Requests
ASSUME PoolIsNotEmpty == NumEndpoints \in Nat \ {0}
ASSUME ChangesAreBounded == MaxChanges \in Nat

VARIABLES healthy,   \* healthy[e]: the flag of endpoint e
          pc,        \* pc[r]: how far request r has come
          at,        \* at[r]: the endpoint r reads or calls
          order,     \* order[r]: found healthy so far, then those left to call
          context,   \* context[r]: the state of the caller's context
          probing,   \* whether the monitor is in its first pass
          step,      \* what the monitor does with its endpoint
          checked,   \* the monitor's endpoint
          server,    \* server[e]: the condition of the server of e
          changes,   \* how often a condition has changed
          \* History, read by the properties only:
          tried,     \* tried[r]: endpoints whose calls by r failed
          doubted,   \* doubted[r]: flagged down at some time while r read flags
          ailing,    \* endpoints whose servers gave cause to flag them down
          overtaken  \* a request flagged up what the monitor is rechecking

request == <<pc, at, order, context>>
monitor == <<probing, step, checked>>
world == <<server, changes, ailing>>
vars == <<healthy, request, monitor, world, tried, doubted, overtaken>>

Endpoints == 1..NumEndpoints

Ended == {"served", "rejected", "exhausted"}
Steps == {"idle", "reading", "calling", "answered", "failed"} \cup Ended

\* What a generation ends in: a reply, an error whose text isFailoverEligible
\* lists (a timeout, a refused or reset connection, a 5xx, and any other error
\* that quotes one of its words, a 4xx with "timeout" in its body among them), or
\* one it does not (another 4xx, a body that cannot be decoded, an unexpected EOF);
\* and whether a probe finds the server in time and with a status below 400.
\* The two are separate requests: a server may refuse either and serve the other.
Conditions == [chat : {"replies", "listed", "unlisted"}, probe : BOOLEAN]

\* What may flag an endpoint down, short of a caller's own deadline.
Ailing(e) == server[e].chat = "listed" \/ ~server[e].probe

ASSUME FirstConditions == AtFirst \subseteq Conditions

TypeOK ==
  /\ healthy \in [Endpoints -> BOOLEAN]
  /\ pc \in [Requests -> Steps]
  /\ at \in [Requests -> Endpoints]
  /\ order \in [Requests -> SUBSET Endpoints]
  /\ context \in [Requests -> {"live", "expired", "cancelled"}]
  /\ probing \in BOOLEAN
  /\ step \in {"look", "check", "reachable", "unreachable", "wait"}
  /\ checked \in Endpoints
  /\ server \in [Endpoints -> Conditions]
  /\ changes \in 0..MaxChanges
  /\ tried \in [Requests -> SUBSET Endpoints]
  /\ doubted \in [Requests -> SUBSET Endpoints]
  /\ ailing \subseteq Endpoints
  /\ overtaken \in BOOLEAN

-----------------------------------------------------------------------------

Init ==
  /\ healthy = [e \in Endpoints |-> TRUE]
  /\ pc = [r \in Requests |-> "idle"]
  /\ at = [r \in Requests |-> 1]
  /\ order = [r \in Requests |-> {}]
  /\ context = [r \in Requests |-> "live"]
  /\ probing = TRUE /\ step = "check" /\ checked = 1
  /\ server \in [Endpoints -> AtFirst]
  /\ changes = 0
  /\ tried = [r \in Requests |-> {}]
  /\ doubted = [r \in Requests |-> {}]
  /\ ailing = {e \in Endpoints : Ailing(e)}
  /\ overtaken = FALSE

\* markHealth, and what it means to the requests that are reading flags.
MarkHealth(e, verdict) ==
  /\ healthy' = [healthy EXCEPT ![e] = verdict]
  /\ doubted' = [r \in Requests |->
                   IF ~verdict /\ pc[r] = "reading" THEN doubted[r] \cup {e}
                                                    ELSE doubted[r]]

-----------------------------------------------------------------------------
(* A request: EndpointPoolClient.Chat.                                     *)

Begin(r) ==
  /\ pc[r] = "idle"
  /\ pc' = [pc EXCEPT ![r] = "reading"]
  /\ doubted' = [doubted EXCEPT ![r] = {e \in Endpoints : ~healthy[e]}]
  /\ UNCHANGED <<healthy, at, order, context, monitor, world, tried, overtaken>>

\* An order that names the first healthy endpoint only.
FirstOfOrder(found) ==
  IF found # {} THEN {e \in found : \A f \in found : e <= f} ELSE Endpoints

\* The endpoints requestOrder returns, given those it found healthy: these, or
\* all of them if none was.  They are called in the order of their numbers.
RequestOrder(found) == IF found # {} THEN found ELSE Endpoints

\* requestOrder reads one flag after the other.
ReadFlag(r) ==
  /\ pc[r] = "reading"
  /\ LET found == IF healthy[at[r]] THEN order[r] \cup {at[r]} ELSE order[r] IN
       \/ /\ at[r] < NumEndpoints
          /\ at' = [at EXCEPT ![r] = @ + 1]
          /\ order' = [order EXCEPT ![r] = found]
          /\ UNCHANGED pc
       \/ /\ at[r] = NumEndpoints
          /\ order' = [order EXCEPT ![r] = RequestOrder(found)]
          /\ pc' = [pc EXCEPT ![r] = "calling"]
          /\ UNCHANGED at
  /\ UNCHANGED <<healthy, context, monitor, world, tried, doubted, overtaken>>

\* A classification that takes every error for one of the server.
FailedOrCancelled(r, e) ==
  \/ context[r] \in {"expired", "cancelled"}
  \/ context[r] = "live" /\ server[e].chat = "listed"

\* isFailoverEligible of the error Client.Chat ends with: an expired deadline is
\* eligible whatever the server does, a cancelled context is not, and otherwise
\* it depends on the words of the error.
FailsEligibly(r, e) ==
  \/ context[r] = "expired"
  \/ context[r] = "live" /\ server[e].chat = "listed"

Answers(r, e) == context[r] = "live" /\ server[e].chat = "replies"

\* Client.Chat of the first endpoint left returns.
Call(r) ==
  /\ pc[r] = "calling"
  /\ \E e \in order[r] :
       /\ \A f \in order[r] : e <= f
       /\ at' = [at EXCEPT ![r] = e]
       /\ pc' = [pc EXCEPT ![r] = IF Answers(r, e) THEN "answered"
                                  ELSE IF FailsEligibly(r, e) THEN "failed"
                                  ELSE "rejected"]
  /\ UNCHANGED <<healthy, order, context, monitor, world, tried, doubted, overtaken>>

\* The monitor is between the look at its endpoint and the mark.
Rechecking == ~probing /\ step \in {"check", "reachable", "unreachable"}

MarkAnswered(r) ==
  /\ pc[r] = "answered"
  /\ pc' = [pc EXCEPT ![r] = "served"]
  /\ MarkHealth(at[r], TRUE)
  /\ overtaken' = (overtaken \/ (Rechecking /\ at[r] = checked))
  /\ order' = [order EXCEPT ![r] = {}]
  /\ UNCHANGED <<at, context, monitor, world, tried>>

\* A failed endpoint that is called again instead of the next one.
MarkFailedAndRetry(r) ==
  /\ pc[r] = "failed"
  /\ pc' = [pc EXCEPT ![r] = "calling"]
  /\ MarkHealth(at[r], FALSE)
  /\ tried' = [tried EXCEPT ![r] = @ \cup {at[r]}]
  /\ UNCHANGED <<at, order, context, monitor, world, overtaken>>

MarkFailed(r) ==
  /\ pc[r] = "failed"
  /\ order' = [order EXCEPT ![r] = @ \ {at[r]}]
  /\ pc' = [pc EXCEPT ![r] = IF order[r] = {at[r]} THEN "exhausted" ELSE "calling"]
  /\ MarkHealth(at[r], FALSE)
  /\ tried' = [tried EXCEPT ![r] = @ \cup {at[r]}]
  /\ UNCHANGED <<at, context, monitor, world, overtaken>>

\* The caller's deadline passes, or a newer message cancels the generation.
ContextEnds(r) ==
  /\ pc[r] \notin {"idle"} \cup Ended
  /\ context[r] = "live"
  /\ \E c \in {"expired", "cancelled"} : context' = [context EXCEPT ![r] = c]
  /\ UNCHANGED <<healthy, pc, at, order, monitor, world, tried, doubted, overtaken>>

Chat(r) == ReadFlag(r) \/ Call(r) \/ MarkAnswered(r) \/ MarkFailed(r)

-----------------------------------------------------------------------------
(* The monitor: EndpointPoolClient.Run, probeEndpoints once and            *)
(* refreshUnhealthyEndpoints at every tick.                                *)

NextEndpoint ==
  \/ /\ checked < NumEndpoints
     /\ checked' = checked + 1
     /\ step' = IF probing THEN "check" ELSE "look"
     /\ UNCHANGED probing
  \/ /\ checked = NumEndpoints
     /\ checked' = 1
     /\ step' = "wait"
     /\ probing' = FALSE

Tick ==
  /\ step = "wait"
  /\ step' = "look"
  /\ UNCHANGED <<healthy, request, probing, checked, world, tried, doubted, overtaken>>

\* A monitor that checks every endpoint at every tick.
LookAway ==
  /\ step = "look"
  /\ step' = "check"
  /\ UNCHANGED <<healthy, request, probing, checked, world, tried, doubted, overtaken>>

\* An endpoint whose flag is up is left alone.
Look ==
  /\ step = "look"
  /\ \/ /\ healthy[checked]
        /\ NextEndpoint
     \/ /\ ~healthy[checked]
        /\ step' = "check"
        /\ UNCHANGED <<probing, checked>>
  /\ UNCHANGED <<healthy, request, world, tried, doubted, overtaken>>

\* CheckHealth, cut by a timeout of its own; it fails on any status from 400 on,
\* and no list of errors is asked: every failure of a probe flags down.
CheckHealth ==
  /\ step = "check"
  /\ step' = IF server[checked].probe THEN "reachable" ELSE "unreachable"
  /\ UNCHANGED <<healthy, request, probing, checked, world, tried, doubted, overtaken>>

\* A monitor that leaves its pass at the first endpoint that is still down.
MarkCheckedOrLeave ==
  /\ step \in {"reachable", "unreachable"}
  /\ MarkHealth(checked, step = "reachable")
  /\ IF step = "reachable"
     THEN NextEndpoint
     ELSE step' = "wait" /\ checked' = 1 /\ probing' = FALSE
  /\ overtaken' = FALSE
  /\ UNCHANGED <<request, world, tried>>

MarkChecked ==
  /\ step \in {"reachable", "unreachable"}
  /\ MarkHealth(checked, step = "reachable")
  /\ NextEndpoint
  /\ overtaken' = FALSE
  /\ UNCHANGED <<request, world, tried>>

Run == Tick \/ Look \/ CheckHealth \/ MarkChecked

-----------------------------------------------------------------------------

\* The servers are other programs and change as they like.
ServerChanges ==
  /\ changes < MaxChanges
  /\ changes' = changes + 1
  /\ \E e \in Endpoints : \E c \in Conditions \ {server[e]} :
       /\ server' = [server EXCEPT ![e] = c]
       /\ ailing' = IF Ailing(e)' THEN ailing \cup {e} ELSE ailing
  /\ UNCHANGED <<healthy, request, monitor, tried, doubted, overtaken>>

Next ==
  \/ \E r \in Requests : Begin(r) \/ Chat(r)
  \/ \E r \in Impatient : ContextEnds(r)
  \/ Run
  \/ ServerChanges

Spec == Init /\ [][Next]_vars

\* Every call returns, at the latest by the timeout of its HTTP client, and the
\* ticker ticks as long as the program runs.  Callers come when they like.
FairSpec ==
  /\ Spec
  /\ \A r \in Requests : WF_vars(Chat(r))
  /\ WF_vars(Run)

-----------------------------------------------------------------------------
(* What the pool promises the callers and the operator.                    *)

\* The failover passes an endpoint over only for a reason: a request that was
\* answered or rejected by an endpoint, or that gave up, has had a call to every
\* endpoint before it fail, or that endpoint was flagged down at some time while
\* the request read the flags, although it reads them one at a time and other
\* requests and the monitor write them meanwhile.
SkippedForCause ==
  \A r \in Requests, e \in Endpoints :
    \/ pc[r] \in {"served", "rejected"} /\ e < at[r]
    \/ pc[r] = "exhausted"
    => e \in tried[r] \cup doubted[r]

\* No false alarm: an endpoint is flagged down only if its server has at some time
\* failed probes (a 4xx counts as much as a lost connection) or ended generations
\* in an error that failover lists, or if a request whose own deadline had passed
\* took the blame to it.  While its probes succeed, neither a generation that was
\* cancelled for a newer message nor one rejected in other words takes a server
\* out of service, however long the verdict waits to be written.
MarkedDownForCause ==
  \A e \in Endpoints : ~healthy[e] =>
    \/ e \in ailing
    \/ \E r \in Requests : context[r] = "expired" /\ e \in tried[r]

\* The recheck is meant to bring endpoints back, and only does: past the first
\* pass the monitor takes an endpoint down only if it had been down when looked
\* at and a request brought it back during the check.
RecheckDemotesOnlyInRace ==
  [][\A e \in Endpoints :
       ~probing /\ MarkChecked /\ healthy[e] /\ ~healthy'[e] => overtaken]_vars

\* Every request ends, whatever the servers do.
RequestsEnd == \A r \in Requests : pc[r] = "reading" ~> pc[r] \in Ended

\* Once a server answers probes below 400 for good its endpoint comes back into
\* service for good, when no more requests go wrong on it: nothing leaves a flag
\* down.  Serving generations is not enough: see the known limits.
ComesBack ==
  \A e \in Endpoints : <>[]server[e].probe => <>[]healthy[e]
=============================================================================
