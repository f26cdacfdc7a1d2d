--------------------------- MODULE SessionDriver ---------------------------
(***************************************************************************)
(* The turn engine of AcpSdkSessionDriver (src/runtime/acp/driver.ts): the *)
(* queue of pending turns, the one turn whose prompt is with the agent,    *)
(* and everything that can end a turn: the agent's answer, a cancel, a     *)
(* timeout, an abandoned event stream, a withdrawal, session close, a dead *)
(* connection.                                                             *)
(*                                                                         *)
(* The driver is single-threaded, so a step is what runs between two       *)
(* awaits.  Two gaps inside a start matter and are stages of their own:    *)
(*   "starting"  the turn is current and its prompt was put on the         *)
(*               timeline, whose watchers run synchronously and may call   *)
(*               the session (WatchersCallBack); no prompt is sent yet;    *)
(*   "settling"  the agent's answer was handled and the turn's promise     *)
(*               resolved, but the finally block of runQueuedTurn, a later *)
(*               microtask, has not run: host code runs, timers do not.    *)
(***************************************************************************)
EXTENDS Naturals, Sequences, FiniteSets, SequencesExt

CONSTANTS
  Turns,        \* turns a host may start on the session
  NoTurn,       \* "no turn": currentTurn is undefined
  TimedTurns,   \* turns a host may start with a timeout
  Environment,  \* what happens around the driver in this instance
  Answers,      \* how the agent may answer a prompt
  MaxWire       \* bound: host calls that write stop at this many messages
                \* on their way to the agent

ASSUME ConstantsAssumption ==
  /\ NoTurn \notin Turns
  /\ TimedTurns \subseteq Turns
  /\ Environment \subseteq {"watcherCalls", "controlOperations",
                            "policyChanges", "connectionLoss", "denials"}
  /\ Answers \subseteq {"endTurn", "cancelled", "error", "abort"}
  /\ MaxWire \in Nat \ {0}

VARIABLES
  status,          \* statusValue
  policy,          \* queuePolicyValue.delivery
  pending,         \* pendingTurns
  current,         \* currentTurn and currentTurnExecution
  stage,           \* how far the run of a turn got; "queued" = not started
  prompt,          \* the turns whose prompts a started turn sends as one
  outcome,         \* the terminal event of a turn ("none": no such event)
  events,          \* what the event stream of a turn was given
  closedStreams,   \* turns whose AsyncEventQueue is closed
  cancelRequested, \* turns with state.cancelRequested
  timedOut,        \* turns with state.timedOut
  denied,          \* turns with a denied operation
  timer,           \* turns with a timeout armed
  wire,            \* messages to the agent, oldest first
  working,         \* turns whose prompt the agent works on
  answer,          \* the agent's answer to a prompt, on its way back
  connected,       \* the agent process and its connection are alive
  arrived,         \* history: turns in the order hosts started them
  promoted,        \* history: turns sendQueuedTurnNow moved, latest first
  asked,           \* history: turns something asked the agent to stop
  sent,            \* history: turns whose text was prompted, in order
  hit              \* history: turns whose prompt the agent saw cancelled

queueVars   == <<status, policy, pending, current, stage, prompt>>
streamVars  == <<outcome, events, closedStreams>>
agentVars   == <<wire, working, answer, connected>>
vars == <<queueVars, streamVars, cancelRequested, timedOut, denied,
          timer, agentVars, arrived, promoted, asked, sent, hit>>

Statuses == {"ready", "running", "closed"}
Policies == {"sequential", "coalesce"}
Stages   == {"none", "queued", "starting", "prompting", "settling", "finished"}
Running  == {"starting", "prompting", "settling"}
Outcomes == {"completed", "cancelled", "denied", "timedOut", "failed",
             "coalesced", "withdrawn"}
EventKinds == Outcomes \cup {"queued", "started"}
Messages == [kind : {"prompt"}, turn : Turns] \cup
            [kind : {"cancel", "close", "control"}, turn : {NoTurn}]

Init ==
  /\ status = "ready" /\ policy \in Policies
  /\ pending = <<>> /\ current = NoTurn
  /\ stage = [t \in Turns |-> "none"]
  /\ prompt = [t \in Turns |-> <<>>]
  /\ outcome = [t \in Turns |-> "none"]
  /\ events = [t \in Turns |-> <<>>]
  /\ closedStreams = {}
  /\ cancelRequested = {} /\ timedOut = {} /\ denied = {} /\ timer = {}
  /\ wire = <<>> /\ working = {} /\ connected = TRUE
  /\ answer = [t \in Turns |-> "none"]
  /\ arrived = <<>> /\ promoted = <<>>
  /\ asked = {} /\ sent = <<>> /\ hit = {}
-----------------------------------------------------------------------------
(* Pieces of the handlers.  A "slip" is not part of the specification: it  *)
(* is what the operator after it would be if that code had a plausible     *)
(* mistake, and some property is violated with it in its place.            *)

(* A synchronous start of a turn is under way.  Nothing of the driver runs *)
(* inside it but calls its watchers make, if they make any.                *)
Starting    == \E t \in Turns : stage[t] = "starting"
HostMayCall == Starting => "watcherCalls" \in Environment
TimersRun   == \A t \in Turns : stage[t] \notin {"starting", "settling"}

IsPending(t) == t \in ToSet(pending)

(* A call an open session takes; a closed one throws or ignores it.        *)
OpenCall == HostMayCall /\ status # "closed"

(* Slip: a turn with a terminal event no longer counts as running.         *)
CanStartOnceOver ==
  status # "closed" /\ (current = NoTurn \/ outcome[current] # "none")

(* The condition of startNextQueuedTurn, but for an empty queue.  A turn   *)
(* that has its terminal event still occupies the agent.                   *)
CanStart == status # "closed" /\ current = NoTurn

(* Slip: the turn stays in pendingTurns.                                   *)
WithoutNothing(q, t) == q

(* removePendingTurn: the queue q without t.                               *)
Without(q, t) == RemoveAt(q, CHOOSE i \in DOMAIN q : q[i] = t)

(* Slip: push for unshift.                                                 *)
ToBack(q, t) == Append(Without(q, t), t)

(* moveQueuedTurnToFront.                                                  *)
ToFront(q, t) == <<t>> \o Without(q, t)

(* A notification or request is written to the agent's standard input.     *)
Write(kind, t) ==
  wire' = IF connected THEN Append(wire, [kind |-> kind, turn |-> t]) ELSE wire

(* Slip: the turn is marked, the agent is not told.                        *)
CancelMarkedOnly(t) ==
  /\ cancelRequested' = cancelRequested \cup {t}
  /\ asked' = asked \cup {t}
  /\ UNCHANGED wire

(* cancelTurn for the current turn t: session/cancel names only a session. *)
CancelCurrent(t) ==
  /\ cancelRequested' = cancelRequested \cup {t}
  /\ Write("cancel", NoTurn)
  /\ asked' = asked \cup {t}

(* Slip: a later terminal event replaces the first.                        *)
FinishAgain(S, res, ev) ==
  /\ outcome' = [t \in Turns |-> IF t \in S THEN res[t] ELSE outcome[t]]
  /\ events' = [t \in Turns |-> IF t \in S \ closedStreams
                                THEN Append(ev[t], res[t]) ELSE ev[t]]
  /\ closedStreams' = closedStreams \cup S

(* finishTurnWithTerminalEvent with event res[t] for each t in S: a first  *)
(* terminal event decides, a later one only closes the stream.  ev is what *)
(* the streams hold when the call is made.                                 *)
Finish(S, res, ev) ==
  /\ outcome' = [t \in Turns |-> IF t \in S /\ outcome[t] = "none"
                                 THEN res[t] ELSE outcome[t]]
  /\ events' = [t \in Turns |->
                  IF t \in S /\ outcome[t] = "none" /\ t \notin closedStreams
                  THEN Append(ev[t], res[t]) ELSE ev[t]]
  /\ closedStreams' = closedStreams \cup S

FinishAs(S, r) == Finish(S, [t \in Turns |-> r], events)

(* takeReadyTurnsForDelivery: every queued turn is ready (startTurn asks   *)
(* for dispatch in the call that queues), so coalesce takes them all.      *)
TakeReady(q, pol) == IF pol = "coalesce" THEN q ELSE <<Head(q)>>

(* startNextQueuedTurn with queue q # <<>>, on an open session without a   *)
(* current turn, up to the watchers of the prompt put on the timeline.     *)
(* pol, stg, ev and tm are policy, stage, events and timer at the call.    *)
StartNext(q, pol, stg, ev, tm) ==
  LET batch == TakeReady(q, pol)
      lead  == Head(batch)
      merged == ToSet(Tail(batch))
  IN /\ status' = "running"
     /\ current' = lead
     /\ pending' = SubSeq(q, Len(batch) + 1, Len(q))
     /\ stage' = [stg EXCEPT ![lead] = "starting"]
     /\ prompt' = [prompt EXCEPT ![lead] = batch]
     /\ Finish(merged, [t \in Turns |-> "coalesced"], ev)
     /\ timer' = tm \ merged

-----------------------------------------------------------------------------
(* Calls of the host.                                                      *)

(* startTurn: enqueueTurn, then dispatchQueuedTurn, in one call.  A closed *)
(* session throws.                                                         *)
StartTurn(t, timed) ==
  LET q   == Append(pending, t)
      stg == [stage EXCEPT ![t] = "queued"]
      ev  == [events EXCEPT ![t] = Append(@, "queued")]
      tm  == IF timed THEN timer \cup {t} ELSE timer
  IN /\ OpenCall
     /\ stage[t] = "none"
     /\ timed => t \in TimedTurns
     /\ IF CanStart
        THEN StartNext(q, policy, stg, ev, tm)
        ELSE /\ pending' = q /\ stage' = stg /\ events' = ev /\ timer' = tm
             /\ UNCHANGED <<status, current, prompt, outcome, closedStreams>>
     /\ arrived' = Append(arrived, t)
     /\ UNCHANGED <<policy, cancelRequested, timedOut, denied, agentVars,
                    promoted, asked, sent, hit>>

(* Slip: the prompt of the first turn is sent, not the merged one.         *)
SendLeadOnly(t) ==
  /\ stage[t] = "starting"
  /\ stage' = [stage EXCEPT ![t] = "prompting"]
  /\ Write("prompt", t)
  /\ sent' = Append(sent, t)
  /\ UNCHANGED <<status, policy, pending, current, prompt, streamVars,
                 cancelRequested, timedOut, denied, timer, working, answer,
                 connected, arrived, promoted, asked, hit>>

(* The rest of a start: the "started" event, then runQueuedTurn calls      *)
(* connection.prompt.  Nothing rereads status, which a watcher may have    *)
(* changed.                                                                *)
SendPrompt(t) ==
  /\ stage[t] = "starting"
  /\ stage' = [stage EXCEPT ![t] = "prompting"]
  /\ events' = IF t \in closedStreams THEN events
               ELSE [events EXCEPT ![t] = Append(@, "started")]
  /\ Write("prompt", t)
  /\ sent' = sent \o prompt[t]
  /\ UNCHANGED <<status, policy, pending, current, prompt, outcome,
                 closedStreams, cancelRequested, timedOut, denied, timer,
                 working, answer, connected, arrived, promoted, asked, hit>>

(* Slip: cancelTurn does not compare the turn with the current one.        *)
CancelAnyTurn(t) ==
  /\ HostMayCall /\ Len(wire) < MaxWire
  /\ current # NoTurn /\ stage[t] # "none"
  /\ CancelCurrent(t)
  /\ UNCHANGED <<queueVars, streamVars, timedOut, denied, timer, working,
                 answer, connected, arrived, promoted, sent, hit>>

(* cancelTurn; for any other turn than the current one it returns false.   *)
CancelTurn(t) ==
  /\ HostMayCall /\ Len(wire) < MaxWire
  /\ current = t
  /\ CancelCurrent(t)
  /\ UNCHANGED <<queueVars, streamVars, timedOut, denied, timer, working,
                 answer, connected, arrived, promoted, sent, hit>>

(* sendQueuedTurnNow: t goes to the front; a current turn is cancelled,    *)
(* without one startNextQueuedTurn is called.                              *)
SendQueuedTurnNow(t) ==
  LET q == ToFront(pending, t)
  IN /\ HostMayCall /\ Len(wire) < MaxWire
     /\ IsPending(t)
     /\ IF CanStart
        THEN StartNext(q, policy, stage, events, timer)
        ELSE /\ pending' = q
             /\ UNCHANGED <<status, current, stage, prompt, streamVars,
                            timer>>
     /\ IF current # NoTurn
        THEN CancelCurrent(current)
        ELSE UNCHANGED <<cancelRequested, wire, asked>>
     /\ promoted' = <<t>> \o (IF t \in ToSet(promoted) THEN Without(promoted, t)
                              ELSE promoted)
     /\ UNCHANGED <<policy, timedOut, denied, working, answer, connected,
                    arrived, sent, hit>>

(* The turns in S leave the queue as withdrawn.                            *)
Withdraw(S, left) ==
  /\ pending' = left
  /\ cancelRequested' = cancelRequested \cup S
  /\ timer' = timer \ S
  /\ FinishAs(S, "withdrawn")
  /\ UNCHANGED <<status, policy, current, stage, prompt, timedOut, denied,
                 agentVars, arrived, promoted, asked, sent, hit>>

WithdrawQueuedTurn(t) ==
  /\ HostMayCall
  /\ IsPending(t)
  /\ Withdraw({t}, Without(pending, t))

ClearQueuedTurns ==
  /\ HostMayCall
  /\ pending # <<>>
  /\ Withdraw(ToSet(pending), <<>>)

(* setQueuePolicy also tries to start a queued turn.                       *)
SetQueuePolicy(pol) ==
  /\ "policyChanges" \in Environment /\ HostMayCall
  /\ policy' = pol
  /\ IF CanStart /\ pending # <<>>
     THEN StartNext(pending, pol, stage, events, timer)
     ELSE UNCHANGED <<status, pending, current, stage, prompt, streamVars,
                      timer>>
  /\ UNCHANGED <<cancelRequested, timedOut, denied, agentVars, arrived,
                 promoted, asked, sent, hit>>

(* setAgentMode, setAgentConfigOption: a request is written at once.       *)
ControlOperation ==
  /\ "controlOperations" \in Environment
  /\ OpenCall /\ Len(wire) < MaxWire
  /\ Write("control", NoTurn)
  /\ UNCHANGED <<queueVars, streamVars, cancelRequested, timedOut, denied,
                 timer, working, answer, connected, arrived, promoted, asked,
                 sent, hit>>

(* Slip: the session is marked closed after the agent's answer only.       *)
CloseMarksLater ==
  LET over == ToSet(pending) \cup ({current} \ {NoTurn})
  IN /\ OpenCall
     /\ current' = NoTurn /\ pending' = <<>>
     /\ cancelRequested' = cancelRequested \cup over
     /\ timer' = timer \ over
     /\ Finish(over, [t \in Turns |-> IF t = current THEN "cancelled"
                                      ELSE "withdrawn"], events)
     /\ Write("close", NoTurn)
     /\ UNCHANGED <<status, policy, stage, prompt, timedOut, denied, working,
                    answer, connected, arrived, promoted, asked, sent, hit>>

(* close up to its first await: the current turn and the queued ones get   *)
(* their terminal events, session/close is written.                        *)
Close ==
  LET dropped == ToSet(pending)
      running == {current} \ {NoTurn}
  IN /\ OpenCall
     /\ status' = "closed"
     /\ current' = NoTurn
     /\ pending' = <<>>
     /\ cancelRequested' = cancelRequested \cup running \cup dropped
     /\ timer' = timer \ (running \cup dropped)
     /\ Finish(running \cup dropped,
               [t \in Turns |-> IF t = current THEN "cancelled" ELSE "withdrawn"],
               events)
     /\ Write("close", NoTurn)
     /\ UNCHANGED <<policy, stage, prompt, timedOut, denied, working, answer,
                    connected, arrived, promoted, asked, sent, hit>>

-----------------------------------------------------------------------------
(* Callbacks: a stream consumer stops, a timeout, the agent's answer.      *)

(* The finally block of a turn's event stream, after its end was read or   *)
(* the consumer left early.  On a turn that is over it does nothing more.  *)
StreamEnd(t) ==
  /\ ~Starting
  /\ stage[t] # "none"
  /\ timer' = timer \ {t}
  /\ IF stage[t] = "queued"
     THEN IF IsPending(t)
          THEN /\ pending' = Without(pending, t)
               /\ cancelRequested' = cancelRequested \cup {t}
               /\ FinishAs({t}, "withdrawn")
               /\ UNCHANGED <<wire, asked>>
          ELSE /\ closedStreams' = closedStreams \cup {t}
               /\ UNCHANGED <<pending, cancelRequested, outcome, events, wire,
                              asked>>
     ELSE IF current = t /\ outcome[t] = "none"
          THEN /\ FinishAs({t}, "cancelled")
               /\ CancelCurrent(t)
               /\ UNCHANGED pending
          ELSE UNCHANGED <<pending, cancelRequested, streamVars, wire, asked>>
  /\ UNCHANGED <<status, policy, current, stage, prompt, timedOut, denied,
                 working, answer, connected, arrived, promoted, sent, hit>>

(* Slip: a queued turn is left in the queue.                               *)
TimerFiresIfRunning(t) ==
  /\ TimersRun
  /\ t \in timer
  /\ timer' = timer \ {t}
  /\ IF current = t
     THEN /\ FinishAs({t}, "timedOut")
          /\ CancelCurrent(t)
     ELSE UNCHANGED <<streamVars, cancelRequested, wire, asked>>
  /\ UNCHANGED <<queueVars, timedOut, denied, working, answer, connected,
                 arrived, promoted, sent, hit>>

(* The timeout of t.  It does not look at whether t has finished.          *)
TimerFires(t) ==
  /\ TimersRun
  /\ t \in timer
  /\ timer' = timer \ {t}
  /\ timedOut' = timedOut \cup {t}
  /\ IF current = t
     THEN /\ FinishAs({t}, "timedOut")
          /\ CancelCurrent(t)
          /\ UNCHANGED pending
     ELSE /\ cancelRequested' = cancelRequested \cup {t}
          /\ UNCHANGED <<wire, asked>>
          /\ IF IsPending(t)
             THEN /\ pending' = Without(pending, t)
                  /\ FinishAs({t}, "timedOut")
             ELSE UNCHANGED <<pending, streamVars>>
  /\ UNCHANGED <<status, policy, current, stage, prompt, denied, working,
                 answer, connected, arrived, promoted, sent, hit>>

(* handlePermissionRequest after the host said no, or has no handler: an   *)
(* answer for a turn that is over is dropped.                              *)
DenyPermission(t) ==
  /\ "denials" \in Environment /\ ~Starting
  /\ current = t /\ outcome[t] = "none"
  /\ t \in working \/ answer[t] # "none"
  /\ denied' = denied \cup {t}
  /\ UNCHANGED <<queueVars, streamVars, cancelRequested, timedOut, timer,
                 agentVars, arrived, promoted, asked, sent, hit>>

(* What startPrompt makes of an answer a to turn t: normalizePromptError   *)
(* turns an abort the host asked for into a cancelled stop (a profile that *)
(* does not sees an "error" instead), then finalizePromptResponse.         *)
Result(t, a) ==
  LET failed == a = "error" \/ (a = "abort" /\ t \notin cancelRequested)
  IN CASE failed -> "failed"
       [] ~failed /\ t \in denied -> "denied"
       [] ~failed /\ t \notin denied /\ t \in timedOut -> "timedOut"
       [] OTHER -> IF a = "endTurn" THEN "completed" ELSE "cancelled"

(* startPrompt resumes: with the agent's answer, or with an error because  *)
(* the connection is gone.                                                 *)
PromptReturns(t) ==
  LET a == IF answer[t] = "none" THEN "error" ELSE answer[t]
  IN /\ ~Starting
     /\ stage[t] = "prompting"
     /\ answer[t] # "none" \/ ~connected
     /\ stage' = [stage EXCEPT ![t] = "settling"]
     /\ answer' = [answer EXCEPT ![t] = "none"]
     /\ IF outcome[t] = "none" THEN FinishAs({t}, Result(t, a))
        ELSE UNCHANGED streamVars
     /\ UNCHANGED <<status, policy, pending, current, prompt, cancelRequested,
                    timedOut, denied, timer, wire, working, connected,
                    arrived, promoted, asked, sent, hit>>

(* Slip: the next turn is not started.                                     *)
TurnSettlesIdle(t) ==
  /\ ~Starting
  /\ stage[t] = "settling"
  /\ stage' = [stage EXCEPT ![t] = "finished"]
  /\ current' = IF current = t THEN NoTurn ELSE current
  /\ status' = IF status # "closed" THEN "ready" ELSE status
  /\ UNCHANGED <<policy, pending, prompt, streamVars, cancelRequested,
                 timedOut, denied, timer, agentVars, arrived, promoted,
                 asked, sent, hit>>

(* The finally block of runQueuedTurn.                                     *)
TurnSettles(t) ==
  LET stg == [stage EXCEPT ![t] = "finished"]
  IN /\ ~Starting
     /\ stage[t] = "settling"
     /\ IF status # "closed" /\ current \in {t, NoTurn} /\ pending # <<>>
        THEN StartNext(pending, policy, stg, events, timer)
        ELSE /\ stage' = stg
             /\ current' = IF current = t THEN NoTurn ELSE current
             /\ status' = IF status # "closed" /\ pending = <<>>
                          THEN "ready" ELSE status
             /\ UNCHANGED <<pending, prompt, streamVars, timer>>
     /\ UNCHANGED <<policy, cancelRequested, timedOut, denied, agentVars,
                    arrived, promoted, asked, sent, hit>>

-----------------------------------------------------------------------------
(* The agent process, and the connection to it (outside the driver).       *)

(* The agent reads a message; a cancel concerns whatever it works on.      *)
AgentReceives ==
  /\ wire # <<>>
  /\ wire' = Tail(wire)
  /\ LET m == Head(wire)
     IN /\ working' = IF m.kind = "prompt" THEN working \cup {m.turn} ELSE working
        /\ hit' = IF m.kind = "cancel" THEN hit \cup working ELSE hit
  /\ UNCHANGED <<queueVars, streamVars, cancelRequested, timedOut, denied,
                 timer, answer, connected, arrived, promoted, asked, sent>>

AgentAnswers(t, a) ==
  /\ t \in working
  /\ working' = working \ {t}
  /\ answer' = [answer EXCEPT ![t] = a]
  /\ UNCHANGED <<queueVars, streamVars, cancelRequested, timedOut, denied,
                 timer, wire, connected, arrived, promoted, asked, sent, hit>>

Disconnect ==
  /\ connected
  /\ connected' = FALSE /\ wire' = <<>> /\ working' = {}
  /\ UNCHANGED <<queueVars, streamVars, cancelRequested, timedOut, denied,
                 timer, answer, arrived, promoted, asked, sent, hit>>

(* Slip: the agent is terminated once it has answered.                     *)
DisposeOnceIdle ==
  status = "closed" /\ (\A t \in Turns : stage[t] \notin Running) /\ Disconnect

(* The end of close: bootstrap.dispose terminates the agent process, one   *)
(* second after session/close at the latest.                               *)
Dispose == status = "closed" /\ Disconnect

(* The agent process dies.                                                 *)
LoseConnection == "connectionLoss" \in Environment /\ Disconnect

-----------------------------------------------------------------------------
Next ==
  \/ \E t \in Turns, timed \in BOOLEAN : StartTurn(t, timed)
  \/ \E t \in Turns : SendPrompt(t)
  \/ \E t \in Turns : CancelTurn(t)
  \/ \E t \in Turns : SendQueuedTurnNow(t)
  \/ \E t \in Turns : WithdrawQueuedTurn(t)
  \/ ClearQueuedTurns
  \/ \E pol \in Policies : SetQueuePolicy(pol)
  \/ ControlOperation
  \/ Close
  \/ \E t \in Turns : StreamEnd(t)
  \/ \E t \in Turns : TimerFires(t)
  \/ \E t \in Turns : DenyPermission(t)
  \/ \E t \in Turns : PromptReturns(t)
  \/ \E t \in Turns : TurnSettles(t)
  \/ AgentReceives
  \/ \E t \in Turns, a \in Answers : AgentAnswers(t, a)
  \/ Dispose
  \/ LoseConnection

Spec == Init /\ [][Next]_vars

(* The event loop runs what it was given, messages are delivered, timeouts *)
(* fire and dispose gets to kill the agent.                                *)
EventLoopFairness ==
  /\ \A t \in Turns : /\ WF_vars(SendPrompt(t)) /\ WF_vars(PromptReturns(t))
                      /\ WF_vars(TurnSettles(t)) /\ WF_vars(TimerFires(t))
  /\ WF_vars(AgentReceives) /\ WF_vars(Dispose)

(* The agent answers every prompt it works on.                             *)
AgentFairness == \A t \in Turns : WF_vars(\E a \in Answers : AgentAnswers(t, a))

FairSpec == Spec /\ EventLoopFairness
-----------------------------------------------------------------------------
(* Properties.                                                             *)

TypeOK ==
  /\ status \in Statuses /\ policy \in Policies
  /\ pending \in Seq(Turns)
  /\ current \in Turns \cup {NoTurn}
  /\ stage \in [Turns -> Stages]
  /\ prompt \in [Turns -> Seq(Turns)]
  /\ outcome \in [Turns -> Outcomes \cup {"none"}]
  /\ events \in [Turns -> Seq(EventKinds)]
  /\ closedStreams \subseteq Turns
  /\ cancelRequested \subseteq Turns /\ timedOut \subseteq Turns
  /\ denied \subseteq Turns /\ timer \subseteq Turns
  /\ wire \in Seq(Messages)
  /\ working \subseteq Turns
  /\ answer \in [Turns -> Answers \cup {"none"}]
  /\ connected \in BOOLEAN
  /\ arrived \in Seq(Turns) /\ promoted \in Seq(Turns)
  /\ sent \in Seq(Turns)
  /\ asked \subseteq Turns /\ hit \subseteq Turns

(* The prompt of t is on its way to the agent or being worked on.          *)
Outstanding(t) ==
  t \in working \/ \E i \in DOMAIN wire : wire[i] = [kind |-> "prompt", turn |-> t]

(* A session has one active turn at a time, from its start to the finally  *)
(* block of runQueuedTurn, and the agent is never given a second prompt    *)
(* while it has one, whatever cancels, times out or closes in between.     *)
OneActiveTurn ==
  LET active(t) == stage[t] \in Running \/ Outstanding(t)
  IN \A t, u \in Turns : active(t) /\ active(u) => t = u

(* session/cancel names the session, not the turn; still no prompt is      *)
(* cancelled at the agent but one somebody asked to stop, however late the *)
(* cancel arrives (cancelTurn, sendQueuedTurnNow, timeout, stream end).    *)
CancelHitsOnlyAsked == hit \subseteq asked

(* A prompt the agent works on although somebody asked to stop it has been *)
(* cancelled or has a cancel under way: no cancel is spent on nothing.     *)
CancelNotLost ==
  \A t \in asked \cap working :
    t \in hit \/ \E i \in DOMAIN wire : wire[i].kind = "cancel"

(* x comes before y in the sequence s.                                     *)
Before(s, x, y) == \E i, j \in DOMAIN s : i < j /\ s[i] = x /\ s[j] = y

(* pendingTurns holds first the turns moved by sendQueuedTurnNow, the      *)
(* latest first, then the others as they arrived; turns are prompted in    *)
(* the order they arrived, once each, and only sendQueuedTurnNow lets a    *)
(* turn overtake another.                                                  *)
QueueOrder ==
  /\ \A i, j \in DOMAIN pending : i < j =>
       LET t == pending[i]  u == pending[j]
       IN IF t \in ToSet(promoted)
          THEN u \in ToSet(promoted) => Before(promoted, t, u)
          ELSE u \notin ToSet(promoted) /\ Before(arrived, t, u)
  /\ \A i, j \in DOMAIN sent : i < j =>
       /\ sent[i] # sent[j]
       /\ Before(arrived, sent[j], sent[i]) => sent[i] \in ToSet(promoted)

(* A turn that left the queue withdrawn or timed out is not part of any    *)
(* prompt: removing a turn never races with taking it for delivery.        *)
DroppedNeverPrompted ==
  \A t \in Turns :
    outcome[t] = "withdrawn" \/ (stage[t] = "queued" /\ outcome[t] = "timedOut") =>
      /\ t \notin ToSet(sent)
      /\ \A u \in Turns : t \notin ToSet(prompt[u])

(* The text of a coalesced turn travels in the prompt of another turn.     *)
CoalescedCarried ==
  \A t \in Turns :
    outcome[t] = "coalesced" =>
      \/ t \in ToSet(sent)
      \/ \E u \in Turns \ {t} : stage[u] = "starting" /\ t \in ToSet(prompt[u])

(* The session never idles over a queued turn, and says "ready" exactly    *)
(* when it is idle.                                                        *)
NoStrandedTurn ==
  status # "closed" =>
    /\ pending # <<>> => current # NoTurn
    /\ status = "running" <=> current # NoTurn

(* close leaves nothing behind: every turn has its terminal event and its  *)
(* stream ends, the running turn's and the queued ones' too.               *)
ClosedSettles ==
  status = "closed" =>
    /\ pending = <<>> /\ current = NoTurn
    /\ \A t \in Turns : stage[t] # "none" =>
                          outcome[t] # "none" /\ t \in closedStreams

(* A stream ends exactly when its turn has a terminal event, and that one  *)
(* event is the last thing its reader gets: session.ts stops reading at it *)
(* and treats an end without it as an error.                               *)
StreamShape ==
  \A t \in Turns :
    /\ t \in closedStreams <=> outcome[t] # "none"
    /\ \A i \in DOMAIN events[t] :
         events[t][i] \in Outcomes => i = Len(events[t])
    /\ outcome[t] # "none" =>
         events[t] # <<>> /\ events[t][Len(events[t])] = outcome[t]

(* RFC 0002, section 10: a denied turn fails as denied, whatever the agent *)
(* makes of the denial (unless the host stopped it first).                 *)
DenialDecidesOutcome ==
  \A t \in denied \ cancelRequested : outcome[t] \in {"none", "denied"}

(* RFC 0002, section 5: closed is a terminal state in which no more work   *)
(* starts: from the moment session/close is written, while close() still   *)
(* waits for the agent, no prompt is given to the agent.                   *)
Closing == \E i \in DOMAIN wire : wire[i].kind = "close"

NoWorkAfterClose ==
  [][/\ status = "closed" => status' = "closed"
     /\ status = "closed" \/ Closing => sent' = sent]_vars

(* The inductive invariant: what every step of the driver relies on.       *)

(* One turn runs; while the session is open it is the current one.         *)
RunnerOk ==
  /\ \A t, u \in Turns :
       stage[t] \in Running /\ stage[u] \in Running => t = u
  /\ \A t \in Turns : stage[t] \in Running /\ status # "closed" => current = t
  /\ current # NoTurn => stage[current] \in Running /\ status = "running"
  /\ current = NoTurn => status # "running" /\ pending = <<>>

(* The queue holds each turn that was neither started nor dropped, once.   *)
QueueOk ==
  /\ IsInjective(pending)
  /\ \A t \in Turns :
       IsPending(t) <=> stage[t] = "queued" /\ outcome[t] = "none"

(* Which turns are over.                                                   *)
OutcomeOk ==
  /\ closedStreams = {t \in Turns : outcome[t] # "none"}
  /\ \A t \in Turns :
       /\ stage[t] = "none" => outcome[t] = "none"
       /\ stage[t] \in {"settling", "finished"} => outcome[t] # "none"
       /\ status = "closed" /\ stage[t] # "none" => outcome[t] # "none"

(* A prompt is in one place: on the wire, with the agent, or answered.     *)
PromptOnWire(i) == wire[i].kind = "prompt"

WireOk ==
  /\ \A t \in Turns :
       /\ Outstanding(t) => stage[t] = "prompting" /\ answer[t] = "none"
       /\ answer[t] # "none" => stage[t] = "prompting"
  /\ \A i, j \in DOMAIN wire : PromptOnWire(i) /\ PromptOnWire(j) => i = j
  /\ \A i \in DOMAIN wire : PromptOnWire(i) => working = {}
  /\ ~connected => wire = <<>> /\ working = {}

IInv == TypeOK /\ RunnerOk /\ QueueOk /\ OutcomeOk /\ WireOk

(* If the agent answers every prompt it works on, every turn ends.         *)
EveryTurnSettles == \A t \in Turns : stage[t] # "none" ~> outcome[t] # "none"

AnsweredTurnsSettle == AgentFairness => EveryTurnSettles

(* A turn with a timeout ends even if the agent never answers anything.    *)
TimedTurnSettles == \A t \in Turns : t \in timer ~> outcome[t] # "none"

(* After close no turn keeps running, even if the agent never answers.     *)
ClosedSessionStops ==
  status = "closed" ~> \A t \in Turns : stage[t] \notin Running

(* The driver keeps the promise of TurnService.                            *)
Abstract == INSTANCE TurnService WITH
  submitted <- {t \in Turns : stage[t] # "none"},
  queued    <- ToSet(pending),
  holder    <- current,
  result    <- outcome,
  open      <- (status # "closed")

Refines == Abstract!Spec

(* No turn is lost, whoever moves it: a turn that was started waits in the *)
(* queue, is the current one or has its terminal event, and a turn in the  *)
(* queue is neither current nor over.                                      *)
NoTurnLost == Abstract!TypeOK /\ Abstract!NoTurnLost
============================================================================
