---------------------------- MODULE Conversation ----------------------------
(***************************************************************************)
(* What the agent says between a prompt and its answer, and what becomes   *)
(* of it: the authority bridge (acp/authority-bridge.ts) that buffers and  *)
(* serialises session updates, the driver's handlers for updates,          *)
(* permission requests and answers (acp/driver.ts), and the timeline they  *)
(* write.  SessionDriver has the queue of turns; here turns follow one     *)
(* another and the subject is what happens inside and just after them.     *)
(*                                                                         *)
(* The agent's messages arrive in the order it wrote them.  An update      *)
(* becomes a job of the bridge's SerialActor; a job that waits for nothing *)
(* runs in microtasks, before the next message is read, while one that     *)
(* shows a terminal waits for the host's terminal handler and holds up     *)
(* every later update, but no permission request and no answer.            *)
(***************************************************************************)
EXTENDS Naturals, Sequences, FiniteSets, SessionTimeline

CONSTANTS
  Turns,         \* turns of the host, each started once
  NoTurn,        \* no turn is current
  HistoryTurn,   \* the driver's historyTurn: updates outside every turn
  Tools,         \* tool calls of the agent
  Terminals,     \* terminals the agent runs at the host
  Updates,       \* the updates the agent may send, their n left open
  Requests,      \* the permission requests it may send: [tool, options]
  Answers,       \* how it may answer a prompt: stop reasons and "error"
  ModeDenies,    \* the agent's profile puts failures down to the mode
  MaxWrites      \* bound: messages the agent sends beside the answers

\* What the updates show: the terminals and diffs of tool calls.
Shown == UNION {u.content : u \in {v \in Updates : v.content # Absent}}

ASSUME ConversationAssumption ==
  /\ IsFiniteSet(Turns) /\ NoTurn \notin Turns
  /\ HistoryTurn \notin Turns \cup {NoTurn}
  /\ IsFiniteSet(Tools)
  /\ Updates \subseteq
       [type : UpdateTypes, n : {0}, tool : Tools \cup {"none"},
        status : {u.status : u \in Updates}, content : {u.content : u \in Updates},
        sound : BOOLEAN, from : {NoTurn}]
  /\ \A u \in Updates : u.type \in ToolTypes => u.tool \in Tools
  /\ \A c \in Shown : c.kind = "terminal" <=> c.object \in Terminals
  /\ \A c, d \in Shown : c.object = d.object => c.kind = d.kind
  /\ \A r \in Requests : r.tool \in Tools
  /\ Answers \subseteq {"end_turn", "cancelled", "error"}
  /\ ModeDenies \in BOOLEAN /\ MaxWrites \in Nat

VARIABLES
  inbound,   \* messages of the agent on the connection, oldest first
  wrote,     \* number of messages the agent has written
  asked,     \* the turn whose prompt the agent is answering
  replayed,  \* history variable: messages it replayed before it answered the load
  opening,   \* how far the loading of the session is
  buffered,  \* updates that came before the driver set its handler
  jobs,      \* the SerialActor: the running job first
  current,   \* currentTurn
  turn,      \* AcpRuntimeTurnState of every turn
  ended,     \* turns with a terminal event
  stream,    \* events pushed to the stream of every turn
  timeline,  \* the session's AcpRuntimeSessionTimeline
  asking,    \* permission requests before the host's handler
  told,      \* what the agent was answered: [n, turn, tool, request, answer]
  process,   \* the terminals' processes at the host
  call       \* the terminal operation of the host that is under way

agentVars == <<inbound, wrote, asked, replayed>>
turnVars  == <<current, turn, ended, stream>>
hostVars  == <<process, call>>
vars == <<agentVars, opening, buffered, jobs, turnVars, timeline, asking, told,
          hostVars>>

TurnIds == Turns \cup {HistoryTurn}
NoCall  == [op |-> "none"]

Init ==
  /\ inbound = <<>> /\ wrote = 0 /\ asked = NoTurn /\ replayed = <<>>
  /\ opening = "loading" /\ buffered = <<>> /\ jobs = <<>>
  /\ current = NoTurn /\ ended = {}
  /\ turn = [t \in TurnIds |-> NewTurnState(Tools)]
  /\ stream = [t \in Turns |-> <<>>]
  /\ timeline = EmptyTimeline
  /\ asking = {} /\ told = {}
  /\ process = [x \in Terminals |-> [exit |-> "none", released |-> FALSE]]
  /\ call = NoCall

-----------------------------------------------------------------------------
(* The agent.                                                              *)

Send(m) == inbound' = Append(inbound, m)

AgentUpdates ==
  \E u \in Updates :
    /\ wrote < MaxWrites
    /\ u.type = "user" => opening = "loading"
    /\ wrote' = wrote + 1
    /\ Send([u EXCEPT !.n = wrote + 1, !.from = asked])
    /\ replayed' = IF opening = "loading" /\ u.type \in {"user", "text"} /\ u.sound
                   THEN Append(replayed, wrote + 1) ELSE replayed
    /\ UNCHANGED <<asked, opening, buffered, jobs, turnVars, timeline, asking,
                   told, hostVars>>

AgentAsks ==
  \E r \in Requests :
    /\ wrote < MaxWrites /\ opening = "open"
    /\ wrote' = wrote + 1
    /\ Send([type |-> "permission", n |-> wrote + 1, tool |-> r.tool,
             options |-> r.options])
    /\ UNCHANGED <<asked, replayed, opening, buffered, jobs, turnVars, timeline, asking,
                   told, hostVars>>

AgentAnswers ==
  \E stop \in Answers :
    /\ asked # NoTurn
    /\ asked' = NoTurn
    /\ Send([type |-> "answer", stop |-> stop])
    /\ UNCHANGED <<wrote, replayed, opening, buffered, jobs, turnVars, timeline, asking,
                   told, hostVars>>

AgentLoads ==
  /\ opening = "loading"
  /\ opening' = "answered"
  /\ Send([type |-> "loaded"])
  /\ UNCHANGED <<wrote, asked, replayed, buffered, jobs, turnVars, timeline, asking,
                 told, hostVars>>

-----------------------------------------------------------------------------
(* Events of a turn.                                                        *)

IsTerminal(e) == e.type \in {"completed", "denied", "timed_out", "cancelled", "failed"}

(* emitTurnEvent: the timeline takes every event, the stream none after    *)
(* the terminal one, which closes it.                                      *)
Emit(t, events) ==
  /\ timeline' = AppendEvents(timeline, events)
  /\ stream' = IF t \in ended THEN stream
               ELSE [stream EXCEPT ![t] = @ \o events]
  /\ ended' = IF \E i \in DOMAIN events : IsTerminal(events[i])
              THEN ended \cup {t} ELSE ended

(* finishTurnWithTerminalEvent, for a turn that has none.                  *)
Finish(t, type) ==
  /\ timeline' = AppendEvent(CompleteTurn(timeline, t, "failed"),
                             [type |-> type, turn |-> t])
  /\ stream' = [stream EXCEPT ![t] = Append(@, [type |-> type, turn |-> t])]
  /\ ended' = ended \cup {t}

(* startNextQueuedTurn: the prompt is shown and written to the agent.      *)
StartTurn(t) ==
  /\ opening = "open" /\ current = NoTurn /\ stream[t] = <<>>
  /\ current' = t /\ asked' = t
  /\ timeline' = AddUser(timeline, t, 0)
  /\ stream' = [stream EXCEPT ![t] = <<[type |-> "started", turn |-> t]>>]
  /\ UNCHANGED <<inbound, wrote, replayed, opening, buffered, jobs, turn, ended,
                 asking, told, hostVars>>

KeptUntilAnswered == current' = current

(* A job that waits for nothing but its next microtask: no message is read *)
(* and no timer fires before it has run on.  The host's code may run.      *)
ActorRests == jobs # <<>> => Head(jobs).stage \in {"reading", "read"}

(* installTimeoutHandlers and the end of an abandoned stream: the turn has *)
(* its result, and stays current until the agent answers.                  *)
EndEarly ==
  \E type \in {"timed_out", "cancelled"} :
    /\ current # NoTurn /\ current \notin ended
    /\ type = "timed_out" => ActorRests
    /\ Finish(current, type)
    /\ turn' = IF type = "timed_out"
               THEN [turn EXCEPT ![current].timedOut = TRUE] ELSE turn
    /\ KeptUntilAnswered
    /\ UNCHANGED <<agentVars, opening, buffered, jobs, asking, told, hostVars>>

-----------------------------------------------------------------------------
(* Messages reach the runtime.                                              *)

Receive(m) ==
  /\ ActorRests /\ inbound # <<>> /\ m = Head(inbound)
  /\ inbound' = Tail(inbound)

Job(u, flush) ==
  [update |-> u, flush |-> flush, stage |-> "queued", turn |-> NoTurn,
   exit |-> Nothing]

HandlerSet == opening \in {"flushing", "open"}

(* AuthorityBridge.sessionUpdate                                           *)
ReceiveUpdate(m) ==
  /\ Receive(m)
  /\ m.type \notin {"permission", "answer", "loaded"}
  /\ IF HandlerSet
     THEN jobs' = Append(jobs, Job(m, FALSE)) /\ buffered' = buffered
     ELSE buffered' = Append(buffered, m) /\ jobs' = jobs
  /\ UNCHANGED <<wrote, asked, replayed, opening, turnVars, timeline, asking, told,
                 hostVars>>

(* session-service load: the agent's answer, the driver with its handler   *)
(* (setSessionUpdateHandler hands the buffer to one job of the actor),     *)
(* waitForBufferedSessionUpdates, sealHistoryReplay.                       *)
ReceiveLoaded(m) ==
  /\ Receive(m) /\ m.type = "loaded"
  /\ opening' = "bootstrapped"
  /\ UNCHANGED <<wrote, asked, replayed, buffered, jobs, turnVars, timeline, asking,
                 told, hostVars>>

SetSessionUpdateHandler ==
  /\ opening = "bootstrapped"
  /\ opening' = "flushing"
  /\ jobs' = [i \in DOMAIN buffered |-> Job(buffered[i], TRUE)]
  /\ buffered' = <<>>
  /\ UNCHANGED <<agentVars, turnVars, timeline, asking, told, hostVars>>

\* Slip: the load does not wait for the buffered updates.
FlushedAtOnce == TRUE

Flushed == \A i \in DOMAIN jobs : ~jobs[i].flush

SealHistoryReplay ==
  /\ opening = "flushing" /\ Flushed
  /\ opening' = "open"
  /\ timeline' = Seal(timeline)
  /\ UNCHANGED <<agentVars, buffered, jobs, turnVars, asking, told, hostVars>>

DrainHistory ==
  /\ opening = "open" /\ Replayed(timeline) # <<>>
  /\ timeline' = Drain(timeline)
  /\ UNCHANGED <<agentVars, opening, buffered, jobs, turnVars, asking, told,
                 hostVars>>

-----------------------------------------------------------------------------
(* handleSessionUpdate.                                                     *)

ShowsTerminal(u) ==
  /\ u.type \in ToolTypes
  /\ u.content # Absent
  /\ \E c \in u.content : c.kind = "terminal"

(* The thread content of the update: its terminals read while it waited.   *)
ThreadContent(u, exit) ==
  IF u.content = Absent THEN Absent
  ELSE [x \in {c.object : c \in u.content} |->
          LET c == CHOOSE i \in u.content : i.object = x
          IN  [kind |-> c.kind, n |-> u.n,
               exit |-> IF x \in DOMAIN exit THEN exit[x] ELSE "unset"]]

(* syncThreadEntriesFromSessionUpdate: a blank chunk leaves no trace.      *)
SyncThread(tl, t, u, exit) ==
  CASE u.type = "text" -> UpsertText(tl, "assistant", t, u.n)
    [] u.type = "thought" -> UpsertText(tl, "thought", t, u.n)
    [] u.type = "plan" -> UpsertPlan(tl, t, u.n)
    [] u.type \in ToolTypes ->
         UpsertToolCall(tl, t, u.tool, u.status, ThreadContent(u, exit))
    [] OTHER -> tl

(* Outside a turn a user's message is history, and so are the events.      *)
SyncHistory(tl, u) ==
  IF u.type = "user"
  THEN AddUser([tl EXCEPT !.history =
                  Append(@, [type |-> "user", turn |-> HistoryTurn, n |-> u.n])],
               HistoryTurn, u.n)
  ELSE tl

\* Slip: an update is committed whatever became of its turn.
CommitsAlways(t) == TRUE

(* The update still belongs where it was when its job began.               *)
ShouldCommit(t) == current = t /\ t \notin ended

TurnId(t) == IF t = NoTurn THEN HistoryTurn ELSE t

(* The first look, and with it the thread.  The job goes on in a later     *)
(* microtask.  (An update of no interest to the thread is looked at only   *)
(* then, to the same end.)                                                 *)
Write(job) ==
  IF ShouldCommit(job.turn)
  THEN /\ timeline' = SyncThread(timeline, TurnId(job.turn), job.update, job.exit)
       /\ jobs' = [jobs EXCEPT ![1] = [job EXCEPT !.stage = "written"]]
  ELSE jobs' = Tail(jobs) /\ UNCHANGED timeline

(* A job begins: the turn it belongs to is the one current now.            *)
RunJob ==
  /\ jobs # <<>> /\ Head(jobs).stage = "queued"
  /\ LET raw == Head(jobs).update
         u   == Normalized(raw)
     IN  IF ~Accepted(raw) THEN jobs' = Tail(jobs) /\ UNCHANGED timeline
         ELSE IF ShowsTerminal(u)
         THEN /\ jobs' = [jobs EXCEPT ![1].stage = "reading", ![1].turn = current,
                                      ![1].update = u]
              /\ UNCHANGED timeline
         ELSE Write([Head(jobs) EXCEPT !.turn = current, !.update = u])
  /\ UNCHANGED <<agentVars, opening, buffered, turnVars, asking, told, hostVars>>

(* The host's handler looks at each terminal (a released one is an error   *)
(* the driver ignores); the job goes on when all its reads have settled.   *)
Output(x) == IF process[x].released THEN "unset" ELSE process[x].exit

ReadOutput ==
  /\ jobs # <<>> /\ Head(jobs).stage = "reading"
  /\ LET job   == Head(jobs)
         shown == {c.object : c \in {i \in job.update.content : i.kind = "terminal"}}
     IN  \E x \in shown \ DOMAIN job.exit :
           jobs' = [jobs EXCEPT
                      ![1].stage = IF shown \subseteq DOMAIN job.exit \cup {x}
                                   THEN "read" ELSE "reading",
                      ![1].exit = Over(@, [y \in {x} |-> Output(y)])]
  /\ UNCHANGED <<agentVars, opening, buffered, turnVars, timeline, asking, told,
                 hostVars>>

EndJob ==
  /\ jobs # <<>> /\ Head(jobs).stage = "read"
  /\ Write(Head(jobs))
  /\ UNCHANGED <<agentVars, opening, buffered, turnVars, asking, told, hostVars>>

(* The rest of the job, with its second look: the history of an update     *)
(* outside every turn, the events of any other.                            *)
TellHost ==
  /\ jobs # <<>> /\ Head(jobs).stage = "written"
  /\ jobs' = Tail(jobs)
  /\ LET t    == Head(jobs).turn
         u    == Head(jobs).update
         id   == TurnId(t)
         step == MapUpdate(id, turn[id], u, ModeDenies)
     IN  IF t # NoTurn /\ ~ShouldCommit(t) THEN UNCHANGED <<turnVars, timeline>>
         ELSE /\ turn' = [turn EXCEPT ![id] = step.state]
              /\ timeline' = AppendEvents(
                   IF t = NoTurn THEN SyncHistory(timeline, u) ELSE timeline,
                   step.events)
              /\ stream' = IF t = NoTurn \/ t \in ended THEN stream
                           ELSE [stream EXCEPT ![t] = @ \o step.events]
              /\ UNCHANGED <<current, ended>>
  /\ UNCHANGED <<agentVars, opening, buffered, asking, told, hostVars>>

-----------------------------------------------------------------------------
(* handlePermissionRequest.                                                 *)

Reply(r, answer) ==
  told' = told \cup {[n |-> r.n, turn |-> r.turn, tool |-> r.tool,
                      request |-> r.request, answer |-> answer]}

ReceivePermission(m) ==
  /\ Receive(m) /\ m.type = "permission"
  /\ IF current = NoTurn
     THEN /\ Reply([n |-> m.n, turn |-> NoTurn, tool |-> m.tool, request |-> 0],
                   "cancelled")
          /\ UNCHANGED <<turnVars, timeline, asking>>
     ELSE LET t     == current
              state == RequestPermission(turn[t], m.tool, Absent)
              id    == state.requests
          IN  /\ turn' = [turn EXCEPT ![t] = state]
              /\ Emit(t, <<Event("operation_updated", t, state, m.tool),
                           PermissionEvent("permission_requested", t, state,
                                           m.tool, id, "pending")>>)
              /\ asking' = asking \cup {[n |-> m.n, turn |-> t, tool |-> m.tool,
                                         request |-> id, options |-> m.options]}
              /\ UNCHANGED <<current, told>>
  /\ UNCHANGED <<wrote, asked, replayed, opening, buffered, jobs, hostVars>>

\* Slip: the decision is taken whatever became of the turn meanwhile.
AlwaysStands(t) == TRUE

(* The decision came while the turn was still running.                     *)
DecisionStands(t) == current = t /\ t \notin ended

HostDecides(r) ==
  \E decision \in {"allowed", "denied"}, scope \in {"once", "session"} :
    /\ asking' = asking \ {r}
    /\ IF DecisionStands(r.turn)
       THEN LET state == ApplyDecision(turn[r.turn], r.tool, decision)
            IN  /\ turn' = [turn EXCEPT ![r.turn] = state]
                /\ Emit(r.turn, <<PermissionEvent("permission_resolved", r.turn,
                                    state, r.tool, r.request, decision)>>)
                /\ Reply(r, PermissionAnswer(r.options, decision, scope))
       ELSE /\ Reply(r, "cancelled")
            /\ UNCHANGED <<turn, timeline, stream, ended>>
    /\ UNCHANGED <<agentVars, opening, buffered, jobs, current, hostVars>>

-----------------------------------------------------------------------------
(* startPrompt goes on with the agent's answer, runQueuedTurn ends the     *)
(* turn in the next microtask.                                             *)

Answered(t, stop) ==
  LET result == FinalizePrompt(t, turn[t], stop)
      last   == result.events[Len(result.events)].type
      status == IF last = "completed" THEN "completed" ELSE "failed"
  IN  /\ turn' = [turn EXCEPT ![t] = result.state]
      /\ timeline' = AppendEvents(IF last = "cancelled" THEN timeline
                                  ELSE CompleteTurn(timeline, t, status),
                                  result.events)
      /\ stream' = [stream EXCEPT ![t] = @ \o result.events]
      /\ ended' = ended \cup {t}

ReceiveAnswer(m) ==
  /\ Receive(m) /\ m.type = "answer"
  /\ CASE current \in ended -> UNCHANGED <<turn, timeline, stream, ended>>
       [] current \notin ended /\ m.stop = "error" ->
            Finish(current, "failed") /\ turn' = turn
       [] OTHER -> Answered(current, m.stop)
  /\ current' = NoTurn
  /\ UNCHANGED <<wrote, asked, replayed, opening, buffered, jobs, asking, told, hostVars>>

-----------------------------------------------------------------------------
(* Terminals: the process at the host, and the operations the host calls   *)
(* on the session, each a request to the handler, a look at the output and *)
(* an update of the snapshot.                                              *)

Exits(x) ==
  /\ process[x].exit = "none"
  /\ process' = [process EXCEPT ![x].exit = "code"]
  /\ UNCHANGED <<agentVars, opening, buffered, jobs, turnVars, timeline, asking,
                 told, call>>

TerminalOps == {"refresh", "kill", "release", "wait"}

(* The handler's part: wait answers when the process has exited, refresh   *)
(* fails for a released terminal, the others look at what they can see.    *)
CallTerminal(op, x) ==
  /\ call = NoCall /\ x \in DOMAIN timeline.terminals
  /\ op = "wait" => process[x].exit = "code"
  /\ op = "refresh" => ~process[x].released
  /\ process' = IF op = "release" THEN [process EXCEPT ![x].released = TRUE]
                ELSE process
  /\ call' = [op |-> op, terminal |-> x, exit |-> Output(x)]
  /\ UNCHANGED <<agentVars, opening, buffered, jobs, turnVars, timeline, asking,
                 told>>

Seen(exit) ==
  IF exit = "unset" THEN Nothing
  ELSE [exit |-> exit, status |-> TerminalStatus(exit)]

\* Slip: a terminal that was asked to stop counts as stopped.
StoppedAtOnce(c) ==
  IF c.op = "kill" THEN [stopRequested |-> TRUE, status |-> "completed"]
  ELSE Seen(c.exit)

(* What each operation writes into the snapshot.                           *)
TerminalChange(c) ==
  CASE c.op = "refresh" -> Seen(c.exit)
    [] c.op = "kill" -> Over(Seen(c.exit), [stopRequested |-> TRUE])
    [] c.op = "release" -> [released |-> TRUE]
    [] c.op = "wait" -> [status |-> "completed", completedAt |-> TRUE,
                         exit |-> "code"]

TerminalReturns ==
  /\ call # NoCall
  /\ timeline' = UpsertTerminal(timeline, call.terminal, TerminalChange(call))
  /\ call' = NoCall
  /\ UNCHANGED <<agentVars, opening, buffered, jobs, turnVars, asking, told,
                 process>>

-----------------------------------------------------------------------------
Deliver ==
  \E m \in ToSet(inbound) :
    \/ ReceiveUpdate(m)
    \/ ReceiveLoaded(m)
    \/ ReceivePermission(m)
    \/ ReceiveAnswer(m)

Next ==
  \/ AgentUpdates \/ AgentAsks \/ AgentAnswers \/ AgentLoads
  \/ Deliver
  \/ SetSessionUpdateHandler \/ SealHistoryReplay \/ DrainHistory
  \/ RunJob \/ ReadOutput \/ EndJob \/ TellHost
  \/ \E t \in Turns : StartTurn(t)
  \/ EndEarly
  \/ \E r \in asking : HostDecides(r)
  \/ \E x \in Terminals : Exits(x)
  \/ \E op \in TerminalOps, x \in Terminals : CallTerminal(op, x)
  \/ TerminalReturns

Spec == Init /\ [][Next]_vars

-----------------------------------------------------------------------------
Allowing  == {"allow_once", "allow_always"}
Rejecting == {"reject_once", "reject_always"}

ThreadText(t) ==
  LET i == Position(timeline, "assistant", t)
  IN  IF i = 0 THEN <<>> ELSE timeline.entries[i].text

ResultOf(t) == stream[t][Len(stream[t])]

(* The events with text and all that are part of the output.               *)
Texts(t)  == {i \in DOMAIN stream[t] : stream[t][i].type = "text"}
Chunks(t) == {i \in DOMAIN stream[t] : stream[t][i].type \in {"text", "blank_text"}}

Told(t, events) == {stream[t][i].n : i \in events}

(* The thread of a turn and the events of its stream tell the same story:  *)
(* every text, once, in the order the agent wrote it.  handleSessionUpdate *)
(* writes to the thread and emits the event in two parts, after and before *)
(* an await: a text the thread has and the stream has not is the last one, *)
(* and its event is about to follow, or the host ended the stream just in  *)
(* between.  A turn that completed has told all of its thread, and its     *)
(* output is what the stream has told, other blocks than text included.    *)
ThreadIsStream ==
  \A t \in Turns :
    LET thread == ThreadText(t)
    IN  /\ \A i, j \in DOMAIN thread : i < j => thread[i] < thread[j]
        /\ \A i, j \in Chunks(t) : i < j => stream[t][i].n < stream[t][j].n
        /\ Told(t, Texts(t)) \subseteq ToSet(thread)
        /\ \A n \in ToSet(thread) \ Told(t, Texts(t)) :
             /\ \A m \in ToSet(thread) : m <= n
             /\ \/ t \in ended /\ ResultOf(t).type = "cancelled"
                \/ /\ t \notin ended /\ jobs # <<>>
                   /\ Head(jobs).stage = "written" /\ Head(jobs).update.n = n
        /\ stream[t] # <<>> /\ ResultOf(t).type = "completed" =>
             /\ ToSet(ResultOf(t).output) = Told(t, Chunks(t))
             /\ \A i, j \in DOMAIN ResultOf(t).output :
                  i < j => ResultOf(t).output[i] < ResultOf(t).output[j]

TextEntries(t) ==
  {i \in DOMAIN timeline.entries :
     timeline.entries[i].kind \in {"assistant", "thought", "plan"}
       /\ timeline.entries[i].key = t}

(* After the terminal event of a turn its message, its thoughts and its    *)
(* plan do not change, however late the agent's updates come or the        *)
(* reading of a terminal ends.  A tool call keeps the turn it was first    *)
(* seen in: its entry does change, but only by an update of that tool call *)
(* whose job began in another turn or in none.                             *)
ToolCalls == {i \in DOMAIN timeline.entries : timeline.entries[i].kind = "tool"}

TurnOfJob(job) == IF job.stage = "queued" THEN current ELSE job.turn

EndedThreadFrozen ==
  [][\A t \in ended :
       /\ TextEntries(t)' = TextEntries(t)
       /\ \A i \in TextEntries(t) : timeline'.entries[i] = timeline.entries[i]
       /\ \A i \in ToolCalls :
            timeline.entries[i].turn = t /\ timeline'.entries[i] # timeline.entries[i]
              => /\ jobs # <<>> /\ TurnOfJob(Head(jobs)) # t
                 /\ Head(jobs).update.tool = timeline.entries[i].key]_vars

(* Every permission request of a turn is before the host or answered, and  *)
(* not both: an agent left without an answer hangs.  The agent was told to *)
(* go ahead only if the host's stream shows that very request resolved as  *)
(* allowed, and a turn whose agent was told "rejected" never ends as       *)
(* completed: the host decides while the turn may time out, be abandoned   *)
(* or be answered.                                                         *)
DecisionsKept ==
  /\ \A t \in Turns : \A i \in 1..turn[t].requests :
       Cardinality({r \in asking : r.turn = t /\ r.request = i})
         + Cardinality({r \in told : r.turn = t /\ r.request = i}) = 1
  /\ \A r \in told :
       /\ r.answer \in Allowing =>
            \E i \in DOMAIN stream[r.turn] :
              /\ stream[r.turn][i].type = "permission_resolved"
              /\ stream[r.turn][i].request = r.request
              /\ stream[r.turn][i].phase = "allowed"
       /\ r.answer \in Rejecting => ResultOf(r.turn).type # "completed"

(* Texts and user's messages are what a replay brings back.                *)
Spoken == {"text", "user"}

Heard == {i \in DOMAIN timeline.history : timeline.history[i].type \in Spoken}

(* What the agent replayed before it answered the load is what the host    *)
(* can drain, whole, in order and before anything else: the updates waited *)
(* in the bridge's buffer for a handler, and then in the actor for         *)
(* terminals.                                                              *)
ReplayWhole ==
  opening = "open" =>
    LET drained == {i \in Heard : i <= timeline.replay}
        n(i)    == timeline.history[i].n
    IN  /\ ToSet(replayed) \subseteq {n(i) : i \in drained}
        /\ \A i, j \in drained : i < j => n(i) < n(j)
        /\ \A i \in drained, m \in ToSet(replayed) :
             n(i) < m => n(i) \in ToSet(replayed)

(* A terminal the host is shown as completed has exited.  Every object a   *)
(* tool call shows can be looked up, under a tool call that shows it (two  *)
(* may show the same file or terminal), and a diff as that one shows it:   *)
(* the stores are written apart from the thread, of all the content merged *)
(* (upsertToolCall, syncDerivedSnapshots), and by the terminal operations. *)
Shows(j, tool, x, kind) ==
  /\ timeline.entries[j].key = tool
  /\ x \in Of(timeline.entries[j].content, kind)

ObjectsTrue ==
  /\ \A x \in DOMAIN timeline.terminals :
       timeline.terminals[x].status = "completed" => process[x].exit = "code"
  /\ \A i \in ToolCalls :
       /\ \A x \in Of(timeline.entries[i].content, "terminal") :
            /\ x \in DOMAIN timeline.terminals
            /\ \E j \in ToolCalls : Shows(j, timeline.terminals[x].tool, x, "terminal")
       /\ \A x \in Of(timeline.entries[i].content, "diff") :
            /\ x \in DOMAIN timeline.diffs
            /\ \E j \in ToolCalls :
                 /\ Shows(j, timeline.diffs[x].tool, x, "diff")
                 /\ timeline.entries[j].content[x].n = timeline.diffs[x].n

(* The bundle of a tool call has every object the tool call shows.         *)
BundleWhole ==
  \A i \in ToolCalls :
    LET entry  == timeline.entries[i]
        bundle == ToolCallBundle(timeline, entry.key)
    IN  /\ Of(entry.content, "terminal") \subseteq bundle.terminals
        /\ Of(entry.content, "diff") \subseteq bundle.diffs

(* The permission requests of a session are entities a host can look up by *)
(* their id: none takes the place of another.  The driver counts requests  *)
(* per turn (nextPermissionRequestId), the store is the session's.         *)
RequestsKept ==
  [][\A i \in DOMAIN timeline.requests :
       timeline'.requests[i].turn = timeline.requests[i].turn]_vars

(* A host that keeps the read model from the notifications of watch holds  *)
(* what the session holds.                                                 *)
CopyFollows == timeline.told.entries = timeline.entries

(* A turn shows only what the agent said for it (history variable from):   *)
(* an update of a turn that is over goes nowhere, and never to the next    *)
(* turn or the history.                                                    *)
UpdatesStayInTurn ==
  \A i \in DOMAIN jobs :
    jobs[i].stage # "queued" /\ jobs[i].update.from \in Turns
      => jobs[i].turn = jobs[i].update.from

(* A terminal the host has been shown as completed stays completed.        *)
CompletedStays ==
  [][\A x \in DOMAIN timeline.terminals :
       timeline.terminals[x].status = "completed"
         => timeline'.terminals[x].status = "completed"]_vars

-----------------------------------------------------------------------------
(* The inductive invariants of ThreadIsStream, EndedThreadFrozen,          *)
(* DecisionsKept, ObjectsTrue and ReplayWhole.  Types first.               *)
Statuses == ToolStatuses \cup {Absent} \cup {u.status : u \in Updates}
Objects  == {c.object : c \in Shown}
Exit     == {"unset", "none", "code"}
Reads    == UNION {[S -> Exit] : S \in SUBSET Terminals}

SessionUpdate ==
  {u \in [type : UpdateTypes, n : Nat, tool : Tools \cup {"none"}, status : Statuses,
          content : {Absent} \cup SUBSET Shown, sound : BOOLEAN,
          from : Turns \cup {NoTurn}] : u.type \in ToolTypes => u.tool \in Tools}

Inbound ==
  SessionUpdate
    \cup [type : {"permission"}, n : Nat, tool : Tools,
          options : {r.options : r \in Requests}]
    \cup [type : {"answer"}, stop : Answers]
    \cup [type : {"loaded"}]

ActorJob ==
  {j \in [update : SessionUpdate, flush : BOOLEAN,
          stage : {"queued", "reading", "read", "written"}, turn : Turns \cup {NoTurn},
          exit : Reads] :
     j.stage \in {"reading", "read"} => j.update.content # Absent}

Operation ==
  [phase : Phases \cup {"none"}, decision : {"none", "allowed", "denied"},
   asked : BOOLEAN, family : {"none", "mode_denied", "end_turn", "cancelled"},
   denied : BOOLEAN, request : Nat]

TurnState ==
  [operations : [Tools -> Operation], denied : SUBSET Tools, output : Seq(Nat),
   requests : Nat, timedOut : BOOLEAN]

Events ==
  [type : {"text", "blank_text", "thinking", "plan_updated", "usage_updated",
           "metadata_updated", "user"}, turn : TurnIds, n : Nat]
    \cup [type : {"started", "denied", "timed_out", "cancelled", "failed"},
          turn : TurnIds]
    \cup [type : {"completed"}, turn : TurnIds, output : Seq(Nat)]
    \cup [type : OperationEvents, turn : TurnIds, tool : Tools,
          operation : Operation]
    \cup [type : PermissionEvents, turn : TurnIds, tool : Tools,
          operation : Operation, request : Nat,
          phase : {"pending", "allowed", "denied"}]

Item == [kind : {c.kind : c \in Shown}, n : Nat, exit : Exit]

TextEntry ==
  [kind : {"user", "assistant", "thought", "plan"}, key : TurnIds,
   turn : TurnIds, text : Seq(Nat),
   status : {"sent", "streaming", "shown", "completed", "failed"}]

ToolEntry(e) ==
  /\ e = [kind |-> "tool", key |-> e.key, turn |-> e.turn, content |-> e.content,
          status |-> e.status]
  /\ e.key \in Tools /\ e.turn \in TurnIds /\ e.status \in Statuses
  /\ DOMAIN e.content \subseteq Objects
  /\ e.content \in [DOMAIN e.content -> Item]

Ask == [n : Nat, turn : Turns, tool : Tools, request : Nat,
        options : {r.options : r \in Requests}]

TypeOK ==
  /\ inbound \in Seq(Inbound) /\ wrote \in Nat
  /\ asked \in Turns \cup {NoTurn} /\ replayed \in Seq(Nat)
  /\ opening \in {"loading", "answered", "bootstrapped", "flushing", "open"}
  /\ buffered \in Seq(SessionUpdate) /\ jobs \in Seq(ActorJob)
  /\ current \in Turns \cup {NoTurn} /\ ended \subseteq Turns
  /\ turn \in [TurnIds -> TurnState]
  /\ stream \in [Turns -> Seq(Events)]
  /\ DOMAIN timeline = DOMAIN EmptyTimeline
  /\ timeline.entries \in Seq(ToSet(timeline.entries))
  /\ \A i \in DOMAIN timeline.entries :
       timeline.entries[i] \in TextEntry \/ ToolEntry(timeline.entries[i])
  /\ timeline.history \in Seq(Events)
  /\ timeline.replay \in Nat
  /\ asking \subseteq Ask
  /\ \A r \in told : r.turn # NoTurn => r.turn \in Turns
  /\ process \in [Terminals -> [exit : {"none", "code"}, released : BOOLEAN]]

(* One prompt and one load, each with one answer.                          *)
AnswerOk ==
  /\ asked # NoTurn => asked = current
  /\ \A i \in DOMAIN inbound :
       inbound[i].type = "answer" =>
         /\ asked = NoTurn /\ current # NoTurn
         /\ \A j \in DOMAIN inbound : inbound[j].type = "answer" => j = i
  /\ \A i \in DOMAIN inbound :
       inbound[i].type = "loaded" =>
         /\ opening = "answered"
         /\ \A j \in DOMAIN inbound : inbound[j].type = "loaded" => j = i

(* What the agent has said goes from the connection through the bridge's   *)
(* buffer and the actor to the thread, and stays in order.                 *)
Arriving  == {i \in DOMAIN inbound : inbound[i].type \in UpdateTypes}

InOrder ==
  /\ \A i \in Arriving : inbound[i].n <= wrote
  /\ \A i, j \in Arriving : i < j => inbound[i].n < inbound[j].n
  /\ \A i \in DOMAIN buffered :
       /\ buffered[i].n <= wrote
       /\ \A j \in Arriving : buffered[i].n < inbound[j].n
       /\ \A j \in DOMAIN buffered : i < j => buffered[i].n < buffered[j].n
  /\ \A i \in DOMAIN jobs :
       /\ jobs[i].update.n <= wrote
       /\ \A j \in Arriving : jobs[i].update.n < inbound[j].n
       /\ \A j \in DOMAIN jobs : i < j => jobs[i].update.n < jobs[j].update.n
  /\ HandlerSet => buffered = <<>>
  /\ ~HandlerSet => jobs = <<>>

(* What is older than all that is still to come.                           *)
Past ==
  {n \in 0..wrote : /\ \A j \in Arriving : n < inbound[j].n
                    /\ \A j \in DOMAIN buffered : n < buffered[j].n
                    /\ \A j \in DOMAIN jobs : n < jobs[j].update.n}

(* Between its two looks a job is the first, and its turn is still the     *)
(* current one, if it has one.                                             *)
WrittenOk ==
  \A i \in DOMAIN jobs :
    jobs[i].stage = "written" => i = 1 /\ jobs[i].turn \in {NoTurn, current}

Pending(t) ==
  {jobs[i].update.n : i \in {k \in DOMAIN jobs : /\ jobs[k].stage = "written"
                                               /\ jobs[k].turn = t
                                               /\ jobs[k].update.type = "text"}}

(* The output of a turn is what its stream has told; that and its thread   *)
(* are past, but for the text of a job between its two looks.              *)
Untold(t) == ToSet(ThreadText(t)) \ Told(t, Texts(t))

ThreadOf(t) ==
  LET thread == ThreadText(t)
      output == turn[t].output
  IN  /\ \A i, j \in DOMAIN thread : i < j => thread[i] < thread[j]
      /\ \A i, j \in DOMAIN output : i < j => output[i] < output[j]
      /\ \A i, j \in Chunks(t) : i < j => stream[t][i].n < stream[t][j].n
      /\ ToSet(output) = Told(t, Chunks(t))
      /\ Told(t, Chunks(t)) \subseteq Past
      /\ ToSet(thread) \subseteq Past \cup Pending(t)
      /\ Told(t, Texts(t)) \cup Pending(t) \subseteq ToSet(thread)
      /\ \A n \in Untold(t) : \A m \in ToSet(thread) : m <= n
      /\ t \notin ended => Untold(t) \subseteq Pending(t)
      /\ t \in ended => /\ stream[t] # <<>>
                        /\ Untold(t) # {} => ResultOf(t).type = "cancelled"

ThreadOk == \A t \in Turns : ThreadOf(t)

(* A turn that completed was denied nothing and tells its whole output.    *)
CompletedOk ==
  \A t \in Turns : \A i \in DOMAIN stream[t] :
    stream[t][i].type = "completed" =>
      /\ t \in ended /\ turn[t].denied = {}
      /\ stream[t][i].output = turn[t].output

IInv == TypeOK /\ AnswerOk /\ InOrder /\ WrittenOk /\ ThreadOk /\ CompletedOk

(* Each request has its one record; what the agent was told is what the    *)
(* stream and the turn's state say.                                        *)
Resolved(r) ==
  \E i \in DOMAIN stream[r.turn] :
    /\ stream[r.turn][i].type = "permission_resolved"
    /\ stream[r.turn][i].request = r.request
    /\ stream[r.turn][i].phase = "allowed"

AskedOk ==
  /\ \A r \in asking : r.request \in 1..turn[r.turn].requests
  /\ \A r \in told :
       r.turn # NoTurn => r.request \in 1..turn[r.turn].requests
  /\ \A r, q \in asking : r.turn = q.turn /\ r.request = q.request => r = q
  /\ \A r, q \in told : r.turn = q.turn /\ r.turn # NoTurn /\ r.request = q.request => r = q
  /\ \A r \in asking, q \in told : r.turn = q.turn => r.request # q.request
  /\ \A t \in Turns : \A i \in 1..turn[t].requests :
       \E r \in asking \cup told : r.turn = t /\ r.request = i

RepliesOk ==
  \A r \in told :
    /\ r.answer \in Allowing => r.turn # NoTurn /\ Resolved(r)
    /\ r.answer \in Rejecting =>
         r.turn # NoTurn /\ turn[r.turn].denied # {} /\ stream[r.turn] # <<>>

DecisionInv == IInv /\ AskedOk /\ RepliesOk

(* What was read of a terminal is true wherever it is on its way to the    *)
(* snapshots: in a job, in the host's call, in the content of a tool call  *)
(* (whose items are all written to the snapshots again by each update).    *)
KindOf(x) == (CHOOSE c \in Shown : c.object = x).kind

HasExited(x) == x \in Terminals /\ process[x].exit = "code"

ReadsTrue ==
  /\ \A i \in DOMAIN jobs : \A x \in DOMAIN jobs[i].exit :
       jobs[i].exit[x] = "code" => HasExited(x)
  /\ call # NoCall =>
       /\ call.op \in TerminalOps /\ call.terminal \in DOMAIN timeline.terminals
       /\ call.op = "wait" \/ call.exit = "code" => HasExited(call.terminal)
  /\ \A i \in ToolCalls :
       LET content == timeline.entries[i].content
       IN  \A x \in DOMAIN content :
             /\ content[x].kind = KindOf(x)
             /\ content[x].exit = "code" => HasExited(x)

SnapshotsTrue ==
  \A x \in DOMAIN timeline.terminals :
    /\ DOMAIN NewTerminal \subseteq DOMAIN timeline.terminals[x]
    /\ timeline.terminals[x].status = "completed" => HasExited(x)

ObjectsInv == IInv /\ ReadsTrue /\ SnapshotsTrue /\ ObjectsTrue

(* Until the session is open no message that was replayed is lost: it is   *)
(* on the connection, before the answer to the load, in the bridge's       *)
(* buffer, with the actor as part of the flush, or in the history.  What   *)
(* is under way or heard and was not replayed is later than all that was.  *)
Speaks(u) == u.type \in Spoken /\ u.sound

BeforeLoaded(i) ==
  \A j \in DOMAIN inbound : inbound[j].type = "loaded" => i < j

Early ==
  {inbound[i].n : i \in {k \in Arriving : /\ opening \in {"loading", "answered"}
                                         /\ Speaks(inbound[k]) /\ BeforeLoaded(k)}}
Waiting == {inbound[i].n : i \in {k \in Arriving : Speaks(inbound[k])}}
Held    == {buffered[i].n : i \in {k \in DOMAIN buffered : Speaks(buffered[k])}}
Queued  == {jobs[i].update.n : i \in {k \in DOMAIN jobs : Speaks(jobs[k].update)}}
Flushing ==
  {jobs[i].update.n : i \in {k \in DOMAIN jobs : jobs[k].flush /\ Speaks(jobs[k].update)}}
History == {timeline.history[i].n : i \in Heard}

Placed(n) ==
  \/ n \in ToSet(replayed)
  \/ opening # "loading" /\ \A m \in ToSet(replayed) : m < n

Replaying ==
  /\ current = NoTurn /\ timeline.replay = 0
  /\ ToSet(replayed) \subseteq 0..wrote \cap (Early \cup Held \cup Flushing \cup History)
  /\ \A n \in Waiting \cup Held \cup Queued \cup History : Placed(n)
  /\ History \subseteq Past
  /\ \A i, j \in Heard : i < j => timeline.history[i].n < timeline.history[j].n
  /\ \A i \in DOMAIN jobs : jobs[i].stage # "queued" =>
       /\ jobs[i].turn = NoTurn
       /\ jobs[i].update.type \in Spoken => jobs[i].update.sound

ReplayInv ==
  /\ IInv /\ (opening # "open" => Replaying)
  /\ timeline.replay <= Len(timeline.history) /\ ReplayWhole
=============================================================================
