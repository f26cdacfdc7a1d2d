------------------------ MODULE ConversationProofs ------------------------
(***************************************************************************)
(* Proofs about Conversation, in the order the argument needs them:        *)
(* the operators of UpdateMapping and SessionTimeline, the channel from    *)
(* the agent to the actor, the shapes a step can have for the turns, the   *)
(* inductive invariant, and on top of it the permission requests and the   *)
(* objects of the tool calls.                                              *)
(***************************************************************************)
EXTENDS Conversation, SequenceTheorems, FiniteSetTheorems, TLAPS
-----------------------------------------------------------------------------
(* Updates.                                                                *)
LEMMA NormalizedTyped ==
  ASSUME NEW u \in SessionUpdate
  PROVE  /\ Normalized(u) \in SessionUpdate /\ Normalized(u).n = u.n
         /\ Normalized(u).type = u.type /\ Normalized(u).tool = u.tool
         /\ Normalized(u).sound = u.sound
<1>1. /\ u \in [type : UpdateTypes, n : Nat, tool : Tools \cup {"none"},
               status : Statuses, content : {Absent} \cup SUBSET Shown,
               sound : BOOLEAN, from : Turns \cup {NoTurn}]
      /\ u.type \in ToolTypes => u.tool \in Tools
  BY DEF SessionUpdate
<1> DEFINE kept == ToolContent(u.content)
<1>2. kept \in {Absent} \cup SUBSET Shown
  BY <1>1 DEF ToolContent
<1>3. OrElse(kept, {}) \in {Absent} \cup SUBSET Shown
  BY <1>2 DEF OrElse
<1>4. ToolStatus(u.status) \in Statuses /\ OrElse(ToolStatus(u.status), "pending") \in Statuses
  BY <1>1 DEF ToolStatus, OrElse, Statuses, ToolStatuses
<1> HIDE DEF kept
<1>5. /\ ToolCall(u) \in SessionUpdate /\ ToolCall(u).n = u.n
      /\ ToolCall(u).type = u.type /\ ToolCall(u).tool = u.tool
      /\ ToolCall(u).sound = u.sound
  BY <1>1, <1>3, <1>4 DEF ToolCall, SessionUpdate, kept
<1>6. /\ ToolCallUpdate(u) \in SessionUpdate /\ ToolCallUpdate(u).n = u.n
      /\ ToolCallUpdate(u).type = u.type /\ ToolCallUpdate(u).tool = u.tool
      /\ ToolCallUpdate(u).sound = u.sound
  BY <1>1, <1>2, <1>4 DEF ToolCallUpdate, SessionUpdate, kept
<1> QED BY <1>5, <1>6 DEF Normalized

(* Any status of a tool call gives its operation a phase.                  *)
LEMMA PhaseTyped ==
  ASSUME NEW status
  PROVE  OperationPhase(status) \in Phases
BY DEF OperationPhase, Phases

(* What an operation of a turn becomes changes nothing else of the turn.   *)
LEMMA OperationChanged ==
  ASSUME NEW s \in TurnState, NEW k \in Tools, NEW op \in Operation
  PROVE  LET after == [s EXCEPT !.operations[k] = op]
         IN  /\ after \in TurnState /\ after.output = s.output
             /\ after.denied = s.denied /\ after.requests = s.requests
             /\ after.operations[k] = op
<1>1. [s.operations EXCEPT ![k] = op] \in [Tools -> Operation]
  BY DEF TurnState
<1> DEFINE ops == [s.operations EXCEPT ![k] = op]
<1>2. [s EXCEPT !.operations[k] = op] = [s EXCEPT !.operations = ops]
  BY DEF TurnState
<1>3. ops[k] = op
  BY DEF TurnState
<1> HIDE DEF ops
<1> QED BY <1>1, <1>2, <1>3 DEF TurnState, ops

(* Setting an operation's phase leaves the rest of the turn alone.         *)
LEMMA PhaseChanged ==
  ASSUME NEW s \in TurnState, NEW k \in Tools, NEW p \in Phases \cup {"none"}
  PROVE  LET after == [s EXCEPT !.operations[k].phase = p]
         IN  /\ after \in TurnState /\ after.output = s.output
             /\ after.denied = s.denied /\ after.requests = s.requests
<1> DEFINE op == [s.operations[k] EXCEPT !.phase = p]
<1>1. op \in Operation
  BY ZenonT(60) DEF TurnState, Operation
<1>2. [s EXCEPT !.operations[k].phase = p] = [s EXCEPT !.operations[k] = op]
  BY DEF TurnState
<1> HIDE DEF op
<1> QED BY <1>1, <1>2, OperationChanged

(* upsertOperation touches one operation of the turn and nothing else.     *)
LEMMA UpsertTyped ==
  ASSUME NEW s \in TurnState, NEW k \in Tools, NEW status
  PROVE  /\ UpsertOperation(s, k, status) \in TurnState
         /\ UpsertOperation(s, k, status).output = s.output
         /\ UpsertOperation(s, k, status).denied = s.denied
         /\ UpsertOperation(s, k, status).requests = s.requests
<1> DEFINE p == IF Known(s, k) /\ status = Absent THEN s.operations[k].phase
                ELSE OperationPhase(status)
<1>1. p \in Phases \cup {"none"}
  BY PhaseTyped DEF TurnState, Operation
<1>2. UpsertOperation(s, k, status) = [s EXCEPT !.operations[k].phase = p]
  BY DEF UpsertOperation, TurnState
<1> HIDE DEF p
<1> QED BY <1>1, <1>2, PhaseChanged

(* An operation's progress touches nothing of the turn but the operation.  *)
LEMMA ProgressTyped ==
  ASSUME NEW s \in TurnState, NEW k \in Tools, NEW status
  PROVE  /\ Progress(s, k, status) \in TurnState
         /\ Progress(s, k, status).output = s.output
         /\ Progress(s, k, status).denied = s.denied
         /\ Progress(s, k, status).requests = s.requests
<1> DEFINE p == IF status = Absent THEN s.operations[k].phase ELSE OperationPhase(status)
<1>1. p \in Phases \cup {"none"}
  BY PhaseTyped DEF TurnState, Operation
<1>2. Progress(s, k, status) = [s EXCEPT !.operations[k].phase = p]
  BY DEF Progress, TurnState
<1> HIDE DEF p
<1> QED BY <1>1, <1>2, PhaseChanged

(* A failure put down to a denial can only add to what was denied.         *)
LEMMA BlameTyped ==
  ASSUME NEW s \in TurnState, NEW k \in Tools, NEW mode \in BOOLEAN
  PROVE  /\ Blame(s, k, mode) \in TurnState
         /\ Blame(s, k, mode).output = s.output
         /\ s.denied \subseteq Blame(s, k, mode).denied
         /\ Blame(s, k, mode).requests = s.requests
<1> DEFINE op == s.operations[k]
           next == [op EXCEPT !.denied = TRUE, !.decision = "denied",
                      !.asked = (op.decision = "denied"),
                      !.family = IF op.decision # "denied" THEN "mode_denied"
                                 ELSE IF op.family = "none" THEN "end_turn"
                                 ELSE op.family]
<1>1. op \in Operation
  BY DEF TurnState
<1>2. next \in Operation
  <2> HIDE DEF op
  <2>1. (op.decision = "denied") \in BOOLEAN
    OBVIOUS
  <2> QED BY <1>1, <2>1 DEF Operation
<1> DEFINE mid == [s EXCEPT !.operations[k] = next]
<1>3. mid \in TurnState /\ mid.output = s.output /\ mid.denied = s.denied
      /\ mid.requests = s.requests
  <2> HIDE DEF next
  <2> QED BY <1>2, OperationChanged
<1>4. \/ Blame(s, k, mode) = s
      \/ Blame(s, k, mode) = [mid EXCEPT !.denied = @ \cup {k}]
  <2> HIDE DEF mid
  <2>1. Blame(s, k, mode) = s \/ Blame(s, k, mode) =
          [s EXCEPT !.operations[k] = next, !.denied = @ \cup {k}]
    BY DEF Blame
  <2> QED BY <2>1 DEF mid
<1> HIDE DEF mid
<1> QED BY <1>3, <1>4 DEF TurnState
-----------------------------------------------------------------------------
(* Events of a turn that say nothing of its text and do not end it.        *)
Chunk == {"text", "blank_text"}

Plain(e) == e \in Events /\ e.type \notin Chunk \cup {"user"} /\ ~IsTerminal(e)

(* What an update makes of a turn: at most one event, which is the chunk   *)
(* if the update is one.                                                   *)
Mapped(s, u, step) ==
  /\ step.state \in TurnState /\ s.denied \subseteq step.state.denied
  /\ step.state.requests = s.requests
  /\ step.state.output = IF u.type \in Chunk THEN Append(s.output, u.n) ELSE s.output
  /\ IF u.type \in Chunk
     THEN \E e \in Events : /\ step.events = <<e>> /\ e.type = u.type /\ e.n = u.n
                            /\ ~IsTerminal(e)
     ELSE step.events = <<>> \/ \E e : Plain(e) /\ step.events = <<e>>

(* An event of an operation is neither text nor terminal.                  *)
LEMMA EventTyped ==
  ASSUME NEW type \in OperationEvents, NEW id \in TurnIds, NEW s \in TurnState,
         NEW k \in Tools
  PROVE  Plain(Event(type, id, s, k))
<1>1. s.operations[k] \in Operation
  BY DEF TurnState
<1>2. Event(type, id, s, k) \in [type : OperationEvents, turn : TurnIds,
                                 tool : Tools, operation : Operation]
  BY <1>1 DEF Event
<1>3. Event(type, id, s, k) \in Events
  BY <1>2 DEF Events
<1>4. Event(type, id, s, k).type = type
  BY DEF Event
<1> QED BY <1>3, <1>4 DEF Plain, Chunk, IsTerminal, OperationEvents

(* Nor is an event of a permission request.                                *)
LEMMA PermissionTyped ==
  ASSUME NEW type \in PermissionEvents, NEW id \in TurnIds, NEW s \in TurnState,
         NEW k \in Tools, NEW r \in Nat, NEW phase \in {"pending", "allowed", "denied"}
  PROVE  LET e == PermissionEvent(type, id, s, k, r, phase)
         IN  Plain(e) /\ e.type = type /\ e.request = r /\ e.phase = phase
<1> DEFINE e == PermissionEvent(type, id, s, k, r, phase)
<1>1. s.operations[k] \in Operation
  BY DEF TurnState
<1>2. e \in [type : PermissionEvents, turn : TurnIds, tool : Tools,
             operation : Operation, request : Nat,
             phase : {"pending", "allowed", "denied"}]
  BY <1>1 DEF PermissionEvent
<1>3. e \in Events
  BY <1>2 DEF Events
<1>4. e.type = type /\ e.request = r /\ e.phase = phase
  BY DEF PermissionEvent
<1> QED BY <1>3, <1>4 DEF Plain, Chunk, IsTerminal, PermissionEvents

(* An event with nothing but a number is an event and ends no turn.        *)
LEMMA NoteTyped ==
  ASSUME NEW type \in {"text", "blank_text", "thinking", "plan_updated",
                       "usage_updated", "metadata_updated", "user"},
         NEW id \in TurnIds, NEW n \in Nat
  PROVE  LET e == [type |-> type, turn |-> id, n |-> n]
         IN  /\ e \in Events /\ e.type = type /\ e.n = n /\ ~IsTerminal(e)
BY DEF Events, IsTerminal

(* A tool call update is mapped to one plain event, and counts no request. *)
LEMMA ToolUpdateMapped ==
  ASSUME NEW id \in TurnIds, NEW s \in TurnState, NEW u \in SessionUpdate,
         u.type \in ToolTypes, ModeDenies \in BOOLEAN
  PROVE  Mapped(s, u, MapToolCallUpdate(id, s, u, ModeDenies))
<1>1. u.tool \in Tools /\ u.type \notin Chunk
  BY DEF SessionUpdate, ToolTypes, Chunk
<1>2. CASE ~Known(s, u.tool)
  BY <1>1, <1>2 DEF Mapped, MapToolCallUpdate, Outcome
<1>3. CASE Known(s, u.tool)
  <2> DEFINE mid == Progress(s, u.tool, u.status)
             after == Blame(mid, u.tool, ModeDenies)
             phase == after.operations[u.tool].phase
             type  == CASE phase = "completed" -> "operation_completed"
                        [] phase = "failed" -> "operation_failed"
                        [] OTHER -> "operation_updated"
  <2>1. mid \in TurnState /\ mid.output = s.output /\ mid.denied = s.denied
        /\ mid.requests = s.requests
    BY <1>1, ProgressTyped
  <2> HIDE DEF mid
  <2>2. after \in TurnState /\ after.output = s.output /\ s.denied \subseteq after.denied
        /\ after.requests = s.requests
    BY <1>1, <2>1, BlameTyped
  <2> HIDE DEF after
  <2>4. type \in OperationEvents
    BY DEF OperationEvents
  <2> HIDE DEF type
  <2>5. Plain(Event(type, id, after, u.tool))
    BY <1>1, <2>2, <2>4, EventTyped
  <2>6. MapToolCallUpdate(id, s, u, ModeDenies)
          = Outcome(after, <<Event(type, id, after, u.tool)>>)
    BY <1>3 DEF MapToolCallUpdate, after, mid, type
  <2> HIDE DEF phase
  <2> QED BY <1>1, <2>2, <2>5, <2>6 DEF Mapped, Outcome
<1> QED BY <1>2, <1>3
-----------------------------------------------------------------------------
(* Every update is mapped to at most one event: the chunk for a chunk of   *)
(* the message, and nothing that ends the turn or says anything for any    *)
(* other update.                                                           *)
LEMMA UpdateMapped ==
  ASSUME NEW id \in TurnIds, NEW s \in TurnState, NEW u \in SessionUpdate,
         ModeDenies \in BOOLEAN
  PROVE  Mapped(s, u, MapUpdate(id, s, u, ModeDenies))
<1>0. u.n \in Nat /\ u.type \in UpdateTypes
  BY DEF SessionUpdate
<1>1. CASE u.type \in Chunk
  <2> DEFINE e == [type |-> u.type, turn |-> id, n |-> u.n]
             next == [s EXCEPT !.output = Append(@, u.n)]
  <2>1. MapUpdate(id, s, u, ModeDenies) = Outcome(next, <<e>>)
    BY <1>1 DEF MapUpdate, ChunkOutput, MetadataTypes, Chunk
  <2>2. e \in Events /\ e.type = u.type /\ e.n = u.n /\ ~IsTerminal(e)
    BY <1>0, <1>1, NoteTyped DEF Chunk
  <2>3. /\ next \in TurnState /\ next.denied = s.denied /\ next.requests = s.requests
        /\ next.output = Append(s.output, u.n)
    <3> DEFINE more == Append(s.output, u.n)
    <3>1. more \in Seq(Nat)
      BY <1>0 DEF TurnState
    <3>2. next = [s EXCEPT !.output = more]
      OBVIOUS
    <3> HIDE DEF more
    <3>3. /\ [s EXCEPT !.output = more] \in TurnState
          /\ [s EXCEPT !.output = more].denied = s.denied
          /\ [s EXCEPT !.output = more].requests = s.requests
          /\ [s EXCEPT !.output = more].output = more
      BY <3>1 DEF TurnState
    <3> HIDE DEF next
    <3> QED BY <3>2, <3>3 DEF more
  <2> HIDE DEF e, next
  <2> QED BY <1>1, <2>1, <2>2, <2>3 DEF Mapped, Outcome
<1>2. CASE u.type \in {"thought", "blank_thought", "plan", "usage"} \cup MetadataTypes
  <2> DEFINE type == CASE u.type \in {"thought", "blank_thought"} -> "thinking"
                       [] u.type = "plan" -> "plan_updated"
                       [] u.type = "usage" -> "usage_updated"
                       [] OTHER -> "metadata_updated"
             e == [type |-> type, turn |-> id, n |-> u.n]
  <2>1. type \in {"thinking", "plan_updated", "usage_updated", "metadata_updated"}
    OBVIOUS
  <2>2. MapUpdate(id, s, u, ModeDenies) = Outcome(s, <<e>>)
    BY <1>2 DEF MapUpdate, MetadataTypes
  <2> HIDE DEF type
  <2>3. Plain(e)
    BY <1>0, <2>1, NoteTyped DEF Plain, Chunk
  <2>4. u.type \notin Chunk
    BY <1>2 DEF MetadataTypes, Chunk
  <2> HIDE DEF e
  <2> QED BY <2>2, <2>3, <2>4 DEF Mapped, Outcome
<1>3. CASE u.type = "tool_call"
  <2> DEFINE after == UpsertOperation(s, u.tool, u.status)
  <2>1. u.tool \in Tools
    BY <1>3 DEF SessionUpdate, ToolTypes
  <2>2. MapUpdate(id, s, u, ModeDenies)
          = Outcome(after, <<Event("operation_started", id, after, u.tool)>>)
    BY <1>3 DEF MapUpdate, MetadataTypes
  <2>3. after \in TurnState /\ after.output = s.output /\ after.denied = s.denied
        /\ after.requests = s.requests
    BY <2>1, UpsertTyped
  <2> HIDE DEF after
  <2>4. Plain(Event("operation_started", id, after, u.tool))
    BY <2>1, <2>3, EventTyped DEF OperationEvents
  <2> QED BY <1>3, <2>2, <2>3, <2>4 DEF Mapped, Outcome, Chunk
<1>4. CASE u.type = "tool_call_update"
  <2>1. MapUpdate(id, s, u, ModeDenies) = MapToolCallUpdate(id, s, u, ModeDenies)
    BY <1>4 DEF MapUpdate, MetadataTypes
  <2> QED BY <1>4, <2>1, ToolUpdateMapped DEF ToolTypes
<1>5. CASE u.type = "user"
  <2>1. MapUpdate(id, s, u, ModeDenies) = Outcome(s, <<>>)
    BY <1>5 DEF MapUpdate, MetadataTypes
  <2> QED BY <1>5, <2>1 DEF Mapped, Outcome, Chunk
<1> QED
  BY <1>0, <1>1, <1>2, <1>3, <1>4, <1>5
     DEF UpdateTypes, ChunkTypes, BlankTypes, ToolTypes, MetadataTypes, Chunk

(* A permission request is the turn's next, and its operation waits.       *)
LEMMA RequestTyped ==
  ASSUME NEW s \in TurnState, NEW k \in Tools
  PROVE  /\ RequestPermission(s, k, Absent) \in TurnState
         /\ RequestPermission(s, k, Absent).output = s.output
         /\ RequestPermission(s, k, Absent).denied = s.denied
         /\ RequestPermission(s, k, Absent).requests = s.requests + 1
<1> DEFINE known == UpsertOperation(s, k, OrElse(Absent, "pending"))
           next == s.requests + 1
           op == [known.operations[k] EXCEPT !.phase = "awaiting_permission",
                                             !.asked = TRUE, !.request = next]
           mid == [known EXCEPT !.operations[k] = op]
<1>1. known \in TurnState /\ known.output = s.output /\ known.denied = s.denied
  BY UpsertTyped
<1>2. RequestPermission(s, k, Absent) = [known EXCEPT !.operations[k] = op, !.requests = next]
  <2> HIDE DEF known, next
  <2>1. RequestPermission(s, k, Absent) =
          [known EXCEPT !.operations[k] =
             [@ EXCEPT !.phase = "awaiting_permission", !.asked = TRUE, !.request = next],
             !.requests = next]
    BY DEF RequestPermission, known, next
  <2> QED BY <1>1, <2>1 DEF TurnState
<1> HIDE DEF known
<1>3. next \in Nat
  BY DEF TurnState
<1> HIDE DEF next
<1>4. op \in Operation
  <2>1. known.operations[k] \in Operation
    BY <1>1 DEF TurnState
  <2> QED BY <1>3, <2>1 DEF Operation, Phases
<1> HIDE DEF op
<1>5. mid \in TurnState /\ mid.output = known.output /\ mid.denied = known.denied
  BY <1>1, <1>4, OperationChanged
<1>6. RequestPermission(s, k, Absent) = [mid EXCEPT !.requests = next]
  BY <1>1, <1>2 DEF TurnState
<1> HIDE DEF mid
<1> QED BY <1>1, <1>3, <1>5, <1>6 DEF TurnState, next

(* A decision keeps the turn's output, and a denial is remembered.         *)
LEMMA DecisionTyped ==
  ASSUME NEW s \in TurnState, NEW k \in Tools, NEW d \in {"allowed", "denied"}
  PROVE  /\ ApplyDecision(s, k, d) \in TurnState
         /\ ApplyDecision(s, k, d).output = s.output
         /\ s.denied \subseteq ApplyDecision(s, k, d).denied
         /\ d = "denied" => ApplyDecision(s, k, d).denied # {}
         /\ ApplyDecision(s, k, d).requests = s.requests
<1> DEFINE op == [s.operations[k] EXCEPT !.decision = d, !.asked = TRUE,
                    !.denied = s.operations[k].denied \/ d = "denied"]
           mid == [s EXCEPT !.operations[k] = op]
           gone == IF d = "denied" THEN s.denied \cup {k} ELSE s.denied
<1>1. s.operations[k] \in Operation
  BY DEF TurnState
<1>2. op \in Operation
  <2> DEFINE o == s.operations[k]
  <2> HIDE DEF o
  <2>1. (o.denied \/ d = "denied") \in BOOLEAN
    OBVIOUS
  <2>2. [o EXCEPT !.decision = d, !.asked = TRUE, !.denied = o.denied \/ d = "denied"]
          \in Operation
    BY <1>1, <2>1 DEF Operation, o
  <2> QED BY <2>2 DEF o
<1>3. ApplyDecision(s, k, d) = [mid EXCEPT !.denied = gone]
  <2>1. ApplyDecision(s, k, d) =
          [s EXCEPT !.operations[k] = op,
                    !.denied = IF d = "denied" THEN @ \cup {k} ELSE @]
    BY DEF ApplyDecision
  <2> QED BY <2>1 DEF TurnState
<1> HIDE DEF op
<1>4. mid \in TurnState /\ mid.output = s.output /\ mid.denied = s.denied
      /\ mid.requests = s.requests
  BY <1>2, OperationChanged
<1>5. gone \subseteq Tools /\ s.denied \subseteq gone /\ (d = "denied" => gone # {})
  BY DEF TurnState
<1> HIDE DEF mid, gone
<1> QED BY <1>3, <1>4, <1>5 DEF TurnState

(* The agent is told to go ahead only for "allowed".                       *)
LEMMA AnswerFits ==
  ASSUME NEW options, NEW d \in {"allowed", "denied"}, NEW scope
  PROVE  /\ PermissionAnswer(options, d, scope) \in Allowing => d = "allowed"
         /\ PermissionAnswer(options, d, scope) \in Rejecting => d = "denied"
<1>1. CASE d = "denied"
  BY <1>1 DEF PermissionAnswer, Preferred, Allowing, Rejecting
<1>2. CASE d = "allowed"
  BY <1>2 DEF PermissionAnswer, Preferred, Allowing, Rejecting
<1> QED BY <1>1, <1>2
-----------------------------------------------------------------------------
(* A finite set listed in some order.                                      *)
LEMMA SetListed ==
  ASSUME NEW S, IsFiniteSet(S)
  PROVE  SetToSeq(S) \in Seq(S)
<1> DEFINE n == Cardinality(S)
<1>1. n \in Nat
  BY FS_CardinalityType
<1>2. ExistsBijection(1..n, S)
  <2>1. PICK m \in Nat : ExistsBijection(1..m, S)
    BY FS_NatBijection
  <2>2. m = n
    BY <2>1, FS_CountingElements
  <2> QED BY <2>1, <2>2
<1>3. \E f \in [1..n -> S] : IsInjective(f)
  BY <1>2 DEF ExistsBijection, Bijection, Injection, IsInjective
<1>4. SetToSeq(S) \in [1..n -> S]
  BY <1>3 DEF SetToSeq
<1> QED BY <1>1, <1>4

(* Closing the denied operations keeps output, denials and requests.       *)
LEMMA FinalTyped ==
  ASSUME NEW s \in TurnState, NEW stop
  PROVE  /\ FinalizeDenied(s, stop) \in TurnState
         /\ FinalizeDenied(s, stop).output = s.output
         /\ FinalizeDenied(s, stop).denied = s.denied
         /\ FinalizeDenied(s, stop).requests = s.requests
<1> DEFINE ops == [t \in Tools |-> FinalOperation(s.operations[t], stop)]
<1>1. ASSUME NEW op \in Operation PROVE FinalOperation(op, stop) \in Operation
  <2>1. FinalPhase(op, stop) \in Phases \cup {"none"}
    BY DEF FinalPhase, Operation, Phases
  <2>2. Family(stop) \in {"cancelled", "end_turn"}
    BY DEF Family
  <2> QED BY <2>1, <2>2 DEF FinalOperation, Operation
<1>2. ops \in [Tools -> Operation]
  BY <1>1 DEF TurnState
<1>3. FinalizeDenied(s, stop) = [s EXCEPT !.operations = ops]
  BY DEF FinalizeDenied, TurnState
<1> HIDE DEF ops
<1> QED BY <1>2, <1>3 DEF TurnState

(* The answer to a prompt ends the turn as the last of its events, and as  *)
(* completed only if nothing of it was denied.                             *)
LEMMA FinalizeTyped ==
  ASSUME NEW id \in TurnIds, NEW s \in TurnState, NEW stop
  PROVE  LET r == FinalizePrompt(id, s, stop)
             n == Len(r.events)
         IN  /\ r.state \in TurnState /\ r.state.output = s.output
             /\ r.state.denied = s.denied /\ r.state.requests = s.requests
             /\ r.events \in Seq(Events) /\ n \in Nat \ {0}
             /\ \A i \in 1..(n - 1) : Plain(r.events[i])
             /\ IsTerminal(r.events[n])
             /\ r.events[n].type = "completed" =>
                  s.denied = {} /\ r.events[n].output = s.output
<1> DEFINE after == FinalizeDenied(s, stop)
           some == {t \in DOMAIN s.operations : after.operations[t] # s.operations[t]}
           changed == SetToSeq(some)
           updates == [i \in DOMAIN changed |->
                         Event("operation_updated", id, after, changed[i])]
           result == TurnResult(s, stop)
           last == IF result = "completed"
                   THEN [type |-> result, turn |-> id, output |-> s.output]
                   ELSE [type |-> result, turn |-> id]
<1>1. after \in TurnState /\ after.output = s.output /\ after.denied = s.denied
      /\ after.requests = s.requests
  BY FinalTyped
<1> HIDE DEF after
<1>2. some \subseteq Tools /\ IsFiniteSet(some)
  BY ConversationAssumption, FS_Subset DEF TurnState
<1> HIDE DEF some
<1>3. changed \in Seq(some)
  BY <1>2, SetListed
<1> HIDE DEF changed
<1>4. DOMAIN changed = 1..Len(changed) /\ Len(changed) \in Nat
      /\ \A i \in DOMAIN changed : changed[i] \in Tools
  BY <1>2, <1>3
<1>5. \A i \in DOMAIN changed : Plain(Event("operation_updated", id, after, changed[i]))
  BY <1>1, <1>4, EventTyped DEF OperationEvents
<1>6. updates \in [1..Len(changed) -> Events]
  BY <1>4, <1>5 DEF Plain
<1>7. updates \in Seq(Events) /\ Len(updates) = Len(changed)
      /\ \A i \in 1..Len(updates) : Plain(updates[i])
  BY <1>4, <1>5, <1>6
<1> HIDE DEF updates
<1>8. result \in {"denied", "timed_out", "cancelled", "completed"}
      /\ (result = "completed" => s.denied = {})
  BY DEF TurnResult
<1> HIDE DEF result
<1>9. last \in Events /\ IsTerminal(last) /\ (last.type = "completed" =>
        result = "completed" /\ last.output = s.output)
  <2>1. CASE result = "completed"
    <3>1. last \in [type : {"completed"}, turn : TurnIds, output : Seq(Nat)]
      BY <2>1 DEF TurnState
    <3> QED BY <2>1, <3>1 DEF Events, IsTerminal
  <2>2. CASE result # "completed"
    <3>1. last \in [type : {"started", "denied", "timed_out", "cancelled", "failed"},
                    turn : TurnIds]
      BY <1>8, <2>2
    <3>2. last \in Events
      BY <3>1 DEF Events
    <3> QED BY <1>8, <2>2, <3>2 DEF IsTerminal
  <2> QED BY <2>1, <2>2
<1> HIDE DEF last
<1> DEFINE events == Append(updates, last)
<1>10. /\ events \in Seq(Events) /\ Len(events) = Len(updates) + 1
       /\ \A i \in 1..Len(updates) : events[i] = updates[i]
       /\ events[Len(updates) + 1] = last
  BY <1>7, <1>9
<1>11. Len(updates) \in Nat
  BY <1>7
<1>12. FinalizePrompt(id, s, stop) = Outcome(after, events)
  BY DEF FinalizePrompt, after, changed, some, updates, result, last
<1> HIDE DEF events
<1>13. FinalizePrompt(id, s, stop).state = after /\ FinalizePrompt(id, s, stop).events = events
  BY <1>12 DEF Outcome
<1> QED BY <1>1, <1>7, <1>8, <1>9, <1>10, <1>11, <1>13
-----------------------------------------------------------------------------
(* The thread.                                                             *)
EntryOk(e) == e \in TextEntry \/ ToolEntry(e)

ThreadTyped(tl) ==
  /\ DOMAIN tl = DOMAIN EmptyTimeline
  /\ tl.entries \in Seq(ToSet(tl.entries))
  /\ \A i \in DOMAIN tl.entries : EntryOk(tl.entries[i])

TextIn(tl, t) ==
  LET i == Position(tl, "assistant", t)
  IN  IF i = 0 THEN <<>> ELSE tl.entries[i].text

IsText(e, t) == e.kind \in {"assistant", "thought", "plan"} /\ e.key = t

Frozen(tl, after, t) ==
  /\ \A i \in DOMAIN tl.entries :
       i \in DOMAIN after.entries
         /\ (IsText(tl.entries[i], t) \/ IsText(after.entries[i], t)
               => after.entries[i] = tl.entries[i])
  /\ \A i \in DOMAIN after.entries :
       IsText(after.entries[i], t) => i \in DOMAIN tl.entries

(* The fields of a timeline.                                               *)
LEMMA FieldsOfTimeline ==
  DOMAIN EmptyTimeline =
    {"entries", "history", "replay", "drained", "operations", "requests",
     "terminals", "diffs", "told"}
BY DEF EmptyTimeline

(* Where the entries of a kind and key are decides which is found.         *)
At(tl, kind, key) ==
  {i \in DOMAIN tl.entries : tl.entries[i].kind = kind /\ tl.entries[i].key = key}

(* Position depends on the indices of the kind and key alone.              *)
LEMMA SamePosition ==
  ASSUME NEW tl, NEW after, NEW kind, NEW key,
         At(after, kind, key) = At(tl, kind, key)
  PROVE  Position(after, kind, key) = Position(tl, kind, key)
<1> DEFINE Chosen(s) == IF s = {} THEN 0 ELSE CHOOSE i \in s : TRUE
<1>1. \A x : Position(x, kind, key) = Chosen(At(x, kind, key))
  BY DEF Position, At
<1> HIDE DEF Chosen
<1> QED BY <1>1

(* A thread that is frozen for a turn has the text it had.                 *)
LEMMA FrozenText ==
  ASSUME NEW tl, NEW after, NEW t, Frozen(tl, after, t)
  PROVE  TextIn(after, t) = TextIn(tl, t)
<1> DEFINE at(x) == {i \in DOMAIN x.entries :
                       x.entries[i].kind = "assistant" /\ x.entries[i].key = t}
<1>1. at(after) = at(tl)
  BY DEF Frozen, IsText
<1>2. Position(after, "assistant", t) = Position(tl, "assistant", t)
  BY <1>1, SamePosition DEF At
<1>3. at(tl) # {} => Position(tl, "assistant", t) \in at(tl)
  BY DEF Position
<1>4. at(tl) = {} => Position(tl, "assistant", t) = 0
  BY DEF Position
<1>5. CASE at(tl) = {}
  BY <1>2, <1>4, <1>5 DEF TextIn
<1>6. CASE at(tl) # {}
  <2> DEFINE p == Position(tl, "assistant", t)
  <2>1. p \in DOMAIN tl.entries /\ IsText(tl.entries[p], t)
    BY <1>3, <1>6 DEF IsText
  <2>2. after.entries[p] = tl.entries[p]
    BY <2>1 DEF Frozen
  <2> QED BY <1>2, <2>2 DEF TextIn
<1> QED BY <1>5, <1>6

(* The same entries are frozen.                                            *)
LEMMA FrozenSame ==
  ASSUME NEW tl, NEW after, NEW t, after.entries = tl.entries
  PROVE  Frozen(tl, after, t)
BY DEF Frozen

(* Two steps that each leave a turn's entries alone do so together.        *)
LEMMA FrozenTwice ==
  ASSUME NEW a, NEW b, NEW c, NEW t, Frozen(a, b, t), Frozen(b, c, t)
  PROVE  Frozen(a, c, t)
BY DEF Frozen
-----------------------------------------------------------------------------
(* Sequences of anything.                                                  *)
LEMMA AppendAny ==
  ASSUME NEW s, s \in Seq(ToSet(s)), NEW e
  PROVE  LET a == Append(s, e)
         IN  /\ a \in Seq(ToSet(a)) /\ Len(s) \in Nat /\ DOMAIN s = 1..Len(s)
             /\ Len(a) = Len(s) + 1
             /\ DOMAIN a = 1..(Len(s) + 1)
             /\ \A i \in 1..Len(s) : a[i] = s[i]
             /\ a[Len(s) + 1] = e
<1> DEFINE T == ToSet(s) \cup {e}
           a == Append(s, e)
<1>1. s \in Seq(T)
  BY SeqMonotonic
<1> HIDE DEF T
<1>2. e \in T
  BY DEF T
<1>3. /\ a \in Seq(T) /\ Len(s) \in Nat /\ DOMAIN s = 1..Len(s) /\ Len(a) = Len(s) + 1
      /\ DOMAIN a = 1..Len(a)
      /\ \A i \in 1..Len(s) : a[i] = s[i]
      /\ a[Len(s) + 1] = e
  BY <1>1, <1>2
<1> HIDE DEF a
<1>4. a \in [1..Len(a) -> ToSet(a)]
  BY <1>3 DEF ToSet
<1>5. a \in Seq(ToSet(a))
  BY <1>3, <1>4
<1> QED BY <1>3, <1>5 DEF a

(* A function on the indices of a sequence is a sequence of its length.    *)
LEMMA SameIndices ==
  ASSUME NEW s, s \in Seq(ToSet(s)), NEW f, f = [i \in DOMAIN s |-> f[i]]
  PROVE  /\ f \in Seq(ToSet(f)) /\ Len(f) = Len(s) /\ DOMAIN f = DOMAIN s
         /\ DOMAIN s = 1..Len(s) /\ Len(s) \in Nat
<1>1. DOMAIN s = 1..Len(s) /\ Len(s) \in Nat
  OBVIOUS
<1>2. DOMAIN f = 1..Len(s)
  BY <1>1
<1>3. f \in [1..Len(s) -> ToSet(f)]
  BY <1>1, <1>2 DEF ToSet
<1>4. f \in Seq(ToSet(f))
  BY <1>1, <1>3
<1> QED BY <1>1, <1>2, <1>4

(* A position is that of an entry of the kind, if there is one.            *)
LEMMA PositionFits ==
  ASSUME NEW tl, NEW kind, NEW key, ThreadTyped(tl)
  PROVE  LET p == Position(tl, kind, key)
         IN  /\ p = 0 => \A i \in DOMAIN tl.entries :
                           ~(tl.entries[i].kind = kind /\ tl.entries[i].key = key)
             /\ p # 0 => /\ p \in DOMAIN tl.entries
                         /\ tl.entries[p].kind = kind /\ tl.entries[p].key = key
<1> DEFINE at == {i \in DOMAIN tl.entries :
                    tl.entries[i].kind = kind /\ tl.entries[i].key = key}
           p == Position(tl, kind, key)
<1>1. DOMAIN tl.entries = 1..Len(tl.entries) /\ Len(tl.entries) \in Nat
  BY DEF ThreadTyped
<1>2. CASE at = {}
  <2>1. p = 0
    BY <1>2 DEF Position
  <2> QED BY <1>2, <2>1
<1>3. CASE at # {}
  <2>1. p \in at
    BY <1>3 DEF Position
  <2>2. p # 0
    BY <1>1, <2>1
  <2> QED BY <2>1, <2>2
<1> QED BY <1>2, <1>3
-----------------------------------------------------------------------------
(* The entry of a tool call has the kind of one.                           *)
LEMMA ToolKind ==
  ASSUME NEW e, ToolEntry(e)
  PROVE  e.kind = "tool"
<1>1. e = [kind |-> "tool", key |-> e.key, turn |-> e.turn, content |-> e.content,
           status |-> e.status]
  BY DEF ToolEntry
<1> DEFINE F(a, b, c, d) == [kind |-> "tool", key |-> a, turn |-> b, content |-> c,
                             status |-> d]
<1>2. \A a, b, c, d : F(a, b, c, d).kind = "tool"
  OBVIOUS
<1>3. e = F(e.key, e.turn, e.content, e.status)
  BY <1>1
<1> HIDE DEF F
<1> QED BY <1>2, <1>3

(* One more entry at the end of the thread.                                *)
LEMMA Added ==
  ASSUME NEW tl, NEW after, NEW e, ThreadTyped(tl), EntryOk(e),
         DOMAIN after = DOMAIN tl, after.entries = Append(tl.entries, e)
  PROVE  /\ ThreadTyped(after)
         /\ \A t : ~IsText(e, t) => Frozen(tl, after, t)
         /\ \A t : ~(e.kind = "assistant" /\ e.key = t) =>
                     TextIn(after, t) = TextIn(tl, t)
<1> DEFINE n == Len(tl.entries)
           a == after.entries
<1>1. /\ a \in Seq(ToSet(a)) /\ n \in Nat /\ DOMAIN tl.entries = 1..n
      /\ DOMAIN a = 1..(n + 1)
      /\ \A i \in 1..n : a[i] = tl.entries[i]
      /\ a[n + 1] = e
  BY AppendAny DEF ThreadTyped
<1>2. ThreadTyped(after)
  BY <1>1 DEF ThreadTyped
<1>3. ASSUME NEW t, ~IsText(e, t) PROVE Frozen(tl, after, t)
  BY <1>1, <1>3 DEF Frozen
<1>4. ASSUME NEW t, ~(e.kind = "assistant" /\ e.key = t)
      PROVE  TextIn(after, t) = TextIn(tl, t)
  <2>1. At(after, "assistant", t) = At(tl, "assistant", t)
    BY <1>1, <1>4 DEF At
  <2>2. Position(after, "assistant", t) = Position(tl, "assistant", t)
    BY <2>1, SamePosition
  <2>3. Position(tl, "assistant", t) # 0 => Position(tl, "assistant", t) \in 1..n
    BY <1>1, PositionFits
  <2> QED BY <1>1, <2>2, <2>3 DEF TextIn
<1> QED BY <1>2, <1>3, <1>4

(* A new assistant entry is the one whose text is then found.              *)
LEMMA AddedText ==
  ASSUME NEW tl, NEW after, NEW e, NEW t, ThreadTyped(tl), EntryOk(e),
         DOMAIN after = DOMAIN tl, after.entries = Append(tl.entries, e),
         e.kind = "assistant", e.key = t, Position(tl, "assistant", t) = 0
  PROVE  TextIn(after, t) = e.text
<1> DEFINE n == Len(tl.entries)
           a == after.entries
<1>1. /\ n \in Nat /\ DOMAIN tl.entries = 1..n /\ DOMAIN a = 1..(n + 1)
      /\ \A i \in 1..n : a[i] = tl.entries[i]
      /\ a[n + 1] = e
  BY AppendAny DEF ThreadTyped
<1>2. ThreadTyped(after)
  BY Added
<1>3. At(tl, "assistant", t) = {}
  BY PositionFits DEF At
<1>4. At(after, "assistant", t) = {n + 1}
  BY <1>1, <1>3 DEF At
<1>5. Position(after, "assistant", t) = n + 1
  BY <1>4, PositionFits, <1>2 DEF At
<1> QED BY <1>1, <1>5 DEF TextIn

(* One entry changed, with the kind and key it had.                        *)
LEMMA Changed ==
  ASSUME NEW tl, NEW after, NEW e, NEW p \in DOMAIN tl.entries, ThreadTyped(tl),
         EntryOk(e), e.kind = tl.entries[p].kind, e.key = tl.entries[p].key,
         DOMAIN after = DOMAIN tl, after.entries = [tl.entries EXCEPT ![p] = e]
  PROVE  /\ ThreadTyped(after)
         /\ \A t : ~IsText(e, t) => Frozen(tl, after, t)
         /\ \A t : Position(tl, "assistant", t) # p => TextIn(after, t) = TextIn(tl, t)
         /\ \A t : Position(tl, "assistant", t) = p => TextIn(after, t) = e.text
<1> DEFINE n == Len(tl.entries)
           a == after.entries
<1>0. a = [i \in DOMAIN tl.entries |-> a[i]]
  OBVIOUS
<1>1. /\ a \in Seq(ToSet(a)) /\ n \in Nat /\ DOMAIN tl.entries = 1..n
      /\ DOMAIN a = 1..n
  BY <1>0, SameIndices DEF ThreadTyped
<1>2. a[p] = e /\ \A i \in 1..n : i # p => a[i] = tl.entries[i]
  BY <1>1
<1>3. ThreadTyped(after)
  BY <1>1, <1>2 DEF ThreadTyped
<1>4. ASSUME NEW t, ~IsText(e, t) PROVE Frozen(tl, after, t)
  BY <1>1, <1>2, <1>4 DEF Frozen, IsText
<1>5. ASSUME NEW t PROVE Position(after, "assistant", t) = Position(tl, "assistant", t)
  <2>1. At(after, "assistant", t) = At(tl, "assistant", t)
    BY <1>1, <1>2 DEF At
  <2> QED BY <2>1, SamePosition
<1>6. ASSUME NEW t
      PROVE  Position(tl, "assistant", t) # 0 => Position(tl, "assistant", t) \in 1..n
  BY <1>1, PositionFits
<1>7. p # 0
  BY <1>1
<1>8. ASSUME NEW t, Position(tl, "assistant", t) # p PROVE TextIn(after, t) = TextIn(tl, t)
  BY <1>2, <1>5, <1>6, <1>8 DEF TextIn
<1>9. ASSUME NEW t, Position(tl, "assistant", t) = p PROVE TextIn(after, t) = e.text
  BY <1>2, <1>5, <1>7, <1>9 DEF TextIn
<1> QED BY <1>3, <1>4, <1>8, <1>9

(* What is written about one turn leaves the others' entries alone.        *)
WrittenOf(tl, after, id) ==
  /\ ThreadTyped(after) /\ after.history = tl.history /\ after.replay = tl.replay
  /\ \A t : t # id => Frozen(tl, after, t)

(* A user's message changes nothing the agent has said.                    *)
LEMMA UserAdded ==
  ASSUME NEW tl, ThreadTyped(tl), NEW id \in TurnIds, NEW n \in Nat
  PROVE  /\ ThreadTyped(AddUser(tl, id, n)) /\ AddUser(tl, id, n).history = tl.history
         /\ AddUser(tl, id, n).replay = tl.replay
         /\ \A t : Frozen(tl, AddUser(tl, id, n), t)
<1> DEFINE e == Message("user", id, <<n>>, "sent")
           after == AddUser(tl, id, n)
<1>1. e.kind = "user" /\ e \in TextEntry
  BY DEF Message, TextEntry
<1>2. /\ DOMAIN after = DOMAIN tl /\ after.entries = Append(tl.entries, e)
      /\ after.history = tl.history /\ after.replay = tl.replay
  BY FieldsOfTimeline DEF AddUser, AddEntry, ThreadTyped
<1>3. \A t : ~IsText(e, t)
  BY <1>1 DEF IsText
<1> HIDE DEF e, after
<1>4. EntryOk(e)
  BY <1>1 DEF EntryOk
<1>5. ThreadTyped(after) /\ \A t : Frozen(tl, after, t)
  BY <1>2, <1>3, <1>4, Added
<1> QED BY <1>2, <1>5 DEF after

(* A text or a thought is put at the end of the entry of its own turn, and *)
(* changes no other turn's.                                                *)
LEMMA TextUpserted ==
  ASSUME NEW tl, ThreadTyped(tl), NEW id \in TurnIds, NEW n \in Nat,
         NEW kind \in {"assistant", "thought"}
  PROVE  LET after == UpsertText(tl, kind, id, n)
         IN  /\ WrittenOf(tl, after, id)
             /\ TextIn(after, id) = IF kind = "assistant" THEN Append(TextIn(tl, id), n)
                                    ELSE TextIn(tl, id)
<1> DEFINE after == UpsertText(tl, kind, id, n)
           p == Position(tl, kind, id)
<1>1. CASE p = 0
  <2> DEFINE e == Message(kind, id, <<n>>, "streaming")
  <2>1. e.kind = kind /\ e.key = id /\ e.text = <<n>> /\ e \in TextEntry
    BY DEF Message, TextEntry
  <2>2. after = AddEntry(tl, e)
    BY <1>1 DEF UpsertText
  <2> HIDE DEF e, after
  <2>3. /\ DOMAIN after = DOMAIN tl /\ after.entries = Append(tl.entries, e)
        /\ after.history = tl.history /\ after.replay = tl.replay
    BY <2>2, FieldsOfTimeline DEF AddEntry, ThreadTyped
  <2>4. EntryOk(e) /\ \A t : t # id => ~IsText(e, t)
    BY <2>1 DEF EntryOk, IsText
  <2>5. WrittenOf(tl, after, id)
    BY <2>3, <2>4, Added DEF WrittenOf
  <2>6. ASSUME kind = "assistant" PROVE TextIn(after, id) = <<n>> /\ TextIn(tl, id) = <<>>
    <3>1. Position(tl, "assistant", id) = 0
      BY <1>1, <2>6
    <3>2. TextIn(tl, id) = <<>>
      BY <3>1 DEF TextIn
    <3>3. e.kind = "assistant" /\ e.key = id
      BY <2>1, <2>6
    <3>4. TextIn(after, id) = e.text
      <4>1. EntryOk(e) /\ DOMAIN after = DOMAIN tl /\ after.entries = Append(tl.entries, e)
        BY <2>3, <2>4
      <4> QED BY <3>1, <3>3, <4>1, AddedText
    <3> QED BY <2>1, <3>2, <3>4
  <2>7. kind # "assistant" => TextIn(after, id) = TextIn(tl, id)
    BY <2>1, <2>3, <2>4, Added, SMTT(40)
  <2>8. Append(<<>>, n) = <<n>>
    OBVIOUS
  <2> QED BY <2>5, <2>6, <2>7, <2>8 DEF after
<1>2. CASE p # 0
  <2>1. p \in DOMAIN tl.entries /\ tl.entries[p].kind = kind /\ tl.entries[p].key = id
    BY <1>2, PositionFits
  <2>2. tl.entries[p] \in TextEntry
    <3>1. EntryOk(tl.entries[p])
      BY <2>1 DEF ThreadTyped
    <3>2. ASSUME ToolEntry(tl.entries[p]) PROVE tl.entries[p].kind = "tool"
      BY <3>2, ToolKind
    <3>3. tl.entries[p].kind # "tool"
      BY <2>1
    <3> QED BY <3>1, <3>2, <3>3 DEF EntryOk
  <2> DEFINE more == Append(tl.entries[p].text, n)
             e == [tl.entries[p] EXCEPT !.text = more, !.status = "streaming"]
  <2>3. more \in Seq(Nat)
    BY <2>2 DEF TextEntry
  <2>4. after = ChangeEntry(tl, p, e)
    BY <1>2, <2>2 DEF UpsertText, TextEntry
  <2> HIDE DEF more
  <2>5. e \in TextEntry /\ e.kind = kind /\ e.key = id /\ e.text = more
    BY <2>1, <2>2, <2>3 DEF TextEntry
  <2> HIDE DEF e, after
  <2>6. /\ DOMAIN after = DOMAIN tl /\ after.entries = [tl.entries EXCEPT ![p] = e]
        /\ after.history = tl.history /\ after.replay = tl.replay
    BY <2>4, FieldsOfTimeline DEF ChangeEntry, ThreadTyped
  <2>7. EntryOk(e) /\ \A t : t # id => ~IsText(e, t)
    BY <2>5 DEF EntryOk, IsText
  <2> HIDE DEF p
  <2>8. WrittenOf(tl, after, id)
    BY <2>1, <2>5, <2>6, <2>7, Changed DEF WrittenOf
  <2>9. CASE kind = "assistant"
    <3>1. Position(tl, "assistant", id) = p
      BY <2>9 DEF p
    <3>2. TextIn(after, id) = more
      BY <2>1, <2>5, <2>6, <2>7, <3>1, Changed
    <3>3. TextIn(tl, id) = tl.entries[p].text
      BY <1>2, <3>1 DEF TextIn
    <3> QED BY <2>8, <2>9, <3>2, <3>3 DEF more, after
  <2>10. CASE kind # "assistant"
    <3>1. Position(tl, "assistant", id) # p
      BY <1>2, <2>1, <2>10, PositionFits
    <3>2. TextIn(after, id) = TextIn(tl, id)
      BY <2>1, <2>5, <2>6, <2>7, <3>1, Changed
    <3> QED BY <2>8, <2>10, <3>2 DEF after
  <2> QED BY <2>9, <2>10
<1> QED BY <1>1, <1>2

(* A plan changes its own entry and no turn's text.                        *)
LEMMA PlanUpserted ==
  ASSUME NEW tl, ThreadTyped(tl), NEW id \in TurnIds, NEW n \in Nat
  PROVE  LET after == UpsertPlan(tl, id, n)
         IN  WrittenOf(tl, after, id) /\ TextIn(after, id) = TextIn(tl, id)
<1> DEFINE after == UpsertPlan(tl, id, n)
           p == Position(tl, "plan", id)
<1>1. CASE p = 0
  <2> DEFINE e == Message("plan", id, <<n>>, "shown")
  <2>1. e.kind = "plan" /\ e.key = id /\ e \in TextEntry
    BY DEF Message, TextEntry
  <2>2. after = AddEntry(tl, e)
    BY <1>1 DEF UpsertPlan
  <2> HIDE DEF e, after
  <2>3. /\ DOMAIN after = DOMAIN tl /\ after.entries = Append(tl.entries, e)
        /\ after.history = tl.history /\ after.replay = tl.replay
    BY <2>2, FieldsOfTimeline DEF AddEntry, ThreadTyped
  <2>4. EntryOk(e) /\ \A t : t # id => ~IsText(e, t)
    BY <2>1 DEF EntryOk, IsText
  <2>5. WrittenOf(tl, after, id)
    BY <2>3, <2>4, Added DEF WrittenOf
  <2>6. TextIn(after, id) = TextIn(tl, id)
    <3>1. ~(e.kind = "assistant" /\ e.key = id)
      BY <2>1
    <3> QED BY <2>3, <2>4, <3>1, Added
  <2> QED BY <2>5, <2>6 DEF after
<1>2. CASE p # 0
  <2>1. p \in DOMAIN tl.entries /\ tl.entries[p].kind = "plan" /\ tl.entries[p].key = id
    BY <1>2, PositionFits
  <2>2. tl.entries[p] \in TextEntry
    <3>1. EntryOk(tl.entries[p])
      BY <2>1 DEF ThreadTyped
    <3>2. ASSUME ToolEntry(tl.entries[p]) PROVE tl.entries[p].kind = "tool"
      BY <3>2, ToolKind
    <3>3. tl.entries[p].kind # "tool"
      BY <2>1
    <3> QED BY <3>1, <3>2, <3>3 DEF EntryOk
  <2> DEFINE e == [tl.entries[p] EXCEPT !.text = <<n>>]
  <2>3. after = ChangeEntry(tl, p, e)
    BY <1>2 DEF UpsertPlan
  <2>4. e \in TextEntry /\ e.kind = "plan" /\ e.key = id
    <3>1. <<n>> \in Seq(Nat)
      OBVIOUS
    <3> DEFINE text == <<n>>
    <3> HIDE DEF text
    <3>2. text \in Seq(Nat) /\ e = [tl.entries[p] EXCEPT !.text = text]
      BY <3>1 DEF text
    <3>3. e \in TextEntry
      BY <2>2, <3>2 DEF TextEntry
    <3>4. e.kind = tl.entries[p].kind /\ e.key = tl.entries[p].key
      BY <2>2, <3>2 DEF TextEntry
    <3> QED BY <2>1, <3>3, <3>4
  <2> HIDE DEF e, after
  <2>5. /\ DOMAIN after = DOMAIN tl /\ after.entries = [tl.entries EXCEPT ![p] = e]
        /\ after.history = tl.history /\ after.replay = tl.replay
    BY <2>3, FieldsOfTimeline DEF ChangeEntry, ThreadTyped
  <2>6. EntryOk(e) /\ \A t : t # id => ~IsText(e, t)
    BY <2>4 DEF EntryOk, IsText
  <2>7. Position(tl, "assistant", id) # p
    BY <1>2, <2>1, PositionFits
  <2> HIDE DEF p
  <2>8. WrittenOf(tl, after, id)
    BY <2>1, <2>4, <2>5, <2>6, Changed DEF WrittenOf
  <2>9. TextIn(after, id) = TextIn(tl, id)
    BY <2>1, <2>4, <2>5, <2>6, <2>7, Changed
  <2> QED BY <2>8, <2>9 DEF after
<1> QED BY <1>1, <1>2
-----------------------------------------------------------------------------
(* Tool calls.                                                             *)
ContentOk(content) ==
  DOMAIN content \subseteq Objects /\ content \in [DOMAIN content -> Item]

(* Merging two contents gives a content.                                   *)
LEMMA ContentMerged ==
  ASSUME NEW a, NEW b, ContentOk(a), ContentOk(b)
  PROVE  ContentOk(MergeContent(a, b))
<1> DEFINE f == MergeContent(a, b)
<1>1. f = [x \in DOMAIN b \cup DOMAIN a |-> IF x \in DOMAIN b THEN b[x] ELSE a[x]]
  BY DEF MergeContent, Over
<1>2. DOMAIN f = DOMAIN b \cup DOMAIN a
  BY <1>1
<1>3. \A x \in DOMAIN f : f[x] \in Item
  BY <1>1, <1>2 DEF ContentOk
<1>4. f \in [DOMAIN f -> Item]
  <2>1. f = [x \in DOMAIN f |-> f[x]]
    BY <1>1
  <2> HIDE DEF f
  <2> QED BY <2>1, <1>3
<1> QED BY <1>2, <1>4 DEF ContentOk

(* The derived terminals and diffs are no part of the thread.              *)
LEMMA DerivedApart ==
  ASSUME NEW tl, ThreadTyped(tl), NEW tool, NEW content
  PROVE  LET after == SyncDerived(tl, tool, content)
         IN  /\ DOMAIN after = DOMAIN tl /\ after.entries = tl.entries
             /\ after.history = tl.history /\ after.replay = tl.replay
<1> DEFINE a == [x \in Of(content, "terminal") |-> Snapshot(tl, x, TerminalItem(content[x], tool))]
           d == [x \in Of(content, "diff") |-> [tool |-> tool, n |-> content[x].n]]
           mid == StoreTerminals(tl, a)
<1> HIDE DEF a, d
<1>1. /\ DOMAIN mid = DOMAIN tl /\ mid.entries = tl.entries
      /\ mid.history = tl.history /\ mid.replay = tl.replay
  BY FieldsOfTimeline DEF StoreTerminals, ThreadTyped
<1> HIDE DEF mid
<1>2. LET after == StoreDiffs(mid, d)
      IN  /\ DOMAIN after = DOMAIN tl /\ after.entries = tl.entries
          /\ after.history = tl.history /\ after.replay = tl.replay
  BY <1>1, FieldsOfTimeline DEF StoreDiffs, ThreadTyped
<1> QED BY <1>2 DEF SyncDerived, mid, a, d

(* No content is a content.                                                *)
LEMMA NothingOk == ContentOk(Nothing)
BY DEF ContentOk, Nothing

(* A tool call's entry changes no text of any turn.                        *)
LEMMA ToolUpserted ==
  ASSUME NEW tl, ThreadTyped(tl), NEW id \in TurnIds, NEW tool \in Tools,
         NEW status \in Statuses, NEW content, content = Absent \/ ContentOk(content)
  PROVE  LET after == UpsertToolCall(tl, id, tool, status, content)
         IN  WrittenOf(tl, after, id) /\ \A t : Frozen(tl, after, t)
<1> DEFINE p      == Position(tl, "tool", tool)
           old    == IF p = 0 THEN [turn |-> id, content |-> Nothing, status |-> "pending"]
                     ELSE tl.entries[p]
           merged == IF content = Absent THEN old.content
                     ELSE MergeContent(old.content, content)
           synced == IF content = Absent THEN tl ELSE SyncDerived(tl, tool, merged)
           s      == IF status = Absent THEN old.status ELSE status
           e      == [kind |-> "tool", key |-> tool, turn |-> old.turn,
                      content |-> merged, status |-> s]
           after  == UpsertToolCall(tl, id, tool, status, content)
<1>1. /\ DOMAIN synced = DOMAIN tl /\ synced.entries = tl.entries
      /\ synced.history = tl.history /\ synced.replay = tl.replay
  <2> HIDE DEF merged
  <2> QED BY DerivedApart
<1>2. p # 0 => /\ p \in DOMAIN tl.entries /\ ToolEntry(tl.entries[p])
               /\ tl.entries[p].kind = "tool" /\ tl.entries[p].key = tool
  <2>1. ASSUME p # 0
        PROVE  p \in DOMAIN tl.entries /\ tl.entries[p].kind = "tool" /\ tl.entries[p].key = tool
    BY <2>1, PositionFits
  <2>2. ASSUME p # 0 PROVE EntryOk(tl.entries[p])
    BY <2>1, <2>2 DEF ThreadTyped
  <2>3. ASSUME p # 0 PROVE tl.entries[p] \notin TextEntry
    BY <2>1, <2>3 DEF TextEntry
  <2> QED BY <2>1, <2>2, <2>3 DEF EntryOk
<1>3. ContentOk(old.content) /\ old.turn \in TurnIds /\ old.status \in Statuses
  <2>1. "pending" \in Statuses
    BY DEF Statuses, ToolStatuses
  <2> QED BY <1>2, <2>1, NothingOk DEF ToolEntry, ContentOk
<1>4. after = IF p = 0 THEN AddEntry(synced, e) ELSE ChangeEntry(synced, p, e)
  BY DEF UpsertToolCall
<1> HIDE DEF p, old, synced, after
<1>5. ContentOk(merged) /\ s \in Statuses
  BY <1>3, ContentMerged
<1> HIDE DEF merged, s
<1>6. ToolEntry(e) /\ e.kind = "tool" /\ e.key = tool
  BY <1>3, <1>5 DEF ToolEntry, ContentOk
<1> HIDE DEF e
<1>7. EntryOk(e) /\ \A t : ~IsText(e, t)
  BY <1>6 DEF EntryOk, IsText
<1>8. CASE p = 0
  <2>1. /\ DOMAIN after = DOMAIN tl /\ after.entries = Append(tl.entries, e)
        /\ after.history = tl.history /\ after.replay = tl.replay
    BY <1>1, <1>4, <1>8, FieldsOfTimeline DEF AddEntry, ThreadTyped
  <2>2. ThreadTyped(after) /\ \A t : Frozen(tl, after, t)
    BY <1>7, <2>1, Added
  <2> QED BY <2>1, <2>2 DEF WrittenOf, after
<1>9. CASE p # 0
  <2>1. /\ DOMAIN after = DOMAIN tl /\ after.entries = [tl.entries EXCEPT ![p] = e]
        /\ after.history = tl.history /\ after.replay = tl.replay
    BY <1>1, <1>4, <1>9, FieldsOfTimeline DEF ChangeEntry, ThreadTyped
  <2>2. p \in DOMAIN tl.entries /\ e.kind = tl.entries[p].kind /\ e.key = tl.entries[p].key
    BY <1>2, <1>6, <1>9
  <2>3. ThreadTyped(after) /\ \A t : Frozen(tl, after, t)
    BY <1>7, <2>1, <2>2, Changed
  <2> QED BY <2>1, <2>3 DEF WrittenOf, after
<1> QED BY <1>8, <1>9
-----------------------------------------------------------------------------
(* What a job has read: exits of some terminals.                           *)
LEMMA ReadsAre ==
  ASSUME NEW f
  PROVE  f \in Reads <=> DOMAIN f \subseteq Terminals /\ f \in [DOMAIN f -> Exit]
BY DEF Reads

(* A job that shows no terminal has read none.                             *)
LEMMA NothingRead == Nothing \in Reads
<1>1. DOMAIN Nothing = {}
  BY DEF Nothing
<1>2. Nothing = [x \in {} |-> Nothing[x]]
  BY DEF Nothing
<1>3. Nothing \in [{} -> Exit]
  BY <1>2
<1> QED BY <1>1, <1>3, ReadsAre

(* What an update writes.                                                  *)
LEMMA ContentTyped ==
  ASSUME NEW u \in SessionUpdate, NEW exit \in Reads
  PROVE  ThreadContent(u, exit) = Absent \/ ContentOk(ThreadContent(u, exit))
<1> SUFFICES ASSUME u.content # Absent PROVE ContentOk(ThreadContent(u, exit))
  BY DEF ThreadContent
<1>1. u.content \in SUBSET Shown /\ u.n \in Nat
  BY DEF SessionUpdate
<1> DEFINE objects == {c.object : c \in u.content}
           One(x) == CHOOSE i \in u.content : i.object = x
           item(x) == [kind |-> One(x).kind, n |-> u.n,
                       exit |-> IF x \in DOMAIN exit THEN exit[x] ELSE "unset"]
           f == [x \in objects |-> item(x)]
<1>2. ASSUME NEW x \in objects PROVE One(x) \in u.content
  OBVIOUS
<1>3. ThreadContent(u, exit) = f
  BY DEF ThreadContent
<1> HIDE DEF One
<1>4. ASSUME NEW x \in objects PROVE item(x) \in Item
  <2>1. (IF x \in DOMAIN exit THEN exit[x] ELSE "unset") \in Exit
    BY ReadsAre DEF Exit
  <2> QED BY <1>1, <1>2, <1>4, <2>1 DEF Item
<1>5. objects \subseteq Objects
  BY <1>1 DEF Objects
<1> HIDE DEF item, objects
<1>6. DOMAIN f = objects /\ f \in [objects -> Item]
  BY <1>4
<1> QED BY <1>3, <1>5, <1>6 DEF ContentOk

(* An update writes to its own turn only, and adds to the turn's text just *)
(* when it is a text.                                                      *)
LEMMA ThreadSynced ==
  ASSUME NEW tl, ThreadTyped(tl), NEW id \in TurnIds, NEW u \in SessionUpdate,
         NEW exit \in Reads
  PROVE  LET after == SyncThread(tl, id, u, exit)
         IN  /\ WrittenOf(tl, after, id)
             /\ TextIn(after, id) = IF u.type = "text" THEN Append(TextIn(tl, id), u.n)
                                    ELSE TextIn(tl, id)
<1> DEFINE after == SyncThread(tl, id, u, exit)
<1>1. u.n \in Nat /\ u.status \in Statuses /\ (u.type \in ToolTypes => u.tool \in Tools)
  BY DEF SessionUpdate
<1>2. CASE u.type = "text"
  <2>1. after = UpsertText(tl, "assistant", id, u.n)
    BY <1>2 DEF SyncThread, ToolTypes
  <2> QED BY <1>1, <1>2, <2>1, TextUpserted
<1>3. CASE u.type = "thought"
  <2>1. after = UpsertText(tl, "thought", id, u.n)
    BY <1>3 DEF SyncThread, ToolTypes
  <2> QED BY <1>1, <1>3, <2>1, TextUpserted
<1>4. CASE u.type = "plan"
  <2>1. after = UpsertPlan(tl, id, u.n)
    BY <1>4 DEF SyncThread, ToolTypes
  <2> QED BY <1>1, <1>4, <2>1, PlanUpserted
<1>5. CASE u.type \in ToolTypes
  <2>1. after = UpsertToolCall(tl, id, u.tool, u.status, ThreadContent(u, exit))
    BY <1>5 DEF SyncThread, ToolTypes
  <2>2. u.type # "text"
    BY <1>5 DEF ToolTypes
  <2>3. WrittenOf(tl, after, id) /\ \A t : Frozen(tl, after, t)
    BY <1>1, <1>5, <2>1, ContentTyped, ToolUpserted
  <2> HIDE DEF after
  <2>4. TextIn(after, id) = TextIn(tl, id)
    BY <2>3, FrozenText
  <2> QED BY <2>2, <2>3, <2>4 DEF after
<1>6. CASE u.type \notin {"text", "thought", "plan"} \cup ToolTypes
  <2>1. after = tl
    BY <1>6 DEF SyncThread
  <2> QED BY <1>6, <2>1, FrozenSame DEF WrittenOf
<1> QED BY <1>2, <1>3, <1>4, <1>5, <1>6

(* Completing a turn changes the statuses of its entries, not their text.  *)
LEMMA TurnCompleted ==
  ASSUME NEW tl, ThreadTyped(tl), NEW id \in TurnIds, NEW status \in {"completed", "failed"}
  PROVE  LET after == CompleteTurn(tl, id, status)
         IN  WrittenOf(tl, after, id) /\ TextIn(after, id) = TextIn(tl, id)
<1> DEFINE after == CompleteTurn(tl, id, status)
           n == Len(tl.entries)
           x == tl.entries
           a == after.entries
           Hit(e) == e.kind \in {"assistant", "thought"} /\ e.key = id
           b == [i \in DOMAIN x |-> IF Hit(x[i]) THEN [x[i] EXCEPT !.status = status]
                                    ELSE x[i]]
<1>1. DOMAIN after = DOMAIN tl /\ a = b /\ after.history = tl.history
      /\ after.replay = tl.replay
  BY FieldsOfTimeline DEF CompleteTurn, ThreadTyped
<1>2. \A i \in DOMAIN x : EntryOk(x[i])
  BY DEF ThreadTyped
<1>3. ASSUME NEW i \in DOMAIN x, Hit(x[i])
      PROVE  /\ b[i] \in TextEntry /\ b[i].kind = x[i].kind /\ b[i].key = x[i].key
             /\ b[i].text = x[i].text
  <2>1. x[i] \in TextEntry
    BY <1>2, <1>3, ToolKind DEF EntryOk
  <2>2. b[i] = [x[i] EXCEPT !.status = status]
    BY <1>3
  <2> QED BY <2>1, <2>2 DEF TextEntry
<1>4. ASSUME NEW i \in DOMAIN x, ~Hit(x[i]) PROVE b[i] = x[i]
  BY <1>4
<1> HIDE DEF b, after
<1>5. a = [i \in DOMAIN x |-> a[i]]
  BY <1>1 DEF b
<1>6. /\ a \in Seq(ToSet(a)) /\ n \in Nat /\ DOMAIN x = 1..n /\ DOMAIN a = 1..n
  BY <1>5, SameIndices DEF ThreadTyped
<1> HIDE DEF a
<1>7. ASSUME NEW i \in DOMAIN x PROVE EntryOk(a[i])
  BY <1>1, <1>2, <1>3, <1>4 DEF EntryOk
<1>8. ThreadTyped(after)
  BY <1>1, <1>6, <1>7 DEF ThreadTyped, a
<1>9. ASSUME NEW i \in DOMAIN x PROVE a[i].kind = x[i].kind /\ a[i].key = x[i].key
  BY <1>1, <1>3, <1>4
<1>10. ASSUME NEW t, t # id PROVE Frozen(tl, after, t)
  <2>1. ASSUME NEW i \in DOMAIN x, IsText(x[i], t) \/ IsText(a[i], t) PROVE a[i] = x[i]
    <3>1. x[i].key = t
      BY <1>9, <2>1 DEF IsText
    <3> QED BY <1>1, <1>4, <1>10, <3>1
  <2> QED BY <1>6, <2>1 DEF Frozen, a
<1>11. TextIn(after, id) = TextIn(tl, id)
  <2> DEFINE p == Position(tl, "assistant", id)
  <2>1. At(after, "assistant", id) = At(tl, "assistant", id)
    BY <1>6, <1>9 DEF At, a
  <2>2. Position(after, "assistant", id) = p
    BY <2>1, SamePosition
  <2>3. p # 0 => p \in DOMAIN x /\ x[p].kind = "assistant" /\ x[p].key = id
    BY PositionFits
  <2> HIDE DEF p
  <2>4. p # 0 => a[p].text = x[p].text
    BY <1>1, <1>3, <2>3
  <2> QED BY <2>2, <2>4 DEF TextIn, p, a
<1> QED BY <1>1, <1>8, <1>10, <1>11 DEF WrittenOf, after
-----------------------------------------------------------------------------
(* The timeline as a whole.                                                *)
TimelineTyped(tl) ==
  ThreadTyped(tl) /\ tl.history \in Seq(Events) /\ tl.replay \in Nat

(* What an update wrote is a timeline.                                     *)
LEMMA WrittenTyped ==
  ASSUME NEW tl, NEW after, NEW id, TimelineTyped(tl), WrittenOf(tl, after, id)
  PROVE  TimelineTyped(after)
BY DEF TimelineTyped, WrittenOf

(* Events are appended to the history and leave the thread alone.          *)
LEMMA EventsAppended ==
  ASSUME NEW tl, TimelineTyped(tl), NEW events \in Seq(Events)
  PROVE  LET after == AppendEvents(tl, events)
         IN  TimelineTyped(after) /\ after.entries = tl.entries
<1> DEFINE after == AppendEvents(tl, events)
           h == tl.history \o events
           o == OperationsIn(events)
           r == RequestsIn(events)
<1>1. h \in Seq(Events)
  BY DEF TimelineTyped
<1> HIDE DEF h, o, r
<1>2. /\ DOMAIN after = DOMAIN tl /\ after.entries = tl.entries /\ after.history = h
      /\ after.replay = tl.replay
  BY FieldsOfTimeline DEF AppendEvents, TimelineTyped, ThreadTyped, h, o, r
<1> HIDE DEF after
<1>3. TimelineTyped(after)
  BY <1>1, <1>2 DEF TimelineTyped, ThreadTyped
<1> QED BY <1>2, <1>3 DEF after

(* A user's message outside a turn is history and a thread entry of its    *)
(* own.                                                                    *)
LEMMA HistorySynced ==
  ASSUME NEW tl, TimelineTyped(tl), NEW u \in SessionUpdate
  PROVE  LET after == SyncHistory(tl, u)
         IN  TimelineTyped(after) /\ \A t : Frozen(tl, after, t)
<1>1. CASE u.type # "user"
  BY <1>1, FrozenSame DEF SyncHistory
<1>2. CASE u.type = "user"
  <2> DEFINE e == [type |-> "user", turn |-> HistoryTurn, n |-> u.n]
             h == Append(tl.history, e)
             mid == [tl EXCEPT !.history = h]
             after == AddUser(mid, HistoryTurn, u.n)
  <2>1. u.n \in Nat /\ HistoryTurn \in TurnIds
    BY DEF SessionUpdate, TurnIds
  <2>2. e \in Events
    BY <2>1, NoteTyped
  <2> HIDE DEF e
  <2>3. h \in Seq(Events)
    BY <2>2 DEF TimelineTyped
  <2>4. SyncHistory(tl, u) = after
    BY <1>2 DEF SyncHistory, e
  <2> HIDE DEF h
  <2>5. DOMAIN mid = DOMAIN tl /\ mid.entries = tl.entries /\ mid.history = h
        /\ mid.replay = tl.replay
    BY FieldsOfTimeline DEF TimelineTyped, ThreadTyped
  <2> HIDE DEF mid
  <2>6. TimelineTyped(mid)
    BY <2>3, <2>5 DEF TimelineTyped, ThreadTyped
  <2>7. ThreadTyped(mid)
    BY <2>6 DEF TimelineTyped
  <2>8. /\ ThreadTyped(after) /\ after.history = mid.history /\ after.replay = mid.replay
        /\ \A t : Frozen(mid, after, t)
    BY <2>1, <2>7, UserAdded
  <2> HIDE DEF after
  <2>9. TimelineTyped(after)
    BY <2>6, <2>8 DEF TimelineTyped
  <2>10. \A t : Frozen(tl, after, t)
    BY <2>5, <2>8 DEF Frozen
  <2> QED BY <2>4, <2>9, <2>10
<1> QED BY <1>1, <1>2

(* Sealing and draining the replay leave the thread alone.                 *)
LEMMA HistoryKept ==
  ASSUME NEW tl, TimelineTyped(tl)
  PROVE  /\ TimelineTyped(Seal(tl)) /\ Seal(tl).entries = tl.entries
         /\ TimelineTyped(Drain(tl)) /\ Drain(tl).entries = tl.entries
<1>1. Len(tl.history) \in Nat
  BY DEF TimelineTyped
<1>2. TimelineTyped(Seal(tl)) /\ Seal(tl).entries = tl.entries
  <2> DEFINE n == Len(tl.history)
             after == [tl EXCEPT !.replay = n]
  <2> HIDE DEF n
  <2>1. n \in Nat
    BY <1>1 DEF n
  <2>2. DOMAIN after = DOMAIN tl /\ after.entries = tl.entries
        /\ after.history = tl.history /\ after.replay = n
    BY FieldsOfTimeline DEF TimelineTyped, ThreadTyped
  <2> HIDE DEF after
  <2>3. TimelineTyped(after)
    BY <2>1, <2>2 DEF TimelineTyped, ThreadTyped
  <2> QED BY <2>2, <2>3 DEF Seal, after, n
<1>3. TimelineTyped(Drain(tl)) /\ Drain(tl).entries = tl.entries
  <2> DEFINE after == [tl EXCEPT !.drained = TRUE]
  <2>1. DOMAIN after = DOMAIN tl /\ after.entries = tl.entries
        /\ after.history = tl.history /\ after.replay = tl.replay
    BY FieldsOfTimeline DEF TimelineTyped, ThreadTyped
  <2> HIDE DEF after
  <2>2. TimelineTyped(after)
    BY <2>1 DEF TimelineTyped, ThreadTyped
  <2> QED BY <2>1, <2>2 DEF Drain, after
<1> QED BY <1>2, <1>3

(* A change of a terminal's snapshot leaves thread and history alone.      *)
LEMMA TerminalUpserted ==
  ASSUME NEW tl, TimelineTyped(tl), NEW x, NEW given
  PROVE  LET after == UpsertTerminal(tl, x, given)
         IN  TimelineTyped(after) /\ after.entries = tl.entries
<1> DEFINE s == [y \in {x} |-> Snapshot(tl, y, given)]
           after == StoreTerminals(tl, s)
<1> HIDE DEF s
<1>1. DOMAIN after = DOMAIN tl /\ after.entries = tl.entries
      /\ after.history = tl.history /\ after.replay = tl.replay
  BY FieldsOfTimeline DEF TimelineTyped, ThreadTyped, StoreTerminals
<1> HIDE DEF after
<1>2. TimelineTyped(after)
  BY <1>1 DEF TimelineTyped, ThreadTyped
<1> QED BY <1>1, <1>2 DEF UpsertTerminal, after, s
-----------------------------------------------------------------------------
(* Queues.                                                                 *)
LEMMA Shorter ==
  ASSUME NEW S, NEW s \in Seq(S), s # <<>>
  PROVE  /\ Tail(s) \in Seq(S) /\ Len(s) \in Nat \ {0} /\ DOMAIN s = 1..Len(s)
         /\ DOMAIN Tail(s) = 1..(Len(s) - 1)
         /\ \A i \in 1..(Len(s) - 1) : Tail(s)[i] = s[i + 1]
         /\ Head(s) = s[1] /\ 1 \in DOMAIN s /\ s[1] \in S
OBVIOUS

(* Append, index by index.                                                 *)
LEMMA Longer ==
  ASSUME NEW S, NEW s \in Seq(S), NEW e \in S
  PROVE  /\ Append(s, e) \in Seq(S) /\ Len(s) \in Nat /\ DOMAIN s = 1..Len(s)
         /\ DOMAIN Append(s, e) = 1..(Len(s) + 1)
         /\ \A i \in 1..Len(s) : Append(s, e)[i] = s[i]
         /\ Append(s, e)[Len(s) + 1] = e
OBVIOUS
-----------------------------------------------------------------------------
(* From the agent to the actor.                                            *)
ChannelTyped ==
  /\ inbound \in Seq(Inbound) /\ wrote \in Nat
  /\ asked \in Turns \cup {NoTurn} /\ replayed \in Seq(Nat)
  /\ opening \in {"loading", "answered", "bootstrapped", "flushing", "open"}
  /\ buffered \in Seq(SessionUpdate) /\ jobs \in Seq(ActorJob)

LoadOk ==
  \A i \in DOMAIN inbound :
    inbound[i].type = "loaded" =>
      /\ opening = "answered"
      /\ \A j \in DOMAIN inbound : inbound[j].type = "loaded" => j = i

OneAnswer ==
  /\ asked # NoTurn => asked = current
  /\ \A i \in DOMAIN inbound :
       inbound[i].type = "answer" =>
         /\ asked = NoTurn /\ current # NoTurn
         /\ \A j \in DOMAIN inbound : inbound[j].type = "answer" => j = i

ChannelKept ==
  ChannelTyped' /\ InOrder' /\ LoadOk' /\ Past \subseteq Past'

(* An update is known from the other messages by its type.                 *)
LEMMA TypesApart ==
  /\ \A m \in SessionUpdate : m.type \in UpdateTypes /\ m.n \in Nat
  /\ \A m \in Inbound : m.type \in UpdateTypes => m \in SessionUpdate
  /\ \A m \in Inbound : m.type = "permission" =>
        m.n \in Nat /\ m.tool \in Tools /\ m.options \in {r.options : r \in Requests}
  /\ \A m \in Inbound : m.type \notin {"permission", "answer", "loaded"} =>
        m \in SessionUpdate
  /\ UpdateTypes \cap {"permission", "answer", "loaded"} = {}
<1>1. UpdateTypes \cap {"permission", "answer", "loaded"} = {}
  BY DEF UpdateTypes, ChunkTypes, BlankTypes, MetadataTypes, ToolTypes
<1>2. \A m \in SessionUpdate : m.type \in UpdateTypes /\ m.n \in Nat
  BY DEF SessionUpdate
<1>3. \A m \in Inbound : m.type \in UpdateTypes => m \in SessionUpdate
  BY <1>1 DEF Inbound
<1>4. \A m \in Inbound : m.type = "permission" =>
        m.n \in Nat /\ m.tool \in Tools /\ m.options \in {r.options : r \in Requests}
  BY <1>1, <1>2 DEF Inbound
<1>5. \A m \in Inbound : m.type \notin {"permission", "answer", "loaded"} =>
        m \in SessionUpdate
  BY DEF Inbound
<1> QED BY <1>1, <1>2, <1>3, <1>4, <1>5

(* The channel's invariant with the channel unchanged.                     *)
LEMMA ChannelUnchanged ==
  ASSUME ChannelTyped, InOrder, LoadOk, UNCHANGED <<inbound, wrote, buffered, jobs>>,
         asked' \in Turns \cup {NoTurn}, UNCHANGED <<replayed, opening>>
  PROVE  ChannelKept
BY DEF ChannelKept, ChannelTyped, InOrder, LoadOk, Past, Arriving, HandlerSet

(* A message is written.                                                   *)
LEMMA MessageWritten ==
  ASSUME ChannelTyped, InOrder, LoadOk, NEW m \in Inbound, Send(m),
         asked' \in Turns \cup {NoTurn}, replayed' \in Seq(Nat),
         wrote' \in {wrote, wrote + 1},
         m.type \in UpdateTypes => wrote' = wrote + 1 /\ m.n = wrote',
         IF m.type = "loaded" THEN opening = "loading" /\ opening' = "answered"
         ELSE opening' = opening,
         UNCHANGED <<buffered, jobs>>
  PROVE  ChannelKept
<1> DEFINE k == Len(inbound)
<1>1. /\ inbound' \in Seq(Inbound) /\ k \in Nat /\ DOMAIN inbound = 1..k
      /\ DOMAIN inbound' = 1..(k + 1)
      /\ \A i \in 1..k : inbound'[i] = inbound[i]
      /\ inbound'[k + 1] = m
  BY Longer DEF Send, ChannelTyped
<1>2. \A i \in 1..k : inbound[i] \in Inbound
  BY <1>1 DEF ChannelTyped
<1> HIDE DEF k
<1>3. wrote \in Nat /\ wrote' \in Nat /\ wrote <= wrote'
  BY DEF ChannelTyped
<1>4. Arriving \subseteq 1..k
  BY <1>1 DEF Arriving
<1>5. Arriving' = IF m.type \in UpdateTypes THEN Arriving \cup {k + 1} ELSE Arriving
  BY <1>1 DEF Arriving
<1>6. \A i \in Arriving : inbound'[i] = inbound[i] /\ inbound[i].n \in Nat
  BY <1>1, <1>2, <1>4, TypesApart DEF Arriving
<1>7. ChannelTyped'
  BY <1>1, <1>3 DEF ChannelTyped
<1>8. HandlerSet' <=> HandlerSet
  BY DEF HandlerSet
<1>9. LoadOk'
  <2> SUFFICES ASSUME NEW i \in DOMAIN inbound', inbound'[i].type = "loaded"
               PROVE  /\ opening' = "answered"
                      /\ \A j \in DOMAIN inbound' : inbound'[j].type = "loaded" => j = i
    BY DEF LoadOk
  <2>1. CASE m.type = "loaded"
    <3>1. \A j \in 1..k : inbound[j].type # "loaded"
      BY <1>1, <2>1 DEF LoadOk
    <3> QED BY <1>1, <2>1, <3>1
  <2>2. CASE m.type # "loaded"
    BY <1>1, <2>2 DEF LoadOk
  <2> QED BY <2>1, <2>2
<1>10. \A i \in DOMAIN buffered : buffered[i].n \in Nat
  BY TypesApart DEF ChannelTyped
<1>11. \A i \in DOMAIN jobs : jobs[i].update.n \in Nat
  <2> SUFFICES ASSUME NEW i \in DOMAIN jobs PROVE jobs[i].update.n \in Nat
    OBVIOUS
  <2>1. jobs[i] \in ActorJob
    BY DEF ChannelTyped
  <2>2. jobs[i].update \in SessionUpdate
    BY <2>1 DEF ActorJob
  <2> QED BY <2>2, TypesApart
<1>12. \A n \in Nat : n <= wrote /\ (\A j \in Arriving : n < inbound[j].n) =>
                        n <= wrote' /\ \A j \in Arriving' : n < inbound'[j].n
  BY <1>1, <1>3, <1>5, <1>6
<1>13. Past \subseteq Past'
  BY <1>12 DEF Past
<1>14. InOrder'
  <2>1. \A i \in Arriving' : inbound'[i].n <= wrote'
    BY <1>1, <1>3, <1>5, <1>6 DEF InOrder
  <2>2. \A i, j \in Arriving' : i < j => inbound'[i].n < inbound'[j].n
    <3> SUFFICES ASSUME NEW i \in Arriving', NEW j \in Arriving', i < j
                 PROVE  inbound'[i].n < inbound'[j].n
      OBVIOUS
    <3>1. i \in Arriving
      BY <1>4, <1>5, <1>1
    <3>2. CASE j \in Arriving
      BY <1>6, <3>1, <3>2 DEF InOrder
    <3>3. CASE j = k + 1 /\ m.type \in UpdateTypes
      BY <1>1, <1>3, <1>6, <3>1, <3>3 DEF InOrder
    <3> QED BY <1>5, <3>2, <3>3
  <2>3. \A i \in DOMAIN buffered :
          buffered[i].n <= wrote' /\ \A j \in Arriving' : buffered[i].n < inbound'[j].n
    BY <1>10, <1>12 DEF InOrder
  <2>4. \A i \in DOMAIN jobs :
          jobs[i].update.n <= wrote' /\ \A j \in Arriving' : jobs[i].update.n < inbound'[j].n
    BY <1>11, <1>12 DEF InOrder
  <2> QED BY <1>8, <2>1, <2>2, <2>3, <2>4 DEF InOrder
<1> QED BY <1>7, <1>9, <1>13, <1>14 DEF ChannelKept

(* A message is read.                                                      *)
LEMMA MessageRead ==
  ASSUME ChannelTyped, InOrder, LoadOk, NEW m, Receive(m)
  PROVE  /\ inbound' \in Seq(Inbound) /\ m \in Inbound
         /\ DOMAIN inbound = 1..Len(inbound) /\ Len(inbound) \in Nat \ {0}
         /\ DOMAIN inbound' = 1..(Len(inbound) - 1)
         /\ \A i \in 1..(Len(inbound) - 1) : inbound'[i] = inbound[i + 1]
         /\ m = inbound[1] /\ 1 \in DOMAIN inbound
         /\ \A i \in Arriving' : i + 1 \in Arriving /\ inbound'[i] = inbound[i + 1]
         /\ m.type \in UpdateTypes => 1 \in Arriving
         /\ \A i \in Arriving : inbound[i].n \in Nat
<1>1. /\ inbound' \in Seq(Inbound) /\ m \in Inbound
      /\ DOMAIN inbound = 1..Len(inbound) /\ Len(inbound) \in Nat \ {0}
      /\ DOMAIN inbound' = 1..(Len(inbound) - 1)
      /\ \A i \in 1..(Len(inbound) - 1) : inbound'[i] = inbound[i + 1]
      /\ m = inbound[1] /\ 1 \in DOMAIN inbound
  BY Shorter DEF Receive, ChannelTyped
<1>2. \A i \in DOMAIN inbound : inbound[i] \in Inbound
  BY DEF ChannelTyped
<1>3. \A i \in Arriving' : i + 1 \in Arriving /\ inbound'[i] = inbound[i + 1]
  BY <1>1 DEF Arriving
<1>4. m.type \in UpdateTypes => 1 \in Arriving
  BY <1>1 DEF Arriving
<1>5. \A i \in Arriving : inbound[i].n \in Nat
  BY <1>2, TypesApart DEF Arriving
<1> QED BY <1>1, <1>3, <1>4, <1>5

(* The answer of the load is there once, and gone when it has been read.   *)
LEMMA OnlyReadLoad ==
  ASSUME ChannelTyped, InOrder, LoadOk, NEW m, Receive(m),
         IF m.type = "loaded" THEN opening' = "bootstrapped" ELSE opening' = opening
  PROVE  LoadOk'
<1> SUFFICES ASSUME NEW i \in DOMAIN inbound', inbound'[i].type = "loaded"
             PROVE  /\ opening' = "answered"
                    /\ \A j \in DOMAIN inbound' : inbound'[j].type = "loaded" => j = i
  BY DEF LoadOk
<1>1. i \in Nat \ {0} /\ i + 1 \in DOMAIN inbound /\ inbound'[i] = inbound[i + 1]
  BY MessageRead
<1>2. opening = "answered" /\ m.type # "loaded"
  BY <1>1, MessageRead DEF LoadOk
<1>3. ASSUME NEW j \in DOMAIN inbound', inbound'[j].type = "loaded" PROVE j = i
  <2>1. j \in Nat \ {0} /\ j + 1 \in DOMAIN inbound /\ inbound'[j] = inbound[j + 1]
    BY MessageRead
  <2>2. j + 1 = i + 1
    BY <1>1, <1>3, <2>1 DEF LoadOk
  <2> QED BY <1>1, <2>1, <2>2
<1> QED BY <1>2, <1>3

(* A job of the actor carries an update.                                   *)
LEMMA JobsTyped ==
  ASSUME ChannelTyped, NEW i \in DOMAIN jobs
  PROVE  jobs[i] \in ActorJob /\ jobs[i].update \in SessionUpdate /\ jobs[i].update.n \in Nat
<1>1. jobs[i] \in ActorJob
  BY DEF ChannelTyped
<1>2. jobs[i].update \in SessionUpdate
  BY <1>1 DEF ActorJob
<1> QED BY <1>1, <1>2, TypesApart

(* A message that is only read leaves what is to come in order.            *)
LEMMA OnlyRead ==
  ASSUME ChannelTyped, InOrder, LoadOk, NEW m, Receive(m),
         UNCHANGED <<wrote, asked, replayed, buffered, jobs>>,
         IF m.type = "loaded" THEN opening' = "bootstrapped" ELSE opening' = opening
  PROVE  ChannelKept
<1>1. ChannelTyped'
  BY MessageRead DEF ChannelTyped
<1>2. \A i \in Arriving' : i + 1 \in Arriving /\ inbound'[i] = inbound[i + 1]
  BY MessageRead
<1>3. Arriving \subseteq Nat /\ Arriving' \subseteq Nat
  BY MessageRead DEF Arriving
<1>4. HandlerSet' <=> HandlerSet
  BY MessageRead DEF LoadOk, HandlerSet
<1>5. LoadOk'
  BY OnlyReadLoad
<1>6. Past \subseteq Past'
  BY <1>2 DEF Past
<1>7. InOrder'
  <2>1. /\ \A i \in Arriving' : inbound'[i].n <= wrote'
        /\ \A i, j \in Arriving' : i < j => inbound'[i].n < inbound'[j].n
    <3>1. \A i \in Arriving' : inbound'[i].n <= wrote'
      BY <1>2 DEF InOrder
    <3>2. ASSUME NEW i \in Arriving', NEW j \in Arriving', i < j
          PROVE  inbound'[i].n < inbound'[j].n
      <4>1. i + 1 \in Arriving /\ j + 1 \in Arriving /\ i + 1 < j + 1
        BY <1>2, <1>3, <3>2
      <4>2. inbound[i + 1].n < inbound[j + 1].n
        BY <4>1 DEF InOrder
      <4> QED BY <1>2, <4>2
    <3> QED BY <3>1, <3>2
  <2>2. \A i \in DOMAIN buffered :
          /\ buffered[i].n <= wrote
          /\ \A j \in Arriving' : buffered[i].n < inbound'[j].n
          /\ \A j \in DOMAIN buffered : i < j => buffered[i].n < buffered[j].n
    BY <1>2 DEF InOrder
  <2>3. \A i \in DOMAIN jobs :
          /\ jobs[i].update.n <= wrote
          /\ \A j \in Arriving' : jobs[i].update.n < inbound'[j].n
          /\ \A j \in DOMAIN jobs : i < j => jobs[i].update.n < jobs[j].update.n
    BY <1>2 DEF InOrder
  <2>4. (HandlerSet => buffered = <<>>) /\ (~HandlerSet => jobs = <<>>)
    BY DEF InOrder
  <2> QED BY <1>4, <2>1, <2>2, <2>3, <2>4 DEF InOrder
<1> QED BY <1>1, <1>5, <1>6, <1>7 DEF ChannelKept

(* An update waits for its handler, in the buffer or in the actor.         *)
LEMMA JobTyped ==
  ASSUME NEW u \in SessionUpdate, NEW flush \in BOOLEAN
  PROVE  Job(u, flush) \in ActorJob /\ Job(u, flush).update = u
BY NothingRead DEF Job, ActorJob

(* An update goes from the connection to the end of the buffer or of the   *)
(* actor's jobs.                                                           *)
LEMMA UpdateReceived ==
  ASSUME ChannelTyped, InOrder, LoadOk, NEW m, ReceiveUpdate(m)
  PROVE  ChannelKept
<1>1. /\ Receive(m) /\ UNCHANGED <<wrote, asked, replayed, opening>>
      /\ m.type \notin {"permission", "answer", "loaded"}
  BY DEF ReceiveUpdate
<1>2. m \in SessionUpdate /\ m = inbound[1] /\ 1 \in Arriving
  BY <1>1, MessageRead, TypesApart
<1>3. m.n \in Nat /\ m.n <= wrote
  BY <1>2, TypesApart DEF InOrder
<1>4. /\ \A i \in Arriving' : i + 1 \in Arriving /\ inbound'[i] = inbound[i + 1]
      /\ Arriving \subseteq Nat \ {0} /\ Arriving' \subseteq Nat \ {0}
      /\ inbound' \in Seq(Inbound)
      /\ \A i \in Arriving : inbound[i].n \in Nat
  BY <1>1, MessageRead DEF Arriving
<1>5. \A j \in Arriving' : m.n < inbound'[j].n
  BY <1>2, <1>4 DEF InOrder
<1>6. LoadOk'
  BY <1>1, OnlyReadLoad
<1>7. /\ \A i \in Arriving' : inbound'[i].n <= wrote'
      /\ \A i, j \in Arriving' : i < j => inbound'[i].n < inbound'[j].n
      /\ \A n \in Nat : n <= wrote /\ (\A j \in Arriving : n < inbound[j].n) =>
           n <= wrote' /\ (\A j \in Arriving' : n < inbound'[j].n) /\ n < m.n
  BY <1>1, <1>2, <1>4 DEF InOrder
<1>8. CASE HandlerSet
  <2> DEFINE b == Job(m, FALSE)
             k == Len(jobs)
  <2>1. b \in ActorJob /\ b.update = m
    BY <1>2, JobTyped
  <2>2. jobs' = Append(jobs, b) /\ buffered' = buffered /\ buffered = <<>>
    BY <1>8 DEF ReceiveUpdate, InOrder
  <2> HIDE DEF b
  <2>3. /\ jobs' \in Seq(ActorJob) /\ k \in Nat /\ DOMAIN jobs = 1..k
        /\ DOMAIN jobs' = 1..(k + 1)
        /\ \A i \in 1..k : jobs'[i] = jobs[i]
        /\ jobs'[k + 1].update = m
    BY <2>1, <2>2, Longer DEF ChannelTyped
  <2>4. \A i \in 1..k : jobs[i].update.n \in Nat
    BY <2>3, JobsTyped
  <2>5. HandlerSet'
    BY <1>1, <1>8 DEF HandlerSet
  <2>6. ChannelTyped'
    BY <1>1, <1>4, <2>2, <2>3 DEF ChannelTyped
  <2>7. Past \subseteq Past'
    BY <1>7, <2>2, <2>3 DEF Past
  <2>8. \A i \in 1..k : jobs[i].update.n < m.n
    BY <1>2, <2>3 DEF InOrder
  <2>9. \A i \in DOMAIN jobs' :
          /\ jobs'[i].update.n <= wrote'
          /\ \A j \in Arriving' : jobs'[i].update.n < inbound'[j].n
    <3> SUFFICES ASSUME NEW i \in 1..(k + 1)
                 PROVE  /\ jobs'[i].update.n <= wrote'
                        /\ \A j \in Arriving' : jobs'[i].update.n < inbound'[j].n
      BY <2>3
    <3>1. CASE i \in 1..k
      BY <1>7, <2>3, <2>4, <3>1 DEF InOrder
    <3>2. CASE i = k + 1
      BY <1>1, <1>3, <1>5, <2>3, <3>2
    <3> QED BY <2>3, <3>1, <3>2
  <2>10. \A i, j \in DOMAIN jobs' : i < j => jobs'[i].update.n < jobs'[j].update.n
    <3> SUFFICES ASSUME NEW i \in 1..(k + 1), NEW j \in 1..(k + 1), i < j
                 PROVE  jobs'[i].update.n < jobs'[j].update.n
      BY <2>3
    <3>1. CASE j \in 1..k
      BY <2>3, <3>1 DEF InOrder
    <3>2. CASE j = k + 1
      BY <2>3, <2>8, <3>2
    <3> QED BY <2>3, <3>1, <3>2
  <2>11. InOrder'
    BY <1>7, <2>2, <2>5, <2>9, <2>10 DEF InOrder
  <2> QED BY <1>6, <2>6, <2>7, <2>11 DEF ChannelKept
<1>9. CASE ~HandlerSet
  <2> DEFINE k == Len(buffered)
  <2>1. buffered' = Append(buffered, m) /\ jobs' = jobs /\ jobs = <<>>
    BY <1>9 DEF ReceiveUpdate, InOrder
  <2>2. /\ buffered' \in Seq(SessionUpdate) /\ k \in Nat /\ DOMAIN buffered = 1..k
        /\ DOMAIN buffered' = 1..(k + 1)
        /\ \A i \in 1..k : buffered'[i] = buffered[i]
        /\ buffered'[k + 1] = m
    BY <1>2, <2>1, Longer DEF ChannelTyped
  <2>3. \A i \in 1..k : buffered[i].n \in Nat
    BY <2>2, TypesApart DEF ChannelTyped
  <2>4. ~HandlerSet'
    BY <1>1, <1>9 DEF HandlerSet
  <2>5. ChannelTyped'
    BY <1>1, <1>4, <2>1, <2>2 DEF ChannelTyped
  <2>6. Past \subseteq Past'
    BY <1>7, <2>1, <2>2 DEF Past
  <2>7. \A i \in 1..k : buffered[i].n < m.n
    BY <1>2, <2>2 DEF InOrder
  <2>8. \A i \in DOMAIN buffered' :
          /\ buffered'[i].n <= wrote'
          /\ \A j \in Arriving' : buffered'[i].n < inbound'[j].n
    <3> SUFFICES ASSUME NEW i \in 1..(k + 1)
                 PROVE  /\ buffered'[i].n <= wrote'
                        /\ \A j \in Arriving' : buffered'[i].n < inbound'[j].n
      BY <2>2
    <3>1. CASE i \in 1..k
      BY <1>7, <2>2, <2>3, <3>1 DEF InOrder
    <3>2. CASE i = k + 1
      BY <1>1, <1>3, <1>5, <2>2, <3>2
    <3> QED BY <2>2, <3>1, <3>2
  <2>9. \A i, j \in DOMAIN buffered' : i < j => buffered'[i].n < buffered'[j].n
    <3> SUFFICES ASSUME NEW i \in 1..(k + 1), NEW j \in 1..(k + 1), i < j
                 PROVE  buffered'[i].n < buffered'[j].n
      BY <2>2
    <3>1. CASE j \in 1..k
      BY <2>2, <3>1 DEF InOrder
    <3>2. CASE j = k + 1
      BY <2>2, <2>7, <3>2
    <3> QED BY <2>2, <3>1, <3>2
  <2>10. InOrder'
    BY <1>7, <2>1, <2>4, <2>8, <2>9 DEF InOrder
  <2> QED BY <1>6, <2>5, <2>6, <2>10 DEF ChannelKept
<1> QED BY <1>8, <1>9
-----------------------------------------------------------------------------
(* The actor's jobs.                                                       *)
LEMMA BufferFlushed ==
  ASSUME ChannelTyped, InOrder, LoadOk, SetSessionUpdateHandler
  PROVE  ChannelKept
<1>1. /\ opening = "bootstrapped" /\ opening' = "flushing"
      /\ buffered' = <<>> /\ UNCHANGED <<inbound, wrote, asked, replayed>>
      /\ jobs' = [i \in DOMAIN buffered |-> Job(buffered[i], TRUE)]
  BY DEF SetSessionUpdateHandler, agentVars
<1>2. jobs = <<>>
  BY <1>1 DEF InOrder, HandlerSet
<1> DEFINE k == Len(buffered)
<1>3. k \in Nat /\ DOMAIN buffered = 1..k /\ \A i \in 1..k : buffered[i] \in SessionUpdate
  BY DEF ChannelTyped
<1>4. DOMAIN jobs' = 1..k
  BY <1>1, <1>3
<1>5. \A i \in 1..k : jobs'[i] \in ActorJob /\ jobs'[i].update = buffered[i]
  BY <1>1, <1>3, JobTyped
<1>6. jobs' \in Seq(ActorJob)
  <2>1. jobs' \in [1..k -> ActorJob]
    BY <1>1, <1>3, <1>5
  <2> QED BY <1>3, <2>1
<1>7. ChannelTyped'
  BY <1>1, <1>6 DEF ChannelTyped
<1>8. LoadOk'
  BY <1>1 DEF LoadOk
<1>9. /\ Arriving' = Arriving /\ DOMAIN buffered' = {}
      /\ \A i \in 1..k : jobs'[i].update.n = buffered[i].n
  <2>1. Arriving' = Arriving
    BY <1>1 DEF Arriving
  <2>2. DOMAIN buffered' = {}
    BY <1>1
  <2>3. \A i \in 1..k : jobs'[i].update.n = buffered[i].n
    BY <1>5
  <2> QED BY <2>1, <2>2, <2>3
<1> HIDE DEF k
<1>10. Past \subseteq Past'
  BY <1>1, <1>3, <1>4, <1>9 DEF Past
<1>11. InOrder'
  <2>1. /\ \A i \in Arriving : inbound[i].n <= wrote
        /\ \A i, j \in Arriving : i < j => inbound[i].n < inbound[j].n
        /\ \A i \in 1..k : /\ buffered[i].n <= wrote
                            /\ \A j \in Arriving : buffered[i].n < inbound[j].n
        /\ \A i, j \in 1..k : i < j => buffered[i].n < buffered[j].n
    BY <1>3 DEF InOrder
  <2>2. HandlerSet'
    BY <1>1 DEF HandlerSet
  <2>3. \A i \in Arriving' : inbound'[i].n <= wrote'
    BY <1>1, <1>9, <2>1
  <2>4. \A i, j \in Arriving' : i < j => inbound'[i].n < inbound'[j].n
    BY <1>1, <1>9, <2>1
  <2>5. \A i \in DOMAIN jobs' :
          /\ jobs'[i].update.n <= wrote'
          /\ \A j \in Arriving' : jobs'[i].update.n < inbound'[j].n
          /\ \A j \in DOMAIN jobs' : i < j => jobs'[i].update.n < jobs'[j].update.n
    <3> SUFFICES ASSUME NEW i \in 1..k
                 PROVE  /\ jobs'[i].update.n <= wrote'
                        /\ \A j \in Arriving' : jobs'[i].update.n < inbound'[j].n
                        /\ \A j \in 1..k : i < j => jobs'[i].update.n < jobs'[j].update.n
      BY <1>4
    <3>1. jobs'[i].update.n = buffered[i].n
      BY <1>9
    <3>2. \A j \in 1..k : i < j => jobs'[i].update.n < jobs'[j].update.n
      <4> SUFFICES ASSUME NEW j \in 1..k, i < j
                   PROVE  jobs'[i].update.n < jobs'[j].update.n
        OBVIOUS
      <4>1. jobs'[j].update.n = buffered[j].n
        BY <1>9
      <4>2. buffered[i].n < buffered[j].n
        BY <2>1
      <4> QED BY <3>1, <4>1, <4>2
    <3> QED BY <1>1, <1>9, <2>1, <3>1, <3>2
  <2> QED BY <1>1, <1>9, <2>2, <2>3, <2>4, <2>5 DEF InOrder
<1> QED BY <1>7, <1>8, <1>10, <1>11 DEF ChannelKept

(* The first job is older than all that is to come, and past when it is    *)
(* done.                                                                   *)
LEMMA JobTaken ==
  ASSUME ChannelTyped, InOrder, LoadOk, jobs # <<>>, jobs' = Tail(jobs),
         UNCHANGED <<inbound, wrote, asked, replayed, opening, buffered>>
  PROVE  /\ ChannelKept /\ jobs[1].update.n \in Past'
         /\ 1 \in DOMAIN jobs /\ Head(jobs) = jobs[1]
<1> DEFINE k == Len(jobs)
           n1 == jobs[1].update.n
<1>1. /\ jobs' \in Seq(ActorJob) /\ k \in Nat \ {0} /\ DOMAIN jobs = 1..k
      /\ DOMAIN jobs' = 1..(k - 1)
      /\ \A i \in 1..(k - 1) : jobs'[i] = jobs[i + 1]
      /\ 1 \in DOMAIN jobs /\ Head(jobs) = jobs[1]
  BY Shorter DEF ChannelTyped
<1>2. n1 \in Nat
  BY <1>1, JobsTyped
<1>3. HandlerSet /\ buffered = <<>>
  BY <1>1 DEF InOrder
<1>4. ChannelTyped'
  BY <1>1 DEF ChannelTyped
<1>5. LoadOk'
  BY DEF LoadOk
<1>6. Past \subseteq Past'
  BY <1>1 DEF Past, Arriving, ChannelTyped
<1>7. InOrder'
  BY <1>1 DEF InOrder, Arriving, HandlerSet
<1>8. \A j \in 1..(k - 1) : n1 < jobs'[j].update.n
  <2> SUFFICES ASSUME NEW j \in 1..(k - 1) PROVE n1 < jobs'[j].update.n
    OBVIOUS
  <2>1. 1 \in DOMAIN jobs /\ j + 1 \in DOMAIN jobs /\ 1 < j + 1
    BY <1>1
  <2>2. jobs[1].update.n < jobs[j + 1].update.n
    BY <2>1 DEF InOrder
  <2> QED BY <1>1, <2>2
<1>9. ASSUME NEW n \in Nat, n = n1 PROVE n \in Past'
  <2>1. n <= wrote /\ \A j \in Arriving : n < inbound[j].n
    BY <1>1, <1>9 DEF InOrder
  <2>2. Arriving' = Arriving /\ DOMAIN buffered' = {}
    BY <1>3 DEF Arriving
  <2>3. n <= wrote' /\ \A j \in Arriving' : n < inbound'[j].n
    BY <2>1, <2>2
  <2>4. \A j \in DOMAIN jobs' : n < jobs'[j].update.n
    BY <1>1, <1>8, <1>9
  <2>5. n \in 0..wrote'
    BY <2>3 DEF ChannelTyped
  <2> QED BY <2>2, <2>3, <2>4, <2>5 DEF Past
<1>10. n1 \in Past'
  BY <1>2, <1>9
<1> QED BY <1>1, <1>4, <1>5, <1>6, <1>7, <1>10 DEF ChannelKept

(* The first job waits, with the update it had: order is kept.             *)
LEMMA JobChanged ==
  ASSUME ChannelTyped, InOrder, LoadOk, jobs # <<>>,
         NEW b \in ActorJob, b.update.n = jobs[1].update.n,
         jobs' = [jobs EXCEPT ![1] = b],
         UNCHANGED <<inbound, wrote, asked, replayed, opening, buffered>>
  PROVE  ChannelKept
<1> DEFINE k == Len(jobs)
<1>1. /\ k \in Nat \ {0} /\ DOMAIN jobs = 1..k /\ 1 \in DOMAIN jobs
  BY Shorter DEF ChannelTyped
<1>2. /\ jobs' \in Seq(ActorJob) /\ DOMAIN jobs' = 1..k
      /\ \A i \in 1..k : jobs'[i] = IF i = 1 THEN b ELSE jobs[i]
  BY <1>1 DEF ChannelTyped
<1>3. \A i \in 1..k : jobs'[i].update.n = jobs[i].update.n
  BY <1>2
<1>4. HandlerSet /\ buffered = <<>>
  BY <1>1 DEF InOrder
<1>5. ChannelTyped'
  BY <1>2 DEF ChannelTyped
<1>6. LoadOk'
  BY DEF LoadOk
<1>7. Past \subseteq Past'
  BY <1>1, <1>2, <1>3 DEF Past, Arriving
<1>8. InOrder'
  BY <1>1, <1>2, <1>3, <1>4 DEF InOrder, Arriving, HandlerSet
<1> QED BY <1>5, <1>6, <1>7, <1>8 DEF ChannelKept

(* What a job that goes on keeps of what it was.                           *)
Carries(b, j) ==
  /\ b \in ActorJob /\ b.turn = TurnOfJob(j)
  /\ b.update.n = j.update.n /\ b.update.type = j.update.type
  /\ b.update.tool = j.update.tool /\ b.update.sound = j.update.sound
  /\ b.exit = j.exit /\ b.flush = j.flush

(* The first look of a job: it is dropped, waits for a terminal, or writes *)
(* to the thread.                                                          *)
Drops ==
  /\ jobs' = Tail(jobs) /\ timeline' = timeline
  /\ ~Accepted(jobs[1].update) \/ ~ShouldCommit(TurnOfJob(jobs[1]))

Waits(b) ==
  /\ jobs' = [jobs EXCEPT ![1] = b] /\ timeline' = timeline
  /\ b.stage = "reading" /\ ShowsTerminal(b.update)

Writes(b) ==
  /\ jobs' = [jobs EXCEPT ![1] = b]
  /\ b.stage = "written" /\ ShouldCommit(b.turn)
  /\ timeline' = SyncThread(timeline, TurnId(b.turn), b.update, b.exit)

(* A job that writes is changed in its stage alone.                        *)
LEMMA WriteIs ==
  ASSUME NEW job \in ActorJob, Write(job)
  PROVE  \/ jobs' = Tail(jobs) /\ timeline' = timeline /\ ~ShouldCommit(job.turn)
         \/ \E b \in ActorJob :
              /\ Writes(b) /\ b.update = job.update /\ b.exit = job.exit
              /\ b.flush = job.flush /\ b.turn = job.turn
<1>1. CASE ~ShouldCommit(job.turn)
  BY <1>1 DEF Write
<1>2. CASE ShouldCommit(job.turn)
  <2> DEFINE b == [job EXCEPT !.stage = "written"]
  <2>1. /\ b \in ActorJob /\ b.update = job.update /\ b.exit = job.exit
        /\ b.flush = job.flush /\ b.turn = job.turn /\ b.stage = "written"
    BY DEF ActorJob
  <2>2. /\ jobs' = [jobs EXCEPT ![1] = b]
        /\ timeline' = SyncThread(timeline, TurnId(job.turn), job.update, job.exit)
    BY <1>2 DEF Write
  <2> HIDE DEF b
  <2> QED BY <1>2, <2>1, <2>2 DEF Writes
<1> QED BY <1>1, <1>2

(* So do the two ways to begin or end the first part of a job.             *)
LEMMA FirstLook ==
  ASSUME ChannelTyped, current \in Turns \cup {NoTurn}, RunJob \/ EndJob
  PROVE  /\ jobs # <<>> /\ 1 \in DOMAIN jobs /\ Head(jobs) = jobs[1]
         /\ jobs[1] \in ActorJob /\ jobs[1].stage \in {"queued", "read"}
         /\ UNCHANGED <<inbound, wrote, asked, replayed, opening, buffered, current,
                        turn, ended, stream, asking, told, process, call>>
         /\ \/ Drops
            \/ \E b : Carries(b, jobs[1]) /\ Waits(b)
            \/ \E b : Carries(b, jobs[1]) /\ Writes(b)
<1>1. jobs # <<>> /\ Head(jobs).stage \in {"queued", "read"}
  BY DEF RunJob, EndJob
<1>2. 1 \in DOMAIN jobs /\ Head(jobs) = jobs[1] /\ jobs[1] \in ActorJob
  BY <1>1, Shorter DEF ChannelTyped
<1>3. UNCHANGED <<inbound, wrote, asked, replayed, opening, buffered, current,
                  turn, ended, stream, asking, told, process, call>>
  BY DEF RunJob, EndJob, agentVars, turnVars, hostVars
<1> DEFINE j   == jobs[1]
           raw == j.update
           u   == Normalized(raw)
<1>4. raw \in SessionUpdate
  BY <1>2 DEF ActorJob
<1>5. /\ u \in SessionUpdate /\ u.n = raw.n /\ u.type = raw.type
      /\ u.tool = raw.tool /\ u.sound = raw.sound
  BY <1>4, NormalizedTyped
<1>6. CASE RunJob
  <2>1. j.stage = "queued" /\ TurnOfJob(j) = current
    BY <1>2, <1>6 DEF RunJob, TurnOfJob
  <2>2. CASE ~Accepted(raw)
    BY <1>1, <1>2, <1>3, <1>6, <2>2 DEF RunJob, Drops
  <2>3. CASE Accepted(raw) /\ ShowsTerminal(u)
    <3> DEFINE b == [j EXCEPT !.stage = "reading", !.turn = current, !.update = u]
    <3>1. jobs' = [jobs EXCEPT ![1] = b] /\ timeline' = timeline
      <4>1. jobs' = [jobs EXCEPT ![1].stage = "reading", ![1].turn = current,
                                 ![1].update = u]
        BY <1>2, <1>6, <2>3 DEF RunJob
      <4>2. timeline' = timeline
        BY <1>2, <1>6, <2>3 DEF RunJob
      <4> HIDE DEF u
      <4> QED BY <1>2, <4>1, <4>2
    <3>2. u.content # Absent
      BY <2>3 DEF ShowsTerminal
    <3> HIDE DEF u
    <3>3. /\ b \in ActorJob /\ b.stage = "reading" /\ b.turn = current /\ b.update = u
          /\ b.exit = j.exit /\ b.flush = j.flush
      BY <1>2, <1>5, <3>2 DEF ActorJob
    <3> HIDE DEF b
    <3>4. Carries(b, jobs[1])
      BY <1>5, <2>1, <3>3 DEF Carries
    <3>5. Waits(b)
      BY <2>3, <3>1, <3>3 DEF Waits
    <3> QED BY <1>1, <1>2, <1>3, <3>4, <3>5
  <2>4. CASE Accepted(raw) /\ ~ShowsTerminal(u)
    <3> DEFINE job == [j EXCEPT !.turn = current, !.update = u]
    <3>1. Write(job)
      BY <1>2, <1>6, <2>4 DEF RunJob
    <3> HIDE DEF u
    <3>2. /\ job \in ActorJob /\ job.turn = current /\ job.update = u
          /\ job.exit = j.exit /\ job.flush = j.flush
      BY <1>2, <1>5, <2>1 DEF ActorJob
    <3> HIDE DEF job
    <3>3. CASE jobs' = Tail(jobs) /\ timeline' = timeline /\ ~ShouldCommit(job.turn)
      BY <1>1, <1>2, <1>3, <2>1, <3>2, <3>3 DEF Drops
    <3>4. ASSUME NEW b \in ActorJob,
                 Writes(b) /\ b.update = job.update /\ b.exit = job.exit
                   /\ b.flush = job.flush /\ b.turn = job.turn
          PROVE  Carries(b, jobs[1])
      BY <1>5, <2>1, <3>2, <3>4 DEF Carries
    <3> QED BY <1>1, <1>2, <1>3, <3>1, <3>2, <3>3, <3>4, WriteIs
  <2> QED BY <2>2, <2>3, <2>4
<1>7. CASE EndJob
  <2>1. j.stage = "read" /\ TurnOfJob(j) = j.turn /\ Write(j)
    BY <1>2, <1>7 DEF EndJob, TurnOfJob
  <2>2. CASE jobs' = Tail(jobs) /\ timeline' = timeline /\ ~ShouldCommit(j.turn)
    BY <1>1, <1>2, <1>3, <2>1, <2>2 DEF Drops
  <2>3. ASSUME NEW b \in ActorJob,
               Writes(b) /\ b.update = j.update /\ b.exit = j.exit
                 /\ b.flush = j.flush /\ b.turn = j.turn
        PROVE  Carries(b, jobs[1])
    BY <2>1, <2>3 DEF Carries
  <2> QED BY <1>1, <1>2, <1>3, <2>1, <2>2, <2>3, WriteIs
<1> QED BY <1>6, <1>7

(* A job that has read a terminal still carries its update.                *)
LEMMA JobHasRead ==
  ASSUME ChannelTyped, jobs # <<>>, NEW stage \in {"reading", "read"},
         NEW exit \in Reads, Head(jobs).stage = "reading"
  PROVE  \E b \in ActorJob :
           /\ [jobs EXCEPT ![1].stage = stage, ![1].exit = exit] = [jobs EXCEPT ![1] = b]
           /\ b.update = jobs[1].update /\ b.turn = jobs[1].turn /\ b.stage = stage
<1>1. 1 \in DOMAIN jobs /\ jobs[1] \in ActorJob /\ jobs[1].stage = "reading"
  BY Shorter DEF ChannelTyped
<1> DEFINE j == jobs[1]
           b == [j EXCEPT !.stage = stage, !.exit = exit]
<1>2. b \in ActorJob /\ b.update = j.update /\ b.turn = j.turn /\ b.stage = stage
  BY <1>1 DEF ActorJob
<1>3. [jobs EXCEPT ![1].stage = stage, ![1].exit = exit] = [jobs EXCEPT ![1] = b]
  BY <1>1
<1> QED BY <1>2, <1>3
-----------------------------------------------------------------------------
(* Every step keeps the channel.                                           *)
ProcessTyped ==
  process \in [Terminals -> [exit : {"none", "code"}, released : BOOLEAN]]

(* What an update shows as a terminal is one of the terminals.             *)
LEMMA TerminalsShown ==
  ASSUME NEW u \in SessionUpdate, u.content # Absent,
         NEW c \in u.content, c.kind = "terminal"
  PROVE  c.object \in Terminals
<1>1. c \in Shown
  BY DEF SessionUpdate
<1> QED BY <1>1, ConversationAssumption

(* What has been read with one terminal more.                              *)
LEMMA OutputRead ==
  ASSUME ProcessTyped, NEW f \in Reads, NEW x \in Terminals
  PROVE  Over(f, [y \in {x} |-> Output(y)]) \in Reads
<1> DEFINE g == Over(f, [y \in {x} |-> Output(y)])
<1>1. Output(x) \in Exit
  BY DEF ProcessTyped, Output, Exit
<1>2. g = [y \in DOMAIN f \cup {x} |-> IF y = x THEN Output(x) ELSE f[y]]
  BY DEF Over
<1>3. \A y \in DOMAIN f : f[y] \in Exit /\ y \in Terminals
  BY ReadsAre
<1>4. DOMAIN g = DOMAIN f \cup {x} /\ \A y \in DOMAIN g : g[y] \in Exit
  BY <1>1, <1>2, <1>3
<1>5. g = [y \in DOMAIN g |-> g[y]]
  BY <1>2
<1> HIDE DEF g
<1>6. g \in [DOMAIN g -> Exit] /\ DOMAIN g \subseteq Terminals
  BY <1>3, <1>4, <1>5
<1> QED BY <1>6, ReadsAre DEF g

(* A terminal that is read leaves its job, the first, waiting.             *)
LEMMA OutputIs ==
  ASSUME ChannelTyped, ProcessTyped, ReadOutput
  PROVE  /\ jobs # <<>> /\ 1 \in DOMAIN jobs /\ jobs[1].stage = "reading"
         /\ \E b \in ActorJob :
              /\ jobs' = [jobs EXCEPT ![1] = b] /\ b.stage \in {"reading", "read"}
              /\ b.update = jobs[1].update /\ b.turn = jobs[1].turn
<1> DEFINE shown == {c.object : c \in {i \in Head(jobs).update.content : i.kind = "terminal"}}
<1>1. PICK x \in shown \ DOMAIN Head(jobs).exit :
        jobs' = [jobs EXCEPT
                   ![1].stage = IF shown \subseteq DOMAIN Head(jobs).exit \cup {x}
                                THEN "read" ELSE "reading",
                   ![1].exit = Over(@, [y \in {x} |-> Output(y)])]
  BY DEF ReadOutput
<1>2. jobs # <<>> /\ Head(jobs).stage = "reading"
  BY DEF ReadOutput
<1>3. 1 \in DOMAIN jobs /\ Head(jobs) = jobs[1]
  BY <1>2, Shorter DEF ChannelTyped
<1>4. jobs[1].update \in SessionUpdate /\ jobs[1] \in ActorJob
  BY <1>3, JobsTyped
<1>5. x \in Terminals
  <2>1. jobs[1].update.content # Absent
    BY <1>2, <1>3, <1>4 DEF ActorJob
  <2> QED BY <1>1, <1>3, <1>4, <2>1, TerminalsShown
<1> DEFINE stage == IF shown \subseteq DOMAIN Head(jobs).exit \cup {x}
                    THEN "read" ELSE "reading"
           exit  == Over(jobs[1].exit, [y \in {x} |-> Output(y)])
<1>6. exit \in Reads
  <2>1. jobs[1].exit \in Reads
    BY <1>4 DEF ActorJob
  <2> QED BY <1>5, <2>1, OutputRead
<1>7. jobs' = [jobs EXCEPT ![1].stage = stage, ![1].exit = exit]
  BY <1>1, <1>3
<1>8. stage \in {"reading", "read"}
  OBVIOUS
<1> HIDE DEF shown, stage, exit
<1>9. \E b \in ActorJob :
         /\ [jobs EXCEPT ![1].stage = stage, ![1].exit = exit] = [jobs EXCEPT ![1] = b]
         /\ b.update = jobs[1].update /\ b.turn = jobs[1].turn /\ b.stage = stage
  BY <1>2, <1>6, <1>8, JobHasRead
<1> QED BY <1>2, <1>3, <1>7, <1>8, <1>9

(* An update as the agent writes it is an update.                          *)
LEMMA UpdateWritten ==
  ASSUME NEW u \in Updates, NEW n \in Nat, NEW t \in Turns \cup {NoTurn}
  PROVE  LET m == [u EXCEPT !.n = n, !.from = t]
         IN  m \in Inbound /\ m.n = n /\ m.type = u.type /\ m.type \in UpdateTypes
<1> DEFINE m == [u EXCEPT !.n = n, !.from = t]
<1>1. /\ u \in [type : UpdateTypes, n : {0}, tool : Tools \cup {"none"},
                status : {v.status : v \in Updates}, content : {v.content : v \in Updates},
                sound : BOOLEAN, from : {NoTurn}]
      /\ u.type \in ToolTypes => u.tool \in Tools
  BY ConversationAssumption
<1>2. u.status \in Statuses
  BY DEF Statuses
<1>3. u.content \in {Absent} \cup SUBSET Shown
  BY DEF Shown
<1>4. u \in [type : UpdateTypes, n : {0}, tool : Tools \cup {"none"},
             status : Statuses, content : {Absent} \cup SUBSET Shown,
             sound : BOOLEAN, from : {NoTurn}]
  BY <1>1, <1>2, <1>3
<1>5. m \in [type : UpdateTypes, n : Nat, tool : Tools \cup {"none"},
             status : Statuses, content : {Absent} \cup SUBSET Shown,
             sound : BOOLEAN, from : Turns \cup {NoTurn}]
      /\ m.n = n /\ m.type = u.type /\ m.tool = u.tool
  BY <1>4
<1> HIDE DEF m
<1>6. m \in SessionUpdate
  BY <1>1, <1>5 DEF SessionUpdate
<1> QED BY <1>5, <1>6 DEF Inbound, m
-----------------------------------------------------------------------------
OthersUnchanged == UNCHANGED <<inbound, wrote, replayed, opening, buffered, jobs>>

(* Steps that have nothing to do with the channel.                         *)
Elsewhere ==
  \/ DrainHistory \/ EndEarly \/ TerminalReturns \/ UNCHANGED vars
  \/ \E r \in asking : HostDecides(r)
  \/ \E x \in Terminals : Exits(x)
  \/ \E op \in TerminalOps, x \in Terminals : CallTerminal(op, x)

(* These steps leave the channel alone.                                    *)
LEMMA ElsewhereKept ==
  ASSUME Elsewhere
  PROVE  OthersUnchanged /\ asked' = asked
<1>1. CASE DrainHistory
  BY <1>1 DEF DrainHistory, OthersUnchanged, agentVars
<1>2. CASE EndEarly
  BY <1>2 DEF EndEarly, OthersUnchanged, agentVars
<1>3. CASE TerminalReturns
  BY <1>3 DEF TerminalReturns, OthersUnchanged, agentVars
<1>4. CASE UNCHANGED vars
  BY <1>4 DEF vars, OthersUnchanged, agentVars
<1>5. CASE \E r \in asking : HostDecides(r)
  BY <1>5 DEF HostDecides, OthersUnchanged, agentVars
<1>6. CASE \E x \in Terminals : Exits(x)
  BY <1>6 DEF Exits, OthersUnchanged, agentVars
<1>7. CASE \E op \in TerminalOps, x \in Terminals : CallTerminal(op, x)
  BY <1>7 DEF CallTerminal, OthersUnchanged, agentVars
<1> QED BY <1>1, <1>2, <1>3, <1>4, <1>5, <1>6, <1>7 DEF Elsewhere

(* Every step keeps what the agent says in order, from the connection to   *)
(* the thread, and what is past stays past.                                *)
LEMMA ChannelStep ==
  ASSUME ChannelTyped, InOrder, LoadOk, current \in Turns \cup {NoTurn}, ProcessTyped,
         [Next]_vars
  PROVE  ChannelKept
<1>1. CASE AgentUpdates
  <2>1. PICK u \in Updates :
          /\ wrote' = wrote + 1
          /\ Send([u EXCEPT !.n = wrote + 1, !.from = asked])
          /\ replayed' = IF opening = "loading" /\ u.type \in {"user", "text"} /\ u.sound
                         THEN Append(replayed, wrote + 1) ELSE replayed
          /\ UNCHANGED <<asked, opening, buffered, jobs>>
    BY <1>1 DEF AgentUpdates
  <2> DEFINE m == [u EXCEPT !.n = wrote + 1, !.from = asked]
  <2>2. wrote + 1 \in Nat /\ asked \in Turns \cup {NoTurn} /\ replayed \in Seq(Nat)
    BY DEF ChannelTyped
  <2>3. m \in Inbound /\ m.n = wrote + 1 /\ m.type \in UpdateTypes
    <3> DEFINE n == wrote + 1
    <3>1. n \in Nat
      BY <2>2
    <3> HIDE DEF n
    <3>2. LET x == [u EXCEPT !.n = n, !.from = asked]
          IN  x \in Inbound /\ x.n = n /\ x.type \in UpdateTypes
      BY <2>2, <3>1, UpdateWritten, ZenonT(60)
    <3> QED BY <3>2 DEF n
  <2>4. m.type # "loaded"
    BY <2>3, TypesApart
  <2> HIDE DEF m
  <2>5. replayed' \in Seq(Nat)
    BY <2>1, <2>2
  <2>6. Send(m)
    BY <2>1 DEF m
  <2> QED BY <2>1, <2>2, <2>3, <2>4, <2>5, <2>6, MessageWritten
<1>2. CASE AgentAsks
  <2>1. PICK r \in Requests :
          /\ wrote' = wrote + 1
          /\ Send([type |-> "permission", n |-> wrote + 1, tool |-> r.tool,
                   options |-> r.options])
          /\ UNCHANGED <<asked, replayed, opening, buffered, jobs>>
    BY <1>2 DEF AgentAsks
  <2> DEFINE m == [type |-> "permission", n |-> wrote + 1, tool |-> r.tool,
                   options |-> r.options]
  <2>2. wrote + 1 \in Nat /\ asked \in Turns \cup {NoTurn} /\ replayed \in Seq(Nat)
        /\ r.tool \in Tools
    BY ConversationAssumption DEF ChannelTyped
  <2>3. m \in Inbound /\ m.type = "permission"
    BY <2>2 DEF Inbound
  <2>4. m.type \notin UpdateTypes
    BY <2>3, TypesApart
  <2>5. Send(m)
    BY <2>1
  <2> HIDE DEF m
  <2> QED BY <2>1, <2>2, <2>3, <2>4, <2>5, MessageWritten
<1>3. CASE AgentAnswers
  <2>1. PICK stop \in Answers :
          /\ asked' = NoTurn
          /\ Send([type |-> "answer", stop |-> stop])
          /\ UNCHANGED <<wrote, replayed, opening, buffered, jobs>>
    BY <1>3 DEF AgentAnswers
  <2> DEFINE m == [type |-> "answer", stop |-> stop]
  <2>2. replayed \in Seq(Nat)
    BY DEF ChannelTyped
  <2>3. m \in Inbound /\ m.type = "answer"
    BY DEF Inbound
  <2>4. m.type \notin UpdateTypes
    BY <2>3, TypesApart
  <2>5. Send(m)
    BY <2>1
  <2> HIDE DEF m
  <2> QED BY <2>1, <2>2, <2>3, <2>4, <2>5, MessageWritten
<1>4. CASE AgentLoads
  <2> DEFINE m == [type |-> "loaded"]
  <2>1. /\ opening = "loading" /\ opening' = "answered" /\ Send(m)
        /\ UNCHANGED <<wrote, asked, replayed, buffered, jobs>>
    BY <1>4 DEF AgentLoads
  <2>2. replayed \in Seq(Nat) /\ asked \in Turns \cup {NoTurn}
    BY DEF ChannelTyped
  <2>3. m \in Inbound /\ m.type = "loaded"
    BY DEF Inbound
  <2>4. m.type \notin UpdateTypes
    BY <2>3, TypesApart
  <2> HIDE DEF m
  <2> QED BY <2>1, <2>2, <2>3, <2>4, MessageWritten
<1>5. CASE Deliver
  <2>1. PICK m : ReceiveUpdate(m) \/ ReceiveLoaded(m) \/ ReceivePermission(m)
                   \/ ReceiveAnswer(m)
    BY <1>5 DEF Deliver
  <2>2. CASE ReceiveUpdate(m)
    BY <2>2, UpdateReceived
  <2>3. CASE ReceiveLoaded(m)
    BY <2>3, OnlyRead DEF ReceiveLoaded
  <2>4. CASE ReceivePermission(m)
    BY <2>4, OnlyRead DEF ReceivePermission
  <2>5. CASE ReceiveAnswer(m)
    BY <2>5, OnlyRead DEF ReceiveAnswer
  <2> QED BY <2>1, <2>2, <2>3, <2>4, <2>5
<1>6. CASE SetSessionUpdateHandler
  BY <1>6, BufferFlushed
<1>7. CASE SealHistoryReplay
  <2>1. /\ opening = "flushing" /\ opening' = "open"
        /\ UNCHANGED <<inbound, wrote, asked, replayed, buffered, jobs>>
    BY <1>7 DEF SealHistoryReplay, agentVars
  <2>2. ChannelTyped' /\ LoadOk'
    BY <2>1 DEF ChannelTyped, LoadOk
  <2>3. InOrder' /\ Past \subseteq Past'
    BY <2>1 DEF InOrder, Past, Arriving, HandlerSet
  <2> QED BY <2>2, <2>3 DEF ChannelKept
<1>8. CASE RunJob \/ EndJob
  <2>1. /\ jobs # <<>>
        /\ UNCHANGED <<inbound, wrote, asked, replayed, opening, buffered>>
    BY <1>8, FirstLook
  <2>2. CASE jobs' = Tail(jobs)
    BY <2>1, <2>2, JobTaken
  <2>3. CASE \E b : Carries(b, jobs[1]) /\ jobs' = [jobs EXCEPT ![1] = b]
    <3>1. PICK b : Carries(b, jobs[1]) /\ jobs' = [jobs EXCEPT ![1] = b]
      BY <2>3
    <3>2. b \in ActorJob /\ b.update.n = jobs[1].update.n
      BY <3>1 DEF Carries
    <3> QED BY <2>1, <3>1, <3>2, JobChanged
  <2> QED BY <1>8, <2>2, <2>3, FirstLook DEF Drops, Waits, Writes
<1>9. CASE ReadOutput
  <2>1. jobs # <<>> /\ UNCHANGED <<inbound, wrote, asked, replayed, opening, buffered>>
    BY <1>9 DEF ReadOutput, agentVars
  <2>2. PICK b \in ActorJob : jobs' = [jobs EXCEPT ![1] = b] /\ b.update = jobs[1].update
    BY <1>9, OutputIs
  <2> QED BY <2>1, <2>2, JobChanged
<1>10. CASE TellHost
  BY <1>10, JobTaken DEF TellHost, agentVars
<1>11. CASE \E t \in Turns : StartTurn(t)
  BY <1>11, ChannelUnchanged DEF StartTurn
<1>12. CASE Elsewhere
  <2>1. asked \in Turns \cup {NoTurn}
    BY DEF ChannelTyped
  <2> QED BY <1>12, <2>1, ElsewhereKept, ChannelUnchanged DEF OthersUnchanged
<1> QED BY <1>1, <1>2, <1>3, <1>4, <1>5, <1>6, <1>7, <1>8, <1>9, <1>10, <1>11, <1>12
        DEF Next, Elsewhere
-----------------------------------------------------------------------------
(* One answer to a prompt.                                                 *)
LEMMA AnswerSplit == AnswerOk <=> OneAnswer /\ LoadOk
BY DEF AnswerOk, OneAnswer, LoadOk

(* One answer, with nothing about answers changed.                         *)
LEMMA AnswerUnchanged ==
  ASSUME OneAnswer, UNCHANGED <<inbound, asked, current>>
  PROVE  OneAnswer'
BY DEF OneAnswer

(* The agent writes an answer only while it is asked.                      *)
LEMMA AnswerWritten ==
  ASSUME ChannelTyped, OneAnswer, NEW m \in Inbound, Send(m), current' = current,
         IF m.type = "answer" THEN asked # NoTurn /\ asked' = NoTurn ELSE asked' = asked
  PROVE  OneAnswer'
<1> DEFINE k == Len(inbound)
<1>1. /\ k \in Nat /\ DOMAIN inbound = 1..k /\ DOMAIN inbound' = 1..(k + 1)
      /\ \A i \in 1..k : inbound'[i] = inbound[i]
      /\ inbound'[k + 1] = m
  BY Longer DEF Send, ChannelTyped
<1> HIDE DEF k
<1>2. CASE m.type = "answer"
  <2>1. \A i \in 1..k : inbound[i].type # "answer"
    BY <1>1, <1>2 DEF OneAnswer
  <2>2. asked' = NoTurn
    BY <1>2
  <2>3. asked # NoTurn /\ current # NoTurn
    BY <1>2 DEF OneAnswer
  <2>4. \A i \in DOMAIN inbound' : inbound'[i].type = "answer" => i = k + 1
    BY <1>1, <2>1
  <2> QED BY <2>2, <2>3, <2>4 DEF OneAnswer
<1>3. CASE m.type # "answer"
  <2>1. \A i \in DOMAIN inbound' : inbound'[i].type = "answer" => i \in 1..k
    BY <1>1, <1>3
  <2> QED BY <1>1, <1>3, <2>1 DEF OneAnswer
<1> QED BY <1>2, <1>3

(* The answer that is read was the only one.                               *)
LEMMA AnswerRead ==
  ASSUME ChannelTyped, InOrder, LoadOk, OneAnswer, NEW m, Receive(m), asked' = asked,
         IF m.type = "answer" THEN current' = NoTurn ELSE current' = current
  PROVE  OneAnswer'
<1>1. /\ DOMAIN inbound = 1..Len(inbound) /\ Len(inbound) \in Nat \ {0}
      /\ DOMAIN inbound' = 1..(Len(inbound) - 1)
      /\ \A i \in 1..(Len(inbound) - 1) : inbound'[i] = inbound[i + 1]
      /\ m = inbound[1] /\ 1 \in DOMAIN inbound
  BY MessageRead
<1>2. CASE m.type = "answer"
  <2>1. asked = NoTurn /\ asked' = NoTurn
    BY <1>1, <1>2 DEF OneAnswer
  <2>2. \A i \in DOMAIN inbound' : inbound'[i].type # "answer"
    <3> SUFFICES ASSUME NEW i \in DOMAIN inbound', inbound'[i].type = "answer" PROVE FALSE
      OBVIOUS
    <3>1. i \in Nat \ {0} /\ i + 1 \in DOMAIN inbound /\ inbound[i + 1].type = "answer"
      BY <1>1
    <3>2. i + 1 = 1
      BY <1>1, <1>2, <3>1 DEF OneAnswer
    <3> QED BY <3>1, <3>2
  <2> QED BY <2>1, <2>2 DEF OneAnswer
<1>3. CASE m.type # "answer"
  <2> SUFFICES ASSUME NEW i \in DOMAIN inbound', inbound'[i].type = "answer"
               PROVE  /\ asked' = NoTurn /\ current' # NoTurn
                      /\ \A j \in DOMAIN inbound' : inbound'[j].type = "answer" => j = i
    BY <1>3 DEF OneAnswer
  <2>1. i \in Nat /\ i + 1 \in DOMAIN inbound /\ inbound[i + 1].type = "answer"
    BY <1>1
  <2>2. asked' = NoTurn /\ current' # NoTurn
    BY <1>3, <2>1 DEF OneAnswer
  <2>3. ASSUME NEW j \in DOMAIN inbound', inbound'[j].type = "answer" PROVE j = i
    <3>1. j \in Nat /\ j + 1 \in DOMAIN inbound /\ inbound[j + 1].type = "answer"
      BY <1>1, <2>3
    <3>2. j + 1 = i + 1
      BY <2>1, <3>1 DEF OneAnswer
    <3> QED BY <2>1, <3>1, <3>2
  <2> QED BY <2>2, <2>3
<1> QED BY <1>2, <1>3

(* Only a start and an answer change the current turn.                     *)
LEMMA CurrentKept ==
  ASSUME \/ AgentUpdates \/ AgentAsks \/ AgentAnswers \/ AgentLoads
         \/ SetSessionUpdateHandler \/ SealHistoryReplay
         \/ RunJob \/ ReadOutput \/ EndJob \/ TellHost \/ Elsewhere
         \/ \E m : ReceiveUpdate(m) \/ ReceiveLoaded(m) \/ ReceivePermission(m)
  PROVE  current' = current
<1>1. CASE AgentUpdates \/ AgentAsks \/ AgentAnswers \/ AgentLoads
  BY <1>1 DEF AgentUpdates, AgentAsks, AgentAnswers, AgentLoads, turnVars
<1>2. CASE SetSessionUpdateHandler \/ SealHistoryReplay
  BY <1>2 DEF SetSessionUpdateHandler, SealHistoryReplay, turnVars
<1>3. CASE RunJob \/ EndJob
  BY <1>3 DEF RunJob, EndJob, turnVars
<1>4. CASE TellHost
  BY <1>4 DEF TellHost, turnVars
<1>5. CASE ReadOutput
  BY <1>5 DEF ReadOutput, turnVars
<1>6. CASE \E m : ReceiveUpdate(m) \/ ReceiveLoaded(m) \/ ReceivePermission(m)
  BY <1>6 DEF ReceiveUpdate, ReceiveLoaded, ReceivePermission, turnVars
<1>7. CASE Elsewhere
  <2>1. CASE DrainHistory
    BY <2>1 DEF DrainHistory, turnVars
  <2>2. CASE EndEarly
    BY <2>2 DEF EndEarly, KeptUntilAnswered
  <2>3. CASE TerminalReturns
    BY <2>3 DEF TerminalReturns, turnVars
  <2>4. CASE UNCHANGED vars
    BY <2>4 DEF vars, turnVars
  <2>5. CASE \E r \in asking : HostDecides(r)
    BY <2>5 DEF HostDecides
  <2>6. CASE \E x \in Terminals : Exits(x)
    BY <2>6 DEF Exits, turnVars
  <2>7. CASE \E op \in TerminalOps, x \in Terminals : CallTerminal(op, x)
    BY <2>7 DEF CallTerminal, turnVars
  <2> QED BY <1>7, <2>1, <2>2, <2>3, <2>4, <2>5, <2>6, <2>7 DEF Elsewhere
<1> QED BY <1>1, <1>2, <1>3, <1>4, <1>5, <1>6, <1>7

(* Every step keeps the prompt and its answer one to one.                  *)
LEMMA AnswerStep ==
  ASSUME ChannelTyped, InOrder, LoadOk, OneAnswer, current \in Turns \cup {NoTurn},
         [Next]_vars
  PROVE  OneAnswer' /\ current' \in Turns \cup {NoTurn}
<1>0. ASSUME current' = current PROVE current' \in Turns \cup {NoTurn}
  BY <1>0
<1>1. CASE AgentUpdates
  <2>1. PICK u \in Updates : Send([u EXCEPT !.n = wrote + 1, !.from = asked]) /\ asked' = asked
    BY <1>1 DEF AgentUpdates
  <2> DEFINE m == [u EXCEPT !.n = wrote + 1, !.from = asked]
  <2>2. wrote + 1 \in Nat /\ asked \in Turns \cup {NoTurn}
    BY DEF ChannelTyped
  <2>3. m \in Inbound /\ m.type \in UpdateTypes
    BY <2>2, UpdateWritten
  <2>4. m.type # "answer"
    BY <2>3, TypesApart
  <2>5. Send(m)
    BY <2>1
  <2> HIDE DEF m
  <2> QED BY <1>0, <1>1, <2>1, <2>3, <2>4, <2>5, CurrentKept, AnswerWritten
<1>2. CASE AgentAsks
  <2>1. PICK r \in Requests :
          /\ Send([type |-> "permission", n |-> wrote + 1, tool |-> r.tool,
                   options |-> r.options])
          /\ asked' = asked
    BY <1>2 DEF AgentAsks
  <2> DEFINE m == [type |-> "permission", n |-> wrote + 1, tool |-> r.tool,
                   options |-> r.options]
  <2>2. wrote + 1 \in Nat /\ r.tool \in Tools
    BY ConversationAssumption DEF ChannelTyped
  <2>3. m \in Inbound /\ m.type # "answer"
    BY <2>2 DEF Inbound
  <2>4. Send(m)
    BY <2>1
  <2> HIDE DEF m
  <2> QED BY <1>0, <1>2, <2>1, <2>3, <2>4, CurrentKept, AnswerWritten
<1>3. CASE AgentAnswers
  <2>1. PICK stop \in Answers :
          asked # NoTurn /\ asked' = NoTurn /\ Send([type |-> "answer", stop |-> stop])
    BY <1>3 DEF AgentAnswers
  <2> DEFINE m == [type |-> "answer", stop |-> stop]
  <2>2. m \in Inbound /\ m.type = "answer"
    BY DEF Inbound
  <2>3. Send(m)
    BY <2>1
  <2> HIDE DEF m
  <2> QED BY <1>0, <1>3, <2>1, <2>2, <2>3, CurrentKept, AnswerWritten
<1>4. CASE AgentLoads
  <2> DEFINE m == [type |-> "loaded"]
  <2>1. m \in Inbound /\ m.type # "answer"
    BY DEF Inbound
  <2>2. Send(m) /\ asked' = asked
    BY <1>4 DEF AgentLoads
  <2> HIDE DEF m
  <2> QED BY <1>0, <1>4, <2>1, <2>2, CurrentKept, AnswerWritten
<1>5. CASE Deliver
  <2>1. PICK m : ReceiveUpdate(m) \/ ReceiveLoaded(m) \/ ReceivePermission(m)
                   \/ ReceiveAnswer(m)
    BY <1>5 DEF Deliver
  <2>2. CASE ReceiveAnswer(m)
    BY <2>2, AnswerRead DEF ReceiveAnswer
  <2>3. CASE ReceiveUpdate(m) \/ ReceiveLoaded(m) \/ ReceivePermission(m)
    <3>1. Receive(m) /\ m.type # "answer" /\ asked' = asked
      BY <2>3 DEF ReceiveUpdate, ReceiveLoaded, ReceivePermission
    <3> QED BY <1>0, <2>3, <3>1, CurrentKept, AnswerRead
  <2> QED BY <2>1, <2>2, <2>3
<1>6. CASE SetSessionUpdateHandler \/ SealHistoryReplay \/ RunJob \/ ReadOutput \/ EndJob
             \/ TellHost
  <2>1. UNCHANGED <<inbound, asked>>
    BY <1>6 DEF SetSessionUpdateHandler, SealHistoryReplay, RunJob, ReadOutput, EndJob,
                TellHost, agentVars
  <2> QED BY <1>0, <1>6, <2>1, CurrentKept, AnswerUnchanged
<1>7. CASE Elsewhere
  BY <1>0, <1>7, ElsewhereKept, CurrentKept, AnswerUnchanged DEF OthersUnchanged
<1>8. CASE \E t \in Turns : StartTurn(t)
  <2>1. PICK t \in Turns : current = NoTurn /\ current' = t /\ asked' = t
                             /\ inbound' = inbound
    BY <1>8 DEF StartTurn
  <2>2. \A i \in DOMAIN inbound : inbound[i].type # "answer"
    BY <2>1 DEF OneAnswer
  <2> QED BY <2>1, <2>2 DEF OneAnswer
<1> QED BY <1>1, <1>2, <1>3, <1>4, <1>5, <1>6, <1>7, <1>8 DEF Next, Elsewhere
-----------------------------------------------------------------------------
(* Between the two looks of a job.                                         *)
WrittenIn(js) == {k \in DOMAIN js : js[k].stage = "written"}

PendingIn(js, t) ==
  {js[i].update.n : i \in {k \in WrittenIn(js) : /\ js[k].turn = t
                                                 /\ js[k].update.type = "text"}}

WrittenSame ==
  WrittenIn(jobs') = WrittenIn(jobs) /\ \A i \in WrittenIn(jobs) : jobs'[i] = jobs[i]

(* What is pending is a matter of the jobs.                                *)
LEMMA PendingIs ==
  ASSUME NEW t
  PROVE  Pending(t) = PendingIn(jobs, t) /\ Pending(t)' = PendingIn(jobs', t)
BY DEF Pending, PendingIn, WrittenIn

(* The same jobs between their looks have the same texts pending.          *)
LEMMA PendingSame ==
  ASSUME NEW t, WrittenSame
  PROVE  Pending(t)' = Pending(t)
<1> DEFINE mine(js) == {k \in WrittenIn(js) : js[k].turn = t /\ js[k].update.type = "text"}
<1>1. mine(jobs') = mine(jobs) /\ \A i \in mine(jobs) : jobs'[i] = jobs[i]
  BY DEF WrittenSame
<1>2. PendingIn(jobs', t) = PendingIn(jobs, t)
  BY <1>1 DEF PendingIn
<1> QED BY <1>2, PendingIs

(* With no job between its looks nothing is pending.                       *)
LEMMA NonePending ==
  ASSUME NEW js, WrittenIn(js) = {}, NEW t
  PROVE  PendingIn(js, t) = {}
BY DEF PendingIn

(* Only the job between its looks has a text pending.                      *)
LEMMA OnePending ==
  ASSUME NEW js, WrittenIn(js) = {1}, NEW t
  PROVE  PendingIn(js, t) = IF js[1].turn = t /\ js[1].update.type = "text"
                            THEN {js[1].update.n} ELSE {}
BY DEF PendingIn

(* The first job is past its first look, or none is.                       *)
LEMMA FirstWritten ==
  ASSUME ChannelTyped, WrittenOk
  PROVE  /\ jobs # <<>> /\ jobs[1].stage = "written" => WrittenIn(jobs) = {1}
         /\ jobs = <<>> \/ jobs[1].stage # "written" => WrittenIn(jobs) = {}
<1>1. WrittenIn(jobs) \subseteq {1}
  BY DEF WrittenOk, WrittenIn
<1>2. jobs # <<>> => 1 \in DOMAIN jobs
  BY Shorter DEF ChannelTyped
<1>3. jobs = <<>> => DOMAIN jobs = {}
  OBVIOUS
<1> QED BY <1>1, <1>2, <1>3 DEF WrittenIn

(* When the actor rests no job is between its looks.                       *)
LEMMA RestsNone ==
  ASSUME ChannelTyped, WrittenOk, ActorRests
  PROVE  WrittenIn(jobs) = {}
<1>1. jobs # <<>> => Head(jobs) = jobs[1]
  BY Shorter DEF ChannelTyped
<1> QED BY <1>1, FirstWritten DEF ActorRests

(* What follows the first job is not between its looks.                    *)
LEMMA TailNone ==
  ASSUME ChannelTyped, WrittenOk, jobs # <<>>
  PROVE  WrittenIn(Tail(jobs)) = {}
<1>1. /\ Len(jobs) \in Nat \ {0} /\ DOMAIN jobs = 1..Len(jobs)
      /\ DOMAIN Tail(jobs) = 1..(Len(jobs) - 1)
      /\ \A i \in 1..(Len(jobs) - 1) : Tail(jobs)[i] = jobs[i + 1]
  BY Shorter DEF ChannelTyped
<1>2. ASSUME NEW k \in DOMAIN Tail(jobs) PROVE Tail(jobs)[k].stage # "written"
  <2>1. k + 1 \in DOMAIN jobs /\ k + 1 # 1 /\ Tail(jobs)[k] = jobs[k + 1]
    BY <1>1
  <2> QED BY <2>1 DEF WrittenOk
<1> QED BY <1>2 DEF WrittenIn

(* One job changed, index by index.                                        *)
LEMMA FirstChanged ==
  ASSUME ChannelTyped, jobs # <<>>, NEW b, jobs' = [jobs EXCEPT ![1] = b]
  PROVE  /\ 1 \in DOMAIN jobs /\ DOMAIN jobs' = DOMAIN jobs /\ jobs'[1] = b
         /\ \A i \in DOMAIN jobs : i # 1 => jobs'[i] = jobs[i]
<1>1. 1 \in DOMAIN jobs
  BY Shorter DEF ChannelTyped
<1> QED BY <1>1

(* The first look of a job, and the second, take or change the job that is *)
(* first; every other step leaves those between their looks alone.         *)
Looks == RunJob \/ EndJob \/ TellHost

(* A step that looks at no job leaves them.                                *)
LEMMA WrittenKept ==
  ASSUME ChannelTyped, InOrder, LoadOk, ProcessTyped, [Next]_vars, ~Looks
  PROVE  WrittenSame
<1>0. ASSUME jobs' = jobs PROVE WrittenSame
  BY <1>0 DEF WrittenSame
<1>1. CASE AgentUpdates \/ AgentAsks \/ AgentAnswers \/ AgentLoads
  BY <1>0, <1>1 DEF AgentUpdates, AgentAsks, AgentAnswers, AgentLoads
<1>2. CASE Deliver
  <2>1. PICK m : ReceiveUpdate(m) \/ ReceiveLoaded(m) \/ ReceivePermission(m)
                   \/ ReceiveAnswer(m)
    BY <1>2 DEF Deliver
  <2>2. CASE ReceiveUpdate(m)
    <3>1. CASE jobs' = jobs
      BY <1>0, <3>1
    <3>2. CASE jobs' = Append(jobs, Job(m, FALSE))
      <4> DEFINE j == Job(m, FALSE)
      <4>1. j.stage = "queued"
        BY DEF Job
      <4>2. m \in SessionUpdate
        <5>1. m \in Inbound
          BY <2>2, MessageRead DEF ReceiveUpdate
        <5> QED BY <2>2, <5>1, TypesApart DEF ReceiveUpdate
      <4>3. j \in ActorJob /\ jobs' = Append(jobs, j)
        BY <3>2, <4>2, JobTyped
      <4> HIDE DEF j
      <4>4. /\ Len(jobs) \in Nat /\ DOMAIN jobs = 1..Len(jobs)
            /\ DOMAIN jobs' = 1..(Len(jobs) + 1)
            /\ \A i \in 1..Len(jobs) : jobs'[i] = jobs[i]
            /\ jobs'[Len(jobs) + 1] = j
        BY <4>3, Longer DEF ChannelTyped
      <4> QED BY <4>1, <4>4 DEF WrittenSame, WrittenIn
    <3> QED BY <2>2, <3>1, <3>2 DEF ReceiveUpdate
  <2>3. CASE ReceiveLoaded(m) \/ ReceivePermission(m) \/ ReceiveAnswer(m)
    BY <1>0, <2>3 DEF ReceiveLoaded, ReceivePermission, ReceiveAnswer
  <2> QED BY <2>1, <2>2, <2>3
<1>3. CASE SetSessionUpdateHandler
  <2>1. jobs = <<>> /\ WrittenIn(jobs) = {}
    <3>1. jobs = <<>>
      BY <1>3 DEF SetSessionUpdateHandler, InOrder, HandlerSet
    <3> QED BY <3>1 DEF WrittenIn
  <2>2. jobs' = [i \in DOMAIN buffered |-> Job(buffered[i], TRUE)]
    BY <1>3 DEF SetSessionUpdateHandler
  <2>3. WrittenIn(jobs') = {}
    BY <2>2 DEF WrittenIn, Job
  <2> QED BY <2>1, <2>3 DEF WrittenSame
<1>4. CASE SealHistoryReplay
  BY <1>0, <1>4 DEF SealHistoryReplay
<1>5. CASE ReadOutput
  <2>1. PICK b \in ActorJob : jobs' = [jobs EXCEPT ![1] = b] /\ b.stage \in {"reading", "read"}
    BY <1>5, OutputIs
  <2>2. jobs # <<>> /\ jobs[1].stage = "reading"
    BY <1>5, OutputIs
  <2>3. /\ DOMAIN jobs' = DOMAIN jobs /\ jobs'[1] = b
        /\ \A i \in DOMAIN jobs : i # 1 => jobs'[i] = jobs[i]
    BY <2>1, <2>2, FirstChanged
  <2> QED BY <2>1, <2>2, <2>3 DEF WrittenSame, WrittenIn
<1>6. CASE \E t \in Turns : StartTurn(t)
  BY <1>0, <1>6 DEF StartTurn
<1>7. CASE Elsewhere
  BY <1>0, <1>7, ElsewhereKept DEF OthersUnchanged
<1> QED BY <1>1, <1>2, <1>3, <1>4, <1>5, <1>6, <1>7 DEF Next, Elsewhere, Looks

(* The first look leaves at most the job that writes between its looks.    *)
LEMMA LookWritten ==
  ASSUME ChannelTyped, WrittenOk, current \in Turns \cup {NoTurn}, RunJob \/ EndJob
  PROVE  /\ WrittenIn(jobs) = {}
         /\ \/ Drops /\ WrittenIn(jobs') = {}
            \/ \E b : Carries(b, jobs[1]) /\ Waits(b) /\ WrittenIn(jobs') = {}
            \/ \E b : Carries(b, jobs[1]) /\ Writes(b) /\ WrittenIn(jobs') = {1}
                        /\ jobs'[1] = b
<1>1. jobs # <<>> /\ jobs[1].stage \in {"queued", "read"}
  BY FirstLook
<1>2. WrittenIn(jobs) = {}
  BY <1>1, FirstWritten
<1>3. ASSUME Drops PROVE WrittenIn(jobs') = {}
  BY <1>1, <1>3, TailNone DEF Drops
<1>4. ASSUME NEW b, jobs' = [jobs EXCEPT ![1] = b]
      PROVE  /\ jobs'[1] = b
             /\ WrittenIn(jobs') = IF b.stage = "written" THEN {1} ELSE {}
  <2>1. /\ 1 \in DOMAIN jobs /\ DOMAIN jobs' = DOMAIN jobs /\ jobs'[1] = b
        /\ \A i \in DOMAIN jobs : i # 1 => jobs'[i] = jobs[i]
    BY <1>1, <1>4, FirstChanged
  <2> QED BY <1>2, <2>1 DEF WrittenIn
<1>5. ASSUME NEW b, Waits(b) PROVE WrittenIn(jobs') = {}
  BY <1>4, <1>5 DEF Waits
<1>6. ASSUME NEW b, Writes(b) PROVE WrittenIn(jobs') = {1} /\ jobs'[1] = b
  BY <1>4, <1>6 DEF Writes
<1> QED BY <1>2, <1>3, <1>5, <1>6, FirstLook

(* The second look is that of the first job, and leaves none.              *)
LEMMA TellWritten ==
  ASSUME ChannelTyped, WrittenOk, TellHost
  PROVE  /\ jobs # <<>> /\ 1 \in DOMAIN jobs /\ Head(jobs) = jobs[1]
         /\ jobs[1] \in ActorJob /\ jobs[1].stage = "written"
         /\ jobs[1].turn \in {NoTurn, current}
         /\ WrittenIn(jobs) = {1} /\ WrittenIn(jobs') = {} /\ jobs' = Tail(jobs)
<1>1. jobs # <<>> /\ jobs' = Tail(jobs) /\ Head(jobs).stage = "written"
  BY DEF TellHost
<1>2. 1 \in DOMAIN jobs /\ Head(jobs) = jobs[1] /\ jobs[1] \in ActorJob
  BY <1>1, Shorter DEF ChannelTyped
<1>3. jobs[1].turn \in {NoTurn, current}
  BY <1>1, <1>2 DEF WrittenOk
<1> QED BY <1>1, <1>2, <1>3, FirstWritten, TailNone

(* Every step leaves a job between its two looks first, and its turn       *)
(* current.                                                                *)
LEMMA WrittenStep ==
  ASSUME ChannelTyped, InOrder, LoadOk, ProcessTyped, WrittenOk,
         current \in Turns \cup {NoTurn}, [Next]_vars
  PROVE  WrittenOk'
<1>1. WrittenOk' <=> \A i \in WrittenIn(jobs') : i = 1 /\ jobs'[i].turn \in {NoTurn, current'}
  BY DEF WrittenOk, WrittenIn
<1>2. \A i \in WrittenIn(jobs) : i = 1 /\ jobs[i].turn \in {NoTurn, current}
  BY DEF WrittenOk, WrittenIn
<1>3. CASE RunJob \/ EndJob
  <2>1. CASE WrittenIn(jobs') = {}
    BY <1>1, <2>1
  <2>2. ASSUME NEW b, Writes(b), WrittenIn(jobs') = {1}, jobs'[1] = b PROVE WrittenOk'
    <3>1. b.turn = current /\ current' = current
      BY <1>3, <2>2, CurrentKept DEF Writes, ShouldCommit
    <3> QED BY <1>1, <2>2, <3>1
  <2> QED BY <1>3, <2>1, <2>2, LookWritten
<1>4. CASE TellHost
  BY <1>1, <1>4, TellWritten
<1>5. CASE ~Looks
  <2>1. WrittenSame
    BY <1>5, WrittenKept
  <2>2. CASE current' = current \/ current = NoTurn
    BY <1>1, <1>2, <2>1, <2>2 DEF WrittenSame
  <2>3. CASE WrittenIn(jobs) = {}
    BY <1>1, <2>1, <2>3 DEF WrittenSame
  <2>4. CASE \E m : ReceiveAnswer(m)
    <3>1. ActorRests
      BY <2>4 DEF ReceiveAnswer, Receive
    <3> QED BY <2>3, <3>1, RestsNone
  <2>5. CASE \E t \in Turns : StartTurn(t)
    BY <2>2, <2>5 DEF StartTurn
  <2>6. CASE ~(\E m : ReceiveAnswer(m)) /\ ~(\E t \in Turns : StartTurn(t))
    <3>1. current' = current
      BY <1>5, <2>6, CurrentKept DEF Next, Elsewhere, Looks, Deliver
    <3> QED BY <2>2, <3>1
  <2> QED BY <2>4, <2>5, <2>6
<1> QED BY <1>3, <1>4, <1>5 DEF Looks
-----------------------------------------------------------------------------
(* What a step makes of the turns and their threads.                       *)
TurnsTyped ==
  /\ current \in Turns \cup {NoTurn} /\ ended \subseteq Turns
  /\ turn \in [TurnIds -> TurnState]
  /\ stream \in [Turns -> Seq(Events)]
  /\ TimelineTyped(timeline)

(* What is pending of a turn stays so, or is past when it is told; of a    *)
(* turn that has not ended nothing else is untold.                         *)
Settles(q) ==
  /\ Pending(q)' \subseteq Pending(q)
  /\ Pending(q) \subseteq Pending(q)' \cup Past'
  /\ q \notin ended => Untold(q) \subseteq Pending(q)'

AllSettle == \A q \in Turns : Settles(q)

(* Nothing is said of any turn of the host, and nothing is written to one  *)
(* that has ended.                                                         *)
Quiet ==
  /\ TimelineTyped(timeline') /\ turn' \in [TurnIds -> TurnState]
  /\ \A q \in Turns : /\ TextIn(timeline', q) = TextIn(timeline, q)
                      /\ turn'[q].output = turn[q].output
                      /\ turn'[q].denied = turn[q].denied
  /\ \A q \in ended : Frozen(timeline, timeline', q)
  /\ UNCHANGED <<stream, ended>>

(* A turn goes on, or ends.                                                *)
GoesOn(t, next, events) ==
  /\ t \in Turns \ ended /\ next \in TurnState /\ events \in Seq(Events)
  /\ turn' = [turn EXCEPT ![t] = next]
  /\ stream' = [stream EXCEPT ![t] = stream[t] \o events]
  /\ ended' \in {ended, ended \cup {t}}
  /\ TimelineTyped(timeline')
  /\ \A q : q # t => Frozen(timeline, timeline', q)
  /\ turn[t].denied \subseteq next.denied
  /\ \A i \in DOMAIN events : events[i].type = "completed" =>
       t \in ended' /\ next.denied = {} /\ events[i].output = next.output

Unsaid(t, next, events) ==
  /\ GoesOn(t, next, events)
  /\ \A i \in DOMAIN events : events[i].type \notin Chunk
  /\ next.output = turn[t].output
  /\ TextIn(timeline', t) = TextIn(timeline, t)

(* A turn that ends has told all of its thread, or was cancelled.          *)
EndsTold(t, events) ==
  t \in ended' =>
    events # <<>> /\ (Untold(t) = {} \/ events[Len(events)].type = "cancelled")

(* A text is written to the thread of a turn, newer than all that is past. *)
Written(t, n) ==
  /\ t \in Turns \ ended /\ n \in Nat /\ \A k \in Past : k < n
  /\ UNCHANGED <<turn, stream, ended>>
  /\ TimelineTyped(timeline')
  /\ \A q : q # t => Frozen(timeline, timeline', q)
  /\ TextIn(timeline', t) = Append(TextIn(timeline, t), n)
  /\ \A q \in Turns : Pending(q) = {} /\ Pending(q)' = IF q = t THEN {n} ELSE {}

(* A chunk is told that was pending, if it is text.                        *)
Said(t, next, events, n) ==
  /\ GoesOn(t, next, events) /\ ended' = ended
  /\ n \in Nat /\ n \in Past' /\ \A k \in Past : k < n
  /\ Len(events) = 1 /\ events[1].type \in Chunk /\ events[1].n = n
  /\ next.output = Append(turn[t].output, n)
  /\ TextIn(timeline', t) = TextIn(timeline, t)
  /\ \A q \in Turns :
       /\ Pending(q)' = {}
       /\ Pending(q) = IF q = t /\ events[1].type = "text" THEN {n} ELSE {}

(* Concatenation, index by index.                                          *)
LEMMA Joined ==
  ASSUME NEW S, NEW s \in Seq(S), NEW e \in Seq(S)
  PROVE  /\ s \o e \in Seq(S) /\ Len(s) \in Nat /\ Len(e) \in Nat
         /\ DOMAIN s = 1..Len(s) /\ DOMAIN e = 1..Len(e)
         /\ Len(s \o e) = Len(s) + Len(e)
         /\ DOMAIN (s \o e) = 1..(Len(s) + Len(e))
         /\ \A i \in 1..Len(s) : (s \o e)[i] = s[i]
         /\ \A i \in 1..Len(e) : (s \o e)[Len(s) + i] = e[i]
         /\ \A i \in DOMAIN (s \o e) : i \in DOMAIN s \/ i - Len(s) \in DOMAIN e
OBVIOUS

(* When one turn goes on the others stay as they are.                      *)
LEMMA TurnsGoOn ==
  ASSUME TurnsTyped, NEW t, NEW next, NEW events, GoesOn(t, next, events)
  PROVE  /\ turn' \in [TurnIds -> TurnState] /\ stream' \in [Turns -> Seq(Events)]
         /\ ended' \subseteq Turns /\ TimelineTyped(timeline')
         /\ turn'[t] = next /\ stream'[t] = stream[t] \o events
         /\ \A q \in TurnIds : q # t => turn'[q] = turn[q]
         /\ \A q \in Turns : q # t => stream'[q] = stream[q]
         /\ \A q \in Turns : q # t => (q \in ended' <=> q \in ended)
         /\ \A q \in Turns : turn[q].denied \subseteq turn'[q].denied
<1>1. t \in Turns /\ t \in TurnIds
  BY DEF GoesOn, TurnIds
<1>2. stream[t] \o events \in Seq(Events)
  BY <1>1 DEF GoesOn, TurnsTyped
<1> DEFINE longer == stream[t] \o events
<1> HIDE DEF longer
<1>3. stream' = [stream EXCEPT ![t] = longer] /\ longer \in Seq(Events)
  BY <1>2 DEF GoesOn, longer
<1>4. stream' \in [Turns -> Seq(Events)] /\ stream'[t] = longer
      /\ \A q \in Turns : q # t => stream'[q] = stream[q]
  BY <1>1, <1>3 DEF TurnsTyped
<1>5. turn' \in [TurnIds -> TurnState] /\ turn'[t] = next
      /\ \A q \in TurnIds : q # t => turn'[q] = turn[q]
  BY <1>1 DEF GoesOn, TurnsTyped
<1>6. \A q \in Turns : turn[q].denied \subseteq turn'[q].denied
  BY <1>1, <1>5 DEF GoesOn, TurnIds
<1>7. ended' \subseteq Turns /\ TimelineTyped(timeline')
      /\ \A q \in Turns : q # t => (q \in ended' <=> q \in ended)
  BY <1>1 DEF GoesOn, TurnsTyped
<1> QED BY <1>4, <1>5, <1>6, <1>7 DEF longer
-----------------------------------------------------------------------------
(* The thread th, output out and stream s of a turn, apart from the state: *)
(* past is what is past, pend what is pending, over says if it has ended.  *)
TextsIn(s)  == {i \in DOMAIN s : s[i].type = "text"}
ChunksIn(s) == {i \in DOMAIN s : s[i].type \in Chunk}
ToldIn(s, events) == {s[i].n : i \in events}

Increasing(x) == \A i, j \in DOMAIN x : i < j => x[i] < x[j]
InTurn(s)     == \A i, j \in ChunksIn(s) : i < j => s[i].n < s[j].n
Rest(th, s)   == ToSet(th) \ ToldIn(s, TextsIn(s))

Story(th, out, s, past, pend) ==
  /\ ToSet(out) = ToldIn(s, ChunksIn(s))
  /\ ToldIn(s, ChunksIn(s)) \subseteq past
  /\ ToSet(th) \subseteq past \cup pend
  /\ ToldIn(s, TextsIn(s)) \cup pend \subseteq ToSet(th)
  /\ \A n \in Rest(th, s) : \A m \in ToSet(th) : m <= n

Ends(th, s, pend, over) ==
  /\ ~over => Rest(th, s) \subseteq pend
  /\ over => /\ s # <<>>
             /\ Rest(th, s) # {} => s[Len(s)].type = "cancelled"

ThreadIs(th, out, s, past, pend, over) ==
  /\ Increasing(th) /\ Increasing(out) /\ InTurn(s)
  /\ Story(th, out, s, past, pend) /\ Ends(th, s, pend, over)

(* The thread of a turn, now and after the step.                           *)
LEMMA ThreadsText ==
  ASSUME NEW t
  PROVE  ThreadText(t) = TextIn(timeline, t) /\ ThreadText(t)' = TextIn(timeline', t)
BY DEF ThreadText, TextIn

(* What the invariant says of a turn is said of its thread, output, stream *)
(* and pending text.                                                       *)
LEMMA ThreadsAre ==
  ASSUME NEW t
  PROVE  /\ ThreadOf(t) <=> ThreadIs(TextIn(timeline, t), turn[t].output, stream[t], Past,
                                     Pending(t), t \in ended)
         /\ ThreadOf(t)' <=> ThreadIs(TextIn(timeline', t), turn'[t].output, stream'[t],
                                      Past', Pending(t)', t \in ended')
         /\ Untold(t) = Rest(TextIn(timeline, t), stream[t])
<1>1. ThreadText(t) = TextIn(timeline, t) /\ ThreadText(t)' = TextIn(timeline', t)
  BY ThreadsText
<1>2. Texts(t) = TextsIn(stream[t]) /\ Chunks(t) = ChunksIn(stream[t])
      /\ \A e : Told(t, e) = ToldIn(stream[t], e)
  BY DEF Texts, TextsIn, Chunks, ChunksIn, Chunk, Told, ToldIn
<1>3. Texts(t)' = TextsIn(stream'[t]) /\ Chunks(t)' = ChunksIn(stream'[t])
  BY DEF Texts, TextsIn, Chunks, ChunksIn, Chunk
<1>4. Told(t, Texts(t))' = ToldIn(stream'[t], TextsIn(stream'[t]))
      /\ Told(t, Chunks(t))' = ToldIn(stream'[t], ChunksIn(stream'[t]))
  BY <1>3 DEF Told, ToldIn
<1>5. Untold(t) = Rest(TextIn(timeline, t), stream[t])
      /\ Untold(t)' = Rest(TextIn(timeline', t), stream'[t])
  BY <1>1, <1>2, <1>4 DEF Untold, Rest
<1>6. ThreadOf(t) <=> ThreadIs(TextIn(timeline, t), turn[t].output, stream[t], Past,
                               Pending(t), t \in ended)
  BY <1>1, <1>2, <1>5 DEF ThreadOf, ThreadIs, Increasing, InTurn, Story, Ends, ResultOf
<1>7. ThreadOf(t)' <=> ThreadIs(TextIn(timeline', t), turn'[t].output, stream'[t],
                                Past', Pending(t)', t \in ended')
  BY <1>1, <1>3, <1>4, <1>5 DEF ThreadOf, ThreadIs, Increasing, InTurn, Story, Ends, ResultOf
<1> QED BY <1>5, <1>6, <1>7

(* Time passes: what was pending is pending still, or past.                *)
LEMMA IsLater ==
  ASSUME NEW th, NEW out, NEW s, NEW past, NEW pend, NEW over, NEW later, NEW still,
         ThreadIs(th, out, s, past, pend, over), past \subseteq later,
         still \subseteq pend, pend \subseteq still \cup later,
         ~over => Rest(th, s) \subseteq still
  PROVE  ThreadIs(th, out, s, later, still, over)
BY DEF ThreadIs, Story, Ends

(* A number at the end of a sequence of numbers.                           *)
LEMMA OneMore ==
  ASSUME NEW x \in Seq(Nat), NEW n \in Nat, Increasing(x), \A k \in ToSet(x) : k < n
  PROVE  /\ Increasing(Append(x, n)) /\ ToSet(Append(x, n)) = ToSet(x) \cup {n}
<1> DEFINE a == Append(x, n)
           l == Len(x)
<1>1. /\ l \in Nat /\ DOMAIN x = 1..l /\ DOMAIN a = 1..(l + 1)
      /\ \A i \in 1..l : a[i] = x[i] /\ x[i] \in Nat
      /\ a[l + 1] = n
  BY Longer
<1> HIDE DEF a, l
<1>2. ToSet(a) = ToSet(x) \cup {n}
  BY <1>1 DEF ToSet
<1>3. \A i \in 1..l : x[i] < n
  BY <1>1 DEF ToSet
<1>4. ASSUME NEW i \in DOMAIN a, NEW j \in DOMAIN a, i < j PROVE a[i] < a[j]
  <2>1. i \in 1..l
    BY <1>1, <1>4
  <2>2. CASE j \in 1..l
    BY <1>1, <1>4, <2>1, <2>2 DEF Increasing
  <2>3. CASE j = l + 1
    BY <1>1, <1>3, <2>1, <2>3
  <2> QED BY <1>1, <2>2, <2>3
<1> QED BY <1>2, <1>4 DEF Increasing, a

(* A text is written that was not told yet.                                *)
LEMMA IsWritten ==
  ASSUME NEW th \in Seq(Nat), NEW out, NEW s, NEW past, NEW later, NEW n \in Nat,
         ThreadIs(th, out, s, past, {}, FALSE), past \subseteq later, past \subseteq Nat,
         \A k \in past : k < n
  PROVE  ThreadIs(Append(th, n), out, s, later, {n}, FALSE)
<1>1. ToSet(th) \subseteq past /\ Rest(th, s) = {} /\ Increasing(th)
  BY DEF ThreadIs, Story, Ends
<1>2. /\ Increasing(Append(th, n)) /\ ToSet(Append(th, n)) = ToSet(th) \cup {n}
  BY <1>1, OneMore
<1>3. ToldIn(s, TextsIn(s)) = ToSet(th)
  BY <1>1 DEF ThreadIs, Story, Rest
<1>4. n \notin ToSet(th) /\ \A m \in ToSet(th) : m <= n
  <2>1. ASSUME NEW m \in ToSet(th) PROVE m \in Nat /\ m < n
    BY <1>1
  <2> QED BY <2>1
<1>5. Rest(Append(th, n), s) = {n}
  BY <1>2, <1>3, <1>4 DEF Rest
<1>6. Story(Append(th, n), out, s, later, {n})
  <2> DEFINE x == Append(th, n)
             spoken == ToldIn(s, TextsIn(s))
             chunks == ToldIn(s, ChunksIn(s))
  <2>1. /\ ToSet(out) = chunks /\ chunks \subseteq later /\ spoken = ToSet(th)
        /\ ToSet(x) = ToSet(th) \cup {n} /\ ToSet(th) \subseteq later
    BY <1>1, <1>2, <1>3 DEF ThreadIs, Story
  <2>2. \A k \in Rest(x, s) : \A m \in ToSet(x) : m <= k
    BY <1>2, <1>4, <1>5
  <2> HIDE DEF x, spoken, chunks
  <2> QED BY <2>1, <2>2 DEF Story, x, spoken, chunks
<1>7. Ends(Append(th, n), s, {n}, FALSE)
  BY <1>5 DEF Ends
<1> QED BY <1>2, <1>6, <1>7 DEF ThreadIs

(* Events that are no chunks leave what is told.                           *)
LEMMA NoneTold ==
  ASSUME NEW s \in Seq(Events), NEW events \in Seq(Events),
         \A i \in DOMAIN events : events[i].type \notin Chunk
  PROVE  /\ ChunksIn(s \o events) = ChunksIn(s) /\ TextsIn(s \o events) = TextsIn(s)
         /\ \A i \in ChunksIn(s) : (s \o events)[i] = s[i]
         /\ ToldIn(s \o events, ChunksIn(s \o events)) = ToldIn(s, ChunksIn(s))
         /\ ToldIn(s \o events, TextsIn(s \o events)) = ToldIn(s, TextsIn(s))
<1> DEFINE x == s \o events
<1>1. /\ Len(s) \in Nat /\ Len(events) \in Nat
      /\ DOMAIN s = 1..Len(s) /\ DOMAIN events = 1..Len(events)
      /\ DOMAIN x = 1..(Len(s) + Len(events))
      /\ \A i \in 1..Len(s) : x[i] = s[i]
      /\ \A i \in 1..Len(events) : x[Len(s) + i] = events[i]
      /\ \A i \in DOMAIN x : i \in DOMAIN s \/ i - Len(s) \in DOMAIN events
  BY Joined
<1> HIDE DEF x
<1>2. ASSUME NEW i \in DOMAIN x, i \notin DOMAIN s PROVE x[i].type \notin Chunk
  <2>1. i - Len(s) \in 1..Len(events) /\ x[Len(s) + (i - Len(s))] = events[i - Len(s)]
    BY <1>1, <1>2
  <2>2. i \in Int /\ Len(s) + (i - Len(s)) = i
    BY <1>1
  <2> QED BY <1>1, <2>1, <2>2
<1>3. /\ ChunksIn(x) = ChunksIn(s) /\ TextsIn(x) = TextsIn(s)
      /\ \A i \in ChunksIn(s) \cup TextsIn(s) : x[i] = s[i]
  BY <1>1, <1>2 DEF ChunksIn, TextsIn, Chunk
<1> QED BY <1>3 DEF ToldIn, x

(* So the turn's story goes on without a word.                             *)
LEMMA IsUnsaid ==
  ASSUME NEW th, NEW out, NEW s \in Seq(Events), NEW events \in Seq(Events),
         NEW past, NEW pend, NEW over, NEW later, NEW still,
         \A i \in DOMAIN events : events[i].type \notin Chunk,
         ThreadIs(th, out, s, past, pend, FALSE), past \subseteq later,
         still \subseteq pend, pend \subseteq still \cup later, Rest(th, s) \subseteq still,
         over => /\ events # <<>>
                 /\ Rest(th, s) = {} \/ events[Len(events)].type = "cancelled"
  PROVE  ThreadIs(th, out, s \o events, later, still, over)
<1> DEFINE x == s \o events
<1>1. /\ ChunksIn(x) = ChunksIn(s) /\ TextsIn(x) = TextsIn(s)
      /\ \A i \in ChunksIn(s) : x[i] = s[i]
      /\ ToldIn(x, ChunksIn(x)) = ToldIn(s, ChunksIn(s))
      /\ ToldIn(x, TextsIn(x)) = ToldIn(s, TextsIn(s))
  BY NoneTold
<1>2. ASSUME events # <<>> PROVE x # <<>> /\ x[Len(x)] = events[Len(events)]
  <2>1. /\ Len(s) \in Nat /\ Len(events) \in Nat /\ Len(x) = Len(s) + Len(events)
        /\ DOMAIN events = 1..Len(events)
        /\ \A i \in 1..Len(events) : x[Len(s) + i] = events[i]
    BY Joined
  <2>2. Len(events) \in 1..Len(events)
    BY <1>2, <2>1
  <2>3. Len(x) # 0
    BY <2>1, <2>2
  <2> HIDE DEF x
  <2> QED BY <2>1, <2>2, <2>3
<1> HIDE DEF x
<1>3. Rest(th, x) = Rest(th, s)
  BY <1>1 DEF Rest
<1>4. InTurn(x)
  BY <1>1 DEF ThreadIs, InTurn
<1>5. Story(th, out, x, later, still)
  BY <1>1, <1>3 DEF ThreadIs, Story
<1>6. Ends(th, x, still, over)
  BY <1>2, <1>3 DEF Ends
<1> QED BY <1>4, <1>5, <1>6 DEF ThreadIs, x

(* One chunk more is told.                                                 *)
LEMMA OneTold ==
  ASSUME NEW s \in Seq(Events), NEW e \in Seq(Events), NEW n \in Nat,
         Len(e) = 1, e[1].type \in Chunk, e[1].n = n, InTurn(s),
         \A k \in ToldIn(s, ChunksIn(s)) : k < n
  PROVE  /\ InTurn(s \o e)
         /\ ToldIn(s \o e, ChunksIn(s \o e)) = ToldIn(s, ChunksIn(s)) \cup {n}
         /\ ToldIn(s \o e, TextsIn(s \o e))
              = ToldIn(s, TextsIn(s)) \cup (IF e[1].type = "text" THEN {n} ELSE {})
<1> DEFINE x == s \o e
           l == Len(s)
<1>1. /\ l \in Nat /\ DOMAIN s = 1..l /\ DOMAIN x = 1..(l + 1)
      /\ \A i \in 1..l : x[i] = s[i]
      /\ x[l + 1] = e[1]
  BY Joined
<1> HIDE DEF x, l
<1>2. /\ ChunksIn(x) = ChunksIn(s) \cup {l + 1}
      /\ TextsIn(x) = TextsIn(s) \cup (IF e[1].type = "text" THEN {l + 1} ELSE {})
      /\ \A i \in ChunksIn(s) \cup TextsIn(s) : i \in 1..l /\ x[i] = s[i]
  BY <1>1 DEF ChunksIn, TextsIn, Chunk
<1>3. ToldIn(x, ChunksIn(x)) = ToldIn(s, ChunksIn(s)) \cup {n}
  <2>1. ASSUME NEW k \in ToldIn(x, ChunksIn(x)) PROVE k \in ToldIn(s, ChunksIn(s)) \cup {n}
    BY <1>1, <1>2 DEF ToldIn
  <2>2. ASSUME NEW k \in ToldIn(s, ChunksIn(s)) PROVE k \in ToldIn(x, ChunksIn(x))
    BY <1>2 DEF ToldIn
  <2>3. n \in ToldIn(x, ChunksIn(x))
    BY <1>1, <1>2 DEF ToldIn
  <2> QED BY <2>1, <2>2, <2>3
<1>4. ToldIn(x, TextsIn(x))
        = ToldIn(s, TextsIn(s)) \cup (IF e[1].type = "text" THEN {n} ELSE {})
  <2>1. CASE e[1].type = "text"
    <3>1. TextsIn(x) = TextsIn(s) \cup {l + 1}
      BY <1>2, <2>1
    <3>2. ASSUME NEW k \in ToldIn(x, TextsIn(x)) PROVE k \in ToldIn(s, TextsIn(s)) \cup {n}
      BY <1>1, <1>2, <3>1 DEF ToldIn
    <3>3. ASSUME NEW k \in ToldIn(s, TextsIn(s)) PROVE k \in ToldIn(x, TextsIn(x))
      BY <1>2, <3>1 DEF ToldIn
    <3>4. n \in ToldIn(x, TextsIn(x))
      BY <1>1, <3>1 DEF ToldIn
    <3> QED BY <2>1, <3>2, <3>3, <3>4
  <2>2. CASE e[1].type # "text"
    BY <1>2, <2>2 DEF ToldIn
  <2> QED BY <2>1, <2>2
<1>5. InTurn(x)
  <2> SUFFICES ASSUME NEW i \in ChunksIn(x), NEW j \in ChunksIn(x), i < j
               PROVE  x[i].n < x[j].n
    BY DEF InTurn
  <2>1. i \in ChunksIn(s)
    BY <1>1, <1>2
  <2>2. CASE j \in ChunksIn(s)
    BY <1>2, <2>1, <2>2 DEF InTurn
  <2>3. CASE j = l + 1
    <3>1. s[i].n \in ToldIn(s, ChunksIn(s))
      BY <2>1 DEF ToldIn
    <3> QED BY <1>1, <1>2, <2>1, <2>3, <3>1
  <2> QED BY <1>2, <2>2, <2>3
<1> QED BY <1>3, <1>4, <1>5 DEF x

(* So a pending text, or a chunk without text, is told.                    *)
LEMMA IsSaid ==
  ASSUME NEW th, NEW out \in Seq(Nat), NEW s \in Seq(Events), NEW e \in Seq(Events),
         NEW n \in Nat, NEW past, NEW pend, NEW later,
         Len(e) = 1, e[1].type \in Chunk, e[1].n = n,
         pend = IF e[1].type = "text" THEN {n} ELSE {},
         ThreadIs(th, out, s, past, pend, FALSE), past \subseteq later,
         n \in later, \A k \in past : k < n
  PROVE  ThreadIs(th, Append(out, n), s \o e, later, {}, FALSE)
<1> DEFINE x == s \o e
<1>1. /\ Increasing(out) /\ ToSet(out) = ToldIn(s, ChunksIn(s)) /\ InTurn(s)
      /\ ToldIn(s, ChunksIn(s)) \subseteq past
      /\ Rest(th, s) \subseteq pend /\ pend \subseteq ToSet(th)
  BY DEF ThreadIs, Story, Ends
<1>2. Increasing(Append(out, n)) /\ ToSet(Append(out, n)) = ToSet(out) \cup {n}
  BY <1>1, OneMore
<1>3. /\ InTurn(x)
      /\ ToldIn(x, ChunksIn(x)) = ToldIn(s, ChunksIn(s)) \cup {n}
      /\ ToldIn(x, TextsIn(x)) = ToldIn(s, TextsIn(s)) \cup pend
  BY <1>1, OneTold
<1> HIDE DEF x
<1>4. Rest(th, x) = {}
  BY <1>1, <1>3 DEF Rest
<1>5. Story(th, Append(out, n), x, later, {})
  BY <1>1, <1>2, <1>3, <1>4 DEF ThreadIs, Story
<1> QED BY <1>2, <1>3, <1>4, <1>5 DEF ThreadIs, Ends, x
-----------------------------------------------------------------------------
(* What is past are numbers of messages.                                   *)
LEMMA PastTyped == Past \subseteq Nat
BY DEF Past

(* The text of a thread is a sequence of numbers.                          *)
LEMMA TextTyped ==
  ASSUME NEW tl, TimelineTyped(tl), NEW t
  PROVE  TextIn(tl, t) \in Seq(Nat)
<1> DEFINE p == Position(tl, "assistant", t)
<1>1. CASE p = 0
  BY <1>1 DEF TextIn
<1>2. CASE p # 0
  <2>1. p \in DOMAIN tl.entries /\ tl.entries[p].kind = "assistant"
    BY <1>2, PositionFits DEF TimelineTyped
  <2>2. tl.entries[p] \in TextEntry
    BY <2>1, ToolKind DEF TimelineTyped, ThreadTyped, EntryOk
  <2>3. tl.entries[p].text \in Seq(Nat)
    BY <2>2 DEF TextEntry
  <2> QED BY <1>2, <2>3 DEF TextIn
<1> QED BY <1>1, <1>2

(* A turn of which nothing is said keeps its thread and stream in step.    *)
LEMMA ThreadSame ==
  ASSUME ThreadOk, NEW q \in Turns, Past \subseteq Past', Settles(q),
         stream'[q] = stream[q], turn'[q].output = turn[q].output,
         TextIn(timeline', q) = TextIn(timeline, q), q \in ended' <=> q \in ended
  PROVE  ThreadOf(q)'
<1> DEFINE th   == TextIn(timeline, q)
           out  == turn[q].output
           s    == stream[q]
           over == q \in ended
<1>1. ThreadIs(th, out, s, Past, Pending(q), over)
  BY ThreadsAre DEF ThreadOk
<1>2. ~over => Rest(th, s) \subseteq Pending(q)'
  BY ThreadsAre DEF Settles
<1> HIDE DEF th, out, s, over
<1>3. ThreadIs(th, out, s, Past', Pending(q)', over)
  BY <1>1, <1>2, IsLater DEF Settles
<1>4. ThreadIs(TextIn(timeline', q), turn'[q].output, stream'[q], Past', Pending(q)',
               q \in ended')
  BY <1>3 DEF th, out, s, over
<1> QED BY <1>4, ThreadsAre

(* So do all turns when events without text are told of one.               *)
LEMMA ThreadUnsaid ==
  ASSUME TurnsTyped, ThreadOk, NEW t, NEW next, NEW events, AllSettle,
         Past \subseteq Past', Unsaid(t, next, events), EndsTold(t, events)
  PROVE  ThreadOk'
<1>1. GoesOn(t, next, events) /\ t \in Turns /\ t \notin ended
  BY DEF Unsaid, GoesOn
<1>2. ASSUME NEW q \in Turns, q # t PROVE ThreadOf(q)'
  <2>1. stream'[q] = stream[q] /\ turn'[q] = turn[q] /\ (q \in ended' <=> q \in ended)
    BY <1>1, <1>2, TurnsGoOn DEF TurnIds
  <2>2. TextIn(timeline', q) = TextIn(timeline, q)
    BY <1>1, <1>2, FrozenText DEF GoesOn
  <2> QED BY <2>1, <2>2, ThreadSame DEF AllSettle
<1>3. ThreadOf(t)'
  <2> DEFINE th == TextIn(timeline, t)
             out == turn[t].output
             s == stream[t]
             over == t \in ended'
  <2>1. s \in Seq(Events) /\ events \in Seq(Events)
    BY <1>1 DEF GoesOn, TurnsTyped
  <2>2. stream'[t] = s \o events /\ turn'[t].output = out /\ TextIn(timeline', t) = th
    BY <1>1, TurnsGoOn DEF Unsaid
  <2>3. ThreadIs(th, out, s, Past, Pending(t), FALSE)
    <3>1. (t \in ended) = FALSE
      BY <1>1
    <3> QED BY <1>1, <3>1, ThreadsAre DEF ThreadOk
  <2>4. Rest(th, s) \subseteq Pending(t)' /\ Settles(t)
    BY <1>1, ThreadsAre DEF AllSettle, Settles
  <2>5. over => events # <<>>
                /\ (Rest(th, s) = {} \/ events[Len(events)].type = "cancelled")
    BY ThreadsAre DEF EndsTold
  <2>6. \A i \in DOMAIN events : events[i].type \notin Chunk
    BY DEF Unsaid
  <2> HIDE DEF th, out, s, over
  <2>7. ThreadIs(th, out, s \o events, Past', Pending(t)', over)
    BY <2>1, <2>3, <2>4, <2>5, <2>6, IsUnsaid DEF Settles
  <2>8. ThreadIs(TextIn(timeline', t), turn'[t].output, stream'[t], Past', Pending(t)',
                 t \in ended')
    BY <2>2, <2>7 DEF over
  <2> QED BY <2>8, ThreadsAre
<1> QED BY <1>2, <1>3 DEF ThreadOk

(* A text is added at the end of the thread and pending from then on.      *)
LEMMA ThreadWritten ==
  ASSUME TurnsTyped, ThreadOk, NEW t, NEW n, Past \subseteq Past', Written(t, n)
  PROVE  ThreadOk'
<1>1. t \in Turns /\ t \notin ended /\ n \in Nat /\ UNCHANGED <<turn, stream, ended>>
  BY DEF Written
<1>2. ASSUME NEW q \in Turns, q # t PROVE ThreadOf(q)'
  <2>1. TextIn(timeline', q) = TextIn(timeline, q)
    BY <1>2, FrozenText DEF Written
  <2>2. Settles(q)
    <3>1. Pending(q) = {} /\ Pending(q)' = {}
      BY <1>2 DEF Written
    <3>2. q \notin ended => Untold(q) \subseteq Pending(q)
      BY DEF ThreadOk, ThreadOf
    <3> QED BY <3>1, <3>2 DEF Settles
  <2> QED BY <1>1, <2>1, <2>2, ThreadSame
<1>3. ThreadOf(t)'
  <2> DEFINE th == TextIn(timeline, t)
             out == turn[t].output
             s == stream[t]
  <2>1. th \in Seq(Nat)
    BY TextTyped DEF TurnsTyped
  <2>2. ThreadIs(th, out, s, Past, {}, FALSE)
    <3>1. (t \in ended) = FALSE /\ Pending(t) = {}
      BY <1>1 DEF Written
    <3> QED BY <1>1, <3>1, ThreadsAre DEF ThreadOk
  <2>3. TextIn(timeline', t) = Append(th, n) /\ Pending(t)' = {n}
        /\ \A k \in Past : k < n
    BY <1>1 DEF Written
  <2> HIDE DEF th, out, s
  <2>4. ThreadIs(Append(th, n), out, s, Past', {n}, FALSE)
    BY <1>1, <2>1, <2>2, <2>3, PastTyped, IsWritten
  <2>5. ThreadIs(TextIn(timeline', t), turn'[t].output, stream'[t], Past', Pending(t)',
                 t \in ended')
    <3>1. (t \in ended') = FALSE
      BY <1>1
    <3> QED BY <1>1, <2>3, <2>4, <3>1 DEF out, s
  <2> QED BY <2>5, ThreadsAre
<1> QED BY <1>2, <1>3 DEF ThreadOk

(* A chunk is told, newer than all that was told.                          *)
LEMMA ThreadSaid ==
  ASSUME TurnsTyped, ThreadOk, NEW t, NEW next, NEW events, NEW n,
         Past \subseteq Past', Said(t, next, events, n)
  PROVE  ThreadOk'
<1>1. GoesOn(t, next, events) /\ t \in Turns /\ t \notin ended /\ n \in Nat
  BY DEF Said, GoesOn
<1>2. ASSUME NEW q \in Turns, q # t PROVE ThreadOf(q)'
  <2>1. stream'[q] = stream[q] /\ turn'[q] = turn[q] /\ (q \in ended' <=> q \in ended)
    BY <1>1, <1>2, TurnsGoOn DEF TurnIds
  <2>2. TextIn(timeline', q) = TextIn(timeline, q)
    BY <1>1, <1>2, FrozenText DEF GoesOn
  <2>3. Settles(q)
    <3>1. Pending(q) = {} /\ Pending(q)' = {}
      BY <1>2 DEF Said
    <3>2. q \notin ended => Untold(q) \subseteq Pending(q)
      BY DEF ThreadOk, ThreadOf
    <3> QED BY <3>1, <3>2 DEF Settles
  <2> QED BY <2>1, <2>2, <2>3, ThreadSame
<1>3. ThreadOf(t)'
  <2> DEFINE th == TextIn(timeline, t)
             out == turn[t].output
             s == stream[t]
             pend == IF events[1].type = "text" THEN {n} ELSE {}
  <2>1. s \in Seq(Events) /\ events \in Seq(Events)
    BY <1>1 DEF GoesOn, TurnsTyped
  <2>2. stream'[t] = s \o events /\ turn'[t].output = Append(out, n)
        /\ TextIn(timeline', t) = th
    <3>1. stream'[t] = s \o events /\ turn'[t] = next
      BY <1>1, TurnsGoOn
    <3> QED BY <3>1 DEF Said
  <2>3. out \in Seq(Nat)
    BY <1>1 DEF TurnsTyped, TurnState, TurnIds
  <2>4. Pending(t) = pend /\ Pending(t)' = {}
    BY <1>1 DEF Said
  <2>5. ThreadIs(th, out, s, Past, pend, FALSE)
    <3>1. (t \in ended) = FALSE
      BY <1>1
    <3> QED BY <1>1, <2>4, <3>1, ThreadsAre DEF ThreadOk
  <2>6. /\ Len(events) = 1 /\ events[1].type \in Chunk /\ events[1].n = n
        /\ n \in Past' /\ \A k \in Past : k < n
    BY DEF Said
  <2> HIDE DEF th, out, s
  <2>7. ThreadIs(th, Append(out, n), s \o events, Past', {}, FALSE)
    BY <1>1, <2>1, <2>3, <2>5, <2>6, IsSaid
  <2>8. ThreadIs(TextIn(timeline', t), turn'[t].output, stream'[t], Past', Pending(t)',
                 t \in ended')
    <3>1. (t \in ended') = FALSE
      BY <1>1 DEF Said
    <3> QED BY <2>2, <2>4, <2>7, <3>1
  <2> QED BY <2>8, ThreadsAre
<1> QED BY <1>2, <1>3 DEF ThreadOk

(* All turns keep their threads when nothing is said.                      *)
LEMMA ThreadQuiet ==
  ASSUME ThreadOk, Past \subseteq Past', Quiet, AllSettle
  PROVE  ThreadOk'
<1>1. ASSUME NEW q \in Turns PROVE ThreadOf(q)'
  <2>1. /\ stream'[q] = stream[q] /\ turn'[q].output = turn[q].output
        /\ TextIn(timeline', q) = TextIn(timeline, q) /\ ended' = ended
    BY DEF Quiet
  <2> QED BY <2>1, ThreadSame DEF AllSettle
<1> QED BY <1>1 DEF ThreadOk
-----------------------------------------------------------------------------
(* Completed turns.                                                        *)
LEMMA CompletedQuiet ==
  ASSUME CompletedOk, UNCHANGED <<stream, ended>>,
         \A q \in Turns : turn'[q].output = turn[q].output /\ turn'[q].denied = turn[q].denied
  PROVE  CompletedOk'
BY DEF CompletedOk

(* A turn that goes on has not completed yet; one that completes tells its *)
(* whole output and was denied nothing.                                    *)
LEMMA CompletedOn ==
  ASSUME TurnsTyped, CompletedOk, NEW t, NEW next, NEW events, GoesOn(t, next, events)
  PROVE  CompletedOk'
<1>1. t \in Turns
  BY DEF GoesOn
<1>2. ASSUME NEW q \in Turns, q # t, NEW i \in DOMAIN stream'[q],
             stream'[q][i].type = "completed"
      PROVE  q \in ended' /\ turn'[q].denied = {} /\ stream'[q][i].output = turn'[q].output
  <2>1. stream'[q] = stream[q] /\ turn'[q] = turn[q]
    BY <1>2, TurnsGoOn DEF TurnIds
  <2>2. ended \subseteq ended'
    BY DEF GoesOn
  <2> QED BY <1>2, <2>1, <2>2 DEF CompletedOk
<1>3. ASSUME NEW i \in DOMAIN stream'[t], stream'[t][i].type = "completed"
      PROVE  t \in ended' /\ turn'[t].denied = {} /\ stream'[t][i].output = turn'[t].output
  <2> DEFINE s == stream[t]
  <2>1. s \in Seq(Events) /\ events \in Seq(Events)
    BY <1>1 DEF GoesOn, TurnsTyped
  <2>2. stream'[t] = s \o events /\ turn'[t] = next
    BY TurnsGoOn
  <2>3. \A j \in DOMAIN s : s[j].type # "completed"
    BY <1>1, <2>1 DEF CompletedOk, GoesOn
  <2> HIDE DEF s
  <2>4. i - Len(s) \in DOMAIN events /\ stream'[t][i] = events[i - Len(s)]
    BY <1>3, <2>1, <2>2, <2>3, Joined
  <2> QED BY <1>3, <2>2, <2>4 DEF GoesOn
<1> QED BY <1>2, <1>3 DEF CompletedOk
-----------------------------------------------------------------------------
(* Events written after the thread.                                        *)
LEMMA WrittenAndTold ==
  ASSUME NEW before, NEW tl, NEW events \in Seq(Events), TimelineTyped(before),
         NEW t, WrittenOf(before, tl, t)
  PROVE  LET after == AppendEvents(tl, events)
         IN  /\ TimelineTyped(after) /\ \A q : q # t => Frozen(before, after, q)
             /\ TextIn(after, t) = TextIn(tl, t)
             /\ \A q : Frozen(before, tl, q) => Frozen(before, after, q)
<1> DEFINE after == AppendEvents(tl, events)
<1>1. TimelineTyped(tl)
  BY WrittenTyped
<1>2. TimelineTyped(after) /\ after.entries = tl.entries
  BY <1>1, EventsAppended
<1> HIDE DEF after
<1>3. \A q : Frozen(tl, after, q)
  BY <1>2, FrozenSame
<1>4. TextIn(after, t) = TextIn(tl, t)
  BY <1>3, FrozenText
<1>5. \A q : Frozen(before, tl, q) => Frozen(before, after, q)
  BY <1>3, FrozenTwice
<1> QED BY <1>2, <1>4, <1>5 DEF WrittenOf, after

(* A timeline is what becomes of it when nothing is written.               *)
LEMMA NothingWritten ==
  ASSUME NEW tl, TimelineTyped(tl), NEW t
  PROVE  WrittenOf(tl, tl, t) /\ \A q : Frozen(tl, tl, q)
BY FrozenSame DEF WrittenOf, TimelineTyped

(* A sequence of one event.                                                *)
LEMMA OneEvent ==
  ASSUME NEW e \in Events
  PROVE  <<e>> \in Seq(Events) /\ Len(<<e>>) = 1 /\ <<e>>[1] = e /\ DOMAIN <<e>> = {1}
OBVIOUS

(* What an update is mapped to are events that end no turn.                *)
LEMMA MappedEvents ==
  ASSUME NEW s, NEW u, NEW step, Mapped(s, u, step)
  PROVE  /\ step.events \in Seq(Events) /\ step.state \in TurnState
         /\ \A i \in DOMAIN step.events : ~IsTerminal(step.events[i])
<1>1. CASE step.events = <<>>
  <2>1. step.state \in TurnState
    BY DEF Mapped
  <2>2. <<>> \in Seq(Events)
    OBVIOUS
  <2> QED BY <1>1, <2>1, <2>2
<1>2. CASE step.events # <<>>
  <2>1. PICK e \in Events : step.events = <<e>> /\ ~IsTerminal(e)
    BY <1>2 DEF Mapped, Plain
  <2>2. step.events \in Seq(Events) /\ DOMAIN step.events = {1} /\ step.events[1] = e
    BY <2>1, OneEvent
  <2> QED BY <2>1, <2>2 DEF Mapped
<1> QED BY <1>1, <1>2

(* A step that leaves turns, streams and entries alone is quiet.           *)
LEMMA TimelineQuiet ==
  ASSUME TurnsTyped, UNCHANGED <<turn, stream, ended>>, TimelineTyped(timeline'),
         timeline'.entries = timeline.entries
  PROVE  Quiet
<1>1. \A q : Frozen(timeline, timeline', q)
  BY FrozenSame
<1> QED BY <1>1, FrozenText DEF Quiet, TurnsTyped

(* So is one that leaves the whole timeline alone.                         *)
LEMMA Unchanged ==
  ASSUME TurnsTyped, UNCHANGED <<turn, stream, ended, timeline>>
  PROVE  Quiet
BY TimelineQuiet DEF TurnsTyped
-----------------------------------------------------------------------------
(* What a step can be to the turns.                                        *)
Shape ==
  \/ Quiet /\ AllSettle
  \/ AllSettle /\ \E t, next, events : Unsaid(t, next, events) /\ EndsTold(t, events)
  \/ \E t, n : Written(t, n)
  \/ \E t, next, events, n : Said(t, next, events, n)

(* Jobs between their looks that stay as they are.                         *)
LEMMA SettlesSame ==
  ASSUME ThreadOk, WrittenSame
  PROVE  AllSettle
<1> SUFFICES ASSUME NEW q \in Turns PROVE Settles(q)
  BY DEF AllSettle
<1>1. Pending(q)' = Pending(q)
  BY PendingSame
<1>2. q \notin ended => Untold(q) \subseteq Pending(q)
  BY DEF ThreadOk, ThreadOf
<1> QED BY <1>1, <1>2 DEF Settles

(* Nothing pending, before and after.                                      *)
LEMMA SettlesNone ==
  ASSUME ThreadOk, \A q \in Turns : Pending(q) = {} /\ Pending(q)' = {}
  PROVE  AllSettle
<1> SUFFICES ASSUME NEW q \in Turns PROVE Settles(q)
  BY DEF AllSettle
<1>1. q \notin ended => Untold(q) \subseteq Pending(q)
  BY DEF ThreadOk, ThreadOf
<1> QED BY <1>1 DEF Settles

(* The first look of a job writes a text to the thread of its turn, or is  *)
(* quiet.                                                                  *)
LEMMA LookShape ==
  ASSUME ChannelTyped, TurnsTyped, InOrder, LoadOk, ThreadOk, WrittenOk, RunJob \/ EndJob
  PROVE  Shape
<1>0. current \in Turns \cup {NoTurn}
  BY DEF TurnsTyped
<1>1. /\ jobs # <<>> /\ 1 \in DOMAIN jobs /\ Head(jobs) = jobs[1]
      /\ UNCHANGED <<turn, ended, stream>> /\ jobs[1].update.n \in Nat
  BY <1>0, FirstLook, JobsTyped
<1>2. WrittenIn(jobs) = {}
  BY <1>0, LookWritten
<1>3. \A q \in Turns : Pending(q) = {}
  BY <1>2, PendingIs, NonePending
<1>4. CASE WrittenIn(jobs') = {} /\ timeline' = timeline
  <2>1. \A q \in Turns : Pending(q)' = {}
    BY <1>4, PendingIs, NonePending
  <2>2. AllSettle
    BY <1>3, <2>1, SettlesNone
  <2>3. Quiet
    BY <1>1, <1>4, Unchanged
  <2> QED BY <2>2, <2>3 DEF Shape
<1>5. ASSUME NEW b, Carries(b, jobs[1]), Writes(b), WrittenIn(jobs') = {1}, jobs'[1] = b
      PROVE  Shape
  <2> DEFINE id == TurnId(b.turn)
             u  == b.update
  <2>1. /\ b \in ActorJob /\ u \in SessionUpdate /\ b.exit \in Reads
        /\ b.turn \in Turns \cup {NoTurn} /\ u.n = jobs[1].update.n
    BY <1>5 DEF Carries, ActorJob
  <2>2. /\ timeline' = SyncThread(timeline, id, u, b.exit) /\ b.turn \notin ended
    BY <1>5 DEF Writes, ShouldCommit
  <2>3. id \in TurnIds
    BY <2>1 DEF TurnId, TurnIds
  <2>4. /\ WrittenOf(timeline, timeline', id)
        /\ TextIn(timeline', id) = IF u.type = "text" THEN Append(TextIn(timeline, id), u.n)
                                   ELSE TextIn(timeline, id)
    BY <2>1, <2>2, <2>3, ThreadSynced DEF TurnsTyped, TimelineTyped
  <2>5. TimelineTyped(timeline') /\ \A q : q # id => Frozen(timeline, timeline', q)
    BY <2>4, WrittenTyped DEF TurnsTyped, WrittenOf
  <2>6. \A q \in Turns : Pending(q)' = IF b.turn = q /\ u.type = "text" THEN {u.n} ELSE {}
    BY <1>5, PendingIs, OnePending
  <2>7. \A q \in Turns : id = q <=> b.turn = q
    BY <2>1, ConversationAssumption DEF TurnId
  <2>8. CASE id \in Turns /\ u.type = "text"
    <3> DEFINE t == id
               n == u.n
    <3>1. t \in Turns \ ended /\ b.turn = t
      BY <2>2, <2>7, <2>8
    <3>2. n \in Nat /\ \A k \in Past : k < n
      BY <1>1, <2>1 DEF Past
    <3>3. \A q : q # t => Frozen(timeline, timeline', q)
      BY <2>5
    <3>4. TextIn(timeline', t) = Append(TextIn(timeline, t), n)
      BY <2>4, <2>8
    <3>5. \A q \in Turns : Pending(q) = {} /\ Pending(q)' = IF q = t THEN {n} ELSE {}
      BY <1>3, <2>6, <2>8, <3>1
    <3>6. UNCHANGED <<turn, stream, ended>> /\ TimelineTyped(timeline')
      BY <1>1, <2>5
    <3> HIDE DEF t, n
    <3>7. Written(t, n)
      BY <3>1, <3>2, <3>3, <3>4, <3>5, <3>6 DEF Written
    <3> QED BY <3>7 DEF Shape
  <2>9. CASE id \notin Turns \/ u.type # "text"
    <3>1. \A q \in Turns : Pending(q)' = {}
      BY <2>6, <2>7, <2>9
    <3>2. AllSettle
      BY <1>3, <3>1, SettlesNone
    <3>3. \A q \in Turns : TextIn(timeline', q) = TextIn(timeline, q)
      BY <2>4, <2>5, <2>9, FrozenText
    <3>4. \A q \in ended : Frozen(timeline, timeline', q)
      BY <2>2, <2>5, <2>7 DEF TurnsTyped
    <3>5. turn' \in [TurnIds -> TurnState] /\ \A q \in Turns : turn'[q] = turn[q]
      BY <1>1 DEF TurnsTyped
    <3>6. Quiet
      BY <1>1, <2>5, <3>3, <3>4, <3>5 DEF Quiet
    <3> QED BY <3>2, <3>6 DEF Shape
  <2> QED BY <2>8, <2>9
<1> QED BY <1>0, <1>4, <1>5, LookWritten DEF Drops, Waits

(* Its second look tells the chunk, tells events without text, or tells    *)
(* nothing of any turn of the host.                                        *)
LEMMA TellShape ==
  ASSUME ChannelTyped, TurnsTyped, InOrder, LoadOk, ThreadOk, WrittenOk, TellHost
  PROVE  Shape
<1> DEFINE j    == jobs[1]
           t    == j.turn
           u    == j.update
           id   == TurnId(t)
           step == MapUpdate(id, turn[id], u, ModeDenies)
           text == IF u.type = "text" THEN {u.n} ELSE {}
<1>1. /\ jobs # <<>> /\ 1 \in DOMAIN jobs /\ Head(jobs) = j /\ j \in ActorJob
      /\ WrittenIn(jobs) = {1} /\ WrittenIn(jobs') = {} /\ jobs' = Tail(jobs)
  BY TellWritten
<1>2. u \in SessionUpdate /\ u.n \in Nat /\ t \in Turns \cup {NoTurn}
  BY <1>1, JobsTyped DEF ActorJob
<1>3. id \in TurnIds /\ turn[id] \in TurnState /\ TimelineTyped(timeline)
  BY <1>2 DEF TurnsTyped, TurnIds, TurnId
<1>4. u.n \in Past' /\ \A k \in Past : k < u.n
  <2>1. UNCHANGED <<inbound, wrote, asked, replayed, opening, buffered>>
    BY DEF TellHost, agentVars
  <2>2. jobs[1].update.n \in Past'
    BY <1>1, <2>1, JobTaken
  <2> QED BY <1>1, <2>2 DEF Past
<1>5. \A q \in Turns : Pending(q)' = {} /\ Pending(q) = IF q = t THEN text ELSE {}
  BY <1>1, PendingIs, NonePending, OnePending
<1>6. IF t # NoTurn /\ ~ShouldCommit(t) THEN UNCHANGED <<turnVars, timeline>>
      ELSE /\ turn' = [turn EXCEPT ![id] = step.state]
           /\ timeline' = AppendEvents(
                IF t = NoTurn THEN SyncHistory(timeline, u) ELSE timeline, step.events)
           /\ stream' = IF t = NoTurn \/ t \in ended THEN stream
                        ELSE [stream EXCEPT ![t] = stream[t] \o step.events]
           /\ UNCHANGED <<current, ended>>
  BY <1>1 DEF TellHost
<1>7. Mapped(turn[id], u, step)
  BY <1>2, <1>3, UpdateMapped, ConversationAssumption
<1>8. step.events \in Seq(Events) /\ step.state \in TurnState
      /\ \A i \in DOMAIN step.events : ~IsTerminal(step.events[i])
  BY <1>7, MappedEvents
<1> HIDE DEF step, id, u, t, j
<1>9. CASE t # NoTurn /\ ~ShouldCommit(t)
  <2>1. UNCHANGED <<turn, stream, ended, timeline>>
    BY <1>6, <1>9 DEF turnVars
  <2>2. Quiet
    BY <2>1, Unchanged
  <2>3. t \in ended
    BY <1>1, <1>9, TellWritten DEF ShouldCommit, t, j
  <2>4. ASSUME NEW q \in Turns PROVE Settles(q)
    <3>1. q \notin ended => Untold(q) \subseteq Pending(q)
      BY DEF ThreadOk, ThreadOf
    <3>2. Pending(q) \subseteq Past' /\ Pending(q)' = {} /\ (q \notin ended => Pending(q) = {})
      BY <1>4, <1>5, <2>3
    <3> QED BY <3>1, <3>2 DEF Settles
  <2> QED BY <2>2, <2>4 DEF Shape, AllSettle
<1>10. CASE t = NoTurn
  <2>1. id = HistoryTurn
    BY <1>10 DEF TurnId, id
  <2> DEFINE mid == SyncHistory(timeline, u)
  <2>2. TimelineTyped(mid) /\ \A q : Frozen(timeline, mid, q)
    BY <1>2, <1>3, HistorySynced
  <2>3. timeline' = AppendEvents(mid, step.events)
    BY <1>6, <1>10
  <2> HIDE DEF mid
  <2>4. TimelineTyped(timeline') /\ timeline'.entries = mid.entries
    BY <1>8, <2>2, <2>3, EventsAppended
  <2>5. ASSUME NEW q PROVE Frozen(timeline, timeline', q)
    <3>1. Frozen(timeline, mid, q) /\ Frozen(mid, timeline', q)
      BY <2>2, <2>4, FrozenSame
    <3> QED BY <3>1, FrozenTwice
  <2>6. turn' \in [TurnIds -> TurnState] /\ \A q \in Turns : turn'[q] = turn[q]
    BY <1>3, <1>6, <1>8, <1>10, <2>1, ConversationAssumption DEF TurnsTyped, TurnIds
  <2>7. UNCHANGED <<stream, ended>>
    BY <1>6, <1>10
  <2>8. Quiet
    BY <2>4, <2>5, <2>6, <2>7, FrozenText DEF Quiet
  <2>9. AllSettle
    <3>1. \A q \in Turns : Pending(q) = {} /\ Pending(q)' = {}
      BY <1>5, <1>10, ConversationAssumption
    <3> QED BY <3>1, SettlesNone
  <2> QED BY <2>8, <2>9 DEF Shape
<1>11. CASE t # NoTurn /\ ShouldCommit(t)
  <2>1. t \in Turns \ ended /\ id = t
    BY <1>2, <1>11 DEF ShouldCommit, TurnId, id
  <2> DEFINE events == step.events
             next   == step.state
  <2>2. /\ turn' = [turn EXCEPT ![t] = next] /\ timeline' = AppendEvents(timeline, events)
        /\ stream' = [stream EXCEPT ![t] = stream[t] \o events] /\ ended' = ended
    BY <1>6, <1>11, <2>1
  <2>3. /\ TimelineTyped(timeline') /\ \A q : q # t => Frozen(timeline, timeline', q)
        /\ TextIn(timeline', t) = TextIn(timeline, t)
    BY <1>3, <1>8, <2>2, NothingWritten, WrittenAndTold
  <2>4. turn[t].denied \subseteq next.denied
        /\ next.output = IF u.type \in Chunk THEN Append(turn[t].output, u.n)
                         ELSE turn[t].output
    BY <1>7, <2>1 DEF Mapped
  <2>5. \A i \in DOMAIN events : events[i].type # "completed"
    BY <1>8 DEF IsTerminal
  <2>6. next \in TurnState /\ events \in Seq(Events)
    BY <1>8
  <2>7. CASE u.type \in Chunk
    <3>1. PICK e \in Events : events = <<e>> /\ e.type = u.type /\ e.n = u.n
      BY <1>7, <2>7 DEF Mapped
    <3>2. Len(events) = 1 /\ events[1].type = u.type /\ events[1].n = u.n
      BY <3>1, OneEvent
    <3> HIDE DEF events, next
    <3>3. GoesOn(t, next, events)
      BY <2>1, <2>2, <2>3, <2>4, <2>5, <2>6 DEF GoesOn
    <3>4. \A q \in Turns :
            /\ Pending(q)' = {}
            /\ Pending(q) = IF q = t /\ events[1].type = "text" THEN {u.n} ELSE {}
      BY <1>5, <3>2
    <3> DEFINE n == u.n
    <3>5. Said(t, next, events, n)
      BY <1>2, <1>4, <2>2, <2>3, <2>4, <2>7, <3>2, <3>3, <3>4 DEF Said
    <3> HIDE DEF n
    <3> QED BY <3>5 DEF Shape
  <2>8. CASE u.type \notin Chunk
    <3>1. \A i \in DOMAIN events : events[i].type \notin Chunk
      <4>1. CASE events = <<>>
        BY <4>1
      <4>2. CASE events # <<>>
        <5>1. PICK e : Plain(e) /\ events = <<e>>
          BY <1>7, <2>8, <4>2 DEF Mapped
        <5>2. e.type \notin Chunk
          BY <5>1 DEF Plain
        <5> QED BY <5>1, <5>2
      <4> QED BY <4>1, <4>2
    <3> HIDE DEF events, next
    <3>2. GoesOn(t, next, events)
      BY <2>1, <2>2, <2>3, <2>4, <2>5, <2>6 DEF GoesOn
    <3>3. Unsaid(t, next, events) /\ EndsTold(t, events)
      BY <2>1, <2>2, <2>3, <2>4, <2>8, <3>1, <3>2 DEF Unsaid, EndsTold
    <3>4. AllSettle
      <4>1. u.type # "text"
        BY <2>8 DEF Chunk
      <4>2. \A q \in Turns : Pending(q) = {} /\ Pending(q)' = {}
        BY <1>5, <4>1
      <4> QED BY <4>2, SettlesNone
    <3> QED BY <3>3, <3>4 DEF Shape
  <2> QED BY <2>7, <2>8
<1> QED BY <1>9, <1>10, <1>11
-----------------------------------------------------------------------------
(* The other steps of a turn.                                              *)
LEMMA UnsaidIs ==
  ASSUME NEW t, NEW next, NEW events, Unsaid(t, next, events), EndsTold(t, events),
         AllSettle
  PROVE  Shape
BY DEF Shape

(* When the actor rests a turn that has not ended has told all it shows.   *)
LEMMA RestsTold ==
  ASSUME ChannelTyped, WrittenOk, ThreadOk, ActorRests, NEW t \in Turns, t \notin ended
  PROVE  Untold(t) = {}
<1>1. Pending(t) = {}
  BY RestsNone, PendingIs, NonePending
<1>2. Untold(t) \subseteq Pending(t)
  BY DEF ThreadOk, ThreadOf
<1> QED BY <1>1, <1>2

(* A turn that ends early or fails says nothing more.                      *)
LEMMA Finished ==
  ASSUME TurnsTyped, NEW t \in Turns, t \notin ended, NEW type, NEW next \in TurnState,
         type \in {"timed_out", "cancelled", "failed"},
         Finish(t, type), turn' = [turn EXCEPT ![t] = next],
         next.output = turn[t].output, next.denied = turn[t].denied,
         Untold(t) = {} \/ type = "cancelled"
  PROVE  \E events : Unsaid(t, next, events) /\ EndsTold(t, events)
<1> DEFINE e      == [type |-> type, turn |-> t]
           tl     == CompleteTurn(timeline, t, "failed")
           events == <<e>>
           s      == stream[t]
<1>1. e \in Events /\ e.type = type
  BY DEF Events, TurnIds
<1> HIDE DEF e
<1>2. /\ events \in Seq(Events) /\ Len(events) = 1 /\ events[1] = e /\ DOMAIN events = {1}
  BY <1>1, OneEvent
<1>3. \A i \in DOMAIN events : events[i].type \notin Chunk \cup {"completed"}
  BY <1>1, <1>2 DEF Chunk
<1>4. t \in TurnIds /\ TimelineTyped(timeline)
  BY DEF TurnsTyped, TurnIds
<1>5. WrittenOf(timeline, tl, t) /\ TextIn(tl, t) = TextIn(timeline, t)
  BY <1>4, TurnCompleted DEF TimelineTyped
<1> HIDE DEF tl
<1>6. timeline' = AppendEvents(tl, events) /\ ended' = ended \cup {t}
  BY DEF Finish, AppendEvent, tl, e
<1>7. stream' = [stream EXCEPT ![t] = s \o events]
  <2>1. s \in Seq(Events)
    BY DEF TurnsTyped
  <2> HIDE DEF s
  <2>2. Append(s, e) = s \o <<e>>
    BY <1>1, <2>1
  <2>3. stream' = [stream EXCEPT ![t] = Append(s, e)]
    BY DEF Finish, e, s
  <2> QED BY <2>2, <2>3
<1> HIDE DEF events
<1>8. /\ TimelineTyped(timeline') /\ \A q : q # t => Frozen(timeline, timeline', q)
      /\ TextIn(timeline', t) = TextIn(timeline, t)
  BY <1>2, <1>4, <1>5, <1>6, WrittenAndTold
<1>9. GoesOn(t, next, events)
  BY <1>2, <1>3, <1>6, <1>7, <1>8 DEF GoesOn
<1>10. Unsaid(t, next, events)
  BY <1>3, <1>8, <1>9 DEF Unsaid
<1>11. EndsTold(t, events)
  <2>0. DOMAIN <<>> = {}
    OBVIOUS
  <2>1. events # <<>>
    BY <1>2, <2>0, Zenon
  <2>2. events[Len(events)] = e
    BY <1>2
  <2> QED BY <1>1, <2>1, <2>2 DEF EndsTold
<1> QED BY <1>10, <1>11

(* A turn that starts has said nothing.                                    *)
LEMMA Started ==
  ASSUME TurnsTyped, NEW t \in Turns, t \notin ended, StartTurn(t)
  PROVE  /\ Unsaid(t, turn[t], <<[type |-> "started", turn |-> t]>>)
         /\ EndsTold(t, <<[type |-> "started", turn |-> t]>>)
<1> DEFINE e      == [type |-> "started", turn |-> t]
           events == <<e>>
<1>1. e \in Events /\ e.type = "started"
  BY DEF Events, TurnIds
<1> HIDE DEF e
<1>2. /\ events \in Seq(Events) /\ Len(events) = 1 /\ events[1] = e /\ DOMAIN events = {1}
  BY <1>1, OneEvent
<1>3. \A i \in DOMAIN events : events[i].type \notin Chunk \cup {"completed"}
  BY <1>1, <1>2 DEF Chunk
<1>4. t \in TurnIds /\ TimelineTyped(timeline) /\ turn[t] \in TurnState
  BY DEF TurnsTyped, TurnIds
<1>5. /\ stream[t] = <<>> /\ timeline' = AddUser(timeline, t, 0)
      /\ stream' = [stream EXCEPT ![t] = events] /\ turn' = turn /\ ended' = ended
  BY DEF StartTurn, e
<1>6. /\ TimelineTyped(timeline') /\ \A q : Frozen(timeline, timeline', q)
  BY <1>4, <1>5, UserAdded DEF TimelineTyped
<1>7. TextIn(timeline', t) = TextIn(timeline, t)
  BY <1>6, FrozenText
<1>8. stream[t] \o events = events
  BY <1>2, <1>5
<1>9. turn' = [turn EXCEPT ![t] = turn[t]]
  BY <1>4, <1>5 DEF TurnsTyped
<1> HIDE DEF events
<1>10. GoesOn(t, turn[t], events)
  BY <1>2, <1>3, <1>4, <1>5, <1>6, <1>8, <1>9 DEF GoesOn
<1>11. Unsaid(t, turn[t], events) /\ EndsTold(t, events)
  BY <1>3, <1>5, <1>7, <1>10 DEF Unsaid, EndsTold
<1> QED BY <1>11 DEF events, e

(* Events told without a word in the thread.                               *)
LEMMA Emitted ==
  ASSUME TurnsTyped, NEW t \in Turns, t \notin ended, NEW next \in TurnState,
         NEW events \in Seq(Events), \A i \in DOMAIN events : Plain(events[i]),
         Emit(t, events), turn' = [turn EXCEPT ![t] = next],
         next.output = turn[t].output, turn[t].denied \subseteq next.denied
  PROVE  Unsaid(t, next, events) /\ EndsTold(t, events) /\ ended' = ended
<1>1. t \in TurnIds /\ TimelineTyped(timeline)
  BY DEF TurnsTyped, TurnIds
<1>2. \A i \in DOMAIN events :
        events[i].type \notin Chunk \cup {"completed"} /\ ~IsTerminal(events[i])
  BY DEF Plain, IsTerminal
<1>3. /\ timeline' = AppendEvents(timeline, events) /\ ended' = ended
      /\ stream' = [stream EXCEPT ![t] = stream[t] \o events]
  BY <1>2 DEF Emit
<1>4. /\ TimelineTyped(timeline') /\ \A q : q # t => Frozen(timeline, timeline', q)
      /\ TextIn(timeline', t) = TextIn(timeline, t)
  BY <1>1, <1>3, NothingWritten, WrittenAndTold
<1>5. GoesOn(t, next, events)
  BY <1>2, <1>3, <1>4 DEF GoesOn
<1> QED BY <1>2, <1>3, <1>4, <1>5 DEF Unsaid, EndsTold

(* The agent's answer ends the turn without a further text.                *)
LEMMA TurnAnswered ==
  ASSUME TurnsTyped, NEW t \in Turns, t \notin ended, NEW stop, Answered(t, stop),
         Untold(t) = {}
  PROVE  LET r == FinalizePrompt(t, turn[t], stop)
         IN  Unsaid(t, r.state, r.events) /\ EndsTold(t, r.events)
             /\ turn' = [turn EXCEPT ![t] = r.state]
             /\ r.state.denied = turn[t].denied /\ r.state.requests = turn[t].requests
             /\ ended' = ended \cup {t} /\ stream' = [stream EXCEPT ![t] = stream[t] \o r.events]
             /\ Len(r.events) \in Nat \ {0}
<1> DEFINE r      == FinalizePrompt(t, turn[t], stop)
           events == r.events
           n      == Len(events)
           last   == events[n].type
           status == IF last = "completed" THEN "completed" ELSE "failed"
           tl     == IF last = "cancelled" THEN timeline ELSE CompleteTurn(timeline, t, status)
<1>1. t \in TurnIds /\ TimelineTyped(timeline) /\ turn[t] \in TurnState
  BY DEF TurnsTyped, TurnIds
<1>2. /\ r.state \in TurnState /\ r.state.output = turn[t].output
      /\ r.state.denied = turn[t].denied /\ r.state.requests = turn[t].requests
      /\ events \in Seq(Events) /\ n \in Nat \ {0}
      /\ \A i \in 1..(n - 1) : Plain(events[i])
      /\ IsTerminal(events[n])
      /\ events[n].type = "completed" =>
           turn[t].denied = {} /\ events[n].output = turn[t].output
  BY <1>1, FinalizeTyped
<1>3. /\ turn' = [turn EXCEPT ![t] = r.state]
      /\ timeline' = AppendEvents(tl, events)
      /\ stream' = [stream EXCEPT ![t] = stream[t] \o events]
      /\ ended' = ended \cup {t}
  BY DEF Answered
<1> HIDE DEF r
<1>4. \A i \in DOMAIN events :
        /\ events[i].type \notin Chunk
        /\ events[i].type = "completed" =>
             r.state.denied = {} /\ events[i].output = r.state.output
  <2> SUFFICES ASSUME NEW i \in 1..n
               PROVE  /\ events[i].type \notin Chunk
                      /\ events[i].type = "completed" =>
                           r.state.denied = {} /\ events[i].output = r.state.output
    BY <1>2
  <2>1. CASE i = n
    BY <1>2, <2>1 DEF IsTerminal, Chunk
  <2>2. CASE i # n
    <3>1. i \in 1..(n - 1)
      BY <1>2, <2>2
    <3>2. Plain(events[i])
      BY <1>2, <3>1
    <3> QED BY <3>2 DEF Plain, IsTerminal
  <2> QED BY <2>1, <2>2
<1>5. WrittenOf(timeline, tl, t) /\ TextIn(tl, t) = TextIn(timeline, t)
  <2>1. CASE last = "cancelled"
    BY <1>1, <2>1, NothingWritten
  <2>2. CASE last # "cancelled"
    <3>1. status \in {"completed", "failed"}
      OBVIOUS
    <3> HIDE DEF status
    <3>2. tl = CompleteTurn(timeline, t, status)
      BY <2>2
    <3> QED BY <1>1, <3>1, <3>2, TurnCompleted DEF TimelineTyped
  <2> QED BY <2>1, <2>2
<1> HIDE DEF tl, last, status
<1>6. /\ TimelineTyped(timeline') /\ \A q : q # t => Frozen(timeline, timeline', q)
      /\ TextIn(timeline', t) = TextIn(timeline, t)
  BY <1>1, <1>2, <1>3, <1>5, WrittenAndTold
<1>7. GoesOn(t, r.state, events)
  BY <1>2, <1>3, <1>4, <1>6 DEF GoesOn
<1>8. Unsaid(t, r.state, events) /\ EndsTold(t, events)
  BY <1>2, <1>4, <1>6, <1>7 DEF Unsaid, EndsTold
<1> QED BY <1>2, <1>3, <1>8 DEF r
-----------------------------------------------------------------------------
HostTyped ==
  /\ asking \subseteq Ask
  /\ \A r \in told : r.turn # NoTurn => r.turn \in Turns
  /\ ProcessTyped

(* The type invariant in three parts.                                      *)
LEMMA TypeSplit == TypeOK <=> ChannelTyped /\ TurnsTyped /\ HostTyped
BY DEF TypeOK, ChannelTyped, TurnsTyped, HostTyped, ProcessTyped, TimelineTyped,
       ThreadTyped, EntryOk

(* A permission request of a running turn.                                 *)
AskEvents(t, state, k) ==
  <<Event("operation_updated", t, state, k),
    PermissionEvent("permission_requested", t, state, k, state.requests, "pending")>>

(* Two plain events in a sequence.                                         *)
LEMMA TwoEvents ==
  ASSUME NEW a, NEW b, Plain(a), Plain(b)
  PROVE  /\ <<a, b>> \in Seq(Events) /\ \A i \in DOMAIN <<a, b>> : Plain(<<a, b>>[i])
<1>1. a \in Events /\ b \in Events
  BY DEF Plain
<1>2. DOMAIN <<a, b>> = {1, 2} /\ <<a, b>>[1] = a /\ <<a, b>>[2] = b
  OBVIOUS
<1> QED BY <1>1, <1>2

(* A request in a running turn is told as two plain events and put before  *)
(* the host under the turn's next number.                                  *)
LEMMA PermissionAsked ==
  ASSUME TurnsTyped, ChannelTyped, InOrder, LoadOk, NEW m, ReceivePermission(m),
         current # NoTurn, current \notin ended
  PROVE  LET t == current
             state == RequestPermission(turn[t], m.tool, Absent)
         IN  /\ Unsaid(t, state, AskEvents(t, state, m.tool)) /\ ended' = ended
             /\ EndsTold(t, AskEvents(t, state, m.tool))
             /\ state.requests = turn[t].requests + 1 /\ turn[t].denied = state.denied
             /\ asking' = asking \cup {[n |-> m.n, turn |-> t, tool |-> m.tool,
                                        request |-> state.requests, options |-> m.options]}
             /\ told' = told
             /\ [n |-> m.n, turn |-> t, tool |-> m.tool,
                 request |-> state.requests, options |-> m.options] \in Ask
<1> DEFINE t == current
           state == RequestPermission(turn[t], m.tool, Absent)
           a == Event("operation_updated", t, state, m.tool)
           b == PermissionEvent("permission_requested", t, state, m.tool,
                                state.requests, "pending")
<1>1. t \in Turns /\ t \in TurnIds /\ turn[t] \in TurnState
  BY DEF TurnsTyped, TurnIds
<1>2. m.n \in Nat /\ m.tool \in Tools /\ m.options \in {r.options : r \in Requests}
  BY MessageRead, TypesApart DEF ReceivePermission
<1>3. /\ state \in TurnState /\ state.output = turn[t].output
      /\ state.denied = turn[t].denied /\ state.requests = turn[t].requests + 1
  BY <1>1, <1>2, RequestTyped
<1>4. state.requests \in Nat
  BY <1>3 DEF TurnState
<1>5. /\ turn' = [turn EXCEPT ![t] = state] /\ Emit(t, <<a, b>>)
      /\ asking' = asking \cup {[n |-> m.n, turn |-> t, tool |-> m.tool,
                                 request |-> state.requests, options |-> m.options]}
      /\ told' = told
  BY DEF ReceivePermission
<1> HIDE DEF state
<1>6. Plain(a) /\ Plain(b)
  <2>1. "operation_updated" \in OperationEvents /\ "permission_requested" \in PermissionEvents
    BY DEF OperationEvents, PermissionEvents
  <2>2. Plain(a)
    BY <1>1, <1>2, <1>3, <2>1, EventTyped
  <2>3. Plain(b)
    BY <1>1, <1>2, <1>3, <1>4, <2>1, PermissionTyped
  <2> QED BY <2>2, <2>3
<1> HIDE DEF a, b
<1> DEFINE events == <<a, b>>
<1>7. events \in Seq(Events) /\ \A i \in DOMAIN events : Plain(events[i])
  BY <1>6, TwoEvents
<1>8. Emit(t, events)
  BY <1>5
<1> HIDE DEF events
<1>9. Unsaid(t, state, events) /\ EndsTold(t, events) /\ ended' = ended
  BY <1>1, <1>3, <1>5, <1>7, <1>8, Emitted
<1>10. [n |-> m.n, turn |-> t, tool |-> m.tool, request |-> state.requests,
        options |-> m.options] \in Ask
  BY <1>1, <1>2, <1>4 DEF Ask
<1> QED BY <1>3, <1>5, <1>9, <1>10 DEF state, events, a, b, AskEvents

(* A request after the turn's end, before the agent's answer, is put       *)
(* before the host too, and tells nothing.                                 *)
LEMMA PermissionAskedLate ==
  ASSUME TurnsTyped, ChannelTyped, InOrder, LoadOk, NEW m, ReceivePermission(m),
         current # NoTurn, current \in ended
  PROVE  LET t == current
             state == RequestPermission(turn[t], m.tool, Absent)
         IN  /\ Quiet /\ turn' = [turn EXCEPT ![t] = state]
             /\ state.requests = turn[t].requests + 1
             /\ asking' = asking \cup {[n |-> m.n, turn |-> t, tool |-> m.tool,
                                        request |-> state.requests, options |-> m.options]}
             /\ told' = told
             /\ [n |-> m.n, turn |-> t, tool |-> m.tool,
                 request |-> state.requests, options |-> m.options] \in Ask
<1> DEFINE t == current
           state == RequestPermission(turn[t], m.tool, Absent)
           a == Event("operation_updated", t, state, m.tool)
           b == PermissionEvent("permission_requested", t, state, m.tool,
                                state.requests, "pending")
<1>1. t \in Turns /\ t \in TurnIds /\ turn[t] \in TurnState /\ TimelineTyped(timeline)
  BY DEF TurnsTyped, TurnIds
<1>2. m.n \in Nat /\ m.tool \in Tools /\ m.options \in {r.options : r \in Requests}
  BY MessageRead, TypesApart DEF ReceivePermission
<1>3. /\ state \in TurnState /\ state.output = turn[t].output
      /\ state.denied = turn[t].denied /\ state.requests = turn[t].requests + 1
  BY <1>1, <1>2, RequestTyped
<1>4. state.requests \in Nat
  BY <1>3 DEF TurnState
<1>5. /\ turn' = [turn EXCEPT ![t] = state] /\ Emit(t, <<a, b>>)
      /\ asking' = asking \cup {[n |-> m.n, turn |-> t, tool |-> m.tool,
                                 request |-> state.requests, options |-> m.options]}
      /\ told' = told
  BY DEF ReceivePermission
<1> HIDE DEF state
<1>6. Plain(a) /\ Plain(b)
  <2>1. "operation_updated" \in OperationEvents /\ "permission_requested" \in PermissionEvents
    BY DEF OperationEvents, PermissionEvents
  <2>2. Plain(a)
    BY <1>1, <1>2, <1>3, <2>1, EventTyped
  <2>3. Plain(b)
    BY <1>1, <1>2, <1>3, <1>4, <2>1, PermissionTyped
  <2> QED BY <2>2, <2>3
<1> HIDE DEF a, b
<1> DEFINE events == <<a, b>>
<1>7. events \in Seq(Events) /\ \A i \in DOMAIN events : Plain(events[i])
  BY <1>6, TwoEvents
<1>8. Emit(t, events)
  BY <1>5
<1> HIDE DEF events
<1>9. /\ timeline' = AppendEvents(timeline, events) /\ UNCHANGED <<stream, ended>>
  BY <1>7, <1>8 DEF Emit, Plain
<1>10. TimelineTyped(timeline') /\ timeline'.entries = timeline.entries
  BY <1>1, <1>7, <1>9, EventsAppended
<1>11. turn' \in [TurnIds -> TurnState]
       /\ \A q \in Turns : turn'[q].output = turn[q].output /\ turn'[q].denied = turn[q].denied
  BY <1>1, <1>3, <1>5 DEF TurnsTyped, TurnIds
<1>12. Quiet
  <2>1. \A q : Frozen(timeline, timeline', q)
    BY <1>10, FrozenSame
  <2> QED BY <1>9, <1>10, <1>11, <2>1, FrozenText DEF Quiet
<1>13. [n |-> m.n, turn |-> t, tool |-> m.tool, request |-> state.requests,
        options |-> m.options] \in Ask
  BY <1>1, <1>2, <1>4 DEF Ask
<1> QED BY <1>3, <1>5, <1>12, <1>13 DEF state

(* A decision of the host that stands.                                     *)
LEMMA HostDecided ==
  ASSUME TurnsTyped, HostTyped, NEW r \in asking, NEW d \in {"allowed", "denied"},
         DecisionStands(r.turn),
         turn' = [turn EXCEPT ![r.turn] = ApplyDecision(turn[r.turn], r.tool, d)],
         Emit(r.turn, <<PermissionEvent("permission_resolved", r.turn,
                          ApplyDecision(turn[r.turn], r.tool, d), r.tool, r.request, d)>>)
  PROVE  LET t == r.turn
             state == ApplyDecision(turn[t], r.tool, d)
             e == PermissionEvent("permission_resolved", t, state, r.tool, r.request, d)
         IN  /\ Unsaid(t, state, <<e>>) /\ EndsTold(t, <<e>>) /\ ended' = ended
             /\ state.requests = turn[t].requests
             /\ d = "denied" => state.denied # {}
             /\ e.type = "permission_resolved" /\ e.request = r.request /\ e.phase = d
<1> DEFINE t == r.turn
           state == ApplyDecision(turn[t], r.tool, d)
           e == PermissionEvent("permission_resolved", t, state, r.tool, r.request, d)
           events == <<e>>
<1>1. r.turn \in Turns /\ r.tool \in Tools /\ r.request \in Nat
  BY DEF HostTyped, Ask
<1>2. t \in Turns /\ t \in TurnIds /\ turn[t] \in TurnState /\ t \notin ended
  BY <1>1 DEF TurnsTyped, TurnIds, DecisionStands
<1>3. /\ state \in TurnState /\ state.output = turn[t].output
      /\ turn[t].denied \subseteq state.denied
      /\ d = "denied" => state.denied # {}
      /\ state.requests = turn[t].requests
  BY <1>1, <1>2, DecisionTyped
<1>4. turn' = [turn EXCEPT ![t] = state] /\ Emit(t, events)
  OBVIOUS
<1> HIDE DEF state
<1>5. Plain(e) /\ e.type = "permission_resolved" /\ e.request = r.request /\ e.phase = d
  <2>1. "permission_resolved" \in PermissionEvents /\ d \in {"pending", "allowed", "denied"}
    BY DEF PermissionEvents
  <2> QED BY <1>1, <1>2, <1>3, <2>1, PermissionTyped
<1> HIDE DEF e
<1>6. events \in Seq(Events) /\ \A i \in DOMAIN events : Plain(events[i])
  <2>1. e \in Events
    BY <1>5 DEF Plain
  <2> QED BY <1>5, <2>1, OneEvent
<1> HIDE DEF events
<1>7. Unsaid(t, state, events) /\ EndsTold(t, events) /\ ended' = ended
  BY <1>2, <1>3, <1>4, <1>6, Emitted
<1> QED BY <1>3, <1>5, <1>7 DEF state, events, e
-----------------------------------------------------------------------------
(* Every step has one of the shapes.                                       *)
(* Every step but the looks of a job leaves the jobs between them alone,   *)
(* and tells no chunk.                                                     *)
LEMMA OtherShape ==
  ASSUME TypeOK, InOrder, LoadOk, OneAnswer, WrittenOk, ThreadOk, [Next]_vars, ~Looks
  PROVE  Shape
<1>0. ChannelTyped /\ TurnsTyped /\ HostTyped
  BY TypeSplit
<1>a. AllSettle
  BY <1>0, WrittenKept, SettlesSame DEF HostTyped
<1>b. ASSUME Quiet PROVE Shape
  BY <1>a, <1>b DEF Shape
<1>1. ASSUME UNCHANGED <<turn, stream, ended, timeline>> PROVE Shape
  BY <1>0, <1>1, <1>b, Unchanged
<1>2. CASE AgentUpdates \/ AgentAsks \/ AgentAnswers \/ AgentLoads
  <2>1. UNCHANGED <<turn, stream, ended, timeline>>
    BY <1>2 DEF AgentUpdates, AgentAsks, AgentAnswers, AgentLoads, turnVars
  <2> QED BY <1>1, <2>1
<1>3. CASE SetSessionUpdateHandler \/ ReadOutput
  <2>1. UNCHANGED <<turn, stream, ended, timeline>>
    BY <1>3 DEF SetSessionUpdateHandler, ReadOutput, turnVars
  <2> QED BY <1>1, <2>1
<1>4. CASE \/ UNCHANGED vars
           \/ \E x \in Terminals : Exits(x)
           \/ \E op \in TerminalOps, x \in Terminals : CallTerminal(op, x)
  <2>1. UNCHANGED <<turn, stream, ended, timeline>>
    BY <1>4 DEF vars, Exits, CallTerminal, turnVars
  <2> QED BY <1>1, <2>1
<1>5. CASE SealHistoryReplay \/ DrainHistory \/ TerminalReturns
  <2>1. UNCHANGED <<turn, stream, ended>>
    BY <1>5 DEF SealHistoryReplay, DrainHistory, TerminalReturns, turnVars
  <2>2. TimelineTyped(timeline') /\ timeline'.entries = timeline.entries
    BY <1>0, <1>5, HistoryKept, TerminalUpserted
       DEF SealHistoryReplay, DrainHistory, TerminalReturns, TurnsTyped
  <2> QED BY <1>0, <1>b, <2>1, <2>2, TimelineQuiet
<1>6. CASE Deliver
  <2>1. PICK m : ReceiveUpdate(m) \/ ReceiveLoaded(m) \/ ReceivePermission(m)
                   \/ ReceiveAnswer(m)
    BY <1>6 DEF Deliver
  <2>2. CASE ReceiveUpdate(m) \/ ReceiveLoaded(m)
    <3>1. UNCHANGED <<turn, stream, ended, timeline>>
      BY <2>2 DEF ReceiveUpdate, ReceiveLoaded, turnVars
    <3> QED BY <1>1, <3>1
  <2>3. CASE ReceivePermission(m)
    <3>1. CASE current = NoTurn
      <4>1. UNCHANGED <<turn, stream, ended, timeline>>
        BY <2>3, <3>1 DEF ReceivePermission, turnVars
      <4> QED BY <1>1, <4>1
    <3>2. CASE current # NoTurn /\ current \notin ended
      <4>1. PICK t, next, events : Unsaid(t, next, events) /\ EndsTold(t, events)
        BY <1>0, <2>3, <3>2, PermissionAsked
      <4> QED BY <1>a, <4>1, UnsaidIs
    <3>3. CASE current # NoTurn /\ current \in ended
      BY <1>0, <1>b, <2>3, <3>3, PermissionAskedLate
    <3> QED BY <3>1, <3>2, <3>3
  <2>4. CASE ReceiveAnswer(m)
    <3>1. current \in Turns
      <4>1. 1 \in DOMAIN inbound /\ inbound[1].type = "answer"
        BY <1>0, <2>4, MessageRead DEF ReceiveAnswer
      <4> QED BY <1>0, <4>1 DEF OneAnswer, TurnsTyped
    <3>2. CASE current \in ended
      <4>1. UNCHANGED <<turn, stream, ended, timeline>>
        BY <2>4, <3>2 DEF ReceiveAnswer
      <4> QED BY <1>1, <4>1
    <3>3. CASE current \notin ended
      <4>0. Untold(current) = {}
        <5>1. ActorRests
          BY <2>4 DEF ReceiveAnswer, Receive
        <5> QED BY <1>0, <3>1, <3>3, <5>1, RestsTold
      <4>1. CASE m.stop = "error"
        <5>1. Finish(current, "failed") /\ turn' = turn
          BY <2>4, <3>3, <4>1 DEF ReceiveAnswer
        <5>2. turn[current] \in TurnState /\ turn' = [turn EXCEPT ![current] = turn[current]]
          BY <1>0, <3>1, <5>1 DEF TurnsTyped, TurnIds
        <5>3. \E events : Unsaid(current, turn[current], events) /\ EndsTold(current, events)
          BY <1>0, <3>1, <3>3, <4>0, <5>1, <5>2, Finished
        <5>4. PICK t, next, events : Unsaid(t, next, events) /\ EndsTold(t, events)
          BY <5>3
        <5> QED BY <1>a, <5>4, UnsaidIs
      <4>2. CASE m.stop # "error"
        <5>1. Answered(current, m.stop)
          BY <2>4, <3>3, <4>2 DEF ReceiveAnswer
        <5>2. PICK t, next, events : Unsaid(t, next, events) /\ EndsTold(t, events)
          BY <1>0, <3>1, <3>3, <4>0, <5>1, TurnAnswered
        <5> QED BY <1>a, <5>2, UnsaidIs
      <4> QED BY <4>1, <4>2
    <3> QED BY <3>2, <3>3
  <2> QED BY <2>1, <2>2, <2>3, <2>4
<1>9. CASE \E t \in Turns : StartTurn(t)
  <2>1. PICK t \in Turns : StartTurn(t)
    BY <1>9
  <2>2. t \notin ended
    BY <2>1 DEF ThreadOk, ThreadOf, StartTurn
  <2>3. PICK q, next, events : Unsaid(q, next, events) /\ EndsTold(q, events)
    BY <1>0, <2>1, <2>2, Started
  <2> QED BY <1>a, <2>3, UnsaidIs
<1>10. CASE EndEarly
  <2>1. PICK type \in {"timed_out", "cancelled"} :
          /\ current # NoTurn /\ current \notin ended
          /\ type = "timed_out" => ActorRests
          /\ Finish(current, type)
          /\ turn' = IF type = "timed_out"
                     THEN [turn EXCEPT ![current].timedOut = TRUE] ELSE turn
    BY <1>10 DEF EndEarly
  <2> DEFINE s == turn[current]
             next == IF type = "timed_out" THEN [s EXCEPT !.timedOut = TRUE] ELSE s
  <2>2. current \in Turns /\ s \in TurnState
    BY <1>0, <2>1 DEF TurnsTyped, TurnIds
  <2>3. next \in TurnState /\ next.output = s.output /\ next.denied = s.denied
    BY <2>2 DEF TurnState
  <2>4. turn' = [turn EXCEPT ![current] = next]
    BY <1>0, <2>1, <2>2 DEF TurnsTyped, TurnIds
  <2>5. Untold(current) = {} \/ type = "cancelled"
    BY <1>0, <2>1, <2>2, RestsTold
  <2> HIDE DEF next
  <2>6. \E events : Unsaid(current, next, events) /\ EndsTold(current, events)
    BY <1>0, <2>1, <2>2, <2>3, <2>4, <2>5, Finished
  <2>7. PICK t, x, events : Unsaid(t, x, events) /\ EndsTold(t, events)
    BY <2>6
  <2> QED BY <1>a, <2>7, UnsaidIs
<1>11. CASE \E r \in asking : HostDecides(r)
  <2>1. PICK r \in asking : HostDecides(r)
    BY <1>11
  <2>2. CASE ~DecisionStands(r.turn)
    <3>1. UNCHANGED <<turn, stream, ended, timeline>>
      BY <2>1, <2>2 DEF HostDecides
    <3> QED BY <1>1, <3>1
  <2>3. CASE DecisionStands(r.turn)
    <3>1. PICK d \in {"allowed", "denied"} :
            /\ turn' = [turn EXCEPT ![r.turn] = ApplyDecision(turn[r.turn], r.tool, d)]
            /\ Emit(r.turn, <<PermissionEvent("permission_resolved", r.turn,
                                ApplyDecision(turn[r.turn], r.tool, d), r.tool, r.request, d)>>)
      BY <2>1, <2>3 DEF HostDecides
    <3>2. PICK t, next, events : Unsaid(t, next, events) /\ EndsTold(t, events)
      BY <1>0, <2>3, <3>1, HostDecided
    <3> QED BY <1>a, <3>2, UnsaidIs
  <2> QED BY <2>2, <2>3
<1> QED BY <1>2, <1>3, <1>4, <1>5, <1>6, <1>9, <1>10, <1>11 DEF Next, Looks

(* Every step writes a text of a turn, tells one or other events, or       *)
(* leaves the turns of the host alone.                                     *)
LEMMA ShapeStep ==
  ASSUME TypeOK, InOrder, LoadOk, OneAnswer, WrittenOk, ThreadOk, [Next]_vars
  PROVE  Shape
<1>1. ChannelTyped /\ TurnsTyped
  BY TypeSplit
<1> QED BY <1>1, LookShape, TellShape, OtherShape DEF Looks
-----------------------------------------------------------------------------
(* What becomes of permission requests and answers in a step.              *)
AskSteps ==
  \/ \E m : ReceivePermission(m)
  \/ \E r \in asking : HostDecides(r)

(* Nothing else puts a request before the host or answers one.             *)
LEMMA AskedElsewhere ==
  ASSUME [Next]_vars, ~AskSteps
  PROVE  UNCHANGED <<asking, told>>
<1>1. CASE AgentUpdates \/ AgentAsks \/ AgentAnswers \/ AgentLoads
  BY <1>1 DEF AgentUpdates, AgentAsks, AgentAnswers, AgentLoads
<1>2. CASE SetSessionUpdateHandler \/ SealHistoryReplay \/ DrainHistory
  BY <1>2 DEF SetSessionUpdateHandler, SealHistoryReplay, DrainHistory
<1>3. CASE RunJob \/ ReadOutput \/ EndJob \/ TellHost
  BY <1>3 DEF RunJob, ReadOutput, EndJob, TellHost
<1>4. CASE Deliver
  BY <1>4 DEF Deliver, AskSteps, ReceiveUpdate, ReceiveLoaded, ReceiveAnswer
<1>5. CASE \/ UNCHANGED vars \/ EndEarly \/ TerminalReturns
           \/ \E t \in Turns : StartTurn(t)
           \/ \E x \in Terminals : Exits(x)
           \/ \E op \in TerminalOps, x \in Terminals : CallTerminal(op, x)
  BY <1>5 DEF vars, EndEarly, TerminalReturns, StartTurn, Exits, CallTerminal
<1> QED BY <1>1, <1>2, <1>3, <1>4, <1>5 DEF Next, AskSteps

(* Every step keeps the processes typed.                                   *)
LEMMA ProcessStep ==
  ASSUME ProcessTyped, [Next]_vars
  PROVE  ProcessTyped'
<1>1. CASE AgentUpdates \/ AgentAsks \/ AgentAnswers \/ AgentLoads
  BY <1>1 DEF AgentUpdates, AgentAsks, AgentAnswers, AgentLoads, ProcessTyped, hostVars
<1>2. CASE SetSessionUpdateHandler \/ SealHistoryReplay \/ DrainHistory
  BY <1>2 DEF SetSessionUpdateHandler, SealHistoryReplay, DrainHistory, ProcessTyped, hostVars
<1>3. CASE RunJob \/ ReadOutput \/ EndJob \/ TellHost
  BY <1>3 DEF RunJob, ReadOutput, EndJob, TellHost, ProcessTyped, hostVars
<1>4. CASE Deliver
  BY <1>4 DEF Deliver, ReceiveUpdate, ReceiveLoaded, ReceivePermission, ReceiveAnswer,
              ProcessTyped, hostVars
<1>5. CASE UNCHANGED vars \/ EndEarly \/ TerminalReturns
           \/ \E t \in Turns : StartTurn(t)
  BY <1>5 DEF vars, EndEarly, TerminalReturns, StartTurn, ProcessTyped, hostVars
<1>6. CASE \E r \in asking : HostDecides(r)
  BY <1>6 DEF HostDecides, ProcessTyped, hostVars
<1>7. CASE \E x \in Terminals : Exits(x)
  <2>1. PICK x \in Terminals : process' = [process EXCEPT ![x].exit = "code"]
    BY <1>7 DEF Exits
  <2>2. process[x] \in [exit : {"none", "code"}, released : BOOLEAN]
    BY DEF ProcessTyped
  <2>3. [process[x] EXCEPT !.exit = "code"] \in [exit : {"none", "code"}, released : BOOLEAN]
    BY <2>2
  <2> QED BY <2>1, <2>3 DEF ProcessTyped
<1>8. CASE \E op \in TerminalOps, x \in Terminals : CallTerminal(op, x)
  <2>1. PICK op \in TerminalOps, x \in Terminals : CallTerminal(op, x)
    BY <1>8
  <2>2. process[x] \in [exit : {"none", "code"}, released : BOOLEAN]
    BY DEF ProcessTyped
  <2>3. [process[x] EXCEPT !.released = TRUE] \in [exit : {"none", "code"}, released : BOOLEAN]
    BY <2>2
  <2>4. process' = IF op = "release" THEN [process EXCEPT ![x].released = TRUE] ELSE process
    BY <2>1 DEF CallTerminal
  <2> QED BY <2>3, <2>4 DEF ProcessTyped
<1> QED BY <1>1, <1>2, <1>3, <1>4, <1>5, <1>6, <1>7, <1>8 DEF Next

(* The four things that happen to requests: a new one is put to the host,  *)
(* one is answered, one is turned away for want of a turn.                 *)
NewAsk(r) ==
  /\ r \in Ask /\ r.request = turn[r.turn].requests + 1
  /\ turn'[r.turn].requests = r.request
  /\ \A q \in Turns : q # r.turn => turn'[q].requests = turn[q].requests
  /\ asking' = asking \cup {r} /\ told' = told

RequestsSame == \A q \in Turns : turn'[q].requests = turn[q].requests

Answer(r, answer) ==
  [n |-> r.n, turn |-> r.turn, tool |-> r.tool, request |-> r.request, answer |-> answer]

Decided(r, answer) ==
  /\ r \in asking /\ asking' = asking \ {r}
  /\ told' = told \cup {Answer(r, answer)}
  /\ answer \in Allowing =>
       \E i \in DOMAIN stream'[r.turn] :
         /\ stream'[r.turn][i].type = "permission_resolved"
         /\ stream'[r.turn][i].request = r.request
         /\ stream'[r.turn][i].phase = "allowed"
  /\ answer \in Rejecting => turn'[r.turn].denied # {} /\ stream'[r.turn] # <<>>

TurnedAway ==
  \E n, k : /\ told' = told \cup {Answer([n |-> n, turn |-> NoTurn, tool |-> k,
                                          request |-> 0], "cancelled")}
            /\ asking' = asking

(* The one event a turn goes on with is in its stream.                     *)
LEMMA SaysOne ==
  ASSUME TurnsTyped, NEW t, NEW next, NEW e, GoesOn(t, next, <<e>>)
  PROVE  /\ turn'[t] = next
         /\ \E i \in DOMAIN stream'[t] : stream'[t][i] = e
         /\ \A q \in TurnIds : q # t => turn'[q] = turn[q]
<1> DEFINE events == <<e>>
           s == stream[t]
<1>1. events \in Seq(Events) /\ s \in Seq(Events) /\ Len(events) = 1 /\ events[1] = e
  BY DEF TurnsTyped, GoesOn
<1>2. GoesOn(t, next, events)
  OBVIOUS
<1> HIDE DEF events
<1>3. /\ turn'[t] = next /\ stream'[t] = s \o events
      /\ \A q \in TurnIds : q # t => turn'[q] = turn[q]
  BY <1>2, TurnsGoOn
<1> HIDE DEF s
<1>4. Len(s) + 1 \in DOMAIN (s \o events) /\ (s \o events)[Len(s) + 1] = e
  <2>0. s \in Seq(Events) /\ events \in Seq(Events)
    BY <1>1
  <2>1. /\ Len(s) \in Nat /\ DOMAIN (s \o events) = 1..(Len(s) + Len(events))
        /\ \A i \in 1..Len(events) : (s \o events)[Len(s) + i] = events[i]
    BY <2>0, Joined
  <2>2. 1 \in 1..Len(events)
    BY <1>1
  <2>3. (s \o events)[Len(s) + 1] = events[1]
    BY <2>1, <2>2
  <2>4. Len(s) + 1 \in 1..(Len(s) + Len(events))
    BY <1>1, <2>1
  <2> QED BY <1>1, <2>1, <2>3, <2>4
<1> QED BY <1>3, <1>4

(* A step about permissions is one of three: a request under the next      *)
(* number, an answer that the stream and the turn's state bear out, or a   *)
(* refusal outside every turn.                                             *)
LEMMA AskStep ==
  ASSUME TypeOK, InOrder, LoadOk, AskSteps
  PROVE  \/ \E r : NewAsk(r)
         \/ RequestsSame /\ \E r, answer : Decided(r, answer)
         \/ RequestsSame /\ TurnedAway
<1>0. ChannelTyped /\ TurnsTyped /\ HostTyped
  BY TypeSplit
<1>1. ASSUME NEW m, ReceivePermission(m)
      PROVE  (\E r : NewAsk(r)) \/ (RequestsSame /\ TurnedAway)
  <2>1. CASE current = NoTurn
    <3>1. /\ told' = told \cup {Answer([n |-> m.n, turn |-> NoTurn, tool |-> m.tool,
                                        request |-> 0], "cancelled")}
          /\ asking' = asking /\ turn' = turn
      BY <1>1, <2>1 DEF ReceivePermission, Reply, turnVars, Answer
    <3> QED BY <3>1 DEF TurnedAway, RequestsSame
  <2>2. CASE current # NoTurn
    <3> DEFINE t == current
               state == RequestPermission(turn[t], m.tool, Absent)
               r == [n |-> m.n, turn |-> t, tool |-> m.tool,
                     request |-> state.requests, options |-> m.options]
    <3>1. /\ turn' = [turn EXCEPT ![t] = state]
          /\ state.requests = turn[t].requests + 1
          /\ asking' = asking \cup {r} /\ told' = told /\ r \in Ask
      <4>1. CASE t \in ended
        BY <1>0, <1>1, <2>2, <4>1, PermissionAskedLate
      <4>2. CASE t \notin ended
        BY <1>0, <1>1, <2>2, <4>2, PermissionAsked DEF Unsaid, GoesOn
      <4> QED BY <4>1, <4>2
    <3>2. t \in Turns /\ t \in TurnIds
      BY <1>0, <2>2 DEF TurnsTyped, TurnIds
    <3> HIDE DEF state
    <3>3. r.turn = t /\ r.request = state.requests
      OBVIOUS
    <3> HIDE DEF r
    <3>4. turn'[t] = state /\ \A q \in Turns : q # t => turn'[q] = turn[q]
      BY <1>0, <3>1, <3>2 DEF TurnsTyped, TurnIds
    <3>5. turn'[r.turn] = turn'[t]
      BY <3>3
    <3>6. NewAsk(r)
      BY <3>1, <3>3, <3>4, <3>5 DEF NewAsk
    <3> QED BY <3>6
  <2> QED BY <2>1, <2>2
<1>2. ASSUME NEW r \in asking, HostDecides(r)
      PROVE  RequestsSame /\ \E x, answer : Decided(x, answer)
  <2>1. PICK d \in {"allowed", "denied"}, scope \in {"once", "session"} :
          /\ asking' = asking \ {r}
          /\ IF DecisionStands(r.turn)
             THEN /\ turn' = [turn EXCEPT ![r.turn] = ApplyDecision(turn[r.turn], r.tool, d)]
                  /\ Emit(r.turn, <<PermissionEvent("permission_resolved", r.turn,
                               ApplyDecision(turn[r.turn], r.tool, d), r.tool, r.request, d)>>)
                  /\ Reply(r, PermissionAnswer(r.options, d, scope))
             ELSE /\ Reply(r, "cancelled")
                  /\ UNCHANGED <<turn, timeline, stream, ended>>
    BY <1>2 DEF HostDecides
  <2>2. CASE ~DecisionStands(r.turn)
    <3>1. told' = told \cup {Answer(r, "cancelled")} /\ turn' = turn
      BY <2>1, <2>2 DEF Reply, Answer
    <3>2. Decided(r, "cancelled")
      BY <2>1, <3>1 DEF Decided, Allowing, Rejecting
    <3> QED BY <3>1, <3>2 DEF RequestsSame
  <2>3. CASE DecisionStands(r.turn)
    <3> DEFINE t == r.turn
               state == ApplyDecision(turn[t], r.tool, d)
               e == PermissionEvent("permission_resolved", t, state, r.tool, r.request, d)
               events == <<e>>
               answer == PermissionAnswer(r.options, d, scope)
    <3>1. /\ turn' = [turn EXCEPT ![t] = state] /\ Emit(t, events)
          /\ told' = told \cup {Answer(r, answer)}
      BY <2>1, <2>3 DEF Reply, Answer
    <3>2. /\ Unsaid(t, state, events)
          /\ state.requests = turn[t].requests
          /\ d = "denied" => state.denied # {}
          /\ e.type = "permission_resolved" /\ e.request = r.request /\ e.phase = d
      BY <1>0, <2>3, <3>1, HostDecided
    <3>3. GoesOn(t, state, events) /\ t \in Turns
      BY <3>2 DEF Unsaid, GoesOn
    <3> HIDE DEF state, e
    <3>4. /\ turn'[t] = state
          /\ \E i \in DOMAIN stream'[t] : stream'[t][i] = e
          /\ \A q \in TurnIds : q # t => turn'[q] = turn[q]
      BY <1>0, <3>3, SaysOne
    <3>6. PICK i \in DOMAIN stream'[t] : stream'[t][i] = e
      BY <3>4
    <3>7. RequestsSame
      BY <3>2, <3>4 DEF RequestsSame, TurnIds
    <3>8. answer \in Allowing => d = "allowed"
      BY AnswerFits
    <3>9. answer \in Rejecting => d = "denied"
      BY AnswerFits
    <3> HIDE DEF answer, events, t
    <3>10. Decided(r, answer)
      <4>1. stream'[t] # <<>>
        BY <3>6
      <4> QED BY <2>1, <3>1, <3>2, <3>4, <3>6, <3>8, <3>9, <4>1 DEF Decided, t
    <3> QED BY <3>7, <3>10
  <2> QED BY <2>2, <2>3
<1> QED BY <1>1, <1>2 DEF AskSteps
-----------------------------------------------------------------------------
(* The invariant.                                                          *)
LEMMA HostStep ==
  ASSUME TypeOK, InOrder, LoadOk, [Next]_vars
  PROVE  HostTyped'
<1>0. HostTyped
  BY TypeSplit
<1>1. ProcessTyped'
  BY <1>0, ProcessStep DEF HostTyped
<1>2. asking' \subseteq Ask /\ \A r \in told' : r.turn # NoTurn => r.turn \in Turns
  <2>1. CASE ~AskSteps
    BY <1>0, <2>1, AskedElsewhere DEF HostTyped
  <2>2. CASE \E r : NewAsk(r)
    BY <1>0, <2>2 DEF HostTyped, NewAsk
  <2>3. CASE \E r, answer : Decided(r, answer)
    <3>1. PICK r, answer : Decided(r, answer)
      BY <2>3
    <3>2. r \in Ask /\ r.turn \in Turns
      BY <1>0, <3>1 DEF HostTyped, Decided, Ask
    <3> DEFINE a == Answer(r, answer)
    <3>3. a.turn = r.turn
      BY DEF Answer
    <3> HIDE DEF a
    <3>4. told' = told \cup {a} /\ asking' \subseteq asking
      BY <3>1 DEF Decided, a
    <3> QED BY <1>0, <3>2, <3>3, <3>4 DEF HostTyped
  <2>4. CASE TurnedAway
    <3>1. PICK n, k : /\ told' = told \cup {Answer([n |-> n, turn |-> NoTurn, tool |-> k,
                                                    request |-> 0], "cancelled")}
                      /\ asking' = asking
      BY <2>4 DEF TurnedAway
    <3> DEFINE a == Answer([n |-> n, turn |-> NoTurn, tool |-> k, request |-> 0], "cancelled")
    <3>2. a.turn = NoTurn
      BY DEF Answer
    <3> HIDE DEF a
    <3>3. told' = told \cup {a} /\ asking' = asking
      BY <3>1 DEF a
    <3> QED BY <1>0, <3>2, <3>3 DEF HostTyped
  <2> QED BY <2>1, <2>2, <2>3, <2>4, AskStep
<1> QED BY <1>1, <1>2 DEF HostTyped

(* Every shape of step keeps turns, streams and timeline typed, and        *)
(* forgets no denial.                                                      *)
LEMMA ShapeTyped ==
  ASSUME TurnsTyped, Shape
  PROVE  /\ turn' \in [TurnIds -> TurnState] /\ stream' \in [Turns -> Seq(Events)]
         /\ ended' \subseteq Turns /\ TimelineTyped(timeline')
         /\ \A q \in Turns : turn[q].denied \subseteq turn'[q].denied
<1>1. CASE Quiet
  BY <1>1 DEF Quiet, TurnsTyped
<1>2. CASE \E t, next, events : GoesOn(t, next, events)
  <2>1. PICK t, next, events : GoesOn(t, next, events)
    BY <1>2
  <2> QED BY <2>1, TurnsGoOn
<1>3. CASE \E t, n : Written(t, n)
  BY <1>3 DEF Written, TurnsTyped
<1>4. Quiet \/ (\E t, n : Written(t, n)) \/ \E t, next, events : GoesOn(t, next, events)
  BY DEF Shape, Unsaid, Said
<1> QED BY <1>1, <1>2, <1>3, <1>4

(* Every shape of step keeps threads and streams in step.                  *)
LEMMA ShapeKeeps ==
  ASSUME TurnsTyped, ThreadOk, CompletedOk, Past \subseteq Past', Shape
  PROVE  ThreadOk' /\ CompletedOk'
<1>1. CASE Quiet /\ AllSettle
  <2>1. ThreadOk'
    BY <1>1, ThreadQuiet
  <2>2. CompletedOk'
    BY <1>1, CompletedQuiet DEF Quiet
  <2> QED BY <2>1, <2>2
<1>2. ASSUME AllSettle, NEW t, NEW next, NEW events, Unsaid(t, next, events),
             EndsTold(t, events)
      PROVE  ThreadOk' /\ CompletedOk'
  <2>1. ThreadOk'
    BY <1>2, ThreadUnsaid
  <2>2. CompletedOk'
    BY <1>2, CompletedOn DEF Unsaid
  <2> QED BY <2>1, <2>2
<1>3. ASSUME NEW t, NEW next, NEW events, NEW n, Said(t, next, events, n)
      PROVE  ThreadOk' /\ CompletedOk'
  BY <1>3, ThreadSaid, CompletedOn DEF Said
<1>4. ASSUME NEW t, NEW n, Written(t, n)
      PROVE  ThreadOk' /\ CompletedOk'
  <2>1. ThreadOk'
    BY <1>4, ThreadWritten
  <2>2. CompletedOk'
    BY <1>4, CompletedQuiet DEF Written
  <2> QED BY <2>1, <2>2
<1> QED BY <1>1, <1>2, <1>3, <1>4 DEF Shape

(* The inductive step.                                                     *)
LEMMA InvStep ==
  ASSUME IInv, [Next]_vars
  PROVE  IInv'
<1>1. TypeOK /\ InOrder /\ WrittenOk /\ ThreadOk /\ CompletedOk /\ OneAnswer /\ LoadOk
  BY AnswerSplit DEF IInv
<1>2. ChannelTyped /\ TurnsTyped /\ HostTyped
  BY <1>1, TypeSplit
<1>3. ChannelTyped' /\ InOrder' /\ LoadOk' /\ Past \subseteq Past'
  <2>1. current \in Turns \cup {NoTurn} /\ ProcessTyped
    BY <1>2 DEF TurnsTyped, HostTyped
  <2> QED BY <1>1, <1>2, <2>1, ChannelStep DEF ChannelKept
<1>4. OneAnswer' /\ current' \in Turns \cup {NoTurn}
  <2>1. current \in Turns \cup {NoTurn}
    BY <1>2 DEF TurnsTyped
  <2> QED BY <1>1, <1>2, <2>1, AnswerStep
<1>5. Shape
  BY <1>1, ShapeStep
<1>6. TurnsTyped'
  <2>1. /\ turn' \in [TurnIds -> TurnState] /\ stream' \in [Turns -> Seq(Events)]
        /\ ended' \subseteq Turns /\ TimelineTyped(timeline')
    BY <1>2, <1>5, ShapeTyped
  <2>2. TimelineTyped(timeline)'
    BY <2>1
  <2> QED BY <1>4, <2>1, <2>2 DEF TurnsTyped, TurnIds
<1>7. HostTyped'
  BY <1>1, HostStep
<1>8. ThreadOk' /\ CompletedOk'
  BY <1>1, <1>2, <1>3, <1>5, ShapeKeeps
<1>9. TypeOK'
  <2>1. inbound' \in Seq(Inbound) /\ wrote' \in Nat
        /\ asked' \in Turns \cup {NoTurn} /\ replayed' \in Seq(Nat)
        /\ opening' \in {"loading", "answered", "bootstrapped", "flushing", "open"}
        /\ buffered' \in Seq(SessionUpdate) /\ jobs' \in Seq(ActorJob)
    BY <1>3 DEF ChannelTyped
  <2> QED BY <1>6, <1>7, <2>1
          DEF TypeOK, TurnsTyped, HostTyped, ProcessTyped, TimelineTyped, ThreadTyped, EntryOk,
              ToSet
<1>10. AnswerOk'
  BY <1>3, <1>4 DEF AnswerOk, LoadOk, OneAnswer
<1>11. WrittenOk'
  <2>1. current \in Turns \cup {NoTurn} /\ ProcessTyped
    BY <1>2 DEF TurnsTyped, HostTyped
  <2> QED BY <1>1, <1>2, <2>1, WrittenStep
<1> QED BY <1>3, <1>8, <1>9, <1>10, <1>11 DEF IInv

(* The invariant holds at the start.                                       *)
LEMMA InitOk == ASSUME Init PROVE IInv
<1>1. turn \in [TurnIds -> TurnState]
  BY DEF Init, NewTurnState, TurnState, Operation, NoOperation, Phases
<1>2. stream \in [Turns -> Seq(Events)] /\ \A t \in Turns : stream[t] = <<>>
  BY DEF Init
<1>3. /\ timeline = EmptyTimeline /\ timeline.entries = <<>> /\ timeline.history = <<>>
      /\ timeline.replay = 0 /\ DOMAIN <<>> = {}
  BY DEF Init, EmptyTimeline
<1>4. TypeOK
  BY <1>1, <1>2, <1>3, ConversationAssumption DEF Init, TypeOK, hostVars
<1>5. AnswerOk
  BY DEF Init, AnswerOk
<1>6. InOrder
  BY DEF Init, InOrder, Arriving
<1>7. WrittenOk /\ \A t : Pending(t) = {}
  BY DEF Init, WrittenOk, Pending
<1>8. ThreadOk
  <2> SUFFICES ASSUME NEW t \in Turns PROVE ThreadOf(t)
    BY DEF ThreadOk
  <2>1. stream[t] = <<>> /\ DOMAIN stream[t] = {} /\ turn[t].output = <<>> /\ t \notin ended
    BY <1>2 DEF Init, NewTurnState, TurnIds
  <2>2. Position(timeline, "assistant", t) = 0
    BY <1>3 DEF Position
  <2>3. ThreadText(t) = <<>> /\ ToSet(ThreadText(t)) = {}
    BY <2>2 DEF ThreadText, ToSet
  <2>4. /\ Texts(t) = {} /\ Chunks(t) = {} /\ Told(t, Texts(t)) = {}
        /\ Told(t, Chunks(t)) = {}
    BY <2>1 DEF Texts, Chunks, Told
  <2>5. Untold(t) = {}
    BY <2>3 DEF Untold
  <2> QED BY <1>7, <2>1, <2>3, <2>4, <2>5 DEF ThreadOf, ToSet
<1>9. CompletedOk
  BY <1>2 DEF CompletedOk
<1> QED BY <1>4, <1>5, <1>6, <1>7, <1>8, <1>9 DEF IInv

(* The inductive invariant: what the agent says stays in order from the    *)
(* connection through the bridge's buffer and the SerialActor to the       *)
(* thread; the thread of a turn has what its stream tells, and beside it   *)
(* only the text of the job between its two looks or, once the host has    *)
(* ended the turn, the one that job had (acp/authority-bridge.ts,          *)
(* handleSessionUpdate).                                                   *)
THEOREM ConversationInvariance == Spec => []IInv
<1>1. Init => IInv
  BY InitOk
<1>2. IInv /\ [Next]_vars => IInv'
  BY InvStep
<1> QED BY <1>1, <1>2, PTL DEF Spec

(* A text that is pending is that of the first job.                        *)
LEMMA PendingFirst ==
  ASSUME ChannelTyped, WrittenOk, NEW t, NEW n \in Pending(t)
  PROVE  jobs # <<>> /\ Head(jobs).stage = "written" /\ Head(jobs).update.n = n
<1>1. PICK i \in DOMAIN jobs : jobs[i].stage = "written" /\ jobs[i].update.n = n
  BY DEF Pending
<1>2. i = 1
  BY <1>1 DEF WrittenOk
<1>3. jobs # <<>>
  BY <1>1
<1>4. Head(jobs) = jobs[1]
  BY <1>3, Shorter DEF ChannelTyped
<1> QED BY <1>1, <1>2, <1>3, <1>4

(* The invariant gives the property.                                       *)
LEMMA ThreadHolds == ASSUME IInv PROVE ThreadIsStream
<1>0. TypeOK /\ WrittenOk /\ ChannelTyped
  BY TypeSplit DEF IInv
<1> SUFFICES ASSUME NEW t \in Turns
    PROVE  LET thread == ThreadText(t)
           IN  /\ \A i, j \in DOMAIN thread : i < j => thread[i] < thread[j]
               /\ \A i, j \in Chunks(t) : i < j => stream[t][i].n < stream[t][j].n
               /\ Told(t, Texts(t)) \subseteq ToSet(thread)
               /\ \A n \in ToSet(thread) \ Told(t, Texts(t)) :
                    /\ \A m \in ToSet(thread) : m <= n
                    /\ \/ t \in ended /\ ResultOf(t).type = "cancelled"
                       \/ /\ t \notin ended /\ jobs # <<>>
                          /\ Head(jobs).stage = "written" /\ Head(jobs).update.n = n
               /\ stream[t] # <<>> /\ ResultOf(t).type = "completed" =>
                    /\ ToSet(ResultOf(t).output) = Told(t, Chunks(t))
                    /\ \A i, j \in DOMAIN ResultOf(t).output :
                         i < j => ResultOf(t).output[i] < ResultOf(t).output[j]
  BY DEF ThreadIsStream
<1> DEFINE thread == ThreadText(t)
           output == turn[t].output
<1>1. /\ \A i, j \in DOMAIN thread : i < j => thread[i] < thread[j]
      /\ \A i, j \in DOMAIN output : i < j => output[i] < output[j]
      /\ \A i, j \in Chunks(t) : i < j => stream[t][i].n < stream[t][j].n
      /\ ToSet(output) = Told(t, Chunks(t))
      /\ Told(t, Texts(t)) \subseteq ToSet(thread)
      /\ \A n \in Untold(t) : \A m \in ToSet(thread) : m <= n
      /\ t \notin ended => Untold(t) \subseteq Pending(t)
      /\ t \in ended => (Untold(t) # {} => ResultOf(t).type = "cancelled")
  BY DEF IInv, ThreadOk, ThreadOf
<1>2. ASSUME stream[t] # <<>>, ResultOf(t).type = "completed"
      PROVE  ResultOf(t).output = output
  <2>1. stream[t] \in Seq(Events)
    BY <1>0 DEF TypeOK
  <2>2. Len(stream[t]) \in DOMAIN stream[t]
    BY <1>2, <2>1
  <2> QED BY <1>2, <2>2 DEF IInv, CompletedOk, ResultOf
<1>3. Untold(t) = ToSet(thread) \ Told(t, Texts(t))
  BY DEF Untold
<1> HIDE DEF thread, output
<1>4. ASSUME NEW n \in ToSet(thread) \ Told(t, Texts(t))
      PROVE  \/ t \in ended /\ ResultOf(t).type = "cancelled"
             \/ /\ t \notin ended /\ jobs # <<>>
                /\ Head(jobs).stage = "written" /\ Head(jobs).update.n = n
  <2>1. n \in Untold(t)
    BY <1>3
  <2>2. CASE t \in ended
    BY <1>1, <2>1, <2>2
  <2>3. CASE t \notin ended
    <3>1. n \in Pending(t)
      BY <1>1, <2>1, <2>3
    <3> QED BY <1>0, <2>3, <3>1, PendingFirst
  <2> QED BY <2>2, <2>3
<1>5. stream[t] # <<>> /\ ResultOf(t).type = "completed" =>
        /\ ToSet(ResultOf(t).output) = Told(t, Chunks(t))
        /\ \A i, j \in DOMAIN ResultOf(t).output :
             i < j => ResultOf(t).output[i] < ResultOf(t).output[j]
  BY <1>1, <1>2
<1> QED BY <1>1, <1>3, <1>4, <1>5 DEF thread

(* The thread of a turn and the events of its stream tell the same story:  *)
(* every text once and in the order the agent wrote it, however long the   *)
(* reading of a terminal holds an update up.  A text the thread has and    *)
(* the stream has not is the last, between the two looks of its job or     *)
(* left so when the host ended the turn; and the output of a completed     *)
(* turn is what its stream told (handleSessionUpdate).                     *)
THEOREM ThreadIsStreamHolds == Spec => []ThreadIsStream
<1>1. IInv => ThreadIsStream
  BY ThreadHolds
<1> QED BY <1>1, ConversationInvariance, PTL

(* No step touches the text entries of a turn that has ended.              *)
LEMMA FrozenStep ==
  ASSUME IInv, [Next]_vars, NEW t \in ended
  PROVE  /\ TextEntries(t)' = TextEntries(t)
         /\ \A i \in TextEntries(t) : timeline'.entries[i] = timeline.entries[i]
<1>1. TypeOK /\ InOrder /\ WrittenOk /\ ThreadOk /\ OneAnswer /\ LoadOk
  BY AnswerSplit DEF IInv
<1>2. TurnsTyped /\ t \in Turns
  BY <1>1, TypeSplit DEF TurnsTyped
<1>3. Shape
  BY <1>1, ShapeStep
<1>4. \/ Quiet \/ (\E q, n : Written(q, n))
      \/ \E q, next, events : GoesOn(q, next, events)
  BY <1>3 DEF Shape, Unsaid, Said
<1>5. Frozen(timeline, timeline', t)
  BY <1>2, <1>4 DEF Quiet, Written, GoesOn
<1>6. TextEntries(t) = {i \in DOMAIN timeline.entries : IsText(timeline.entries[i], t)}
  BY DEF TextEntries, IsText
<1>7. TextEntries(t)' = {i \in DOMAIN timeline'.entries : IsText(timeline'.entries[i], t)}
  BY DEF TextEntries, IsText
<1> QED BY <1>5, <1>6, <1>7 DEF Frozen
-----------------------------------------------------------------------------
(* Requests are counted when they are put to the host, and only then.      *)
LEMMA RequestsOf ==
  ASSUME TurnsTyped, NEW t \in TurnIds, NEW next, turn' = [turn EXCEPT ![t] = next],
         next.requests = turn[t].requests
  PROVE  RequestsSame
<1>1. turn'[t] = next /\ \A q \in TurnIds : q # t => turn'[q] = turn[q]
  BY DEF TurnsTyped
<1>2. ASSUME NEW q \in Turns PROVE turn'[q].requests = turn[q].requests
  BY <1>1 DEF TurnIds
<1> QED BY <1>2 DEF RequestsSame

(* An update counts no request.                                            *)
LEMMA TellRequests ==
  ASSUME ChannelTyped, TurnsTyped, TellHost
  PROVE  RequestsSame
<1>1. jobs # <<>> /\ 1 \in DOMAIN jobs /\ Head(jobs) = jobs[1] /\ jobs[1] \in ActorJob
  BY Shorter DEF TellHost, ChannelTyped
<1> DEFINE t    == jobs[1].turn
           u    == jobs[1].update
           id   == TurnId(t)
           step == MapUpdate(id, turn[id], u, ModeDenies)
<1>2. turn' = turn \/ turn' = [turn EXCEPT ![id] = step.state]
  BY <1>1 DEF TellHost, turnVars
<1>3. u \in SessionUpdate /\ t \in Turns \cup {NoTurn}
  BY <1>1 DEF ActorJob
<1>4. id \in TurnIds /\ turn[id] \in TurnState
  BY <1>3 DEF TurnsTyped, TurnIds, TurnId
<1>5. Mapped(turn[id], u, step)
  BY <1>3, <1>4, UpdateMapped, ConversationAssumption
<1>6. step.state.requests = turn[id].requests
  BY <1>5 DEF Mapped
<1> HIDE DEF step, id
<1> QED BY <1>2, <1>4, <1>6, RequestsOf DEF RequestsSame

(* No step but a permission request changes the number of requests.        *)
LEMMA RequestsStep ==
  ASSUME TypeOK, InOrder, LoadOk, OneAnswer, WrittenOk, ThreadOk, ~AskSteps, [Next]_vars
  PROVE  RequestsSame
<1>0. ChannelTyped /\ TurnsTyped
  BY TypeSplit
<1>1. ASSUME turn' = turn PROVE RequestsSame
  BY <1>1 DEF RequestsSame
<1>2. CASE \/ AgentUpdates \/ AgentAsks \/ AgentAnswers \/ AgentLoads
           \/ SetSessionUpdateHandler \/ ReadOutput \/ UNCHANGED vars
           \/ \E x \in Terminals : Exits(x)
           \/ \E op \in TerminalOps, x \in Terminals : CallTerminal(op, x)
           \/ SealHistoryReplay \/ DrainHistory \/ TerminalReturns
           \/ \E t \in Turns : StartTurn(t)
  BY <1>1, <1>2 DEF AgentUpdates, AgentAsks, AgentAnswers, AgentLoads, turnVars,
     SetSessionUpdateHandler, ReadOutput, vars, Exits, CallTerminal, SealHistoryReplay,
     DrainHistory, TerminalReturns, StartTurn
<1>3. CASE Deliver
  <2>1. PICK m : ReceiveUpdate(m) \/ ReceiveLoaded(m) \/ ReceiveAnswer(m)
    BY <1>3 DEF Deliver, AskSteps
  <2>2. CASE ReceiveUpdate(m) \/ ReceiveLoaded(m)
    BY <1>1, <2>2 DEF ReceiveUpdate, ReceiveLoaded, turnVars
  <2>3. CASE ReceiveAnswer(m)
    <3>1. current \in Turns
      <4>1. 1 \in DOMAIN inbound /\ inbound[1].type = "answer"
        BY <1>0, <2>3, MessageRead DEF ReceiveAnswer
      <4> QED BY <1>0, <4>1 DEF OneAnswer, TurnsTyped
    <3>2. CASE current \in ended \/ m.stop = "error"
      BY <1>1, <2>3, <3>2 DEF ReceiveAnswer
    <3>3. CASE current \notin ended /\ m.stop # "error"
      <4>1. Answered(current, m.stop)
        BY <2>3, <3>3 DEF ReceiveAnswer
      <4> DEFINE next == FinalizePrompt(current, turn[current], m.stop).state
      <4>2. turn' = [turn EXCEPT ![current] = next] /\ next.requests = turn[current].requests
        <5>1. ActorRests
          BY <2>3 DEF ReceiveAnswer, Receive
        <5>2. Untold(current) = {}
          BY <1>0, <3>1, <3>3, <5>1, RestsTold
        <5> QED BY <1>0, <3>1, <3>3, <4>1, <5>2, TurnAnswered
      <4> HIDE DEF next
      <4> QED BY <1>0, <3>1, <4>2, RequestsOf DEF TurnIds
    <3> QED BY <3>2, <3>3
  <2> QED BY <2>1, <2>2, <2>3
<1>4. CASE RunJob \/ EndJob
  BY <1>1, <1>4 DEF RunJob, EndJob, turnVars
<1>5. CASE TellHost
  BY <1>0, <1>5, TellRequests
<1>6. CASE EndEarly
  <2> DEFINE s == turn[current]
  <2>1. current # NoTurn /\ (turn' = [turn EXCEPT ![current].timedOut = TRUE] \/ turn' = turn)
    BY <1>6 DEF EndEarly
  <2>2. current \in TurnIds /\ s \in TurnState
    BY <1>0, <2>1 DEF TurnsTyped, TurnIds
  <2> DEFINE next == [s EXCEPT !.timedOut = TRUE]
  <2>3. next.requests = s.requests
    BY <2>2 DEF TurnState
  <2>4. turn' = [turn EXCEPT ![current] = next] \/ turn' = turn
    BY <2>1
  <2> HIDE DEF next
  <2> QED BY <1>0, <1>1, <2>2, <2>3, <2>4, RequestsOf
<1> QED BY <1>2, <1>3, <1>4, <1>5, <1>6 DEF Next, AskSteps

(* Streams only grow, and so does what a turn was denied.                  *)
Grows ==
  \A q \in Turns :
    /\ turn[q].denied \subseteq turn'[q].denied
    /\ \A i \in DOMAIN stream[q] : i \in DOMAIN stream'[q] /\ stream'[q][i] = stream[q][i]
    /\ stream[q] # <<>> => stream'[q] # <<>>

(* Every shape of step lets them grow.                                     *)
LEMMA ShapeGrows ==
  ASSUME TurnsTyped, Shape
  PROVE  Grows
<1>1. CASE Quiet
  BY <1>1 DEF Quiet, Grows
<1>2. ASSUME NEW t, NEW next, NEW events, GoesOn(t, next, events)
      PROVE  Grows
  <2>1. /\ t \in Turns /\ stream[t] \in Seq(Events) /\ events \in Seq(Events)
    BY <1>2 DEF GoesOn, TurnsTyped
  <2>2. /\ stream'[t] = stream[t] \o events
        /\ \A q \in Turns : q # t => stream'[q] = stream[q]
        /\ \A q \in Turns : turn[q].denied \subseteq turn'[q].denied
    BY <1>2, TurnsGoOn
  <2> DEFINE s == stream[t]
  <2>3. \A i \in DOMAIN s : i \in DOMAIN (s \o events) /\ (s \o events)[i] = s[i]
    <3> HIDE DEF s
    <3> QED BY <2>1, Joined DEF s
  <2>4. s # <<>> => (s \o events) # <<>>
    BY <2>1
  <2> QED BY <2>1, <2>2, <2>3, <2>4 DEF Grows
<1>3. ASSUME NEW t, NEW n, Written(t, n) PROVE Grows
  BY <1>3 DEF Written, Grows
<1> QED BY <1>1, <1>2, <1>3 DEF Shape, Unsaid, Said
-----------------------------------------------------------------------------
(* Requests keep their one record, and the agent is told the truth.        *)
LEMMA AnswerIs ==
  ASSUME NEW r, NEW answer
  PROVE  /\ Answer(r, answer).turn = r.turn /\ Answer(r, answer).request = r.request
         /\ Answer(r, answer).answer = answer
BY DEF Answer

(* Types of the numbers and turns of requests.                             *)
LEMMA Counts ==
  ASSUME TypeOK
  PROVE  /\ \A q \in Turns : turn[q].requests \in Nat
         /\ \A r \in asking : r.turn \in Turns /\ r.request \in Nat
         /\ \A r \in told : r.turn # NoTurn => r.turn \in Turns
         /\ NoTurn \notin Turns
BY ConversationAssumption DEF TypeOK, TurnState, TurnIds, Ask

(* Records of requests, with none put or answered.                         *)
LEMMA AskedSame ==
  ASSUME TypeOK, AskedOk, RequestsSame, UNCHANGED <<asking, told>>
  PROVE  AskedOk'
<1>1. \A r \in asking : turn'[r.turn].requests = turn[r.turn].requests
  BY Counts DEF RequestsSame
<1>2. \A r \in told : r.turn # NoTurn => turn'[r.turn].requests = turn[r.turn].requests
  BY Counts DEF RequestsSame
<1> QED BY <1>1, <1>2 DEF AskedOk, RequestsSame

(* A new request takes a number none had.                                  *)
LEMMA AskedNew ==
  ASSUME TypeOK, AskedOk, NEW r, NewAsk(r)
  PROVE  AskedOk'
<1> DEFINE t == r.turn
           k == turn[t].requests
<1>1. /\ t \in Turns /\ k \in Nat /\ r.request = k + 1 /\ turn'[t].requests = k + 1
      /\ asking' = asking \cup {r} /\ told' = told
      /\ \A q \in Turns : q # t => turn'[q].requests = turn[q].requests
  BY Counts DEF NewAsk, Ask
<1>2. \A q \in asking : q.turn = t => q.request \in 1..k
  BY DEF AskedOk
<1>3. \A q \in told : q.turn = t => q.request \in 1..k
  BY <1>1, Counts DEF AskedOk
<1>4. \A q \in asking' : q.request \in 1..turn'[q.turn].requests
  <2> SUFFICES ASSUME NEW q \in asking' PROVE q.request \in 1..turn'[q.turn].requests
    OBVIOUS
  <2>1. CASE q = r
    BY <1>1, <2>1
  <2>2. CASE q \in asking /\ q.turn = t
    BY <1>1, <1>2, <2>2
  <2>3. CASE q \in asking /\ q.turn # t
    BY <1>1, <2>3, Counts DEF AskedOk
  <2> QED BY <1>1, <2>1, <2>2, <2>3
<1>5. \A q \in told' : q.turn # NoTurn => q.request \in 1..turn'[q.turn].requests
  <2> SUFFICES ASSUME NEW q \in told', q.turn # NoTurn
               PROVE  q.request \in 1..turn'[q.turn].requests
    OBVIOUS
  <2>1. CASE q.turn = t
    BY <1>1, <1>3, <2>1
  <2>2. CASE q.turn # t
    BY <1>1, <2>2, Counts DEF AskedOk
  <2> QED BY <2>1, <2>2
<1>6. \A p, q \in asking' : p.turn = q.turn /\ p.request = q.request => p = q
  <2>1. \A q \in asking : q.turn = t => q.request # r.request
    BY <1>1, <1>2
  <2> HIDE DEF t, k
  <2> QED BY <1>1, <2>1 DEF AskedOk, t
<1>7. \A p, q \in told' :
        p.turn = q.turn /\ p.turn # NoTurn /\ p.request = q.request => p = q
  BY <1>1 DEF AskedOk
<1>8. \A p \in asking', q \in told' : p.turn = q.turn => p.request # q.request
  <2>1. \A q \in told : q.turn = t => q.request # r.request
    BY <1>1, <1>3
  <2> HIDE DEF t, k
  <2> QED BY <1>1, <2>1 DEF AskedOk, t
<1>9. ASSUME NEW q \in Turns, NEW i \in 1..turn'[q].requests
      PROVE  \E p \in asking' \cup told' : p.turn = q /\ p.request = i
  <2>1. CASE q = t /\ i = k + 1
    BY <1>1, <2>1
  <2>2. CASE i \in 1..turn[q].requests
    BY <1>1, <2>2 DEF AskedOk
  <2>3. (q = t /\ i = k + 1) \/ i \in 1..turn[q].requests
    BY <1>1
  <2> QED BY <2>1, <2>2, <2>3
<1> QED BY <1>4, <1>5, <1>6, <1>7, <1>8, <1>9 DEF AskedOk

(* A request that is answered goes from one side to the other.             *)
LEMMA AskedDecided ==
  ASSUME TypeOK, AskedOk, RequestsSame, NEW r, NEW answer, Decided(r, answer)
  PROVE  AskedOk'
<1> DEFINE a == Answer(r, answer)
<1>1. a.turn = r.turn /\ a.request = r.request
  BY AnswerIs
<1> HIDE DEF a
<1>2. r \in asking /\ asking' = asking \ {r} /\ told' = told \cup {a} /\ r.turn \in Turns
  BY Counts DEF Decided, a
<1>3. /\ \A p \in asking : turn'[p.turn].requests = turn[p.turn].requests
      /\ \A p \in told : p.turn # NoTurn => turn'[p.turn].requests = turn[p.turn].requests
  BY Counts DEF RequestsSame
<1>4. \A p \in asking' : p.request \in 1..turn'[p.turn].requests
  BY <1>2, <1>3 DEF AskedOk
<1>5. \A p \in told' : p.turn # NoTurn => p.request \in 1..turn'[p.turn].requests
  BY <1>1, <1>2, <1>3 DEF AskedOk
<1>6. \A p, q \in asking' : p.turn = q.turn /\ p.request = q.request => p = q
  BY <1>2 DEF AskedOk
<1>7. \A q \in told : q.turn = r.turn => q.request # r.request
  BY <1>2 DEF AskedOk
<1>8. \A p, q \in told' :
        p.turn = q.turn /\ p.turn # NoTurn /\ p.request = q.request => p = q
  BY <1>1, <1>2, <1>7 DEF AskedOk
<1>9. \A p \in asking', q \in told' : p.turn = q.turn => p.request # q.request
  BY <1>1, <1>2 DEF AskedOk
<1>10. ASSUME NEW q \in Turns, NEW i \in 1..turn'[q].requests
       PROVE  \E p \in asking' \cup told' : p.turn = q /\ p.request = i
  <2>1. i \in 1..turn[q].requests
    BY <1>10 DEF RequestsSame
  <2>2. PICK p \in asking \cup told : p.turn = q /\ p.request = i
    BY <2>1 DEF AskedOk
  <2>3. CASE p = r
    BY <1>1, <1>2, <2>2, <2>3
  <2>4. CASE p # r
    BY <1>2, <2>2, <2>4
  <2> QED BY <2>3, <2>4
<1> QED BY <1>4, <1>5, <1>6, <1>8, <1>9, <1>10 DEF AskedOk

(* A request outside every turn takes no number.                           *)
LEMMA AskedTurnedAway ==
  ASSUME TypeOK, AskedOk, RequestsSame, TurnedAway
  PROVE  AskedOk'
<1>1. PICK n, k : /\ told' = told \cup {Answer([n |-> n, turn |-> NoTurn, tool |-> k,
                                                request |-> 0], "cancelled")}
                  /\ asking' = asking
  BY DEF TurnedAway
<1> DEFINE a == Answer([n |-> n, turn |-> NoTurn, tool |-> k, request |-> 0], "cancelled")
<1>2. a.turn = NoTurn
  BY DEF Answer
<1> HIDE DEF a
<1>3. told' = told \cup {a} /\ asking' = asking
  BY <1>1 DEF a
<1>4. /\ \A p \in asking : turn'[p.turn].requests = turn[p.turn].requests
      /\ \A p \in told : p.turn # NoTurn => turn'[p.turn].requests = turn[p.turn].requests
      /\ \A p \in asking : p.turn # NoTurn
  BY Counts DEF RequestsSame
<1>5. /\ \A p \in asking' : p.request \in 1..turn'[p.turn].requests
      /\ \A p \in told' : p.turn # NoTurn => p.request \in 1..turn'[p.turn].requests
  BY <1>2, <1>3, <1>4 DEF AskedOk
<1>6. /\ \A p, q \in asking' : p.turn = q.turn /\ p.request = q.request => p = q
      /\ \A p, q \in told' :
           p.turn = q.turn /\ p.turn # NoTurn /\ p.request = q.request => p = q
  BY <1>2, <1>3 DEF AskedOk
<1>7. \A p \in asking', q \in told' : p.turn = q.turn => p.request # q.request
  BY <1>2, <1>3, <1>4 DEF AskedOk
<1>8. ASSUME NEW q \in Turns, NEW i \in 1..turn'[q].requests
      PROVE  \E p \in asking' \cup told' : p.turn = q /\ p.request = i
  <2>1. i \in 1..turn[q].requests
    BY <1>8 DEF RequestsSame
  <2> QED BY <1>3, <2>1 DEF AskedOk
<1> QED BY <1>5, <1>6, <1>7, <1>8 DEF AskedOk
-----------------------------------------------------------------------------
(* What one answer promises.                                               *)
Truthful(r) ==
  /\ r.answer \in Allowing => r.turn # NoTurn /\ Resolved(r)
  /\ r.answer \in Rejecting =>
       r.turn # NoTurn /\ turn[r.turn].denied # {} /\ stream[r.turn] # <<>>

(* What the agent was told stays true: streams and denials only grow.      *)
LEMMA OldReplies ==
  ASSUME TypeOK, RepliesOk, Grows, NEW r \in told
  PROVE  Truthful(r)'
<1>1. Truthful(r)
  BY DEF RepliesOk, Truthful
<1>2. CASE r.turn = NoTurn
  BY <1>1, <1>2 DEF Truthful
<1>3. CASE r.turn # NoTurn
  <2>1. r.turn \in Turns
    BY <1>3, Counts
  <2>2. Resolved(r) => Resolved(r)'
    BY <2>1 DEF Resolved, Grows
  <2>3. /\ turn[r.turn].denied # {} => turn'[r.turn].denied # {}
        /\ stream[r.turn] # <<>> => stream'[r.turn] # <<>>
    BY <2>1 DEF Grows
  <2> QED BY <1>1, <1>3, <2>2, <2>3 DEF Truthful
<1> QED BY <1>2, <1>3

(* Answers, with none given.                                               *)
LEMMA RepliesSame ==
  ASSUME TypeOK, RepliesOk, Grows, told' = told
  PROVE  RepliesOk'
BY OldReplies DEF RepliesOk, Truthful

(* The host's decision is in the stream before the agent is told.          *)
LEMMA RepliesDecided ==
  ASSUME TypeOK, RepliesOk, Grows, NEW r, NEW answer, Decided(r, answer)
  PROVE  RepliesOk'
<1> DEFINE a == Answer(r, answer)
<1>1. a.turn = r.turn /\ a.request = r.request /\ a.answer = answer
  BY AnswerIs
<1> HIDE DEF a
<1>2. told' = told \cup {a} /\ r.turn # NoTurn
  BY Counts DEF Decided, a
<1>3. Truthful(a)'
  BY <1>1, <1>2 DEF Truthful, Resolved, Decided
<1>4. \A q \in told' : Truthful(q)'
  BY <1>2, <1>3, OldReplies
<1> QED BY <1>4 DEF RepliesOk, Truthful

(* A refusal outside every turn promises nothing.                          *)
LEMMA RepliesTurnedAway ==
  ASSUME TypeOK, RepliesOk, Grows, TurnedAway
  PROVE  RepliesOk'
<1>1. PICK n, k : told' = told \cup {Answer([n |-> n, turn |-> NoTurn, tool |-> k,
                                             request |-> 0], "cancelled")}
  BY DEF TurnedAway
<1> DEFINE a == Answer([n |-> n, turn |-> NoTurn, tool |-> k, request |-> 0], "cancelled")
<1>2. a.answer = "cancelled"
  BY DEF Answer
<1> HIDE DEF a
<1>3. told' = told \cup {a}
  BY <1>1 DEF a
<1>4. Truthful(a)'
  BY <1>2 DEF Truthful, Allowing, Rejecting
<1>5. \A q \in told' : Truthful(q)'
  BY <1>3, <1>4, OldReplies
<1> QED BY <1>5 DEF RepliesOk, Truthful

(* The inductive step with requests and answers.                           *)
LEMMA DecisionStep ==
  ASSUME DecisionInv, [Next]_vars
  PROVE  DecisionInv'
<1>1. IInv /\ AskedOk /\ RepliesOk
  BY DEF DecisionInv
<1>2. TypeOK /\ InOrder /\ WrittenOk /\ ThreadOk /\ OneAnswer /\ LoadOk
  BY <1>1, AnswerSplit DEF IInv
<1>3. Grows
  <2>1. Shape
    BY <1>2, ShapeStep
  <2> QED BY <1>2, <2>1, TypeSplit, ShapeGrows
<1>4. IInv'
  BY <1>1, InvStep
<1>5. AskedOk' /\ RepliesOk'
  <2>1. CASE ~AskSteps
    BY <1>1, <1>2, <1>3, <2>1, RequestsStep, AskedElsewhere, AskedSame, RepliesSame
  <2>2. CASE AskSteps
    <3>1. CASE \E r : NewAsk(r)
      BY <1>1, <1>2, <1>3, <3>1, AskedNew, RepliesSame DEF NewAsk
    <3>2. CASE RequestsSame /\ \E r, answer : Decided(r, answer)
      BY <1>1, <1>2, <1>3, <3>2, AskedDecided, RepliesDecided
    <3>3. CASE RequestsSame /\ TurnedAway
      BY <1>1, <1>2, <1>3, <3>3, AskedTurnedAway, RepliesTurnedAway
    <3> QED BY <1>2, <2>2, <3>1, <3>2, <3>3, AskStep
  <2> QED BY <2>1, <2>2
<1> QED BY <1>4, <1>5 DEF DecisionInv

(* It holds at the start.                                                  *)
LEMMA DecisionInit == ASSUME Init PROVE DecisionInv
<1>1. \A t \in Turns : turn[t].requests = 0
  BY DEF Init, NewTurnState, TurnIds
<1>2. AskedOk /\ RepliesOk
  BY <1>1 DEF Init, AskedOk, RepliesOk
<1> QED BY <1>2, InitOk DEF DecisionInv

(* The inductive invariant of the permission requests: each has one        *)
(* record, before the host or among the answers, and every answer is borne *)
(* out by the stream and the turn's denials (handlePermissionRequest).     *)
THEOREM DecisionInvariance == Spec => []DecisionInv
<1>1. Init => DecisionInv
  BY DecisionInit
<1>2. DecisionInv /\ [Next]_vars => DecisionInv'
  BY DecisionStep
<1> QED BY <1>1, <1>2, PTL DEF Spec

(* The invariant gives the property.                                       *)
LEMMA DecisionsHold == ASSUME DecisionInv PROVE DecisionsKept
<1>1. TypeOK /\ AskedOk /\ RepliesOk /\ CompletedOk
  BY DEF DecisionInv, IInv
<1>2. ASSUME NEW t \in Turns, NEW i \in 1..turn[t].requests
      PROVE  Cardinality({r \in asking : r.turn = t /\ r.request = i})
               + Cardinality({r \in told : r.turn = t /\ r.request = i}) = 1
  <2> DEFINE A == {r \in asking : r.turn = t /\ r.request = i}
             T == {r \in told : r.turn = t /\ r.request = i}
  <2>1. t # NoTurn
    BY <1>1, Counts
  <2>2. PICK r \in asking \cup told : r.turn = t /\ r.request = i
    BY <1>1 DEF AskedOk
  <2>3. CASE r \in asking
    <3>1. A = {r} /\ T = {}
      BY <1>1, <2>2, <2>3 DEF AskedOk
    <3> HIDE DEF A, T
    <3>2. Cardinality(A) = 1 /\ Cardinality(T) = 0
      BY <3>1, FS_Singleton, FS_EmptySet
    <3>3. Cardinality(A) + Cardinality(T) = 1
      BY <3>2
    <3> QED BY <3>3 DEF A, T
  <2>4. CASE r \in told
    <3>1. A = {} /\ T = {r}
      BY <1>1, <2>1, <2>2, <2>4 DEF AskedOk
    <3> HIDE DEF A, T
    <3>2. Cardinality(A) = 0 /\ Cardinality(T) = 1
      BY <3>1, FS_Singleton, FS_EmptySet
    <3>3. Cardinality(A) + Cardinality(T) = 1
      BY <3>2
    <3> QED BY <3>3 DEF A, T
  <2> QED BY <2>2, <2>3, <2>4
<1>3. ASSUME NEW r \in told, r.answer \in Rejecting
      PROVE  ResultOf(r.turn).type # "completed"
  <2>1. r.turn # NoTurn /\ turn[r.turn].denied # {} /\ stream[r.turn] # <<>>
    BY <1>1, <1>3 DEF RepliesOk
  <2>2. r.turn \in Turns
    BY <1>1, <2>1, Counts
  <2>3. stream[r.turn] \in Seq(Events)
    BY <1>1, <2>2 DEF TypeOK
  <2>4. Len(stream[r.turn]) \in DOMAIN stream[r.turn]
    BY <2>1, <2>3
  <2> QED BY <1>1, <2>1, <2>2, <2>4 DEF CompletedOk, ResultOf
<1>4. ASSUME NEW r \in told, r.answer \in Allowing
      PROVE  \E i \in DOMAIN stream[r.turn] :
               /\ stream[r.turn][i].type = "permission_resolved"
               /\ stream[r.turn][i].request = r.request
               /\ stream[r.turn][i].phase = "allowed"
  BY <1>1, <1>4 DEF RepliesOk, Resolved
<1> QED BY <1>2, <1>3, <1>4 DEF DecisionsKept

(* Every permission request of a turn is before the host or answered,      *)
(* never both; the agent is told to go ahead only if the turn's stream     *)
(* shows that request allowed, and a turn whose agent was told "rejected"  *)
(* never ends as completed.                                                *)
THEOREM DecisionsKeptHolds == Spec => []DecisionsKept
<1>1. DecisionInv => DecisionsKept
  BY DecisionsHold
<1> QED BY <1>1, DecisionInvariance, PTL
-----------------------------------------------------------------------------
(* The objects of the tool calls.  exited is the set of terminals whose    *)
(* process has ended.                                                      *)
IsTool(tl, i) == i \in DOMAIN tl.entries /\ tl.entries[i].kind = "tool"

Snapshots(tl, exited) ==
  \A x \in DOMAIN tl.terminals :
    /\ DOMAIN NewTerminal \subseteq DOMAIN tl.terminals[x]
    /\ tl.terminals[x].status = "completed" => x \in exited

ItemsTrue(content, exited) ==
  \A x \in DOMAIN content :
    /\ content[x].kind = KindOf(x)
    /\ content[x].exit = "code" => x \in exited

ShownBy(tl, j, tool, x, kind) ==
  /\ IsTool(tl, j) /\ tl.entries[j].key = tool
  /\ x \in Of(tl.entries[j].content, kind)

Owned(tl, i) ==
  /\ \A x \in Of(tl.entries[i].content, "terminal") :
       /\ x \in DOMAIN tl.terminals
       /\ \E j : ShownBy(tl, j, tl.terminals[x].tool, x, "terminal")
  /\ \A x \in Of(tl.entries[i].content, "diff") :
       /\ x \in DOMAIN tl.diffs
       /\ \E j : /\ ShownBy(tl, j, tl.diffs[x].tool, x, "diff")
                 /\ tl.entries[j].content[x].n = tl.diffs[x].n

ObjectsIn(tl, exited) ==
  /\ Snapshots(tl, exited)
  /\ \A i : IsTool(tl, i) => ItemsTrue(tl.entries[i].content, exited) /\ Owned(tl, i)

(* Nothing happens to the tool calls and their objects.                    *)
SameObjects(tl, after) ==
  /\ after.terminals = tl.terminals /\ after.diffs = tl.diffs
  /\ \A i : IsTool(tl, i) \/ IsTool(after, i) =>
       IsTool(tl, i) /\ IsTool(after, i) /\ after.entries[i] = tl.entries[i]

(* Then what held of them holds.                                           *)
LEMMA ObjectsSame ==
  ASSUME NEW tl, NEW after, NEW exited, ObjectsIn(tl, exited), SameObjects(tl, after)
  PROVE  ObjectsIn(after, exited)
<1>1. Snapshots(after, exited)
  BY DEF ObjectsIn, Snapshots, SameObjects
<1>2. ASSUME NEW i, IsTool(after, i) PROVE ItemsTrue(after.entries[i].content, exited)
  BY <1>2 DEF ObjectsIn, SameObjects
<1>3. ASSUME NEW j, NEW tool, NEW x, NEW kind, ShownBy(tl, j, tool, x, kind)
      PROVE  ShownBy(after, j, tool, x, kind) /\ after.entries[j] = tl.entries[j]
  BY <1>3 DEF ShownBy, SameObjects
<1>4. ASSUME NEW i, IsTool(after, i) PROVE Owned(after, i)
  <2>1. Owned(tl, i) /\ after.entries[i] = tl.entries[i]
    BY <1>4 DEF ObjectsIn, SameObjects
  <2>2. after.terminals = tl.terminals /\ after.diffs = tl.diffs
    BY DEF SameObjects
  <2>3. ASSUME NEW x \in Of(after.entries[i].content, "terminal")
        PROVE  x \in DOMAIN after.terminals
                 /\ \E j : ShownBy(after, j, after.terminals[x].tool, x, "terminal")
    <3>1. PICK j : ShownBy(tl, j, tl.terminals[x].tool, x, "terminal")
      BY <2>1 DEF Owned
    <3>2. ShownBy(after, j, after.terminals[x].tool, x, "terminal")
      BY <1>3, <2>2, <3>1
    <3> QED BY <2>1, <2>2, <3>2 DEF Owned
  <2>4. ASSUME NEW x \in Of(after.entries[i].content, "diff")
        PROVE  x \in DOMAIN after.diffs
                 /\ \E j : /\ ShownBy(after, j, after.diffs[x].tool, x, "diff")
                           /\ after.entries[j].content[x].n = after.diffs[x].n
    <3>1. PICK j : /\ ShownBy(tl, j, tl.diffs[x].tool, x, "diff")
                   /\ tl.entries[j].content[x].n = tl.diffs[x].n
      BY <2>1 DEF Owned
    <3>2. ShownBy(after, j, after.diffs[x].tool, x, "diff") /\ after.entries[j] = tl.entries[j]
      BY <1>3, <2>2, <3>1
    <3>3. after.entries[j].content[x].n = after.diffs[x].n
      BY <2>2, <3>1, <3>2
    <3>4. x \in DOMAIN after.diffs
      BY <2>1, <2>2 DEF Owned
    <3> QED BY <3>2, <3>3, <3>4
  <2> QED BY <2>3, <2>4 DEF Owned
<1> QED BY <1>1, <1>2, <1>4 DEF ObjectsIn

(* Two such steps together are one.                                        *)
LEMMA SameTwice ==
  ASSUME NEW a, NEW b, NEW c, SameObjects(a, b), SameObjects(b, c)
  PROVE  SameObjects(a, c)
BY DEF SameObjects

(* Terminals that exit make nothing untrue.                                *)
LEMMA ObjectsLater ==
  ASSUME NEW tl, NEW a, NEW b, ObjectsIn(tl, a), a \subseteq b
  PROVE  ObjectsIn(tl, b)
BY DEF ObjectsIn, Snapshots, ItemsTrue

(* An entry of another kind is added.                                      *)
LEMMA OtherAdded ==
  ASSUME NEW tl, ThreadTyped(tl), NEW e, e.kind # "tool"
  PROVE  SameObjects(tl, AddEntry(tl, e))
<1> DEFINE after == AddEntry(tl, e)
<1>1. /\ after.entries = Append(tl.entries, e)
      /\ after.terminals = tl.terminals /\ after.diffs = tl.diffs
  BY FieldsOfTimeline DEF AddEntry, ThreadTyped
<1> HIDE DEF after
<1>2. /\ DOMAIN tl.entries = 1..Len(tl.entries) /\ Len(tl.entries) \in Nat
      /\ DOMAIN after.entries = 1..(Len(tl.entries) + 1)
      /\ \A i \in 1..Len(tl.entries) : after.entries[i] = tl.entries[i]
      /\ after.entries[Len(tl.entries) + 1] = e
  BY <1>1, AppendAny DEF ThreadTyped
<1>3. SameObjects(tl, after)
  BY <1>1, <1>2 DEF SameObjects, IsTool
<1> QED BY <1>3 DEF after

(* An entry of another kind is changed, its kind is not.                   *)
LEMMA OtherChanged ==
  ASSUME NEW tl, ThreadTyped(tl), NEW p \in DOMAIN tl.entries, NEW e,
         e.kind # "tool", tl.entries[p].kind # "tool"
  PROVE  SameObjects(tl, ChangeEntry(tl, p, e))
<1> DEFINE after == ChangeEntry(tl, p, e)
<1>1. /\ after.entries = [tl.entries EXCEPT ![p] = e]
      /\ after.terminals = tl.terminals /\ after.diffs = tl.diffs
  BY FieldsOfTimeline DEF ChangeEntry, ThreadTyped
<1> HIDE DEF after
<1>2. /\ DOMAIN after.entries = DOMAIN tl.entries /\ after.entries[p] = e
      /\ \A i \in DOMAIN tl.entries : i # p => after.entries[i] = tl.entries[i]
  BY <1>1
<1>3. SameObjects(tl, after)
  BY <1>1, <1>2 DEF SameObjects, IsTool
<1> QED BY <1>3 DEF after

(* A user's message touches no tool call.                                  *)
LEMMA UserApart ==
  ASSUME NEW tl, ThreadTyped(tl), NEW t, NEW n
  PROVE  SameObjects(tl, AddUser(tl, t, n))
<1>1. Message("user", t, <<n>>, "sent").kind # "tool"
  BY DEF Message
<1> QED BY <1>1, OtherAdded DEF AddUser

(* A text or a thought touches no tool call.                               *)
LEMMA TextApart ==
  ASSUME NEW tl, ThreadTyped(tl), NEW kind \in {"assistant", "thought"}, NEW t, NEW n
  PROVE  SameObjects(tl, UpsertText(tl, kind, t, n))
<1> DEFINE p == Position(tl, kind, t)
<1>1. CASE p = 0
  <2> DEFINE e == Message(kind, t, <<n>>, "streaming")
  <2>1. e.kind # "tool"
    BY DEF Message
  <2>2. UpsertText(tl, kind, t, n) = AddEntry(tl, e)
    BY <1>1 DEF UpsertText
  <2> HIDE DEF e
  <2> QED BY <2>1, <2>2, OtherAdded
<1>2. CASE p # 0
  <2> DEFINE e == [tl.entries[p] EXCEPT !.text = Append(@, n), !.status = "streaming"]
  <2>1. p \in DOMAIN tl.entries /\ tl.entries[p].kind = kind
    BY <1>2, PositionFits
  <2>2. EntryOk(tl.entries[p])
    BY <2>1 DEF ThreadTyped
  <2>3. tl.entries[p] \in TextEntry
    BY <2>1, <2>2, ToolKind DEF EntryOk
  <2>4. UpsertText(tl, kind, t, n) = ChangeEntry(tl, p, e)
    BY <1>2 DEF UpsertText
  <2>5. e.kind = kind
    BY <2>1, <2>3 DEF TextEntry
  <2> HIDE DEF e, p
  <2> QED BY <2>1, <2>4, <2>5, OtherChanged
<1> QED BY <1>1, <1>2

(* A plan touches none.                                                    *)
LEMMA PlanApart ==
  ASSUME NEW tl, ThreadTyped(tl), NEW t, NEW n
  PROVE  SameObjects(tl, UpsertPlan(tl, t, n))
<1> DEFINE p == Position(tl, "plan", t)
<1>1. CASE p = 0
  <2> DEFINE e == Message("plan", t, <<n>>, "shown")
  <2>1. e.kind # "tool"
    BY DEF Message
  <2>2. UpsertPlan(tl, t, n) = AddEntry(tl, e)
    BY <1>1 DEF UpsertPlan
  <2> HIDE DEF e
  <2> QED BY <2>1, <2>2, OtherAdded
<1>2. CASE p # 0
  <2> DEFINE e == [tl.entries[p] EXCEPT !.text = <<n>>]
  <2>1. p \in DOMAIN tl.entries /\ tl.entries[p].kind = "plan"
    BY <1>2, PositionFits
  <2>2. EntryOk(tl.entries[p])
    BY <2>1 DEF ThreadTyped
  <2>3. tl.entries[p] \in TextEntry
    BY <2>1, <2>2, ToolKind DEF EntryOk
  <2>4. UpsertPlan(tl, t, n) = ChangeEntry(tl, p, e)
    BY <1>2 DEF UpsertPlan
  <2>5. e.kind = "plan"
    BY <2>1, <2>3 DEF TextEntry
  <2> HIDE DEF e, p
  <2> QED BY <2>1, <2>4, <2>5, OtherChanged
<1> QED BY <1>1, <1>2

(* The end of a turn touches no tool call.                                 *)
LEMMA CompletionApart ==
  ASSUME NEW tl, ThreadTyped(tl), NEW t, NEW status
  PROVE  /\ SameObjects(tl, CompleteTurn(tl, t, status))
         /\ DOMAIN CompleteTurn(tl, t, status) = DOMAIN tl
<1> DEFINE after == CompleteTurn(tl, t, status)
           x == tl.entries
           Hit(e) == e.kind \in {"assistant", "thought"} /\ e.key = t
           b == [i \in DOMAIN x |-> IF Hit(x[i]) THEN [x[i] EXCEPT !.status = status]
                                    ELSE x[i]]
<1>1. /\ DOMAIN after = DOMAIN tl /\ after.entries = b
      /\ after.terminals = tl.terminals /\ after.diffs = tl.diffs
  BY FieldsOfTimeline DEF CompleteTurn, ThreadTyped
<1>2. ASSUME NEW i \in DOMAIN x, Hit(x[i]) PROVE b[i].kind = x[i].kind
  <2>1. x[i] \in TextEntry
    BY <1>2, ToolKind DEF EntryOk, ThreadTyped
  <2>2. b[i] = [x[i] EXCEPT !.status = status]
    BY <1>2
  <2> QED BY <2>1, <2>2 DEF TextEntry
<1>3. \A i \in DOMAIN x : ~Hit(x[i]) => b[i] = x[i]
  OBVIOUS
<1>4. DOMAIN b = DOMAIN x
  OBVIOUS
<1> HIDE DEF after, b
<1>5. SameObjects(tl, after)
  BY <1>1, <1>2, <1>3, <1>4 DEF SameObjects, IsTool
<1> QED BY <1>1, <1>5 DEF after

(* Events are history.                                                     *)
LEMMA EventsApart ==
  ASSUME NEW tl, DOMAIN tl = DOMAIN EmptyTimeline, NEW events
  PROVE  SameObjects(tl, AppendEvents(tl, events))
<1> DEFINE after == AppendEvents(tl, events)
           o == OperationsIn(events)
           r == RequestsIn(events)
<1> HIDE DEF o, r
<1>1. /\ after.entries = tl.entries /\ after.terminals = tl.terminals
      /\ after.diffs = tl.diffs
  BY FieldsOfTimeline DEF AppendEvents, o, r
<1> HIDE DEF after
<1>2. SameObjects(tl, after)
  BY <1>1 DEF SameObjects, IsTool
<1> QED BY <1>2 DEF after

(* Sealing and draining the replay.                                        *)
LEMMA ReplayApart ==
  ASSUME NEW tl, ThreadTyped(tl)
  PROVE  SameObjects(tl, Seal(tl)) /\ SameObjects(tl, Drain(tl))
<1>1. SameObjects(tl, tl)
  BY DEF SameObjects
<1>2. SameObjects(tl, Seal(tl))
  <2> DEFINE n == Len(tl.history)
             after == [tl EXCEPT !.replay = n]
  <2> HIDE DEF n
  <2>1. /\ after.entries = tl.entries /\ after.terminals = tl.terminals
        /\ after.diffs = tl.diffs
    BY FieldsOfTimeline DEF ThreadTyped
  <2> HIDE DEF after
  <2>2. SameObjects(tl, after)
    BY <2>1 DEF SameObjects, IsTool
  <2> QED BY <1>1, <2>2 DEF Seal, after, n
<1>3. SameObjects(tl, Drain(tl))
  <2> DEFINE after == [tl EXCEPT !.drained = TRUE]
  <2>1. /\ after.entries = tl.entries /\ after.terminals = tl.terminals
        /\ after.diffs = tl.diffs
    BY FieldsOfTimeline DEF ThreadTyped
  <2> HIDE DEF after
  <2>2. SameObjects(tl, after)
    BY <2>1 DEF SameObjects, IsTool
  <2> QED BY <1>1, <2>2 DEF Drain, after
<1> QED BY <1>2, <1>3

(* A user's message of the history.                                        *)
LEMMA HistoryApart ==
  ASSUME NEW tl, TimelineTyped(tl), NEW u \in SessionUpdate
  PROVE  SameObjects(tl, SyncHistory(tl, u))
<1>1. CASE u.type # "user"
  BY <1>1 DEF SyncHistory, SameObjects
<1>2. CASE u.type = "user"
  <2> DEFINE h == Append(tl.history, [type |-> "user", turn |-> HistoryTurn, n |-> u.n])
             mid == [tl EXCEPT !.history = h]
             after == AddUser(mid, HistoryTurn, u.n)
  <2>1. SyncHistory(tl, u) = after
    BY <1>2 DEF SyncHistory
  <2> HIDE DEF h
  <2>2. /\ DOMAIN mid = DOMAIN tl /\ mid.entries = tl.entries
        /\ mid.terminals = tl.terminals /\ mid.diffs = tl.diffs
    BY FieldsOfTimeline DEF TimelineTyped, ThreadTyped
  <2> HIDE DEF mid
  <2>3. ThreadTyped(mid)
    BY <2>2 DEF TimelineTyped, ThreadTyped
  <2>4. SameObjects(mid, after)
    BY <2>3, UserApart
  <2> HIDE DEF after
  <2>5. SameObjects(tl, after)
    BY <2>2, <2>4 DEF SameObjects, IsTool
  <2> QED BY <2>1, <2>5
<1> QED BY <1>1, <1>2
-----------------------------------------------------------------------------
(* A change of a terminal's snapshot.                                      *)
(* A snapshot keeps its fields, and takes the ones it is given.            *)
LEMMA SnapshotMerged ==
  ASSUME NEW tl, NEW x, NEW given, DOMAIN NewTerminal \subseteq DOMAIN Terminal(tl, x)
  PROVE  LET s == Snapshot(tl, x, given)
         IN  /\ DOMAIN NewTerminal \subseteq DOMAIN s
             /\ s.status = IF "status" \in DOMAIN given THEN given.status
                           ELSE Terminal(tl, x).status
             /\ s.tool = IF "tool" \in DOMAIN given THEN given.tool
                         ELSE Terminal(tl, x).tool
<1> DEFINE m == Over(Terminal(tl, x), given)
           v == m.completedAt \/ m.status = "completed"
           s == Snapshot(tl, x, given)
<1>1. {"status", "tool", "completedAt"} \subseteq DOMAIN NewTerminal
  BY DEF NewTerminal
<1>2. /\ DOMAIN m = DOMAIN Terminal(tl, x) \cup DOMAIN given
      /\ m.status = IF "status" \in DOMAIN given THEN given.status
                    ELSE Terminal(tl, x).status
      /\ m.tool = IF "tool" \in DOMAIN given THEN given.tool ELSE Terminal(tl, x).tool
  <2> DEFINE old == Terminal(tl, x)
  <2>1. /\ DOMAIN m = DOMAIN old \cup DOMAIN given
        /\ "status" \in DOMAIN given => m["status"] = given["status"]
        /\ "status" \in DOMAIN old \ DOMAIN given => m["status"] = old["status"]
        /\ "tool" \in DOMAIN given => m["tool"] = given["tool"]
        /\ "tool" \in DOMAIN old \ DOMAIN given => m["tool"] = old["tool"]
    BY DEF Over
  <2> QED BY <1>1, <2>1
<1>3. s = [m EXCEPT !.completedAt = v]
  BY DEF Snapshot
<1> HIDE DEF m, v, s
<1>4. DOMAIN s = DOMAIN m /\ s.status = m.status /\ s.tool = m.tool
  BY <1>1, <1>2, <1>3
<1> QED BY <1>2, <1>4 DEF s

(* A terminal's snapshot that is there.                                    *)
LEMMA TerminalChanged ==
  ASSUME NEW tl, ThreadTyped(tl), NEW exited, ObjectsIn(tl, exited),
         NEW x \in DOMAIN tl.terminals, NEW given, "tool" \notin DOMAIN given,
         "status" \in DOMAIN given /\ given.status = "completed" => x \in exited
  PROVE  /\ ObjectsIn(UpsertTerminal(tl, x, given), exited)
         /\ DOMAIN UpsertTerminal(tl, x, given).terminals = DOMAIN tl.terminals
<1> DEFINE s == Snapshot(tl, x, given)
           one == [y \in {x} |-> Snapshot(tl, y, given)]
           terminals == Over(tl.terminals, one)
           after == UpsertTerminal(tl, x, given)
<1>1. /\ DOMAIN one = {x} /\ one[x] = s
  OBVIOUS
<1>2. Terminal(tl, x) = tl.terminals[x]
  BY DEF Terminal
<1>3. /\ DOMAIN NewTerminal \subseteq DOMAIN tl.terminals[x]
      /\ tl.terminals[x].status = "completed" => x \in exited
  BY DEF ObjectsIn, Snapshots
<1>4. /\ DOMAIN NewTerminal \subseteq DOMAIN s /\ s.tool = tl.terminals[x].tool
      /\ s.status = "completed" => x \in exited
  BY <1>2, <1>3, SnapshotMerged
<1> HIDE DEF one, s
<1>5. /\ DOMAIN terminals = DOMAIN tl.terminals /\ terminals[x] = s
      /\ \A y \in DOMAIN tl.terminals : y # x => terminals[y] = tl.terminals[y]
  <2>1. DOMAIN terminals = DOMAIN tl.terminals \cup {x}
    BY <1>1 DEF Over
  <2>2. terminals[x] = s
    BY <1>1 DEF Over
  <2>3. ASSUME NEW y \in DOMAIN tl.terminals, y # x PROVE terminals[y] = tl.terminals[y]
    <3>1. y \in DOMAIN tl.terminals \ DOMAIN one
      BY <1>1, <2>3
    <3> QED BY <3>1 DEF Over
  <2> QED BY <2>1, <2>2, <2>3
<1> HIDE DEF terminals
<1>6. after.entries = tl.entries /\ after.diffs = tl.diffs /\ after.terminals = terminals
  BY FieldsOfTimeline DEF UpsertTerminal, StoreTerminals, ThreadTyped, terminals, one
<1> HIDE DEF after
<1>7. Snapshots(after, exited)
  BY <1>3, <1>4, <1>5, <1>6 DEF Snapshots, ObjectsIn
<1>8. \A y \in DOMAIN tl.terminals : after.terminals[y].tool = tl.terminals[y].tool
  BY <1>4, <1>5, <1>6
<1>9. \A i : IsTool(after, i) <=> IsTool(tl, i)
  BY <1>6 DEF IsTool
<1>10. \A j, tool, y, kind : ShownBy(after, j, tool, y, kind) <=> ShownBy(tl, j, tool, y, kind)
  BY <1>6 DEF ShownBy, IsTool
<1>11. ASSUME NEW i, IsTool(after, i)
       PROVE  ItemsTrue(after.entries[i].content, exited) /\ Owned(after, i)
  <2>1. ItemsTrue(tl.entries[i].content, exited) /\ Owned(tl, i)
    BY <1>9, <1>11 DEF ObjectsIn
  <2>2. Owned(after, i)
    BY <1>5, <1>6, <1>8, <1>10, <2>1 DEF Owned
  <2> QED BY <1>6, <2>1, <2>2
<1>12. ObjectsIn(after, exited)
  BY <1>7, <1>11 DEF ObjectsIn
<1> QED BY <1>5, <1>6, <1>12 DEF after
-----------------------------------------------------------------------------
(* The content of a tool call, merged, and the objects derived from it.    *)
LEMMA ItemsMerged ==
  ASSUME NEW a, NEW b, NEW exited, ItemsTrue(a, exited), ItemsTrue(b, exited)
  PROVE  ItemsTrue(MergeContent(a, b), exited)
BY DEF ItemsTrue, MergeContent, Over

(* All of a tool call's objects are stored as its own.                     *)
LEMMA ObjectsDerived ==
  ASSUME NEW tl, ThreadTyped(tl), NEW exited, ObjectsIn(tl, exited),
         NEW tool, NEW content, ItemsTrue(content, exited)
  PROVE  LET after == SyncDerived(tl, tool, content)
         IN  /\ after.entries = tl.entries /\ Snapshots(after, exited)
             /\ DOMAIN after.terminals = DOMAIN tl.terminals \cup Of(content, "terminal")
             /\ DOMAIN after.diffs = DOMAIN tl.diffs \cup Of(content, "diff")
             /\ \A x \in Of(content, "terminal") : after.terminals[x].tool = tool
             /\ \A x \in DOMAIN tl.terminals \ Of(content, "terminal") :
                  after.terminals[x] = tl.terminals[x]
             /\ \A x \in Of(content, "diff") :
                  after.diffs[x].tool = tool /\ after.diffs[x].n = content[x].n
             /\ \A x \in DOMAIN tl.diffs \ Of(content, "diff") :
                  after.diffs[x] = tl.diffs[x]
<1> DEFINE T == Of(content, "terminal")
           D == Of(content, "diff")
           s == [x \in T |-> Snapshot(tl, x, TerminalItem(content[x], tool))]
           d == [x \in D |-> [tool |-> tool, n |-> content[x].n]]
           terminals == Over(tl.terminals, s)
           diffs == Over(tl.diffs, d)
           mid == StoreTerminals(tl, s)
           after == SyncDerived(tl, tool, content)
<1>1. ASSUME NEW x \in T
      PROVE  /\ DOMAIN NewTerminal \subseteq DOMAIN s[x] /\ s[x].tool = tool
             /\ s[x].status = "completed" => x \in exited
  <2>1. x \in DOMAIN content /\ content[x].kind = "terminal"
    BY DEF Of
  <2>2. content[x].exit = "code" => x \in exited
    BY <2>1 DEF ItemsTrue
  <2>3. DOMAIN NewTerminal \subseteq DOMAIN Terminal(tl, x)
    BY DEF Terminal, ObjectsIn, Snapshots
  <2> DEFINE given == TerminalItem(content[x], tool)
  <2>4. /\ "status" \in DOMAIN given /\ "tool" \in DOMAIN given /\ given.tool = tool
        /\ given.status = "completed" => content[x].exit = "code"
    BY DEF TerminalItem, TerminalStatus
  <2>5. s[x] = Snapshot(tl, x, given)
    OBVIOUS
  <2> HIDE DEF given, s
  <2> QED BY <2>2, <2>3, <2>4, <2>5, SnapshotMerged
<1>2. /\ DOMAIN s = T /\ DOMAIN d = D
      /\ \A x \in D : d[x].tool = tool /\ d[x].n = content[x].n
  OBVIOUS
<1> HIDE DEF s, d, T, D
<1>3. /\ DOMAIN terminals = DOMAIN tl.terminals \cup T
      /\ \A x \in T : terminals[x] = s[x]
      /\ \A x \in DOMAIN tl.terminals \ T : terminals[x] = tl.terminals[x]
  <2>1. DOMAIN terminals = DOMAIN tl.terminals \cup T
    BY <1>2 DEF Over
  <2>2. ASSUME NEW x \in T PROVE terminals[x] = s[x]
    <3>1. x \in DOMAIN s
      BY <1>2
    <3> QED BY <3>1 DEF Over
  <2>3. ASSUME NEW x \in DOMAIN tl.terminals \ T PROVE terminals[x] = tl.terminals[x]
    <3>1. x \in DOMAIN tl.terminals \ DOMAIN s
      BY <1>2
    <3> QED BY <3>1 DEF Over
  <2> QED BY <2>1, <2>2, <2>3
<1>4. /\ DOMAIN diffs = DOMAIN tl.diffs \cup D
      /\ \A x \in D : diffs[x] = d[x]
      /\ \A x \in DOMAIN tl.diffs \ D : diffs[x] = tl.diffs[x]
  <2>1. DOMAIN diffs = DOMAIN tl.diffs \cup D
    BY <1>2 DEF Over
  <2>2. ASSUME NEW x \in D PROVE diffs[x] = d[x]
    <3>1. x \in DOMAIN d
      BY <1>2
    <3> QED BY <3>1 DEF Over
  <2>3. ASSUME NEW x \in DOMAIN tl.diffs \ D PROVE diffs[x] = tl.diffs[x]
    <3>1. x \in DOMAIN tl.diffs \ DOMAIN d
      BY <1>2
    <3> QED BY <3>1 DEF Over
  <2> QED BY <2>1, <2>2, <2>3
<1> HIDE DEF terminals, diffs
<1>5. /\ DOMAIN mid = DOMAIN tl /\ mid.entries = tl.entries
      /\ mid.terminals = terminals /\ mid.diffs = tl.diffs
  BY FieldsOfTimeline DEF StoreTerminals, ThreadTyped, terminals
<1>6. after = StoreDiffs(mid, d)
  BY DEF SyncDerived, s, d, T, D
<1> HIDE DEF mid, after
<1>7. after.entries = tl.entries /\ after.terminals = terminals /\ after.diffs = diffs
  BY <1>5, <1>6, FieldsOfTimeline DEF StoreDiffs, ThreadTyped, diffs
<1>8. Snapshots(after, exited)
  <2>1. \A x \in DOMAIN tl.terminals :
          /\ DOMAIN NewTerminal \subseteq DOMAIN tl.terminals[x]
          /\ tl.terminals[x].status = "completed" => x \in exited
    BY DEF ObjectsIn, Snapshots
  <2> QED BY <1>1, <1>3, <1>7, <2>1 DEF Snapshots
<1> QED BY <1>1, <1>2, <1>3, <1>4, <1>7, <1>8 DEF after, T, D

(* A merged content has the objects of the old one, of the same kinds.     *)
LEMMA KindsKept ==
  ASSUME NEW a, NEW b, NEW exited, ItemsTrue(a, exited), ItemsTrue(b, exited), NEW kind
  PROVE  Of(a, kind) \subseteq Of(MergeContent(a, b), kind)
<1> DEFINE m == MergeContent(a, b)
<1>1. DOMAIN m = DOMAIN a \cup DOMAIN b
  BY DEF Over, MergeContent
<1>2. ItemsTrue(m, exited)
  BY ItemsMerged
<1> HIDE DEF m
<1>3. ASSUME NEW x \in Of(a, kind) PROVE x \in Of(m, kind)
  <2>1. x \in DOMAIN a /\ a[x].kind = kind
    BY DEF Of
  <2>2. m[x].kind = kind /\ x \in DOMAIN m
    BY <1>1, <1>2, <2>1 DEF ItemsTrue
  <2> QED BY <2>2 DEF Of
<1> QED BY <1>3 DEF m

(* The objects of a tool call after an update of it: all its own.          *)
LEMMA ObjectsUpserted ==
  ASSUME NEW tl, ThreadTyped(tl), NEW exited, ObjectsIn(tl, exited),
         NEW id, NEW tool, NEW status, NEW content,
         content = Absent \/ ItemsTrue(content, exited)
  PROVE  LET after == UpsertToolCall(tl, id, tool, status, content)
         IN  /\ ObjectsIn(after, exited)
             /\ DOMAIN tl.terminals \subseteq DOMAIN after.terminals
<1> DEFINE p      == Position(tl, "tool", tool)
           old    == IF p = 0 THEN [turn |-> id, content |-> Nothing, status |-> "pending"]
                     ELSE tl.entries[p]
           merged == IF content = Absent THEN old.content
                     ELSE MergeContent(old.content, content)
           synced == IF content = Absent THEN tl ELSE SyncDerived(tl, tool, merged)
           s      == IF status = Absent THEN old.status ELSE status
           e      == [kind |-> "tool", key |-> tool, turn |-> old.turn,
                      content |-> merged, status |-> s]
           after  == UpsertToolCall(tl, id, tool, status, content)
<1>1. after = IF p = 0 THEN AddEntry(synced, e) ELSE ChangeEntry(synced, p, e)
  BY DEF UpsertToolCall
<1>2. p # 0 => IsTool(tl, p) /\ tl.entries[p].key = tool
  BY PositionFits DEF IsTool
<1>3. /\ p = 0 => old.content = Nothing
      /\ p # 0 => old.content = tl.entries[p].content
  OBVIOUS
<1>4. ItemsTrue(Nothing, exited) /\ \A kind : Of(Nothing, kind) = {}
  BY DEF ItemsTrue, Nothing, Of
<1>5. ItemsTrue(old.content, exited)
  BY <1>2, <1>3, <1>4 DEF ObjectsIn
<1>6. e.kind = "tool" /\ e.key = tool /\ e.content = merged
  OBVIOUS
<1> HIDE DEF p, old, s
<1>7. ItemsTrue(merged, exited) /\ \A kind : Of(old.content, kind) \subseteq Of(merged, kind)
  BY <1>5, ItemsMerged, KindsKept
<1> HIDE DEF merged, after
<1>8. /\ synced.entries = tl.entries /\ Snapshots(synced, exited)
      /\ DOMAIN synced = DOMAIN tl
  <2>1. DOMAIN synced = DOMAIN tl
    BY DerivedApart
  <2>2. synced.entries = tl.entries /\ Snapshots(synced, exited)
    BY <1>7, ObjectsDerived DEF ObjectsIn
  <2> QED BY <2>1, <2>2
<1>9. PICK q :
        /\ IsTool(after, q) /\ after.entries[q] = e
        /\ p # 0 => q = p
        /\ p = 0 => ~IsTool(tl, q)
        /\ \A i : i # q /\ (IsTool(tl, i) \/ IsTool(after, i)) =>
             IsTool(tl, i) /\ IsTool(after, i) /\ after.entries[i] = tl.entries[i]
        /\ after.terminals = synced.terminals /\ after.diffs = synced.diffs
  <2> DEFINE n == Len(tl.entries)
  <2>1. ThreadTyped(synced)
    BY <1>8 DEF ThreadTyped
  <2> HIDE DEF e, synced
  <2>2. CASE p = 0
    <3>1. /\ after.entries = Append(synced.entries, e)
          /\ after.terminals = synced.terminals /\ after.diffs = synced.diffs
      BY <1>1, <2>1, <2>2, FieldsOfTimeline DEF AddEntry, ThreadTyped
    <3>2. /\ DOMAIN tl.entries = 1..n /\ n \in Nat /\ DOMAIN after.entries = 1..(n + 1)
          /\ \A i \in 1..n : after.entries[i] = tl.entries[i]
          /\ after.entries[n + 1] = e
      BY <1>8, <3>1, AppendAny DEF ThreadTyped
    <3> QED BY <1>6, <2>2, <3>1, <3>2, SMTT(40) DEF IsTool
  <2>3. CASE p # 0
    <3>1. /\ after.entries = [synced.entries EXCEPT ![p] = e]
          /\ after.terminals = synced.terminals /\ after.diffs = synced.diffs
      BY <1>1, <2>1, <2>3, FieldsOfTimeline DEF ChangeEntry, ThreadTyped
    <3>2. /\ DOMAIN after.entries = DOMAIN tl.entries /\ after.entries[p] = e
          /\ \A i \in DOMAIN tl.entries : i # p => after.entries[i] = tl.entries[i]
      BY <1>2, <1>8, <2>3, <3>1 DEF IsTool
    <3> QED BY <1>2, <1>6, <2>3, <3>1, <3>2 DEF IsTool
  <2> QED BY <2>2, <2>3
<1> HIDE DEF e
<1>10. Snapshots(after, exited)
  BY <1>8, <1>9 DEF Snapshots
<1>11. ASSUME NEW i, IsTool(after, i) PROVE ItemsTrue(after.entries[i].content, exited)
  <2>1. CASE i = q
    BY <1>6, <1>7, <1>9, <2>1
  <2>2. CASE i # q
    <3>1. IsTool(tl, i) /\ after.entries[i] = tl.entries[i]
      BY <1>9, <1>11, <2>2
    <3> QED BY <3>1 DEF ObjectsIn
  <2> QED BY <2>1, <2>2
<1>12. ASSUME NEW j, NEW t, NEW x, NEW kind, ShownBy(tl, j, t, x, kind)
       PROVE  /\ ShownBy(after, j, t, x, kind)
              /\ j # q => after.entries[j] = tl.entries[j]
              /\ j = q => x \in Of(merged, kind)
  <2>1. IsTool(tl, j) /\ tl.entries[j].key = t /\ x \in Of(tl.entries[j].content, kind)
    BY <1>12 DEF ShownBy
  <2>2. CASE j = q
    <3>1. p # 0 /\ j = p
      BY <1>9, <2>1, <2>2
    <3>2. t = tool /\ x \in Of(merged, kind)
      BY <1>2, <1>3, <1>7, <2>1, <3>1
    <3> QED BY <1>6, <1>9, <2>2, <3>2 DEF ShownBy
  <2>3. CASE j # q
    <3>1. IsTool(after, j) /\ after.entries[j] = tl.entries[j]
      BY <1>9, <2>1, <2>3
    <3> QED BY <2>1, <2>3, <3>1 DEF ShownBy
  <2> QED BY <2>2, <2>3
<1>13. CASE content = Absent
  <2>1. synced = tl /\ merged = old.content
    BY <1>13 DEF synced, merged
  <2>2. ASSUME NEW i, IsTool(after, i)
        PROVE  after.entries[i].content = Nothing
                 \/ (IsTool(tl, i) /\ after.entries[i].content = tl.entries[i].content)
    <3>1. CASE i # q
      BY <1>9, <2>2, <3>1
    <3>2. CASE i = q /\ p = 0
      <4>1. after.entries[q].content = merged
        BY <1>6, <1>9
      <4>2. merged = Nothing
        BY <1>3, <2>1, <3>2
      <4>3. after.entries[i].content = Nothing
        BY <3>2, <4>1, <4>2
      <4> QED BY <4>3
    <3>3. CASE i = q /\ p # 0
      BY <1>2, <1>3, <1>6, <1>9, <2>1, <3>3
    <3> QED BY <3>1, <3>2, <3>3
  <2>3. \A j : IsTool(tl, j) => after.entries[j].content = tl.entries[j].content
    <3>1. ASSUME NEW j, IsTool(tl, j) PROVE after.entries[j].content = tl.entries[j].content
      BY <1>3, <1>6, <1>9, <2>1, <3>1
    <3> QED BY <3>1
  <2>4. ASSUME NEW i, IsTool(after, i) PROVE Owned(after, i)
    <3>1. CASE after.entries[i].content = Nothing
      BY <1>4, <3>1 DEF Owned
    <3>2. CASE IsTool(tl, i) /\ after.entries[i].content = tl.entries[i].content
      <4>1. Owned(tl, i)
        BY <3>2 DEF ObjectsIn
      <4>2. ASSUME NEW x \in Of(after.entries[i].content, "terminal")
            PROVE  x \in DOMAIN after.terminals
                     /\ \E j : ShownBy(after, j, after.terminals[x].tool, x, "terminal")
        <5>1. PICK j : ShownBy(tl, j, tl.terminals[x].tool, x, "terminal")
          BY <3>2, <4>1 DEF Owned
        <5> QED BY <1>9, <1>12, <2>1, <3>2, <4>1, <5>1 DEF Owned
      <4>3. ASSUME NEW x \in Of(after.entries[i].content, "diff")
            PROVE  x \in DOMAIN after.diffs
                     /\ \E j : /\ ShownBy(after, j, after.diffs[x].tool, x, "diff")
                               /\ after.entries[j].content[x].n = after.diffs[x].n
        <5>1. PICK j : /\ ShownBy(tl, j, tl.diffs[x].tool, x, "diff")
                       /\ tl.entries[j].content[x].n = tl.diffs[x].n
          BY <3>2, <4>1 DEF Owned
        <5>2. ShownBy(after, j, after.diffs[x].tool, x, "diff")
          BY <1>9, <1>12, <2>1, <5>1
        <5>3. after.entries[j].content = tl.entries[j].content
          BY <2>3, <5>1 DEF ShownBy
        <5>4. x \in DOMAIN after.diffs
          BY <1>9, <2>1, <3>2, <4>1 DEF Owned
        <5> QED BY <1>9, <2>1, <5>1, <5>2, <5>3, <5>4
      <4> QED BY <4>2, <4>3 DEF Owned
    <3> QED BY <2>2, <2>4, <3>1, <3>2
  <2> QED BY <1>9, <1>10, <1>11, <2>1, <2>4 DEF ObjectsIn, after
<1>14. CASE content # Absent
  <2>1. /\ DOMAIN after.terminals = DOMAIN tl.terminals \cup Of(merged, "terminal")
        /\ DOMAIN after.diffs = DOMAIN tl.diffs \cup Of(merged, "diff")
        /\ \A x \in Of(merged, "terminal") : after.terminals[x].tool = tool
        /\ \A x \in DOMAIN tl.terminals \ Of(merged, "terminal") :
             after.terminals[x] = tl.terminals[x]
        /\ \A x \in Of(merged, "diff") :
             after.diffs[x].tool = tool /\ after.diffs[x].n = merged[x].n
        /\ \A x \in DOMAIN tl.diffs \ Of(merged, "diff") : after.diffs[x] = tl.diffs[x]
    <3>1. synced = SyncDerived(tl, tool, merged)
      BY <1>14 DEF synced
    <3> HIDE DEF synced
    <3> QED BY <1>7, <1>9, <3>1, ObjectsDerived
  <2>2. after.entries[q].content = merged /\ after.entries[q].key = tool
    BY <1>6, <1>9
  <2>3. \A x, kind : x \in Of(merged, kind) => ShownBy(after, q, tool, x, kind)
    BY <1>9, <2>2 DEF ShownBy
  <2>4. ASSUME NEW i, IsTool(after, i) PROVE Owned(after, i)
    <3>1. ASSUME NEW kind, NEW x \in Of(after.entries[i].content, kind), x \notin Of(merged, kind)
          PROVE  IsTool(tl, i) /\ x \in Of(tl.entries[i].content, kind) /\ Owned(tl, i)
      <4>1. i # q
        BY <2>2, <3>1
      <4>2. IsTool(tl, i) /\ after.entries[i] = tl.entries[i]
        BY <1>9, <2>4, <4>1
      <4> QED BY <3>1, <4>2 DEF ObjectsIn
    <3>2. ASSUME NEW x \in Of(after.entries[i].content, "terminal")
          PROVE  x \in DOMAIN after.terminals
                   /\ \E j : ShownBy(after, j, after.terminals[x].tool, x, "terminal")
      <4>1. CASE x \in Of(merged, "terminal")
        BY <2>1, <2>3, <4>1
      <4>2. CASE x \notin Of(merged, "terminal")
        <5>1. x \in Of(tl.entries[i].content, "terminal") /\ Owned(tl, i)
          BY <3>1, <4>2
        <5>2. PICK j : ShownBy(tl, j, tl.terminals[x].tool, x, "terminal")
          BY <5>1 DEF Owned
        <5>3. x \in DOMAIN tl.terminals
          BY <5>1 DEF Owned
        <5>4. after.terminals[x] = tl.terminals[x] /\ x \in DOMAIN after.terminals
          BY <2>1, <4>2, <5>3
        <5> QED BY <1>12, <5>2, <5>4
      <4> QED BY <4>1, <4>2
    <3>3. ASSUME NEW x \in Of(after.entries[i].content, "diff")
          PROVE  x \in DOMAIN after.diffs
                   /\ \E j : /\ ShownBy(after, j, after.diffs[x].tool, x, "diff")
                             /\ after.entries[j].content[x].n = after.diffs[x].n
      <4>1. CASE x \in Of(merged, "diff")
        BY <2>1, <2>2, <2>3, <4>1
      <4>2. CASE x \notin Of(merged, "diff")
        <5>1. x \in Of(tl.entries[i].content, "diff") /\ Owned(tl, i)
          BY <3>1, <4>2
        <5>2. PICK j : /\ ShownBy(tl, j, tl.diffs[x].tool, x, "diff")
                       /\ tl.entries[j].content[x].n = tl.diffs[x].n
          BY <5>1 DEF Owned
        <5>3. x \in DOMAIN tl.diffs
          BY <5>1 DEF Owned
        <5>4. after.diffs[x] = tl.diffs[x] /\ x \in DOMAIN after.diffs
          BY <2>1, <4>2, <5>3
        <5>5. ShownBy(after, j, after.diffs[x].tool, x, "diff") /\ after.entries[j] = tl.entries[j]
          BY <1>12, <4>2, <5>2, <5>4
        <5> QED BY <5>2, <5>4, <5>5
      <4> QED BY <4>1, <4>2
    <3> QED BY <3>2, <3>3 DEF Owned
  <2> QED BY <1>10, <1>11, <2>1, <2>4 DEF ObjectsIn, after
<1> QED BY <1>13, <1>14
-----------------------------------------------------------------------------
(* The terminals whose process has ended: ever more of them.               *)
Exited == {x \in Terminals : process[x].exit = "code"}

(* No step makes a terminal run again.                                     *)
LEMMA ExitedGrow ==
  ASSUME ProcessTyped, [Next]_vars
  PROVE  Exited \subseteq Exited'
<1>1. CASE UNCHANGED process
  BY <1>1 DEF Exited
<1>2. CASE \E x \in Terminals : Exits(x)
  <2>1. PICK x \in Terminals : process' = [process EXCEPT ![x].exit = "code"]
    BY <1>2 DEF Exits
  <2>2. ASSUME NEW y \in Terminals PROVE process[y].exit = "code" => process'[y].exit = "code"
    BY <2>1 DEF ProcessTyped
  <2> QED BY <2>2 DEF Exited
<1>3. CASE \E op \in TerminalOps, x \in Terminals : CallTerminal(op, x)
  <2>1. PICK op \in TerminalOps, x \in Terminals : CallTerminal(op, x)
    BY <1>3
  <2>2. \/ process' = process
        \/ process' = [process EXCEPT ![x].released = TRUE]
    BY <2>1 DEF CallTerminal
  <2>3. ASSUME NEW y \in Terminals PROVE process[y].exit = "code" => process'[y].exit = "code"
    BY <2>2 DEF ProcessTyped
  <2> QED BY <2>3 DEF Exited
<1>4. UNCHANGED process
        \/ (\E x \in Terminals : Exits(x))
        \/ (\E op \in TerminalOps, x \in Terminals : CallTerminal(op, x))
  <2>1. CASE AgentUpdates \/ AgentAsks \/ AgentAnswers \/ AgentLoads
    BY <2>1 DEF AgentUpdates, AgentAsks, AgentAnswers, AgentLoads, hostVars
  <2>2. CASE Deliver
    BY <2>2 DEF Deliver, ReceiveUpdate, ReceiveLoaded, ReceivePermission, ReceiveAnswer, hostVars
  <2>3. CASE SetSessionUpdateHandler \/ SealHistoryReplay \/ DrainHistory
    BY <2>3 DEF SetSessionUpdateHandler, SealHistoryReplay, DrainHistory, hostVars
  <2>4. CASE RunJob \/ ReadOutput \/ EndJob \/ TellHost
    BY <2>4 DEF RunJob, ReadOutput, EndJob, TellHost, hostVars
  <2>5. CASE EndEarly \/ (\E t \in Turns : StartTurn(t)) \/ (\E r \in asking : HostDecides(r))
    BY <2>5 DEF EndEarly, StartTurn, HostDecides, hostVars
  <2>6. CASE TerminalReturns \/ UNCHANGED vars
    BY <2>6 DEF TerminalReturns, vars, hostVars
  <2> QED BY <2>1, <2>2, <2>3, <2>4, <2>5, <2>6 DEF Next
<1> QED BY <1>1, <1>2, <1>3, <1>4

(* What is on its way: in the jobs and in the host's call.                 *)
JobsRead ==
  \A i \in DOMAIN jobs : \A x \in DOMAIN jobs[i].exit :
    jobs[i].exit[x] = "code" => x \in Exited

CallTrue ==
  call # NoCall =>
    /\ call.op \in TerminalOps /\ call.terminal \in DOMAIN timeline.terminals
    /\ call.op = "wait" \/ call.exit = "code" => call.terminal \in Exited

(* The invariant in three parts.                                           *)
LEMMA ObjectsSplit ==
  ReadsTrue /\ SnapshotsTrue /\ ObjectsTrue
    <=> JobsRead /\ CallTrue /\ ObjectsIn(timeline, Exited)
<1>1. \A x : HasExited(x) <=> x \in Exited
  BY DEF HasExited, Exited
<1>2. \A i : i \in ToolCalls <=> IsTool(timeline, i)
  BY DEF ToolCalls, IsTool
<1>3. \A j, tool, x, kind :
        j \in ToolCalls /\ Shows(j, tool, x, kind) <=> ShownBy(timeline, j, tool, x, kind)
  BY <1>2 DEF Shows, ShownBy
<1>4. SnapshotsTrue <=> Snapshots(timeline, Exited)
  BY <1>1 DEF SnapshotsTrue, Snapshots
<1>5. ReadsTrue <=> /\ JobsRead /\ CallTrue
                    /\ \A i : IsTool(timeline, i) =>
                         ItemsTrue(timeline.entries[i].content, Exited)
  BY <1>1, <1>2 DEF ReadsTrue, JobsRead, CallTrue, ItemsTrue
<1>6. SnapshotsTrue => \A x \in DOMAIN timeline.terminals :
        timeline.terminals[x].status = "completed" => process[x].exit = "code"
  BY DEF SnapshotsTrue, HasExited
<1>7. ASSUME SnapshotsTrue
      PROVE  ObjectsTrue <=> \A i : IsTool(timeline, i) => Owned(timeline, i)
  BY <1>2, <1>3, <1>6, <1>7 DEF ObjectsTrue, Owned
<1> QED BY <1>4, <1>5, <1>7 DEF ObjectsIn
-----------------------------------------------------------------------------
(* What has been read stays true.                                          *)
LEMMA ReadsKept ==
  ASSUME ChannelTyped, ProcessTyped, current \in Turns \cup {NoTurn}, JobsRead, [Next]_vars
  PROVE  JobsRead'
<1>0. Exited \subseteq Exited'
  BY ExitedGrow
<1>1. ASSUME UNCHANGED jobs PROVE JobsRead'
  BY <1>0, <1>1 DEF JobsRead
<1>2. ASSUME jobs # <<>>, jobs' = Tail(jobs) PROVE JobsRead'
  <2>1. /\ DOMAIN jobs = 1..Len(jobs) /\ Len(jobs) \in Nat \ {0}
        /\ DOMAIN jobs' = 1..(Len(jobs) - 1)
        /\ \A i \in 1..(Len(jobs) - 1) : jobs'[i] = jobs[i + 1]
    BY <1>2, Shorter DEF ChannelTyped
  <2>2. ASSUME NEW i \in DOMAIN jobs' PROVE i + 1 \in DOMAIN jobs /\ jobs'[i] = jobs[i + 1]
    BY <2>1
  <2> QED BY <1>0, <2>2 DEF JobsRead
<1>3. CASE Deliver
  <2>1. PICK m : ReceiveUpdate(m) \/ ReceiveLoaded(m) \/ ReceivePermission(m)
                   \/ ReceiveAnswer(m)
    BY <1>3 DEF Deliver
  <2>2. CASE ReceiveUpdate(m) /\ jobs' # jobs
    <3>1. jobs' = Append(jobs, Job(m, FALSE))
      BY <2>2 DEF ReceiveUpdate
    <3>2. m \in SessionUpdate
      <4>1. inbound # <<>> /\ m = Head(inbound)
        BY <2>2 DEF ReceiveUpdate, Receive
      <4>2. m \in Inbound
        BY <4>1, Shorter DEF ChannelTyped
      <4>3. m.type \notin {"permission", "answer", "loaded"}
        BY <2>2 DEF ReceiveUpdate
      <4> QED BY <4>2, <4>3, TypesApart
    <3>3. Job(m, FALSE) \in ActorJob /\ DOMAIN Job(m, FALSE).exit = {}
      <4>1. Job(m, FALSE).exit = Nothing
        BY DEF Job
      <4>2. DOMAIN Nothing = {}
        BY DEF Nothing
      <4> QED BY <3>2, <4>1, <4>2, JobTyped
    <3> DEFINE job == Job(m, FALSE)
    <3> HIDE DEF job
    <3>6. job \in ActorJob /\ jobs' = Append(jobs, job) /\ jobs \in Seq(ActorJob)
      BY <3>1, <3>3 DEF job, ChannelTyped
    <3>4. /\ DOMAIN jobs = 1..Len(jobs) /\ Len(jobs) \in Nat
          /\ DOMAIN jobs' = 1..(Len(jobs) + 1)
          /\ \A i \in 1..Len(jobs) : jobs'[i] = jobs[i]
          /\ jobs'[Len(jobs) + 1] = job
      BY <3>6, Longer
    <3>5. ASSUME NEW i \in DOMAIN jobs', NEW x \in DOMAIN jobs'[i].exit
          PROVE  i \in DOMAIN jobs /\ jobs'[i] = jobs[i]
      <4>1. DOMAIN job.exit = {}
        BY <3>3 DEF job
      <4> QED BY <3>4, <4>1
    <3> QED BY <1>0, <3>5 DEF JobsRead
  <2>3. CASE ~ReceiveUpdate(m)
    BY <1>1, <2>1, <2>3 DEF ReceiveLoaded, ReceivePermission, ReceiveAnswer
  <2> QED BY <1>1, <2>1, <2>2, <2>3
<1>4. CASE SetSessionUpdateHandler
  <2>1. jobs' = [i \in DOMAIN buffered |-> Job(buffered[i], TRUE)]
    BY <1>4 DEF SetSessionUpdateHandler
  <2>2. \A i \in DOMAIN jobs' : DOMAIN jobs'[i].exit = {}
    BY <2>1 DEF Job, Nothing
  <2> QED BY <2>2 DEF JobsRead
<1>5. CASE RunJob \/ EndJob
  <2>1. jobs # <<>> /\ 1 \in DOMAIN jobs
    BY <1>5, FirstLook
  <2>2. CASE jobs' = Tail(jobs)
    BY <1>2, <2>1, <2>2
  <2>3. ASSUME NEW b, Carries(b, jobs[1]), jobs' = [jobs EXCEPT ![1] = b] PROVE JobsRead'
    <3>1. DOMAIN jobs' = DOMAIN jobs /\ \A i \in DOMAIN jobs : jobs'[i].exit = jobs[i].exit
      BY <2>1, <2>3 DEF Carries
    <3> QED BY <1>0, <3>1 DEF JobsRead
  <2> QED BY <1>5, <2>2, <2>3, FirstLook DEF Drops, Waits, Writes
<1>6. CASE ReadOutput
  <2> DEFINE shown == {c.object : c \in {i \in Head(jobs).update.content : i.kind = "terminal"}}
  <2>1. PICK x \in shown \ DOMAIN Head(jobs).exit :
          jobs' = [jobs EXCEPT
                     ![1].stage = IF shown \subseteq DOMAIN Head(jobs).exit \cup {x}
                                  THEN "read" ELSE "reading",
                     ![1].exit = Over(@, [y \in {x} |-> Output(y)])]
    BY <1>6 DEF ReadOutput
  <2>2. 1 \in DOMAIN jobs /\ Head(jobs) = jobs[1] /\ jobs[1] \in ActorJob
        /\ jobs[1].stage = "reading"
    BY <1>6, Shorter DEF ReadOutput, ChannelTyped
  <2>3. x \in Terminals
    <3>1. jobs[1].update.content # Absent /\ jobs[1].update \in SessionUpdate
      BY <2>2 DEF ActorJob
    <3> QED BY <2>1, <2>2, <3>1, TerminalsShown
  <2> DEFINE stage == IF shown \subseteq DOMAIN Head(jobs).exit \cup {x}
                      THEN "read" ELSE "reading"
             old   == jobs[1].exit
             exit  == Over(old, [y \in {x} |-> Output(y)])
  <2>4. jobs' = [jobs EXCEPT ![1].stage = stage, ![1].exit = exit]
    BY <2>1, <2>2
  <2>5. \A y \in DOMAIN exit : exit[y] = "code" => y \in Exited
    <3>1. ASSUME NEW y \in DOMAIN exit, exit[y] = "code" PROVE y \in Exited
      <4>1. CASE y = x
        <5>1. exit[y] = Output(x)
          BY <3>1, <4>1 DEF Over
        <5> QED BY <2>3, <3>1, <4>1, <5>1 DEF Output, Exited
      <4>2. CASE y # x
        <5>1. y \in DOMAIN old /\ exit[y] = old[y]
          BY <3>1, <4>2 DEF Over
        <5> QED BY <2>2, <3>1, <5>1 DEF JobsRead
      <4> QED BY <4>1, <4>2
    <3> QED BY <3>1
  <2> HIDE DEF shown, stage, exit
  <2>6. /\ DOMAIN jobs' = DOMAIN jobs /\ jobs'[1].exit = exit
        /\ \A i \in DOMAIN jobs : i # 1 => jobs'[i] = jobs[i]
    BY <2>2, <2>4 DEF ActorJob
  <2> QED BY <1>0, <2>5, <2>6 DEF JobsRead
<1>7. CASE TellHost
  BY <1>2, <1>7 DEF TellHost
<1>8. CASE AgentUpdates \/ AgentAsks \/ AgentAnswers \/ AgentLoads
  BY <1>1, <1>8 DEF AgentUpdates, AgentAsks, AgentAnswers, AgentLoads
<1>9. CASE SealHistoryReplay \/ DrainHistory \/ EndEarly \/ TerminalReturns
  BY <1>1, <1>9 DEF SealHistoryReplay, DrainHistory, EndEarly, TerminalReturns
<1>10. CASE \/ \E t \in Turns : StartTurn(t)
            \/ \E r \in asking : HostDecides(r)
            \/ \E x \in Terminals : Exits(x)
            \/ \E op \in TerminalOps, x \in Terminals : CallTerminal(op, x)
            \/ UNCHANGED vars
  BY <1>1, <1>10 DEF StartTurn, HostDecides, Exits, CallTerminal, vars
<1> QED BY <1>3, <1>4, <1>5, <1>6, <1>7, <1>8, <1>9, <1>10 DEF Next
-----------------------------------------------------------------------------
(* A step of the timeline: what holds of the objects goes on to hold, and  *)
(* no terminal is forgotten.                                               *)
ObjectsGoOn ==
  /\ ObjectsIn(timeline', Exited)
  /\ DOMAIN timeline.terminals \subseteq DOMAIN timeline'.terminals

(* A step that leaves the objects alone.                                   *)
LEMMA GoesOnSame ==
  ASSUME ObjectsIn(timeline, Exited), SameObjects(timeline, timeline')
  PROVE  ObjectsGoOn
<1>1. ObjectsIn(timeline', Exited)
  BY ObjectsSame
<1> QED BY <1>1 DEF ObjectsGoOn, SameObjects

(* The end of a turn, with its events.                                     *)
LEMMA EndApart ==
  ASSUME NEW tl, ThreadTyped(tl), NEW t, NEW status, NEW events
  PROVE  SameObjects(tl, AppendEvents(CompleteTurn(tl, t, status), events))
<1> DEFINE mid == CompleteTurn(tl, t, status)
<1>1. SameObjects(tl, mid) /\ DOMAIN mid = DOMAIN EmptyTimeline
  BY CompletionApart DEF ThreadTyped
<1> HIDE DEF mid
<1>2. SameObjects(mid, AppendEvents(mid, events))
  BY <1>1, EventsApart
<1> QED BY <1>1, <1>2, SameTwice DEF mid

(* The early end of a turn, by a timeout, an abandoned stream or an error. *)
LEMMA FinishApart ==
  ASSUME TurnsTyped, NEW t, NEW type, Finish(t, type)
  PROVE  SameObjects(timeline, timeline')
<1> DEFINE events == <<[type |-> type, turn |-> t]>>
<1>1. timeline' = AppendEvents(CompleteTurn(timeline, t, "failed"), events)
  BY DEF Finish, AppendEvent
<1> HIDE DEF events
<1> QED BY <1>1, EndApart DEF TurnsTyped, TimelineTyped

(* Events of a turn.                                                       *)
LEMMA EmitApart ==
  ASSUME TurnsTyped, NEW t, NEW events, Emit(t, events)
  PROVE  SameObjects(timeline, timeline')
BY EventsApart DEF Emit, TurnsTyped, TimelineTyped, ThreadTyped

(* The end of a turn by its answer.                                        *)
LEMMA AnsweredApart ==
  ASSUME TurnsTyped, NEW t, NEW stop, Answered(t, stop)
  PROVE  SameObjects(timeline, timeline')
<1> DEFINE events == FinalizePrompt(t, turn[t], stop).events
           last   == events[Len(events)].type
           status == IF last = "completed" THEN "completed" ELSE "failed"
<1>1. timeline' = AppendEvents(IF last = "cancelled" THEN timeline
                               ELSE CompleteTurn(timeline, t, status), events)
  BY DEF Answered
<1> HIDE DEF events, last, status
<1>2. CASE last = "cancelled"
  BY <1>1, <1>2, EventsApart DEF TurnsTyped, TimelineTyped, ThreadTyped
<1>3. CASE last # "cancelled"
  BY <1>1, <1>3, EndApart DEF TurnsTyped, TimelineTyped
<1> QED BY <1>2, <1>3

(* The content of an update whose reads are true is true.                  *)
LEMMA ContentTrue ==
  ASSUME NEW u \in SessionUpdate, u.content # Absent, NEW exit,
         NEW exited, \A x \in DOMAIN exit : exit[x] = "code" => x \in exited
  PROVE  ItemsTrue(ThreadContent(u, exit), exited)
<1>1. u.content \in SUBSET Shown
  BY DEF SessionUpdate
<1> DEFINE objects == {c.object : c \in u.content}
           One(x) == CHOOSE i \in u.content : i.object = x
           item(x) == [kind |-> One(x).kind, n |-> u.n,
                       exit |-> IF x \in DOMAIN exit THEN exit[x] ELSE "unset"]
           f == [x \in objects |-> item(x)]
<1>2. ASSUME NEW x \in objects PROVE One(x) \in u.content /\ One(x).object = x
  OBVIOUS
<1>3. ThreadContent(u, exit) = f
  BY DEF ThreadContent
<1> HIDE DEF One
<1>4. ASSUME NEW x \in objects PROVE One(x).kind = KindOf(x)
  <2> DEFINE d == CHOOSE c \in Shown : c.object = x
  <2>1. One(x) \in Shown /\ One(x).object = x
    BY <1>1, <1>2
  <2>2. d \in Shown /\ d.object = x
    BY <2>1
  <2>3. KindOf(x) = d.kind
    BY DEF KindOf
  <2> HIDE DEF d
  <2> QED BY <2>1, <2>2, <2>3, ConversationAssumption
<1>5. ASSUME NEW x \in objects
      PROVE  f[x].kind = KindOf(x) /\ (f[x].exit = "code" => x \in exited)
  <2>1. f[x] = item(x)
    OBVIOUS
  <2>2. f[x].kind = One(x).kind
    BY <2>1
  <2>3. f[x].exit = IF x \in DOMAIN exit THEN exit[x] ELSE "unset"
    BY <2>1
  <2> HIDE DEF f
  <2> QED BY <1>4, <2>2, <2>3
<1>6. DOMAIN f = objects
  OBVIOUS
<1> HIDE DEF f
<1> QED BY <1>3, <1>5, <1>6 DEF ItemsTrue

(* An update writes true objects.                                          *)
LEMMA ThreadObjects ==
  ASSUME NEW tl, ThreadTyped(tl), NEW exited, ObjectsIn(tl, exited), NEW id,
         NEW u \in SessionUpdate, NEW exit,
         \A x \in DOMAIN exit : exit[x] = "code" => x \in exited
  PROVE  LET after == SyncThread(tl, id, u, exit)
         IN  /\ ObjectsIn(after, exited)
             /\ DOMAIN tl.terminals \subseteq DOMAIN after.terminals
<1> DEFINE after == SyncThread(tl, id, u, exit)
<1>1. CASE u.type \in ToolTypes
  <2> DEFINE content == ThreadContent(u, exit)
  <2>1. after = UpsertToolCall(tl, id, u.tool, u.status, content)
    BY <1>1 DEF SyncThread, ToolTypes
  <2>2. content = Absent \/ ItemsTrue(content, exited)
    <3>1. CASE u.content = Absent
      BY <3>1 DEF ThreadContent
    <3>2. CASE u.content # Absent
      BY <3>2, ContentTrue
    <3> QED BY <3>1, <3>2
  <2> HIDE DEF content, after
  <2>3. ObjectsIn(after, exited) /\ DOMAIN tl.terminals \subseteq DOMAIN after.terminals
    BY <2>1, <2>2, ObjectsUpserted
  <2> QED BY <2>3 DEF after
<1>2. CASE u.type \notin ToolTypes
  <2>1. SameObjects(tl, after)
    <3>1. SameObjects(tl, tl)
      BY DEF SameObjects
    <3>2. CASE u.type = "text"
      <4>1. after = UpsertText(tl, "assistant", id, u.n)
        BY <3>2 DEF SyncThread, ToolTypes
      <4> QED BY <4>1, TextApart
    <3>3. CASE u.type = "thought"
      <4>1. after = UpsertText(tl, "thought", id, u.n)
        BY <3>3 DEF SyncThread, ToolTypes
      <4> QED BY <4>1, TextApart
    <3>4. CASE u.type = "plan"
      <4>1. after = UpsertPlan(tl, id, u.n)
        BY <3>4 DEF SyncThread, ToolTypes
      <4> QED BY <4>1, PlanApart
    <3>5. CASE u.type \notin {"text", "thought", "plan"}
      BY <1>2, <3>1, <3>5 DEF SyncThread
    <3> QED BY <3>2, <3>3, <3>4, <3>5
  <2> HIDE DEF after
  <2>2. ObjectsIn(after, exited) /\ DOMAIN tl.terminals \subseteq DOMAIN after.terminals
    BY <2>1, ObjectsSame DEF SameObjects
  <2> QED BY <2>2 DEF after
<1> QED BY <1>1, <1>2

(* What a host's operation saw of its terminal is written.                 *)
LEMMA ReturnObjects ==
  ASSUME TurnsTyped, ObjectsIn(timeline, Exited), CallTrue, TerminalReturns
  PROVE  ObjectsGoOn
<1> DEFINE x == call.terminal
           given == TerminalChange(call)
<1>1. /\ call # NoCall /\ timeline' = UpsertTerminal(timeline, x, given)
      /\ call.op \in TerminalOps /\ x \in DOMAIN timeline.terminals
      /\ call.op = "wait" \/ call.exit = "code" => x \in Exited
  BY DEF TerminalReturns, CallTrue
<1>2. /\ "tool" \notin DOMAIN Seen(call.exit)
      /\ "status" \in DOMAIN Seen(call.exit) /\ Seen(call.exit).status = "completed"
           => call.exit = "code"
  <2>1. CASE call.exit = "unset"
    <3>1. DOMAIN Nothing = {}
      BY DEF Nothing
    <3> QED BY <2>1, <3>1 DEF Seen
  <2>2. CASE call.exit # "unset"
    BY <2>2 DEF Seen, TerminalStatus
  <2> QED BY <2>1, <2>2
<1>3. /\ "tool" \notin DOMAIN given
      /\ "status" \in DOMAIN given /\ given.status = "completed" => x \in Exited
  <2>1. CASE call.op = "refresh"
    BY <1>1, <1>2, <2>1 DEF TerminalChange
  <2>2. CASE call.op = "kill"
    <3> DEFINE seen == Seen(call.exit)
               stop == [stopRequested |-> TRUE]
    <3>1. given = Over(seen, stop)
      BY <2>2 DEF TerminalChange
    <3>2. DOMAIN stop = {"stopRequested"}
      OBVIOUS
    <3> HIDE DEF seen, stop, given
    <3>3. DOMAIN given = DOMAIN seen \cup {"stopRequested"}
      BY <3>1, <3>2 DEF Over
    <3>4. "status" \in DOMAIN seen => given.status = seen.status
      BY <3>1, <3>2 DEF Over
    <3> QED BY <1>1, <1>2, <3>3, <3>4 DEF seen
  <2>3. CASE call.op = "release"
    BY <2>3 DEF TerminalChange
  <2>4. CASE call.op = "wait"
    BY <1>1, <2>4 DEF TerminalChange
  <2> QED BY <1>1, <2>1, <2>2, <2>3, <2>4 DEF TerminalOps
<1> HIDE DEF given, x
<1>4. /\ ObjectsIn(timeline', Exited)
      /\ DOMAIN timeline'.terminals = DOMAIN timeline.terminals
  BY <1>1, <1>3, TerminalChanged DEF TurnsTyped, TimelineTyped
<1> QED BY <1>4 DEF ObjectsGoOn
-----------------------------------------------------------------------------
(* Every step of the timeline but a terminal's snapshot and the first look *)
(* of a tool call's job leaves the tool calls and their objects alone.     *)
ToolWritten ==
  \E b : /\ jobs # <<>> /\ Head(jobs) = jobs[1] /\ 1 \in DOMAIN jobs
         /\ Carries(b, jobs[1]) /\ Writes(b) /\ b.update.type \in ToolTypes

(* An update of another type.                                              *)
LEMMA OthersApart ==
  ASSUME NEW tl, ThreadTyped(tl), NEW id, NEW u, NEW exit, u.type \notin ToolTypes
  PROVE  SameObjects(tl, SyncThread(tl, id, u, exit))
<1> DEFINE after == SyncThread(tl, id, u, exit)
<1>1. SameObjects(tl, tl)
  BY DEF SameObjects
<1>2. CASE u.type = "text"
  <2>1. after = UpsertText(tl, "assistant", id, u.n)
    BY <1>2 DEF SyncThread, ToolTypes
  <2> QED BY <2>1, TextApart
<1>3. CASE u.type = "thought"
  <2>1. after = UpsertText(tl, "thought", id, u.n)
    BY <1>3 DEF SyncThread, ToolTypes
  <2> QED BY <2>1, TextApart
<1>4. CASE u.type = "plan"
  <2>1. after = UpsertPlan(tl, id, u.n)
    BY <1>4 DEF SyncThread, ToolTypes
  <2> QED BY <2>1, PlanApart
<1>5. CASE u.type \notin {"text", "thought", "plan"}
  <2>1. after = tl
    BY <1>5 DEF SyncThread
  <2> QED BY <1>1, <2>1
<1> QED BY <1>2, <1>3, <1>4, <1>5

(* The second look of a job adds to the history.                           *)
LEMMA TellApart ==
  ASSUME ChannelTyped, TurnsTyped, TellHost
  PROVE  SameObjects(timeline, timeline')
<1>1. jobs # <<>> /\ 1 \in DOMAIN jobs /\ Head(jobs) = jobs[1] /\ jobs[1] \in ActorJob
  BY Shorter DEF TellHost, ChannelTyped
<1> DEFINE t      == jobs[1].turn
           u      == jobs[1].update
           mid    == IF t = NoTurn THEN SyncHistory(timeline, u) ELSE timeline
           events == MapUpdate(TurnId(t), turn[TurnId(t)], u, ModeDenies).events
<1>2. timeline' = timeline \/ timeline' = AppendEvents(mid, events)
  BY <1>1 DEF TellHost
<1>3. u \in SessionUpdate /\ TimelineTyped(timeline)
  BY <1>1 DEF ActorJob, TurnsTyped
<1>4. SameObjects(timeline, timeline)
  BY DEF SameObjects
<1>5. SameObjects(timeline, mid) /\ DOMAIN mid = DOMAIN EmptyTimeline
  <2>1. CASE t = NoTurn
    <3>1. TimelineTyped(SyncHistory(timeline, u))
            /\ SameObjects(timeline, SyncHistory(timeline, u))
      BY <1>3, HistorySynced, HistoryApart
    <3> QED BY <2>1, <3>1 DEF TimelineTyped, ThreadTyped
  <2>2. CASE t # NoTurn
    BY <1>3, <1>4, <2>2 DEF TimelineTyped, ThreadTyped
  <2> QED BY <2>1, <2>2
<1> HIDE DEF mid, events
<1>6. SameObjects(mid, AppendEvents(mid, events))
  BY <1>5, EventsApart
<1> QED BY <1>2, <1>4, <1>5, <1>6, SameTwice

(* What each step does to the tool calls and their objects.                *)
LEMMA ToolsApart ==
  ASSUME ChannelTyped, TurnsTyped, [Next]_vars
  PROVE  SameObjects(timeline, timeline') \/ TerminalReturns \/ ToolWritten
<1>1. ASSUME UNCHANGED timeline PROVE SameObjects(timeline, timeline')
  BY <1>1 DEF SameObjects
<1>3. ThreadTyped(timeline)
  BY DEF TurnsTyped, TimelineTyped
<1>4. CASE SealHistoryReplay \/ DrainHistory
  BY <1>3, <1>4, ReplayApart DEF SealHistoryReplay, DrainHistory
<1>5. CASE \E t \in Turns : StartTurn(t)
  BY <1>3, <1>5, UserApart DEF StartTurn
<1>6. CASE EndEarly
  <2>1. PICK type : Finish(current, type)
    BY <1>6 DEF EndEarly
  <2> QED BY <2>1, FinishApart
<1>7. CASE \E r \in asking : HostDecides(r)
  <2>1. PICK r \in asking : HostDecides(r)
    BY <1>7
  <2>2. \/ \E events : Emit(r.turn, events)
        \/ UNCHANGED timeline
    BY <2>1 DEF HostDecides
  <2> QED BY <1>1, <2>2, EmitApart
<1>8. CASE Deliver
  <2>1. PICK m : ReceiveUpdate(m) \/ ReceiveLoaded(m) \/ ReceivePermission(m)
                   \/ ReceiveAnswer(m)
    BY <1>8 DEF Deliver
  <2>2. CASE ReceiveUpdate(m) \/ ReceiveLoaded(m)
    BY <1>1, <2>2 DEF ReceiveUpdate, ReceiveLoaded
  <2>3. CASE ReceivePermission(m)
    <3>1. UNCHANGED timeline \/ \E events : Emit(current, events)
      BY <2>3 DEF ReceivePermission
    <3> QED BY <1>1, <3>1, EmitApart
  <2>4. CASE ReceiveAnswer(m)
    <3>1. UNCHANGED timeline \/ Finish(current, "failed") \/ Answered(current, m.stop)
      BY <2>4 DEF ReceiveAnswer
    <3> QED BY <1>1, <3>1, FinishApart, AnsweredApart
  <2> QED BY <2>1, <2>2, <2>3, <2>4
<1>9. CASE RunJob \/ EndJob
  <2>1. current \in Turns \cup {NoTurn}
    BY DEF TurnsTyped
  <2>2. jobs # <<>> /\ Head(jobs) = jobs[1] /\ 1 \in DOMAIN jobs
    BY <1>9, <2>1, FirstLook
  <2>3. CASE Drops \/ \E b : Waits(b)
    BY <1>1, <2>3 DEF Drops, Waits
  <2>4. ASSUME NEW b, Carries(b, jobs[1]), Writes(b)
        PROVE  SameObjects(timeline, timeline') \/ ToolWritten
    <3>1. CASE b.update.type \in ToolTypes
      BY <2>2, <2>4, <3>1 DEF ToolWritten
    <3>2. CASE b.update.type \notin ToolTypes
      BY <1>3, <2>4, <3>2, OthersApart DEF Writes
    <3> QED BY <3>1, <3>2
  <2> QED BY <1>9, <2>1, <2>3, <2>4, FirstLook
<1>10. CASE TellHost
  BY <1>10, TellApart
<1>12. CASE AgentUpdates \/ AgentAsks \/ AgentAnswers \/ AgentLoads
  BY <1>1, <1>12 DEF AgentUpdates, AgentAsks, AgentAnswers, AgentLoads
<1>13. CASE SetSessionUpdateHandler \/ ReadOutput \/ UNCHANGED vars
  BY <1>1, <1>13 DEF SetSessionUpdateHandler, ReadOutput, vars
<1>14. CASE \/ \E x \in Terminals : Exits(x)
            \/ \E op \in TerminalOps, x \in Terminals : CallTerminal(op, x)
  BY <1>1, <1>14 DEF Exits, CallTerminal
<1> QED BY <1>4, <1>5, <1>6, <1>7, <1>8, <1>9, <1>10, <1>12, <1>13, <1>14 DEF Next

(* Every step of the timeline.                                             *)
LEMMA TimelineObjects ==
  ASSUME ChannelTyped, TurnsTyped, JobsRead, CallTrue,
         ObjectsIn(timeline, Exited), [Next]_vars
  PROVE  ObjectsGoOn
<1>1. CASE SameObjects(timeline, timeline')
  BY <1>1, GoesOnSame
<1>2. CASE TerminalReturns
  BY <1>2, ReturnObjects
<1>3. CASE ToolWritten
  <2>1. PICK b : /\ 1 \in DOMAIN jobs /\ Carries(b, jobs[1]) /\ Writes(b)
    BY <1>3 DEF ToolWritten
  <2>2. /\ b.update \in SessionUpdate /\ b.exit = jobs[1].exit
        /\ timeline' = SyncThread(timeline, TurnId(b.turn), b.update, b.exit)
    BY <2>1 DEF Carries, Writes, ActorJob
  <2>3. \A x \in DOMAIN b.exit : b.exit[x] = "code" => x \in Exited
    BY <2>1, <2>2 DEF JobsRead
  <2> DEFINE id == TurnId(b.turn)
             u  == b.update
             exit == b.exit
  <2>4. ThreadTyped(timeline)
    BY DEF TurnsTyped, TimelineTyped
  <2> HIDE DEF id
  <2>5. /\ ObjectsIn(timeline', Exited)
        /\ DOMAIN timeline.terminals \subseteq DOMAIN timeline'.terminals
    BY <2>2, <2>3, <2>4, ThreadObjects DEF id
  <2> QED BY <2>5 DEF ObjectsGoOn
<1> QED BY <1>1, <1>2, <1>3, ToolsApart

(* The host's call is made for a terminal that is there, and what it saw   *)
(* stays true.                                                             *)
LEMMA CallKept ==
  ASSUME CallTrue, Exited \subseteq Exited',
         DOMAIN timeline.terminals \subseteq DOMAIN timeline'.terminals, [Next]_vars
  PROVE  CallTrue'
<1>1. ASSUME UNCHANGED call PROVE CallTrue'
  BY <1>1 DEF CallTrue
<1>2. CASE \E op \in TerminalOps, x \in Terminals : CallTerminal(op, x)
  <2>1. PICK op \in TerminalOps, x \in Terminals : CallTerminal(op, x)
    BY <1>2
  <2>2. /\ x \in DOMAIN timeline.terminals
        /\ op = "wait" => process[x].exit = "code"
        /\ call' = [op |-> op, terminal |-> x, exit |-> Output(x)]
    BY <2>1 DEF CallTerminal
  <2>3. Output(x) = "code" => process[x].exit = "code"
    BY DEF Output
  <2>4. op = "wait" \/ Output(x) = "code" => x \in Exited
    BY <2>2, <2>3 DEF Exited
  <2>5. call'.op = op /\ call'.terminal = x /\ call'.exit = Output(x)
    BY <2>2
  <2> QED BY <2>2, <2>4, <2>5 DEF CallTrue
<1>3. CASE TerminalReturns
  BY <1>3 DEF TerminalReturns, CallTrue
<1>4. CASE AgentUpdates \/ AgentAsks \/ AgentAnswers \/ AgentLoads
  BY <1>1, <1>4 DEF AgentUpdates, AgentAsks, AgentAnswers, AgentLoads, hostVars
<1>5. CASE Deliver
  BY <1>1, <1>5 DEF Deliver, ReceiveUpdate, ReceiveLoaded, ReceivePermission, ReceiveAnswer,
                    hostVars
<1>6. CASE SetSessionUpdateHandler \/ SealHistoryReplay \/ DrainHistory
  BY <1>1, <1>6 DEF SetSessionUpdateHandler, SealHistoryReplay, DrainHistory, hostVars
<1>7. CASE RunJob \/ ReadOutput \/ EndJob \/ TellHost
  BY <1>1, <1>7 DEF RunJob, ReadOutput, EndJob, TellHost, hostVars
<1>8. CASE EndEarly \/ (\E t \in Turns : StartTurn(t)) \/ (\E r \in asking : HostDecides(r))
  BY <1>1, <1>8 DEF EndEarly, StartTurn, HostDecides, hostVars
<1>9. CASE (\E x \in Terminals : Exits(x)) \/ UNCHANGED vars
  BY <1>1, <1>9 DEF Exits, vars, hostVars
<1> QED BY <1>2, <1>3, <1>4, <1>5, <1>6, <1>7, <1>8, <1>9 DEF Next

(* Every step keeps the invariant.                                         *)
LEMMA ObjectsStep ==
  ASSUME ObjectsInv, [Next]_vars
  PROVE  ObjectsInv'
<1>1. IInv /\ JobsRead /\ CallTrue /\ ObjectsIn(timeline, Exited)
  BY ObjectsSplit DEF ObjectsInv
<1>2. /\ ChannelTyped /\ TurnsTyped /\ ProcessTyped
      /\ current \in Turns \cup {NoTurn}
  BY <1>1, TypeSplit DEF IInv, HostTyped, TurnsTyped
<1>3. IInv'
  BY <1>1, InvStep
<1>4. ObjectsGoOn
  BY <1>1, <1>2, TimelineObjects
<1>5. Exited \subseteq Exited'
  BY <1>2, ExitedGrow
<1>6. ObjectsIn(timeline', Exited')
  BY <1>4, <1>5, ObjectsLater DEF ObjectsGoOn
<1>7. JobsRead'
  BY <1>1, <1>2, ReadsKept
<1>8. CallTrue'
  BY <1>1, <1>4, <1>5, CallKept DEF ObjectsGoOn
<1>9. (ReadsTrue /\ SnapshotsTrue /\ ObjectsTrue)'
  <2>1. (JobsRead /\ CallTrue /\ ObjectsIn(timeline, Exited))'
    BY <1>6, <1>7, <1>8
  <2> QED BY <2>1, ObjectsSplit, PTL
<1> QED BY <1>3, <1>9 DEF ObjectsInv

(* It holds at the start: nothing is shown, nothing was read.              *)
LEMMA ObjectsInit == ASSUME Init PROVE ObjectsInv
<1>1. /\ timeline.entries = <<>> /\ timeline.terminals = Nothing
      /\ DOMAIN Nothing = {} /\ jobs = <<>> /\ call = NoCall
  BY DEF Init, EmptyTimeline, Nothing
<1>2. DOMAIN timeline.entries = {} /\ DOMAIN jobs = {}
  BY <1>1
<1>3. ReadsTrue /\ SnapshotsTrue /\ ObjectsTrue
  BY <1>1, <1>2 DEF ReadsTrue, SnapshotsTrue, ObjectsTrue, ToolCalls
<1> QED BY <1>3, InitOk DEF ObjectsInv

(* The inductive invariant of the objects: what was read of a terminal is  *)
(* true wherever it is on its way to the snapshots (upsertToolCall,        *)
(* syncDerivedSnapshots, the terminal operations of the driver).           *)
THEOREM ObjectsInvariance == Spec => []ObjectsInv
<1>1. Init => ObjectsInv
  BY ObjectsInit
<1>2. ObjectsInv /\ [Next]_vars => ObjectsInv'
  BY ObjectsStep
<1> QED BY <1>1, <1>2, PTL DEF Spec

(* A terminal shown as completed has exited; every terminal and diff that  *)
(* a tool call shows is in the stores, under a tool call that shows it.    *)
THEOREM ObjectsTrueHolds == Spec => []ObjectsTrue
<1>1. ObjectsInv => ObjectsTrue
  BY DEF ObjectsInv
<1> QED BY <1>1, ObjectsInvariance, PTL

-----------------------------------------------------------------------------
(* The tool calls of a turn that has ended.                                *)
(* An update of a tool call changes no other.                              *)
LEMMA OthersKept ==
  ASSUME NEW tl, ThreadTyped(tl), NEW id, NEW tool, NEW status, NEW content,
         NEW i, IsTool(tl, i), tl.entries[i].key # tool
  PROVE  UpsertToolCall(tl, id, tool, status, content).entries[i] = tl.entries[i]
<1> DEFINE p      == Position(tl, "tool", tool)
           old    == IF p = 0 THEN [turn |-> id, content |-> Nothing, status |-> "pending"]
                     ELSE tl.entries[p]
           merged == IF content = Absent THEN old.content
                     ELSE MergeContent(old.content, content)
           synced == IF content = Absent THEN tl ELSE SyncDerived(tl, tool, merged)
           s      == IF status = Absent THEN old.status ELSE status
           e      == [kind |-> "tool", key |-> tool, turn |-> old.turn,
                      content |-> merged, status |-> s]
           after  == UpsertToolCall(tl, id, tool, status, content)
<1>1. after = IF p = 0 THEN AddEntry(synced, e) ELSE ChangeEntry(synced, p, e)
  BY DEF UpsertToolCall
<1>2. p # 0 => tl.entries[p].key = tool
  BY PositionFits
<1> HIDE DEF p, old, s, merged, e
<1>3. synced.entries = tl.entries /\ DOMAIN synced = DOMAIN tl
  BY DerivedApart
<1> HIDE DEF synced, after
<1>4. ThreadTyped(synced) /\ i \in DOMAIN tl.entries
  BY <1>3 DEF ThreadTyped, IsTool
<1>5. CASE p = 0
  <2>1. after.entries = Append(synced.entries, e)
    BY <1>1, <1>4, <1>5, FieldsOfTimeline DEF AddEntry, ThreadTyped
  <2>2. /\ DOMAIN tl.entries = 1..Len(tl.entries)
        /\ \A j \in 1..Len(tl.entries) : after.entries[j] = tl.entries[j]
    BY <1>3, <2>1, AppendAny DEF ThreadTyped
  <2> QED BY <1>4, <2>2 DEF after
<1>6. CASE p # 0
  <2>1. after.entries = [synced.entries EXCEPT ![p] = e]
    BY <1>1, <1>4, <1>6, FieldsOfTimeline DEF ChangeEntry, ThreadTyped
  <2>2. i # p
    BY <1>2, <1>6
  <2>3. after.entries[i] = tl.entries[i]
    BY <1>3, <1>4, <2>1, <2>2
  <2> QED BY <2>3 DEF after
<1> QED BY <1>5, <1>6

(* A tool call of a turn that has ended changes only by an update of it    *)
(* whose job began in another turn or in none.                             *)
LEMMA ToolsFrozen ==
  ASSUME TypeOK, NEW t \in ended, [Next]_vars, NEW i \in ToolCalls,
         timeline'.entries[i] # timeline.entries[i]
  PROVE  /\ jobs # <<>> /\ TurnOfJob(Head(jobs)) # t
         /\ Head(jobs).update.tool = timeline.entries[i].key
<1>1. ChannelTyped /\ TurnsTyped /\ IsTool(timeline, i)
  BY TypeSplit DEF ToolCalls, IsTool
<1>2. ThreadTyped(timeline) /\ TimelineTyped(timeline)
  BY <1>1 DEF TurnsTyped, TimelineTyped
<1>3. ~SameObjects(timeline, timeline')
  BY <1>1 DEF SameObjects
<1>4. ~TerminalReturns
  <2>1. ASSUME TerminalReturns PROVE timeline'.entries = timeline.entries
    BY <1>2, <2>1, TerminalUpserted DEF TerminalReturns
  <2> QED BY <2>1
<1>5. ToolWritten
  BY <1>1, <1>3, <1>4, ToolsApart
<1>6. PICK b : /\ jobs # <<>> /\ Head(jobs) = jobs[1]
               /\ Carries(b, jobs[1]) /\ Writes(b) /\ b.update.type \in ToolTypes
  BY <1>5 DEF ToolWritten
<1>7. b.turn = TurnOfJob(Head(jobs)) /\ b.turn \notin ended
      /\ b.update.tool = Head(jobs).update.tool
  BY <1>6 DEF Carries, Writes, ShouldCommit
<1> DEFINE id      == TurnId(b.turn)
           content == ThreadContent(b.update, b.exit)
<1>8. timeline' = UpsertToolCall(timeline, id, b.update.tool, b.update.status, content)
  BY <1>6 DEF Writes, SyncThread, ToolTypes
<1> HIDE DEF id, content
<1>9. timeline.entries[i].key = b.update.tool
  BY <1>1, <1>2, <1>8, OthersKept
<1> QED BY <1>6, <1>7, <1>9

(* What may become of the entries of the turns that have ended.            *)
Freezes ==
  \A t \in ended :
    /\ TextEntries(t)' = TextEntries(t)
    /\ \A i \in TextEntries(t) : timeline'.entries[i] = timeline.entries[i]
    /\ \A i \in ToolCalls :
         timeline.entries[i].turn = t /\ timeline'.entries[i] # timeline.entries[i]
           => /\ jobs # <<>> /\ TurnOfJob(Head(jobs)) # t
              /\ Head(jobs).update.tool = timeline.entries[i].key

(* What a host has been shown of a turn does not change after the turn's   *)
(* terminal event, but for a tool call that a later turn, or the agent     *)
(* outside every turn, updates (the check of the current turn before the   *)
(* thread is written, handleSessionUpdate; upsertToolCall).                *)
THEOREM EndedThreadFrozenHolds == Spec => EndedThreadFrozen
<1>1. ASSUME IInv, [Next]_vars PROVE Freezes
  <2>1. TypeOK
    BY <1>1 DEF IInv
  <2> QED BY <1>1, <2>1, FrozenStep, ToolsFrozen DEF Freezes
<1>2. EndedThreadFrozen <=> [][Freezes]_vars
  BY DEF EndedThreadFrozen, Freezes
<1> QED BY <1>1, <1>2, ConversationInvariance, PTL DEF Spec
-----------------------------------------------------------------------------
(* A replay, from the agent to the history the host drains.                *)
(* A timeline has all the history it had, and as much of it to drain.      *)
Longed(tl, after) ==
  /\ after.replay = tl.replay /\ Len(tl.history) <= Len(after.history)
  /\ \A i \in DOMAIN tl.history :
       i \in DOMAIN after.history /\ after.history[i] = tl.history[i]

(* Events are appended, whatever they are.                                 *)
LEMMA EventsLater ==
  ASSUME NEW tl, TimelineTyped(tl), NEW T, NEW events \in Seq(T)
  PROVE  LET after == AppendEvents(tl, events)
         IN  Longed(tl, after) /\ after.history = tl.history \o events
<1> DEFINE after == AppendEvents(tl, events)
           h == tl.history \o events
           o == OperationsIn(events)
           r == RequestsIn(events)
           S == Events \cup T
<1>1. tl.history \in Seq(S) /\ events \in Seq(S)
  BY DEF TimelineTyped
<1>2. /\ Len(tl.history) <= Len(h)
      /\ \A i \in DOMAIN tl.history : i \in DOMAIN h /\ h[i] = tl.history[i]
  BY <1>1
<1> HIDE DEF h, o, r
<1>3. after.history = h /\ after.replay = tl.replay
  BY FieldsOfTimeline DEF AppendEvents, TimelineTyped, ThreadTyped, h, o, r
<1> HIDE DEF after
<1> QED BY <1>2, <1>3 DEF Longed, after, h

(* The same history.                                                       *)
LEMMA SameLater ==
  ASSUME NEW tl, TimelineTyped(tl), NEW after, after.history = tl.history,
         after.replay = tl.replay
  PROVE  Longed(tl, after)
BY DEF Longed, TimelineTyped

(* The end of a turn, with its events.                                     *)
LEMMA EndLater ==
  ASSUME NEW tl, TimelineTyped(tl), NEW t \in TurnIds,
         NEW status \in {"completed", "failed"}, NEW T, NEW events \in Seq(T)
  PROVE  Longed(tl, AppendEvents(CompleteTurn(tl, t, status), events))
<1> DEFINE mid == CompleteTurn(tl, t, status)
<1>1. WrittenOf(tl, mid, t)
  BY TurnCompleted DEF TimelineTyped
<1> HIDE DEF mid
<1>2. TimelineTyped(mid) /\ mid.history = tl.history /\ mid.replay = tl.replay
  BY <1>1, WrittenTyped DEF WrittenOf
<1>3. Longed(mid, AppendEvents(mid, events))
  BY <1>2, EventsLater
<1>4. Longed(tl, AppendEvents(mid, events))
  BY <1>2, <1>3 DEF Longed
<1> QED BY <1>4 DEF mid

(* The early end of a turn.                                                *)
LEMMA FinishLater ==
  ASSUME TurnsTyped, NEW t \in Turns, NEW type, Finish(t, type)
  PROVE  Longed(timeline, timeline')
<1> DEFINE e == [type |-> type, turn |-> t]
<1>1. timeline' = AppendEvents(CompleteTurn(timeline, t, "failed"), <<e>>)
  BY DEF Finish, AppendEvent
<1> HIDE DEF e
<1>2. <<e>> \in Seq({e}) /\ t \in TurnIds
  BY DEF TurnIds
<1> QED BY <1>1, <1>2, EndLater DEF TurnsTyped

(* Events of a turn.                                                       *)
LEMMA EmitLater ==
  ASSUME TurnsTyped, NEW t, NEW T, NEW events \in Seq(T), Emit(t, events)
  PROVE  Longed(timeline, timeline')
BY EventsLater DEF Emit, TurnsTyped

(* The end of a turn by its answer.                                        *)
LEMMA AnsweredLater ==
  ASSUME TurnsTyped, NEW t \in Turns, NEW stop, Answered(t, stop)
  PROVE  Longed(timeline, timeline')
<1> DEFINE events == FinalizePrompt(t, turn[t], stop).events
           last   == events[Len(events)].type
           status == IF last = "completed" THEN "completed" ELSE "failed"
<1>1. timeline' = AppendEvents(IF last = "cancelled" THEN timeline
                               ELSE CompleteTurn(timeline, t, status), events)
  BY DEF Answered
<1>2. t \in TurnIds /\ turn[t] \in TurnState
  BY DEF TurnsTyped, TurnIds
<1>3. events \in Seq(Events)
  BY <1>2, FinalizeTyped
<1>4. status \in {"completed", "failed"}
  OBVIOUS
<1> HIDE DEF events, last, status
<1>5. CASE last = "cancelled"
  BY <1>1, <1>3, <1>5, EventsLater DEF TurnsTyped
<1>6. CASE last # "cancelled"
  BY <1>1, <1>2, <1>3, <1>4, <1>6, EndLater DEF TurnsTyped
<1> QED BY <1>5, <1>6

(* What an update outside every turn adds to the history: one event that   *)
(* is text or a user's message if the update is one, or another or none if *)
(* it is not.                                                              *)
Adds(tl, after, u) ==
  /\ after.replay = tl.replay
  /\ \/ after.history = tl.history /\ u.type \notin Spoken
     \/ \E e \in Events : /\ after.history = Append(tl.history, e)
                          /\ e.type \in Spoken <=> u.type \in Spoken
                          /\ u.type \in Spoken => e.n = u.n

(* A user's message is one more event of the history.                      *)
LEMMA UserLater ==
  ASSUME NEW tl, TimelineTyped(tl), NEW u \in SessionUpdate
  PROVE  LET after == SyncHistory(tl, u)
         IN  /\ after.replay = tl.replay
             /\ IF u.type = "user"
                THEN after.history = Append(tl.history,
                       [type |-> "user", turn |-> HistoryTurn, n |-> u.n])
                ELSE after.history = tl.history
<1>1. CASE u.type # "user"
  BY <1>1 DEF SyncHistory
<1>2. CASE u.type = "user"
  <2> DEFINE e == [type |-> "user", turn |-> HistoryTurn, n |-> u.n]
             h == Append(tl.history, e)
             mid == [tl EXCEPT !.history = h]
             after == AddUser(mid, HistoryTurn, u.n)
  <2>1. u.n \in Nat /\ HistoryTurn \in TurnIds
    BY DEF SessionUpdate, TurnIds
  <2>4. SyncHistory(tl, u) = after
    BY <1>2 DEF SyncHistory
  <2> HIDE DEF h
  <2>5. DOMAIN mid = DOMAIN tl /\ mid.entries = tl.entries /\ mid.history = h
        /\ mid.replay = tl.replay
    BY FieldsOfTimeline DEF TimelineTyped, ThreadTyped
  <2> HIDE DEF mid
  <2>7. ThreadTyped(mid)
    BY <2>5 DEF TimelineTyped, ThreadTyped
  <2>8. after.history = mid.history /\ after.replay = mid.replay
    BY <2>1, <2>7, UserAdded
  <2> HIDE DEF after
  <2> QED BY <1>2, <2>4, <2>5, <2>8 DEF h
<1> QED BY <1>1, <1>2

(* The second look at an update outside every turn: it is history.         *)
LEMMA TellAdds ==
  ASSUME ChannelTyped, TurnsTyped, jobs[1].turn = NoTurn, TellHost
  PROVE  Adds(timeline, timeline', jobs[1].update)
<1> DEFINE id   == TurnId(NoTurn)
           u    == jobs[1].update
           mid  == SyncHistory(timeline, u)
           step == MapUpdate(id, turn[id], u, ModeDenies)
           events == step.events
<1>1. jobs # <<>> /\ 1 \in DOMAIN jobs /\ Head(jobs) = jobs[1] /\ jobs[1] \in ActorJob
  BY Shorter DEF TellHost, ChannelTyped
<1>2. /\ u \in SessionUpdate /\ id \in TurnIds /\ turn[id] \in TurnState
      /\ TimelineTyped(timeline)
  BY <1>1 DEF ActorJob, TurnsTyped, TurnIds, TurnId
<1>3. timeline' = AppendEvents(mid, events)
  BY <1>1 DEF TellHost
<1>4. Mapped(turn[id], u, step)
  BY <1>2, UpdateMapped, ConversationAssumption
<1>5. u.type = "user" => step.events = <<>>
  BY DEF MapUpdate, MetadataTypes, Outcome
<1>6. /\ TimelineTyped(mid) /\ mid.replay = timeline.replay
      /\ IF u.type = "user"
         THEN mid.history = Append(timeline.history,
                [type |-> "user", turn |-> HistoryTurn, n |-> u.n])
         ELSE mid.history = timeline.history
  BY <1>2, UserLater, HistorySynced
<1> HIDE DEF mid, step, u
<1>7. CASE events = <<>>
  <2>1. events \in Seq(Events)
    BY <1>7
  <2>2. timeline'.history = mid.history \o events /\ timeline'.replay = mid.replay
    BY <1>3, <1>6, <2>1, EventsLater DEF Longed
  <2>3. timeline'.history = mid.history
    BY <1>6, <1>7, <2>2 DEF TimelineTyped
  <2>4. u.type # "text"
    BY <1>4, <1>7 DEF Mapped, Chunk
  <2>5. CASE u.type = "user"
    <3> DEFINE e == [type |-> "user", turn |-> HistoryTurn, n |-> u.n]
    <3>1. e \in Events /\ e.type = "user" /\ e.n = u.n
      <4>1. u.n \in Nat /\ HistoryTurn \in TurnIds
        BY <1>2 DEF SessionUpdate, TurnIds
      <4> QED BY <4>1, NoteTyped
    <3>2. timeline'.history = Append(timeline.history, e)
      BY <1>6, <2>3, <2>5
    <3> HIDE DEF e
    <3> QED BY <1>6, <2>2, <2>5, <3>1, <3>2 DEF Adds, Spoken, u
  <2>6. CASE u.type # "user"
    BY <1>6, <2>2, <2>3, <2>4, <2>6 DEF Adds, Spoken, u
  <2> QED BY <2>5, <2>6
<1>8. CASE events # <<>>
  <2>1. PICK e \in Events : /\ events = <<e>>
                            /\ e.type \in Spoken <=> u.type \in Spoken
                            /\ u.type \in Spoken => e.n = u.n
    BY <1>4, <1>5, <1>8 DEF Mapped, Plain, Chunk, Spoken
  <2>2. events \in Seq(Events)
    BY <2>1
  <2>3. timeline'.history = mid.history \o events /\ timeline'.replay = mid.replay
    BY <1>3, <1>6, <2>2, EventsLater DEF Longed
  <2>4. mid.history = timeline.history
    BY <1>5, <1>6, <1>8
  <2>5. timeline.history \in Seq(Events)
    BY <1>2 DEF TimelineTyped
  <2>6. timeline'.history = Append(timeline.history, e)
    BY <2>1, <2>3, <2>4, <2>5
  <2> QED BY <1>6, <2>1, <2>3, <2>6 DEF Adds, u
<1> QED BY <1>7, <1>8

(* What is added makes the history longer.                                 *)
LEMMA AddsLater ==
  ASSUME NEW tl, TimelineTyped(tl), NEW after, NEW u, Adds(tl, after, u)
  PROVE  Longed(tl, after)
<1>1. CASE after.history = tl.history /\ after.replay = tl.replay
  BY <1>1, SameLater
<1>2. CASE \E e \in Events : after.history = Append(tl.history, e)
  <2>1. PICK e \in Events : after.history = Append(tl.history, e)
    BY <1>2
  <2>2. /\ Len(tl.history) \in Nat /\ DOMAIN tl.history = 1..Len(tl.history)
        /\ Len(after.history) = Len(tl.history) + 1
        /\ DOMAIN after.history = 1..(Len(tl.history) + 1)
        /\ \A i \in DOMAIN tl.history : after.history[i] = tl.history[i]
    BY <2>1 DEF TimelineTyped
  <2> QED BY <2>2 DEF Longed, Adds
<1> QED BY <1>1, <1>2 DEF Adds

(* The second look at any update makes the history longer, or leaves it.   *)
LEMMA TellLater ==
  ASSUME ChannelTyped, TurnsTyped, TellHost
  PROVE  Longed(timeline, timeline')
<1>0. TimelineTyped(timeline)
  BY DEF TurnsTyped
<1>1. CASE jobs[1].turn = NoTurn
  BY <1>0, <1>1, TellAdds, AddsLater
<1>2. CASE jobs[1].turn # NoTurn
  <2> DEFINE t      == jobs[1].turn
             u      == jobs[1].update
             id     == TurnId(t)
             events == MapUpdate(id, turn[id], u, ModeDenies).events
  <2>1. /\ jobs # <<>> /\ 1 \in DOMAIN jobs /\ Head(jobs) = jobs[1]
        /\ jobs[1] \in ActorJob
    BY Shorter DEF TellHost, ChannelTyped
  <2>2. timeline' = timeline \/ timeline' = AppendEvents(timeline, events)
    BY <1>2, <2>1 DEF TellHost
  <2>3. u \in SessionUpdate /\ id \in TurnIds /\ turn[id] \in TurnState
    BY <2>1 DEF ActorJob, TurnsTyped, TurnIds, TurnId
  <2>4. events \in Seq(Events)
    BY <2>3, UpdateMapped, MappedEvents, ConversationAssumption
  <2> HIDE DEF events
  <2> QED BY <1>0, <2>2, <2>4, SameLater, EventsLater
<1> QED BY <1>1, <1>2

(* The first look leaves the history alone.                                *)
LEMMA LookHistory ==
  ASSUME ChannelTyped, TurnsTyped, RunJob \/ EndJob
  PROVE  timeline'.history = timeline.history /\ timeline'.replay = timeline.replay
<1>0. TimelineTyped(timeline) /\ current \in Turns \cup {NoTurn}
  BY DEF TurnsTyped
<1>1. CASE timeline' = timeline
  BY <1>1
<1>2. ASSUME NEW b, Carries(b, jobs[1]), Writes(b)
      PROVE  timeline'.history = timeline.history /\ timeline'.replay = timeline.replay
  <2> DEFINE id == TurnId(b.turn)
  <2>1. b.update \in SessionUpdate /\ b.exit \in Reads /\ id \in TurnIds
    BY <1>2 DEF Carries, ActorJob, TurnId, TurnIds
  <2>2. timeline' = SyncThread(timeline, id, b.update, b.exit)
    BY <1>2 DEF Writes
  <2> HIDE DEF id
  <2>3. WrittenOf(timeline, timeline', id)
    BY <1>0, <2>1, <2>2, ThreadSynced DEF TimelineTyped
  <2> QED BY <2>3 DEF WrittenOf
<1> QED BY <1>0, <1>1, <1>2, FirstLook DEF Drops, Waits

(* What the host does with a terminal is not history.                      *)
LEMMA ReturnLater ==
  ASSUME TurnsTyped, TerminalReturns
  PROVE  timeline'.history = timeline.history /\ timeline'.replay = timeline.replay
<1> DEFINE s == [y \in {call.terminal} |-> Snapshot(timeline, y, TerminalChange(call))]
<1>1. timeline' = StoreTerminals(timeline, s)
  BY DEF TerminalReturns, UpsertTerminal
<1> HIDE DEF s
<1> QED BY <1>1, FieldsOfTimeline DEF StoreTerminals, TurnsTyped, TimelineTyped, ThreadTyped

(* Every step but the seal: the history goes on.                           *)
LEMMA HistoryStep ==
  ASSUME ChannelTyped, InOrder, LoadOk, TurnsTyped, HostTyped, OneAnswer,
         ~SealHistoryReplay, [Next]_vars
  PROVE  Longed(timeline, timeline')
<1>0. TimelineTyped(timeline) /\ current \in Turns \cup {NoTurn}
  BY DEF TurnsTyped
<1>1. ASSUME UNCHANGED timeline PROVE Longed(timeline, timeline')
  BY <1>0, <1>1, SameLater
<1>2. CASE DrainHistory
  <2>1. timeline' = Drain(timeline)
    BY <1>2 DEF DrainHistory
  <2>2. Drain(timeline).history = timeline.history /\ Drain(timeline).replay = timeline.replay
    BY <1>0, FieldsOfTimeline DEF Drain, TimelineTyped, ThreadTyped
  <2> QED BY <1>0, <2>1, <2>2, SameLater
<1>3. CASE \E t \in Turns : StartTurn(t)
  <2>1. PICK t \in Turns : timeline' = AddUser(timeline, t, 0)
    BY <1>3 DEF StartTurn
  <2>2. t \in TurnIds /\ 0 \in Nat
    BY DEF TurnIds
  <2> DEFINE n == 0
  <2>3. n \in Nat
    OBVIOUS
  <2>4. timeline' = AddUser(timeline, t, n)
    BY <2>1
  <2> HIDE DEF n
  <2>5. timeline'.history = timeline.history /\ timeline'.replay = timeline.replay
    BY <1>0, <2>2, <2>3, <2>4, UserAdded DEF TimelineTyped
  <2> QED BY <1>0, <2>5, SameLater
<1>4. CASE EndEarly
  <2>1. PICK type : Finish(current, type) /\ current # NoTurn
    BY <1>4 DEF EndEarly
  <2> QED BY <1>0, <2>1, FinishLater
<1>5. CASE \E r \in asking : HostDecides(r)
  <2>1. PICK r \in asking : HostDecides(r)
    BY <1>5
  <2>2. (\E e : Emit(r.turn, <<e>>)) \/ UNCHANGED timeline
    BY <2>1 DEF HostDecides
  <2>3. ASSUME NEW e, Emit(r.turn, <<e>>) PROVE Longed(timeline, timeline')
    <3>1. <<e>> \in Seq({e})
      OBVIOUS
    <3> QED BY <2>3, <3>1, EmitLater
  <2> QED BY <1>1, <2>2, <2>3
<1>6. CASE Deliver
  <2>1. PICK m : ReceiveUpdate(m) \/ ReceiveLoaded(m) \/ ReceivePermission(m)
                   \/ ReceiveAnswer(m)
    BY <1>6 DEF Deliver
  <2>2. CASE ReceiveUpdate(m) \/ ReceiveLoaded(m)
    BY <1>1, <2>2 DEF ReceiveUpdate, ReceiveLoaded
  <2>3. CASE ReceivePermission(m)
    <3>1. UNCHANGED timeline \/ \E a, b : Emit(current, <<a, b>>)
      BY <2>3 DEF ReceivePermission
    <3>2. ASSUME NEW a, NEW b, Emit(current, <<a, b>>) PROVE Longed(timeline, timeline')
      <4>1. <<a, b>> \in Seq({a, b})
        OBVIOUS
      <4> QED BY <3>2, <4>1, EmitLater
    <3> QED BY <1>1, <3>1, <3>2
  <2>4. CASE ReceiveAnswer(m)
    <3>1. UNCHANGED timeline \/ Finish(current, "failed") \/ Answered(current, m.stop)
      BY <2>4 DEF ReceiveAnswer
    <3>2. current \in Turns
      <4>1. m.type = "answer" /\ m = inbound[1] /\ 1 \in DOMAIN inbound
        BY <2>4, MessageRead DEF ReceiveAnswer
      <4> QED BY <1>0, <4>1 DEF OneAnswer
    <3> QED BY <1>1, <3>1, <3>2, FinishLater, AnsweredLater
  <2> QED BY <2>1, <2>2, <2>3, <2>4
<1>7. CASE RunJob \/ EndJob
  BY <1>0, <1>7, LookHistory, SameLater
<1>8. CASE TellHost
  BY <1>8, TellLater
<1>9. CASE TerminalReturns
  BY <1>0, <1>9, ReturnLater, SameLater
<1>10. CASE AgentUpdates \/ AgentAsks \/ AgentAnswers \/ AgentLoads
  BY <1>1, <1>10 DEF AgentUpdates, AgentAsks, AgentAnswers, AgentLoads
<1>11. CASE SetSessionUpdateHandler \/ ReadOutput \/ UNCHANGED vars
  BY <1>1, <1>11 DEF SetSessionUpdateHandler, ReadOutput, vars
<1>12. CASE \/ \E x \in Terminals : Exits(x)
            \/ \E op \in TerminalOps, x \in Terminals : CallTerminal(op, x)
  BY <1>1, <1>12 DEF Exits, CallTerminal
<1> QED BY <1>2, <1>3, <1>4, <1>5, <1>6, <1>7, <1>8, <1>9, <1>10, <1>11, <1>12 DEF Next

(* Before the session is open nothing but what the actor's jobs tell is    *)
(* history, and no turn starts.                                            *)
LEMMA HistoryRests ==
  ASSUME ChannelTyped, InOrder, LoadOk, TurnsTyped, HostTyped, OneAnswer,
         current = NoTurn, opening # "open", ~TellHost, [Next]_vars
  PROVE  timeline'.history = timeline.history /\ UNCHANGED current
<1>1. CASE UNCHANGED <<timeline, current>>
  BY <1>1
<1>2. CASE SealHistoryReplay
  <2>1. timeline' = Seal(timeline) /\ UNCHANGED current
    BY <1>2 DEF SealHistoryReplay, turnVars
  <2>2. Seal(timeline).history = timeline.history
    BY FieldsOfTimeline DEF Seal, TurnsTyped, TimelineTyped, ThreadTyped
  <2> QED BY <2>1, <2>2
<1>3. CASE (\E t \in Turns : StartTurn(t)) \/ EndEarly \/ DrainHistory \/ AgentAsks
  BY <1>3 DEF StartTurn, EndEarly, DrainHistory, AgentAsks
<1>4. CASE \E r \in asking : HostDecides(r)
  <2>1. PICK r \in asking : HostDecides(r)
    BY <1>4
  <2>2. r.turn # current
    <3>1. r.turn \in Turns
      BY DEF HostTyped, Ask
    <3> QED BY <3>1, ConversationAssumption
  <2>3. UNCHANGED <<timeline, current>>
    BY <2>1, <2>2 DEF HostDecides, DecisionStands
  <2> QED BY <2>3
<1>5. CASE Deliver
  <2>1. PICK m : ReceiveUpdate(m) \/ ReceiveLoaded(m) \/ ReceivePermission(m)
                   \/ ReceiveAnswer(m)
    BY <1>5 DEF Deliver
  <2>2. ~ReceiveAnswer(m)
    <3>1. ASSUME ReceiveAnswer(m) PROVE FALSE
      <4>1. m.type = "answer" /\ m = inbound[1] /\ 1 \in DOMAIN inbound
        BY <3>1, MessageRead DEF ReceiveAnswer
      <4> QED BY <4>1 DEF OneAnswer
    <3> QED BY <3>1
  <2>3. UNCHANGED <<timeline, current>>
    BY <2>1, <2>2 DEF ReceiveUpdate, ReceiveLoaded, ReceivePermission, turnVars
  <2> QED BY <2>3
<1>6. CASE TerminalReturns
  <2>1. UNCHANGED current
    BY <1>6 DEF TerminalReturns, turnVars
  <2> QED BY <1>6, <2>1, ReturnLater
<1>7. CASE AgentUpdates \/ AgentAnswers \/ AgentLoads
  BY <1>7 DEF AgentUpdates, AgentAnswers, AgentLoads, turnVars
<1>8. CASE SetSessionUpdateHandler \/ ReadOutput \/ UNCHANGED vars
  BY <1>8 DEF SetSessionUpdateHandler, ReadOutput, vars, turnVars
<1>9. CASE \/ \E x \in Terminals : Exits(x)
           \/ \E op \in TerminalOps, x \in Terminals : CallTerminal(op, x)
  BY <1>9 DEF Exits, CallTerminal, turnVars
<1>10. CASE RunJob \/ EndJob
  <2>1. current \in Turns \cup {NoTurn}
    BY DEF TurnsTyped
  <2> QED BY <1>10, <2>1, FirstLook, LookHistory
<1> QED BY <1>1, <1>2, <1>3, <1>4, <1>5, <1>6, <1>7, <1>8, <1>9, <1>10 DEF Next
-----------------------------------------------------------------------------
(* From the connection to the history.                                     *)
UnderWay == Early \cup Held \cup Flushing \cup History
Outstanding == Waiting \cup Held \cup Queued \cup History

HistoryOk ==
  /\ History \subseteq Past
  /\ \A i, j \in Heard : i < j => timeline.history[i].n < timeline.history[j].n

Heeded(u) == u.type \in Spoken => u.sound

JobsHeeded ==
  \A i \in DOMAIN jobs :
    jobs[i].stage # "queued" => jobs[i].turn = NoTurn /\ Heeded(jobs[i].update)

(* The parts of the invariant.                                             *)
LEMMA ReplayingIs ==
  Replaying <=>
    /\ current = NoTurn /\ timeline.replay = 0
    /\ ToSet(replayed) \subseteq 0..wrote /\ ToSet(replayed) \subseteq UnderWay
    /\ \A n \in Outstanding : Placed(n)
    /\ HistoryOk /\ JobsHeeded
BY DEF Replaying, UnderWay, Outstanding, HistoryOk, JobsHeeded, Heeded

(* No message is lost when what was replayed and is under way stays so and *)
(* nothing new comes.                                                      *)
LEMMA NothingLost ==
  ASSUME ChannelTyped, UNCHANGED <<replayed, wrote>>,
         ToSet(replayed) \subseteq 0..wrote, ToSet(replayed) \subseteq UnderWay,
         \A n \in Outstanding : Placed(n),
         opening # "loading" => opening' # "loading",
         UnderWay \subseteq UnderWay', Outstanding' \subseteq Outstanding
  PROVE  /\ ToSet(replayed)' \subseteq 0..wrote' /\ ToSet(replayed)' \subseteq UnderWay'
         /\ \A n \in Outstanding' : Placed(n)'
<1>1. ToSet(replayed)' = ToSet(replayed)
  OBVIOUS
<1>2. ASSUME NEW n, Placed(n) PROVE Placed(n)'
  BY <1>1, <1>2 DEF Placed
<1> QED BY <1>1, <1>2

(* The same history, further in the past.                                  *)
LEMMA HistorySame ==
  ASSUME HistoryOk, Past \subseteq Past', timeline'.history = timeline.history
  PROVE  HistoryOk' /\ History' = History
BY DEF HistoryOk, History, Heard

(* Where the agent's messages are when nothing of the channel changes.     *)
LEMMA PlacesSame ==
  ASSUME UNCHANGED <<inbound, buffered, jobs>>, opening' = opening
  PROVE  /\ Early' = Early /\ Held' = Held /\ Flushing' = Flushing
         /\ Waiting' = Waiting /\ Queued' = Queued
BY DEF Early, Held, Flushing, Waiting, Queued, Arriving, BeforeLoaded

(* A message is written at the end of the connection.                      *)
LEMMA PlacesWritten ==
  ASSUME ChannelTyped, LoadOk, NEW m \in Inbound, Send(m), UNCHANGED <<buffered, jobs>>,
         IF m.type = "loaded" THEN opening = "loading" /\ opening' = "answered"
         ELSE opening' = opening
  PROVE  /\ Early \subseteq Early' /\ Held' = Held /\ Flushing' = Flushing
         /\ Queued' = Queued
         /\ Waiting' \subseteq
              Waiting \cup (IF m.type \in UpdateTypes /\ Speaks(m) THEN {m.n} ELSE {})
         /\ m.type \in UpdateTypes /\ Speaks(m) /\ opening = "loading" => m.n \in Early'
<1> DEFINE k == Len(inbound)
<1>1. /\ k \in Nat /\ DOMAIN inbound = 1..k /\ DOMAIN inbound' = 1..(k + 1)
      /\ \A i \in 1..k : inbound'[i] = inbound[i]
      /\ inbound'[k + 1] = m
  BY Longer DEF Send, ChannelTyped
<1> HIDE DEF k
<1>2. Arriving \subseteq 1..k
      /\ Arriving' = IF m.type \in UpdateTypes THEN Arriving \cup {k + 1} ELSE Arriving
  BY <1>1 DEF Arriving
<1>3. ASSUME NEW i \in Arriving, BeforeLoaded(i) PROVE BeforeLoaded(i)'
  <2> SUFFICES ASSUME NEW j \in 1..(k + 1), inbound'[j].type = "loaded" PROVE i < j
    BY <1>1 DEF BeforeLoaded
  <2>1. CASE j = k + 1
    BY <1>1, <1>2, <2>1
  <2>2. CASE j \in 1..k
    BY <1>1, <1>3, <2>2 DEF BeforeLoaded
  <2> QED BY <1>1, <2>1, <2>2
<1>4. Early \subseteq Early'
  <2> SUFFICES ASSUME NEW i \in Arriving, opening \in {"loading", "answered"},
                      Speaks(inbound[i]), BeforeLoaded(i)
               PROVE  inbound[i].n \in Early'
    BY DEF Early
  <2>1. i \in Arriving' /\ inbound'[i] = inbound[i] /\ BeforeLoaded(i)'
    BY <1>1, <1>2, <1>3
  <2>2. opening' \in {"loading", "answered"}
    OBVIOUS
  <2> QED BY <2>1, <2>2 DEF Early, Speaks
<1>5. Held' = Held /\ Flushing' = Flushing /\ Queued' = Queued
  BY DEF Held, Flushing, Queued, Speaks
<1>6. Waiting' \subseteq
        Waiting \cup (IF m.type \in UpdateTypes /\ Speaks(m) THEN {m.n} ELSE {})
  <2> SUFFICES ASSUME NEW i \in Arriving', Speaks(inbound'[i])
               PROVE  inbound'[i].n \in Waiting
                        \/ (m.type \in UpdateTypes /\ Speaks(m) /\ inbound'[i].n = m.n)
    BY DEF Waiting, Speaks
  <2>1. CASE i \in Arriving
    BY <1>1, <1>2, <2>1 DEF Waiting
  <2>2. CASE i = k + 1 /\ m.type \in UpdateTypes
    BY <1>1, <2>2
  <2> QED BY <1>2, <2>1, <2>2
<1>7. ASSUME m.type \in UpdateTypes, Speaks(m), opening = "loading" PROVE m.n \in Early'
  <2>1. \A j \in DOMAIN inbound' : inbound'[j].type # "loaded"
    <3>1. m.type # "loaded"
      BY <1>7, TypesApart
    <3>2. \A j \in 1..k : inbound[j].type # "loaded"
      BY <1>1, <1>7 DEF LoadOk
    <3> QED BY <1>1, <3>1, <3>2
  <2>2. PICK l \in Arriving' : inbound'[l] = m
    BY <1>1, <1>2, <1>7
  <2>3. BeforeLoaded(l)'
    BY <2>1 DEF BeforeLoaded
  <2>4. l \in {i \in Arriving' : /\ opening' \in {"loading", "answered"}
                                 /\ Speaks(inbound'[i]) /\ BeforeLoaded(i)'}
    BY <1>7, <2>2, <2>3
  <2> QED BY <2>2, <2>4 DEF Early, Speaks
<1> QED BY <1>4, <1>5, <1>6, <1>7

(* The first message is read: it leaves the connection.                    *)
LEMMA PlacesRead ==
  ASSUME ChannelTyped, InOrder, LoadOk, NEW m, Receive(m),
         IF m.type = "loaded" THEN opening' = "bootstrapped" ELSE opening' = opening
  PROVE  /\ Waiting' \subseteq Waiting
         /\ m.type \notin UpdateTypes => Early \subseteq Early'
         /\ m.type \in UpdateTypes =>
              \A n \in Early : n \in Early' \/ (Speaks(m) /\ n = m.n)
         /\ m.type \in UpdateTypes /\ Speaks(m) => m.n \in Waiting
<1> DEFINE k == Len(inbound)
<1>1. /\ k \in Nat \ {0} /\ DOMAIN inbound = 1..k /\ DOMAIN inbound' = 1..(k - 1)
      /\ \A i \in 1..(k - 1) : inbound'[i] = inbound[i + 1]
      /\ m = inbound[1]
      /\ \A i \in Arriving' : i + 1 \in Arriving /\ inbound'[i] = inbound[i + 1]
      /\ m.type \in UpdateTypes => 1 \in Arriving
  BY MessageRead
<1> HIDE DEF k
<1>2. Waiting' \subseteq Waiting
  <2> SUFFICES ASSUME NEW i \in Arriving', Speaks(inbound'[i])
               PROVE  inbound'[i].n \in Waiting
    BY DEF Waiting, Speaks
  <2> QED BY <1>1 DEF Waiting
<1>3. ASSUME NEW n \in Early PROVE n \in Early' \/ (m.type \in UpdateTypes /\ Speaks(m) /\ n = m.n)
  <2>1. PICK i \in Arriving : /\ opening \in {"loading", "answered"}
                              /\ Speaks(inbound[i]) /\ BeforeLoaded(i)
                              /\ n = inbound[i].n
    BY <1>3 DEF Early
  <2>2. i \in 1..k
    BY <1>1 DEF Arriving
  <2>3. CASE i = 1
    BY <1>1, <2>1, <2>3 DEF Arriving
  <2>4. CASE i # 1
    <3> DEFINE j == i - 1
    <3>1. j \in 1..(k - 1) /\ i = j + 1 /\ inbound'[j] = inbound[i]
      BY <1>1, <2>2, <2>4
    <3>2. j \in Arriving'
      BY <1>1, <2>1, <3>1 DEF Arriving
    <3>3. m.type # "loaded"
      BY <1>1, <2>1, <2>2, <2>4 DEF BeforeLoaded
    <3>4. ASSUME NEW l \in DOMAIN inbound', inbound'[l].type = "loaded" PROVE j < l
      <4>1. l \in 1..(k - 1) /\ l + 1 \in DOMAIN inbound /\ inbound[l + 1].type = "loaded"
        BY <1>1, <3>4
      <4>2. i < l + 1
        BY <2>1, <4>1 DEF BeforeLoaded
      <4> QED BY <3>1, <4>1, <4>2
    <3>5. BeforeLoaded(j)'
      BY <3>4 DEF BeforeLoaded
    <3>6. opening' \in {"loading", "answered"}
      BY <2>1, <3>3
    <3> HIDE DEF j
    <3>7. j \in {l \in Arriving' : /\ opening' \in {"loading", "answered"}
                                   /\ Speaks(inbound'[l]) /\ BeforeLoaded(l)'}
      BY <2>1, <3>1, <3>2, <3>5, <3>6
    <3> QED BY <2>1, <3>1, <3>7 DEF Early, Speaks
  <2> QED BY <2>3, <2>4
<1>4. m.type \in UpdateTypes /\ Speaks(m) => m.n \in Waiting
  BY <1>1 DEF Waiting
<1> QED BY <1>2, <1>3, <1>4

(* The agent writes an update: replayed, if it speaks before the load is   *)
(* answered.                                                               *)
LEMMA ReplayWritten ==
  ASSUME ChannelTyped, InOrder, LoadOk, Replaying, ChannelKept, AgentUpdates
  PROVE  Replaying'
<1>1. PICK u \in Updates :
        /\ wrote' = wrote + 1
        /\ Send([u EXCEPT !.n = wrote + 1, !.from = asked])
        /\ replayed' = IF opening = "loading" /\ u.type \in {"user", "text"} /\ u.sound
                       THEN Append(replayed, wrote + 1) ELSE replayed
        /\ UNCHANGED <<asked, opening, buffered, jobs, timeline, current>>
  BY DEF AgentUpdates, turnVars
<1> DEFINE n == wrote + 1
           m == [u EXCEPT !.n = n, !.from = asked]
<1>2. n \in Nat /\ asked \in Turns \cup {NoTurn} /\ replayed \in Seq(Nat) /\ wrote \in Nat
      /\ wrote < n
  BY DEF ChannelTyped
<1> HIDE DEF n
<1>3. m \in Inbound /\ m.n = n /\ m.type = u.type /\ m.type \in UpdateTypes
  BY <1>2, UpdateWritten, ZenonT(60)
<1>4. m.sound = u.sound
  BY ConversationAssumption
<1>5. Send(m)
  BY <1>1 DEF n
<1> HIDE DEF m
<1>6. Speaks(m) <=> u.type \in {"user", "text"} /\ u.sound
  BY <1>3, <1>4 DEF Speaks, Spoken
<1>7. m.type # "loaded"
  BY <1>3, TypesApart
<1>8. /\ Early \subseteq Early' /\ Held' = Held /\ Flushing' = Flushing /\ Queued' = Queued
      /\ Waiting' \subseteq Waiting \cup (IF Speaks(m) THEN {n} ELSE {})
      /\ Speaks(m) /\ opening = "loading" => n \in Early'
  BY <1>1, <1>3, <1>5, <1>7, PlacesWritten
<1>9. HistoryOk' /\ History' = History /\ JobsHeeded'
  BY <1>1, HistorySame, ReplayingIs DEF ChannelKept, JobsHeeded
<1>10. /\ ToSet(replayed) \subseteq 0..wrote /\ ToSet(replayed) \subseteq UnderWay
       /\ \A i \in Outstanding : Placed(i)
  BY ReplayingIs
<1>11. UnderWay \subseteq UnderWay' /\ Outstanding' \subseteq Outstanding \cup (IF Speaks(m) THEN {n} ELSE {})
       /\ (Speaks(m) /\ opening = "loading" => n \in UnderWay')
  BY <1>8, <1>9 DEF UnderWay, Outstanding
<1>12. ToSet(replayed)' = IF opening = "loading" /\ Speaks(m) THEN ToSet(replayed) \cup {n}
                          ELSE ToSet(replayed)
  <2>1. CASE opening = "loading" /\ Speaks(m)
    <3>1. replayed' = Append(replayed, n)
      BY <1>1, <1>6, <2>1 DEF n
    <3>2. /\ Len(replayed) \in Nat /\ DOMAIN replayed = 1..Len(replayed)
          /\ DOMAIN replayed' = 1..(Len(replayed) + 1)
          /\ \A i \in 1..Len(replayed) : replayed'[i] = replayed[i]
          /\ replayed'[Len(replayed) + 1] = n
      BY <1>2, <3>1, Longer
    <3>3. \A i \in DOMAIN replayed' : replayed'[i] \in ToSet(replayed) \cup {n}
      BY <3>2 DEF ToSet
    <3>4. \A i \in DOMAIN replayed : replayed[i] \in {replayed'[j] : j \in DOMAIN replayed'}
      BY <3>2
    <3>5. n \in {replayed'[j] : j \in DOMAIN replayed'}
      <4>1. Len(replayed) + 1 \in DOMAIN replayed'
        BY <3>2
      <4> QED BY <3>2, <4>1
    <3> QED BY <2>1, <3>3, <3>4, <3>5 DEF ToSet
  <2>2. CASE ~(opening = "loading" /\ Speaks(m))
    BY <1>1, <1>6, <2>2
  <2> QED BY <2>1, <2>2
<1>13. ToSet(replayed)' \subseteq 0..wrote' /\ ToSet(replayed)' \subseteq UnderWay'
  <2>1. wrote' = n /\ 0..wrote \subseteq 0..n /\ n \in 0..n
    BY <1>1, <1>2 DEF n
  <2> QED BY <1>10, <1>11, <1>12, <2>1
<1>14. ASSUME NEW i \in Outstanding' PROVE Placed(i)'
  <2>1. CASE i \in Outstanding
    BY <1>1, <1>10, <1>12, <2>1 DEF Placed
  <2>2. CASE i = n /\ Speaks(m)
    <3>1. CASE opening = "loading"
      BY <1>12, <2>2, <3>1 DEF Placed
    <3>2. CASE opening # "loading"
      <4>1. \A j \in ToSet(replayed) : j < n
        BY <1>2, <1>10
      <4> QED BY <1>1, <1>12, <2>2, <3>2, <4>1 DEF Placed
    <3> QED BY <3>1, <3>2
  <2> QED BY <1>11, <1>14, <2>1, <2>2
<1>15. current' = NoTurn /\ timeline'.replay = 0
  BY <1>1, ReplayingIs
<1> QED BY <1>9, <1>13, <1>14, <1>15 DEF Replaying, UnderWay, Outstanding, HistoryOk, JobsHeeded, Heeded

(* A message is read, and an update goes to the buffer or to the actor.    *)
LEMMA ReplayRead ==
  ASSUME ChannelTyped, InOrder, LoadOk, Replaying, ChannelKept, NEW m,
         ReceiveUpdate(m) \/ ReceiveLoaded(m) \/ ReceivePermission(m),
         timeline'.history = timeline.history, timeline'.replay = timeline.replay,
         UNCHANGED current
  PROVE  Replaying'
<1>1. /\ Receive(m) /\ UNCHANGED <<wrote, replayed>>
      /\ IF m.type = "loaded" THEN opening' = "bootstrapped" ELSE opening' = opening
  BY DEF ReceiveUpdate, ReceiveLoaded, ReceivePermission
<1>2. HistoryOk' /\ History' = History
  BY HistorySame, ReplayingIs DEF ChannelKept
<1>3. opening # "loading" => opening' # "loading"
  BY <1>1
<1>4. /\ Waiting' \subseteq Waiting
      /\ m.type \notin UpdateTypes => Early \subseteq Early'
      /\ m.type \in UpdateTypes =>
           \A n \in Early : n \in Early' \/ (Speaks(m) /\ n = m.n)
      /\ m.type \in UpdateTypes /\ Speaks(m) => m.n \in Waiting
  BY <1>1, PlacesRead
<1>5. UnderWay \subseteq UnderWay' /\ Outstanding' \subseteq Outstanding /\ JobsHeeded'
  <2>1. CASE ReceiveLoaded(m) \/ ReceivePermission(m)
    <3>1. m.type \notin UpdateTypes /\ UNCHANGED <<buffered, jobs>>
      BY <2>1, TypesApart DEF ReceiveLoaded, ReceivePermission
    <3>2. Held' = Held /\ Flushing' = Flushing /\ Queued' = Queued
      BY <3>1 DEF Held, Flushing, Queued
    <3>3. JobsHeeded'
      BY <3>1, ReplayingIs DEF JobsHeeded
    <3> QED BY <1>2, <1>4, <3>1, <3>2, <3>3 DEF UnderWay, Outstanding
  <2>2. CASE ReceiveUpdate(m)
    <3>1. m \in SessionUpdate /\ m.type \in UpdateTypes
      BY <1>1, <2>2, MessageRead, TypesApart DEF ReceiveUpdate
    <3>2. CASE HandlerSet
      <4> DEFINE b == Job(m, FALSE)
                 k == Len(jobs)
      <4>1. b \in ActorJob /\ b.update = m /\ b.stage = "queued" /\ b.flush = FALSE
        BY <3>1, JobTyped DEF Job
      <4>2. jobs' = Append(jobs, b) /\ buffered' = buffered
        BY <2>2, <3>2 DEF ReceiveUpdate
      <4> HIDE DEF b
      <4>3. /\ k \in Nat /\ DOMAIN jobs = 1..k /\ DOMAIN jobs' = 1..(k + 1)
            /\ \A i \in 1..k : jobs'[i] = jobs[i]
            /\ jobs'[k + 1] = b
        BY <4>1, <4>2, Longer DEF ChannelTyped
      <4> HIDE DEF k
      <4>4. \A i \in DOMAIN jobs' : i \in DOMAIN jobs \/ jobs'[i] = b
        BY <4>3
      <4>5. Held' = Held
        BY <4>2 DEF Held
      <4>6. Flushing \subseteq Flushing'
        BY <4>3 DEF Flushing
      <4>7. Queued' \subseteq Queued \cup (IF Speaks(m) THEN {m.n} ELSE {})
        <5> SUFFICES ASSUME NEW i \in DOMAIN jobs', Speaks(jobs'[i].update)
                     PROVE  jobs'[i].update.n \in Queued
                              \/ (Speaks(m) /\ jobs'[i].update.n = m.n)
          BY DEF Queued, Speaks
        <5>1. CASE i \in DOMAIN jobs
          BY <4>3, <5>1 DEF Queued
        <5>2. CASE jobs'[i] = b
          BY <4>1, <5>2
        <5> QED BY <4>4, <5>1, <5>2
      <4>8. JobsHeeded'
        BY <4>1, <4>3, <4>4, ReplayingIs DEF JobsHeeded
      <4>9. Early = {}
        BY <3>2 DEF Early, HandlerSet
      <4> QED BY <1>2, <1>4, <3>1, <4>5, <4>6, <4>7, <4>8, <4>9 DEF UnderWay, Outstanding
    <3>3. CASE ~HandlerSet
      <4> DEFINE k == Len(buffered)
      <4>1. buffered' = Append(buffered, m) /\ jobs' = jobs
        BY <2>2, <3>3 DEF ReceiveUpdate
      <4>2. /\ k \in Nat /\ DOMAIN buffered = 1..k /\ DOMAIN buffered' = 1..(k + 1)
            /\ \A i \in 1..k : buffered'[i] = buffered[i]
            /\ buffered'[k + 1] = m
        BY <3>1, <4>1, Longer DEF ChannelTyped
      <4> HIDE DEF k
      <4>3. Flushing' = Flushing /\ Queued' = Queued /\ JobsHeeded'
        BY <4>1, ReplayingIs DEF Flushing, Queued, JobsHeeded
      <4>4. Held \subseteq Held'
        BY <4>2 DEF Held
      <4>5. Speaks(m) => m.n \in Held'
        <5>1. k + 1 \in DOMAIN buffered'
          BY <4>2
        <5> QED BY <4>2, <5>1 DEF Held, Speaks
      <4>6. Held' \subseteq Held \cup (IF Speaks(m) THEN {m.n} ELSE {})
        <5> SUFFICES ASSUME NEW i \in DOMAIN buffered', Speaks(buffered'[i])
                     PROVE  buffered'[i].n \in Held
                              \/ (Speaks(m) /\ buffered'[i].n = m.n)
          BY DEF Held, Speaks
        <5>1. CASE i \in 1..k
          BY <4>2, <5>1 DEF Held
        <5>2. CASE i = k + 1
          BY <4>2, <5>2
        <5> QED BY <4>2, <5>1, <5>2
      <4> QED BY <1>2, <1>4, <3>1, <4>3, <4>4, <4>5, <4>6 DEF UnderWay, Outstanding
    <3> QED BY <3>2, <3>3
  <2> QED BY <2>1, <2>2
<1>6. current' = NoTurn /\ timeline'.replay = 0
  BY ReplayingIs
<1>7. /\ ToSet(replayed)' \subseteq 0..wrote' /\ ToSet(replayed)' \subseteq UnderWay'
      /\ \A n \in Outstanding' : Placed(n)'
  BY <1>1, <1>3, <1>5, NothingLost, ReplayingIs
<1> QED BY <1>2, <1>5, <1>6, <1>7 DEF Replaying, UnderWay, Outstanding, HistoryOk, JobsHeeded, Heeded

(* The buffer becomes the actor's jobs.                                    *)
LEMMA ReplayFlushed ==
  ASSUME ChannelTyped, InOrder, LoadOk, Replaying, ChannelKept, SetSessionUpdateHandler
  PROVE  Replaying'
<1>1. /\ opening = "bootstrapped" /\ opening' = "flushing" /\ buffered' = <<>>
      /\ jobs' = [i \in DOMAIN buffered |-> Job(buffered[i], TRUE)]
      /\ UNCHANGED <<inbound, wrote, replayed, timeline, current>>
  BY DEF SetSessionUpdateHandler, agentVars, turnVars
<1>2. HistoryOk' /\ History' = History
  BY <1>1, HistorySame, ReplayingIs DEF ChannelKept
<1>3. Early = {}
  BY <1>1 DEF Early
<1>4. Waiting' = Waiting
  BY <1>1 DEF Waiting, Arriving, Speaks
<1>5. jobs = <<>>
  BY <1>1 DEF InOrder, HandlerSet
<1>6. Flushing = {}
  BY <1>5 DEF Flushing
<1>7. /\ DOMAIN jobs' = DOMAIN buffered /\ DOMAIN buffered' = {}
      /\ \A i \in DOMAIN buffered : /\ jobs'[i].update = buffered[i]
                                    /\ jobs'[i].flush = TRUE /\ jobs'[i].stage = "queued"
  BY <1>1 DEF Job
<1>8. Held' = {}
  BY <1>7 DEF Held
<1>9. Held \subseteq Flushing' /\ Queued' \subseteq Held
  BY <1>7 DEF Held, Flushing, Queued, Speaks
<1>10. JobsHeeded'
  BY <1>7 DEF JobsHeeded
<1>11. UnderWay \subseteq UnderWay' /\ Outstanding' \subseteq Outstanding
  BY <1>2, <1>3, <1>4, <1>6, <1>8, <1>9 DEF UnderWay, Outstanding
<1>12. /\ ToSet(replayed)' \subseteq 0..wrote' /\ ToSet(replayed)' \subseteq UnderWay'
       /\ \A n \in Outstanding' : Placed(n)'
  BY <1>1, <1>11, NothingLost, ReplayingIs
<1>13. current' = NoTurn /\ timeline'.replay = 0
  BY <1>1, ReplayingIs
<1> QED BY <1>2, <1>10, <1>12, <1>13 DEF Replaying, UnderWay, Outstanding, HistoryOk, JobsHeeded, Heeded
-----------------------------------------------------------------------------
(* The actor.                                                              *)
(* An update that was accepted speaks if it is of the kind that does.      *)
LEMMA AcceptedSpeaks ==
  \A u : /\ Accepted(u) => Heeded(u)
         /\ Speaks(u) => Accepted(u)
         /\ Heeded(u) /\ u.type \in Spoken => Speaks(u)
         /\ ShowsTerminal(u) => u.type \notin Spoken
BY DEF Speaks, Spoken, Heeded, Accepted, ChunkAccepted, ChunkTypes, ListAccepted,
       ToolTypes, ShowsTerminal

(* A job that begins and is not dropped carries an update that was         *)
(* accepted.                                                               *)
LEMMA BegunAccepted ==
  ASSUME ChannelTyped, RunJob, jobs' # Tail(jobs)
  PROVE  Accepted(jobs[1].update)
<1>1. Head(jobs) = jobs[1]
  BY Shorter DEF RunJob, ChannelTyped
<1> QED BY <1>1 DEF RunJob

(* The first job goes on, with what it says.                               *)
LEMMA JobOn ==
  ASSUME ChannelTyped, JobsHeeded, 1 \in DOMAIN jobs, DOMAIN jobs' = DOMAIN jobs,
         \A i \in DOMAIN jobs : i # 1 => jobs'[i] = jobs[i],
         LET j == jobs[1]
             b == jobs'[1]
         IN  /\ b.update.n = j.update.n /\ b.update.type = j.update.type
             /\ b.update.sound = j.update.sound /\ b.flush = j.flush
             /\ b.turn = NoTurn /\ Heeded(b.update)
  PROVE  Flushing' = Flushing /\ Queued' = Queued /\ JobsHeeded'
<1>1. \A i \in DOMAIN jobs :
        /\ jobs'[i].update.n = jobs[i].update.n
        /\ jobs'[i].flush = jobs[i].flush
        /\ Speaks(jobs'[i].update) <=> Speaks(jobs[i].update)
  BY DEF Speaks
<1>2. Flushing' = Flushing
  BY <1>1 DEF Flushing, Speaks
<1>3. Queued' = Queued
  BY <1>1 DEF Queued, Speaks
<1>4. JobsHeeded'
  BY DEF JobsHeeded, Heeded
<1> QED BY <1>2, <1>3, <1>4

(* The first job is done.                                                  *)
LEMMA JobDone ==
  ASSUME ChannelTyped, JobsHeeded, jobs # <<>>, jobs' = Tail(jobs)
  PROVE  LET raw == jobs[1].update
         IN  /\ \A n \in Flushing : n \in Flushing' \/ (Speaks(raw) /\ n = raw.n)
             /\ Queued' \subseteq Queued /\ JobsHeeded'
             /\ Speaks(raw) => raw.n \in Queued
<1> DEFINE k == Len(jobs)
<1>1. /\ k \in Nat \ {0} /\ DOMAIN jobs = 1..k /\ DOMAIN jobs' = 1..(k - 1)
      /\ \A i \in 1..(k - 1) : jobs'[i] = jobs[i + 1]
      /\ 1 \in DOMAIN jobs
  BY Shorter DEF ChannelTyped
<1> HIDE DEF k
<1>2. ASSUME NEW n \in Flushing
      PROVE  n \in Flushing' \/ (Speaks(jobs[1].update) /\ n = jobs[1].update.n)
  <2>1. PICK i \in 1..k : jobs[i].flush /\ Speaks(jobs[i].update) /\ n = jobs[i].update.n
    BY <1>1, <1>2 DEF Flushing
  <2>2. CASE i = 1
    BY <2>1, <2>2
  <2>3. CASE i # 1
    <3>1. PICK j \in 1..(k - 1) : i = j + 1
      <4>1. i - 1 \in 1..(k - 1) /\ i = (i - 1) + 1
        BY <1>1, <2>3
      <4> QED BY <4>1
    <3>2. j \in DOMAIN jobs' /\ jobs'[j] = jobs[i]
      BY <1>1, <3>1
    <3> QED BY <2>1, <3>2 DEF Flushing, Speaks
  <2> QED BY <2>2, <2>3
<1>3. Queued' \subseteq Queued
  <2> SUFFICES ASSUME NEW i \in 1..(k - 1), Speaks(jobs'[i].update)
               PROVE  jobs'[i].update.n \in Queued
    BY <1>1 DEF Queued, Speaks
  <2>1. i + 1 \in DOMAIN jobs /\ jobs'[i] = jobs[i + 1]
    BY <1>1
  <2> QED BY <2>1 DEF Queued
<1>4. JobsHeeded'
  <2> SUFFICES ASSUME NEW i \in 1..(k - 1), jobs'[i].stage # "queued"
               PROVE  jobs'[i].turn = NoTurn /\ Heeded(jobs'[i].update)
    BY <1>1 DEF JobsHeeded, Heeded
  <2>1. i + 1 \in DOMAIN jobs /\ jobs'[i] = jobs[i + 1]
    BY <1>1
  <2> QED BY <2>1 DEF JobsHeeded
<1>5. Speaks(jobs[1].update) => jobs[1].update.n \in Queued
  BY <1>1 DEF Queued
<1> QED BY <1>2, <1>3, <1>4, <1>5

(* One more event, later than all that was heard if it is heard.           *)
LEMMA HistoryLonger ==
  ASSUME TimelineTyped(timeline), HistoryOk, Past \subseteq Past', NEW e \in Events,
         timeline'.history = Append(timeline.history, e),
         e.type \in Spoken => e.n \in Past' /\ \A n \in History : n < e.n
  PROVE  /\ HistoryOk' /\ History \subseteq History'
         /\ History' \subseteq History \cup (IF e.type \in Spoken THEN {e.n} ELSE {})
         /\ e.type \in Spoken => e.n \in History'
<1> DEFINE h == timeline.history
           g == timeline'.history
           k == Len(h)
<1>1. /\ k \in Nat /\ DOMAIN h = 1..k /\ DOMAIN g = 1..(k + 1)
      /\ \A i \in 1..k : g[i] = h[i]
      /\ g[k + 1] = e
  BY Longer DEF TimelineTyped
<1> HIDE DEF k
<1>2. Heard \subseteq 1..k /\ \A i \in Heard : g[i] = h[i]
  BY <1>1 DEF Heard
<1>3. \A i \in Heard' : i \in Heard \/ (i = k + 1 /\ e.type \in Spoken)
  BY <1>1 DEF Heard
<1>4. Heard \subseteq Heard' /\ (e.type \in Spoken => k + 1 \in Heard')
  BY <1>1 DEF Heard
<1>5. History \subseteq History'
  BY <1>2, <1>4 DEF History
<1>6. History' \subseteq History \cup (IF e.type \in Spoken THEN {e.n} ELSE {})
  <2> SUFFICES ASSUME NEW i \in Heard'
               PROVE  g[i].n \in History \/ (e.type \in Spoken /\ g[i].n = e.n)
    BY DEF History
  <2>1. CASE i \in Heard
    BY <1>2, <2>1 DEF History
  <2>2. CASE i = k + 1 /\ e.type \in Spoken
    BY <1>1, <2>2
  <2> QED BY <1>3, <2>1, <2>2
<1>7. e.type \in Spoken => e.n \in History'
  BY <1>1, <1>4 DEF History
<1>8. ASSUME NEW i \in Heard', NEW j \in Heard', i < j PROVE g[i].n < g[j].n
  <2>1. i \in Heard
    <3>1. i \in 1..(k + 1) /\ j \in 1..(k + 1)
      BY <1>1, <1>8 DEF Heard
    <3>2. i # k + 1
      BY <1>1, <1>8, <3>1
    <3> QED BY <1>3, <3>2
  <2>2. CASE j \in Heard
    BY <1>2, <1>8, <2>1, <2>2 DEF HistoryOk
  <2>3. CASE j = k + 1 /\ e.type \in Spoken
    <3>1. h[i].n < e.n
      BY <2>1, <2>3 DEF History
    <3> QED BY <1>1, <1>2, <2>1, <2>3, <3>1
  <2> QED BY <1>3, <2>2, <2>3
<1>9. History' \subseteq Past'
  BY <1>6 DEF HistoryOk
<1> QED BY <1>5, <1>6, <1>7, <1>8, <1>9 DEF HistoryOk

(* The history is older than the first job.                                *)
LEMMA HistoryOlder ==
  ASSUME HistoryOk, 1 \in DOMAIN jobs
  PROVE  \A n \in History : n < jobs[1].update.n
BY DEF HistoryOk, Past

(* A job ends: what it says is history now.                                *)
LEMMA ReplayDone ==
  ASSUME ChannelTyped, InOrder, LoadOk, TurnsTyped, Replaying, ChannelKept,
         jobs # <<>>, jobs' = Tail(jobs), jobs[1].update.n \in Past',
         UNCHANGED <<inbound, wrote, replayed, opening, buffered, current>>,
         LET raw == jobs[1].update
         IN  \/ ~Speaks(raw) /\ UNCHANGED timeline
             \/ \E u \in SessionUpdate :
                  /\ Adds(timeline, timeline', u) /\ u.n = raw.n
                  /\ u.type \in Spoken <=> Speaks(raw)
  PROVE  Replaying'
<1> DEFINE raw == jobs[1].update
<1>1. 1 \in DOMAIN jobs /\ TimelineTyped(timeline) /\ HistoryOk /\ JobsHeeded
  BY Shorter, ReplayingIs DEF ChannelTyped, TurnsTyped
<1>2. /\ HistoryOk' /\ History \subseteq History' /\ timeline'.replay = timeline.replay
      /\ History' \subseteq History \cup (IF Speaks(raw) THEN {raw.n} ELSE {})
      /\ Speaks(raw) => raw.n \in History'
  <2>1. CASE timeline'.history = timeline.history /\ timeline'.replay = timeline.replay
             /\ ~Speaks(raw)
    BY <1>1, <2>1, HistorySame DEF ChannelKept
  <2>2. CASE \E u \in SessionUpdate :
               /\ Adds(timeline, timeline', u) /\ u.n = raw.n
               /\ u.type \in Spoken <=> Speaks(raw)
    <3>1. PICK u \in SessionUpdate :
               /\ Adds(timeline, timeline', u) /\ u.n = raw.n
               /\ u.type \in Spoken <=> Speaks(raw)
      BY <2>2
    <3>2. CASE timeline'.history = timeline.history /\ u.type \notin Spoken
      BY <2>1, <3>1, <3>2 DEF Adds
    <3>3. CASE \E e \in Events : /\ timeline'.history = Append(timeline.history, e)
                                 /\ e.type \in Spoken <=> u.type \in Spoken
                                 /\ u.type \in Spoken => e.n = u.n
      <4>1. PICK e \in Events : /\ timeline'.history = Append(timeline.history, e)
                                /\ e.type \in Spoken <=> u.type \in Spoken
                                /\ u.type \in Spoken => e.n = u.n
        BY <3>3
      <4>2. e.type \in Spoken => e.n \in Past' /\ \A n \in History : n < e.n
        BY <1>1, <3>1, <4>1, HistoryOlder
      <4>3. /\ HistoryOk' /\ History \subseteq History'
            /\ History' \subseteq History \cup (IF e.type \in Spoken THEN {e.n} ELSE {})
            /\ e.type \in Spoken => e.n \in History'
        BY <1>1, <4>1, <4>2, HistoryLonger DEF ChannelKept
      <4>4. timeline'.replay = timeline.replay
        BY <3>1 DEF Adds
      <4> QED BY <3>1, <4>1, <4>3, <4>4
    <3> QED BY <3>1, <3>2, <3>3 DEF Adds
  <2> QED BY <2>1, <2>2
<1>3. /\ \A n \in Flushing : n \in Flushing' \/ (Speaks(raw) /\ n = raw.n)
      /\ Queued' \subseteq Queued /\ JobsHeeded'
      /\ Speaks(raw) => raw.n \in Queued
  BY <1>1, JobDone
<1>4. Early' = Early /\ Held' = Held /\ Waiting' = Waiting
  BY DEF Early, Held, Waiting, Arriving, BeforeLoaded, Speaks
<1> HIDE DEF raw
<1>5. UnderWay \subseteq UnderWay'
  BY <1>2, <1>3, <1>4 DEF UnderWay
<1>6. Outstanding' \subseteq Outstanding
  BY <1>2, <1>3, <1>4 DEF Outstanding
<1>7. /\ ToSet(replayed)' \subseteq 0..wrote' /\ ToSet(replayed)' \subseteq UnderWay'
      /\ \A n \in Outstanding' : Placed(n)'
  BY <1>5, <1>6, NothingLost, ReplayingIs
<1>8. current' = NoTurn /\ timeline'.replay = 0
  BY <1>2, ReplayingIs
<1> QED BY <1>2, <1>3, <1>7, <1>8 DEF Replaying, UnderWay, Outstanding, HistoryOk, JobsHeeded, Heeded

(* The first job goes on and the history does not.                         *)
LEMMA ReplayOn ==
  ASSUME ChannelTyped, Replaying, ChannelKept,
         1 \in DOMAIN jobs, DOMAIN jobs' = DOMAIN jobs,
         \A i \in DOMAIN jobs : i # 1 => jobs'[i] = jobs[i],
         LET j == jobs[1]
             b == jobs'[1]
         IN  /\ b.update.n = j.update.n /\ b.update.type = j.update.type
             /\ b.update.sound = j.update.sound /\ b.flush = j.flush
             /\ b.turn = NoTurn /\ Heeded(b.update),
         UNCHANGED <<inbound, wrote, replayed, opening, buffered, current>>,
         timeline'.history = timeline.history, timeline'.replay = timeline.replay
  PROVE  Replaying'
<1>1. Flushing' = Flushing /\ Queued' = Queued /\ JobsHeeded'
  BY JobOn, ReplayingIs
<1>2. HistoryOk' /\ History' = History
  BY HistorySame, ReplayingIs DEF ChannelKept
<1>3. Early' = Early /\ Held' = Held /\ Waiting' = Waiting
  BY DEF Early, Held, Waiting, Arriving, BeforeLoaded, Speaks
<1>4. UnderWay \subseteq UnderWay' /\ Outstanding' \subseteq Outstanding
  BY <1>1, <1>2, <1>3 DEF UnderWay, Outstanding
<1>5. /\ ToSet(replayed)' \subseteq 0..wrote' /\ ToSet(replayed)' \subseteq UnderWay'
      /\ \A n \in Outstanding' : Placed(n)'
  BY <1>4, NothingLost, ReplayingIs
<1>6. current' = NoTurn /\ timeline'.replay = 0
  BY ReplayingIs
<1> QED BY <1>1, <1>2, <1>5, <1>6 DEF Replaying, UnderWay, Outstanding, HistoryOk, JobsHeeded, Heeded

(* The first look of a job: what is dropped does not speak.                *)
LEMMA ReplayLook ==
  ASSUME ChannelTyped, InOrder, LoadOk, TurnsTyped, Replaying, ChannelKept,
         RunJob \/ EndJob
  PROVE  Replaying'
<1>0. current = NoTurn /\ current \in Turns \cup {NoTurn} /\ JobsHeeded
  BY ReplayingIs
<1>1. /\ jobs # <<>> /\ 1 \in DOMAIN jobs /\ jobs[1] \in ActorJob
      /\ jobs[1].stage \in {"queued", "read"}
      /\ UNCHANGED <<inbound, wrote, asked, replayed, opening, buffered, current>>
      /\ \/ Drops
         \/ \E b : Carries(b, jobs[1]) /\ Waits(b)
         \/ \E b : Carries(b, jobs[1]) /\ Writes(b)
  BY <1>0, FirstLook
<1>2. TurnOfJob(jobs[1]) = NoTurn
  BY <1>0, <1>1 DEF TurnOfJob, JobsHeeded
<1>3. timeline'.history = timeline.history /\ timeline'.replay = timeline.replay
  BY LookHistory
<1>4. CASE Drops
  <2>1. ShouldCommit(NoTurn)
    BY <1>0, ConversationAssumption DEF ShouldCommit, TurnsTyped
  <2>2. ~Speaks(jobs[1].update)
    BY <1>2, <1>4, <2>1, AcceptedSpeaks DEF Drops
  <2>3. jobs' = Tail(jobs) /\ UNCHANGED timeline
    BY <1>4 DEF Drops
  <2>4. jobs[1].update.n \in Past'
    BY <1>1, <2>3, JobTaken
  <2> QED BY <1>1, <2>2, <2>3, <2>4, ReplayDone
<1>5. ASSUME NEW b, Carries(b, jobs[1]), Waits(b) \/ Writes(b)
      PROVE  Replaying'
  <2>1. jobs' = [jobs EXCEPT ![1] = b]
    BY <1>5 DEF Waits, Writes
  <2>2. /\ DOMAIN jobs' = DOMAIN jobs /\ jobs'[1] = b
        /\ \A i \in DOMAIN jobs : i # 1 => jobs'[i] = jobs[i]
    BY <1>1, <2>1, FirstChanged
  <2>3. /\ b.update.n = jobs[1].update.n /\ b.update.type = jobs[1].update.type
        /\ b.update.sound = jobs[1].update.sound /\ b.flush = jobs[1].flush
        /\ b.turn = NoTurn
    BY <1>2, <1>5 DEF Carries
  <2>4. Heeded(b.update)
    <3>1. CASE Waits(b)
      BY <3>1, AcceptedSpeaks DEF Waits, Heeded
    <3>2. CASE EndJob
      <4>1. jobs[1].stage # "queued"
        BY <1>1, <3>2, Shorter DEF EndJob, ChannelTyped
      <4> QED BY <1>0, <1>1, <2>3, <4>1 DEF JobsHeeded, Heeded
    <3>3. CASE RunJob
      <4>1. jobs' # Tail(jobs)
        <5>1. /\ Len(jobs) \in Nat \ {0} /\ DOMAIN jobs = 1..Len(jobs)
              /\ DOMAIN Tail(jobs) = 1..(Len(jobs) - 1)
          BY <1>1, Shorter DEF ChannelTyped
        <5>2. Len(jobs) \in 1..Len(jobs) /\ Len(jobs) \notin 1..(Len(jobs) - 1)
          BY <5>1
        <5>3. DOMAIN jobs' # DOMAIN Tail(jobs)
          BY <2>2, <5>1, <5>2
        <5> QED BY <5>3
      <4>2. Accepted(jobs[1].update)
        BY <3>3, <4>1, BegunAccepted
      <4> QED BY <2>3, <4>2, AcceptedSpeaks DEF Heeded
    <3> QED BY <1>5, <3>1, <3>2, <3>3
  <2> QED BY <1>1, <1>3, <2>2, <2>3, <2>4, ReplayOn
<1> QED BY <1>1, <1>4, <1>5

(* A job looks at a terminal.                                              *)
LEMMA ReplayReads ==
  ASSUME ChannelTyped, InOrder, LoadOk, TurnsTyped, Replaying, ChannelKept, ReadOutput
  PROVE  Replaying'
<1>1. PICK stage, exit :
        /\ jobs # <<>> /\ Head(jobs).stage = "reading"
        /\ jobs' = [jobs EXCEPT ![1].stage = stage, ![1].exit = exit]
        /\ UNCHANGED <<inbound, wrote, replayed, opening, buffered, current, timeline>>
  <2>1. /\ \E stage, exit : jobs' = [jobs EXCEPT ![1].stage = stage, ![1].exit = exit]
        /\ jobs # <<>> /\ Head(jobs).stage = "reading"
        /\ UNCHANGED <<inbound, wrote, replayed, opening, buffered, current, timeline>>
    BY DEF ReadOutput, agentVars, turnVars
  <2> QED BY <2>1
<1>2. 1 \in DOMAIN jobs /\ Head(jobs) = jobs[1]
  BY <1>1, Shorter DEF ChannelTyped
<1>3. jobs[1] \in [update : SessionUpdate, flush : BOOLEAN,
                   stage : {"queued", "reading", "read", "written"},
                   turn : Turns \cup {NoTurn}, exit : Reads]
  BY <1>2, JobsTyped DEF ActorJob
<1>4. /\ DOMAIN jobs' = DOMAIN jobs /\ \A i \in DOMAIN jobs : i # 1 => jobs'[i] = jobs[i]
      /\ jobs'[1].update = jobs[1].update /\ jobs'[1].flush = jobs[1].flush
      /\ jobs'[1].turn = jobs[1].turn
  BY <1>1, <1>2, <1>3
<1>5. jobs[1].turn = NoTurn /\ Heeded(jobs[1].update)
  BY <1>1, <1>2, ReplayingIs DEF JobsHeeded
<1> QED BY <1>1, <1>2, <1>4, <1>5, ReplayOn

(* The second look of a job: what it says is history now.                  *)
LEMMA ReplayTells ==
  ASSUME ChannelTyped, InOrder, LoadOk, TurnsTyped, Replaying, ChannelKept, TellHost
  PROVE  Replaying'
<1>1. /\ jobs # <<>> /\ Head(jobs).stage = "written" /\ jobs' = Tail(jobs)
      /\ UNCHANGED <<inbound, wrote, asked, replayed, opening, buffered, current>>
  BY DEF TellHost, agentVars, turnVars
<1>2. 1 \in DOMAIN jobs /\ Head(jobs) = jobs[1]
  BY <1>1, Shorter DEF ChannelTyped
<1>3. jobs[1].update \in SessionUpdate
  BY <1>2, JobsTyped DEF ActorJob
<1>4. jobs[1].turn = NoTurn /\ Heeded(jobs[1].update)
  BY <1>1, <1>2, ReplayingIs DEF JobsHeeded
<1>5. jobs[1].update.type \in Spoken <=> Speaks(jobs[1].update)
  BY <1>4, AcceptedSpeaks DEF Speaks
<1>6. jobs[1].update.n \in Past'
  BY <1>1, JobTaken
<1>7. Adds(timeline, timeline', jobs[1].update)
  BY <1>4, TellAdds
<1> QED BY <1>1, <1>3, <1>5, <1>6, <1>7, ReplayDone
-----------------------------------------------------------------------------
(* The session opens, and stays open.                                      *)
(* The seal: nothing that was replayed is under way any more.              *)
LEMMA ReplaySealed ==
  ASSUME ChannelTyped, InOrder, TurnsTyped, Replaying, SealHistoryReplay
  PROVE  timeline'.replay <= Len(timeline'.history) /\ ReplayWhole'
<1>1. /\ opening = "flushing" /\ Flushed /\ timeline' = Seal(timeline)
      /\ UNCHANGED replayed
  BY DEF SealHistoryReplay, agentVars
<1> DEFINE h == timeline.history
           k == Len(h)
<1>2. k \in Nat /\ DOMAIN h = 1..k
  BY DEF TurnsTyped, TimelineTyped
<1> HIDE DEF k
<1>3. timeline'.history = h /\ timeline'.replay = k
  <2>1. timeline.replay = 0
    BY ReplayingIs
  <2>2. timeline' = [timeline EXCEPT !.replay = k]
    BY <1>1, <2>1 DEF Seal, k
  <2> QED BY <2>2, FieldsOfTimeline DEF TurnsTyped, TimelineTyped, ThreadTyped
<1>4. Early = {} /\ Held = {} /\ Flushing = {}
  <2>1. Early = {}
    BY <1>1 DEF Early
  <2>2. Held = {}
    BY <1>1 DEF Held, InOrder, HandlerSet
  <2>3. Flushing = {}
    BY <1>1 DEF Flushing, Flushed
  <2> QED BY <2>1, <2>2, <2>3
<1>5. /\ ToSet(replayed) \subseteq History /\ HistoryOk
      /\ \A n \in History : Placed(n)
  BY <1>4, ReplayingIs DEF UnderWay, Outstanding
<1>6. ToSet(replayed) \subseteq Nat /\ History \subseteq Nat
  <2>1. ToSet(replayed) \subseteq 0..wrote /\ History \subseteq 0..wrote
    BY <1>5, ReplayingIs DEF HistoryOk, Past
  <2> QED BY <2>1 DEF ChannelTyped
<1> DEFINE drained == {i \in Heard : i <= k}
<1>7. drained = Heard /\ Heard' = Heard
  <2>1. Heard \subseteq 1..k
    BY <1>2 DEF Heard
  <2> QED BY <1>2, <1>3, <2>1 DEF Heard
<1>8. ToSet(replayed) \subseteq {h[i].n : i \in drained}
  BY <1>5, <1>7 DEF History
<1>9. \A i, j \in drained : i < j => h[i].n < h[j].n
  BY <1>5, <1>7 DEF HistoryOk
<1>10. ASSUME NEW i \in drained, NEW m \in ToSet(replayed), h[i].n < m
       PROVE  h[i].n \in ToSet(replayed)
  <2>1. h[i].n \in History
    BY <1>7, <1>10 DEF History
  <2>2. PICK x \in Nat : x = h[i].n
    BY <1>6, <2>1
  <2>3. m \in Nat /\ x < m
    BY <1>6, <1>10, <2>2
  <2>4. ~(m < x)
    BY <2>3
  <2> QED BY <1>5, <2>1, <2>2, <2>4 DEF Placed
<1> HIDE DEF drained, h
<1>11. /\ {i \in Heard' : i <= timeline'.replay} = drained
       /\ timeline'.history = h /\ ToSet(replayed)' = ToSet(replayed)
  BY <1>1, <1>3, <1>7 DEF drained
<1>12. ReplayWhole'
  BY <1>8, <1>9, <1>10, <1>11 DEF ReplayWhole
<1>13. timeline'.replay <= Len(timeline'.history)
  BY <1>2, <1>3 DEF h, k
<1> QED BY <1>12, <1>13

(* What can be drained does not change once the session is open.           *)
LEMMA ReplayKept ==
  ASSUME TurnsTyped, TurnsTyped', ReplayWhole, timeline.replay <= Len(timeline.history),
         Longed(timeline, timeline'), opening = "open", UNCHANGED replayed
  PROVE  ReplayWhole'
<1> DEFINE h == timeline.history
           g == timeline'.history
           r == timeline.replay
           drained == {i \in Heard : i <= r}
<1>1. /\ Len(h) \in Nat /\ DOMAIN h = 1..Len(h) /\ r \in Nat
      /\ DOMAIN g \subseteq Nat \ {0}
  BY DEF TurnsTyped, TimelineTyped
<1>2. /\ timeline'.replay = r
      /\ \A i \in DOMAIN h : i \in DOMAIN g /\ g[i] = h[i]
  BY DEF Longed
<1>3. \A i \in drained : i \in DOMAIN h
  BY DEF Heard
<1>4. {i \in Heard' : i <= r} = drained
  <2>1. ASSUME NEW i \in drained PROVE i \in Heard' /\ i <= r
    BY <1>2, <1>3 DEF Heard
  <2>2. ASSUME NEW i \in Heard', i <= r PROVE i \in drained
    <3>1. i \in DOMAIN g /\ g[i].type \in Spoken
      BY <2>2 DEF Heard
    <3>2. i \in Nat \ {0}
      BY <1>1, <3>1
    <3>3. i \in DOMAIN h
      BY <1>1, <2>2, <3>2
    <3> QED BY <1>2, <2>2, <3>1, <3>3 DEF Heard
  <2> QED BY <2>1, <2>2
<1> HIDE DEF h, g, r, drained
<1>5. /\ ToSet(replayed) \subseteq {h[i].n : i \in drained}
      /\ \A i, j \in drained : i < j => h[i].n < h[j].n
      /\ \A i \in drained, m \in ToSet(replayed) :
           h[i].n < m => h[i].n \in ToSet(replayed)
  BY DEF ReplayWhole, h, drained, r
<1>6. \A i \in drained : g[i] = h[i]
  BY <1>2, <1>3
<1>7. ToSet(replayed) \subseteq {g[i].n : i \in drained}
  BY <1>5, <1>6
<1>8. /\ \A i, j \in drained : i < j => g[i].n < g[j].n
      /\ \A i \in drained, m \in ToSet(replayed) :
           g[i].n < m => g[i].n \in ToSet(replayed)
  BY <1>5, <1>6
<1>9. /\ {i \in Heard' : i <= timeline'.replay} = drained
      /\ timeline'.history = g /\ ToSet(replayed)' = ToSet(replayed)
  BY <1>2, <1>4 DEF g
<1> QED BY <1>7, <1>8, <1>9 DEF ReplayWhole

(* Every step keeps the invariant.                                         *)
LEMMA ReplayStep ==
  ASSUME ReplayInv, [Next]_vars
  PROVE  ReplayInv'
<1>1. /\ IInv /\ ChannelTyped /\ InOrder /\ LoadOk /\ TurnsTyped /\ HostTyped /\ OneAnswer
      /\ ProcessTyped
  BY TypeSplit, AnswerSplit DEF IInv, HostTyped, ReplayInv, ProcessTyped
<1>2. IInv'
  BY <1>1, InvStep
<1>3. ChannelKept /\ TurnsTyped'
  <2>1. current \in Turns \cup {NoTurn}
    BY <1>1 DEF TurnsTyped
  <2>2. ChannelKept
    BY <1>1, <2>1, ChannelStep
  <2>3. TurnsTyped'
    <3>1. TypeOK'
      BY <1>2 DEF IInv
    <3> QED BY <3>1, TypeSplit, PTL
  <2> QED BY <2>2, <2>3
<1>4. ~SealHistoryReplay => Longed(timeline, timeline')
  BY <1>1, HistoryStep
<1>5. /\ Len(timeline.history) \in Nat /\ Len(timeline'.history) \in Nat
      /\ timeline.replay \in Nat
  BY <1>1, <1>3 DEF TurnsTyped, TimelineTyped
<1>6. ~SealHistoryReplay => timeline'.replay <= Len(timeline'.history)
  BY <1>4, <1>5 DEF Longed, ReplayInv
<1>7. CASE opening = "open"
  <2>1. ~SealHistoryReplay
    BY <1>7 DEF SealHistoryReplay
  <2>2. opening' = "open" /\ UNCHANGED replayed
    <3>1. CASE AgentUpdates \/ AgentAsks \/ AgentAnswers \/ AgentLoads
      BY <1>7, <3>1 DEF AgentUpdates, AgentAsks, AgentAnswers, AgentLoads
    <3>2. CASE Deliver
      <4>1. PICK m : ReceiveUpdate(m) \/ ReceiveLoaded(m) \/ ReceivePermission(m)
                       \/ ReceiveAnswer(m)
        BY <3>2 DEF Deliver
      <4>2. ~ReceiveLoaded(m)
        <5>1. ASSUME ReceiveLoaded(m) PROVE FALSE
          <6>1. m.type = "loaded" /\ m = inbound[1] /\ 1 \in DOMAIN inbound
            BY <1>1, <5>1, MessageRead DEF ReceiveLoaded
          <6> QED BY <1>1, <1>7, <6>1 DEF LoadOk
        <5> QED BY <5>1
      <4> QED BY <1>7, <4>1, <4>2 DEF ReceiveUpdate, ReceivePermission, ReceiveAnswer
    <3>3. CASE SetSessionUpdateHandler \/ RunJob \/ ReadOutput \/ EndJob \/ TellHost
      BY <1>7, <3>3 DEF SetSessionUpdateHandler, RunJob, ReadOutput, EndJob, TellHost,
                        agentVars
    <3>4. CASE \E t \in Turns : StartTurn(t)
      BY <1>7, <3>4 DEF StartTurn
    <3>5. CASE Elsewhere
      BY <1>7, <3>5, ElsewhereKept DEF OthersUnchanged
    <3> QED BY <2>1, <3>1, <3>2, <3>3, <3>4, <3>5 DEF Next, Elsewhere
  <2>3. ReplayWhole'
    BY <1>1, <1>3, <1>4, <1>7, <2>1, <2>2, ReplayKept DEF ReplayInv
  <2> QED BY <1>2, <1>6, <2>1, <2>2, <2>3 DEF ReplayInv
<1>8. CASE opening # "open" /\ SealHistoryReplay
  <2>1. opening' = "open"
    BY <1>8 DEF SealHistoryReplay
  <2>2. timeline'.replay <= Len(timeline'.history) /\ ReplayWhole'
    BY <1>1, <1>8, ReplaySealed DEF ReplayInv
  <2> QED BY <1>2, <2>1, <2>2 DEF ReplayInv
<1>9. CASE opening # "open" /\ ~SealHistoryReplay
  <2>1. Replaying /\ current = NoTurn
    BY <1>9 DEF ReplayInv, Replaying
  <2>2. ~TellHost =>
          /\ timeline'.history = timeline.history /\ UNCHANGED current
          /\ timeline'.replay = timeline.replay
    BY <1>1, <1>4, <1>9, <2>1, HistoryRests DEF Longed
  <2>3. CASE AgentUpdates
    <3>1. Replaying' /\ opening' = opening
      BY <1>1, <1>3, <2>1, <2>3, ReplayWritten DEF AgentUpdates
    <3> QED BY <1>2, <1>6, <1>9, <3>1 DEF ReplayInv, ReplayWhole
  <2>4. CASE Deliver
    <3>1. PICK m : ReceiveUpdate(m) \/ ReceiveLoaded(m) \/ ReceivePermission(m)
                     \/ ReceiveAnswer(m)
      BY <2>4 DEF Deliver
    <3>2. ~ReceiveAnswer(m)
      <4>1. ASSUME ReceiveAnswer(m) PROVE FALSE
        <5>1. m.type = "answer" /\ m = inbound[1] /\ 1 \in DOMAIN inbound
          BY <1>1, <4>1, MessageRead DEF ReceiveAnswer
        <5> QED BY <1>1, <2>1, <5>1 DEF OneAnswer
      <4> QED BY <4>1
    <3>3. /\ timeline'.history = timeline.history /\ UNCHANGED current
          /\ timeline'.replay = timeline.replay
      <4>1. UNCHANGED <<timeline, current>>
        BY <2>1, <3>1, <3>2
           DEF ReceiveUpdate, ReceiveLoaded, ReceivePermission, turnVars
      <4> QED BY <4>1
    <3>4. Replaying' /\ opening' # "open"
      BY <1>1, <1>3, <1>9, <2>1, <3>1, <3>2, <3>3, ReplayRead
         DEF ReceiveUpdate, ReceiveLoaded, ReceivePermission
    <3> QED BY <1>2, <1>6, <1>9, <3>4 DEF ReplayInv, ReplayWhole
  <2>5. CASE SetSessionUpdateHandler
    <3>1. Replaying' /\ opening' # "open"
      BY <1>1, <1>3, <2>1, <2>5, ReplayFlushed DEF SetSessionUpdateHandler
    <3> QED BY <1>2, <1>6, <1>9, <3>1 DEF ReplayInv, ReplayWhole
  <2>6. CASE RunJob \/ ReadOutput \/ EndJob \/ TellHost
    <3>1. Replaying' /\ opening' = opening
      BY <1>1, <1>3, <2>1, <2>6, ReplayLook, ReplayReads, ReplayTells
         DEF RunJob, ReadOutput, EndJob, TellHost
    <3> QED BY <1>2, <1>6, <1>9, <3>1 DEF ReplayInv, ReplayWhole
  <2>7. CASE AgentLoads
    <3> DEFINE m == [type |-> "loaded"]
    <3>1. /\ opening = "loading" /\ opening' = "answered" /\ Send(m)
          /\ UNCHANGED <<wrote, asked, replayed, buffered, jobs, timeline, current>>
      BY <2>7 DEF AgentLoads, turnVars
    <3>2. m \in Inbound /\ m.type = "loaded"
      BY DEF Inbound
    <3>3. m.type \notin UpdateTypes
      BY <3>2, TypesApart
    <3> HIDE DEF m
    <3>4. /\ Early \subseteq Early' /\ Held' = Held /\ Flushing' = Flushing
          /\ Queued' = Queued /\ Waiting' \subseteq Waiting
      BY <1>1, <3>1, <3>2, <3>3, PlacesWritten
    <3>5. HistoryOk' /\ History' = History /\ JobsHeeded'
      BY <1>3, <2>1, <3>1, HistorySame, ReplayingIs DEF ChannelKept, JobsHeeded
    <3>6. UnderWay \subseteq UnderWay' /\ Outstanding' \subseteq Outstanding
      BY <3>4, <3>5 DEF UnderWay, Outstanding
    <3>7. /\ ToSet(replayed)' \subseteq 0..wrote' /\ ToSet(replayed)' \subseteq UnderWay'
          /\ \A n \in Outstanding' : Placed(n)'
      BY <1>1, <2>1, <3>1, <3>6, NothingLost, ReplayingIs
    <3>8. current' = NoTurn /\ timeline'.replay = 0
      BY <2>1, <3>1, ReplayingIs
    <3>9. Replaying'
      BY <3>5, <3>7, <3>8 DEF Replaying, UnderWay, Outstanding, HistoryOk, JobsHeeded, Heeded
    <3> QED BY <1>2, <1>6, <1>9, <3>1, <3>9 DEF ReplayInv, ReplayWhole
  <2>8. CASE Elsewhere /\ ~TellHost
    <3>1. UNCHANGED <<inbound, wrote, replayed, opening, buffered, jobs>>
      BY <2>8, ElsewhereKept DEF OthersUnchanged
    <3>2. /\ timeline'.history = timeline.history /\ UNCHANGED current
          /\ timeline'.replay = timeline.replay
      BY <2>2, <2>8
    <3>3. /\ Early' = Early /\ Held' = Held /\ Flushing' = Flushing
          /\ Waiting' = Waiting /\ Queued' = Queued
      BY <3>1, PlacesSame
    <3>4. HistoryOk' /\ History' = History /\ JobsHeeded'
      BY <1>3, <2>1, <3>1, <3>2, HistorySame, ReplayingIs DEF ChannelKept, JobsHeeded
    <3>5. UnderWay \subseteq UnderWay' /\ Outstanding' \subseteq Outstanding
      BY <3>3, <3>4 DEF UnderWay, Outstanding
    <3>6. /\ ToSet(replayed)' \subseteq 0..wrote' /\ ToSet(replayed)' \subseteq UnderWay'
          /\ \A n \in Outstanding' : Placed(n)'
      BY <1>1, <2>1, <3>1, <3>5, NothingLost, ReplayingIs
    <3>7. current' = NoTurn /\ timeline'.replay = 0
      BY <2>1, <3>2, ReplayingIs
    <3>8. Replaying'
      BY <3>4, <3>6, <3>7 DEF Replaying, UnderWay, Outstanding, HistoryOk, JobsHeeded, Heeded
    <3> QED BY <1>2, <1>6, <1>9, <3>1, <3>8 DEF ReplayInv, ReplayWhole
  <2>9. CASE AgentAnswers
    BY <1>1, <2>1, <2>9 DEF AgentAnswers, OneAnswer
  <2>10. CASE AgentAsks \/ \E t \in Turns : StartTurn(t)
    BY <1>9, <2>10 DEF AgentAsks, StartTurn
  <2> QED BY <1>9, <2>3, <2>4, <2>5, <2>6, <2>7, <2>8, <2>9, <2>10 DEF Next, Elsewhere
<1> QED BY <1>7, <1>8, <1>9

(* It holds at the start: nothing was replayed.                            *)
LEMMA ReplayInit == ASSUME Init PROVE ReplayInv
<1>1. /\ inbound = <<>> /\ buffered = <<>> /\ jobs = <<>> /\ replayed = <<>> /\ wrote = 0
      /\ opening = "loading" /\ current = NoTurn
      /\ timeline.history = <<>> /\ timeline.replay = 0
  BY DEF Init, EmptyTimeline
<1>2. /\ ToSet(replayed) = {} /\ Heard = {} /\ History = {} /\ Held = {} /\ Queued = {}
      /\ Arriving = {}
  BY <1>1 DEF ToSet, Heard, History, Held, Queued, Arriving
<1>3. Waiting = {}
  BY <1>2 DEF Waiting
<1>4. HistoryOk /\ JobsHeeded
  BY <1>1, <1>2 DEF HistoryOk, JobsHeeded
<1>5. Replaying
  BY <1>1, <1>2, <1>3, <1>4, ReplayingIs DEF Outstanding
<1> QED BY <1>1, <1>5, InitOk DEF ReplayInv, ReplayWhole

(* The inductive invariant of the replay: every message the agent replayed *)
(* is on the connection before its answer to the load, in the bridge's     *)
(* buffer, with the actor or in the history, in order; and nothing else    *)
(* that speaks is older (AuthorityBridge.sessionUpdate, the flush of       *)
(* setSessionUpdateHandler, waitForBufferedSessionUpdates).                *)
THEOREM ReplayInvariance == Spec => []ReplayInv
<1>1. Init => ReplayInv
  BY ReplayInit
<1>2. ReplayInv /\ [Next]_vars => ReplayInv'
  BY ReplayStep
<1> QED BY <1>1, <1>2, PTL DEF Spec

(* What the agent replayed before it answered the load is what the host    *)
(* can drain, whole, in order and before anything else.                    *)
THEOREM ReplayWholeHolds == Spec => []ReplayWhole
<1>1. ReplayInv => ReplayWhole
  BY DEF ReplayInv
<1> QED BY <1>1, ReplayInvariance, PTL

=============================================================================
