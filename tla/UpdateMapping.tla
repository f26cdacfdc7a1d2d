---------------------------- MODULE UpdateMapping ----------------------------
(***************************************************************************)
(* From what the agent sends to what the runtime means by it: the checks   *)
(* of session-update-normalizer.ts, and the operations, permissions and    *)
(* turn events of session-update-mapper.ts and turn-state.ts.              *)
(*                                                                         *)
(* Everything here is a function of the state of one turn.  An update is a *)
(* record [type, n, tool, status, content, sound, from]: n names its       *)
(* payload (text, plan, metadata), tool its tool call, content the objects *)
(* it shows, each [object, kind, sound]; sound is FALSE where a required   *)
(* field is missing or has the wrong type; from is the prompt the agent    *)
(* works on.                                                               *)
(***************************************************************************)
EXTENDS Naturals, Sequences, FiniteSets, SequencesExt

CONSTANT Absent   \* a field that is undefined or null

ToolStatuses == {"pending", "in_progress", "completed", "failed"}
Phases == {"proposed", "awaiting_permission", "running", "completed",
           "failed", "cancelled"}
\* A chunk whose block is no text, or an empty one, is a type of its own.
BlankTypes == {"blank_text", "blank_thought"}
ChunkTypes == {"user", "text", "thought"} \cup BlankTypes
MetadataTypes == {"commands", "mode", "options", "info"}
ToolTypes == {"tool_call", "tool_call_update"}
UpdateTypes ==
  ChunkTypes \cup MetadataTypes \cup ToolTypes \cup {"plan", "usage"}

-----------------------------------------------------------------------------
(* normalizeSessionNotification: what the driver takes for an update.      *)

ToolStatus(status) == IF status \in ToolStatuses THEN status ELSE Absent

ToolContent(content) ==
  IF content = Absent THEN Absent ELSE {c \in content : c.sound}

OrElse(value, default) == IF value = Absent THEN default ELSE value

ToolCall(u) ==
  [u EXCEPT !.status = OrElse(ToolStatus(u.status), "pending"),
            !.content = OrElse(ToolContent(u.content), {})]

ToolCallUpdate(u) ==
  [u EXCEPT !.status = ToolStatus(u.status), !.content = ToolContent(u.content)]

(* A chunk needs a content block of a known kind with all its fields.      *)
ChunkAccepted(u) == u.type \in ChunkTypes /\ u.sound

(* Lists lose their malformed members and records their malformed fields;  *)
(* what is left is taken.                                                  *)
ListAccepted(u) == u.type \in {"plan", "commands", "options", "info", "usage"}

Accepted(u) ==
  \/ ChunkAccepted(u)
  \/ ListAccepted(u)
  \/ u.type \in {"mode"} \cup ToolTypes /\ u.sound

Normalized(u) ==
  CASE u.type = "tool_call" -> ToolCall(u)
    [] u.type = "tool_call_update" -> ToolCallUpdate(u)
    [] OTHER -> u

-----------------------------------------------------------------------------
(* The state of a turn.                                                    *)

NoOperation ==
  [phase |-> "none", decision |-> "none", asked |-> FALSE, family |-> "none",
   denied |-> FALSE, request |-> 0]

NewTurnState(tools) ==
  [operations |-> [t \in tools |-> NoOperation], denied |-> {}, output |-> <<>>,
   requests |-> 0, timedOut |-> FALSE]

Known(turn, tool) == turn.operations[tool].phase # "none"

OperationPhase(status) ==
  CASE status = "in_progress" -> "running"
    [] status \in {"completed", "failed"} -> status
    [] OTHER -> "proposed"

(* A tool call the turn knows already keeps its operation and, unless it   *)
(* says otherwise, its phase.                                              *)
UpsertOperation(turn, tool, status) ==
  [turn EXCEPT !.operations[tool].phase =
     IF Known(turn, tool) /\ status = Absent THEN @ ELSE OperationPhase(status)]

Event(type, turn, state, tool) ==
  [type |-> type, turn |-> turn, tool |-> tool,
   operation |-> state.operations[tool]]

-----------------------------------------------------------------------------
(* mapSessionUpdateToRuntimeEvents: [state |-> the turn after the update,   *)
(* events |-> what the host is told].                                       *)

Outcome(state, events) == [state |-> state, events |-> events]

Progress(turn, tool, status) ==
  [turn EXCEPT !.operations[tool].phase =
     IF status = Absent THEN @ ELSE OperationPhase(status)]

(* A failure after a denial is a denial, and so is one the agent's profile *)
(* puts down to the session's mode.                                        *)
Blame(turn, tool, modeDenies) ==
  LET op == turn.operations[tool]
  IN  IF op.phase # "failed" \/ (op.decision # "denied" /\ ~modeDenies)
      THEN turn
      ELSE [turn EXCEPT
              !.operations[tool] =
                [op EXCEPT !.denied = TRUE, !.decision = "denied",
                   !.asked = (op.decision = "denied"),
                   !.family = IF op.decision # "denied" THEN "mode_denied"
                              ELSE IF op.family = "none" THEN "end_turn"
                              ELSE op.family],
              !.denied = @ \cup {tool}]

MapToolCallUpdate(id, turn, u, modeDenies) ==
  IF ~Known(turn, u.tool) THEN Outcome(turn, <<>>)
  ELSE LET after == Blame(Progress(turn, u.tool, u.status), u.tool, modeDenies)
           phase == after.operations[u.tool].phase
           type  == CASE phase = "completed" -> "operation_completed"
                      [] phase = "failed" -> "operation_failed"
                      [] OTHER -> "operation_updated"
       IN  Outcome(after, <<Event(type, id, after, u.tool)>>)

(* A block of any kind, of text or not, becomes one part of the output.    *)
ChunkOutput(u) == u.n

(* The event of a blank chunk is a text or thinking event without text;    *)
(* those without text of the agent's message are told apart here.          *)
MapUpdate(id, turn, u, modeDenies) ==
  CASE u.type \in {"text", "blank_text"} ->
         Outcome([turn EXCEPT !.output = Append(@, ChunkOutput(u))],
                 <<[type |-> u.type, turn |-> id, n |-> u.n]>>)
    [] u.type \in {"thought", "blank_thought"} ->
         Outcome(turn, <<[type |-> "thinking", turn |-> id, n |-> u.n]>>)
    [] u.type = "plan" ->
         Outcome(turn, <<[type |-> "plan_updated", turn |-> id, n |-> u.n]>>)
    [] u.type = "usage" ->
         Outcome(turn, <<[type |-> "usage_updated", turn |-> id, n |-> u.n]>>)
    [] u.type \in MetadataTypes ->
         Outcome(turn, <<[type |-> "metadata_updated", turn |-> id, n |-> u.n]>>)
    [] u.type = "tool_call" ->
         LET after == UpsertOperation(turn, u.tool, u.status)
         IN  Outcome(after, <<Event("operation_started", id, after, u.tool)>>)
    [] u.type = "tool_call_update" -> MapToolCallUpdate(id, turn, u, modeDenies)
    [] u.type = "user" -> Outcome(turn, <<>>)

-----------------------------------------------------------------------------
(* Permission requests: one more request of the turn, bound to its         *)
(* operation.                                                              *)

PermissionEvent(type, turn, state, tool, request, phase) ==
  [type |-> type, turn |-> turn, tool |-> tool,
   operation |-> state.operations[tool], request |-> request, phase |-> phase]

RequestPermission(turn, tool, status) ==
  LET known == UpsertOperation(turn, tool, OrElse(status, "pending"))
      next  == turn.requests + 1
  IN  [known EXCEPT
         !.operations[tool] = [@ EXCEPT !.phase = "awaiting_permission",
                                        !.asked = TRUE, !.request = next],
         !.requests = next]

(* handlePermissionRequest after the host's decision: the operation of a   *)
(* denial is denied for the rest of the turn.                              *)
ApplyDecision(turn, tool, decision) ==
  LET op == turn.operations[tool]
  IN  [turn EXCEPT
         !.operations[tool] = [op EXCEPT !.decision = decision, !.asked = TRUE,
                                 !.denied = op.denied \/ decision = "denied"],
         !.denied = IF decision = "denied" THEN @ \cup {tool} ELSE @]

(* The first kind the agent offers in the order the decision prefers them. *)
Preferred(decision, scope) ==
  CASE decision = "denied" -> <<"reject_once", "reject_always">>
    [] decision = "allowed" /\ scope = "session" -> <<"allow_always", "allow_once">>
    [] OTHER -> <<"allow_once", "allow_always">>

PermissionAnswer(options, decision, scope) ==
  LET wanted == Preferred(decision, scope)
  IN  CASE wanted[1] \in options -> wanted[1]
        [] wanted[1] \notin options /\ wanted[2] \in options -> wanted[2]
        [] OTHER -> "cancelled"

-----------------------------------------------------------------------------
(* finalizePromptResponse: the answer to the prompt ends the turn.          *)

Family(stop) == IF stop = "cancelled" THEN "cancelled" ELSE "end_turn"

FinalPhase(op, stop) ==
  CASE stop = "cancelled" -> "cancelled"
    [] stop # "cancelled" /\ op.phase = "awaiting_permission" -> "failed"
    [] OTHER -> op.phase

FinalOperation(op, stop) ==
  IF op.decision = "denied" /\ op.asked
  THEN [op EXCEPT !.family = Family(stop), !.denied = TRUE,
                  !.phase = FinalPhase(op, stop)]
  ELSE op

FinalizeDenied(turn, stop) ==
  [turn EXCEPT !.operations =
     [t \in DOMAIN @ |-> FinalOperation(@[t], stop)]]

TurnResult(turn, stop) ==
  CASE turn.denied # {} -> "denied"
    [] turn.denied = {} /\ turn.timedOut -> "timed_out"
    [] turn.denied = {} /\ ~turn.timedOut /\ stop = "cancelled" -> "cancelled"
    [] OTHER -> "completed"

FinalizePrompt(id, turn, stop) ==
  LET after   == FinalizeDenied(turn, stop)
      changed == SetToSeq({t \in DOMAIN turn.operations :
                             after.operations[t] # turn.operations[t]})
      updates == [i \in DOMAIN changed |->
                    Event("operation_updated", id, after, changed[i])]
      result  == TurnResult(turn, stop)
      last    == IF result = "completed"
                 THEN [type |-> result, turn |-> id, output |-> turn.output]
                 ELSE [type |-> result, turn |-> id]
  IN  Outcome(after, Append(updates, last))
=============================================================================
