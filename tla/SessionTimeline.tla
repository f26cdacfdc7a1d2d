--------------------------- MODULE SessionTimeline ---------------------------
(***************************************************************************)
(* The read model of a session (core/session-timeline.ts): the thread of a *)
(* session as its host sees it, the history events, and the stores of      *)
(* operations, permission requests, terminals and diffs derived from them. *)
(*                                                                         *)
(* A timeline is a record; every method of AcpRuntimeSessionTimeline that  *)
(* changes it is a function on such records.  The field told is what the   *)
(* watchers have been given: the thread and the objects a host holds that  *)
(* keeps a copy from the notifications alone.                              *)
(***************************************************************************)
EXTENDS Naturals, Sequences, FiniteSets, SequencesExt, UpdateMapping

Nothing == <<>>   \* the empty map

\* A map with the entries of another in place of its own.
Over(old, new) ==
  [x \in DOMAIN new \cup DOMAIN old |-> IF x \in DOMAIN new THEN new[x] ELSE old[x]]

EmptyTimeline ==
  [entries |-> <<>>, history |-> <<>>, replay |-> 0, drained |-> FALSE,
   operations |-> Nothing, requests |-> Nothing,
   terminals |-> Nothing, diffs |-> Nothing,
   told |-> [entries |-> <<>>, terminals |-> Nothing, diffs |-> Nothing]]

-----------------------------------------------------------------------------
(* Entries of the thread.                                                  *)

Position(tl, kind, key) ==
  LET at == {i \in DOMAIN tl.entries :
               tl.entries[i].kind = kind /\ tl.entries[i].key = key}
  IN  IF at = {} THEN 0 ELSE CHOOSE i \in at : TRUE

AddEntry(tl, entry) ==
  [tl EXCEPT !.entries = Append(@, entry), !.told.entries = Append(@, entry)]

ChangeEntry(tl, i, entry) ==
  [tl EXCEPT !.entries[i] = entry, !.told.entries[i] = entry]

Message(kind, turn, text, status) ==
  [kind |-> kind, key |-> turn, turn |-> turn, text |-> text, status |-> status]

(* appendPrompt, appendHistoryUser and appendHistoryUserContent.           *)
AddUser(tl, turn, n) == AddEntry(tl, Message("user", turn, <<n>>, "sent"))

(* One message and one thought per turn: every chunk extends it, and makes *)
(* it streaming again.                                                     *)
UpsertText(tl, kind, turn, n) ==
  LET i == Position(tl, kind, turn)
  IN  IF i = 0 THEN AddEntry(tl, Message(kind, turn, <<n>>, "streaming"))
      ELSE ChangeEntry(tl, i, [tl.entries[i] EXCEPT !.text = Append(@, n),
                                                    !.status = "streaming"])

UpsertPlan(tl, turn, n) ==
  LET i == Position(tl, "plan", turn)
  IN  IF i = 0 THEN AddEntry(tl, Message("plan", turn, <<n>>, "shown"))
      ELSE ChangeEntry(tl, i, [tl.entries[i] EXCEPT !.text = <<n>>])

(* completeTurn changes the entries and tells nobody.                      *)
CompleteTurn(tl, turn, status) ==
  [tl EXCEPT !.entries =
     [i \in DOMAIN @ |->
        IF @[i].kind \in {"assistant", "thought"} /\ @[i].key = turn
        THEN [@[i] EXCEPT !.status = status] ELSE @[i]]]

-----------------------------------------------------------------------------
(* Objects of a tool call: terminals and diffs.  An item of its content is *)
(* [kind, exit, n]; exit is what is known of the terminal's process:       *)
(* "unset", "none" while it runs, "code" once it has exited.               *)

TerminalStatus(exit) ==
  CASE exit = "none" -> "running" [] exit = "code" -> "completed"
    [] OTHER -> "unknown"

NewTerminal ==
  [status |-> "unknown", exit |-> "unset", completedAt |-> FALSE,
   stopRequested |-> FALSE, released |-> FALSE, tool |-> "none"]

Terminal(tl, x) == IF x \in DOMAIN tl.terminals THEN tl.terminals[x] ELSE NewTerminal

(* upsertTerminalSnapshot: a field that is given replaces the one before.  *)
Snapshot(tl, x, given) ==
  LET merged == Over(Terminal(tl, x), given)
  IN  [merged EXCEPT !.completedAt = @ \/ merged.status = "completed"]

StoreTerminals(tl, snapshots) ==
  [tl EXCEPT !.terminals = Over(@, snapshots), !.told.terminals = Over(@, snapshots)]

UpsertTerminal(tl, x, given) ==
  StoreTerminals(tl, [y \in {x} |-> Snapshot(tl, y, given)])

TerminalItem(item, tool) ==
  IF item.exit = "unset" THEN [status |-> "unknown", tool |-> tool]
  ELSE [status |-> TerminalStatus(item.exit), tool |-> tool, exit |-> item.exit]

StoreDiffs(tl, diffs) ==
  [tl EXCEPT !.diffs = Over(@, diffs), !.told.diffs = Over(@, diffs)]

Of(content, kind) == {x \in DOMAIN content : content[x].kind = kind}

(* syncDerivedSnapshots: all of the tool call's content, new and old.      *)
SyncDerived(tl, tool, content) ==
  StoreDiffs(
    StoreTerminals(tl, [x \in Of(content, "terminal") |->
                          Snapshot(tl, x, TerminalItem(content[x], tool))]),
    [x \in Of(content, "diff") |-> [tool |-> tool, n |-> content[x].n]])

(* mergeToolContent, by kind and id: the newer item replaces the older.    *)
MergeContent(old, new) == Over(old, new)

(* upsertToolCall.  content is a map from objects to items, or Absent.     *)
UpsertToolCall(tl, turn, tool, status, content) ==
  LET i      == Position(tl, "tool", tool)
      old    == IF i = 0 THEN [turn |-> turn, content |-> Nothing, status |-> "pending"]
                ELSE tl.entries[i]
      merged == IF content = Absent THEN old.content
                ELSE MergeContent(old.content, content)
      synced == IF content = Absent THEN tl ELSE SyncDerived(tl, tool, merged)
      entry  == [kind |-> "tool", key |-> tool, turn |-> old.turn, content |-> merged,
                 status |-> IF status = Absent THEN old.status ELSE status]
  IN  IF i = 0 THEN AddEntry(synced, entry) ELSE ChangeEntry(synced, i, entry)

(* toolCallBundle: the objects a host looks up by their tool call.         *)
ToolCallBundle(tl, tool) ==
  [terminals |-> {x \in DOMAIN tl.terminals : tl.terminals[x].tool = tool},
   diffs |-> {x \in DOMAIN tl.diffs : tl.diffs[x].tool = tool}]

-----------------------------------------------------------------------------
(* The history and the stores applyProjectionEvent keeps.                  *)

OperationEvents == {"operation_started", "operation_updated",
                    "operation_completed", "operation_failed"}
PermissionEvents == {"permission_requested", "permission_resolved"}

(* What the latest event about an operation or a request says of it.       *)
OperationsIn(events) ==
  LET About(x) == {i \in DOMAIN events :
                     events[i].type \in OperationEvents \cup PermissionEvents
                       /\ events[i].tool = x}
      tools == {events[i].tool : i \in {j \in DOMAIN events :
                  events[j].type \in OperationEvents \cup PermissionEvents}}
  IN  [x \in tools |-> events[Max(About(x))].operation]

RequestsIn(events) ==
  LET asks == {i \in DOMAIN events : events[i].type \in PermissionEvents}
  IN  [r \in {events[i].request : i \in asks} |->
         LET e == events[Max({i \in asks : events[i].request = r})]
         IN  [turn |-> e.turn, tool |-> e.tool, phase |-> e.phase]]

AppendEvents(tl, events) ==
  [tl EXCEPT !.history = @ \o events,
             !.operations = Over(@, OperationsIn(events)),
             !.requests = Over(@, RequestsIn(events))]

AppendEvent(tl, e) == AppendEvents(tl, <<e>>)

(* sealHistoryReplay after a load, drainHistoryEntries by the host.        *)
Seal(tl) ==
  IF tl.replay > 0 THEN tl ELSE [tl EXCEPT !.replay = Len(tl.history)]

Replayed(tl) ==
  IF tl.drained \/ tl.replay = 0 THEN <<>> ELSE SubSeq(tl.history, 1, tl.replay)

Drain(tl) == IF Replayed(tl) = <<>> THEN tl ELSE [tl EXCEPT !.drained = TRUE]
=============================================================================
