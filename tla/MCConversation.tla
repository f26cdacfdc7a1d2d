--------------------------- MODULE MCConversation ---------------------------
(***************************************************************************)
(* An instance of Conversation for TLC.                                    *)
(***************************************************************************)
EXTENDS Conversation

CONSTANTS k1, k2, x1, f1

Symmetry == Permutations(Turns)

Update(type, sound) ==
  [type |-> type, n |-> 0, tool |-> "none", status |-> Absent,
   content |-> Absent, sound |-> sound, from |-> NoTurn]

ToolUpdate(type, tool, status, content) ==
  [type |-> type, n |-> 0, tool |-> tool, status |-> status,
   content |-> content, sound |-> TRUE, from |-> NoTurn]

Object(x, kind) == [object |-> x, kind |-> kind, sound |-> TRUE]

SomeRequests == {[tool |-> k2, options |-> {"allow_once", "reject_once"}]}

(* Words of both sides and a picture, that wait behind the reading of a    *)
(* terminal, a tool call that shows one and changes a file, and another    *)
(* that changes the same file, needs a permission and fails.               *)
WordsAndTools ==
  {Update("text", TRUE), Update("user", TRUE), Update("blank_text", TRUE),
   ToolUpdate("tool_call", k1, "in_progress",
              {Object(x1, "terminal"), Object(f1, "diff")}),
   ToolUpdate("tool_call_update", k2, "failed", {Object(f1, "diff")})}

(* Two history variables are for UpdatesStayInTurn and CopyFollows alone:  *)
(* where an update comes from, and what the watchers were told.  No step   *)
(* and no property of the run looks at them.                               *)
Anonymous(u) == IF "from" \in DOMAIN u THEN [u EXCEPT !.from = NoTurn] ELSE u

View ==
  <<[i \in DOMAIN inbound |-> Anonymous(inbound[i])],
    [i \in DOMAIN jobs |-> [jobs[i] EXCEPT !.update = Anonymous(@)]],
    wrote, asked, replayed, opening, buffered, turnVars,
    [timeline EXCEPT !.told = 0], asking, told, hostVars>>
=============================================================================
