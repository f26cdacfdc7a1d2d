------------------------------ MODULE Simulator ------------------------------
(***************************************************************************)
(* The simulator agent (packages/simulator-agent): the agent's side of the *)
(* protocol, with sessions it stores as files, permissions it remembers    *)
(* and faults it injects.                                                  *)
(*                                                                         *)
(* A process serves the one session its client opens, as the runtime's     *)
(* processes do, and the processes that use a storage directory follow one *)
(* another.  A prompt is a script of steps; a step runs from one await to  *)
(* the next, so every other action may fall between two steps.             *)
(***************************************************************************)
EXTENDS Naturals, Sequences, FiniteSets, SequencesExt

CONSTANTS
  Sessions,     \* session ids
  Actions,      \* what a prompt's text may ask for
  Faults,       \* faults it may ask to simulate
  Modes,        \* permission modes a client may set
  MaxMoves,     \* bound: prompts, cancels, settings, closes and kills
  Environment   \* what may happen besides

ASSUME SimulatorAssumption ==
  /\ Actions \subseteq {"describe", "plan", "read", "write", "run", "rename",
                        "scenario", "simulate"}
  /\ Modes \subseteq {"deny", "accept-edits", "yolo"}
  /\ Environment \subseteq {"kills", "tornWrites", "clientErrors", "closes"}
  /\ "none" \notin Sessions \cup Faults

VARIABLES
  process,    \* "down", "up", "ready" once authenticated
  served,     \* the session opened in this process, or "none"
  live,       \* that session's object in memory
  file,       \* what its file holds, for every session
  request,    \* the request under way besides the prompt
  prompt,     \* the prompt under way
  saves,      \* saveSession of the request and of the prompt
  replay,     \* the history is being sent after session/load
  told,       \* history: what the client was answered about each session
  struck,     \* history: faults that have struck a session
  crossed,    \* history: saves of the session have overlapped
  moves       \* moves of the client so far

vars == <<process, served, live, file, request, prompt, saves, replay,
          told, struck, crossed, moves>>

-----------------------------------------------------------------------------
Tools == {"read", "write", "run"}

(* A rule of a session is about a tool and its target; a file is read and  *)
(* written under one path.                                                 *)
Target(tool) == IF tool = "run" THEN "command" ELSE "path"

NewSession ==
  [mode |-> "accept-edits", rules |-> [t \in Tools |-> "ask"],
   faults |-> <<>>, turns |-> 0, titled |-> FALSE]

NoFile   == [state |-> "none", session |-> NewSession]
Torn     == [state |-> "torn", session |-> NewSession]
Saved(s) == [state |-> "whole", session |-> s]

NoSave == [stage |-> "none", content |-> NewSession]

Idle ==
  [queues |-> "none", todo |-> <<>>,
   fault |-> "none", flag |-> "none", leave |-> "none", aborted |-> FALSE,
   alone |-> TRUE, wait |-> "no",
   tool |-> <<>>, plan |-> <<>>]   \* what the client sees of them

NoRequest == [kind |-> "none", mode |-> "none"]

Untold ==
  [born |-> FALSE, closed |-> FALSE, turns |-> 0, faults |-> {},
   modes |-> {"accept-edits"}, rules |-> [t \in Tools |-> {"ask"}]]

Init ==
  /\ process = "down" /\ served = "none" /\ live = NewSession
  /\ file = [s \in Sessions |-> NoFile]
  /\ request = NoRequest /\ prompt = Idle
  /\ saves = [w \in {"request", "prompt"} |-> NoSave]
  /\ replay = FALSE
  /\ told = [s \in Sessions |-> Untold] /\ struck = {} /\ crossed = {}
  /\ moves = 0

-----------------------------------------------------------------------------
(* Storage.  persistSession puts the object into the map of sessions and   *)
(* saves it: the directory is made, the object as it is then is turned     *)
(* into text, and the text is written over the file.                       *)
Overlap(w) ==
  IF \E v \in DOMAIN saves : v # w /\ saves[v].stage # "none"
  THEN crossed \cup {served} ELSE crossed

Persist(w) ==
  /\ saves' = [saves EXCEPT ![w].stage = "due"]
  /\ crossed' = Overlap(w)

Serialize(w) ==
  /\ saves[w].stage = "due" /\ ~(w = "request" /\ request.kind = "close")
  /\ saves' = [saves EXCEPT ![w] = [stage |-> "writing", content |-> live]]
  /\ UNCHANGED <<process, served, live, file, request, prompt, replay, told,
                 struck, crossed, moves>>

Written(w) ==
  /\ saves[w].stage = "writing"
  /\ file' = [file EXCEPT ![served] = Saved(saves[w].content)]
  /\ saves' = [saves EXCEPT ![w] = NoSave]

Running == prompt.todo # <<>>

(* Kill, or the exit of a crash: what was being written is in the file,    *)
(* or not, or in part.                                                     *)
Interrupted ==
  {file} \cup
    {[file EXCEPT ![served] = Saved(saves[w].content)] :
       w \in {w \in DOMAIN saves : saves[w].stage = "writing"}} \cup
    {[file EXCEPT ![served] = Torn] :
       w \in {w \in DOMAIN saves :
                saves[w].stage = "writing" /\ "tornWrites" \in Environment}}

Exits ==
  /\ process' = "down" /\ served' = "none" /\ live' = NewSession
  /\ file' \in Interrupted
  /\ request' = NoRequest /\ prompt' = Idle
  /\ saves' = [w \in DOMAIN saves |-> NoSave]
  /\ replay' = FALSE
  /\ UNCHANGED <<told, struck, crossed>>

Move == moves < MaxMoves /\ moves' = moves + 1

Kill == "kills" \in Environment /\ process # "down" /\ Exits /\ Move

-----------------------------------------------------------------------------
(* initialize reads every stored session; one that cannot be read fails it *)
Initialize ==
  /\ process = "down"
  /\ \A s \in Sessions : file[s].state # "torn"
  /\ process' = "up"
  /\ UNCHANGED <<served, live, file, request, prompt, saves, replay, told,
                 struck, crossed, moves>>

Authenticate ==
  /\ process = "up" /\ process' = "ready"
  /\ UNCHANGED <<served, live, file, request, prompt, saves, replay, told,
                 struck, crossed, moves>>

Open(s, session, kind) ==
  /\ process = "ready" /\ served = "none"
  /\ served' = s /\ live' = session
  /\ request' = [kind |-> kind, mode |-> session.mode]
  /\ saves' = [saves EXCEPT !["request"].stage = "due"]
  /\ UNCHANGED <<process, file, prompt, replay, struck, moves>>

(* A new session has an identifier of its own; which one does not matter.  *)
Unused(s) == file[s].state = "none" /\ ~told[s].born

Fresh(s) == Unused(s) /\ s = CHOOSE t \in Sessions : Unused(t)

New(s) ==
  /\ Fresh(s)
  /\ Open(s, NewSession, "open")
  /\ told' = [told EXCEPT ![s] = Untold] /\ crossed' = crossed \ {s}

Load(s) ==
  /\ file[s].state = "whole"
  /\ \E kind \in {"load", "open"} : Open(s, file[s].session, kind)
  /\ UNCHANGED <<told, crossed>>

(* A fork goes on from what the client knows of its source.               *)
Fork(s, t) ==
  /\ file[s].state = "whole" /\ Fresh(t)
  /\ Open(t, file[s].session, "open")
  /\ told' = [told EXCEPT ![t] =
       [told[s] EXCEPT !.born = FALSE, !.closed = FALSE,
                       !.faults = {f \in @ : <<s, f>> \notin struck}]]
  /\ crossed' = IF s \in crossed THEN crossed \cup {t} ELSE crossed

-----------------------------------------------------------------------------
(* Settings: modes, models, options and documents.  The permission mode is *)
(* kept twice, as the mode and as the option approval-policy, and          *)
(* syncPermissionModeState makes them one; the rest is only stored.        *)
Usable ==
  /\ served # "none" /\ ~told[served].closed
  /\ request = NoRequest /\ saves["request"].stage = "none"

SetMode(m) ==
  /\ Usable
  /\ live' = [live EXCEPT !.mode = m]
  /\ request' = [kind |-> "mode", mode |-> m]
  /\ told' = [told EXCEPT ![served].modes = @ \cup {m}]
  /\ Move
  /\ Persist("request")
  /\ UNCHANGED <<process, served, file, prompt, replay, struck>>

(* unstable_closeSession: the prompt is aborted and goes on to its next    *)
(* look at the signal; the file is removed.                                *)
\* Slip: only the sleeping are told of the abort.
AbortedUnheard(p) ==
  [p EXCEPT !.aborted = TRUE,
            !.wait = IF @ = "sleeping" THEN "no" ELSE @,
            !.todo = IF p.wait = "sleeping" THEN <<Last(@)>> ELSE @]

Aborted(p) ==
  [p EXCEPT !.aborted = TRUE,
            !.wait = IF @ \in {"sleeping", "hung"} THEN "no" ELSE @,
            !.todo = IF p.wait \in {"sleeping", "hung"} THEN <<Last(@)>> ELSE @]

Close ==
  /\ "closes" \in Environment /\ Usable
  /\ prompt' = IF Running /\ ~prompt.aborted THEN Aborted(prompt) ELSE prompt
  /\ request' = [kind |-> "close", mode |-> live.mode]
  /\ Persist("request") /\ Move
  /\ UNCHANGED <<process, served, live, file, replay, told, struck>>

Removed ==
  /\ request.kind = "close" /\ saves["request"].stage = "due"
  /\ file' = [file EXCEPT ![served] = NoFile]
  /\ saves' = [saves EXCEPT !["request"] = NoSave]
  /\ request' = NoRequest
  /\ told' = [told EXCEPT ![served].closed = TRUE]
  /\ UNCHANGED <<process, served, live, prompt, replay, struck, crossed,
                 moves>>

(* The request is answered when its save is over; a load then sends the    *)
(* history.                                                                *)
Responds ==
  /\ request.kind # "none" /\ Written("request")
  /\ request' = NoRequest
  /\ told' = [told EXCEPT ![served].born = TRUE,
                          ![served].modes = {request.mode}]
  /\ replay' = (replay \/ request.kind = "load")
  /\ UNCHANGED <<process, served, live, prompt, struck, crossed, moves>>

(* The loop over the history also meets what is recorded while it runs:    *)
(* until it ends, the client may see an update of a prompt twice.          *)
ReplayEnds ==
  /\ replay /\ replay' = FALSE
  /\ UNCHANGED <<process, served, live, file, request, prompt, saves, told,
                 struck, crossed, moves>>

-----------------------------------------------------------------------------
(* Scripts.                                                                *)
Step(do, tool) == [do |-> do, tool |-> tool, at |-> 0]

UseTool(tool) ==
  <<Step("call", tool), Step("permission", tool), Step("use", tool),
    Step("end", tool)>>

Plan(do, i) == <<[Step(do, "none") EXCEPT !.at = i]>>

(* What an action does before the fault is applied, then, and at the end.  *)
Opening(action) ==
  (IF action # "rename" THEN <<Step("title", "none")>> ELSE <<>>)
    \o Plan("arm", IF action \in {"plan", "scenario"} THEN 1 ELSE 0)

Script(action) ==
  CASE action \in {"describe", "plan"} -> <<>>
    [] action \in Tools -> UseTool(action)
    [] action = "rename" -> <<Step("rename", "none")>>
    [] action = "simulate" -> <<Step("queue", "none")>>
    [] action = "scenario" ->
         UseTool("read") \o Plan("plan", 2) \o UseTool("run") \o Plan("plan", 3)
           \o UseTool("write") \o Plan("plan", 4)

Closing(action) == Plan("finish", IF action = "scenario" THEN 5 ELSE 0)

At(do) == Running /\ prompt.wait = "no" /\ Head(prompt.todo).do = do
Tool == Head(prompt.todo).tool

Advanced(p) == [p EXCEPT !.todo = Tail(@)]

(* An exception becomes the text of the answer.                            *)
Thrown(p) == [p EXCEPT !.todo = <<Last(@)>>]

\* Slip: a refused tool goes on.
ToolOverNext(p) == Advanced(p)

(* The tool is over, and a scenario goes on with its next step.            *)
ToolOver(p) ==
  LET end == CHOOSE i \in DOMAIN p.todo :
               /\ p.todo[i].do = "end"
               /\ \A j \in 1..(i - 1) : p.todo[j].do # "end"
  IN  [p EXCEPT !.todo = SubSeq(@, end + 1, Len(@)), !.leave = "none"]

ToolCall(flag) ==
  IF flag = "outOfOrder" THEN <<"pending", "completed">> ELSE <<"pending">>

ToolUpdate(flag, status) ==
  CASE flag = "dropTool" -> <<>>
    [] flag = "duplicateTool" -> <<status, status>>
    [] OTHER -> <<status>>

PlanUpdate(flag, i) ==
  CASE i = 0 \/ flag = "dropPlan" -> <<>>
    [] flag = "duplicatePlan" -> <<i, i>>
    [] OTHER -> <<i>>

ToolFlags == {"dropTool", "duplicateTool"}
PlanFlags == {"dropPlan", "duplicatePlan"}

Sent(p, status) ==
  [p EXCEPT !.tool = @ \o ToolUpdate(p.flag, status),
            !.flag = IF @ \in ToolFlags THEN "none" ELSE @]

SentCall(p) ==
  [p EXCEPT !.tool = ToolCall(p.flag),
            !.flag = IF @ = "outOfOrder" THEN "none" ELSE @]

SentPlan(p, i) ==
  [p EXCEPT !.plan = @ \o PlanUpdate(p.flag, i),
            !.flag = IF @ \in PlanFlags /\ i # 0 THEN "none" ELSE @]

-----------------------------------------------------------------------------
(* A client asks for a fault once in a session.                            *)
MayQueue(fault) ==
  fault \notin ToSet(live.faults) /\ <<served, fault>> \notin struck

Prompt(action, fault) ==
  /\ Usable /\ ~Running
  /\ IF action = "simulate" THEN fault \in Faults /\ MayQueue(fault)
     ELSE fault = "none"
  /\ Move
  /\ prompt' = [Idle EXCEPT !.queues = fault, !.alone = ~replay,
                            !.todo = Opening(action) \o <<Step("strike", "none")>>
                                       \o Script(action) \o Closing(action)]
  /\ UNCHANGED <<process, served, live, file, request, saves, replay, told,
                 struck, crossed>>

Cancel ==
  /\ Running /\ ~prompt.aborted /\ ~told[served].closed
  /\ prompt' = Aborted(prompt) /\ Move
  /\ UNCHANGED <<process, served, live, file, request, saves, replay, told,
                 struck, crossed>>

Saving(p) == [p EXCEPT !.wait = "saving"]

(* maybeAutoTitleFromPrompt; a slash command makes no title.               *)
Title ==
  /\ At("title")
  /\ \/ /\ ~live.titled
        /\ live' = [live EXCEPT !.titled = TRUE]
        /\ prompt' = Saving(Advanced(prompt)) /\ Persist("prompt")
     \/ prompt' = Advanced(prompt) /\ UNCHANGED <<live, saves, crossed>>
  /\ UNCHANGED <<process, served, file, request, replay, told, struck,
                 moves>>

(* The fault at the head of the queue is for this prompt, unless it queues *)
(* one itself; then the plan is announced.                                 *)
Arm ==
  /\ At("arm")
  /\ LET takes == prompt.queues = "none" /\ live.faults # <<>>
         fault == IF takes THEN Head(live.faults) ELSE "none"
         armed == [Advanced(prompt) EXCEPT !.fault = fault, !.flag = fault]
     IN  /\ live' = IF takes THEN [live EXCEPT !.faults = Tail(@)] ELSE live
         /\ struck' = IF takes THEN struck \cup {<<served, fault>>} ELSE struck
         /\ prompt' = SentPlan(armed, Head(prompt.todo).at)
  /\ UNCHANGED <<process, served, file, request, saves, replay, told,
                 crossed, moves>>

Over == prompt' = Idle

(* applyPromptFault.  The text that announces a hang is sent before the    *)
(* prompt listens for its abort.                                           *)
Announcing == {"timeout", "hang", "crash"}

Strike ==
  /\ At("strike")
  /\ CASE prompt.aborted -> Over
       [] ~prompt.aborted /\ prompt.fault \in Announcing ->
            prompt' = [Advanced(prompt) EXCEPT !.wait = "announcing"]
       [] ~prompt.aborted /\ prompt.fault = "error" -> prompt' = Thrown(prompt)
       [] OTHER -> prompt' = Advanced(prompt)
  /\ UNCHANGED <<process, served, live, file, request, saves, replay, told,
                 struck, crossed, moves>>

(* An abort that came during the announcement is not heard.                *)
Hung == IF prompt.aborted THEN "deaf" ELSE "hung"

Announced ==
  /\ prompt.wait = "announcing" /\ prompt.fault # "crash"
  /\ prompt' = [prompt EXCEPT !.wait = IF prompt.fault = "hang" THEN Hung
                                       ELSE "sleeping"]
  /\ UNCHANGED <<process, served, live, file, request, saves, replay, told,
                 struck, crossed, moves>>

Crash == prompt.wait = "announcing" /\ prompt.fault = "crash" /\ Exits
         /\ UNCHANGED moves

Slept ==
  /\ prompt.wait = "sleeping"
  /\ IF prompt.aborted THEN Over ELSE prompt' = [prompt EXCEPT !.wait = "no"]
  /\ UNCHANGED <<process, served, live, file, request, saves, replay, told,
                 struck, crossed, moves>>

-----------------------------------------------------------------------------
(* Tools.                                                                  *)
CanMutate == live.mode # "deny"

Call ==
  /\ At("call")
  /\ \/ /\ Tool \in {"write", "run"} /\ ~CanMutate
        /\ prompt' = ToolOver(prompt)
     \/ /\ Tool = "read" \/ CanMutate
        /\ prompt' = SentCall(Advanced(prompt))
  /\ UNCHANGED <<process, served, live, file, request, saves, replay, told,
                 struck, crossed, moves>>

\* Slip: a rule is looked up by its target alone.
RulesOfTarget(tool) ==
  {live.rules[t] : t \in {t \in Tools : Target(t) = Target(tool)}} \ {"ask"}

Remembered(tool) == {live.rules[tool]} \ {"ask"}

Allowed(how) ==
  prompt' = [Sent(Advanced(prompt), "in_progress") EXCEPT !.leave = how, !.wait = "no"]

Denied == prompt' = [Sent(ToolOver(prompt), "failed") EXCEPT !.wait = "no"]

(* requestPermissionIfNeeded, up to its request.                           *)
Permission ==
  /\ At("permission")
  /\ CASE live.mode # "accept-edits" -> Allowed("mode")
       [] live.mode = "accept-edits" /\ "allow" \in Remembered(Tool) -> Allowed("rule")
       [] live.mode = "accept-edits" /\ Remembered(Tool) = {"reject"} -> Denied
       [] OTHER -> prompt' = [prompt EXCEPT !.wait = "asking"]
  /\ UNCHANGED <<process, served, live, file, request, saves, replay, told,
                 struck, crossed, moves>>

ClientDecides ==
  /\ prompt.wait = "asking"
  /\ \/ Allowed("answer") /\ UNCHANGED <<live, saves, told, crossed>>
     \/ Denied /\ UNCHANGED <<live, saves, told, crossed>>
     \/ \E always \in {"allow", "reject"} :
          /\ live' = [live EXCEPT !.rules[Tool] = always]
          /\ prompt' = [prompt EXCEPT !.wait = "remembering"]
          /\ told' = [told EXCEPT ![served].rules[Tool] = @ \cup {always}]
          /\ Persist("prompt")
    /\ UNCHANGED <<process, served, file, request, replay, struck, moves>>

RuleSaved ==
  /\ prompt.wait = "remembering" /\ Written("prompt")
  /\ told' = [told EXCEPT ![served].rules[Tool] = {live.rules[Tool]}]
  /\ IF live.rules[Tool] = "allow" THEN Allowed("answer") ELSE Denied
  /\ UNCHANGED <<process, served, live, request, replay, struck, crossed,
                 moves>>

(* The client reads, writes or runs, or fails.                             *)
Use ==
  /\ At("use")
  /\ \/ prompt' = Advanced(prompt)
     \/ "clientErrors" \in Environment /\ prompt' = Thrown(prompt)
  /\ UNCHANGED <<process, served, live, file, request, saves, replay, told,
                 struck, crossed, moves>>

EndTool ==
  /\ At("end")
  /\ prompt' = Sent(ToolOver(prompt), "completed")
  /\ UNCHANGED <<process, served, live, file, request, saves, replay, told,
                 struck, crossed, moves>>

PlanProgress ==
  /\ At("plan")
  /\ prompt' = SentPlan(Advanced(prompt), Head(prompt.todo).at)
  /\ UNCHANGED <<process, served, live, file, request, saves, replay, told,
                 struck, crossed, moves>>

-----------------------------------------------------------------------------
Rename ==
  /\ At("rename")
  /\ live' = [live EXCEPT !.titled = TRUE]
  /\ prompt' = Saving(Advanced(prompt)) /\ Persist("prompt")
  /\ UNCHANGED <<process, served, file, request, replay, told, struck,
                 moves>>

Queue ==
  /\ At("queue")
  /\ live' = [live EXCEPT !.faults = Append(@, prompt.queues)]
  /\ prompt' = Saving(Advanced(prompt)) /\ Persist("prompt")
  /\ UNCHANGED <<process, served, file, request, replay, told, struck,
                 moves>>

PromptSaved ==
  /\ prompt.wait = "saving" /\ Written("prompt")
  /\ prompt' = [prompt EXCEPT !.wait = "no"]
  /\ UNCHANGED <<process, served, live, request, replay, told, struck,
                 crossed, moves>>

\* Slip: what the answer says is recorded once it is saved.
RecordedLater(session) == session

Recorded(session) == [session EXCEPT !.turns = @ + 1]

(* The plan is completed, the answer's text sent and everything saved; a   *)
(* cancelled prompt is answered without.                                   *)
Finish ==
  /\ At("finish")
  /\ IF prompt.aborted
     THEN Over /\ UNCHANGED <<live, saves, crossed>>
     ELSE /\ live' = Recorded(live)
          /\ Persist("prompt")
          /\ prompt' = [SentPlan(prompt, Head(prompt.todo).at)
                        EXCEPT !.wait = "answering"]
  /\ UNCHANGED <<process, served, file, request, replay, told, struck,
                 moves>>

Answered ==
  /\ prompt.wait = "answering" /\ Written("prompt")
  /\ told' = [told EXCEPT ![served].turns = @ + 1,
                          ![served].faults =
                             @ \cup ({prompt.queues} \ {"none"})]
  /\ Over
  /\ UNCHANGED <<process, served, live, request, replay, struck, crossed,
                 moves>>

-----------------------------------------------------------------------------
PromptStep ==
  \/ Title \/ Arm \/ Strike \/ Crash \/ Announced \/ Slept
  \/ Call \/ Permission \/ RuleSaved \/ Use \/ EndTool \/ PlanProgress
  \/ Rename \/ Queue \/ PromptSaved \/ Finish \/ Answered

StoreStep == Responds \/ Removed \/ \E w \in DOMAIN saves : Serialize(w)

Next ==
  \/ Initialize \/ Authenticate \/ Kill
  \/ \E s \in Sessions : New(s) \/ Load(s)
  \/ \E s, t \in Sessions : Fork(s, t)
  \/ (\E m \in Modes : SetMode(m)) \/ Close
  \/ (\E a \in Actions, f \in Faults \cup {"none"} : Prompt(a, f)) \/ Cancel \/ ClientDecides
  \/ ReplayEnds \/ StoreStep \/ PromptStep

Spec == Init /\ [][Next]_vars

(* Continuations run, files get written, and a client answers what it is   *)
(* asked, as the runtime does when a turn is cancelled.                    *)
Fairness == WF_vars(PromptStep) /\ WF_vars(StoreStep) /\ WF_vars(ClientDecides)

FairSpec == Spec /\ Fairness

-----------------------------------------------------------------------------
(* What a client has been answered about a session is in its file, however *)
(* the processes end: the prompts that ended, the mode that was set, the   *)
(* permissions to remember and the faults still to come.  It may be lost   *)
(* when two saves of the session overlap.                                  *)
AnsweredIsStored ==
  \A s \in Sessions :
    told[s].born /\ ~told[s].closed /\ s \notin crossed =>
      LET stored == file[s].session
      IN  /\ file[s].state = "whole"
          /\ told[s].turns <= stored.turns
          /\ stored.mode \in told[s].modes
          /\ \A t \in Tools : stored.rules[t] \in told[s].rules[t]
          /\ {f \in told[s].faults : <<s, f>> \notin struck}
               \subseteq ToSet(stored.faults)

(* A tool that is used on a remembered permission is one its user said     *)
(* always to: for this tool, on this target, in this session or the one it *)
(* was forked from.  What the mode lets through is not in question here:   *)
(* see DenyBlocks.                                                         *)
RulesAreGiven ==
  At("use") /\ prompt.leave = "rule" => "allow" \in told[served].rules[Tool]

(* The inductive invariants of these two.  A tool's steps follow each      *)
(* other, and a prompt ends with its last step.                            *)
Dos       == {"title", "arm", "strike", "call", "permission", "use", "end",
              "plan", "rename", "queue", "finish"}
ToolDos   == {"call", "permission", "use", "end"}
Waits     == {"no", "saving", "asking", "remembering", "announcing",
              "sleeping", "hung", "deaf", "answering"}
Struck    == {"announcing", "sleeping", "hung", "deaf"}
PromptSaves == {"saving", "remembering", "answering"}

Statuses    == {"pending", "in_progress", "completed", "failed"}

ScriptStep == [do : Dos, tool : Tools \cup {"none"}, at : Nat]

Followed(todo, i, n, do) ==
  i + n <= Len(todo) /\ todo[i + n].do = do /\ todo[i + n].tool = todo[i].tool

InOrder(todo, i) ==
  /\ todo[i].do = "call" => /\ Followed(todo, i, 1, "permission")
                            /\ Followed(todo, i, 2, "use")
                            /\ Followed(todo, i, 3, "end")
  /\ todo[i].do = "permission" => /\ Followed(todo, i, 1, "use")
                                  /\ Followed(todo, i, 2, "end")
  /\ todo[i].do = "use" => Followed(todo, i, 1, "end")
  /\ todo[i].do \in ToolDos <=> todo[i].tool # "none"
  /\ todo[i].do = "finish" <=> i = Len(todo)

Ordered(todo) == \A i \in 1..Len(todo) : InOrder(todo, i)

Session ==
  [mode : {"deny", "accept-edits", "yolo"},
   rules : [Tools -> {"ask", "allow", "reject"}],
   faults : Seq(Faults), turns : Nat, titled : BOOLEAN]

Prompts ==
  [queues : Faults \cup {"none"}, todo : Seq(ScriptStep),
   fault : Faults \cup {"none"}, flag : Faults \cup {"none"},
   leave : {"none", "mode", "rule", "answer"}, aborted : BOOLEAN,
   alone : BOOLEAN, wait : Waits, tool : Seq(Statuses), plan : Seq(Nat)]

TypeOK ==
  /\ served \in Sessions \cup {"none"}
  /\ live \in Session
  /\ file \in [Sessions -> [state : {"none", "torn", "whole"}, session : Session]]
  /\ request \in [kind : {"none", "open", "load", "mode", "close"},
                  mode : {"none", "deny", "accept-edits", "yolo"}]
  /\ prompt \in Prompts
  /\ saves \in [{"request", "prompt"} ->
                  [stage : {"none", "due", "writing"}, content : Session]]
  /\ told \in [Sessions ->
                 [born : BOOLEAN, closed : BOOLEAN, turns : Nat,
                  faults : SUBSET Faults, modes : SUBSET {"deny", "accept-edits", "yolo"},
                  rules : [Tools -> SUBSET {"ask", "allow", "reject"}]]]
  /\ struck \subseteq Sessions \X Faults
  /\ crossed \subseteq Sessions

(* Requests, prompts and saves are of the session that is served.          *)
ServedOk ==
  /\ served = "none" => request.kind = "none" /\ prompt.todo = <<>>
                        /\ \A w \in DOMAIN saves : saves[w].stage = "none"
  /\ request.kind # "none" <=> saves["request"].stage # "none"
  /\ request.kind = "close" => saves["request"].stage = "due"
  /\ request.kind # "none" => request.mode = live.mode

(* What a prompt waits for fits where it is.                               *)
PromptOk ==
  /\ Ordered(prompt.todo)
  /\ prompt.wait # "no" => Running
  /\ prompt.wait \in PromptSaves <=> saves["prompt"].stage # "none"
  /\ prompt.wait \in {"asking", "remembering"} => Head(prompt.todo).do = "permission"
  /\ prompt.wait \in Struck => prompt.fault # "none"

(* Only a prompt that brings a fault has the step that queues it.          *)
QueuesOk ==
  prompt.queues = "none" =>
    \A i \in 1..Len(prompt.todo) : prompt.todo[i].do # "queue"

(* A rule is asked for once: it is what every copy of the session has, if  *)
(* it has one, and what the client said.                                   *)
RulesStored ==
  \A s \in Sessions :
    /\ file[s].state # "whole" => file[s].session = NewSession
    /\ \A t \in Tools : file[s].session.rules[t] \in {"ask"} \cup told[s].rules[t]

RulesLive ==
  served # "none" =>
    \A t \in Tools :
      /\ live.rules[t] \in {"ask"} \cup told[served].rules[t]
      /\ file[served].session.rules[t] \in {"ask", live.rules[t]}
      /\ \A w \in DOMAIN saves :
           saves[w].stage = "writing" => saves[w].content.rules[t] \in {"ask", live.rules[t]}

RulesAsked == prompt.wait = "asking" => live.rules[Tool] = "ask"

RulesOk == RulesStored /\ RulesLive /\ RulesAsked

(* A tool is used with the rule that let it through still there.           *)
LeaveOk ==
  prompt.leave # "none" =>
    /\ Running /\ Head(prompt.todo).do \in {"use", "end", "finish"}
    /\ Head(prompt.todo).do = "use" /\ prompt.leave = "rule" =>
         live.rules[Tool] = "allow"

IInv == TypeOK /\ ServedOk /\ PromptOk /\ QueuesOk /\ RulesOk /\ LeaveOk

(* A prompt that queues a fault does so before it ends, and nothing else.  *)
QueueOk ==
  prompt.queues # "none" =>
    /\ Running /\ prompt.fault = "none"
    /\ \A i \in 1..Len(prompt.todo) : prompt.todo[i].tool = "none"
    /\ \/ \E i \in 1..Len(prompt.todo) : prompt.todo[i].do = "queue"
       \/ prompt.queues \in ToSet(live.faults)

(* A copy of a session keeps what its client knows; the faults that have   *)
(* struck it are gone.                                                     *)
Lost(s) == {f \in Faults : <<s, f>> \in struck}

Keeps(knows, lost, session) ==
  /\ knows.turns <= session.turns
  /\ session.mode \in knows.modes
  /\ \A t \in Tools : session.rules[t] \in knows.rules[t]
  /\ knows.faults \ lost \subseteq ToSet(session.faults)

FilesKeep ==
  \A s \in Sessions :
    /\ file[s].state # "torn"
    /\ s \notin crossed =>
         /\ file[s].state = "whole" => Keeps(told[s], Lost(s), file[s].session)
         /\ told[s].born /\ ~told[s].closed => file[s].state = "whole"

(* One save at a time: what it writes is what the session is, but for the  *)
(* faults that strike meanwhile.                                           *)
ServedKeeps ==
  served # "none" /\ served \notin crossed =>
    /\ Keeps(told[served], Lost(served), live)
    /\ \A v, w \in DOMAIN saves :
         saves[v].stage # "none" /\ saves[w].stage # "none" => v = w
    /\ \A w \in DOMAIN saves :
         saves[w].stage = "writing" =>
           /\ saves[w].content.turns = live.turns
           /\ saves[w].content.mode = live.mode
           /\ saves[w].content.rules = live.rules
           /\ ToSet(live.faults) \subseteq ToSet(saves[w].content.faults)
    /\ prompt.wait = "answering" =>
         /\ told[served].turns < live.turns
         /\ \A i \in 1..Len(prompt.todo) : prompt.todo[i].do # "queue"

WholeWrites == "tornWrites" \notin Environment

StoreInv == IInv /\ QueueOk /\ FilesKeep /\ ServedKeeps

Regular(updates) ==
  \E life \in {<<"pending", "in_progress", "completed">>, <<"pending", "failed">>} :
    IsPrefix(updates, life)

(* A fault strikes the prompt it was queued for and no other: what the     *)
(* client sees of a prompt is in order, with nothing missing and nothing   *)
(* twice, unless a fault struck it or it began while the history was still *)
(* being sent.                                                             *)
RegularUnlessStruck ==
  Running /\ prompt.fault = "none" /\ prompt.alone =>
    /\ Regular(prompt.tool)
    /\ \A i \in 1..(Len(prompt.plan) - 1) : prompt.plan[i] < prompt.plan[i + 1]

(* A script's plans are in order, a tool's steps come only one after the   *)
(* other, and a fault is taken before anything but the title.              *)
Precedes == [permission |-> "call", use |-> "permission", end |-> "use"]

Laid(todo) ==
  /\ \A i, j \in 1..Len(todo) :
       i < j => /\ todo[i].at # 0 /\ todo[j].at # 0 => todo[i].at < todo[j].at
                /\ todo[j].do = "arm" => todo[i].do = "title"
  /\ \A i \in 1..(Len(todo) - 1) :
       todo[i + 1].do \in DOMAIN Precedes => todo[i].do = Precedes[todo[i + 1].do]

(* What the client has seen fits where the prompt is, and the plans still  *)
(* to be sent go beyond the one it has.                                    *)
SeenInOrder(p) ==
  /\ p.flag = "none"
  /\ Regular(p.tool)
  /\ p.todo # <<>> =>
       /\ Head(p.todo).do = "permission" => p.tool = <<"pending">>
       /\ Head(p.todo).do \in {"use", "end"} => p.tool = <<"pending", "in_progress">>
  /\ \A i \in 1..(Len(p.plan) - 1) : p.plan[i] < p.plan[i + 1]
  /\ p.wait # "answering" =>
       \A i \in 1..Len(p.plan), j \in 1..Len(p.todo) :
         p.todo[j].at # 0 => p.plan[i] < p.todo[j].at

RegularOk ==
  /\ Laid(prompt.todo)
  /\ (\E i \in 1..Len(prompt.todo) : prompt.todo[i].do = "arm") => prompt.fault = "none"
  /\ prompt.fault = "none" => SeenInOrder(prompt)

(* "Allows planning and reads, but blocks edits and terminal execution":   *)
(* no permission for these is taken for granted in the mode deny.          *)
DenyBlocks ==
  [][At("permission") /\ Tool # "read" /\ prompt'.leave = "mode"
       => live.mode # "deny"]_vars

(* A prompt that is cancelled returns, whatever it waits for; one that was *)
(* about to hang when its cancel came may not hear it.                     *)
CancelReturns ==
  prompt.aborted ~> ~Running \/ prompt.wait = "deaf"

(* "next prompt will hang until the client cancels it": a cancelled prompt *)
(* returns, whenever the cancel comes.                                     *)
CancelHeard == prompt.aborted ~> ~Running

(* "It will apply to the next prompt on this session": a fault strikes one *)
(* prompt of its session.                                                  *)
FaultStrikesOnce ==
  [][\A f \in Faults :
       prompt.fault = "none" /\ prompt'.fault = f => <<served, f>> \notin struck]_vars
=============================================================================
