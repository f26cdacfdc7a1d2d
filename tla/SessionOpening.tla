---------------------------- MODULE SessionOpening ----------------------------
(***************************************************************************)
(* One start of a session (or one listing of the agent's sessions), from   *)
(* the spawning of the agent to its end: acp/session-service.ts with       *)
(* bootstrapAcpSession, and the initial configuration and registration of  *)
(* core/runtime.ts.  The process is AgentProcess, with the opening's       *)
(* request under way at most once and, when the session is open, a prompt. *)
(* SessionManager has the same opening as one step that succeeds or fails. *)
(***************************************************************************)
EXTENDS AgentProcess, InitialConfig

CONSTANTS
  Agents,            \* agents: what they offer when a session is made
  MethodLists,       \* authentication methods an agent may ask for
  Handlers           \* whether the host gives an authentication handler

ASSUME OpeningAssumption ==
  /\ Requests = {"opening", "prompt"} /\ Handlers \subseteq BOOLEAN
  /\ \A offered \in Agents : IsAgent(offered)

VARIABLES
  stage,     \* how far the opening is
  purpose,   \* "session" or "list"
  agent,     \* what is in force at the agent: [options, mode]
  known,     \* what the driver knows of that
  todo,      \* steps of the initial configuration still to do
  report     \* the initial configuration report

openingVars == <<stage, purpose, agent, known, todo, report>>
vars == <<processVars, openingVars>>

configVars == <<agent, known, todo, report>>

Init ==
  /\ ProcessInit
  /\ stage = "idle" /\ purpose \in {"session", "list"}
  /\ agent \in Agents
  /\ known = agent /\ todo = <<>> /\ report = <<>>

-----------------------------------------------------------------------------
Goto(s) == stage' = s

AskAgent(s) ==
  /\ Goto(s) /\ Requested("opening")
  /\ UNCHANGED <<child, output, held, onExit, disposal>>

Reply(s) == stage = s /\ request["opening"] \notin UnderWay

(* Every catch of the session service disposes the connection before it    *)
(* throws, and so does the finally of a listing.                           *)
Clean(s) ==
  /\ Goto(s) /\ Dispose
  /\ UNCHANGED <<child, output, held, onExit, request>>

Fails == Clean("cleanup")

(* prepareSystemPrompt throws before there is a process.                   *)
Start ==
  /\ stage = "idle"
  /\ \/ Goto("spawning") /\ Spawn
     \/ purpose = "session" /\ Goto("failed") /\ UNCHANGED child
  /\ UNCHANGED <<output, held, onExit, disposal, request, purpose, configVars>>

SpawnReturns ==
  /\ stage = "spawning"
  /\ \/ child = "running" /\ AskAgent("initialize")
     \/ child = "absent" /\ Goto("failed") /\ UNCHANGED processVars
     \/ child = "exited" /\ AskAgent("initialize")
  /\ UNCHANGED <<purpose, configVars>>

(* After initialize a method is chosen if the agent names any: by the      *)
(* host's handler if there is one, otherwise without a question.           *)
InitializeReturns ==
  /\ Reply("initialize")
  /\ \/ /\ request["opening"] = "answered"
        /\ \E methods \in MethodLists, handler \in Handlers :
             CASE methods # <<>> /\ handler -> Goto("choosing") /\ UNCHANGED processVars
               [] methods # <<>> /\ ~handler /\ AutomaticMethod(methods) # <<>> ->
                    AskAgent("authenticate")
               [] OTHER -> AskAgent("session")
     \/ request["opening"] \in Failures /\ Fails
  /\ UNCHANGED <<purpose, configVars>>

(* The host's handler picks a method, skips, cancels or throws.            *)
HostChooses ==
  /\ stage = "choosing"
  /\ AskAgent("authenticate") \/ AskAgent("session") \/ Fails
  /\ UNCHANGED <<purpose, configVars>>

\* Slip: a failed authentication is thrown without disposing.
ThrownBare ==
  Goto("failed") /\ UNCHANGED processVars

AuthenticationFails == Fails

(* authenticateOrSkipUnsupported: an agent that says it has no             *)
(* authentication gets its session.                                        *)
AuthenticateReturns ==
  /\ Reply("authenticate")
  /\ \/ request["opening"] \in {"answered", "refused"} /\ AskAgent("session")
     \/ request["opening"] \in Failures /\ AuthenticationFails
  /\ UNCHANGED <<purpose, configVars>>

(* session/new, load, fork, resume or list; the last four may be missing.  *)
SessionReturns ==
  /\ Reply("session")
  /\ \/ /\ request["opening"] = "answered"
        /\ IF purpose = "list" THEN Clean("listing")
           ELSE Goto("config") /\ UNCHANGED processVars
        /\ known' = agent /\ todo' = Work
        /\ UNCHANGED <<agent, report>>
     \/ request["opening"] \in Failures \cup {"answered"} /\ Fails
        /\ UNCHANGED configVars
  /\ UNCHANGED purpose

-----------------------------------------------------------------------------
(* applyRuntimeInitialConfig: one step after another, each decided when it *)
(* is its turn.                                                            *)

Decided(step) == Decide(known, step)

ConfigStep ==
  /\ stage = "config" /\ todo # <<>>
  /\ LET item == Decided(Head(todo))
     IN  IF item.status = "ask"
         THEN \/ AskAgent("configuring") /\ UNCHANGED <<todo, report>>
              \/ (* the agent has no such method *)
                 /\ report' = Append(report, [item EXCEPT !.status = "failed"])
                 /\ todo' = Tail(todo)
                 /\ UNCHANGED <<stage, processVars>>
         ELSE /\ report' = Reported(report, item)
              /\ todo' = Tail(todo)
              /\ UNCHANGED <<stage, processVars>>
  /\ UNCHANGED <<purpose, agent, known>>

\* Slip: the driver keeps the options it had before.
OnlyTheValue(step, value) ==
  [known EXCEPT !.options[step].value = value]

(* replaceConfigOptions: the answer carries all options of the agent.      *)
Replaced(step, value) == [known EXCEPT !.options = agent.options]

Learnt(item) ==
  IF item.step = "modeId" THEN [known EXCEPT !.mode = item.value]
  ELSE Replaced(item.step, item.value)

ConfigReturns ==
  /\ Reply("configuring")
  /\ LET item == Decided(Head(todo))
         done == request["opening"] = "answered"
     IN  /\ report' = Append(report,
                        [item EXCEPT !.status = IF done THEN "applied" ELSE "failed"])
         /\ known' = IF done THEN Learnt(item) ELSE known
  /\ todo' = Tail(todo)
  /\ Goto("config")
  /\ UNCHANGED <<processVars, purpose, agent>>

ConfigEnds ==
  /\ stage = "config" /\ todo = <<>>
  /\ IF FailedRequired(report) THEN Fails
     ELSE Goto("registering") /\ UNCHANGED processVars
  /\ UNCHANGED <<purpose, configVars>>

(* registerManagedSession writes the registry's file.                      *)
RegisterReturns ==
  /\ stage = "registering"
  /\ stage' \in {"open", "unregistered"}
  /\ UNCHANGED <<processVars, purpose, configVars>>

CleanedUp ==
  /\ disposal = "done"
  /\ \/ stage = "cleanup" /\ Goto("failed")
     \/ stage = "listing" /\ Goto("listed")
     \/ stage = "closing" /\ Goto("closed")
  /\ UNCHANGED <<processVars, purpose, configVars>>

-----------------------------------------------------------------------------
(* The open session: prompts, and the close of its last handle.            *)
Prompt ==
  /\ stage = "open" /\ request["prompt"] = "idle"
  /\ Requested("prompt")
  /\ UNCHANGED <<child, output, held, onExit, disposal, openingVars>>

Close ==
  /\ stage = "open" /\ Clean("closing")
  /\ UNCHANGED <<purpose, configVars>>

(* The agent's answer; a configuration request it answers has its effect.  *)
AgentAnswers ==
  \E r \in Requests, result \in {"answered", "refused"} :
    /\ Answers(r, result)
    /\ IF r = "opening" /\ stage = "configuring" /\ result = "answered"
       THEN LET item == Decided(Head(todo))
            IN  agent' \in Effects(agent, item.step, item.value)
       ELSE UNCHANGED agent
    /\ UNCHANGED <<stage, purpose, known, todo, report>>

OpeningNext ==
  \/ Start \/ SpawnReturns
  \/ InitializeReturns \/ HostChooses \/ AuthenticateReturns \/ SessionReturns
  \/ ConfigStep \/ ConfigReturns \/ ConfigEnds
  \/ RegisterReturns \/ CleanedUp
  \/ Prompt \/ Close

Next ==
  \/ ProcessNext /\ UNCHANGED openingVars
  \/ AgentAnswers
  \/ OpeningNext

Spec == Init /\ [][Next]_vars

(* The operating system delivers what has happened, timers fire, no        *)
(* process survives SIGKILL, continuations run and files are written or    *)
(* fail.  Nothing says that an agent answers, or exits unless killed, or   *)
(* that a descendant lets go of its pipes.                                 *)
Fairness ==
  /\ WF_vars(SpawnSettles /\ UNCHANGED openingVars)
  /\ WF_vars(ChildExits /\ disposal \in {"killed", "gone"} /\ UNCHANGED openingVars)
  /\ WF_vars(OutputEnds /\ child = "exited" /\ UNCHANGED openingVars)
  /\ WF_vars(CloseEvent /\ UNCHANGED openingVars)
  /\ \A r \in Requests : WF_vars(GuardEnds(r) /\ UNCHANGED openingVars)
  /\ WF_vars(WaitEnds /\ UNCHANGED openingVars)
  /\ WF_vars(DisposeEnds /\ UNCHANGED openingVars)
  /\ WF_vars(SpawnReturns) /\ WF_vars(InitializeReturns)
  /\ WF_vars(AuthenticateReturns) /\ WF_vars(SessionReturns)
  /\ WF_vars(ConfigStep) /\ WF_vars(ConfigReturns) /\ WF_vars(ConfigEnds)
  /\ WF_vars(RegisterReturns) /\ WF_vars(CleanedUp)

FairSpec == Spec /\ Fairness

-----------------------------------------------------------------------------
Gone == child \in {"none", "absent"} \/ (child = "exited" /\ onExit # "pending")

(* An opening that fails, a listing and a closed session leave nothing     *)
(* behind: the agent has exited, its pipes are free and the opening has no *)
(* request under way, whatever failed and whenever the agent died.  The    *)
(* signals are delivered: a kill that is refused raises an error event,    *)
(* which settles onExit with the agent alive, and is not modelled.         *)
LeavesNothing ==
  stage \in {"failed", "listed", "closed"} =>
    /\ Gone
    /\ request["opening"] \notin UnderWay

(* The inductive invariant of LeavesNothing: what the process may be, and  *)
(* how far dispose, where the opening is.                                  *)
TypeOK ==
  /\ child \in {"none", "spawning", "running", "absent", "exited"}
  /\ onExit \in {"pending", "failed", "expected"}
  /\ disposal \in {"none", "gone", "done"} \cup Waiting
  /\ request \in [Requests -> {"idle", "answered"} \cup UnderWay \cup Failures]

Asking   == {"initialize", "authenticate", "session", "configuring"}
Cleaning == {"cleanup", "listing", "closing"}
Over     == {"failed", "listed", "closed"}

ProcessFits ==
  /\ stage = "idle" => child = "none"
  /\ child \in {"none", "absent"} => stage \in {"idle", "spawning", "failed"}
  /\ child = "none" => stage # "spawning"
  /\ child = "spawning" => stage = "spawning"

DisposalFits ==
  /\ stage \notin Cleaning \cup Over => disposal = "none"
  /\ stage \in Over => disposal = "done" \/ child \in {"none", "absent"}
  /\ disposal = "done" => onExit # "pending"
  /\ onExit # "pending" => child = "exited"

RequestFits == request["opening"] \in UnderWay => stage \in Asking

IInv == TypeOK /\ ProcessFits /\ DisposalFits /\ RequestFits

(* The driver's options as it knew them when it decided on an item are     *)
(* those of before the last change of the mode: session/set_mode answers   *)
(* without options, session/set_config_option with all of them.            *)
Stale(i) ==
  \E j \in DOMAIN report :
    /\ j < i /\ report[j].step = "modeId" /\ report[j].status = "applied"
    /\ \A k \in (j + 1)..(i - 1) : report[k].status # "applied"

(* The value an item reports is in force at the agent, or the one of       *)
(* another item that was applied for the same key: a later one, or any if  *)
(* this one was set already.                                               *)
Held(i) ==
  \E j \in DOMAIN report :
    /\ KeyOf(report[j].step) = KeyOf(report[i].step)
    /\ \/ j = i
       \/ report[j].status = "applied" /\ (i < j \/ report[i].status = "already-set")
    /\ InForce(agent, report[i].step) = report[j].value

Vouched(i) ==
  \/ report[i].status = "applied"
  \/ report[i].status = "already-set" /\ ~Stale(i)

(* What the initial configuration reports as applied is in force at the    *)
(* agent when the host gets its session, although one change may undo      *)
(* another, and so is what it reports as already set unless it has changed *)
(* the mode since the agent last listed its options; and for all that is   *)
(* required there is such a report.                                        *)
ReportTrue ==
  stage \in {"registering", "open"} =>
    /\ \A i \in DOMAIN report :
         Vouched(i) => Held(i) /\ report[i].value \in Accepts(KeyOf(report[i].step))
    /\ \A key \in Required :
         Wanted[key] # <<>> =>
           \E i \in DOMAIN report :
             KeyOf(report[i].step) = key /\ report[i].status \in Succeeded

(* The inductive invariant of ReportTrue: the report and the work left     *)
(* follow the order of the steps, the driver knows whatever it has still   *)
(* to decide on, and what is reported stays, for a change at the agent     *)
(* only touches what comes later and the mode, which has two names.        *)
Earlier    == {"idle", "spawning", "initialize", "choosing", "authenticate", "session"}
Configured == {"config", "configuring", "registering", "open"}

(* The agent has carried out a request and the driver does not know yet.   *)
Ahead == stage = "configuring" /\ request["opening"] = "answered"

Before(step, other) ==
  \E i, j \in DOMAIN Steps : i < j /\ Steps[i] = step /\ Steps[j] = other

IsSeq(seq) == seq \in Seq(ToSet(seq))

InOrder ==
  /\ IsSeq(todo) /\ ToSet(todo) \subseteq ToSet(Steps)
  /\ \A i, j \in DOMAIN todo : i < j => Before(todo[i], todo[j])
  /\ "mode" \in ToSet(todo) => "modeId" \in ToSet(todo)
  /\ IsSeq(report)
  /\ \A i \in DOMAIN report :
       /\ report[i].step \in ToSet(Steps)
       /\ \A step \in ToSet(todo) : Before(report[i].step, step)
  /\ stage \in Earlier => report = <<>>

RequestIs ==
  stage = "configuring" =>
    /\ todo # <<>> /\ Decided(Head(todo)).status = "ask"
    /\ Ahead => InForce(agent, Head(todo)) = Decided(Head(todo)).value

Coming(key, value) ==
  /\ Ahead /\ KeyOf(Head(todo)) = key
  /\ value = Decided(Head(todo)).value

KnownIs ==
  stage \in {"config", "configuring"} =>
    /\ "modeId" \in ToSet(todo) =>
         \/ agent.mode = known.mode
         \/ \E j \in DOMAIN report :
              /\ report[j].step = "mode" /\ report[j].status = "applied"
              /\ agent.mode = report[j].value
         \/ Coming("mode", agent.mode)
    /\ DOMAIN known.options = DOMAIN agent.options
    /\ \A o \in DOMAIN agent.options :
         \/ Ahead \/ Stale(Len(report) + 1)
         \/ o = "mode" /\ "mode" \notin ToSet(todo)
         \/ known.options[o] = agent.options[o]

InPlace ==
  stage \in Configured =>
    \A i \in DOMAIN report :
      Vouched(i) =>
        /\ report[i].step \in {"modeId"} \cup DOMAIN agent.options
        /\ report[i].value \in Accepts(KeyOf(report[i].step))
        /\ \/ Held(i)
           \/ report[i].step = "mode" /\ Coming("mode", InForce(agent, "mode"))

Covered ==
  stage \in Configured =>
    \A key \in DOMAIN Wanted :
      Wanted[key] # <<>> =>
        \/ \E i \in DOMAIN report : KeyOf(report[i].step) = key
        \/ key \in ToSet(todo)
        \/ key = "mode" /\ ModeId # <<>> /\ "modeId" \in ToSet(todo)

Finished ==
  stage \in {"registering", "open"} => todo = <<>> /\ ~FailedRequired(report)

ReportInv ==
  /\ IsAgent(agent) /\ IsAgent(known)
  /\ InOrder /\ RequestIs /\ KnownIs /\ InPlace /\ Covered /\ Finished

(* Whatever the initial configuration reports as already set is in force   *)
(* when the host gets its session.                                         *)
AlreadySetTrue ==
  stage \in {"registering", "open"} =>
    \A i \in DOMAIN report : report[i].status = "already-set" => Held(i)

(* When the agent dies every request under way ends, and so does the       *)
(* opening unless it waits for its host, or a descendant of the agent      *)
(* keeps the pipes.                                                        *)
DeathIsNoticed ==
  /\ \A r \in Requests :
       child = "exited" /\ request[r] \in UnderWay
         ~> held \/ request[r] \notin UnderWay
  /\ child = "exited" /\ stage \in Asking
       ~> held \/ stage \in {"choosing", "open", "unregistered", "failed", "listed"}

(* dispose ends although the agent ignores the end of its input and        *)
(* SIGTERM, unless a descendant keeps the pipes.                           *)
DisposeReturns ==
  disposal # "none" ~> held \/ disposal = "done"

(* A start that fails has closed the session it made.                      *)
NothingUnregistered == stage = "unregistered" => Gone

Set(key) ==
  \/ key \in DOMAIN agent.options /\ agent.options[key].value \in Accepts(key)
  \/ key = "mode" /\ agent.mode \in Accepts("mode")

(* A start fails for its configuration only if the agent would run with a  *)
(* different one.                                                          *)
FailsOnlyIfDifferent ==
  stage = "cleanup" /\ report # <<>> /\ child = "running" =>
    \E key \in Required : ~Set(key)
===============================================================================
