----------------------------- MODULE AgentProcess -----------------------------
(***************************************************************************)
(* The agent's process and the connection over its standard input and      *)
(* output (acp/stdio-connection.ts): starting it, requests that race with  *)
(* its exit, and dispose with its stages.                                  *)
(*                                                                         *)
(* Of the process the runtime sees three events: exit, the end of its      *)
(* output, and close, which comes after both and only when no descendant   *)
(* holds the pipes any longer.  The promise onExit settles at close.       *)
(***************************************************************************)
EXTENDS Naturals

CONSTANTS
  Requests,   \* requests that may be under way
  Holders     \* whether a descendant of the agent may keep its pipes open

ASSUME ProcessAssumption == Holders \subseteq BOOLEAN

VARIABLES
  child,      \* the process
  output,     \* its standard output
  held,       \* a descendant has the pipes
  onExit,     \* the promise of createExitWatcher
  disposal,   \* how far dispose has got
  request     \* every request: idle, under way, or how it ended

processVars == <<child, output, held, onExit, disposal, request>>

UnderWay == {"pending", "guarded"}
Failures == {"refused", "exit", "closed"}

ProcessInit ==
  /\ child = "none" /\ output = "open" /\ held = FALSE
  /\ onExit = "pending" /\ disposal = "none"
  /\ request = [r \in Requests |-> "idle"]

-----------------------------------------------------------------------------
Spawn == child = "none" /\ child' = "spawning"

(* waitForSpawn: the spawn event, or an error.                             *)
SpawnSettles ==
  /\ child = "spawning"
  /\ child' \in {"running", "absent"}
  /\ UNCHANGED <<output, held, onExit, disposal, request>>

(* withExit: a request on a closed connection fails with "ACP connection   *)
(* closed", which waits a moment for the reason of the exit.               *)
Started ==
  CASE onExit = "failed" -> "exit"
    [] onExit # "failed" /\ output = "ended" -> "guarded"
    [] OTHER -> "pending"

Requested(r) == request' = [request EXCEPT ![r] = Started]

Answers(r, result) ==
  /\ request[r] = "pending" /\ output = "open"
  /\ request' = [request EXCEPT ![r] = result]
  /\ UNCHANGED <<child, output, held, onExit, disposal>>

ChildExits ==
  /\ child = "running"
  /\ child' = "exited"
  /\ held' \in {FALSE} \cup Holders
  /\ UNCHANGED <<output, onExit, disposal, request>>

HolderEnds ==
  /\ held
  /\ held' = FALSE
  /\ UNCHANGED <<child, output, onExit, disposal, request>>

(* The SDK's connection closes with the output and rejects what is         *)
(* pending; an agent may also close its output and live on.                *)
OutputEnds ==
  /\ output = "open" /\ child \in {"running", "exited"} /\ ~held
  /\ output' = "ended"
  /\ request' = [r \in Requests |->
                   IF request[r] = "pending" THEN "guarded" ELSE request[r]]
  /\ UNCHANGED <<child, held, onExit, disposal>>

(* createExitWatcher: an exit during dispose is expected.                  *)
Settled == onExit' = IF disposal = "none" THEN "failed" ELSE "expected"

(* exitFailure rejects every request with the reason of the exit.          *)
CloseEvent ==
  /\ child = "exited" /\ output = "ended" /\ ~held /\ onExit = "pending"
  /\ Settled
  /\ request' = [r \in Requests |->
                   IF onExit' = "failed" /\ request[r] \in UnderWay
                   THEN "exit" ELSE request[r]]
  /\ UNCHANGED <<child, output, held, disposal>>

\* Slip: the reason of the exit is waited for without a limit.
OnlyExplained(r) == request[r] = "guarded" /\ onExit = "failed"

(* waitForExitError: its time is over, or the exit was expected.           *)
Unexplained(r) == request[r] = "guarded"

GuardEnds(r) ==
  /\ Unexplained(r)
  /\ request' = [request EXCEPT ![r] = "closed"]
  /\ UNCHANGED <<child, output, held, onExit, disposal>>

-----------------------------------------------------------------------------
(* dispose: close the input, wait, SIGTERM, wait, SIGKILL, wait, and then  *)
(* for onExit.                                                             *)
Dispose == disposal = "none" /\ disposal' = "input closed"

Waiting == {"input closed", "terminated", "killed"}

\* Slip: a process that ignores SIGTERM is waited for.
NeverKills(stage) == "terminated"

(* terminateAgentProcess, when a wait is over and the process still runs.  *)
Escalated(stage) ==
  CASE stage = "input closed" -> "terminated"
    [] stage = "terminated" -> "killed"
    [] stage = "killed" -> "gone"

WaitEnds ==
  /\ disposal \in Waiting
  /\ disposal' = IF child = "running" THEN Escalated(disposal) ELSE "gone"
  /\ UNCHANGED <<child, output, held, onExit, request>>

DisposeEnds ==
  /\ disposal = "gone" /\ onExit # "pending"
  /\ disposal' = "done"
  /\ UNCHANGED <<child, output, held, onExit, request>>

ProcessNext ==
  \/ SpawnSettles
  \/ ChildExits \/ HolderEnds \/ OutputEnds \/ CloseEvent
  \/ \E r \in Requests : GuardEnds(r)
  \/ WaitEnds \/ DisposeEnds
===============================================================================
