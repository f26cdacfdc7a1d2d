---------------------------- MODULE TurnService ----------------------------
(***************************************************************************)
(* What one session promises about the turns submitted to it: the abstract *)
(* specification that SessionDriver implements.  A turn is submitted,      *)
(* waits in the queue, may hold the agent, and gets exactly one result.    *)
(* How the queue is ordered, who cancels, how the agent answers and what   *)
(* an event stream shows are details of the implementation.                *)
(***************************************************************************)

CONSTANTS
  Turns,        \* the turns a host may submit
  NoTurn        \* "no turn", not one of Turns

VARIABLES
  submitted,    \* turns handed to the session so far
  queued,       \* submitted turns that have not been started
  holder,       \* the turn whose prompt occupies the agent, or NoTurn
  result,       \* result of each turn, "none" until it has one
  open          \* the session has not been closed

vars == <<submitted, queued, holder, result, open>>

(* Results of a turn that held the agent, and of one that never did.       *)
RunResults  == {"completed", "cancelled", "denied", "timedOut", "failed"}
WaitResults == {"coalesced", "withdrawn", "timedOut"}
Results     == RunResults \cup WaitResults

Init ==
  /\ submitted = {}
  /\ queued = {}
  /\ holder = NoTurn
  /\ result = [t \in Turns |-> "none"]
  /\ open = TRUE

(* The agent is free for another prompt: nothing holds it, or what held it *)
(* has its result and lets go in this very step.                           *)
Free == holder = NoTurn \/ result[holder] # "none"

(* A host submits t; if it may start at once, Begin takes it from there.   *)
Submit(t) ==
  /\ open /\ t \notin submitted
  /\ submitted' = submitted \cup {t}
  /\ queued' = queued \cup {t}
  /\ UNCHANGED <<holder, result, open>>

(* lead gets the agent; the turns in merged travel inside its prompt.      *)
Begin(lead, merged) ==
  /\ open /\ Free
  /\ lead \in queued \/ lead \notin submitted
  /\ merged \subseteq queued \ {lead}
  /\ submitted' = submitted \cup {lead}
  /\ queued' = queued \ ({lead} \cup merged)
  /\ holder' = lead
  /\ result' = [t \in Turns |-> IF t \in merged THEN "coalesced" ELSE result[t]]
  /\ UNCHANGED open

(* The holder gets its result, before or when it lets the agent go.        *)
Finish(r) ==
  /\ holder # NoTurn /\ result[holder] = "none"
  /\ r \in RunResults
  /\ result' = [result EXCEPT ![holder] = r]
  /\ UNCHANGED <<submitted, queued, holder, open>>

Release ==
  /\ holder # NoTurn /\ Free
  /\ holder' = NoTurn
  /\ UNCHANGED <<submitted, queued, result, open>>

(* Waiting turns leave the queue without ever holding the agent.           *)
Drop(S, r) ==
  /\ S # {} /\ S \subseteq queued
  /\ r \in {"withdrawn", "timedOut"}
  /\ queued' = queued \ S
  /\ result' = [t \in Turns |-> IF t \in S THEN r ELSE result[t]]
  /\ UNCHANGED <<submitted, holder, open>>

(* Closing gives every unfinished turn a result and frees the agent.       *)
Close ==
  /\ open
  /\ open' = FALSE
  /\ queued' = {}
  /\ holder' = NoTurn
  /\ result' = [t \in Turns |->
                  IF t \in queued THEN "withdrawn"
                  ELSE IF t = holder /\ result[t] = "none" THEN "cancelled"
                  ELSE result[t]]
  /\ UNCHANGED submitted

Next ==
  \/ \E t \in Turns : Submit(t)
  \/ \E t \in Turns, merged \in SUBSET Turns : Begin(t, merged)
  \/ \E r \in RunResults : Finish(r)
  \/ Release
  \/ \E S \in SUBSET Turns, r \in WaitResults : Drop(S, r)
  \/ Close

Spec == Init /\ [][Next]_vars
-----------------------------------------------------------------------------
TypeOK ==
  /\ submitted \subseteq Turns
  /\ queued \subseteq Turns
  /\ holder \in Turns \cup {NoTurn}
  /\ result \in [Turns -> Results \cup {"none"}]
  /\ open \in BOOLEAN

(* No turn is lost: each submitted turn waits, holds the agent or has its  *)
(* result, and only submitted turns do.                                    *)
NoTurnLost ==
  /\ submitted = queued \cup {t \in Turns : t = holder \/ result[t] # "none"}
  /\ \A t \in queued : t # holder /\ result[t] = "none"
============================================================================
