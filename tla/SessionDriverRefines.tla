------------------------ MODULE SessionDriverRefines -----------------------
(***************************************************************************)
(* SessionDriver implements TurnService, for any set of turns.             *)
(***************************************************************************)
EXTENDS SessionDriverProofs

Submitted == {t \in Turns : stage[t] # "none"}

(* What a step of TurnService sees of the driver.                          *)
ShownUnchanged ==
  /\ Submitted' = Submitted /\ ToSet(pending)' = ToSet(pending)
  /\ current' = current /\ outcome' = outcome
  /\ (status # "closed")' = (status # "closed")

(* A step TurnService sees nothing of is a stutter.                        *)
LEMMA ShownUnchangedStutters ==
  ASSUME ShownUnchanged
  PROVE  UNCHANGED Abstract!vars
BY DEF ShownUnchanged, Submitted, Abstract!vars

(* Both begin alike.                                                       *)
LEMMA InitRefines == Init => Abstract!Init
BY DEF Init, Abstract!Init, ToSet

(* finishTurnWithTerminalEvent for turns without a result.                 *)
LEMMA FinishResults ==
  ASSUME TypeOK, NEW S \in SUBSET Turns, \A t \in S : outcome[t] = "none",
         NEW res, NEW ev, Finish(S, res, ev)
  PROVE  outcome' = [t \in Turns |-> IF t \in S THEN res[t] ELSE outcome[t]]
BY DEF Finish

(* startNextQueuedTurn is a Begin.                                         *)
LEMMA StartNextBegins ==
  ASSUME TypeOK, OutcomeOk, NEW q \in Seq(Turns), q # <<>>, IsInjective(q),
         NEW pol, NEW stg \in [Turns -> Stages], NEW ev, NEW tm,
         \A t \in Turns : t \in ToSet(q) => stg[t] = "queued" /\ outcome[t] = "none",
         status # "closed", Abstract!Free,
         NEW x \in Turns, x = q[1],
         ToSet(pending) = ToSet(q) \/ (ToSet(pending) = {} /\ ToSet(q) = {x}),
         {t \in Turns : stg[t] # "none"} = Submitted \cup {x},
         x \in ToSet(pending) \/ x \notin Submitted,
         StartNext(q, pol, stg, ev, tm)
  PROVE  Abstract!Next
<1>1. PICK merged \in SUBSET Turns : Starts(q, stg, ev, tm, merged)
  BY StartNextShape
<1>2. /\ status' = "running" /\ current' = x
      /\ stage' = [stg EXCEPT ![x] = "starting"]
      /\ Finish(merged, [t \in Turns |-> "coalesced"], ev)
      /\ ToSet(pending') = ToSet(q) \ ({x} \cup merged)
      /\ merged \subseteq ToSet(q) \ {x}
  BY <1>1 DEF Starts
<1>3. outcome' = [t \in Turns |-> IF t \in merged THEN "coalesced" ELSE outcome[t]]
  <2>1. \A t \in merged : outcome[t] = "none"
    BY <1>2
  <2>2. outcome' = [t \in Turns |-> IF t \in merged
                      THEN [u \in Turns |-> "coalesced"][t] ELSE outcome[t]]
    BY <1>2, <2>1, FinishResults
  <2> QED BY <2>2
<1>4. Submitted' = Submitted \cup {x}
  BY <1>2 DEF Submitted
<1>5. ToSet(pending') = ToSet(pending) \ ({x} \cup merged)
      /\ merged \subseteq ToSet(pending) \ {x}
  BY <1>2
<1>6. Abstract!Begin(x, merged)
  BY <1>2, <1>3, <1>4, <1>5 DEF Abstract!Begin, Submitted
<1> QED
  BY <1>6 DEF Abstract!Next

(* Waiting turns leave the queue: a Drop.                                  *)
LEMMA DropRefines ==
  ASSUME TypeOK, QueueOk, NEW S \in SUBSET Turns, S # {}, S \subseteq ToSet(pending),
         ToSet(pending') = ToSet(pending) \ S,
         NEW r \in {"withdrawn", "timedOut"}, FinishAs(S, r),
         UNCHANGED <<stage, status, current>>
  PROVE  Abstract!Next
<1>1. \A t \in S : outcome[t] = "none"
  BY DEF QueueOk, IsPending
<1>2. outcome' = [t \in Turns |-> IF t \in S THEN r ELSE outcome[t]]
  <2>1. outcome' = [t \in Turns |-> IF t \in S THEN [u \in Turns |-> r][t]
                                               ELSE outcome[t]]
    BY <1>1, FinishResults DEF FinishAs
  <2> QED BY <2>1
<1>3. Abstract!Drop(S, r)
  BY <1>2 DEF Abstract!Drop, Submitted
<1>4. r \in Abstract!WaitResults
  BY DEF Abstract!WaitResults
<1> QED
  BY <1>3, <1>4 DEF Abstract!Next

(* The current turn gets its result: a Finish.                             *)
LEMMA FinishRefines ==
  ASSUME TypeOK, NEW t \in Turns, current = t, outcome[t] = "none",
         NEW r \in Abstract!RunResults, FinishAs({t}, r),
         Submitted' = Submitted, UNCHANGED <<status, pending, current>>
  PROVE  Abstract!Next
<1>1. outcome' = [outcome EXCEPT ![t] = r]
  <2>1. outcome' = [u \in Turns |-> IF u \in {t} THEN [v \in Turns |-> r][u]
                                                 ELSE outcome[u]]
    BY FinishResults DEF FinishAs
  <2> QED BY <2>1 DEF TypeOK
<1>2. t # NoTurn
  BY ConstantsAssumption
<1>3. Abstract!Finish(r)
  BY <1>1, <1>2 DEF Abstract!Finish, Submitted
<1> QED
  BY <1>3 DEF Abstract!Next

(* Every step of the driver is a step of TurnService or a stutter.         *)
LEMMA StepRefines == IInv /\ [Next]_vars => [Abstract!Next]_(Abstract!vars)
<1> SUFFICES ASSUME IInv, [Next]_vars
             PROVE  Abstract!Next \/ UNCHANGED Abstract!vars
  OBVIOUS
<1>0. TypeOK /\ RunnerOk /\ QueueOk /\ OutcomeOk
  BY DEF IInv
<1> USE DEF queueVars, streamVars, agentVars
<1>1. ASSUME UNCHANGED <<status, pending, current, stage, outcome>>
      PROVE  UNCHANGED Abstract!vars
  BY <1>1 DEF Abstract!vars
<1>2. ASSUME NEW t \in Turns, NEW timed \in BOOLEAN, StartTurn(t, timed)
      PROVE  Abstract!Next
  <2> DEFINE q   == Append(pending, t)
             stg == [stage EXCEPT ![t] = "queued"]
             ev  == [events EXCEPT ![t] = Append(@, "queued")]
             tm  == IF timed THEN timer \cup {t} ELSE timer
  <2>1. /\ stage[t] = "none" /\ status # "closed" /\ outcome[t] = "none"
        /\ t \notin ToSet(pending) /\ pending \in Seq(Turns) /\ IsInjective(pending)
    BY <1>0, <1>2 DEF StartTurn, OpenCall, CanStart, OutcomeOk, QueueOk, IsPending, TypeOK
  <2>2. /\ q \in Seq(Turns) /\ q # <<>> /\ IsInjective(q)
        /\ ToSet(q) = ToSet(pending) \cup {t}
    BY <2>1, AppendShape
  <2>3. /\ stg \in [Turns -> Stages] /\ stg[t] = "queued"
        /\ \A u \in Turns : u # t => stg[u] = stage[u]
    BY <1>0 DEF TypeOK, Stages
  <2>4. {u \in Turns : stg[u] # "none"} = Submitted \cup {t} /\ t \notin Submitted
    BY <2>1, <2>3 DEF Submitted
  <2>5. CASE current = NoTurn
    <3>1. StartNext(q, policy, stg, ev, tm)
      BY <1>2, <2>5 DEF StartTurn, OpenCall, CanStart
    <3>2. pending = <<>> /\ q[1] = t
      BY <1>0, <2>5 DEF RunnerOk
    <3>3. ToSet(pending) = {}
      BY <3>2 DEF ToSet
    <3>4. Abstract!Free
      BY <2>5 DEF Abstract!Free
    <3> HIDE DEF q, stg, ev, tm
    <3>5. \A u \in Turns : u \in ToSet(q) => stg[u] = "queued" /\ outcome[u] = "none"
      BY <2>1, <2>2, <2>3, <3>3
    <3> QED BY <1>0, <2>1, <2>2, <2>3, <2>4, <3>1, <3>2, <3>3, <3>4, <3>5,
               StartNextBegins
  <2>6. CASE current # NoTurn
    <3>1. /\ pending' = q /\ stage' = stg
          /\ UNCHANGED <<status, current, outcome>>
      BY <1>2, <2>6 DEF StartTurn, OpenCall, CanStart
    <3> HIDE DEF q, stg, ev, tm
    <3>2. Abstract!Submit(t)
      BY <2>1, <2>2, <2>4, <3>1 DEF Abstract!Submit, Submitted
    <3> QED BY <3>2 DEF Abstract!Next
  <2> QED BY <2>5, <2>6
<1>3. ASSUME NEW t \in Turns, SendPrompt(t)
      PROVE  UNCHANGED Abstract!vars
  <2>1. /\ stage[t] = "starting" /\ stage' = [stage EXCEPT ![t] = "prompting"]
        /\ UNCHANGED <<status, pending, current, outcome>>
    BY <1>3 DEF SendPrompt
  <2>2. Submitted' = Submitted
    BY <1>0, <2>1 DEF Submitted, TypeOK
  <2> QED BY <2>1, <2>2, ShownUnchangedStutters DEF ShownUnchanged
<1>4. ASSUME NEW t \in Turns, CancelTurn(t)
      PROVE  UNCHANGED Abstract!vars
  BY <1>1, <1>4 DEF CancelTurn
<1>5. ASSUME NEW t \in Turns, SendQueuedTurnNow(t)
      PROVE  UNCHANGED Abstract!vars
  <2>1. current # NoTurn
    BY <1>0, <1>5 DEF SendQueuedTurnNow, CanStart, ToFront, IsPending, RunnerOk, ToSet
  <2>2. /\ pending' = <<t>> \o Without(pending, t) /\ t \in ToSet(pending)
        /\ UNCHANGED <<status, current, stage, outcome>>
    BY <1>5, <2>1 DEF SendQueuedTurnNow, CanStart, ToFront, IsPending
  <2> DEFINE w == Without(pending, t)
  <2>3. w \in Seq(Turns) /\ ToSet(w) = ToSet(pending) \ {t}
    BY <1>0, <2>2, WithoutShape DEF QueueOk, TypeOK
  <2> HIDE DEF w
  <2>4. ToSet(<<t>> \o w) = ToSet(w) \cup {t}
    BY <2>3, UnshiftShape
  <2>5. ToSet(pending') = ToSet(pending)
    BY <2>2, <2>3, <2>4 DEF w
  <2>6. Submitted' = Submitted
    BY <2>2 DEF Submitted
  <2> QED BY <2>2, <2>5, <2>6, ShownUnchangedStutters DEF ShownUnchanged
<1>6. ASSUME NEW t \in Turns, WithdrawQueuedTurn(t)
      PROVE  Abstract!Next
  <2>1. /\ t \in ToSet(pending) /\ pending' = Without(pending, t)
        /\ FinishAs({t}, "withdrawn") /\ UNCHANGED <<stage, status, current>>
    BY <1>6 DEF WithdrawQueuedTurn, Withdraw, IsPending
  <2>2. ToSet(pending') = ToSet(pending) \ {t}
    BY <1>0, <2>1, WithoutShape DEF QueueOk, TypeOK
  <2> QED BY <1>0, <2>1, <2>2, DropRefines
<1>7. ASSUME ClearQueuedTurns
      PROVE  Abstract!Next
  <2>1. /\ pending # <<>> /\ pending' = <<>>
        /\ FinishAs(ToSet(pending), "withdrawn")
        /\ UNCHANGED <<stage, status, current>>
    BY <1>7 DEF ClearQueuedTurns, Withdraw
  <2>2. ToSet(pending) \in SUBSET Turns /\ ToSet(pending) # {}
    <3>1. pending \in Seq(Turns) /\ 1 \in DOMAIN pending
      BY <1>0, <2>1 DEF TypeOK
    <3> QED BY <3>1 DEF ToSet
  <2>3. ToSet(pending') = {}
    BY <2>1 DEF ToSet
  <2> QED BY <1>0, <2>1, <2>2, <2>3, DropRefines
<1>8. ASSUME NEW pol \in Policies, SetQueuePolicy(pol)
      PROVE  UNCHANGED Abstract!vars
  <2>1. ~(status # "closed" /\ current = NoTurn /\ pending # <<>>)
    BY <1>0 DEF RunnerOk
  <2> QED BY <1>1, <1>8, <2>1 DEF SetQueuePolicy, CanStart
<1>9. ASSUME ControlOperation
      PROVE  UNCHANGED Abstract!vars
  BY <1>1, <1>9 DEF ControlOperation, OpenCall
<1>10. ASSUME Close
       PROVE  Abstract!Next
  <2> DEFINE S == ({current} \ {NoTurn}) \cup ToSet(pending)
             res == [t \in Turns |-> IF t = current THEN "cancelled"
                                                    ELSE "withdrawn"]
  <2>1. /\ status # "closed" /\ status' = "closed" /\ current' = NoTurn
        /\ pending' = <<>> /\ UNCHANGED stage /\ Finish(S, res, events)
    BY <1>10 DEF Close, OpenCall
  <2>2. ToSet(pending') = {}
    BY <2>1 DEF ToSet
  <2>3. \A t \in Turns : t \in ToSet(pending) => outcome[t] = "none" /\ t # current
    BY <1>0, ConstantsAssumption DEF QueueOk, IsPending, RunnerOk, Running
  <2>4. \A t \in Turns : t = current => t # NoTurn
    BY ConstantsAssumption
  <2>5. \A t \in Turns : outcome'[t] = IF t \in S /\ outcome[t] = "none"
                                       THEN res[t] ELSE outcome[t]
    BY <2>1 DEF Finish
  <2>6. outcome' = [t \in Turns |->
                      IF t \in ToSet(pending) THEN "withdrawn"
                      ELSE IF t = current /\ outcome[t] = "none" THEN "cancelled"
                      ELSE outcome[t]]
    <3>1. ASSUME NEW t \in Turns
          PROVE  outcome'[t] = IF t \in ToSet(pending) THEN "withdrawn"
                               ELSE IF t = current /\ outcome[t] = "none"
                                    THEN "cancelled" ELSE outcome[t]
      BY <2>3, <2>4, <2>5
    <3>2. outcome' = [t \in Turns |-> outcome'[t]]
      BY <2>1 DEF Finish
    <3> HIDE DEF S, res
    <3> QED BY <3>1, <3>2
  <2>7. Abstract!Close
    BY <2>1, <2>2, <2>6 DEF Abstract!Close
  <2> QED BY <2>7 DEF Abstract!Next
<1>11. ASSUME NEW t \in Turns, StreamEnd(t)
       PROVE  Abstract!Next \/ UNCHANGED Abstract!vars
  <2>1. CASE stage[t] = "queued" /\ IsPending(t)
    <3>1. /\ pending' = Without(pending, t) /\ FinishAs({t}, "withdrawn")
          /\ UNCHANGED <<status, current, stage>> /\ t \in ToSet(pending)
      BY <1>11, <2>1 DEF StreamEnd, IsPending
    <3>2. ToSet(pending') = ToSet(pending) \ {t}
      BY <1>0, <3>1, WithoutShape DEF QueueOk, TypeOK
    <3> QED BY <1>0, <3>1, <3>2, DropRefines
  <2>2. CASE stage[t] = "queued" /\ ~IsPending(t)
    BY <1>1, <1>11, <2>2 DEF StreamEnd
  <2>3. CASE stage[t] # "queued" /\ current = t /\ outcome[t] = "none"
    <3>1. /\ FinishAs({t}, "cancelled")
          /\ UNCHANGED <<status, pending, current, stage>>
      BY <1>11, <2>3 DEF StreamEnd
    <3>2. Submitted' = Submitted /\ "cancelled" \in Abstract!RunResults
      BY <3>1 DEF Submitted, Abstract!RunResults
    <3> QED BY <1>0, <2>3, <3>1, <3>2, FinishRefines
  <2>4. CASE stage[t] # "queued" /\ ~(current = t /\ outcome[t] = "none")
    BY <1>1, <1>11, <2>4 DEF StreamEnd
  <2> QED BY <2>1, <2>2, <2>3, <2>4
<1>12. ASSUME NEW t \in Turns, TimerFires(t)
       PROVE  Abstract!Next \/ UNCHANGED Abstract!vars
  <2>1. CASE current = t
    <3>1. /\ FinishAs({t}, "timedOut")
          /\ UNCHANGED <<status, pending, current, stage>>
      BY <1>12, <2>1 DEF TimerFires
    <3>2. Submitted' = Submitted /\ "timedOut" \in Abstract!RunResults
      BY <3>1 DEF Submitted, Abstract!RunResults
    <3>3. CASE outcome[t] = "none"
      BY <1>0, <2>1, <3>1, <3>2, <3>3, FinishRefines
    <3>4. CASE outcome[t] # "none"
      <4>1. outcome' = outcome
        BY <1>0, <3>1, <3>4 DEF FinishAs, Finish, TypeOK
      <4> QED BY <1>1, <3>1, <4>1
    <3> QED BY <3>3, <3>4
  <2>2. CASE current # t /\ IsPending(t)
    <3>1. /\ pending' = Without(pending, t) /\ FinishAs({t}, "timedOut")
          /\ UNCHANGED <<status, current, stage>> /\ t \in ToSet(pending)
      BY <1>12, <2>2 DEF TimerFires, IsPending
    <3>2. ToSet(pending') = ToSet(pending) \ {t}
      BY <1>0, <3>1, WithoutShape DEF QueueOk, TypeOK
    <3> QED BY <1>0, <3>1, <3>2, DropRefines
  <2>3. CASE current # t /\ ~IsPending(t)
    BY <1>1, <1>12, <2>3 DEF TimerFires
  <2> QED BY <2>1, <2>2, <2>3
<1>13. ASSUME NEW t \in Turns, DenyPermission(t)
       PROVE  UNCHANGED Abstract!vars
  BY <1>1, <1>13 DEF DenyPermission
<1>14. ASSUME NEW t \in Turns, PromptReturns(t)
       PROVE  Abstract!Next \/ UNCHANGED Abstract!vars
  <2>1. /\ stage[t] = "prompting" /\ stage' = [stage EXCEPT ![t] = "settling"]
        /\ UNCHANGED <<status, pending, current>>
    BY <1>14 DEF PromptReturns
  <2>2. Submitted' = Submitted
    BY <1>0, <2>1 DEF Submitted, TypeOK
  <2>3. CASE outcome[t] = "none"
    <3>1. PICK a : FinishAs({t}, Result(t, a))
      BY <1>14, <2>3 DEF PromptReturns
    <3>2. Result(t, a) \in Abstract!RunResults
      BY DEF Result, Abstract!RunResults
    <3>3. status # "closed"
      BY <1>0, <2>1, <2>3 DEF OutcomeOk
    <3>4. current = t
      BY <1>0, <2>1, <3>3 DEF RunnerOk, Running
    <3> QED BY <1>0, <2>1, <2>2, <2>3, <3>1, <3>2, <3>4, FinishRefines
  <2>4. CASE outcome[t] # "none"
    <3>1. outcome' = outcome
      BY <1>14, <2>4 DEF PromptReturns
    <3> QED BY <2>1, <2>2, <3>1, ShownUnchangedStutters DEF ShownUnchanged
  <2> QED BY <2>3, <2>4
<1>15. ASSUME NEW t \in Turns, TurnSettles(t)
       PROVE  Abstract!Next \/ UNCHANGED Abstract!vars
  <2> DEFINE stg == [stage EXCEPT ![t] = "finished"]
  <2>1. /\ stage[t] = "settling" /\ stg[t] = "finished" /\ stg \in [Turns -> Stages]
        /\ \A u \in Turns : u # t => stg[u] = stage[u]
    BY <1>0, <1>15 DEF TurnSettles, TypeOK, Stages
  <2>2. outcome[t] # "none"
    BY <1>0, <2>1 DEF OutcomeOk
  <2>3. {u \in Turns : stg[u] # "none"} = Submitted
    BY <2>1 DEF Submitted
  <2>4. CASE status # "closed" /\ current \in {t, NoTurn} /\ pending # <<>>
    <3>1. StartNext(pending, policy, stg, events, timer)
      BY <1>15, <2>4 DEF TurnSettles
    <3> HIDE DEF stg
    <3>2. pending \in Seq(Turns) /\ IsInjective(pending)
      BY <1>0 DEF TypeOK, QueueOk
    <3> DEFINE x == pending[1]
    <3>3. x \in Turns /\ x \in ToSet(pending)
      <4>1. 1 \in DOMAIN pending /\ x \in Turns
        BY <2>4, <3>2
      <4> QED BY <4>1 DEF ToSet
    <3>4. \A u \in Turns : u \in ToSet(pending) => stg[u] = "queued" /\ outcome[u] = "none"
      BY <1>0, <2>1 DEF QueueOk, IsPending
    <3>5. x \in Submitted
      BY <1>0, <3>3 DEF QueueOk, IsPending, Submitted
    <3>6. Abstract!Free
      BY <2>2, <2>4 DEF Abstract!Free
    <3>7. {u \in Turns : stg[u] # "none"} = Submitted \cup {x}
      BY <2>3, <3>5
    <3> QED BY <1>0, <2>1, <2>4, <3>1, <3>2, <3>3, <3>4, <3>6, <3>7,
               StartNextBegins
  <2>5. CASE ~(status # "closed" /\ current \in {t, NoTurn} /\ pending # <<>>)
    <3>1. /\ stage' = stg
          /\ current' = IF current = t THEN NoTurn ELSE current
          /\ status' = IF status # "closed" /\ pending = <<>> THEN "ready" ELSE status
          /\ UNCHANGED <<pending, outcome>>
      BY <1>15, <2>5 DEF TurnSettles
    <3>2. Submitted' = Submitted
      BY <2>3, <3>1 DEF Submitted
    <3>3. (status # "closed")' = (status # "closed")
      BY <3>1
    <3>4. CASE current = t
      <4>1. Abstract!Release
        BY <2>2, <3>1, <3>2, <3>3, <3>4, ConstantsAssumption
           DEF Abstract!Release, Abstract!Free, Submitted
      <4> QED BY <4>1 DEF Abstract!Next
    <3>5. CASE current # t
      BY <3>1, <3>2, <3>3, <3>5, ShownUnchangedStutters DEF ShownUnchanged
    <3> QED BY <3>4, <3>5
  <2> QED BY <2>4, <2>5
<1>16. ASSUME AgentReceives \/ (\E t \in Turns, a \in Answers : AgentAnswers(t, a))
              \/ Dispose \/ LoseConnection
       PROVE  UNCHANGED Abstract!vars
  BY <1>1, <1>16 DEF AgentReceives, AgentAnswers, Dispose, LoseConnection, Disconnect
<1>17. ASSUME UNCHANGED vars
       PROVE  UNCHANGED Abstract!vars
  BY <1>1, <1>17 DEF vars
<1>18. ASSUME Next
       PROVE  Abstract!Next \/ UNCHANGED Abstract!vars
  BY <1>2, <1>3, <1>4, <1>5, <1>6, <1>7, <1>8, <1>9, <1>10, <1>11, <1>12, <1>13,
     <1>14, <1>15, <1>16, <1>18, Zenon DEF Next
<1> QED
  BY <1>17, <1>18

(* The driver keeps the promise of TurnService for any set of turns: each  *)
(* submitted turn waits, holds the agent or has its one final result, and  *)
(* nothing of it is lost at close.                                         *)
THEOREM DriverRefines == Spec => Refines
<1>1. Spec => Abstract!Spec
  BY InitRefines, StepRefines, Invariance, PTL DEF Spec, Abstract!Spec
<1> QED
  BY <1>1 DEF Refines

(* A turn without terminal event is pending or current, and only such a    *)
(* turn is pending.                                                        *)
LEMMA IInvLosesNoTurn == IInv => NoTurnLost
<1> SUFFICES ASSUME IInv PROVE NoTurnLost
  OBVIOUS
<1> USE DEF IInv
<1>1. ASSUME NEW t \in Turns, t \in ToSet(pending)
      PROVE  stage[t] # "none" /\ t # current /\ outcome[t] = "none"
  BY <1>1, ConstantsAssumption DEF QueueOk, IsPending, RunnerOk, Running
<1>2. ASSUME NEW t \in Turns, stage[t] # "none", outcome[t] = "none", t # current
      PROVE  t \in ToSet(pending)
  <2>1. stage[t] \notin Running
    BY <1>2 DEF RunnerOk, OutcomeOk
  <2>2. stage[t] = "queued"
    BY <1>2, <2>1 DEF OutcomeOk, TypeOK, Stages, Running
  <2> QED BY <1>2, <2>2 DEF QueueOk, IsPending
<1>3. ASSUME NEW t \in Turns, t = current \/ outcome[t] # "none"
      PROVE  stage[t] # "none"
  BY <1>3, ConstantsAssumption DEF RunnerOk, Running, OutcomeOk
<1>4. ToSet(pending) \subseteq Turns
  BY DEF TypeOK, ToSet
<1>5. Abstract!TypeOK
  <2>1. outcome \in [Turns -> Abstract!Results \cup {"none"}]
    BY DEF TypeOK, Outcomes, Abstract!Results, Abstract!RunResults,
           Abstract!WaitResults
  <2> QED BY <1>4, <2>1 DEF TypeOK, Abstract!TypeOK
<1>6. Abstract!NoTurnLost
  BY <1>1, <1>2, <1>3, <1>4 DEF Abstract!NoTurnLost
<1> QED BY <1>5, <1>6 DEF NoTurnLost

(* No turn handed to startTurn is lost.                                    *)
THEOREM NoTurnLostHolds == Spec => []NoTurnLost
BY Invariance, IInvLosesNoTurn, PTL
============================================================================
