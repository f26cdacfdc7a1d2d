------------------------ MODULE SessionOpeningProofs ------------------------
(***************************************************************************)
(* Proofs about SessionOpening: for any agent, any list of authentication  *)
(* methods and any configuration asked for, with or without a host to ask. *)
(***************************************************************************)
EXTENDS SessionOpening, WellFoundedInduction, TLAPS

(* The invariant holds at the start.                                       *)
LEMMA InitInv == Init => IInv
BY OpeningAssumption
   DEF Init, ProcessInit, IInv, TypeOK, ProcessFits, DisposalFits, RequestFits,
       Waiting, UnderWay, Failures, Cleaning, Over, Asking

(* Going on to ask the agent.                                              *)
LEMMA Asks ==
  ASSUME IInv, NEW s \in Asking, AskAgent(s), stage \notin Cleaning \cup Over,
         child \in {"running", "exited"}
  PROVE  IInv'
BY OpeningAssumption
   DEF IInv, TypeOK, ProcessFits, DisposalFits, RequestFits, AskAgent, Goto,
       Requested, Started, Waiting, UnderWay, Failures, Cleaning, Over, Asking

(* Going on without the agent.                                             *)
LEMMA GoesOn ==
  ASSUME IInv, NEW s, s \notin Cleaning \cup Over \cup {"idle", "spawning"},
         stage' = s, stage \notin Cleaning \cup Over,
         child \in {"running", "exited"}, request["opening"] \notin UnderWay,
         UNCHANGED processVars
  PROVE  IInv'
BY DEF IInv, TypeOK, ProcessFits, DisposalFits, RequestFits, processVars,
       Waiting, UnderWay, Failures, Cleaning, Over, Asking

(* Disposing of the connection.                                            *)
LEMMA Cleans ==
  ASSUME IInv, NEW s \in Cleaning, Clean(s), stage \notin Cleaning \cup Over,
         child \in {"running", "exited"}, request["opening"] \notin UnderWay
  PROVE  IInv'
BY DEF IInv, TypeOK, ProcessFits, DisposalFits, RequestFits, Clean, Goto, Dispose,
       Waiting, UnderWay, Failures, Cleaning, Over, Asking

(* Where the opening has a process and nothing disposes of it.             *)
Busy == Asking \cup {"choosing", "config", "registering", "open", "unregistered"}

(* An opening at work has a process, no disposal, and no other request.    *)
LEMMA BusyState ==
  ASSUME IInv, stage \in Busy
  PROVE  /\ stage \notin Cleaning \cup Over
         /\ child \in {"running", "exited"}
         /\ stage \notin Asking => request["opening"] \notin UnderWay
BY DEF IInv, TypeOK, ProcessFits, RequestFits, Busy, Asking, Cleaning, Over

(* Every step keeps the invariant.                                         *)
LEMMA StepInv == IInv /\ [Next]_vars => IInv'
<1> SUFFICES ASSUME IInv, [Next]_vars PROVE IInv'
  OBVIOUS
<1> USE OpeningAssumption
<1>1. ASSUME ProcessNext /\ UNCHANGED openingVars PROVE IInv'
  <2> USE DEF IInv, TypeOK, ProcessFits, DisposalFits, RequestFits, openingVars,
              Waiting, UnderWay, Failures, Cleaning, Over, Asking
  <2>1. CASE SpawnSettles
    BY <1>1, <2>1 DEF SpawnSettles
  <2>2. CASE ChildExits
    BY <1>1, <2>2 DEF ChildExits
  <2>3. CASE HolderEnds
    BY <1>1, <2>3 DEF HolderEnds
  <2>4. CASE OutputEnds
    BY <1>1, <2>4 DEF OutputEnds
  <2>5. CASE CloseEvent
    BY <1>1, <2>5 DEF CloseEvent, Settled
  <2>6. ASSUME NEW r \in Requests, GuardEnds(r) PROVE IInv'
    BY <1>1, <2>6 DEF GuardEnds, Unexplained
  <2>7. CASE WaitEnds
    BY <1>1, <2>7 DEF WaitEnds, Escalated
  <2>8. CASE DisposeEnds
    BY <1>1, <2>8 DEF DisposeEnds
  <2> QED
    BY <1>1, <2>1, <2>2, <2>3, <2>4, <2>5, <2>6, <2>7, <2>8 DEF ProcessNext
<1>2. ASSUME AgentAnswers PROVE IInv'
  <2>1. PICK r \in Requests, result \in {"answered", "refused"} : Answers(r, result)
    BY <1>2 DEF AgentAnswers
  <2>2. UNCHANGED <<stage, child, onExit, disposal>>
    BY <1>2 DEF AgentAnswers, Answers
  <2> QED
    BY <2>1, <2>2
       DEF Answers, IInv, TypeOK, ProcessFits, DisposalFits, RequestFits,
           Waiting, UnderWay, Failures, Cleaning, Over, Asking
<1>3. ASSUME Start PROVE IInv'
  BY <1>3
     DEF Start, Goto, Spawn, IInv, TypeOK, ProcessFits, DisposalFits, RequestFits,
         Waiting, UnderWay, Failures, Cleaning, Over, Asking
<1>4. ASSUME SpawnReturns PROVE IInv'
  <2>1. CASE child = "absent"
    <3>1. stage' = "failed" /\ UNCHANGED processVars /\ stage = "spawning"
      BY <1>4, <2>1 DEF SpawnReturns, Goto
    <3> QED
      BY <2>1, <3>1
         DEF IInv, TypeOK, ProcessFits, DisposalFits, RequestFits, processVars,
             Waiting, UnderWay, Failures, Cleaning, Over, Asking
  <2>2. CASE child # "absent"
    <3>1. AskAgent("initialize") /\ stage = "spawning" /\ child \in {"running", "exited"}
      BY <1>4, <2>2 DEF SpawnReturns
    <3> QED BY <3>1, Asks DEF Asking, Cleaning, Over
  <2> QED BY <2>1, <2>2
(* The handlers of the opening: each goes on, asks the agent or disposes.  *)
<1>a. ASSUME stage \in Busy, request["opening"] \notin UnderWay,
             \/ \E s \in Asking : AskAgent(s)
             \/ stage' \in Busy \ Asking /\ UNCHANGED processVars
             \/ \E s \in Cleaning : Clean(s)
      PROVE  IInv'
  <2>1. stage \notin Cleaning \cup Over /\ child \in {"running", "exited"}
    BY <1>a, BusyState
  <2>2. CASE \E s \in Asking : AskAgent(s)
    BY <2>1, <2>2, Asks
  <2>3. CASE stage' \in Busy \ Asking /\ UNCHANGED processVars
    <3>1. stage' \notin Cleaning \cup Over \cup {"idle", "spawning"}
      BY <2>3 DEF Busy, Asking, Cleaning, Over
    <3> QED BY <1>a, <2>1, <2>3, <3>1, GoesOn
  <2>4. CASE \E s \in Cleaning : Clean(s)
    BY <1>a, <2>1, <2>4, Cleans
  <2> QED BY <1>a, <2>2, <2>3, <2>4
<1>5. ASSUME InitializeReturns PROVE IInv'
  <2>1. \/ Goto("choosing") /\ UNCHANGED processVars
        \/ AskAgent("authenticate") \/ AskAgent("session") \/ Fails
    BY <1>5 DEF InitializeReturns
  <2>2. stage \in Busy /\ request["opening"] \notin UnderWay
    BY <1>5 DEF InitializeReturns, Reply, Busy, Asking
  <2> QED BY <1>a, <2>1, <2>2 DEF Goto, Fails, Busy, Asking, Cleaning
<1>6. ASSUME HostChooses PROVE IInv'
  <2>1. AskAgent("authenticate") \/ AskAgent("session") \/ Fails
    BY <1>6 DEF HostChooses
  <2>2. stage \in Busy /\ stage \notin Asking
    BY <1>6 DEF HostChooses, Busy, Asking
  <2>3. request["opening"] \notin UnderWay
    BY <2>2, BusyState
  <2> QED BY <1>a, <2>1, <2>2, <2>3 DEF Fails, Asking, Cleaning
<1>7. ASSUME AuthenticateReturns PROVE IInv'
  <2>1. AskAgent("session") \/ Fails
    BY <1>7 DEF AuthenticateReturns, AuthenticationFails
  <2>2. stage \in Busy /\ request["opening"] \notin UnderWay
    BY <1>7 DEF AuthenticateReturns, Reply, Busy, Asking
  <2> QED BY <1>a, <2>1, <2>2 DEF Fails, Asking, Cleaning
<1>8. ASSUME SessionReturns PROVE IInv'
  <2>1. Clean("listing") \/ (Goto("config") /\ UNCHANGED processVars) \/ Fails
    BY <1>8 DEF SessionReturns
  <2>2. stage \in Busy /\ request["opening"] \notin UnderWay
    BY <1>8 DEF SessionReturns, Reply, Busy, Asking
  <2> QED BY <1>a, <2>1, <2>2 DEF Fails, Goto, Busy, Asking, Cleaning
<1>9. ASSUME ConfigStep PROVE IInv'
  <2>1. AskAgent("configuring") \/ UNCHANGED <<stage, processVars>>
    BY <1>9 DEF ConfigStep
  <2>2. stage \in Busy /\ stage \notin Asking
    BY <1>9 DEF ConfigStep, Busy, Asking
  <2>3. request["opening"] \notin UnderWay
    BY <2>2, BusyState
  <2> QED BY <1>a, <2>1, <2>2, <2>3 DEF Asking
<1>10. ASSUME ConfigReturns PROVE IInv'
  <2>1. stage' = "config" /\ UNCHANGED processVars
    BY <1>10 DEF ConfigReturns, Goto
  <2>2. stage \in Busy /\ request["opening"] \notin UnderWay
    BY <1>10 DEF ConfigReturns, Reply, Busy, Asking
  <2> QED BY <1>a, <2>1, <2>2 DEF Busy, Asking
<1>11. ASSUME ConfigEnds PROVE IInv'
  <2>1. Fails \/ (stage' = "registering" /\ UNCHANGED processVars)
    BY <1>11 DEF ConfigEnds, Goto
  <2>2. stage \in Busy /\ stage \notin Asking
    BY <1>11 DEF ConfigEnds, Busy, Asking
  <2>3. request["opening"] \notin UnderWay
    BY <2>2, BusyState
  <2> QED BY <1>a, <2>1, <2>2, <2>3 DEF Fails, Busy, Asking, Cleaning
<1>12. ASSUME RegisterReturns PROVE IInv'
  <2>1. stage' \in {"open", "unregistered"} /\ UNCHANGED processVars
    BY <1>12 DEF RegisterReturns
  <2>2. stage \in Busy /\ stage \notin Asking
    BY <1>12 DEF RegisterReturns, Busy, Asking
  <2>3. request["opening"] \notin UnderWay
    BY <2>2, BusyState
  <2> QED BY <1>a, <2>1, <2>2, <2>3 DEF Busy, Asking
<1>13. ASSUME CleanedUp PROVE IInv'
  BY <1>13
     DEF CleanedUp, Goto, processVars, IInv, TypeOK, ProcessFits, DisposalFits,
         RequestFits, Waiting, UnderWay, Failures, Cleaning, Over, Asking
<1>14. ASSUME Prompt PROVE IInv'
  BY <1>14
     DEF Prompt, Requested, Started, openingVars, IInv, TypeOK, ProcessFits,
         DisposalFits, RequestFits, Waiting, UnderWay, Failures, Cleaning, Over, Asking
<1>15. ASSUME Close PROVE IInv'
  <2>1. stage = "open" /\ Clean("closing")
    BY <1>15 DEF Close
  <2>2. stage \in Busy /\ stage \notin Asking
    BY <2>1 DEF Busy, Asking
  <2>3. request["opening"] \notin UnderWay
    BY <2>2, BusyState
  <2> QED BY <1>a, <2>1, <2>2, <2>3 DEF Cleaning
<1>16. ASSUME UNCHANGED vars PROVE IInv'
  BY <1>16
     DEF vars, processVars, openingVars, IInv, TypeOK, ProcessFits, DisposalFits,
         RequestFits
<1> QED
  BY <1>1, <1>2, <1>3, <1>4, <1>5, <1>6, <1>7, <1>8, <1>9, <1>10, <1>11,
     <1>12, <1>13, <1>14, <1>15, <1>16 DEF Next, OpeningNext

(* Where an opening is decides what its process may be doing and how far   *)
(* its disposal may have got.                                              *)
THEOREM OpeningInvariance == Spec => []IInv
BY InitInv, StepInv, PTL DEF Spec

(* An opening that fails at any step, a listing and a closed session leave *)
(* no process, and no request of the opening under way.                    *)
THEOREM LeavesNothingHolds == Spec => []LeavesNothing
<1>1. IInv => LeavesNothing
  BY DEF IInv, ProcessFits, DisposalFits, RequestFits, LeavesNothing, Gone,
         Over, Asking
<1> QED BY <1>1, OpeningInvariance, PTL

-----------------------------------------------------------------------------
(* The report of the initial configuration.                                *)
(* A set of numbers has a least one.                                       *)
LEMMA HasLeast ==
  ASSUME NEW S \in SUBSET Nat, S # {}
  PROVE  \E i \in S : \A j \in S : i <= j
<1> DEFINE R == OpToRel(<, Nat)
<1>1. IsWellFoundedOn(R, Nat)
  BY NatLessThanWellFounded
<1>2. \A x, y : <<x, y>> \in R <=> x \in Nat /\ y \in Nat /\ x < y
  BY DEF OpToRel
<1> HIDE DEF R
<1>3. PICK i \in S : \A j \in S : ~(<<j, i>> \in R)
  BY <1>1, WFMin
<1>4. ASSUME NEW j \in S PROVE i <= j
  <2>1. i \in Nat /\ j \in Nat
    OBVIOUS
  <2>2. ~(j < i)
    BY <1>2, <1>3, <2>1
  <2> QED BY <2>1, <2>2
<1> QED BY <1>4

(* The first element that is accepted is one, and is accepted.             *)
LEMMA FirstOfIs ==
  ASSUME NEW seq, IsSeq(seq), NEW accepted, FirstOf(seq, accepted) # <<>>
  PROVE  Head(FirstOf(seq, accepted)) \in ToSet(seq) \cap accepted
<1> DEFINE I == {i \in 1..Len(seq) : seq[i] \in accepted}
           n == SelectInSeq(seq, LAMBDA e : e \in accepted)
<1>1. Len(seq) \in Nat /\ DOMAIN seq = 1..Len(seq)
  BY DEF IsSeq
<1>2. n = IF I # {} THEN Min(I) ELSE 0
  BY DEF SelectInSeq
<1>3. FirstOf(seq, accepted) = IF n = 0 THEN <<>> ELSE <<seq[n]>>
  BY DEF FirstOf
<1>4. I # {} /\ n = Min(I)
  BY <1>2, <1>3
<1> HIDE DEF n
<1>5. I \in SUBSET Nat
  BY <1>1
<1>6. \E i \in I : \A j \in I : i <= j
  BY <1>4, <1>5, HasLeast
<1>7. n \in I
  BY <1>4, <1>6 DEF Min
<1>8. n # 0 /\ seq[n] \in accepted /\ n \in DOMAIN seq
  BY <1>1, <1>7
<1>9. Head(FirstOf(seq, accepted)) = seq[n]
  BY <1>3, <1>8
<1> QED BY <1>8, <1>9 DEF ToSet

(* The steps, in their order.                                              *)
LEMMA StepsAre ==
  /\ ToSet(Steps) = {"mode", "modeId", "model", "effort"}
  /\ ToSet(Keys) = {"mode", "model", "effort"}
  /\ \A s, t : Before(s, t) <=>
       <<s, t>> \in {<<"mode", "modeId">>, <<"mode", "model">>, <<"mode", "effort">>,
                     <<"modeId", "model">>, <<"modeId", "effort">>, <<"model", "effort">>}
  /\ \A s \in ToSet(Steps) : KeyOf(s) \in ToSet(Keys)
<1>1. DOMAIN Steps = 1..4 /\ Steps[1] = "mode" /\ Steps[2] = "modeId"
      /\ Steps[3] = "model" /\ Steps[4] = "effort"
  BY DEF Steps
<1>2. 1..4 = {1, 2, 3, 4}
  OBVIOUS
<1>3. ToSet(Steps) = {"mode", "modeId", "model", "effort"}
  BY <1>1, <1>2 DEF ToSet
<1>4. DOMAIN Keys = 1..3 /\ Keys[1] = "mode" /\ Keys[2] = "model" /\ Keys[3] = "effort"
  BY DEF Keys
<1>5. 1..3 = {1, 2, 3}
  OBVIOUS
<1>6. ToSet(Keys) = {"mode", "model", "effort"}
  BY <1>4, <1>5 DEF ToSet
<1>7. \A s, t : Before(s, t) <=>
       <<s, t>> \in {<<"mode", "modeId">>, <<"mode", "model">>, <<"mode", "effort">>,
                     <<"modeId", "model">>, <<"modeId", "effort">>, <<"model", "effort">>}
  BY <1>1, <1>2 DEF Before
<1> QED BY <1>3, <1>6, <1>7 DEF KeyOf

(* What comes later in the order of the keys.                              *)
LEMMA LaterIs ==
  /\ Later("mode") = {"model", "effort"} /\ Later("model") = {"effort"}
  /\ Later("effort") = {}
<1>1. DOMAIN Keys = {1, 2, 3} /\ Len(Keys) = 3
      /\ Keys[1] = "mode" /\ Keys[2] = "model" /\ Keys[3] = "effort"
  BY DEF Keys
<1> DEFINE at == [i \in DOMAIN Keys |-> Keys[i]]
           n(step) == CHOOSE i \in DOMAIN Keys : Keys[i] = step
<1>2. n("mode") = 1 /\ n("model") = 2 /\ n("effort") = 3
  BY <1>1
<1>3. \A step : Later(step) = {at[i] : i \in (n(step) + 1)..3}
  BY <1>1 DEF Later
<1> HIDE DEF n
<1>4. 2..3 = {2, 3} /\ 3..3 = {3} /\ 4..3 = {}
  OBVIOUS
<1>5. Later("mode") = {at[i] : i \in {2, 3}}
  BY <1>2, <1>3, <1>4
<1>6. Later("model") = {at[i] : i \in {3}}
  BY <1>2, <1>3, <1>4
<1>7. Later("effort") = {}
  <2>1. Later("effort") = {at[i] : i \in (n("effort") + 1)..3}
    BY <1>3
  <2>2. (n("effort") + 1)..3 = {}
    BY <1>2
  <2> QED BY <2>1, <2>2
<1> QED BY <1>1, <1>5, <1>6, <1>7

(* What is decided is about its step, and asks for an accepted value only. *)
LEMMA DecidedIs ==
  ASSUME NEW step \in ToSet(Steps)
  PROVE  LET item == Decided(step)
         IN  /\ item = [step |-> step, status |-> item.status, value |-> item.value]
             /\ item.status \in {"ask", "already-set", "skipped", "silent"}
             /\ item.status \in {"ask", "already-set"} =>
                  /\ item.value \in Accepts(KeyOf(step))
                  /\ step \in {"modeId"} \cup DOMAIN known.options
             /\ item.status = "already-set" => InForce(known, step) = item.value
             /\ item.status = "silent" =>
                  \/ step = "modeId" /\ ModeId = <<>>
                  \/ step = "mode" /\ ModeId # <<>>
<1> USE DEF Item, Skipped, AlreadySet, Ask, Decided, Decide
<1>1. CASE step = "modeId"
  <2>1. CASE ModeId = <<>>
    BY <1>1, <2>1
  <2>2. CASE ModeId # <<>>
    <3>1. Head(ModeId) \in Accepts("mode")
      BY <2>2, FirstOfIs, InitialConfigAssumption DEF ModeId, IsSeq
    <3>2. CASE known.mode = Head(ModeId)
      BY <1>1, <2>2, <3>1, <3>2 DEF InForce, KeyOf
    <3>3. CASE known.mode # Head(ModeId)
      BY <1>1, <2>2, <3>1, <3>3 DEF KeyOf
    <3> QED BY <3>2, <3>3
  <2> QED BY <2>1, <2>2
<1>2. CASE step # "modeId" /\ step \notin DOMAIN known.options
  <2>1. CASE step = "mode" /\ ModeId # <<>>
    BY <1>2, <2>1
  <2>2. CASE ~(step = "mode" /\ ModeId # <<>>)
    BY <1>2, <2>2
  <2> QED BY <2>1, <2>2
<1>3. CASE step # "modeId" /\ step \in DOMAIN known.options
  <2> DEFINE option == known.options[step]
             values == Supported(option, step)
  <2>1. Decided(step) = DecideOption(known, step)
    BY <1>3
  <2>2. CASE values = <<>>
    BY <2>1, <2>2 DEF DecideOption
  <2>3. CASE values # <<>>
    <3>1. step \in DOMAIN Wanted /\ KeyOf(step) = step
      BY <1>3, StepsAre, InitialConfigAssumption DEF KeyOf
    <3>2. Head(values) \in Accepts(step)
      BY <2>3, <3>1, FirstOfIs, InitialConfigAssumption DEF Supported, IsSeq, Accepts
    <3>3. CASE option.value = Head(values)
      BY <1>3, <2>1, <2>3, <3>1, <3>2, <3>3 DEF DecideOption, InForce
    <3>4. CASE option.value # Head(values)
      BY <1>3, <2>1, <2>3, <3>1, <3>2, <3>4 DEF DecideOption
    <3> QED BY <3>3, <3>4
  <2> QED BY <2>2, <2>3
<1> QED BY <1>1, <1>2, <1>3

(* One more at the end.                                                    *)
LEMMA AppendIs ==
  ASSUME NEW s, IsSeq(s), NEW x
  PROVE  LET t == Append(s, x)
         IN  /\ IsSeq(t)
             /\ \A i \in DOMAIN t : (i \in DOMAIN s /\ t[i] = s[i]) \/ t[i] = x
             /\ \A i \in DOMAIN s : i \in DOMAIN t /\ t[i] = s[i]
             /\ \E i \in DOMAIN t : t[i] = x
<1> DEFINE t == Append(s, x)
<1>1. /\ Len(s) \in Nat /\ DOMAIN s = 1..Len(s)
      /\ t \in Seq(ToSet(s) \cup {x})
  BY DEF IsSeq
<1>2. /\ Len(t) = Len(s) + 1 /\ DOMAIN t = 1..(Len(s) + 1)
      /\ \A i \in 1..Len(s) : t[i] = s[i]
      /\ t[Len(s) + 1] = x
  BY <1>1 DEF IsSeq
<1> HIDE DEF t
<1>3. IsSeq(t)
  <2>1. \A i \in 1..Len(t) : t[i] \in ToSet(t)
    BY <1>1, <1>2 DEF ToSet
  <2>2. t \in Seq(ToSet(t))
    BY <1>1, <2>1, <1>2
  <2> QED BY <2>2 DEF IsSeq
<1> QED BY <1>1, <1>2, <1>3 DEF t

(* One less at the front.                                                  *)
LEMMA TailIs ==
  ASSUME NEW s, IsSeq(s), s # <<>>
  PROVE  /\ IsSeq(Tail(s)) /\ ToSet(s) = {Head(s)} \cup ToSet(Tail(s))
         /\ 1 \in DOMAIN s /\ Head(s) = s[1]
         /\ \A i \in DOMAIN Tail(s) : i + 1 \in DOMAIN s /\ Tail(s)[i] = s[i + 1]
         /\ DOMAIN s \subseteq Nat
<1> DEFINE t == Tail(s)
<1>1. /\ Len(s) \in Nat \ {0} /\ DOMAIN s = 1..Len(s)
      /\ t \in Seq(ToSet(s)) /\ Head(s) = s[1]
  BY DEF IsSeq
<1>2. /\ Len(t) = Len(s) - 1 /\ DOMAIN t = 1..(Len(s) - 1)
      /\ \A i \in 1..(Len(s) - 1) : t[i] = s[i + 1]
  BY <1>1 DEF IsSeq
<1> HIDE DEF t
<1>3. IsSeq(t)
  <2>1. \A i \in 1..Len(t) : t[i] \in ToSet(t)
    BY <1>1, <1>2 DEF ToSet
  <2>2. t \in Seq(ToSet(t))
    BY <1>1, <2>1, <1>2
  <2> QED BY <2>2 DEF IsSeq
<1>4. ASSUME NEW x \in ToSet(s) PROVE x \in {Head(s)} \cup ToSet(t)
  <2>1. PICK i \in 1..Len(s) : x = s[i]
    BY <1>1 DEF ToSet
  <2>2. CASE i = 1
    BY <1>1, <2>1, <2>2
  <2>3. CASE i # 1
    <3>1. i - 1 \in 1..(Len(s) - 1) /\ (i - 1) + 1 = i
      BY <1>1, <2>3
    <3>2. t[i - 1] = x
      BY <1>2, <2>1, <3>1
    <3> QED BY <1>2, <3>1, <3>2 DEF ToSet
  <2> QED BY <2>2, <2>3
<1>5. ASSUME NEW i \in DOMAIN t PROVE i + 1 \in DOMAIN s /\ t[i] = s[i + 1]
  BY <1>1, <1>2
<1>6. {Head(s)} \cup ToSet(t) \subseteq ToSet(s)
  BY <1>1, <1>5 DEF ToSet
<1> QED BY <1>1, <1>3, <1>4, <1>5, <1>6 DEF t

(* What a request may do at the agent.                                     *)
LEMMA EffectsAre ==
  ASSUME NEW at, IsAgent(at), NEW step \in ToSet(Steps),
         step \in {"modeId"} \cup DOMAIN at.options,
         NEW value, NEW after \in Effects(at, step, value)
  PROVE  /\ IsAgent(after) /\ DOMAIN after.options = DOMAIN at.options
         /\ InForce(after, step) = value
         /\ after.mode \in {at.mode, value}
         /\ step \notin {"mode", "modeId"} => after.mode = at.mode
         /\ \A o \in DOMAIN at.options :
              \/ after.options[o] = at.options[o]
              \/ step # "modeId" /\ o \in {step} \cup Later(step)
              \/ step = "modeId" /\ o \in Later("mode")
              \/ step = "modeId" /\ o = "mode" /\ after.options[o].value = value
<1>1. CASE step = "modeId"
  <2>1. after \in AfterMode(at, value)
    BY <1>1 DEF Effects
  <2>2. CASE after = [options |-> at.options, mode |-> value]
    <3>1. /\ after = [options |-> after.options, mode |-> after.mode]
          /\ after.options = at.options /\ after.mode = value
      BY <2>2
    <3>2. IsAgent(after)
      BY <3>1 DEF IsAgent
    <3>3. InForce(after, step) = value
      BY <1>1, <3>1 DEF InForce
    <3>4. \A o \in DOMAIN at.options : after.options[o] = at.options[o]
      BY <3>1
    <3> QED BY <1>1, <3>1, <3>2, <3>3, <3>4
  <2>3. ASSUME NEW o \in DOMAIN at.options, NEW v,
               \/ o = "mode" /\ v = value
               \/ o \in Later("mode"),
               after = [options |-> [at.options EXCEPT ![o].value = v], mode |-> value]
        PROVE  /\ IsAgent(after) /\ DOMAIN after.options = DOMAIN at.options
               /\ after.mode = value
               /\ \A p \in DOMAIN at.options \ {o} : after.options[p] = at.options[p]
               /\ after.options[o].value = v
    <3>1. /\ after = [options |-> after.options, mode |-> value]
          /\ after.options = [at.options EXCEPT ![o].value = v]
      BY <2>3
    <3>2. /\ DOMAIN after.options = DOMAIN at.options
          /\ after.options = [p \in DOMAIN after.options |-> after.options[p]]
          /\ \A p \in DOMAIN at.options \ {o} : after.options[p] = at.options[p]
          /\ after.options[o] = [at.options[o] EXCEPT !.value = v]
      BY <2>3, <3>1 DEF IsAgent
    <3>3. IsOption(after.options[o]) /\ after.options[o].value = v
      BY <3>2 DEF IsAgent, IsOption
    <3>4. \A p \in DOMAIN after.options : IsOption(after.options[p])
      BY <3>2, <3>3 DEF IsAgent
    <3>5. after = [options |-> after.options, mode |-> after.mode] /\ after.mode = value
      BY <3>1
    <3>6. IsAgent(after)
      BY <3>2, <3>4, <3>5 DEF IsAgent
    <3> QED BY <3>2, <3>3, <3>5, <3>6
  <2>4. ASSUME NEW change \in ({"mode"} \X {value}) \cup (Later("mode") \X AllChoices(at)),
               change[1] \in DOMAIN at.options,
               after = [options |-> [at.options EXCEPT ![change[1]].value = change[2]],
                        mode |-> value]
        PROVE  /\ IsAgent(after) /\ DOMAIN after.options = DOMAIN at.options
               /\ after.mode = value
               /\ \A p \in DOMAIN at.options :
                    \/ after.options[p] = at.options[p] \/ p \in Later("mode")
                    \/ p = "mode" /\ after.options[p].value = value
    <3> DEFINE o == change[1]
               v == change[2]
    <3>1. \/ o = "mode" /\ v = value
          \/ o \in Later("mode")
      BY <2>4
    <3>2. o \in DOMAIN at.options
          /\ after = [options |-> [at.options EXCEPT ![o].value = v], mode |-> value]
      BY <2>4
    <3> HIDE DEF o, v
    <3> QED BY <2>3, <3>1, <3>2
  <2>5. InForce(after, step) = after.mode
    BY <1>1 DEF InForce
  <2> QED BY <1>1, <2>1, <2>2, <2>4, <2>5 DEF AfterMode
<1>2. CASE step # "modeId"
  <2>1. after \in AfterOption(at, step, value)
    BY <1>2 DEF Effects
  <2>2. PICK changed \in DOMAIN at.options,
             v \in AllChoices(at),
             mode \in {at.mode} \cup (IF step = "mode" THEN {value} \cap ToSet(Modes) ELSE {}) :
          after = [options |->
                     [o \in DOMAIN at.options |->
                        CASE o = step -> [at.options[o] EXCEPT !.value = value]
                          [] o \in Later(step) /\ o = changed ->
                               [at.options[o] EXCEPT !.value = v]
                          [] OTHER -> at.options[o]],
                   mode |-> mode]
    BY <2>1 DEF AfterOption
  <2> DEFINE F(o) == CASE o = step -> [at.options[o] EXCEPT !.value = value]
                       [] o \in Later(step) /\ o = changed ->
                            [at.options[o] EXCEPT !.value = v]
                       [] OTHER -> at.options[o]
  <2>3. /\ after = [options |-> after.options, mode |-> mode] /\ after.mode = mode
        /\ DOMAIN after.options = DOMAIN at.options
        /\ after.options = [o \in DOMAIN after.options |-> after.options[o]]
        /\ \A o \in DOMAIN at.options : after.options[o] = F(o)
    BY <2>2
  <2>4. step \notin Later(step)
    BY <1>2, LaterIs, StepsAre
  <2>5. \A o \in DOMAIN at.options : IsOption(F(o))
    BY DEF IsOption, IsAgent
  <2>6. F(step) = [at.options[step] EXCEPT !.value = value]
    BY <2>4
  <2>7. F(step).value = value
    BY <1>2, <2>6 DEF IsOption, IsAgent
  <2>8. \A o \in DOMAIN at.options : o \notin {step} \cup Later(step) => F(o) = at.options[o]
    OBVIOUS
  <2> HIDE DEF F
  <2>9. IsAgent(after)
    BY <2>3, <2>5 DEF IsAgent
  <2>10. InForce(after, step) = value
    BY <1>2, <2>3, <2>7 DEF InForce
  <2>11. after.mode \in {at.mode, value} /\ (step \notin {"mode", "modeId"} => after.mode = at.mode)
    BY <2>2, <2>3
  <2>12. ASSUME NEW o \in DOMAIN at.options, o \notin {step} \cup Later(step)
         PROVE  after.options[o] = at.options[o]
    BY <2>3, <2>8, <2>12
  <2>13. \A o \in DOMAIN at.options :
           after.options[o] = at.options[o] \/ o \in {step} \cup Later(step)
    BY <2>12
  <2>14. DOMAIN after.options = DOMAIN at.options
    BY <2>3
  <2> QED BY <1>2, <2>9, <2>10, <2>11, <2>13, <2>14
<1> QED BY <1>1, <1>2

(* Steps in their order, without repetition.                               *)
Chain(s) ==
  /\ IsSeq(s) /\ ToSet(s) \subseteq ToSet(Steps)
  /\ \A i, j \in DOMAIN s : i < j => Before(s[i], s[j])

(* Chains one after the other.                                             *)
LEMMA ChainsJoined ==
  ASSUME NEW s, NEW t, Chain(s), Chain(t),
         \A x \in ToSet(s), y \in ToSet(t) : Before(x, y)
  PROVE  Chain(s \o t) /\ ToSet(s \o t) = ToSet(s) \cup ToSet(t)
<1> DEFINE u == s \o t
<1>1. /\ Len(s) \in Nat /\ DOMAIN s = 1..Len(s) /\ Len(t) \in Nat /\ DOMAIN t = 1..Len(t)
      /\ u \in Seq(ToSet(s) \cup ToSet(t))
  BY DEF Chain, IsSeq
<1>2. /\ Len(u) = Len(s) + Len(t) /\ DOMAIN u = 1..(Len(s) + Len(t))
      /\ \A i \in 1..Len(s) : u[i] = s[i]
      /\ \A i \in 1..Len(t) : u[Len(s) + i] = t[i]
  BY <1>1 DEF Chain, IsSeq
<1> HIDE DEF u
<1>3. ToSet(u) = ToSet(s) \cup ToSet(t)
  <2>1. ASSUME NEW x \in ToSet(u) PROVE x \in ToSet(s) \cup ToSet(t)
    BY <1>1, <1>2, <2>1 DEF ToSet
  <2>2. ASSUME NEW i \in 1..Len(s) PROVE s[i] \in ToSet(u)
    <3>1. i \in DOMAIN u /\ u[i] = s[i]
      BY <1>1, <1>2
    <3> QED BY <3>1 DEF ToSet
  <2>3. ASSUME NEW i \in 1..Len(t) PROVE t[i] \in ToSet(u)
    <3>1. Len(s) + i \in DOMAIN u /\ u[Len(s) + i] = t[i]
      BY <1>1, <1>2
    <3> QED BY <3>1 DEF ToSet
  <2>4. ToSet(s) \subseteq ToSet(u)
    BY <1>1, <2>2 DEF ToSet
  <2>5. ToSet(t) \subseteq ToSet(u)
    BY <1>1, <2>3 DEF ToSet
  <2> QED BY <2>1, <2>4, <2>5
<1>4. IsSeq(u)
  BY <1>1, <1>3 DEF IsSeq
<1>5. ASSUME NEW i \in DOMAIN u, NEW j \in DOMAIN u, i < j
      PROVE  Before(u[i], u[j])
  <2>1. i \in Nat \ {0} /\ j \in Nat \ {0} /\ j <= Len(s) + Len(t)
    BY <1>1, <1>2
  <2>2. CASE j <= Len(s)
    <3>1. i \in DOMAIN s /\ j \in DOMAIN s /\ u[i] = s[i] /\ u[j] = s[j]
      BY <1>1, <1>2, <1>5, <2>1, <2>2
    <3> QED BY <1>5, <3>1 DEF Chain
  <2>3. CASE j > Len(s)
    <3> DEFINE l == j - Len(s)
    <3>1. l \in DOMAIN t /\ j = Len(s) + l /\ l \in Nat
      BY <1>1, <2>1, <2>3
    <3>2. u[j] = t[l] /\ t[l] \in ToSet(t)
      BY <1>1, <1>2, <3>1 DEF ToSet
    <3>3. CASE i <= Len(s)
      <4>1. u[i] = s[i] /\ s[i] \in ToSet(s)
        BY <1>1, <1>2, <2>1, <3>3 DEF ToSet
      <4> QED BY <3>2, <4>1
    <3>4. CASE i > Len(s)
      <4> DEFINE k == i - Len(s)
      <4>1. k \in DOMAIN t /\ i = Len(s) + k /\ k < l
        BY <1>1, <1>5, <2>1, <3>1, <3>4
      <4>2. u[i] = t[k]
        BY <1>1, <1>2, <4>1
      <4> QED BY <3>1, <3>2, <4>1, <4>2 DEF Chain
    <3> QED BY <1>1, <2>1, <3>3, <3>4
  <2> QED BY <1>1, <2>1, <2>2, <2>3
<1>6. ToSet(u) \subseteq ToSet(Steps)
  BY <1>3 DEF Chain
<1> QED BY <1>3, <1>4, <1>5, <1>6 DEF Chain, u

(* The work is every step that is wanted, in its order.                    *)
LEMMA WorkIs ==
  Chain(Work) /\ ToSet(Work) = {s \in ToSet(Steps) : Wanted[KeyOf(s)] # <<>>}
<1>1. ASSUME NEW s \in ToSet(Steps)
      PROVE  Chain(IfWanted(s)) /\ ToSet(IfWanted(s)) = {x \in {s} : Wanted[KeyOf(x)] # <<>>}
  <2>1. CASE Wanted[KeyOf(s)] = <<>>
    BY <2>1 DEF IfWanted, Chain, IsSeq, ToSet
  <2>2. CASE Wanted[KeyOf(s)] # <<>>
    <3>1. IfWanted(s) = <<s>>
      BY <2>2 DEF IfWanted
    <3>2. ToSet(<<s>>) = {s}
      BY DEF ToSet
    <3>3. IsSeq(<<s>>)
      BY <3>2 DEF IsSeq
    <3>4. Chain(<<s>>)
      BY <3>2, <3>3 DEF Chain
    <3> QED BY <2>2, <3>1, <3>2, <3>4
  <2> QED BY <2>1, <2>2
<1> DEFINE A == IfWanted("mode")
           B == A \o IfWanted("modeId")
           C == B \o IfWanted("model")
           D == C \o IfWanted("effort")
<1>2. Chain(A) /\ ToSet(A) = {x \in {"mode"} : Wanted[KeyOf(x)] # <<>>}
  BY <1>1, StepsAre
<1> HIDE DEF A
<1>3. Chain(B) /\ ToSet(B) = {x \in {"mode", "modeId"} : Wanted[KeyOf(x)] # <<>>}
  <2>1. Chain(IfWanted("modeId"))
        /\ ToSet(IfWanted("modeId")) = {x \in {"modeId"} : Wanted[KeyOf(x)] # <<>>}
    BY <1>1, StepsAre
  <2>2. \A x \in ToSet(A), y \in ToSet(IfWanted("modeId")) : Before(x, y)
    BY <1>2, <2>1, StepsAre
  <2> QED BY <1>2, <2>1, <2>2, ChainsJoined
<1> HIDE DEF B
<1>4. Chain(C) /\ ToSet(C) = {x \in {"mode", "modeId", "model"} : Wanted[KeyOf(x)] # <<>>}
  <2>1. Chain(IfWanted("model"))
        /\ ToSet(IfWanted("model")) = {x \in {"model"} : Wanted[KeyOf(x)] # <<>>}
    BY <1>1, StepsAre
  <2>2. \A x \in ToSet(B), y \in ToSet(IfWanted("model")) : Before(x, y)
    BY <1>3, <2>1, StepsAre
  <2> QED BY <1>3, <2>1, <2>2, ChainsJoined
<1> HIDE DEF C
<1>5. Chain(D)
      /\ ToSet(D) = {x \in {"mode", "modeId", "model", "effort"} : Wanted[KeyOf(x)] # <<>>}
  <2>1. Chain(IfWanted("effort"))
        /\ ToSet(IfWanted("effort")) = {x \in {"effort"} : Wanted[KeyOf(x)] # <<>>}
    BY <1>1, StepsAre
  <2>2. \A x \in ToSet(C), y \in ToSet(IfWanted("effort")) : Before(x, y)
    BY <1>4, <2>1, StepsAre
  <2> QED BY <1>4, <2>1, <2>2, ChainsJoined
<1>6. D = Work
  BY DEF Work, A, B, C
<1> HIDE DEF D
<1> QED BY <1>5, <1>6, StepsAre

(* The step at hand comes before the rest of the work.                     *)
LEMMA AtHand ==
  ASSUME InOrder, todo # <<>>
  PROVE  /\ Head(todo) \in ToSet(Steps) /\ Head(todo) \in ToSet(todo)
         /\ ToSet(todo) = {Head(todo)} \cup ToSet(Tail(todo))
         /\ \A s \in ToSet(Tail(todo)) : Before(Head(todo), s)
         /\ Chain(Tail(todo))
<1> DEFINE t == Tail(todo)
<1>1. /\ IsSeq(t) /\ ToSet(todo) = {Head(todo)} \cup ToSet(t)
      /\ 1 \in DOMAIN todo /\ Head(todo) = todo[1]
      /\ \A i \in DOMAIN t : i + 1 \in DOMAIN todo /\ t[i] = todo[i + 1]
      /\ DOMAIN todo \subseteq Nat
  BY TailIs DEF InOrder
<1>2. DOMAIN t \subseteq Nat \ {0}
  BY <1>1 DEF IsSeq
<1> HIDE DEF t
<1>3. ASSUME NEW i \in DOMAIN t PROVE Before(Head(todo), t[i])
  <2>1. i \in Nat \ {0} /\ 1 < i + 1 /\ i + 1 \in DOMAIN todo
    BY <1>1, <1>2
  <2> QED BY <1>1, <2>1 DEF InOrder
<1>4. ASSUME NEW i \in DOMAIN t, NEW j \in DOMAIN t, i < j PROVE Before(t[i], t[j])
  <2>1. i + 1 < j + 1 /\ i + 1 \in DOMAIN todo /\ j + 1 \in DOMAIN todo
    BY <1>1, <1>2, <1>4
  <2> QED BY <1>1, <2>1 DEF InOrder
<1>5. \A s \in ToSet(t) : Before(Head(todo), s)
  BY <1>3 DEF ToSet
<1>6. Head(todo) \in ToSet(Steps) /\ ToSet(t) \subseteq ToSet(Steps)
  BY <1>1 DEF InOrder
<1>7. Chain(t)
  BY <1>1, <1>4, <1>6 DEF Chain
<1> QED BY <1>1, <1>5, <1>6, <1>7 DEF t

(* Steps that leave the configuration and its report as they are.          *)
LEMMA ReportStays ==
  ASSUME ReportInv, UNCHANGED configVars,
         stage' \notin Configured \/ (stage' = stage /\ (Ahead' <=> Ahead)),
         stage' \in Earlier => stage \in Earlier
  PROVE  ReportInv'
<1>1. UNCHANGED <<agent, known, todo, report>>
  BY DEF configVars
<1>2. InOrder'
  BY <1>1 DEF ReportInv, InOrder
<1>3. CASE stage' \notin Configured
  <2>1. RequestIs' /\ KnownIs' /\ InPlace' /\ Covered' /\ Finished'
    BY <1>3 DEF Configured, RequestIs, KnownIs, InPlace, Covered, Finished
  <2> QED BY <1>1, <1>2, <2>1 DEF ReportInv
<1>4. CASE stage' = stage /\ (Ahead' <=> Ahead)
  <2>1. RequestIs'
    BY <1>1, <1>4 DEF ReportInv, RequestIs, Decided
  <2>3. \A i : (Stale(i)' <=> Stale(i)) /\ (Held(i)' <=> Held(i)) /\ (Vouched(i)' <=> Vouched(i))
    BY <1>1 DEF Stale, Held, Vouched
  <2>4. Stale(Len(report) + 1)' <=> Stale(Len(report) + 1)
    BY <1>1 DEF Stale
  <2>5. Coming("mode", agent.mode)' <=> Coming("mode", agent.mode)
    BY <1>1, <1>4 DEF Coming, Decided
  <2>6. Coming("mode", InForce(agent, "mode"))' <=> Coming("mode", InForce(agent, "mode"))
    BY <1>1, <1>4 DEF Coming, Decided
  <2>7. KnownIs'
    BY <1>1, <1>4, <2>4, <2>5 DEF ReportInv, KnownIs
  <2>8. InPlace'
    BY <1>1, <1>4, <2>3, <2>6 DEF ReportInv, InPlace
  <2>9. Covered' /\ Finished'
    BY <1>1, <1>4 DEF ReportInv, Covered, Finished
  <2> QED BY <1>1, <1>2, <2>1, <2>7, <2>8, <2>9 DEF ReportInv
<1> QED BY <1>3, <1>4

(* The process and its connection answer nothing of themselves.            *)
LEMMA ProcessKeepsAnswers ==
  ASSUME IInv, ProcessNext
  PROVE  request'["opening"] = "answered" <=> request["opening"] = "answered"
<1> USE OpeningAssumption DEF IInv, TypeOK, UnderWay, Failures
<1>1. CASE SpawnSettles
  BY <1>1 DEF SpawnSettles
<1>2. CASE ChildExits
  BY <1>2 DEF ChildExits
<1>3. CASE HolderEnds
  BY <1>3 DEF HolderEnds
<1>4. CASE OutputEnds
  BY <1>4 DEF OutputEnds
<1>5. CASE CloseEvent
  BY <1>5 DEF CloseEvent
<1>6. ASSUME NEW r \in Requests, GuardEnds(r)
      PROVE  request'["opening"] = "answered" <=> request["opening"] = "answered"
  BY <1>6 DEF GuardEnds, Unexplained
<1>7. CASE WaitEnds
  BY <1>7 DEF WaitEnds
<1>8. CASE DisposeEnds
  BY <1>8 DEF DisposeEnds
<1> QED BY <1>1, <1>2, <1>3, <1>4, <1>5, <1>6, <1>7, <1>8 DEF ProcessNext

(* A request starts without an answer.                                     *)
LEMMA AskedIsOpen ==
  ASSUME IInv, NEW s, AskAgent(s)
  PROVE  stage' = s /\ request'["opening"] # "answered"
BY OpeningAssumption
   DEF AskAgent, Goto, Requested, Started, IInv, TypeOK

(* What the agent carries out leaves what is reported in its place.        *)
LEMMA AgentKeepsReport ==
  ASSUME IInv, ReportInv, AgentAnswers
  PROVE  ReportInv'
<1>1. PICK r \in Requests, result \in {"answered", "refused"} :
        /\ Answers(r, result)
        /\ IF r = "opening" /\ stage = "configuring" /\ result = "answered"
           THEN LET item == Decided(Head(todo))
                IN  agent' \in Effects(agent, item.step, item.value)
           ELSE UNCHANGED agent
        /\ UNCHANGED <<stage, purpose, known, todo, report>>
  BY DEF AgentAnswers
<1>2. /\ request[r] = "pending" /\ request' = [request EXCEPT ![r] = result]
      /\ "opening" \in DOMAIN request
  BY <1>1, OpeningAssumption DEF Answers, IInv, TypeOK
<1>3. CASE ~(r = "opening" /\ stage = "configuring" /\ result = "answered")
  <2>1. UNCHANGED configVars /\ stage' = stage
    BY <1>1, <1>3 DEF configVars
  <2>2. Ahead' <=> Ahead
    BY <1>2, <1>3, <2>1 DEF Ahead
  <2> QED BY <2>1, <2>2, ReportStays
<1>4. CASE r = "opening" /\ stage = "configuring" /\ result = "answered"
  <2> DEFINE step == Head(todo)
             item == Decided(step)
  <2>1. /\ UNCHANGED <<stage, known, todo, report>>
        /\ agent' \in Effects(agent, item.step, item.value)
        /\ todo # <<>> /\ item.status = "ask"
        /\ ~Ahead /\ Ahead'
    BY <1>1, <1>2, <1>4 DEF ReportInv, RequestIs, Ahead
  <2>2. /\ step \in ToSet(Steps) /\ ToSet(todo) = {step} \cup ToSet(Tail(todo))
        /\ \A s \in ToSet(Tail(todo)) : Before(step, s)
    BY <2>1, AtHand DEF ReportInv
  <2>3. /\ item.step = step /\ item.value \in Accepts(KeyOf(step))
        /\ step \in {"modeId"} \cup DOMAIN known.options
    BY <2>1, <2>2, DecidedIs
  <2>4. step \in {"modeId"} \cup DOMAIN agent.options
    BY <1>4, <2>3 DEF ReportInv, KnownIs
  <2> DEFINE value == item.value
  <2>5. agent' \in Effects(agent, step, value) /\ IsAgent(agent)
    BY <2>1, <2>3 DEF ReportInv
  <2> HIDE DEF step, item, value
  <2>6. /\ IsAgent(agent') /\ DOMAIN agent'.options = DOMAIN agent.options
        /\ InForce(agent', step) = value
        /\ agent'.mode \in {agent.mode, value}
        /\ step \notin {"mode", "modeId"} => agent'.mode = agent.mode
        /\ \A o \in DOMAIN agent.options :
              \/ agent'.options[o] = agent.options[o]
              \/ step # "modeId" /\ o \in {step} \cup Later(step)
              \/ step = "modeId" /\ o \in Later("mode")
              \/ step = "modeId" /\ o = "mode" /\ agent'.options[o].value = value
    BY <2>2, <2>4, <2>5, EffectsAre
  <2>11. Ahead' /\ KeyOf(Head(todo')) = KeyOf(step) /\ Decided(Head(todo))'.value = value
    BY <2>1 DEF Decided, step, item, value
  <2>7. InPlace'
    <3> SUFFICES ASSUME NEW i \in DOMAIN report, Vouched(i)'
                 PROVE  /\ report[i].step \in {"modeId"} \cup DOMAIN agent'.options
                        /\ report[i].value \in Accepts(KeyOf(report[i].step))
                        /\ \/ Held(i)'
                           \/ /\ report[i].step = "mode"
                              /\ Coming("mode", InForce(agent, "mode"))'
      BY <2>1 DEF InPlace
    <3> DEFINE s == report[i].step
    <3>0. Vouched(i)
      BY <2>1 DEF Vouched, Stale
    <3>1. /\ s \in {"modeId"} \cup DOMAIN agent.options
          /\ report[i].value \in Accepts(KeyOf(s))
          /\ Held(i)
      BY <1>4, <2>1, <3>0 DEF ReportInv, InPlace, Configured, Coming
    <3>2. Before(s, step)
      BY <2>2 DEF ReportInv, InOrder
    <3>5. InForce(agent', s) = InForce(agent, s) => Held(i)'
      BY <2>1, <3>1 DEF Held
    <3>6. s \in {"modeId"} \cup DOMAIN agent'.options
      BY <2>6, <3>1
    <3> HIDE DEF s
    <3>3. CASE s = "modeId"
      <4>1. step \notin {"mode", "modeId"}
        BY <3>2, <3>3, StepsAre
      <4>2. InForce(agent', s) = InForce(agent, s)
        BY <2>6, <3>3, <4>1 DEF InForce
      <4> QED BY <3>1, <3>5, <3>6, <4>2 DEF s
    <3>4. CASE s # "modeId"
      <4>1. /\ s \in DOMAIN agent.options
            /\ step # "modeId" => s \notin {step} \cup Later(step)
            /\ step = "modeId" => s \notin Later("mode")
        <5>1. s \in DOMAIN agent.options
          BY <3>1, <3>4
        <5>2. CASE s = "mode"
          <6>1. step \in {"modeId", "model", "effort"}
            BY <3>2, <5>2, StepsAre
          <6> QED BY <5>1, <5>2, <6>1, LaterIs
        <5>3. CASE s = "model"
          <6>1. step = "effort"
            BY <3>2, <5>3, StepsAre
          <6> QED BY <5>1, <5>3, <6>1, LaterIs
        <5>4. s \in {"mode", "model"}
          BY <3>2, <3>4, StepsAre
        <5> QED BY <5>2, <5>3, <5>4
      <4>2. CASE agent'.options[s] = agent.options[s]
        <5>1. InForce(agent', s) = InForce(agent, s)
          BY <3>4, <4>2 DEF InForce
        <5> QED BY <3>1, <3>5, <3>6, <5>1 DEF s
      <4>3. CASE step = "modeId" /\ s = "mode" /\ agent'.options[s].value = value
        <5>1. InForce(agent', "mode") = value
          BY <4>3 DEF InForce
        <5>2. Coming("mode", InForce(agent, "mode"))'
          BY <2>11, <4>3, <5>1 DEF Coming, KeyOf
        <5> QED BY <3>1, <3>6, <4>3, <5>2 DEF s
      <4> QED BY <2>6, <4>1, <4>2, <4>3
    <3> QED BY <3>3, <3>4
  <2>8. KnownIs'
    <3>1. ASSUME "modeId" \in ToSet(todo)
          PROVE  \/ agent'.mode = known.mode
                 \/ \E j \in DOMAIN report :
                      /\ report[j].step = "mode" /\ report[j].status = "applied"
                      /\ agent'.mode = report[j].value
                 \/ Coming("mode", agent.mode)'
      <4>1. \/ agent.mode = known.mode
            \/ \E j \in DOMAIN report :
                 /\ report[j].step = "mode" /\ report[j].status = "applied"
                 /\ agent.mode = report[j].value
        BY <1>4, <2>1, <3>1 DEF ReportInv, KnownIs, Coming
      <4>2. CASE agent'.mode = agent.mode
        BY <4>1, <4>2
      <4>3. CASE agent'.mode # agent.mode
        <5>1. step \in {"mode", "modeId"} /\ agent'.mode = value
          BY <2>6, <4>3
        <5> QED BY <2>11, <5>1 DEF Coming, KeyOf
      <4> QED BY <4>2, <4>3
    <3>3. DOMAIN known.options = DOMAIN agent'.options
      BY <1>4, <2>6 DEF ReportInv, KnownIs
    <3> QED BY <2>1, <3>1, <3>3 DEF KnownIs
  <2>9. RequestIs'
    <3>1. Decided(Head(todo))' = Decided(Head(todo))
      BY <2>1 DEF Decided
    <3> QED BY <2>1, <2>6, <3>1 DEF RequestIs, step, item, value
  <2>10. InOrder' /\ Covered' /\ Finished' /\ IsAgent(known)'
    BY <2>1 DEF ReportInv, InOrder, Covered, Finished
  <2> QED BY <2>6, <2>7, <2>8, <2>9, <2>10 DEF ReportInv
<1> QED BY <1>3, <1>4

(* The driver has the agent's options of before it changed the mode until  *)
(* a request for an option is applied.                                     *)
LEMMA StaleGrows ==
  ASSUME IsSeq(report), NEW entry, report' = Append(report, entry)
  PROVE  /\ Len(report) + 1 \in DOMAIN report' /\ report'[Len(report) + 1] = entry
         /\ DOMAIN report = 1..Len(report) /\ Len(report) \in Nat
         /\ \A i \in DOMAIN report : i \in DOMAIN report' /\ report'[i] = report[i]
         /\ \A i \in DOMAIN report' : i \in DOMAIN report \/ i = Len(report) + 1
         /\ \A i \in DOMAIN report' : Stale(i)' <=> Stale(i)
         /\ entry.status = "applied" /\ entry.step = "modeId" => Stale(Len(report) + 1)'
         /\ entry.status # "applied" /\ Stale(Len(report) + 1) => Stale(Len(report) + 1)'
<1> DEFINE n == Len(report)
<1>1. /\ n \in Nat /\ DOMAIN report = 1..n
      /\ report' \in Seq(ToSet(report) \cup {entry})
  BY DEF IsSeq
<1>2. /\ Len(report') = n + 1 /\ DOMAIN report' = 1..(n + 1)
      /\ \A i \in 1..n : report'[i] = report[i]
      /\ report'[n + 1] = entry
  BY <1>1 DEF IsSeq
<1> HIDE DEF n
<1>3. ASSUME NEW i \in DOMAIN report' PROVE Stale(i)' <=> Stale(i)
  <2>1. i \in Nat /\ i <= n + 1
    BY <1>1, <1>2
  <2>2. \A j \in DOMAIN report' : j < i => j \in DOMAIN report
    BY <1>1, <1>2, <2>1
  <2>3. \A j \in DOMAIN report : j \in DOMAIN report' /\ report'[j] = report[j]
    BY <1>1, <1>2
  <2>4. \A j \in DOMAIN report : \A k \in (j + 1)..(i - 1) : report'[k] = report[k]
    BY <1>1, <1>2, <2>1
  <2> QED BY <2>2, <2>3, <2>4 DEF Stale
<1>4. ASSUME entry.status = "applied", entry.step = "modeId"
      PROVE  Stale(Len(report) + 1)'
  <2>1. (n + 1) + 1..(Len(report') + 1) - 1 = {} /\ n + 1 \in DOMAIN report'
        /\ n + 1 < Len(report') + 1
    BY <1>1, <1>2
  <2> QED BY <1>2, <1>4, <2>1 DEF Stale
<1>5. ASSUME entry.status # "applied", Stale(n + 1) PROVE Stale(Len(report) + 1)'
  <2>1. PICK j \in DOMAIN report :
          /\ j < n + 1 /\ report[j].step = "modeId" /\ report[j].status = "applied"
          /\ \A k \in (j + 1)..((n + 1) - 1) : report[k].status # "applied"
    BY <1>5 DEF Stale
  <2>2. j \in DOMAIN report' /\ report'[j] = report[j] /\ j < Len(report') + 1
    BY <1>1, <1>2
  <2>3. ASSUME NEW k \in (j + 1)..((Len(report') + 1) - 1) PROVE report'[k].status # "applied"
    <3>1. CASE k = n + 1
      BY <1>2, <1>5, <3>1
    <3>2. CASE k # n + 1
      <4>1. k \in (j + 1)..((n + 1) - 1) /\ k \in 1..n
        BY <1>1, <1>2, <2>1, <3>2
      <4> QED BY <1>2, <2>1, <4>1
    <3> QED BY <3>1, <3>2
  <2> QED BY <2>1, <2>2, <2>3 DEF Stale
<1> QED BY <1>1, <1>2, <1>3, <1>4, <1>5 DEF n

(* What is left of the work is still known after a step that changed       *)
(* nothing.                                                                *)
LEMMA StillKnown ==
  ASSUME ReportInv, stage \in {"config", "configuring"}, ~Ahead, todo # <<>>,
         todo' = Tail(todo), UNCHANGED <<agent, known>>, NEW entry,
         UNCHANGED report
           \/ (report' = Append(report, entry) /\ entry.status # "applied")
  PROVE  KnownIs'
<1>1. ToSet(todo)' \subseteq ToSet(todo)
  <2>1. ToSet(Tail(todo)) \subseteq ToSet(todo)
    BY AtHand DEF ReportInv
  <2>2. ToSet(todo)' = ToSet(Tail(todo))
    BY DEF ToSet
  <2> QED BY <2>1, <2>2
<1>2. /\ "modeId" \in ToSet(todo) =>
           \/ agent.mode = known.mode
           \/ \E j \in DOMAIN report :
                /\ report[j].step = "mode" /\ report[j].status = "applied"
                /\ agent.mode = report[j].value
      /\ DOMAIN known.options = DOMAIN agent.options
      /\ \A o \in DOMAIN agent.options :
           \/ Stale(Len(report) + 1)
           \/ o = "mode" /\ "mode" \notin ToSet(todo)
           \/ known.options[o] = agent.options[o]
  BY DEF ReportInv, KnownIs, Coming
<1>3. /\ \A i \in DOMAIN report : i \in DOMAIN report' /\ report'[i] = report[i]
      /\ Stale(Len(report) + 1) => Stale(Len(report) + 1)'
  <2>1. CASE UNCHANGED report
    BY <2>1 DEF Stale
  <2>2. CASE report' = Append(report, entry) /\ entry.status # "applied"
    <3>1. IsSeq(report)
      BY DEF ReportInv, InOrder
    <3> QED BY <2>2, <3>1, StaleGrows
  <2> QED BY <2>1, <2>2
<1>4. ASSUME "modeId" \in ToSet(todo)'
      PROVE  \/ agent.mode = known.mode
             \/ \E j \in DOMAIN report' :
                  /\ report'[j].step = "mode" /\ report'[j].status = "applied"
                  /\ agent.mode = report'[j].value
  BY <1>1, <1>2, <1>3, <1>4
<1> QED BY <1>1, <1>2, <1>3, <1>4 DEF KnownIs

(* A step is reported, and what it reports as done is in force.            *)
LEMMA ReportGrows ==
  ASSUME ReportInv, stage \in {"config", "configuring"}, todo # <<>>,
         todo' = Tail(todo), stage' = "config", UNCHANGED agent,
         KnownIs', IsAgent(known'),
         NEW entry, report' = Append(report, entry), entry.step = Head(todo),
         (\/ entry.status = "applied"
          \/ entry.status = "already-set" /\ ~Stale(Len(report) + 1)) =>
           /\ Head(todo) \in {"modeId"} \cup DOMAIN agent.options
           /\ entry.value \in Accepts(KeyOf(Head(todo)))
           /\ \/ InForce(agent, Head(todo)) = entry.value
              \/ /\ entry.status = "already-set"
                 /\ \E j \in DOMAIN report :
                      /\ KeyOf(report[j].step) = KeyOf(Head(todo))
                      /\ report[j].status = "applied"
                      /\ InForce(agent, Head(todo)) = report[j].value,
         Ahead => entry.status = "applied" /\ entry.value = Decided(Head(todo)).value
  PROVE  ReportInv'
<1> DEFINE step == Head(todo)
<1>1. /\ step \in ToSet(Steps) /\ ToSet(todo) = {step} \cup ToSet(Tail(todo))
      /\ \A s \in ToSet(Tail(todo)) : Before(step, s)
      /\ Chain(Tail(todo))
  BY AtHand DEF ReportInv
<1>2. ToSet(todo)' = ToSet(Tail(todo))
  BY DEF ToSet
<1>3. /\ IsSeq(report)'
      /\ \A i \in DOMAIN report' :
           (i \in DOMAIN report /\ report'[i] = report[i]) \/ report'[i] = entry
      /\ \A i \in DOMAIN report : i \in DOMAIN report' /\ report'[i] = report[i]
      /\ \E i \in DOMAIN report' : report'[i] = entry
  <2>1. IsSeq(report)
    BY DEF ReportInv, InOrder
  <2> DEFINE grown == Append(report, entry)
  <2>2. /\ IsSeq(grown)
        /\ \A i \in DOMAIN grown :
             (i \in DOMAIN report /\ grown[i] = report[i]) \/ grown[i] = entry
        /\ \A i \in DOMAIN report : i \in DOMAIN grown /\ grown[i] = report[i]
        /\ \E i \in DOMAIN grown : grown[i] = entry
    BY <2>1, AppendIs
  <2>3. report' = grown
    OBVIOUS
  <2> HIDE DEF grown
  <2>4. IsSeq(report)'
    BY <2>2, <2>3 DEF IsSeq, ToSet
  <2> QED BY <2>2, <2>3, <2>4
<1> HIDE DEF step
<1>4. InOrder'
  <2>1. ASSUME NEW i \in DOMAIN report'
        PROVE  /\ report'[i].step \in ToSet(Steps)
               /\ \A s \in ToSet(todo)' : Before(report'[i].step, s)
    <3>1. CASE i \in DOMAIN report /\ report'[i] = report[i]
      BY <1>1, <1>2, <3>1 DEF ReportInv, InOrder
    <3>2. CASE report'[i] = entry
      BY <1>1, <1>2, <3>2 DEF step
    <3> QED BY <1>3, <3>1, <3>2
  <2>2. /\ IsSeq(todo') /\ ToSet(todo') \subseteq ToSet(Steps)
        /\ \A i, j \in DOMAIN todo' : i < j => Before(todo'[i], todo'[j])
    BY <1>1 DEF Chain
  <2>3. IsSeq(todo)' /\ ToSet(todo)' = ToSet(todo')
    BY <2>2 DEF IsSeq, ToSet
  <2>4. "mode" \notin ToSet(todo)'
    BY <1>1, <1>2, StepsAre
  <2> QED BY <1>3, <2>1, <2>2, <2>3, <2>4 DEF InOrder, Earlier
<1>5. InPlace'
  <2> SUFFICES ASSUME NEW i \in DOMAIN report', Vouched(i)'
               PROVE  /\ report'[i].step \in {"modeId"} \cup DOMAIN agent.options
                      /\ report'[i].value \in Accepts(KeyOf(report'[i].step))
                      /\ Held(i)'
    BY DEF InPlace
  <2> DEFINE n == Len(report) + 1
  <2>1. /\ n \in DOMAIN report' /\ report'[n] = entry
        /\ \A j \in DOMAIN report : j \in DOMAIN report' /\ report'[j] = report[j] /\ j < n
        /\ i \in DOMAIN report \/ i = n
        /\ Stale(i)' <=> Stale(i)
    BY StaleGrows DEF ReportInv, InOrder
  <2>2. CASE i \in DOMAIN report
    <3>1. report'[i] = report[i] /\ i < n
      BY <2>1, <2>2
    <3>2. Vouched(i)
      BY <2>1, <3>1 DEF Vouched
    <3>3. /\ report[i].step \in {"modeId"} \cup DOMAIN agent.options
          /\ report[i].value \in Accepts(KeyOf(report[i].step))
          /\ Held(i) \/ (report[i].step = "mode" /\ Coming("mode", InForce(agent, "mode")))
      BY <2>2, <3>2 DEF ReportInv, InPlace, Configured
    <3>4. CASE Held(i)
      <4>1. PICK j \in DOMAIN report :
              /\ KeyOf(report[j].step) = KeyOf(report[i].step)
              /\ \/ j = i
                 \/ report[j].status = "applied" /\ (i < j \/ report[i].status = "already-set")
              /\ InForce(agent, report[i].step) = report[j].value
        BY <3>4 DEF Held
      <4>2. j \in DOMAIN report' /\ report'[j] = report[j]
        BY <2>1
      <4>3. Held(i)'
        BY <3>1, <4>1, <4>2 DEF Held
      <4> QED BY <3>1, <3>3, <4>3
    <3>5. CASE report[i].step = "mode" /\ Coming("mode", InForce(agent, "mode"))
      <4>1. entry.status = "applied" /\ entry.value = InForce(agent, "mode")
            /\ KeyOf(entry.step) = "mode"
        BY <3>5 DEF Coming
      <4>2. Held(i)'
        BY <2>1, <3>1, <3>5, <4>1 DEF Held, KeyOf
      <4> QED BY <3>1, <3>3, <4>2
    <3> QED BY <3>3, <3>4, <3>5
  <2>3. CASE i = n
    <3>1. \/ entry.status = "applied"
          \/ entry.status = "already-set" /\ ~Stale(Len(report) + 1)
      BY <2>1, <2>3 DEF Vouched
    <3>2. CASE InForce(agent, Head(todo)) = entry.value
      <4>1. Held(i)'
        BY <2>1, <2>3, <3>2 DEF Held
      <4> QED BY <2>1, <2>3, <3>1, <4>1
    <3>3. CASE /\ entry.status = "already-set"
               /\ \E j \in DOMAIN report :
                    /\ KeyOf(report[j].step) = KeyOf(Head(todo))
                    /\ report[j].status = "applied"
                    /\ InForce(agent, Head(todo)) = report[j].value
      <4>1. Held(i)'
        BY <2>1, <2>3, <3>3 DEF Held
      <4> QED BY <2>1, <2>3, <3>1, <4>1
    <3> QED BY <3>1, <3>2, <3>3
  <2> QED BY <2>1, <2>2, <2>3
<1>6. Covered'
  <2> SUFFICES ASSUME NEW key \in DOMAIN Wanted, Wanted[key] # <<>>,
                      ~(\E i \in DOMAIN report' : KeyOf(report'[i].step) = key)
               PROVE  \/ key \in ToSet(todo)'
                      \/ key = "mode" /\ ModeId # <<>> /\ "modeId" \in ToSet(todo)'
    BY DEF Covered
  <2>1. key # KeyOf(step)
    BY <1>3 DEF step
  <2>2. ~(\E i \in DOMAIN report : KeyOf(report[i].step) = key)
    BY <1>3
  <2>3. \/ key \in ToSet(todo)
        \/ key = "mode" /\ ModeId # <<>> /\ "modeId" \in ToSet(todo)
    BY <2>2 DEF ReportInv, Covered, Configured
  <2>4. key = "mode" => step # "modeId"
    BY <2>1 DEF KeyOf
  <2>5. key # step
    <3>1. key # "modeId"
      BY InitialConfigAssumption, StepsAre
    <3> QED BY <2>1, <3>1 DEF KeyOf
  <2> QED BY <1>1, <1>2, <2>3, <2>4, <2>5
<1>7. RequestIs' /\ Finished'
  BY DEF RequestIs, Finished
<1> QED BY <1>4, <1>5, <1>6, <1>7 DEF ReportInv

(* A mode without an option of its own is left to the protocol's modes.    *)
LEMMA StepIsSilent ==
  ASSUME ReportInv, stage = "config", stage' = stage, todo # <<>>,
         Decided(Head(todo)).status = "silent",
         todo' = Tail(todo), UNCHANGED <<agent, known, report>>
  PROVE  ReportInv'
<1> DEFINE step == Head(todo)
<1>1. /\ step \in ToSet(Steps) /\ ToSet(todo) = {step} \cup ToSet(Tail(todo))
      /\ \A s \in ToSet(Tail(todo)) : Before(step, s)
      /\ Chain(Tail(todo))
  BY AtHand DEF ReportInv
<1>2. ToSet(todo)' = ToSet(Tail(todo)) /\ IsSeq(todo)'
  BY <1>1 DEF ToSet, Chain, IsSeq
<1>3. \/ step = "modeId" /\ ModeId = <<>>
      \/ step = "mode" /\ ModeId # <<>>
  BY <1>1, DecidedIs
<1> HIDE DEF step
<1>4. InOrder'
  <2>1. ToSet(todo)' \subseteq ToSet(todo)
    BY <1>1, <1>2
  <2>2. \A i, j \in DOMAIN todo' : i < j => Before(todo'[i], todo'[j])
    BY <1>1 DEF Chain
  <2>3. "mode" \notin ToSet(todo)'
    BY <1>1, <1>2, StepsAre
  <2> QED BY <1>2, <2>1, <2>2, <2>3 DEF ReportInv, InOrder
<1>5. Covered'
  <2> SUFFICES ASSUME NEW key \in DOMAIN Wanted, Wanted[key] # <<>>,
                      ~(\E i \in DOMAIN report : KeyOf(report[i].step) = key)
               PROVE  \/ key \in ToSet(todo)'
                      \/ key = "mode" /\ ModeId # <<>> /\ "modeId" \in ToSet(todo)'
    BY DEF Covered
  <2>1. \/ key \in ToSet(todo)
        \/ key = "mode" /\ ModeId # <<>> /\ "modeId" \in ToSet(todo)
    BY DEF ReportInv, Covered, Configured
  <2>2. CASE key # step /\ key \in ToSet(todo)
    BY <1>1, <1>2, <2>2
  <2>3. CASE key # step /\ key \notin ToSet(todo)
    BY <1>1, <1>2, <1>3, <2>1, <2>3
  <2>4. CASE key = step
    <3>1. key # "modeId"
      BY InitialConfigAssumption, StepsAre
    <3>2. "modeId" \in ToSet(todo)
      BY <1>1, <1>3, <2>4, <3>1 DEF ReportInv, InOrder
    <3> QED BY <1>1, <1>2, <1>3, <2>4, <3>1, <3>2
  <2> QED BY <2>2, <2>3, <2>4
<1>6. ~Ahead /\ KnownIs'
  <2>1. ~Ahead
    BY DEF Ahead
  <2> QED BY <2>1, StillKnown
<1>7. InPlace'
  <2>1. \A i : (Vouched(i)' <=> Vouched(i)) /\ (Held(i)' <=> Held(i))
    BY DEF Vouched, Held, Stale
  <2> QED BY <1>6, <2>1 DEF ReportInv, InPlace, Coming, Configured
<1>8. RequestIs' /\ Finished'
  BY DEF ReportInv, RequestIs, Finished
<1> QED BY <1>4, <1>5, <1>6, <1>7, <1>8 DEF ReportInv

(* The session is there: all that is wanted is to be done.                 *)
LEMMA WorkBegins ==
  ASSUME ReportInv, stage = "session", stage' \in {"config", "listing"},
         known' = agent, todo' = Work, UNCHANGED <<agent, report>>
  PROVE  ReportInv'
<1>1. report = <<>>
  BY DEF ReportInv, InOrder, Earlier
<1>2. /\ IsSeq(Work)
      /\ \A i, j \in DOMAIN Work : i < j => Before(Work[i], Work[j])
      /\ ToSet(Work) = {s \in ToSet(Steps) : Wanted[KeyOf(s)] # <<>>}
  BY WorkIs DEF Chain
<1>3. IsSeq(todo)' /\ ToSet(todo)' = ToSet(Work)
  BY <1>2 DEF IsSeq, ToSet
<1>4. InOrder'
  <2>1. "mode" \in ToSet(Work) => "modeId" \in ToSet(Work)
    BY <1>2, StepsAre DEF KeyOf
  <2>2. DOMAIN report' = {}
    BY <1>1
  <2> QED BY <1>1, <1>2, <1>3, <2>1, <2>2 DEF ReportInv, InOrder
<1>5. Covered'
  <2> SUFFICES ASSUME NEW key \in DOMAIN Wanted, Wanted[key] # <<>>
               PROVE  key \in ToSet(todo)'
    BY DEF Covered
  <2>1. key \in ToSet(Steps) /\ KeyOf(key) = key
    BY InitialConfigAssumption, StepsAre DEF KeyOf
  <2> QED BY <1>2, <1>3, <2>1
<1>6. KnownIs'
  BY DEF KnownIs
<1>7. InPlace' /\ RequestIs' /\ Finished'
  BY <1>1 DEF InPlace, RequestIs, Finished
<1> QED BY <1>4, <1>5, <1>6, <1>7 DEF ReportInv

(* A decided step: it is reported, or a request is made.                   *)
LEMMA ConfigStepReports ==
  ASSUME IInv, ReportInv, ConfigStep
  PROVE  ReportInv'
<1> DEFINE step == Head(todo)
           item == Decided(step)
<1>1. /\ stage = "config" /\ todo # <<>> /\ UNCHANGED <<agent, known>>
      /\ \/ item.status = "ask" /\ AskAgent("configuring") /\ UNCHANGED <<todo, report>>
         \/ /\ item.status = "ask" /\ stage' = stage /\ todo' = Tail(todo)
            /\ report' = Append(report, [item EXCEPT !.status = "failed"])
         \/ /\ item.status # "ask" /\ stage' = stage /\ todo' = Tail(todo)
            /\ report' = Reported(report, item)
  BY DEF ConfigStep
<1>2. step \in ToSet(Steps) /\ step \in ToSet(todo)
  BY <1>1, AtHand DEF ReportInv
<1>3. /\ item = [step |-> step, status |-> item.status, value |-> item.value]
      /\ item.status \in {"ask", "already-set", "skipped", "silent"}
      /\ item.status \in {"ask", "already-set"} =>
           /\ item.value \in Accepts(KeyOf(step))
           /\ step \in {"modeId"} \cup DOMAIN known.options
      /\ item.status = "already-set" => InForce(known, step) = item.value
  BY <1>2, DecidedIs
<1>4. ~Ahead
  BY <1>1 DEF Ahead
<1>5. CASE item.status = "ask" /\ AskAgent("configuring") /\ UNCHANGED <<todo, report>>
  <2>1. stage' = "configuring" /\ ~Ahead'
    BY <1>5, AskedIsOpen DEF Ahead
  <2>2. RequestIs'
    <3>1. Decided(Head(todo))' = Decided(Head(todo))
      BY <1>1, <1>5 DEF Decided
    <3> QED BY <1>1, <1>5, <2>1, <3>1 DEF RequestIs
  <2>3. /\ \A i : (Vouched(i)' <=> Vouched(i)) /\ (Held(i)' <=> Held(i))
        /\ Stale(Len(report) + 1)' <=> Stale(Len(report) + 1)
    BY <1>1, <1>5 DEF Vouched, Held, Stale
  <2>4. KnownIs'
    BY <1>1, <1>4, <1>5, <2>3 DEF ReportInv, KnownIs, Coming
  <2>5. InPlace'
    BY <1>1, <1>4, <1>5, <2>3 DEF ReportInv, InPlace, Coming, Configured
  <2>6. InOrder' /\ Covered' /\ Finished'
    BY <1>1, <1>5, <2>1
       DEF ReportInv, InOrder, Covered, Finished, Configured, Earlier
  <2> QED BY <1>1, <2>2, <2>4, <2>5, <2>6 DEF ReportInv
<1>6. CASE /\ item.status = "ask" /\ stage' = stage /\ todo' = Tail(todo)
           /\ report' = Append(report, [item EXCEPT !.status = "failed"])
  <2> DEFINE entry == [item EXCEPT !.status = "failed"]
  <2>1. entry.step = step /\ entry.status = "failed"
    BY <1>3
  <2> HIDE DEF entry
  <2>2. report' = Append(report, entry) /\ IsAgent(known')
    BY <1>1, <1>6 DEF ReportInv, entry
  <2>3. KnownIs'
    BY <1>1, <1>4, <1>6, <2>1, <2>2, StillKnown
  <2> QED BY <1>1, <1>4, <1>6, <2>1, <2>2, <2>3, ReportGrows
<1>7. CASE /\ item.status # "ask" /\ stage' = stage /\ todo' = Tail(todo)
           /\ report' = Reported(report, item)
  <2>1. CASE item.status = "silent"
    <3>1. UNCHANGED report
      BY <1>7, <2>1 DEF Reported
    <3> QED BY <1>1, <1>7, <2>1, <3>1, StepIsSilent
  <2>2. CASE item.status # "silent"
    <3>1. report' = Append(report, item) /\ item.step = step
      BY <1>3, <1>7, <2>2 DEF Reported
    <3>2. item.status # "applied" /\ KnownIs' /\ IsAgent(known')
      BY <1>1, <1>3, <1>4, <1>7, <3>1, StillKnown DEF ReportInv
    <3>3. ASSUME item.status = "already-set", ~Stale(Len(report) + 1)
          PROVE  /\ step \in {"modeId"} \cup DOMAIN agent.options
                 /\ item.value \in Accepts(KeyOf(step))
                 /\ \/ InForce(agent, step) = item.value
                    \/ \E j \in DOMAIN report :
                         /\ KeyOf(report[j].step) = KeyOf(step)
                         /\ report[j].status = "applied"
                         /\ InForce(agent, step) = report[j].value
      <4>1. /\ item.value \in Accepts(KeyOf(step))
            /\ step \in {"modeId"} \cup DOMAIN known.options
            /\ InForce(known, step) = item.value
        BY <1>3, <3>3
      <4>2. /\ "modeId" \in ToSet(todo) =>
                 \/ agent.mode = known.mode
                 \/ \E j \in DOMAIN report :
                      /\ report[j].step = "mode" /\ report[j].status = "applied"
                      /\ agent.mode = report[j].value
            /\ DOMAIN known.options = DOMAIN agent.options
            /\ \A o \in DOMAIN agent.options \cap ToSet(todo) :
                 known.options[o] = agent.options[o]
        BY <1>1, <1>4, <3>3 DEF ReportInv, KnownIs, Coming
      <4>3. CASE step = "modeId"
        <5>1. InForce(agent, step) = agent.mode /\ item.value = known.mode
              /\ KeyOf(step) = "mode" /\ KeyOf("mode") = "mode"
          BY <4>1, <4>3 DEF InForce, KeyOf
        <5>2. \/ agent.mode = known.mode
              \/ \E j \in DOMAIN report :
                   /\ report[j].step = "mode" /\ report[j].status = "applied"
                   /\ agent.mode = report[j].value
          BY <1>2, <4>2, <4>3
        <5> HIDE DEF item, step
        <5> QED BY <4>1, <4>3, <5>1, <5>2
      <4>4. CASE step # "modeId"
        <5>1. step \in DOMAIN agent.options /\ known.options[step] = agent.options[step]
          BY <1>2, <4>1, <4>2, <4>4
        <5> QED BY <4>1, <4>4, <5>1 DEF InForce
      <4> QED BY <4>3, <4>4
    <3> HIDE DEF item
    <3> QED BY <1>1, <1>4, <1>7, <3>1, <3>2, <3>3, ReportGrows
  <2> QED BY <2>1, <2>2
<1> QED BY <1>1, <1>5, <1>6, <1>7

(* An answer, or the end of a request without one, is reported.            *)
LEMMA ConfigReturnsReports ==
  ASSUME IInv, ReportInv, ConfigReturns
  PROVE  ReportInv'
<1> DEFINE step == Head(todo)
           item == Decided(step)
           done == request["opening"] = "answered"
           entry == [item EXCEPT !.status = IF done THEN "applied" ELSE "failed"]
<1>1. /\ stage = "configuring" /\ stage' = "config" /\ todo' = Tail(todo)
      /\ report' = Append(report, entry)
      /\ known' = IF done THEN Learnt(item) ELSE known
      /\ UNCHANGED agent
  BY DEF ConfigReturns, Reply, Goto
<1>2. /\ todo # <<>> /\ item.status = "ask"
      /\ Ahead => InForce(agent, step) = item.value
      /\ Ahead <=> done
  BY <1>1 DEF ReportInv, RequestIs, Ahead
<1>3. /\ step \in ToSet(Steps) /\ ToSet(todo) = {step} \cup ToSet(Tail(todo))
      /\ \A s \in ToSet(Tail(todo)) : Before(step, s)
  BY <1>2, AtHand DEF ReportInv
<1>4. /\ item = [step |-> step, status |-> item.status, value |-> item.value]
      /\ item.value \in Accepts(KeyOf(step))
      /\ step \in {"modeId"} \cup DOMAIN known.options
  BY <1>2, <1>3, DecidedIs
<1>5. item.step = step /\ entry.step = step /\ entry.value = item.value
      /\ entry.status = IF done THEN "applied" ELSE "failed"
  BY <1>4
<1>6. ASSUME entry.status = "applied"
      PROVE  /\ step \in {"modeId"} \cup DOMAIN agent.options
             /\ entry.value \in Accepts(KeyOf(step))
             /\ InForce(agent, step) = entry.value
  <2>1. done
    BY <1>5, <1>6
  <2>2. step \in {"modeId"} \cup DOMAIN agent.options
    BY <1>1, <1>4 DEF ReportInv, KnownIs
  <2>3. entry.value \in Accepts(KeyOf(step))
    BY <1>4, <1>5
  <2>4. InForce(agent, step) = entry.value
    BY <1>2, <1>5, <2>1
  <2> QED BY <2>2, <2>3, <2>4
<1>10. /\ IsSeq(report)
       /\ \A i \in DOMAIN report : i \in DOMAIN report' /\ report'[i] = report[i]
       /\ entry.status = "applied" /\ entry.step = "modeId" => Stale(Len(report) + 1)'
       /\ Len(report) + 1 \in DOMAIN report' /\ report'[Len(report) + 1] = entry
  <2>1. IsSeq(report) /\ report' = Append(report, entry)
    BY <1>1 DEF ReportInv, InOrder
  <2> HIDE DEF entry
  <2> QED BY <2>1, StaleGrows
<1>7. ToSet(todo)' = ToSet(Tail(todo))
  BY <1>1 DEF ToSet
<1>8. KnownIs' /\ IsAgent(known')
  <2>1. CASE ~done
    <3>1. ~Ahead /\ UNCHANGED known /\ entry.status # "applied"
      BY <1>1, <1>2, <1>5, <2>1
    <3>2. report' = Append(report, entry)
      BY <1>1
    <3> HIDE DEF entry
    <3> QED BY <1>1, <1>2, <3>1, <3>2, StillKnown DEF ReportInv
  <2>2. CASE done /\ step = "modeId"
    <3>1. /\ known' = [known EXCEPT !.mode = item.value]
          /\ known'.options = known.options
      BY <1>1, <1>5, <2>2 DEF ReportInv, IsAgent, Learnt
    <3>2. known' = [options |-> known'.options, mode |-> known'.mode]
      BY <3>1 DEF ReportInv, IsAgent
    <3>3. IsAgent(known')
      BY <3>1, <3>2 DEF ReportInv, IsAgent
    <3>4. "modeId" \notin ToSet(todo)' /\ "mode" \notin ToSet(todo)'
      BY <1>3, <1>7, <2>2, StepsAre
    <3>5. DOMAIN known'.options = DOMAIN agent.options
      BY <1>1, <3>1 DEF ReportInv, KnownIs
    <3>6. Stale(Len(report) + 1)'
      BY <1>5, <1>10, <2>2
    <3> QED BY <1>1, <3>3, <3>4, <3>5, <3>6 DEF KnownIs
  <2>3. CASE done /\ step # "modeId"
    <3>1. /\ known' = [known EXCEPT !.options = agent.options]
          /\ known'.options = agent.options /\ known'.mode = known.mode
      BY <1>1, <1>5, <2>3 DEF ReportInv, IsAgent, Learnt, Replaced
    <3>2. known' = [options |-> known'.options, mode |-> known'.mode]
      BY <3>1 DEF ReportInv, IsAgent
    <3>3. IsAgent(known')
      BY <3>1, <3>2 DEF ReportInv, IsAgent
    <3>4. ToSet(todo)' \subseteq ToSet(todo)
      BY <1>3, <1>7
    <3>5. ASSUME "modeId" \in ToSet(todo)'
          PROVE  \/ agent.mode = known.mode
                 \/ \E j \in DOMAIN report' :
                      /\ report'[j].step = "mode" /\ report'[j].status = "applied"
                      /\ agent.mode = report'[j].value
      <4>1. \/ agent.mode = known.mode
            \/ \E j \in DOMAIN report :
                 /\ report[j].step = "mode" /\ report[j].status = "applied"
                 /\ agent.mode = report[j].value
            \/ Coming("mode", agent.mode)
        BY <1>1, <3>4, <3>5 DEF ReportInv, KnownIs
      <4>2. CASE \E j \in DOMAIN report :
                   /\ report[j].step = "mode" /\ report[j].status = "applied"
                   /\ agent.mode = report[j].value
        BY <1>10, <4>2
      <4>3. CASE Coming("mode", agent.mode)
        <5>1. step = "mode" /\ agent.mode = item.value
          BY <2>3, <4>3 DEF Coming, KeyOf
        <5> QED BY <1>5, <1>10, <2>3, <5>1
      <4> QED BY <4>1, <4>2, <4>3
    <3> QED BY <1>1, <3>1, <3>3, <3>4, <3>5 DEF KnownIs
  <2> QED BY <2>1, <2>2, <2>3
<1>9. /\ stage \in {"config", "configuring"} /\ todo # <<>>
      /\ Ahead => entry.status = "applied" /\ entry.value = item.value
      /\ entry.status # "already-set"
  BY <1>1, <1>2, <1>5
<1> HIDE DEF entry
<1> QED BY <1>1, <1>5, <1>6, <1>8, <1>9, ReportGrows

(* Every step keeps the report true.                                       *)
LEMMA StepReport == IInv /\ ReportInv /\ [Next]_vars => ReportInv'
<1> SUFFICES ASSUME IInv, ReportInv, [Next]_vars PROVE ReportInv'
  OBVIOUS
<1> USE DEF Earlier, Configured
<1>1. ASSUME ProcessNext /\ UNCHANGED openingVars PROVE ReportInv'
  BY <1>1, ProcessKeepsAnswers, ReportStays DEF openingVars, configVars, Ahead
<1>2. ASSUME AgentAnswers PROVE ReportInv'
  BY <1>2, AgentKeepsReport
<1>3. ASSUME Start PROVE ReportInv'
  BY <1>3, ReportStays DEF Start, Goto
<1>4. ASSUME SpawnReturns PROVE ReportInv'
  BY <1>4, ReportStays DEF SpawnReturns, Goto, AskAgent
<1>5. ASSUME InitializeReturns PROVE ReportInv'
  <2>1. stage = "initialize" /\ UNCHANGED configVars
        /\ stage' \in {"choosing", "authenticate", "session", "cleanup"}
    BY <1>5 DEF InitializeReturns, Reply, Goto, AskAgent, Fails, Clean
  <2> QED BY <2>1, ReportStays
<1>6. ASSUME HostChooses PROVE ReportInv'
  BY <1>6, ReportStays DEF HostChooses, Goto, AskAgent, Fails, Clean
<1>7. ASSUME AuthenticateReturns PROVE ReportInv'
  BY <1>7, ReportStays
     DEF AuthenticateReturns, AuthenticationFails, Reply, Goto, AskAgent, Fails, Clean
<1>8. ASSUME SessionReturns PROVE ReportInv'
  <2>1. stage = "session"
        /\ \/ /\ stage' \in {"config", "listing"} /\ known' = agent /\ todo' = Work
              /\ UNCHANGED <<agent, report>>
           \/ stage' = "cleanup" /\ UNCHANGED configVars
    BY <1>8 DEF SessionReturns, Reply, Goto, Fails, Clean
  <2> QED BY <2>1, WorkBegins, ReportStays
<1>9. ASSUME ConfigStep PROVE ReportInv'
  BY <1>9, ConfigStepReports
<1>10. ASSUME ConfigReturns PROVE ReportInv'
  BY <1>10, ConfigReturnsReports
<1>11. ASSUME ConfigEnds PROVE ReportInv'
  <2>1. stage = "config" /\ todo = <<>> /\ UNCHANGED configVars
        /\ \/ stage' = "cleanup"
           \/ stage' = "registering" /\ ~FailedRequired(report)
    BY <1>11 DEF ConfigEnds, Fails, Clean, Goto
  <2>2. CASE stage' = "cleanup"
    BY <2>1, <2>2, ReportStays
  <2>3. CASE stage' = "registering" /\ ~FailedRequired(report)
    BY <2>1, <2>3
       DEF ReportInv, configVars, InOrder, RequestIs, KnownIs, InPlace, Covered, Finished,
           Coming, Ahead, Vouched, Held, Stale
  <2> QED BY <2>1, <2>2, <2>3
<1>12. ASSUME RegisterReturns PROVE ReportInv'
  <2>1. stage = "registering" /\ UNCHANGED configVars /\ stage' \in {"open", "unregistered"}
    BY <1>12 DEF RegisterReturns
  <2>2. CASE stage' = "unregistered"
    BY <2>1, <2>2, ReportStays
  <2>3. CASE stage' = "open"
    BY <2>1, <2>3
       DEF ReportInv, configVars, InOrder, RequestIs, KnownIs, InPlace, Covered, Finished,
           Coming, Ahead, Vouched, Held, Stale
  <2> QED BY <2>1, <2>2, <2>3
<1>13. ASSUME CleanedUp PROVE ReportInv'
  BY <1>13, ReportStays DEF CleanedUp, Goto
<1>14. ASSUME Prompt PROVE ReportInv'
  <2>1. stage = "open" /\ UNCHANGED openingVars
    BY <1>14 DEF Prompt
  <2> QED BY <2>1, ReportStays DEF openingVars, configVars, Ahead
<1>15. ASSUME Close PROVE ReportInv'
  BY <1>15, ReportStays DEF Close, Clean, Goto
<1>16. ASSUME UNCHANGED vars PROVE ReportInv'
  BY <1>16, ReportStays DEF vars, openingVars, configVars, processVars, Ahead
<1> QED
  BY <1>1, <1>2, <1>3, <1>4, <1>5, <1>6, <1>7, <1>8, <1>9, <1>10, <1>11,
     <1>12, <1>13, <1>14, <1>15, <1>16 DEF Next, OpeningNext

(* The report and the work left follow the order of the steps, the driver  *)
(* knows the options it has still to decide on, and what is reported stays *)
(* in place.                                                               *)
THEOREM ReportInvariance == Spec => []ReportInv
<1>1. Init => ReportInv
  <2> SUFFICES ASSUME Init PROVE ReportInv
    OBVIOUS
  <2>1. /\ stage = "idle" /\ IsAgent(agent) /\ IsAgent(known)
        /\ todo = <<>> /\ report = <<>>
    BY OpeningAssumption DEF Init
  <2>2. DOMAIN todo = {} /\ DOMAIN report = {} /\ ToSet(todo) = {}
    BY <2>1 DEF ToSet
  <2>3. InOrder
    BY <2>1, <2>2 DEF InOrder, IsSeq
  <2> QED
    BY <2>1, <2>3
       DEF ReportInv, RequestIs, KnownIs, InPlace, Covered, Finished, Configured
<1> QED BY <1>1, OpeningInvariance, StepReport, PTL DEF Spec

(* What the report of a session the host gets says was applied is in force *)
(* at the agent, or what was applied for the same key after it, and so is  *)
(* what it says was already set unless the driver's options are those of   *)
(* before it changed the mode; nothing required is missing.  A value may   *)
(* change others that come later: initial-config.ts decides each step on   *)
(* the options the answer to the last one carried.                         *)
THEOREM ReportTrueHolds == Spec => []ReportTrue
<1>1. ReportInv => ReportTrue
  <2> SUFFICES ASSUME ReportInv, stage \in {"registering", "open"}
               PROVE  /\ \A i \in DOMAIN report :
                           Vouched(i) =>
                             /\ Held(i)
                             /\ report[i].value \in Accepts(KeyOf(report[i].step))
                      /\ \A key \in Required :
                           Wanted[key] # <<>> =>
                             \E i \in DOMAIN report :
                               KeyOf(report[i].step) = key /\ report[i].status \in Succeeded
    BY DEF ReportTrue
  <2>1. todo = <<>> /\ ~FailedRequired(report) /\ ToSet(todo) = {}
    BY DEF ReportInv, Finished, ToSet
  <2>2. stage \in Configured /\ ~Ahead
    BY DEF Configured, Ahead
  <2>3. ASSUME NEW key \in Required, Wanted[key] # <<>>
        PROVE  \E i \in DOMAIN report :
                 KeyOf(report[i].step) = key /\ report[i].status \in Succeeded
    <3>1. key \in DOMAIN Wanted
      BY InitialConfigAssumption
    <3>2. PICK i \in DOMAIN report : KeyOf(report[i].step) = key
      BY <2>1, <2>2, <2>3, <3>1 DEF ReportInv, Covered
    <3> QED BY <2>1, <3>2 DEF FailedRequired
  <2> QED BY <2>2, <2>3 DEF ReportInv, InPlace, Coming
<1> QED BY <1>1, ReportInvariance, PTL
=============================================================================
