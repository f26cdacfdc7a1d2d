------------------------ MODULE SessionDriverProofs ------------------------
(***************************************************************************)
(* Proofs about SessionDriver, for any set of turns: its type correctness, *)
(* its inductive invariant and what follows from it, what streams are      *)
(* told, what becomes of cancels, what prompts are made of, and the order  *)
(* of the queue.                                                           *)
(***************************************************************************)
EXTENDS SessionDriver, SequenceTheorems, TLAPS

-----------------------------------------------------------------------------
(* Lemmas about the queue.                                                 *)

(* splice(k, 1) on a queue without repetitions: the others stay.           *)
LEMMA RemoveAtShape ==
  ASSUME NEW S, NEW q \in Seq(S), NEW k \in 1 .. Len(q)
  PROVE  /\ RemoveAt(q, k) \in Seq(S)
         /\ IsInjective(q) => /\ IsInjective(RemoveAt(q, k))
                              /\ ToSet(RemoveAt(q, k)) = ToSet(q) \ {q[k]}
<1> DEFINE a == SubSeq(q, 1, k - 1)
           b == SubSeq(q, k + 1, Len(q))
           w == RemoveAt(q, k)
           up(n) == IF n < k THEN n ELSE n + 1
<1>1. DOMAIN q = 1 .. Len(q) /\ Len(q) \in Nat
  OBVIOUS
<1>2. a \in Seq(S) /\ Len(a) = k - 1 /\ \A i \in 1 .. k - 1 : a[i] = q[i]
  OBVIOUS
<1>3. b \in Seq(S) /\ Len(b) = Len(q) - k
  OBVIOUS
<1>4. \A i \in 1 .. Len(q) - k : b[i] = q[i + k]
  OBVIOUS
<1>5. w = a \o b
  BY DEF RemoveAt
<1> HIDE DEF a, b, w
<1>6. /\ w \in Seq(S) /\ Len(w) = Len(a) + Len(b)
      /\ \A i \in 1 .. Len(a) + Len(b) :
           w[i] = IF i <= Len(a) THEN a[i] ELSE b[i - Len(a)]
  BY <1>2, <1>3, <1>5, ConcatProperties
<1>7. DOMAIN w = 1 .. Len(q) - 1 /\ Len(a) + Len(b) = Len(q) - 1
  BY <1>2, <1>3, <1>6
<1>8. ASSUME NEW i \in 1 .. Len(q) - 1
      PROVE  up(i) \in DOMAIN q /\ up(i) # k /\ w[i] = q[up(i)]
  <2>1. up(i) \in DOMAIN q /\ up(i) # k
    BY <1>1
  <2>2. CASE i < k
    BY <1>2, <1>6, <1>7, <2>2
  <2>3. CASE ~(i < k)
    <3>1. w[i] = b[i - (k - 1)]
      BY <1>2, <1>6, <1>7, <2>3
    <3>2. i - (k - 1) \in 1 .. Len(q) - k /\ (i - (k - 1)) + k = i + 1
      BY <2>3
    <3> QED BY <1>4, <2>1, <2>3, <3>1, <3>2
  <2> QED BY <2>1, <2>2, <2>3
<1>9. ASSUME IsInjective(q) PROVE IsInjective(w)
  <2>1. ASSUME NEW i \in 1 .. Len(q) - 1, NEW j \in 1 .. Len(q) - 1, w[i] = w[j]
        PROVE  i = j
    <3>1. up(i) = up(j)
      BY <1>8, <1>9, <2>1 DEF IsInjective
    <3> QED BY <3>1
  <2> QED BY <1>7, <2>1 DEF IsInjective
<1>10. ASSUME IsInjective(q) PROVE ToSet(w) = ToSet(q) \ {q[k]}
  <2>1. ASSUME NEW i \in 1 .. Len(q) - 1
        PROVE  w[i] \in ToSet(q) \ {q[k]}
    <3>1. up(i) \in DOMAIN q /\ up(i) # k /\ w[i] = q[up(i)]
      BY <1>8
    <3> QED BY <1>1, <1>10, <3>1 DEF IsInjective, ToSet
  <2>2. ASSUME NEW j \in 1 .. Len(q), q[j] # q[k]
        PROVE  \E i \in 1 .. Len(q) - 1 : w[i] = q[j]
    <3>1. CASE j < k
      <4>1. j \in 1 .. Len(q) - 1 /\ up(j) = j
        BY <3>1
      <4> QED BY <1>8, <4>1
    <3>2. CASE j > k
      <4>1. j - 1 \in 1 .. Len(q) - 1
        BY <3>2
      <4>2. up(j - 1) = j
        BY <3>2
      <4>3. w[j - 1] = q[j]
        <5> DEFINE i == j - 1
        <5>1. w[i] = q[up(i)]
          BY <1>8, <4>1
        <5> QED BY <4>2, <5>1
      <4> QED BY <4>1, <4>3
    <3>3. j # k
      BY <2>2
    <3> QED BY <3>1, <3>2, <3>3
  <2>3. /\ ToSet(w) = {w[i] : i \in 1 .. Len(q) - 1}
        /\ ToSet(q) = {q[i] : i \in 1 .. Len(q)}
    BY <1>1, <1>7 DEF ToSet
  <2>4. \A y \in ToSet(w) : y \in ToSet(q) \ {q[k]}
    BY <2>1, <2>3
  <2>5. \A y \in ToSet(q) \ {q[k]} : y \in ToSet(w)
    BY <2>2, <2>3
  <2> QED BY <2>4, <2>5
<1> QED
  BY <1>6, <1>9, <1>10 DEF w

(* removePendingTurn takes exactly the given turn out.                     *)
LEMMA WithoutShape ==
  ASSUME NEW S, NEW q \in Seq(S), NEW x \in ToSet(q)
  PROVE  /\ Without(q, x) \in Seq(S)
         /\ IsInjective(q) => /\ IsInjective(Without(q, x))
                              /\ ToSet(Without(q, x)) = ToSet(q) \ {x}
<1> DEFINE k == CHOOSE i \in DOMAIN q : q[i] = x
<1>1. k \in DOMAIN q /\ q[k] = x
  BY DEF ToSet
<1>2. Without(q, x) = RemoveAt(q, k)
  BY DEF Without
<1> HIDE DEF k
<1>3. k \in 1 .. Len(q)
  BY <1>1
<1> QED
  BY <1>1, <1>2, <1>3, RemoveAtShape

(* A queue without repetitions grows by a turn that is not in it.          *)
LEMMA AppendShape ==
  ASSUME NEW S, NEW q \in Seq(S), NEW x \in S
  PROVE  /\ Append(q, x) \in Seq(S) /\ Append(q, x) # <<>>
         /\ ToSet(Append(q, x)) = ToSet(q) \cup {x}
         /\ IsInjective(q) /\ x \notin ToSet(q) => IsInjective(Append(q, x))
<1> DEFINE w == Append(q, x)
<1>1. /\ w \in Seq(S) /\ DOMAIN q = 1 .. Len(q) /\ DOMAIN w = 1 .. Len(q) + 1
      /\ \A i \in DOMAIN q : w[i] = q[i]
      /\ w[Len(q) + 1] = x /\ Len(q) \in Nat /\ w # <<>>
  OBVIOUS
<1> HIDE DEF w
<1>2. \A i \in DOMAIN w : i \in DOMAIN q \/ i = Len(q) + 1
  BY <1>1
<1>3. DOMAIN q \subseteq DOMAIN w /\ Len(q) + 1 \in DOMAIN w
  BY <1>1
<1>4. ToSet(w) = ToSet(q) \cup {x}
  BY <1>1, <1>2, <1>3 DEF ToSet
<1>5. IsInjective(q) /\ x \notin ToSet(q) => IsInjective(w)
  BY <1>1, <1>2, <1>3 DEF ToSet, IsInjective
<1> QED BY <1>1, <1>4, <1>5 DEF w

(* moveQueuedTurnToFront: unshift of a turn that is not in the queue.      *)
LEMMA UnshiftShape ==
  ASSUME NEW S, NEW q \in Seq(S), NEW x \in S
  PROVE  /\ <<x>> \o q \in Seq(S) /\ <<x>> \o q # <<>>
         /\ ToSet(<<x>> \o q) = ToSet(q) \cup {x}
         /\ IsInjective(q) /\ x \notin ToSet(q) => IsInjective(<<x>> \o q)
<1> DEFINE w == <<x>> \o q
<1>1. <<x>> \in Seq(S) /\ Len(<<x>>) = 1 /\ <<x>>[1] = x
  OBVIOUS
<1>2. /\ w \in Seq(S) /\ Len(w) = 1 + Len(q)
      /\ \A i \in 1 .. 1 + Len(q) : w[i] = IF i <= 1 THEN x ELSE q[i - 1]
  BY <1>1, ConcatProperties
<1> HIDE DEF w
<1>3. DOMAIN q = 1 .. Len(q) /\ DOMAIN w = 1 .. 1 + Len(q) /\ Len(q) \in Nat
  BY <1>2
<1>4. w[1] = x /\ 1 \in DOMAIN w
  BY <1>2, <1>3
<1>5. \A i \in DOMAIN w : i # 1 => i - 1 \in DOMAIN q /\ w[i] = q[i - 1]
  BY <1>2, <1>3
<1>6. \A j \in DOMAIN q : j + 1 \in DOMAIN w /\ w[j + 1] = q[j]
  BY <1>2, <1>3
<1>7. ToSet(w) = ToSet(q) \cup {x}
  BY <1>4, <1>5, <1>6 DEF ToSet
<1>8. ASSUME IsInjective(q), x \notin ToSet(q) PROVE IsInjective(w)
  <2>1. ASSUME NEW i \in DOMAIN w, NEW j \in DOMAIN w, w[i] = w[j]
        PROVE  i = j
    <3>1. CASE i = 1 \/ j = 1
      BY <1>4, <1>5, <1>8, <2>1, <3>1 DEF ToSet
    <3>2. CASE i # 1 /\ j # 1
      <4>1. i - 1 = j - 1
        BY <1>5, <1>8, <2>1, <3>2 DEF IsInjective
      <4> QED BY <1>3, <4>1
    <3> QED BY <3>1, <3>2
  <2> QED BY <2>1 DEF IsInjective
<1>9. w # <<>>
  BY <1>2, <1>3
<1> QED BY <1>2, <1>7, <1>8, <1>9 DEF w

(* takeReadyTurnsForDelivery gives a lead, the turns merged into it and    *)
(* the rest; on a queue without repetitions they split the queue.          *)
LEMMA TakeReadyShape ==
  ASSUME NEW q \in Seq(Turns), q # <<>>, NEW pol
  PROVE  LET batch  == TakeReady(q, pol)
             merged == ToSet(Tail(batch))
             rest   == SubSeq(q, Len(batch) + 1, Len(q))
         IN /\ batch \in Seq(Turns) /\ Head(batch) = q[1]
            /\ q[1] \in Turns /\ q[1] \in ToSet(q)
            /\ merged \subseteq Turns /\ rest \in Seq(Turns)
            /\ IsInjective(q) =>
                 /\ IsInjective(rest)
                 /\ ToSet(rest) = ToSet(q) \ ({q[1]} \cup merged)
                 /\ merged \subseteq ToSet(q) \ {q[1]}
<1> DEFINE batch == TakeReady(q, pol)
           rest  == SubSeq(q, Len(batch) + 1, Len(q))
<1>1. /\ Len(q) \in Nat \ {0} /\ DOMAIN q = 1 .. Len(q) /\ q[1] \in Turns
      /\ q[1] \in ToSet(q)
  <2>1. Len(q) \in Nat \ {0} /\ DOMAIN q = 1 .. Len(q) /\ q[1] \in Turns
    OBVIOUS
  <2>2. 1 \in DOMAIN q
    BY <2>1
  <2> QED BY <2>1, <2>2 DEF ToSet
<1>2. /\ Tail(q) \in Seq(Turns) /\ DOMAIN Tail(q) = 1 .. Len(q) - 1
      /\ Len(Tail(q)) = Len(q) - 1
      /\ \A i \in 1 .. Len(q) - 1 : Tail(q)[i] = q[i + 1]
  BY <1>1
<1>3. ASSUME IsInjective(q) PROVE IsInjective(Tail(q))
  <2>1. ASSUME NEW i \in DOMAIN Tail(q), NEW j \in DOMAIN Tail(q),
               Tail(q)[i] = Tail(q)[j]
        PROVE  i = j
    <3>1. i + 1 \in DOMAIN q /\ j + 1 \in DOMAIN q
      BY <1>1, <1>2
    <3>2. i + 1 = j + 1
      BY <1>2, <1>3, <2>1, <3>1 DEF IsInjective
    <3> QED BY <1>2, <3>2
  <2> QED BY <2>1 DEF IsInjective
<1>4. ToSet(Tail(q)) \subseteq Turns
  BY <1>2 DEF ToSet
<1>5. ASSUME IsInjective(q) PROVE ToSet(Tail(q)) = ToSet(q) \ {q[1]}
  <2>1. ASSUME NEW i \in DOMAIN q, i # 1
        PROVE  i - 1 \in DOMAIN Tail(q) /\ Tail(q)[i - 1] = q[i]
    BY <1>1, <1>2, <2>1
  <2>2. ASSUME NEW i \in DOMAIN Tail(q)
        PROVE  i + 1 \in DOMAIN q /\ i + 1 # 1 /\ Tail(q)[i] = q[i + 1]
    BY <1>1, <1>2
  <2>3. 1 \in DOMAIN q
    BY <1>1
  <2>4. ASSUME NEW i \in DOMAIN q, i # 1 PROVE q[i] # q[1]
    BY <1>5, <2>3, <2>4 DEF IsInjective
  <2> QED BY <2>1, <2>2, <2>4, SMTT(40) DEF ToSet
<1>6. CASE pol = "coalesce"
  <2>1. batch = q
    BY <1>6 DEF TakeReady
  <2>2. rest = <<>> /\ Head(batch) = q[1] /\ batch \in Seq(Turns)
    BY <1>1, <2>1
  <2>3. IsInjective(rest) /\ ToSet(rest) = {} /\ rest \in Seq(Turns)
    BY <2>2 DEF IsInjective, ToSet
  <2> HIDE DEF batch, rest
  <2>4. IsInjective(q) =>
          /\ IsInjective(rest)
          /\ ToSet(rest) = ToSet(q) \ ({q[1]} \cup ToSet(Tail(batch)))
          /\ ToSet(Tail(batch)) \subseteq ToSet(q) \ {q[1]}
    BY <1>5, <2>1, <2>3
  <2> QED BY <1>1, <1>4, <2>1, <2>2, <2>3, <2>4 DEF batch, rest
<1>7. CASE pol # "coalesce"
  <2>1. batch = <<q[1]>>
    BY <1>7 DEF TakeReady
  <2>2. /\ Len(batch) = 1 /\ Head(batch) = q[1] /\ batch \in Seq(Turns)
        /\ ToSet(Tail(batch)) = {}
    BY <1>1, <2>1 DEF ToSet
  <2>3. rest = Tail(q)
    <3>1. rest \in Seq(Turns) /\ Len(rest) = Len(q) - 1
          /\ \A i \in 1 .. Len(q) - 1 : rest[i] = q[i + 1]
      BY <1>1, <2>2
    <3> QED BY <1>1, <1>2, <3>1, SeqEqual
  <2> HIDE DEF batch, rest
  <2>4. IsInjective(q) =>
          /\ IsInjective(rest)
          /\ ToSet(rest) = ToSet(q) \ ({q[1]} \cup ToSet(Tail(batch)))
          /\ ToSet(Tail(batch)) \subseteq ToSet(q) \ {q[1]}
    BY <1>3, <1>5, <2>2, <2>3
  <2> QED BY <1>1, <1>2, <2>2, <2>3, <2>4 DEF batch, rest
<1> QED BY <1>6, <1>7

-----------------------------------------------------------------------------
(* Lemmas about the start and the end of turns.                            *)

(* startNextQueuedTurn: the first turn of q is started, those in merged    *)
(* are coalesced into it, the others stay.                                 *)
Starts(q, stg, ev, tm, merged) ==
  /\ q[1] \in ToSet(q) /\ q[1] \in Turns
  /\ status' = "running" /\ current' = q[1]
  /\ stage' = [stg EXCEPT ![q[1]] = "starting"]
  /\ prompt' \in [Turns -> Seq(Turns)]
  /\ \A t \in Turns : ToSet(prompt'[t]) = IF t = q[1] THEN {t} \cup merged
                                           ELSE ToSet(prompt[t])
  /\ Finish(merged, [t \in Turns |-> "coalesced"], ev)
  /\ timer' = tm \ merged
  /\ pending' \in Seq(Turns)
  /\ IsInjective(q) => /\ IsInjective(pending')
                       /\ ToSet(pending') = ToSet(q) \ ({q[1]} \cup merged)
                       /\ merged \subseteq ToSet(q) \ {q[1]}

(* A sequence holds its head and what its tail holds.                      *)
LEMMA HeadAndTail ==
  ASSUME NEW S, NEW q \in Seq(S), q # <<>>
  PROVE  ToSet(q) = {Head(q)} \cup ToSet(Tail(q))
<1>1. /\ Len(q) \in Nat \ {0} /\ DOMAIN q = 1 .. Len(q) /\ Head(q) = q[1]
      /\ DOMAIN Tail(q) = 1 .. Len(q) - 1
      /\ \A i \in DOMAIN Tail(q) : Tail(q)[i] = q[i + 1]
  OBVIOUS
<1>2. 1 \in DOMAIN q /\ \A i \in DOMAIN Tail(q) : i + 1 \in DOMAIN q
  BY <1>1
<1>3. \A i \in DOMAIN q : i # 1 => i - 1 \in DOMAIN Tail(q) /\ q[i] = Tail(q)[i - 1]
  BY <1>1
<1>4. \A x \in ToSet(Tail(q)) \cup {Head(q)} : x \in ToSet(q)
  BY <1>1, <1>2 DEF ToSet
<1>5. ASSUME NEW i \in DOMAIN q PROVE q[i] \in {Head(q)} \cup ToSet(Tail(q))
  <2>1. CASE i = 1
    BY <1>1, <2>1
  <2>2. CASE i # 1
    BY <1>3, <2>2 DEF ToSet
  <2> QED BY <2>1, <2>2
<1>6. \A x \in ToSet(q) : x \in {Head(q)} \cup ToSet(Tail(q))
  BY <1>5 DEF ToSet
<1> QED BY <1>4, <1>6

(* startNextQueuedTurn, as a change of each variable, whatever batch the   *)
(* policy takes.                                                           *)
LEMMA StartNextShape ==
  ASSUME TypeOK, NEW q \in Seq(Turns), q # <<>>, NEW pol, NEW stg, NEW ev,
         NEW tm, StartNext(q, pol, stg, ev, tm)
  PROVE  \E merged \in SUBSET Turns : Starts(q, stg, ev, tm, merged)
<1> DEFINE batch  == TakeReady(q, pol)
           merged == ToSet(Tail(batch))
           rest   == SubSeq(q, Len(batch) + 1, Len(q))
<1>1. /\ status' = "running" /\ current' = Head(batch)
      /\ pending' = rest
      /\ stage' = [stg EXCEPT ![Head(batch)] = "starting"]
      /\ prompt' = [prompt EXCEPT ![Head(batch)] = batch]
      /\ Finish(merged, [t \in Turns |-> "coalesced"], ev)
      /\ timer' = tm \ merged
  BY DEF StartNext
<1>2. /\ batch \in Seq(Turns) /\ Head(batch) = q[1]
      /\ q[1] \in Turns /\ q[1] \in ToSet(q)
      /\ merged \subseteq Turns /\ rest \in Seq(Turns)
      /\ IsInjective(q) => /\ IsInjective(rest)
                           /\ ToSet(rest) = ToSet(q) \ ({q[1]} \cup merged)
                           /\ merged \subseteq ToSet(q) \ {q[1]}
  BY TakeReadyShape
<1> HIDE DEF batch, merged, rest
<1>3. prompt' \in [Turns -> Seq(Turns)]
  BY <1>1, <1>2 DEF TypeOK
<1>4. ToSet(batch) = {q[1]} \cup merged
  <2>1. batch # <<>>
    BY DEF batch, TakeReady
  <2> QED BY <1>2, <2>1, HeadAndTail DEF merged
<1>5. \A t \in Turns : ToSet(prompt'[t]) = IF t = q[1] THEN {t} \cup merged
                                           ELSE ToSet(prompt[t])
  BY <1>1, <1>2, <1>4 DEF TypeOK
<1>6. Starts(q, stg, ev, tm, merged)
  BY <1>1, <1>2, <1>3, <1>5 DEF Starts
<1> QED
  BY <1>2, <1>6

(* Giving turns their terminal event keeps the types.                      *)
LEMMA FinishType ==
  ASSUME TypeOK, NEW S \in SUBSET Turns, NEW res \in [Turns -> Outcomes],
         NEW ev \in [Turns -> Seq(EventKinds)], Finish(S, res, ev)
  PROVE  /\ outcome' \in [Turns -> Outcomes \cup {"none"}]
         /\ events' \in [Turns -> Seq(EventKinds)]
         /\ closedStreams' \subseteq Turns
<1>1. /\ outcome \in [Turns -> Outcomes \cup {"none"}]
      /\ closedStreams \subseteq Turns
  BY DEF TypeOK
<1>2. \A t \in Turns : Append(ev[t], res[t]) \in Seq(EventKinds)
  BY DEF EventKinds
<1> QED
  BY <1>1, <1>2 DEF Finish

(* Starting the next turn keeps the types.                                 *)
LEMMA StartNextType ==
  ASSUME TypeOK, NEW q \in Seq(Turns), q # <<>>, NEW pol,
         NEW stg \in [Turns -> Stages], NEW ev \in [Turns -> Seq(EventKinds)],
         NEW tm \in SUBSET Turns, StartNext(q, pol, stg, ev, tm)
  PROVE  /\ status' \in Statuses /\ current' \in Turns
         /\ pending' \in Seq(Turns) /\ stage' \in [Turns -> Stages]
         /\ prompt' \in [Turns -> Seq(Turns)]
         /\ outcome' \in [Turns -> Outcomes \cup {"none"}]
         /\ events' \in [Turns -> Seq(EventKinds)]
         /\ closedStreams' \subseteq Turns /\ timer' \subseteq Turns
<1>1. PICK merged \in SUBSET Turns : Starts(q, stg, ev, tm, merged)
  BY StartNextShape
<1>2. [t \in Turns |-> "coalesced"] \in [Turns -> Outcomes]
  BY DEF Outcomes
<1>3. /\ outcome' \in [Turns -> Outcomes \cup {"none"}]
      /\ events' \in [Turns -> Seq(EventKinds)]
      /\ closedStreams' \subseteq Turns
  BY <1>1, <1>2, FinishType DEF Starts
<1> QED
  BY <1>1, <1>3 DEF Starts, Statuses, Stages

(* Writing to the agent keeps the wire well-formed.                        *)
LEMMA WriteType ==
  ASSUME TypeOK, NEW kind, NEW t, [kind |-> kind, turn |-> t] \in Messages,
         Write(kind, t)
  PROVE  wire' \in Seq(Messages)
BY DEF TypeOK, Write

(* The messages the driver writes are messages.                            *)
LEMMA SingleMessages ==
  /\ \A t \in Turns : [kind |-> "prompt", turn |-> t] \in Messages
  /\ \A k \in {"cancel", "close", "control"} :
       [kind |-> k, turn |-> NoTurn] \in Messages
BY DEF Messages

-----------------------------------------------------------------------------
(* Type correctness.                                                       *)

(* The types hold at the start.                                            *)
LEMMA InitType == Init => TypeOK
BY ConstantsAssumption
   DEF Init, TypeOK, Statuses, Policies, Stages, Outcomes, EventKinds, Messages

(* Every step keeps the types.                                             *)
LEMMA StepType == TypeOK /\ [Next]_vars => TypeOK'
<1> SUFFICES ASSUME TypeOK, [Next]_vars
             PROVE  TypeOK'
  OBVIOUS
<1> USE DEF queueVars, streamVars, agentVars
<1>1. ASSUME NEW t \in Turns, NEW timed \in BOOLEAN, StartTurn(t, timed)
      PROVE  TypeOK'
  <2> DEFINE q   == Append(pending, t)
             stg == [stage EXCEPT ![t] = "queued"]
             ev  == [events EXCEPT ![t] = Append(@, "queued")]
             tm  == IF timed THEN timer \cup {t} ELSE timer
  <2>1. /\ q \in Seq(Turns) /\ q # <<>> /\ stg \in [Turns -> Stages]
        /\ ev \in [Turns -> Seq(EventKinds)] /\ tm \in SUBSET Turns
    BY AppendShape DEF TypeOK, Stages, EventKinds
  <2>2. /\ status' \in Statuses /\ current' \in Turns \cup {NoTurn}
        /\ pending' \in Seq(Turns) /\ stage' \in [Turns -> Stages]
        /\ prompt' \in [Turns -> Seq(Turns)]
        /\ outcome' \in [Turns -> Outcomes \cup {"none"}]
        /\ events' \in [Turns -> Seq(EventKinds)]
        /\ closedStreams' \subseteq Turns /\ timer' \subseteq Turns
    <3>1. CASE current = NoTurn
      <4>1. StartNext(q, policy, stg, ev, tm)
        BY <1>1, <3>1 DEF StartTurn, OpenCall, CanStart
      <4> HIDE DEF q, stg, ev, tm
      <4> QED BY <2>1, <4>1, StartNextType
    <3>2. CASE current # NoTurn
      <4>1. /\ pending' = q /\ stage' = stg /\ events' = ev /\ timer' = tm
            /\ UNCHANGED <<status, current, prompt, outcome, closedStreams>>
        BY <1>1, <3>2 DEF StartTurn, OpenCall, CanStart
      <4> HIDE DEF q, stg, ev, tm
      <4> QED BY <2>1, <4>1 DEF TypeOK
    <3> QED BY <3>1, <3>2
  <2>3. arrived' \in Seq(Turns)
    BY <1>1 DEF StartTurn, OpenCall, CanStart, TypeOK
  <2> QED BY <1>1, <2>2, <2>3 DEF StartTurn, OpenCall, CanStart, TypeOK
<1>2. ASSUME NEW t \in Turns, SendPrompt(t)
      PROVE  TypeOK'
  <2>1. wire' \in Seq(Messages)
    BY <1>2, WriteType, SingleMessages DEF SendPrompt
  <2>2. /\ stage' \in [Turns -> Stages] /\ sent' \in Seq(Turns)
        /\ events' \in [Turns -> Seq(EventKinds)]
    BY <1>2 DEF SendPrompt, TypeOK, Stages, EventKinds
  <2> QED BY <1>2, <2>1, <2>2 DEF SendPrompt, TypeOK
<1>3. ASSUME NEW t \in Turns, CancelTurn(t)
      PROVE  TypeOK'
  <2>1. wire' \in Seq(Messages)
    BY <1>3, WriteType, SingleMessages DEF CancelTurn, CancelCurrent
  <2> QED BY <1>3, <2>1 DEF CancelTurn, CancelCurrent, TypeOK
<1>4. ASSUME NEW t \in Turns, SendQueuedTurnNow(t)
      PROVE  TypeOK'
  <2> DEFINE q == <<t>> \o Without(pending, t)
             r == <<t>> \o (IF t \in ToSet(promoted) THEN Without(promoted, t)
                            ELSE promoted)
  <2>1. q \in Seq(Turns) /\ q # <<>>
    BY <1>4, WithoutShape, UnshiftShape DEF SendQueuedTurnNow, ToFront, IsPending, TypeOK
  <2>2. r \in Seq(Turns)
    BY WithoutShape, UnshiftShape DEF TypeOK
  <2>3. promoted' = r
    BY <1>4 DEF SendQueuedTurnNow, ToFront
  <2>4. CASE ~CanStart
    <3>1. pending' = q /\ UNCHANGED <<status, current, stage, prompt, streamVars, timer>>
      BY <1>4, <2>4 DEF SendQueuedTurnNow, ToFront
    <3>2. wire' \in Seq(Messages)
          /\ cancelRequested' \subseteq Turns /\ asked' \subseteq Turns
      <4>1. CASE current # NoTurn
        <5>1. CancelCurrent(current)
          BY <1>4, <4>1 DEF SendQueuedTurnNow
        <5> QED BY <4>1, <5>1, WriteType, SingleMessages DEF CancelCurrent, TypeOK
      <4>2. CASE current = NoTurn
        BY <1>4, <4>2 DEF SendQueuedTurnNow, TypeOK
      <4> QED BY <4>1, <4>2
    <3> HIDE DEF q, r
    <3> QED BY <1>4, <2>1, <2>2, <2>3, <3>1, <3>2
            DEF SendQueuedTurnNow, TypeOK
  <2>5. CASE CanStart
    <3>1. StartNext(q, policy, stage, events, timer)
          /\ UNCHANGED <<cancelRequested, wire, asked>>
      BY <1>4, <2>5 DEF SendQueuedTurnNow, ToFront, CanStart
    <3> HIDE DEF q, r
    <3>2. stage \in [Turns -> Stages] /\ events \in [Turns -> Seq(EventKinds)]
          /\ timer \in SUBSET Turns
      BY DEF TypeOK
    <3>3. /\ status' \in Statuses /\ current' \in Turns
          /\ pending' \in Seq(Turns) /\ stage' \in [Turns -> Stages]
          /\ prompt' \in [Turns -> Seq(Turns)]
          /\ outcome' \in [Turns -> Outcomes \cup {"none"}]
          /\ events' \in [Turns -> Seq(EventKinds)]
          /\ closedStreams' \subseteq Turns /\ timer' \subseteq Turns
      BY <2>1, <3>1, <3>2, StartNextType
    <3> QED BY <1>4, <2>2, <2>3, <3>1, <3>3 DEF SendQueuedTurnNow, ToFront, TypeOK
  <2> QED BY <2>4, <2>5
<1>5. ASSUME NEW t \in Turns, WithdrawQueuedTurn(t)
      PROVE  TypeOK'
  <2>1. Withdraw({t}, Without(pending, t))
    BY <1>5 DEF WithdrawQueuedTurn
  <2>2. Without(pending, t) \in Seq(Turns)
    BY <1>5, WithoutShape DEF WithdrawQueuedTurn, IsPending, TypeOK
  <2>3. /\ outcome' \in [Turns -> Outcomes \cup {"none"}]
        /\ events' \in [Turns -> Seq(EventKinds)]
        /\ closedStreams' \subseteq Turns
    BY <2>1, FinishType DEF Withdraw, FinishAs, Outcomes, TypeOK
  <2> QED BY <2>1, <2>2, <2>3 DEF Withdraw, TypeOK
<1>6. ASSUME ClearQueuedTurns
      PROVE  TypeOK'
  <2>1. Withdraw(ToSet(pending), <<>>)
    BY <1>6 DEF ClearQueuedTurns
  <2>2. ToSet(pending) \in SUBSET Turns
    BY DEF ToSet, TypeOK
  <2>3. /\ outcome' \in [Turns -> Outcomes \cup {"none"}]
        /\ events' \in [Turns -> Seq(EventKinds)]
        /\ closedStreams' \subseteq Turns
    BY <2>1, <2>2, FinishType DEF Withdraw, FinishAs, Outcomes, TypeOK
  <2> QED BY <2>1, <2>2, <2>3 DEF Withdraw, TypeOK
<1>7. ASSUME NEW pol \in Policies, SetQueuePolicy(pol)
      PROVE  TypeOK'
  <2>1. CASE status # "closed" /\ current = NoTurn /\ pending # <<>>
    <3>1. StartNext(pending, pol, stage, events, timer)
      BY <1>7, <2>1 DEF SetQueuePolicy, CanStart
    <3>2. /\ stage \in [Turns -> Stages] /\ events \in [Turns -> Seq(EventKinds)]
          /\ timer \in SUBSET Turns /\ pending \in Seq(Turns)
      BY DEF TypeOK
    <3>3. /\ status' \in Statuses /\ current' \in Turns
          /\ pending' \in Seq(Turns) /\ stage' \in [Turns -> Stages]
          /\ prompt' \in [Turns -> Seq(Turns)]
          /\ outcome' \in [Turns -> Outcomes \cup {"none"}]
          /\ events' \in [Turns -> Seq(EventKinds)]
          /\ closedStreams' \subseteq Turns /\ timer' \subseteq Turns
      BY <2>1, <3>1, <3>2, StartNextType
    <3> QED BY <1>7, <3>3 DEF SetQueuePolicy, CanStart, TypeOK
  <2>2. CASE ~(status # "closed" /\ current = NoTurn /\ pending # <<>>)
    BY <1>7, <2>2 DEF SetQueuePolicy, CanStart, TypeOK
  <2> QED BY <2>1, <2>2
<1>8. ASSUME ControlOperation
      PROVE  TypeOK'
  <2>1. wire' \in Seq(Messages)
    BY <1>8, WriteType, SingleMessages DEF ControlOperation, OpenCall
  <2> QED BY <1>8, <2>1 DEF ControlOperation, OpenCall, TypeOK
<1>9. ASSUME Close
      PROVE  TypeOK'
  <2> DEFINE S == ({current} \ {NoTurn}) \cup ToSet(pending)
             res == [t \in Turns |-> IF t = current THEN "cancelled"
                                                    ELSE "withdrawn"]
  <2>1. S \in SUBSET Turns /\ res \in [Turns -> Outcomes]
    BY DEF ToSet, TypeOK, Outcomes
  <2>2. Finish(S, res, events)
    BY <1>9 DEF Close, OpenCall
  <2>3. events \in [Turns -> Seq(EventKinds)]
    BY DEF TypeOK
  <2> HIDE DEF res
  <2>4. /\ outcome' \in [Turns -> Outcomes \cup {"none"}]
        /\ events' \in [Turns -> Seq(EventKinds)]
        /\ closedStreams' \subseteq Turns
    BY <2>1, <2>2, <2>3, FinishType
  <2>5. wire' \in Seq(Messages)
    BY <1>9, WriteType, SingleMessages DEF Close, OpenCall
  <2>6. /\ status' = "closed" /\ current' = NoTurn /\ pending' = <<>>
        /\ cancelRequested' = cancelRequested \cup S /\ timer' = timer \ S
    BY <1>9 DEF Close, OpenCall
  <2>7. UNCHANGED <<policy, stage, prompt, timedOut, denied, working, answer,
                    connected, arrived, promoted, asked, sent, hit>>
    BY <1>9 DEF Close, OpenCall
  <2> QED BY <2>1, <2>4, <2>5, <2>6, <2>7 DEF TypeOK, Statuses
<1>10. ASSUME NEW t \in Turns, StreamEnd(t)
       PROVE  TypeOK'
  <2>1. ASSUME FinishAs({t}, "withdrawn") \/ FinishAs({t}, "cancelled")
        PROVE  /\ outcome' \in [Turns -> Outcomes \cup {"none"}]
               /\ events' \in [Turns -> Seq(EventKinds)]
               /\ closedStreams' \subseteq Turns
    BY <2>1, FinishType DEF FinishAs, Outcomes, TypeOK
  <2>2. ASSUME CancelCurrent(t)
        PROVE  wire' \in Seq(Messages)
    BY <2>2, WriteType, SingleMessages DEF CancelCurrent
  <2>3. CASE stage[t] = "queued" /\ IsPending(t)
    <3>1. Without(pending, t) \in Seq(Turns)
      BY <2>3, WithoutShape DEF IsPending, TypeOK
    <3> QED BY <1>10, <2>1, <2>3, <3>1 DEF StreamEnd, TypeOK
  <2>4. CASE stage[t] = "queued" /\ ~IsPending(t)
    BY <1>10, <2>4 DEF StreamEnd, TypeOK
  <2>5. CASE stage[t] # "queued" /\ current = t /\ outcome[t] = "none"
    BY <1>10, <2>1, <2>2, <2>5 DEF StreamEnd, CancelCurrent, TypeOK
  <2>6. CASE stage[t] # "queued" /\ ~(current = t /\ outcome[t] = "none")
    BY <1>10, <2>6 DEF StreamEnd, TypeOK
  <2> QED BY <2>3, <2>4, <2>5, <2>6
<1>11. ASSUME NEW t \in Turns, TimerFires(t)
       PROVE  TypeOK'
  <2>1. ASSUME FinishAs({t}, "timedOut")
        PROVE  /\ outcome' \in [Turns -> Outcomes \cup {"none"}]
               /\ events' \in [Turns -> Seq(EventKinds)]
               /\ closedStreams' \subseteq Turns
    BY <2>1, FinishType DEF FinishAs, Outcomes, TypeOK
  <2>2. ASSUME CancelCurrent(t)
        PROVE  wire' \in Seq(Messages)
    BY <2>2, WriteType, SingleMessages DEF CancelCurrent
  <2>3. CASE current = t
    BY <1>11, <2>1, <2>2, <2>3 DEF TimerFires, CancelCurrent, TypeOK
  <2>4. CASE current # t /\ IsPending(t)
    <3>1. Without(pending, t) \in Seq(Turns)
      BY <2>4, WithoutShape DEF IsPending, TypeOK
    <3> QED BY <1>11, <2>1, <2>4, <3>1 DEF TimerFires, TypeOK
  <2>5. CASE current # t /\ ~IsPending(t)
    BY <1>11, <2>5 DEF TimerFires, TypeOK
  <2> QED BY <2>3, <2>4, <2>5
<1>12. ASSUME NEW t \in Turns, DenyPermission(t)
       PROVE  TypeOK'
  BY <1>12 DEF DenyPermission, TypeOK
<1>13. ASSUME NEW t \in Turns, PromptReturns(t)
       PROVE  TypeOK'
  <2>1. \A a : Result(t, a) \in Outcomes
    BY DEF Result, Outcomes
  <2>2. ASSUME NEW r \in Outcomes, FinishAs({t}, r)
        PROVE  /\ outcome' \in [Turns -> Outcomes \cup {"none"}]
               /\ events' \in [Turns -> Seq(EventKinds)]
               /\ closedStreams' \subseteq Turns
    BY <2>2, FinishType DEF FinishAs, TypeOK
  <2>3. /\ outcome' \in [Turns -> Outcomes \cup {"none"}]
        /\ events' \in [Turns -> Seq(EventKinds)]
        /\ closedStreams' \subseteq Turns
    <3>1. CASE outcome[t] = "none"
      <4>1. PICK a : FinishAs({t}, Result(t, a))
        BY <1>13, <3>1 DEF PromptReturns
      <4> QED BY <2>1, <2>2, <4>1
    <3>2. CASE outcome[t] # "none"
      BY <1>13, <3>2 DEF PromptReturns, TypeOK
    <3> QED BY <3>1, <3>2
  <2>4. stage' \in [Turns -> Stages] /\ answer' \in [Turns -> Answers \cup {"none"}]
    BY <1>13 DEF PromptReturns, TypeOK, Stages
  <2>5. UNCHANGED <<status, policy, pending, current, prompt, cancelRequested,
                    timedOut, denied, timer, wire, working, connected, arrived,
                    promoted, asked, sent, hit>>
    BY <1>13 DEF PromptReturns
  <2> QED BY <2>3, <2>4, <2>5 DEF TypeOK
<1>14. ASSUME NEW t \in Turns, TurnSettles(t)
       PROVE  TypeOK'
  <2> DEFINE stg == [stage EXCEPT ![t] = "finished"]
  <2>1. stg \in [Turns -> Stages]
    BY DEF TypeOK, Stages
  <2>2. CASE status # "closed" /\ current \in {t, NoTurn} /\ pending # <<>>
    <3>1. StartNext(pending, policy, stg, events, timer)
      BY <1>14, <2>2 DEF TurnSettles
    <3>2. /\ events \in [Turns -> Seq(EventKinds)]
          /\ timer \in SUBSET Turns /\ pending \in Seq(Turns)
      BY DEF TypeOK
    <3> HIDE DEF stg
    <3>3. /\ status' \in Statuses /\ current' \in Turns
          /\ pending' \in Seq(Turns) /\ stage' \in [Turns -> Stages]
          /\ prompt' \in [Turns -> Seq(Turns)]
          /\ outcome' \in [Turns -> Outcomes \cup {"none"}]
          /\ events' \in [Turns -> Seq(EventKinds)]
          /\ closedStreams' \subseteq Turns /\ timer' \subseteq Turns
      BY <2>1, <2>2, <3>1, <3>2, StartNextType
    <3> QED BY <1>14, <3>3 DEF TurnSettles, TypeOK
  <2>3. CASE ~(status # "closed" /\ current \in {t, NoTurn} /\ pending # <<>>)
    BY <1>14, <2>1, <2>3 DEF TurnSettles, TypeOK, Statuses
  <2> QED BY <2>2, <2>3
<1>15. ASSUME AgentReceives
       PROVE  TypeOK'
  <2>1. Head(wire) \in Messages /\ wire' \in Seq(Messages)
    BY <1>15 DEF AgentReceives, TypeOK
  <2>2. Head(wire).kind = "prompt" => Head(wire).turn \in Turns
    BY <2>1 DEF Messages
  <2> QED BY <1>15, <2>1, <2>2 DEF AgentReceives, TypeOK
<1>16. ASSUME NEW t \in Turns, NEW a \in Answers, AgentAnswers(t, a)
       PROVE  TypeOK'
  BY <1>16 DEF AgentAnswers, TypeOK
<1>17. ASSUME Dispose \/ LoseConnection
       PROVE  TypeOK'
  <2>1. /\ connected' = FALSE /\ wire' = <<>> /\ working' = {}
        /\ UNCHANGED <<queueVars, streamVars, cancelRequested, timedOut, denied,
                       timer, answer, arrived, promoted, asked, sent, hit>>
    BY <1>17 DEF Dispose, LoseConnection, Disconnect
  <2>2. <<>> \in Seq(Messages)
    OBVIOUS
  <2> QED BY <2>1, <2>2 DEF TypeOK
<1>18. ASSUME UNCHANGED vars
       PROVE  TypeOK'
  <2>1. /\ UNCHANGED <<status, policy, pending, current, stage, prompt, outcome,
                       events, closedStreams, cancelRequested, timedOut, denied>>
        /\ UNCHANGED <<timer, wire, working, answer, connected, arrived,
                       promoted, asked, sent, hit>>
    BY <1>18 DEF vars
  <2> QED BY <2>1 DEF TypeOK
<1>19. ASSUME Next
       PROVE  TypeOK'
  BY <1>1, <1>2, <1>3, <1>4, <1>5, <1>6, <1>7, <1>8, <1>9, <1>10, <1>11, <1>12,
     <1>13, <1>14, <1>15, <1>16, <1>17, <1>19, Zenon DEF Next
<1> QED
  BY <1>18, <1>19

(* Every variable of SessionDriver keeps its type.                         *)
THEOREM TypeCorrect == Spec => []TypeOK
BY InitType, StepType, PTL DEF Spec

-----------------------------------------------------------------------------
(* The inductive invariant.                                                *)

(* A terminal event marks its turn over and closes its stream, once.       *)
LEMMA FinishOver ==
  ASSUME TypeOK, closedStreams = {t \in Turns : outcome[t] # "none"},
         NEW S \in SUBSET Turns, NEW res \in [Turns -> Outcomes], NEW ev,
         Finish(S, res, ev)
  PROVE  /\ closedStreams' = {t \in Turns : outcome'[t] # "none"}
         /\ \A t \in Turns :
              /\ outcome'[t] # "none" <=> t \in S \/ outcome[t] # "none"
              /\ outcome[t] # "none" => outcome'[t] = outcome[t]
              /\ t \in S /\ outcome[t] = "none" => outcome'[t] = res[t]
              /\ t \notin S => outcome'[t] = outcome[t]
<1>1. \A t \in Turns : outcome'[t] = IF t \in S /\ outcome[t] = "none"
                                     THEN res[t] ELSE outcome[t]
  BY DEF Finish
<1>2. \A t \in Turns : res[t] # "none"
  BY DEF Outcomes
<1>3. closedStreams' = closedStreams \cup S
  BY DEF Finish
<1>4. \A t \in Turns : outcome'[t] # "none" <=> t \in S \/ outcome[t] # "none"
  BY <1>1, <1>2
<1>5. closedStreams' = {t \in Turns : outcome'[t] # "none"}
  BY <1>3, <1>4
<1> QED BY <1>1, <1>4, <1>5

(* startNextQueuedTurn on an open session where nothing runs.              *)
LEMMA StartNextInv ==
  ASSUME TypeOK, NEW q \in Seq(Turns), q # <<>>, IsInjective(q), NEW pol,
         NEW stg \in [Turns -> Stages], NEW ev, NEW tm,
         \A t \in Turns : t \in ToSet(q) <=> stg[t] = "queued" /\ outcome[t] = "none",
         \A t \in Turns : stg[t] \notin Running,
         \A t \in Turns : stg[t] = "none" => outcome[t] = "none",
         \A t \in Turns : stg[t] = "finished" => outcome[t] # "none",
         closedStreams = {t \in Turns : outcome[t] # "none"},
         StartNext(q, pol, stg, ev, tm)
  PROVE  /\ RunnerOk' /\ QueueOk' /\ OutcomeOk'
         /\ \A t \in Turns : stage'[t] = stg[t] \/ stage'[t] = "starting"
<1>1. PICK merged \in SUBSET Turns : Starts(q, stg, ev, tm, merged)
  BY StartNextShape
<1> DEFINE lead == q[1]
<1>2. /\ lead \in ToSet(q) /\ lead \in Turns
      /\ status' = "running" /\ current' = lead
      /\ stage' = [stg EXCEPT ![lead] = "starting"]
      /\ pending' \in Seq(Turns) /\ IsInjective(pending')
      /\ ToSet(pending') = ToSet(q) \ ({lead} \cup merged)
      /\ merged \subseteq ToSet(q) \ {lead}
  BY <1>1 DEF Starts
<1>3. [t \in Turns |-> "coalesced"] \in [Turns -> Outcomes]
  BY DEF Outcomes
<1>4. /\ closedStreams' = {t \in Turns : outcome'[t] # "none"}
      /\ \A t \in Turns : outcome'[t] # "none" <=> t \in merged \/ outcome[t] # "none"
  BY <1>1, <1>3, FinishOver DEF Starts
<1> HIDE DEF lead
<1>5. \A t \in Turns : stage'[t] = IF t = lead THEN "starting" ELSE stg[t]
  BY <1>2
<1>6. lead # NoTurn
  BY <1>2, ConstantsAssumption
<1>7. RunnerOk'
  <2>1. \A t \in Turns : stage'[t] \in Running => t = lead
    BY <1>5
  <2>2. stage'[lead] \in Running
    BY <1>2, <1>5 DEF Running
  <2> QED BY <1>2, <1>6, <2>1, <2>2 DEF RunnerOk
<1>8. QueueOk'
  <2>1. ASSUME NEW t \in Turns
        PROVE  t \in ToSet(pending') <=> stage'[t] = "queued" /\ outcome'[t] = "none"
    BY <1>2, <1>4, <1>5
  <2> QED BY <1>2, <2>1 DEF QueueOk, IsPending
<1>9. OutcomeOk'
  <2>1. ASSUME NEW t \in Turns
        PROVE  /\ stage'[t] = "none" => outcome'[t] = "none"
               /\ stage'[t] \in {"settling", "finished"} => outcome'[t] # "none"
    BY <1>2, <1>4, <1>5 DEF Running
  <2> QED BY <1>2, <1>4, <2>1 DEF OutcomeOk
<1> QED BY <1>5, <1>7, <1>8, <1>9

(* What leaves the wire and the answers alone keeps WireOk, if no prompting*)
(* turn changes its stage.                                                 *)
LEMMA WireSame ==
  ASSUME WireOk, UNCHANGED <<wire, working, answer, connected>>,
         \A t \in Turns : stage[t] = "prompting" => stage'[t] = "prompting"
  PROVE  WireOk'
BY DEF WireOk, Outstanding, PromptOnWire

(* Writing anything but a prompt keeps WireOk.                             *)
LEMMA WriteOther ==
  ASSUME TypeOK, WireOk, UNCHANGED <<stage, working, answer, connected>>,
         NEW k \in {"cancel", "close", "control"}, Write(k, NoTurn)
  PROVE  WireOk'
<1> DEFINE m == [kind |-> k, turn |-> NoTurn]
<1>1. CASE ~connected
  BY <1>1, WireSame DEF Write
<1>2. CASE connected
  <2>1. wire' = Append(wire, m)
    BY <1>2 DEF Write
  <2>2. wire \in Seq(Messages) /\ m.kind = k /\ k # "prompt"
    BY DEF TypeOK
  <2> HIDE DEF m
  <2>3. /\ DOMAIN wire' = 1 .. Len(wire) + 1 /\ DOMAIN wire = 1 .. Len(wire)
        /\ \A i \in DOMAIN wire : wire'[i] = wire[i]
        /\ wire'[Len(wire) + 1] = m /\ Len(wire) \in Nat
    BY <2>1, <2>2
  <2>4. \A i \in DOMAIN wire' : wire'[i].kind = "prompt" =>
          i \in DOMAIN wire /\ wire'[i] = wire[i]
    BY <2>2, <2>3
  <2>5. \A t \in Turns : Outstanding(t)' => Outstanding(t)
    BY <2>4 DEF Outstanding
  <2> QED BY <1>2, <2>4, <2>5 DEF WireOk, PromptOnWire
<1> QED BY <1>1, <1>2

(* Turns in S, not running or not unsettled, leave the queue with a result *)
(* of their own; nothing is started.                                       *)
LEMMA DropInv ==
  ASSUME TypeOK, QueueOk, OutcomeOk, NEW S \in SUBSET Turns,
         S \subseteq ToSet(pending),
         IsInjective(pending'), ToSet(pending') = ToSet(pending) \ S,
         NEW r \in Outcomes, FinishAs(S, r), UNCHANGED <<stage, status>>
  PROVE  QueueOk' /\ OutcomeOk'
<1>1. [t \in Turns |-> r] \in [Turns -> Outcomes]
  OBVIOUS
<1>2. /\ closedStreams' = {t \in Turns : outcome'[t] # "none"}
      /\ \A t \in Turns : outcome'[t] # "none" <=> t \in S \/ outcome[t] # "none"
  BY <1>1, FinishOver DEF FinishAs, OutcomeOk
<1>3. \A t \in S : stage[t] = "queued"
  BY DEF QueueOk, IsPending
<1>4. QueueOk'
  BY <1>2 DEF QueueOk, IsPending
<1>5. OutcomeOk'
  BY <1>2, <1>3 DEF OutcomeOk
<1> QED BY <1>4, <1>5

(* A started turn gets its result; the queue is left alone.                *)
LEMMA EndInv ==
  ASSUME TypeOK, QueueOk, OutcomeOk, NEW t \in Turns, stage[t] \in Running,
         NEW r \in Outcomes, FinishAs({t}, r), UNCHANGED <<pending, status>>,
         stage' \in [Turns -> Stages], stage'[t] \in Running,
         \A u \in Turns : u # t => stage'[u] = stage[u]
  PROVE  QueueOk' /\ OutcomeOk'
<1>1. [u \in Turns |-> r] \in [Turns -> Outcomes]
  OBVIOUS
<1>2. /\ closedStreams' = {u \in Turns : outcome'[u] # "none"}
      /\ \A u \in Turns : outcome'[u] # "none" <=> u = t \/ outcome[u] # "none"
      /\ outcome \in [Turns -> Outcomes \cup {"none"}]
  <2>1. Finish({t}, [u \in Turns |-> r], events) /\ {t} \in SUBSET Turns
    BY DEF FinishAs
  <2>2. closedStreams = {u \in Turns : outcome[u] # "none"}
    BY DEF OutcomeOk
  <2>3. /\ closedStreams' = {u \in Turns : outcome'[u] # "none"}
        /\ \A u \in Turns : outcome'[u] # "none" <=> u \in {t} \/ outcome[u] # "none"
    BY <1>1, <2>1, <2>2, FinishOver
  <2> QED BY <2>3 DEF TypeOK
<1>3. QueueOk'
  BY <1>2 DEF QueueOk, IsPending, Running
<1>4. OutcomeOk'
  BY <1>2 DEF OutcomeOk, Running
<1> QED BY <1>3, <1>4

(* The invariant holds at the start.                                       *)
LEMMA InitInv == Init => IInv
<1> SUFFICES ASSUME Init PROVE IInv
  OBVIOUS
<1>1. TypeOK
  BY InitType
<1>2. RunnerOk /\ QueueOk /\ OutcomeOk
  BY DEF Init, RunnerOk, QueueOk, OutcomeOk, Running, IsPending, IsInjective, ToSet
<1>3. WireOk
  BY DEF Init, WireOk, Outstanding, PromptOnWire
<1> QED BY <1>1, <1>2, <1>3 DEF IInv

(* Every step keeps the invariant.                                         *)
LEMMA StepInv == IInv /\ [Next]_vars => IInv'
<1> SUFFICES ASSUME IInv, [Next]_vars
             PROVE  IInv'
  OBVIOUS
<1>0. TypeOK /\ RunnerOk /\ QueueOk /\ OutcomeOk /\ WireOk /\ TypeOK'
  BY StepType DEF IInv
<1> USE DEF queueVars, streamVars, agentVars
<1>1. ASSUME NEW t \in Turns, NEW timed \in BOOLEAN, StartTurn(t, timed)
      PROVE  IInv'
  <2> DEFINE q   == Append(pending, t)
             stg == [stage EXCEPT ![t] = "queued"]
             ev  == [events EXCEPT ![t] = Append(@, "queued")]
             tm  == IF timed THEN timer \cup {t} ELSE timer
  <2>1. stage[t] = "none" /\ status # "closed" /\ outcome[t] = "none"
    BY <1>0, <1>1 DEF StartTurn, OpenCall, CanStart, OutcomeOk
  <2>2. /\ q \in Seq(Turns) /\ q # <<>> /\ IsInjective(q)
        /\ ToSet(q) = ToSet(pending) \cup {t}
    <3>1. pending \in Seq(Turns) /\ IsInjective(pending) /\ t \notin ToSet(pending)
      BY <1>0, <2>1 DEF QueueOk, IsPending, TypeOK
    <3> QED BY <3>1, AppendShape
  <2>3. /\ stg \in [Turns -> Stages] /\ stg[t] = "queued"
        /\ \A u \in Turns : u # t => stg[u] = stage[u]
    BY <1>0 DEF TypeOK, Stages
  <2>4. UNCHANGED <<wire, working, answer, connected>>
    BY <1>1 DEF StartTurn, OpenCall, CanStart
  <2>5. CASE current = NoTurn
    <3>1. StartNext(q, policy, stg, ev, tm)
      BY <1>1, <2>5 DEF StartTurn, OpenCall, CanStart
    <3> HIDE DEF q, stg, ev, tm
    <3>2. \A u \in Turns : u \in ToSet(q) <=> stg[u] = "queued" /\ outcome[u] = "none"
      BY <1>0, <2>1, <2>2, <2>3 DEF QueueOk, IsPending
    <3>3. \A u \in Turns : stg[u] \notin Running
      BY <1>0, <2>1, <2>3, <2>5, ConstantsAssumption DEF RunnerOk, Running
    <3>4. /\ \A u \in Turns : stg[u] = "none" => outcome[u] = "none"
          /\ \A u \in Turns : stg[u] = "finished" => outcome[u] # "none"
          /\ closedStreams = {u \in Turns : outcome[u] # "none"}
      BY <1>0, <2>3 DEF OutcomeOk
    <3>5. /\ RunnerOk' /\ QueueOk' /\ OutcomeOk'
          /\ \A u \in Turns : stage'[u] = stg[u] \/ stage'[u] = "starting"
      BY <1>0, <2>2, <2>3, <3>1, <3>2, <3>3, <3>4, StartNextInv
    <3>6. \A u \in Turns : stage[u] # "prompting"
      BY <2>1, <2>3, <3>3 DEF Running
    <3>7. WireOk'
      BY <1>0, <2>4, <3>6, WireSame
    <3> QED BY <1>0, <3>5, <3>7 DEF IInv
  <2>6. CASE current # NoTurn
    <3>1. /\ pending' = q /\ stage' = stg
          /\ UNCHANGED <<status, current, outcome, closedStreams>>
      BY <1>1, <2>6 DEF StartTurn, OpenCall, CanStart
    <3> HIDE DEF q, stg, ev, tm
    <3>2. RunnerOk'
      BY <1>0, <2>1, <2>3, <2>6, <3>1 DEF RunnerOk, Running, TypeOK
    <3>3. QueueOk'
      BY <1>0, <2>1, <2>2, <2>3, <3>1 DEF QueueOk, IsPending
    <3>4. OutcomeOk'
      BY <1>0, <2>1, <2>3, <3>1 DEF OutcomeOk
    <3>5. WireOk'
      BY <1>0, <2>1, <2>3, <2>4, <3>1, WireSame
    <3> QED BY <1>0, <3>2, <3>3, <3>4, <3>5 DEF IInv
  <2> QED BY <2>5, <2>6
<1>2. ASSUME NEW t \in Turns, SendPrompt(t)
      PROVE  IInv'
  <2>1. /\ stage[t] = "starting" /\ stage' = [stage EXCEPT ![t] = "prompting"]
        /\ Write("prompt", t)
        /\ UNCHANGED <<status, pending, current, outcome, closedStreams,
                       working, answer, connected>>
    BY <1>2 DEF SendPrompt
  <2>2. /\ stage'[t] = "prompting"
        /\ \A u \in Turns : u # t => stage'[u] = stage[u]
    BY <1>0, <2>1 DEF TypeOK
  <2>3. RunnerOk'
    BY <1>0, <2>1, <2>2, ZenonT(60) DEF RunnerOk, Running, TypeOK
  <2>4. QueueOk' /\ OutcomeOk'
    BY <1>0, <2>1, <2>2 DEF QueueOk, OutcomeOk, IsPending
  <2>5. \A u \in Turns : ~Outstanding(u) /\ answer[u] = "none"
    BY <1>0, <2>1 DEF RunnerOk, Running, WireOk
  <2>6. working = {} /\ \A i \in DOMAIN wire : ~PromptOnWire(i)
    <3>1. ASSUME NEW i \in DOMAIN wire, PromptOnWire(i)
          PROVE  FALSE
      <4>1. wire[i] \in Messages /\ wire[i].kind = "prompt"
        BY <1>0, <3>1 DEF TypeOK, PromptOnWire
      <4>2. wire[i].turn \in Turns
            /\ wire[i] = [kind |-> "prompt", turn |-> wire[i].turn]
        BY <4>1 DEF Messages
      <4> QED BY <2>5, <4>2 DEF Outstanding
    <3> QED BY <1>0, <2>5, <3>1 DEF Outstanding, TypeOK
  <2>7. WireOk'
    <3>1. CASE ~connected
      <4>1. wire' = wire
        BY <2>1, <3>1 DEF Write
      <4> QED BY <1>0, <2>1, <2>2, <4>1, WireSame
    <3>2. CASE connected
      <4> DEFINE m == [kind |-> "prompt", turn |-> t]
      <4>1. wire' = Append(wire, m) /\ m.turn = t
        BY <2>1, <3>2 DEF Write
      <4> HIDE DEF m
      <4>2. /\ DOMAIN wire' = 1 .. Len(wire) + 1 /\ DOMAIN wire = 1 .. Len(wire)
            /\ \A i \in DOMAIN wire : wire'[i] = wire[i]
            /\ wire'[Len(wire) + 1] = m /\ Len(wire) \in Nat
        <5>1. wire \in Seq(Messages)
          BY <1>0 DEF TypeOK
        <5> QED BY <4>1, <5>1
      <4>3. \A i \in DOMAIN wire' : wire'[i].kind = "prompt" => i = Len(wire) + 1
        BY <2>6, <4>2 DEF PromptOnWire
      <4>4. ASSUME NEW u \in Turns, Outstanding(u)'
            PROVE  u = t
        BY <2>1, <2>6, <4>1, <4>2, <4>3, <4>4 DEF Outstanding, m
      <4> QED BY <2>1, <2>2, <2>5, <2>6, <3>2, <4>3, <4>4 DEF WireOk, PromptOnWire
    <3> QED BY <3>1, <3>2
  <2> QED BY <1>0, <2>3, <2>4, <2>7 DEF IInv
<1>3. ASSUME NEW t \in Turns, CancelTurn(t)
      PROVE  IInv'
  <2>1. /\ Write("cancel", NoTurn)
        /\ UNCHANGED <<queueVars, streamVars, working, answer, connected>>
    BY <1>3 DEF CancelTurn, CancelCurrent
  <2>2. WireOk'
    BY <1>0, <2>1, WriteOther
  <2>3. RunnerOk' /\ QueueOk' /\ OutcomeOk'
    BY <1>0, <2>1 DEF RunnerOk, QueueOk, OutcomeOk, IsPending
  <2> QED BY <1>0, <2>2, <2>3 DEF IInv
<1>4. ASSUME NEW t \in Turns, SendQueuedTurnNow(t)
      PROVE  IInv'
  <2> DEFINE q == <<t>> \o Without(pending, t)
  <2>1. current # NoTurn
    BY <1>0, <1>4 DEF SendQueuedTurnNow, CanStart, ToFront, IsPending, RunnerOk, ToSet
  <2>2. /\ pending' = q /\ Write("cancel", NoTurn)
        /\ UNCHANGED <<status, current, stage, streamVars, working, answer,
                       connected>>
        /\ t \in ToSet(pending)
    BY <1>4, <2>1 DEF SendQueuedTurnNow, CanStart, ToFront, CancelCurrent, IsPending
  <2>3. /\ Without(pending, t) \in Seq(Turns) /\ IsInjective(Without(pending, t))
        /\ ToSet(Without(pending, t)) = ToSet(pending) \ {t}
    BY <1>0, <2>2, WithoutShape DEF QueueOk, TypeOK
  <2>4. IsInjective(q) /\ ToSet(q) = ToSet(pending)
    <3> DEFINE w == Without(pending, t)
    <3>1. w \in Seq(Turns) /\ IsInjective(w) /\ ToSet(w) = ToSet(pending) \ {t}
      BY <2>3
    <3> HIDE DEF w
    <3>2. t \notin ToSet(w)
      BY <3>1
    <3>3. IsInjective(<<t>> \o w) /\ ToSet(<<t>> \o w) = ToSet(w) \cup {t}
      BY <3>1, <3>2, UnshiftShape
    <3>4. ToSet(w) \cup {t} = ToSet(pending)
      BY <2>2, <3>1
    <3> QED BY <3>3, <3>4 DEF w
  <2> HIDE DEF q
  <2>5. RunnerOk'
    BY <1>0, <2>1, <2>2 DEF RunnerOk
  <2>6. QueueOk' /\ OutcomeOk'
    BY <1>0, <2>2, <2>4 DEF QueueOk, OutcomeOk, IsPending
  <2>7. WireOk'
    BY <1>0, <2>2, WriteOther
  <2> QED BY <1>0, <2>5, <2>6, <2>7 DEF IInv
<1>5. ASSUME NEW S \in SUBSET Turns, NEW left, Withdraw(S, left),
             S \subseteq ToSet(pending), IsInjective(left),
             ToSet(left) = ToSet(pending) \ S, current = NoTurn => left = <<>>
      PROVE  IInv'
  <2>1. /\ pending' = left /\ FinishAs(S, "withdrawn")
        /\ UNCHANGED <<status, current, stage, wire, working, answer, connected>>
    BY <1>5 DEF Withdraw
  <2>2. RunnerOk'
    BY <1>0, <1>5, <2>1 DEF RunnerOk
  <2>3. QueueOk' /\ OutcomeOk'
    BY <1>0, <1>5, <2>1, DropInv DEF Outcomes
  <2>4. WireOk'
    BY <1>0, <2>1, WireSame
  <2> QED BY <1>0, <2>2, <2>3, <2>4 DEF IInv
<1>6. ASSUME NEW t \in Turns, WithdrawQueuedTurn(t)
      PROVE  IInv'
  <2>1. t \in ToSet(pending) /\ Withdraw({t}, Without(pending, t))
    BY <1>6 DEF WithdrawQueuedTurn, IsPending
  <2>2. /\ IsInjective(Without(pending, t))
        /\ ToSet(Without(pending, t)) = ToSet(pending) \ {t}
    BY <1>0, <2>1, WithoutShape DEF QueueOk, TypeOK
  <2>3. current # NoTurn
    BY <1>0, <2>1 DEF RunnerOk, ToSet
  <2> QED BY <1>5, <2>1, <2>2, <2>3
<1>7. ASSUME ClearQueuedTurns
      PROVE  IInv'
  <2>1. Withdraw(ToSet(pending), <<>>) /\ ToSet(pending) \in SUBSET Turns
    BY <1>0, <1>7 DEF ClearQueuedTurns, ToSet, TypeOK
  <2>2. IsInjective(<<>>) /\ ToSet(<<>>) = {}
    BY DEF IsInjective, ToSet
  <2> QED BY <1>5, <2>1, <2>2
<1>8. ASSUME NEW pol \in Policies, SetQueuePolicy(pol)
      PROVE  IInv'
  <2>1. ~(status # "closed" /\ current = NoTurn /\ pending # <<>>)
    BY <1>0 DEF RunnerOk
  <2>2. UNCHANGED <<status, pending, current, stage, streamVars, wire, working,
                    answer, connected>>
    BY <1>8, <2>1 DEF SetQueuePolicy, CanStart
  <2>3. RunnerOk' /\ QueueOk' /\ OutcomeOk'
    BY <1>0, <2>2 DEF RunnerOk, QueueOk, OutcomeOk, IsPending
  <2>4. WireOk'
    BY <1>0, <2>2, WireSame
  <2> QED BY <1>0, <2>3, <2>4 DEF IInv
<1>9. ASSUME ControlOperation
      PROVE  IInv'
  <2>1. /\ Write("control", NoTurn)
        /\ UNCHANGED <<queueVars, streamVars, working, answer, connected>>
    BY <1>9 DEF ControlOperation, OpenCall
  <2>2. WireOk'
    BY <1>0, <2>1, WriteOther
  <2>3. RunnerOk' /\ QueueOk' /\ OutcomeOk'
    BY <1>0, <2>1 DEF RunnerOk, QueueOk, OutcomeOk, IsPending
  <2> QED BY <1>0, <2>2, <2>3 DEF IInv
<1>10. ASSUME Close
       PROVE  IInv'
  <2> DEFINE S == ({current} \ {NoTurn}) \cup ToSet(pending)
             res == [t \in Turns |-> IF t = current THEN "cancelled"
                                                    ELSE "withdrawn"]
  <2>1. S \in SUBSET Turns /\ res \in [Turns -> Outcomes]
    BY <1>0, SMTT(40) DEF ToSet, TypeOK, Outcomes
  <2>2. /\ Finish(S, res, events) /\ Write("close", NoTurn)
        /\ status # "closed" /\ status' = "closed"
        /\ current' = NoTurn /\ pending' = <<>>
        /\ UNCHANGED <<stage, working, answer, connected>>
    BY <1>10 DEF Close, OpenCall
  <2>3. closedStreams = {t \in Turns : outcome[t] # "none"}
    BY <1>0 DEF OutcomeOk
  <2> HIDE DEF res
  <2>4. /\ closedStreams' = {t \in Turns : outcome'[t] # "none"}
        /\ \A t \in Turns : outcome'[t] # "none" <=> t \in S \/ outcome[t] # "none"
    BY <1>0, <2>1, <2>2, <2>3, FinishOver
  <2>5. \A t \in Turns : stage[t] \in Running \/ stage[t] = "queued"
                           => outcome'[t] # "none"
    <3>1. ASSUME NEW t \in Turns, stage[t] \in Running
          PROVE  t \in S
      BY <1>0, <2>2, <3>1, ConstantsAssumption DEF RunnerOk
    <3>2. ASSUME NEW t \in Turns, stage[t] = "queued", outcome[t] = "none"
          PROVE  t \in S
      BY <1>0, <3>2 DEF QueueOk, IsPending
    <3> QED BY <2>4, <3>1, <3>2
  <2>6. \A t \in Turns : stage[t] = "none" => outcome'[t] = "none"
    <3>1. ASSUME NEW t \in S
          PROVE  stage[t] # "none"
      <4>1. t \in Turns
        BY <2>1
      <4>2. CASE t = current /\ current # NoTurn
        BY <1>0, <4>2 DEF RunnerOk, Running
      <4>3. CASE t \in ToSet(pending)
        BY <1>0, <4>1, <4>3 DEF QueueOk, IsPending
      <4> QED BY <4>2, <4>3
    <3> QED BY <1>0, <2>4, <3>1 DEF OutcomeOk
  <2>7. RunnerOk'
    BY <1>0, <2>2 DEF RunnerOk
  <2>8. QueueOk'
    <3>1. IsInjective(<<>>) /\ ToSet(<<>>) = {}
      BY DEF IsInjective, ToSet
    <3> QED BY <2>2, <2>5, <3>1 DEF QueueOk, IsPending
  <2>9. OutcomeOk'
    <3>1. \A t \in Turns : stage[t] \in Stages
      BY <1>0 DEF TypeOK
    <3>2. \A t \in Turns : stage[t] \in {"settling", "finished"} => outcome'[t] # "none"
      BY <1>0, <2>4 DEF OutcomeOk
    <3>3. \A t \in Turns : stage[t] # "none" => outcome'[t] # "none"
      BY <2>5, <3>1, <3>2 DEF Stages, Running
    <3> QED BY <2>2, <2>4, <2>6, <3>2, <3>3 DEF OutcomeOk
  <2>10. WireOk'
    BY <1>0, <2>2, WriteOther
  <2> QED BY <1>0, <2>7, <2>8, <2>9, <2>10 DEF IInv
<1>11. ASSUME NEW t \in Turns, NEW r \in Outcomes, current = t, FinishAs({t}, r),
              Write("cancel", NoTurn),
              UNCHANGED <<status, pending, current, stage, working, answer,
                          connected>>
       PROVE  IInv'
  <2>1. stage[t] \in Running
    BY <1>0, <1>11, ConstantsAssumption DEF RunnerOk
  <2>2. QueueOk' /\ OutcomeOk'
    BY <1>0, <1>11, <2>1, EndInv DEF TypeOK
  <2>3. RunnerOk'
    BY <1>0, <1>11 DEF RunnerOk
  <2>4. WireOk'
    BY <1>0, <1>11, WriteOther
  <2> QED BY <1>0, <2>2, <2>3, <2>4 DEF IInv
<1>12. ASSUME NEW t \in Turns, NEW r \in Outcomes, t \in ToSet(pending),
              pending' = Without(pending, t), FinishAs({t}, r),
              UNCHANGED <<status, current, stage, wire, working, answer, connected>>
       PROVE  IInv'
  <2>1. IsInjective(pending') /\ ToSet(pending') = ToSet(pending) \ {t}
    BY <1>0, <1>12, WithoutShape, SMTT(40) DEF QueueOk, TypeOK
  <2>2. QueueOk' /\ OutcomeOk'
    BY <1>0, <1>12, <2>1, DropInv
  <2>3. current # NoTurn
    BY <1>0, <1>12 DEF RunnerOk, ToSet
  <2>4. RunnerOk'
    BY <1>0, <1>12, <2>3 DEF RunnerOk
  <2>5. WireOk'
    BY <1>0, <1>12, WireSame
  <2> QED BY <1>0, <2>2, <2>4, <2>5 DEF IInv
<1>13. ASSUME UNCHANGED <<status, pending, current, stage, outcome,
                          closedStreams, wire, working, answer, connected>>
       PROVE  IInv'
  <2>1. RunnerOk' /\ QueueOk' /\ OutcomeOk'
    BY <1>0, <1>13 DEF RunnerOk, QueueOk, OutcomeOk, IsPending
  <2>2. WireOk'
    BY <1>0, <1>13, WireSame
  <2> QED BY <1>0, <2>1, <2>2 DEF IInv
<1>14. ASSUME NEW t \in Turns, StreamEnd(t)
       PROVE  IInv'
  <2>1. CASE stage[t] = "queued" /\ IsPending(t)
    <3>1. /\ pending' = Without(pending, t) /\ FinishAs({t}, "withdrawn")
          /\ UNCHANGED <<status, current, stage, wire, working, answer, connected>>
      BY <1>14, <2>1 DEF StreamEnd
    <3> QED BY <1>12, <2>1, <3>1 DEF IsPending, Outcomes
  <2>2. CASE stage[t] = "queued" /\ ~IsPending(t)
    <3>1. /\ closedStreams' = closedStreams \cup {t}
          /\ UNCHANGED <<status, pending, current, stage, outcome, wire, working,
                         answer, connected>>
      BY <1>14, <2>2 DEF StreamEnd
    <3>2. t \in closedStreams
      BY <1>0, <2>2 DEF QueueOk, OutcomeOk
    <3>3. closedStreams' = closedStreams
      BY <3>1, <3>2
    <3> QED BY <1>13, <3>1, <3>3
  <2>3. CASE stage[t] # "queued" /\ current = t /\ outcome[t] = "none"
    <3>1. /\ FinishAs({t}, "cancelled") /\ Write("cancel", NoTurn)
          /\ UNCHANGED <<status, pending, current, stage, working, answer,
                         connected>>
      BY <1>14, <2>3 DEF StreamEnd, CancelCurrent
    <3> QED BY <1>11, <2>3, <3>1 DEF Outcomes
  <2>4. CASE stage[t] # "queued" /\ ~(current = t /\ outcome[t] = "none")
    BY <1>13, <1>14, <2>4 DEF StreamEnd
  <2> QED BY <2>1, <2>2, <2>3, <2>4
<1>15. ASSUME NEW t \in Turns, TimerFires(t)
       PROVE  IInv'
  <2>1. CASE current = t
    <3>1. /\ FinishAs({t}, "timedOut") /\ Write("cancel", NoTurn)
          /\ UNCHANGED <<status, pending, current, stage, working, answer,
                         connected>>
      BY <1>15, <2>1 DEF TimerFires, CancelCurrent
    <3> QED BY <1>11, <2>1, <3>1 DEF Outcomes
  <2>2. CASE current # t /\ IsPending(t)
    <3>1. /\ pending' = Without(pending, t) /\ FinishAs({t}, "timedOut")
          /\ UNCHANGED <<status, current, stage, wire, working, answer, connected>>
      BY <1>15, <2>2 DEF TimerFires
    <3> QED BY <1>12, <2>2, <3>1 DEF IsPending, Outcomes
  <2>3. CASE current # t /\ ~IsPending(t)
    BY <1>13, <1>15, <2>3 DEF TimerFires
  <2> QED BY <2>1, <2>2, <2>3
<1>16. ASSUME NEW t \in Turns, DenyPermission(t)
       PROVE  IInv'
  BY <1>13, <1>16 DEF DenyPermission
<1>17. ASSUME NEW t \in Turns, PromptReturns(t)
       PROVE  IInv'
  <2>1. /\ stage[t] = "prompting" /\ stage' = [stage EXCEPT ![t] = "settling"]
        /\ answer[t] # "none" \/ ~connected
        /\ answer' = [answer EXCEPT ![t] = "none"]
        /\ UNCHANGED <<status, pending, current, wire, working, connected>>
    BY <1>17 DEF PromptReturns
  <2>2. /\ stage'[t] = "settling" /\ answer'[t] = "none"
        /\ \A u \in Turns : u # t => stage'[u] = stage[u] /\ answer'[u] = answer[u]
    BY <1>0, <2>1 DEF TypeOK
  <2>3. stage[t] \in Running /\ stage'[t] \in Running
    BY <2>1, <2>2 DEF Running
  <2>4. RunnerOk'
    BY <1>0, <2>1, <2>2, <2>3 DEF RunnerOk
  <2>5. QueueOk' /\ OutcomeOk'
    <3>1. CASE outcome[t] = "none"
      <4>1. PICK a : FinishAs({t}, Result(t, a))
        BY <1>17, <3>1 DEF PromptReturns
      <4>2. Result(t, a) \in Outcomes
        BY DEF Result, Outcomes
      <4>3. stage' \in [Turns -> Stages]
        BY <1>0 DEF TypeOK
      <4> QED BY <1>0, <2>1, <2>2, <2>3, <4>1, <4>2, <4>3, EndInv
    <3>2. CASE outcome[t] # "none"
      <4>1. UNCHANGED <<outcome, closedStreams>>
        BY <1>17, <3>2 DEF PromptReturns
      <4>2. QueueOk'
        BY <1>0, <2>1, <2>2, <4>1 DEF QueueOk, IsPending
      <4>3. OutcomeOk'
        BY <1>0, <2>1, <2>2, <3>2, <4>1 DEF OutcomeOk
      <4> QED BY <4>2, <4>3
    <3> QED BY <3>1, <3>2
  <2>6. WireOk'
    <3>1. ~Outstanding(t)
      BY <1>0, <2>1 DEF WireOk, Outstanding
    <3>2. \A u \in Turns : Outstanding(u)' <=> Outstanding(u)
      BY <2>1 DEF Outstanding
    <3> QED BY <1>0, <2>1, <2>2, <3>1, <3>2 DEF WireOk, PromptOnWire
  <2> QED BY <1>0, <2>4, <2>5, <2>6 DEF IInv
<1>18. ASSUME NEW t \in Turns, TurnSettles(t)
       PROVE  IInv'
  <2> DEFINE stg == [stage EXCEPT ![t] = "finished"]
  <2>1. /\ stage[t] = "settling" /\ stg[t] = "finished"
        /\ stg \in [Turns -> Stages]
        /\ \A u \in Turns : u # t => stg[u] = stage[u]
    BY <1>0, <1>18 DEF TurnSettles, TypeOK, Stages
  <2>2. UNCHANGED <<wire, working, answer, connected>>
    BY <1>18 DEF TurnSettles
  <2>3. \A u \in Turns : stg[u] \notin Running
    BY <1>0, <2>1 DEF RunnerOk, Running
  <2>4. outcome[t] # "none"
    BY <1>0, <2>1 DEF OutcomeOk
  <2>5. CASE status # "closed" /\ current \in {t, NoTurn} /\ pending # <<>>
    <3>1. StartNext(pending, policy, stg, events, timer)
      BY <1>18, <2>5 DEF TurnSettles
    <3> HIDE DEF stg
    <3>2. pending \in Seq(Turns) /\ IsInjective(pending)
      BY <1>0 DEF TypeOK, QueueOk
    <3>3. \A u \in Turns : u \in ToSet(pending) <=> stg[u] = "queued" /\ outcome[u] = "none"
      BY <1>0, <2>1 DEF QueueOk, IsPending
    <3>4. /\ \A u \in Turns : stg[u] = "none" => outcome[u] = "none"
          /\ \A u \in Turns : stg[u] = "finished" => outcome[u] # "none"
          /\ closedStreams = {u \in Turns : outcome[u] # "none"}
      BY <1>0, <2>1, <2>4 DEF OutcomeOk
    <3>5. RunnerOk' /\ QueueOk' /\ OutcomeOk'
      BY <1>0, <2>1, <2>3, <2>5, <3>1, <3>2, <3>3, <3>4, StartNextInv
    <3>6. \A u \in Turns : stage[u] # "prompting"
      BY <2>1, <2>3 DEF Running
    <3>7. WireOk'
      BY <1>0, <2>2, <3>6, WireSame
    <3> QED BY <1>0, <3>5, <3>7 DEF IInv
  <2>6. CASE ~(status # "closed" /\ current \in {t, NoTurn} /\ pending # <<>>)
    <3>1. /\ stage' = stg
          /\ current' = IF current = t THEN NoTurn ELSE current
          /\ status' = IF status # "closed" /\ pending = <<>> THEN "ready" ELSE status
          /\ UNCHANGED <<pending, outcome, closedStreams>>
      BY <1>18, <2>6 DEF TurnSettles
    <3> HIDE DEF stg
    <3>2. status # "closed" => current = t /\ pending = <<>>
      BY <1>0, <2>1, <2>6 DEF RunnerOk, Running
    <3>3. status = "closed" => current = NoTurn /\ pending = <<>>
      BY <1>0 DEF RunnerOk
    <3>4. RunnerOk'
      BY <1>0, <2>3, <3>1, <3>2, <3>3 DEF RunnerOk, TypeOK, Statuses
    <3>5. QueueOk'
      BY <1>0, <2>1, <3>1 DEF QueueOk, IsPending
    <3>6. OutcomeOk'
      <4>1. status' = "closed" => status = "closed"
        BY <3>1
      <4> QED BY <1>0, <2>1, <2>4, <3>1, <4>1 DEF OutcomeOk
    <3>7. \A u \in Turns : stage[u] # "prompting"
      BY <2>1, <2>3 DEF Running
    <3>8. WireOk'
      BY <1>0, <2>2, <3>7, WireSame
    <3> QED BY <1>0, <3>4, <3>5, <3>6, <3>8 DEF IInv
  <2> QED BY <2>5, <2>6
<1>19. ASSUME UNCHANGED <<queueVars, streamVars>>, WireOk'
       PROVE  IInv'
  <2>1. RunnerOk' /\ QueueOk' /\ OutcomeOk'
    BY <1>0, <1>19 DEF RunnerOk, QueueOk, OutcomeOk, IsPending
  <2> QED BY <1>0, <1>19, <2>1 DEF IInv
<1>20. ASSUME AgentReceives
       PROVE  IInv'
  <2> DEFINE m == Head(wire)
  <2>1. /\ wire # <<>> /\ wire' = Tail(wire)
        /\ working' = IF m.kind = "prompt" THEN working \cup {m.turn} ELSE working
        /\ UNCHANGED <<queueVars, streamVars, answer, connected>>
    BY <1>20 DEF AgentReceives
  <2>2. wire \in Seq(Messages)
    BY <1>0 DEF TypeOK
  <2>3. /\ m = wire[1] /\ 1 \in DOMAIN wire /\ m \in Messages
        /\ DOMAIN wire' = 1 .. Len(wire) - 1 /\ DOMAIN wire = 1 .. Len(wire)
        /\ Len(wire) \in Nat
        /\ \A i \in DOMAIN wire' : i + 1 \in DOMAIN wire /\ wire'[i] = wire[i + 1]
    BY <2>1, <2>2
  <2> HIDE DEF m
  <2>4. m.kind = "prompt" => /\ m.turn \in Turns
                             /\ m = [kind |-> "prompt", turn |-> m.turn]
    BY <2>3 DEF Messages
  <2>5. \A t \in Turns : Outstanding(t)' => Outstanding(t)
    <3>1. ASSUME NEW t \in Turns, NEW i \in DOMAIN wire',
                 wire'[i] = [kind |-> "prompt", turn |-> t]
          PROVE  Outstanding(t)
      BY <2>3, <3>1 DEF Outstanding
    <3>2. ASSUME NEW t \in Turns, t \in working', t \notin working
          PROVE  Outstanding(t)
      BY <2>1, <2>3, <2>4, <3>2 DEF Outstanding
    <3> QED BY <3>1, <3>2 DEF Outstanding
  <2>6. \A i, j \in DOMAIN wire' : PromptOnWire(i)' /\ PromptOnWire(j)' => i = j
    <3>1. ASSUME NEW i \in DOMAIN wire', NEW j \in DOMAIN wire',
                 wire'[i].kind = "prompt", wire'[j].kind = "prompt"
          PROVE  i = j
      <4>1. i + 1 = j + 1
        BY <1>0, <2>3, <3>1 DEF WireOk, PromptOnWire
      <4> QED BY <2>3, <4>1
    <3> QED BY <3>1 DEF PromptOnWire
  <2>7. \A i \in DOMAIN wire' : PromptOnWire(i)' => working' = {}
    <3>1. ASSUME NEW i \in DOMAIN wire', wire'[i].kind = "prompt"
          PROVE  working' = {}
      <4>1. PromptOnWire(i + 1) /\ i + 1 \in DOMAIN wire /\ i + 1 # 1
        BY <2>3, <3>1 DEF PromptOnWire
      <4>2. m.kind # "prompt"
        BY <1>0, <2>3, <4>1 DEF WireOk, PromptOnWire
      <4> QED BY <1>0, <2>1, <4>1, <4>2 DEF WireOk
    <3> QED BY <3>1 DEF PromptOnWire
  <2>8. connected
    BY <1>0, <2>1 DEF WireOk
  <2>9. WireOk'
    BY <1>0, <2>1, <2>5, <2>6, <2>7, <2>8 DEF WireOk
  <2> QED BY <1>19, <2>1, <2>9
<1>21. ASSUME NEW t \in Turns, NEW a \in Answers, AgentAnswers(t, a)
       PROVE  IInv'
  <2>1. /\ t \in working /\ working' = working \ {t}
        /\ answer' = [answer EXCEPT ![t] = a]
        /\ UNCHANGED <<queueVars, streamVars, wire, connected>>
    BY <1>21 DEF AgentAnswers
  <2>2. \A u \in Turns : Outstanding(u)' => Outstanding(u)
    BY <2>1 DEF Outstanding
  <2>3. stage[t] = "prompting" /\ \A i \in DOMAIN wire : ~PromptOnWire(i)
    BY <1>0, <2>1 DEF WireOk, Outstanding
  <2>4. ~Outstanding(t)'
    BY <2>1, <2>3 DEF Outstanding, PromptOnWire
  <2>5. \A u \in Turns : u # t => answer'[u] = answer[u]
    BY <1>0, <2>1 DEF TypeOK
  <2>6. WireOk'
    BY <1>0, <2>1, <2>2, <2>3, <2>4, <2>5 DEF WireOk, PromptOnWire
  <2> QED BY <1>19, <2>1, <2>6
<1>22. ASSUME Dispose \/ LoseConnection
       PROVE  IInv'
  <2>1. /\ connected' = FALSE /\ wire' = <<>> /\ working' = {}
        /\ UNCHANGED <<queueVars, streamVars, answer>>
    BY <1>22 DEF Dispose, LoseConnection, Disconnect
  <2>2. WireOk'
    BY <1>0, <2>1 DEF WireOk, Outstanding, PromptOnWire
  <2> QED BY <1>19, <2>1, <2>2
<1>23. ASSUME UNCHANGED vars
       PROVE  IInv'
  BY <1>13, <1>23 DEF vars
<1>24. ASSUME Next
       PROVE  IInv'
  BY <1>1, <1>2, <1>3, <1>4, <1>6, <1>7, <1>8, <1>9, <1>10, <1>14, <1>15, <1>16,
     <1>17, <1>18, <1>20, <1>21, <1>22, <1>24, Zenon DEF Next
<1> QED
  BY <1>23, <1>24

(* The inductive invariant of the driver holds.                            *)
THEOREM Invariance == Spec => []IInv
BY InitInv, StepInv, PTL DEF Spec

-----------------------------------------------------------------------------
(* What the invariant gives.                                               *)

(* For any number of turns, a session has one active turn at a time and    *)
(* the agent one prompt (RFC 0002, section 6.1; startNextQueuedTurn and    *)
(* runQueuedTurn of driver.ts).                                            *)
THEOREM OneActiveTurnHolds == Spec => []OneActiveTurn
<1>1. IInv => OneActiveTurn
  <2> SUFFICES ASSUME IInv, NEW t \in Turns, NEW u \in Turns,
                      stage[t] \in Running \/ Outstanding(t),
                      stage[u] \in Running \/ Outstanding(u)
               PROVE  t = u
    BY DEF OneActiveTurn
  <2>1. stage[t] \in Running /\ stage[u] \in Running
    BY DEF IInv, WireOk, Running
  <2> QED BY <2>1 DEF IInv, RunnerOk
<1> QED
  BY <1>1, Invariance, PTL

(* The session never idles over a queued turn and says "ready" exactly     *)
(* when nothing runs, for any number of turns.                             *)
THEOREM NoStrandedTurnHolds == Spec => []NoStrandedTurn
<1>1. IInv => NoStrandedTurn
  BY DEF IInv, RunnerOk, NoStrandedTurn
<1> QED
  BY <1>1, Invariance, PTL

(* close settles every turn and ends every stream, for any number of       *)
(* running and queued turns and whatever its watchers do.                  *)
THEOREM ClosedSettlesHolds == Spec => []ClosedSettles
<1>1. IInv => ClosedSettles
  <2> SUFFICES ASSUME IInv, status = "closed"
               PROVE  ClosedSettles
    BY DEF ClosedSettles
  <2>1. current = NoTurn /\ pending = <<>>
    BY DEF IInv, RunnerOk
  <2> QED BY <2>1 DEF IInv, OutcomeOk, ClosedSettles
<1> QED
  BY <1>1, Invariance, PTL

-----------------------------------------------------------------------------
(* A cancel on the wire is for the prompt before it: whatever the agent    *)
(* works on when the cancel arrives was asked to stop.                     *)

CancelOk ==
  \A i \in DOMAIN wire, t \in Turns :
    /\ wire[i].kind = "cancel"
    /\ \/ t \in working
       \/ \E j \in DOMAIN wire : j < i /\ wire[j] = [kind |-> "prompt", turn |-> t]
    => t \in asked

CInv == CancelOk /\ CancelHitsOnlyAsked

(* A cancel of the current turn concerns a turn that was asked to stop.    *)
LEMMA WriteCancel ==
  ASSUME IInv, CInv, NEW t \in Turns, current = t, CancelCurrent(t),
         UNCHANGED <<working, hit>>
  PROVE  CInv'
<1>1. asked' = asked \cup {t} /\ wire \in Seq(Messages)
  BY DEF CancelCurrent, IInv, TypeOK
<1>2. \A u \in Turns : Outstanding(u) => u = t
  <2>1. \A u \in Turns : Outstanding(u) => stage[u] \in Running
    BY DEF IInv, WireOk, Running
  <2>2. stage[t] \in Running
    BY ConstantsAssumption DEF IInv, RunnerOk
  <2> QED BY <2>1, <2>2 DEF IInv, RunnerOk
<1>3. CASE ~connected
  <2>1. wire' = wire
    BY <1>3 DEF CancelCurrent, Write
  <2> QED BY <1>1, <2>1 DEF CInv, CancelOk, CancelHitsOnlyAsked
<1>4. CASE connected
  <2> DEFINE m == [kind |-> "cancel", turn |-> NoTurn]
  <2>1. wire' = Append(wire, m) /\ m.kind = "cancel"
    BY <1>4 DEF CancelCurrent, Write
  <2> HIDE DEF m
  <2>2. /\ DOMAIN wire' = 1 .. Len(wire) + 1 /\ DOMAIN wire = 1 .. Len(wire)
        /\ \A i \in DOMAIN wire : wire'[i] = wire[i]
        /\ wire'[Len(wire) + 1] = m /\ Len(wire) \in Nat
    BY <1>1, <2>1
  <2>3. ASSUME NEW i \in DOMAIN wire', NEW u \in Turns,
               \/ u \in working
               \/ \E j \in DOMAIN wire' :
                    j < i /\ wire'[j] = [kind |-> "prompt", turn |-> u]
        PROVE  u = t
    <3>1. CASE u \in working
      BY <1>2, <3>1 DEF Outstanding
    <3>2. CASE \E j \in DOMAIN wire' :
                 j < i /\ wire'[j] = [kind |-> "prompt", turn |-> u]
      <4>1. PICK j \in DOMAIN wire' :
              j < i /\ wire'[j] = [kind |-> "prompt", turn |-> u]
        BY <3>2
      <4>2. j \in DOMAIN wire /\ wire[j] = [kind |-> "prompt", turn |-> u]
        BY <2>2, <4>1
      <4> QED BY <1>2, <4>2 DEF Outstanding
    <3> QED BY <2>3, <3>1, <3>2
  <2>4. CancelOk'
    BY <1>1, <2>3 DEF CancelOk
  <2> QED BY <1>1, <2>4 DEF CInv, CancelHitsOnlyAsked
<1> QED BY <1>3, <1>4

(* Another message at the end of the wire is not a cancel.                 *)
LEMMA WriteNoCancel ==
  ASSUME IInv, CInv, NEW k, k # "cancel", NEW t, Write(k, t),
         UNCHANGED <<working, hit, asked>>
  PROVE  CInv'
<1>1. wire \in Seq(Messages)
  BY DEF IInv, TypeOK
<1>2. CASE ~connected
  <2>1. wire' = wire
    BY <1>2 DEF Write
  <2> QED BY <2>1 DEF CInv, CancelOk, CancelHitsOnlyAsked
<1>3. CASE connected
  <2> DEFINE m == [kind |-> k, turn |-> t]
  <2>1. wire' = Append(wire, m) /\ m.kind # "cancel"
    BY <1>3 DEF Write
  <2> HIDE DEF m
  <2>2. /\ DOMAIN wire' = 1 .. Len(wire) + 1 /\ DOMAIN wire = 1 .. Len(wire)
        /\ \A i \in DOMAIN wire : wire'[i] = wire[i]
        /\ wire'[Len(wire) + 1] = m /\ Len(wire) \in Nat
    BY <1>1, <2>1
  <2>3. ASSUME NEW i \in DOMAIN wire', wire'[i].kind = "cancel", NEW u \in Turns,
               \/ u \in working
               \/ \E j \in DOMAIN wire' :
                    j < i /\ wire'[j] = [kind |-> "prompt", turn |-> u]
        PROVE  u \in asked
    <3>1. i \in DOMAIN wire /\ wire[i].kind = "cancel"
      BY <2>1, <2>2, <2>3
    <3>2. CASE u \in working
      BY <3>1, <3>2 DEF CInv, CancelOk
    <3>3. CASE \E j \in DOMAIN wire' :
                 j < i /\ wire'[j] = [kind |-> "prompt", turn |-> u]
      <4>1. PICK j \in DOMAIN wire' :
              j < i /\ wire'[j] = [kind |-> "prompt", turn |-> u]
        BY <3>3
      <4>2. j \in DOMAIN wire /\ wire[j] = [kind |-> "prompt", turn |-> u]
        BY <2>2, <3>1, <4>1
      <4> QED BY <3>1, <4>1, <4>2 DEF CInv, CancelOk
    <3> QED BY <2>3, <3>2, <3>3
  <2>4. CancelOk'
    BY <2>3 DEF CancelOk
  <2> QED BY <2>4 DEF CInv, CancelHitsOnlyAsked
<1> QED BY <1>2, <1>3

(* Every step keeps the cancels on the wire meant for turns asked to stop. *)
LEMMA StepCancel == IInv /\ CInv /\ [Next]_vars => CInv'
<1> SUFFICES ASSUME IInv, CInv, [Next]_vars
             PROVE  CInv'
  OBVIOUS
<1> USE DEF queueVars, streamVars, agentVars
<1>1. ASSUME UNCHANGED <<wire, working, asked, hit>>
      PROVE  CInv'
  BY <1>1 DEF CInv, CancelOk, CancelHitsOnlyAsked
<1>2. ASSUME NEW t \in Turns, NEW timed \in BOOLEAN, StartTurn(t, timed)
      PROVE  CInv'
  BY <1>1, <1>2 DEF StartTurn, OpenCall, CanStart
<1>3. ASSUME NEW t \in Turns, SendPrompt(t)
      PROVE  CInv'
  BY <1>3, WriteNoCancel DEF SendPrompt
<1>4. ASSUME NEW t \in Turns, CancelTurn(t)
      PROVE  CInv'
  BY <1>4, WriteCancel DEF CancelTurn
<1>5. ASSUME NEW t \in Turns, SendQueuedTurnNow(t)
      PROVE  CInv'
  <2>1. CASE current = NoTurn
    BY <1>1, <1>5, <2>1 DEF SendQueuedTurnNow, CanStart, ToFront
  <2>2. CASE current # NoTurn
    <3>1. CancelCurrent(current) /\ UNCHANGED <<working, hit>>
      BY <1>5, <2>2 DEF SendQueuedTurnNow, CanStart, ToFront
    <3>2. current \in Turns
      BY <2>2 DEF IInv, TypeOK
    <3> QED BY <3>1, <3>2, WriteCancel
  <2> QED BY <2>1, <2>2
<1>6. ASSUME NEW t \in Turns, WithdrawQueuedTurn(t)
      PROVE  CInv'
  BY <1>1, <1>6 DEF WithdrawQueuedTurn, Withdraw
<1>7. ASSUME ClearQueuedTurns
      PROVE  CInv'
  BY <1>1, <1>7 DEF ClearQueuedTurns, Withdraw
<1>8. ASSUME NEW pol \in Policies, SetQueuePolicy(pol)
      PROVE  CInv'
  BY <1>1, <1>8 DEF SetQueuePolicy, CanStart
<1>9. ASSUME ControlOperation
      PROVE  CInv'
  BY <1>9, WriteNoCancel DEF ControlOperation, OpenCall
<1>10. ASSUME Close
       PROVE  CInv'
  <2>1. Write("close", NoTurn) /\ UNCHANGED <<working, hit, asked>>
    BY <1>10 DEF Close, OpenCall
  <2> QED BY <2>1, WriteNoCancel
<1>11. ASSUME NEW t \in Turns, StreamEnd(t)
       PROVE  CInv'
  <2>1. CASE stage[t] # "queued" /\ current = t /\ outcome[t] = "none"
    BY <1>11, <2>1, WriteCancel DEF StreamEnd
  <2>2. CASE ~(stage[t] # "queued" /\ current = t /\ outcome[t] = "none")
    BY <1>1, <1>11, <2>2 DEF StreamEnd
  <2> QED BY <2>1, <2>2
<1>12. ASSUME NEW t \in Turns, TimerFires(t)
       PROVE  CInv'
  <2>1. CASE current = t
    BY <1>12, <2>1, WriteCancel DEF TimerFires
  <2>2. CASE current # t
    BY <1>1, <1>12, <2>2 DEF TimerFires
  <2> QED BY <2>1, <2>2
<1>13. ASSUME NEW t \in Turns, DenyPermission(t)
       PROVE  CInv'
  BY <1>1, <1>13 DEF DenyPermission
<1>14. ASSUME NEW t \in Turns, PromptReturns(t)
       PROVE  CInv'
  BY <1>1, <1>14 DEF PromptReturns
<1>15. ASSUME NEW t \in Turns, TurnSettles(t)
       PROVE  CInv'
  BY <1>1, <1>15 DEF TurnSettles
<1>16. ASSUME AgentReceives
       PROVE  CInv'
  <2> DEFINE m == Head(wire)
  <2>1. /\ wire # <<>> /\ wire' = Tail(wire) /\ asked' = asked
        /\ working' = IF m.kind = "prompt" THEN working \cup {m.turn} ELSE working
        /\ hit' = IF m.kind = "cancel" THEN hit \cup working ELSE hit
    BY <1>16 DEF AgentReceives
  <2>2. wire \in Seq(Messages) /\ working \subseteq Turns
    BY DEF IInv, TypeOK
  <2>3. /\ m = wire[1] /\ 1 \in DOMAIN wire /\ m \in Messages
        /\ DOMAIN wire' = 1 .. Len(wire) - 1 /\ DOMAIN wire = 1 .. Len(wire)
        /\ Len(wire) \in Nat
        /\ \A i \in DOMAIN wire' : i + 1 \in DOMAIN wire /\ wire'[i] = wire[i + 1]
    BY <2>1, <2>2
  <2> HIDE DEF m
  <2>4. m.kind = "prompt" => m = [kind |-> "prompt", turn |-> m.turn]
    BY <2>3 DEF Messages
  <2>5. ASSUME NEW i \in DOMAIN wire', wire'[i].kind = "cancel", NEW t \in Turns,
               t \in working'
        PROVE  t \in asked
    <3>1. i + 1 \in DOMAIN wire /\ wire[i + 1].kind = "cancel" /\ 1 < i + 1
      BY <2>3, <2>5
    <3>2. CASE t \in working
      BY <3>1, <3>2 DEF CInv, CancelOk
    <3>3. CASE t \notin working
      <4>1. wire[1] = [kind |-> "prompt", turn |-> t]
        BY <2>1, <2>3, <2>4, <2>5, <3>3
      <4> QED BY <2>3, <3>1, <4>1 DEF CInv, CancelOk
    <3> QED BY <3>2, <3>3
  <2>6. ASSUME NEW i \in DOMAIN wire', wire'[i].kind = "cancel", NEW t \in Turns,
               NEW j \in DOMAIN wire', j < i,
               wire'[j] = [kind |-> "prompt", turn |-> t]
        PROVE  t \in asked
    <3>1. /\ i + 1 \in DOMAIN wire /\ wire[i + 1].kind = "cancel"
          /\ j + 1 \in DOMAIN wire /\ j + 1 < i + 1
          /\ wire[j + 1] = [kind |-> "prompt", turn |-> t]
      BY <2>3, <2>6
    <3> QED BY <3>1 DEF CInv, CancelOk
  <2>7. CancelOk'
    BY <2>1, <2>5, <2>6 DEF CancelOk
  <2>8. m.kind = "cancel" => working \subseteq asked
    BY <2>2, <2>3 DEF CInv, CancelOk
  <2> QED BY <2>1, <2>7, <2>8 DEF CInv, CancelHitsOnlyAsked
<1>17. ASSUME NEW t \in Turns, NEW a \in Answers, AgentAnswers(t, a)
       PROVE  CInv'
  BY <1>17 DEF AgentAnswers, CInv, CancelOk, CancelHitsOnlyAsked
<1>18. ASSUME Dispose \/ LoseConnection
       PROVE  CInv'
  <2>1. wire' = <<>> /\ UNCHANGED <<asked, hit>>
    BY <1>18 DEF Dispose, LoseConnection, Disconnect
  <2> QED BY <2>1 DEF CInv, CancelOk, CancelHitsOnlyAsked
<1>19. ASSUME UNCHANGED vars
       PROVE  CInv'
  BY <1>1, <1>19 DEF vars
<1>20. ASSUME Next
       PROVE  CInv'
  BY <1>2, <1>3, <1>4, <1>5, <1>6, <1>7, <1>8, <1>9, <1>10, <1>11, <1>12, <1>13,
     <1>14, <1>15, <1>16, <1>17, <1>18, <1>20, Zenon DEF Next
<1> QED
  BY <1>19, <1>20

(* session/cancel names no turn, and still the agent only ever sees the    *)
(* prompt of a turn cancelled that somebody asked to stop, for any number  *)
(* of turns and of cancels in flight (cancelTurn of driver.ts).            *)
THEOREM CancelHitsOnlyAskedHolds == Spec => []CancelHitsOnlyAsked
<1>1. Init => CInv
  BY DEF Init, CInv, CancelOk, CancelHitsOnlyAsked
<1>2. CInv => CancelHitsOnlyAsked
  BY DEF CInv
<1> QED
  BY <1>1, <1>2, StepCancel, Invariance, PTL DEF Spec
-----------------------------------------------------------------------------
(* Streams and their last events.                                          *)

(* A stream e of a turn with terminal event r, or none so far.             *)
Told(e, r) ==
  /\ e \in Seq(EventKinds)
  /\ \A i \in DOMAIN e : e[i] \in Outcomes => i = Len(e) /\ r # "none"
  /\ r # "none" => e # <<>> /\ e[Len(e)] = r

StreamsTold == \A t \in Turns : Told(events[t], outcome[t])

(* An event is given to a stream that has no terminal event yet.           *)
LEMMA ToldAppend ==
  ASSUME NEW e, Told(e, "none"), NEW k \in EventKinds
  PROVE  IF k \in Outcomes THEN Told(Append(e, k), k) ELSE Told(Append(e, k), "none")
<1> DEFINE w == Append(e, k)
<1>1. /\ w \in Seq(EventKinds) /\ DOMAIN w = 1 .. Len(e) + 1 /\ Len(w) = Len(e) + 1
      /\ \A i \in DOMAIN e : w[i] = e[i]
      /\ DOMAIN e = 1 .. Len(e) /\ Len(e) \in Nat /\ w[Len(e) + 1] = k /\ w # <<>>
  BY DEF Told
<1> HIDE DEF w
<1>2. \A i \in DOMAIN w : w[i] \in Outcomes => i = Len(w) /\ w[i] = k
  BY <1>1 DEF Told
<1>3. k \in Outcomes => k # "none"
  BY DEF Outcomes
<1>4. CASE k \in Outcomes
  BY <1>1, <1>2, <1>3, <1>4 DEF Told
<1>5. CASE k \notin Outcomes
  <2>1. \A i \in DOMAIN w : w[i] \notin Outcomes
    BY <1>2, <1>5
  <2> QED BY <1>1, <1>5, <2>1 DEF Told
<1> QED BY <1>4, <1>5 DEF w

(* finishTurnWithTerminalEvent on streams that are as they should be.      *)
LEMMA FinishTold ==
  ASSUME closedStreams = {t \in Turns : outcome[t] # "none"},
         NEW S \in SUBSET Turns, NEW res \in [Turns -> Outcomes], NEW ev,
         \A t \in Turns : Told(ev[t], outcome[t]), Finish(S, res, ev)
  PROVE  StreamsTold'
<1> SUFFICES ASSUME NEW t \in Turns PROVE Told(events'[t], outcome'[t])
  BY DEF StreamsTold
<1>1. CASE t \in S /\ outcome[t] = "none"
  <2>1. events'[t] = Append(ev[t], res[t]) /\ outcome'[t] = res[t]
    BY <1>1 DEF Finish
  <2>2. res[t] \in EventKinds /\ res[t] \in Outcomes
    BY DEF EventKinds
  <2> QED BY <1>1, <2>1, <2>2, ToldAppend
<1>2. CASE ~(t \in S /\ outcome[t] = "none")
  BY <1>2 DEF Finish
<1> QED BY <1>1, <1>2

(* A turn that gets its event has it once, last, and its stream closed.    *)
LEMMA FinishAsTold ==
  ASSUME IInv, StreamsTold, NEW S \in SUBSET Turns, NEW r \in Outcomes,
         FinishAs(S, r)
  PROVE  StreamsTold'
<1>1. [t \in Turns |-> r] \in [Turns -> Outcomes]
  OBVIOUS
<1> QED BY <1>1, FinishTold DEF FinishAs, StreamsTold, IInv, OutcomeOk

(* Starting a turn tells it so and ends the streams of those merged into   *)
(* it.                                                                     *)
LEMMA StartNextTold ==
  ASSUME IInv, NEW q \in Seq(Turns), q # <<>>, NEW pol, NEW stg, NEW ev,
         NEW tm, \A t \in Turns : Told(ev[t], outcome[t]),
         StartNext(q, pol, stg, ev, tm)
  PROVE  StreamsTold'
<1>1. PICK merged \in SUBSET Turns : Starts(q, stg, ev, tm, merged)
  BY StartNextShape DEF IInv
<1>2. [t \in Turns |-> "coalesced"] \in [Turns -> Outcomes]
  BY DEF Outcomes
<1> QED BY <1>1, <1>2, FinishTold DEF Starts, IInv, OutcomeOk

(* Every step keeps the streams in shape.                                  *)
LEMMA StepTold == IInv /\ StreamsTold /\ [Next]_vars => StreamsTold'
<1> SUFFICES ASSUME IInv, StreamsTold, [Next]_vars PROVE StreamsTold'
  OBVIOUS
<1> USE DEF queueVars, streamVars, agentVars
<1>1. ASSUME UNCHANGED <<outcome, events>> PROVE StreamsTold'
  BY <1>1 DEF StreamsTold
<1>2. ASSUME NEW t \in Turns, NEW timed \in BOOLEAN, StartTurn(t, timed)
      PROVE  StreamsTold'
  <2> DEFINE q   == Append(pending, t)
             stg == [stage EXCEPT ![t] = "queued"]
             ev  == [events EXCEPT ![t] = Append(@, "queued")]
             tm  == IF timed THEN timer \cup {t} ELSE timer
  <2>1. stage[t] = "none" /\ outcome[t] = "none"
    BY <1>2 DEF StartTurn, IInv, OutcomeOk
  <2>2. ASSUME NEW u \in Turns PROVE Told(ev[u], outcome[u])
    <3>1. Told(events[u], outcome[u]) /\ "queued" \in EventKinds \ Outcomes
      BY DEF StreamsTold, EventKinds, Outcomes
    <3>2. ev[u] = IF u = t THEN Append(events[t], "queued") ELSE events[u]
      BY DEF IInv, TypeOK
    <3> QED BY <2>1, <3>1, <3>2, ToldAppend
  <2>3. q \in Seq(Turns) /\ q # <<>>
    BY AppendShape DEF IInv, TypeOK
  <2>4. CASE CanStart
    <3>1. StartNext(q, policy, stg, ev, tm)
      BY <1>2, <2>4 DEF StartTurn
    <3> HIDE DEF q, stg, ev, tm
    <3> QED BY <2>2, <2>3, <3>1, StartNextTold
  <2>5. CASE ~CanStart
    <3>1. events' = ev /\ outcome' = outcome
      BY <1>2, <2>5 DEF StartTurn
    <3> HIDE DEF ev
    <3> QED BY <2>2, <3>1 DEF StreamsTold
  <2> QED BY <2>4, <2>5
<1>3. ASSUME NEW t \in Turns, SendPrompt(t)
      PROVE  StreamsTold'
  <2>1. CASE t \in closedStreams
    BY <1>1, <1>3, <2>1 DEF SendPrompt
  <2>2. CASE t \notin closedStreams
    <3>1. outcome[t] = "none" /\ outcome' = outcome
      BY <1>3, <2>2 DEF SendPrompt, IInv, OutcomeOk
    <3>2. events' = [events EXCEPT ![t] = Append(@, "started")]
      BY <1>3, <2>2 DEF SendPrompt
    <3>3. ASSUME NEW u \in Turns PROVE Told(events'[u], outcome'[u])
      <4>1. Told(events[u], outcome[u]) /\ "started" \in EventKinds \ Outcomes
        BY DEF StreamsTold, EventKinds, Outcomes
      <4>2. events'[u] = IF u = t THEN Append(events[t], "started") ELSE events[u]
        BY <3>2 DEF IInv, TypeOK
      <4> QED BY <3>1, <4>1, <4>2, ToldAppend
    <3> QED BY <3>3 DEF StreamsTold
  <2> QED BY <2>1, <2>2
<1>4. ASSUME NEW t \in Turns, SendQueuedTurnNow(t)
      PROVE  StreamsTold'
  <2>1. current # NoTurn
    BY <1>4 DEF SendQueuedTurnNow, CanStart, ToFront, IsPending, IInv, RunnerOk, ToSet
  <2> QED BY <1>1, <1>4, <2>1 DEF SendQueuedTurnNow, CanStart, ToFront
<1>5. ASSUME NEW S \in SUBSET Turns, NEW left, Withdraw(S, left)
      PROVE  StreamsTold'
  BY <1>5, FinishAsTold DEF Withdraw, Outcomes
<1>6. ASSUME ClearQueuedTurns PROVE StreamsTold'
  <2>1. ToSet(pending) \in SUBSET Turns
    BY DEF IInv, TypeOK, ToSet
  <2> QED BY <1>5, <1>6, <2>1 DEF ClearQueuedTurns
<1>7. ASSUME NEW pol \in Policies, SetQueuePolicy(pol)
      PROVE  StreamsTold'
  BY <1>1, <1>7 DEF SetQueuePolicy, CanStart, IInv, RunnerOk
<1>8. ASSUME Close PROVE StreamsTold'
  <2> DEFINE S == ({current} \ {NoTurn}) \cup ToSet(pending)
             res == [t \in Turns |-> IF t = current THEN "cancelled"
                                                    ELSE "withdrawn"]
  <2>1. S \in SUBSET Turns /\ res \in [Turns -> Outcomes]
    BY DEF ToSet, IInv, TypeOK, Outcomes
  <2>2. Finish(S, res, events)
    BY <1>8 DEF Close
  <2> HIDE DEF S, res
  <2> QED BY <2>1, <2>2, FinishTold DEF StreamsTold, IInv, OutcomeOk
<1>9. ASSUME NEW t \in Turns, NEW r \in Outcomes, FinishAs({t}, r)
      PROVE  StreamsTold'
  BY <1>9, FinishAsTold
<1>10. ASSUME NEW t \in Turns, StreamEnd(t)
       PROVE  StreamsTold'
  BY <1>1, <1>9, <1>10 DEF StreamEnd, Outcomes
<1>11. ASSUME NEW t \in Turns, TimerFires(t)
       PROVE  StreamsTold'
  BY <1>1, <1>9, <1>11 DEF TimerFires, Outcomes
<1>12. ASSUME NEW t \in Turns, PromptReturns(t)
       PROVE  StreamsTold'
  <2>1. \A a : Result(t, a) \in Outcomes
    BY DEF Result, Outcomes
  <2>2. UNCHANGED streamVars \/ \E a : FinishAs({t}, Result(t, a))
    BY <1>12 DEF PromptReturns
  <2> QED BY <1>1, <1>9, <2>1, <2>2
<1>13. ASSUME NEW t \in Turns, TurnSettles(t)
       PROVE  StreamsTold'
  <2>1. CASE status # "closed" /\ current \in {t, NoTurn} /\ pending # <<>>
    <3> DEFINE stg == [stage EXCEPT ![t] = "finished"]
    <3>1. StartNext(pending, policy, stg, events, timer)
      BY <1>13, <2>1 DEF TurnSettles
    <3> HIDE DEF stg
    <3> QED BY <2>1, <3>1, StartNextTold DEF StreamsTold, IInv, TypeOK
  <2>2. CASE ~(status # "closed" /\ current \in {t, NoTurn} /\ pending # <<>>)
    BY <1>1, <1>13, <2>2 DEF TurnSettles
  <2> QED BY <2>1, <2>2
<1>14. CASE UNCHANGED vars
  BY <1>1, <1>14 DEF vars
<1>15. CASE Next
  <2>1. ASSUME NEW t \in Turns, WithdrawQueuedTurn(t) PROVE StreamsTold'
    BY <1>5, <2>1 DEF WithdrawQueuedTurn
  <2>2. ASSUME \/ \E t \in Turns : CancelTurn(t) \/ DenyPermission(t)
               \/ ControlOperation \/ AgentReceives \/ Dispose \/ LoseConnection
               \/ \E t \in Turns, a \in Answers : AgentAnswers(t, a)
        PROVE  StreamsTold'
    BY <1>1, <2>2 DEF CancelTurn, DenyPermission, ControlOperation,
       AgentReceives, Dispose, LoseConnection, Disconnect, AgentAnswers
  <2> QED
    BY <1>2, <1>3, <1>4, <1>6, <1>7, <1>8, <1>10, <1>11, <1>12, <1>13, <1>15,
       <2>1, <2>2, Zenon DEF Next
<1> QED BY <1>14, <1>15

(* The reader of a turn's events is told its result, as the last thing and *)
(* once, and its stream ends exactly then, whatever ends the turn.         *)
THEOREM StreamShapeHolds == Spec => []StreamShape
<1>1. Init => StreamsTold
  <2>1. Told(<<>>, "none")
    BY DEF Told
  <2> QED BY <2>1 DEF Init, StreamsTold
<1>2. IInv /\ StreamsTold => StreamShape
  BY DEF IInv, OutcomeOk, StreamsTold, Told, StreamShape
<1> QED BY <1>1, <1>2, StepTold, Invariance, PTL DEF Spec
-----------------------------------------------------------------------------
(* Hosts whose watchers do not call the session while it starts a turn.    *)

PassiveWatchers == "watcherCalls" \notin Environment

(* Nothing is closed in the middle of a start.                             *)
LEMMA StepClosed ==
  ASSUME PassiveWatchers, IInv, status = "closed" => ~Starting, [Next]_vars
  PROVE  /\ status' = "closed" => ~Starting'
         /\ status = "closed" => status' = "closed" /\ sent' = sent
<1> USE DEF queueVars, streamVars, agentVars
<1>0. TypeOK /\ RunnerOk
  BY DEF IInv
<1>1. CASE status = "closed"
  <2>1. current = NoTurn /\ pending = <<>> /\ \A t \in Turns : stage[t] # "starting"
    BY <1>0, <1>1 DEF RunnerOk, Starting
  <2>2. ASSUME NEW t \in Turns PROVE ~IsPending(t)
    BY <2>1 DEF IsPending, ToSet
  <2>3. ASSUME NEW stg \in {"settling", "finished"}, NEW t \in Turns,
               stage' = [stage EXCEPT ![t] = stg]
        PROVE  ~Starting'
    BY <1>0, <2>1, <2>3 DEF Starting, TypeOK
  <2>4. CASE \E t \in Turns : PromptReturns(t) \/ TurnSettles(t)
    BY <1>1, <2>1, <2>3, <2>4 DEF PromptReturns, TurnSettles
  <2>5. CASE UNCHANGED <<status, stage, sent>>
    BY <1>1, <2>1, <2>5 DEF Starting
  <2>6. \/ \E t \in Turns : PromptReturns(t) \/ TurnSettles(t)
        \/ UNCHANGED <<status, stage, sent>>
    BY <1>1, <2>1, <2>2 DEF Next, vars, StartTurn, OpenCall, SendPrompt, CancelTurn,
       SendQueuedTurnNow, WithdrawQueuedTurn, ClearQueuedTurns, Withdraw,
       SetQueuePolicy, CanStart, ControlOperation, Close, StreamEnd,
       TimerFires, DenyPermission, AgentReceives, AgentAnswers, Dispose,
       LoseConnection, Disconnect
  <2> QED BY <2>4, <2>5, <2>6
<1>2. CASE status # "closed"
  <2>1. CASE Close
    BY <1>0, <1>2, <2>1 DEF Close, OpenCall, HostMayCall, PassiveWatchers, Starting
  <2>2. CASE ~Close
    <3>1. status' # "closed"
      <4>1. ASSUME NEW q, NEW pol, NEW stg, NEW ev, NEW tm,
                   StartNext(q, pol, stg, ev, tm)
            PROVE  status' # "closed"
        BY <4>1 DEF StartNext
      <4>2. ASSUME NEW t \in Turns,
                   \/ \E timed \in BOOLEAN : StartTurn(t, timed)
                   \/ SendQueuedTurnNow(t) \/ TurnSettles(t)
            PROVE  status' # "closed"
        BY <1>2, <4>1, <4>2 DEF StartTurn, SendQueuedTurnNow, CanStart, TurnSettles
      <4>3. ASSUME NEW pol \in Policies, SetQueuePolicy(pol)
            PROVE  status' # "closed"
        BY <1>2, <4>1, <4>3 DEF SetQueuePolicy
      <4>4. ASSUME UNCHANGED status PROVE status' # "closed"
        BY <1>2, <4>4
      <4>5. \/ \E t \in Turns : \/ \E timed \in BOOLEAN : StartTurn(t, timed)
                                \/ SendQueuedTurnNow(t) \/ TurnSettles(t)
            \/ \E pol \in Policies : SetQueuePolicy(pol)
            \/ UNCHANGED status
        BY <2>2 DEF Next, vars, SendPrompt, CancelTurn, WithdrawQueuedTurn,
           ClearQueuedTurns, Withdraw, ControlOperation, StreamEnd,
           TimerFires, DenyPermission, PromptReturns, AgentReceives,
           AgentAnswers, Dispose, LoseConnection, Disconnect
      <4> QED BY <4>2, <4>3, <4>4, <4>5
    <3> QED BY <1>2, <3>1
  <2> QED BY <2>1, <2>2
<1> QED BY <1>1, <1>2

(* A session whose session/close is on its way is marked closed.           *)
ClosingOk == Closing => status = "closed"

(* Only close() writes session/close, and it marks the session first.      *)
LEMMA StepClosing ==
  ASSUME IInv, ClosingOk, status = "closed" => status' = "closed", [Next]_vars
  PROVE  ClosingOk'
<1> USE DEF queueVars, streamVars, agentVars
<1>1. CASE Closing' => Closing
  BY <1>1 DEF ClosingOk
<1>2. CASE Close
  BY <1>2 DEF Close, ClosingOk
<1>3. ASSUME NEW k \in {"prompt", "cancel", "control"}, NEW u, Write(k, u)
      PROVE  Closing' => Closing
  BY <1>3 DEF Write, Closing, IInv, TypeOK
<1>4. ASSUME UNCHANGED wire PROVE Closing' => Closing
  BY <1>4 DEF Closing
<1>5. ASSUME NEW t, CancelCurrent(t) PROVE Closing' => Closing
  BY <1>3, <1>5 DEF CancelCurrent
<1>6. CASE \E t \in Turns : SendPrompt(t)
  BY <1>1, <1>3, <1>6 DEF SendPrompt
<1>7. CASE \E t \in Turns : CancelTurn(t) \/ SendQueuedTurnNow(t) \/ StreamEnd(t)
                               \/ TimerFires(t)
  BY <1>1, <1>4, <1>5, <1>7 DEF CancelTurn, SendQueuedTurnNow, StreamEnd, TimerFires
<1>8. CASE ControlOperation
  BY <1>1, <1>3, <1>8 DEF ControlOperation
<1>9. CASE AgentReceives
  BY <1>1, <1>9 DEF AgentReceives, Closing, IInv, TypeOK
<1>10. CASE wire' = <<>>
  BY <1>1, <1>10 DEF Closing
<1>11. CASE UNCHANGED wire
  BY <1>1, <1>4, <1>11
<1> QED
  BY <1>2, <1>6, <1>7, <1>8, <1>9, <1>10, <1>11 DEF Next, vars, StartTurn,
     WithdrawQueuedTurn, ClearQueuedTurns, Withdraw, SetQueuePolicy,
     DenyPermission, PromptReturns, TurnSettles, AgentAnswers, Dispose,
     LoseConnection, Disconnect

(* Once a session is closed it stays closed, and from the moment it writes *)
(* session/close it prompts nothing (RFC 0002, section 5), if its watchers *)
(* do not close it while it starts a turn.                                 *)
THEOREM NoWorkAfterCloseHolds ==
  ASSUME PassiveWatchers PROVE Spec => NoWorkAfterClose
<1> DEFINE Quiet == status = "closed" => ~Starting
           Step  == /\ status = "closed" => status' = "closed"
                    /\ status = "closed" \/ Closing => sent' = sent
<1>1. Init => Quiet /\ ClosingOk
  BY DEF Init, ClosingOk, Closing
<1>2. IInv /\ Quiet /\ ClosingOk /\ [Next]_vars => Quiet' /\ ClosingOk' /\ [Step]_vars
  <2> SUFFICES ASSUME IInv, Quiet, ClosingOk, [Next]_vars
               PROVE  Quiet' /\ ClosingOk' /\ [Step]_vars
    OBVIOUS
  <2>1. Quiet' /\ [status = "closed" => status' = "closed" /\ sent' = sent]_vars
    BY StepClosed
  <2>2. status = "closed" => status' = "closed" /\ sent' = sent
    BY <2>1 DEF vars, queueVars
  <2>3. Step
    BY <2>2 DEF ClosingOk
  <2>4. ClosingOk'
    BY <2>2, StepClosing
  <2> QED BY <2>1, <2>3, <2>4
<1> HIDE DEF Quiet
<1> QED BY <1>1, <1>2, Invariance, PTL DEF Spec, NoWorkAfterClose

-----------------------------------------------------------------------------
(* Cancels are not spent on nothing.                                       *)

(* A cancel is on its way behind the prompt of t.                          *)
Coming(t) ==
  \E i \in DOMAIN wire :
    /\ wire[i].kind = "cancel"
    /\ t \in working \/ \E j \in DOMAIN wire :
                          j < i /\ wire[j] = [kind |-> "prompt", turn |-> t]

AskedOk ==
  \A t \in asked :
    /\ stage[t] \notin {"none", "queued", "starting"}
    /\ Outstanding(t) => t \in hit \/ Coming(t)

(* What is on its way stays on its way while messages are added.           *)
LEMMA StillComing ==
  ASSUME TypeOK, NEW t, NEW k, NEW u, Write(k, u), working' = working,
         Coming(t)
  PROVE  Coming(t)'
<1>1. /\ DOMAIN wire \subseteq DOMAIN wire'
      /\ \A i \in DOMAIN wire : wire'[i] = wire[i]
  BY DEF TypeOK, Write
<1> QED BY <1>1 DEF Coming

(* A cancel is written for the current turn, after its prompt.             *)
LEMMA CancelComes ==
  ASSUME TypeOK, WireOk, NEW t \in Turns, Outstanding(t), Write("cancel", NoTurn),
         working' = working
  PROVE  Coming(t)'
<1> DEFINE m == [kind |-> "cancel", turn |-> NoTurn]
<1>1. wire' = Append(wire, m) /\ m.kind = "cancel"
  BY DEF WireOk, Outstanding, Write
<1> HIDE DEF m
<1>2. /\ Len(wire) + 1 \in DOMAIN wire' /\ wire'[Len(wire) + 1].kind = "cancel"
      /\ \A i \in DOMAIN wire :
           i \in DOMAIN wire' /\ i < Len(wire) + 1 /\ wire'[i] = wire[i]
  BY <1>1 DEF TypeOK
<1> QED BY <1>2 DEF Coming, Outstanding

(* A cancel of a turn past its start is written behind the turn's prompt.  *)
LEMMA CancelAsked ==
  ASSUME IInv, AskedOk, NEW t \in Turns, current = t, stage[t] # "starting",
         CancelCurrent(t), UNCHANGED <<stage, working, hit>>
  PROVE  AskedOk'
<1>1. Write("cancel", NoTurn) /\ asked' = asked \cup {t}
  BY DEF CancelCurrent
<1>2. stage[t] \notin {"none", "queued", "starting"}
  BY ConstantsAssumption DEF IInv, RunnerOk, Running
<1>3. ASSUME NEW u \in asked', Outstanding(u)' PROVE u \in hit' \/ Coming(u)'
  <2>1. Outstanding(u) /\ u \in Turns
    <3>1. u \in Turns
      BY <1>1 DEF IInv, TypeOK
    <3>2. \A i \in DOMAIN wire' : wire'[i].kind = "prompt" =>
            i \in DOMAIN wire /\ wire'[i] = wire[i]
      BY <1>1 DEF IInv, TypeOK, Write
    <3> QED BY <1>3, <3>1, <3>2 DEF Outstanding
  <2> QED BY <1>1, <2>1, CancelComes DEF IInv
<1> QED BY <1>1, <1>2, <1>3 DEF AskedOk

(* A step that leaves the agent alone and starts no turn twice.            *)
LEMMA SameAsked ==
  ASSUME AskedOk, UNCHANGED <<wire, working, hit, asked>>,
         \A t \in asked : stage[t] \notin {"none", "queued", "starting"} =>
                            stage'[t] \notin {"none", "queued", "starting"}
  PROVE  AskedOk'
BY DEF AskedOk, Coming, Outstanding

(* No turn that starts was asked to stop before.                           *)
LEMMA StartNextAsked ==
  ASSUME IInv, AskedOk, NEW q \in Seq(Turns), q # <<>>, NEW pol, NEW stg,
         NEW ev, NEW tm, \A t \in ToSet(q) : stg[t] = "queued" /\ t \notin asked,
         DOMAIN stg = Turns,
         \A t \in asked : stg[t] \notin {"none", "queued", "starting"},
         StartNext(q, pol, stg, ev, tm), UNCHANGED <<wire, working, hit, asked>>
  PROVE  AskedOk'
<1>1. PICK merged \in SUBSET Turns : Starts(q, stg, ev, tm, merged)
  BY StartNextShape DEF IInv
<1>2. stage' = [stg EXCEPT ![q[1]] = "starting"] /\ q[1] \notin asked
  BY <1>1 DEF Starts
<1>3. \A t \in asked : stage'[t] = stg[t]
  BY <1>2
<1> QED BY <1>3, SameAsked

(* Every step keeps the cancels asked for on their way.                    *)
LEMMA StepAsked ==
  ASSUME PassiveWatchers, IInv, AskedOk, [Next]_vars PROVE AskedOk'
<1> USE DEF queueVars, streamVars, agentVars
<1>0. TypeOK /\ RunnerOk /\ QueueOk /\ OutcomeOk /\ WireOk
  BY DEF IInv
<1>1. ASSUME UNCHANGED <<wire, working, hit, asked, stage>> PROVE AskedOk'
  BY <1>1, SameAsked
<1>2. ASSUME NEW t \in Turns, NEW timed \in BOOLEAN, StartTurn(t, timed)
      PROVE  AskedOk'
  <2> DEFINE q   == Append(pending, t)
             stg == [stage EXCEPT ![t] = "queued"]
             ev  == [events EXCEPT ![t] = Append(@, "queued")]
             tm  == IF timed THEN timer \cup {t} ELSE timer
  <2>1. stage[t] = "none" /\ UNCHANGED <<wire, working, hit, asked>>
    BY <1>2 DEF StartTurn
  <2>2. q \in Seq(Turns) /\ q # <<>> /\ ToSet(q) = ToSet(pending) \cup {t}
    <3>1. pending \in Seq(Turns)
      BY <1>0 DEF TypeOK
    <3> QED BY <3>1, AppendShape
  <2>3. /\ DOMAIN stg = Turns
        /\ \A u \in Turns : stg[u] = IF u = t THEN "queued" ELSE stage[u]
    BY <1>0 DEF TypeOK
  <2>4. asked \subseteq Turns /\ t \notin asked
    BY <1>0, <2>1 DEF TypeOK, AskedOk
  <2>5. CASE CanStart
    <3>1. StartNext(q, policy, stg, ev, tm)
      BY <1>2, <2>5 DEF StartTurn
    <3>2. ToSet(pending) \subseteq Turns
      BY <1>0 DEF TypeOK, ToSet
    <3> HIDE DEF q, stg, ev, tm
    <3>3. \A u \in ToSet(q) : stg[u] = "queued" /\ u \notin asked
      BY <1>0, <2>2, <2>3, <2>4, <3>2 DEF QueueOk, IsPending, AskedOk
    <3>4. \A u \in asked : stg[u] \notin {"none", "queued", "starting"}
      BY <2>3, <2>4 DEF AskedOk
    <3> QED BY <2>1, <2>2, <2>3, <3>1, <3>3, <3>4, StartNextAsked
  <2>6. CASE ~CanStart
    <3>1. stage' = stg
      BY <1>2, <2>6 DEF StartTurn
    <3> HIDE DEF stg
    <3> QED BY <2>1, <2>3, <2>4, <3>1, SameAsked
  <2> QED BY <2>5, <2>6
<1>3. ASSUME NEW t \in Turns, SendPrompt(t)
      PROVE  AskedOk'
  <2>1. /\ stage[t] = "starting" /\ t \notin asked
        /\ \A u \in Turns : stage'[u] = IF u = t THEN "prompting" ELSE stage[u]
        /\ Write("prompt", t) /\ UNCHANGED <<working, hit, asked>>
    BY <1>0, <1>3 DEF SendPrompt, TypeOK, AskedOk
  <2>2. ASSUME NEW u \in asked, Outstanding(u)' PROVE u \in hit \/ Coming(u)'
    <3>1. \A i \in DOMAIN wire' : wire'[i] = [kind |-> "prompt", turn |-> u] =>
            i \in DOMAIN wire /\ wire'[i] = wire[i]
      BY <1>0, <2>1 DEF TypeOK, Write
    <3>2. Outstanding(u)
      BY <2>1, <2>2, <3>1 DEF Outstanding
    <3> QED BY <1>0, <2>1, <3>2, StillComing DEF AskedOk
  <2>3. asked \subseteq Turns
    BY <1>0 DEF TypeOK
  <2> QED BY <2>1, <2>2, <2>3 DEF AskedOk
<1>4. ASSUME NEW t \in Turns, CancelTurn(t)
      PROVE  AskedOk'
  <2>1. stage[t] # "starting"
    BY <1>4 DEF CancelTurn, HostMayCall, PassiveWatchers, Starting
  <2> QED BY <1>4, <2>1, CancelAsked DEF CancelTurn
<1>5. ASSUME NEW t \in Turns, SendQueuedTurnNow(t)
      PROVE  AskedOk'
  <2>1. current # NoTurn /\ current \in Turns
    BY <1>0, <1>5 DEF SendQueuedTurnNow, CanStart, IsPending, RunnerOk, ToSet, TypeOK
  <2>2. stage[current] # "starting"
    BY <1>5, <2>1 DEF SendQueuedTurnNow, CanStart, HostMayCall, PassiveWatchers, Starting
  <2> QED BY <1>5, <2>1, <2>2, CancelAsked DEF SendQueuedTurnNow, CanStart
<1>6. ASSUME ControlOperation \/ Close
      PROVE  AskedOk'
  <2>1. PICK k : k \in {"control", "close"} /\ Write(k, NoTurn)
    BY <1>6 DEF ControlOperation, Close
  <2>2. UNCHANGED <<working, hit, asked, stage>>
    BY <1>6 DEF ControlOperation, Close
  <2>3. ASSUME NEW u \in asked, Outstanding(u)' PROVE u \in hit \/ Coming(u)'
    <3>1. \A i \in DOMAIN wire' : wire'[i] = [kind |-> "prompt", turn |-> u] =>
            i \in DOMAIN wire /\ wire'[i] = wire[i]
      BY <1>0, <2>1 DEF TypeOK, Write
    <3>2. Outstanding(u)
      BY <2>2, <2>3, <3>1 DEF Outstanding
    <3> QED BY <1>0, <2>1, <2>2, <3>2, StillComing DEF AskedOk
  <2> QED BY <2>2, <2>3 DEF AskedOk
<1>7. ASSUME NEW t \in Turns, StreamEnd(t)
      PROVE  AskedOk'
  <2>1. CASE stage[t] # "queued" /\ current = t /\ outcome[t] = "none"
    BY <1>7, <2>1, CancelAsked DEF StreamEnd, Starting
  <2>2. CASE ~(stage[t] # "queued" /\ current = t /\ outcome[t] = "none")
    BY <1>1, <1>7, <2>2 DEF StreamEnd
  <2> QED BY <2>1, <2>2
<1>8. ASSUME NEW t \in Turns, TimerFires(t)
      PROVE  AskedOk'
  <2>1. CASE current = t
    BY <1>8, <2>1, CancelAsked DEF TimerFires, TimersRun
  <2>2. CASE current # t
    BY <1>1, <1>8, <2>2 DEF TimerFires
  <2> QED BY <2>1, <2>2
<1>9. ASSUME NEW t \in Turns, PromptReturns(t)
      PROVE  AskedOk'
  <2>1. /\ UNCHANGED <<wire, working, hit, asked>>
        /\ \A u \in Turns : stage'[u] = IF u = t THEN "settling" ELSE stage[u]
    BY <1>0, <1>9 DEF PromptReturns, TypeOK
  <2> QED BY <1>0, <2>1, SameAsked DEF TypeOK
<1>10. ASSUME NEW t \in Turns, TurnSettles(t)
      PROVE  AskedOk'
  <2> DEFINE stg == [stage EXCEPT ![t] = "finished"]
  <2>1. /\ DOMAIN stg = Turns /\ UNCHANGED <<wire, working, hit, asked>>
        /\ \A u \in Turns : stg[u] = IF u = t THEN "finished" ELSE stage[u]
        /\ stage[t] = "settling" /\ asked \subseteq Turns
    BY <1>0, <1>10 DEF TurnSettles, TypeOK
  <2>2. CASE status # "closed" /\ current \in {t, NoTurn} /\ pending # <<>>
    <3>1. StartNext(pending, policy, stg, events, timer)
      BY <1>10, <2>2 DEF TurnSettles
    <3>2. ToSet(pending) \subseteq Turns
      BY <1>0 DEF TypeOK, ToSet
    <3> HIDE DEF stg
    <3>3. \A u \in ToSet(pending) : stg[u] = "queued" /\ u \notin asked
      BY <1>0, <2>1, <3>2 DEF QueueOk, IsPending, AskedOk
    <3>4. \A u \in asked : stg[u] \notin {"none", "queued", "starting"}
      BY <2>1 DEF AskedOk
    <3>5. pending \in Seq(Turns)
      BY <1>0 DEF TypeOK
    <3> QED BY <2>1, <2>2, <3>1, <3>3, <3>4, <3>5, StartNextAsked
  <2>3. CASE ~(status # "closed" /\ current \in {t, NoTurn} /\ pending # <<>>)
    <3>1. stage' = stg
      BY <1>10, <2>3 DEF TurnSettles
    <3> HIDE DEF stg
    <3> QED BY <2>1, <3>1, SameAsked
  <2> QED BY <2>2, <2>3
<1>11. ASSUME AgentReceives
       PROVE  AskedOk'
  <2> DEFINE m == Head(wire)
  <2>1. /\ wire # <<>> /\ wire' = Tail(wire) /\ UNCHANGED <<asked, stage>>
        /\ working' = IF m.kind = "prompt" THEN working \cup {m.turn} ELSE working
        /\ hit' = IF m.kind = "cancel" THEN hit \cup working ELSE hit
    BY <1>11 DEF AgentReceives
  <2>2. /\ m = wire[1] /\ 1 \in DOMAIN wire /\ m \in Messages
        /\ DOMAIN wire' = 1 .. Len(wire) - 1 /\ DOMAIN wire = 1 .. Len(wire)
        /\ Len(wire) \in Nat
        /\ \A i \in DOMAIN wire' : i + 1 \in DOMAIN wire /\ wire'[i] = wire[i + 1]
        /\ \A i \in DOMAIN wire : i # 1 =>
             i - 1 \in DOMAIN wire' /\ wire'[i - 1] = wire[i]
    BY <1>0, <2>1 DEF TypeOK
  <2> HIDE DEF m
  <2>3. m.kind = "prompt" => m = [kind |-> "prompt", turn |-> m.turn]
    BY <2>2 DEF Messages
  <2>4. ASSUME NEW t \in asked, Outstanding(t)'
        PROVE  t \in hit' \/ Coming(t)'
    <3>1. Outstanding(t)
      <4>1. CASE t \in working'
        BY <2>1, <2>2, <2>3, <4>1 DEF Outstanding
      <4>2. CASE t \notin working'
        <5>1. PICK i \in DOMAIN wire' : wire'[i] = [kind |-> "prompt", turn |-> t]
          BY <2>4, <4>2 DEF Outstanding
        <5> QED BY <2>2, <5>1 DEF Outstanding
      <4> QED BY <4>1, <4>2
    <3>2. CASE t \in hit
      BY <2>1, <3>2
    <3>3. CASE t \notin hit
      <4>1. PICK i \in DOMAIN wire :
              /\ wire[i].kind = "cancel"
              /\ t \in working \/ \E j \in DOMAIN wire :
                                    j < i /\ wire[j] = [kind |-> "prompt", turn |-> t]
        BY <3>1, <3>3 DEF AskedOk, Coming
      <4>2. CASE t \in working
        <5>1. CASE i = 1
          BY <2>1, <2>2, <4>1, <4>2, <5>1
        <5>2. CASE i # 1
          BY <2>1, <2>2, <4>1, <4>2, <5>2 DEF Coming
        <5> QED BY <5>1, <5>2
      <4>3. CASE t \notin working
        <5>1. PICK j \in DOMAIN wire : j < i /\ wire[j] = [kind |-> "prompt", turn |-> t]
          BY <4>1, <4>3
        <5>2. i # 1 /\ i - 1 \in DOMAIN wire' /\ wire'[i - 1].kind = "cancel"
          BY <2>2, <4>1, <5>1
        <5>3. CASE j = 1
          <6>1. m.kind = "prompt" /\ m.turn = t
            BY <2>2, <5>1, <5>3
          <6> QED BY <2>1, <5>2, <6>1 DEF Coming
        <5>4. CASE j # 1
          <6>1. /\ j - 1 \in DOMAIN wire' /\ j - 1 < i - 1
                /\ wire'[j - 1] = [kind |-> "prompt", turn |-> t]
            BY <2>2, <5>1, <5>4
          <6> QED BY <5>2, <6>1 DEF Coming
        <5> QED BY <5>3, <5>4
      <4> QED BY <4>2, <4>3
    <3> QED BY <3>2, <3>3
  <2> QED BY <2>1, <2>4 DEF AskedOk
<1>12. ASSUME NEW t \in Turns, NEW a \in Answers, AgentAnswers(t, a)
       PROVE  AskedOk'
  <2>1. /\ t \in working /\ working' = working \ {t}
        /\ UNCHANGED <<wire, hit, asked, stage>>
    BY <1>12 DEF AgentAnswers
  <2>2. \A i \in DOMAIN wire : wire[i].kind # "prompt"
    BY <1>0, <2>1 DEF WireOk, PromptOnWire
  <2>3. ~Outstanding(t)'
    BY <2>1, <2>2 DEF Outstanding
  <2>4. ASSUME NEW u \in asked, Outstanding(u)' PROVE u \in hit \/ Coming(u)'
    BY <2>1, <2>3, <2>4 DEF AskedOk, Outstanding, Coming
  <2> QED BY <2>1, <2>4 DEF AskedOk
<1>13. ASSUME Dispose \/ LoseConnection
       PROVE  AskedOk'
  <2>1. wire' = <<>> /\ working' = {} /\ UNCHANGED <<asked, stage>>
    BY <1>13 DEF Dispose, LoseConnection, Disconnect
  <2> QED BY <2>1 DEF AskedOk, Outstanding
<1>14. CASE UNCHANGED vars
  BY <1>1, <1>14 DEF vars
<1>15. CASE Next
  <2>1. ASSUME \/ \E t \in Turns : WithdrawQueuedTurn(t) \/ DenyPermission(t)
               \/ ClearQueuedTurns
        PROVE  AskedOk'
    BY <1>1, <2>1 DEF WithdrawQueuedTurn, ClearQueuedTurns, Withdraw, DenyPermission
  <2>2. ASSUME NEW pol \in Policies, SetQueuePolicy(pol) PROVE AskedOk'
    BY <1>0, <1>1, <2>2 DEF SetQueuePolicy, CanStart, RunnerOk
  <2> QED
    BY <1>2, <1>3, <1>4, <1>5, <1>6, <1>7, <1>8, <1>9, <1>10, <1>11, <1>12,
       <1>13, <1>15, <2>1, <2>2, Zenon DEF Next
<1> QED BY <1>14, <1>15

(* A prompt the agent works on and somebody asked to stop was cancelled or *)
(* has a cancel under way, unless a watcher asks during a start.           *)
THEOREM CancelNotLostHolds ==
  ASSUME PassiveWatchers PROVE Spec => []CancelNotLost
<1>1. Init => AskedOk
  BY DEF Init, AskedOk
<1>2. IInv /\ AskedOk /\ [Next]_vars => AskedOk'
  BY StepAsked
<1>3. AskedOk => CancelNotLost
  BY DEF AskedOk, CancelNotLost, Outstanding, Coming
<1> QED BY <1>1, <1>2, <1>3, Invariance, PTL DEF Spec
-----------------------------------------------------------------------------
(* What prompts are made of.                                               *)

(* A prompt is made of the turn that sends it and of the turns coalesced   *)
(* into it; a withdrawn turn never got as far.                             *)
CarriedOk ==
  /\ \A t \in Turns : outcome[t] = "withdrawn" => stage[t] = "queued"
  /\ \A t, u \in Turns :
       t \in ToSet(prompt[u]) =>
         outcome[t] = "coalesced" \/ (t = u /\ stage[u] \notin {"none", "queued"})
  /\ \A t \in Turns :
       t \in ToSet(sent) =>
         outcome[t] = "coalesced" \/ stage[t] \notin {"none", "queued"}
  /\ CoalescedCarried

(* A concatenation holds what its two parts hold.                          *)
LEMMA ConcatSet ==
  ASSUME NEW S, NEW p \in Seq(S), NEW q \in Seq(S)
  PROVE  ToSet(p \o q) = ToSet(p) \cup ToSet(q)
<1> DEFINE w == p \o q
<1>1. /\ w \in Seq(S) /\ Len(w) = Len(p) + Len(q)
      /\ \A i \in 1 .. Len(p) + Len(q) :
           w[i] = IF i <= Len(p) THEN p[i] ELSE q[i - Len(p)]
  BY ConcatProperties
<1> HIDE DEF w
<1>2. /\ DOMAIN p = 1 .. Len(p) /\ DOMAIN q = 1 .. Len(q) /\ Len(p) \in Nat
      /\ Len(q) \in Nat /\ DOMAIN w = 1 .. Len(p) + Len(q)
  BY <1>1
<1>3. \A i \in DOMAIN p : i \in DOMAIN w /\ w[i] = p[i]
  BY <1>1, <1>2
<1>4. \A i \in DOMAIN q : i + Len(p) \in DOMAIN w /\ w[i + Len(p)] = q[i]
  BY <1>1, <1>2
<1>5. ASSUME NEW i \in DOMAIN w PROVE w[i] \in ToSet(p) \cup ToSet(q)
  <2>1. CASE i <= Len(p)
    BY <1>1, <1>2, <2>1 DEF ToSet
  <2>2. CASE ~(i <= Len(p))
    <3>1. i - Len(p) \in DOMAIN q /\ w[i] = q[i - Len(p)]
      BY <1>1, <1>2, <2>2
    <3> QED BY <3>1 DEF ToSet
  <2> QED BY <2>1, <2>2
<1>6. \A x \in ToSet(p) \cup ToSet(q) : x \in ToSet(w)
  BY <1>3, <1>4 DEF ToSet
<1>7. \A x \in ToSet(w) : x \in ToSet(p) \cup ToSet(q)
  BY <1>5 DEF ToSet
<1> QED BY <1>6, <1>7 DEF w

(* A prompt is put together where nothing else is being started.           *)
LEMMA StartNextCarried ==
  ASSUME IInv, CarriedOk, NEW q \in Seq(Turns), q # <<>>, NEW pol,
         NEW stg \in [Turns -> Stages], NEW ev, NEW tm, IsInjective(q),
         \A t \in ToSet(q) : stg[t] = "queued" /\ outcome[t] = "none",
         \A t \in Turns : /\ stage[t] # "starting"
                          /\ stage[t] \notin {"none", "queued"} =>
                               stg[t] \notin {"none", "queued"}
                          /\ stage[t] = "queued" => stg[t] = "queued",
         StartNext(q, pol, stg, ev, tm), sent' = sent
  PROVE  CarriedOk'
<1>1. PICK merged \in SUBSET Turns : Starts(q, stg, ev, tm, merged)
  BY StartNextShape DEF IInv
<1> DEFINE lead == q[1]
<1>2. /\ lead \in Turns /\ lead \in ToSet(q) /\ merged \subseteq ToSet(q) \ {lead}
      /\ stage' = [stg EXCEPT ![lead] = "starting"]
      /\ \A t \in Turns : ToSet(prompt'[t]) = IF t = lead THEN {t} \cup merged
                                              ELSE ToSet(prompt[t])
  BY <1>1 DEF Starts
<1> HIDE DEF lead
<1>3. \A t \in Turns : stage'[t] = IF t = lead THEN "starting" ELSE stg[t]
  BY <1>2
<1>4. \A t \in Turns : outcome'[t] = IF t \in merged THEN "coalesced" ELSE outcome[t]
  <2>1. Finish(merged, [t \in Turns |-> "coalesced"], ev)
    BY <1>1 DEF Starts
  <2>2. \A t \in merged : outcome[t] = "none"
    BY <1>2
  <2> QED BY <2>1, <2>2 DEF Finish
<1>5. \A t \in Turns : outcome'[t] = "withdrawn" => stage'[t] = "queued"
  BY <1>2, <1>3, <1>4 DEF CarriedOk
<1>6. ASSUME NEW t \in Turns, NEW u \in Turns, t \in ToSet(prompt'[u])
      PROVE  outcome'[t] = "coalesced" \/ (t = u /\ stage'[u] \notin {"none", "queued"})
  <2>1. CASE u = lead
    BY <1>2, <1>3, <1>4, <1>6, <2>1
  <2>2. CASE u # lead
    <3>1. t \in ToSet(prompt[u])
      BY <1>2, <1>6, <2>2
    <3>2. outcome[t] = "coalesced" \/ (t = u /\ stage[u] \notin {"none", "queued"})
      BY <3>1 DEF CarriedOk
    <3> QED BY <1>3, <1>4, <2>2, <3>2
  <2> QED BY <2>1, <2>2
<1>7. \A t \in Turns :
        t \in ToSet(sent) =>
          outcome'[t] = "coalesced" \/ stage'[t] \notin {"none", "queued"}
  BY <1>3, <1>4 DEF CarriedOk
<1>8. ASSUME NEW t \in Turns, outcome'[t] = "coalesced"
      PROVE  \/ t \in ToSet(sent)
             \/ \E u \in Turns \ {t} : stage'[u] = "starting" /\ t \in ToSet(prompt'[u])
  <2>1. CASE t \in merged
    <3>1. lead \in Turns \ {t} /\ stage'[lead] = "starting" /\ t \in ToSet(prompt'[lead])
      BY <1>2, <1>3, <2>1
    <3> QED BY <3>1
  <2>2. CASE t \notin merged
    <3>1. outcome[t] = "coalesced"
      BY <1>4, <1>8, <2>2
    <3> QED BY <3>1 DEF CarriedOk, CoalescedCarried
  <2> QED BY <2>1, <2>2
<1> QED BY <1>5, <1>6, <1>7, <1>8 DEF CarriedOk, CoalescedCarried

(* A result that is neither "withdrawn" nor "coalesced", or "withdrawn"    *)
(* for turns of the queue, and stages that go on.                          *)
LEMMA OthersCarried ==
  ASSUME CarriedOk, UNCHANGED <<prompt, sent>>,
         \A t \in Turns :
           /\ stage'[t] = stage[t] \/ {stage[t], stage'[t]} \cap {"none", "queued", "starting"} = {}
              \/ (stage[t] = "none" /\ stage'[t] = "queued")
           /\ \/ outcome'[t] = outcome[t]
              \/ outcome[t] = "none" /\ outcome'[t] # "coalesced"
           /\ outcome'[t] = "withdrawn" => stage'[t] = "queued"
  PROVE  CarriedOk'
<1>1. \A t \in Turns : outcome'[t] = "coalesced" <=> outcome[t] = "coalesced"
  OBVIOUS
<1>2. \A t \in Turns : stage[t] = "starting" <=> stage'[t] = "starting"
  OBVIOUS
<1>3. \A t \in Turns : stage[t] \notin {"none", "queued"} => stage'[t] \notin {"none", "queued"}
  OBVIOUS
<1>4. CoalescedCarried'
  BY <1>1, <1>2 DEF CarriedOk, CoalescedCarried
<1> QED BY <1>1, <1>3, <1>4 DEF CarriedOk

(* Every step keeps prompts and the turns they carry.                      *)
LEMMA StepCarried == IInv /\ CarriedOk /\ [Next]_vars => CarriedOk'
<1> SUFFICES ASSUME IInv, CarriedOk, [Next]_vars PROVE CarriedOk'
  OBVIOUS
<1> USE DEF queueVars, streamVars, agentVars
<1>0. TypeOK /\ RunnerOk /\ QueueOk /\ OutcomeOk
  BY DEF IInv
<1>1. ASSUME UNCHANGED <<outcome, stage, prompt, sent>> PROVE CarriedOk'
  BY <1>1 DEF CarriedOk, CoalescedCarried
<1>2. ASSUME NEW t \in Turns, NEW timed \in BOOLEAN, StartTurn(t, timed)
      PROVE  CarriedOk'
  <2> DEFINE q   == Append(pending, t)
             stg == [stage EXCEPT ![t] = "queued"]
             ev  == [events EXCEPT ![t] = Append(@, "queued")]
             tm  == IF timed THEN timer \cup {t} ELSE timer
  <2>1. stage[t] = "none" /\ outcome[t] = "none" /\ sent' = sent
    BY <1>2 DEF StartTurn, IInv, OutcomeOk
  <2>2. /\ q \in Seq(Turns) /\ q # <<>> /\ IsInjective(q)
        /\ ToSet(q) = ToSet(pending) \cup {t}
    <3>1. pending \in Seq(Turns) /\ IsInjective(pending) /\ t \notin ToSet(pending)
      BY <1>0, <2>1 DEF QueueOk, IsPending, TypeOK
    <3> QED BY <3>1, AppendShape
  <2>3. /\ stg \in [Turns -> Stages]
        /\ \A u \in Turns : stg[u] = IF u = t THEN "queued" ELSE stage[u]
    BY <1>0 DEF TypeOK, Stages
  <2>4. CASE CanStart
    <3>1. StartNext(q, policy, stg, ev, tm)
      BY <1>2, <2>4 DEF StartTurn
    <3> HIDE DEF q, stg, ev, tm
    <3>2. \A u \in ToSet(q) : stg[u] = "queued" /\ outcome[u] = "none"
      <4>1. \A u \in ToSet(pending) :
              u \in Turns /\ stage[u] = "queued" /\ outcome[u] = "none"
        <5>1. ToSet(pending) \subseteq Turns
          BY <1>0 DEF TypeOK, ToSet
        <5> QED BY <1>0, <5>1 DEF QueueOk, IsPending
      <4> QED BY <2>1, <2>2, <2>3, <4>1
    <3>3. \A u \in Turns : stage[u] # "starting"
      BY <1>0, <2>4, ConstantsAssumption DEF CanStart, RunnerOk, Running
    <3> QED BY <2>1, <2>2, <2>3, <3>1, <3>2, <3>3, StartNextCarried
  <2>5. CASE ~CanStart
    <3>1. stage' = stg /\ UNCHANGED <<outcome, prompt>>
      BY <1>2, <2>5 DEF StartTurn
    <3> HIDE DEF stg
    <3> QED BY <2>1, <2>3, <3>1, OthersCarried DEF CarriedOk
  <2> QED BY <2>4, <2>5
<1>3. ASSUME NEW t \in Turns, SendPrompt(t)
      PROVE  CarriedOk'
  <2>1. /\ stage[t] = "starting" /\ UNCHANGED <<outcome, prompt>>
        /\ \A u \in Turns : stage'[u] = IF u = t THEN "prompting" ELSE stage[u]
        /\ sent' = sent \o prompt[t]
    BY <1>0, <1>3 DEF SendPrompt, TypeOK
  <2>2. ToSet(sent') = ToSet(sent) \cup ToSet(prompt[t])
    BY <1>0, <2>1, ConcatSet DEF TypeOK
  <2>3. \A u \in Turns : stage[u] = "starting" => u = t
    BY <1>0, <2>1 DEF RunnerOk, Running
  <2>4. CoalescedCarried'
    BY <2>1, <2>2, <2>3 DEF CarriedOk, CoalescedCarried
  <2>5. ASSUME NEW u \in Turns, u \in ToSet(sent')
        PROVE  outcome[u] = "coalesced" \/ stage'[u] \notin {"none", "queued"}
    BY <2>1, <2>2, <2>5 DEF CarriedOk
  <2> QED BY <2>1, <2>4, <2>5 DEF CarriedOk
<1>4. ASSUME NEW t \in Turns, SendQueuedTurnNow(t)
      PROVE  CarriedOk'
  <2>1. current # NoTurn
    BY <1>4 DEF SendQueuedTurnNow, CanStart, ToFront, IsPending, IInv, RunnerOk, ToSet
  <2> QED BY <1>1, <1>4, <2>1 DEF SendQueuedTurnNow, CanStart, ToFront
<1>5. ASSUME NEW S \in SUBSET Turns, NEW r \in Outcomes \ {"coalesced"},
             FinishAs(S, r), UNCHANGED <<stage, prompt, sent>>,
             r = "withdrawn" => S \subseteq ToSet(pending)
      PROVE  CarriedOk'
  <2>1. \A t \in Turns : outcome'[t] = IF t \in S /\ outcome[t] = "none" THEN r
                                       ELSE outcome[t]
    BY <1>5 DEF FinishAs, Finish
  <2>2. r = "withdrawn" => \A t \in S : stage[t] = "queued"
    BY <1>0, <1>5 DEF QueueOk, IsPending
  <2>3. \A t \in Turns : outcome'[t] = "withdrawn" => stage[t] = "queued"
    BY <2>1, <2>2 DEF CarriedOk
  <2> QED BY <1>5, <2>1, <2>3, OthersCarried
<1>6. ASSUME NEW S \in SUBSET ToSet(pending), NEW left, Withdraw(S, left)
      PROVE  CarriedOk'
  <2>1. S \in SUBSET Turns
    BY <1>0 DEF TypeOK, ToSet
  <2> QED BY <1>5, <1>6, <2>1 DEF Withdraw, Outcomes
<1>7. ASSUME NEW pol \in Policies, SetQueuePolicy(pol)
      PROVE  CarriedOk'
  BY <1>1, <1>7 DEF SetQueuePolicy, CanStart, IInv, RunnerOk
<1>8. ASSUME Close PROVE CarriedOk'
  <2>1. \A t \in Turns : outcome'[t] =
          IF t \in ({current} \ {NoTurn}) \cup ToSet(pending) /\ outcome[t] = "none"
          THEN IF t = current THEN "cancelled" ELSE "withdrawn"
          ELSE outcome[t]
    BY <1>8 DEF Close, Finish
  <2>2. UNCHANGED <<stage, prompt, sent>>
    BY <1>8 DEF Close
  <2>3. \A t \in Turns : t \in ToSet(pending) => stage[t] = "queued"
    BY <1>0 DEF QueueOk, IsPending
  <2>4. \A t \in Turns : outcome'[t] = "withdrawn" => stage[t] = "queued"
    BY <2>1, <2>3 DEF CarriedOk
  <2> QED BY <2>1, <2>2, <2>4, OthersCarried
<1>9. ASSUME NEW t \in Turns, StreamEnd(t)
      PROVE  CarriedOk'
  <2>1. CASE stage[t] = "queued" /\ IsPending(t)
    BY <1>5, <1>9, <2>1 DEF StreamEnd, Outcomes, IsPending
  <2>2. CASE stage[t] # "queued" /\ current = t /\ outcome[t] = "none"
    BY <1>5, <1>9, <2>2 DEF StreamEnd, Outcomes
  <2> QED BY <1>1, <1>9, <2>1, <2>2 DEF StreamEnd
<1>10. ASSUME NEW t \in Turns, TimerFires(t)
       PROVE  CarriedOk'
  BY <1>1, <1>5, <1>10 DEF TimerFires, Outcomes
<1>11. ASSUME NEW t \in Turns, PromptReturns(t)
       PROVE  CarriedOk'
  <2>1. \A a : Result(t, a) \in Outcomes \ {"coalesced", "withdrawn"}
    BY DEF Result, Outcomes
  <2>2. PICK a : outcome' = outcome \/ FinishAs({t}, Result(t, a))
    BY <1>11 DEF PromptReturns
  <2>3. /\ stage[t] = "prompting" /\ UNCHANGED <<prompt, sent>>
        /\ \A u \in Turns : stage'[u] = IF u = t THEN "settling" ELSE stage[u]
    BY <1>0, <1>11 DEF PromptReturns, TypeOK
  <2>4. \A u \in Turns :
          \/ outcome'[u] = outcome[u]
          \/ u = t /\ outcome[u] = "none" /\ outcome'[u] \notin {"coalesced", "withdrawn"}
    BY <2>1, <2>2 DEF FinishAs, Finish
  <2>5. \A u \in Turns : outcome'[u] = "withdrawn" => stage'[u] = "queued"
    BY <2>3, <2>4 DEF CarriedOk
  <2> QED BY <2>3, <2>4, <2>5, OthersCarried
<1>12. ASSUME NEW t \in Turns, TurnSettles(t)
       PROVE  CarriedOk'
  <2> DEFINE stg == [stage EXCEPT ![t] = "finished"]
  <2>1. /\ stage[t] = "settling" /\ sent' = sent /\ stg \in [Turns -> Stages]
        /\ \A u \in Turns : stg[u] = IF u = t THEN "finished" ELSE stage[u]
    BY <1>0, <1>12 DEF TurnSettles, TypeOK, Stages
  <2>2. CASE status # "closed" /\ current \in {t, NoTurn} /\ pending # <<>>
    <3>1. StartNext(pending, policy, stg, events, timer)
      BY <1>12, <2>2 DEF TurnSettles
    <3> HIDE DEF stg
    <3>2. \A u \in ToSet(pending) : stg[u] = "queued" /\ outcome[u] = "none"
      BY <1>0, <2>1 DEF QueueOk, IsPending, TypeOK, ToSet
    <3>3. \A u \in Turns : stage[u] # "starting"
      BY <1>0, <2>1 DEF RunnerOk, Running
    <3>4. pending \in Seq(Turns) /\ IsInjective(pending)
      BY <1>0 DEF TypeOK, QueueOk
    <3> QED BY <2>1, <2>2, <3>1, <3>2, <3>3, <3>4, StartNextCarried
  <2>3. CASE ~(status # "closed" /\ current \in {t, NoTurn} /\ pending # <<>>)
    <3>1. stage' = stg /\ UNCHANGED <<outcome, prompt>>
      BY <1>12, <2>3 DEF TurnSettles
    <3> HIDE DEF stg
    <3> QED BY <2>1, <3>1, OthersCarried DEF CarriedOk
  <2> QED BY <2>2, <2>3
<1>13. CASE UNCHANGED vars
  BY <1>1, <1>13 DEF vars
<1>14. CASE Next
  <2>1. ASSUME NEW t \in Turns, WithdrawQueuedTurn(t) PROVE CarriedOk'
    BY <1>6, <2>1 DEF WithdrawQueuedTurn, IsPending
  <2>2. ASSUME ClearQueuedTurns PROVE CarriedOk'
    BY <1>6, <2>2 DEF ClearQueuedTurns
  <2>3. ASSUME \/ \E t \in Turns : CancelTurn(t) \/ DenyPermission(t)
               \/ ControlOperation \/ AgentReceives \/ Dispose \/ LoseConnection
               \/ \E t \in Turns, a \in Answers : AgentAnswers(t, a)
        PROVE  CarriedOk'
    BY <1>1, <2>3 DEF CancelTurn, DenyPermission, ControlOperation,
       AgentReceives, Dispose, LoseConnection, Disconnect, AgentAnswers
  <2> QED
    BY <1>2, <1>3, <1>4, <1>7, <1>8, <1>9, <1>10, <1>11, <1>12, <1>14, <2>1,
       <2>2, <2>3, Zenon DEF Next
<1> QED BY <1>13, <1>14

(* Prompts carry what they should, always.                                 *)
LEMMA Carries == Spec => []CarriedOk
<1>1. Init => CarriedOk
  BY DEF Init, CarriedOk, CoalescedCarried, ToSet
<1> QED BY <1>1, StepCarried, Invariance, PTL DEF Spec

(* A turn that was taken out of the queue, by its host or by its timeout,  *)
(* is part of no prompt, before or after.                                  *)
THEOREM DroppedNeverPromptedHolds == Spec => []DroppedNeverPrompted
<1>1. CarriedOk => DroppedNeverPrompted
  BY DEF CarriedOk, DroppedNeverPrompted
<1> QED BY <1>1, Carries, PTL

(* A turn told "coalesced" has its text in the prompt of another turn.     *)
THEOREM CoalescedCarriedHolds == Spec => []CoalescedCarried
<1>1. CarriedOk => CoalescedCarried
  BY DEF CarriedOk
<1> QED BY <1>1, Carries, PTL
-----------------------------------------------------------------------------
(* The order of the queue.                                                 *)

(* Taking one element out leaves the order of the others.                  *)
LEMMA RemoveAtOrder ==
  ASSUME NEW S, NEW q \in Seq(S), NEW k \in 1 .. Len(q)
  PROVE  /\ \A i, j \in DOMAIN RemoveAt(q, k) : i < j =>
              \E m, n \in DOMAIN q :
                /\ m < n /\ m # k /\ n # k
                /\ RemoveAt(q, k)[i] = q[m] /\ RemoveAt(q, k)[j] = q[n]
         /\ \A m, n \in DOMAIN q : m < n /\ m # k /\ n # k =>
              \E i, j \in DOMAIN RemoveAt(q, k) :
                i < j /\ RemoveAt(q, k)[i] = q[m] /\ RemoveAt(q, k)[j] = q[n]
<1> DEFINE a == SubSeq(q, 1, k - 1)
           b == SubSeq(q, k + 1, Len(q))
           w == RemoveAt(q, k)
           up(n) == IF n < k THEN n ELSE n + 1
           down(n) == IF n < k THEN n ELSE n - 1
<1>1. DOMAIN q = 1 .. Len(q) /\ Len(q) \in Nat
  OBVIOUS
<1>2. a \in Seq(S) /\ Len(a) = k - 1 /\ \A i \in 1 .. k - 1 : a[i] = q[i]
  OBVIOUS
<1>3. b \in Seq(S) /\ Len(b) = Len(q) - k
  OBVIOUS
<1>4. \A i \in 1 .. Len(q) - k : b[i] = q[i + k]
  OBVIOUS
<1>5. w = a \o b
  BY DEF RemoveAt
<1> HIDE DEF a, b, w
<1>6. /\ w \in Seq(S) /\ Len(w) = Len(a) + Len(b)
      /\ \A i \in 1 .. Len(a) + Len(b) :
           w[i] = IF i <= Len(a) THEN a[i] ELSE b[i - Len(a)]
  BY <1>2, <1>3, <1>5, ConcatProperties
<1>7. DOMAIN w = 1 .. Len(q) - 1 /\ Len(a) + Len(b) = Len(q) - 1
  BY <1>2, <1>3, <1>6
<1>8. ASSUME NEW i \in DOMAIN w
      PROVE  up(i) \in DOMAIN q /\ up(i) # k /\ w[i] = q[up(i)]
  <2>1. up(i) \in DOMAIN q /\ up(i) # k
    BY <1>1, <1>7
  <2>2. CASE i < k
    BY <1>2, <1>6, <1>7, <2>2
  <2>3. CASE ~(i < k)
    <3>1. w[i] = b[i - (k - 1)]
      BY <1>2, <1>6, <1>7, <2>3
    <3>2. i - (k - 1) \in 1 .. Len(q) - k /\ (i - (k - 1)) + k = i + 1
      BY <1>7, <2>3
    <3> QED BY <1>4, <2>1, <2>3, <3>1, <3>2
  <2> QED BY <2>1, <2>2, <2>3
<1>9. ASSUME NEW n \in DOMAIN q, n # k
      PROVE  down(n) \in DOMAIN w /\ w[down(n)] = q[n]
  <2>1. down(n) \in DOMAIN w /\ up(down(n)) = n
    BY <1>1, <1>7, <1>9
  <2> QED BY <1>8, <2>1
<1>10. ASSUME NEW i \in DOMAIN w, NEW j \in DOMAIN w, i < j
       PROVE  up(i) < up(j)
  BY <1>7, <1>10
<1>11. ASSUME NEW m \in DOMAIN q, NEW n \in DOMAIN q, m < n, m # k, n # k
       PROVE  down(m) < down(n)
  BY <1>1, <1>11
<1> HIDE DEF up, down
<1> QED BY <1>8, <1>9, <1>10, <1>11 DEF w

(* removePendingTurn leaves the order of the others.                       *)
LEMMA WithoutOrder ==
  ASSUME NEW S, NEW q \in Seq(S), NEW x \in ToSet(q)
  PROVE  /\ \A y, z : Before(Without(q, x), y, z) => Before(q, y, z)
         /\ \A y, z : Before(q, y, z) /\ y # x /\ z # x => Before(Without(q, x), y, z)
<1> DEFINE k == CHOOSE i \in DOMAIN q : q[i] = x
           w == RemoveAt(q, k)
<1>1. k \in DOMAIN q /\ q[k] = x
  BY DEF ToSet
<1>2. Without(q, x) = w
  BY DEF Without
<1> HIDE DEF k
<1>3. k \in 1 .. Len(q)
  BY <1>1
<1>4. /\ \A i, j \in DOMAIN w : i < j =>
           \E m, n \in DOMAIN q : m < n /\ w[i] = q[m] /\ w[j] = q[n]
      /\ \A m, n \in DOMAIN q : m < n /\ m # k /\ n # k =>
           \E i, j \in DOMAIN w : i < j /\ w[i] = q[m] /\ w[j] = q[n]
  BY <1>3, RemoveAtOrder
<1> HIDE DEF w
<1>5. ASSUME NEW y, NEW z, Before(w, y, z) PROVE Before(q, y, z)
  BY <1>4, <1>5 DEF Before
<1>6. ASSUME NEW y, NEW z, Before(q, y, z), y # x, z # x PROVE Before(w, y, z)
  BY <1>1, <1>4, <1>6 DEF Before
<1> QED BY <1>2, <1>5, <1>6

(* push: the new element is last.                                          *)
LEMMA AppendOrder ==
  ASSUME NEW S, NEW q \in Seq(S), NEW x \in S
  PROVE  \A y, z : Before(Append(q, x), y, z) <=>
                     Before(q, y, z) \/ (y \in ToSet(q) /\ z = x)
<1> DEFINE w == Append(q, x)
<1>1. /\ DOMAIN q = 1 .. Len(q) /\ DOMAIN w = 1 .. Len(q) + 1
      /\ \A i \in DOMAIN q : w[i] = q[i]
      /\ w[Len(q) + 1] = x /\ Len(q) \in Nat
  OBVIOUS
<1> HIDE DEF w
<1>2. ASSUME NEW y, NEW z, Before(w, y, z)
      PROVE  Before(q, y, z) \/ (y \in ToSet(q) /\ z = x)
  <2>1. PICK i \in DOMAIN w, j \in DOMAIN w : i < j /\ w[i] = y /\ w[j] = z
    BY <1>2 DEF Before
  <2>2. i \in DOMAIN q /\ q[i] = y
    BY <1>1, <2>1
  <2>3. CASE j \in DOMAIN q
    BY <1>1, <2>1, <2>2, <2>3 DEF Before
  <2>4. CASE j \notin DOMAIN q
    <3>1. j = Len(q) + 1
      BY <1>1, <2>4
    <3> QED BY <1>1, <2>1, <2>2, <3>1 DEF ToSet
  <2> QED BY <2>3, <2>4
<1>3. ASSUME NEW y, NEW z, Before(q, y, z) PROVE Before(w, y, z)
  <2>1. DOMAIN q \subseteq DOMAIN w
    BY <1>1
  <2> QED BY <1>1, <1>3, <2>1 DEF Before
<1>4. ASSUME NEW y \in ToSet(q) PROVE Before(w, y, x)
  <2>1. PICK i \in DOMAIN q : q[i] = y
    BY DEF ToSet
  <2>2. i \in DOMAIN w /\ Len(q) + 1 \in DOMAIN w /\ i < Len(q) + 1
    BY <1>1, <2>1
  <2> QED BY <1>1, <2>1, <2>2 DEF Before
<1> QED BY <1>2, <1>3, <1>4 DEF w

(* unshift: the new element is first.                                      *)
LEMMA UnshiftOrder ==
  ASSUME NEW S, NEW q \in Seq(S), NEW x \in S
  PROVE  \A y, z : Before(<<x>> \o q, y, z) <=>
                     Before(q, y, z) \/ (y = x /\ z \in ToSet(q))
<1> DEFINE w == <<x>> \o q
<1>1. <<x>> \in Seq(S) /\ Len(<<x>>) = 1 /\ <<x>>[1] = x
  OBVIOUS
<1>2. /\ w \in Seq(S) /\ Len(w) = 1 + Len(q)
      /\ \A i \in 1 .. 1 + Len(q) : w[i] = IF i <= 1 THEN x ELSE q[i - 1]
  BY <1>1, ConcatProperties
<1> HIDE DEF w
<1>3. DOMAIN q = 1 .. Len(q) /\ DOMAIN w = 1 .. 1 + Len(q) /\ Len(q) \in Nat
  BY <1>2
<1>4. w[1] = x /\ 1 \in DOMAIN w
  BY <1>2, <1>3
<1>5. \A i \in DOMAIN w : i # 1 => i - 1 \in DOMAIN q /\ w[i] = q[i - 1]
  BY <1>2, <1>3
<1>6. \A j \in DOMAIN q : j + 1 \in DOMAIN w /\ w[j + 1] = q[j]
  BY <1>2, <1>3
<1>7. ASSUME NEW y, NEW z, Before(w, y, z)
      PROVE  Before(q, y, z) \/ (y = x /\ z \in ToSet(q))
  <2>1. PICK i \in DOMAIN w, j \in DOMAIN w : i < j /\ w[i] = y /\ w[j] = z
    BY <1>7 DEF Before
  <2>2. j # 1 /\ j - 1 \in DOMAIN q /\ q[j - 1] = z
    BY <1>3, <1>5, <2>1
  <2>3. CASE i = 1
    BY <1>4, <2>1, <2>2, <2>3 DEF ToSet
  <2>4. CASE i # 1
    <3>1. i - 1 \in DOMAIN q /\ q[i - 1] = y /\ i - 1 < j - 1
      BY <1>3, <1>5, <2>1, <2>4
    <3> QED BY <2>2, <3>1 DEF Before
  <2> QED BY <2>3, <2>4
<1>8. ASSUME NEW y, NEW z, Before(q, y, z) PROVE Before(w, y, z)
  <2>1. PICK i \in DOMAIN q, j \in DOMAIN q : i < j /\ q[i] = y /\ q[j] = z
    BY <1>8 DEF Before
  <2>2. i + 1 \in DOMAIN w /\ j + 1 \in DOMAIN w /\ i + 1 < j + 1
        /\ w[i + 1] = y /\ w[j + 1] = z
    BY <1>3, <1>6, <2>1
  <2> QED BY <2>2 DEF Before
<1>9. ASSUME NEW z \in ToSet(q) PROVE Before(w, x, z)
  <2>1. PICK j \in DOMAIN q : q[j] = z
    BY DEF ToSet
  <2>2. j + 1 \in DOMAIN w /\ 1 < j + 1 /\ w[j + 1] = z
    BY <1>3, <1>6, <2>1
  <2> QED BY <1>4, <2>2 DEF Before
<1> QED BY <1>7, <1>8, <1>9 DEF w

(* In a concatenation the first part comes before the second.              *)
LEMMA ConcatOrder ==
  ASSUME NEW S, NEW p \in Seq(S), NEW q \in Seq(S)
  PROVE  \A y, z : Before(p \o q, y, z) =>
                     \/ Before(p, y, z) \/ Before(q, y, z)
                     \/ y \in ToSet(p) /\ z \in ToSet(q)
<1> DEFINE w == p \o q
<1>1. /\ w \in Seq(S) /\ Len(w) = Len(p) + Len(q)
      /\ \A i \in 1 .. Len(p) + Len(q) :
           w[i] = IF i <= Len(p) THEN p[i] ELSE q[i - Len(p)]
  BY ConcatProperties
<1> HIDE DEF w
<1>2. /\ DOMAIN p = 1 .. Len(p) /\ DOMAIN q = 1 .. Len(q) /\ Len(p) \in Nat
      /\ Len(q) \in Nat /\ DOMAIN w = 1 .. Len(p) + Len(q)
  BY <1>1
<1>3. ASSUME NEW y, NEW z, Before(w, y, z)
      PROVE  \/ Before(p, y, z) \/ Before(q, y, z)
             \/ y \in ToSet(p) /\ z \in ToSet(q)
  <2>1. PICK i \in DOMAIN w, j \in DOMAIN w : i < j /\ w[i] = y /\ w[j] = z
    BY <1>3 DEF Before
  <2>2. CASE j <= Len(p)
    <3>1. i \in DOMAIN p /\ j \in DOMAIN p /\ p[i] = y /\ p[j] = z
      BY <1>1, <1>2, <2>1, <2>2
    <3> QED BY <2>1, <3>1 DEF Before
  <2>3. CASE ~(j <= Len(p))
    <3>1. j - Len(p) \in DOMAIN q /\ q[j - Len(p)] = z
      BY <1>1, <1>2, <2>1, <2>3
    <3>2. CASE i <= Len(p)
      <4>1. i \in DOMAIN p /\ p[i] = y
        BY <1>1, <1>2, <2>1, <3>2
      <4> QED BY <3>1, <4>1 DEF ToSet
    <3>3. CASE ~(i <= Len(p))
      <4>1. i - Len(p) \in DOMAIN q /\ q[i - Len(p)] = y /\ i - Len(p) < j - Len(p)
        BY <1>1, <1>2, <2>1, <3>3
      <4> QED BY <3>1, <4>1 DEF Before
    <3> QED BY <3>2, <3>3
  <2> QED BY <2>2, <2>3
<1> QED BY <1>3 DEF w

(* takeReadyTurnsForDelivery splits the queue without changing its order.  *)
LEMMA TakeReadyOrder ==
  ASSUME NEW q \in Seq(Turns), q # <<>>, NEW pol
  PROVE  LET batch == TakeReady(q, pol)
             rest  == SubSeq(q, Len(batch) + 1, Len(q))
         IN /\ ToSet(batch) \subseteq ToSet(q) /\ ToSet(rest) \subseteq ToSet(q)
            /\ \A u, t : Before(batch, u, t) \/ Before(rest, u, t) => Before(q, u, t)
            /\ \A u \in ToSet(batch), t \in ToSet(rest) : Before(q, u, t)
<1> DEFINE batch == TakeReady(q, pol)
           rest  == SubSeq(q, Len(batch) + 1, Len(q))
<1>1. Len(q) \in Nat \ {0} /\ DOMAIN q = 1 .. Len(q) /\ Head(q) = q[1]
  OBVIOUS
<1>2. CASE pol = "coalesce"
  <2>1. batch = q
    BY <1>2 DEF TakeReady
  <2>2. rest = <<>> /\ ToSet(<<>>) = {} /\ \A u, t : ~Before(<<>>, u, t)
    BY <1>1, <2>1 DEF ToSet, Before
  <2> HIDE DEF batch, rest
  <2> QED BY <2>1, <2>2 DEF batch, rest
<1>3. CASE pol # "coalesce"
  <2>1. batch = <<q[1]>>
    BY <1>1, <1>3 DEF TakeReady
  <2>2. ToSet(batch) = {q[1]} /\ Len(batch) = 1 /\ \A u, t : ~Before(batch, u, t)
    BY <2>1 DEF ToSet, Before
  <2>3. /\ DOMAIN rest = 1 .. Len(q) - 1
        /\ \A i \in DOMAIN rest : rest[i] = q[i + 1]
    BY <1>1, <2>2
  <2> HIDE DEF batch, rest
  <2>4. \A i \in DOMAIN rest : i + 1 \in DOMAIN q /\ 1 < i + 1
    BY <1>1, <2>3
  <2>5. 1 \in DOMAIN q
    BY <1>1
  <2>6. q[1] \in ToSet(q) /\ ToSet(rest) \subseteq ToSet(q)
    BY <2>3, <2>4, <2>5 DEF ToSet
  <2>7. ASSUME NEW u, NEW t, Before(rest, u, t) PROVE Before(q, u, t)
    <3>1. PICK i \in DOMAIN rest, j \in DOMAIN rest : i < j /\ rest[i] = u /\ rest[j] = t
      BY <2>7 DEF Before
    <3>2. i + 1 \in DOMAIN q /\ j + 1 \in DOMAIN q /\ i + 1 < j + 1
          /\ q[i + 1] = u /\ q[j + 1] = t
      BY <1>1, <2>3, <2>4, <3>1
    <3> QED BY <3>2 DEF Before
  <2>8. ASSUME NEW t \in ToSet(rest) PROVE Before(q, q[1], t)
    <3>1. PICK i \in DOMAIN rest : rest[i] = t
      BY DEF ToSet
    <3> QED BY <2>3, <2>4, <2>5, <3>1 DEF Before
  <2> QED BY <2>2, <2>6, <2>7, <2>8 DEF batch, rest
<1> QED BY <1>2, <1>3

-----------------------------------------------------------------------------
(* u may be prompted before t: it is another turn and arrived first or was *)
(* promoted.                                                               *)
Ahead(u, t) == u # t /\ (Before(arrived, t, u) => u \in ToSet(promoted))

(* A queue q: first those that were promoted, the latest first, then the   *)
(* others of all as they arrived.                                          *)
InLine(q, first, all) ==
  \A t, u \in Turns :
    Before(q, t, u) =>
      IF t \in ToSet(first)
      THEN u \in ToSet(first) => Before(first, t, u)
      ELSE u \notin ToSet(first) /\ Before(all, t, u)

(* The prompt of a turn that is being started goes before the queue and    *)
(* after all that was sent.                                                *)
StartInLine(v) ==
  /\ \A u, t \in Turns : Before(prompt[v], u, t) => Ahead(u, t)
  /\ \A u \in ToSet(sent), t \in ToSet(prompt[v]) : Ahead(u, t)
  /\ \A u \in ToSet(prompt[v]), t \in ToSet(pending) : Ahead(u, t)

OrderOk ==
  /\ IsInjective(arrived) /\ IsInjective(promoted)
  /\ ToSet(arrived) = {t \in Turns : stage[t] # "none"}
  /\ ToSet(promoted) \subseteq ToSet(arrived)
  /\ InLine(pending, promoted, arrived)
  /\ \A u, t \in Turns : Before(sent, u, t) => Ahead(u, t)
  /\ \A u \in ToSet(sent), t \in ToSet(pending) : Ahead(u, t)
  /\ \A v \in Turns : stage[v] = "starting" => StartInLine(v)

(* In a sequence without repetitions one of two comes first.               *)
LEMMA BeforeOneWay ==
  ASSUME NEW S, NEW s \in Seq(S), IsInjective(s), NEW x, NEW y, Before(s, x, y)
  PROVE  ~Before(s, y, x) /\ x # y /\ x \in ToSet(s) /\ y \in ToSet(s)
<1>1. PICK i \in DOMAIN s, j \in DOMAIN s : i < j /\ s[i] = x /\ s[j] = y
  BY DEF Before
<1>2. \A m, n \in DOMAIN s : s[m] = s[n] => m = n
  BY DEF IsInjective
<1>3. DOMAIN s = 1 .. Len(s)
  OBVIOUS
<1>4. ASSUME Before(s, y, x) PROVE FALSE
  <2>1. PICK m \in DOMAIN s, n \in DOMAIN s : m < n /\ s[m] = y /\ s[n] = x
    BY <1>4 DEF Before
  <2>2. m = j /\ n = i
    BY <1>1, <1>2, <2>1
  <2> QED BY <1>1, <1>3, <2>1, <2>2
<1>5. x # y
  BY <1>1, <1>2, <1>3
<1> QED BY <1>1, <1>4, <1>5 DEF ToSet

(* Who is before another in the queue arrived before it or was promoted.   *)
LEMMA QueueAhead ==
  ASSUME NEW arr \in Seq(Turns), IsInjective(arr), NEW prom,
         NEW q \in Seq(Turns), IsInjective(q),
         \A x, y \in Turns : Before(q, x, y) => x \in ToSet(prom) \/ Before(arr, x, y),
         NEW u \in Turns, NEW t \in Turns, Before(q, u, t)
  PROVE  u # t /\ (Before(arr, t, u) => u \in ToSet(prom))
<1>1. u # t
  BY BeforeOneWay
<1>2. Before(arr, u, t) => ~Before(arr, t, u)
  BY BeforeOneWay
<1> QED BY <1>1, <1>2

(* Turns leave the queue, or nothing happens to it.                        *)
LEMMA ShorterQueue ==
  ASSUME OrderOk, UNCHANGED <<arrived, promoted, sent, prompt>>,
         \A t \in Turns : /\ stage'[t] = "none" <=> stage[t] = "none"
                          /\ stage'[t] = "starting" => stage[t] = "starting",
         \A t, u : Before(pending', t, u) => Before(pending, t, u),
         ToSet(pending') \subseteq ToSet(pending)
  PROVE  OrderOk'
<1>1. \A u, t : Ahead(u, t)' <=> Ahead(u, t)
  BY DEF Ahead
<1>2. InLine(pending, promoted, arrived)'
  BY DEF OrderOk, InLine
<1>3. ASSUME NEW v \in Turns, stage'[v] = "starting" PROVE StartInLine(v)'
  <2>1. StartInLine(v)
    BY <1>3 DEF OrderOk
  <2> QED BY <1>1, <2>1 DEF StartInLine
<1>4. ToSet(arrived)' = {t \in Turns : stage'[t] # "none"}
  BY DEF OrderOk
<1> QED BY <1>1, <1>2, <1>3, <1>4 DEF OrderOk

(* A start with queue q, where nothing else is being started.              *)
LEMMA StartNextOrder ==
  ASSUME IInv, NEW q \in Seq(Turns), q # <<>>, IsInjective(q), NEW pol,
         NEW stg \in [Turns -> Stages], NEW ev, NEW tm,
         StartNext(q, pol, stg, ev, tm), UNCHANGED <<sent, promoted>>,
         arrived' \in Seq(Turns), IsInjective(arrived'), IsInjective(promoted),
         ToSet(arrived') = {t \in Turns : stg[t] # "none"},
         ToSet(promoted) \subseteq ToSet(arrived'),
         \A t \in Turns : stg[t] # "starting",
         \A t \in ToSet(q) : stg[t] # "none",
         InLine(q, promoted', arrived'),
         \A u, t \in Turns : Before(sent, u, t) => Ahead(u, t)',
         \A u \in ToSet(sent), t \in ToSet(q) : Ahead(u, t)'
  PROVE  OrderOk'
<1> DEFINE batch == TakeReady(q, pol)
           rest  == SubSeq(q, Len(batch) + 1, Len(q))
<1>1. /\ stage' = [stg EXCEPT ![Head(batch)] = "starting"]
      /\ prompt' = [prompt EXCEPT ![Head(batch)] = batch]
      /\ pending' = rest
  BY DEF StartNext
<1>2. /\ ToSet(batch) \subseteq ToSet(q) /\ ToSet(rest) \subseteq ToSet(q)
      /\ \A u, t : Before(batch, u, t) \/ Before(rest, u, t) => Before(q, u, t)
      /\ \A u \in ToSet(batch), t \in ToSet(rest) : Before(q, u, t)
  BY TakeReadyOrder
<1>3. Head(batch) = q[1] /\ q[1] \in Turns /\ q[1] \in ToSet(q)
  BY TakeReadyShape
<1> HIDE DEF batch, rest
<1>4. ASSUME NEW u \in Turns, NEW t \in Turns, Before(q, u, t)
      PROVE  Ahead(u, t)'
  <2>1. \A x, y \in Turns :
          Before(q, x, y) => x \in ToSet(promoted') \/ Before(arrived', x, y)
    BY DEF InLine
  <2> QED BY <1>4, <2>1, QueueAhead DEF Ahead
<1>5. InLine(pending, promoted, arrived)'
  BY <1>1, <1>2 DEF InLine
<1>6. ToSet(q) \subseteq Turns
  BY DEF ToSet
<1>7. ASSUME NEW v \in Turns, stage'[v] = "starting" PROVE StartInLine(v)'
  <2>1. v = q[1] /\ prompt'[v] = batch
    BY <1>1, <1>3, <1>7 DEF IInv, TypeOK
  <2>2. \A u, t \in Turns : Before(batch, u, t) => Ahead(u, t)'
    BY <1>2, <1>4
  <2>3. \A u \in ToSet(sent), t \in ToSet(batch) : Ahead(u, t)'
    BY <1>2
  <2>4. \A u \in ToSet(batch), t \in ToSet(rest) : Ahead(u, t)'
    BY <1>2, <1>4, <1>6
  <2> QED BY <1>1, <2>1, <2>2, <2>3, <2>4 DEF StartInLine
<1>8. ToSet(arrived') = {t \in Turns : stage'[t] # "none"}
  <2>1. \A t \in Turns : stage'[t] = IF t = q[1] THEN "starting" ELSE stg[t]
    BY <1>1, <1>3
  <2> QED BY <1>3, <2>1
<1> QED BY <1>1, <1>2, <1>5, <1>7, <1>8 DEF OrderOk

(* Every step keeps the order of queue and prompts.                        *)
LEMMA StepOrder == IInv /\ CarriedOk /\ OrderOk /\ [Next]_vars => OrderOk'
<1> SUFFICES ASSUME IInv, CarriedOk, OrderOk, [Next]_vars PROVE OrderOk'
  OBVIOUS
<1> USE DEF queueVars, streamVars, agentVars
<1>0. TypeOK /\ RunnerOk /\ QueueOk /\ OutcomeOk
  BY DEF IInv
<1>1. ASSUME UNCHANGED <<arrived, promoted, sent, prompt, pending>>,
             \A t \in Turns : /\ stage'[t] = "none" <=> stage[t] = "none"
                              /\ stage'[t] = "starting" => stage[t] = "starting"
      PROVE  OrderOk'
  BY <1>1, ShorterQueue
<1>2. ASSUME NEW t \in Turns, NEW timed \in BOOLEAN, StartTurn(t, timed)
      PROVE  OrderOk'
  <2> DEFINE q   == Append(pending, t)
             stg == [stage EXCEPT ![t] = "queued"]
             ev  == [events EXCEPT ![t] = Append(@, "queued")]
             tm  == IF timed THEN timer \cup {t} ELSE timer
  <2>1. /\ stage[t] = "none" /\ UNCHANGED <<sent, promoted>>
        /\ arrived' = Append(arrived, t)
    BY <1>2 DEF StartTurn
  <2>2. /\ pending \in Seq(Turns) /\ IsInjective(pending) /\ t \notin ToSet(pending)
        /\ arrived \in Seq(Turns) /\ IsInjective(arrived) /\ t \notin ToSet(arrived)
        /\ ToSet(pending) \subseteq ToSet(arrived)
    <3>1. ToSet(pending) \subseteq Turns
      BY <1>0 DEF TypeOK, ToSet
    <3> QED BY <1>0, <2>1, <3>1 DEF QueueOk, IsPending, TypeOK, OrderOk
  <2>3. /\ q \in Seq(Turns) /\ q # <<>> /\ IsInjective(q)
        /\ ToSet(q) = ToSet(pending) \cup {t}
    BY <2>2, AppendShape
  <2>4. /\ arrived' \in Seq(Turns) /\ IsInjective(arrived')
        /\ ToSet(arrived') = ToSet(arrived) \cup {t}
    BY <2>1, <2>2, AppendShape
  <2>5. \A x, y : Before(q, x, y) <=> Before(pending, x, y) \/ (x \in ToSet(pending) /\ y = t)
    BY <2>2, AppendOrder
  <2>6. \A x, y : Before(arrived', x, y) <=>
                    Before(arrived, x, y) \/ (x \in ToSet(arrived) /\ y = t)
    BY <2>1, <2>2, AppendOrder
  <2>7. /\ stg \in [Turns -> Stages]
        /\ \A u \in Turns : stg[u] = IF u = t THEN "queued" ELSE stage[u]
    BY <1>0 DEF TypeOK, Stages
  <2>8. ToSet(arrived') = {u \in Turns : stg[u] # "none"}
    BY <2>4, <2>7 DEF OrderOk
  <2>9. \A x, y : Before(arrived, x, y) => x \in ToSet(arrived) /\ y \in ToSet(arrived)
    BY <2>2, BeforeOneWay
  <2>10. ToSet(sent) \subseteq ToSet(arrived)
    <3>1. ToSet(sent) \subseteq Turns
      BY <1>0 DEF TypeOK, ToSet
    <3> QED BY <1>0, <3>1 DEF CarriedOk, OutcomeOk, OrderOk
  <2> HIDE DEF q, stg, ev, tm
  <2>11. ASSUME NEW u \in ToSet(arrived), NEW v, Ahead(u, v) PROVE Ahead(u, v)'
    BY <2>1, <2>2, <2>6, <2>11 DEF Ahead
  <2>12. ASSUME NEW u \in ToSet(arrived) PROVE Ahead(u, t)'
    BY <2>2, <2>6, <2>9 DEF Ahead
  <2>13. InLine(q, promoted', arrived')
    <3> SUFFICES ASSUME NEW x \in Turns, NEW y \in Turns, Before(q, x, y)
                 PROVE  IF x \in ToSet(promoted)
                        THEN y \in ToSet(promoted) => Before(promoted, x, y)
                        ELSE y \notin ToSet(promoted) /\ Before(arrived', x, y)
      BY <2>1 DEF InLine
    <3>1. CASE Before(pending, x, y)
      BY <2>6, <3>1 DEF OrderOk, InLine
    <3>2. CASE x \in ToSet(pending) /\ y = t
      BY <2>2, <2>6, <3>2 DEF OrderOk
    <3> QED BY <2>5, <3>1, <3>2
  <2>14. \A u, v \in Turns : Before(sent, u, v) => Ahead(u, v)'
    <3>1. \A u, v \in Turns : Before(sent, u, v) => u \in ToSet(sent)
      BY DEF Before, ToSet
    <3> QED BY <2>10, <2>11, <3>1 DEF OrderOk
  <2>15. \A u \in ToSet(sent), v \in ToSet(q) : Ahead(u, v)'
    BY <2>3, <2>10, <2>11, <2>12 DEF OrderOk
  <2>16. ToSet(promoted) \subseteq ToSet(arrived')
    BY <2>4 DEF OrderOk
  <2>17. CASE CanStart
    <3>1. StartNext(q, policy, stg, ev, tm)
      BY <1>2, <2>17 DEF StartTurn, q, stg, ev, tm
    <3>2. \A u \in Turns : stg[u] # "starting"
      BY <1>0, <2>7, <2>17, ConstantsAssumption DEF CanStart, RunnerOk, Running
    <3>3. \A u \in ToSet(q) : stg[u] # "none"
      BY <2>2, <2>3, <2>4, <2>8
    <3>4. IsInjective(promoted)
      BY DEF OrderOk
    <3> QED BY <2>1, <2>3, <2>4, <2>7, <2>8, <2>13, <2>14, <2>15, <2>16, <3>1,
               <3>2, <3>3, <3>4, StartNextOrder
  <2>18. CASE ~CanStart
    <3>1. pending' = q /\ stage' = stg /\ prompt' = prompt
      BY <1>2, <2>18 DEF StartTurn, q, stg
    <3>2. ASSUME NEW v \in Turns, stage'[v] = "starting" PROVE StartInLine(v)'
      <4>1. stage[v] = "starting" /\ StartInLine(v)
        BY <2>7, <3>1, <3>2 DEF OrderOk
      <4>2. ToSet(prompt[v]) \subseteq ToSet(arrived)
        <5>1. ToSet(prompt[v]) \subseteq Turns
          BY <1>0 DEF TypeOK, ToSet
        <5> QED BY <1>0, <5>1 DEF CarriedOk, OutcomeOk, OrderOk
      <4>3. \A u, w \in Turns : Before(prompt[v], u, w) => Ahead(u, w)'
        <5>1. \A u, w \in Turns : Before(prompt[v], u, w) => u \in ToSet(prompt[v])
          BY DEF Before, ToSet
        <5> QED BY <2>11, <4>1, <4>2, <5>1 DEF StartInLine
      <4>4. \A u \in ToSet(sent), w \in ToSet(prompt[v]) : Ahead(u, w)'
        BY <2>10, <2>11, <4>1 DEF StartInLine
      <4>5. \A u \in ToSet(prompt[v]), w \in ToSet(q) : Ahead(u, w)'
        BY <2>3, <2>11, <2>12, <4>1, <4>2 DEF StartInLine
      <4> QED BY <2>1, <3>1, <4>3, <4>4, <4>5 DEF StartInLine
    <3> QED BY <2>1, <2>4, <2>8, <2>13, <2>14, <2>15, <2>16, <3>1, <3>2 DEF OrderOk
  <2> QED BY <2>17, <2>18
<1>3. ASSUME NEW t \in Turns, SendPrompt(t)
      PROVE  OrderOk'
  <2>1. /\ stage[t] = "starting" /\ sent' = sent \o prompt[t]
        /\ UNCHANGED <<arrived, promoted, pending, prompt>>
        /\ \A u \in Turns : stage'[u] = IF u = t THEN "prompting" ELSE stage[u]
    BY <1>0, <1>3 DEF SendPrompt, TypeOK
  <2>2. StartInLine(t) /\ \A u, v : Ahead(u, v)' <=> Ahead(u, v)
    BY <2>1 DEF OrderOk, Ahead
  <2>3. /\ ToSet(sent') = ToSet(sent) \cup ToSet(prompt[t])
        /\ \A u, v : Before(sent', u, v) =>
             \/ Before(sent, u, v) \/ Before(prompt[t], u, v)
             \/ u \in ToSet(sent) /\ v \in ToSet(prompt[t])
    BY <1>0, <2>1, ConcatSet, ConcatOrder DEF TypeOK
  <2>4. \A v \in Turns : stage'[v] # "starting"
    BY <1>0, <2>1 DEF RunnerOk, Running
  <2>5. \A u, v \in Turns : Before(sent', u, v) => Ahead(u, v)'
    BY <2>2, <2>3 DEF OrderOk, StartInLine
  <2>6. \A u \in ToSet(sent'), v \in ToSet(pending) : Ahead(u, v)'
    BY <2>2, <2>3 DEF OrderOk, StartInLine
  <2>7. ToSet(arrived') = {u \in Turns : stage'[u] # "none"}
    BY <2>1 DEF OrderOk
  <2> QED BY <2>1, <2>4, <2>5, <2>6, <2>7 DEF OrderOk
<1>4. ASSUME NEW t \in Turns, SendQueuedTurnNow(t)
      PROVE  OrderOk'
  <2>1. t \in ToSet(pending) /\ current # NoTurn
    BY <1>0, <1>4 DEF SendQueuedTurnNow, CanStart, IsPending, RunnerOk, ToSet
  <2>2. /\ pending' = <<t>> \o Without(pending, t)
        /\ promoted' = <<t>> \o (IF t \in ToSet(promoted) THEN Without(promoted, t)
                                 ELSE promoted)
        /\ UNCHANGED <<arrived, stage, prompt, sent>>
    BY <1>4, <2>1 DEF SendQueuedTurnNow, CanStart, ToFront
  <2>3. PICK rest \in Seq(Turns) :
          /\ promoted' = <<t>> \o rest /\ IsInjective(rest)
          /\ ToSet(rest) = ToSet(promoted) \ {t}
          /\ \A x, y : Before(promoted, x, y) /\ x # t /\ y # t => Before(rest, x, y)
    <3>1. promoted \in Seq(Turns) /\ IsInjective(promoted)
      BY <1>0 DEF TypeOK, OrderOk
    <3>2. CASE t \in ToSet(promoted)
      BY <2>2, <3>1, <3>2, WithoutShape, WithoutOrder
    <3>3. CASE t \notin ToSet(promoted)
      BY <2>2, <3>1, <3>3
    <3> QED BY <3>2, <3>3
  <2>4. PICK left \in Seq(Turns) :
          /\ pending' = <<t>> \o left /\ ToSet(left) = ToSet(pending) \ {t}
          /\ \A x, y : Before(left, x, y) => Before(pending, x, y)
    <3>1. pending \in Seq(Turns) /\ IsInjective(pending)
      BY <1>0 DEF TypeOK, QueueOk
    <3> QED BY <2>1, <2>2, <3>1, WithoutShape, WithoutOrder
  <2>5. /\ IsInjective(promoted') /\ ToSet(promoted') = ToSet(promoted) \cup {t}
        /\ \A x, y : Before(promoted', x, y) <=>
                       Before(rest, x, y) \/ (x = t /\ y \in ToSet(rest))
    BY <2>3, UnshiftShape, UnshiftOrder
  <2>6. /\ ToSet(pending') = ToSet(pending)
        /\ \A x, y : Before(pending', x, y) <=>
                       Before(left, x, y) \/ (x = t /\ y \in ToSet(left))
    <3>1. /\ ToSet(pending') = ToSet(left) \cup {t}
          /\ \A x, y : Before(pending', x, y) <=>
                         Before(left, x, y) \/ (x = t /\ y \in ToSet(left))
      BY <2>4, UnshiftShape, UnshiftOrder
    <3>2. ToSet(left) \cup {t} = ToSet(pending)
      BY <2>1, <2>4
    <3> QED BY <3>1, <3>2
  <2>7. \A u, v : Ahead(u, v) => Ahead(u, v)'
    BY <2>2, <2>5 DEF Ahead
  <2>8. InLine(pending', promoted', arrived')
    <3> SUFFICES ASSUME NEW x \in Turns, NEW y \in Turns, Before(pending', x, y)
                 PROVE  IF x \in ToSet(promoted')
                        THEN y \in ToSet(promoted') => Before(promoted', x, y)
                        ELSE y \notin ToSet(promoted') /\ Before(arrived, x, y)
      BY <2>2 DEF InLine
    <3>1. CASE Before(left, x, y)
      <4>1. x # t /\ y # t
        <5>1. x \in ToSet(left) /\ y \in ToSet(left)
          BY <3>1 DEF Before, ToSet
        <5> QED BY <2>4, <5>1
      <4>2. Before(pending, x, y)
        BY <2>4, <3>1
      <4> QED BY <2>3, <2>5, <4>1, <4>2 DEF OrderOk, InLine
    <3>2. CASE x = t /\ y \in ToSet(left)
      BY <2>3, <2>4, <2>5, <3>2
    <3> QED BY <2>6, <3>1, <3>2
  <2>9. ASSUME NEW v \in Turns, stage'[v] = "starting" PROVE StartInLine(v)'
    <3>1. StartInLine(v)
      BY <2>2, <2>9 DEF OrderOk
    <3> QED BY <2>2, <2>6, <2>7, <3>1 DEF StartInLine
  <2>10. ToSet(promoted') \subseteq ToSet(arrived)
    <3>1. stage[t] # "none"
      BY <1>0, <2>1 DEF QueueOk, IsPending
    <3> QED BY <2>5, <3>1 DEF OrderOk
  <2> QED BY <2>2, <2>5, <2>6, <2>7, <2>8, <2>9, <2>10 DEF OrderOk
<1>5. ASSUME UNCHANGED <<arrived, promoted, sent, prompt, stage>>,
             \/ pending' = pending \/ pending' = <<>>
             \/ \E t \in ToSet(pending) : pending' = Without(pending, t)
      PROVE  OrderOk'
  <2>1. CASE pending' = <<>>
    <3>1. ToSet(pending') = {} /\ \A x, y : ~Before(pending', x, y)
      BY <2>1 DEF ToSet, Before
    <3> QED BY <1>5, <3>1, ShorterQueue
  <2>2. CASE \E t \in ToSet(pending) : pending' = Without(pending, t)
    <3>1. PICK t \in ToSet(pending) : pending' = Without(pending, t)
      BY <2>2
    <3>2. pending \in Seq(Turns) /\ IsInjective(pending)
      BY <1>0 DEF TypeOK, QueueOk
    <3>3. ToSet(pending') \subseteq ToSet(pending)
      BY <3>1, <3>2, WithoutShape
    <3>4. \A x, y : Before(pending', x, y) => Before(pending, x, y)
      BY <3>1, <3>2, WithoutOrder
    <3> QED BY <1>5, <3>3, <3>4, ShorterQueue
  <2> QED BY <1>1, <1>5, <2>1, <2>2
<1>6. ASSUME NEW t \in Turns, PromptReturns(t)
      PROVE  OrderOk'
  <2>1. /\ UNCHANGED <<arrived, promoted, sent, prompt, pending>>
        /\ stage[t] = "prompting"
        /\ \A u \in Turns : stage'[u] = IF u = t THEN "settling" ELSE stage[u]
    BY <1>0, <1>6 DEF PromptReturns, TypeOK
  <2> QED BY <1>1, <2>1
<1>7. ASSUME NEW t \in Turns, TurnSettles(t)
      PROVE  OrderOk'
  <2> DEFINE stg == [stage EXCEPT ![t] = "finished"]
  <2>1. /\ stage[t] = "settling" /\ UNCHANGED <<arrived, promoted, sent>>
        /\ stg \in [Turns -> Stages]
        /\ \A u \in Turns : stg[u] = IF u = t THEN "finished" ELSE stage[u]
    BY <1>0, <1>7 DEF TurnSettles, TypeOK, Stages
  <2>2. CASE status # "closed" /\ current \in {t, NoTurn} /\ pending # <<>>
    <3>1. StartNext(pending, policy, stg, events, timer)
      BY <1>7, <2>2 DEF TurnSettles
    <3> HIDE DEF stg
    <3>2. pending \in Seq(Turns) /\ IsInjective(pending) /\ arrived \in Seq(Turns)
      BY <1>0 DEF TypeOK, QueueOk
    <3>3. \A u \in Turns : stg[u] # "starting"
      BY <1>0, <2>1 DEF RunnerOk, Running
    <3>4. ToSet(arrived) = {u \in Turns : stg[u] # "none"}
      BY <2>1 DEF OrderOk
    <3>5. \A u \in ToSet(pending) : stg[u] # "none"
      <4>1. ToSet(pending) \subseteq Turns
        BY <3>2 DEF ToSet
      <4> QED BY <1>0, <2>1, <4>1 DEF QueueOk, IsPending
    <3>6. InLine(pending, promoted', arrived')
      BY <2>1 DEF OrderOk
    <3>7. \A u, v : Ahead(u, v) => Ahead(u, v)'
      BY <2>1 DEF Ahead
    <3> QED BY <2>1, <2>2, <3>1, <3>2, <3>3, <3>4, <3>5, <3>6, <3>7,
               StartNextOrder DEF OrderOk
  <2>3. CASE ~(status # "closed" /\ current \in {t, NoTurn} /\ pending # <<>>)
    <3>1. stage' = stg /\ UNCHANGED <<pending, prompt>>
      BY <1>7, <2>3 DEF TurnSettles
    <3> HIDE DEF stg
    <3> QED BY <1>1, <2>1, <3>1
  <2> QED BY <2>2, <2>3
<1>8. CASE UNCHANGED vars
  BY <1>1, <1>8 DEF vars
<1>9. CASE Next
  <2>1. ASSUME NEW t \in Turns,
               WithdrawQueuedTurn(t) \/ StreamEnd(t) \/ TimerFires(t)
        PROVE  OrderOk'
    BY <1>5, <2>1 DEF WithdrawQueuedTurn, Withdraw, StreamEnd, TimerFires, IsPending
  <2>2. ASSUME ClearQueuedTurns \/ Close PROVE OrderOk'
    BY <1>5, <2>2 DEF ClearQueuedTurns, Withdraw, Close
  <2>3. ASSUME NEW pol \in Policies, SetQueuePolicy(pol) PROVE OrderOk'
    BY <1>0, <1>5, <2>3 DEF SetQueuePolicy, CanStart, RunnerOk
  <2>4. ASSUME \/ \E t \in Turns : CancelTurn(t) \/ DenyPermission(t)
               \/ ControlOperation \/ AgentReceives \/ Dispose \/ LoseConnection
               \/ \E t \in Turns, a \in Answers : AgentAnswers(t, a)
        PROVE  OrderOk'
    BY <1>5, <2>4 DEF CancelTurn, CancelCurrent, DenyPermission, ControlOperation,
       AgentReceives, Dispose, LoseConnection, Disconnect, AgentAnswers
  <2> QED
    BY <1>2, <1>3, <1>4, <1>6, <1>7, <1>9, <2>1, <2>2, <2>3, <2>4, Zenon DEF Next
<1> QED BY <1>8, <1>9

(* The queue is served in order for any number of turns, and nothing but   *)
(* sendQueuedTurnNow lets a turn overtake another or be prompted twice.    *)
THEOREM QueueOrderHolds == Spec => []QueueOrder
<1>1. Init => OrderOk
  <2>1. IsInjective(<<>>) /\ ToSet(<<>>) = {} /\ \A x, y : ~Before(<<>>, x, y)
    BY DEF IsInjective, ToSet, Before
  <2> QED BY <2>1 DEF Init, OrderOk, InLine
<1>2. IInv /\ OrderOk => QueueOrder
  <2> SUFFICES ASSUME IInv, OrderOk PROVE QueueOrder
    OBVIOUS
  <2>1. pending \in Seq(Turns) /\ sent \in Seq(Turns)
    BY DEF IInv, TypeOK
  <2>2. ASSUME NEW i \in DOMAIN pending, NEW j \in DOMAIN pending, i < j
        PROVE  IF pending[i] \in ToSet(promoted)
               THEN pending[j] \in ToSet(promoted) => Before(promoted, pending[i], pending[j])
               ELSE /\ pending[j] \notin ToSet(promoted)
                    /\ Before(arrived, pending[i], pending[j])
    <3>1. Before(pending, pending[i], pending[j]) /\ pending[i] \in Turns /\ pending[j] \in Turns
      BY <2>1, <2>2 DEF Before
    <3> QED BY <3>1 DEF OrderOk, InLine
  <2>3. ASSUME NEW i \in DOMAIN sent, NEW j \in DOMAIN sent, i < j
        PROVE  /\ sent[i] # sent[j]
               /\ Before(arrived, sent[j], sent[i]) => sent[i] \in ToSet(promoted)
    <3>1. Before(sent, sent[i], sent[j]) /\ sent[i] \in Turns /\ sent[j] \in Turns
      BY <2>1, <2>3 DEF Before
    <3> QED BY <3>1 DEF OrderOk, Ahead
  <2> QED BY <2>2, <2>3 DEF QueueOrder
<1> QED BY <1>1, <1>2, StepOrder, Invariance, Carries, PTL DEF Spec
============================================================================
