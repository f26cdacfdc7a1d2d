--------------------------- MODULE SimulatorProofs ---------------------------
(***************************************************************************)
(* Proofs about Simulator, for any set of sessions and of faults and any   *)
(* environment: first about the scripts a prompt goes through, then the    *)
(* invariant step by step, then that of the store.                         *)
(***************************************************************************)
EXTENDS Simulator, SequenceTheorems, TLAPS

-----------------------------------------------------------------------------
(* Scripts.  What is left of a script after its first n steps.             *)
LeftOf(b, a, n) ==
  /\ n \in 0..Len(a) /\ b \in Seq(ScriptStep) /\ Len(b) = Len(a) - n
  /\ \A i \in 1..Len(b) : b[i] = a[i + n]

(* Before its first step all of a script is left.                          *)
LEMMA LeftSame ==
  ASSUME NEW a \in Seq(ScriptStep)
  PROVE  LeftOf(a, a, 0)
BY DEF LeftOf

(* Nothing is left of nothing but nothing.                                 *)
LEMMA LeftNothing ==
  ASSUME NEW a \in Seq(ScriptStep)
  PROVE  LeftOf(<<>>, a, Len(a))
BY DEF LeftOf

(* What is left after one more step is the tail of what was left.          *)
LEMMA LeftTail ==
  ASSUME NEW a \in Seq(ScriptStep), a # <<>>
  PROVE  LeftOf(Tail(a), a, 1)
BY HeadTailProperties DEF LeftOf

(* The last step of a script is left as long as anything is.               *)
LEMMA LeftLast ==
  ASSUME NEW a \in Seq(ScriptStep), a # <<>>
  PROVE  LeftOf(<<Last(a)>>, a, Len(a) - 1)
BY DEF LeftOf, Last

(* A subsequence up to the end of a script is what is left of it.          *)
LEMMA LeftSub ==
  ASSUME NEW a \in Seq(ScriptStep), NEW n \in 0..Len(a)
  PROVE  LeftOf(SubSeq(a, n + 1, Len(a)), a, n)
BY SubSeqProperties DEF LeftOf

(* What is left of an ordered script is ordered.                           *)
LEMMA LeftOrdered ==
  ASSUME NEW a \in Seq(ScriptStep), NEW b, NEW n, LeftOf(b, a, n), Ordered(a)
  PROVE  Ordered(b)
<1>1. n \in Nat /\ Len(a) \in Nat /\ Len(b) = Len(a) - n /\ n <= Len(a)
  BY DEF LeftOf
<1>2. ASSUME NEW i \in 1..Len(b)
      PROVE  /\ i + n \in 1..Len(a) /\ b[i] = a[i + n]
             /\ i = Len(b) <=> i + n = Len(a)
             /\ \A k \in 1..3 : \A do : Followed(a, i + n, k, do) => Followed(b, i, k, do)
  <2>1. i + n \in 1..Len(a) /\ b[i] = a[i + n]
    BY <1>1 DEF LeftOf
  <2>2. ASSUME NEW k \in 1..3, NEW do, Followed(a, i + n, k, do)
        PROVE  Followed(b, i, k, do)
    <3>1. i + k \in 1..Len(b) /\ i + k + n = i + n + k
      BY <1>1, <2>2 DEF Followed
    <3>2. b[i + k] = a[i + k + n]
      BY <3>1 DEF LeftOf
    <3>3. a[i + k + n] = a[i + n + k]
      BY <3>1
    <3> QED BY <2>1, <2>2, <3>1, <3>2, <3>3 DEF Followed
  <2> QED BY <1>1, <2>1, <2>2
<1>3. 1 \in 1..3 /\ 2 \in 1..3 /\ 3 \in 1..3
  OBVIOUS
<1> QED BY <1>2, <1>3 DEF Ordered, InOrder

(* Where a tool is under way its end is ahead.                             *)
LEMMA EndAhead ==
  ASSUME NEW p \in Prompts, p.todo # <<>>, Ordered(p.todo),
         Head(p.todo).do \in {"call", "permission", "end"}
  PROVE  \E n \in 1..Len(p.todo) :
           /\ n < Len(p.todo) /\ p.todo[n].do = "end"
           /\ ToolOver(p) = [p EXCEPT !.todo = SubSeq(p.todo, n + 1, Len(p.todo)),
                                      !.leave = "none"]
<1> DEFINE t == p.todo
           First(i) == t[i].do = "end" /\ \A j \in 1..(i - 1) : t[j].do # "end"
<1>1. t \in Seq(ScriptStep) /\ Len(t) \in Nat \ {0} /\ Head(t) = t[1]
  BY DEF Prompts
<1>2. \E i \in DOMAIN t : First(i)
  <2>1. CASE t[1].do = "call"
    <3>1. t[2].do = "permission" /\ t[3].do = "use" /\ t[4].do = "end" /\ 4 <= Len(t)
      BY <1>1, <2>1 DEF Ordered, InOrder, Followed
    <3>2. 4 \in DOMAIN t /\ First(4)
      BY <1>1, <2>1, <3>1
    <3> QED BY <3>2
  <2>2. CASE t[1].do = "permission"
    <3>1. t[2].do = "use" /\ t[3].do = "end" /\ 3 <= Len(t)
      BY <1>1, <2>2 DEF Ordered, InOrder, Followed
    <3>2. 3 \in DOMAIN t /\ First(3)
      BY <1>1, <2>2, <3>1
    <3> QED BY <3>2
  <2>3. CASE t[1].do = "end"
    <3>1. 1 \in DOMAIN t /\ First(1)
      BY <1>1, <2>3
    <3> QED BY <3>1
  <2> QED BY <1>1, <2>1, <2>2, <2>3
<1> DEFINE n == CHOOSE i \in DOMAIN t : First(i)
<1>3. n \in DOMAIN t /\ First(n)
  BY <1>2
<1>4. n # Len(t)
  <2>1. n \in 1..Len(t) /\ t[n].do = "end"
    BY <1>1, <1>3
  <2> HIDE DEF n
  <2>2. t[n].do = "finish" <=> n = Len(t)
    BY <2>1 DEF Ordered, InOrder
  <2> QED BY <2>1, <2>2
<1>5. ToolOver(p) = [p EXCEPT !.todo = SubSeq(@, n + 1, Len(@)), !.leave = "none"]
  BY DEF ToolOver
<1>6. n \in 1..Len(t) /\ n < Len(t) /\ t[n].do = "end"
  BY <1>1, <1>3, <1>4
<1> HIDE DEF n
<1>7. ToolOver(p) = [p EXCEPT !.todo = SubSeq(t, n + 1, Len(t)), !.leave = "none"]
  BY <1>5
<1> QED BY <1>6, <1>7

-----------------------------------------------------------------------------
(* The scripts of the actions are in order.                                *)
Placed(a, i) ==
  /\ a[i].do = "call" => /\ Followed(a, i, 1, "permission")
                         /\ Followed(a, i, 2, "use")
                         /\ Followed(a, i, 3, "end")
  /\ a[i].do = "permission" => /\ Followed(a, i, 1, "use")
                               /\ Followed(a, i, 2, "end")
  /\ a[i].do = "use" => Followed(a, i, 1, "end")
  /\ a[i].do \in ToolDos <=> a[i].tool # "none"
  /\ a[i].do # "finish"

Part(a) == a \in Seq(ScriptStep) /\ \A i \in 1..Len(a) : Placed(a, i)

(* What follows step i of a follows step j of b.                           *)
Carried(a, i, b, j) ==
  /\ Followed(a, i, 1, "permission") => Followed(b, j, 1, "permission")
  /\ Followed(a, i, 2, "use") => Followed(b, j, 2, "use")
  /\ Followed(a, i, 3, "end") => Followed(b, j, 3, "end")
  /\ Followed(a, i, 1, "use") => Followed(b, j, 1, "use")
  /\ Followed(a, i, 2, "end") => Followed(b, j, 2, "end")
  /\ Followed(a, i, 1, "end") => Followed(b, j, 1, "end")

(* A step stays where it belongs when more script follows or precedes.     *)
LEMMA CarriedConcat ==
  ASSUME NEW a \in Seq(ScriptStep), NEW b \in Seq(ScriptStep)
  PROVE  /\ \A i \in 1..Len(a) : Carried(a, i, a \o b, i)
         /\ \A i \in 1..Len(b) : Carried(b, i, a \o b, i + Len(a))
<1>1. /\ Len(a) \in Nat /\ Len(b) \in Nat /\ Len(a \o b) = Len(a) + Len(b)
      /\ \A i \in 1..Len(a) : (a \o b)[i] = a[i]
      /\ \A i \in 1..Len(b) : (a \o b)[i + Len(a)] = b[i]
  BY ConcatProperties
<1> DEFINE c == a \o b
<1> HIDE DEF c
<1>2. ASSUME NEW i \in 1..Len(a) PROVE Carried(a, i, c, i)
  BY <1>1 DEF Carried, Followed, c
<1>3. ASSUME NEW i \in 1..Len(b) PROVE Carried(b, i, c, i + Len(a))
  <2>1. c[i + Len(a)] = b[i]
    BY <1>1 DEF c
  <2>2. ASSUME NEW k \in 1..3, i + k <= Len(b)
        PROVE  c[i + Len(a) + k] = b[i + k] /\ i + Len(a) + k <= Len(c)
    <3>1. i + k \in 1..Len(b) /\ i + Len(a) + k = (i + k) + Len(a)
      BY <1>1, <2>2
    <3>2. c[(i + k) + Len(a)] = b[i + k]
      BY <1>1, <3>1 DEF c
    <3> QED BY <1>1, <3>1, <3>2 DEF c
  <2>3. /\ i + 1 <= Len(b) => c[i + Len(a) + 1] = b[i + 1] /\ i + Len(a) + 1 <= Len(c)
        /\ i + 2 <= Len(b) => c[i + Len(a) + 2] = b[i + 2] /\ i + Len(a) + 2 <= Len(c)
        /\ i + 3 <= Len(b) => c[i + Len(a) + 3] = b[i + 3] /\ i + Len(a) + 3 <= Len(c)
    BY <2>2
  <2> QED BY <2>1, <2>3 DEF Carried, Followed
<1> QED BY <1>2, <1>3 DEF c

(* Parts of a script make up a part of a script.                           *)
LEMMA PartConcat ==
  ASSUME NEW a, NEW b, Part(a), Part(b)
  PROVE  Part(a \o b)
<1>1. a \in Seq(ScriptStep) /\ b \in Seq(ScriptStep) /\ a \o b \in Seq(ScriptStep)
  BY ConcatProperties DEF Part
<1>2. /\ Len(a) \in Nat /\ Len(b) \in Nat /\ Len(a \o b) = Len(a) + Len(b)
      /\ \A i \in 1..Len(a) : (a \o b)[i] = a[i]
      /\ \A i \in 1..Len(b) : (a \o b)[i + Len(a)] = b[i]
  BY <1>1, ConcatProperties
<1>3. \A i \in 1..Len(a) : Carried(a, i, a \o b, i)
  BY <1>1, CarriedConcat
<1>4. \A i \in 1..Len(b) : Carried(b, i, a \o b, i + Len(a))
  BY <1>1, CarriedConcat
<1>5. ASSUME NEW j \in 1..Len(a \o b)
      PROVE  \/ j \in 1..Len(a)
             \/ \E i \in 1..Len(b) : j = i + Len(a)
  <2>1. CASE j > Len(a)
    <3>1. j - Len(a) \in 1..Len(b) /\ j = (j - Len(a)) + Len(a)
      BY <1>2, <2>1
    <3> QED BY <3>1
  <2> QED BY <1>2, <2>1
<1>6. ASSUME NEW i \in 1..Len(a) PROVE Placed(a \o b, i)
  <2>1. Placed(a, i) /\ (a \o b)[i] = a[i]
    BY <1>2, <1>6 DEF Part
  <2> QED BY <1>3, <1>6, <2>1 DEF Placed, Carried
<1>7. ASSUME NEW i \in 1..Len(b) PROVE Placed(a \o b, i + Len(a))
  <2>1. Placed(b, i) /\ (a \o b)[i + Len(a)] = b[i]
    BY <1>2, <1>7 DEF Part
  <2> QED BY <1>4, <1>7, <2>1 DEF Placed, Carried
<1>8. \A j \in 1..Len(a \o b) : Placed(a \o b, j)
  BY <1>5, <1>6, <1>7
<1> QED BY <1>1, <1>8 DEF Part

(* A part closed by the finish is an ordered script.                       *)
LEMMA PartFinish ==
  ASSUME NEW a, Part(a), NEW st \in ScriptStep, st.do = "finish", st.tool = "none"
  PROVE  a \o <<st>> \in Seq(ScriptStep) /\ a \o <<st>> # <<>> /\ Ordered(a \o <<st>>)
<1> DEFINE b == <<st>>
<1>0. b \in Seq(ScriptStep) /\ Len(b) = 1 /\ b[1] = st
  OBVIOUS
<1> HIDE DEF b
<1>1. a \in Seq(ScriptStep) /\ a \o b \in Seq(ScriptStep)
  BY <1>0, ConcatProperties DEF Part
<1>2. /\ Len(a) \in Nat /\ Len(a \o b) = Len(a) + 1
      /\ \A i \in 1..Len(a) : (a \o b)[i] = a[i]
      /\ (a \o b)[Len(a) + 1] = st
  <2>1. /\ Len(a) \in Nat /\ Len(a \o b) = Len(a) + Len(b)
        /\ \A i \in 1..Len(a) : (a \o b)[i] = a[i]
        /\ \A i \in 1..Len(b) : (a \o b)[i + Len(a)] = b[i]
    BY <1>0, <1>1, ConcatProperties DEF Part
  <2>2. 1 \in 1..Len(b)
    BY <1>0
  <2> QED BY <1>0, <2>1, <2>2
<1>3. \A i \in 1..Len(a) : Carried(a, i, a \o b, i)
  BY <1>0, <1>1, CarriedConcat
<1>5. ASSUME NEW i \in 1..Len(a) PROVE InOrder(a \o b, i)
  <2>1. Placed(a, i) /\ (a \o b)[i] = a[i]
    BY <1>2, <1>5 DEF Part
  <2>3. i # Len(a \o b)
    BY <1>2
  <2> QED BY <1>3, <1>5, <2>1, <2>3 DEF Placed, InOrder, Carried
<1>6. InOrder(a \o b, Len(a) + 1)
  BY <1>2 DEF InOrder, ToolDos
<1>7. \A i \in 1..Len(a \o b) : i \in 1..Len(a) \/ i = Len(a) + 1
  BY <1>2
<1>8. Ordered(a \o b)
  BY <1>5, <1>6, <1>7 DEF Ordered, InOrder
<1>9. a \o b # <<>>
  BY <1>2
<1> QED BY <1>1, <1>8, <1>9 DEF b

(* One step that is no tool's is a part of a script.                       *)
LEMMA PartStep ==
  ASSUME NEW st \in ScriptStep, st.do \notin ToolDos \cup {"finish"}, st.tool = "none"
  PROVE  Part(<<st>>)
BY DEF Part, Placed, ToolDos

(* No steps are a part of a script.                                        *)
LEMMA PartNothing == Part(<<>>)
BY DEF Part

(* The four steps of a tool are a part of a script.                        *)
LEMMA PartTool ==
  ASSUME NEW tool \in Tools
  PROVE  Part(UseTool(tool))
BY DEF Part, Placed, UseTool, Step, ScriptStep, Dos, ToolDos, Tools, Followed

(* What Prompt puts together for a scenario is an ordered script.          *)
LEMMA ScriptOrdered ==
  ASSUME NEW action \in Actions, NEW todo,
         todo = Opening(action) \o <<Step("strike", "none")>> \o Script(action)
                  \o Closing(action)
  PROVE  todo \in Seq(ScriptStep) /\ todo # <<>> /\ Ordered(todo)
<1>1. \A do \in Dos \ (ToolDos \cup {"finish"}) : Part(<<Step(do, "none")>>)
  BY PartStep DEF Step, ScriptStep, Dos, ToolDos
<1>2. \A do \in Dos \ (ToolDos \cup {"finish"}), i \in Nat : Part(Plan(do, i))
  BY PartStep DEF Step, Plan, ScriptStep, Dos, ToolDos
<1>3. Part(Opening(action))
  <2>1. Part(Plan("arm", IF action \in {"plan", "scenario"} THEN 1 ELSE 0))
    BY <1>2 DEF Dos, ToolDos
  <2>2. Part(IF action # "rename" THEN <<Step("title", "none")>> ELSE <<>>)
    BY <1>1, PartNothing DEF Dos, ToolDos
  <2> QED BY <2>1, <2>2, PartConcat DEF Opening
<1>4. Part(Script(action))
  <2>1. CASE action \in {"describe", "plan"}
    BY <2>1, PartNothing DEF Script, Tools
  <2>2. CASE action \in Tools
    BY <2>2, PartTool DEF Script, Tools
  <2>3. CASE action = "rename"
    BY <2>3, <1>1 DEF Script, Tools, Dos, ToolDos
  <2>4. CASE action = "simulate"
    BY <2>4, <1>1 DEF Script, Tools, Dos, ToolDos
  <2>5. CASE action = "scenario"
    <3>1. Part(UseTool("read")) /\ Part(UseTool("run")) /\ Part(UseTool("write"))
      BY PartTool DEF Tools
    <3>2. Part(Plan("plan", 2)) /\ Part(Plan("plan", 3)) /\ Part(Plan("plan", 4))
      BY <1>2 DEF Dos, ToolDos
    <3>3. Part(UseTool("read") \o Plan("plan", 2))
      BY <3>1, <3>2, PartConcat
    <3>4. Part(UseTool("read") \o Plan("plan", 2) \o UseTool("run"))
      BY <3>1, <3>3, PartConcat
    <3>5. Part(UseTool("read") \o Plan("plan", 2) \o UseTool("run") \o Plan("plan", 3))
      BY <3>2, <3>4, PartConcat
    <3>6. Part(UseTool("read") \o Plan("plan", 2) \o UseTool("run") \o Plan("plan", 3)
                 \o UseTool("write"))
      BY <3>1, <3>5, PartConcat
    <3>7. Part(UseTool("read") \o Plan("plan", 2) \o UseTool("run") \o Plan("plan", 3)
                 \o UseTool("write") \o Plan("plan", 4))
      BY <3>2, <3>6, PartConcat
    <3>8. Script(action) = UseTool("read") \o Plan("plan", 2) \o UseTool("run")
                             \o Plan("plan", 3) \o UseTool("write") \o Plan("plan", 4)
      BY <2>5 DEF Script, Tools
    <3> QED BY <3>7, <3>8
  <2> QED BY <2>1, <2>2, <2>3, <2>4, <2>5, SimulatorAssumption DEF Tools
<1>5. Part(<<Step("strike", "none")>>)
  BY <1>1 DEF Dos, ToolDos
<1>6. Part(Opening(action) \o <<Step("strike", "none")>>)
  BY <1>3, <1>5, PartConcat
<1>7. Part(Opening(action) \o <<Step("strike", "none")>> \o Script(action))
  BY <1>4, <1>6, PartConcat
<1>8. \E st \in ScriptStep : st.do = "finish" /\ st.tool = "none" /\ Closing(action) = <<st>>
  BY DEF Closing, Plan, Step, ScriptStep, Dos
<1> QED BY <1>7, <1>8, PartFinish

-----------------------------------------------------------------------------
(* What the handlers do to a prompt.  Updates change what the client has   *)
(* seen of it, nothing else.                                               *)
SameButSeen(p, q) ==
  /\ q \in Prompts
  /\ q.queues = p.queues /\ q.todo = p.todo /\ q.fault = p.fault
  /\ q.leave = p.leave /\ q.aborted = p.aborted /\ q.alone = p.alone
  /\ q.wait = p.wait

(* Sending an update changes only what the client has seen.                *)
LEMMA SentSame ==
  ASSUME NEW p \in Prompts, NEW status \in Statuses
  PROVE  SameButSeen(p, Sent(p, status))
<1>1. ToolUpdate(p.flag, status) \in Seq(Statuses)
  <2>1. <<>> \in Seq(Statuses) /\ <<status>> \in Seq(Statuses)
        /\ <<status, status>> \in Seq(Statuses)
    OBVIOUS
  <2> QED BY <2>1 DEF ToolUpdate
<1>2. p.tool \o ToolUpdate(p.flag, status) \in Seq(Statuses)
  BY <1>1, ConcatProperties DEF Prompts
<1> QED BY <1>2 DEF SameButSeen, Sent, Prompts

(* Sending a tool's status changes only what the client has seen.          *)
LEMMA SentCallSame ==
  ASSUME NEW p \in Prompts
  PROVE  SameButSeen(p, SentCall(p))
<1>1. ToolCall(p.flag) \in Seq(Statuses)
  <2>1. <<"pending">> \in Seq(Statuses) /\ <<"pending", "completed">> \in Seq(Statuses)
    BY DEF Statuses
  <2> QED BY <2>1 DEF ToolCall
<1> QED BY <1>1 DEF SameButSeen, SentCall, Prompts

(* Sending a plan changes only what the client has seen.                   *)
LEMMA SentPlanSame ==
  ASSUME NEW p \in Prompts, NEW i \in Nat
  PROVE  SameButSeen(p, SentPlan(p, i))
<1>1. PlanUpdate(p.flag, i) \in Seq(Nat)
  BY DEF PlanUpdate
<1>2. p.plan \o PlanUpdate(p.flag, i) \in Seq(Nat)
  BY <1>1, ConcatProperties DEF Prompts
<1> QED BY <1>2 DEF SameButSeen, SentPlan, Prompts

(* A script has steps left exactly when its length says so.                *)
LEMMA NonEmpty ==
  ASSUME NEW s \in Seq(ScriptStep)
  PROVE  Len(s) \in Nat /\ (s = <<>> <=> Len(s) = 0)
BY EmptySeq, LenProperties

(* The first of the steps to do.                                           *)
LEMMA HeadOf ==
  ASSUME NEW p \in Prompts, p.todo # <<>>
  PROVE  /\ Head(p.todo) = p.todo[1] /\ Head(p.todo) \in ScriptStep
         /\ Len(p.todo) \in Nat /\ Len(p.todo) >= 1
         /\ \A i \in 1..Len(p.todo) : p.todo[i] \in ScriptStep
BY DEF Prompts

(* Advancing takes the first step off, whatever it was.                    *)
LEMMA AdvancedTo ==
  ASSUME NEW p \in Prompts, p.todo # <<>>, Ordered(p.todo)
  PROVE  /\ Advanced(p) \in Prompts
         /\ Advanced(p) = [p EXCEPT !.todo = Tail(p.todo)]
         /\ Ordered(Tail(p.todo))
         /\ \A i \in 1..(Len(p.todo) - 1) : Tail(p.todo)[i] = p.todo[i + 1]
         /\ Len(Tail(p.todo)) = Len(p.todo) - 1
         /\ Head(p.todo).do # "finish" => Tail(p.todo) # <<>>
         /\ \A do \in Dos :
              Followed(p.todo, 1, 1, do) =>
                /\ Tail(p.todo) # <<>> /\ Head(Tail(p.todo)).do = do
                /\ Head(Tail(p.todo)).tool = Head(p.todo).tool
<1> DEFINE t == p.todo
<1>1. t \in Seq(ScriptStep) /\ t # <<>> /\ Head(t) = t[1] /\ Len(t) \in Nat
  BY DEF Prompts
<1>2. LeftOf(Tail(t), t, 1)
  BY <1>1, LeftTail
<1>3. Ordered(Tail(t))
  BY <1>1, <1>2, LeftOrdered
<1>4. /\ Tail(t) \in Seq(ScriptStep) /\ Len(Tail(t)) = Len(t) - 1
      /\ \A i \in 1..(Len(t) - 1) : Tail(t)[i] = t[i + 1]
  BY <1>2 DEF LeftOf
<1>5. Head(t).do # "finish" => Tail(t) # <<>>
  <2>1. ASSUME Tail(t) = <<>> PROVE Len(t) = 1
    <3>1. Len(Tail(t)) = 0
      BY <1>4, <2>1, NonEmpty
    <3> QED BY <1>1, <1>4, <3>1
  <2> QED BY <1>1, <2>1 DEF Ordered, InOrder
<1>6. ASSUME NEW do \in Dos, Followed(t, 1, 1, do)
      PROVE  /\ Tail(t) # <<>> /\ Head(Tail(t)).do = do
             /\ Head(Tail(t)).tool = Head(t).tool
  <2>1. 2 <= Len(t) /\ t[2].do = do /\ t[2].tool = t[1].tool
    BY <1>6 DEF Followed
  <2>2. 1 \in 1..(Len(t) - 1) /\ Tail(t) # <<>>
    <3>1. 1 \in 1..(Len(t) - 1) /\ Len(Tail(t)) # 0
      BY <1>1, <1>4, <2>1
    <3> QED BY <1>4, <3>1, NonEmpty
  <2>3. Tail(t)[1] = t[2] /\ Head(Tail(t)) = Tail(t)[1]
    BY <1>4, <2>2
  <2> QED BY <1>1, <2>1, <2>2, <2>3
<1>7. Advanced(p) = [p EXCEPT !.todo = Tail(t)]
  BY DEF Advanced
<1>8. Advanced(p) \in Prompts
  BY <1>4, <1>7 DEF Prompts
<1> QED BY <1>3, <1>4, <1>5, <1>6, <1>7, <1>8

(* Only the finish is left of a script cut down to its last step.          *)
LEMMA LastOf ==
  ASSUME NEW p \in Prompts, p.todo # <<>>, Ordered(p.todo)
  PROVE  /\ <<Last(p.todo)>> \in Seq(ScriptStep) /\ Ordered(<<Last(p.todo)>>)
         /\ Head(<<Last(p.todo)>>).do = "finish"
         /\ <<Last(p.todo)>> # <<>> /\ Len(<<Last(p.todo)>>) = 1
         /\ <<Last(p.todo)>>[1] = p.todo[Len(p.todo)]
<1> DEFINE t == p.todo
<1>1. t \in Seq(ScriptStep) /\ Len(t) \in Nat \ {0}
  BY DEF Prompts
<1>2. LeftOf(<<Last(t)>>, t, Len(t) - 1)
  BY <1>1, LeftLast
<1>3. Ordered(<<Last(t)>>)
  BY <1>1, <1>2, LeftOrdered
<1>4. Last(t) = t[Len(t)] /\ t[Len(t)].do = "finish"
  BY <1>1 DEF Last, Ordered, InOrder
<1> QED BY <1>2, <1>3, <1>4 DEF LeftOf

(* An error in a tool leaves the prompt its finish.                        *)
LEMMA ThrownTo ==
  ASSUME NEW p \in Prompts, p.todo # <<>>, Ordered(p.todo)
  PROVE  /\ Thrown(p) \in Prompts
         /\ Thrown(p) = [p EXCEPT !.todo = <<Last(p.todo)>>]
<1>1. Thrown(p) = [p EXCEPT !.todo = <<Last(p.todo)>>]
  BY DEF Thrown
<1> QED BY <1>1, LastOf DEF Prompts

(* A tool that is over leaves what follows its end.                        *)
LEMMA ToolOverTo ==
  ASSUME NEW p \in Prompts, p.todo # <<>>, Ordered(p.todo),
         Head(p.todo).do \in {"call", "permission", "end"}
  PROVE  /\ ToolOver(p) \in Prompts
         /\ ToolOver(p) = [p EXCEPT !.todo = ToolOver(p).todo, !.leave = "none"]
         /\ ToolOver(p).todo # <<>> /\ Ordered(ToolOver(p).todo)
<1> DEFINE t == p.todo
<1>1. PICK n \in 1..Len(t) :
        /\ n < Len(t)
        /\ ToolOver(p) = [p EXCEPT !.todo = SubSeq(t, n + 1, Len(t)), !.leave = "none"]
  BY EndAhead
<1>2. t \in Seq(ScriptStep) /\ Len(t) \in Nat /\ n \in 0..Len(t)
  BY DEF Prompts
<1>3. LeftOf(SubSeq(t, n + 1, Len(t)), t, n)
  BY <1>2, LeftSub
<1> DEFINE u == SubSeq(t, n + 1, Len(t))
<1>4. u \in Seq(ScriptStep) /\ u # <<>> /\ Ordered(u)
  <2>1. Ordered(u)
    BY <1>2, <1>3, LeftOrdered
  <2>2. u \in Seq(ScriptStep) /\ Len(u) = Len(t) - n
    BY <1>3 DEF LeftOf
  <2>3. Len(u) # 0
    BY <1>1, <1>2, <2>2
  <2> QED BY <2>1, <2>2, <2>3, NonEmpty
<1> HIDE DEF u
<1>5. ToolOver(p) = [p EXCEPT !.todo = u, !.leave = "none"]
  BY <1>1 DEF u
<1>6. ToolOver(p) \in Prompts /\ ToolOver(p).todo = u
  BY <1>4, <1>5 DEF Prompts
<1> QED BY <1>4, <1>5, <1>6

(* A cancelled prompt has its finish left.                                 *)
LEMMA AbortedTo ==
  ASSUME NEW p \in Prompts, p.todo # <<>>, Ordered(p.todo)
  PROVE  /\ Aborted(p) \in Prompts
         /\ Aborted(p).todo # <<>> /\ Ordered(Aborted(p).todo)
         /\ \/ Aborted(p) = [p EXCEPT !.aborted = TRUE]
            \/ /\ p.wait \in {"sleeping", "hung"}
               /\ Aborted(p) = [p EXCEPT !.aborted = TRUE, !.wait = "no",
                                         !.todo = <<Last(p.todo)>>]
<1>1. CASE p.wait \in {"sleeping", "hung"}
  <2>1. Aborted(p) = [p EXCEPT !.aborted = TRUE, !.wait = "no", !.todo = <<Last(p.todo)>>]
    BY <1>1 DEF Aborted, Prompts
  <2> QED BY <1>1, <2>1, LastOf, ZenonT(60) DEF Prompts, Waits
<1>2. CASE p.wait \notin {"sleeping", "hung"}
  <2>1. Aborted(p) = [p EXCEPT !.aborted = TRUE]
    BY <1>2 DEF Aborted, Prompts
  <2> QED BY <1>2, <2>1 DEF Prompts
<1> QED BY <1>1, <1>2

(* No prompt is a prompt with nothing to do.                               *)
LEMMA IdlePrompt == Idle \in Prompts /\ Ordered(Idle.todo) /\ Idle.todo = <<>>
                    /\ Idle.wait = "no" /\ Idle.leave = "none" /\ Idle.queues = "none"
BY DEF Idle, Prompts, Waits, Ordered

-----------------------------------------------------------------------------
PromptPart == prompt \in Prompts /\ PromptOk /\ LeaveOk

(* A prompt that is over.                                                  *)
LEMMA OverPart ==
  ASSUME prompt' = Idle, saves'["prompt"].stage = "none"
  PROVE  PromptPart'
BY IdlePrompt
   DEF PromptPart, PromptOk, LeaveOk, Running, Struck, PromptSaves, Waits

(* Where the prompt is at a step, what it has in hand.                     *)
LEMMA AtStep ==
  ASSUME PromptPart, NEW do \in Dos, At(do)
  PROVE  /\ prompt.todo # <<>> /\ Ordered(prompt.todo) /\ prompt.todo \in Seq(ScriptStep)
         /\ prompt.wait = "no" /\ saves["prompt"].stage = "none"
         /\ Head(prompt.todo) = prompt.todo[1] /\ Head(prompt.todo) \in ScriptStep
         /\ Head(prompt.todo).do = do
         /\ Len(prompt.todo) >= 1 /\ Len(prompt.todo) \in Nat
         /\ InOrder(prompt.todo, 1)
         /\ do \notin {"use", "end", "finish"} => prompt.leave = "none"
<1>1. prompt.todo # <<>> /\ Head(prompt.todo).do = do /\ prompt.wait = "no"
  BY DEF At, Running
<1>2. /\ Head(prompt.todo) = prompt.todo[1] /\ Head(prompt.todo) \in ScriptStep
      /\ Len(prompt.todo) >= 1 /\ Len(prompt.todo) \in Nat
  BY <1>1, HeadOf DEF PromptPart
<1>3. InOrder(prompt.todo, 1)
  <2>1. 1 \in 1..Len(prompt.todo)
    BY <1>2
  <2> QED BY <2>1 DEF PromptPart, PromptOk, Ordered
<1>4. saves["prompt"].stage = "none"
  BY <1>1 DEF PromptPart, PromptOk, PromptSaves
<1> QED BY <1>1, <1>2, <1>3, <1>4 DEF PromptPart, PromptOk, LeaveOk, Prompts

(* The prompt goes on to its next step, saving or not.                     *)
LEMMA AdvancesPart ==
  ASSUME PromptPart, NEW do \in Dos \ {"permission", "use", "end", "finish"}, At(do),
         NEW p, SameButSeen([Advanced(prompt) EXCEPT !.fault = p.fault], p), prompt' = p,
         saves'["prompt"] = saves["prompt"]
  PROVE  PromptPart'
<1>1. /\ prompt.todo # <<>> /\ Ordered(prompt.todo) /\ prompt.wait = "no"
      /\ saves["prompt"].stage = "none" /\ prompt.leave = "none"
  BY AtStep
<1>2. /\ Advanced(prompt) \in Prompts /\ Ordered(Tail(prompt.todo))
      /\ Advanced(prompt) = [prompt EXCEPT !.todo = Tail(prompt.todo)]
  BY <1>1, AdvancedTo DEF PromptPart
<1>3. p \in Prompts /\ p.todo = Tail(prompt.todo) /\ p.wait = "no" /\ p.leave = "none"
  BY <1>1, <1>2 DEF SameButSeen, Prompts
<1> QED BY <1>1, <1>2, <1>3
  DEF PromptPart, PromptOk, LeaveOk, Struck, PromptSaves

(* The prompt saves and goes on waiting where it is.                       *)
LEMMA SavesPart ==
  ASSUME PromptPart, NEW do \in {"title", "rename", "queue"}, At(do),
         prompt' = Saving(Advanced(prompt)), saves'["prompt"].stage # "none"
  PROVE  PromptPart'
<1>1. /\ prompt.todo # <<>> /\ Ordered(prompt.todo) /\ Head(prompt.todo).do = do
      /\ prompt.leave = "none"
  BY AtStep DEF Dos
<1>2. /\ Advanced(prompt) \in Prompts /\ Ordered(Tail(prompt.todo))
      /\ Advanced(prompt) = [prompt EXCEPT !.todo = Tail(prompt.todo)]
      /\ Tail(prompt.todo) # <<>>
  BY <1>1, AdvancedTo DEF PromptPart
<1>3. /\ prompt' \in Prompts /\ prompt'.todo = Tail(prompt.todo)
      /\ prompt'.wait = "saving" /\ prompt'.leave = "none"
  BY <1>1, <1>2 DEF Saving, Prompts, Waits
<1> QED BY <1>1, <1>2, <1>3
  DEF PromptPart, PromptOk, LeaveOk, Running, Struck, PromptSaves

(* A tool that is over leaves a prompt that waits for nothing.             *)
LEMMA ToolOverWait ==
  ASSUME NEW p \in Prompts, p.todo # <<>>, Ordered(p.todo),
         Head(p.todo).do \in {"call", "permission", "end"}
  PROVE  ToolOver(p) \in Prompts /\ ToolOver(p).wait = p.wait
         /\ ToolOver(p).queues = p.queues /\ ToolOver(p).fault = p.fault
<1> DEFINE o == ToolOver(p)
           u == o.todo
<1>1. o \in Prompts /\ o = [p EXCEPT !.todo = u, !.leave = "none"]
  BY ToolOverTo
<1> HIDE DEF o, u
<1>2. o.wait = p.wait /\ o.queues = p.queues /\ o.fault = p.fault
  BY <1>1 DEF Prompts
<1> QED BY <1>1, <1>2 DEF o

(* The tool is let through, or not.                                        *)
LEMMA AllowedPart ==
  ASSUME PromptPart, prompt.todo # <<>>, Head(prompt.todo).do = "permission",
         NEW how \in {"mode", "rule", "answer"}, Allowed(how),
         saves'["prompt"].stage = "none",
         how = "rule" => live.rules[Tool] = "allow", live'.rules = live.rules
  PROVE  PromptPart'
<1>1. Ordered(prompt.todo) /\ prompt \in Prompts
  BY DEF PromptPart, PromptOk
<1>2. InOrder(prompt.todo, 1) /\ Head(prompt.todo) = prompt.todo[1]
  <2>1. Head(prompt.todo) = prompt.todo[1] /\ 1 \in 1..Len(prompt.todo)
    BY <1>1, HeadOf
  <2> QED BY <1>1, <2>1 DEF Ordered
<1>3. Followed(prompt.todo, 1, 1, "use")
  BY <1>2 DEF InOrder
<1> DEFINE a == Advanced(prompt)
<1>4. /\ a \in Prompts /\ a = [prompt EXCEPT !.todo = Tail(prompt.todo)]
      /\ Ordered(Tail(prompt.todo)) /\ Tail(prompt.todo) # <<>>
      /\ Head(Tail(prompt.todo)).do = "use"
      /\ Head(Tail(prompt.todo)).tool = Head(prompt.todo).tool
  BY <1>1, <1>3, AdvancedTo DEF Dos
<1>5. SameButSeen(a, Sent(a, "in_progress"))
  BY <1>4, SentSame DEF Statuses
<1> DEFINE b == Sent(a, "in_progress")
<1>6. prompt' = [b EXCEPT !.leave = how, !.wait = "no"]
  BY DEF Allowed
<1>8. SameButSeen(a, b) /\ a.todo = Tail(prompt.todo)
  BY <1>4, <1>5 DEF Prompts
<1> HIDE DEF a, b
<1>7. /\ prompt' \in Prompts /\ prompt'.todo = Tail(prompt.todo)
      /\ prompt'.wait = "no" /\ prompt'.leave = how
  BY <1>8, <1>6 DEF SameButSeen, Prompts, Waits
<1> QED BY <1>4, <1>7
  DEF PromptPart, PromptOk, LeaveOk, Running, Struck, PromptSaves, Tool

(* A tool that is over leaves the prompt in order.                         *)
LEMMA OverToolPart ==
  ASSUME PromptPart, prompt.todo # <<>>,
         Head(prompt.todo).do \in {"call", "permission", "end"},
         NEW p, SameButSeen([ToolOver(prompt) EXCEPT !.wait = "no"], p), prompt' = p,
         saves'["prompt"].stage = "none"
  PROVE  PromptPart'
<1>1. /\ ToolOver(prompt) \in Prompts
      /\ ToolOver(prompt) = [prompt EXCEPT !.todo = ToolOver(prompt).todo,
                                           !.leave = "none"]
      /\ ToolOver(prompt).todo # <<>> /\ Ordered(ToolOver(prompt).todo)
  BY ToolOverTo DEF PromptPart, PromptOk
<1>2. /\ p \in Prompts /\ p.todo = ToolOver(prompt).todo
      /\ p.wait = "no" /\ p.leave = "none"
  BY <1>1 DEF SameButSeen, Prompts
<1> QED BY <1>1, <1>2
  DEF PromptPart, PromptOk, LeaveOk, Struck, PromptSaves

(* A refusal leaves the prompt in order, whoever refuses.                  *)
LEMMA DeniedPart ==
  ASSUME PromptPart, prompt.todo # <<>>, Head(prompt.todo).do = "permission",
         Denied, saves'["prompt"].stage = "none"
  PROVE  PromptPart'
<1> DEFINE o == ToolOver(prompt)
<1>1. o \in Prompts
  BY ToolOverTo DEF PromptPart, PromptOk
<1>2. SameButSeen(o, Sent(o, "failed"))
  BY <1>1, SentSame DEF Statuses
<1>3. prompt' = [Sent(o, "failed") EXCEPT !.wait = "no"]
  BY DEF Denied
<1>4. SameButSeen([o EXCEPT !.wait = "no"], [Sent(o, "failed") EXCEPT !.wait = "no"])
  <2> DEFINE q == Sent(o, "failed")
  <2>1. SameButSeen(o, q) /\ o \in Prompts
    BY <1>1, <1>2
  <2> HIDE DEF o, q
  <2>2. SameButSeen([o EXCEPT !.wait = "no"], [q EXCEPT !.wait = "no"])
    BY <2>1, SMTT(40) DEF SameButSeen, Prompts, Waits
  <2> QED BY <2>2 DEF q
<1> QED BY <1>3, <1>4, OverToolPart

-----------------------------------------------------------------------------
(* A step that leaves the prompt and its save alone.                       *)
LEMMA PromptUnchanged ==
  ASSUME PromptPart, prompt' = prompt, saves'["prompt"].stage = saves["prompt"].stage,
         \/ live'.rules = live.rules
         \/ prompt.leave = "none"
  PROVE  PromptPart'
BY DEF PromptPart, PromptOk, LeaveOk, Running, Tool, PromptSaves, Struck

(* Every step of the agent keeps the prompt in order.                      *)
LEMMA StepPrompt ==
  ASSUME IInv, [Next]_vars
  PROVE  PromptPart'
<1> USE SimulatorAssumption
<1>0. PromptPart /\ TypeOK /\ ServedOk /\ RulesOk
  BY DEF IInv, PromptPart, TypeOK
<1>a. /\ prompt \in Prompts /\ saves \in [{"request", "prompt"} ->
                  [stage : {"none", "due", "writing"}, content : Session]]
      /\ live \in Session
  BY <1>0 DEF TypeOK
<1>1. CASE Initialize \/ Authenticate \/ ReplayEnds
  BY <1>0, <1>1, PromptUnchanged DEF Initialize, Authenticate, ReplayEnds
<1>2. CASE Kill \/ Crash
  <2>1. prompt' = Idle /\ saves' = [w \in DOMAIN saves |-> NoSave]
    BY <1>2 DEF Kill, Crash, Exits
  <2>2. saves'["prompt"].stage = "none"
    BY <1>a, <2>1 DEF NoSave
  <2> QED BY <2>1, <2>2, OverPart
<1>3. ASSUME NEW s \in Sessions, NEW session, NEW kind, Open(s, session, kind)
      PROVE  PromptPart'
  <2>1. prompt' = prompt /\ saves' = [saves EXCEPT !["request"].stage = "due"]
        /\ served = "none"
    BY <1>3 DEF Open
  <2>2. prompt.leave = "none"
    BY <1>0, <2>1 DEF ServedOk, PromptPart, LeaveOk, Running
  <2>3. saves'["prompt"].stage = saves["prompt"].stage
    BY <1>a, <2>1
  <2> QED BY <1>0, <2>1, <2>2, <2>3, PromptUnchanged
<1>4. ASSUME NEW m \in Modes, SetMode(m) PROVE PromptPart'
  <2>1. prompt' = prompt /\ saves' = [saves EXCEPT !["request"].stage = "due"]
        /\ live' = [live EXCEPT !.mode = m]
    BY <1>4 DEF SetMode, Persist
  <2>2. saves'["prompt"].stage = saves["prompt"].stage /\ live'.rules = live.rules
    BY <1>a, <2>1 DEF Session
  <2> QED BY <1>0, <2>1, <2>2, PromptUnchanged
<1>5. CASE Close \/ Cancel
  <2>1. live' = live /\ saves'["prompt"].stage = saves["prompt"].stage
    BY <1>a, <1>5 DEF Close, Cancel, Persist
  <2>2. CASE prompt' = prompt
    BY <1>0, <2>1, <2>2, PromptUnchanged
  <2>3. CASE prompt' # prompt
    <3>1. prompt' = Aborted(prompt) /\ prompt.todo # <<>>
      BY <1>5, <2>3 DEF Close, Cancel, Running
    <3>2. Ordered(prompt.todo)
      BY <1>0 DEF PromptPart, PromptOk
    <3>3. /\ prompt' \in Prompts /\ prompt'.todo # <<>> /\ Ordered(prompt'.todo)
          /\ \/ prompt' = [prompt EXCEPT !.aborted = TRUE]
             \/ /\ prompt.wait \in {"sleeping", "hung"}
                /\ prompt' = [prompt EXCEPT !.aborted = TRUE, !.wait = "no",
                                            !.todo = <<Last(prompt.todo)>>]
      BY <1>a, <3>1, <3>2, AbortedTo
    <3>4. CASE prompt' = [prompt EXCEPT !.aborted = TRUE]
      BY <1>0, <1>a, <2>1, <3>3, <3>4
         DEF Prompts, PromptPart, PromptOk, LeaveOk, Running, Tool, PromptSaves, Struck
    <3>5. CASE /\ prompt.wait \in {"sleeping", "hung"}
               /\ prompt' = [prompt EXCEPT !.aborted = TRUE, !.wait = "no",
                                           !.todo = <<Last(prompt.todo)>>]
      <4>3. prompt'.todo = <<Last(prompt.todo)>>
        BY <1>a, <3>5 DEF Prompts
      <4>1. Head(prompt'.todo).do = "finish"
        BY <1>a, <3>1, <3>2, <4>3, LastOf
      <4>2. prompt'.wait = "no" /\ prompt'.leave = prompt.leave
        BY <1>a, <3>5 DEF Prompts
      <4> QED BY <1>0, <2>1, <3>3, <3>5, <4>1, <4>2
            DEF PromptPart, PromptOk, LeaveOk, Running, PromptSaves, Struck
    <3> QED BY <3>3, <3>4, <3>5
  <2> QED BY <2>2, <2>3
<1>6. ASSUME NEW a \in Actions, NEW f \in Faults \cup {"none"}, Prompt(a, f)
      PROVE  PromptPart'
  <2> DEFINE t == Opening(a) \o <<Step("strike", "none")>> \o Script(a) \o Closing(a)
  <2>1. t \in Seq(ScriptStep) /\ t # <<>> /\ Ordered(t)
    BY ScriptOrdered
  <2> HIDE DEF t
  <2>2. prompt' = [Idle EXCEPT !.queues = f, !.alone = ~replay, !.todo = t]
        /\ saves' = saves /\ prompt.todo = <<>>
    BY <1>6 DEF Prompt, t, Running
  <2>3. /\ prompt'.todo = t /\ prompt'.wait = "no" /\ prompt'.leave = "none"
        /\ prompt'.queues = f /\ prompt'.fault = "none" /\ prompt'.flag = "none"
        /\ prompt'.alone = ~replay /\ prompt'.aborted = FALSE
        /\ prompt'.tool = <<>> /\ prompt'.plan = <<>>
        /\ prompt' = [queues |-> f, todo |-> t, fault |-> "none", flag |-> "none",
             leave |-> "none", aborted |-> FALSE, alone |-> ~replay, wait |-> "no",
             tool |-> <<>>, plan |-> <<>>]
    BY <2>2 DEF Idle
  <2>4. prompt' \in Prompts
    BY <2>1, <2>3 DEF Prompts, Waits
  <2>5. saves["prompt"].stage = "none"
    BY <1>0, <2>2 DEF PromptPart, PromptOk, Running, PromptSaves
  <2> QED BY <2>1, <2>2, <2>3, <2>4, <2>5 DEF PromptPart, PromptOk, LeaveOk, Struck, PromptSaves
<1>7. CASE ClientDecides
  <2>1. /\ prompt.todo # <<>> /\ Head(prompt.todo).do = "permission"
        /\ prompt.wait = "asking" /\ saves["prompt"].stage = "none"
    BY <1>0, <1>7 DEF ClientDecides, PromptPart, PromptOk, Running, PromptSaves
  <2>2. CASE Allowed("answer") /\ UNCHANGED <<live, saves>>
    BY <1>0, <2>1, <2>2, AllowedPart
  <2>3. CASE Denied /\ UNCHANGED <<live, saves>>
    BY <1>0, <2>1, <2>3, DeniedPart
  <2>4. CASE Persist("prompt") /\ prompt' = [prompt EXCEPT !.wait = "remembering"]
    <3>1. saves'["prompt"].stage = "due"
      BY <1>a, <2>4 DEF Persist
    <3>2. /\ prompt' \in Prompts /\ prompt'.wait = "remembering"
          /\ prompt'.todo = prompt.todo /\ prompt'.leave = prompt.leave
      BY <1>a, <2>4 DEF Prompts, Waits
    <3>3. prompt.leave = "none"
      BY <1>0, <2>1 DEF PromptPart, LeaveOk
    <3> QED BY <1>0, <2>1, <3>1, <3>2, <3>3
          DEF PromptPart, PromptOk, LeaveOk, Running, Struck, PromptSaves
  <2> QED BY <1>7, <2>2, <2>3, <2>4 DEF ClientDecides
<1>8. CASE Responds \/ Removed \/ \E w \in DOMAIN saves : Serialize(w)
  <2>1. /\ prompt' = prompt /\ live' = live
        /\ saves'["prompt"].stage = "none" <=> saves["prompt"].stage = "none"
    BY <1>a, <1>8 DEF Responds, Removed, Serialize, Written
  <2> QED BY <1>0, <2>1
       DEF PromptPart, PromptOk, LeaveOk, Running, Tool, PromptSaves, Struck
<1>9. CASE Title
  <2>1. At("title")
    BY <1>9 DEF Title
  <2>2. CASE prompt' = Saving(Advanced(prompt)) /\ Persist("prompt")
    <3>1. prompt' = Saving(Advanced(prompt)) /\ saves'["prompt"].stage # "none"
      BY <1>a, <2>2 DEF Persist
    <3> QED BY <1>0, <2>1, <3>1, SavesPart
  <2>3. CASE prompt' = Advanced(prompt) /\ saves' = saves
    <3>1. Advanced(prompt) \in Prompts
      BY <1>0, <2>1, AtStep, AdvancedTo DEF Dos, PromptPart
    <3>2. SameButSeen([Advanced(prompt) EXCEPT !.fault = Advanced(prompt).fault],
                      Advanced(prompt))
      BY <3>1 DEF SameButSeen, Prompts
    <3> QED BY <1>0, <2>1, <2>3, <3>2, AdvancesPart DEF Dos
  <2> QED BY <1>9, <2>2, <2>3 DEF Title
<1>10. CASE Arm
  <2> DEFINE takes == prompt.queues = "none" /\ live.faults # <<>>
             fault == IF takes THEN Head(live.faults) ELSE "none"
             armed == [Advanced(prompt) EXCEPT !.fault = fault, !.flag = fault]
  <2>1. At("arm") /\ saves' = saves /\ prompt' = SentPlan(armed, Head(prompt.todo).at)
    BY <1>10 DEF Arm
  <2>2. Advanced(prompt) \in Prompts /\ Head(prompt.todo).at \in Nat
    BY <1>0, <2>1, AtStep, AdvancedTo DEF Dos, PromptPart, ScriptStep
  <2>3. fault \in Faults \cup {"none"}
    BY <1>a DEF Session
  <2> HIDE DEF fault
  <2>4. armed \in Prompts
    BY <2>2, <2>3 DEF Prompts
  <2>5. SameButSeen(armed, prompt')
    BY <2>1, <2>2, <2>4, SentPlanSame
  <2>6. SameButSeen([Advanced(prompt) EXCEPT !.fault = prompt'.fault], prompt')
    BY <2>2, <2>3, <2>5 DEF SameButSeen, Prompts
  <2> QED BY <1>0, <2>1, <2>6, AdvancesPart DEF Dos
<1>11. CASE Strike
  <2>1. At("strike") /\ saves' = saves /\ live' = live
    BY <1>11 DEF Strike
  <2>2. /\ prompt.todo # <<>> /\ Ordered(prompt.todo) /\ prompt.wait = "no"
        /\ saves["prompt"].stage = "none" /\ prompt.leave = "none"
        /\ Head(prompt.todo).do = "strike"
    BY <1>0, <2>1, AtStep DEF Dos
  <2>3. /\ Advanced(prompt) \in Prompts
        /\ Advanced(prompt) = [prompt EXCEPT !.todo = Tail(prompt.todo)]
        /\ Ordered(Tail(prompt.todo)) /\ Tail(prompt.todo) # <<>>
    BY <1>a, <2>2, AdvancedTo
  <2>4. CASE prompt' = Idle
    BY <2>1, <2>2, <2>4, OverPart
  <2>5. CASE prompt' = [Advanced(prompt) EXCEPT !.wait = "announcing"]
             /\ prompt.fault \in Announcing
    <3>1. /\ prompt' \in Prompts /\ prompt'.wait = "announcing"
          /\ prompt'.todo = Tail(prompt.todo) /\ prompt'.leave = "none"
          /\ prompt'.fault = prompt.fault
      BY <1>a, <2>2, <2>3, <2>5 DEF Prompts, Waits
    <3> QED BY <2>1, <2>2, <2>3, <2>5, <3>1
          DEF PromptPart, PromptOk, LeaveOk, Running, Struck, PromptSaves, Announcing
  <2>6. CASE prompt' = Thrown(prompt)
    <3>1. /\ Thrown(prompt) \in Prompts
          /\ Thrown(prompt) = [prompt EXCEPT !.todo = <<Last(prompt.todo)>>]
          /\ Ordered(<<Last(prompt.todo)>>)
      BY <1>a, <2>2, ThrownTo, LastOf
    <3>2. /\ prompt' \in Prompts /\ prompt'.wait = "no"
          /\ prompt'.todo = <<Last(prompt.todo)>> /\ prompt'.leave = "none"
      BY <1>a, <2>2, <2>6, <3>1 DEF Prompts
    <3> QED BY <2>1, <2>2, <3>1, <3>2
          DEF PromptPart, PromptOk, LeaveOk, Struck, PromptSaves
  <2>7. CASE prompt' = Advanced(prompt)
    <3>1. /\ prompt' \in Prompts /\ prompt'.wait = "no"
          /\ prompt'.todo = Tail(prompt.todo) /\ prompt'.leave = "none"
      BY <1>a, <2>2, <2>3, <2>7 DEF Prompts
    <3> QED BY <2>1, <2>2, <2>3, <3>1
          DEF PromptPart, PromptOk, LeaveOk, Struck, PromptSaves
  <2> QED BY <1>11, <2>4, <2>5, <2>6, <2>7 DEF Strike, Over
<1>12. CASE Announced
  <2>1. prompt' = [prompt EXCEPT !.wait = IF prompt.fault = "hang" THEN Hung
                                          ELSE "sleeping"]
        /\ prompt.wait = "announcing" /\ UNCHANGED <<live, saves>>
    BY <1>12 DEF Announced
  <2>2. /\ prompt' \in Prompts /\ prompt'.wait \in {"sleeping", "hung", "deaf"}
        /\ prompt'.todo = prompt.todo /\ prompt'.leave = prompt.leave
        /\ prompt'.fault = prompt.fault
    BY <1>a, <2>1 DEF Prompts, Waits, Hung
  <2> QED BY <1>0, <2>1, <2>2
       DEF PromptPart, PromptOk, LeaveOk, Running, Tool, Struck, PromptSaves
<1>13. CASE Slept
  <2>1. prompt.wait = "sleeping" /\ UNCHANGED <<live, saves>>
        /\ saves["prompt"].stage = "none"
    BY <1>0, <1>13 DEF Slept, PromptPart, PromptOk, PromptSaves
  <2>2. CASE prompt.aborted
    BY <1>13, <2>1, <2>2, OverPart DEF Slept, Over
  <2>3. CASE ~prompt.aborted
    <3>1. /\ prompt' \in Prompts /\ prompt'.wait = "no"
          /\ prompt'.todo = prompt.todo /\ prompt'.leave = prompt.leave
      <4>1. prompt' = [prompt EXCEPT !.wait = "no"]
        BY <1>13, <2>3 DEF Slept
      <4> QED BY <1>a, <4>1 DEF Prompts, Waits
    <3> QED BY <1>0, <2>1, <3>1
          DEF PromptPart, PromptOk, LeaveOk, Running, Tool, Struck, PromptSaves
  <2> QED BY <2>2, <2>3
<1>14. CASE Call
  <2>1. At("call") /\ saves' = saves
    BY <1>14 DEF Call
  <2>2. /\ prompt.todo # <<>> /\ Ordered(prompt.todo) /\ prompt.wait = "no"
        /\ saves["prompt"].stage = "none" /\ Head(prompt.todo).do = "call"
    BY <1>0, <2>1, AtStep DEF Dos
  <2>3. CASE prompt' = ToolOver(prompt)
    <3>1. ToolOver(prompt) \in Prompts /\ ToolOver(prompt).wait = "no"
      BY <1>a, <2>2, ToolOverWait
    <3>2. SameButSeen([ToolOver(prompt) EXCEPT !.wait = "no"], ToolOver(prompt))
      BY <3>1 DEF SameButSeen, Prompts
    <3> QED BY <1>0, <2>1, <2>2, <2>3, <3>2, OverToolPart
  <2>4. CASE prompt' = SentCall(Advanced(prompt))
    <3>1. Advanced(prompt) \in Prompts
      BY <1>a, <2>2, AdvancedTo
    <3>2. SameButSeen(Advanced(prompt), prompt')
      BY <2>4, <3>1, SentCallSame
    <3>3. SameButSeen([Advanced(prompt) EXCEPT !.fault = prompt'.fault], prompt')
      BY <3>1, <3>2 DEF SameButSeen, Prompts
    <3> QED BY <1>0, <2>1, <3>3, AdvancesPart DEF Dos
  <2> QED BY <1>14, <2>3, <2>4 DEF Call
<1>15. CASE Permission
  <2>1. At("permission") /\ saves' = saves /\ live' = live
    BY <1>15 DEF Permission
  <2>2. /\ prompt.todo # <<>> /\ Ordered(prompt.todo) /\ prompt.wait = "no"
        /\ saves["prompt"].stage = "none" /\ Head(prompt.todo).do = "permission"
        /\ prompt.leave = "none"
    BY <1>0, <2>1, AtStep DEF Dos
  <2>3. CASE Allowed("mode")
    BY <1>0, <2>1, <2>2, <2>3, AllowedPart
  <2>4. CASE Allowed("rule") /\ "allow" \in Remembered(Tool)
    BY <1>0, <2>1, <2>2, <2>4, AllowedPart DEF Remembered
  <2>5. CASE Denied
    BY <1>0, <2>1, <2>2, <2>5, DeniedPart
  <2>6. CASE prompt' = [prompt EXCEPT !.wait = "asking"]
    <3>1. /\ prompt' \in Prompts /\ prompt'.wait = "asking"
          /\ prompt'.todo = prompt.todo /\ prompt'.leave = "none"
      BY <1>a, <2>2, <2>6 DEF Prompts, Waits
    <3> QED BY <1>0, <2>1, <2>2, <3>1
          DEF PromptPart, PromptOk, LeaveOk, Running, Struck, PromptSaves
  <2> QED BY <1>15, <2>3, <2>4, <2>5, <2>6 DEF Permission
<1>16. CASE RuleSaved
  <2>1. /\ prompt.wait = "remembering" /\ saves' = [saves EXCEPT !["prompt"] = NoSave]
        /\ live' = live /\ (Allowed("answer") \/ Denied)
    BY <1>16 DEF RuleSaved, Written
  <2>2. saves'["prompt"].stage = "none"
    BY <1>a, <2>1 DEF NoSave
  <2>3. prompt.todo # <<>> /\ Head(prompt.todo).do = "permission"
    BY <1>0, <2>1 DEF PromptPart, PromptOk, Running
  <2>4. CASE Allowed("answer")
    BY <1>0, <2>1, <2>2, <2>3, <2>4, AllowedPart
  <2>5. CASE Denied
    BY <1>0, <2>2, <2>3, <2>5, DeniedPart
  <2> QED BY <2>1, <2>4, <2>5
<1>17. CASE Use
  <2>1. At("use") /\ saves' = saves /\ live' = live
    BY <1>17 DEF Use
  <2>2. /\ prompt.todo # <<>> /\ Ordered(prompt.todo) /\ prompt.wait = "no"
        /\ saves["prompt"].stage = "none" /\ Head(prompt.todo).do = "use"
        /\ InOrder(prompt.todo, 1) /\ Head(prompt.todo) = prompt.todo[1]
    BY <1>0, <2>1, AtStep DEF Dos
  <2>3. CASE prompt' = Advanced(prompt)
    <3>1. Followed(prompt.todo, 1, 1, "end")
      BY <2>2 DEF InOrder
    <3>2. /\ Advanced(prompt) \in Prompts
          /\ Advanced(prompt) = [prompt EXCEPT !.todo = Tail(prompt.todo)]
          /\ Ordered(Tail(prompt.todo)) /\ Tail(prompt.todo) # <<>>
          /\ Head(Tail(prompt.todo)).do = "end"
      BY <1>a, <2>2, <3>1, AdvancedTo DEF Dos
    <3>3. prompt'.wait = "no" /\ prompt'.todo = Tail(prompt.todo)
      BY <1>a, <2>2, <2>3, <3>2 DEF Prompts
    <3> QED BY <2>1, <2>2, <2>3, <3>2, <3>3
          DEF PromptPart, PromptOk, LeaveOk, Running, Struck, PromptSaves
  <2>4. CASE prompt' = Thrown(prompt)
    <3>1. /\ Thrown(prompt) \in Prompts
          /\ Thrown(prompt) = [prompt EXCEPT !.todo = <<Last(prompt.todo)>>]
          /\ Ordered(<<Last(prompt.todo)>>)
          /\ Head(<<Last(prompt.todo)>>).do = "finish"
      BY <1>a, <2>2, ThrownTo, LastOf
    <3>2. prompt'.wait = "no" /\ prompt'.todo = <<Last(prompt.todo)>>
          /\ prompt'.todo # <<>>
      BY <1>a, <2>2, <2>4, <3>1 DEF Prompts
    <3> QED BY <2>1, <2>2, <2>4, <3>1, <3>2
          DEF PromptPart, PromptOk, LeaveOk, Running, Struck, PromptSaves
  <2> QED BY <1>17, <2>3, <2>4 DEF Use
<1>18. CASE EndTool
  <2>1. At("end") /\ saves' = saves /\ prompt' = Sent(ToolOver(prompt), "completed")
    BY <1>18 DEF EndTool
  <2>2. /\ prompt.todo # <<>> /\ Ordered(prompt.todo) /\ prompt.wait = "no"
        /\ saves["prompt"].stage = "none" /\ Head(prompt.todo).do = "end"
    BY <1>0, <2>1, AtStep DEF Dos
  <2>3. ToolOver(prompt) \in Prompts /\ ToolOver(prompt).wait = "no"
    BY <1>a, <2>2, ToolOverWait
  <2>4. SameButSeen(ToolOver(prompt), prompt')
    BY <2>1, <2>3, SentSame DEF Statuses
  <2>5. SameButSeen([ToolOver(prompt) EXCEPT !.wait = "no"], prompt')
    BY <2>3, <2>4 DEF SameButSeen, Prompts
  <2> QED BY <1>0, <2>1, <2>2, <2>5, OverToolPart
<1>19. CASE PlanProgress
  <2>1. At("plan") /\ saves' = saves
        /\ prompt' = SentPlan(Advanced(prompt), Head(prompt.todo).at)
    BY <1>19 DEF PlanProgress
  <2>2. Advanced(prompt) \in Prompts /\ Head(prompt.todo).at \in Nat
    BY <1>0, <2>1, AtStep, AdvancedTo DEF Dos, PromptPart, ScriptStep
  <2>3. SameButSeen(Advanced(prompt), prompt')
    BY <2>1, <2>2, SentPlanSame
  <2>4. SameButSeen([Advanced(prompt) EXCEPT !.fault = prompt'.fault], prompt')
    BY <2>2, <2>3 DEF SameButSeen, Prompts
  <2> QED BY <1>0, <2>1, <2>4, AdvancesPart DEF Dos
<1>20. CASE Rename \/ Queue
  <2>1. /\ At("rename") \/ At("queue")
        /\ prompt' = Saving(Advanced(prompt)) /\ saves'["prompt"].stage # "none"
    BY <1>a, <1>20 DEF Rename, Queue, Persist
  <2> QED BY <1>0, <2>1, SavesPart
<1>21. CASE PromptSaved
  <2>1. /\ prompt.wait = "saving" /\ saves' = [saves EXCEPT !["prompt"] = NoSave]
        /\ live' = live /\ prompt' = [prompt EXCEPT !.wait = "no"]
    BY <1>21 DEF PromptSaved, Written
  <2>2. saves'["prompt"].stage = "none"
    BY <1>a, <2>1 DEF NoSave
  <2>3. /\ prompt' \in Prompts /\ prompt'.wait = "no"
        /\ prompt'.todo = prompt.todo /\ prompt'.leave = prompt.leave
    BY <1>a, <2>1 DEF Prompts, Waits
  <2> QED BY <1>0, <2>1, <2>2, <2>3
       DEF PromptPart, PromptOk, LeaveOk, Running, Tool, Struck, PromptSaves
<1>22. CASE Finish
  <2>1. At("finish")
    BY <1>22 DEF Finish
  <2>2. /\ prompt.todo # <<>> /\ Ordered(prompt.todo) /\ prompt.wait = "no"
        /\ saves["prompt"].stage = "none" /\ Head(prompt.todo).do = "finish"
        /\ Head(prompt.todo) \in ScriptStep
    BY <1>0, <2>1, AtStep DEF Dos
  <2>3. CASE prompt.aborted
    BY <1>22, <2>2, <2>3, OverPart DEF Finish, Over
  <2>4. CASE ~prompt.aborted
    <3> DEFINE q == SentPlan(prompt, Head(prompt.todo).at)
    <3>1. /\ prompt' = [q EXCEPT !.wait = "answering"]
          /\ saves'["prompt"].stage # "none" /\ live'.rules = live.rules
      BY <1>a, <1>22, <2>4 DEF Finish, Persist, Recorded, Session
    <3>2. SameButSeen(prompt, q)
      BY <1>a, <2>2, SentPlanSame DEF ScriptStep
    <3> HIDE DEF q
    <3>3. /\ prompt' \in Prompts /\ prompt'.wait = "answering"
          /\ prompt'.todo = prompt.todo /\ prompt'.leave = prompt.leave
      BY <1>a, <3>1, <3>2, ZenonT(60) DEF Prompts, Waits, SameButSeen
    <3> QED BY <1>0, <2>2, <3>1, <3>3
          DEF PromptPart, PromptOk, LeaveOk, Running, Tool, Struck, PromptSaves
  <2> QED BY <2>3, <2>4
<1>23. CASE Answered
  <2>1. prompt' = Idle /\ saves' = [saves EXCEPT !["prompt"] = NoSave]
    BY <1>23 DEF Answered, Over, Written
  <2>2. saves'["prompt"].stage = "none"
    BY <1>a, <2>1 DEF NoSave
  <2> QED BY <2>1, <2>2, OverPart
<1>24. CASE UNCHANGED vars
  BY <1>0, <1>24, PromptUnchanged DEF vars
<1>25. CASE \E s \in Sessions : New(s) \/ Load(s)
  BY <1>3, <1>25 DEF New, Load
<1>26. CASE \E s, t \in Sessions : Fork(s, t)
  BY <1>3, <1>26 DEF Fork
<1> QED
  BY <1>1, <1>2, <1>4, <1>5, <1>6, <1>7, <1>8, <1>9, <1>10, <1>11, <1>12, <1>13,
     <1>14, <1>15, <1>16, <1>17, <1>18, <1>19, <1>20, <1>21, <1>22, <1>23, <1>24,
     <1>25, <1>26
  DEF Next, StoreStep, PromptStep

-----------------------------------------------------------------------------
(* What is left to do of a prompt is an end of what was.                   *)
Onward(p, q) ==
  q.queues = p.queues /\ \E n \in Nat : LeftOf(q.todo, p.todo, n)

(* A prompt left alone goes on from where it is.                           *)
LEMMA OnwardSame ==
  ASSUME NEW p \in Prompts, NEW q, q.queues = p.queues, q.todo = p.todo
  PROVE  Onward(p, q)
BY LeftSame DEF Onward, Prompts

(* A prompt that advances goes on.                                         *)
LEMMA OnwardAdvanced ==
  ASSUME NEW p \in Prompts, p.todo # <<>>, NEW q, q.queues = p.queues,
         q.todo = Tail(p.todo)
  PROVE  Onward(p, q)
BY LeftTail DEF Onward, Prompts

(* A prompt cut down to its finish goes on.                                *)
LEMMA OnwardLast ==
  ASSUME NEW p \in Prompts, p.todo # <<>>, NEW q, q.queues = p.queues,
         q.todo = <<Last(p.todo)>>
  PROVE  Onward(p, q)
<1>1. p.todo \in Seq(ScriptStep) /\ Len(p.todo) - 1 \in Nat
  BY NonEmpty DEF Prompts
<1> QED BY <1>1, LeftLast DEF Onward

(* A prompt whose tool is over goes on.                                    *)
LEMMA OnwardToolOver ==
  ASSUME NEW p \in Prompts, p.todo # <<>>, Ordered(p.todo),
         Head(p.todo).do \in {"call", "permission", "end"},
         NEW q, q.queues = p.queues, q.todo = ToolOver(p).todo
  PROVE  Onward(p, q)
<1> DEFINE t == p.todo
<1>1. PICK n \in 1..Len(t) :
        /\ n < Len(t)
        /\ ToolOver(p) = [p EXCEPT !.todo = SubSeq(t, n + 1, Len(t)), !.leave = "none"]
  BY EndAhead
<1>2. t \in Seq(ScriptStep) /\ Len(t) \in Nat /\ n \in 0..Len(t)
  BY DEF Prompts
<1>3. LeftOf(SubSeq(t, n + 1, Len(t)), t, n)
  BY <1>2, LeftSub
<1> DEFINE u == SubSeq(t, n + 1, Len(t))
<1> HIDE DEF u
<1>4. ToolOver(p) = [p EXCEPT !.todo = u, !.leave = "none"]
  BY <1>1 DEF u
<1>5. ToolOver(p).todo = u
  BY <1>4 DEF Prompts
<1> QED BY <1>3, <1>5 DEF Onward, u

(* A prompt whose tool is let through goes on.                             *)
LEMMA OnwardAllowed ==
  ASSUME prompt \in Prompts, prompt.todo # <<>>, Ordered(prompt.todo), NEW how, Allowed(how)
  PROVE  Onward(prompt, prompt')
<1> DEFINE a == Advanced(prompt)
           b == Sent(a, "in_progress")
<1>1. a \in Prompts /\ a = [prompt EXCEPT !.todo = Tail(prompt.todo)]
  BY AdvancedTo
<1>2. SameButSeen(a, b)
  BY <1>1, SentSame DEF Statuses
<1>3. prompt' = [b EXCEPT !.leave = how, !.wait = "no"]
  BY DEF Allowed
<1>4. a.queues = prompt.queues /\ a.todo = Tail(prompt.todo)
  BY <1>1 DEF Prompts
<1> HIDE DEF a, b
<1>5. b.queues = prompt.queues /\ b.todo = Tail(prompt.todo) /\ b \in Prompts
  BY <1>2, <1>4 DEF SameButSeen
<1>6. prompt'.queues = prompt.queues /\ prompt'.todo = Tail(prompt.todo)
  BY <1>3, <1>5 DEF Prompts
<1> QED BY <1>6, OnwardAdvanced

(* A prompt whose tool is refused goes on.                                 *)
LEMMA OnwardDenied ==
  ASSUME prompt \in Prompts, prompt.todo # <<>>, Ordered(prompt.todo),
         Head(prompt.todo).do = "permission", Denied
  PROVE  Onward(prompt, prompt')
<1> DEFINE a == ToolOver(prompt)
           b == Sent(a, "failed")
<1>1. a \in Prompts /\ a.queues = prompt.queues
  BY ToolOverWait
<1>2. SameButSeen(a, b)
  BY <1>1, SentSame DEF Statuses
<1>3. prompt' = [b EXCEPT !.wait = "no"]
  BY DEF Denied
<1> HIDE DEF b
<1>5. b.queues = prompt.queues /\ b.todo = ToolOver(prompt).todo /\ b \in Prompts
  BY <1>1, <1>2 DEF SameButSeen
<1>6. prompt'.queues = prompt.queues /\ prompt'.todo = ToolOver(prompt).todo
  BY <1>3, <1>5 DEF Prompts
<1> QED BY <1>6, OnwardToolOver

(* Between its start and its end, no step gives a prompt more to do.       *)
LEMMA StepOnward ==
  ASSUME IInv, [Next]_vars
  PROVE  \/ prompt' = Idle
         \/ \E a \in Actions, f \in Faults \cup {"none"} : Prompt(a, f)
         \/ Onward(prompt, prompt')
<1>0. /\ prompt \in Prompts /\ Ordered(prompt.todo) /\ PromptPart
      /\ prompt.wait \in {"asking", "remembering"} =>
           prompt.todo # <<>> /\ Head(prompt.todo).do = "permission"
  BY DEF IInv, TypeOK, PromptOk, PromptPart, Running
<1>a. \A do : At(do) => prompt.todo # <<>> /\ Head(prompt.todo).do = do
  BY DEF At, Running
<1>1. CASE UNCHANGED prompt
  BY <1>0, <1>1, OnwardSame
<1>2. CASE Kill \/ Crash
  BY <1>2 DEF Kill, Crash, Exits
<1>3. CASE Close \/ Cancel
  <2>1. CASE prompt' = Aborted(prompt) /\ prompt.todo # <<>>
    <3>1. \/ prompt' = [prompt EXCEPT !.aborted = TRUE]
          \/ prompt' = [prompt EXCEPT !.aborted = TRUE, !.wait = "no",
                                      !.todo = <<Last(prompt.todo)>>]
      BY <1>0, <2>1, AbortedTo
    <3>2. CASE prompt' = [prompt EXCEPT !.aborted = TRUE]
      <4>1. prompt'.queues = prompt.queues /\ prompt'.todo = prompt.todo
        BY <1>0, <3>2 DEF Prompts
      <4> QED BY <1>0, <4>1, OnwardSame
    <3>3. CASE prompt' = [prompt EXCEPT !.aborted = TRUE, !.wait = "no",
                                        !.todo = <<Last(prompt.todo)>>]
      <4>1. prompt'.queues = prompt.queues /\ prompt'.todo = <<Last(prompt.todo)>>
        BY <1>0, <3>3 DEF Prompts
      <4> QED BY <1>0, <2>1, <4>1, OnwardLast
    <3> QED BY <3>1, <3>2, <3>3
  <2> QED BY <1>1, <1>3, <2>1 DEF Close, Cancel, Running
<1>4. CASE Title \/ Rename \/ Queue
  <2>1. /\ prompt.todo # <<>>
        /\ prompt' = Advanced(prompt) \/ prompt' = Saving(Advanced(prompt))
    BY <1>a, <1>4 DEF Title, Rename, Queue
  <2>2. Advanced(prompt) = [prompt EXCEPT !.todo = Tail(prompt.todo)]
    BY DEF Advanced
  <2>3. prompt'.queues = prompt.queues /\ prompt'.todo = Tail(prompt.todo)
    BY <1>0, <2>1, <2>2, ZenonT(60) DEF Saving, Prompts
  <2> QED BY <1>0, <2>1, <2>3, OnwardAdvanced
<1>5. CASE Arm
  <2>1. At("arm")
    BY <1>5 DEF Arm
  <2>2. prompt.todo # <<>> /\ Head(prompt.todo) \in ScriptStep
    BY <1>0, <1>a, <2>1, HeadOf
  <2>3. PICK f : /\ f \in Faults \cup {"none"}
                 /\ prompt' = SentPlan([Advanced(prompt) EXCEPT !.fault = f, !.flag = f],
                                       Head(prompt.todo).at)
    <3>1. live.faults # <<>> => Head(live.faults) \in Faults
      BY DEF IInv, TypeOK, Session
    <3> QED BY <1>5, <3>1 DEF Arm
  <2> DEFINE a == Advanced(prompt)
             b == [a EXCEPT !.fault = f, !.flag = f]
  <2>4. a \in Prompts /\ a.queues = prompt.queues /\ a.todo = Tail(prompt.todo)
    <3>1. a \in Prompts /\ a = [prompt EXCEPT !.todo = Tail(prompt.todo)]
      BY <1>0, <2>2, AdvancedTo
    <3> QED BY <1>0, <3>1 DEF Prompts
  <2> HIDE DEF a
  <2>5. b \in Prompts /\ b.queues = prompt.queues /\ b.todo = Tail(prompt.todo)
    BY <2>3, <2>4 DEF Prompts
  <2> HIDE DEF b
  <2>6. SameButSeen(b, prompt')
    BY <2>2, <2>3, <2>5, SentPlanSame DEF ScriptStep, a, b
  <2> QED BY <1>0, <2>2, <2>5, <2>6, OnwardAdvanced DEF SameButSeen
<1>6. CASE Strike
  <2>1. prompt.todo # <<>>
    BY <1>a, <1>6 DEF Strike
  <2>2. CASE prompt' = Thrown(prompt)
    <3>1. prompt'.queues = prompt.queues /\ prompt'.todo = <<Last(prompt.todo)>>
      BY <1>0, <2>1, <2>2, ThrownTo DEF Prompts
    <3> QED BY <1>0, <2>1, <3>1, OnwardLast
  <2>3. CASE \/ prompt' = Advanced(prompt)
             \/ prompt' = [Advanced(prompt) EXCEPT !.wait = "announcing"]
    <3>1. Advanced(prompt) = [prompt EXCEPT !.todo = Tail(prompt.todo)]
      BY DEF Advanced
    <3>2. prompt'.queues = prompt.queues /\ prompt'.todo = Tail(prompt.todo)
      BY <1>0, <2>3, <3>1, ZenonT(60) DEF Prompts
    <3> QED BY <1>0, <2>1, <3>2, OnwardAdvanced
  <2> QED BY <1>6, <2>2, <2>3 DEF Strike, Over
<1>7. CASE Announced \/ Slept \/ PromptSaved
  <2>1. prompt' = Idle \/ \E w : prompt' = [prompt EXCEPT !.wait = w]
    BY <1>7 DEF Announced, Slept, PromptSaved, Over
  <2>2. ASSUME NEW w, prompt' = [prompt EXCEPT !.wait = w]
        PROVE  prompt'.queues = prompt.queues /\ prompt'.todo = prompt.todo
    BY <1>0, <2>2 DEF Prompts
  <2> QED BY <1>0, <2>1, <2>2, OnwardSame
<1>8. CASE Call
  <2>1. prompt.todo # <<>> /\ Head(prompt.todo).do = "call"
    BY <1>a, <1>8 DEF Call
  <2>2. CASE prompt' = ToolOver(prompt)
    <3>1. prompt'.queues = prompt.queues
      BY <1>0, <2>1, <2>2, ToolOverWait
    <3> QED BY <1>0, <2>1, <2>2, <3>1, OnwardToolOver
  <2>3. CASE prompt' = SentCall(Advanced(prompt))
    <3>1. /\ Advanced(prompt) \in Prompts
          /\ Advanced(prompt) = [prompt EXCEPT !.todo = Tail(prompt.todo)]
      BY <1>0, <2>1, AdvancedTo
    <3>2. SameButSeen(Advanced(prompt), prompt')
      BY <2>3, <3>1, SentCallSame
    <3>3. prompt'.queues = prompt.queues /\ prompt'.todo = Tail(prompt.todo)
      BY <1>0, <3>1, <3>2 DEF SameButSeen, Prompts
    <3> QED BY <1>0, <2>1, <3>3, OnwardAdvanced
  <2> QED BY <1>8, <2>2, <2>3 DEF Call
<1>9. CASE Permission
  <2>1. At("permission") /\ prompt.todo # <<>> /\ Head(prompt.todo).do = "permission"
    BY <1>a, <1>9 DEF Permission
  <2>2. CASE \E how : Allowed(how)
    BY <1>0, <2>1, <2>2, OnwardAllowed
  <2>3. CASE Denied
    BY <1>0, <2>1, <2>3, OnwardDenied
  <2>4. CASE prompt' = [prompt EXCEPT !.wait = "asking"]
    <3>1. prompt'.queues = prompt.queues /\ prompt'.todo = prompt.todo
      BY <1>0, <2>4 DEF Prompts
    <3> QED BY <1>0, <3>1, OnwardSame
  <2> QED BY <1>9, <2>2, <2>3, <2>4 DEF Permission
<1>10. CASE ClientDecides
  <2>1. prompt.todo # <<>> /\ Head(prompt.todo).do = "permission"
    BY <1>0, <1>10 DEF ClientDecides
  <2>2. CASE Allowed("answer")
    BY <1>0, <2>1, <2>2, OnwardAllowed
  <2>3. CASE Denied
    BY <1>0, <2>1, <2>3, OnwardDenied
  <2>4. CASE prompt' = [prompt EXCEPT !.wait = "remembering"]
    <3>1. prompt'.queues = prompt.queues /\ prompt'.todo = prompt.todo
      BY <1>0, <2>4 DEF Prompts
    <3> QED BY <1>0, <3>1, OnwardSame
  <2> QED BY <1>10, <2>2, <2>3, <2>4 DEF ClientDecides
<1>11. CASE RuleSaved
  <2>1. prompt.todo # <<>> /\ Head(prompt.todo).do = "permission"
    BY <1>0, <1>11 DEF RuleSaved
  <2>2. CASE Allowed("answer")
    BY <1>0, <2>1, <2>2, OnwardAllowed
  <2>3. CASE Denied
    BY <1>0, <2>1, <2>3, OnwardDenied
  <2> QED BY <1>11, <2>2, <2>3 DEF RuleSaved
<1>12. CASE Use
  <2>1. prompt.todo # <<>>
    BY <1>a, <1>12 DEF Use
  <2>2. CASE prompt' = Thrown(prompt)
    <3>1. prompt'.queues = prompt.queues /\ prompt'.todo = <<Last(prompt.todo)>>
      BY <1>0, <2>1, <2>2, ThrownTo DEF Prompts
    <3> QED BY <1>0, <2>1, <3>1, OnwardLast
  <2>3. CASE prompt' = Advanced(prompt)
    <3>2. prompt'.queues = prompt.queues /\ prompt'.todo = Tail(prompt.todo)
      BY <1>0, <2>3 DEF Prompts, Advanced
    <3> QED BY <1>0, <2>1, <3>2, OnwardAdvanced
  <2> QED BY <1>12, <2>2, <2>3 DEF Use
<1>13. CASE EndTool
  <2>1. prompt.todo # <<>> /\ Head(prompt.todo).do = "end"
        /\ prompt' = Sent(ToolOver(prompt), "completed")
    BY <1>a, <1>13 DEF EndTool
  <2>2. ToolOver(prompt) \in Prompts /\ ToolOver(prompt).queues = prompt.queues
    BY <1>0, <2>1, ToolOverWait
  <2>3. SameButSeen(ToolOver(prompt), prompt')
    BY <2>1, <2>2, SentSame DEF Statuses
  <2> QED BY <1>0, <2>1, <2>2, <2>3, OnwardToolOver DEF SameButSeen
<1>14. CASE PlanProgress
  <2>1. prompt.todo # <<>> /\ Head(prompt.todo) \in ScriptStep
        /\ prompt' = SentPlan(Advanced(prompt), Head(prompt.todo).at)
    BY <1>0, <1>a, <1>14, HeadOf DEF PlanProgress
  <2>2. /\ Advanced(prompt) \in Prompts
        /\ Advanced(prompt) = [prompt EXCEPT !.todo = Tail(prompt.todo)]
    BY <1>0, <2>1, AdvancedTo
  <2>3. SameButSeen(Advanced(prompt), prompt')
    BY <2>1, <2>2, SentPlanSame DEF ScriptStep
  <2>4. prompt'.queues = prompt.queues /\ prompt'.todo = Tail(prompt.todo)
    BY <1>0, <2>2, <2>3 DEF SameButSeen, Prompts
  <2> QED BY <1>0, <2>1, <2>4, OnwardAdvanced
<1>15. CASE Finish
  <2>1. prompt.todo # <<>> /\ Head(prompt.todo) \in ScriptStep
    BY <1>0, <1>a, <1>15, HeadOf DEF Finish
  <2>2. CASE ~prompt.aborted
    <3> DEFINE q == SentPlan(prompt, Head(prompt.todo).at)
    <3>1. prompt' = [q EXCEPT !.wait = "answering"]
      BY <1>15, <2>2 DEF Finish
    <3>2. SameButSeen(prompt, q)
      BY <1>0, <2>1, SentPlanSame DEF ScriptStep
    <3> HIDE DEF q
    <3>3. prompt'.queues = prompt.queues /\ prompt'.todo = prompt.todo
      BY <3>1, <3>2 DEF SameButSeen, Prompts
    <3> QED BY <1>0, <3>3, OnwardSame
  <2> QED BY <1>15, <2>2 DEF Finish, Over
<1>16. CASE Answered
  BY <1>16 DEF Answered, Over
<1>17. CASE \/ Initialize \/ Authenticate \/ ReplayEnds \/ StoreStep \/ UNCHANGED vars
            \/ \E m \in Modes : SetMode(m)
  BY <1>1, <1>17 DEF Initialize, Authenticate, ReplayEnds, StoreStep, Responds, Removed,
     Serialize, SetMode, vars
<1>18. CASE \/ \E s \in Sessions : New(s) \/ Load(s)
            \/ \E s, t \in Sessions : Fork(s, t)
  BY <1>1, <1>18 DEF New, Load, Fork, Open
<1> QED
  BY <1>2, <1>3, <1>4, <1>5, <1>6, <1>7, <1>8, <1>9, <1>10, <1>11, <1>12, <1>13, <1>14,
     <1>15, <1>16, <1>17, <1>18
  DEF Next, PromptStep

-----------------------------------------------------------------------------
(* A new session and the files a save leaves are of their types.           *)
LEMMA FreshTyped ==
  /\ NewSession \in Session
  /\ NoFile \in [state : {"none", "torn", "whole"}, session : Session]
  /\ Torn \in [state : {"none", "torn", "whole"}, session : Session]
  /\ \A s \in Session : Saved(s) \in [state : {"none", "torn", "whole"}, session : Session]
  /\ NoSave \in [stage : {"none", "due", "writing"}, content : Session]
  /\ Untold \in [born : BOOLEAN, closed : BOOLEAN, turns : Nat,
                 faults : SUBSET Faults, modes : SUBSET {"deny", "accept-edits", "yolo"},
                 rules : [Tools -> SUBSET {"ask", "allow", "reject"}]]
<1>1. NewSession \in Session
  BY DEF NewSession, Session
<1>2. \A s \in Session : Saved(s) \in [state : {"none", "torn", "whole"}, session : Session]
  BY DEF Saved
<1> QED BY <1>1, <1>2 DEF NoFile, Torn, NoSave, Untold

(* A permission is about a tool.                                           *)
LEMMA AboutTool ==
  ASSUME IInv, prompt.todo # <<>>, Head(prompt.todo).do \in ToolDos
  PROVE  Tool \in Tools
<1>1. prompt \in Prompts /\ Ordered(prompt.todo)
  BY DEF IInv, TypeOK, PromptOk
<1>2. Head(prompt.todo) = prompt.todo[1] /\ Head(prompt.todo) \in ScriptStep
      /\ 1 \in 1..Len(prompt.todo)
  BY <1>1, HeadOf
<1>3. InOrder(prompt.todo, 1)
  BY <1>1, <1>2 DEF Ordered
<1> QED BY <1>2, <1>3 DEF InOrder, ScriptStep, Tool

(* A queued fault is one more of the faults to come.                       *)
LEMMA QueuesOne ==
  ASSUME IInv, At("queue")
  PROVE  prompt.queues \in Faults
<1>1. prompt \in Prompts /\ prompt.todo # <<>> /\ Head(prompt.todo).do = "queue"
  BY DEF IInv, TypeOK, At, Running
<1>2. Head(prompt.todo) = prompt.todo[1] /\ 1 \in 1..Len(prompt.todo)
  BY <1>1, HeadOf
<1>3. prompt.queues # "none"
  BY <1>1, <1>2 DEF IInv, QueuesOk
<1> QED BY <1>1, <1>3 DEF Prompts

(* Every step keeps the state of its type.                                 *)
LEMMA StepTyped ==
  ASSUME IInv, [Next]_vars
  PROVE  TypeOK'
<1> DEFINE F == [state : {"none", "torn", "whole"}, session : Session]
           R == [kind : {"none", "open", "load", "mode", "close"},
                 mode : {"none", "deny", "accept-edits", "yolo"}]
           V == [stage : {"none", "due", "writing"}, content : Session]
           T == [born : BOOLEAN, closed : BOOLEAN, turns : Nat, faults : SUBSET Faults,
                 modes : SUBSET {"deny", "accept-edits", "yolo"},
                 rules : [Tools -> SUBSET {"ask", "allow", "reject"}]]
<1>0. /\ served \in Sessions \cup {"none"} /\ live \in Session
      /\ file \in [Sessions -> F] /\ request \in R /\ prompt \in Prompts
      /\ saves \in [{"request", "prompt"} -> V] /\ told \in [Sessions -> T]
      /\ struck \subseteq Sessions \X Faults /\ crossed \subseteq Sessions
  BY DEF IInv, TypeOK
<1>p. prompt' \in Prompts
  BY StepPrompt DEF PromptPart
<1>f. /\ NewSession \in Session /\ NoFile \in F /\ Torn \in F
      /\ \A s \in Session : Saved(s) \in F
      /\ NoSave \in V /\ Untold \in T /\ NoRequest \in R
  BY FreshTyped DEF NoRequest
<1> HIDE DEF F, R, V, T
<1> DEFINE Rest == /\ served' \in Sessions \cup {"none"} /\ live' \in Session
                   /\ file' \in [Sessions -> F] /\ request' \in R
                   /\ saves' \in [{"request", "prompt"} -> V] /\ told' \in [Sessions -> T]
                   /\ struck' \subseteq Sessions \X Faults /\ crossed' \subseteq Sessions
<1> SUFFICES Rest
  BY <1>p DEF TypeOK, F, R, V, T
<1>s. ASSUME NEW w \in {"request", "prompt"}, NEW st \in {"due", "writing"}
      PROVE  [saves EXCEPT ![w].stage = st] \in [{"request", "prompt"} -> V]
  BY <1>0 DEF V
<1>n. served = "none" => /\ request.kind = "none" /\ prompt.todo = <<>>
                         /\ saves["request"].stage = "none" /\ saves["prompt"].stage = "none"
  BY <1>0 DEF IInv, ServedOk
<1>o. ASSUME NEW w \in {"request", "prompt"}, served \in Sessions
      PROVE  Overlap(w) \subseteq Sessions
  BY <1>0, <1>o DEF Overlap
<1>1. CASE UNCHANGED <<served, live, file, request, saves, told, struck, crossed>>
  BY <1>0, <1>1
<1>2. CASE Exits
  <2>1. ASSUME NEW w \in DOMAIN saves, saves[w].stage = "writing"
        PROVE  /\ [file EXCEPT ![served] = Saved(saves[w].content)] \in [Sessions -> F]
               /\ [file EXCEPT ![served] = Torn] \in [Sessions -> F]
    <3>1. served \in Sessions
      BY <1>0, <1>n, <2>1
    <3>2. Saved(saves[w].content) \in F
      BY <1>0, <1>f, <2>1 DEF V
    <3> QED BY <1>0, <1>f, <3>1, <3>2
  <2>2. file' \in [Sessions -> F]
    BY <1>0, <1>2, <2>1 DEF Exits, Interrupted
  <2>3. saves' \in [{"request", "prompt"} -> V]
    BY <1>0, <1>2, <1>f DEF Exits
  <2> QED BY <1>0, <1>2, <1>f, <2>2, <2>3 DEF Exits
<1>3. ASSUME NEW s \in Sessions, NEW session \in Session, NEW kind \in {"open", "load"},
             Open(s, session, kind), told' \in [Sessions -> T], crossed' \subseteq Sessions
      PROVE  Rest
  <2>1. request' \in R
    BY <1>3 DEF Open, R, Session
  <2> QED BY <1>0, <1>3, <1>s, <2>1 DEF Open
<1>4. CASE \E s \in Sessions : New(s) \/ Load(s)
  <2>1. PICK s \in Sessions : New(s) \/ Load(s)
    BY <1>4
  <2>2. CASE New(s)
    <3>1. told' \in [Sessions -> T] /\ crossed' \subseteq Sessions
      BY <1>0, <1>f, <2>2 DEF New
    <3> QED BY <1>3, <1>f, <2>2, <3>1 DEF New
  <2>3. CASE Load(s)
    <3>1. told' \in [Sessions -> T] /\ crossed' \subseteq Sessions
      BY <1>0, <2>3 DEF Load
    <3>2. file[s].session \in Session
      BY <1>0 DEF F
    <3> QED BY <1>3, <2>3, <3>1, <3>2 DEF Load
  <2> QED BY <2>1, <2>2, <2>3
<1>5. CASE \E s, t \in Sessions : Fork(s, t)
  <2>1. PICK s \in Sessions, t \in Sessions : Fork(s, t)
    BY <1>5
  <2>2. file[s].session \in Session /\ crossed' \subseteq Sessions
    BY <1>0, <2>1 DEF F, Fork
  <2>3. told' \in [Sessions -> T]
    <3>1. [told[s] EXCEPT !.born = FALSE, !.closed = FALSE,
                          !.faults = {f \in @ : <<s, f>> \notin struck}] \in T
      BY <1>0, ZenonT(60) DEF T
    <3> QED BY <1>0, <2>1, <3>1 DEF Fork
  <2> QED BY <1>3, <2>1, <2>2, <2>3 DEF Fork
<1>6. CASE \E m \in Modes : SetMode(m)
  <2>1. PICK m \in Modes : SetMode(m)
    BY <1>6
  <2>2. m \in {"deny", "accept-edits", "yolo"} /\ served \in Sessions
    BY <1>0, <2>1, SimulatorAssumption DEF SetMode, Usable
  <2>3. live' \in Session /\ request' \in R
    BY <1>0, <2>1, <2>2 DEF SetMode, Session, R
  <2>4. told' \in [Sessions -> T]
    BY <1>0, <2>1, <2>2, ZenonT(60) DEF SetMode, T
  <2>5. crossed' \subseteq Sessions /\ saves' \in [{"request", "prompt"} -> V]
    BY <1>o, <1>s, <2>1, <2>2 DEF SetMode, Persist, Usable
  <2> QED BY <1>0, <2>1, <2>3, <2>4, <2>5 DEF SetMode
<1>7. CASE Close
  <2>1. request' \in R
    BY <1>0, <1>7 DEF Close, R, Session
  <2>2. crossed' \subseteq Sessions /\ saves' \in [{"request", "prompt"} -> V]
    BY <1>0, <1>o, <1>s, <1>7 DEF Close, Persist, Usable
  <2> QED BY <1>0, <1>7, <2>1, <2>2 DEF Close
<1>8. CASE Removed
  <2>1. served \in Sessions
    BY <1>0, <1>8, <1>n DEF Removed
  <2>2. told' \in [Sessions -> T]
    <3>1. [told[served] EXCEPT !.closed = TRUE] \in T
      BY <1>0, <2>1 DEF T
    <3> QED BY <1>0, <1>8, <2>1, <3>1 DEF Removed
  <2> QED BY <1>0, <1>8, <1>f, <2>1, <2>2 DEF Removed
<1>9. CASE Responds
  <2>1. served \in Sessions
    BY <1>0, <1>9, <1>n DEF Responds
  <2>2. request.mode \in {"deny", "accept-edits", "yolo"}
    BY <1>0, <1>9 DEF Responds, IInv, ServedOk, Session
  <2>3. told' \in [Sessions -> T]
    <3> DEFINE m == {request.mode}
    <3>2. told' = [told EXCEPT ![served] =
                    [told[served] EXCEPT !.born = TRUE, !.modes = m]]
      BY <1>0, <1>9, <2>1 DEF Responds
    <3>3. m \in SUBSET {"deny", "accept-edits", "yolo"}
      BY <2>2
    <3> HIDE DEF m
    <3>1. [told[served] EXCEPT !.born = TRUE, !.modes = m] \in T
      BY <1>0, <2>1, <3>3, ZenonT(60) DEF T
    <3> QED BY <1>0, <2>1, <3>1, <3>2
  <2>4. Saved(saves["request"].content) \in F
    BY <1>0, <1>f DEF V
  <2>5. file' \in [Sessions -> F] /\ saves' \in [{"request", "prompt"} -> V]
    BY <1>0, <1>9, <1>f, <2>1, <2>4 DEF Responds, Written
  <2> QED BY <1>0, <1>9, <1>f, <2>3, <2>5 DEF Responds
<1>10. ASSUME NEW w \in DOMAIN saves, Serialize(w)
       PROVE  Rest
  <2>1. [stage |-> "writing", content |-> live] \in V
    BY <1>0 DEF V
  <2> QED BY <1>0, <1>10, <2>1 DEF Serialize
<1>11. CASE Title \/ Rename
  <2>1. served \in Sessions
    BY <1>0, <1>11, <1>n DEF Title, Rename, At, Running
  <2>2. live' \in Session
    BY <1>0, <1>11 DEF Title, Rename, Session
  <2>3. crossed' \subseteq Sessions /\ saves' \in [{"request", "prompt"} -> V]
    BY <1>0, <1>o, <1>s, <1>11, <2>1 DEF Title, Rename, Persist
  <2> QED BY <1>0, <1>11, <2>2, <2>3 DEF Title, Rename
<1>12. CASE Arm
  <2>1. served \in Sessions
    BY <1>0, <1>12, <1>n DEF Arm, At, Running
  <2>2. live.faults \in Seq(Faults)
    BY <1>0 DEF Session
  <2>3. live' \in Session /\ struck' \subseteq Sessions \X Faults
    <3>1. CASE live.faults = <<>>
      BY <1>0, <1>12, <3>1 DEF Arm
    <3>2. CASE live.faults # <<>>
      <4>1. Head(live.faults) \in Faults /\ Tail(live.faults) \in Seq(Faults)
        BY <2>2, <3>2
      <4>2. live' = live \/ live' = [live EXCEPT !.faults = Tail(live.faults)]
        BY <1>12 DEF Arm
      <4>3. struck' = struck \/ struck' = struck \cup {<<served, Head(live.faults)>>}
        BY <1>12 DEF Arm
      <4>4. live' \in Session
        BY <1>0, <4>1, <4>2 DEF Session
      <4>5. struck' \subseteq Sessions \X Faults
        BY <1>0, <2>1, <4>1, <4>3
      <4> QED BY <4>4, <4>5
    <3> QED BY <3>1, <3>2
  <2> QED BY <1>0, <1>12, <2>3 DEF Arm
<1>13. CASE ClientDecides
  <2>1. prompt.todo # <<>> /\ Head(prompt.todo).do = "permission"
    BY <1>13 DEF ClientDecides, IInv, PromptOk, Running
  <2>2. Tool \in Tools /\ served \in Sessions
    BY <1>0, <1>n, <2>1, AboutTool DEF ToolDos
  <2>3. CASE UNCHANGED <<live, saves, told, crossed>>
    BY <1>0, <1>13, <2>3 DEF ClientDecides
  <2>4. ASSUME NEW always \in {"allow", "reject"},
               live' = [live EXCEPT !.rules[Tool] = always],
               told' = [told EXCEPT ![served].rules[Tool] = @ \cup {always}],
               Persist("prompt")
        PROVE  Rest
    <3>1. live' \in Session
      BY <1>0, <2>2, <2>4 DEF Session
    <3>2. told' \in [Sessions -> T]
      <4> DEFINE r == [told[served].rules EXCEPT ![Tool] = @ \cup {always}]
      <4>1. r \in [Tools -> SUBSET {"ask", "allow", "reject"}]
        BY <1>0, <2>2 DEF T
      <4>2. told' = [told EXCEPT ![served] = [told[served] EXCEPT !.rules = r]]
        BY <1>0, <2>2, <2>4
      <4> HIDE DEF r
      <4>3. [told[served] EXCEPT !.rules = r] \in T
        BY <1>0, <2>2, <4>1, ZenonT(60) DEF T
      <4> QED BY <1>0, <2>2, <4>2, <4>3
    <3>3. crossed' \subseteq Sessions /\ saves' \in [{"request", "prompt"} -> V]
      BY <1>o, <1>s, <2>2, <2>4, <1>0 DEF Persist
    <3> QED BY <1>0, <1>13, <3>1, <3>2, <3>3 DEF ClientDecides
  <2> QED BY <1>13, <2>3, <2>4 DEF ClientDecides
<1>14. CASE RuleSaved
  <2>1. prompt.todo # <<>> /\ Head(prompt.todo).do = "permission"
    BY <1>14 DEF RuleSaved, IInv, PromptOk, Running
  <2>2. Tool \in Tools /\ served \in Sessions
    BY <1>0, <1>n, <2>1, AboutTool DEF ToolDos
  <2>3. told' \in [Sessions -> T]
    <3> DEFINE r == [told[served].rules EXCEPT ![Tool] = {live.rules[Tool]}]
    <3>1. r \in [Tools -> SUBSET {"ask", "allow", "reject"}]
      BY <1>0, <2>2 DEF T, Session
    <3>2. told' = [told EXCEPT ![served] = [told[served] EXCEPT !.rules = r]]
      BY <1>0, <1>14, <2>2 DEF RuleSaved
    <3> HIDE DEF r
    <3>3. [told[served] EXCEPT !.rules = r] \in T
      BY <1>0, <2>2, <3>1, ZenonT(60) DEF T
    <3> QED BY <1>0, <2>2, <3>2, <3>3
  <2>4. Saved(saves["prompt"].content) \in F
    BY <1>0, <1>f DEF V
  <2>5. file' \in [Sessions -> F] /\ saves' \in [{"request", "prompt"} -> V]
    BY <1>0, <1>14, <1>f, <2>2, <2>4 DEF RuleSaved, Written
  <2> QED BY <1>0, <1>14, <2>3, <2>5 DEF RuleSaved
<1>15. CASE Queue
  <2>1. served \in Sessions
    BY <1>0, <1>15, <1>n DEF Queue, At, Running
  <2>2. live' \in Session
    <3>1. Append(live.faults, prompt.queues) \in Seq(Faults)
      BY <1>0, <1>15, QueuesOne DEF Queue, Session
    <3> QED BY <1>0, <1>15, <3>1 DEF Queue, Session
  <2>3. crossed' \subseteq Sessions /\ saves' \in [{"request", "prompt"} -> V]
    BY <1>0, <1>o, <1>s, <1>15, <2>1 DEF Queue, Persist
  <2> QED BY <1>0, <1>15, <2>2, <2>3 DEF Queue
<1>16. CASE PromptSaved \/ Answered
  <2>1. served \in Sessions
    <3>1. prompt.wait \in PromptSaves
      BY <1>16 DEF PromptSaved, Answered, PromptSaves
    <3> QED BY <1>0, <1>n, <3>1 DEF IInv, PromptOk
  <2>2. Saved(saves["prompt"].content) \in F
    BY <1>0, <1>f DEF V
  <2>3. file' \in [Sessions -> F] /\ saves' \in [{"request", "prompt"} -> V]
    BY <1>0, <1>16, <1>f, <2>1, <2>2 DEF PromptSaved, Answered, Written
  <2>4. told' \in [Sessions -> T]
    <3>1. prompt.queues \in Faults \cup {"none"}
      BY <1>0 DEF Prompts
    <3> DEFINE n == told[served].turns + 1
               q == told[served].faults \cup ({prompt.queues} \ {"none"})
    <3>2. n \in Nat /\ q \in SUBSET Faults
      BY <1>0, <2>1, <3>1 DEF T
    <3>3. \/ told' = told
          \/ told' = [told EXCEPT ![served] = [told[served] EXCEPT !.turns = n, !.faults = q]]
      BY <1>0, <1>16, <2>1 DEF PromptSaved, Answered
    <3> HIDE DEF n, q
    <3>4. [told[served] EXCEPT !.turns = n, !.faults = q] \in T
      BY <1>0, <2>1, <3>2, ZenonT(60) DEF T
    <3> QED BY <1>0, <2>1, <3>3, <3>4
  <2> QED BY <1>0, <1>16, <2>3, <2>4 DEF PromptSaved, Answered
<1>17. CASE Finish
  <2>1. served \in Sessions
    BY <1>0, <1>17, <1>n DEF Finish, At, Running
  <2>2. live' \in Session
    BY <1>0, <1>17 DEF Finish, Recorded, Session
  <2>3. crossed' \subseteq Sessions /\ saves' \in [{"request", "prompt"} -> V]
    BY <1>0, <1>o, <1>s, <1>17, <2>1 DEF Finish, Persist
  <2> QED BY <1>0, <1>17, <2>2, <2>3 DEF Finish
<1>18. CASE \/ Initialize \/ Authenticate \/ ReplayEnds \/ UNCHANGED vars \/ Cancel
            \/ Strike \/ Announced \/ Slept \/ Call \/ Permission \/ Use \/ EndTool
            \/ PlanProgress
            \/ \E a \in Actions, f \in Faults \cup {"none"} : Prompt(a, f)
  BY <1>1, <1>18 DEF Initialize, Authenticate, ReplayEnds, vars, Cancel, Strike,
     Announced, Slept, Call, Permission, Use, EndTool, PlanProgress, Prompt
<1> HIDE DEF Rest
<1> QED
  BY <1>2, <1>4, <1>5, <1>6, <1>7, <1>8, <1>9, <1>10, <1>11, <1>12, <1>13, <1>14, <1>15,
     <1>16, <1>17, <1>18
  DEF Next, StoreStep, PromptStep, Kill, Crash

-----------------------------------------------------------------------------
(* What holds before and after every step, in one place.                   *)
LEMMA Facts ==
  ASSUME IInv
  PROVE  /\ served \in Sessions \cup {"none"} /\ live \in Session /\ prompt \in Prompts
         /\ DOMAIN saves = {"request", "prompt"}
         /\ \A w \in {"request", "prompt"} :
              /\ DOMAIN saves[w] = {"stage", "content"}
              /\ saves[w].stage \in {"none", "due", "writing"}
              /\ saves[w].content \in Session
         /\ \A s \in Sessions : /\ file[s] \in [state : {"none", "torn", "whole"},
                                                session : Session]
                                /\ file[s].session \in Session
         /\ DOMAIN file = Sessions /\ DOMAIN told = Sessions
         /\ \A s \in Sessions : told[s] \in
              [born : BOOLEAN, closed : BOOLEAN, turns : Nat,
               faults : SUBSET Faults, modes : SUBSET {"deny", "accept-edits", "yolo"},
               rules : [Tools -> SUBSET {"ask", "allow", "reject"}]]
         /\ served = "none" =>
              /\ request.kind = "none" /\ prompt.todo = <<>> /\ prompt.wait = "no"
              /\ saves["request"].stage = "none" /\ saves["prompt"].stage = "none"
         /\ \A w \in {"request", "prompt"} : saves[w].stage # "none" => served \in Sessions
         /\ prompt.todo # <<>> \/ prompt.wait # "no" => served \in Sessions
         /\ served \in Sessions => served # "none"
<1>1. TypeOK /\ ServedOk /\ PromptOk
  BY DEF IInv
<1>2. prompt.wait # "no" => prompt.todo # <<>>
  BY <1>1 DEF PromptOk, Running
<1>3. DOMAIN saves = {"request", "prompt"}
  BY <1>1 DEF TypeOK
<1>4. served = "none" =>
              /\ request.kind = "none" /\ prompt.todo = <<>> /\ prompt.wait = "no"
              /\ saves["request"].stage = "none" /\ saves["prompt"].stage = "none"
  BY <1>1, <1>2, <1>3 DEF ServedOk
<1> QED BY <1>1, <1>2, <1>4, SimulatorAssumption DEF TypeOK

(* Every step keeps requests and saves with the session served.            *)
LEMMA StepServed ==
  ASSUME IInv, [Next]_vars
  PROVE  ServedOk'
<1>1. /\ DOMAIN saves = {"request", "prompt"} /\ DOMAIN saves' = {"request", "prompt"}
      /\ served = "none" =>
              /\ request.kind = "none" /\ prompt.todo = <<>> /\ prompt.wait = "no"
              /\ saves["request"].stage = "none" /\ saves["prompt"].stage = "none"
  BY Facts, StepTyped DEF TypeOK
<1>2. /\ request.kind # "none" <=> saves["request"].stage # "none"
      /\ request.kind = "close" => saves["request"].stage = "due"
      /\ request.kind # "none" => request.mode = live.mode
      /\ live \in Session /\ saves["request"].stage \in {"none", "due", "writing"}
      /\ saves \in [{"request", "prompt"} ->
                     [stage : {"none", "due", "writing"}, content : Session]]
      /\ request \in [kind : {"none", "open", "load", "mode", "close"},
                      mode : {"none", "deny", "accept-edits", "yolo"}]
  BY <1>1 DEF IInv, ServedOk, TypeOK
<1>3. CASE /\ UNCHANGED <<served, request>> /\ saves'["request"] = saves["request"]
           /\ live'.mode = live.mode /\ served # "none"
  BY <1>1, <1>2, <1>3 DEF ServedOk
<1>4. CASE UNCHANGED <<served, request, saves, live, prompt>>
  BY <1>4 DEF IInv, ServedOk
<1>5. CASE Exits
  BY <1>1, <1>5 DEF Exits, ServedOk, NoRequest, NoSave, Idle
<1>6. ASSUME NEW s \in Sessions, NEW session, NEW kind \in {"load", "open"},
             Open(s, session, kind)
      PROVE  ServedOk'
  <2>1. served' # "none"
    BY <1>6, SimulatorAssumption DEF Open
  <2>2. saves'["request"].stage = "due"
    BY <1>2, <1>6 DEF Open
  <2> QED BY <1>6, <2>1, <2>2 DEF Open, ServedOk
<1>7. CASE (\E m \in Modes : SetMode(m)) \/ Close
  <2>1. served' # "none" /\ served' = served
    BY <1>7 DEF SetMode, Close, Usable
  <2>2. saves'["request"].stage = "due"
    BY <1>2, <1>7 DEF SetMode, Close, Persist
  <2>3. request'.kind # "none" /\ request'.mode = live'.mode
    BY <1>2, <1>7 DEF SetMode, Close, Session
  <2> QED BY <2>1, <2>2, <2>3 DEF ServedOk
<1>8. CASE Removed \/ Responds
  <2>1. served' # "none"
    BY <1>1, <1>2, <1>8 DEF Removed, Responds
  <2>2. saves'["request"].stage = "none" /\ request' = NoRequest
    BY <1>2, <1>8 DEF Removed, Responds, Written, NoSave
  <2> QED BY <2>1, <2>2 DEF ServedOk, NoRequest
<1>9. ASSUME NEW w \in DOMAIN saves, Serialize(w)
      PROVE  ServedOk'
  <2>1. served' # "none"
    BY <1>1, <1>9 DEF Serialize
  <2>2. CASE w = "request"
    <3>1. saves'["request"].stage = "writing" /\ request.kind # "close"
          /\ saves["request"].stage = "due"
      BY <1>2, <1>9, <2>2 DEF Serialize
    <3> QED BY <1>2, <1>9, <2>1, <3>1 DEF ServedOk, Serialize
  <2>3. CASE w = "prompt"
    <3>1. saves'["request"] = saves["request"]
      BY <1>2, <1>9, <2>3 DEF Serialize
    <3> QED BY <1>2, <1>9, <2>1, <3>1 DEF ServedOk, Serialize
  <2> QED BY <1>1, <2>2, <2>3
<1>10. CASE Title \/ Rename \/ Queue \/ Finish
  <2>1. served # "none"
    BY <1>1, <1>10 DEF Title, Rename, Queue, Finish, At, Running
  <2>2. saves'["request"] = saves["request"] /\ live'.mode = live.mode
    BY <1>2, <1>10 DEF Title, Rename, Queue, Finish, Persist, Recorded, Session
  <2> QED BY <1>3, <1>10, <2>1, <2>2 DEF Title, Rename, Queue, Finish
<1>11. CASE Arm
  <2>1. served # "none"
    BY <1>1, <1>11 DEF Arm, At, Running
  <2>2. saves'["request"] = saves["request"] /\ live'.mode = live.mode
    BY <1>2, <1>11 DEF Arm, Session
  <2> QED BY <1>3, <1>11, <2>1, <2>2 DEF Arm
<1>12. CASE ClientDecides
  <2>1. served # "none"
    BY <1>1, <1>12 DEF ClientDecides
  <2>2. saves'["request"] = saves["request"] /\ live'.mode = live.mode
    BY <1>2, <1>12 DEF ClientDecides, Persist, Session
  <2> QED BY <1>3, <1>12, <2>1, <2>2 DEF ClientDecides
<1>13. CASE RuleSaved \/ PromptSaved \/ Answered
  <2>1. served # "none"
    BY <1>1, <1>13 DEF RuleSaved, PromptSaved, Answered
  <2>2. saves'["request"] = saves["request"] /\ live'.mode = live.mode
    BY <1>2, <1>13 DEF RuleSaved, PromptSaved, Answered, Written
  <2> QED BY <1>3, <1>13, <2>1, <2>2 DEF RuleSaved, PromptSaved, Answered
<1>14. CASE \/ Initialize \/ Authenticate \/ ReplayEnds \/ UNCHANGED vars
  BY <1>4, <1>14 DEF Initialize, Authenticate, ReplayEnds, vars
<1>15. CASE \/ Cancel \/ Strike \/ Announced \/ Slept \/ Call \/ Permission \/ Use
            \/ EndTool \/ PlanProgress
            \/ \E a \in Actions, f \in Faults \cup {"none"} : Prompt(a, f)
  <2>1. served # "none"
    BY <1>1, <1>15 DEF Cancel, Strike, Announced, Slept, Call, Permission, Use,
       EndTool, PlanProgress, Prompt, At, Running, Usable
  <2> QED BY <1>3, <1>15, <2>1 DEF Cancel, Strike, Announced, Slept, Call, Permission, Use,
       EndTool, PlanProgress, Prompt
<1>16. CASE \/ \E s \in Sessions : New(s) \/ Load(s)
            \/ \E s, t \in Sessions : Fork(s, t)
  BY <1>6, <1>16 DEF New, Load, Fork
<1> QED
  BY <1>5, <1>7, <1>8, <1>9, <1>10, <1>11, <1>12, <1>13, <1>14, <1>15, <1>16
  DEF Next, StoreStep, PromptStep, Kill, Crash

-----------------------------------------------------------------------------
(* Scripts that queue nothing.                                             *)
NoQueue(a) == a \in Seq(ScriptStep) /\ \A i \in 1..Len(a) : a[i].do # "queue"

(* Scripts that queue nothing make up one that queues nothing.             *)
LEMMA NoQueueConcat ==
  ASSUME NEW a, NEW b, NoQueue(a), NoQueue(b)
  PROVE  NoQueue(a \o b)
<1>1. a \in Seq(ScriptStep) /\ b \in Seq(ScriptStep) /\ a \o b \in Seq(ScriptStep)
  BY ConcatProperties DEF NoQueue
<1>2. /\ Len(a) \in Nat /\ Len(b) \in Nat /\ Len(a \o b) = Len(a) + Len(b)
      /\ \A i \in 1..Len(a) : (a \o b)[i] = a[i]
      /\ \A i \in 1..Len(b) : (a \o b)[i + Len(a)] = b[i]
  BY <1>1, ConcatProperties
<1> DEFINE c == a \o b
<1> HIDE DEF c
<1>3. ASSUME NEW i \in 1..Len(c) PROVE c[i].do # "queue"
  <2>1. CASE i <= Len(a)
    BY <1>2, <2>1 DEF NoQueue, c
  <2>2. CASE i > Len(a)
    <3>1. i - Len(a) \in 1..Len(b) /\ (i - Len(a)) + Len(a) = i
      BY <1>2, <2>2 DEF c
    <3>2. c[i] = b[i - Len(a)]
      BY <1>2, <3>1 DEF c
    <3> QED BY <3>1, <3>2 DEF NoQueue
  <2> QED BY <1>2, <2>1, <2>2 DEF c
<1> QED BY <1>1, <1>3 DEF NoQueue, c

(* No script but that of simulate queues a fault.                          *)
LEMMA NoQueueScript ==
  ASSUME NEW action \in Actions, action # "simulate"
  PROVE  NoQueue(Opening(action) \o <<Step("strike", "none")>> \o Script(action)
                   \o Closing(action))
<1>1. \A st \in ScriptStep : st.do # "queue" => NoQueue(<<st>>)
  BY DEF NoQueue
<1>2. NoQueue(<<>>)
  BY DEF NoQueue
<1>3. \A do \in Dos \ {"queue"} : NoQueue(<<Step(do, "none")>>)
  BY <1>1 DEF Step, ScriptStep, Dos
<1>4. \A do \in Dos \ {"queue"}, i \in Nat : NoQueue(Plan(do, i))
  BY <1>1 DEF Step, Plan, ScriptStep, Dos
<1>5. NoQueue(Opening(action))
  BY <1>2, <1>3, <1>4, NoQueueConcat DEF Opening, Dos
<1>6. \A tool \in Tools : NoQueue(UseTool(tool))
  BY DEF NoQueue, UseTool, Step, ScriptStep, Dos, Tools
<1>7. NoQueue(UseTool("read") \o Plan("plan", 2) \o UseTool("run") \o Plan("plan", 3)
               \o UseTool("write") \o Plan("plan", 4))
  <2>1. NoQueue(UseTool("read")) /\ NoQueue(UseTool("run")) /\ NoQueue(UseTool("write"))
    BY <1>6 DEF Tools
  <2>2. NoQueue(Plan("plan", 2)) /\ NoQueue(Plan("plan", 3)) /\ NoQueue(Plan("plan", 4))
    BY <1>4 DEF Dos
  <2> QED BY <2>1, <2>2, NoQueueConcat
<1>8. NoQueue(Script(action))
  BY <1>2, <1>3, <1>6, <1>7, SimulatorAssumption DEF Script, Dos, Tools
<1>9. NoQueue(Closing(action)) /\ NoQueue(<<Step("strike", "none")>>)
  BY <1>3, <1>4 DEF Closing, Dos
<1> QED BY <1>5, <1>8, <1>9, NoQueueConcat

(* Every step keeps the queueing of faults to who brings one.              *)
LEMMA StepQueues ==
  ASSUME IInv, [Next]_vars
  PROVE  QueuesOk'
<1>1. CASE prompt' = Idle
  BY <1>1, IdlePrompt DEF QueuesOk, Idle
<1>2. CASE \E a \in Actions, f \in Faults \cup {"none"} : Prompt(a, f)
  <2>1. PICK a \in Actions, f \in Faults \cup {"none"} : Prompt(a, f)
    BY <1>2
  <2> DEFINE t == Opening(a) \o <<Step("strike", "none")>> \o Script(a) \o Closing(a)
  <2>2. a = "simulate" => f # "none"
    BY <2>1, SimulatorAssumption DEF Prompt
  <2>3. a # "simulate" => NoQueue(t)
    BY NoQueueScript
  <2> HIDE DEF t
  <2>4. prompt'.queues = f /\ prompt'.todo = t
    BY <2>1 DEF Prompt, Idle, t
  <2> QED BY <2>2, <2>3, <2>4 DEF QueuesOk, NoQueue
<1>3. CASE Onward(prompt, prompt')
  <2>1. PICK n \in Nat : LeftOf(prompt'.todo, prompt.todo, n)
    BY <1>3 DEF Onward
  <2>2. ASSUME NEW i \in 1..Len(prompt'.todo)
        PROVE  i + n \in 1..Len(prompt.todo) /\ prompt'.todo[i] = prompt.todo[i + n]
    <3>1. prompt.todo \in Seq(ScriptStep)
      BY Facts DEF Prompts
    <3>2. Len(prompt.todo) \in Nat /\ Len(prompt'.todo) = Len(prompt.todo) - n
      BY <2>1, <3>1 DEF LeftOf
    <3> QED BY <2>1, <2>2, <3>2 DEF LeftOf
  <2> QED BY <1>3, <2>2 DEF IInv, QueuesOk, Onward
<1> QED BY <1>1, <1>2, <1>3, StepOnward

-----------------------------------------------------------------------------
(* Who waits for an answer has no rule for it, and who is about to answer  *)
(* has only its last step left.                                            *)
LEMMA StepWaits ==
  ASSUME IInv, [Next]_vars
  PROVE  /\ RulesAsked'
         /\ prompt'.wait = "answering" =>
              Finish \/ (prompt.wait = "answering" /\ prompt'.todo = prompt.todo)
<1> DEFINE Goal ==
      /\ RulesAsked'
      /\ prompt'.wait = "answering" =>
           Finish \/ (prompt.wait = "answering" /\ prompt'.todo = prompt.todo)
<1> USE DEF IInv, RulesOk
<1>0. prompt \in Prompts /\ live \in Session /\ TypeOK'
  BY Facts, StepTyped
<1>a. \A how : Allowed(how) => prompt'.wait = "no"
  <2> SUFFICES ASSUME NEW how, Allowed(how) PROVE prompt'.wait = "no"
    OBVIOUS
  <2> DEFINE q == Sent(Advanced(prompt), "in_progress")
  <2>1. prompt' = [q EXCEPT !.leave = how, !.wait = "no"]
    BY DEF Allowed
  <2> HIDE DEF q
  <2>2. prompt' \in Prompts
    BY <1>0 DEF TypeOK
  <2> QED BY <2>1, <2>2 DEF Prompts
<1>b. Denied => prompt'.wait = "no"
  <2> SUFFICES ASSUME Denied PROVE prompt'.wait = "no"
    OBVIOUS
  <2> DEFINE q == Sent(ToolOver(prompt), "failed")
  <2>1. prompt' = [q EXCEPT !.wait = "no"]
    BY DEF Denied
  <2> HIDE DEF q
  <2>2. prompt' \in Prompts
    BY <1>0 DEF TypeOK
  <2> QED BY <2>1, <2>2 DEF Prompts
<1>1. CASE UNCHANGED <<prompt, live>>
  BY <1>1 DEF RulesAsked, Tool
<1>2. CASE prompt' = Idle
  BY <1>2, IdlePrompt DEF RulesAsked
<1>3. CASE Permission
  <2>1. At("permission") /\ prompt.todo # <<>> /\ Head(prompt.todo).do = "permission"
        /\ live' = live
    BY <1>3 DEF Permission, At, Running
  <2>2. CASE (\E how : Allowed(how)) \/ Denied
    BY <1>a, <1>b, <2>2 DEF RulesAsked
  <2>3. CASE /\ prompt' = [prompt EXCEPT !.wait = "asking"]
             /\ live.mode = "accept-edits"
             /\ "allow" \notin Remembered(Tool) /\ Remembered(Tool) # {"reject"}
    <3>1. Tool \in Tools
      BY <2>1, AboutTool DEF ToolDos
    <3>2. live.rules[Tool] \in {"ask", "allow", "reject"}
      BY <1>0, <3>1 DEF Session
    <3>3. live.rules[Tool] = "ask"
      BY <2>3, <3>2 DEF Remembered
    <3>4. prompt'.todo = prompt.todo /\ prompt'.wait = "asking"
      BY <1>0, <2>3 DEF Prompts
    <3> QED BY <2>1, <3>3, <3>4 DEF RulesAsked, Tool
  <2> QED BY <1>3, <2>2, <2>3 DEF Permission
<1>4. CASE ClientDecides
  <2>1. CASE prompt' = [prompt EXCEPT !.wait = "remembering"]
    <3>1. prompt'.wait = "remembering"
      BY <1>0, <2>1 DEF Prompts
    <3> QED BY <3>1 DEF RulesAsked
  <2> QED BY <1>4, <1>a, <1>b, <2>1 DEF ClientDecides, RulesAsked
<1>5. CASE RuleSaved
  BY <1>5, <1>a, <1>b DEF RuleSaved, RulesAsked
<1>6. CASE Close \/ Cancel
  <2>1. CASE prompt' = Aborted(prompt) /\ prompt.todo # <<>> /\ live' = live
    <3>1. \/ prompt' = [prompt EXCEPT !.aborted = TRUE]
          \/ prompt' = [prompt EXCEPT !.aborted = TRUE, !.wait = "no",
                                      !.todo = <<Last(prompt.todo)>>]
      BY <1>0, <2>1, AbortedTo DEF PromptOk
    <3>2. \/ prompt'.wait = prompt.wait /\ prompt'.todo = prompt.todo
          \/ prompt'.wait = "no"
      <4>1. CASE prompt' = [prompt EXCEPT !.aborted = TRUE]
        BY <1>0, <4>1 DEF Prompts
      <4>2. CASE prompt' = [prompt EXCEPT !.aborted = TRUE, !.wait = "no",
                                          !.todo = <<Last(prompt.todo)>>]
        BY <1>0, <4>2 DEF Prompts
      <4> QED BY <3>1, <4>1, <4>2
    <3> QED BY <2>1, <3>2 DEF RulesAsked, Tool
  <2> QED BY <1>1, <1>6, <2>1 DEF Close, Cancel, Running
<1>7. CASE \E m \in Modes : SetMode(m)
  <2>1. live'.rules = live.rules /\ prompt' = prompt
    BY <1>0, <1>7 DEF SetMode, Session
  <2> QED BY <2>1 DEF RulesAsked, Tool
<1>8. CASE \/ \E s \in Sessions : New(s) \/ Load(s)
           \/ \E s, t \in Sessions : Fork(s, t)
  <2>1. prompt' = prompt /\ served = "none"
    BY <1>8 DEF New, Load, Fork, Open
  <2>2. prompt.wait = "no"
    BY <2>1, Facts
  <2> QED BY <2>1, <2>2 DEF RulesAsked
<1>9. CASE Exits
  BY <1>2, <1>9 DEF Exits
<1>10. ASSUME prompt'.wait \notin {"asking", "answering"} PROVE Goal
  BY <1>10 DEF RulesAsked
<1>11. CASE \E a \in Actions, f \in Faults \cup {"none"} : Prompt(a, f)
  <2>1. prompt'.wait = "no"
    BY <1>11 DEF Prompt, Idle
  <2> QED BY <1>10, <2>1
<1>12. CASE Title \/ Rename \/ Queue
  <2>1. prompt.wait = "no" /\ (prompt' = Advanced(prompt) \/ prompt' = Saving(Advanced(prompt)))
    BY <1>12 DEF Title, Rename, Queue, At
  <2>2. prompt'.wait = "no" \/ prompt'.wait = "saving"
    BY <1>0, <2>1 DEF Saving, Advanced, Prompts
  <2> QED BY <1>10, <2>2
<1>13. CASE Arm \/ PlanProgress \/ EndTool \/ (Call /\ prompt' # ToolOver(prompt))
  <2>1. prompt.wait = "no" /\ prompt.todo # <<>>
    BY <1>13 DEF Arm, PlanProgress, EndTool, Call, At, Running
  <2>2. \E p \in Prompts : p.wait = "no" /\ SameButSeen(p, prompt')
    <3>0. Head(prompt.todo) \in ScriptStep /\ Ordered(prompt.todo)
      BY <1>0, <2>1, HeadOf DEF PromptOk
    <3>1. Advanced(prompt) \in Prompts /\ Advanced(prompt).wait = "no"
      <4>1. /\ Advanced(prompt) \in Prompts
            /\ Advanced(prompt) = [prompt EXCEPT !.todo = Tail(prompt.todo)]
        BY <1>0, <2>1, <3>0, AdvancedTo
      <4> QED BY <1>0, <2>1, <4>1 DEF Prompts
    <3>2. CASE PlanProgress
      BY <3>0, <3>1, <3>2, SentPlanSame DEF PlanProgress, ScriptStep
    <3>3. CASE Call /\ prompt' # ToolOver(prompt)
      BY <3>1, <3>3, SentCallSame DEF Call
    <3>4. CASE EndTool
      <4>1. ToolOver(prompt) \in Prompts /\ ToolOver(prompt).wait = "no"
        BY <1>0, <2>1, <3>0, <3>4, ToolOverWait DEF EndTool, At
      <4> QED BY <3>4, <4>1, SentSame DEF EndTool, Statuses
    <3>5. CASE Arm
      <4>1. PICK f : /\ f \in Faults \cup {"none"}
                     /\ prompt' = SentPlan([Advanced(prompt) EXCEPT !.fault = f, !.flag = f],
                                           Head(prompt.todo).at)
        <5>1. live.faults # <<>> => Head(live.faults) \in Faults
          BY <1>0 DEF Session
        <5> QED BY <3>5, <5>1 DEF Arm
      <4> DEFINE b == [Advanced(prompt) EXCEPT !.fault = f, !.flag = f]
      <4>2. b \in Prompts /\ b.wait = "no"
        BY <3>1, <4>1 DEF Prompts
      <4> HIDE DEF b
      <4>3. SameButSeen(b, prompt')
        BY <3>0, <4>1, <4>2, SentPlanSame DEF ScriptStep, b
      <4> QED BY <4>2, <4>3
    <3> QED BY <1>13, <3>2, <3>3, <3>4, <3>5
  <2> QED BY <1>10, <2>2 DEF SameButSeen
<1>14. CASE Call /\ prompt' = ToolOver(prompt)
  <2>1. prompt.todo # <<>> /\ Ordered(prompt.todo) /\ Head(prompt.todo).do = "call"
        /\ prompt.wait = "no"
    BY <1>14 DEF Call, At, Running, PromptOk
  <2>2. prompt'.wait = "no"
    BY <1>0, <1>14, <2>1, ToolOverWait
  <2> QED BY <1>10, <2>2
<1>15. CASE Strike \/ Announced \/ Slept \/ Use \/ PromptSaved
  <2>1. CASE \/ prompt' = Advanced(prompt) /\ prompt.wait = "no"
             \/ prompt' = Thrown(prompt) /\ prompt.wait = "no"
             \/ prompt' = [Advanced(prompt) EXCEPT !.wait = "announcing"]
             \/ \E w \in {"no", "deaf", "hung", "sleeping"} : prompt' = [prompt EXCEPT !.wait = w]
    <3>1. prompt'.wait \notin {"asking", "answering"}
      BY <1>0, <2>1 DEF Advanced, Thrown, Prompts
    <3> QED BY <1>10, <3>1
  <2> QED BY <1>2, <1>15, <2>1 DEF Strike, Announced, Hung, Slept, Use, PromptSaved, Over, At
<1>16. CASE Finish
  <2>1. CASE prompt.aborted
    BY <1>2, <1>16, <2>1 DEF Finish, Over
  <2>2. CASE ~prompt.aborted
    <3> DEFINE q == SentPlan(prompt, Head(prompt.todo).at)
    <3>1. prompt' = [q EXCEPT !.wait = "answering"]
      BY <1>16, <2>2 DEF Finish
    <3> HIDE DEF q
    <3>2. prompt' \in Prompts
      BY <1>0 DEF TypeOK
    <3>3. prompt'.wait = "answering"
      BY <3>1, <3>2 DEF Prompts
    <3> QED BY <1>16, <3>3 DEF RulesAsked
  <2> QED BY <2>1, <2>2
<1>17. CASE Answered
  BY <1>2, <1>17 DEF Answered, Over
<1>18. CASE Initialize \/ Authenticate \/ ReplayEnds \/ StoreStep \/ UNCHANGED vars
  BY <1>1, <1>18 DEF Initialize, Authenticate, ReplayEnds, StoreStep, Responds, Removed,
     Serialize, vars
<1> QED
  BY <1>3, <1>4, <1>5, <1>6, <1>7, <1>8, <1>9, <1>11, <1>12, <1>13, <1>14, <1>15, <1>16,
     <1>17, <1>18
  DEF Next, PromptStep, Kill, Crash

-----------------------------------------------------------------------------
(* Sessions, files and saves keep their rules.                             *)
LEMMA RulesSame ==
  ASSUME RulesStored, RulesLive, UNCHANGED <<served, file, saves>>,
         live'.rules = live.rules, \A s \in Sessions : told'[s].rules = told[s].rules,
         served \in Sessions \cup {"none"}
  PROVE  RulesStored' /\ RulesLive'
BY DEF RulesStored, RulesLive

(* A save is begun, and the rules are as they were.                        *)
LEMMA RulesPersist ==
  ASSUME IInv, RulesStored, RulesLive, NEW w \in {"request", "prompt"}, Persist(w),
         UNCHANGED <<served, file>>,
         live'.rules = live.rules, \A s \in Sessions : told'[s].rules = told[s].rules
  PROVE  RulesStored' /\ RulesLive'
<1>1. /\ served \in Sessions \cup {"none"} /\ DOMAIN saves = {"request", "prompt"}
      /\ \A v \in {"request", "prompt"} : DOMAIN saves[v] = {"stage", "content"}
  BY Facts
<1>2. /\ DOMAIN saves' = {"request", "prompt"}
      /\ \A v \in DOMAIN saves' : saves'[v].stage = "writing" =>
           saves[v].stage = "writing" /\ saves'[v].content = saves[v].content
  BY <1>1 DEF Persist
<1> QED BY <1>1, <1>2 DEF RulesStored, RulesLive

(* A save is over: the file has what was written.                          *)
LEMMA RulesWritten ==
  ASSUME IInv, RulesStored, RulesLive, NEW w \in {"request", "prompt"}, Written(w),
         UNCHANGED <<served, live>>, \A s \in Sessions : told'[s].rules = told[s].rules
  PROVE  RulesStored' /\ RulesLive'
<1>1. /\ served \in Sessions \cup {"none"} /\ DOMAIN saves = {"request", "prompt"}
      /\ served \in Sessions /\ served # "none" /\ DOMAIN file = Sessions
  BY Facts DEF Written
<1>2. /\ DOMAIN saves' = {"request", "prompt"}
      /\ \A v \in DOMAIN saves' : saves'[v].stage = "writing" => saves'[v] = saves[v]
  BY <1>1 DEF Written, NoSave
<1>3. /\ \A s \in Sessions \ {served} : file'[s] = file[s]
      /\ file'[served].state = "whole" /\ file'[served].session = saves[w].content
  BY <1>1 DEF Written, Saved
<1>4. \A t \in Tools : /\ saves[w].content.rules[t] \in {"ask", live.rules[t]}
                       /\ live.rules[t] \in {"ask"} \cup told[served].rules[t]
  BY <1>1 DEF RulesLive, Written
<1> QED BY <1>1, <1>2, <1>3, <1>4, SMTT(40) DEF RulesStored, RulesLive

(* Every step keeps the rules of all copies the ones the client gave.      *)
LEMMA StepRules ==
  ASSUME IInv, [Next]_vars
  PROVE  RulesStored' /\ RulesLive'
<1>0. /\ RulesStored /\ RulesLive /\ RulesAsked
      /\ served \in Sessions \cup {"none"} /\ live \in Session /\ prompt \in Prompts
      /\ DOMAIN saves = {"request", "prompt"} /\ DOMAIN file = Sessions
      /\ DOMAIN told = Sessions
      /\ \A w \in {"request", "prompt"} :
           /\ DOMAIN saves[w] = {"stage", "content"} /\ saves[w].content \in Session
           /\ saves[w].stage # "none" => served \in Sessions
      /\ served \in Sessions => served # "none"
      /\ prompt.todo # <<>> \/ prompt.wait # "no" => served \in Sessions
  BY Facts DEF IInv, RulesOk
<1>t. \A s \in Sessions : told[s] \in
              [born : BOOLEAN, closed : BOOLEAN, turns : Nat,
               faults : SUBSET Faults, modes : SUBSET {"deny", "accept-edits", "yolo"},
               rules : [Tools -> SUBSET {"ask", "allow", "reject"}]]
  BY Facts
<1>1. CASE UNCHANGED <<served, file, saves, live, told>>
  BY <1>0, <1>1, RulesSame
<1>2. CASE Exits
  <2>1. \A s \in Sessions :
          \/ file'[s] = file[s]
          \/ file'[s] = Torn
          \/ /\ s = served
             /\ \E w \in {"request", "prompt"} :
                  saves[w].stage = "writing" /\ file'[s] = Saved(saves[w].content)
    BY <1>0, <1>2 DEF Exits, Interrupted
  <2>2. ASSUME NEW s \in Sessions
        PROVE  /\ file'[s].state # "whole" => file'[s].session = NewSession
               /\ \A t \in Tools : file'[s].session.rules[t] \in {"ask"} \cup told'[s].rules[t]
    <3>1. told' = told
      BY <1>2 DEF Exits
    <3>2. CASE file'[s] = file[s]
      BY <1>0, <3>1, <3>2 DEF RulesStored
    <3>3. CASE file'[s] = Torn
      BY <3>1, <3>3 DEF Torn, NewSession
    <3>4. ASSUME NEW w \in {"request", "prompt"}, s = served, saves[w].stage = "writing",
                 file'[s] = Saved(saves[w].content)
          PROVE  /\ file'[s].state = "whole"
                 /\ \A t \in Tools : file'[s].session.rules[t] \in {"ask"} \cup told'[s].rules[t]
      BY <1>0, <3>1, <3>4 DEF Saved, RulesLive
    <3> QED BY <2>1, <3>2, <3>3, <3>4
  <2>3. served' = "none"
    BY <1>2 DEF Exits
  <2> QED BY <2>2, <2>3 DEF RulesStored, RulesLive
<1>3. CASE \E s \in Sessions : New(s) \/ Load(s)
  <2>1. PICK s \in Sessions : New(s) \/ Load(s)
    BY <1>3
  <2>2. /\ served' = s /\ file' = file /\ served = "none"
        /\ saves' = [saves EXCEPT !["request"].stage = "due"]
    BY <2>1 DEF New, Load, Open
  <2>3. /\ DOMAIN saves' = {"request", "prompt"}
        /\ \A w \in {"request", "prompt"} : saves'[w].stage # "writing"
    BY <1>0, <2>2, Facts
  <2>4. CASE New(s)
    <3>1. live' = NewSession /\ file[s].state = "none"
      BY <2>4 DEF New, Open, Fresh, Unused
    <3>2. file[s].session = NewSession /\ told'[s] = Untold
          /\ \A r \in Sessions \ {s} : told'[r] = told[r]
      BY <1>0, <2>4, <3>1 DEF New, RulesStored
    <3>3. \A t \in Tools : live'.rules[t] = "ask" /\ file[s].session.rules[t] = "ask"
      BY <3>1, <3>2 DEF NewSession
    <3> QED BY <1>0, <2>2, <2>3, <3>2, <3>3 DEF RulesStored, RulesLive
  <2>5. CASE Load(s)
    <3>1. live' = file[s].session /\ told' = told
      BY <2>5 DEF Load, Open
    <3> QED BY <1>0, <2>2, <2>3, <3>1 DEF RulesStored, RulesLive
  <2> QED BY <2>1, <2>4, <2>5
<1>4. CASE \E s, t \in Sessions : Fork(s, t)
  <2>1. PICK s \in Sessions, t \in Sessions : Fork(s, t)
    BY <1>4
  <2>2. /\ served' = t /\ file' = file /\ served = "none" /\ live' = file[s].session
        /\ saves' = [saves EXCEPT !["request"].stage = "due"] /\ file[t].state = "none"
    BY <2>1 DEF Fork, Open, Fresh, Unused
  <2>3. /\ DOMAIN saves' = {"request", "prompt"}
        /\ \A w \in {"request", "prompt"} : saves'[w].stage # "writing"
    BY <1>0, <2>2, Facts
  <2>4. told'[t].rules = told[s].rules /\ \A r \in Sessions \ {t} : told'[r] = told[r]
    <3> DEFINE q == {f \in told[s].faults : <<s, f>> \notin struck}
    <3>1. told' = [told EXCEPT ![t] = [told[s] EXCEPT !.born = FALSE, !.closed = FALSE,
                                                       !.faults = q]]
      BY <1>t, <2>1 DEF Fork
    <3> HIDE DEF q
    <3>2. [told[s] EXCEPT !.born = FALSE, !.closed = FALSE, !.faults = q].rules = told[s].rules
      BY <1>t
    <3> QED BY <1>0, <3>1, <3>2
  <2>5. file[t].session = NewSession /\ \A u \in Tools : file[t].session.rules[u] = "ask"
    <3>1. file[t].session = NewSession
      BY <1>0, <2>2 DEF RulesStored
    <3> QED BY <3>1 DEF NewSession
  <2> QED BY <1>0, <2>2, <2>3, <2>4, <2>5, SMTT(40) DEF RulesStored, RulesLive
<1>5. CASE (\E m \in Modes : SetMode(m)) \/ Close
  <2>1. /\ Persist("request") /\ UNCHANGED <<served, file>> /\ live'.rules = live.rules
        /\ served \in Sessions
    BY <1>0, <1>5 DEF SetMode, Close, Session, Usable
  <2>2. \A s \in Sessions : told'[s].rules = told[s].rules
    <3>1. CASE told' = told
      BY <3>1
    <3>2. ASSUME NEW m, told' = [told EXCEPT ![served].modes = @ \cup {m}]
          PROVE  \A s \in Sessions : told'[s].rules = told[s].rules
      BY <1>0, <1>t, <2>1, <3>2
    <3> QED BY <1>5, <3>1, <3>2 DEF SetMode, Close
  <2> QED BY <1>0, <2>1, <2>2, RulesPersist
<1>6. CASE Removed
  <2>1. served \in Sessions /\ saves' = [saves EXCEPT !["request"] = NoSave]
        /\ file' = [file EXCEPT ![served] = NoFile]
        /\ told' = [told EXCEPT ![served].closed = TRUE] /\ UNCHANGED <<served, live>>
    BY <1>0, <1>6 DEF Removed
  <2>2. \A s \in Sessions : told'[s].rules = told[s].rules
    BY <1>0, <1>t, <2>1
  <2>3. /\ DOMAIN saves' = {"request", "prompt"}
        /\ \A v \in DOMAIN saves' : saves'[v].stage = "writing" => saves'[v] = saves[v]
    BY <1>0, <2>1 DEF NoSave
  <2>4. /\ \A s \in Sessions \ {served} : file'[s] = file[s]
        /\ file'[served].session = NewSession
    BY <1>0, <2>1 DEF NoFile
  <2>5. \A t \in Tools : file'[served].session.rules[t] = "ask"
    BY <2>4 DEF NewSession
  <2> QED BY <1>0, <2>1, <2>2, <2>3, <2>4, <2>5 DEF RulesStored, RulesLive
<1>7. CASE Responds
  <2>1. Written("request") /\ UNCHANGED <<served, live>>
    BY <1>7 DEF Responds
  <2>2. served \in Sessions
    BY <1>0, <2>1 DEF Written
  <2>3. \A s \in Sessions : told'[s].rules = told[s].rules
    BY <1>0, <1>t, <1>7, <2>2 DEF Responds
  <2> QED BY <1>0, <2>1, <2>3, RulesWritten
<1>8. ASSUME NEW w \in DOMAIN saves, Serialize(w)
      PROVE  RulesStored' /\ RulesLive'
  <2>1. /\ saves' = [saves EXCEPT ![w] = [stage |-> "writing", content |-> live]]
        /\ UNCHANGED <<served, live, file, told>>
    BY <1>8 DEF Serialize
  <2>2. \A v \in DOMAIN saves' : saves'[v] = saves[v] \/ saves'[v].content = live
    BY <1>0, <2>1
  <2>3. DOMAIN saves' = {"request", "prompt"}
    BY <1>0, <2>1
  <2> QED BY <1>0, <2>1, <2>2, <2>3 DEF RulesStored, RulesLive
<1>9. CASE Title \/ Rename \/ Queue \/ Finish
  <2>1. /\ UNCHANGED <<served, file, told>> /\ live'.rules = live.rules
        /\ Persist("prompt") \/ UNCHANGED saves
    BY <1>0, <1>9 DEF Title, Rename, Queue, Finish, Session, Recorded
  <2> QED BY <1>0, <2>1, RulesPersist, RulesSame
<1>10. CASE Arm
  <2>1. UNCHANGED <<served, file, told, saves>> /\ live'.rules = live.rules
    BY <1>0, <1>10 DEF Arm, Session
  <2> QED BY <1>0, <2>1, RulesSame
<1>11. CASE ClientDecides
  <2>1. CASE UNCHANGED <<live, saves, told>>
    BY <1>1, <1>11, <2>1 DEF ClientDecides
  <2>2. ASSUME NEW always \in {"allow", "reject"},
               live' = [live EXCEPT !.rules[Tool] = always],
               told' = [told EXCEPT ![served].rules[Tool] = @ \cup {always}],
               Persist("prompt"), UNCHANGED <<served, file>>, prompt.wait = "asking"
        PROVE  RulesStored' /\ RulesLive'
    <3>1. prompt.todo # <<>> /\ Head(prompt.todo).do = "permission" /\ served \in Sessions
      BY <1>0, <2>2 DEF IInv, PromptOk, Running
    <3>2. Tool \in Tools /\ live.rules[Tool] = "ask"
      BY <1>0, <2>2, <3>1, AboutTool DEF ToolDos, RulesAsked
    <3> DEFINE u == Tool
    <3> HIDE DEF u
    <3>3. /\ live'.rules[u] = always
          /\ \A t \in Tools \ {u} : live'.rules[t] = live.rules[t]
      BY <1>0, <2>2, <3>2 DEF Session, u
    <3>4. /\ told'[served].rules[u] = told[served].rules[u] \cup {always}
          /\ \A t \in Tools \ {u} : told'[served].rules[t] = told[served].rules[t]
          /\ \A s \in Sessions \ {served} : told'[s] = told[s]
      <4> DEFINE r == [told[served].rules EXCEPT ![u] = @ \cup {always}]
      <4>1. told' = [told EXCEPT ![served] = [told[served] EXCEPT !.rules = r]]
        BY <1>0, <1>t, <2>2, <3>1, <3>2 DEF u
      <4>2. /\ r[u] = told[served].rules[u] \cup {always}
            /\ \A t \in Tools \ {u} : r[t] = told[served].rules[t]
        BY <1>t, <3>1, <3>2 DEF u
      <4> HIDE DEF r
      <4>3. told'[served].rules = r /\ \A s \in Sessions \ {served} : told'[s] = told[s]
        BY <1>0, <1>t, <3>1, <4>1
      <4> QED BY <4>2, <4>3
    <3>5. /\ DOMAIN saves' = {"request", "prompt"}
          /\ \A v \in DOMAIN saves' : saves'[v].stage = "writing" =>
               saves[v].stage = "writing" /\ saves'[v].content = saves[v].content
      BY <1>0, <2>2 DEF Persist
    <3>6. u \in Tools /\ live.rules[u] = "ask" /\ served \in Sessions /\ served # "none"
      BY <1>0, <3>1, <3>2 DEF u
    <3>7. ASSUME NEW t \in Tools
          PROVE  /\ live'.rules[t] \in {"ask"} \cup told'[served].rules[t]
                 /\ file[served].session.rules[t] \in {"ask", live'.rules[t]}
                 /\ \A w \in DOMAIN saves' :
                      saves'[w].stage = "writing" =>
                        saves'[w].content.rules[t] \in {"ask", live'.rules[t]}
      <4>1. /\ live.rules[t] \in {"ask"} \cup told[served].rules[t]
            /\ file[served].session.rules[t] \in {"ask", live.rules[t]}
            /\ \A w \in DOMAIN saves :
                 saves[w].stage = "writing" =>
                   saves[w].content.rules[t] \in {"ask", live.rules[t]}
        BY <1>0, <3>6 DEF RulesLive
      <4>2. CASE t = u
        BY <1>0, <3>3, <3>4, <3>5, <3>6, <4>1, <4>2
      <4>3. CASE t # u
        BY <1>0, <3>3, <3>4, <3>5, <3>6, <4>1, <4>3
      <4> QED BY <4>2, <4>3
    <3>8. RulesLive'
      BY <2>2, <3>7 DEF RulesLive
    <3>9. ASSUME NEW s \in Sessions, NEW t \in Tools
          PROVE  file[s].session.rules[t] \in {"ask"} \cup told'[s].rules[t]
      <4>1. file[s].session.rules[t] \in {"ask"} \cup told[s].rules[t]
        BY <1>0 DEF RulesStored
      <4> QED BY <3>4, <4>1
    <3> QED BY <1>0, <2>2, <3>8, <3>9 DEF RulesStored
  <2> QED BY <1>11, <2>1, <2>2 DEF ClientDecides
<1>12. CASE RuleSaved
  <2>1. prompt.todo # <<>> /\ Head(prompt.todo).do = "permission" /\ served \in Sessions
    BY <1>0, <1>12 DEF RuleSaved, IInv, PromptOk, Running
  <2>2. Tool \in Tools
    BY <2>1, AboutTool DEF ToolDos
  <2> DEFINE u == Tool
             r == [told[served].rules EXCEPT ![u] = {live.rules[u]}]
  <2> HIDE DEF u
  <2>3. told' = [told EXCEPT ![served] = [told[served] EXCEPT !.rules = r]]
    BY <1>0, <1>t, <1>12, <2>1, <2>2 DEF RuleSaved, u
  <2>4. r[u] = {live.rules[u]} /\ \A t \in Tools \ {u} : r[t] = told[served].rules[t]
    BY <1>t, <2>1, <2>2 DEF u
  <2> HIDE DEF r
  <2>5. told'[served].rules = r /\ \A s \in Sessions \ {served} : told'[s] = told[s]
    BY <1>0, <1>t, <2>1, <2>3
  <2>6. /\ DOMAIN saves' = {"request", "prompt"}
        /\ \A v \in DOMAIN saves' : saves'[v].stage = "writing" => saves'[v] = saves[v]
        /\ UNCHANGED <<served, live>>
    BY <1>0, <1>12 DEF RuleSaved, Written, NoSave
  <2>7. /\ \A s \in Sessions \ {served} : file'[s] = file[s]
        /\ file'[served].state = "whole" /\ file'[served].session = saves["prompt"].content
    BY <1>0, <1>12, <2>1 DEF RuleSaved, Written, Saved
  <2>8. \A t \in Tools : /\ saves["prompt"].content.rules[t] \in {"ask", live.rules[t]}
                         /\ live.rules[t] \in {"ask"} \cup told[served].rules[t]
                         /\ live.rules[t] \in {"ask"} \cup told'[served].rules[t]
    <3>1. \A t \in Tools : /\ saves["prompt"].content.rules[t] \in {"ask", live.rules[t]}
                           /\ live.rules[t] \in {"ask"} \cup told[served].rules[t]
      BY <1>0, <1>12, <2>1 DEF RulesLive, RuleSaved, Written
    <3> QED BY <2>4, <2>5, <3>1
  <2>9. RulesLive'
    BY <1>0, <2>1, <2>6, <2>7, <2>8 DEF RulesLive
  <2>10. ASSUME NEW s \in Sessions
         PROVE  /\ file'[s].state # "whole" => file'[s].session = NewSession
                /\ \A t \in Tools : file'[s].session.rules[t] \in {"ask"} \cup told'[s].rules[t]
    <3>1. CASE s = served
      BY <2>7, <2>8, <3>1
    <3>2. CASE s # served
      BY <1>0, <2>5, <2>7, <3>2 DEF RulesStored
    <3> QED BY <3>1, <3>2
  <2> QED BY <2>9, <2>10 DEF RulesStored
<1>13. CASE PromptSaved \/ Answered
  <2>1. Written("prompt") /\ UNCHANGED <<served, live>>
    BY <1>13 DEF PromptSaved, Answered
  <2>2. served \in Sessions
    BY <1>0, <2>1 DEF Written
  <2>3. \A s \in Sessions : told'[s].rules = told[s].rules
    <3>1. CASE told' = told
      BY <3>1
    <3>2. ASSUME NEW n, NEW q,
                 told' = [told EXCEPT ![served] = [told[served] EXCEPT !.turns = n, !.faults = q]]
          PROVE  \A s \in Sessions : told'[s].rules = told[s].rules
      BY <1>0, <1>t, <2>2, <3>2
    <3>3. CASE told' = [told EXCEPT ![served].turns = @ + 1,
                          ![served].faults =
                             @ \cup ({prompt.queues} \ {"none"})]
      <4>1. told' = [told EXCEPT ![served] = [told[served] EXCEPT !.turns = told[served].turns + 1,
                       !.faults = told[served].faults \cup ({prompt.queues} \ {"none"})]]
        BY <1>0, <2>2, <3>3
      <4> QED BY <3>2, <4>1
    <3> QED BY <1>13, <3>1, <3>3 DEF PromptSaved, Answered
  <2> QED BY <1>0, <2>1, <2>3, RulesWritten
<1>14. CASE \/ Initialize \/ Authenticate \/ ReplayEnds \/ UNCHANGED vars \/ Cancel
            \/ Strike \/ Announced \/ Slept \/ Call \/ Permission \/ Use \/ EndTool
            \/ PlanProgress
            \/ \E a \in Actions, f \in Faults \cup {"none"} : Prompt(a, f)
  BY <1>1, <1>14 DEF Initialize, Authenticate, ReplayEnds, vars, Cancel, Strike,
     Announced, Slept, Call, Permission, Use, EndTool, PlanProgress, Prompt
<1> QED
  BY <1>2, <1>3, <1>4, <1>5, <1>6, <1>7, <1>8, <1>9, <1>10, <1>11, <1>12, <1>13, <1>14
  DEF Next, StoreStep, PromptStep, Kill, Crash

-----------------------------------------------------------------------------
(* The initial state satisfies the inductive invariant.                    *)
LEMMA SimulatorStarts == Init => IInv
<1> SUFFICES ASSUME Init PROVE IInv
  OBVIOUS
<1> USE DEF Init
<1>1. /\ saves = [w \in {"request", "prompt"} |-> NoSave] /\ file = [s \in Sessions |-> NoFile]
      /\ prompt = Idle /\ request = NoRequest /\ served = "none" /\ live = NewSession
  OBVIOUS
<1>2. TypeOK
  BY FreshTyped, IdlePrompt DEF TypeOK, NoRequest
<1>3. ServedOk
  BY DEF ServedOk, NoRequest, Idle, NoSave
<1>4. PromptOk /\ QueuesOk /\ LeaveOk /\ RulesAsked
  BY IdlePrompt DEF PromptOk, QueuesOk, LeaveOk, RulesAsked, NoSave, Struck, PromptSaves
<1>5. RulesStored /\ RulesLive
  BY DEF RulesStored, RulesLive, NoFile, NewSession
<1> QED BY <1>2, <1>3, <1>4, <1>5 DEF IInv, RulesOk

(* Every step keeps the inductive invariant.                               *)
LEMMA SimulatorSteps == IInv /\ [Next]_vars => IInv'
<1> SUFFICES ASSUME IInv, [Next]_vars PROVE IInv'
  OBVIOUS
<1>1. TypeOK' /\ ServedOk' /\ QueuesOk' /\ RulesOk'
  BY StepTyped, StepServed, StepQueues, StepWaits, StepRules DEF RulesOk
<1>2. PromptOk' /\ LeaveOk'
  BY StepPrompt DEF PromptPart
<1> QED BY <1>1, <1>2 DEF IInv

(* The inductive invariant of the simulator agent: types, requests and     *)
(* prompts that fit the session served, scripts in order, and rules in     *)
(* every copy of a session that its client gave (simulator-agent.ts).      *)
THEOREM SimulatorInvariance == Spec => []IInv
BY SimulatorStarts, SimulatorSteps, PTL DEF Spec

(* A tool is used on a remembered permission only when its user said       *)
(* always to: whatever is cancelled, saved, forked, restarted or struck    *)
(* between the answer and the use (simulator-agent.ts,                     *)
(* requestPermissionIfNeeded and its callers).                             *)
THEOREM RulesAreGivenHolds == Spec => []RulesAreGiven
<1>1. IInv => RulesAreGiven
  <2> SUFFICES ASSUME IInv, At("use"), prompt.leave = "rule"
               PROVE  "allow" \in told[served].rules[Tool]
    BY DEF RulesAreGiven
  <2>1. prompt.todo # <<>> /\ Head(prompt.todo).do = "use"
    BY DEF At, Running
  <2>2. Tool \in Tools /\ served \in Sessions /\ served # "none"
    BY <2>1, AboutTool, Facts DEF ToolDos
  <2>3. live.rules[Tool] = "allow"
    BY <2>1 DEF IInv, LeaveOk
  <2> QED BY <2>2, <2>3 DEF IInv, RulesOk, RulesLive
<1> QED BY <1>1, SimulatorInvariance, PTL

-----------------------------------------------------------------------------
(* A prompt that queues a fault goes through its five steps.               *)
LEMMA SimulateScript ==
  ASSUME NEW todo,
         todo = Opening("simulate") \o <<Step("strike", "none")>> \o Script("simulate")
                  \o Closing("simulate")
  PROVE  /\ Len(todo) = 5 /\ todo[4].do = "queue"
         /\ \A i \in 1..Len(todo) : todo[i].tool = "none"
<1> DEFINE o == [do |-> "title", tool |-> "none", at |-> 0]
           a == [do |-> "arm", tool |-> "none", at |-> 0]
           b == [do |-> "strike", tool |-> "none", at |-> 0]
           c == [do |-> "queue", tool |-> "none", at |-> 0]
           d == [do |-> "finish", tool |-> "none", at |-> 0]
<1>1. Opening("simulate") = <<o>> \o <<a>>
  BY DEF Opening, Plan, Step
<1>2. Script("simulate") = <<c>>
  BY DEF Script, Step, Tools
<1>3. Closing("simulate") = <<d>>
  BY DEF Closing, Plan, Step
<1>4. Step("strike", "none") = b
  BY DEF Step
<1>5. /\ o.tool = "none" /\ a.tool = "none" /\ b.tool = "none"
      /\ c.tool = "none" /\ d.tool = "none" /\ c.do = "queue"
  OBVIOUS
<1> HIDE DEF o, a, b, c, d
<1>6. todo = <<o>> \o <<a>> \o <<b>> \o <<c>> \o <<d>>
  BY <1>1, <1>2, <1>3, <1>4
<1> DEFINE S == {o, a, b, c, d}
           w == <<o>>
           x == w \o <<a>>
           y == x \o <<b>>
           z == y \o <<c>>
<1>s. o \in S /\ a \in S /\ b \in S /\ c \in S /\ d \in S
  OBVIOUS
<1>w. w \in Seq(S) /\ Len(w) = 1 /\ w[1] = o
  OBVIOUS
<1>t. x = w \o <<a>> /\ y = x \o <<b>> /\ z = y \o <<c>> /\ todo = z \o <<d>>
  BY <1>6
<1> HIDE DEF w, x, y, z, S
<1>o. ASSUME NEW s \in Seq(S), NEW e \in S, NEW t, t = s \o <<e>>
      PROVE  /\ t \in Seq(S) /\ Len(t) = Len(s) + 1 /\ t[Len(s) + 1] = e
             /\ \A i \in 1..Len(s) : t[i] = s[i]
  <2> DEFINE u == <<e>>
  <2>1. u \in Seq(S) /\ Len(u) = 1 /\ u[1] = e
    OBVIOUS
  <2>2. t = s \o u
    BY <1>o
  <2> HIDE DEF u
  <2>3. /\ s \o u \in Seq(S) /\ Len(s \o u) = Len(s) + Len(u)
        /\ \A i \in 1..(Len(s) + Len(u)) :
             (s \o u)[i] = IF i <= Len(s) THEN s[i] ELSE u[i - Len(s)]
    BY <2>1, ConcatProperties, Zenon
  <2>4. Len(s) \in Nat /\ t \in Seq(S) /\ Len(t) = Len(s) + 1 /\ t[Len(s) + 1] = u[1]
    BY <2>1, <2>2, <2>3
  <2>5. \A i \in 1..Len(s) : t[i] = s[i]
    BY <2>1, <2>2, <2>3
  <2> QED BY <2>1, <2>4, <2>5
<1>x. x \in Seq(S) /\ Len(x) = 2 /\ x[1] = o /\ x[2] = a
  <2>1. x = w \o <<a>> /\ w \in Seq(S) /\ a \in S
    BY <1>s, <1>w, <1>t
  <2>2. /\ x \in Seq(S) /\ Len(x) = Len(w) + 1 /\ x[Len(w) + 1] = a
        /\ \A i \in 1..Len(w) : x[i] = w[i]
    BY <2>1, <1>o
  <2> QED BY <1>w, <2>2
<1>y. y \in Seq(S) /\ Len(y) = 3 /\ y[1] = o /\ y[2] = a /\ y[3] = b
  <2>1. /\ y \in Seq(S) /\ Len(y) = 2 + 1 /\ y[2 + 1] = b
        /\ \A i \in 1..2 : y[i] = x[i]
    BY <1>s, <1>x, <1>t, <1>o
  <2> QED BY <1>x, <2>1
<1>z. z \in Seq(S) /\ Len(z) = 4 /\ z[1] = o /\ z[2] = a /\ z[3] = b /\ z[4] = c
  <2>1. /\ z \in Seq(S) /\ Len(z) = 3 + 1 /\ z[3 + 1] = c
        /\ \A i \in 1..3 : z[i] = y[i]
    BY <1>s, <1>y, <1>t, <1>o
  <2> QED BY <1>y, <2>1
<1>8. Len(todo) = 5 /\ todo[1] = o /\ todo[2] = a /\ todo[3] = b /\ todo[4] = c
      /\ todo[5] = d
  <2>1. /\ Len(todo) = 4 + 1 /\ todo[4 + 1] = d
        /\ \A i \in 1..4 : todo[i] = z[i]
    BY <1>s, <1>z, <1>t, <1>o
  <2> QED BY <1>z, <2>1
<1>9. \A i \in 1..5 : i = 1 \/ i = 2 \/ i = 3 \/ i = 4 \/ i = 5
  OBVIOUS
<1> QED BY <1>5, <1>8, <1>9

(* A prompt that begins queues its fault later, if it has one.             *)
LEMMA QueueBegins ==
  ASSUME NEW action \in Actions, NEW fault \in Faults \cup {"none"}, Prompt(action, fault)
  PROVE  QueueOk'
<1> DEFINE t == Opening(action) \o <<Step("strike", "none")>> \o Script(action)
                  \o Closing(action)
<1>1. CASE fault = "none"
  <2>1. prompt'.queues = "none"
    BY <1>1 DEF Prompt, Idle
  <2> QED BY <2>1 DEF QueueOk
<1>2. CASE fault # "none"
  <2>1. action = "simulate"
    BY <1>2 DEF Prompt
  <2>2. /\ Len(t) = 5 /\ t[4].do = "queue"
        /\ \A i \in 1..Len(t) : t[i].tool = "none"
    BY <2>1, SimulateScript
  <2> HIDE DEF t
  <2>3. prompt'.todo = t /\ prompt'.fault = "none"
    BY DEF Prompt, Idle, t
  <2>4. t # <<>>
    <3>1. Len(<<>>) = 0
      OBVIOUS
    <3>2. ASSUME t = <<>> PROVE Len(t) = 0
      BY <3>1, <3>2, Zenon
    <3> QED BY <2>2, <3>2
  <2>5. 4 \in 1..Len(t)
    BY <2>2
  <2> QED BY <2>2, <2>3, <2>4, <2>5 DEF QueueOk, Running
<1> QED BY <1>1, <1>2

(* A step on, that is not the one that queues.                             *)
LEMMA QueueGoesOn ==
  ASSUME QueueOk, prompt \in Prompts, Ordered(prompt.todo), prompt.queues # "none",
         prompt'.queues = prompt.queues, prompt'.fault = "none",
         prompt'.todo = Tail(prompt.todo), Head(prompt.todo).do \notin {"queue", "finish"},
         ToSet(live.faults) \subseteq ToSet(live'.faults)
  PROVE  QueueOk'
<1>1. prompt.todo # <<>> /\ prompt.todo \in Seq(ScriptStep)
  BY DEF QueueOk, Running, Prompts
<1> DEFINE t == prompt.todo
           u == Tail(t)
<1>2. /\ u # <<>> /\ Len(u) = Len(t) - 1 /\ Len(t) \in Nat /\ Head(t) = t[1]
      /\ \A i \in 1..(Len(t) - 1) : u[i] = t[i + 1]
  BY <1>1, AdvancedTo, HeadOf
<1> HIDE DEF u
<1>3. \A i \in 1..Len(u) : u[i].tool = "none"
  BY <1>2 DEF QueueOk
<1>4. ASSUME NEW i \in 1..Len(t), t[i].do = "queue"
      PROVE  \E j \in 1..Len(u) : u[j].do = "queue"
  <2>1. i # 1
    BY <1>2, <1>4
  <2>2. i - 1 \in 1..Len(u) /\ (i - 1) + 1 = i
    BY <1>2, <2>1
  <2> QED BY <1>2, <1>4, <2>2
<1>5. prompt'.todo = u
  BY DEF u
<1> QED BY <1>2, <1>3, <1>4, <1>5 DEF QueueOk, Running

(* A step that leaves the prompt and the faults alone.                     *)
LEMMA QueueSame ==
  ASSUME QueueOk, prompt'.queues = prompt.queues, prompt'.fault = prompt.fault,
         prompt'.todo = prompt.todo,
         prompt.queues # "none" => ToSet(live.faults) \subseteq ToSet(live'.faults)
  PROVE  QueueOk'
BY DEF QueueOk, Running

(* Every step keeps a queued fault ahead of the prompt's end.              *)
LEMMA StepQueue ==
  ASSUME IInv, QueueOk, [Next]_vars
  PROVE  QueueOk'
<1>0. /\ prompt \in Prompts /\ Ordered(prompt.todo) /\ live \in Session
      /\ live.faults \in Seq(Faults)
      /\ prompt.wait \in {"asking", "remembering"} =>
           prompt.todo # <<>> /\ Head(prompt.todo).do = "permission"
      /\ prompt.wait \in Struck => prompt.fault # "none"
  BY Facts DEF IInv, PromptOk, Running, Session
<1>1. CASE prompt.queues = "none"
  <2>1. CASE Onward(prompt, prompt')
    BY <1>1, <2>1 DEF Onward, QueueOk
  <2>2. CASE prompt' = Idle
    BY <2>2 DEF Idle, QueueOk
  <2> QED BY <2>1, <2>2, StepOnward, QueueBegins
<1>2. CASE prompt.queues # "none"
  <2>0. /\ prompt.todo # <<>> /\ prompt.fault = "none"
        /\ Head(prompt.todo) = prompt.todo[1] /\ Head(prompt.todo) \in ScriptStep
        /\ Head(prompt.todo).do \notin ToolDos
        /\ Len(prompt.todo) \in Nat /\ 1 \in 1..Len(prompt.todo)
    <3>1. prompt.todo # <<>> /\ prompt.fault = "none"
      BY <1>2 DEF QueueOk, Running
    <3>2. Head(prompt.todo) = prompt.todo[1] /\ 1 \in 1..Len(prompt.todo)
          /\ Head(prompt.todo) \in ScriptStep /\ Len(prompt.todo) \in Nat
      BY <1>0, <3>1, HeadOf
    <3>3. Head(prompt.todo).tool = "none"
      BY <1>2, <3>2 DEF QueueOk
    <3>4. InOrder(prompt.todo, 1)
      BY <1>0, <3>2 DEF Ordered
    <3> QED BY <3>1, <3>2, <3>3, <3>4 DEF InOrder
  <2>w. prompt.wait \notin {"asking", "remembering"} \cup Struck
    BY <1>0, <2>0 DEF ToolDos
  <2>1. CASE prompt' = Idle
    BY <2>1 DEF Idle, QueueOk
  <2>2. CASE UNCHANGED prompt /\ (live'.faults = live.faults)
    BY <2>2, QueueSame
  <2>3. CASE Close \/ Cancel
    <3>1. CASE prompt' = Aborted(prompt)
      <4>1. prompt' = [prompt EXCEPT !.aborted = TRUE]
        BY <1>0, <2>0, <2>w, <3>1, AbortedTo DEF Struck
      <4>2. prompt'.queues = prompt.queues /\ prompt'.fault = prompt.fault
            /\ prompt'.todo = prompt.todo
        BY <1>0, <4>1 DEF Prompts
      <4> QED BY <2>3, <4>2, QueueSame DEF Close, Cancel
    <3> QED BY <2>2, <2>3, <3>1 DEF Close, Cancel
  <2>4. CASE Title \/ Rename
    <3>1. prompt' = Advanced(prompt) \/ prompt' = Saving(Advanced(prompt))
      BY <2>4 DEF Title, Rename
    <3>2. prompt'.queues = prompt.queues /\ prompt'.fault = "none"
          /\ prompt'.todo = Tail(prompt.todo)
      BY <1>0, <2>0, <3>1 DEF Saving, Advanced, Prompts
    <3>3. Head(prompt.todo).do \notin {"queue", "finish"} /\ live'.faults = live.faults
      BY <1>0, <2>4 DEF Title, Rename, At, Session
    <3> QED BY <1>0, <1>2, <3>2, <3>3, QueueGoesOn
  <2>5. CASE Queue
    <3>1. /\ prompt' = Saving(Advanced(prompt)) /\ Head(prompt.todo).do = "queue"
          /\ live' = [live EXCEPT !.faults = Append(@, prompt.queues)]
      BY <2>5 DEF Queue, At
    <3>2. /\ Advanced(prompt) \in Prompts
          /\ Advanced(prompt) = [prompt EXCEPT !.todo = Tail(prompt.todo)]
          /\ Tail(prompt.todo) # <<>>
          /\ \A i \in 1..(Len(prompt.todo) - 1) : Tail(prompt.todo)[i] = prompt.todo[i + 1]
          /\ Len(Tail(prompt.todo)) = Len(prompt.todo) - 1
      BY <1>0, <2>0, <3>1, AdvancedTo
    <3>3. prompt'.queues = prompt.queues /\ prompt'.fault = "none"
          /\ prompt'.todo = Tail(prompt.todo)
      BY <1>0, <2>0, <3>1, <3>2 DEF Saving, Prompts
    <3>4. \A i \in 1..Len(Tail(prompt.todo)) : Tail(prompt.todo)[i].tool = "none"
      <4> DEFINE u == Tail(prompt.todo)
      <4> HIDE DEF u
      <4>1. ASSUME NEW i \in 1..Len(u) PROVE u[i].tool = "none"
        <5>1. i \in 1..(Len(prompt.todo) - 1) /\ i + 1 \in 1..Len(prompt.todo)
          BY <2>0, <3>2 DEF u
        <5>2. u[i] = prompt.todo[i + 1]
          BY <3>2, <5>1 DEF u
        <5> QED BY <1>2, <5>1, <5>2 DEF QueueOk
      <4> QED BY <4>1 DEF u
    <3>5. prompt.queues \in ToSet(live'.faults)
      <4>1. live'.faults = Append(live.faults, prompt.queues)
        BY <1>0, <3>1 DEF Session
      <4>2. /\ Len(live'.faults) \in DOMAIN live'.faults
            /\ live'.faults[Len(live'.faults)] = prompt.queues
        <5>1. prompt.queues \in Faults
          BY <1>0, <1>2 DEF Prompts
        <5>2. live'.faults \in Seq(Faults) /\ Len(live'.faults) = Len(live.faults) + 1
              /\ live'.faults[Len(live.faults) + 1] = prompt.queues
          BY <1>0, <4>1, <5>1
        <5> QED BY <1>0, <5>2
      <4> QED BY <4>2 DEF ToSet
    <3> QED BY <3>2, <3>3, <3>4, <3>5 DEF QueueOk, Running
  <2>6. CASE Arm
    <3>1. /\ prompt' = SentPlan([Advanced(prompt) EXCEPT !.fault = "none", !.flag = "none"],
                                Head(prompt.todo).at)
          /\ live' = live /\ Head(prompt.todo).do = "arm"
      BY <1>2, <2>6 DEF Arm, At
    <3> DEFINE b == [Advanced(prompt) EXCEPT !.fault = "none", !.flag = "none"]
    <3>2. /\ Advanced(prompt) \in Prompts
          /\ Advanced(prompt) = [prompt EXCEPT !.todo = Tail(prompt.todo)]
      BY <1>0, <2>0, AdvancedTo
    <3>3. b \in Prompts /\ b.queues = prompt.queues /\ b.fault = "none"
          /\ b.todo = Tail(prompt.todo)
      BY <1>0, <3>2 DEF Prompts
    <3> HIDE DEF b
    <3>4. SameButSeen(b, prompt')
      BY <2>0, <3>1, <3>3, SentPlanSame DEF ScriptStep, b
    <3> QED BY <1>0, <1>2, <3>1, <3>3, <3>4, QueueGoesOn DEF SameButSeen
  <2>7. CASE Strike
    <3>1. At("strike") /\ live' = live
      BY <2>7 DEF Strike
    <3>2. prompt' = Idle \/ prompt' = Advanced(prompt)
      BY <2>0, <2>7 DEF Strike, Over, Announcing
    <3>3. CASE prompt' = Advanced(prompt)
      <4>1. prompt'.queues = prompt.queues /\ prompt'.fault = "none"
            /\ prompt'.todo = Tail(prompt.todo)
        BY <1>0, <2>0, <3>3 DEF Advanced, Prompts
      <4> QED BY <1>0, <1>2, <3>1, <4>1, QueueGoesOn DEF At
    <3> QED BY <2>1, <3>2, <3>3
  <2>8. CASE Announced \/ Slept \/ RuleSaved \/ ClientDecides
    BY <2>8, <2>w DEF Announced, Slept, RuleSaved, ClientDecides, Struck
  <2>9. CASE Call \/ Permission \/ Use \/ EndTool
    BY <2>9, <2>0 DEF Call, Permission, Use, EndTool, At, ToolDos
  <2>10. CASE PlanProgress
    <3>1. /\ prompt' = SentPlan(Advanced(prompt), Head(prompt.todo).at)
          /\ live' = live /\ Head(prompt.todo).do = "plan"
      BY <2>10 DEF PlanProgress, At
    <3>2. /\ Advanced(prompt) \in Prompts
          /\ Advanced(prompt) = [prompt EXCEPT !.todo = Tail(prompt.todo)]
      BY <1>0, <2>0, AdvancedTo
    <3>3. SameButSeen(Advanced(prompt), prompt')
      BY <2>0, <3>1, <3>2, SentPlanSame DEF ScriptStep
    <3>4. prompt'.queues = prompt.queues /\ prompt'.fault = "none"
          /\ prompt'.todo = Tail(prompt.todo)
      BY <1>0, <2>0, <3>2, <3>3 DEF Prompts, SameButSeen
    <3> QED BY <1>0, <1>2, <3>1, <3>4, QueueGoesOn
  <2>11. CASE PromptSaved
    <3>1. prompt'.queues = prompt.queues /\ prompt'.fault = prompt.fault
          /\ prompt'.todo = prompt.todo /\ live' = live
      BY <1>0, <2>11 DEF PromptSaved, Prompts
    <3> QED BY <3>1, QueueSame
  <2>12. CASE Finish
    <3>1. CASE ~prompt.aborted
      <4> DEFINE q == SentPlan(prompt, Head(prompt.todo).at)
      <4>1. prompt' = [q EXCEPT !.wait = "answering"] /\ live'.faults = live.faults
        BY <1>0, <2>12, <3>1 DEF Finish, Recorded, Session
      <4>2. SameButSeen(prompt, q)
        BY <1>0, <2>0, SentPlanSame DEF ScriptStep
      <4> HIDE DEF q
      <4>3. prompt'.queues = prompt.queues /\ prompt'.fault = prompt.fault
            /\ prompt'.todo = prompt.todo
        BY <4>1, <4>2 DEF SameButSeen, Prompts
      <4> QED BY <4>1, <4>3, QueueSame
    <3> QED BY <2>1, <2>12, <3>1 DEF Finish, Over
  <2>13. CASE Answered \/ Exits
    BY <2>1, <2>13 DEF Answered, Over, Exits
  <2>14. CASE \E m \in Modes : SetMode(m)
    <3>1. live'.faults = live.faults /\ prompt' = prompt
      BY <1>0, <2>14 DEF SetMode, Session
    <3> QED BY <2>2, <3>1
  <2>15. CASE \/ \E s \in Sessions : New(s) \/ Load(s)
              \/ \E s, t \in Sessions : Fork(s, t)
    BY <2>0, <2>15, Facts DEF New, Load, Fork, Open
  <2>16. CASE Initialize \/ Authenticate \/ ReplayEnds \/ StoreStep \/ UNCHANGED vars
    BY <2>2, <2>16 DEF Initialize, Authenticate, ReplayEnds, StoreStep, Responds, Removed,
       Serialize, vars
  <2>17. CASE \E a \in Actions, f \in Faults \cup {"none"} : Prompt(a, f)
    BY <2>17, QueueBegins
  <2> QED
    BY <2>3, <2>4, <2>5, <2>6, <2>7, <2>8, <2>9, <2>10, <2>11, <2>12, <2>13, <2>14,
       <2>15, <2>16, <2>17
    DEF Next, PromptStep, Kill, Crash
<1> QED BY <1>1, <1>2

-----------------------------------------------------------------------------
Known == [born : BOOLEAN, closed : BOOLEAN, turns : Nat,
          faults : SUBSET Faults, modes : SUBSET {"deny", "accept-edits", "yolo"},
          rules : [Tools -> SUBSET {"ask", "allow", "reject"}]]

(* A client that knows no more than before.                                *)
Milder(knows, before) ==
  /\ knows.turns = before.turns /\ before.modes \subseteq knows.modes
  /\ \A t \in Tools : before.rules[t] \subseteq knows.rules[t]
  /\ knows.faults = before.faults

(* A session that keeps what a client knows keeps what it knew less of.    *)
LEMMA KeepsMilder ==
  ASSUME NEW knows, NEW before, NEW lost, NEW gone, NEW session,
         Keeps(before, gone, session), Milder(knows, before), gone \subseteq lost
  PROVE  Keeps(knows, lost, session)
BY DEF Keeps, Milder

(* A client knows what it knows.                                           *)
LEMMA MilderSame ==
  ASSUME NEW knows
  PROVE  Milder(knows, knows)
BY DEF Milder

(* Faults that struck are not given back.                                  *)
LEMMA LostGrows ==
  ASSUME struck \subseteq struck'
  PROVE  \A s \in Sessions : Lost(s) \subseteq Lost(s)'
BY DEF Lost

(* Nothing is written, and nothing more is known.                          *)
LEMMA FilesSame ==
  ASSUME FilesKeep, file' = file, crossed \subseteq crossed', struck \subseteq struck',
         \A s \in Sessions : /\ Milder(told'[s], told[s])
                             /\ told'[s].born = told[s].born
                             /\ told'[s].closed = told[s].closed
  PROVE  FilesKeep'
<1> SUFFICES ASSUME NEW s \in Sessions
             PROVE  /\ file[s].state # "torn"
                    /\ s \notin crossed' =>
                         /\ file[s].state = "whole" =>
                              Keeps(told'[s], Lost(s)', file[s].session)
                         /\ told'[s].born /\ ~told'[s].closed => file[s].state = "whole"
  BY DEF FilesKeep
<1>1. Lost(s) \subseteq Lost(s)'
  BY LostGrows
<1>2. CASE s \in crossed
  BY <1>2 DEF FilesKeep
<1>3. CASE s \notin crossed
  <2>1. file[s].state = "whole" => Keeps(told[s], Lost(s), file[s].session)
    BY <1>3 DEF FilesKeep
  <2> QED BY <1>1, <2>1, KeepsMilder DEF FilesKeep
<1> QED BY <1>2, <1>3

(* The session that is served is written.                                  *)
LEMMA FilesWritten ==
  ASSUME FilesKeep, IInv, NEW w \in {"request", "prompt"}, Written(w),
         UNCHANGED <<struck, crossed, served>>,
         \A s \in Sessions \ {served} : told'[s] = told[s],
         served \notin crossed => Keeps(told'[served], Lost(served), saves[w].content)
  PROVE  FilesKeep'
<1>1. /\ served \in Sessions /\ DOMAIN file = Sessions
  BY Facts DEF Written
<1>2. /\ \A s \in Sessions \ {served} : file'[s] = file[s]
      /\ file'[served].state = "whole" /\ file'[served].session = saves[w].content
  BY <1>1 DEF Written, Saved
<1>3. \A s \in Sessions : Lost(s)' = Lost(s)
  BY DEF Lost
<1> SUFFICES ASSUME NEW s \in Sessions
             PROVE  /\ file'[s].state # "torn"
                    /\ s \notin crossed' =>
                         /\ file'[s].state = "whole" =>
                              Keeps(told'[s], Lost(s)', file'[s].session)
                         /\ told'[s].born /\ ~told'[s].closed => file'[s].state = "whole"
  BY DEF FilesKeep
<1>4. CASE s = served
  BY <1>2, <1>3, <1>4
<1>5. CASE s # served
  BY <1>2, <1>3, <1>5 DEF FilesKeep
<1> QED BY <1>4, <1>5

(* What is being written keeps what the session does.                      *)
LEMMA ContentKeeps ==
  ASSUME IInv, ServedKeeps, NEW w \in {"request", "prompt"}, saves[w].stage = "writing",
         served \notin crossed, NEW knows, NEW lost, Keeps(knows, lost, live)
  PROVE  Keeps(knows, lost, saves[w].content)
<1>1. /\ saves[w].content.turns = live.turns
      /\ saves[w].content.mode = live.mode
      /\ saves[w].content.rules = live.rules
      /\ ToSet(live.faults) \subseteq ToSet(saves[w].content.faults)
  BY Facts DEF ServedKeeps
<1> QED BY <1>1 DEF Keeps

(* What a client knows is of its type.                                     *)
LEMMA ServedKnown ==
  ASSUME IInv, ServedKeeps, served \in Sessions, served \notin crossed
  PROVE  Keeps(told[served], Lost(served), live)
BY Facts DEF ServedKeeps

(* Every step keeps in the files what the clients know, if writes are      *)
(* whole.                                                                  *)
LEMMA StepFiles ==
  ASSUME IInv, QueueOk, FilesKeep, ServedKeeps, WholeWrites, [Next]_vars
  PROVE  FilesKeep'
<1>0. /\ served \in Sessions \cup {"none"} /\ live \in Session /\ prompt \in Prompts
      /\ DOMAIN saves = {"request", "prompt"} /\ DOMAIN file = Sessions
      /\ DOMAIN told = Sessions
      /\ \A w \in {"request", "prompt"} : saves[w].stage # "none" => served \in Sessions
      /\ served \in Sessions => served # "none"
      /\ prompt.todo # <<>> \/ prompt.wait # "no" => served \in Sessions
      /\ \A s \in Sessions : told[s] \in Known
  BY Facts DEF Known
<1>1. CASE UNCHANGED <<file, told, struck>> /\ crossed \subseteq crossed'
  BY <1>1, FilesSame, MilderSame
<1>p. ASSUME NEW w, Persist(w) PROVE crossed \subseteq crossed'
  BY <1>p DEF Persist, Overlap
<1>2. CASE Exits
  <2>1. UNCHANGED <<told, struck, crossed>>
    BY <1>2 DEF Exits
  <2>2. \A s \in Sessions : Lost(s)' = Lost(s)
    BY <2>1 DEF Lost
  <2>3. ASSUME NEW s \in Sessions
        PROVE  \/ file'[s] = file[s]
               \/ /\ file'[s].state = "whole"
                  /\ s \notin crossed => Keeps(told[s], Lost(s), file'[s].session)
    <3>1. \/ file'[s] = file[s]
          \/ /\ s = served
             /\ \E w \in {"request", "prompt"} :
                  saves[w].stage = "writing" /\ file'[s] = Saved(saves[w].content)
      BY <1>0, <1>2 DEF Exits, Interrupted, WholeWrites
    <3>2. ASSUME NEW w \in {"request", "prompt"}, s = served, saves[w].stage = "writing",
                 file'[s] = Saved(saves[w].content)
          PROVE  /\ file'[s].state = "whole"
                 /\ s \notin crossed => Keeps(told[s], Lost(s), file'[s].session)
      <4>1. s \notin crossed => Keeps(told[s], Lost(s), live)
        BY <3>2, ServedKnown
      <4>2. s \notin crossed => Keeps(told[s], Lost(s), saves[w].content)
        BY <3>2, <4>1, ContentKeeps
      <4> QED BY <3>2, <4>2 DEF Saved
    <3> QED BY <3>1, <3>2
  <2>4. ASSUME NEW s \in Sessions
        PROVE  /\ file'[s].state # "torn"
               /\ s \notin crossed' =>
                         /\ file'[s].state = "whole" =>
                              Keeps(told'[s], Lost(s)', file'[s].session)
                         /\ told'[s].born /\ ~told'[s].closed => file'[s].state = "whole"
    BY <2>1, <2>2, <2>3 DEF FilesKeep
  <2> QED BY <2>4 DEF FilesKeep
<1>3. CASE \E s \in Sessions : New(s)
  <2>1. PICK s \in Sessions : New(s)
    BY <1>3
  <2>2. /\ file' = file /\ struck' = struck /\ file[s].state = "none"
        /\ told' = [told EXCEPT ![s] = Untold] /\ crossed' = crossed \ {s}
    BY <2>1 DEF New, Open, Fresh, Unused
  <2>3. told'[s].born = FALSE /\ \A r \in Sessions \ {s} : told'[r] = told[r]
    BY <1>0, <2>2 DEF Untold
  <2>4. \A r \in Sessions : Lost(r)' = Lost(r)
    BY <2>2 DEF Lost
  <2>5. ASSUME NEW r \in Sessions
        PROVE  /\ file'[r].state # "torn"
               /\ r \notin crossed' =>
                         /\ file'[r].state = "whole" =>
                              Keeps(told'[r], Lost(r)', file'[r].session)
                         /\ told'[r].born /\ ~told'[r].closed => file'[r].state = "whole"
    BY <2>2, <2>3, <2>4 DEF FilesKeep
  <2> QED BY <2>5 DEF FilesKeep
<1>4. CASE \E s \in Sessions : Load(s)
  BY <1>1, <1>4 DEF Load, Open
<1>5. CASE \E s, t \in Sessions : Fork(s, t)
  <2>1. PICK s \in Sessions, t \in Sessions : Fork(s, t)
    BY <1>5
  <2>2. /\ file' = file /\ struck' = struck /\ file[t].state = "none"
        /\ crossed \subseteq crossed'
    BY <2>1 DEF Fork, Open, Fresh, Unused
  <2>3. told'[t].born = FALSE /\ \A r \in Sessions \ {t} : told'[r] = told[r]
    <3> DEFINE q == {f \in told[s].faults : <<s, f>> \notin struck}
    <3>1. told' = [told EXCEPT ![t] = [told[s] EXCEPT !.born = FALSE, !.closed = FALSE,
                                                       !.faults = q]]
      BY <1>0, <2>1 DEF Fork, Known
    <3> HIDE DEF q
    <3>2. [told[s] EXCEPT !.born = FALSE, !.closed = FALSE, !.faults = q].born = FALSE
      BY <1>0 DEF Known
    <3> QED BY <1>0, <3>1, <3>2
  <2>4. \A r \in Sessions : Lost(r)' = Lost(r)
    BY <2>2 DEF Lost
  <2>5. ASSUME NEW r \in Sessions
        PROVE  /\ file'[r].state # "torn"
               /\ r \notin crossed' =>
                         /\ file'[r].state = "whole" =>
                              Keeps(told'[r], Lost(r)', file'[r].session)
                         /\ told'[r].born /\ ~told'[r].closed => file'[r].state = "whole"
    BY <2>2, <2>3, <2>4 DEF FilesKeep
  <2> QED BY <2>5 DEF FilesKeep
<1>6. CASE \E m \in Modes : SetMode(m)
  <2>1. PICK m \in Modes : SetMode(m)
    BY <1>6
  <2>2. served \in Sessions /\ crossed \subseteq crossed' /\ UNCHANGED <<file, struck>>
    BY <1>0, <1>p, <2>1 DEF SetMode, Usable
  <2> DEFINE k == told[served].modes \cup {m}
  <2>3. told' = [told EXCEPT ![served] = [told[served] EXCEPT !.modes = k]]
    BY <1>0, <2>1, <2>2 DEF SetMode, Known
  <2>4. told[served].modes \subseteq k
    OBVIOUS
  <2> HIDE DEF k
  <2> DEFINE n == [told[served] EXCEPT !.modes = k]
  <2>5. /\ n.turns = told[served].turns /\ n.modes = k /\ n.rules = told[served].rules
        /\ n.faults = told[served].faults /\ n.born = told[served].born
        /\ n.closed = told[served].closed
    BY <1>0, <2>2 DEF Known
  <2> HIDE DEF n
  <2>6. Milder(n, told[served])
    BY <2>4, <2>5 DEF Milder
  <2>7. told'[served] = n /\ \A s \in Sessions \ {served} : told'[s] = told[s]
    BY <1>0, <2>2, <2>3 DEF n
  <2>8. ASSUME NEW s \in Sessions
        PROVE  /\ Milder(told'[s], told[s]) /\ told'[s].born = told[s].born
               /\ told'[s].closed = told[s].closed
    BY <2>5, <2>6, <2>7, MilderSame
  <2> QED BY <2>2, <2>8, FilesSame
<1>7. CASE Close
  BY <1>1, <1>7, <1>p DEF Close
<1>8. CASE Removed
  <2>1. /\ served \in Sessions /\ UNCHANGED <<struck, crossed>>
        /\ file' = [file EXCEPT ![served] = NoFile]
        /\ told' = [told EXCEPT ![served] = [told[served] EXCEPT !.closed = TRUE]]
    BY <1>0, <1>8 DEF Removed, Known
  <2>2. /\ told'[served].closed = TRUE /\ file'[served].state = "none"
        /\ \A r \in Sessions \ {served} : told'[r] = told[r] /\ file'[r] = file[r]
    BY <1>0, <2>1 DEF NoFile, Known
  <2>4. \A r \in Sessions : Lost(r)' = Lost(r)
    BY <2>1 DEF Lost
  <2>5. ASSUME NEW r \in Sessions
        PROVE  /\ file'[r].state # "torn"
               /\ r \notin crossed' =>
                         /\ file'[r].state = "whole" =>
                              Keeps(told'[r], Lost(r)', file'[r].session)
                         /\ told'[r].born /\ ~told'[r].closed => file'[r].state = "whole"
    BY <2>1, <2>2, <2>4 DEF FilesKeep
  <2> QED BY <2>5 DEF FilesKeep
<1>9. CASE Responds
  <2>1. /\ Written("request") /\ UNCHANGED <<struck, crossed, served>>
        /\ request.mode = live.mode
    BY <1>9 DEF Responds, IInv, ServedOk
  <2>2. served \in Sessions /\ saves["request"].stage = "writing"
    BY <1>0, <2>1 DEF Written
  <2> DEFINE k == {request.mode}
  <2>3. told' = [told EXCEPT ![served] = [told[served] EXCEPT !.born = TRUE, !.modes = k]]
    BY <1>0, <1>9, <2>2 DEF Responds, Known
  <2>4. live.mode \in k
    BY <2>1
  <2> HIDE DEF k
  <2> DEFINE n == [told[served] EXCEPT !.born = TRUE, !.modes = k]
  <2>5. /\ n.turns = told[served].turns /\ n.modes = k /\ n.rules = told[served].rules
        /\ n.faults = told[served].faults
    BY <1>0, <2>2 DEF Known
  <2> HIDE DEF n
  <2>7. told'[served] = n /\ \A s \in Sessions \ {served} : told'[s] = told[s]
    BY <1>0, <2>2, <2>3 DEF n
  <2>8. served \notin crossed => Keeps(n, Lost(served), live)
    BY <2>2, <2>4, <2>5, ServedKnown DEF Keeps
  <2>9. served \notin crossed => Keeps(told'[served], Lost(served), saves["request"].content)
    BY <2>2, <2>7, <2>8, ContentKeeps
  <2> QED BY <2>1, <2>7, <2>9, FilesWritten
<1>10. CASE RuleSaved
  <2>1. /\ Written("prompt") /\ UNCHANGED <<struck, crossed, served>>
        /\ prompt.todo # <<>> /\ Head(prompt.todo).do = "permission"
    BY <1>0, <1>10 DEF RuleSaved, IInv, PromptOk, Running
  <2>2. served \in Sessions /\ saves["prompt"].stage = "writing" /\ Tool \in Tools
    BY <1>0, <2>1, AboutTool DEF Written, ToolDos
  <2> DEFINE u == Tool
             k == [told[served].rules EXCEPT ![u] = {live.rules[u]}]
  <2> HIDE DEF u
  <2>3. told' = [told EXCEPT ![served] = [told[served] EXCEPT !.rules = k]]
    BY <1>0, <1>10, <2>2 DEF RuleSaved, Known, u
  <2>4. k[u] = {live.rules[u]} /\ \A t \in Tools \ {u} : k[t] = told[served].rules[t]
    BY <1>0, <2>2 DEF Known, u
  <2> HIDE DEF k
  <2> DEFINE n == [told[served] EXCEPT !.rules = k]
  <2>5. /\ n.turns = told[served].turns /\ n.rules = k /\ n.modes = told[served].modes
        /\ n.faults = told[served].faults
    BY <1>0, <2>2 DEF Known
  <2> HIDE DEF n
  <2>7. told'[served] = n /\ \A s \in Sessions \ {served} : told'[s] = told[s]
    BY <1>0, <2>2, <2>3 DEF n
  <2>8. served \notin crossed => Keeps(n, Lost(served), live)
    BY <2>2, <2>4, <2>5, ServedKnown DEF Keeps
  <2>9. served \notin crossed => Keeps(told'[served], Lost(served), saves["prompt"].content)
    BY <2>2, <2>7, <2>8, ContentKeeps
  <2> QED BY <2>1, <2>7, <2>9, FilesWritten
<1>11. CASE PromptSaved
  <2>1. /\ Written("prompt") /\ UNCHANGED <<struck, crossed, served, told>>
    BY <1>11 DEF PromptSaved
  <2>2. served \in Sessions /\ saves["prompt"].stage = "writing"
    BY <1>0, <2>1 DEF Written
  <2>3. served \notin crossed => Keeps(told[served], Lost(served), saves["prompt"].content)
    BY <2>2, ServedKnown, ContentKeeps
  <2> QED BY <2>1, <2>3, FilesWritten
<1>12. CASE Answered
  <2>1. /\ Written("prompt") /\ UNCHANGED <<struck, crossed, served>>
        /\ prompt.wait = "answering"
    BY <1>12 DEF Answered
  <2>2. served \in Sessions /\ saves["prompt"].stage = "writing"
    BY <1>0, <2>1 DEF Written
  <2> DEFINE k == told[served].turns + 1
             q == told[served].faults \cup ({prompt.queues} \ {"none"})
  <2>3. told' = [told EXCEPT ![served] = [told[served] EXCEPT !.turns = k, !.faults = q]]
    BY <1>0, <1>12, <2>2 DEF Answered, Known
  <2>4. served \notin crossed => /\ k <= live.turns
                                 /\ q \ Lost(served) \subseteq ToSet(live.faults)
    <3>1. SUFFICES ASSUME served \notin crossed
                   PROVE  k <= live.turns /\ q \ Lost(served) \subseteq ToSet(live.faults)
      OBVIOUS
    <3>2. /\ told[served].turns < live.turns
          /\ \A i \in 1..Len(prompt.todo) : prompt.todo[i].do # "queue"
      BY <1>0, <2>1, <2>2, <3>1 DEF ServedKeeps
    <3>3. prompt.queues # "none" => prompt.queues \in ToSet(live.faults)
      BY <3>2 DEF QueueOk
    <3>4. told[served].faults \ Lost(served) \subseteq ToSet(live.faults)
      BY <2>2, <3>1, ServedKnown DEF Keeps
    <3>5. told[served].turns \in Nat /\ live.turns \in Nat
      BY <1>0, <2>2 DEF Known, Session
    <3> QED BY <3>2, <3>3, <3>4, <3>5
  <2> HIDE DEF k, q
  <2> DEFINE n == [told[served] EXCEPT !.turns = k, !.faults = q]
  <2>5. /\ n.turns = k /\ n.rules = told[served].rules /\ n.modes = told[served].modes
        /\ n.faults = q
    BY <1>0, <2>2 DEF Known
  <2> HIDE DEF n
  <2>7. told'[served] = n /\ \A s \in Sessions \ {served} : told'[s] = told[s]
    BY <1>0, <2>2, <2>3 DEF n
  <2>8. served \notin crossed => Keeps(n, Lost(served), live)
    BY <2>2, <2>4, <2>5, ServedKnown DEF Keeps
  <2>9. served \notin crossed => Keeps(told'[served], Lost(served), saves["prompt"].content)
    BY <2>2, <2>7, <2>8, ContentKeeps
  <2> QED BY <2>1, <2>7, <2>9, FilesWritten
<1>13. CASE Title \/ Rename \/ Queue \/ Finish
  BY <1>1, <1>13, <1>p DEF Title, Rename, Queue, Finish
<1>14. CASE Arm
  <2>1. UNCHANGED <<file, told, crossed>> /\ struck \subseteq struck'
    BY <1>14 DEF Arm
  <2> QED BY <2>1, FilesSame, MilderSame
<1>15. CASE ClientDecides
  <2>1. CASE UNCHANGED <<live, saves, told, crossed>>
    BY <1>1, <1>15, <2>1 DEF ClientDecides
  <2>2. ASSUME NEW always \in {"allow", "reject"},
               told' = [told EXCEPT ![served].rules[Tool] = @ \cup {always}],
               Persist("prompt"), UNCHANGED <<file, struck>>, prompt.wait = "asking"
        PROVE  FilesKeep'
    <3>1. prompt.todo # <<>> /\ Head(prompt.todo).do = "permission" /\ served \in Sessions
      BY <1>0, <2>2 DEF IInv, PromptOk, Running
    <3>2. Tool \in Tools
      BY <3>1, AboutTool DEF ToolDos
    <3> DEFINE u == Tool
               k == [told[served].rules EXCEPT ![u] = @ \cup {always}]
    <3> HIDE DEF u
    <3>3. told' = [told EXCEPT ![served] = [told[served] EXCEPT !.rules = k]]
      BY <1>0, <2>2, <3>1, <3>2 DEF Known, u
    <3>4. \A t \in Tools : told[served].rules[t] \subseteq k[t]
      BY <1>0, <3>1, <3>2 DEF Known, u
    <3> HIDE DEF k
    <3> DEFINE n == [told[served] EXCEPT !.rules = k]
    <3>5. /\ n.turns = told[served].turns /\ n.rules = k /\ n.modes = told[served].modes
          /\ n.faults = told[served].faults /\ n.born = told[served].born
          /\ n.closed = told[served].closed
      BY <1>0, <3>1 DEF Known
    <3> HIDE DEF n
    <3>6. Milder(n, told[served])
      BY <3>4, <3>5 DEF Milder
    <3>7. told'[served] = n /\ \A s \in Sessions \ {served} : told'[s] = told[s]
      BY <1>0, <3>1, <3>3 DEF n
    <3>8. ASSUME NEW s \in Sessions
          PROVE  /\ Milder(told'[s], told[s]) /\ told'[s].born = told[s].born
                 /\ told'[s].closed = told[s].closed
      BY <3>5, <3>6, <3>7, MilderSame
    <3> QED BY <1>p, <2>2, <3>8, FilesSame
  <2> QED BY <1>15, <2>1, <2>2 DEF ClientDecides
<1>16. CASE \/ Initialize \/ Authenticate \/ ReplayEnds \/ UNCHANGED vars \/ Cancel
            \/ Strike \/ Announced \/ Slept \/ Call \/ Permission \/ Use \/ EndTool
            \/ PlanProgress \/ (\E w \in DOMAIN saves : Serialize(w))
            \/ \E a \in Actions, f \in Faults \cup {"none"} : Prompt(a, f)
  BY <1>1, <1>16 DEF Initialize, Authenticate, ReplayEnds, vars, Cancel, Strike,
     Announced, Slept, Call, Permission, Use, EndTool, PlanProgress, Prompt, Serialize
<1> QED
  BY <1>2, <1>3, <1>4, <1>5, <1>6, <1>7, <1>8, <1>9, <1>10, <1>11, <1>12, <1>13, <1>14,
     <1>15, <1>16
  DEF Next, StoreStep, PromptStep, Kill, Crash

-----------------------------------------------------------------------------
(* Who is about to answer has recorded it.                                 *)
AnswerKept ==
  prompt.wait = "answering" =>
    /\ told[served].turns < live.turns
    /\ \A i \in 1..Len(prompt.todo) : prompt.todo[i].do # "queue"

(* No save begins or ends.                                                 *)
LEMMA ServedSame ==
  ASSUME IInv, ServedKeeps, UNCHANGED <<served, saves>>, crossed \subseteq crossed',
         live'.turns = live.turns, live'.mode = live.mode, live'.rules = live.rules,
         ToSet(live'.faults) \subseteq ToSet(live.faults),
         served \in Sessions /\ served \notin crossed =>
           Keeps(told'[served], Lost(served)', live'),
         served \in Sessions => AnswerKept'
  PROVE  ServedKeeps'
<1>1. served \in Sessions \cup {"none"}
  BY Facts
<1> SUFFICES ASSUME served # "none", served \notin crossed' PROVE ServedKeeps'
  BY DEF ServedKeeps
<1>2. served \in Sessions /\ served \notin crossed
  BY <1>1
<1> QED BY <1>2 DEF ServedKeeps, AnswerKept

(* A save begins.                                                          *)
LEMMA ServedPersist ==
  ASSUME IInv, ServedKeeps, NEW w \in {"request", "prompt"}, Persist(w),
         served \in Sessions, served' = served,
         served \notin crossed => Keeps(told'[served], Lost(served)', live'),
         served \notin crossed => AnswerKept'
  PROVE  ServedKeeps'
<1>0. /\ DOMAIN saves = {"request", "prompt"}
      /\ \A v \in {"request", "prompt"} : DOMAIN saves[v] = {"stage", "content"}
  BY Facts
<1> SUFFICES ASSUME served \notin crossed' PROVE ServedKeeps'
  BY DEF ServedKeeps
<1>1. /\ served \notin crossed
      /\ \A v \in {"request", "prompt"} : v # w => saves[v].stage = "none"
  BY <1>0 DEF Persist, Overlap
<1>2. /\ saves' = [saves EXCEPT ![w].stage = "due"] /\ DOMAIN saves' = {"request", "prompt"}
      /\ saves'[w].stage = "due"
      /\ \A v \in {"request", "prompt"} : v # w => saves'[v].stage = "none"
  BY <1>0, <1>1 DEF Persist
<1> QED BY <1>1, <1>2 DEF ServedKeeps, AnswerKept

(* A save is over.                                                         *)
LEMMA ServedWritten ==
  ASSUME IInv, ServedKeeps, NEW w \in {"request", "prompt"},
         saves' = [saves EXCEPT ![w] = NoSave], saves[w].stage # "none",
         UNCHANGED <<served, live, crossed>>,
         served \notin crossed => Keeps(told'[served], Lost(served)', live'),
         served \notin crossed => AnswerKept'
  PROVE  ServedKeeps'
<1>0. DOMAIN saves = {"request", "prompt"} /\ served \in Sessions /\ served # "none"
  BY Facts
<1> SUFFICES ASSUME served \notin crossed PROVE ServedKeeps'
  BY DEF ServedKeeps
<1>1. \A v \in {"request", "prompt"} : v # w => saves[v].stage = "none"
  BY <1>0 DEF ServedKeeps
<1>2. DOMAIN saves' = {"request", "prompt"} /\ \A v \in {"request", "prompt"} : saves'[v].stage = "none"
  BY <1>0, <1>1 DEF NoSave
<1> QED BY <1>2 DEF ServedKeeps, AnswerKept

(* A session is opened.                                                    *)
LEMMA ServedOpened ==
  ASSUME IInv, NEW s \in Sessions, NEW session, NEW kind, Open(s, session, kind),
         s \notin crossed' => Keeps(told'[s], Lost(s)', session)
  PROVE  ServedKeeps'
<1>1. /\ served = "none" /\ served' = s /\ live' = session /\ prompt' = prompt
      /\ saves' = [saves EXCEPT !["request"].stage = "due"]
  BY DEF Open
<1>2. /\ DOMAIN saves = {"request", "prompt"} /\ prompt.wait = "no"
      /\ \A v \in {"request", "prompt"} : DOMAIN saves[v] = {"stage", "content"}
      /\ saves["request"].stage = "none" /\ saves["prompt"].stage = "none"
  BY <1>1, Facts
<1>3. /\ DOMAIN saves' = {"request", "prompt"} /\ saves'["prompt"].stage = "none"
      /\ saves'["request"].stage = "due"
  BY <1>1, <1>2
<1> QED BY <1>1, <1>2, <1>3 DEF ServedKeeps

(* Every step keeps in the session served what its client knows.           *)
LEMMA StepServedKeeps ==
  ASSUME IInv, QueueOk, FilesKeep, ServedKeeps, [Next]_vars
  PROVE  ServedKeeps'
<1>0. /\ served \in Sessions \cup {"none"} /\ live \in Session /\ prompt \in Prompts
      /\ DOMAIN saves = {"request", "prompt"} /\ DOMAIN file = Sessions
      /\ DOMAIN told = Sessions
      /\ \A w \in {"request", "prompt"} : saves[w].stage # "none" => served \in Sessions
      /\ served \in Sessions => served # "none"
      /\ prompt.todo # <<>> \/ prompt.wait # "no" => served \in Sessions
      /\ \A s \in Sessions : told[s] \in Known
      /\ live.turns \in Nat
  BY Facts DEF Known, Session
<1>a. prompt'.wait = "answering" =>
        Finish \/ (prompt.wait = "answering" /\ prompt'.todo = prompt.todo)
  BY StepWaits
<1>k. served \in Sessions /\ served \notin crossed =>
        Keeps(told[served], Lost(served), live) /\ AnswerKept
  BY <1>0 DEF ServedKeeps, AnswerKept
<1>s. struck' = struck => \A s : Lost(s)' = Lost(s)
  BY DEF Lost
(* Whether the answer is kept, when turns are not counted.                 *)
<1>b. ASSUME served \in Sessions, served \notin crossed, ~Finish, served' = served,
             live'.turns = live.turns, told'[served].turns = told[served].turns
      PROVE  AnswerKept'
  <2>1. CASE prompt'.wait # "answering"
    BY <2>1 DEF AnswerKept
  <2>2. CASE prompt.wait = "answering" /\ prompt'.todo = prompt.todo
    BY <1>b, <1>k, <2>2 DEF AnswerKept
  <2> QED BY <1>a, <1>b, <2>1, <2>2
<1>1. CASE UNCHANGED <<served, saves, live, told, struck, crossed>> /\ ~Finish
  <2>1. CASE served \in Sessions /\ served \notin crossed
    <3>1. AnswerKept' /\ Keeps(told'[served], Lost(served)', live')
      BY <1>1, <1>b, <1>k, <1>s, <2>1
    <3> QED BY <1>1, <2>1, <3>1, ServedSame
  <2>2. CASE ~(served \in Sessions /\ served \notin crossed)
    BY <1>0, <1>1, <2>2 DEF ServedKeeps
  <2> QED BY <2>1, <2>2
<1>2. CASE Exits
  BY <1>2 DEF Exits, ServedKeeps
<1>3. CASE \E s \in Sessions : New(s)
  <2>1. PICK s \in Sessions : New(s)
    BY <1>3
  <2>2. Open(s, NewSession, "open") /\ told'[s] = Untold
    BY <1>0, <2>1 DEF New
  <2>3. ToSet(NewSession.faults) = {} /\ NewSession.turns = 0 /\ NewSession.mode = "accept-edits"
        /\ \A t \in Tools : NewSession.rules[t] = "ask"
    BY DEF NewSession, ToSet
  <2>4. Untold.turns = 0 /\ Untold.faults = {} /\ Untold.modes = {"accept-edits"}
        /\ \A t \in Tools : Untold.rules[t] = {"ask"}
    BY DEF Untold
  <2>5. Keeps(told'[s], Lost(s)', NewSession)
    BY <2>2, <2>3, <2>4 DEF Keeps
  <2> QED BY <2>2, <2>5, ServedOpened
<1>4. CASE \E s \in Sessions : Load(s)
  <2>1. PICK s \in Sessions : Load(s)
    BY <1>4
  <2>2. PICK kind \in {"load", "open"} : Open(s, file[s].session, kind)
    BY <2>1 DEF Load
  <2>3. /\ file[s].state = "whole" /\ UNCHANGED <<told, crossed>> /\ struck' = struck
    BY <2>1 DEF Load, Open
  <2>4. s \notin crossed' => Keeps(told'[s], Lost(s)', file[s].session)
    BY <1>s, <2>3 DEF FilesKeep
  <2> QED BY <2>2, <2>4, ServedOpened
<1>5. CASE \E s, t \in Sessions : Fork(s, t)
  <2>1. PICK s \in Sessions, t \in Sessions : Fork(s, t)
    BY <1>5
  <2>2. /\ Open(t, file[s].session, "open") /\ file[s].state = "whole"
        /\ crossed' = IF s \in crossed THEN crossed \cup {t} ELSE crossed
    BY <2>1 DEF Fork
  <2> DEFINE q == {f \in told[s].faults : <<s, f>> \notin struck}
  <2>3. told' = [told EXCEPT ![t] = [told[s] EXCEPT !.born = FALSE, !.closed = FALSE,
                                                     !.faults = q]]
    BY <1>0, <2>1 DEF Fork, Known
  <2>4. \A f \in q : f \in told[s].faults \ Lost(s)
    BY DEF Lost
  <2> HIDE DEF q
  <2> DEFINE n == [told[s] EXCEPT !.born = FALSE, !.closed = FALSE, !.faults = q]
  <2>5. /\ n.turns = told[s].turns /\ n.modes = told[s].modes /\ n.rules = told[s].rules
        /\ n.faults = q
    BY <1>0 DEF Known
  <2> HIDE DEF n
  <2>6. told'[t] = n
    BY <1>0, <2>3 DEF n
  <2>7. s \notin crossed => Keeps(told[s], Lost(s), file[s].session)
    BY <2>2 DEF FilesKeep
  <2>8. s \notin crossed => Keeps(n, Lost(t)', file[s].session)
    BY <2>4, <2>5, <2>7 DEF Keeps
  <2>9. t \notin crossed' => Keeps(told'[t], Lost(t)', file[s].session)
    BY <2>2, <2>6, <2>8
  <2> QED BY <2>2, <2>9, ServedOpened
<1>6. CASE \E m \in Modes : SetMode(m)
  <2>1. PICK m \in Modes : SetMode(m)
    BY <1>6
  <2>2. /\ served \in Sessions /\ struck' = struck /\ Persist("request") /\ served' = served
        /\ live' = [live EXCEPT !.mode = m] /\ prompt' = prompt
    BY <1>0, <2>1 DEF SetMode, Usable
  <2>f. ~Finish \/ prompt.wait = prompt'.wait
    BY <2>2
  <2>3. /\ live'.turns = live.turns /\ live'.mode = m /\ live'.rules = live.rules
        /\ live'.faults = live.faults
    BY <1>0, <2>2 DEF Session
  <2> DEFINE k == told[served].modes \cup {m}
  <2>4. told' = [told EXCEPT ![served] = [told[served] EXCEPT !.modes = k]]
    BY <1>0, <2>1, <2>2 DEF SetMode, Known
  <2>5. m \in k
    OBVIOUS
  <2> HIDE DEF k
  <2> DEFINE n == [told[served] EXCEPT !.modes = k]
  <2>6. /\ n.turns = told[served].turns /\ n.modes = k /\ n.rules = told[served].rules
        /\ n.faults = told[served].faults
    BY <1>0, <2>2 DEF Known
  <2> HIDE DEF n
  <2>7. told'[served] = n
    BY <1>0, <2>2, <2>4 DEF n
  <2>8. served \notin crossed => Keeps(told'[served], Lost(served)', live')
    BY <1>k, <1>s, <2>2, <2>3, <2>5, <2>6, <2>7 DEF Keeps
  <2>9. served \notin crossed => AnswerKept'
    BY <1>k, <2>2, <2>3, <2>6, <2>7 DEF AnswerKept
  <2> QED BY <2>2, <2>8, <2>9, ServedPersist
<1>7. CASE Close
  <2>1. /\ served \in Sessions /\ Persist("request")
        /\ UNCHANGED <<served, live, told, struck>>
    BY <1>0, <1>7 DEF Close, Usable
  <2>2. ~Finish \/ prompt'.wait # "answering"
    <3>1. request = NoRequest /\ request'.kind = "close"
      BY <1>7 DEF Close, Usable
    <3>2. Finish => request' = request
      BY DEF Finish
    <3> QED BY <3>1, <3>2 DEF NoRequest
  <2>3. served \notin crossed => AnswerKept'
    BY <1>b, <2>1, <2>2 DEF AnswerKept
  <2> QED BY <1>k, <1>s, <2>1, <2>3, ServedPersist
<1>8. CASE Removed
  <2>1. /\ served \in Sessions /\ UNCHANGED <<struck, crossed, served, live, prompt>>
        /\ saves' = [saves EXCEPT !["request"] = NoSave] /\ saves["request"].stage # "none"
        /\ told' = [told EXCEPT ![served] = [told[served] EXCEPT !.closed = TRUE]]
    BY <1>0, <1>8 DEF Removed, Known
  <2>2. /\ told'[served].turns = told[served].turns /\ told'[served].modes = told[served].modes
        /\ told'[served].rules = told[served].rules /\ told'[served].faults = told[served].faults
    BY <1>0, <2>1 DEF Known
  <2>3. served \notin crossed => Keeps(told'[served], Lost(served)', live')
    BY <1>k, <1>s, <2>1, <2>2 DEF Keeps
  <2>4. served \notin crossed => AnswerKept'
    BY <1>k, <2>1, <2>2 DEF AnswerKept
  <2> QED BY <2>1, <2>3, <2>4, ServedWritten
<1>9. CASE Responds
  <2>1. /\ saves' = [saves EXCEPT !["request"] = NoSave] /\ saves["request"].stage # "none"
        /\ UNCHANGED <<struck, crossed, served, live, prompt>> /\ request.mode = live.mode
    BY <1>9 DEF Responds, IInv, ServedOk, Written
  <2>2. served \in Sessions
    BY <1>0, <2>1
  <2> DEFINE k == {request.mode}
  <2>3. told' = [told EXCEPT ![served] = [told[served] EXCEPT !.born = TRUE, !.modes = k]]
    BY <1>0, <1>9, <2>2 DEF Responds, Known
  <2>4. live.mode \in k
    BY <2>1
  <2> HIDE DEF k
  <2> DEFINE n == [told[served] EXCEPT !.born = TRUE, !.modes = k]
  <2>5. /\ n.turns = told[served].turns /\ n.modes = k /\ n.rules = told[served].rules
        /\ n.faults = told[served].faults
    BY <1>0, <2>2 DEF Known
  <2> HIDE DEF n
  <2>7. told'[served] = n
    BY <1>0, <2>2, <2>3 DEF n
  <2>8. served \notin crossed => Keeps(told'[served], Lost(served)', live')
    BY <1>k, <1>s, <2>1, <2>2, <2>4, <2>5, <2>7 DEF Keeps
  <2>9. served \notin crossed => AnswerKept'
    BY <1>k, <2>1, <2>2, <2>5, <2>7 DEF AnswerKept
  <2> QED BY <2>1, <2>8, <2>9, ServedWritten
<1>10. CASE RuleSaved
  <2>1. /\ saves' = [saves EXCEPT !["prompt"] = NoSave] /\ saves["prompt"].stage # "none"
        /\ UNCHANGED <<struck, crossed, served, live>> /\ prompt.wait = "remembering"
        /\ prompt.todo # <<>> /\ Head(prompt.todo).do = "permission"
    BY <1>0, <1>10 DEF RuleSaved, IInv, PromptOk, Running, Written
  <2>2. served \in Sessions /\ Tool \in Tools
    BY <1>0, <2>1, AboutTool DEF ToolDos
  <2>f. ~Finish
    BY <2>1 DEF Finish, At
  <2> DEFINE u == Tool
             k == [told[served].rules EXCEPT ![u] = {live.rules[u]}]
  <2> HIDE DEF u
  <2>3. told' = [told EXCEPT ![served] = [told[served] EXCEPT !.rules = k]]
    BY <1>0, <1>10, <2>2 DEF RuleSaved, Known, u
  <2>4. k[u] = {live.rules[u]} /\ \A t \in Tools \ {u} : k[t] = told[served].rules[t]
    BY <1>0, <2>2 DEF Known, u
  <2> HIDE DEF k
  <2> DEFINE n == [told[served] EXCEPT !.rules = k]
  <2>5. /\ n.turns = told[served].turns /\ n.rules = k /\ n.modes = told[served].modes
        /\ n.faults = told[served].faults
    BY <1>0, <2>2 DEF Known
  <2> HIDE DEF n
  <2>7. told'[served] = n
    BY <1>0, <2>2, <2>3 DEF n
  <2>8. served \notin crossed => Keeps(told'[served], Lost(served)', live')
    BY <1>k, <1>s, <2>1, <2>2, <2>4, <2>5, <2>7 DEF Keeps
  <2>9. served \notin crossed => AnswerKept'
    BY <1>b, <2>1, <2>2, <2>5, <2>7, <2>f
  <2> QED BY <2>1, <2>8, <2>9, ServedWritten
<1>11. CASE PromptSaved
  <2>1. /\ saves' = [saves EXCEPT !["prompt"] = NoSave] /\ saves["prompt"].stage # "none"
        /\ UNCHANGED <<struck, crossed, served, live, told>> /\ prompt.wait = "saving"
    BY <1>11 DEF PromptSaved, Written
  <2>2. served \in Sessions /\ ~Finish
    BY <1>0, <2>1 DEF Finish, At
  <2> QED BY <1>b, <1>k, <1>s, <2>1, <2>2, ServedWritten
<1>12. CASE Answered
  <2>1. /\ saves' = [saves EXCEPT !["prompt"] = NoSave] /\ saves["prompt"].stage # "none"
        /\ UNCHANGED <<struck, crossed, served, live>> /\ prompt.wait = "answering"
        /\ prompt' = Idle
    BY <1>12 DEF Answered, Written, Over
  <2>2. served \in Sessions
    BY <1>0, <2>1
  <2> DEFINE k == told[served].turns + 1
             q == told[served].faults \cup ({prompt.queues} \ {"none"})
  <2>3. told' = [told EXCEPT ![served] = [told[served] EXCEPT !.turns = k, !.faults = q]]
    BY <1>0, <1>12, <2>2 DEF Answered, Known
  <2>4. served \notin crossed => /\ k <= live.turns
                                 /\ q \ Lost(served) \subseteq ToSet(live.faults)
    <3>1. SUFFICES ASSUME served \notin crossed
                   PROVE  k <= live.turns /\ q \ Lost(served) \subseteq ToSet(live.faults)
      OBVIOUS
    <3>2. /\ told[served].turns < live.turns
          /\ \A i \in 1..Len(prompt.todo) : prompt.todo[i].do # "queue"
      BY <1>k, <2>1, <2>2, <3>1 DEF AnswerKept
    <3>3. prompt.queues # "none" => prompt.queues \in ToSet(live.faults)
      BY <3>2 DEF QueueOk
    <3>4. told[served].faults \ Lost(served) \subseteq ToSet(live.faults)
      BY <1>k, <2>2, <3>1 DEF Keeps
    <3>5. told[served].turns \in Nat
      BY <1>0, <2>2 DEF Known
    <3> QED BY <1>0, <3>2, <3>3, <3>4, <3>5
  <2> HIDE DEF k, q
  <2> DEFINE n == [told[served] EXCEPT !.turns = k, !.faults = q]
  <2>5. /\ n.turns = k /\ n.rules = told[served].rules /\ n.modes = told[served].modes
        /\ n.faults = q
    BY <1>0, <2>2 DEF Known
  <2> HIDE DEF n
  <2>7. told'[served] = n
    BY <1>0, <2>2, <2>3 DEF n
  <2>8. served \notin crossed => Keeps(told'[served], Lost(served)', live')
    BY <1>k, <1>s, <2>1, <2>2, <2>4, <2>5, <2>7 DEF Keeps
  <2>9. AnswerKept'
    BY <2>1, IdlePrompt DEF AnswerKept
  <2> QED BY <2>1, <2>8, <2>9, ServedWritten
<1>13. CASE Title \/ Rename \/ Queue
  <2>1. /\ UNCHANGED <<served, told, struck>> /\ prompt.todo # <<>>
        /\ prompt' = Advanced(prompt) \/ prompt' = Saving(Advanced(prompt))
        /\ Head(prompt.todo).do \in {"title", "rename", "queue"}
    BY <1>13 DEF Title, Rename, Queue, At, Running
  <2>2. served \in Sessions /\ ~Finish
    BY <1>0, <2>1 DEF Finish, At
  <2>3. CASE UNCHANGED <<live, saves, crossed>>
    BY <1>1, <2>1, <2>2, <2>3
  <2>4. CASE Persist("prompt")
    <3>1. /\ live'.turns = live.turns /\ live'.mode = live.mode /\ live'.rules = live.rules
          /\ ToSet(live.faults) \subseteq ToSet(live'.faults)
      <4>1. CASE Title \/ Rename
        BY <1>0, <4>1 DEF Title, Rename, Session
      <4>2. CASE Queue
        <5>1. /\ live'.turns = live.turns /\ live'.mode = live.mode /\ live'.rules = live.rules
              /\ live'.faults = Append(live.faults, prompt.queues)
          BY <1>0, <4>2 DEF Queue, Session
        <5>2. live.faults \in Seq(Faults) /\ prompt.queues \in Faults
          BY <1>0, <4>2, QueuesOne DEF Session, Queue
        <5>3. ASSUME NEW i \in DOMAIN live.faults
              PROVE  i \in DOMAIN live'.faults /\ live'.faults[i] = live.faults[i]
          BY <5>1, <5>2
        <5> QED BY <5>1, <5>3 DEF ToSet
      <4> QED BY <1>13, <4>1, <4>2
    <3>2. served \notin crossed => Keeps(told'[served], Lost(served)', live')
      BY <1>k, <1>s, <2>1, <2>2, <3>1 DEF Keeps
    <3>3. served \notin crossed => AnswerKept'
      BY <1>b, <2>1, <2>2, <3>1
    <3> QED BY <2>1, <2>2, <2>4, <3>2, <3>3, ServedPersist
  <2> QED BY <1>13, <2>3, <2>4 DEF Title, Rename, Queue
<1>14. CASE Arm
  <2>1. /\ UNCHANGED <<served, told, saves, crossed>> /\ prompt.todo # <<>> /\ At("arm")
    BY <1>14 DEF Arm, At, Running
  <2>2. served \in Sessions /\ ~Finish
    BY <1>0, <2>1 DEF Finish, At
  <2>3. live.faults \in Seq(Faults)
    BY <1>0 DEF Session
  <2>4. CASE live' = live /\ struck' = struck
    BY <1>1, <2>1, <2>2, <2>4
  <2>5. CASE /\ live.faults # <<>> /\ live' = [live EXCEPT !.faults = Tail(@)]
             /\ struck' = struck \cup {<<served, Head(live.faults)>>}
    <3>1. /\ live'.turns = live.turns /\ live'.mode = live.mode /\ live'.rules = live.rules
          /\ live'.faults = Tail(live.faults)
      BY <1>0, <2>5 DEF Session
    <3>2. /\ ToSet(Tail(live.faults)) \subseteq ToSet(live.faults)
          /\ ToSet(live.faults) \subseteq {Head(live.faults)} \cup ToSet(Tail(live.faults))
      <4>1. /\ Head(live.faults) = live.faults[1] /\ Len(live.faults) \in Nat \ {0}
            /\ Len(Tail(live.faults)) = Len(live.faults) - 1
            /\ \A i \in 1..(Len(live.faults) - 1) : Tail(live.faults)[i] = live.faults[i + 1]
            /\ DOMAIN live.faults = 1..Len(live.faults)
            /\ DOMAIN Tail(live.faults) = 1..(Len(live.faults) - 1)
        BY <2>3, <2>5
      <4>2. ASSUME NEW i \in 1..Len(live.faults)
            PROVE  live.faults[i] \in {Head(live.faults)} \cup ToSet(Tail(live.faults))
        <5>1. CASE i = 1
          BY <4>1, <5>1
        <5>2. CASE i # 1
          <6>1. i - 1 \in 1..(Len(live.faults) - 1) /\ (i - 1) + 1 = i
            BY <4>1, <5>2
          <6>2. Tail(live.faults)[i - 1] = live.faults[i]
            BY <4>1, <6>1
          <6> QED BY <4>1, <6>1, <6>2 DEF ToSet
        <5> QED BY <5>1, <5>2
      <4>3. ASSUME NEW i \in 1..(Len(live.faults) - 1)
            PROVE  Tail(live.faults)[i] \in ToSet(live.faults)
        <5>1. i + 1 \in 1..Len(live.faults)
          BY <4>1
        <5> QED BY <4>1, <5>1 DEF ToSet
      <4> QED BY <4>1, <4>2, <4>3, ZenonT(60) DEF ToSet
    <3>3. Lost(served)' = Lost(served) \cup {Head(live.faults)}
      <4>1. Head(live.faults) \in Faults
        BY <2>3, <2>5
      <4> QED BY <2>1, <2>5, <4>1 DEF Lost
    <3>4. served \notin crossed => Keeps(told'[served], Lost(served)', live')
      BY <1>k, <2>1, <2>2, <3>1, <3>2, <3>3 DEF Keeps
    <3>5. served \notin crossed => AnswerKept'
      BY <1>b, <2>1, <2>2, <3>1
    <3>6. CASE served \notin crossed
      BY <2>1, <2>2, <3>1, <3>2, <3>4, <3>5, <3>6, ServedSame
    <3>7. CASE served \in crossed
      BY <2>1, <3>7 DEF ServedKeeps
    <3> QED BY <3>6, <3>7
  <2> QED BY <1>14, <2>4, <2>5 DEF Arm
<1>15. CASE ClientDecides
  <2>0. prompt.wait = "asking" /\ ~Finish /\ served' = served
    BY <1>15 DEF ClientDecides, Finish, At
  <2>1. CASE UNCHANGED <<live, saves, told, crossed>>
    BY <1>1, <1>15, <2>0, <2>1 DEF ClientDecides
  <2>2. ASSUME NEW always \in {"allow", "reject"},
               live' = [live EXCEPT !.rules[Tool] = always],
               told' = [told EXCEPT ![served].rules[Tool] = @ \cup {always}],
               Persist("prompt"), UNCHANGED <<file, struck>>
        PROVE  ServedKeeps'
    <3>1. prompt.todo # <<>> /\ Head(prompt.todo).do = "permission" /\ served \in Sessions
      BY <1>0, <2>0 DEF IInv, PromptOk, Running
    <3>2. Tool \in Tools
      BY <3>1, AboutTool DEF ToolDos
    <3> DEFINE u == Tool
               k == [told[served].rules EXCEPT ![u] = @ \cup {always}]
    <3> HIDE DEF u
    <3>3. told' = [told EXCEPT ![served] = [told[served] EXCEPT !.rules = k]]
      BY <1>0, <2>2, <3>1, <3>2 DEF Known, u
    <3>4. /\ \A t \in Tools : told[served].rules[t] \subseteq k[t]
          /\ always \in k[u]
      BY <1>0, <3>1, <3>2 DEF Known, u
    <3> HIDE DEF k
    <3> DEFINE n == [told[served] EXCEPT !.rules = k]
    <3>5. /\ n.turns = told[served].turns /\ n.rules = k /\ n.modes = told[served].modes
          /\ n.faults = told[served].faults
      BY <1>0, <3>1 DEF Known
    <3> HIDE DEF n
    <3>7. told'[served] = n
      BY <1>0, <3>1, <3>3 DEF n
    <3>8. /\ live'.turns = live.turns /\ live'.mode = live.mode /\ live'.faults = live.faults
          /\ live'.rules[u] = always /\ \A t \in Tools \ {u} : live'.rules[t] = live.rules[t]
      BY <1>0, <2>2, <3>2 DEF Session, u
    <3>9. served \notin crossed => Keeps(told'[served], Lost(served)', live')
      <4> SUFFICES ASSUME served \notin crossed
                   PROVE  Keeps(n, Lost(served)', live')
        BY <3>7
      <4>1. Lost(served)' = Lost(served)
        BY <2>0, <2>2 DEF Lost
      <4>2. Keeps(told[served], Lost(served), live)
        BY <1>k, <3>1
      <4>3. /\ n.turns <= live'.turns /\ live'.mode \in n.modes
            /\ n.faults \ Lost(served)' \subseteq ToSet(live'.faults)
        BY <3>5, <3>8, <4>1, <4>2 DEF Keeps
      <4>4. ASSUME NEW t \in Tools PROVE live'.rules[t] \in n.rules[t]
        <5>1. CASE t = u
          BY <3>4, <3>5, <3>8, <5>1
        <5>2. CASE t # u
          <6>1. live'.rules[t] = live.rules[t]
            BY <3>8, <5>2
          <6>2. live.rules[t] \in told[served].rules[t]
            BY <4>2 DEF Keeps
          <6> QED BY <3>4, <3>5, <6>1, <6>2
        <5> QED BY <5>1, <5>2
      <4> QED BY <4>3, <4>4 DEF Keeps
    <3>10. served \notin crossed => AnswerKept'
      BY <1>b, <2>0, <3>1, <3>5, <3>7, <3>8
    <3> QED BY <2>0, <2>2, <3>1, <3>9, <3>10, ServedPersist
  <2> QED BY <1>15, <2>1, <2>2 DEF ClientDecides
<1>16. CASE Finish
  <2>1. UNCHANGED <<served, told, struck>> /\ prompt.todo # <<>> /\ served \in Sessions
    BY <1>0, <1>16 DEF Finish, At, Running
  <2>2. CASE prompt.aborted
    <3>1. UNCHANGED <<live, saves, crossed>> /\ prompt' = Idle
      BY <1>16, <2>2 DEF Finish, Over
    <3>2. AnswerKept'
      BY <3>1, IdlePrompt DEF AnswerKept
    <3>3. CASE served \notin crossed
      BY <1>k, <1>s, <2>1, <3>1, <3>2, <3>3, ServedSame
    <3>4. CASE served \in crossed
      BY <2>1, <3>1, <3>4 DEF ServedKeeps
    <3> QED BY <3>3, <3>4
  <2>3. CASE ~prompt.aborted
    <3>1. /\ Persist("prompt") /\ live' = [live EXCEPT !.turns = @ + 1]
      BY <1>16, <2>3 DEF Finish, Recorded
    <3>2. /\ live'.turns = live.turns + 1 /\ live'.mode = live.mode
          /\ live'.rules = live.rules /\ live'.faults = live.faults
      BY <1>0, <3>1 DEF Session
    <3>3. prompt'.todo = prompt.todo
      <4> DEFINE q == SentPlan(prompt, Head(prompt.todo).at)
      <4>1. prompt' = [q EXCEPT !.wait = "answering"]
        BY <1>16, <2>3 DEF Finish
      <4>2. SameButSeen(prompt, q)
        BY <1>0, <2>1, HeadOf, SentPlanSame DEF ScriptStep
      <4> HIDE DEF q
      <4> QED BY <4>1, <4>2 DEF SameButSeen, Prompts
    <3>4. \A i \in 1..Len(prompt.todo) : prompt.todo[i].do # "queue"
      <4>1. /\ Head(prompt.todo).do = "finish" /\ Head(prompt.todo) = prompt.todo[1]
            /\ Len(prompt.todo) \in Nat /\ 1 \in 1..Len(prompt.todo)
        BY <1>0, <1>16, <2>1, HeadOf DEF Finish, At
      <4>2. Ordered(prompt.todo)
        BY DEF IInv, PromptOk
      <4>3. 1 = Len(prompt.todo)
        BY <4>1, <4>2 DEF Ordered, InOrder
      <4> QED BY <4>1, <4>3
    <3>5. told[served].turns \in Nat
      BY <1>0, <2>1 DEF Known
    <3>6. served \notin crossed => told[served].turns <= live.turns
      BY <1>k, <2>1 DEF Keeps
    <3>7. served \notin crossed => Keeps(told'[served], Lost(served)', live')
      BY <1>0, <1>k, <1>s, <2>1, <3>2, <3>5, <3>6 DEF Keeps
    <3>8. served \notin crossed => AnswerKept'
      BY <1>0, <2>1, <3>2, <3>3, <3>4, <3>5, <3>6 DEF AnswerKept
    <3> QED BY <2>1, <3>1, <3>7, <3>8, ServedPersist
  <2> QED BY <2>2, <2>3
<1>17. ASSUME NEW w \in {"request", "prompt"}, Serialize(w)
       PROVE  ServedKeeps'
  <2>1. /\ saves[w].stage = "due" /\ UNCHANGED <<served, live, prompt, told, struck, crossed>>
        /\ saves' = [saves EXCEPT ![w] = [stage |-> "writing", content |-> live]]
    BY <1>17 DEF Serialize
  <2>2. served \in Sessions /\ served # "none"
    BY <1>0, <2>1
  <2> SUFFICES ASSUME served \notin crossed PROVE ServedKeeps'
    BY <2>1 DEF ServedKeeps
  <2>3. \A v \in {"request", "prompt"} : v # w => saves[v].stage = "none"
    BY <1>0, <2>1, <2>2 DEF ServedKeeps
  <2>4. /\ DOMAIN saves' = {"request", "prompt"} /\ saves'[w].content = live
        /\ \A v \in {"request", "prompt"} : v # w => saves'[v].stage = "none"
    BY <1>0, <2>1, <2>3
  <2>5. Keeps(told'[served], Lost(served)', live') /\ AnswerKept'
    BY <1>k, <1>s, <2>1, <2>2 DEF AnswerKept
  <2> QED BY <2>1, <2>4, <2>5 DEF ServedKeeps, AnswerKept
<1>18. CASE Initialize \/ Authenticate \/ ReplayEnds \/ UNCHANGED vars
  <2>1. UNCHANGED <<served, saves, live, told, struck, crossed, prompt>>
    BY <1>18 DEF Initialize, Authenticate, ReplayEnds, vars
  <2> QED BY <2>1 DEF ServedKeeps, Lost
<1>19. CASE Cancel \/ Announced \/ Slept
  <2>1. ~Finish
    <3>1. CASE Announced \/ Slept
      BY <3>1 DEF Announced, Slept, Finish, At
    <3>2. CASE Cancel /\ Finish
      <4>1. moves' = moves + 1 /\ moves' = moves
        BY <3>2 DEF Cancel, Move, Finish
      <4> QED BY <4>1
    <3> QED BY <1>19, <3>1, <3>2
  <2> QED BY <1>1, <1>19, <2>1 DEF Cancel, Announced, Slept
<1>20. CASE Strike \/ Call \/ Permission \/ Use \/ EndTool \/ PlanProgress
  <2>1. ~Finish
    BY <1>20 DEF Strike, Call, Permission, Use, EndTool, PlanProgress, Finish, At
  <2> QED BY <1>1, <1>20, <2>1 DEF Strike, Call, Permission, Use, EndTool, PlanProgress
<1>21. CASE \E a \in Actions, f \in Faults \cup {"none"} : Prompt(a, f)
  <2>1. ~Finish
    BY <1>21 DEF Prompt, Finish, At
  <2> QED BY <1>1, <1>21, <2>1 DEF Prompt
<1> QED
  BY <1>0, <1>2, <1>3, <1>4, <1>5, <1>6, <1>7, <1>8, <1>9, <1>10, <1>11, <1>12, <1>13,
     <1>14, <1>15, <1>16, <1>17, <1>18, <1>19, <1>20, <1>21
  DEF Next, StoreStep, PromptStep, Kill, Crash

-----------------------------------------------------------------------------
(* The initial state satisfies what is added for the store.                *)
LEMMA StoreStarts == Init => QueueOk /\ FilesKeep /\ ServedKeeps
BY IdlePrompt DEF Init, QueueOk, FilesKeep, ServedKeeps, NoFile, Untold

(* Every step keeps the inductive invariant of the store.                  *)
LEMMA StoreSteps ==
  ASSUME WholeWrites
  PROVE  StoreInv /\ [Next]_vars => StoreInv'
BY SimulatorSteps, StepQueue, StepFiles, StepServedKeeps DEF StoreInv

(* The inductive invariant of the store: the session served and every file *)
(* keep what the client was told, unless two saves of the session          *)
(* overlapped. The file is written whole (WholeWrites): a process killed   *)
(* in writeFile leaves a torn file otherwise, which a later session/load   *)
(* fails to parse.                                                         *)
THEOREM StoreInvariance ==
  ASSUME WholeWrites
  PROVE  Spec => []StoreInv
<1>1. Init => StoreInv
  BY SimulatorStarts, StoreStarts DEF StoreInv
<1> QED BY <1>1, StoreSteps, PTL DEF Spec

(* What a client was answered about a session is in its file, through      *)
(* crashes, reloads and faults: the turns, the mode, the rules, the faults *)
(* to come (simulator-agent.ts, persistSession awaited before each         *)
(* answer). It assumes whole writes.                                       *)
THEOREM AnsweredIsStoredHolds ==
  ASSUME WholeWrites
  PROVE  Spec => []AnsweredIsStored
<1>1. StoreInv => AnsweredIsStored
  <2> SUFFICES ASSUME StoreInv, NEW s \in Sessions, told[s].born, ~told[s].closed,
                      s \notin crossed
               PROVE  /\ file[s].state = "whole"
                      /\ told[s].turns <= file[s].session.turns
                      /\ file[s].session.mode \in told[s].modes
                      /\ \A t \in Tools : file[s].session.rules[t] \in told[s].rules[t]
                      /\ {f \in told[s].faults : <<s, f>> \notin struck}
                           \subseteq ToSet(file[s].session.faults)
    BY DEF AnsweredIsStored
  <2>1. file[s].state = "whole" /\ Keeps(told[s], Lost(s), file[s].session)
    BY DEF StoreInv, FilesKeep
  <2> QED BY <2>1 DEF Keeps, Lost
<1> QED BY <1>1, StoreInvariance, PTL

-----------------------------------------------------------------------------
(* A sequence with one more element at its end.                            *)
LEMMA OneMore ==
  ASSUME NEW S, NEW a \in Seq(S), NEW b \in Seq(S), Len(b) = 1
  PROVE  /\ a \o b \in Seq(S) /\ Len(a) \in Nat /\ Len(a \o b) = Len(a) + 1
         /\ \A i \in 1..Len(a) : (a \o b)[i] = a[i]
         /\ (a \o b)[Len(a) + 1] = b[1]
<1>1. Len(a) \in Nat
  OBVIOUS
<1>2. /\ a \o b \in Seq(S) /\ Len(a \o b) = Len(a) + Len(b)
      /\ \A i \in 1 .. Len(a) + Len(b) :
           (a \o b)[i] = IF i <= Len(a) THEN a[i] ELSE b[i - Len(a)]
  BY ConcatProperties
<1>3. (a \o b)[Len(a) + 1] = b[1]
  BY <1>1, <1>2
<1> QED BY <1>1, <1>2, <1>3

(* Two elements put together.                                              *)
LEMMA PairOf ==
  ASSUME NEW S, NEW x \in S, NEW y \in S
  PROVE  <<x>> \o <<y>> = <<x, y>>
<1> DEFINE a == <<x>>
           b == <<y>>
           c == <<x, y>>
<1>1. a \in Seq(S) /\ Len(a) = 1 /\ a[1] = x /\ b \in Seq(S) /\ Len(b) = 1 /\ b[1] = y
  OBVIOUS
<1>2. c \in Seq(S) /\ Len(c) = 2 /\ c[1] = x /\ c[2] = y
  OBVIOUS
<1> HIDE DEF a, b, c
<1>3. /\ a \o b \in Seq(S) /\ Len(a \o b) = Len(a) + 1 /\ (a \o b)[Len(a) + 1] = b[1]
      /\ \A i \in 1..Len(a) : (a \o b)[i] = a[i]
  <2>1. a \in Seq(S) /\ b \in Seq(S) /\ Len(b) = 1
    BY <1>1
  <2> QED BY <2>1, OneMore
<1>4. \A i \in 1..2 : i = 1 \/ i = 2
  OBVIOUS
<1>5. \A i \in 1..Len(a \o b) : (a \o b)[i] = c[i]
  BY <1>1, <1>2, <1>3, <1>4
<1>6. a \o b = c
  BY <1>1, <1>2, <1>3, <1>5, SeqEqual
<1> QED BY <1>6 DEF a, b, c

(* A third element after two.                                              *)
LEMMA TripleOf ==
  ASSUME NEW S, NEW x \in S, NEW y \in S, NEW z \in S
  PROVE  <<x, y>> \o <<z>> = <<x, y, z>>
<1> DEFINE a == <<x, y>>
           b == <<z>>
           c == <<x, y, z>>
<1>1. /\ a \in Seq(S) /\ Len(a) = 2 /\ a[1] = x /\ a[2] = y
      /\ b \in Seq(S) /\ Len(b) = 1 /\ b[1] = z
  OBVIOUS
<1>2. c \in Seq(S) /\ Len(c) = 3 /\ c[1] = x /\ c[2] = y /\ c[3] = z
  OBVIOUS
<1> HIDE DEF a, b, c
<1>3. /\ a \o b \in Seq(S) /\ Len(a \o b) = Len(a) + 1 /\ (a \o b)[Len(a) + 1] = b[1]
      /\ \A i \in 1..Len(a) : (a \o b)[i] = a[i]
  <2>1. a \in Seq(S) /\ b \in Seq(S) /\ Len(b) = 1
    BY <1>1
  <2> QED BY <2>1, OneMore
<1>4. \A i \in 1..3 : i = 1 \/ i = 2 \/ i = 3
  OBVIOUS
<1>5. \A i \in 1..Len(a \o b) : (a \o b)[i] = c[i]
  BY <1>1, <1>2, <1>3, <1>4
<1>6. a \o b = c
  BY <1>1, <1>2, <1>3, <1>5, SeqEqual
<1> QED BY <1>6 DEF a, b, c

(* The two lives of a tool, update by update, are regular.                 *)
LEMMA RegularLives ==
  /\ Regular(<<>>) /\ Regular(<<"pending">>)
  /\ <<"pending">> \o <<"in_progress">> = <<"pending", "in_progress">>
  /\ Regular(<<"pending", "in_progress">>)
  /\ Regular(<<"pending", "in_progress">> \o <<"completed">>)
  /\ Regular(<<"pending">> \o <<"failed">>)
<1>1. /\ "pending" \in Statuses /\ "in_progress" \in Statuses /\ "failed" \in Statuses
      /\ "completed" \in Statuses
  BY DEF Statuses
<1>2. /\ <<"pending">> \o <<"in_progress">> = <<"pending", "in_progress">>
      /\ <<"pending">> \o <<"failed">> = <<"pending", "failed">>
      /\ <<"pending", "in_progress">> \o <<"completed">>
           = <<"pending", "in_progress", "completed">>
  BY <1>1, PairOf, TripleOf
<1>3. /\ Regular(<<>>) /\ Regular(<<"pending">>) /\ Regular(<<"pending", "in_progress">>)
      /\ Regular(<<"pending", "in_progress", "completed">>)
      /\ Regular(<<"pending", "failed">>)
  BY DEF Regular, IsPrefix
<1> QED BY <1>2, <1>3
-----------------------------------------------------------------------------
(* Scripts in the order of their plans and of a tool's steps.  A part of   *)
(* one has its plans above lo and up to hi, begins with no later step of a *)
(* tool, and takes a fault after nothing but a title.                      *)
Span(a, lo, hi) ==
  /\ a \in Seq(ScriptStep) /\ lo \in Nat /\ hi \in Nat /\ lo <= hi
  /\ Laid(a)
  /\ \A i \in 1..Len(a) : a[i].at # 0 => lo < a[i].at /\ a[i].at <= hi
  /\ Len(a) >= 1 => a[1].do \notin DOMAIN Precedes

Unarmed(a) == \A i \in 1..Len(a) : a[i].do # "arm"

(* A part followed by one that takes no fault is a part.                   *)
LEMMA SpanConcat ==
  ASSUME NEW a, NEW b, NEW lo, NEW mid, NEW hi,
         Span(a, lo, mid), Span(b, mid, hi), Unarmed(b)
  PROVE  Span(a \o b, lo, hi) /\ (Unarmed(a) => Unarmed(a \o b))
<1> DEFINE c == a \o b
<1>1. /\ a \in Seq(ScriptStep) /\ b \in Seq(ScriptStep) /\ c \in Seq(ScriptStep)
      /\ lo \in Nat /\ mid \in Nat /\ hi \in Nat /\ lo <= mid /\ mid <= hi
      /\ Laid(a) /\ Laid(b)
  BY ConcatProperties DEF Span
<1>2. /\ Len(a) \in Nat /\ Len(b) \in Nat /\ Len(c) = Len(a) + Len(b)
      /\ \A i \in 1..Len(a) : c[i] = a[i]
      /\ \A i \in 1..Len(b) : c[i + Len(a)] = b[i]
  BY <1>1, ConcatProperties
<1>t. /\ \A i \in 1..Len(a) : a[i] \in ScriptStep /\ a[i].at \in Nat
      /\ \A i \in 1..Len(b) : b[i] \in ScriptStep /\ b[i].at \in Nat
  <2>1. \A st \in ScriptStep : st.at \in Nat
    BY DEF ScriptStep
  <2>2. /\ \A i \in 1..Len(a) : a[i] \in ScriptStep
        /\ \A i \in 1..Len(b) : b[i] \in ScriptStep
    BY <1>1
  <2> QED BY <2>1, <2>2
<1> HIDE DEF c
<1>3. ASSUME NEW j \in 1..Len(c)
      PROVE  \/ j \in 1..Len(a) /\ c[j] = a[j]
             \/ \E i \in 1..Len(b) : j = i + Len(a) /\ c[j] = b[i]
  <2>1. CASE j > Len(a)
    <3>1. j - Len(a) \in 1..Len(b) /\ j = (j - Len(a)) + Len(a)
      BY <1>2, <2>1
    <3>2. c[(j - Len(a)) + Len(a)] = b[j - Len(a)]
      BY <1>2, <3>1
    <3> QED BY <3>1, <3>2
  <2> QED BY <1>2, <2>1
<1>4. \A j \in 1..Len(c) : c[j].at # 0 => lo < c[j].at /\ c[j].at <= hi
  <2> TAKE j \in 1..Len(c)
  <2>1. CASE j \in 1..Len(a) /\ c[j] = a[j]
    BY <1>1, <1>t, <2>1 DEF Span
  <2>2. CASE \E i \in 1..Len(b) : j = i + Len(a) /\ c[j] = b[i]
    <3>1. PICK i \in 1..Len(b) : c[j] = b[i]
      BY <2>2
    <3>2. b[i].at # 0 => mid < b[i].at /\ b[i].at <= hi
      BY DEF Span
    <3> QED BY <1>1, <1>t, <3>1, <3>2
  <2> QED BY <1>3, <2>1, <2>2
<1>5. ASSUME NEW i \in 1..Len(c), NEW j \in 1..Len(c), i < j
      PROVE  /\ c[i].at # 0 /\ c[j].at # 0 => c[i].at < c[j].at
             /\ c[j].do = "arm" => c[i].do = "title"
  <2>1. CASE j \in 1..Len(a)
    <3>1. i \in 1..Len(a) /\ c[i] = a[i] /\ c[j] = a[j]
      BY <1>2, <1>5, <2>1
    <3> QED BY <1>1, <1>5, <2>1, <3>1 DEF Laid
  <2>2. CASE j \notin 1..Len(a)
    <3>1. PICK m \in 1..Len(b) : j = m + Len(a) /\ c[j] = b[m]
      BY <1>3, <2>2
    <3>2. b[m].do # "arm" /\ (b[m].at # 0 => mid < b[m].at)
      BY DEF Unarmed, Span
    <3>3. CASE i \in 1..Len(a) /\ c[i] = a[i]
      <4>1. a[i].at # 0 => a[i].at <= mid
        BY <3>3 DEF Span
      <4> QED BY <1>1, <1>t, <3>1, <3>2, <3>3, <4>1
    <3>4. CASE \E k \in 1..Len(b) : i = k + Len(a) /\ c[i] = b[k]
      <4>1. PICK k \in 1..Len(b) : i = k + Len(a) /\ c[i] = b[k]
        BY <3>4
      <4>2. k < m
        BY <1>2, <1>5, <3>1, <4>1
      <4> QED BY <1>1, <3>1, <4>1, <4>2 DEF Laid
    <3> QED BY <1>3, <3>3, <3>4
  <2> QED BY <2>1, <2>2
<1>6. ASSUME NEW i \in 1..(Len(c) - 1), c[i + 1].do \in DOMAIN Precedes
      PROVE  c[i].do = Precedes[c[i + 1].do]
  <2>0. i \in 1..Len(c) /\ i + 1 \in 1..Len(c)
    BY <1>2
  <2>1. CASE i + 1 \in 1..Len(a)
    <3>1. i \in 1..(Len(a) - 1) /\ c[i] = a[i] /\ c[i + 1] = a[i + 1]
      BY <1>2, <2>1
    <3> QED BY <1>1, <1>6, <3>1 DEF Laid
  <2>2. CASE i + 1 \notin 1..Len(a)
    <3>1. PICK m \in 1..Len(b) : i + 1 = m + Len(a) /\ c[i + 1] = b[m]
      BY <1>3, <2>0, <2>2
    <3>2. m # 1
      <4>1. b[m].do \in DOMAIN Precedes
        BY <1>6, <3>1
      <4>2. Len(b) >= 1 => b[1].do \notin DOMAIN Precedes
        BY DEF Span
      <4> QED BY <1>2, <4>1, <4>2
    <3>3. /\ m - 1 \in 1..(Len(b) - 1) /\ m - 1 \in 1..Len(b) /\ (m - 1) + 1 = m
          /\ i = (m - 1) + Len(a)
      BY <1>2, <3>1, <3>2
    <3>4. c[i] = b[m - 1]
      BY <1>2, <3>3
    <3>5. b[m].do \in DOMAIN Precedes => b[m - 1].do = Precedes[b[m].do]
      BY <1>1, <3>3 DEF Laid
    <3> QED BY <1>6, <3>1, <3>4, <3>5
  <2> QED BY <2>1, <2>2
<1>7. Laid(c)
  BY <1>5, <1>6 DEF Laid
<1>8. Len(c) >= 1 => c[1].do \notin DOMAIN Precedes
  <2> SUFFICES ASSUME Len(c) >= 1 PROVE c[1].do \notin DOMAIN Precedes
    OBVIOUS
  <2>1. CASE Len(a) >= 1
    BY <1>2, <2>1 DEF Span
  <2>2. CASE Len(a) = 0
    <3>1. 1 \in 1..Len(b) /\ 1 + Len(a) = 1
      BY <1>2, <2>2
    <3>2. c[1 + Len(a)] = b[1]
      BY <1>2, <3>1
    <3> QED BY <3>1, <3>2 DEF Span
  <2> QED BY <1>2, <2>1, <2>2
<1>9. Unarmed(a) => Unarmed(c)
  BY <1>3 DEF Unarmed
<1> QED BY <1>1, <1>4, <1>7, <1>8, <1>9 DEF Span, c

(* One step that begins no tool is a part.                                 *)
LEMMA SpanStep ==
  ASSUME NEW st \in ScriptStep, st.do \notin {"permission", "use", "end"},
         NEW lo \in Nat, NEW hi \in Nat, lo <= hi,
         st.at # 0 => lo < st.at /\ st.at <= hi
  PROVE  Span(<<st>>, lo, hi) /\ (st.do # "arm" => Unarmed(<<st>>))
BY DEF Span, Unarmed, Laid, Precedes

(* A part is one with plans up to any higher bound.                        *)
LEMMA SpanWider ==
  ASSUME NEW a, NEW lo, NEW mid, NEW hi \in Nat, Span(a, lo, mid), mid <= hi
  PROVE  Span(a, lo, hi)
<1>1. /\ a \in Seq(ScriptStep) /\ lo \in Nat /\ mid \in Nat /\ lo <= mid /\ Laid(a)
      /\ \A i \in 1..Len(a) : a[i].at # 0 => lo < a[i].at /\ a[i].at <= mid
      /\ Len(a) >= 1 => a[1].do \notin DOMAIN Precedes
  BY DEF Span
<1>2. \A i \in 1..Len(a) : a[i].at \in Nat
  <2>1. \A st \in ScriptStep : st.at \in Nat
    BY DEF ScriptStep
  <2> QED BY <1>1, <2>1
<1>3. \A i \in 1..Len(a) : a[i].at # 0 => lo < a[i].at /\ a[i].at <= hi
  BY <1>1, <1>2
<1> QED BY <1>1, <1>3 DEF Span

(* No steps are a part.                                                    *)
LEMMA SpanNothing ==
  ASSUME NEW lo \in Nat, NEW hi \in Nat, lo <= hi
  PROVE  Span(<<>>, lo, hi) /\ Unarmed(<<>>)
BY DEF Span, Unarmed, Laid

(* The four steps of a tool are a part without plans.                      *)
LEMMA SpanTool ==
  ASSUME NEW tool \in Tools, NEW lo \in Nat
  PROVE  Span(UseTool(tool), lo, lo) /\ Unarmed(UseTool(tool))
<1>1. UseTool(tool) = <<[do |-> "call", tool |-> tool, at |-> 0],
                        [do |-> "permission", tool |-> tool, at |-> 0],
                        [do |-> "use", tool |-> tool, at |-> 0],
                        [do |-> "end", tool |-> tool, at |-> 0]>>
  BY DEF UseTool, Step
<1>2. UseTool(tool) \in Seq(ScriptStep)
  BY <1>1 DEF ScriptStep, Dos, Tools
<1>3. Laid(UseTool(tool))
  BY <1>1 DEF Laid, Precedes
<1>4. \A i \in 1..Len(UseTool(tool)) : UseTool(tool)[i].at = 0 /\ UseTool(tool)[i].do # "arm"
  BY <1>1
<1>5. Len(UseTool(tool)) >= 1 => UseTool(tool)[1].do \notin DOMAIN Precedes
  BY <1>1 DEF Precedes
<1> QED BY <1>2, <1>3, <1>4, <1>5 DEF Span, Unarmed

(* What Prompt puts together keeps plans and tools in order.               *)
LEMMA ScriptLaid ==
  ASSUME NEW action \in Actions, NEW todo,
         todo = Opening(action) \o <<Step("strike", "none")>> \o Script(action)
                  \o Closing(action)
  PROVE  Laid(todo) /\ (Len(todo) >= 1 => todo[1].do \notin DOMAIN Precedes)
<1>1. ASSUME NEW do \in Dos \ {"permission", "use", "end"}, NEW lo \in Nat, NEW hi \in Nat,
             lo <= hi, NEW i \in Nat, i # 0 => lo < i /\ i <= hi
      PROVE  Span(Plan(do, i), lo, hi) /\ (do # "arm" => Unarmed(Plan(do, i)))
  <2>1. Plan(do, i) = <<[do |-> do, tool |-> "none", at |-> i]>>
    BY DEF Plan, Step
  <2> DEFINE st == [do |-> do, tool |-> "none", at |-> i]
  <2>2. st \in ScriptStep /\ st.do = do /\ st.at = i
    BY DEF ScriptStep
  <2> HIDE DEF st
  <2>3. Span(<<st>>, lo, hi) /\ (do # "arm" => Unarmed(<<st>>))
    BY <1>1, <2>2, SpanStep
  <2> QED BY <2>1, <2>3 DEF st
<1>2. ASSUME NEW do \in Dos \ {"permission", "use", "end"}, NEW lo \in Nat
      PROVE  Span(<<Step(do, "none")>>, lo, lo) /\ (do # "arm" => Unarmed(<<Step(do, "none")>>))
  <2>1. Step(do, "none") \in ScriptStep /\ Step(do, "none").do = do /\ Step(do, "none").at = 0
    BY DEF Step, ScriptStep
  <2> QED BY <2>1, SpanStep
<1>3. Span(Opening(action), 0, 1)
  <2>1. Span(Plan("arm", IF action \in {"plan", "scenario"} THEN 1 ELSE 0), 0, 1)
    BY <1>1 DEF Dos
  <2>2. CASE action # "rename"
    <3> DEFINE n == IF action \in {"plan", "scenario"} THEN 1 ELSE 0
               x == [do |-> "title", tool |-> "none", at |-> 0]
               y == [do |-> "arm", tool |-> "none", at |-> n]
    <3>1. Plan("arm", n) = <<y>> /\ Step("title", "none") = x
      BY DEF Plan, Step
    <3>2. Opening(action) = <<Step("title", "none")>> \o Plan("arm", n)
      BY <2>2 DEF Opening
    <3>3. /\ x \in ScriptStep /\ x.do = "title" /\ x.tool = "none" /\ x.at = 0
          /\ y \in ScriptStep /\ y.do = "arm" /\ y.tool = "none" /\ y.at \in {0, 1}
      BY DEF ScriptStep, Dos
    <3> HIDE DEF x, y, n
    <3>4. Opening(action) = <<x, y>>
      BY <3>1, <3>2, <3>3, PairOf
    <3>5. /\ Opening(action) \in Seq(ScriptStep) /\ Len(Opening(action)) = 2
          /\ Opening(action)[1] = x /\ Opening(action)[2] = y
      BY <3>3, <3>4
    <3> QED BY <3>3, <3>5 DEF Span, Laid, Precedes
  <2>3. CASE action = "rename"
    <3>1. Opening(action) = <<>> \o Plan("arm", IF action \in {"plan", "scenario"} THEN 1 ELSE 0)
      BY <2>3 DEF Opening
    <3>2. Plan("arm", IF action \in {"plan", "scenario"} THEN 1 ELSE 0) \in Seq(ScriptStep)
      BY <2>1 DEF Span
    <3>3. \A s \in Seq(ScriptStep) : <<>> \o s = s
      OBVIOUS
    <3> QED BY <2>1, <3>1, <3>2, <3>3
  <2> QED BY <2>2, <2>3
<1>4. Span(Script(action), 1, 4) /\ Unarmed(Script(action))
  <2>1. CASE action \in {"describe", "plan"}
    <3>1. Script(action) = <<>>
      BY <2>1 DEF Script, Tools
    <3> QED BY <3>1, SpanNothing
  <2>2. CASE action \in Tools
    <3>1. Script(action) = UseTool(action)
      BY <2>2 DEF Script, Tools
    <3>2. Span(UseTool(action), 1, 1) /\ Unarmed(UseTool(action))
      BY <2>2, SpanTool
    <3> QED BY <3>1, <3>2, SpanWider
  <2>3. CASE action \in {"rename", "simulate"}
    <3>1. PICK do \in {"rename", "queue"} : Script(action) = <<Step(do, "none")>>
      BY <2>3 DEF Script, Tools
    <3>2. Span(<<Step(do, "none")>>, 1, 1) /\ Unarmed(<<Step(do, "none")>>)
      BY <1>2 DEF Dos
    <3> QED BY <3>1, <3>2, SpanWider
  <2>5. CASE action = "scenario"
    <3>1. \A tool \in {"read", "run", "write"}, lo \in Nat :
            Span(UseTool(tool), lo, lo) /\ Unarmed(UseTool(tool))
      BY SpanTool DEF Tools
    <3>2. /\ Span(Plan("plan", 2), 1, 2) /\ Unarmed(Plan("plan", 2))
          /\ Span(Plan("plan", 3), 2, 3) /\ Unarmed(Plan("plan", 3))
          /\ Span(Plan("plan", 4), 3, 4) /\ Unarmed(Plan("plan", 4))
      BY <1>1 DEF Dos
    <3> DEFINE a == UseTool("read")
               b == a \o Plan("plan", 2)
               c == b \o UseTool("run")
               d == c \o Plan("plan", 3)
               e == d \o UseTool("write")
    <3>3. Span(a, 1, 1) /\ Unarmed(a)
      BY <3>1
    <3>4. Span(b, 1, 2) /\ Unarmed(b)
      BY <3>2, <3>3, SpanConcat
    <3>5. Span(c, 1, 2) /\ Unarmed(c)
      BY <3>1, <3>4, SpanConcat
    <3>6. Span(d, 1, 3) /\ Unarmed(d)
      BY <3>2, <3>5, SpanConcat
    <3>7. Span(e, 1, 3) /\ Unarmed(e)
      BY <3>1, <3>6, SpanConcat
    <3>8. Script(action) = e \o Plan("plan", 4)
      BY <2>5 DEF Script, Tools
    <3> HIDE DEF e
    <3>9. Span(e \o Plan("plan", 4), 1, 4) /\ Unarmed(e \o Plan("plan", 4))
      BY <3>2, <3>7, SpanConcat
    <3> QED BY <3>8, <3>9
  <2> QED BY <2>1, <2>2, <2>3, <2>5, SimulatorAssumption DEF Tools
<1>5. Span(<<Step("strike", "none")>>, 1, 1) /\ Unarmed(<<Step("strike", "none")>>)
  BY <1>2 DEF Dos
<1>6. Span(Opening(action) \o <<Step("strike", "none")>>, 0, 1)
  BY <1>3, <1>5, SpanConcat
<1>7. Span(Opening(action) \o <<Step("strike", "none")>> \o Script(action), 0, 4)
  BY <1>4, <1>6, SpanConcat
<1>8. Span(Closing(action), 4, 5) /\ Unarmed(Closing(action))
  BY <1>1 DEF Closing, Dos
<1> DEFINE z == Opening(action) \o <<Step("strike", "none")>> \o Script(action)
<1>9. Span(z, 0, 4) /\ todo = z \o Closing(action)
  BY <1>7
<1> HIDE DEF z
<1>10. Span(z \o Closing(action), 0, 5)
  BY <1>8, <1>9, SpanConcat
<1> QED BY <1>9, <1>10 DEF Span
-----------------------------------------------------------------------------
(* What is left of a script keeps its plans and tools in order.            *)
LEMMA LaidLeft ==
  ASSUME NEW a \in Seq(ScriptStep), NEW b, NEW n, LeftOf(b, a, n), Laid(a)
  PROVE  /\ Laid(b)
         /\ (\E i \in 1..Len(b) : b[i].do = "arm") => \E i \in 1..Len(a) : a[i].do = "arm"
<1>1. n \in Nat /\ Len(a) \in Nat /\ Len(b) = Len(a) - n /\ n <= Len(a)
  BY DEF LeftOf
<1>2. \A i \in 1..Len(b) : i + n \in 1..Len(a) /\ b[i] = a[i + n]
  BY <1>1 DEF LeftOf
<1>3. ASSUME NEW i \in 1..Len(b), NEW j \in 1..Len(b), i < j
      PROVE  /\ b[i].at # 0 /\ b[j].at # 0 => b[i].at < b[j].at
             /\ b[j].do = "arm" => b[i].do = "title"
  <2>1. i + n < j + n
    BY <1>1, <1>3
  <2> QED BY <1>2, <2>1 DEF Laid
<1>4. ASSUME NEW i \in 1..(Len(b) - 1), b[i + 1].do \in DOMAIN Precedes
      PROVE  b[i].do = Precedes[b[i + 1].do]
  <2>1. /\ i \in 1..Len(b) /\ i + 1 \in 1..Len(b) /\ i + n \in 1..(Len(a) - 1)
        /\ (i + 1) + n = (i + n) + 1
    BY <1>1
  <2>2. b[i] = a[i + n] /\ b[i + 1] = a[(i + n) + 1]
    BY <1>2, <2>1
  <2> QED BY <1>4, <2>1, <2>2 DEF Laid
<1>5. Laid(b)
  BY <1>3, <1>4 DEF Laid
<1> QED BY <1>2, <1>5

(* What a prompt has left after n steps begins with a tool's later step    *)
(* only when the last of the n was the one before it.                      *)
LEMMA LeftBegins ==
  ASSUME NEW a \in Seq(ScriptStep), NEW n \in Nat \ {0}, NEW b, LeftOf(b, a, n), Laid(a),
         b # <<>>
  PROVE  /\ n \in 1..Len(a) /\ Head(b) = a[n + 1] /\ Head(b) \in ScriptStep
         /\ Head(b).do \in DOMAIN Precedes => a[n].do = Precedes[Head(b).do]
<1>1. n \in Nat /\ Len(a) \in Nat /\ Len(b) = Len(a) - n /\ n <= Len(a) /\ b \in Seq(ScriptStep)
  BY DEF LeftOf
<1>2. Len(b) >= 1 /\ Head(b) = b[1]
  BY <1>1, NonEmpty
<1>3. n \in 1..(Len(a) - 1) /\ b[1] = a[1 + n] /\ 1 + n = n + 1
  BY <1>1, <1>2 DEF LeftOf
<1>4. Head(b) \in ScriptStep
  BY <1>1, <1>2
<1>5. Head(b).do \in DOMAIN Precedes => a[n].do = Precedes[Head(b).do]
  <2>1. Head(b) = a[n + 1]
    BY <1>2, <1>3
  <2> QED BY <1>3, <2>1 DEF Laid
<1>6. n \in 1..Len(a) /\ Head(b) = a[n + 1]
  BY <1>1, <1>2, <1>3
<1> QED BY <1>4, <1>5, <1>6

(* What the client sees stays in order when the prompt goes on: a plan is  *)
(* sent that was next, or none, and the tool is where the prompt is.       *)
LEMMA SeenGoesOn ==
  ASSUME NEW p \in Prompts, NEW q \in Prompts, NEW n \in Nat, LeftOf(q.todo, p.todo, n),
         SeenInOrder(p), p.wait # "answering", q.flag = "none", Regular(q.tool),
         q.todo # <<>> /\ Head(q.todo).do = "permission" => q.tool = <<"pending">>,
         q.todo # <<>> /\ Head(q.todo).do \in {"use", "end"} =>
           q.tool = <<"pending", "in_progress">>,
         \/ q.plan = p.plan
         \/ \E i \in 1..Len(p.todo) :
              /\ p.todo[i].at # 0
              /\ q.plan = p.plan \o <<p.todo[i].at>>
              /\ q.wait # "answering" =>
                   \A j \in 1..Len(q.todo) : q.todo[j].at # 0 => p.todo[i].at < q.todo[j].at
  PROVE  SeenInOrder(q)
<1>1. /\ p.todo \in Seq(ScriptStep) /\ q.todo \in Seq(ScriptStep)
      /\ p.plan \in Seq(Nat) /\ q.plan \in Seq(Nat)
      /\ Len(p.plan) \in Nat /\ Len(q.todo) \in Nat /\ Len(p.todo) \in Nat
  BY DEF Prompts
<1>2. \A i \in 1..Len(p.todo) : p.todo[i] \in ScriptStep /\ p.todo[i].at \in Nat
  <2>1. \A st \in ScriptStep : st.at \in Nat
    BY DEF ScriptStep
  <2> QED BY <1>1, <2>1
<1>3. \A j \in 1..Len(q.todo) : j + n \in 1..Len(p.todo) /\ q.todo[j] = p.todo[j + n]
  BY <1>1 DEF LeftOf
<1>4. \A i \in 1..Len(p.plan), j \in 1..Len(q.todo) : q.todo[j].at # 0 => p.plan[i] < q.todo[j].at
  BY <1>3 DEF SeenInOrder
<1>5. CASE q.plan = p.plan
  BY <1>4, <1>5 DEF SeenInOrder
<1>6. CASE \E i \in 1..Len(p.todo) :
              /\ p.todo[i].at # 0
              /\ q.plan = p.plan \o <<p.todo[i].at>>
              /\ q.wait # "answering" =>
                   \A j \in 1..Len(q.todo) : q.todo[j].at # 0 => p.todo[i].at < q.todo[j].at
  <2>1. PICK i \in 1..Len(p.todo) :
              /\ p.todo[i].at # 0
              /\ q.plan = p.plan \o <<p.todo[i].at>>
              /\ q.wait # "answering" =>
                   \A j \in 1..Len(q.todo) : q.todo[j].at # 0 => p.todo[i].at < q.todo[j].at
    BY <1>6
  <2> DEFINE b == <<p.todo[i].at>>
  <2>2. b \in Seq(Nat) /\ Len(b) = 1 /\ b[1] = p.todo[i].at
    BY <1>2
  <2>3. q.plan = p.plan \o b
    BY <2>1
  <2> HIDE DEF b
  <2>4. /\ Len(q.plan) = Len(p.plan) + 1 /\ q.plan[Len(p.plan) + 1] = p.todo[i].at
        /\ \A k \in 1..Len(p.plan) : q.plan[k] = p.plan[k]
    BY <1>1, <2>2, <2>3, OneMore
  <2>5. \A k \in 1..Len(p.plan) : p.plan[k] < p.todo[i].at
    BY <2>1 DEF SeenInOrder
  <2>6. ASSUME NEW k \in 1..(Len(q.plan) - 1)
        PROVE  q.plan[k] < q.plan[k + 1]
    <3>1. k \in 1..Len(p.plan) /\ q.plan[k] = p.plan[k]
      BY <1>1, <2>4
    <3>2. CASE k = Len(p.plan)
      BY <2>4, <2>5, <3>1, <3>2
    <3>3. CASE k # Len(p.plan)
      <4>1. k \in 1..(Len(p.plan) - 1) /\ k + 1 \in 1..Len(p.plan)
        BY <1>1, <3>1, <3>3
      <4>2. p.plan[k] < p.plan[k + 1]
        BY <4>1 DEF SeenInOrder
      <4> QED BY <2>4, <3>1, <4>1, <4>2
    <3> QED BY <3>2, <3>3
  <2>7. ASSUME q.wait # "answering", NEW k \in 1..Len(q.plan), NEW j \in 1..Len(q.todo),
               q.todo[j].at # 0
        PROVE  q.plan[k] < q.todo[j].at
    <3>1. CASE k \in 1..Len(p.plan)
      BY <1>4, <2>4, <2>7, <3>1
    <3>2. CASE k = Len(p.plan) + 1
      BY <2>1, <2>4, <2>7, <3>2
    <3> QED BY <1>1, <2>4, <3>1, <3>2
  <2> QED BY <2>6, <2>7 DEF SeenInOrder
<1> QED BY <1>5, <1>6

-----------------------------------------------------------------------------
(* An update of the tool that no fault has to do with is sent as it is.    *)
LEMMA SentSeen ==
  ASSUME NEW p \in Prompts, p.flag = "none", NEW status \in Statuses
  PROVE  /\ Sent(p, status).tool = p.tool \o <<status>>
         /\ Sent(p, status).flag = "none" /\ Sent(p, status).plan = p.plan
<1>1. ToolUpdate(p.flag, status) = <<status>>
  BY DEF ToolUpdate
<1> DEFINE u == p.tool \o ToolUpdate(p.flag, status)
<1>2. u = p.tool \o <<status>>
  BY <1>1
<1> HIDE DEF u
<1>3. Sent(p, status) = [p EXCEPT !.tool = u, !.flag = "none"]
  BY DEF Sent, u, ToolFlags
<1> QED BY <1>2, <1>3 DEF Prompts

(* A plan that no fault has to do with is sent as it is, or none is.       *)
LEMMA SentPlanSeen ==
  ASSUME NEW p \in Prompts, p.flag = "none", NEW i \in Nat
  PROVE  /\ SentPlan(p, i).plan = IF i = 0 THEN p.plan ELSE p.plan \o <<i>>
         /\ SentPlan(p, i).flag = "none" /\ SentPlan(p, i).tool = p.tool
<1> DEFINE u == p.plan \o PlanUpdate(p.flag, i)
<1>1. u = IF i = 0 THEN p.plan ELSE p.plan \o <<i>>
  <2>1. CASE i = 0
    <3>1. PlanUpdate(p.flag, i) = <<>>
      BY <2>1 DEF PlanUpdate
    <3>2. p.plan \in Seq(Nat)
      BY DEF Prompts
    <3> QED BY <2>1, <3>1, <3>2, ConcatEmptySeq
  <2>2. CASE i # 0
    <3>1. PlanUpdate(p.flag, i) = <<i>>
      BY <2>2 DEF PlanUpdate
    <3> QED BY <2>2, <3>1
  <2> QED BY <2>1, <2>2
<1> HIDE DEF u
<1>2. SentPlan(p, i) = [p EXCEPT !.plan = u, !.flag = "none"]
  BY DEF SentPlan, u, PlanFlags
<1> QED BY <1>1, <1>2 DEF Prompts

(* A prompt that has not begun has sent nothing.                           *)
LEMMA IdleSeen == SeenInOrder(Idle) /\ Laid(Idle.todo) /\ Len(Idle.todo) = 0
BY RegularLives DEF SeenInOrder, Idle, Laid

(* The steps of a prompt that goes on keep what follows to be sent in      *)
(* order; what was sent is to be shown for a prompt no fault has struck.   *)
LEMMA RegularGoesOn ==
  ASSUME RegularOk, prompt \in Prompts, Onward(prompt, prompt'),
         prompt'.fault = prompt.fault, prompt.fault = "none" => SeenInOrder(prompt')
  PROVE  RegularOk'
<1>1. PICK n \in Nat : LeftOf(prompt'.todo, prompt.todo, n)
  BY DEF Onward
<1>2. prompt.todo \in Seq(ScriptStep)
  BY DEF Prompts
<1> QED BY <1>1, <1>2, LaidLeft DEF RegularOk

(* A prompt that advances without sending anything.                        *)
LEMMA SeenAdvances ==
  ASSUME NEW p \in Prompts, p.todo # <<>>, SeenInOrder(p), Laid(p.todo), p.wait # "answering",
         NEW q \in Prompts, q.todo = Tail(p.todo), q.flag = p.flag, q.plan = p.plan,
         q.tool = p.tool, Head(p.todo).do \notin {"call", "permission"}
  PROVE  SeenInOrder(q)
<1>1. LeftOf(q.todo, p.todo, 1) /\ Head(p.todo) = p.todo[1] /\ p.todo \in Seq(ScriptStep)
  BY LeftTail, HeadOf DEF Prompts
<1>2. q.todo # <<>> /\ Head(q.todo).do \in DOMAIN Precedes =>
        Head(p.todo).do = Precedes[Head(q.todo).do]
  <2> DEFINE n == 1
  <2>1. n \in Nat \ {0} /\ LeftOf(q.todo, p.todo, n) /\ p.todo[n] = Head(p.todo)
        /\ p.todo \in Seq(ScriptStep)
    BY <1>1
  <2> HIDE DEF n
  <2>2. q.todo # <<>> /\ Head(q.todo).do \in DOMAIN Precedes =>
          p.todo[n].do = Precedes[Head(q.todo).do]
    BY <2>1, LeftBegins
  <2> QED BY <2>1, <2>2
<1>3. /\ ~(q.todo # <<>> /\ Head(q.todo).do \in {"permission", "use"})
      /\ q.todo # <<>> /\ Head(q.todo).do = "end" => q.tool = <<"pending", "in_progress">>
  BY <1>2 DEF Precedes, SeenInOrder
<1>4. q.flag = "none" /\ Regular(q.tool)
  BY DEF SeenInOrder
<1> QED BY <1>1, <1>3, <1>4, SeenGoesOn

(* A prompt that sends its next plan, as the step it makes says.           *)
LEMMA SeenPlan ==
  ASSUME NEW p \in Prompts, p.todo # <<>>, SeenInOrder(p), Laid(p.todo), p.wait # "answering",
         Head(p.todo).do \notin {"call", "permission", "use", "end"}, NEW q \in Prompts,
         \/ q.todo = Tail(p.todo)
         \/ q.todo = p.todo /\ q.wait = "answering",
         q.flag = "none", q.tool = p.tool,
         q.plan = IF Head(p.todo).at = 0 THEN p.plan ELSE p.plan \o <<Head(p.todo).at>>
  PROVE  SeenInOrder(q)
<1>1. /\ Head(p.todo) = p.todo[1] /\ p.todo \in Seq(ScriptStep) /\ Len(p.todo) \in Nat
      /\ 1 \in 1..Len(p.todo)
  BY HeadOf DEF Prompts
<1>2. PICK n \in {0, 1} : LeftOf(q.todo, p.todo, n) /\ (n = 0 => q.todo = p.todo /\ q.wait = "answering")
  BY <1>1, LeftSame, LeftTail
<1>3. ~(q.todo # <<>> /\ Head(q.todo).do \in {"permission", "use", "end"})
  <2>1. CASE n = 0
    BY <1>2, <2>1
  <2>2. CASE n = 1
    <3>1. q.todo # <<>> /\ Head(q.todo).do \in DOMAIN Precedes =>
            Head(p.todo).do = Precedes[Head(q.todo).do]
      BY <1>1, <1>2, <2>2, LeftBegins
    <3> QED BY <3>1 DEF Precedes
  <2> QED BY <2>1, <2>2
<1>4. q.wait # "answering" =>
        \A j \in 1..Len(q.todo) :
          p.todo[1].at # 0 /\ q.todo[j].at # 0 => p.todo[1].at < q.todo[j].at
  <2> SUFFICES ASSUME q.wait # "answering", NEW j \in 1..Len(q.todo), p.todo[1].at # 0,
                      q.todo[j].at # 0
               PROVE  p.todo[1].at < q.todo[j].at
    OBVIOUS
  <2>1. LeftOf(q.todo, p.todo, 1)
    BY <1>2
  <2>3. Len(q.todo) = Len(p.todo) - 1 /\ q.todo[j] = p.todo[j + 1]
    BY <2>1 DEF LeftOf
  <2>2. j + 1 \in 1..Len(p.todo) /\ 1 < j + 1 /\ q.todo[j] = p.todo[j + 1]
    BY <1>1, <2>3
  <2> QED BY <1>1, <2>2 DEF Laid
<1>5. Regular(q.tool)
  BY DEF SeenInOrder
<1>6. \/ q.plan = p.plan
      \/ \E i \in 1..Len(p.todo) :
           /\ p.todo[i].at # 0
           /\ q.plan = p.plan \o <<p.todo[i].at>>
           /\ q.wait # "answering" =>
                \A j \in 1..Len(q.todo) : q.todo[j].at # 0 => p.todo[i].at < q.todo[j].at
  <2>1. CASE p.todo[1].at = 0
    BY <1>1, <2>1
  <2>2. CASE p.todo[1].at # 0
    BY <1>1, <1>4, <2>2
  <2> QED BY <2>1, <2>2
<1>7. n \in Nat /\ LeftOf(q.todo, p.todo, n)
  BY <1>2
<1> QED BY <1>3, <1>5, <1>6, <1>7, SeenGoesOn

(* A tool that is over, with the update that says how it ended, or none.   *)
LEMMA SeenToolOver ==
  ASSUME NEW p \in Prompts, p.todo # <<>>, Ordered(p.todo), SeenInOrder(p), Laid(p.todo),
         p.wait # "answering", Head(p.todo).do \in {"call", "permission", "end"},
         NEW q \in Prompts, q.todo = ToolOver(p).todo, q.flag = "none", q.plan = p.plan,
         Regular(q.tool)
  PROVE  SeenInOrder(q)
<1> DEFINE t == p.todo
<1>1. PICK n \in 1..Len(t) :
        /\ n < Len(t) /\ t[n].do = "end"
        /\ ToolOver(p) = [p EXCEPT !.todo = SubSeq(t, n + 1, Len(t)), !.leave = "none"]
  BY EndAhead
<1>2. t \in Seq(ScriptStep) /\ Len(t) \in Nat /\ n \in 0..Len(t) /\ n \in Nat \ {0}
  BY DEF Prompts
<1>3. LeftOf(SubSeq(t, n + 1, Len(t)), t, n)
  BY <1>2, LeftSub
<1> DEFINE u == SubSeq(t, n + 1, Len(t))
<1> HIDE DEF u
<1>4. ToolOver(p) = [p EXCEPT !.todo = u, !.leave = "none"]
  BY <1>1 DEF u
<1>5. q.todo = u
  BY <1>4 DEF Prompts
<1>6. LeftOf(q.todo, t, n)
  BY <1>3, <1>5 DEF u
<1>7. q.todo # <<>> /\ Head(q.todo).do \in DOMAIN Precedes => t[n].do = Precedes[Head(q.todo).do]
  BY <1>2, <1>6, LeftBegins
<1>8. ~(q.todo # <<>> /\ Head(q.todo).do \in {"permission", "use", "end"})
  BY <1>1, <1>7 DEF Precedes
<1> QED BY <1>2, <1>6, <1>8, SeenGoesOn

(* Every step keeps what a prompt sends in order, unless a fault struck it.*)
LEMMA StepRegular ==
  ASSUME IInv, RegularOk, [Next]_vars
  PROVE  RegularOk'
<1>0. /\ prompt \in Prompts /\ prompt' \in Prompts /\ Ordered(prompt.todo) /\ PromptPart
      /\ Laid(prompt.todo) /\ prompt.todo \in Seq(ScriptStep)
      /\ prompt.wait \in {"asking", "remembering"} =>
           prompt.todo # <<>> /\ Head(prompt.todo).do = "permission"
      /\ prompt.wait \in Struck => prompt.fault # "none"
  <2>1. TypeOK'
    BY StepTyped
  <2> QED BY <2>1 DEF IInv, TypeOK, PromptOk, PromptPart, Running, RegularOk, Prompts
<1>a. \A do : At(do) => /\ prompt.todo # <<>> /\ Head(prompt.todo).do = do
                        /\ prompt.wait = "no"
  BY DEF At, Running
<1>h. prompt.todo # <<>> => /\ Head(prompt.todo) \in ScriptStep
                            /\ Head(prompt.todo) = prompt.todo[1]
                            /\ 1 \in 1..Len(prompt.todo) /\ Head(prompt.todo).at \in Nat
  <2>1. \A st \in ScriptStep : st.at \in Nat
    BY DEF ScriptStep
  <2> QED BY <1>0, <2>1, HeadOf
<1>b. prompt' = Idle => RegularOk'
  <2> SUFFICES ASSUME prompt' = Idle PROVE RegularOk'
    OBVIOUS
  <2>1. SeenInOrder(prompt') /\ Laid(prompt'.todo) /\ Len(prompt'.todo) = 0
    BY IdleSeen
  <2> QED BY <2>1 DEF RegularOk
<1>1. CASE UNCHANGED prompt
  BY <1>1 DEF RegularOk
<1>2. ASSUME NEW a \in Actions, NEW f \in Faults \cup {"none"}, Prompt(a, f)
      PROVE  RegularOk'
  <2> DEFINE t == Opening(a) \o <<Step("strike", "none")>> \o Script(a) \o Closing(a)
  <2>1. Laid(t)
    BY ScriptLaid
  <2> HIDE DEF t
  <2>2. /\ prompt'.todo = t /\ prompt'.fault = "none" /\ prompt'.flag = "none"
        /\ prompt'.tool = <<>> /\ prompt'.plan = <<>> /\ prompt'.wait = "no"
    BY <1>2 DEF Prompt, Idle, t
  <2>3. t # <<>> /\ Head(t) = t[1] /\ Len(t) >= 1
    <3>1. t \in Seq(ScriptStep) /\ t # <<>>
      BY ScriptOrdered DEF t
    <3> QED BY <3>1
  <2>4. Head(t).do \notin DOMAIN Precedes
    <3>1. Len(t) >= 1 => t[1].do \notin DOMAIN Precedes
      BY ScriptLaid DEF t
    <3> QED BY <2>3, <3>1
  <2> QED BY <2>1, <2>2, <2>3, <2>4, RegularLives DEF RegularOk, SeenInOrder, Precedes
<1>o. ASSUME Onward(prompt, prompt'), prompt'.fault = prompt.fault,
             prompt.fault = "none" => SeenInOrder(prompt')
      PROVE  RegularOk'
  BY <1>0, <1>o, RegularGoesOn
<1>s. prompt.fault = "none" => SeenInOrder(prompt)
  BY DEF RegularOk
<1>p. \/ prompt' = Idle
      \/ \E a \in Actions, f \in Faults \cup {"none"} : Prompt(a, f)
      \/ Onward(prompt, prompt')
  BY StepOnward
<1>3. CASE Onward(prompt, prompt')
  <2> USE <1>3
  <2>1. CASE Close \/ Cancel
    <3>1. CASE prompt' = Aborted(prompt) /\ prompt.todo # <<>>
      <4>1. \/ prompt' = [prompt EXCEPT !.aborted = TRUE]
            \/ /\ prompt.wait \in {"sleeping", "hung"}
               /\ prompt' = [prompt EXCEPT !.aborted = TRUE, !.wait = "no",
                                           !.todo = <<Last(prompt.todo)>>]
        BY <1>0, <3>1, AbortedTo
      <4>2. CASE prompt' = [prompt EXCEPT !.aborted = TRUE]
        <5>1. /\ prompt'.fault = prompt.fault /\ prompt'.todo = prompt.todo
              /\ prompt'.flag = prompt.flag /\ prompt'.tool = prompt.tool
              /\ prompt'.plan = prompt.plan /\ prompt'.wait = prompt.wait
          BY <1>0, <4>2 DEF Prompts
        <5> QED BY <1>s, <1>o, <5>1 DEF SeenInOrder
      <4>3. CASE /\ prompt.wait \in {"sleeping", "hung"}
                 /\ prompt' = [prompt EXCEPT !.aborted = TRUE, !.wait = "no",
                                             !.todo = <<Last(prompt.todo)>>]
        <5>1. prompt'.fault = prompt.fault /\ prompt.fault # "none"
          BY <1>0, <4>3 DEF Prompts, Struck
        <5> QED BY <1>o, <5>1
      <4> QED BY <4>1, <4>2, <4>3
    <3> QED BY <1>1, <2>1, <3>1 DEF Close, Cancel, Running
  <2>2. CASE Title \/ Rename \/ Queue
    <3>1. /\ prompt.todo # <<>> /\ prompt.wait = "no"
          /\ Head(prompt.todo).do \in {"title", "rename", "queue"}
          /\ prompt' = Advanced(prompt) \/ prompt' = Saving(Advanced(prompt))
      BY <1>a, <2>2 DEF Title, Rename, Queue
    <3>2. Advanced(prompt) = [prompt EXCEPT !.todo = Tail(prompt.todo)]
      BY DEF Advanced
    <3>3. /\ prompt'.todo = Tail(prompt.todo) /\ prompt'.fault = prompt.fault
          /\ prompt'.flag = prompt.flag /\ prompt'.tool = prompt.tool
          /\ prompt'.plan = prompt.plan
      BY <1>0, <3>1, <3>2, ZenonT(60) DEF Saving, Prompts
    <3>4. ASSUME prompt.fault = "none" PROVE SeenInOrder(prompt')
      BY <1>0, <1>s, <3>1, <3>3, <3>4, SeenAdvances
    <3> QED BY <1>o, <3>3, <3>4
  <2>3. CASE Arm
    <3>1. prompt.todo # <<>> /\ Head(prompt.todo).do = "arm" /\ prompt.wait = "no"
      BY <1>a, <2>3 DEF Arm
    <3>2. PICK f : /\ f \in Faults \cup {"none"}
                   /\ prompt' = SentPlan([Advanced(prompt) EXCEPT !.fault = f, !.flag = f],
                                         Head(prompt.todo).at)
      <4>1. live.faults # <<>> => Head(live.faults) \in Faults
        BY DEF IInv, TypeOK, Session
      <4> QED BY <2>3, <4>1 DEF Arm
    <3> DEFINE a == Advanced(prompt)
               b == [a EXCEPT !.fault = f, !.flag = f]
    <3>3. a \in Prompts /\ a = [prompt EXCEPT !.todo = Tail(prompt.todo)]
      BY <1>0, <3>1, AdvancedTo
    <3>4. /\ a.todo = Tail(prompt.todo) /\ a.tool = prompt.tool /\ a.plan = prompt.plan
      BY <1>0, <3>3 DEF Prompts
    <3>5. prompt' = SentPlan(b, Head(prompt.todo).at)
      BY <3>2
    <3> HIDE DEF a
    <3>6. /\ b \in Prompts /\ b.fault = f /\ b.flag = f /\ b.todo = Tail(prompt.todo)
          /\ b.tool = prompt.tool /\ b.plan = prompt.plan
      BY <3>2, <3>3, <3>4 DEF Prompts
    <3> HIDE DEF b
    <3>7. prompt'.fault = f /\ prompt'.todo = Tail(prompt.todo)
      BY <1>h, <3>1, <3>5, <3>6, SentPlanSame DEF SameButSeen
    <3>8. prompt.fault = "none"
      BY <1>h, <3>1 DEF RegularOk
    <3>9. ASSUME f = "none" PROVE SeenInOrder(prompt')
      <4>1. /\ prompt'.plan = IF Head(prompt.todo).at = 0 THEN prompt.plan
                              ELSE prompt.plan \o <<Head(prompt.todo).at>>
            /\ prompt'.flag = "none" /\ prompt'.tool = prompt.tool
        BY <1>h, <3>1, <3>5, <3>6, <3>9, SentPlanSeen
      <4> QED BY <1>0, <1>s, <3>1, <3>7, <3>8, <4>1, SeenPlan
    <3>10. LeftOf(prompt'.todo, prompt.todo, 1)
      BY <1>0, <3>1, <3>7, LeftTail
    <3>11. \A i \in 1..Len(prompt'.todo) : prompt'.todo[i].do # "arm"
      <4> SUFFICES ASSUME NEW i \in 1..Len(prompt'.todo), prompt'.todo[i].do = "arm"
                   PROVE  FALSE
        OBVIOUS
      <4>1. Len(prompt'.todo) = Len(prompt.todo) - 1 /\ prompt'.todo[i] = prompt.todo[i + 1]
        BY <3>10 DEF LeftOf
      <4>2. Len(prompt.todo) \in Nat
        BY <1>0
      <4>3. i + 1 \in 1..Len(prompt.todo) /\ 1 < i + 1 /\ 1 \in 1..Len(prompt.todo)
        BY <4>1, <4>2
      <4>4. prompt.todo[1].do = "title"
        BY <1>0, <4>1, <4>3 DEF Laid
      <4> QED BY <1>h, <3>1, <4>4
    <3>12. Laid(prompt'.todo)
      BY <1>0, <3>10, LaidLeft
    <3> QED BY <3>7, <3>9, <3>11, <3>12 DEF RegularOk
  <2>4. CASE Strike
    <3>1. prompt.todo # <<>> /\ Head(prompt.todo).do = "strike" /\ prompt.wait = "no"
      BY <1>a, <2>4 DEF Strike
    <3>2. /\ prompt' = Idle \/ prompt'.fault = prompt.fault
          /\ prompt.fault = "none" => prompt' = Idle \/ prompt' = Advanced(prompt)
      <4>1. \/ prompt' = Idle
            \/ /\ prompt.fault \in Announcing
               /\ prompt' = [Advanced(prompt) EXCEPT !.wait = "announcing"]
            \/ prompt.fault = "error" /\ prompt' = Thrown(prompt)
            \/ prompt' = Advanced(prompt)
        BY <2>4 DEF Strike, Over
      <4>2. /\ Advanced(prompt) = [prompt EXCEPT !.todo = Tail(prompt.todo)]
            /\ Thrown(prompt) = [prompt EXCEPT !.todo = <<Last(prompt.todo)>>]
        BY DEF Advanced, Thrown
      <4> DEFINE u == Tail(prompt.todo)
                 v == <<Last(prompt.todo)>>
      <4>3. /\ Advanced(prompt) = [prompt EXCEPT !.todo = u]
            /\ Thrown(prompt) = [prompt EXCEPT !.todo = v]
        BY <4>2
      <4> HIDE DEF u, v
      <4>4. Advanced(prompt).fault = prompt.fault /\ Thrown(prompt).fault = prompt.fault
            /\ [Advanced(prompt) EXCEPT !.wait = "announcing"].fault = prompt.fault
        BY <1>0, <4>3 DEF Prompts
      <4> QED BY <4>1, <4>4 DEF Announcing
    <3>3. ASSUME prompt.fault = "none", prompt' # Idle PROVE SeenInOrder(prompt')
      <4>1. prompt' = Advanced(prompt)
        BY <3>2, <3>3
      <4>2. Advanced(prompt) = [prompt EXCEPT !.todo = Tail(prompt.todo)]
        BY DEF Advanced
      <4>3. /\ prompt'.todo = Tail(prompt.todo)
            /\ prompt'.flag = prompt.flag /\ prompt'.tool = prompt.tool
            /\ prompt'.plan = prompt.plan
        BY <1>0, <4>1, <4>2, ZenonT(60) DEF Prompts
      <4> QED BY <1>0, <1>s, <3>1, <3>3, <4>3, SeenAdvances
    <3> QED BY <1>b, <1>o, <3>2, <3>3
  <2>5. CASE Announced \/ Slept
    <3>1. prompt.fault # "none"
      BY <1>0, <2>5 DEF Announced, Slept, Struck
    <3>2. prompt' = Idle \/ \E w : prompt' = [prompt EXCEPT !.wait = w]
      BY <2>5 DEF Announced, Slept, Over
    <3>3. prompt' = Idle \/ prompt'.fault = prompt.fault
      BY <1>0, <3>2 DEF Prompts
    <3> QED BY <1>b, <1>o, <3>1, <3>3
  <2>6. CASE \/ PromptSaved
             \/ (Permission \/ ClientDecides) /\ \E w \in {"asking", "remembering"} :
                  prompt' = [prompt EXCEPT !.wait = w]
    <3>0. PICK w \in {"no", "asking", "remembering"} : prompt' = [prompt EXCEPT !.wait = w]
      BY <2>6 DEF PromptSaved
    <3>w. prompt.wait # "answering"
      BY <1>a, <2>6 DEF PromptSaved, Permission, ClientDecides
    <3>1. /\ prompt'.fault = prompt.fault /\ prompt'.todo = prompt.todo
          /\ prompt'.flag = prompt.flag /\ prompt'.tool = prompt.tool
          /\ prompt'.plan = prompt.plan
      BY <1>0, <3>0 DEF Prompts
    <3> QED BY <1>s, <1>o, <3>1, <3>w DEF SeenInOrder
  <2>7. CASE Call
    <3>1. prompt.todo # <<>> /\ Head(prompt.todo).do = "call" /\ prompt.wait = "no"
      BY <1>a, <2>7 DEF Call
    <3>2. CASE prompt' = ToolOver(prompt)
      <4>1. ToolOver(prompt) = [prompt EXCEPT !.todo = ToolOver(prompt).todo, !.leave = "none"]
        BY <1>0, <3>1, ToolOverTo
      <4>2. /\ prompt'.fault = prompt.fault /\ prompt'.flag = prompt.flag
            /\ prompt'.tool = prompt.tool /\ prompt'.plan = prompt.plan
        BY <1>0, <3>2, <4>1, ZenonT(60) DEF Prompts
      <4>3. ASSUME prompt.fault = "none" PROVE SeenInOrder(prompt')
        <5>1. SeenInOrder(prompt) /\ prompt'.flag = "none" /\ Regular(prompt'.tool)
          BY <1>s, <4>2, <4>3 DEF SeenInOrder
        <5> QED BY <1>0, <3>1, <3>2, <4>2, <5>1, SeenToolOver
      <4> QED BY <1>o, <4>2, <4>3
    <3>3. CASE prompt' = SentCall(Advanced(prompt))
      <4> DEFINE a == Advanced(prompt)
      <4>1. a \in Prompts /\ a = [prompt EXCEPT !.todo = Tail(prompt.todo)]
        BY <1>0, <3>1, AdvancedTo
      <4>2. /\ a.todo = Tail(prompt.todo) /\ a.fault = prompt.fault /\ a.plan = prompt.plan
            /\ a.flag = prompt.flag
        BY <1>0, <4>1 DEF Prompts
      <4> HIDE DEF a
      <4>3. prompt' = SentCall(a)
        BY <3>3 DEF a
      <4>4. prompt'.fault = prompt.fault /\ prompt'.todo = Tail(prompt.todo)
        BY <4>1, <4>2, <4>3, SentCallSame DEF SameButSeen
      <4>5. ASSUME prompt.fault = "none" PROVE SeenInOrder(prompt')
        <5>1. SeenInOrder(prompt) /\ a.flag = "none"
          BY <1>s, <4>2, <4>5 DEF SeenInOrder
        <5>2. prompt' = [a EXCEPT !.tool = <<"pending">>, !.flag = "none"]
          BY <4>3, <5>1 DEF SentCall, ToolCall
        <5>3. prompt'.tool = <<"pending">> /\ prompt'.flag = "none" /\ prompt'.plan = prompt.plan
          BY <4>1, <4>2, <5>2 DEF Prompts
        <5>4. LeftOf(prompt'.todo, prompt.todo, 1) /\ prompt.todo[1] = Head(prompt.todo)
          BY <1>0, <1>h, <3>1, <4>4, LeftTail
        <5>5. prompt'.todo # <<>> /\ Head(prompt'.todo).do \in DOMAIN Precedes =>
                Head(prompt.todo).do = Precedes[Head(prompt'.todo).do]
          <6> DEFINE n == 1
          <6>1. n \in Nat \ {0} /\ LeftOf(prompt'.todo, prompt.todo, n)
                /\ prompt.todo[n] = Head(prompt.todo)
            BY <5>4
          <6> HIDE DEF n
          <6>2. prompt'.todo # <<>> /\ Head(prompt'.todo).do \in DOMAIN Precedes =>
                  prompt.todo[n].do = Precedes[Head(prompt'.todo).do]
            BY <1>0, <6>1, LeftBegins
          <6> QED BY <6>1, <6>2
        <5>6. ~(prompt'.todo # <<>> /\ Head(prompt'.todo).do \in {"use", "end"})
          BY <3>1, <5>5 DEF Precedes
        <5> QED BY <1>0, <3>1, <5>1, <5>3, <5>4, <5>6, RegularLives, SeenGoesOn
      <4> QED BY <1>o, <4>4, <4>5
    <3> QED BY <2>7, <3>2, <3>3 DEF Call
  <2>8. ASSUME NEW how, Allowed(how), prompt.todo # <<>>, Head(prompt.todo).do = "permission",
               prompt.wait # "answering"
        PROVE  RegularOk'
    <3> DEFINE a == Advanced(prompt)
               b == Sent(a, "in_progress")
    <3>1. a \in Prompts /\ a = [prompt EXCEPT !.todo = Tail(prompt.todo)]
      BY <1>0, <2>8, AdvancedTo
    <3>2. /\ a.todo = Tail(prompt.todo) /\ a.fault = prompt.fault /\ a.plan = prompt.plan
          /\ a.flag = prompt.flag /\ a.tool = prompt.tool
      BY <1>0, <3>1 DEF Prompts
    <3>3. prompt' = [b EXCEPT !.leave = how, !.wait = "no"]
      BY <2>8 DEF Allowed
    <3> HIDE DEF a
    <3>4. SameButSeen(a, b)
      BY <3>1, SentSame DEF Statuses
    <3>5. ASSUME a.flag = "none"
          PROVE  b.tool = a.tool \o <<"in_progress">> /\ b.flag = "none" /\ b.plan = a.plan
      BY <3>1, <3>5, SentSeen DEF Statuses
    <3> HIDE DEF b
    <3>6. /\ prompt'.fault = b.fault /\ prompt'.todo = b.todo /\ prompt'.tool = b.tool
          /\ prompt'.flag = b.flag /\ prompt'.plan = b.plan
      BY <3>3, <3>4, ZenonT(60) DEF SameButSeen, Prompts
    <3>7. prompt'.fault = prompt.fault /\ prompt'.todo = Tail(prompt.todo)
      BY <3>2, <3>4, <3>6 DEF SameButSeen
    <3>8. ASSUME prompt.fault = "none" PROVE SeenInOrder(prompt')
      <4>1. SeenInOrder(prompt) /\ prompt.tool = <<"pending">> /\ a.flag = "none"
        BY <1>s, <2>8, <3>2, <3>8 DEF SeenInOrder
      <4>2. /\ prompt'.tool = <<"pending", "in_progress">> /\ prompt'.flag = "none"
            /\ prompt'.plan = prompt.plan
        BY <3>2, <3>5, <3>6, <4>1, RegularLives
      <4>3. LeftOf(prompt'.todo, prompt.todo, 1) /\ prompt.todo[1] = Head(prompt.todo)
        BY <1>0, <1>h, <2>8, <3>7, LeftTail
      <4>4. prompt'.todo # <<>> /\ Head(prompt'.todo).do \in DOMAIN Precedes =>
              Head(prompt.todo).do = Precedes[Head(prompt'.todo).do]
        <6> DEFINE n == 1
        <6>1. n \in Nat \ {0} /\ LeftOf(prompt'.todo, prompt.todo, n)
              /\ prompt.todo[n] = Head(prompt.todo)
          BY <4>3
        <6> HIDE DEF n
        <6>2. prompt'.todo # <<>> /\ Head(prompt'.todo).do \in DOMAIN Precedes =>
                prompt.todo[n].do = Precedes[Head(prompt'.todo).do]
          BY <1>0, <6>1, LeftBegins
        <6> QED BY <6>1, <6>2
      <4>5. ~(prompt'.todo # <<>> /\ Head(prompt'.todo).do = "permission")
        BY <2>8, <4>4 DEF Precedes
      <4>6. Regular(prompt'.tool)
        BY <4>2, RegularLives
      <4> QED BY <1>0, <2>8, <4>1, <4>2, <4>3, <4>5, <4>6, SeenGoesOn
    <3> QED BY <1>o, <3>7, <3>8
  <2>9. ASSUME NEW status \in {"failed", "completed"}, prompt.todo # <<>>,
               prompt'.todo = Sent(ToolOver(prompt), status).todo,
               prompt'.fault = Sent(ToolOver(prompt), status).fault,
               prompt'.tool = Sent(ToolOver(prompt), status).tool,
               prompt'.flag = Sent(ToolOver(prompt), status).flag,
               prompt'.plan = Sent(ToolOver(prompt), status).plan,
               \/ Head(prompt.todo).do = "permission" /\ status = "failed"
               \/ Head(prompt.todo).do = "end" /\ status = "completed",
               prompt.wait # "answering"
        PROVE  RegularOk'
    <3> DEFINE o == ToolOver(prompt)
    <3>1. o \in Prompts /\ o = [prompt EXCEPT !.todo = o.todo, !.leave = "none"]
      BY <1>0, <2>9, ToolOverTo
    <3> HIDE DEF o
    <3>2. /\ o.fault = prompt.fault /\ o.plan = prompt.plan
          /\ o.flag = prompt.flag /\ o.tool = prompt.tool
      BY <1>0, <3>1, ZenonT(60) DEF Prompts
    <3>3. prompt'.todo = o.todo /\ prompt'.fault = prompt.fault
      BY <2>9, <3>1, <3>2, SentSame DEF SameButSeen, Statuses, o
    <3>4. ASSUME prompt.fault = "none" PROVE SeenInOrder(prompt')
      <4>1. /\ SeenInOrder(prompt) /\ o.flag = "none"
            /\ status = "failed" => prompt.tool = <<"pending">>
            /\ status = "completed" => prompt.tool = <<"pending", "in_progress">>
        BY <1>s, <2>9, <3>2, <3>4 DEF SeenInOrder
      <4>2. /\ prompt'.tool = prompt.tool \o <<status>> /\ prompt'.flag = "none"
            /\ prompt'.plan = prompt.plan
        <5>1. status \in Statuses
          BY <2>9 DEF Statuses
        <5>2. /\ Sent(o, status).tool = o.tool \o <<status>>
              /\ Sent(o, status).flag = "none" /\ Sent(o, status).plan = o.plan
          BY <3>1, <4>1, <5>1, SentSeen
        <5>3. /\ prompt'.tool = Sent(o, status).tool /\ prompt'.flag = Sent(o, status).flag
              /\ prompt'.plan = Sent(o, status).plan
          BY <2>9 DEF o
        <5> QED BY <3>2, <5>2, <5>3
      <4>3. Regular(prompt'.tool)
        BY <4>1, <4>2, RegularLives
      <4>4. prompt'.todo = ToolOver(prompt).todo
        BY <3>3 DEF o
      <4> QED BY <1>0, <2>9, <4>1, <4>2, <4>3, <4>4, SeenToolOver
    <3> QED BY <1>o, <3>3, <3>4
  <2>10. ASSUME Denied, prompt.todo # <<>>, Head(prompt.todo).do = "permission",
                prompt.wait # "answering"
         PROVE  RegularOk'
    <3> DEFINE b == Sent(ToolOver(prompt), "failed")
    <3>1. prompt' = [b EXCEPT !.wait = "no"]
      BY <2>10 DEF Denied
    <3>2. b \in Prompts
      BY <1>0, <2>10, ToolOverTo, SentSame DEF SameButSeen, Statuses
    <3> HIDE DEF b
    <3>3. /\ prompt'.fault = b.fault /\ prompt'.todo = b.todo /\ prompt'.tool = b.tool
          /\ prompt'.flag = b.flag /\ prompt'.plan = b.plan
      BY <3>1, <3>2, ZenonT(60) DEF Prompts
    <3> QED BY <2>9, <2>10, <3>3 DEF b
  <2>11. CASE Permission \/ ClientDecides \/ RuleSaved
    <3>1. prompt.todo # <<>> /\ Head(prompt.todo).do = "permission" /\ prompt.wait # "answering"
      BY <1>0, <1>a, <2>11 DEF Permission, ClientDecides, RuleSaved
    <3>2. \/ \E how : Allowed(how)
          \/ Denied
          \/ (Permission \/ ClientDecides) /\ \E w \in {"asking", "remembering"} :
               prompt' = [prompt EXCEPT !.wait = w]
      BY <2>11 DEF Permission, ClientDecides, RuleSaved
    <3> QED BY <2>6, <2>8, <2>10, <3>1, <3>2
  <2>12. CASE EndTool
    <3>1. prompt.todo # <<>> /\ Head(prompt.todo).do = "end" /\ prompt.wait = "no"
          /\ prompt' = Sent(ToolOver(prompt), "completed")
      BY <1>a, <2>12 DEF EndTool
    <3> QED BY <2>9, <3>1
  <2>13. CASE Use
    <3>1. prompt.todo # <<>> /\ Head(prompt.todo).do = "use" /\ prompt.wait = "no"
      BY <1>a, <2>13 DEF Use
    <3>2. CASE prompt' = Advanced(prompt)
      <4>1. Advanced(prompt) = [prompt EXCEPT !.todo = Tail(prompt.todo)]
        BY DEF Advanced
      <4>2. /\ prompt'.todo = Tail(prompt.todo) /\ prompt'.fault = prompt.fault
            /\ prompt'.flag = prompt.flag /\ prompt'.tool = prompt.tool
            /\ prompt'.plan = prompt.plan
        BY <1>0, <3>2, <4>1, ZenonT(60) DEF Prompts
      <4>3. ASSUME prompt.fault = "none" PROVE SeenInOrder(prompt')
        BY <1>0, <1>s, <3>1, <4>2, <4>3, SeenAdvances
      <4> QED BY <1>o, <4>2, <4>3
    <3>3. CASE prompt' = Thrown(prompt)
      <4> DEFINE u == <<Last(prompt.todo)>>
      <4>1. Thrown(prompt) = [prompt EXCEPT !.todo = u]
        BY DEF Thrown
      <4>2. Head(u).do = "finish" /\ LeftOf(u, prompt.todo, Len(prompt.todo) - 1)
            /\ Len(prompt.todo) - 1 \in Nat
        BY <1>0, <3>1, LastOf, LeftLast, NonEmpty
      <4> HIDE DEF u
      <4>3. /\ prompt'.todo = u /\ prompt'.fault = prompt.fault
            /\ prompt'.flag = prompt.flag /\ prompt'.tool = prompt.tool
            /\ prompt'.plan = prompt.plan
        BY <1>0, <3>3, <4>1, ZenonT(60) DEF Prompts
      <4>4. ASSUME prompt.fault = "none" PROVE SeenInOrder(prompt')
        <5>1. SeenInOrder(prompt) /\ Regular(prompt'.tool) /\ prompt'.flag = "none"
          BY <1>s, <4>3, <4>4 DEF SeenInOrder
        <5> QED BY <1>0, <3>1, <4>2, <4>3, <5>1, SeenGoesOn
      <4> QED BY <1>o, <4>3, <4>4
    <3> QED BY <2>13, <3>2, <3>3 DEF Use
  <2>14. CASE PlanProgress
    <3>1. /\ prompt.todo # <<>> /\ Head(prompt.todo).do = "plan" /\ prompt.wait = "no"
          /\ prompt' = SentPlan(Advanced(prompt), Head(prompt.todo).at)
      BY <1>a, <2>14 DEF PlanProgress
    <3> DEFINE a == Advanced(prompt)
    <3>2. a \in Prompts /\ a = [prompt EXCEPT !.todo = Tail(prompt.todo)]
      BY <1>0, <3>1, AdvancedTo
    <3>3. /\ a.todo = Tail(prompt.todo) /\ a.fault = prompt.fault /\ a.plan = prompt.plan
          /\ a.flag = prompt.flag /\ a.tool = prompt.tool
      BY <1>0, <3>2 DEF Prompts
    <3>4. prompt' = SentPlan(a, Head(prompt.todo).at)
      BY <3>1
    <3> HIDE DEF a
    <3>5. prompt'.todo = Tail(prompt.todo) /\ prompt'.fault = prompt.fault
      <4>1. SameButSeen(a, prompt')
        BY <1>h, <3>1, <3>2, <3>4, SentPlanSame
      <4> QED BY <3>3, <4>1 DEF SameButSeen
    <3>6. ASSUME prompt.fault = "none" PROVE SeenInOrder(prompt')
      <4>1. SeenInOrder(prompt) /\ a.flag = "none"
        BY <1>s, <3>3, <3>6 DEF SeenInOrder
      <4>2. /\ prompt'.plan = IF Head(prompt.todo).at = 0 THEN prompt.plan
                              ELSE prompt.plan \o <<Head(prompt.todo).at>>
            /\ prompt'.flag = "none" /\ prompt'.tool = prompt.tool
        <5>1. Head(prompt.todo).at \in Nat
          BY <1>h, <3>1
        <5>2. /\ prompt'.plan = IF Head(prompt.todo).at = 0 THEN a.plan
                                ELSE a.plan \o <<Head(prompt.todo).at>>
              /\ prompt'.flag = "none" /\ prompt'.tool = a.tool
          BY <3>2, <3>4, <4>1, <5>1, SentPlanSeen
        <5> QED BY <3>3, <5>2
      <4> QED BY <1>0, <3>1, <3>5, <4>1, <4>2, SeenPlan
    <3> QED BY <1>o, <3>5, <3>6
  <2>15. CASE Finish
    <3>1. prompt.todo # <<>> /\ Head(prompt.todo).do = "finish" /\ prompt.wait = "no"
      BY <1>a, <2>15 DEF Finish
    <3>2. CASE ~prompt.aborted
      <4> DEFINE q == SentPlan(prompt, Head(prompt.todo).at)
      <4>1. prompt' = [q EXCEPT !.wait = "answering"]
        BY <2>15, <3>2 DEF Finish
      <4>2. SameButSeen(prompt, q)
        BY <1>0, <1>h, <3>1, SentPlanSame
      <4>3. ASSUME prompt.flag = "none"
            PROVE  /\ q.plan = IF Head(prompt.todo).at = 0 THEN prompt.plan
                              ELSE prompt.plan \o <<Head(prompt.todo).at>>
                   /\ q.flag = "none" /\ q.tool = prompt.tool
        BY <1>0, <1>h, <3>1, <4>3, SentPlanSeen
      <4> HIDE DEF q
      <4>4. /\ prompt'.fault = q.fault /\ prompt'.todo = q.todo /\ prompt'.tool = q.tool
            /\ prompt'.flag = q.flag /\ prompt'.plan = q.plan /\ prompt'.wait = "answering"
        BY <4>1, <4>2, ZenonT(60) DEF SameButSeen, Prompts
      <4>5. prompt'.fault = prompt.fault /\ prompt'.todo = prompt.todo
        BY <4>2, <4>4 DEF SameButSeen
      <4>6. ASSUME prompt.fault = "none" PROVE SeenInOrder(prompt')
        <5>1. SeenInOrder(prompt) /\ prompt.flag = "none"
          BY <1>s, <4>6 DEF SeenInOrder
        <5> QED BY <1>0, <3>1, <4>3, <4>4, <4>5, <5>1, SeenPlan
      <4> QED BY <1>o, <4>5, <4>6
    <3> QED BY <1>b, <2>15, <3>2 DEF Finish, Over
  <2>16. CASE Kill \/ Crash \/ Answered
    BY <1>b, <2>16 DEF Kill, Crash, Exits, Answered, Over
  <2>17. CASE \/ Initialize \/ Authenticate \/ ReplayEnds \/ StoreStep \/ UNCHANGED vars
              \/ \E m \in Modes : SetMode(m)
    BY <1>1, <2>17 DEF Initialize, Authenticate, ReplayEnds, StoreStep, Responds, Removed,
       Serialize, SetMode, vars
  <2>18. CASE \/ \E s \in Sessions : New(s) \/ Load(s)
              \/ \E s, t \in Sessions : Fork(s, t)
    BY <1>1, <2>18 DEF New, Load, Fork, Open
  <2> QED
    BY <1>2, <2>1, <2>2, <2>3, <2>4, <2>5, <2>6, <2>7, <2>11, <2>12, <2>13, <2>14, <2>15,
       <2>16, <2>17, <2>18
    DEF Next, PromptStep
<1> QED BY <1>2, <1>3, <1>b, <1>p

(* What the client sees of a prompt is in order, with nothing missing and  *)
(* nothing twice, unless a fault struck it: whatever is cancelled, denied, *)
(* thrown or saved between two updates (simulator-agent.ts, emit and the   *)
(* faults of dispatchToolUpdate and publishPlan).                          *)
THEOREM RegularUnlessStruckHolds == Spec => []RegularUnlessStruck
<1>1. Init => RegularOk
  BY IdleSeen DEF Init, RegularOk
<1>2. IInv /\ RegularOk /\ [Next]_vars => RegularOk'
  BY StepRegular
<1>3. RegularOk => RegularUnlessStruck
  BY DEF RegularOk, SeenInOrder, RegularUnlessStruck
<1> QED BY <1>1, <1>2, <1>3, SimulatorInvariance, PTL DEF Spec
=============================================================================
