------------------------- MODULE LaunchRegistryProofs -------------------------
(***************************************************************************)
(* Proofs about LaunchRegistry, for any calls, processes, versions and     *)
(* failures: which binary a call returns, and that none is overwritten.    *)
(***************************************************************************)
EXTENDS LaunchRegistry, TLAPS

-----------------------------------------------------------------------------
(* Who stays out of the lock, or goes on in it without touching a          *)
(* directory, disturbs nobody.                                             *)
LEMMA StillAlone ==
  ASSUME AloneInside, UNCHANGED <<dir, spoiled, archive>>, ~stolen' => ~stolen,
         \A c \in Calls :
           /\ at'[c] = "downloading" =>
                at[c] = "downloading" /\ wanted'[c] = wanted[c]
           /\ at'[c] = "extracting" <=> at[c] = "extracting"
           /\ at[c] = "extracting" => wanted'[c] = wanted[c]
  PROVE  AloneInside'
BY DEF AloneInside, Key

(* What a step of the lock may do: who is in is the one who made the file. *)
LEMMA StillHeld ==
  ASSUME Lock!LockHeld, ~stolen' => ~stolen,
         \/ /\ lock' = lock
            /\ \A c \in Calls : phase'[c] \in {"in", "leaving"} =>
                                 phase[c] \in {"in", "leaving"}
         \/ ~stolen' => \A c \in Calls : phase'[c] \in {"in", "leaving"} => lock' = c
  PROVE  Lock!LockHeld'
BY DEF Lock!LockHeld, Lock!Inside

(* Nothing is extracted: the directories keep their names.                 *)
LEMMA StillNamed ==
  ASSUME DirNamed, UNCHANGED <<dir, archive>>,
         \A c \in Calls : at'[c] = "extracting" =>
                            at[c] = "extracting" /\ wanted'[c] = wanted[c]
  PROVE  DirNamed'
BY DEF DirNamed, Key

(* Nobody is given a binary: those that were given stay right.             *)
LEMMA StillRight ==
  ASSUME BinaryIsRight, UNCHANGED archive, spoiled \subseteq spoiled',
         ~stolen' => ~stolen,
         \A c \in Calls : got'[c] # NoBinary =>
                            got'[c] = got[c] /\ wanted'[c] = wanted[c]
  PROVE  BinaryIsRight'
BY DEF BinaryIsRight, Key

(* A directory is made for every version.                                  *)
LEMMA KeyTyped == ASSUME TypeOK, NEW v \in Versions PROVE Key(v) \in Versions
BY DEF TypeOK, Key

(* A function that is changed at one place keeps its type.                 *)
LEMMA ChangedTyped ==
  ASSUME NEW S, NEW T, NEW f \in [S -> T], NEW x, NEW v \in T
  PROVE  [f EXCEPT ![x] = v] \in [S -> T]
OBVIOUS

Binary == [version : Bodies, state : DirStates, how : {"none", "seen", "prepared"}]

(* What a call returns is a binary.                                        *)
LEMMA ReturnsTyped ==
  ASSUME TypeOK, NEW c \in Calls, wanted[c] \in Versions,
         NEW how \in {"none", "seen", "prepared"}, Returns(c, how)
  PROVE  got' \in [Calls -> Binary]
<1> DEFINE there == dir[Key(wanted[c])]
           found == [version |-> there.version, state |-> there.state, how |-> how]
<1>1. there \in [version : Bodies, state : DirStates]
  BY DEF TypeOK, Key
<1>2. found \in Binary
  <2> HIDE DEF there
  <2> QED BY <1>1 DEF Binary
<1>3. got \in [Calls -> Binary]
  BY DEF TypeOK, Binary
<1>4. got' = [got EXCEPT ![c] = found]
  BY DEF Returns, Prepared
<1> HIDE DEF found
<1> QED BY <1>2, <1>3, <1>4, ChangedTyped

(* The invariant holds at the start.                                       *)
LEMMA InitInv == Init => IInv
<1> SUFFICES ASSUME Init PROVE IInv
  OBVIOUS
<1> USE LaunchAssumption
<1>0. 1 \in 1 .. MaxVersion
  OBVIOUS
<1>1. TypeOK
  BY <1>0 DEF Init, Lock!Init, TypeOK, Lock!TypeOK, Lock!Phases, Versions, Bodies,
     Garbage, Stages, DirStates, NoFetch, NoBinary
<1>2. StagesOk /\ DirNamed /\ BinaryIsRight
  BY DEF Init, Lock!Init, StagesOk, DirNamed, BinaryIsRight, Holding, Leaving
<1>3. AloneInside /\ Lock!LockHeld
  BY DEF Init, Lock!Init, AloneInside, Lock!LockHeld, Lock!Inside
<1> QED
  BY <1>1, <1>2, <1>3 DEF IInv

(* Every step keeps the invariant.                                         *)
LEMMA StepInv == IInv /\ [Next]_vars => IInv'
<1> SUFFICES ASSUME IInv, [Next]_vars PROVE IInv'
  OBVIOUS
<1>a. /\ TypeOK /\ StagesOk /\ DirNamed /\ AloneInside /\ BinaryIsRight
      /\ Lock!LockHeld
  BY DEF IInv
<1> USE <1>a, LaunchAssumption
    DEF lockVars, regVars, binVars, Lock!TypeOK, Lock!Phases, Lock!Inside,
        Versions, Garbage, Bodies, Stages, Ended, DirStates, Holding, Leaving,
        NoFetch, NoBinary, Goto, Lock!Goto
<1>1. CASE Publish
  <2>1. TypeOK'
    <3>1. published' \in Versions
      BY <1>1 DEF TypeOK, Publish
    <3> HIDE DEF Versions
    <3> QED BY <1>1, <3>1 DEF TypeOK, Publish
  <2>2. StagesOk'
    BY <1>1 DEF TypeOK, StagesOk, Publish
  <2>3. DirNamed'
    BY <1>1, StillNamed DEF TypeOK, Publish
  <2>4. AloneInside'
    BY <1>1, StillAlone DEF TypeOK, StagesOk, Publish
  <2>5. BinaryIsRight'
    BY <1>1, StillRight DEF TypeOK, Publish, StagesOk
  <2>6. Lock!LockHeld'
    BY <1>1, StillHeld DEF TypeOK, Publish
  <2> QED BY <2>1, <2>2, <2>3, <2>4, <2>5, <2>6 DEF IInv
<1>2. CASE Expires
  <2>1. TypeOK'
    BY <1>2 DEF TypeOK, Expires
  <2>2. StagesOk'
    BY <1>2 DEF TypeOK, StagesOk, Expires
  <2>3. DirNamed'
    BY <1>2, StillNamed DEF TypeOK, Expires
  <2>4. AloneInside'
    BY <1>2, StillAlone DEF TypeOK, StagesOk, Expires
  <2>5. BinaryIsRight'
    BY <1>2, StillRight DEF TypeOK, Expires, StagesOk
  <2>6. Lock!LockHeld'
    BY <1>2, StillHeld DEF TypeOK, Expires
  <2> QED BY <2>1, <2>2, <2>3, <2>4, <2>5, <2>6 DEF IInv
<1>3. CASE LockAges
  <2>1. TypeOK'
    BY <1>3 DEF TypeOK, LockAges, Lock!LockAges
  <2>2. StagesOk'
    BY <1>3 DEF TypeOK, StagesOk, LockAges, Lock!LockAges
  <2>3. DirNamed'
    BY <1>3, StillNamed DEF TypeOK, LockAges, Lock!LockAges, StagesOk
  <2>4. AloneInside'
    BY <1>3, StillAlone DEF TypeOK, StagesOk, LockAges, Lock!LockAges
  <2>5. BinaryIsRight'
    BY <1>3, StillRight DEF TypeOK, LockAges, Lock!LockAges, StagesOk
  <2>6. Lock!LockHeld'
    BY <1>3, StillHeld DEF TypeOK, LockAges, Lock!LockAges
  <2> QED BY <2>1, <2>2, <2>3, <2>4, <2>5, <2>6 DEF IInv
<1>4. ASSUME NEW p \in Processes, FetchReturns(p)
      PROVE  IInv'
  <2>1. TypeOK'
    <3>1. PICK body \in Bodies : fetching' = [fetching EXCEPT ![p] =
                                 [stage |-> "received", body |-> body]]
      BY <1>4 DEF TypeOK, FetchReturns
    <3> HIDE DEF Versions, Bodies
    <3> QED BY <1>4, <3>1 DEF TypeOK, FetchReturns
  <2>2. StagesOk'
    BY <1>4 DEF TypeOK, StagesOk, FetchReturns
  <2>3. DirNamed'
    BY <1>4, StillNamed DEF TypeOK, FetchReturns, StagesOk
  <2>4. AloneInside'
    BY <1>4, StillAlone DEF TypeOK, StagesOk, FetchReturns
  <2>5. BinaryIsRight'
    BY <1>4, StillRight DEF TypeOK, FetchReturns, StagesOk
  <2>6. Lock!LockHeld'
    BY <1>4, StillHeld DEF TypeOK, FetchReturns
  <2> QED BY <2>1, <2>2, <2>3, <2>4, <2>5, <2>6 DEF IInv
<1>5. ASSUME NEW p \in Processes, FetchFails(p)
      PROVE  IInv'
  <2>1. TypeOK'
    BY <1>5 DEF TypeOK, FetchFails, AllGoto, Awaiting
  <2>2. StagesOk'
    BY <1>5 DEF TypeOK, StagesOk, FetchFails, AllGoto, Awaiting
  <2>3. DirNamed'
    BY <1>5, StillNamed DEF TypeOK, FetchFails, AllGoto, Awaiting, StagesOk
  <2>4. AloneInside'
    BY <1>5, StillAlone DEF TypeOK, StagesOk, FetchFails, AllGoto, Awaiting
  <2>5. BinaryIsRight'
    BY <1>5, StillRight DEF TypeOK, FetchFails, AllGoto, Awaiting, StagesOk
  <2>6. Lock!LockHeld'
    BY <1>5, StillHeld DEF TypeOK, FetchFails, AllGoto, Awaiting
  <2> QED BY <2>1, <2>2, <2>3, <2>4, <2>5, <2>6 DEF IInv
<1>6. ASSUME NEW p \in Processes, Persisted(p)
      PROVE  IInv'
  <2>1. TypeOK'
    <3> HIDE DEF Versions, Bodies
    <3>1. fetching[p].body \in Bodies
      BY DEF TypeOK
    <3>2. at' \in [Calls -> Stages] /\ wanted' \in [Calls -> Bodies]
      BY <1>6, <3>1 DEF TypeOK, Persisted, AllGoto, Awaiting
    <3>3. cache' \in [body : Bodies, age : {"missing", "fresh", "expired"}]
      BY <1>6, <3>1 DEF TypeOK, Persisted
    <3>4. fetching' \in [Processes -> [stage : {"none", "requested", "received"},
                                      body : Bodies]]
      BY <1>6 DEF TypeOK, Persisted, Bodies
    <3> QED BY <1>6, <3>2, <3>3, <3>4 DEF TypeOK, Persisted
  <2>2. StagesOk'
    BY <1>6 DEF TypeOK, StagesOk, Persisted, AllGoto, Awaiting
  <2>3. DirNamed'
    BY <1>6, StillNamed DEF TypeOK, Persisted, AllGoto, Awaiting, StagesOk
  <2>4. AloneInside'
    BY <1>6, StillAlone DEF TypeOK, StagesOk, Persisted, AllGoto, Awaiting
  <2>5. BinaryIsRight'
    BY <1>6, StillRight DEF TypeOK, Persisted, AllGoto, Awaiting, StagesOk
  <2>6. Lock!LockHeld'
    BY <1>6, StillHeld DEF TypeOK, Persisted, AllGoto, Awaiting
  <2> QED BY <2>1, <2>2, <2>3, <2>4, <2>5, <2>6 DEF IInv
<1>7. ASSUME NEW p \in Processes, Crash(p)
      PROVE  IInv'
  <2>1. TypeOK'
    <3>1. /\ at' \in [Calls -> Stages] /\ phase' \in [Calls -> Lock!Phases]
          /\ fetching' \in [Processes -> [stage : {"none", "requested", "received"},
                                         body : Bodies]]
      BY <1>7 DEF TypeOK, Crash, AllGoto
    <3>2. spoiled' \subseteq Versions
      <4>1. spoiled' = spoiled \cup {Key(wanted[d]) : d \in {d \in Calls :
                          (Owner[d] = p /\ at[d] \notin Ended) /\ at[d] = "extracting"}}
        BY <1>7 DEF Crash
      <4>2. \A d \in Calls : at[d] = "extracting" => Key(wanted[d]) \in Versions
        BY KeyTyped DEF StagesOk
      <4>3. spoiled \subseteq Versions
        BY DEF TypeOK
      <4> HIDE DEF Versions
      <4> QED BY <4>1, <4>2, <4>3
    <3> QED BY <1>7, <3>1, <3>2 DEF TypeOK, Crash
  <2>2. StagesOk'
    BY <1>7 DEF TypeOK, StagesOk, Crash, AllGoto, Key
  <2>3. DirNamed'
    BY <1>7 DEF TypeOK, DirNamed, Crash, AllGoto, Key, StagesOk
  <2>4. AloneInside'
    BY <1>7 DEF TypeOK, Crash, AllGoto, Key, AloneInside, StagesOk,
       DirNamed
  <2>5. BinaryIsRight'
    BY <1>7, StillRight DEF TypeOK, Crash, AllGoto, StagesOk
  <2>6. Lock!LockHeld'
    BY <1>7, StillHeld DEF TypeOK, Crash, AllGoto, Key
  <2> QED BY <2>1, <2>2, <2>3, <2>4, <2>5, <2>6 DEF IInv
<1>8. ASSUME NEW c \in Calls, FetchRegistry(c)
      PROVE  IInv'
  <2>1. TypeOK'
    <3>1. Owner[c] \in Processes
      BY DEF Processes
    <3>2. fetching' \in [Processes -> [stage : {"none", "requested", "received"},
                                      body : Bodies]]
      <4>1. CASE fetching' = fetching
        BY <4>1 DEF TypeOK
      <4>2. CASE fetching' = [fetching EXCEPT ![Owner[c]].stage = "requested"]
        BY <3>1, <4>2 DEF TypeOK
      <4> QED BY <1>8, <4>1, <4>2 DEF FetchRegistry
    <3> QED BY <1>8, <3>2 DEF FetchRegistry, TypeOK
  <2>2. StagesOk'
    BY <1>8 DEF TypeOK, StagesOk, FetchRegistry
  <2>3. DirNamed'
    BY <1>8, StillNamed DEF TypeOK, FetchRegistry, StagesOk
  <2>4. AloneInside'
    BY <1>8, StillAlone DEF TypeOK, StagesOk, FetchRegistry
  <2>5. BinaryIsRight'
    BY <1>8, StillRight DEF TypeOK, FetchRegistry, StagesOk
  <2>6. Lock!LockHeld'
    BY <1>8, StillHeld DEF TypeOK, FetchRegistry
  <2> QED BY <2>1, <2>2, <2>3, <2>4, <2>5, <2>6 DEF IInv
<1>9. ASSUME NEW c \in Calls, ReadCache(c)
      PROVE  IInv'
  <2>1. TypeOK'
    BY <1>9 DEF TypeOK, ReadCache
  <2>2. StagesOk'
    BY <1>9 DEF TypeOK, StagesOk, ReadCache
  <2>3. DirNamed'
    BY <1>9, StillNamed DEF TypeOK, ReadCache, StagesOk
  <2>4. AloneInside'
    BY <1>9, StillAlone DEF TypeOK, StagesOk, ReadCache
  <2>5. BinaryIsRight'
    <3>1. got[c] = NoBinary
      BY <1>9 DEF ReadCache, StagesOk
    <3>2. /\ UNCHANGED <<got, spoiled, stolen>>
          /\ \A d \in Calls \ {c} : wanted'[d] = wanted[d]
      BY <1>9 DEF ReadCache, TypeOK
    <3> QED BY <1>9, <3>1, <3>2 DEF ReadCache, BinaryIsRight, Key
  <2>6. Lock!LockHeld'
    BY <1>9, StillHeld DEF TypeOK, ReadCache
  <2> QED BY <2>1, <2>2, <2>3, <2>4, <2>5, <2>6 DEF IInv
<1>10. ASSUME NEW c \in Calls, NeedsNoBinary(c)
      PROVE  IInv'
  <2>1. TypeOK'
    <3>1. PICK s \in {"failed", "returned"} : at' = [at EXCEPT ![c] = s]
      BY <1>10 DEF NeedsNoBinary
    <3> QED BY <1>10, <3>1 DEF NeedsNoBinary, TypeOK
  <2>2. StagesOk'
    <3>1. PICK s \in {"failed", "returned"} : at' = [at EXCEPT ![c] = s]
      BY <1>10 DEF NeedsNoBinary
    <3>2. /\ at[c] = "listed" /\ UNCHANGED <<phase, wanted, got>>
          /\ \A d \in Calls \ {c} : at'[d] = at[d]
      BY <1>10, <3>1 DEF NeedsNoBinary, TypeOK
    <3>3. at'[c] \notin {"listed", "locking"} \cup Holding \cup Leaving
      BY <3>1 DEF TypeOK, Holding, Leaving
    <3>4. phase[c] \notin {"in", "leaving"} /\ got[c] = NoBinary
      BY <3>2 DEF StagesOk, Holding, Leaving
    <3> QED BY <3>2, <3>3, <3>4 DEF StagesOk, Holding, Leaving
  <2>3. DirNamed'
    BY <1>10, StillNamed DEF TypeOK, NeedsNoBinary, StagesOk
  <2>4. AloneInside'
    <3>1. PICK s \in {"failed", "returned"} : at' = [at EXCEPT ![c] = s]
      BY <1>10 DEF NeedsNoBinary
    <3> QED BY <1>10, <3>1, StillAlone DEF NeedsNoBinary, TypeOK
  <2>5. BinaryIsRight'
    BY <1>10, StillRight DEF TypeOK, NeedsNoBinary, StagesOk
  <2>6. Lock!LockHeld'
    BY <1>10, StillHeld DEF TypeOK, NeedsNoBinary
  <2> QED BY <2>1, <2>2, <2>3, <2>4, <2>5, <2>6 DEF IInv
<1>11. ASSUME NEW c \in Calls, EnsureBinary(c)
      PROVE  IInv'
  <2>1. TypeOK'
    <3>1. wanted[c] \in Versions
      BY <1>11 DEF EnsureBinary, StagesOk
    <3>2. got' \in [Calls -> Binary]
      <4>1. CASE CommandExists(c)
        BY <1>11, <3>1, <4>1, ReturnsTyped DEF EnsureBinary
      <4>2. CASE ~CommandExists(c)
        BY <1>11, <4>2 DEF EnsureBinary, TypeOK, Binary
      <4> QED BY <4>1, <4>2
    <3>3. Lock!TypeOK' /\ at' \in [Calls -> Stages]
      BY <1>11 DEF TypeOK, EnsureBinary, Lock!Request
    <3> QED BY <1>11, <3>2, <3>3 DEF TypeOK, EnsureBinary, Binary
  <2>2. StagesOk'
    <3>1. CASE CommandExists(c)
      <4>1. /\ at' = [at EXCEPT ![c] = "returned"] /\ UNCHANGED <<phase, wanted>>
            /\ \A d \in Calls \ {c} : got'[d] = got[d]
        BY <1>11, <3>1 DEF EnsureBinary, Returns, TypeOK
      <4> QED BY <1>11, <4>1 DEF EnsureBinary, StagesOk, TypeOK
    <3>2. CASE ~CommandExists(c)
      <4>1. /\ phase[c] = "out" /\ phase' = [phase EXCEPT ![c] = "trying"]
            /\ at[c] = "listed" /\ at' = [at EXCEPT ![c] = "locking"]
            /\ UNCHANGED <<wanted, got>>
        BY <1>11, <3>2 DEF EnsureBinary, Lock!Request
      <4> QED BY <4>1 DEF TypeOK, StagesOk
    <3> QED BY <3>1, <3>2
  <2>3. DirNamed'
    BY <1>11 DEF TypeOK, DirNamed, EnsureBinary, Lock!Request, CommandExists,
       Prepared, Key, Returns, StagesOk
  <2>4. AloneInside'
    BY <1>11, StillAlone DEF TypeOK, StagesOk, EnsureBinary, Lock!Request,
       CommandExists, Prepared, Key, Returns
  <2>5. BinaryIsRight'
    <3>1. CASE CommandExists(c)
      <4> DEFINE k == Key(wanted[c])
      <4>1. /\ k \in Versions /\ dir[k].version \in Versions
            /\ archive[dir[k].version] = archive[wanted[c]]
        BY <1>11, <3>1, KeyTyped
           DEF EnsureBinary, CommandExists, Prepared, Key, StagesOk, DirNamed
      <4>2. got' = [got EXCEPT ![c] = [version |-> dir[k].version,
                      state |-> dir[k].state, how |-> "seen"]]
        BY <1>11, <3>1 DEF EnsureBinary, Returns, Prepared
      <4>3. UNCHANGED <<wanted, archive, spoiled, stolen>> /\ got \in [Calls -> Binary]
        BY <1>11, <3>1 DEF EnsureBinary, TypeOK, Binary
      <4> HIDE DEF k
      <4> QED BY <4>1, <4>2, <4>3 DEF BinaryIsRight, Key
    <3>2. CASE ~CommandExists(c)
      BY <1>11, <3>2, StillRight DEF EnsureBinary, Lock!Request
    <3> QED BY <3>1, <3>2
  <2>6. Lock!LockHeld'
    BY <1>11, StillHeld DEF TypeOK, EnsureBinary, Lock!Request, CommandExists,
       Prepared, Key, Returns
  <2> QED BY <2>1, <2>2, <2>3, <2>4, <2>5, <2>6 DEF IInv
<1>12. ASSUME NEW c \in Calls, LockStep(c)
      PROVE  IInv'
  <2>1. TypeOK'
    BY <1>12 DEF TypeOK, LockStep, Lock!StatLock, Lock!RemoveStale,
       Lock!Retry, Lock!Free
  <2>2. StagesOk'
    BY <1>12 DEF TypeOK, StagesOk, LockStep, Lock!StatLock, Lock!RemoveStale,
       Lock!Retry, Lock!Free
  <2>3. DirNamed'
    BY <1>12, StillNamed DEF TypeOK, LockStep, Lock!StatLock, Lock!RemoveStale,
       Lock!Retry, Lock!Free, StagesOk
  <2>4. AloneInside'
    BY <1>12, StillAlone DEF TypeOK, StagesOk, LockStep, Lock!StatLock,
       Lock!RemoveStale, Lock!Retry, Lock!Free
  <2>5. BinaryIsRight'
    BY <1>12, StillRight DEF TypeOK, LockStep, Lock!StatLock, Lock!RemoveStale,
       Lock!Retry, Lock!Free, StagesOk
  <2>6. Lock!LockHeld'
    <3>1. CASE Lock!RemoveStale(c)
      <4>1. /\ phase' = [phase EXCEPT ![c] = "waiting"]
            /\ ~stolen' => ~stolen /\ ~(lock # Nobody /\ phase[lock] \in Lock!Inside)
        BY <3>1 DEF Lock!RemoveStale
      <4>2. ~stolen' => \A d \in Calls : phase[d] \notin Lock!Inside
        BY <4>1 DEF Lock!LockHeld
      <4> QED BY <4>1, <4>2 DEF Lock!LockHeld, TypeOK
    <3>2. CASE Lock!StatLock(c) \/ Lock!Retry(c)
      BY <3>2, StillHeld DEF TypeOK, Lock!StatLock, Lock!Retry
    <3> QED BY <1>12, <3>1, <3>2 DEF LockStep
  <2> QED BY <2>1, <2>2, <2>3, <2>4, <2>5, <2>6 DEF IInv
<1>13. ASSUME NEW c \in Calls, GetsLock(c)
      PROVE  IInv'
  <2>0. /\ at[c] = "locking" /\ phase[c] = "trying" /\ stolen' = stolen
        /\ UNCHANGED <<published, archive, cache, fetching, wanted, got, dir, spoiled>>
        /\ \/ /\ lock = Nobody /\ lock' = c /\ old' = FALSE
              /\ phase' = [phase EXCEPT ![c] = "in"]
              /\ at' = [at EXCEPT ![c] = "holding"]
           \/ /\ lock' = lock /\ old' = old /\ at' = at
              /\ phase' = [phase EXCEPT ![c] = "blocked"]
    BY <1>13 DEF GetsLock, Lock!TryOpen
  <2>1. TypeOK'
    BY <2>0 DEF TypeOK
  <2>2. StagesOk'
    BY <2>0 DEF TypeOK, StagesOk
  <2>3. DirNamed'
    BY <2>0, StillNamed DEF TypeOK
  <2>4. AloneInside'
    BY <2>0, StillAlone DEF TypeOK
  <2>5. BinaryIsRight'
    BY <2>0, StillRight
  <2>6. Lock!LockHeld'
    BY <2>0 DEF TypeOK, Lock!LockHeld
  <2> QED BY <2>1, <2>2, <2>3, <2>4, <2>5, <2>6 DEF IInv
<1>14. ASSUME NEW c \in Calls, GetsNoLock(c)
      PROVE  IInv'
  <2>1. TypeOK'
    BY <1>14 DEF TypeOK, GetsNoLock, Lock!OpenFails, Lock!GiveUp
  <2>2. StagesOk'
    BY <1>14 DEF TypeOK, StagesOk, GetsNoLock, Lock!OpenFails, Lock!GiveUp
  <2>3. DirNamed'
    BY <1>14, StillNamed DEF TypeOK, GetsNoLock, Lock!OpenFails, Lock!GiveUp,
       StagesOk
  <2>4. AloneInside'
    BY <1>14, StillAlone DEF TypeOK, StagesOk, GetsNoLock, Lock!OpenFails,
       Lock!GiveUp
  <2>5. BinaryIsRight'
    BY <1>14, StillRight DEF TypeOK, GetsNoLock, Lock!OpenFails, Lock!GiveUp,
       StagesOk
  <2>6. Lock!LockHeld'
    BY <1>14, StillHeld DEF TypeOK, GetsNoLock, Lock!OpenFails, Lock!GiveUp
  <2> QED BY <2>1, <2>2, <2>3, <2>4, <2>5, <2>6 DEF IInv
<1>15. ASSUME NEW c \in Calls, LooksAgain(c)
      PROVE  IInv'
  <2>1. TypeOK'
    <3>1. wanted[c] \in Versions
      BY <1>15 DEF LooksAgain, StagesOk
    <3>2. got' \in [Calls -> Binary]
      <4>1. CASE ExistsByNow(c)
        BY <1>15, <3>1, <4>1, ReturnsTyped DEF LooksAgain
      <4>2. CASE ~ExistsByNow(c)
        BY <1>15, <4>2 DEF LooksAgain, TypeOK, Binary
      <4> QED BY <4>1, <4>2
    <3>3. Lock!TypeOK' /\ at' \in [Calls -> Stages]
      BY <1>15 DEF TypeOK, LooksAgain, Lock!Finish
    <3> QED BY <1>15, <3>2, <3>3 DEF TypeOK, LooksAgain, Binary
  <2>2. StagesOk'
    <3>1. CASE ExistsByNow(c)
      <4>1. /\ at' = [at EXCEPT ![c] = "finished"] /\ wanted' = wanted
            /\ phase' = [phase EXCEPT ![c] = "leaving"]
            /\ \A d \in Calls \ {c} : got'[d] = got[d]
        BY <1>15, <3>1 DEF LooksAgain, Lock!Finish, Returns, TypeOK
      <4> QED BY <1>15, <4>1 DEF LooksAgain, StagesOk, TypeOK
    <3>2. CASE ~ExistsByNow(c)
      BY <1>15, <3>2 DEF TypeOK, StagesOk, LooksAgain
    <3> QED BY <3>1, <3>2
  <2>3. DirNamed'
    BY <1>15 DEF TypeOK, DirNamed, LooksAgain, Lock!Finish, ExistsByNow,
       CommandExists, Prepared, Key, Returns, StagesOk
  <2>4. AloneInside'
    BY <1>15 DEF TypeOK, LooksAgain, Lock!Finish, ExistsByNow, CommandExists,
       Prepared, Key, Returns, AloneInside, StagesOk, Lock!LockExclusive,
       DirNamed
  <2>5. BinaryIsRight'
    <3>1. CASE CommandExists(c)
      <4> DEFINE k == Key(wanted[c])
      <4>1. /\ k \in Versions /\ dir[k].state \in DirStates \ {"none"}
            /\ dir[k].version \in Versions
            /\ archive[dir[k].version] = archive[wanted[c]]
        BY <1>15, <3>1, KeyTyped
           DEF LooksAgain, CommandExists, Prepared, Key, StagesOk, DirNamed, TypeOK
      <4>2. got' = [got EXCEPT ![c] = [version |-> dir[k].version,
                      state |-> dir[k].state, how |-> "prepared"]]
        BY <1>15, <3>1 DEF LooksAgain, ExistsByNow, Returns, Prepared
      <4>3. ~stolen /\ k \notin spoiled => dir[k].state = "whole"
        <5> SUFFICES ASSUME ~stolen, k \notin spoiled, dir[k].state = "partial"
                     PROVE  FALSE
          BY <4>1
        <5>1. PICK d \in Calls : at[d] = "extracting"
          BY <4>1 DEF AloneInside
        <5>2. phase[d] = "in" /\ phase[c] = "in" /\ d # c
          BY <1>15, <5>1 DEF StagesOk, LooksAgain
        <5> QED BY <5>2 DEF Lock!LockHeld
      <4>4. UNCHANGED <<wanted, archive, spoiled, stolen>> /\ got \in [Calls -> Binary]
        BY <1>15, <3>1 DEF LooksAgain, ExistsByNow, Lock!Finish, TypeOK, Binary
      <4>5. k = Key(wanted[c])
        OBVIOUS
      <4> HIDE DEF k
      <4> QED BY <4>1, <4>2, <4>3, <4>4, <4>5 DEF BinaryIsRight, Key
    <3>2. CASE ~CommandExists(c)
      BY <1>15, <3>2, StillRight DEF LooksAgain, ExistsByNow
    <3> QED BY <3>1, <3>2
  <2>6. Lock!LockHeld'
    BY <1>15, StillHeld DEF TypeOK, LooksAgain, Lock!Finish, ExistsByNow,
       CommandExists, Prepared, Key, Returns
  <2> QED BY <2>1, <2>2, <2>3, <2>4, <2>5, <2>6 DEF IInv
<1>16. ASSUME NEW c \in Calls, Extracts(c)
      PROVE  IInv'
  <2> DEFINE k == Key(wanted[c])
  <2>0. /\ at[c] = "downloading" /\ at' = [at EXCEPT ![c] = "extracting"]
        /\ dir' = [dir EXCEPT ![k] = [version |-> wanted[c], state |-> "partial"]]
        /\ UNCHANGED <<lock, old, phase, stolen, published, archive, cache, fetching,
                       wanted, got, spoiled>>
    BY <1>16 DEF Extracts
  <2>a. /\ k \in Versions /\ wanted[c] \in Versions /\ archive[wanted[c]] = k
        /\ phase[c] = "in"
    BY <2>0, KeyTyped DEF StagesOk, Key
  <2>b. k = Key(wanted[c])
    OBVIOUS
  <2> HIDE DEF k
  <2>c. /\ dir'[k] = [version |-> wanted[c], state |-> "partial"]
        /\ \A n \in Versions \ {k} : dir'[n] = dir[n]
        /\ at'[c] = "extracting" /\ \A d \in Calls \ {c} : at'[d] = at[d]
        /\ \A d \in Calls : Key(wanted[d])' = Key(wanted[d])
    BY <2>0, <2>a DEF TypeOK, Key
  <2>1. TypeOK'
    BY <2>0, <2>a DEF TypeOK
  <2>2. StagesOk'
    BY <2>0 DEF TypeOK, StagesOk
  <2>3. DirNamed'
    <3>1. \A n \in Versions :
             dir'[n].state # "none" => dir'[n].version \in Versions
                                      /\ archive'[dir'[n].version] = n
      BY <2>0, <2>a, <2>c DEF DirNamed
    <3>2. \A d \in Calls : at'[d] = "extracting" => Key(wanted[d]) \in Versions
      BY <2>a, <2>b, <2>c, KeyTyped DEF StagesOk
    <3>3. \A d \in Calls : at'[d] = "extracting" => dir'[Key(wanted[d])].state # "none"
      <4> SUFFICES ASSUME NEW d \in Calls, at'[d] = "extracting"
                   PROVE  dir'[Key(wanted[d])].state # "none"
        OBVIOUS
      <4>1. CASE Key(wanted[d]) = k
        BY <2>c, <4>1
      <4>2. CASE Key(wanted[d]) # k
        BY <2>b, <2>c, <3>2, <4>2 DEF DirNamed
      <4> QED BY <4>1, <4>2
    <3> HIDE DEF Versions
    <3> QED BY <2>c, <3>1, <3>3 DEF DirNamed
  <2>4. AloneInside'
    <3> SUFFICES ASSUME ~stolen PROVE AloneInside'
      BY <2>0 DEF AloneInside
    <3>1. \A d \in Calls \ {c} : at[d] \notin Holding
      BY <2>a DEF Lock!LockHeld, StagesOk
    <3>2. \A d \in Calls : at'[d] \in {"downloading", "extracting"} => d = c
      BY <2>c, <3>1
    <3>3. /\ at'[c] = "extracting" /\ Key(wanted[c])' = k
          /\ dir'[Key(wanted[c])'].state = "partial"
      BY <2>b, <2>c
    <3>4. \A n \in Versions \ spoiled : dir'[n].state = "partial" => n = k
      BY <2>0, <2>c, <3>1 DEF AloneInside
    <3> QED BY <2>0, <3>2, <3>3, <3>4 DEF AloneInside
  <2>5. BinaryIsRight'
    BY <2>0, StillRight
  <2>6. Lock!LockHeld'
    BY <2>0, StillHeld
  <2> QED BY <2>1, <2>2, <2>3, <2>4, <2>5, <2>6 DEF IInv
<1>17. ASSUME NEW c \in Calls, Extracted(c)
      PROVE  IInv'
  <2> DEFINE k == Key(wanted[c])
             binary == [version |-> wanted[c], state |-> "whole", how |-> "prepared"]
  <2>0. /\ at[c] = "extracting" /\ at' = [at EXCEPT ![c] = "finished"]
        /\ phase' = [phase EXCEPT ![c] = "leaving"]
        /\ dir' = [dir EXCEPT ![k] = [@ EXCEPT !.state = "whole"]]
        /\ got' = [got EXCEPT ![c] = binary]
        /\ UNCHANGED <<lock, old, stolen, published, archive, cache, fetching,
                       wanted, spoiled>>
    BY <1>17 DEF Extracted, Lock!Finish
  <2>a. /\ k \in Versions /\ wanted[c] \in Versions /\ archive[wanted[c]] = k
        /\ phase[c] = "in"
    BY <2>0, KeyTyped DEF StagesOk, Key
  <2>b. k = Key(wanted[c]) /\ binary \in Binary
    BY <2>a DEF Binary
  <2> HIDE DEF k
  <2>c. /\ dir'[k] = [dir[k] EXCEPT !.state = "whole"]
        /\ \A n \in Versions \ {k} : dir'[n] = dir[n]
        /\ at'[c] = "finished" /\ \A d \in Calls \ {c} : at'[d] = at[d]
        /\ \A d \in Calls : Key(wanted[d])' = Key(wanted[d])
        /\ got'[c] = binary /\ \A d \in Calls \ {c} : got'[d] = got[d]
    BY <2>0, <2>a DEF TypeOK, Key
  <2>d. dir[k] \in [version : Bodies, state : DirStates]
    BY <2>a DEF TypeOK
  <2>e. dir'[k].state = "whole" /\ dir'[k].version = dir[k].version
    BY <2>c, <2>d
  <2>1. TypeOK'
    <3>1. dir' \in [Versions -> [version : Bodies, state : DirStates]]
      <4>1. [dir[k] EXCEPT !.state = "whole"] \in [version : Bodies, state : DirStates]
        BY <2>d DEF DirStates
      <4> HIDE DEF Versions
      <4> QED BY <2>0, <4>1, ChangedTyped DEF TypeOK
    <3>2. got' \in [Calls -> Binary]
      <4> HIDE DEF binary
      <4> QED BY <2>0, <2>b, ChangedTyped DEF TypeOK, Binary
    <3>3. at' \in [Calls -> Stages] /\ phase' \in [Calls -> Lock!Phases]
      BY <2>0 DEF TypeOK
    <3> QED BY <2>0, <3>1, <3>2, <3>3 DEF TypeOK, Binary
  <2>2. StagesOk'
    BY <2>0, <2>c DEF TypeOK, StagesOk
  <2>3. DirNamed'
    <3>1. dir[k].version \in Versions /\ archive[dir[k].version] = k
      BY <2>0, <2>a, <2>b DEF DirNamed
    <3>2. \A n \in Versions :
             dir'[n].state # "none" => dir'[n].version \in Versions
                                      /\ archive'[dir'[n].version] = n
      BY <2>0, <2>c, <2>e, <3>1 DEF DirNamed
    <3>3. \A d \in Calls : at'[d] = "extracting" =>
             Key(wanted[d]) \in Versions /\ dir'[Key(wanted[d])].state # "none"
      <4> SUFFICES ASSUME NEW d \in Calls, at'[d] = "extracting"
                   PROVE  Key(wanted[d]) \in Versions /\ dir'[Key(wanted[d])].state # "none"
        OBVIOUS
      <4>1. at[d] = "extracting" /\ Key(wanted[d]) \in Versions
        BY <2>c, KeyTyped DEF StagesOk
      <4>2. CASE Key(wanted[d]) = k
        BY <2>e, <4>1, <4>2
      <4>3. CASE Key(wanted[d]) # k
        BY <2>c, <4>1, <4>3 DEF DirNamed
      <4> QED BY <4>2, <4>3
    <3> HIDE DEF Versions
    <3> QED BY <2>c, <3>2, <3>3 DEF DirNamed
  <2>4. AloneInside'
    <3> SUFFICES ASSUME ~stolen PROVE AloneInside'
      BY <2>0 DEF AloneInside
    <3>1. \A d \in Calls \ {c} : at[d] \notin Holding
      BY <2>a DEF Lock!LockHeld, StagesOk
    <3>2. \A d \in Calls : at'[d] \notin {"downloading", "extracting"}
      BY <2>c, <3>1
    <3>3. \A n \in Versions \ spoiled : dir'[n].state # "partial"
      <4> SUFFICES ASSUME NEW n \in Versions \ spoiled, dir'[n].state = "partial"
                   PROVE  FALSE
        OBVIOUS
      <4>1. n # k /\ dir[n].state = "partial"
        BY <2>c, <2>e
      <4>2. PICK d \in Calls : at[d] = "extracting" /\ Key(wanted[d]) = n
        BY <4>1 DEF AloneInside
      <4> QED BY <2>b, <3>1, <4>1, <4>2
    <3> QED BY <2>0, <3>2, <3>3 DEF AloneInside
  <2>5. BinaryIsRight'
    BY <2>0, <2>a, <2>c DEF BinaryIsRight, Key
  <2>6. Lock!LockHeld'
    BY <2>0, <2>a, StillHeld DEF TypeOK
  <2> QED BY <2>1, <2>2, <2>3, <2>4, <2>5, <2>6 DEF IInv
<1>18. ASSUME NEW c \in Calls, PreparationFails(c)
      PROVE  IInv'
  <2>1. TypeOK'
    <3>1. Lock!TypeOK'
      BY <1>18 DEF TypeOK, PreparationFails, Lock!Finish
    <3>2. at' \in [Calls -> Stages]
      BY <1>18 DEF TypeOK, PreparationFails
    <3>3. spoiled' \subseteq Versions
      BY <1>18, KeyTyped DEF TypeOK, PreparationFails, StagesOk
    <3> QED BY <1>18, <3>1, <3>2, <3>3 DEF TypeOK, PreparationFails
  <2>2. StagesOk'
    BY <1>18 DEF TypeOK, StagesOk, PreparationFails, Lock!Finish, Key
  <2>3. DirNamed'
    BY <1>18 DEF TypeOK, DirNamed, PreparationFails, Lock!Finish, Key,
       StagesOk
  <2>4. AloneInside'
    BY <1>18 DEF TypeOK, PreparationFails, Lock!Finish, Key, AloneInside,
       StagesOk, Lock!LockExclusive, DirNamed
  <2>5. BinaryIsRight'
    BY <1>18, StillRight DEF TypeOK, PreparationFails, Lock!Finish, StagesOk
  <2>6. Lock!LockHeld'
    BY <1>18, StillHeld DEF TypeOK, PreparationFails, Lock!Finish, Key
  <2> QED BY <2>1, <2>2, <2>3, <2>4, <2>5, <2>6 DEF IInv
<1>19. ASSUME NEW c \in Calls, Leaves(c)
      PROVE  IInv'
  <2>1. TypeOK'
    BY <1>19 DEF TypeOK, Leaves, Lock!Release, Lock!KeepLock, Lock!Free
  <2>2. StagesOk'
    BY <1>19 DEF TypeOK, StagesOk, Leaves, Lock!Release, Lock!KeepLock,
       Lock!Free
  <2>3. DirNamed'
    BY <1>19, StillNamed DEF TypeOK, Leaves, Lock!Release, Lock!KeepLock,
       Lock!Free, StagesOk
  <2>4. AloneInside'
    BY <1>19, StillAlone DEF TypeOK, StagesOk, Leaves, Lock!Release,
       Lock!KeepLock, Lock!Free
  <2>5. BinaryIsRight'
    BY <1>19, StillRight DEF TypeOK, Leaves, Lock!Release, Lock!KeepLock, Lock!Free,
       StagesOk
  <2>6. Lock!LockHeld'
    <3>1. phase[c] = "leaving" /\ phase' = [phase EXCEPT ![c] = "out"] /\ stolen' = stolen
      BY <1>19 DEF Leaves, Lock!Release, Lock!KeepLock
    <3> QED BY <3>1 DEF TypeOK, Lock!LockHeld
  <2> QED BY <2>1, <2>2, <2>3, <2>4, <2>5, <2>6 DEF IInv
<1>20. CASE UNCHANGED vars
  <2>1. UNCHANGED <<lock, old, phase, stolen, published, archive, cache, fetching,
                    at, wanted, got, dir, spoiled>>
    BY <1>20 DEF vars
  <2>2. TypeOK' /\ StagesOk' /\ Lock!LockHeld'
    BY <2>1 DEF TypeOK, StagesOk, Lock!LockHeld
  <2>3. DirNamed' /\ AloneInside' /\ BinaryIsRight'
    BY <2>1, StillNamed, StillAlone, StillRight
  <2> QED BY <2>2, <2>3 DEF IInv
<1> QED
  BY <1>1, <1>2, <1>3, <1>4, <1>5, <1>6, <1>7, <1>8, <1>9, <1>10, <1>11,
     <1>12, <1>13, <1>14, <1>15, <1>16, <1>17, <1>18, <1>19, <1>20 DEF Next

(* The inductive invariant of the registry, its cache, the lock and the    *)
(* directories holds, whatever fails.                                      *)
THEOREM LaunchInvariance == Spec => []IInv
<1> QED BY InitInv, StepInv, PTL DEF Spec

(* ensureBinaryFromArchive returns a binary from an archive with the file  *)
(* name of the one listed for its call, which is whole if it was prepared  *)
(* under the lock, its directory was not left in parts, and no call        *)
(* lost its lock to another.                                               *)
THEOREM BinaryIsRightHolds == Spec => []BinaryIsRight
<1>1. IInv => BinaryIsRight
  BY DEF IInv
<1> QED BY <1>1, LaunchInvariance, PTL

(* Calls of any processes prepare one at a time, whichever of them die in  *)
(* the lock, leave it behind, fail to remove it or find it stale, until    *)
(* one that is inside loses its lock to another.                           *)
THEOREM OneAtATime == Spec => []Lock!LockExclusive
<1>1. IInv => Lock!LockExclusive
  BY DEF IInv, Lock!LockHeld, Lock!LockExclusive
<1> QED BY <1>1, LaunchInvariance, PTL

-----------------------------------------------------------------------------
(* Directories change in two actions: an extraction begins, where nothing  *)
(* was found under the lock, or it ends.                                   *)
LEMMA StepKeepsWhole ==
  ASSUME IInv, [Next]_vars,
         NEW v \in Versions, dir[v].state = "whole", ~stolen
  PROVE  dir'[v].state = "whole"
<1>1. CASE \E c \in Calls : Extracts(c)
  <2>1. PICK c \in Calls : Extracts(c)
    BY <1>1
  <2>2. dir[Key(wanted[c])].state = "none"
    BY <2>1 DEF Extracts, IInv, AloneInside
  <2> QED BY <2>1, <2>2 DEF Extracts, IInv, TypeOK
<1>2. CASE \E c \in Calls : Extracted(c)
  BY <1>2 DEF Extracted, Key, IInv, TypeOK
<1>3. CASE dir' = dir
  BY <1>3
<1>4. dir' = dir \/ (\E c \in Calls : Extracts(c)) \/ (\E c \in Calls : Extracted(c))
  BY DEF Next, vars, binVars, Publish, Expires, LockAges, FetchReturns,
     FetchFails, Persisted, Crash, FetchRegistry, ReadCache, NeedsNoBinary,
     EnsureBinary, LockStep, GetsLock, GetsNoLock, LooksAgain,
     PreparationFails, Leaves
<1> QED BY <1>1, <1>2, <1>3, <1>4

(* No call extracts over a whole binary until one loses its lock to        *)
(* another that takes it for stale.                                        *)
THEOREM WholeStaysHolds == Spec => WholeStays
<1>1. IInv /\ [Next]_vars =>
        [~stolen => WholeKept]_vars
  BY StepKeepsWhole DEF WholeKept
<1> QED BY <1>1, LaunchInvariance, PTL DEF Spec, WholeStays
===============================================================================
