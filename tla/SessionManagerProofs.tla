------------------------ MODULE SessionManagerProofs ------------------------
(***************************************************************************)
(* Proofs about SessionManager, for any finite set of open calls and any   *)
(* combination of failures.                                                *)
(***************************************************************************)
EXTENDS SessionManager, FiniteSetTheorems, TLAPS

(* The inductive invariant without the count.                              *)
Core == TypeOK /\ FlightOk /\ JobOk /\ EntryOk /\ ActiveIsOpen

(* The invariant holds at the start.                                       *)
LEMMA InitInv == Init => IInv
BY ManagerAssumption, FS_EmptySet
   DEF Init, IInv, TypeOK, FlightOk, JobOk, EntryOk, ActiveIsOpen,
       RefCountExact, Loaders, Driver, CallState, JobState, Life, AtWork

-----------------------------------------------------------------------------
(* Steps that acquire or close no handle leave every count as it is.       *)
HandlesKept ==
  \A x \in Opens : /\ call[x] = "open" <=> call'[x] = "open"
                   /\ call[x] = "open" => entry'[x] = entry[x]

(* The handles of a driver depend on the calls and entries alone.          *)
LEMMA SameHandles ==
  ASSUME HandlesKept, NEW d
  PROVE  Handles(d)' = Handles(d)
BY DEF HandlesKept, Handles

(* A step that leaves the handles and counts alone keeps the counts exact. *)
LEMMA CountKept ==
  ASSUME RefCountExact, HandlesKept, refs' = refs, active' \in {active, NoDriver}
  PROVE  RefCountExact'
BY SameHandles DEF RefCountExact

(* The calls that wait for a driver have no entry yet.                     *)
LEMMA WaitingCalls ==
  ASSUME Core, NEW c \in Opens, job[c] \notin {"none", "done"}
  PROVE  /\ WaitingFor(c) \subseteq Opens
         /\ \A x \in WaitingFor(c) : call[x] = "joined"
BY ManagerAssumption DEF Core, FlightOk, WaitingFor, Loaders

(* Deliver hands an entry that was registered to calls that have none.     *)
LEMMA DeliverCore ==
  ASSUME Core, NEW c \in Opens, job[c] \notin {"none", "done"},
         NEW d \in Opens, Deliver(c, d)
  PROVE  /\ call' \in [Opens -> CallState] /\ entry' \in [Opens -> Driver]
         /\ job' \in [Opens -> JobState] /\ pendingOpen' \in Driver
         /\ job' = [job EXCEPT ![c] = "done"]
         /\ FlightOk' /\ HandlesKept
         /\ \A x \in Opens :
              /\ call'[x] = "idle" => call[x] = "idle"
              /\ x # c /\ job[x] = "cleaning" => entry'[x] = entry[x]
              /\ call'[x] \in AtWork =>
                   \/ call[x] \in AtWork /\ entry'[x] = entry[x]
                   \/ entry'[x] = d
<1>1. /\ WaitingFor(c) \subseteq Opens
      /\ \A x \in WaitingFor(c) : call[x] = "joined"
  BY WaitingCalls
<1>2. /\ call' = [x \in Opens |->
                    IF x \notin WaitingFor(c) THEN call[x]
                    ELSE IF c \in Starters THEN "acquiring" ELSE "restoring"]
      /\ entry' = [x \in Opens |-> IF x \in WaitingFor(c) THEN d ELSE entry[x]]
      /\ job' = [job EXCEPT ![c] = "done"]
      /\ pendingOpen' = IF pendingOpen = c THEN NoDriver ELSE pendingOpen
  BY DEF Deliver, EndJob
<1>3. /\ call' \in [Opens -> CallState] /\ entry' \in [Opens -> Driver]
      /\ job' \in [Opens -> JobState] /\ pendingOpen' \in Driver
  BY <1>2 DEF Core, TypeOK, CallState, Driver, JobState
<1>4. FlightOk'
  BY <1>1, <1>2, ManagerAssumption
     DEF Core, TypeOK, FlightOk, Loaders, WaitingFor
<1>5. HandlesKept
  BY <1>1, <1>2 DEF HandlesKept
<1>6. \A x \in Opens : x # c /\ job[x] = "cleaning" => entry'[x] = entry[x]
  BY <1>1, <1>2, ManagerAssumption DEF Core, FlightOk, WaitingFor, Loaders
<1>7. \A x \in Opens :
        /\ call'[x] = "idle" => call[x] = "idle"
        /\ call'[x] \in AtWork =>
             \/ call[x] \in AtWork /\ entry'[x] = entry[x]
             \/ entry'[x] = d
  BY <1>1, <1>2
<1> QED
  BY <1>2, <1>3, <1>4, <1>5, <1>6, <1>7

(* The same of Reject, which hands out nothing.                            *)
LEMMA RejectCore ==
  ASSUME Core, NEW c \in Opens, job[c] \notin {"none", "done"}, Reject(c)
  PROVE  /\ call' \in [Opens -> CallState] /\ entry' = entry
         /\ job' \in [Opens -> JobState] /\ pendingOpen' \in Driver
         /\ job' = [job EXCEPT ![c] = "done"]
         /\ FlightOk' /\ HandlesKept
         /\ \A x \in Opens : /\ call'[x] = "idle" => call[x] = "idle"
                             /\ call'[x] \in AtWork => call[x] \in AtWork
<1>1. /\ WaitingFor(c) \subseteq Opens
      /\ \A x \in WaitingFor(c) : call[x] = "joined"
  BY WaitingCalls
<1>2. /\ call' = [x \in Opens |-> IF x \in WaitingFor(c) THEN "failed"
                                  ELSE call[x]]
      /\ entry' = entry
      /\ job' = [job EXCEPT ![c] = "done"]
      /\ pendingOpen' = IF pendingOpen = c THEN NoDriver ELSE pendingOpen
  BY DEF Reject, EndJob
<1>3. /\ call' \in [Opens -> CallState]
      /\ job' \in [Opens -> JobState] /\ pendingOpen' \in Driver
  BY <1>2 DEF Core, TypeOK, CallState, Driver, JobState
<1>4. FlightOk'
  BY <1>1, <1>2, ManagerAssumption
     DEF Core, TypeOK, FlightOk, Loaders, WaitingFor
<1>5. HandlesKept
  BY <1>1, <1>2 DEF HandlesKept
<1> QED
  BY <1>1, <1>2, <1>3, <1>4, <1>5 DEF AtWork

(* ... whether the driver stays open or is closed because of the failure.  *)
LEMMA RejectKeepsCore ==
  ASSUME Core, NEW c \in Opens,
         job[c] \in {"waiting", "opening", "preparing", "persisting"}, Reject(c),
         \/ driver' = driver
         \/ job[c] = "preparing" /\ driver' = [driver EXCEPT ![c] = "closing"],
         awaited' \in {awaited, NoDriver},
         UNCHANGED <<refs, active, closing, closeFailed>>
  PROVE  Core' /\ HandlesKept
<1>1. /\ call' \in [Opens -> CallState] /\ entry' = entry
      /\ job' \in [Opens -> JobState] /\ pendingOpen' \in Driver
      /\ job' = [job EXCEPT ![c] = "done"]
      /\ FlightOk' /\ HandlesKept
      /\ \A x \in Opens : /\ call'[x] = "idle" => call[x] = "idle"
                          /\ call'[x] \in AtWork => call[x] \in AtWork
  BY RejectCore
<1>2. TypeOK'
  BY <1>1 DEF Core, TypeOK, Driver, Life
<1>3. call[c] = "joined" /\ active # c
  BY DEF Core, FlightOk, JobOk
<1>4. /\ driver'[c] \in Life /\ active' = active /\ job'[c] = "done"
      /\ \A x \in Opens : x # c => job'[x] = job[x] /\ driver'[x] = driver[x]
      /\ \A x \in Opens : job[x] = "done" => job'[x] = "done"
  BY <1>1, <1>2 DEF Core, TypeOK
<1>5. JobOk'
  <2>1. ASSUME NEW x \in Opens, call'[x] = "idle" PROVE job'[x] = "none"
    <3>1. call[x] = "idle"
      BY <1>1, <2>1
    <3>2. x # c /\ job[x] = "none"
      BY <1>3, <3>1 DEF Core, JobOk
    <3> QED BY <1>4, <3>2
  <2>2. \A x \in Opens :
          /\ job'[x] \in {"none", "begun", "waiting", "opening"}
               => driver'[x] = "none"
          /\ job'[x] \in {"preparing", "persisting"} => driver'[x] = "open"
          /\ active' = x => job'[x] = "done"
    BY <1>4 DEF Core, JobOk
  <2>3. \A x \in Opens :
          job'[x] = "cleaning" =>
            /\ driver'[x] \in {"closing", "closed"}
            /\ entry'[x] \in Opens /\ job'[entry'[x]] = "done"
    BY <1>1, <1>4 DEF Core, JobOk
  <2> QED BY <2>1, <2>2, <2>3 DEF JobOk
<1>6. EntryOk'
  <2>1. ASSUME NEW x \in Opens, call'[x] \in AtWork
        PROVE  entry'[x] \in Opens /\ job'[entry'[x]] = "done"
    <3>1. call[x] \in AtWork
      BY <1>1, <2>1
    <3>2. entry[x] \in Opens /\ job[entry[x]] = "done"
      BY <3>1 DEF Core, EntryOk
    <3> QED BY <1>1, <1>4, <3>2
  <2> QED BY <2>1 DEF EntryOk, AtWork
<1>7. ActiveIsOpen'
  BY <1>3, <1>4 DEF Core, TypeOK, ActiveIsOpen, Driver
<1> QED
  BY <1>1, <1>2, <1>5, <1>6, <1>7 DEF Core

(* The driver c created is registered by nobody yet.                       *)
LEMMA CloseDuplicateCore ==
  ASSUME Core, NEW c \in Opens, job[c] \in {"opening", "preparing", "persisting"},
         active # NoDriver, CloseDuplicate(c),
         UNCHANGED <<awaited, refs, active, closing, closeFailed>>
  PROVE  Core' /\ HandlesKept
<1>1. /\ job' = [job EXCEPT ![c] = "cleaning"]
      /\ entry' = [entry EXCEPT ![c] = active]
      /\ driver' = [driver EXCEPT ![c] = "closing"]
      /\ UNCHANGED <<call, pendingOpen, awaited, refs, active, closing, closeFailed>>
  BY DEF CloseDuplicate
<1>2. call[c] = "joined"
  BY DEF Core, FlightOk
<1>3. active \in Opens /\ job[active] = "done" /\ active # c
  BY DEF Core, TypeOK, Driver, JobOk
<1>4. TypeOK'
  BY <1>1 DEF Core, TypeOK, Driver, JobState, Life
<1>5. FlightOk'
  BY <1>1 DEF Core, TypeOK, FlightOk, Loaders
<1>6. JobOk'
  BY <1>1, <1>2, <1>3 DEF Core, TypeOK, JobOk
<1>7. EntryOk' /\ HandlesKept
  BY <1>1, <1>2 DEF Core, TypeOK, EntryOk, AtWork, HandlesKept
<1>8. ActiveIsOpen'
  BY <1>1, <1>3 DEF Core, TypeOK, ActiveIsOpen
<1> QED
  BY <1>4, <1>5, <1>6, <1>7, <1>8 DEF Core

(* registerManagedSession joins the active entry or makes its own.         *)
LEMMA RegisterCore ==
  ASSUME Core, NEW c \in Opens, job[c] \in {"opening", "preparing"}, Register(c),
         UNCHANGED <<awaited, refs, active, closing, closeFailed>>
  PROVE  Core' /\ HandlesKept
<1>1. CASE active # NoDriver
  BY <1>1, CloseDuplicateCore DEF Register
<1>2. CASE active = NoDriver
  BY <1>2, ManagerAssumption
     DEF Core, TypeOK, FlightOk, JobOk, EntryOk, ActiveIsOpen, HandlesKept, Register,
         Loaders, Driver, CallState, JobState, Life, AtWork
<1> QED BY <1>1, <1>2

-----------------------------------------------------------------------------
(* Each step keeps the invariant.  Only Acquire and CloseHandle change the *)
(* handles of a driver.                                                    *)
LEMMA StepInv == IInv /\ [Next]_vars => IInv'
<1> SUFFICES ASSUME IInv, [Next]_vars PROVE IInv'
  OBVIOUS
<1> USE ManagerAssumption
<1>0. Core /\ RefCountExact
  BY DEF IInv, Core
<1> DEFINE Kept == Core' /\ HandlesKept /\ refs' = refs
                   /\ active' \in {active, NoDriver}
<1>1. ASSUME Kept PROVE IInv'
  BY <1>0, <1>1, CountKept DEF IInv, Core
<1>2. ASSUME NEW c \in Opens, Open(c) PROVE IInv'
  <2>1. Core' /\ HandlesKept
    BY <1>0, <1>2
       DEF Core, TypeOK, FlightOk, JobOk, EntryOk, ActiveIsOpen, HandlesKept,
           Open, driverVars, Loaders, Driver, CallState, JobState, Life, AtWork
  <2> QED BY <1>1, <1>2, <2>1 DEF Open, driverVars
<1>3. ASSUME NEW c \in Opens, AwaitClose(c) PROVE IInv'
  <2>1. Core' /\ HandlesKept
    BY <1>0, <1>3
       DEF Core, TypeOK, FlightOk, JobOk, EntryOk, ActiveIsOpen, HandlesKept,
           AwaitClose, driverVars, Loaders, Driver, CallState, JobState, Life, AtWork
  <2> QED BY <1>1, <1>3, <2>1 DEF AwaitClose, driverVars
<1>4. ASSUME NEW c \in Opens, CloseAwaited(c) PROVE IInv'
  <2>1. CASE awaited \in closeFailed
    <3>1. Reject(c) /\ awaited' = NoDriver /\ UNCHANGED driverVars
          /\ job[c] = "waiting"
      BY <1>4, <2>1 DEF CloseAwaited
    <3>2. Core' /\ HandlesKept
      BY <1>0, <3>1, RejectKeepsCore DEF driverVars
    <3> QED BY <1>1, <3>1, <3>2 DEF driverVars
  <2>2. CASE awaited \notin closeFailed /\ active # NoDriver
    <3>1. Deliver(c, active) /\ awaited' = NoDriver /\ UNCHANGED driverVars
          /\ job[c] = "waiting" /\ active \in Opens /\ job[active] = "done"
      BY <1>0, <1>4, <2>2 DEF CloseAwaited, Core, TypeOK, Driver, JobOk
    <3>2. Core' /\ HandlesKept
      BY <1>0, <3>1, DeliverCore
         DEF Core, TypeOK, JobOk, EntryOk, ActiveIsOpen, driverVars, Driver
    <3> QED BY <1>1, <3>1, <3>2 DEF driverVars
  <2>3. CASE awaited \notin closeFailed /\ active = NoDriver
    <3>1. /\ job[c] = "waiting" /\ job' = [job EXCEPT ![c] = "opening"]
          /\ awaited' = NoDriver
          /\ UNCHANGED <<call, entry, pendingOpen>> /\ UNCHANGED driverVars
      BY <1>4, <2>3 DEF CloseAwaited
    <3>2. Core' /\ HandlesKept
      BY <1>0, <3>1
         DEF Core, TypeOK, FlightOk, JobOk, EntryOk, ActiveIsOpen, HandlesKept,
             driverVars, Loaders, Driver, CallState, JobState, Life, AtWork
    <3> QED BY <1>1, <3>1, <3>2 DEF driverVars
  <2> QED BY <2>1, <2>2, <2>3
<1>5. ASSUME NEW c \in Opens, Start(c) PROVE IInv'
  <2>1. Core' /\ HandlesKept
    BY <1>0, <1>5
       DEF Core, TypeOK, FlightOk, JobOk, EntryOk, ActiveIsOpen, HandlesKept,
           Start, driverVars, Loaders, Driver, CallState, JobState, Life, AtWork
  <2> QED BY <1>1, <1>5, <2>1 DEF Start, driverVars
<1>6. ASSUME NEW c \in Opens, Opened(c) PROVE IInv'
  <2>1. CASE c \in Starters
    <3>1. Core' /\ HandlesKept
      BY <1>0, <1>6, <2>1
         DEF Core, TypeOK, FlightOk, JobOk, EntryOk, ActiveIsOpen, HandlesKept,
             Opened, Loaders, Driver, CallState, JobState, Life, AtWork
    <3> QED BY <1>1, <1>6, <3>1 DEF Opened
  <2>2. CASE c \notin Starters
    <3>1. Core' /\ HandlesKept
      BY <1>0, <1>6, <2>2, RegisterCore DEF Opened
    <3> QED BY <1>1, <1>6, <3>1 DEF Opened
  <2> QED BY <2>1, <2>2
<1>7. ASSUME NEW c \in Opens, OpenFails(c) \/ PersistFails(c) PROVE IInv'
  <2>1. Reject(c) /\ UNCHANGED <<awaited, driverVars>>
        /\ job[c] \in {"opening", "persisting"}
    BY <1>7 DEF OpenFails, PersistFails
  <2>2. Core' /\ HandlesKept
    BY <1>0, <2>1, RejectKeepsCore DEF driverVars
  <2> QED BY <1>1, <2>1, <2>2 DEF driverVars
<1>8. ASSUME NEW c \in Opens, Prepared(c) PROVE IInv'
  <2>1. Core' /\ HandlesKept
    BY <1>0, <1>8, RegisterCore DEF Prepared
  <2> QED BY <1>1, <1>8, <2>1 DEF Prepared
<1>9. ASSUME NEW c \in Opens, PrepareFails(c) PROVE IInv'
  <2>1. Reject(c) /\ driver' = [driver EXCEPT ![c] = "closing"]
        /\ UNCHANGED <<awaited, refs, active, closing, closeFailed>>
        /\ job[c] = "preparing"
    BY <1>9 DEF PrepareFails
  <2>2. Core' /\ HandlesKept
    BY <1>0, <2>1, RejectKeepsCore
  <2> QED BY <1>1, <2>1, <2>2
<1>10. ASSUME NEW c \in Opens, Persisted(c) PROVE IInv'
  <2>1. CASE active # NoDriver
    <3>1. CloseDuplicate(c) /\ job[c] = "persisting"
          /\ UNCHANGED <<awaited, refs, active, closing, closeFailed>>
      BY <1>10, <2>1 DEF Persisted
    <3>2. Core' /\ HandlesKept
      BY <1>0, <2>1, <3>1, CloseDuplicateCore
    <3> QED BY <1>1, <3>1, <3>2
  <2>2. CASE active = NoDriver
    <3>1. /\ job[c] = "persisting" /\ active' = c
          /\ refs' = [refs EXCEPT ![c] = 0]
          /\ Deliver(c, c)
          /\ UNCHANGED <<driver, awaited, closing, closeFailed>>
      BY <1>10, <2>2 DEF Persisted
    <3>2. Core' /\ HandlesKept
      BY <1>0, <3>1, DeliverCore
         DEF Core, TypeOK, JobOk, EntryOk, ActiveIsOpen, Driver
    <3>3. Handles(c) = {}
      BY <1>0, <3>1 DEF Core, EntryOk, AtWork, Handles
    <3>4. Handles(c)' = {}
      BY <3>2, <3>3, SameHandles
    <3>5. RefCountExact'
      BY <1>0, <3>1, <3>4, FS_EmptySet DEF RefCountExact, Core, TypeOK
    <3> QED BY <3>2, <3>5 DEF IInv, Core
  <2> QED BY <2>1, <2>2
<1>11. ASSUME NEW c \in Opens, DuplicateClosed(c) PROVE IInv'
  <2>1. Deliver(c, entry[c]) /\ UNCHANGED <<awaited, driverVars>>
        /\ job[c] = "cleaning" /\ driver[c] = "closed"
    BY <1>11 DEF DuplicateClosed
  <2>2. entry[c] \in Opens /\ job[entry[c]] = "done"
    BY <1>0, <2>1 DEF Core, JobOk
  <2>3. Core' /\ HandlesKept
    BY <1>0, <2>1, <2>2, DeliverCore
       DEF Core, TypeOK, JobOk, EntryOk, ActiveIsOpen, driverVars
  <2> QED BY <1>1, <2>1, <2>3 DEF driverVars
<1>12. ASSUME NEW c \in Opens, SnapshotApplied(c) \/ SnapshotFails(c) PROVE IInv'
  <2>1. Core' /\ HandlesKept
    BY <1>0, <1>12
       DEF Core, TypeOK, FlightOk, JobOk, EntryOk, ActiveIsOpen, HandlesKept,
           SnapshotApplied, SnapshotFails, driverVars, Loaders, Driver,
           CallState, JobState, Life, AtWork
  <2> QED BY <1>1, <1>12, <2>1 DEF SnapshotApplied, SnapshotFails, driverVars
<1>13. ASSUME NEW c \in Opens, Acquire(c) PROVE IInv'
  <2> DEFINE d == entry[c]
  <2>1. Core'
    BY <1>0, <1>13
       DEF Core, TypeOK, FlightOk, JobOk, EntryOk, ActiveIsOpen, Acquire,
           Loaders, Driver, CallState, JobState, Life, AtWork
  <2>2. d \in Opens
    BY <1>0, <1>13 DEF Core, EntryOk, Acquire, AtWork
  <2>3. Handles(d)' = Handles(d) \cup {c} /\ c \notin Handles(d)
    BY <1>0, <1>13 DEF Acquire, Handles, Core, TypeOK
  <2>4. \A e \in Opens : e # d => Handles(e)' = Handles(e)
    BY <1>0, <1>13 DEF Acquire, Handles, Core, TypeOK
  <2>5. IsFiniteSet(Handles(d))
    BY FS_Subset DEF Handles
  <2>6. Cardinality(Handles(d))' = Cardinality(Handles(d)) + 1
    BY <2>3, <2>5, FS_AddElement
  <2>7. RefCountExact'
    BY <1>0, <1>13, <2>2, <2>4, <2>6 DEF Acquire, RefCountExact, Core, TypeOK, Driver
  <2> QED BY <2>1, <2>7 DEF IInv, Core
<1>14. ASSUME NEW c \in Opens, ConfigFails(c) PROVE IInv'
  <2>1. Core' /\ HandlesKept
    BY <1>0, <1>14
       DEF Core, TypeOK, FlightOk, JobOk, EntryOk, ActiveIsOpen, HandlesKept,
           ConfigFails, Loaders, Driver, CallState, JobState, Life, AtWork
  <2> QED BY <1>1, <1>14, <2>1 DEF ConfigFails
<1>15. ASSUME NEW c \in Opens, CloseHandle(c) PROVE IInv'
  <2> DEFINE d == entry[c]
  <2>1. d \in Opens /\ call[c] = "open" /\ job[d] = "done"
    BY <1>0, <1>15 DEF Core, EntryOk, CloseHandle, AtWork
  <2>2. Core'
    BY <1>0, <1>15, <2>1
       DEF Core, TypeOK, FlightOk, JobOk, EntryOk, ActiveIsOpen, CloseHandle,
           Loaders, Driver, CallState, JobState, Life, AtWork
  <2>3. Handles(d)' = Handles(d) \ {c} /\ c \in Handles(d)
    BY <1>0, <1>15, <2>1 DEF CloseHandle, Handles, Core, TypeOK
  <2>4. \A e \in Opens : e # d => Handles(e)' = Handles(e)
    BY <1>0, <1>15 DEF CloseHandle, Handles, Core, TypeOK
  <2>5. IsFiniteSet(Handles(d))
    BY FS_Subset DEF Handles
  <2>6. Cardinality(Handles(d))' = Cardinality(Handles(d)) - 1
    BY <2>3, <2>5, FS_RemoveElement
  <2>7. RefCountExact'
    BY <1>0, <1>15, <2>1, <2>4, <2>6 DEF CloseHandle, RefCountExact, Core, TypeOK, Driver
  <2> QED BY <2>2, <2>7 DEF IInv, Core
<1>16. ASSUME NEW c \in Opens, CloseSettles(c) PROVE IInv'
  <2>1. Core' /\ HandlesKept
    BY <1>0, <1>16
       DEF Core, TypeOK, FlightOk, JobOk, EntryOk, ActiveIsOpen, HandlesKept,
           CloseSettles, openVars, Loaders, Driver, CallState, JobState, Life, AtWork
  <2> QED BY <1>1, <1>16, <2>1 DEF CloseSettles
<1>17. ASSUME UNCHANGED vars PROVE IInv'
  <2>1. Core' /\ HandlesKept
    BY <1>0, <1>17
       DEF Core, TypeOK, FlightOk, JobOk, EntryOk, ActiveIsOpen, HandlesKept,
           vars, openVars, driverVars
  <2> QED BY <1>1, <1>17, <2>1 DEF vars, driverVars
<1> QED
  BY <1>2, <1>3, <1>4, <1>5, <1>6, <1>7, <1>8, <1>9, <1>10, <1>11, <1>12,
     <1>13, <1>14, <1>15, <1>16, <1>17 DEF Next

(* The sharing of drivers keeps its invariant: the entry offered to the    *)
(* next open call has an open driver and counts its open handles exactly.  *)
THEOREM ManagerInvariance == Spec => []IInv
BY InitInv, StepInv, PTL DEF Spec

(* activeSessions offers no closed driver.                                 *)
THEOREM ActiveIsOpenHolds == Spec => []ActiveIsOpen
<1>1. IInv => ActiveIsOpen
  BY DEF IInv
<1> QED BY <1>1, ManagerInvariance, PTL

(* refCount of the active entry counts the open handles of its driver.     *)
THEOREM RefCountExactHolds == Spec => []RefCountExact
<1>1. IInv => RefCountExact
  BY DEF IInv
<1> QED BY <1>1, ManagerInvariance, PTL
-----------------------------------------------------------------------------
(* A step that closes a driver leaves no handle on it.                     *)
LEMMA StepSpares ==
  ASSUME IInv, [Next]_vars, NEW d \in Opens, driver[d] = "open", driver'[d] # "open"
  PROVE  Handles(d)' = {}
<1>0. Core /\ RefCountExact
  BY DEF IInv, Core
<1>1. ASSUME job[d] # "done", HandlesKept PROVE Handles(d)' = {}
  <2>1. Handles(d) = {}
    BY <1>0, <1>1 DEF Core, EntryOk, AtWork, Handles
  <2> QED BY <1>1, <2>1, SameHandles
<1>2. PICK c \in Opens :
        \/ Opened(c) \/ Prepared(c) \/ PrepareFails(c) \/ Persisted(c)
        \/ ConfigFails(c) \/ CloseHandle(c)
  BY DEF Next, vars, driverVars, Open, AwaitClose, CloseAwaited, Start, OpenFails,
         PersistFails, DuplicateClosed, SnapshotApplied, SnapshotFails, Acquire,
         CloseSettles, Core, TypeOK, IInv, openVars
<1>3. CASE Opened(c) \/ Prepared(c)
  <2>1. c = d /\ job[c] \in {"opening", "preparing"}
    BY <1>0, <1>3 DEF Opened, Prepared, Register, CloseDuplicate, Core, TypeOK
  <2>2. HandlesKept
    <3>1. CASE Opened(c) /\ c \in Starters
      BY <3>1 DEF Opened, HandlesKept
    <3>2. CASE ~(Opened(c) /\ c \in Starters)
      BY <1>0, <1>3, <2>1, <3>2, RegisterCore DEF Opened, Prepared
    <3> QED BY <3>1, <3>2
  <2> QED BY <1>1, <2>1, <2>2
<1>4. CASE PrepareFails(c)
  <2>1. c = d /\ job[c] = "preparing" /\ Reject(c)
    BY <1>0, <1>4 DEF PrepareFails, Core, TypeOK
  <2>2. HandlesKept
    BY <1>0, <2>1, RejectCore
  <2> QED BY <1>1, <2>1, <2>2
<1>5. CASE Persisted(c)
  <2>1. c = d /\ job[c] = "persisting" /\ active # NoDriver /\ CloseDuplicate(c)
        /\ UNCHANGED <<awaited, refs, active, closing, closeFailed>>
    BY <1>0, <1>5 DEF Persisted, CloseDuplicate, Core, TypeOK
  <2>2. HandlesKept
    BY <1>0, <2>1, CloseDuplicateCore
  <2> QED BY <1>1, <2>1, <2>2
<1>6. CASE ConfigFails(c)
  <2>1. d = entry[c] /\ active = d /\ refs[d] = 0 /\ HandlesKept
    BY <1>0, <1>6 DEF ConfigFails, Core, TypeOK, HandlesKept
  <2>2. Cardinality(Handles(d)) = 0 /\ IsFiniteSet(Handles(d))
    BY <1>0, <2>1, ManagerAssumption, FS_Subset DEF RefCountExact, Handles
  <2>3. Handles(d) = {}
    BY <2>2, FS_EmptySet
  <2> QED BY <2>1, <2>3, SameHandles
<1>7. CASE CloseHandle(c)
  <2>1. d = entry[c] /\ active = d /\ refs[d] <= 1 /\ call[c] = "open"
        /\ call' = [call EXCEPT ![c] = "closed"] /\ entry' = entry
    BY <1>0, <1>7 DEF CloseHandle, Core, TypeOK
  <2>2. IsFiniteSet(Handles(d)) /\ c \in Handles(d)
    BY <2>1, ManagerAssumption, FS_Subset DEF Handles
  <2>3. Cardinality(Handles(d)) <= 1 /\ Cardinality(Handles(d)) \in Nat
    BY <1>0, <2>1, <2>2, ManagerAssumption, FS_CardinalityType DEF RefCountExact
  <2>4. IsFiniteSet(Handles(d) \ {c}) /\ Cardinality(Handles(d) \ {c}) = Cardinality(Handles(d)) - 1
    BY <2>2, FS_RemoveElement
  <2>5. Cardinality(Handles(d) \ {c}) \in Nat
    BY <2>4, FS_CardinalityType
  <2>6. Cardinality(Handles(d) \ {c}) = 0
    BY <2>3, <2>4, <2>5
  <2>7. Handles(d) \ {c} = {}
    BY <2>4, <2>6, FS_EmptySet
  <2>8. Handles(d)' = Handles(d) \ {c}
    BY <1>0, <2>1 DEF Handles, Core, TypeOK
  <2> QED BY <2>7, <2>8
<1> QED
  BY <1>2, <1>3, <1>4, <1>5, <1>6, <1>7

(* Closing a handle or failing an open call never closes the driver under  *)
(* a handle somebody else holds.                                           *)
THEOREM SiblingsSurviveHolds == Spec => SiblingsSurvive
<1>1. IInv /\ [Next]_vars =>
        [\A d \in Opens :
           driver[d] = "open" /\ driver'[d] # "open" => Handles(d)' = {}]_vars
  BY StepSpares
<1> QED
  BY <1>1, ManagerInvariance, PTL DEF Spec, SiblingsSurvive
-----------------------------------------------------------------------------
(* Where nothing is started, whoever creates a driver is the operation of  *)
(* pendingOpens: there is one at a time.                                   *)
LEMMA SingleFlight ==
  ASSUME NoStarts, Core, NEW c \in Opens, job[c] \notin {"none", "done"}
  PROVE  /\ pendingOpen = c /\ call[c] = "joined" /\ c \in WaitingFor(c)
         /\ \A x \in Opens : job[x] \notin {"none", "done"} => x = c
BY DEF NoStarts, Core, FlightOk, Loaders, WaitingFor

(* At the start no operation is under way.                                 *)
LEMMA InitOneFlight == Init => OneFlight /\ DriversKept
BY ManagerAssumption DEF Init, OneFlight, DriversKept, AtWork

(* Without starts, operations on the id go on following one another.       *)
LEMMA StepOneFlight ==
  ASSUME NoStarts, LoadInv, [Next]_vars
  PROVE  OneFlight'
<1> USE ManagerAssumption
<1>0. Core /\ OneFlight /\ TypeOK /\ FlightOk /\ JobOk /\ EntryOk
  BY DEF LoadInv, IInv, Core
<1>1. ASSUME NEW c \in Opens, Open(c) PROVE OneFlight'
  BY <1>0, <1>1 DEF NoStarts, OneFlight, Open, driverVars, TypeOK, ActiveIsOpen, Core, AtWork
<1>2. ASSUME NEW c \in Opens, AwaitClose(c) PROVE OneFlight'
  <2>1. \A x \in Opens : job[x] \notin {"none", "done"} => x = c
    BY <1>0, <1>2, SingleFlight DEF AwaitClose
  <2> QED BY <1>0, <1>2, <2>1 DEF OneFlight, AwaitClose, driverVars, TypeOK, JobState
<1>3. ASSUME NEW c \in Opens, CloseAwaited(c) PROVE OneFlight'
  <2>1. \A x \in Opens : job[x] \notin {"none", "done"} => x = c
    BY <1>0, <1>3, SingleFlight DEF CloseAwaited
  <2>2. active = NoDriver /\ closing = NoDriver
    BY <1>0, <1>3 DEF OneFlight, CloseAwaited
  <2>3. CASE awaited \in closeFailed
    <3>1. /\ job' = [job EXCEPT ![c] = "done"] /\ entry' = entry
          /\ \A x \in Opens : call'[x] \in AtWork => call[x] \in AtWork
      BY <1>0, <1>3, <2>3, RejectCore DEF CloseAwaited
    <3> QED BY <1>0, <1>3, <2>1, <2>2, <3>1 DEF OneFlight, CloseAwaited, driverVars, TypeOK
  <2>4. CASE awaited \notin closeFailed
    <3>1. /\ job' = [job EXCEPT ![c] = "opening"]
          /\ UNCHANGED <<call, entry>> /\ UNCHANGED driverVars
      BY <1>3, <2>2, <2>4 DEF CloseAwaited
    <3> QED BY <1>0, <2>1, <2>2, <3>1 DEF OneFlight, driverVars, TypeOK
  <2> QED BY <2>3, <2>4
<1>4. ASSUME NEW c \in Opens, Opened(c) PROVE OneFlight'
  <2>1. \A x \in Opens : job[x] \notin {"none", "done"} => x = c
    BY <1>0, <1>4, SingleFlight DEF Opened
  <2>2. active = NoDriver /\ closing = NoDriver /\ driver[c] = "none"
    BY <1>0, <1>4 DEF OneFlight, Opened, JobOk
  <2>3. /\ job' = [job EXCEPT ![c] = "persisting"]
        /\ driver' = [driver EXCEPT ![c] = "open"]
        /\ UNCHANGED <<call, entry, pendingOpen, awaited, active, closing>>
    BY <1>4, <2>2 DEF NoStarts, Opened, Register
  <2>4. \A x \in Opens : call[x] \in AtWork => entry[x] \in Opens /\ entry[x] # c
    BY <1>0, <1>4 DEF EntryOk, Opened
  <2> QED BY <1>0, <2>1, <2>2, <2>3, <2>4 DEF OneFlight, TypeOK
<1>5. ASSUME NEW c \in Opens, OpenFails(c) \/ PersistFails(c) PROVE OneFlight'
  <2>1. \A x \in Opens : job[x] \notin {"none", "done"} => x = c
    BY <1>0, <1>5, SingleFlight DEF OpenFails, PersistFails
  <2>2. /\ job' = [job EXCEPT ![c] = "done"] /\ entry' = entry
        /\ \A x \in Opens : call'[x] \in AtWork => call[x] \in AtWork
    BY <1>0, <1>5, RejectCore DEF OpenFails, PersistFails
  <2> QED BY <1>0, <1>5, <2>1, <2>2 DEF OneFlight, OpenFails, PersistFails, driverVars, TypeOK
<1>6. ASSUME NEW c \in Opens, Persisted(c) PROVE OneFlight'
  <2>1. \A x \in Opens : job[x] \notin {"none", "done"} => x = c
    BY <1>0, <1>6, SingleFlight DEF Persisted
  <2>2. active = NoDriver /\ closing = NoDriver
    BY <1>0, <1>6 DEF OneFlight, Persisted
  <2>3. Deliver(c, c) /\ active' = c /\ UNCHANGED <<driver, awaited, closing>>
    BY <1>6, <2>2 DEF Persisted
  <2>4. /\ job' = [job EXCEPT ![c] = "done"]
        /\ \A x \in Opens : call'[x] \in AtWork =>
             \/ call[x] \in AtWork /\ entry'[x] = entry[x]
             \/ entry'[x] = c
    BY <1>0, <1>6, <2>3, DeliverCore DEF Persisted
  <2> QED BY <1>0, <2>1, <2>2, <2>3, <2>4 DEF OneFlight, TypeOK, EntryOk
<1>7. ASSUME NEW c \in Opens, SnapshotApplied(c) \/ SnapshotFails(c) PROVE OneFlight'
  BY <1>0, <1>7 DEF OneFlight, SnapshotApplied, SnapshotFails, driverVars, TypeOK, AtWork
<1>8. ASSUME NEW c \in Opens, Acquire(c) PROVE OneFlight'
  BY <1>0, <1>8 DEF OneFlight, Acquire, TypeOK, AtWork
<1>9. ASSUME NEW c \in Opens, ConfigFails(c) PROVE OneFlight'
  BY <1>0, <1>9 DEF OneFlight, ConfigFails, TypeOK, EntryOk, AtWork
<1>10. ASSUME NEW c \in Opens, CloseHandle(c) PROVE OneFlight'
  BY <1>0, <1>10 DEF OneFlight, CloseHandle, TypeOK, EntryOk, AtWork
<1>11. ASSUME NEW d \in Opens, CloseSettles(d) PROVE OneFlight'
  BY <1>0, <1>11 DEF OneFlight, CloseSettles, openVars, TypeOK, EntryOk
<1>12. ASSUME NEW c \in Opens,
              Start(c) \/ Prepared(c) \/ PrepareFails(c) \/ DuplicateClosed(c)
       PROVE OneFlight'
  BY <1>0, <1>12 DEF NoStarts, OneFlight, Start, Prepared, PrepareFails, DuplicateClosed
<1>13. ASSUME UNCHANGED vars PROVE OneFlight'
  BY <1>0, <1>13 DEF OneFlight, vars, openVars, driverVars
<1> QED
  BY <1>1, <1>2, <1>3, <1>4, <1>5, <1>6, <1>7, <1>8, <1>9, <1>10, <1>11,
     <1>12, <1>13 DEF Next

(* Without starts and late failures an open driver stays wanted or is      *)
(* closed.                                                                 *)
LEMMA StepDriversKept ==
  ASSUME NoStarts, NoLateFailures, OnlyLoads, [Next]_vars
  PROVE  DriversKept'
<1> USE ManagerAssumption
<1>0. Core /\ OneFlight /\ DriversKept /\ TypeOK /\ JobOk /\ EntryOk /\ ActiveIsOpen
  BY DEF OnlyLoads, LoadInv, IInv, Core
(* A step that takes no call from its work on an entry.                    *)
<1>a. ASSUME \A x \in Opens : call[x] \in AtWork =>
                call'[x] \in AtWork /\ entry'[x] = entry[x],
             UNCHANGED <<driver, active, closing>>,
             \A x \in Opens : job[x] = "persisting" => job'[x] = "persisting"
      PROVE  DriversKept'
  BY <1>0, <1>a DEF DriversKept
<1>1. ASSUME NEW c \in Opens, Open(c) PROVE DriversKept'
  BY <1>a, <1>0, <1>1 DEF Open, driverVars, TypeOK, JobOk, AtWork
<1>2. ASSUME NEW c \in Opens, AwaitClose(c) PROVE DriversKept'
  BY <1>a, <1>0, <1>2 DEF AwaitClose, driverVars, TypeOK
<1>3. ASSUME NEW c \in Opens, CloseAwaited(c) PROVE DriversKept'
  <2>1. active = NoDriver
    BY <1>0, <1>3 DEF OneFlight, CloseAwaited
  <2>2. /\ \/ job' = [job EXCEPT ![c] = "done"]
           \/ job' = [job EXCEPT ![c] = "opening"]
        /\ UNCHANGED <<driver, active, closing>>
    BY <1>3, <2>1 DEF CloseAwaited, Reject, EndJob, driverVars
  <2> QED BY <1>0, <1>3, <2>1, <2>2 DEF DriversKept, CloseAwaited, TypeOK
<1>4. ASSUME NEW c \in Opens, Opened(c) PROVE DriversKept'
  <2>1. active = NoDriver /\ closing = NoDriver /\ driver[c] = "none"
    BY <1>0, <1>4 DEF OneFlight, Opened, JobOk
  <2>2. /\ job' = [job EXCEPT ![c] = "persisting"]
        /\ driver' = [driver EXCEPT ![c] = "open"]
        /\ UNCHANGED <<call, entry, pendingOpen, awaited, active, closing>>
    BY <1>4, <2>1 DEF NoStarts, Opened, Register
  <2> QED BY <1>0, <2>1, <2>2 DEF DriversKept, TypeOK
<1>5. ASSUME NEW c \in Opens, OpenFails(c) PROVE DriversKept'
  <2>1. active = NoDriver
    BY <1>0, <1>5 DEF OneFlight, OpenFails
  <2>2. job' = [job EXCEPT ![c] = "done"] /\ UNCHANGED <<driver, active, closing>>
    BY <1>5 DEF OpenFails, Reject, EndJob, driverVars
  <2> QED BY <1>0, <1>5, <2>1, <2>2 DEF DriversKept, OpenFails, TypeOK
<1>6. ASSUME NEW c \in Opens, Persisted(c) PROVE DriversKept'
  <2>1. active = NoDriver /\ closing = NoDriver
    BY <1>0, <1>6 DEF OneFlight, Persisted
  <2>2. Deliver(c, c) /\ active' = c /\ UNCHANGED <<driver, closing>>
        /\ job' = [job EXCEPT ![c] = "done"]
    BY <1>6, <2>1 DEF Persisted, Deliver, EndJob
  <2>3. c \in WaitingFor(c) /\ c \notin Starters
    BY <1>0, <1>6, SingleFlight DEF Persisted, NoStarts
  <2>4. entry'[c] = c /\ call'[c] \in AtWork
    BY <2>2, <2>3 DEF Deliver, AtWork
  <2> QED BY <1>0, <1>6, <2>1, <2>2, <2>4 DEF DriversKept, TypeOK
<1>7. ASSUME NEW c \in Opens, SnapshotApplied(c) PROVE DriversKept'
  BY <1>a, <1>0, <1>7 DEF SnapshotApplied, driverVars, TypeOK, AtWork
<1>8. ASSUME NEW c \in Opens, Acquire(c) PROVE DriversKept'
  BY <1>a, <1>0, <1>8 DEF Acquire, TypeOK, AtWork
<1>9. ASSUME NEW c \in Opens, CloseHandle(c) PROVE DriversKept'
  <2> DEFINE d == entry[c]
  <2>1. d \in Opens /\ call[c] = "open" /\ call'[c] = "closed" /\ entry' = entry
        /\ UNCHANGED <<job, awaited>>
    BY <1>0, <1>9 DEF CloseHandle, EntryOk, TypeOK, AtWork
  <2>2. CASE active # d
    <3>1. UNCHANGED <<active, closing, driver>>
      BY <1>9, <2>2 DEF CloseHandle
    <3>2. \A x \in Opens : entry[x] = active => call'[x] = call[x]
      BY <1>0, <1>9, <2>1, <2>2 DEF CloseHandle, TypeOK
    <3> QED BY <1>0, <2>1, <3>1, <3>2 DEF DriversKept, TypeOK, Driver
  <2>3. active = d => closing = NoDriver
    BY <1>0, <2>1 DEF OneFlight
  <2>4. CASE active = d /\ refs[d] <= 1
    <3>1. active' = NoDriver /\ closing' = d
          /\ driver' = [driver EXCEPT ![d] = "closing"]
      BY <1>9, <2>3, <2>4 DEF CloseHandle
    <3> QED BY <1>0, <2>1, <2>3, <2>4, <3>1 DEF DriversKept, TypeOK
  <2>5. CASE active = d /\ ~(refs[d] <= 1)
    <3>1. UNCHANGED <<active, closing, driver>>
      BY <1>9, <2>5 DEF CloseHandle
    <3>2. PICK x \in Opens : x # c /\ call[x] = "open" /\ entry[x] = d
      <4>1. IsFiniteSet(Handles(d)) /\ c \in Handles(d)
        BY <2>1, FS_Subset DEF Handles
      <4>2. refs[d] = Cardinality(Handles(d)) /\ refs[d] \in Nat
        BY <1>0, <2>1, <2>5 DEF OnlyLoads, LoadInv, IInv, RefCountExact, TypeOK
      <4>3. Handles(d) # {c}
        BY <2>5, <4>2, FS_Singleton
      <4> QED BY <4>1, <4>3 DEF Handles
    <3>3. call'[x] = "open"
      BY <1>0, <1>9, <3>2 DEF CloseHandle, TypeOK
    <3> QED BY <1>0, <2>1, <2>5, <3>1, <3>2, <3>3 DEF DriversKept, AtWork
  <2> QED BY <2>2, <2>4, <2>5
<1>10. ASSUME NEW d \in Opens, CloseSettles(d) PROVE DriversKept'
  BY <1>0, <1>10 DEF DriversKept, CloseSettles, openVars, TypeOK, ActiveIsOpen, OneFlight
<1>11. ASSUME NEW c \in Opens,
              \/ Start(c) \/ Prepared(c) \/ PrepareFails(c) \/ DuplicateClosed(c)
              \/ PersistFails(c) \/ SnapshotFails(c) \/ ConfigFails(c)
       PROVE DriversKept'
  BY <1>0, <1>11
     DEF NoStarts, NoLateFailures, OneFlight, Start, Prepared, PrepareFails,
         DuplicateClosed, PersistFails, SnapshotFails, ConfigFails
<1>12. ASSUME UNCHANGED vars PROVE DriversKept'
  BY <1>0, <1>12 DEF DriversKept, vars, openVars, driverVars
<1> QED
  BY <1>1, <1>2, <1>3, <1>4, <1>5, <1>6, <1>7, <1>8, <1>9, <1>10, <1>11,
     <1>12 DEF Next

(* Where a session is only loaded and resumed, whatever fails, operations  *)
(* on it follow one another.                                               *)
THEOREM LoadInvariance == ASSUME NoStarts PROVE Spec => []LoadInv
<1>1. Init => LoadInv
  BY InitInv, InitOneFlight DEF LoadInv
<1>2. LoadInv /\ [Next]_vars => LoadInv'
  BY StepInv, StepOneFlight DEF LoadInv
<1> QED BY <1>1, <1>2, PTL DEF Spec

(* Two handles whose drivers are open have one driver: of a session that   *)
(* is loaded and resumed, never started here, whatever fails.              *)
THEOREM OneDriverSharedHolds ==
  ASSUME NoStarts PROVE Spec => []OneDriverShared
<1>1. LoadInv => OneDriverShared
  BY DEF LoadInv, OneFlight, OneDriverShared, Handles, AtWork
<1> QED BY <1>1, LoadInvariance, PTL

(* With configuration and files that do not fail, every driver is wanted   *)
(* or closing.                                                             *)
THEOREM OnlyLoadsInvariance ==
  ASSUME NoStarts, NoLateFailures PROVE Spec => []OnlyLoads
<1>1. Init => OnlyLoads
  BY InitInv, InitOneFlight DEF OnlyLoads, LoadInv
<1>2. OnlyLoads /\ [Next]_vars => OnlyLoads'
  BY StepInv, StepOneFlight, StepDriversKept DEF OnlyLoads, LoadInv
<1> QED BY <1>1, <1>2, PTL DEF Spec

(* ... so no agent process stays that no handle can close, *)
THEOREM NoDriverLeakedHolds ==
  ASSUME NoStarts, NoLateFailures PROVE Spec => []NoDriverLeaked
<1>1. OnlyLoads => NoDriverLeaked
  BY ManagerAssumption DEF OnlyLoads, DriversKept, NoDriverLeaked
<1> QED BY <1>1, OnlyLoadsInvariance, PTL

(* ... and the agent is asked for a session only after the last driver of  *)
(* it closed.                                                              *)
THEOREM ReopenWaitsForCloseHolds ==
  ASSUME NoStarts, NoLateFailures PROVE Spec => []ReopenWaitsForClose
<1>1. OnlyLoads => ReopenWaitsForClose
  BY ManagerAssumption
     DEF OnlyLoads, LoadInv, OneFlight, DriversKept, ReopenWaitsForClose, Loaders
<1> QED BY <1>1, OnlyLoadsInvariance, PTL

-----------------------------------------------------------------------------
(* The promise of SharedSession.                                           *)
(* What it starts from.                                                    *)
LEMMA InitShares == Init => Shared!Init
BY DEF Init, Shared!Init, Made, Asked, Waiting, Given, Holding, AtWork, OnActive

(* A call ends nothing and gets nothing.                                   *)
Unseen ==
  /\ UNCHANGED <<driver, active, closing, Made>>
  /\ \A x \in Opens :
       /\ call'[x] = "idle" <=> call[x] = "idle"
       /\ call'[x] = "joined" <=> call[x] = "joined"
       /\ OnActive(x)' <=> OnActive(x)
       /\ OnActive(x) => /\ call'[x] = "open" <=> call[x] = "open"
                         /\ call'[x] \in AtWork <=> call[x] \in AtWork

(* ... which SharedSession does not see.                                   *)
LEMMA UnseenStutters == ASSUME Unseen PROVE UNCHANGED Shared!vars
<1>1. Asked' = Asked /\ Waiting' = Waiting
  BY DEF Unseen, Asked, Waiting
<1>2. Given' = Given /\ Holding' = Holding
  <2>1. \A x \in Opens : x \in Given' <=> x \in Given
    BY DEF Unseen, Given
  <2>2. \A x \in Opens : x \in Holding' <=> x \in Holding
    BY DEF Unseen, Holding
  <2>3. Given \subseteq Opens /\ Given' \subseteq Opens
        /\ Holding \subseteq Opens /\ Holding' \subseteq Opens
    BY DEF Given, Holding
  <2> QED BY <2>1, <2>2, <2>3
<1> QED BY <1>1, <1>2 DEF Unseen, Shared!vars

(* An operation under way is the only one, and while it asks the agent     *)
(* there is no driver.                                                     *)
LEMMA NothingThere ==
  ASSUME NoStarts, LoadInv, NEW c \in Opens, job[c] \in {"waiting", "opening", "persisting"},
         job[c] = "waiting" => (awaited # NoDriver => driver[awaited] = "closed")
  PROVE  /\ active = NoDriver /\ closing = NoDriver
         /\ \A x \in Opens : job[x] \notin {"none", "done"} => x = c
         /\ WaitingFor(c) = Waiting /\ c \in Waiting
<1>1. \A x \in Opens : job[x] \notin {"none", "done"} => x = c
  BY SingleFlight DEF LoadInv, IInv, Core
<1>2. active = NoDriver
  BY DEF LoadInv, OneFlight
<1>3. closing = NoDriver
  BY DEF LoadInv, OneFlight
<1>4. WaitingFor(c) = Waiting /\ c \in Waiting
  BY DEF NoStarts, WaitingFor, Waiting, Loaders, LoadInv, IInv, FlightOk
<1> QED BY <1>1, <1>2, <1>3, <1>4

(* The error reaches all that wait.                                        *)
LEMMA RejectRefuses ==
  ASSUME NoStarts, LoadInv, NEW c \in Opens, job[c] \in {"waiting", "opening", "persisting"},
         job[c] = "waiting" => (awaited # NoDriver => driver[awaited] = "closed"),
         Reject(c), UNCHANGED driverVars
  PROVE  Shared!Refuse
<1>1. /\ active = NoDriver /\ closing = NoDriver
      /\ \A x \in Opens : job[x] \notin {"none", "done"} => x = c
      /\ WaitingFor(c) = Waiting
  BY NothingThere
<1>2. /\ job' = [job EXCEPT ![c] = "done"] /\ entry' = entry
      /\ call' = [x \in Opens |-> IF x \in Waiting THEN "failed" ELSE call[x]]
      /\ UNCHANGED <<driver, active, closing>>
  BY <1>1 DEF Reject, EndJob, driverVars
<1>3. Made' = {}
  BY <1>1, <1>2 DEF Made, LoadInv, IInv, TypeOK
<1>4. Waiting' = {}
  BY <1>2 DEF Waiting
<1>5. Asked' = Asked
  BY <1>2 DEF Asked, Waiting
<1>6. Given' = Given /\ Holding' = Holding
  BY <1>1, <1>2 DEF Given, Holding, OnActive
<1> QED BY <1>1, <1>2, <1>3, <1>4, <1>5, <1>6 DEF Shared!Refuse

(* Every step is one of SharedSession, or unseen by it.                    *)
LEMMA StepShares ==
  ASSUME NoStarts, LoadInv, [Next]_vars
  PROVE  Shared!Next \/ UNCHANGED Shared!vars
<1> USE ManagerAssumption
<1>0. TypeOK /\ FlightOk /\ JobOk /\ EntryOk /\ ActiveIsOpen /\ RefCountExact /\ OneFlight
  BY DEF LoadInv, IInv
<1> DEFINE Ok == Shared!Next \/ UNCHANGED Shared!vars
<1>1. ASSUME NEW c \in Opens, Open(c) PROVE Ok
  <2>1. /\ c \in Opens /\ call[c] = "idle" /\ c \notin Asked
        /\ UNCHANGED <<driver, active, closing>>
    BY <1>1 DEF Open, Asked, driverVars
  <2>2. CASE active # NoDriver
    <3>1. /\ call' = [call EXCEPT ![c] = "configuring"]
          /\ entry' = [entry EXCEPT ![c] = active] /\ job' = job
      BY <1>1, <2>2 DEF Open
    <3>2. Asked' = Asked \cup {c} /\ Waiting' = Waiting /\ Made' = Made
      BY <1>0, <2>1, <3>1 DEF Asked, Waiting, Made, TypeOK
    <3>3. Given' = Given \cup {c}
      BY <1>0, <2>1, <2>2, <3>1 DEF Given, OnActive, TypeOK, AtWork
    <3>4. Holding' = Holding
      BY <1>0, <2>1, <2>2, <3>1 DEF Holding, OnActive, TypeOK
    <3>5. Shared!Join(c)
      BY <2>1, <2>2, <3>2, <3>3, <3>4 DEF Shared!Join, Shared!Asks
    <3> QED BY <3>5 DEF Shared!Next
  <2>3. CASE active = NoDriver
    <3>1. /\ call' = [call EXCEPT ![c] = "joined"] /\ entry' = entry
          /\ job' = job \/ job' = [job EXCEPT ![c] = "begun"]
      BY <1>1, <2>3 DEF Open
    <3>2. job[c] = "none"
      BY <1>0, <2>1 DEF JobOk
    <3>3. Asked' = Asked \cup {c} /\ Waiting' = Waiting \cup {c}
      BY <1>0, <2>1, <3>1 DEF Asked, Waiting, TypeOK
    <3>4. Made' = Made
      BY <1>0, <3>1, <3>2 DEF Made, TypeOK
    <3>5. Given' = Given /\ Holding' = Holding
      BY <2>1, <2>3 DEF Given, Holding, OnActive
    <3>6. Shared!Wait(c)
      BY <2>1, <2>3, <3>3, <3>4, <3>5 DEF Shared!Wait, Shared!Asks
    <3> QED BY <3>6 DEF Shared!Next
  <2> QED BY <2>2, <2>3
<1>2. ASSUME NEW c \in Opens, AwaitClose(c) PROVE Ok
  <2>1. Made' = Made
    BY <1>0, <1>2 DEF AwaitClose, Made, TypeOK
  <2>2. Unseen
    BY <1>2, <2>1 DEF AwaitClose, driverVars, Unseen, OnActive
  <2> QED BY <2>2, UnseenStutters
<1>3. ASSUME NEW c \in Opens, CloseAwaited(c) PROVE Ok
  <2>1. /\ job[c] = "waiting"
        /\ awaited # NoDriver => driver[awaited] = "closed"
        /\ UNCHANGED driverVars
    BY <1>3 DEF CloseAwaited
  <2>2. active = NoDriver
    BY <2>1, NothingThere
  <2>3. CASE awaited \in closeFailed
    <3>1. Shared!Refuse
      BY <1>3, <2>1, <2>3, RejectRefuses DEF CloseAwaited
    <3> QED BY <3>1 DEF Shared!Next
  <2>4. CASE awaited \notin closeFailed
    <3>1. job' = [job EXCEPT ![c] = "opening"] /\ UNCHANGED <<call, entry>>
      BY <1>3, <2>2, <2>4 DEF CloseAwaited
    <3>2. Made' = Made
      BY <1>0, <2>1, <3>1 DEF Made, TypeOK
    <3>3. Unseen
      BY <2>1, <3>1, <3>2 DEF driverVars, Unseen, OnActive
    <3> QED BY <3>3, UnseenStutters
  <2> QED BY <2>3, <2>4
<1>4. ASSUME NEW c \in Opens, Opened(c) PROVE Ok
  <2>1. job[c] = "opening" /\ driver[c] = "none"
    BY <1>0, <1>4 DEF Opened, JobOk
  <2>2. /\ active = NoDriver /\ closing = NoDriver
        /\ \A x \in Opens : job[x] \notin {"none", "done"} => x = c
        /\ c \in Waiting
    BY <2>1, NothingThere
  <2>3. /\ job' = [job EXCEPT ![c] = "persisting"]
        /\ driver' = [driver EXCEPT ![c] = "open"]
        /\ UNCHANGED <<call, entry, active, closing>>
    BY <1>4, <2>2 DEF NoStarts, Opened, Register
  <2>4. Made = {} /\ Made' = {c}
    BY <1>0, <2>1, <2>2, <2>3 DEF Made, TypeOK
  <2>5. UNCHANGED <<Asked, Waiting, Given, Holding>>
    BY <2>3 DEF Asked, Waiting, Given, Holding, OnActive
  <2>6. Shared!Make(c)
    BY <2>1, <2>2, <2>3, <2>4, <2>5 DEF Shared!Make, Shared!Absent
  <2> QED BY <2>6 DEF Shared!Next
<1>5. ASSUME NEW c \in Opens, OpenFails(c) \/ PersistFails(c) PROVE Ok
  <2>1. job[c] \in {"opening", "persisting"} /\ Reject(c) /\ UNCHANGED driverVars
    BY <1>5 DEF OpenFails, PersistFails
  <2>2. Shared!Refuse
    BY <2>1, RejectRefuses
  <2> QED BY <2>2 DEF Shared!Next
<1>6. ASSUME NEW c \in Opens, Persisted(c) PROVE Ok
  <2>1. job[c] = "persisting"
    BY <1>6 DEF Persisted
  <2>2. /\ active = NoDriver /\ closing = NoDriver
        /\ \A x \in Opens : job[x] \notin {"none", "done"} => x = c
        /\ WaitingFor(c) = Waiting
    BY <2>1, NothingThere
  <2>3. /\ active' = c /\ job' = [job EXCEPT ![c] = "done"]
        /\ call' = [x \in Opens |-> IF x \in Waiting THEN "restoring" ELSE call[x]]
        /\ entry' = [x \in Opens |-> IF x \in Waiting THEN c ELSE entry[x]]
        /\ UNCHANGED <<driver, closing>>
    BY <1>6, <2>2 DEF Persisted, Deliver, EndJob, NoStarts
  <2>4. Made = {c} /\ Made' = {}
    BY <1>0, <2>1, <2>2, <2>3 DEF Made, TypeOK
  <2>5. Waiting' = {} /\ Asked' = Asked
    BY <2>3 DEF Waiting, Asked
  <2>6. \A x \in Opens : call[x] \in AtWork => entry[x] # c
    BY <1>0, <2>1 DEF EntryOk
  <2>7. Given' = Waiting
    BY <2>3, <2>6 DEF Given, OnActive, Waiting, AtWork
  <2>8. Holding = {} /\ Holding' = {}
    BY <2>2, <2>3, <2>6 DEF Holding, OnActive, AtWork
  <2>9. Shared!Share
    BY <2>2, <2>3, <2>4, <2>5, <2>7, <2>8 DEF Shared!Share
  <2> QED BY <2>9 DEF Shared!Next
<1>7. ASSUME NEW c \in Opens, SnapshotApplied(c) PROVE Ok
  <2>1. Unseen
    BY <1>0, <1>7 DEF SnapshotApplied, driverVars, Unseen, OnActive, Made, TypeOK, AtWork
  <2> QED BY <2>1, UnseenStutters
(* A call fails and closes nothing.                                        *)
<1>a. ASSUME NEW c \in Opens, call[c] \in {"restoring", "configuring"},
             call' = [call EXCEPT ![c] = "failed"],
             UNCHANGED <<entry, job, driver, active, closing>>
      PROVE  Ok
  <2>1. CASE OnActive(c)
    <3>1. UNCHANGED <<Made, Asked, Waiting, Holding>>
      BY <1>0, <1>a DEF Made, Asked, Waiting, Holding, OnActive, TypeOK
    <3>2. c \in Given /\ Given' = Given \ {c}
      BY <1>0, <1>a, <2>1 DEF Given, OnActive, TypeOK, AtWork
    <3>3. Shared!GiveUp(c)
      BY <1>a, <3>1, <3>2 DEF Shared!GiveUp
    <3> QED BY <3>3 DEF Shared!Next
  <2>2. CASE ~OnActive(c)
    <3>1. Unseen
      BY <1>0, <1>a, <2>2 DEF Unseen, OnActive, Made, TypeOK
    <3> QED BY <3>1, UnseenStutters
  <2> QED BY <2>1, <2>2
<1>8. ASSUME NEW c \in Opens, SnapshotFails(c) PROVE Ok
  BY <1>a, <1>8 DEF SnapshotFails, driverVars
<1>9. ASSUME NEW c \in Opens, Acquire(c) PROVE Ok
  <2>1. /\ call[c] \in {"configuring", "acquiring"} /\ call' = [call EXCEPT ![c] = "open"]
        /\ UNCHANGED <<entry, job, driver, active, closing>>
    BY <1>9 DEF Acquire
  <2>2. CASE OnActive(c)
    <3>1. UNCHANGED <<Made, Asked, Waiting>>
      BY <1>0, <2>1 DEF Made, Asked, Waiting, TypeOK
    <3>2. c \in Given /\ Given' = Given \ {c}
      BY <1>0, <2>1, <2>2 DEF Given, OnActive, TypeOK, AtWork
    <3>3. Holding' = Holding \cup {c}
      BY <1>0, <2>1, <2>2 DEF Holding, OnActive, TypeOK
    <3>4. Shared!Enter(c)
      BY <2>1, <3>1, <3>2, <3>3 DEF Shared!Enter
    <3> QED BY <3>4 DEF Shared!Next
  <2>3. CASE ~OnActive(c)
    <3>1. Unseen
      BY <1>0, <2>1, <2>3 DEF Unseen, OnActive, Made, TypeOK
    <3> QED BY <3>1, UnseenStutters
  <2> QED BY <2>2, <2>3
(* The handles counted are the holders.                                    *)
<1>b. active # NoDriver => /\ Holding = Handles(active) /\ IsFiniteSet(Holding)
                           /\ refs[active] = Cardinality(Holding)
  BY <1>0, FS_Subset DEF Holding, Handles, OnActive, RefCountExact
<1>10. ASSUME NEW c \in Opens, ConfigFails(c) PROVE Ok
  <2>1. /\ call[c] = "configuring" /\ call' = [call EXCEPT ![c] = "failed"]
        /\ UNCHANGED <<entry, job, closing>>
    BY <1>10 DEF ConfigFails
  <2>2. CASE ~(refs[entry[c]] = 0 /\ active = entry[c])
    BY <1>a, <1>10, <2>1, <2>2 DEF ConfigFails
  <2>3. CASE refs[entry[c]] = 0 /\ active = entry[c]
    <3>1. active \in Opens /\ active' = NoDriver
          /\ driver' = [driver EXCEPT ![active] = "closing"]
      BY <1>0, <1>10, <2>1, <2>3 DEF ConfigFails, EntryOk, AtWork
    <3>2. Holding = {}
      BY <1>b, <2>3, <3>1, FS_EmptySet
    <3>3. UNCHANGED <<Made, Asked, Waiting>>
      BY <1>0, <2>1 DEF Made, Asked, Waiting, TypeOK
    <3>4. c \in Given
      BY <2>1, <2>3, <3>1 DEF Given, OnActive, AtWork
    <3>5. Given' = {} /\ Holding' = {}
      BY <3>1 DEF Given, Holding, OnActive
    <3>6. driver' = [d \in Opens |-> IF d \in {active} \ {NoDriver} THEN "closing"
                                     ELSE driver[d]]
      BY <1>0, <3>1 DEF TypeOK
    <3>7. Shared!Discard(c)
      BY <2>1, <3>1, <3>2, <3>3, <3>4, <3>5, <3>6 DEF Shared!Discard, Shared!Closing
    <3> QED BY <3>7 DEF Shared!Next
  <2> QED BY <2>2, <2>3
<1>11. ASSUME NEW c \in Opens, CloseHandle(c) PROVE Ok
  <2> DEFINE d == entry[c]
  <2>1. /\ call[c] = "open" /\ call' = [call EXCEPT ![c] = "closed"]
        /\ d \in Opens /\ UNCHANGED <<entry, job>>
    BY <1>0, <1>11 DEF CloseHandle, EntryOk, AtWork
  <2>2. UNCHANGED <<Made, Asked, Waiting>>
    BY <1>0, <2>1 DEF Made, Asked, Waiting, TypeOK
  <2>3. CASE active # d
    <3>1. UNCHANGED <<driver, active, closing>>
      BY <1>11, <2>3 DEF CloseHandle
    <3>2. Unseen
      BY <1>0, <2>1, <2>2, <2>3, <3>1 DEF Unseen, OnActive, TypeOK
    <3> QED BY <3>2, UnseenStutters
  <2>4. CASE active = d
    <3>1. active # NoDriver /\ closing = NoDriver /\ c \in Holding
      BY <1>0, <2>1, <2>4 DEF OneFlight, Holding, OnActive
    <3>2. refs[d] <= 1 <=> Holding = {c}
      <4>1. IsFiniteSet(Holding) /\ refs[d] = Cardinality(Holding)
        BY <1>b, <2>4, <3>1
      <4>2. Cardinality({c}) = 1
        BY FS_Singleton
      <4>3. Cardinality(Holding) \in Nat
        BY <4>1, FS_CardinalityType
      <4>4. ASSUME Cardinality(Holding) <= 1 PROVE Holding = {c}
        <5>1. {c} \subseteq Holding /\ Cardinality({c}) <= Cardinality(Holding)
          BY <3>1, <4>1, FS_Subset
        <5> QED BY <4>1, <4>2, <4>3, <4>4, <5>1, FS_Subset
      <4> QED BY <4>1, <4>2, <4>4
    <3>3. CASE refs[d] <= 1
      <4>1. /\ active' = NoDriver /\ closing' = active
            /\ driver' = [driver EXCEPT ![active] = "closing"]
        BY <1>11, <2>4, <3>1, <3>3 DEF CloseHandle
      <4>2. driver' = [x \in Opens |-> IF x \in {active} \ {NoDriver} THEN "closing"
                                       ELSE driver[x]]
        BY <1>0, <2>1, <2>4, <4>1 DEF TypeOK
      <4>3. Given' = {} /\ Holding' = {}
        BY <4>1 DEF Given, Holding, OnActive
      <4>4. Shared!Leave(c)
        BY <2>2, <3>1, <3>2, <3>3, <4>1, <4>2, <4>3 DEF Shared!Leave, Shared!Closing
      <4> QED BY <4>4 DEF Shared!Next
    <3>4. CASE ~(refs[d] <= 1)
      <4>1. UNCHANGED <<driver, active, closing>>
        BY <1>11, <2>4, <3>4 DEF CloseHandle
      <4>2. Holding' = Holding \ {c} /\ Given' = Given
        BY <1>0, <2>1, <4>1 DEF Holding, Given, OnActive, TypeOK, AtWork
      <4>3. Shared!Leave(c)
        BY <2>2, <3>1, <3>2, <3>4, <4>1, <4>2 DEF Shared!Leave
      <4> QED BY <4>3 DEF Shared!Next
    <3> QED BY <3>3, <3>4
  <2> QED BY <2>3, <2>4
<1>12. ASSUME NEW d \in Opens, CloseSettles(d) PROVE Ok
  <2>1. /\ driver[d] = "closing" /\ driver' = [driver EXCEPT ![d] = "closed"]
        /\ closing' = IF closing = d THEN NoDriver ELSE closing
        /\ UNCHANGED <<call, entry, job, active>>
    BY <1>12 DEF CloseSettles, openVars
  <2>2. {closing'} \ {NoDriver} = ({closing} \ {NoDriver}) \ {d}
    BY <2>1
  <2>3. UNCHANGED <<Made, Asked, Waiting, Given, Holding>>
    BY <2>1 DEF Made, Asked, Waiting, Given, Holding, OnActive
  <2>4. Shared!Ended(d)
    BY <2>1, <2>2, <2>3 DEF Shared!Ended
  <2> QED BY <2>4 DEF Shared!Next
<1>13. ASSUME NEW c \in Opens,
              Start(c) \/ Prepared(c) \/ PrepareFails(c) \/ DuplicateClosed(c)
       PROVE  Ok
  BY <1>0, <1>13 DEF NoStarts, OneFlight, Start, Prepared, PrepareFails, DuplicateClosed
<1>14. ASSUME UNCHANGED vars PROVE Ok
  <2>1. Unseen
    BY <1>14 DEF vars, openVars, driverVars, Unseen, OnActive, Made
  <2> QED BY <2>1, UnseenStutters
<1> HIDE DEF Ok
<1>15. Ok
  BY <1>1, <1>2, <1>3, <1>4, <1>5, <1>6, <1>7, <1>8, <1>9, <1>10, <1>11, <1>12,
     <1>13, <1>14 DEF Next
<1> QED BY <1>15 DEF Ok

(* A session that is only loaded and resumed, with whatever may fail: the  *)
(* counts and maps of the runtime keep the promise of SharedSession, one   *)
(* driver for those who hold it, closed with the last of them, and no      *)
(* other before it has ended.                                              *)
THEOREM SharesHolds == ASSUME NoStarts PROVE Spec => Shares
<1>1. Init => Shared!Init
  BY InitShares
<1>2. LoadInv /\ [Next]_vars => [Shared!Next]_(Shared!vars)
  BY StepShares
<1>3. Spec => Shared!Spec
  BY <1>1, <1>2, LoadInvariance, PTL DEF Spec, Shared!Spec
<1> QED BY <1>3 DEF Shares
==============================================================================
