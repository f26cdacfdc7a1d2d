--------------------------- MODULE SessionManager ---------------------------
(***************************************************************************)
(* How AcpRuntime (src/runtime/core/runtime.ts) shares session drivers     *)
(* among session handles, for one session id: different ids share nothing  *)
(* but the maps that hold them.                                            *)
(*                                                                         *)
(* An open call (sessions.load, resume, start or fork) ends with a handle  *)
(* or an error.  load and resume take the active entry of their id, or     *)
(* join the one operation pendingOpens runs for it; start and fork always  *)
(* create a driver, whose id the agent chooses afresh.  A step is what     *)
(* runs between two awaits; awaits that only pass a settled promise on     *)
(* (hydrate, the finally of SingleFlight) are part of the step they end.   *)
(*                                                                         *)
(* A driver is named after the open call that created it.  What a driver   *)
(* does with turns is the subject of SessionDriver; here it is open, being *)
(* closed, or closed.                                                      *)
(***************************************************************************)
EXTENDS Naturals, FiniteSets

CONSTANTS
  Opens,        \* open calls for the session id
  Starters,     \* the ones that are start or fork
  NoDriver,     \* an absent map entry
  Environment   \* what may fail in this instance

(* session/new and session/fork never return one id twice.                 *)
ASSUME ManagerAssumption ==
  /\ IsFiniteSet(Opens) /\ Starters \subseteq Opens
  /\ \A c, d \in Starters : c = d
  /\ NoDriver \notin Opens
  /\ Environment \subseteq {"openFailures", "configFailures",
                            "persistFailures", "closeFailures"}

VARIABLES
  call,         \* where an open call, and then its handle, is
  entry,        \* the managed entry an open call has in hand
  job,          \* where the creation of a driver by an open call is
  driver,       \* life of the driver an open call created
  refs,         \* refCount of its entry
  active,       \* activeSessions: the driver of the active entry
  pendingOpen,  \* pendingOpens: the call whose operation runs
  closing,      \* closingSessions: the driver whose close() is awaited
  awaited,      \* the closing driver that operation waits for
  closeFailed   \* drivers whose close() rejected

openVars   == <<call, entry, job, pendingOpen, awaited>>
driverVars == <<driver, refs, active, closing, closeFailed>>
vars       == <<openVars, driverVars>>

Loaders   == Opens \ Starters
Driver    == Opens \cup {NoDriver}
CallState == {"idle", "joined", "restoring", "configuring", "acquiring",
              "open", "closed", "failed"}
JobState  == {"none", "begun", "waiting", "opening", "preparing", "persisting",
              "cleaning", "done"}
Life      == {"none", "open", "closing", "closed"}

Init ==
  /\ call = [c \in Opens |-> "idle"]
  /\ entry = [c \in Opens |-> NoDriver]
  /\ job = [c \in Opens |-> "none"]
  /\ driver = [c \in Opens |-> "none"]
  /\ refs = [c \in Opens |-> 0]
  /\ active = NoDriver
  /\ pendingOpen = NoDriver
  /\ closing = NoDriver
  /\ awaited = NoDriver
  /\ closeFailed = {}
-----------------------------------------------------------------------------
(* Pieces of the handlers.  A "slip" is not part of the specification: it  *)
(* is what the operator after it would be if that code had a plausible     *)
(* mistake, and some property is violated with it in its place.            *)

(* The calls that await the driver c creates.                              *)
WaitingFor(c) == IF c \in Starters THEN {c}
                 ELSE {x \in Loaders : call[x] = "joined"}

(* The creation by c is over: every call that waits for it gets the entry  *)
(* of driver d, or the error.                                              *)
EndJob(c) ==
  /\ job' = [job EXCEPT ![c] = "done"]
  /\ pendingOpen' = IF pendingOpen = c THEN NoDriver ELSE pendingOpen

Deliver(c, d) ==
  /\ EndJob(c)
  /\ call' = [x \in Opens |->
                IF x \notin WaitingFor(c) THEN call[x]
                ELSE IF c \in Starters THEN "acquiring" ELSE "restoring"]
  /\ entry' = [x \in Opens |-> IF x \in WaitingFor(c) THEN d ELSE entry[x]]

(* Slip: only the call that began the operation hears of its failure.      *)
RejectFirst(c) ==
  /\ EndJob(c)
  /\ call' = [call EXCEPT ![c] = "failed"]
  /\ UNCHANGED entry

Reject(c) ==
  /\ EndJob(c)
  /\ call' = [x \in Opens |-> IF x \in WaitingFor(c) THEN "failed" ELSE call[x]]
  /\ UNCHANGED entry

(* registerManagedSessionEntry finds another driver of the id registered   *)
(* and closes the one c created.                                           *)
CloseDuplicate(c) ==
  /\ job' = [job EXCEPT ![c] = "cleaning"]
  /\ entry' = [entry EXCEPT ![c] = active]
  /\ driver' = [driver EXCEPT ![c] = "closing"]
  /\ UNCHANGED <<call, pendingOpen>>

(* registerManagedSessionEntry up to its first await.                      *)
Register(c) ==
  IF active # NoDriver THEN CloseDuplicate(c)
  ELSE /\ job' = [job EXCEPT ![c] = "persisting"]
       /\ driver' = [driver EXCEPT ![c] = "open"]
       /\ UNCHANGED <<call, entry, pendingOpen>>
-----------------------------------------------------------------------------
(* The id of a session started here is unknown before the agent gives it.  *)
Known == \A c \in Starters : job[c] \notin {"none", "opening"}

(* loadSession and resumeSession: an active entry is taken at once; without*)
(* one the call joins the operation of pendingOpens, or begins it.         *)
Open(c) ==
  /\ c \in Loaders /\ call[c] = "idle" /\ Known
  /\ IF active # NoDriver
     THEN /\ call' = [call EXCEPT ![c] = "configuring"]
          /\ entry' = [entry EXCEPT ![c] = active]
          /\ UNCHANGED <<job, pendingOpen>>
     ELSE /\ call' = [call EXCEPT ![c] = "joined"]
          /\ IF pendingOpen = NoDriver
             THEN pendingOpen' = c /\ job' = [job EXCEPT ![c] = "begun"]
             ELSE UNCHANGED <<job, pendingOpen>>
          /\ UNCHANGED entry
  /\ UNCHANGED <<awaited, driverVars>>

(* Slip: nothing waits for a session that is being closed.                 *)
AwaitNothing(c) ==
  /\ job[c] = "begun"
  /\ job' = [job EXCEPT ![c] = "waiting"]
  /\ UNCHANGED <<call, entry, pendingOpen, awaited, driverVars>>

(* The operation calls waitForSessionClose.                                *)
AwaitClose(c) ==
  /\ job[c] = "begun"
  /\ job' = [job EXCEPT ![c] = "waiting"]
  /\ awaited' = closing
  /\ UNCHANGED <<call, entry, pendingOpen, driverVars>>

(* ... and goes on, unless the close it waited for failed, with an entry   *)
(* that became active meanwhile, or asks the agent for the session.        *)
CloseAwaited(c) ==
  /\ job[c] = "waiting"
  /\ awaited # NoDriver => driver[awaited] = "closed"
  /\ awaited' = NoDriver
  /\ IF awaited \in closeFailed THEN Reject(c)
     ELSE IF active # NoDriver THEN Deliver(c, active)
     ELSE /\ job' = [job EXCEPT ![c] = "opening"]
          /\ UNCHANGED <<call, entry, pendingOpen>>
  /\ UNCHANGED driverVars

(* startSession and forkSession: the service creates a driver.             *)
Start(c) ==
  /\ c \in Starters /\ call[c] = "idle"
  /\ call' = [call EXCEPT ![c] = "joined"]
  /\ job' = [job EXCEPT ![c] = "opening"]
  /\ UNCHANGED <<entry, pendingOpen, awaited, driverVars>>

(* The agent opened the session: start configures it, load registers it.   *)
Opened(c) ==
  /\ job[c] = "opening"
  /\ IF c \in Starters
     THEN /\ job' = [job EXCEPT ![c] = "preparing"]
          /\ driver' = [driver EXCEPT ![c] = "open"]
          /\ UNCHANGED <<call, entry, pendingOpen>>
     ELSE Register(c)
  /\ UNCHANGED <<awaited, refs, active, closing, closeFailed>>

OpenFails(c) ==
  /\ "openFailures" \in Environment
  /\ job[c] = "opening"
  /\ Reject(c)
  /\ UNCHANGED <<awaited, driverVars>>

(* start applies the initial configuration before it registers the driver. *)
Prepared(c) ==
  /\ job[c] = "preparing"
  /\ Register(c)
  /\ UNCHANGED <<awaited, refs, active, closing, closeFailed>>

PrepareFails(c) ==
  /\ "configFailures" \in Environment
  /\ job[c] = "preparing"
  /\ Reject(c)
  /\ driver' = [driver EXCEPT ![c] = "closing"]
  /\ UNCHANGED <<awaited, refs, active, closing, closeFailed>>

(* registerManagedSessionEntry after rememberSnapshot: it looks again.     *)
Persisted(c) ==
  /\ job[c] = "persisting"
  /\ IF active # NoDriver
     THEN CloseDuplicate(c) /\ UNCHANGED <<active, refs>>
     ELSE /\ active' = c
          /\ refs' = [refs EXCEPT ![c] = 0]
          /\ Deliver(c, c)
          /\ UNCHANGED driver
  /\ UNCHANGED <<awaited, closing, closeFailed>>

PersistFails(c) ==
  /\ "persistFailures" \in Environment
  /\ job[c] = "persisting"
  /\ Reject(c)
  /\ UNCHANGED <<awaited, driverVars>>

(* The duplicate is closed; the calls get the entry found before.          *)
DuplicateClosed(c) ==
  /\ job[c] = "cleaning" /\ driver[c] = "closed"
  /\ Deliver(c, entry[c])
  /\ UNCHANGED <<awaited, driverVars>>
-----------------------------------------------------------------------------
(* applySnapshotConfigForOpen.                                             *)
SnapshotApplied(c) ==
  /\ call[c] = "restoring"
  /\ call' = [call EXCEPT ![c] = "configuring"]
  /\ UNCHANGED <<entry, job, pendingOpen, awaited, driverVars>>

SnapshotFails(c) ==
  /\ Environment \cap {"configFailures", "persistFailures"} # {}
  /\ call[c] = "restoring"
  /\ call' = [call EXCEPT ![c] = "failed"]
  /\ UNCHANGED <<entry, job, pendingOpen, awaited, driverVars>>

(* applyInitialConfigForOpen succeeds; acquireSessionHandle follows.       *)
Acquire(c) ==
  /\ call[c] \in {"configuring", "acquiring"}
  /\ call' = [call EXCEPT ![c] = "open"]
  /\ refs' = [refs EXCEPT ![entry[c]] = @ + 1]
  /\ UNCHANGED <<entry, job, pendingOpen, awaited, driver, active, closing,
                 closeFailed>>

(* Slip: the driver is closed without a look at refCount.                  *)
ConfigFailsHard(c) ==
  /\ "configFailures" \in Environment
  /\ call[c] = "configuring" /\ active = entry[c]
  /\ call' = [call EXCEPT ![c] = "failed"]
  /\ active' = NoDriver
  /\ driver' = [driver EXCEPT ![entry[c]] = "closing"]
  /\ UNCHANGED <<entry, job, pendingOpen, awaited, refs, closing, closeFailed>>

(* Slip: the closed driver stays in activeSessions.                        *)
ConfigFailsKeepingEntry(c) ==
  /\ "configFailures" \in Environment
  /\ call[c] = "configuring" /\ refs[entry[c]] = 0
  /\ call' = [call EXCEPT ![c] = "failed"]
  /\ driver' = [driver EXCEPT ![entry[c]] = "closing"]
  /\ UNCHANGED <<entry, job, pendingOpen, awaited, refs, active, closing,
                 closeFailed>>

(* applyInitialConfigForOpen fails; an entry nobody holds is closed.       *)
ConfigFails(c) ==
  LET d == entry[c]
  IN /\ "configFailures" \in Environment
     /\ call[c] = "configuring"
     /\ call' = [call EXCEPT ![c] = "failed"]
     /\ IF refs[d] = 0 /\ active = d
        THEN /\ active' = NoDriver
             /\ driver' = [driver EXCEPT ![d] = "closing"]
        ELSE UNCHANGED <<active, driver>>
     /\ UNCHANGED <<entry, job, pendingOpen, awaited, refs, closing,
                    closeFailed>>

(* Slip: releaseSession does not compare the driver with the active one.   *)
CloseHandleById(c) ==
  /\ call[c] = "open" /\ active # NoDriver
  /\ call' = [call EXCEPT ![c] = "closed"]
  /\ refs' = [refs EXCEPT ![active] = IF @ = 0 THEN 0 ELSE @ - 1]
  /\ UNCHANGED <<entry, job, pendingOpen, awaited, driver, active, closing,
                 closeFailed>>

(* Slip: any close takes the entry out of activeSessions.                  *)
CloseHandleDropsEntry(c) ==
  /\ call[c] = "open"
  /\ call' = [call EXCEPT ![c] = "closed"]
  /\ refs' = [refs EXCEPT ![entry[c]] = @ - 1]
  /\ active' = NoDriver
  /\ UNCHANGED <<entry, job, pendingOpen, awaited, driver, closing,
                 closeFailed>>

(* AcpRuntimeSession.close, once per handle, and releaseSession: the last  *)
(* handle closes the driver, unless a close is already awaited for the id. *)
CloseHandle(c) ==
  LET d == entry[c]
      last == refs[d] <= 1
  IN /\ call[c] = "open"
     /\ call' = [call EXCEPT ![c] = "closed"]
     /\ IF active # d THEN UNCHANGED <<refs, active, closing, driver>>
        ELSE /\ refs' = [refs EXCEPT ![d] = IF last THEN 0 ELSE @ - 1]
             /\ active' = IF last THEN NoDriver ELSE active
             /\ IF last /\ closing = NoDriver
                THEN /\ closing' = d
                     /\ driver' = [driver EXCEPT ![d] = "closing"]
                ELSE UNCHANGED <<closing, driver>>
     /\ UNCHANGED <<entry, job, pendingOpen, awaited, closeFailed>>

(* driver.close() settles; closingSessions forgets it.                     *)
CloseSettles(d) ==
  /\ driver[d] = "closing"
  /\ driver' = [driver EXCEPT ![d] = "closed"]
  /\ closing' = IF closing = d THEN NoDriver ELSE closing
  /\ \/ UNCHANGED closeFailed
     \/ "closeFailures" \in Environment /\ closeFailed' = closeFailed \cup {d}
  /\ UNCHANGED <<openVars, refs, active>>
-----------------------------------------------------------------------------
Next ==
  \E c \in Opens :
    \/ Open(c)
    \/ AwaitClose(c)
    \/ CloseAwaited(c)
    \/ Start(c)
    \/ Opened(c)
    \/ OpenFails(c)
    \/ Prepared(c)
    \/ PrepareFails(c)
    \/ Persisted(c)
    \/ PersistFails(c)
    \/ DuplicateClosed(c)
    \/ SnapshotApplied(c)
    \/ SnapshotFails(c)
    \/ Acquire(c)
    \/ ConfigFails(c)
    \/ CloseHandle(c)
    \/ CloseSettles(c)

Spec == Init /\ [][Next]_vars

(* The agent answers session/new, load and configuration requests, or the  *)
(* connection fails them; files get written; close() ends (dispose).       *)
Fairness ==
  \A c \in Opens :
    /\ WF_vars(AwaitClose(c)) /\ WF_vars(CloseAwaited(c))
    /\ WF_vars(Opened(c) \/ OpenFails(c))
    /\ WF_vars(Prepared(c) \/ PrepareFails(c))
    /\ WF_vars(Persisted(c) \/ PersistFails(c))
    /\ WF_vars(DuplicateClosed(c))
    /\ WF_vars(SnapshotApplied(c) \/ SnapshotFails(c))
    /\ WF_vars(Acquire(c) \/ ConfigFails(c))
    /\ WF_vars(CloseSettles(c))

FairSpec == Spec /\ Fairness
-----------------------------------------------------------------------------
(* Properties.                                                             *)

TypeOK ==
  /\ call \in [Opens -> CallState]
  /\ entry \in [Opens -> Driver]
  /\ job \in [Opens -> JobState]
  /\ driver \in [Opens -> Life]
  /\ refs \in [Opens -> Nat]
  /\ active \in Driver /\ pendingOpen \in Driver
  /\ closing \in Driver /\ awaited \in Driver
  /\ closeFailed \subseteq Opens

Handles(d) == {c \in Opens : call[c] = "open" /\ entry[c] = d}

(* activeSessions never offers a closed driver to the next open call,      *)
(* whatever failed or was closed while a call was under way.               *)
ActiveIsOpen == active # NoDriver => driver[active] = "open"

(* The count that decides when the driver closes is the number of open     *)
(* handles, over every interleaving of acquiring, closing and failing.     *)
RefCountExact == active # NoDriver => refs[active] = Cardinality(Handles(active))

(* Closing one handle, or a failing open call, never closes the driver     *)
(* under a handle somebody else holds.                                     *)
SiblingsSurvive ==
  [][\A d \in Opens :
       driver[d] = "open" /\ driver'[d] # "open" => Handles(d)' = {}]_vars

(* Handles whose drivers are open share one driver.                        *)
OneDriverShared ==
  \A c, d \in Opens :
    Handles(c) # {} /\ Handles(d) # {} /\ driver[c] = "open" /\ driver[d] = "open"
      => c = d

(* Nothing keeps an agent process alive that no one can close: an open     *)
(* driver is being created, or active with a handle on it or a call that   *)
(* will get one.                                                           *)
AtWork == {"restoring", "configuring", "acquiring", "open"}

NoDriverLeaked ==
  \A d \in Opens :
    driver[d] = "open" =>
      \/ job[d] \in {"preparing", "persisting"}
      \/ active = d /\ \E c \in Opens : entry[c] = d /\ call[c] \in AtWork

(* load and resume do not ask an agent for a session while an earlier      *)
(* driver of it is being closed.                                           *)
ReopenWaitsForClose ==
  \A c \in Loaders :
    job[c] = "opening" => \A d \in Opens : driver[d] # "closing"

(* An open handle has an open driver.                                      *)
HandleHasDriver ==
  \A c \in Opens : call[c] = "open" => driver[entry[c]] = "open"

(* The inductive invariant.                                                *)

(* pendingOpens holds the one load or resume operation that is under way,  *)
(* and whoever creates a driver waits for it.                              *)
FlightOk ==
  /\ \A c \in Loaders : job[c] \notin {"none", "done"} <=> pendingOpen = c
  /\ \A c \in Starters : job[c] \notin {"begun", "waiting"} /\ pendingOpen # c
  /\ \A c \in Opens : job[c] \notin {"none", "done"} => call[c] = "joined"

(* A driver is open and unregistered until its creation is over.           *)
JobOk ==
  \A c \in Opens :
    /\ call[c] = "idle" => job[c] = "none"
    /\ job[c] \in {"none", "begun", "waiting", "opening"} => driver[c] = "none"
    /\ job[c] \in {"preparing", "persisting"} => driver[c] = "open"
    /\ job[c] = "cleaning" =>
         /\ driver[c] \in {"closing", "closed"}
         /\ entry[c] \in Opens /\ job[entry[c]] = "done"
    /\ active = c => job[c] = "done"

(* A call that has an entry has one that was registered.                   *)
EntryOk ==
  \A c \in Opens :
    call[c] \in AtWork => entry[c] \in Opens /\ job[entry[c]] = "done"

IInv == TypeOK /\ FlightOk /\ JobOk /\ EntryOk /\ ActiveIsOpen /\ RefCountExact

(* Where the session is only loaded and resumed, an operation begins when  *)
(* no driver is active and ends before another is; a close that is awaited *)
(* is over by then, and calls at work on an open driver have the active one.*)
NoStarts == Starters = {}

OneFlight ==
  /\ \A c \in Opens : job[c] \notin {"preparing", "cleaning"}
  /\ \A c \in Opens : job[c] \notin {"none", "done"} => active = NoDriver
  /\ \A c \in Opens : job[c] = "waiting" => closing \in {NoDriver, awaited}
  /\ \A c \in Opens : job[c] \in {"opening", "persisting"} => closing = NoDriver
  /\ closing # NoDriver => active = NoDriver /\ driver[closing] = "closing"
  /\ \A c \in Opens :
       call[c] \in AtWork /\ driver[entry[c]] = "open" => active = entry[c]

(* Where configuration and files do not fail either, a driver is being     *)
(* created, active and wanted, or closing by the one close that is awaited.*)
NoLateFailures == Environment \cap {"configFailures", "persistFailures"} = {}

DriversKept ==
  /\ \A d \in Opens : driver[d] = "open" => active = d \/ job[d] = "persisting"
  /\ \A d \in Opens : driver[d] = "closing" => closing = d
  /\ active # NoDriver => \E c \in Opens : entry[c] = active /\ call[c] \in AtWork

LoadInv   == IInv /\ OneFlight
OnlyLoads == LoadInv /\ DriversKept

(* Every open call returns a handle or an error.                           *)
EveryOpenReturns ==
  \A c \in Opens :
    call[c] # "idle" ~> call[c] \in {"open", "closed", "failed"}

(* Where the session is only loaded and resumed, the runtime keeps the     *)
(* promise of SharedSession, whatever fails: refCount, pendingOpens and    *)
(* closingSessions amount to one driver for those who hold it, and no      *)
(* other before it has ended.                                              *)
Made    == {d \in Opens : job[d] = "persisting"}
Asked   == {c \in Opens : call[c] # "idle"}
Waiting == {c \in Opens : call[c] = "joined"}
OnActive(c) == active # NoDriver /\ entry[c] = active
Given   == {c \in Opens : call[c] \in AtWork \ {"open"} /\ OnActive(c)}
Holding == {c \in Opens : call[c] = "open" /\ OnActive(c)}

Shared == INSTANCE SharedSession WITH
  Callers <- Opens, made <- Made, shared <- {active} \ {NoDriver},
  ending <- {closing} \ {NoDriver}, asked <- Asked, waiting <- Waiting,
  given <- Given, holders <- Holding

Shares == Shared!Spec
=============================================================================
