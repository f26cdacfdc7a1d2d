------------------------------ MODULE FileLock ------------------------------
(***************************************************************************)
(* The lock file that processes take before they rewrite a shared JSON     *)
(* file: withFileLock of registry/session-registry-store.ts, and its twin  *)
(* withCacheLock of registry/agent-launch-registry.ts.  The lock is taken  *)
(* by creating the file (open "wx"), and dropped by removing its path.  A  *)
(* process that finds a lock file of a certain age removes it: its owner   *)
(* is thought dead.                                                        *)
(***************************************************************************)

CONSTANTS
  Processes,    \* processes that share the file
  Nobody,       \* there is no lock file
  Environment   \* what happens around them in this instance

VARIABLES
  lock,         \* the process that created the lock file
  old,          \* the lock file has reached LOCK_STALE_MS
  phase,        \* where a process is in withFileLock
  stolen        \* history: the lock file of a process inside was removed as
                \* stale, because that process is slow, or because the file was
                \* another one when the remover looked at its age

vars == <<lock, old, phase, stolen>>

Phases == {"out", "trying", "blocked", "removing", "waiting", "in", "leaving",
           "gone"}
Inside == {"in", "leaving"}

Init ==
  /\ lock = Nobody /\ old = FALSE /\ stolen = FALSE
  /\ phase = [p \in Processes |-> "out"]

Goto(p, ph) == phase' = [phase EXCEPT ![p] = ph]

Free == lock' = Nobody /\ old' = FALSE
-----------------------------------------------------------------------------
Request(p) ==
  /\ phase[p] = "out"
  /\ Goto(p, "trying")
  /\ UNCHANGED <<lock, old, stolen>>

(* open "wx": the file is created, or EEXIST.                              *)
TryOpen(p) ==
  /\ phase[p] = "trying"
  /\ IF lock = Nobody
     THEN lock' = p /\ old' = FALSE /\ Goto(p, "in")
     ELSE Goto(p, "blocked") /\ UNCHANGED <<lock, old>>
  /\ UNCHANGED stolen

(* Any other error of open, and one of stat or rm, ends the attempt.       *)
OpenFails(p) ==
  /\ "ioErrors" \in Environment
  /\ phase[p] \in {"trying", "blocked", "removing"}
  /\ Goto(p, "out")
  /\ UNCHANGED <<lock, old, stolen>>

(* removeStaleLock looks at the age of the file, if it is still there...   *)
StatLock(p) ==
  /\ phase[p] = "blocked"
  /\ Goto(p, IF lock # Nobody /\ old THEN "removing" ELSE "waiting")
  /\ UNCHANGED <<lock, old, stolen>>

(* ... and then removes whatever has that path by now.                     *)
RemoveStale(p) ==
  /\ phase[p] = "removing"
  /\ Goto(p, "waiting")
  /\ Free
  /\ stolen' = (stolen \/ (lock # Nobody /\ phase[lock] \in Inside))

(* Slip: the finally block is around the wait for the lock, too.           *)
GiveUpReleasing(p) ==
  /\ phase[p] = "waiting"
  /\ Goto(p, "out")
  /\ Free
  /\ UNCHANGED stolen

(* LOCK_TIMEOUT_MS have passed or they have not.                           *)
GiveUp(p) ==
  /\ phase[p] = "waiting"
  /\ Goto(p, "out")
  /\ UNCHANGED <<lock, old, stolen>>

Retry(p) ==
  /\ phase[p] = "waiting"
  /\ Goto(p, "trying")
  /\ UNCHANGED <<lock, old, stolen>>

(* The operation under the lock ends, well or not.                         *)
Finish(p) ==
  /\ phase[p] = "in"
  /\ Goto(p, "leaving")
  /\ UNCHANGED <<lock, old, stolen>>

(* The finally block removes the path, whoever created the file.           *)
Release(p) ==
  /\ phase[p] = "leaving"
  /\ Goto(p, "out")
  /\ Free
  /\ UNCHANGED stolen

(* An error of that rm is logged, and the lock stays.                      *)
KeepLock(p) ==
  /\ "rmErrors" \in Environment
  /\ phase[p] = "leaving"
  /\ Goto(p, "out")
  /\ UNCHANGED <<lock, old, stolen>>

(* LOCK_STALE_MS pass: the owner died or left it, or the owner is slow.    *)
LockAges ==
  /\ lock # Nobody /\ ~old
  /\ phase[lock] \in Inside => "slowHolders" \in Environment
  /\ old' = TRUE
  /\ UNCHANGED <<lock, phase, stolen>>

Crash(p) ==
  /\ "crashes" \in Environment
  /\ phase[p] # "gone"
  /\ Goto(p, "gone")
  /\ UNCHANGED <<lock, old, stolen>>
-----------------------------------------------------------------------------
Next ==
  \/ \E p \in Processes :
       \/ Request(p) \/ TryOpen(p) \/ OpenFails(p) \/ StatLock(p)
       \/ RemoveStale(p) \/ GiveUp(p) \/ Retry(p) \/ Finish(p) \/ Release(p)
       \/ KeepLock(p) \/ Crash(p)
  \/ LockAges

Spec == Init /\ [][Next]_vars

TypeOK ==
  /\ lock \in Processes \cup {Nobody}
  /\ old \in BOOLEAN /\ stolen \in BOOLEAN
  /\ phase \in [Processes -> Phases]

(* Two processes are between open and the removal of the lock file at once *)
(* only if one had its lock file taken away for a stale one: nothing else  *)
(* lets a second one in, no death in the lock, no lock file that was left  *)
(* behind or removed as stale, and no removal that failed.                 *)
LockExclusive ==
  ~stolen => \A p, q \in Processes :
               phase[p] \in Inside /\ phase[q] \in Inside => p = q

(* Why: who is inside created the lock file that is there.                 *)
LockHeld == ~stolen => \A p \in Processes : phase[p] \in Inside => lock = p
=============================================================================
