-------------------------- MODULE SessionRegistry --------------------------
(***************************************************************************)
(* The index of stored sessions: AcpRuntimeSessionRegistry                 *)
(* (src/runtime/registry/session-registry.ts) of several runtime           *)
(* processes, and the JSON file they share (session-registry-store.ts).    *)
(*                                                                         *)
(* A process reads the file once, keeps its own copy, and after each       *)
(* change merges the whole copy into the file, under the lock of FileLock. *)
(* Changes made while a save runs wait together for the next save.         *)
(*                                                                         *)
(* What is stored of a session is its updatedAt; 0 is "no entry".          *)
(***************************************************************************)
EXTENDS Naturals, Sequences, SequencesExt

CONSTANTS
  Processes,    \* runtime processes
  Nobody,       \* there is no lock file
  Ids,          \* session ids
  MaxStamp,     \* bound: updatedAt stays below
  Environment   \* what happens around them in this instance

ASSUME RegistryAssumption ==
  /\ Nobody \notin Processes
  /\ MaxStamp \in Nat \ {0}
  /\ Environment \subseteq
       {"crashes", "slowHolders", "ioErrors", "rmErrors", "deletes"}

VARIABLES
  lock, old, phase, stolen,  \* see FileLock
  now,        \* Date.now()
  file,       \* updatedAt of the entries in the file
  hydrated,   \* processes that have read it
  cache,      \* sessions: updatedAt of the entries a process knows
  lastAt,     \* lastUpdatedAtMs
  batches,    \* the batch being saved, then nextPersistBatch
  retained,   \* retainedDeletedSessionIds
  image,      \* the state given to store.save
  latest,     \* the state save read from the file
  step,       \* how far the operation under the lock is
  confirmed,  \* history: saves a caller was told of
  removed,    \* history: ids somebody deleted
  undone      \* history: ids a process deleted, that no save took out yet

fileVars == <<lock, old, phase, stolen>>
opVars   == <<latest, step>>
memVars  == <<hydrated, cache, lastAt, batches, retained, image>>
history  == <<confirmed, removed, undone>>
vars     == <<fileVars, now, file, opVars, memVars, history>>

Lock == INSTANCE FileLock

Stamps  == 0..MaxStamp
Entries == [Ids -> Stamps]
Saved   == [id : Ids, at : Stamps]
Batch   == [deleted : SUBSET Ids, calls : SUBSET Saved]
Steps   == {"none", "read", "written", "failed"}

Empty   == [i \in Ids |-> 0]

Init ==
  /\ Lock!Init
  /\ now = 1
  /\ file = Empty
  /\ hydrated = {}
  /\ cache = [p \in Processes |-> Empty]
  /\ lastAt = [p \in Processes |-> 0]
  /\ batches = [p \in Processes |-> <<>>]
  /\ retained = [p \in Processes |-> {}]
  /\ image = [p \in Processes |-> Empty]
  /\ latest = [p \in Processes |-> Empty]
  /\ step = [p \in Processes |-> "none"]
  /\ confirmed = {} /\ removed = {}
  /\ undone = [p \in Processes |-> {}]
-----------------------------------------------------------------------------
(* Pieces of the handlers.  A "slip" is not part of the specification: it  *)
(* is what the operator after it would be if that code had a plausible     *)
(* mistake, and some property is violated with it in its place.            *)

Alive(p) == phase[p] # "gone"

(* nextTimestamp.                                                          *)
NextTimestamp(p) == IF lastAt[p] >= now THEN lastAt[p] + 1 ELSE now

(* Slip: the process writes what it knows.                                 *)
MergeNothing(ours, theirs, deleted) == ours

(* mergeRegistryState.                                                     *)
MergeRegistryState(ours, theirs, deleted) ==
  [i \in Ids |->
     LET kept == IF i \in deleted THEN 0 ELSE theirs[i]
     IN IF ours[i] # 0 /\ kept <= ours[i] THEN ours[i] ELSE kept]

(* Slip: the running save is expected to carry the change.                 *)
PersistWithRunning(p, known, deleted, calls) ==
  LET b == IF batches[p] = <<>> THEN [deleted |-> {}, calls |-> {}]
           ELSE Head(batches[p])
  IN /\ batches' = [batches EXCEPT ![p] =
                      <<[deleted |-> b.deleted \cup retained[p] \cup deleted,
                         calls   |-> b.calls \cup calls]>>]
     /\ retained' = [retained EXCEPT ![p] = {}]
     /\ image' = IF batches[p] = <<>> THEN [image EXCEPT ![p] = known] ELSE image

(* persist: a new batch is saved at once, or joins the next one.           *)
Persist(p, known, deleted, calls) ==
  LET running == Len(batches[p])
      add(b) == [deleted |-> b.deleted \cup retained[p] \cup deleted,
                 calls   |-> b.calls \cup calls]
      new == add([deleted |-> {}, calls |-> {}])
  IN /\ batches' = [batches EXCEPT ![p] = IF running < 2 THEN Append(@, new)
                                          ELSE <<@[1], add(@[2])>>]
     /\ retained' = [retained EXCEPT ![p] = {}]
     /\ image' = IF running = 0 THEN [image EXCEPT ![p] = known] ELSE image

(* Slip: what a failed save should have deleted is forgotten.              *)
EndSaveForgetting(p, ok) ==
  /\ batches' = [batches EXCEPT ![p] = Tail(@)]
  /\ image' = IF Len(batches[p]) = 2 THEN [image EXCEPT ![p] = cache[p]] ELSE image
  /\ confirmed' = IF ok THEN confirmed \cup Head(batches[p]).calls ELSE confirmed
  /\ UNCHANGED retained

(* Slip: a failure leaves persistInFlight as it is.                        *)
EndSaveOnlyIfOk(p, ok) ==
  /\ batches' = IF ok THEN [batches EXCEPT ![p] = Tail(@)] ELSE batches
  /\ image' = [image EXCEPT ![p] = cache[p]]
  /\ confirmed' = IF ok THEN confirmed \cup Head(batches[p]).calls ELSE confirmed
  /\ UNCHANGED retained

(* runPersistBatch after the save: the callers of the batch hear of it,    *)
(* the deletions of a failed one are kept, the next batch is saved.        *)
EndSave(p, ok) ==
  LET done == Head(batches[p])
      next == Tail(batches[p])
      kept == retained[p] \cup (IF ok THEN {} ELSE done.deleted)
  IN /\ confirmed' = IF ok THEN confirmed \cup done.calls ELSE confirmed
     /\ IF next = <<>>
        THEN /\ batches' = [batches EXCEPT ![p] = <<>>]
             /\ retained' = [retained EXCEPT ![p] = kept]
             /\ UNCHANGED image
        ELSE /\ batches' = [batches EXCEPT ![p] =
                              <<[next[1] EXCEPT !.deleted = @ \cup kept]>>]
             /\ retained' = [retained EXCEPT ![p] = {}]
             /\ image' = [image EXCEPT ![p] = cache[p]]
-----------------------------------------------------------------------------
(* Calls of the runtime.  Each awaits hydrate first.                       *)

Hydrate(p) ==
  /\ Alive(p) /\ p \notin hydrated
  /\ hydrated' = hydrated \cup {p}
  /\ cache' = [cache EXCEPT ![p] = file]
  /\ \E newest \in {file[i] : i \in Ids} \cup {0} :
       /\ \A i \in Ids : file[i] <= newest
       /\ lastAt' = [lastAt EXCEPT ![p] = newest]
  /\ UNCHANGED <<fileVars, now, file, opVars, batches, retained, image, history>>

RememberSnapshot(p, i) ==
  LET at == NextTimestamp(p)
      known == [cache[p] EXCEPT ![i] = at]
  IN /\ Alive(p) /\ p \in hydrated
     /\ at <= MaxStamp
     /\ cache' = [cache EXCEPT ![p] = known]
     /\ lastAt' = [lastAt EXCEPT ![p] = at]
     /\ Persist(p, known, {}, {[id |-> i, at |-> at]})
     /\ UNCHANGED <<fileVars, now, file, opVars, hydrated, history>>

(* deleteSession, and deleteSessions for the ids a filter selects.         *)
DeleteSessions(p, S) ==
  LET known == [i \in Ids |-> IF i \in S THEN 0 ELSE cache[p][i]]
  IN /\ "deletes" \in Environment
     /\ Alive(p) /\ p \in hydrated
     /\ S # {} /\ \A i \in S : cache[p][i] # 0
     /\ cache' = [cache EXCEPT ![p] = known]
     /\ Persist(p, known, S, {})
     /\ removed' = removed \cup S
     /\ undone' = [undone EXCEPT ![p] = @ \cup S]
     /\ UNCHANGED <<fileVars, now, file, opVars, hydrated, lastAt, confirmed>>
-----------------------------------------------------------------------------
(* The store saves the first batch.                                        *)

(* mkdir, then withFileLock.                                               *)
BeginSave(p) ==
  /\ batches[p] # <<>>
  /\ Lock!Request(p)
  /\ UNCHANGED <<now, file, opVars, memVars, history>>

TryLock(p) ==
  /\ Lock!TryOpen(p) \/ Lock!StatLock(p) \/ Lock!RemoveStale(p) \/ Lock!Retry(p)
  /\ UNCHANGED <<now, file, opVars, memVars, history>>

NoLock(p) ==
  /\ Lock!GiveUp(p) \/ Lock!OpenFails(p)
  /\ EndSave(p, FALSE)
  /\ UNCHANGED <<now, file, opVars, hydrated, cache, lastAt, removed, undone>>

(* loadRegistryState under the lock.                                       *)
ReadFile(p) ==
  /\ phase[p] = "in" /\ step[p] = "none"
  /\ latest' = [latest EXCEPT ![p] = file]
  /\ step' = [step EXCEPT ![p] = "read"]
  /\ UNCHANGED <<fileVars, now, file, memVars, history>>

(* writeRegistryStateAtomically: the rename.                               *)
WriteFile(p) ==
  LET deleted == Head(batches[p]).deleted
  IN /\ step[p] = "read"
     /\ Lock!Finish(p)
     /\ file' = MergeRegistryState(image[p], latest[p], deleted)
     /\ step' = [step EXCEPT ![p] = "written"]
     /\ latest' = [latest EXCEPT ![p] = Empty]
     /\ undone' = [undone EXCEPT ![p] = @ \ deleted]
     /\ UNCHANGED <<now, memVars, confirmed, removed>>

ReadOrWriteFails(p) ==
  /\ "ioErrors" \in Environment
  /\ Lock!Finish(p)
  /\ step' = [step EXCEPT ![p] = "failed"]
  /\ latest' = [latest EXCEPT ![p] = Empty]
  /\ UNCHANGED <<now, file, memVars, history>>

EndOperation(p) ==
  /\ Lock!Release(p) \/ Lock!KeepLock(p)
  /\ EndSave(p, step[p] = "written")
  /\ step' = [step EXCEPT ![p] = "none"]
  /\ UNCHANGED <<now, file, latest, hydrated, cache, lastAt, removed, undone>>
-----------------------------------------------------------------------------
LockAges ==
  /\ Lock!LockAges
  /\ UNCHANGED <<now, file, opVars, memVars, history>>

Tick ==
  /\ now < MaxStamp
  /\ now' = now + 1
  /\ UNCHANGED <<fileVars, file, opVars, memVars, history>>

(* A process dies, and what it held in memory is gone.                     *)
Crash(p) ==
  /\ Lock!Crash(p)
  /\ batches' = [batches EXCEPT ![p] = <<>>]
  /\ retained' = [retained EXCEPT ![p] = {}]
  /\ undone' = [undone EXCEPT ![p] = {}]
  /\ image' = [image EXCEPT ![p] = Empty]
  /\ latest' = [latest EXCEPT ![p] = Empty]
  /\ step' = [step EXCEPT ![p] = "none"]
  /\ UNCHANGED <<now, file, hydrated, cache, lastAt, confirmed, removed>>

Next ==
  \/ \E p \in Processes :
       \/ Hydrate(p)
       \/ \E i \in Ids : RememberSnapshot(p, i)
       \/ \E S \in SUBSET Ids : DeleteSessions(p, S)
       \/ BeginSave(p) \/ TryLock(p) \/ NoLock(p)
       \/ ReadFile(p) \/ WriteFile(p) \/ ReadOrWriteFails(p) \/ EndOperation(p)
       \/ Crash(p)
  \/ LockAges
  \/ Tick

Spec == Init /\ [][Next]_vars

(* A live process goes on with its save; a try for the lock is repeated    *)
(* until LOCK_TIMEOUT_MS have passed, which they do.                       *)
Fairness ==
  /\ \A p \in Processes :
       /\ WF_vars(BeginSave(p)) /\ WF_vars(TryLock(p)) /\ SF_vars(NoLock(p))
       /\ WF_vars(ReadFile(p)) /\ WF_vars(WriteFile(p)) /\ WF_vars(EndOperation(p))

FairSpec == Spec /\ Fairness
-----------------------------------------------------------------------------
(* Properties.                                                             *)

TypeOK ==
  /\ Lock!TypeOK
  /\ now \in Stamps /\ file \in Entries
  /\ hydrated \subseteq Processes
  /\ cache \in [Processes -> Entries]
  /\ lastAt \in [Processes -> Stamps]
  /\ batches \in [Processes -> Seq(Batch)]
  /\ \A p \in Processes : Len(batches[p]) <= 2
  /\ retained \in [Processes -> SUBSET Ids]
  /\ image \in [Processes -> Entries]
  /\ latest \in [Processes -> Entries]
  /\ step \in [Processes -> Steps]
  /\ confirmed \subseteq Saved /\ removed \subseteq Ids
  /\ undone \in [Processes -> SUBSET Ids]

(* Two processes never rewrite the file at once, or one from a copy that   *)
(* the other has replaced since, unless one's lock was taken for stale.    *)
LockExclusive == Lock!LockExclusive

(* An entry leaves the file, or gives way to an older one, only in a save  *)
(* that deletes its session: the saves of several processes merge, also    *)
(* when processes die in the lock and leave it behind.                     *)
EntriesStay ==
  \A i \in Ids :
    file'[i] < file[i] =>
      \E p \in Processes : batches[p] # <<>> /\ i \in Head(batches[p]).deleted

NoEntryLost == [][~stolen => EntriesStay]_vars

(* The purpose of withFileLock is that this holds even then; it does not.  *)
NoEntryEverLost == [][EntriesStay]_vars

(* A session whose save was confirmed to the caller is in the file, at     *)
(* least as new, unless somebody deletes it or a lock was taken for stale. *)
StoredIn(entries, c) == entries[c.id] >= c.at \/ c.id \in removed

ConfirmedIsStored == ~stolen => \A c \in confirmed : StoredIn(file, c)

(* The deletion of a session is not forgotten: while no save carried it    *)
(* out, it waits in a batch or is retained for the next.                   *)
Deletions(p) == retained[p] \cup UNION {b.deleted : b \in ToSet(batches[p])}

DeletionKept == \A p \in Processes : undone[p] \subseteq Deletions(p)

(* Why these hold.  Somebody is in the lock for the first batch...         *)
SavesABatch ==
  \A p \in Processes :
    /\ phase[p] \notin {"out", "gone"} => batches[p] # <<>>
    /\ p \notin hydrated => batches[p] = <<>>
    /\ step[p] = "read" => phase[p] = "in"
    /\ step[p] \in {"written", "failed"} <=> phase[p] = "leaving"

(* ... a deletion the file has taken over waits no longer, unless somebody *)
(* asked for it again,                                                     *)
Later(p) == retained[p] \cup UNION {b.deleted : b \in ToSet(Tail(batches[p]))}

DeletionsLeft ==
  \A p \in Processes : step[p] = "written" => undone[p] \subseteq Later(p)

(* ... who is in it created the lock file, and read the file it rewrites,  *)
(* unless a lock was taken away,                                           *)
LockHeld ==
  ~stolen => /\ Lock!LockHeld
             /\ \A p \in Processes : step[p] = "read" => latest[p] = file

(* ... and a change is in the copy of its process, in what is saved of it, *)
(* and in the file, before its caller hears of it.                         *)
ChangesCarried ==
  \A p \in Processes :
    /\ \A b \in ToSet(batches[p]) : \A c \in b.calls : StoredIn(cache[p], c)
    /\ \A i \in Ids : cache[p][i] <= lastAt[p]
    /\ Deletions(p) \subseteq removed
    /\ batches[p] # <<>> =>
         \A c \in Head(batches[p]).calls :
           /\ StoredIn(image[p], c)
           /\ step[p] = "written" /\ ~stolen => StoredIn(file, c)

IInv ==
  /\ TypeOK /\ SavesABatch /\ DeletionsLeft /\ DeletionKept
  /\ LockHeld /\ ChangesCarried /\ ConfirmedIsStored

(* Every change that waits for a save is answered, also when another       *)
(* process died with the lock or files cannot be written.                  *)
Waiting(p, c) == \E b \in ToSet(batches[p]) : c \in b.calls

EveryCallReturns == \A p \in Processes, c \in Saved : Waiting(p, c) ~> ~Waiting(p, c)
=============================================================================
