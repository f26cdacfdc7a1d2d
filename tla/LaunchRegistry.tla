---------------------------- MODULE LaunchRegistry ----------------------------
(***************************************************************************)
(* How an agent's name becomes a command: the registry of agents that is   *)
(* fetched and cached for a day, and the binaries that are downloaded and  *)
(* extracted into a cache directory (registry/agent-launch-registry.ts).   *)
(*                                                                         *)
(* The calls of resolveAgentLaunch are of several processes that share the *)
(* cache.  The calls of one process share its fetch; the calls of all take *)
(* the lock file of FileLock before they prepare a binary.  All are about  *)
(* one agent, which the registry lists in a growing version.               *)
(***************************************************************************)
EXTENDS Naturals

CONSTANTS
  Calls,        \* calls of resolveAgentLaunch or getAgentMeta
  Owner,        \* the process of every call
  Nobody,       \* there is no lock file
  MaxVersion,   \* bound: versions published
  Environment   \* what happens around them in this instance

ASSUME LaunchAssumption ==
  /\ Nobody \notin Calls /\ MaxVersion \in Nat \ {0}
  /\ Environment \subseteq
       {"crashes", "slowHolders", "ioErrors", "rmErrors", "badBodies"}

VARIABLES
  lock, old, phase, stolen,  \* see FileLock: .prepare.lock, for the calls
  published,  \* the version the registry lists
  archive,    \* the directory name made of a version's archive; it is the file
              \* name in the archive's URL, which the registry chooses
  cache,      \* registry.json in the cache: [body, age]
  fetching,   \* registryFetchInFlight of every process: [stage, body]
  at,         \* how far a call is
  wanted,     \* the version of the registry a call works with
  got,        \* the binary a call returns: [version, state, how]
  dir,        \* the cache directories by name: [version, state]
  spoiled     \* history: directories whose extraction failed or was cut off

lockVars == <<lock, old, phase, stolen>>
regVars  == <<published, archive, cache, fetching>>
binVars  == <<dir, spoiled>>
vars     == <<lockVars, regVars, at, wanted, got, binVars>>

Processes == {Owner[c] : c \in Calls}
Versions  == 1..MaxVersion
Garbage   == 0   \* a body that is no JSON

Lock == INSTANCE FileLock WITH Processes <- Calls

Ended == {"returned", "failed", "gone"}

NoFetch  == [stage |-> "none", body |-> Garbage]
NoBinary == [version |-> 0, state |-> "none", how |-> "none"]

Init ==
  /\ Lock!Init
  /\ published = 1
  /\ archive \in {f \in [Versions -> Versions] :
                   \A v \in Versions : f[v] <= v /\ f[f[v]] = f[v]}
  /\ cache = [body |-> Garbage, age |-> "missing"]
  /\ fetching = [p \in Processes |-> NoFetch]
  /\ at = [c \in Calls |-> "idle"]
  /\ wanted = [c \in Calls |-> 0]
  /\ got = [c \in Calls |-> NoBinary]
  /\ dir = [n \in Versions |-> [version |-> 0, state |-> "none"]]
  /\ spoiled = {}

-----------------------------------------------------------------------------
Goto(c, stage) == at' = [at EXCEPT ![c] = stage]

Publish ==
  /\ published < MaxVersion /\ published' = published + 1
  /\ UNCHANGED <<lockVars, archive, cache, fetching, at, wanted, got, binVars>>

(* CACHE_TTL_MS pass.                                                      *)
Expires ==
  /\ cache.age = "fresh" /\ cache' = [cache EXCEPT !.age = "expired"]
  /\ UNCHANGED <<lockVars, published, archive, fetching, at, wanted, got, binVars>>

(* fetchRegistry: a fresh file is read, otherwise the fetch of the process *)
(* is joined or begun.                                                     *)
FetchRegistry(c) ==
  /\ at[c] = "idle"
  /\ IF cache.age = "fresh"
     THEN Goto(c, "reading") /\ UNCHANGED fetching
     ELSE /\ Goto(c, "awaiting")
          /\ fetching' = IF fetching[Owner[c]] = NoFetch
                         THEN [fetching EXCEPT ![Owner[c]].stage = "requested"]
                         ELSE fetching
  /\ UNCHANGED <<lockVars, published, archive, cache, wanted, got, binVars>>

(* Another process may have replaced the file meanwhile.                   *)
ReadCache(c) ==
  /\ at[c] = "reading"
  /\ Goto(c, IF cache.body = Garbage THEN "failed" ELSE "listed")
  /\ wanted' = [wanted EXCEPT ![c] = cache.body]
  /\ UNCHANGED <<lockVars, regVars, got, binVars>>

Awaiting(p) == {c \in Calls : Owner[c] = p /\ at[c] = "awaiting"}

AllGoto(calls, stage) ==
  at' = [c \in Calls |-> IF c \in calls THEN stage ELSE at[c]]

FetchReturns(p) ==
  /\ fetching[p].stage = "requested"
  /\ \E body \in {published} \cup (IF "badBodies" \in Environment THEN {Garbage} ELSE {}) :
       fetching' = [fetching EXCEPT ![p] = [stage |-> "received", body |-> body]]
  /\ UNCHANGED <<lockVars, published, archive, cache, at, wanted, got, binVars>>

FetchFails(p) ==
  /\ fetching[p].stage = "requested"
  /\ fetching' = [fetching EXCEPT ![p] = NoFetch]
  /\ AllGoto(Awaiting(p), "failed")
  /\ UNCHANGED <<lockVars, published, archive, cache, wanted, got, binVars>>

(* persistRegistryCache replaces the file, under a lock of its own, or     *)
(* does not: that is best effort.  Then the body is parsed.                *)
Persisted(p) ==
  /\ fetching[p].stage = "received"
  /\ cache' \in {cache, [body |-> fetching[p].body, age |-> "fresh"]}
  /\ fetching' = [fetching EXCEPT ![p] = NoFetch]
  /\ AllGoto(Awaiting(p), IF fetching[p].body = Garbage THEN "failed" ELSE "listed")
  /\ wanted' = [c \in Calls |-> IF c \in Awaiting(p) THEN fetching[p].body
                                ELSE wanted[c]]
  /\ UNCHANGED <<lockVars, published, archive, got, binVars>>

-----------------------------------------------------------------------------
(* ensureBinaryFromArchive.                                                *)

\* Slip: the archives of an agent share a directory.
OneDirectory(version) == 1

(* archiveCacheDirName of the last component of the archive's URL: what    *)
(* comes before it, where a release often has its version, does not count. *)
Key(version) == archive[version]

Prepared(c) == dir[Key(wanted[c])]

(* stat(cachedCmd).                                                        *)
CommandExists(c) == Prepared(c).state # "none"

\* Slip: after the wait for the lock nothing is looked at again.
NeverExists(c) == FALSE

ExistsByNow(c) == CommandExists(c)

Returns(c, how) ==
  got' = [got EXCEPT ![c] = [version |-> Prepared(c).version,
                             state |-> Prepared(c).state, how |-> how]]

(* An agent that is not listed or has no distribution for this platform,   *)
(* or one that needs no cache: npx, uvx, or a command in the PATH.         *)
NeedsNoBinary(c) ==
  /\ at[c] = "listed"
  /\ at' \in {[at EXCEPT ![c] = stage] : stage \in {"failed", "returned"}}
  /\ UNCHANGED <<lockVars, regVars, wanted, got, binVars>>

(* A command that exists is returned before any lock.                      *)
EnsureBinary(c) ==
  /\ at[c] = "listed"
  /\ IF CommandExists(c)
     THEN Goto(c, "returned") /\ Returns(c, "seen") /\ UNCHANGED lockVars
     ELSE Goto(c, "locking") /\ Lock!Request(c) /\ UNCHANGED got
  /\ UNCHANGED <<regVars, wanted, binVars>>

(* withCacheLock, until the lock is had or given up.                       *)
LockStep(c) ==
  /\ at[c] = "locking"
  /\ Lock!StatLock(c) \/ Lock!RemoveStale(c) \/ Lock!Retry(c)
  /\ UNCHANGED <<regVars, at, wanted, got, binVars>>

GetsLock(c) ==
  /\ at[c] = "locking" /\ Lock!TryOpen(c)
  /\ IF lock = Nobody
     THEN Goto(c, "holding")
     ELSE UNCHANGED at
  /\ UNCHANGED <<regVars, wanted, got, binVars>>

GetsNoLock(c) ==
  /\ at[c] = "locking" /\ (Lock!OpenFails(c) \/ Lock!GiveUp(c))
  /\ Goto(c, "failed")
  /\ UNCHANGED <<regVars, wanted, got, binVars>>

LooksAgain(c) ==
  /\ at[c] = "holding"
  /\ IF ExistsByNow(c)
     THEN Goto(c, "finished") /\ Returns(c, "prepared") /\ Lock!Finish(c)
     ELSE Goto(c, "downloading") /\ UNCHANGED <<lockVars, got>>
  /\ UNCHANGED <<regVars, wanted, binVars>>

(* The download succeeds and the extraction begins, over what is there.    *)
Extracts(c) ==
  /\ at[c] = "downloading" /\ Goto(c, "extracting")
  /\ dir' = [dir EXCEPT ![Key(wanted[c])] =
               [version |-> wanted[c], state |-> "partial"]]
  /\ UNCHANGED <<lockVars, regVars, wanted, got, spoiled>>

Extracted(c) ==
  /\ at[c] = "extracting" /\ Goto(c, "finished") /\ Lock!Finish(c)
  /\ dir' = [dir EXCEPT ![Key(wanted[c])].state = "whole"]
  /\ got' = [got EXCEPT ![c] = [version |-> wanted[c], state |-> "whole",
                                how |-> "prepared"]]
  /\ UNCHANGED <<regVars, wanted, spoiled>>

PreparationFails(c) ==
  /\ "ioErrors" \in Environment
  /\ at[c] \in {"downloading", "extracting"} /\ Goto(c, "unfinished") /\ Lock!Finish(c)
  /\ spoiled' = IF at[c] = "extracting" THEN spoiled \cup {Key(wanted[c])} ELSE spoiled
  /\ UNCHANGED <<regVars, wanted, got, dir>>

(* The finally block removes the lock, or fails to, and the call ends.     *)
Leaves(c) ==
  /\ Lock!Release(c) \/ Lock!KeepLock(c)
  /\ Goto(c, IF at[c] = "finished" THEN "returned" ELSE "failed")
  /\ UNCHANGED <<regVars, wanted, got, binVars>>

LockAges ==
  /\ Lock!LockAges
  /\ UNCHANGED <<regVars, at, wanted, got, binVars>>

(* A process ends with all its calls.                                      *)
Crash(p) ==
  LET lost == {c \in Calls : Owner[c] = p /\ at[c] \notin Ended}
  IN  /\ "crashes" \in Environment /\ lost # {}
      /\ AllGoto(lost, "gone")
      /\ phase' = [c \in Calls |-> IF c \in lost THEN "gone" ELSE phase[c]]
      /\ fetching' = [fetching EXCEPT ![p] = NoFetch]
      /\ spoiled' = spoiled \cup {Key(wanted[c]) : c \in {c \in lost : at[c] = "extracting"}}
      /\ UNCHANGED <<lock, old, stolen, published, archive, cache, wanted, got, dir>>

-----------------------------------------------------------------------------
Next ==
  \/ Publish \/ Expires \/ LockAges
  \/ \E p \in Processes :
       FetchReturns(p) \/ FetchFails(p) \/ Persisted(p) \/ Crash(p)
  \/ \E c \in Calls :
       \/ FetchRegistry(c) \/ ReadCache(c)
       \/ NeedsNoBinary(c) \/ EnsureBinary(c)
       \/ LockStep(c) \/ GetsLock(c) \/ GetsNoLock(c)
       \/ LooksAgain(c) \/ Extracts(c) \/ Extracted(c) \/ PreparationFails(c)
       \/ Leaves(c)

Spec == Init /\ [][Next]_vars

-----------------------------------------------------------------------------
(* The binary a call returns comes from an archive with the file name of   *)
(* the one the registry listed for it, whatever is published, fetched or   *)
(* extracted meanwhile; and one that was prepared under the lock is whole, *)
(* unless an extraction into its directory failed or was cut off (what     *)
(* that left is taken for the command from then on), or a call lost its    *)
(* lock to another that took it for stale.                                 *)
BinaryIsRight ==
  \A c \in Calls :
    got[c] # NoBinary =>
      /\ got[c].version \in Versions
      /\ archive[got[c].version] = archive[wanted[c]]
      /\ got[c].how = "prepared" /\ Key(wanted[c]) \notin spoiled /\ ~stolen =>
           got[c].state = "whole"

(* "keys cached archive binaries by archive filename so registry upgrades  *)
(* do not reuse stale binaries" (a test of the registry): a call is given  *)
(* the version that was listed for it.  So it is where archives of two     *)
(* versions have two file names, as the two before show.                   *)
NoStaleBinary == \A c \in Calls : got[c] # NoBinary => got[c].version = wanted[c]

(* No call writes over a whole binary, which some process may run: the     *)
(* lock and the second look under it see to that, until a call loses its   *)
(* lock to another that took it for stale.                                 *)
WholeKept == \A n \in Versions : dir[n].state = "whole" => dir'[n].state = "whole"
WholeStays == [][~stolen => WholeKept]_vars

-----------------------------------------------------------------------------
(* The inductive invariant.                                                *)

Bodies == {Garbage} \cup Versions
Stages == {"idle", "reading", "awaiting", "listed", "locking", "holding",
           "downloading", "extracting", "finished", "unfinished"} \cup Ended
DirStates == {"none", "partial", "whole"}

TypeOK ==
  /\ Lock!TypeOK
  /\ published \in Versions /\ archive \in [Versions -> Versions]
  /\ cache \in [body : Bodies, age : {"missing", "fresh", "expired"}]
  /\ fetching \in [Processes -> [stage : {"none", "requested", "received"},
                                 body : Bodies]]
  /\ at \in [Calls -> Stages] /\ wanted \in [Calls -> Bodies]
  /\ got \in [Calls -> [version : Bodies, state : DirStates,
                        how : {"none", "seen", "prepared"}]]
  /\ dir \in [Versions -> [version : Bodies, state : DirStates]]
  /\ spoiled \subseteq Versions

(* A call is in the lock from its second look to its last step, and knows  *)
(* its version from the listing on.                                        *)
Holding == {"holding", "downloading", "extracting"}
Leaving == {"finished", "unfinished"}

StagesOk ==
  \A c \in Calls :
    /\ at[c] \in {"listed", "locking"} \cup Holding \cup Leaving =>
         wanted[c] \in Versions
    /\ at[c] \in Holding <=> phase[c] = "in"
    /\ at[c] \in Leaving <=> phase[c] = "leaving"
    /\ got[c] # NoBinary => at[c] \in {"finished", "returned", "gone"}

(* A directory holds an archive it is named after, or nothing; and not     *)
(* nothing where something is being extracted.                             *)
DirNamed ==
  /\ \A n \in Versions :
       dir[n].state # "none" => dir[n].version \in Versions
                                /\ archive[dir[n].version] = n
  /\ \A c \in Calls :
       at[c] = "extracting" => dir[Key(wanted[c])].state # "none"

(* Who is alone in the lock found nothing before it downloads, and what it *)
(* extracts is the only thing in parts that nobody has given up on.        *)
AloneInside ==
  ~stolen =>
    /\ \A c \in Calls :
         /\ at[c] = "downloading" => dir[Key(wanted[c])].state = "none"
         /\ at[c] = "extracting" => dir[Key(wanted[c])].state = "partial"
    /\ \A n \in Versions \ spoiled :
         dir[n].state = "partial" =>
           \E c \in Calls : at[c] = "extracting" /\ Key(wanted[c]) = n

IInv == TypeOK /\ StagesOk /\ DirNamed /\ Lock!LockHeld /\ AloneInside /\ BinaryIsRight
===============================================================================
