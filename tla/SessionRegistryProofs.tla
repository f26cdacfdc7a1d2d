----------------------- MODULE SessionRegistryProofs -----------------------
(***************************************************************************)
(* Proofs about SessionRegistry, for any processes and sessions: what      *)
(* holds whatever happens around them, and what holds until a process in   *)
(* the lock loses its lock file to one that takes it for stale.            *)
(***************************************************************************)
EXTENDS SessionRegistry, SequenceTheorems, TLAPS

(* Batches.  There are at most two.                                        *)
LEMMA ShortSeq ==
  ASSUME NEW s \in Seq(Batch), Len(s) <= 2
  PROVE  \/ s = <<>>
         \/ \E a \in Batch : s = <<a>>
         \/ \E a, b \in Batch : s = <<a, b>>
<1>1. Len(s) = 0 \/ Len(s) = 1 \/ Len(s) = 2
  <2>1. \A n \in Nat : n <= 2 => n = 0 \/ n = 1 \/ n = 2
    OBVIOUS
  <2> QED BY <2>1, LenProperties
<1>2. CASE Len(s) = 0
  BY <1>2
<1>3. CASE Len(s) = 1
  <2>1. s[1] \in Batch /\ s = <<s[1]>>
    BY <1>3
  <2> QED BY <2>1
<1>4. CASE Len(s) = 2
  <2>1. s[1] \in Batch /\ s[2] \in Batch /\ s = <<s[1], s[2]>>
    BY <1>4
  <2> QED BY <2>1
<1> QED
  BY <1>1, <1>2, <1>3, <1>4

(* Sequences of one and of two batches.                                    *)
LEMMA BatchPair ==
  ASSUME NEW a \in Batch, NEW b \in Batch
  PROVE  /\ Append(<<a>>, b) = <<a, b>> /\ <<a, b>> # <<>> /\ <<a>> # <<>>
         /\ <<a, b>> \in Seq(Batch) /\ Len(<<a, b>>) = 2 /\ Len(<<a>>) = 1
         /\ Head(<<a, b>>) = a /\ Tail(<<a, b>>) = <<b>>
         /\ Head(<<a>>) = a /\ Tail(<<a>>) = <<>>
         /\ <<a, b>>[1] = a /\ <<a, b>>[2] = b /\ <<a>> \in Seq(Batch)
<1>1. /\ <<a>> \in Seq(Batch) /\ <<a, b>> \in Seq(Batch)
      /\ Len(<<a, b>>) = 2 /\ Len(<<a>>) = 1 /\ <<a>> # <<>> /\ <<a, b>> # <<>>
      /\ Head(<<a, b>>) = a /\ Head(<<a>>) = a
      /\ <<a, b>>[1] = a /\ <<a, b>>[2] = b
  OBVIOUS
<1>2. Append(<<a>>, b) = <<a, b>>
  <2>1. /\ Append(<<a>>, b) \in Seq(Batch) /\ Len(Append(<<a>>, b)) = 2
        /\ Append(<<a>>, b)[1] = a /\ Append(<<a>>, b)[2] = b
    BY <1>1, AppendProperties
  <2>2. \A i \in 1 .. 2 : Append(<<a>>, b)[i] = <<a, b>>[i]
    BY <1>1, <2>1
  <2> QED BY <1>1, <2>1, <2>2, SeqEqual
<1>3. Tail(<<a, b>>) = <<b>> /\ Tail(<<a>>) = <<>>
  OBVIOUS
<1> QED
  BY <1>1, <1>2, <1>3

(* The batches in sequences of none, one and two.                          *)
LEMMA SetsOfBatches ==
  /\ ToSet(<<>>) = {}
  /\ \A a : ToSet(<<a>>) = {a}
  /\ \A a, b : ToSet(<<a, b>>) = {a, b}
BY DEF ToSet

(* persist adds what it is given to the batch that is not saved yet.       *)
Added(p, known, deleted, calls) ==
  /\ batches' \in [Processes -> Seq(Batch)]
  /\ \A q \in Processes : Len(batches'[q]) <= 2
  /\ retained' \in [Processes -> SUBSET Ids]
  /\ image' \in [Processes -> Entries]
  /\ \A q \in Processes \ {p} :
       /\ batches'[q] = batches[q] /\ retained'[q] = retained[q]
       /\ image'[q] = image[q]
  /\ batches'[p] # <<>>
  /\ Deletions(p)' = Deletions(p) \cup deleted
  /\ \A b \in ToSet(batches'[p]) : \A c \in b.calls :
       c \in calls \/ \E b0 \in ToSet(batches[p]) : c \in b0.calls
  /\ batches[p] # <<>> =>
       /\ Head(batches'[p]) = Head(batches[p]) /\ image' = image
       /\ Later(p)' = Later(p) \cup deleted
  /\ batches[p] = <<>> =>
       image'[p] = known /\ Head(batches'[p]).calls = calls

(* persist adds a change to the batch that waits, or begins one.           *)
LEMMA PersistAdds ==
  ASSUME TypeOK, NEW p \in Processes, NEW known \in Entries,
         NEW deleted \in SUBSET Ids, NEW calls \in SUBSET Saved,
         Persist(p, known, deleted, calls)
  PROVE  Added(p, known, deleted, calls)
<1> USE DEF Added
<1> DEFINE old0 == batches[p]
           add(b) == [deleted |-> b.deleted \cup retained[p] \cup deleted,
                      calls   |-> b.calls \cup calls]
           new == add([deleted |-> {}, calls |-> {}])
           next == IF Len(old0) < 2 THEN Append(old0, new)
                   ELSE <<old0[1], add(old0[2])>>
<1>1. /\ batches' = [batches EXCEPT ![p] = next]
      /\ retained' = [retained EXCEPT ![p] = {}]
      /\ image' = IF Len(old0) = 0 THEN [image EXCEPT ![p] = known] ELSE image
  BY DEF Persist
<1>2. /\ old0 \in Seq(Batch) /\ Len(old0) <= 2 /\ retained[p] \in SUBSET Ids
      /\ batches \in [Processes -> Seq(Batch)] /\ retained \in [Processes -> SUBSET Ids]
      /\ image \in [Processes -> Entries]
      /\ \A q \in Processes : Len(batches[q]) <= 2
  BY DEF TypeOK
<1>3. \A b \in Batch : add(b) \in Batch
  BY <1>2 DEF Batch
<1>4. new \in Batch /\ new.deleted = retained[p] \cup deleted /\ new.calls = calls
  BY <1>2 DEF Batch
<1> HIDE DEF new, add
<1>5. CASE old0 = <<>>
  <2>1. next = <<new>> /\ Len(old0) = 0
    BY <1>5
  <2> HIDE DEF next
  <2>2. batches'[p] = <<new>> /\ retained'[p] = {} /\ image'[p] = known
    BY <1>1, <1>2, <2>1
  <2>3. Head(<<new>>) = new /\ <<new>> # <<>> /\ <<new>> \in Seq(Batch) /\ Len(<<new>>) <= 2
    BY <1>4
  <2>4. ToSet(batches'[p]) = {new} /\ ToSet(batches[p]) = {}
    BY <1>5, <2>2, SetsOfBatches
  <2>5. Deletions(p)' = Deletions(p) \cup deleted
    BY <1>4, <2>2, <2>4 DEF Deletions
  <2> QED BY <1>1, <1>2, <1>4, <1>5, <2>1, <2>2, <2>3, <2>4, <2>5
<1>6. ASSUME NEW a \in Batch, old0 = <<a>>
      PROVE  /\ next = <<a, new>> /\ batches[p] # <<>> /\ Len(old0) # 0
             /\ Tail(next) = <<new>> /\ Tail(old0) = <<>>
             /\ Head(next) = a /\ Head(old0) = a
             /\ next \in Seq(Batch) /\ Len(next) <= 2 /\ next # <<>>
  <2> HIDE DEF old0
  <2>0. new \in Batch
    BY <1>4
  <2>1. Len(<<a>>) = 1 /\ <<a>> # <<>> /\ Append(<<a>>, new) = <<a, new>>
    BY <2>0, BatchPair
  <2>2. Len(old0) = 1 /\ old0 # <<>> /\ next = <<a, new>>
    BY <1>6, <2>1
  <2> HIDE DEF next
  <2>3. Tail(next) = <<new>> /\ Tail(old0) = <<>> /\ Head(next) = a /\ Head(old0) = a
        /\ next \in Seq(Batch) /\ Len(next) = 2 /\ next # <<>>
    BY <1>4, <1>6, <2>2, BatchPair
  <2> QED BY <2>2, <2>3 DEF old0
<1>7. ASSUME NEW a \in Batch, NEW b \in Batch, old0 = <<a, b>>
      PROVE  /\ next = <<a, add(b)>> /\ batches[p] # <<>> /\ Len(old0) # 0
             /\ Tail(next) = <<add(b)>> /\ Tail(old0) = <<b>>
             /\ Head(next) = a /\ Head(old0) = a
             /\ next \in Seq(Batch) /\ Len(next) <= 2 /\ next # <<>>
  BY <1>3, <1>7, BatchPair
<1> HIDE DEF next
<1>8. batches'[p] = next /\ retained'[p] = {}
  BY <1>1, <1>2
<1>9. ASSUME NEW a \in Batch, old0 = <<a>>
      PROVE  /\ Deletions(p)' = Deletions(p) \cup deleted
             /\ Later(p)' = Later(p) \cup deleted
             /\ \A x \in ToSet(batches'[p]) : \A c \in x.calls :
                  c \in calls \/ \E b0 \in ToSet(batches[p]) : c \in b0.calls
  <2>1. ToSet(batches'[p]) = {a, new} /\ ToSet(batches[p]) = {a}
        /\ ToSet(Tail(batches'[p])) = {new} /\ ToSet(Tail(batches[p])) = {}
    BY <1>6, <1>8, <1>9, SetsOfBatches
  <2> QED BY <1>4, <1>8, <2>1 DEF Deletions, Later
<1>10. ASSUME NEW a \in Batch, NEW b \in Batch, old0 = <<a, b>>
       PROVE  /\ Deletions(p)' = Deletions(p) \cup deleted
              /\ Later(p)' = Later(p) \cup deleted
              /\ \A x \in ToSet(batches'[p]) : \A c \in x.calls :
                   c \in calls \/ \E b0 \in ToSet(batches[p]) : c \in b0.calls
  <2>1. ToSet(batches'[p]) = {a, add(b)} /\ ToSet(batches[p]) = {a, b}
        /\ ToSet(Tail(batches'[p])) = {add(b)} /\ ToSet(Tail(batches[p])) = {b}
    BY <1>7, <1>8, <1>10, SetsOfBatches, ZenonT(60)
  <2>2. /\ add(b).deleted = b.deleted \cup retained[p] \cup deleted
        /\ add(b).calls = b.calls \cup calls
    BY DEF add
  <2> QED BY <1>8, <2>1, <2>2 DEF Deletions, Later
<1> QED
  BY <1>1, <1>2, <1>5, <1>6, <1>7, <1>8, <1>9, <1>10, ShortSeq

(* The end of a save answers the first batch, and saves what is known now  *)
(* for the second.                                                         *)
Answered(p, ok) ==
  /\ batches' \in [Processes -> Seq(Batch)]
  /\ \A q \in Processes : Len(batches'[q]) <= 2
  /\ retained' \in [Processes -> SUBSET Ids]
  /\ image' \in [Processes -> Entries]
  /\ \A q \in Processes \ {p} :
       /\ batches'[q] = batches[q] /\ retained'[q] = retained[q]
       /\ image'[q] = image[q]
  /\ Deletions(p)' = IF ok THEN Later(p) ELSE Deletions(p)
  /\ Later(p) \subseteq Deletions(p)
  /\ \A b \in ToSet(batches'[p]) : \A c \in b.calls :
       \E b0 \in ToSet(batches[p]) : c \in b0.calls
  /\ batches'[p] # <<>> =>
       /\ image'[p] = cache[p] /\ Head(batches'[p]) \in ToSet(batches'[p])
  /\ confirmed' \subseteq Saved
  /\ \A c \in confirmed' :
       c \in confirmed \/ (ok /\ c \in Head(batches[p]).calls)

(* The end of a save answers its batch, and the next one runs.             *)
LEMMA EndSaveKeeps ==
  ASSUME TypeOK, NEW p \in Processes, NEW ok \in BOOLEAN, batches[p] # <<>>,
         EndSave(p, ok)
  PROVE  Answered(p, ok)
<1> USE DEF Answered
<1> DEFINE s == batches[p]
           kept == retained[p] \cup (IF ok THEN {} ELSE Head(s).deleted)
           moved(b) == [b EXCEPT !.deleted = @ \cup kept]
<1>1. /\ s \in Seq(Batch) /\ Len(s) <= 2 /\ retained[p] \in SUBSET Ids
      /\ batches \in [Processes -> Seq(Batch)] /\ retained \in [Processes -> SUBSET Ids]
      /\ image \in [Processes -> Entries] /\ cache[p] \in Entries
      /\ \A q \in Processes : Len(batches[q]) <= 2
  BY DEF TypeOK
<1>2. /\ confirmed' = IF ok THEN confirmed \cup Head(s).calls ELSE confirmed
      /\ IF Tail(s) = <<>>
         THEN /\ batches' = [batches EXCEPT ![p] = <<>>]
              /\ retained' = [retained EXCEPT ![p] = kept] /\ image' = image
         ELSE /\ batches' = [batches EXCEPT ![p] = <<moved(Tail(s)[1])>>]
              /\ retained' = [retained EXCEPT ![p] = {}]
              /\ image' = [image EXCEPT ![p] = cache[p]]
  BY DEF EndSave
<1>3. Head(s) \in Batch /\ Head(s).calls \in SUBSET Saved
  <2>1. Head(s) \in Batch
    BY <1>1, HeadTailProperties
  <2> QED BY <2>1 DEF Batch
<1>4. /\ confirmed' \subseteq Saved
      /\ \A c \in confirmed' : c \in confirmed \/ (ok /\ c \in Head(s).calls)
  <2> DEFINE answered == Head(s).calls
  <2>1. confirmed \subseteq Saved /\ answered \subseteq Saved
    BY <1>3 DEF TypeOK
  <2>2. confirmed' = IF ok THEN confirmed \cup answered ELSE confirmed
    BY <1>2
  <2> HIDE DEF answered
  <2>3. /\ confirmed' \subseteq Saved
        /\ \A c \in confirmed' : c \in confirmed \/ (ok /\ c \in answered)
    BY <2>1, <2>2
  <2> QED BY <2>3 DEF answered
<1>5. CASE \E a \in Batch : s = <<a>>
  <2>1. PICK a \in Batch : s = <<a>>
    BY <1>5
  <2>2. Head(s) = a /\ Tail(s) = <<>> /\ ToSet(s) = {a}
    BY <2>1, BatchPair, SetsOfBatches
  <2>3. kept = retained[p] \cup (IF ok THEN {} ELSE a.deleted) /\ kept \in SUBSET Ids
    BY <1>1, <2>2 DEF Batch
  <2> HIDE DEF kept, moved
  <2>4. /\ batches' = [batches EXCEPT ![p] = <<>>]
        /\ retained' = [retained EXCEPT ![p] = kept] /\ image' = image
    BY <1>2, <2>2
  <2>5. /\ batches'[p] = <<>> /\ retained'[p] = kept
        /\ ToSet(batches'[p]) = {} /\ ToSet(Tail(s)) = {}
    <3>1. batches'[p] = <<>> /\ retained'[p] = kept
      BY <1>1, <2>4
    <3> QED BY <2>2, <3>1, SetsOfBatches
  <2>6. /\ Deletions(p)' = IF ok THEN Later(p) ELSE Deletions(p)
        /\ Later(p) \subseteq Deletions(p)
    BY <2>2, <2>3, <2>5 DEF Deletions, Later
  <2>7. /\ batches' \in [Processes -> Seq(Batch)]
        /\ \A q \in Processes : Len(batches'[q]) <= 2
        /\ retained' \in [Processes -> SUBSET Ids]
        /\ image' \in [Processes -> Entries]
        /\ \A q \in Processes \ {p} :
             /\ batches'[q] = batches[q] /\ retained'[q] = retained[q]
             /\ image'[q] = image[q]
    <3>1. <<>> \in Seq(Batch) /\ Len(<<>>) = 0
      BY EmptySeq
    <3> QED BY <1>1, <2>3, <2>4, <3>1
  <2> QED BY <1>4, <2>5, <2>6, <2>7
<1>6. CASE \E a, b \in Batch : s = <<a, b>>
  <2>1. PICK a \in Batch, b \in Batch : s = <<a, b>>
    BY <1>6
  <2>2. Head(s) = a /\ Tail(s) = <<b>> /\ ToSet(s) = {a, b} /\ <<b>> # <<>>
        /\ <<b>>[1] = b /\ ToSet(<<b>>) = {b}
    BY <2>1, BatchPair, SetsOfBatches
  <2>3. kept = retained[p] \cup (IF ok THEN {} ELSE a.deleted) /\ kept \in SUBSET Ids
    BY <1>1, <2>2 DEF Batch
  <2>4. /\ moved(b) \in Batch /\ moved(b).calls = b.calls
        /\ moved(b).deleted = b.deleted \cup kept
    BY <2>3 DEF Batch
  <2>5. /\ <<moved(b)>> \in Seq(Batch) /\ Len(<<moved(b)>>) = 1
        /\ Head(<<moved(b)>>) = moved(b) /\ ToSet(<<moved(b)>>) = {moved(b)}
    BY <2>4, BatchPair, SetsOfBatches
  <2> HIDE DEF kept, moved
  <2>6. /\ batches' = [batches EXCEPT ![p] = <<moved(b)>>]
        /\ retained' = [retained EXCEPT ![p] = {}]
        /\ image' = [image EXCEPT ![p] = cache[p]]
    BY <1>2, <2>2
  <2>7. batches'[p] = <<moved(b)>> /\ retained'[p] = {} /\ image'[p] = cache[p]
    BY <1>1, <2>6
  <2>8. /\ Deletions(p)' = IF ok THEN Later(p) ELSE Deletions(p)
        /\ Later(p) \subseteq Deletions(p)
    <3>1. ToSet(batches'[p]) = {moved(b)} /\ ToSet(batches[p]) = {a, b}
          /\ ToSet(Tail(batches[p])) = {b}
      BY <2>2, <2>5, <2>7
    <3>2. /\ Deletions(p)' = moved(b).deleted
          /\ Deletions(p) = retained[p] \cup a.deleted \cup b.deleted
          /\ Later(p) = retained[p] \cup b.deleted
      BY <2>7, <3>1 DEF Deletions, Later
    <3>3. CASE ok
      BY <2>3, <2>4, <3>2, <3>3
    <3>4. CASE ~ok
      BY <2>3, <2>4, <3>2, <3>4
    <3> QED BY <3>3, <3>4
  <2>9.  /\ batches' \in [Processes -> Seq(Batch)]
         /\ \A q \in Processes : Len(batches'[q]) <= 2
         /\ retained' \in [Processes -> SUBSET Ids]
         /\ image' \in [Processes -> Entries]
         /\ \A q \in Processes \ {p} :
              /\ batches'[q] = batches[q] /\ retained'[q] = retained[q]
              /\ image'[q] = image[q]
    BY <1>1, <2>5, <2>6
  <2> QED BY <1>4, <2>2, <2>4, <2>5, <2>7, <2>8, <2>9
<1> QED
  BY <1>1, <1>5, <1>6, ShortSeq
-----------------------------------------------------------------------------
(* The running batch and the deletions of a process.                       *)
LEMMA HeadOfBatches ==
  ASSUME NEW p \in Processes, batches[p] \in Seq(Batch), Len(batches[p]) <= 2,
         batches[p] # <<>>
  PROVE  /\ Head(batches[p]) \in ToSet(batches[p])
         /\ Head(batches[p]).deleted \in SUBSET Ids
         /\ Head(batches[p]).calls \in SUBSET Saved
         /\ Deletions(p) = Later(p) \cup Head(batches[p]).deleted
<1>1. CASE \E a \in Batch : batches[p] = <<a>>
  <2>1. PICK a \in Batch : batches[p] = <<a>>
    BY <1>1
  <2>2. /\ Head(batches[p]) = a /\ ToSet(batches[p]) = {a}
        /\ ToSet(Tail(batches[p])) = {}
    BY <2>1, BatchPair, SetsOfBatches
  <2> QED BY <2>2 DEF Deletions, Later, Batch
<1>2. CASE \E a, b \in Batch : batches[p] = <<a, b>>
  <2>1. PICK a \in Batch, b \in Batch : batches[p] = <<a, b>>
    BY <1>2
  <2>2. /\ Head(batches[p]) = a /\ ToSet(batches[p]) = {a, b}
        /\ ToSet(Tail(batches[p])) = {b}
    BY <2>1, BatchPair, SetsOfBatches
  <2> QED BY <2>2 DEF Deletions, Later, Batch
<1> QED
  BY <1>1, <1>2, ShortSeq

(* The calls of a batch have sessions and times.                           *)
LEMMA CallsTyped ==
  ASSUME TypeOK, NEW p \in Processes, NEW b \in ToSet(batches[p]), NEW c \in b.calls
  PROVE  c \in Saved /\ c.id \in Ids /\ c.at \in Nat
<1>1. ToSet(batches[p]) \subseteq Batch
  BY DEF TypeOK, ToSet
<1> QED
  BY <1>1, RegistryAssumption DEF Batch, Saved, Stamps
-----------------------------------------------------------------------------
(* What the store and the runtime do to the entries.                       *)
LEMMA EmptyTyped == Empty \in Entries
BY RegistryAssumption DEF Empty, Entries, Stamps

(* What is merged is at least as new as both copies, but for deletions.    *)
LEMMA MergeTyped ==
  ASSUME NEW ours \in Entries, NEW theirs \in Entries, NEW deleted \in SUBSET Ids
  PROVE  /\ MergeRegistryState(ours, theirs, deleted) \in Entries
         /\ \A i \in Ids :
              /\ ours[i] <= MergeRegistryState(ours, theirs, deleted)[i]
              /\ i \in deleted
                   \/ theirs[i] <= MergeRegistryState(ours, theirs, deleted)[i]
BY RegistryAssumption DEF MergeRegistryState, Entries, Stamps

(* A new time stamp is later than every one before.                        *)
LEMMA TimestampsGrow ==
  ASSUME TypeOK, NEW p \in Processes, NextTimestamp(p) <= MaxStamp
  PROVE  NextTimestamp(p) \in Stamps /\ lastAt[p] < NextTimestamp(p)
BY RegistryAssumption DEF TypeOK, NextTimestamp, Stamps

(* The part of the invariant that any environment leaves intact, process   *)
(* by process.                                                             *)
Orderly(q) ==
  /\ phase[q] \notin {"out", "gone"} => batches[q] # <<>>
  /\ q \notin hydrated => batches[q] = <<>>
  /\ step[q] = "read" => phase[q] = "in"
  /\ step[q] \in {"written", "failed"} <=> phase[q] = "leaving"
  /\ step[q] = "written" => undone[q] \subseteq Later(q)
  /\ undone[q] \subseteq Deletions(q)

SaveInv == TypeOK /\ SavesABatch /\ DeletionsLeft /\ DeletionKept

(* The invariant of saving, process by process, now and after a step.      *)
LEMMA SaveInvParts ==
  /\ SaveInv <=> TypeOK /\ \A q \in Processes : Orderly(q)
  /\ SaveInv' <=> TypeOK' /\ \A q \in Processes : Orderly(q)'
BY DEF SaveInv, SavesABatch, DeletionsLeft, DeletionKept, Orderly

(* Deletions depend on the batches and the retained ones alone.            *)
LEMMA SameDeletions ==
  ASSUME NEW q \in Processes, batches'[q] = batches[q], retained'[q] = retained[q]
  PROVE  Deletions(q)' = Deletions(q) /\ Later(q)' = Later(q)
BY DEF Deletions, Later

(* A process whose state stays is as orderly as before.                    *)
LEMMA OrderlyKept ==
  ASSUME NEW q \in Processes, Orderly(q),
         batches'[q] = batches[q], retained'[q] = retained[q],
         phase'[q] = phase[q], step'[q] = step[q], undone'[q] = undone[q],
         q \in hydrated' <=> q \in hydrated
  PROVE  Orderly(q)'
BY SameDeletions DEF Orderly

(* The invariant of saving holds at the start.                             *)
LEMMA InitOrderly == Init => SaveInv
<1> SUFFICES ASSUME Init PROVE SaveInv
  OBVIOUS
<1>1. <<>> \in Seq(Batch) /\ Len(<<>>) = 0
  BY EmptySeq
<1>2. Empty \in Entries
  BY EmptyTyped
<1>3. TypeOK
  <2>1. Lock!TypeOK
    BY DEF Init, Lock!Init, Lock!TypeOK, Lock!Phases
  <2>2. now \in Stamps /\ 0 \in Stamps
    BY RegistryAssumption DEF Init, Stamps
  <2> QED BY <1>1, <1>2, <2>1, <2>2 DEF Init, TypeOK, Steps
<1>4. \A q \in Processes : Orderly(q)
  BY DEF Init, Lock!Init, Orderly
<1> QED
  BY <1>3, <1>4, SaveInvParts

(* One step of the lock moves one process.                                 *)
LockStep(p) ==
  \/ Lock!Request(p) \/ Lock!TryOpen(p) \/ Lock!OpenFails(p) \/ Lock!StatLock(p)
  \/ Lock!RemoveStale(p) \/ Lock!GiveUp(p) \/ Lock!Retry(p) \/ Lock!Finish(p)
  \/ Lock!Release(p) \/ Lock!KeepLock(p) \/ Lock!Crash(p)

(* A step in the lock keeps its types and moves one process.               *)
LEMMA LockTyped ==
  ASSUME Lock!TypeOK, NEW p \in Processes, LockStep(p)
  PROVE  /\ Lock!TypeOK'
         /\ \A q \in Processes \ {p} : phase'[q] = phase[q]
BY DEF LockStep, Lock!Request, Lock!TryOpen, Lock!OpenFails, Lock!StatLock,
       Lock!RemoveStale, Lock!GiveUp, Lock!Retry, Lock!Finish, Lock!Release,
       Lock!KeepLock, Lock!Crash, Lock!Goto, Lock!Free, Lock!TypeOK, Lock!Phases

(* The calls of a host keep the invariant of saving.                       *)
LEMMA CallsKeep ==
  ASSUME SaveInv, NEW p \in Processes,
         \/ Hydrate(p)
         \/ \E i \in Ids : RememberSnapshot(p, i)
         \/ \E S \in SUBSET Ids : DeleteSessions(p, S)
  PROVE  SaveInv'
<1>0. TypeOK /\ \A q \in Processes : Orderly(q)
  BY SaveInvParts
<1>1. CASE Hydrate(p)
  <2>1. TypeOK'
    <3>1. PICK newest \in {file[i] : i \in Ids} \cup {0} :
            lastAt' = [lastAt EXCEPT ![p] = newest]
      BY <1>1 DEF Hydrate
    <3>2. newest \in Stamps
      BY <1>0, RegistryAssumption DEF TypeOK, Entries, Stamps
    <3> QED
      BY <1>0, <1>1, <3>1, <3>2
         DEF Hydrate, TypeOK, fileVars, opVars, history, Lock!TypeOK
  <2>2. \A q \in Processes : Orderly(q)'
    BY <1>0, <1>1, SameDeletions DEF Hydrate, fileVars, opVars, history, Orderly
  <2> QED BY <2>1, <2>2, SaveInvParts
<1>2. ASSUME NEW i \in Ids, RememberSnapshot(p, i)
      PROVE  SaveInv'
  <2> DEFINE at == NextTimestamp(p)
             known == [cache[p] EXCEPT ![i] = at]
             calls == {[id |-> i, at |-> at]}
  <2>1. at \in Stamps
    BY <1>0, <1>2, TimestampsGrow DEF RememberSnapshot
  <2>2. known \in Entries /\ calls \in SUBSET Saved
    BY <1>0, <2>1 DEF TypeOK, Entries, Saved
  <2>3. /\ Persist(p, known, {}, calls) /\ cache' = [cache EXCEPT ![p] = known]
        /\ lastAt' = [lastAt EXCEPT ![p] = at] /\ p \in hydrated /\ phase[p] # "gone"
        /\ UNCHANGED <<lock, old, phase, stolen, now, file, latest, step, hydrated,
                       confirmed, removed, undone>>
    BY <1>2 DEF RememberSnapshot, Alive, fileVars, opVars, history
  <2> HIDE DEF at, known, calls
  <2>4. Added(p, known, {}, calls)
    BY <1>0, <2>2, <2>3, PersistAdds
  <2>5. TypeOK'
    BY <1>0, <2>1, <2>2, <2>3, <2>4 DEF TypeOK, Lock!TypeOK, Added
  <2>6. Orderly(p)'
    BY <1>0, <2>3, <2>4 DEF Orderly, Added
  <2>7. \A q \in Processes \ {p} : Orderly(q)'
    BY <1>0, <2>3, <2>4, OrderlyKept DEF Added
  <2> QED BY <2>5, <2>6, <2>7, SaveInvParts
<1>3. ASSUME NEW S \in SUBSET Ids, DeleteSessions(p, S)
      PROVE  SaveInv'
  <2> DEFINE known == [i \in Ids |-> IF i \in S THEN 0 ELSE cache[p][i]]
  <2>1. known \in Entries
    BY <1>0, RegistryAssumption DEF TypeOK, Entries, Stamps
  <2>2. /\ Persist(p, known, S, {}) /\ cache' = [cache EXCEPT ![p] = known]
        /\ removed' = removed \cup S /\ undone' = [undone EXCEPT ![p] = @ \cup S]
        /\ p \in hydrated /\ phase[p] # "gone"
        /\ UNCHANGED <<lock, old, phase, stolen, now, file, latest, step, hydrated,
                       lastAt, confirmed>>
    BY <1>3 DEF DeleteSessions, Alive, fileVars, opVars
  <2> HIDE DEF known
  <2>3. Added(p, known, S, {})
    BY <1>0, <2>1, <2>2, PersistAdds
  <2>4. undone'[p] = undone[p] \cup S /\ \A q \in Processes \ {p} : undone'[q] = undone[q]
    BY <1>0, <2>2 DEF TypeOK
  <2>5. TypeOK'
    <3>1. undone' \in [Processes -> SUBSET Ids] /\ removed' \subseteq Ids
      BY <1>0, <2>2 DEF TypeOK
    <3>2. cache' \in [Processes -> Entries]
      BY <1>0, <2>1, <2>2 DEF TypeOK
    <3> QED BY <1>0, <2>2, <2>3, <3>1, <3>2 DEF TypeOK, Lock!TypeOK, Added
  <2>6. Orderly(p)'
    BY <1>0, <2>2, <2>3, <2>4 DEF Orderly, Added
  <2>7. \A q \in Processes \ {p} : Orderly(q)'
    BY <1>0, <2>2, <2>3, <2>4, OrderlyKept DEF Added
  <2> QED BY <2>5, <2>6, <2>7, SaveInvParts
<1> QED
  BY <1>1, <1>2, <1>3

(* The steps of a save keep the invariant of saving.                       *)
LEMMA StoreKeeps ==
  ASSUME SaveInv, NEW p \in Processes,
         \/ BeginSave(p) \/ TryLock(p) \/ NoLock(p) \/ ReadFile(p)
         \/ WriteFile(p) \/ ReadOrWriteFails(p) \/ EndOperation(p) \/ Crash(p)
  PROVE  SaveInv'
<1>0. TypeOK /\ Lock!TypeOK /\ \A q \in Processes : Orderly(q)
  BY SaveInvParts DEF TypeOK
<1>1. CASE BeginSave(p)
  <2>1. /\ Lock!Request(p) /\ batches[p] # <<>>
        /\ UNCHANGED <<now, file, latest, step, hydrated, cache, lastAt, batches,
                       retained, image, confirmed, removed, undone>>
    BY <1>1 DEF BeginSave, opVars, memVars, history
  <2>2. Lock!TypeOK' /\ \A q \in Processes \ {p} : phase'[q] = phase[q]
    BY <1>0, <2>1, LockTyped DEF LockStep
  <2>3. phase[p] = "out" /\ phase'[p] = "trying"
    BY <1>0, <2>1 DEF Lock!Request, Lock!Goto, Lock!TypeOK
  <2>4. TypeOK'
    BY <1>0, <2>1, <2>2 DEF TypeOK
  <2>5. Orderly(p)'
    BY <1>0, <2>1, <2>3, SameDeletions DEF Orderly
  <2>6. \A q \in Processes \ {p} : Orderly(q)'
    BY <1>0, <2>1, <2>2, OrderlyKept
  <2> QED BY <2>4, <2>5, <2>6, SaveInvParts
<1>2. CASE TryLock(p)
  <2>1. /\ Lock!TryOpen(p) \/ Lock!StatLock(p) \/ Lock!RemoveStale(p) \/ Lock!Retry(p)
        /\ UNCHANGED <<now, file, latest, step, hydrated, cache, lastAt, batches,
                       retained, image, confirmed, removed, undone>>
    BY <1>2 DEF TryLock, opVars, memVars, history
  <2>2. Lock!TypeOK' /\ \A q \in Processes \ {p} : phase'[q] = phase[q]
    BY <1>0, <2>1, LockTyped DEF LockStep
  <2>3. /\ phase[p] \in {"trying", "blocked", "removing", "waiting"}
        /\ phase'[p] \in {"in", "blocked", "removing", "waiting", "trying"}
    BY <1>0, <2>1 DEF Lock!TryOpen, Lock!StatLock, Lock!RemoveStale, Lock!Retry,
                      Lock!Goto, Lock!TypeOK
  <2>4. TypeOK'
    BY <1>0, <2>1, <2>2 DEF TypeOK
  <2>5. Orderly(p)'
    BY <1>0, <2>1, <2>3, SameDeletions DEF Orderly
  <2>6. \A q \in Processes \ {p} : Orderly(q)'
    BY <1>0, <2>1, <2>2, OrderlyKept
  <2> QED BY <2>4, <2>5, <2>6, SaveInvParts
<1>3. CASE NoLock(p)
  <2>1. /\ Lock!GiveUp(p) \/ Lock!OpenFails(p)
        /\ EndSave(p, FALSE)
        /\ UNCHANGED <<now, file, latest, step, hydrated, cache, lastAt, removed, undone>>
    BY <1>3 DEF NoLock, opVars
  <2>2. Lock!TypeOK' /\ \A q \in Processes \ {p} : phase'[q] = phase[q]
    BY <1>0, <2>1, LockTyped DEF LockStep
  <2>3. phase[p] \in {"trying", "blocked", "removing", "waiting"} /\ phase'[p] = "out"
    BY <1>0, <2>1 DEF Lock!GiveUp, Lock!OpenFails, Lock!Goto, Lock!TypeOK
  <2>4. Answered(p, FALSE)
    BY <1>0, <2>1, <2>3, EndSaveKeeps DEF Orderly
  <2>5. TypeOK'
    BY <1>0, <2>1, <2>2, <2>4 DEF TypeOK, Answered
  <2>6. Orderly(p)'
    BY <1>0, <2>1, <2>3, <2>4 DEF Orderly, Answered
  <2>7. \A q \in Processes \ {p} : Orderly(q)'
    BY <1>0, <2>1, <2>2, <2>4, OrderlyKept DEF Answered
  <2> QED BY <2>5, <2>6, <2>7, SaveInvParts
<1>4. CASE ReadFile(p)
  <2>1. /\ phase[p] = "in" /\ step[p] = "none"
        /\ latest' = [latest EXCEPT ![p] = file]
        /\ step' = [step EXCEPT ![p] = "read"]
        /\ UNCHANGED <<lock, old, phase, stolen, now, file, hydrated, cache, lastAt, batches,
                       retained, image, confirmed, removed, undone>>
    BY <1>4 DEF ReadFile, fileVars, memVars, history
  <2>2. step'[p] = "read" /\ \A q \in Processes \ {p} : step'[q] = step[q]
    BY <1>0, <2>1 DEF TypeOK
  <2>3. TypeOK'
    BY <1>0, <2>1 DEF TypeOK, Lock!TypeOK, Steps
  <2>4. Orderly(p)'
    BY <1>0, <2>1, <2>2, SameDeletions DEF Orderly
  <2>5. \A q \in Processes \ {p} : Orderly(q)'
    BY <1>0, <2>1, <2>2, OrderlyKept
  <2> QED BY <2>3, <2>4, <2>5, SaveInvParts
<1>5. CASE WriteFile(p)
  <2> DEFINE deleted == Head(batches[p]).deleted
  <2>1. /\ Lock!Finish(p) /\ step[p] = "read"
        /\ file' = MergeRegistryState(image[p], latest[p], deleted)
        /\ step' = [step EXCEPT ![p] = "written"]
        /\ latest' = [latest EXCEPT ![p] = Empty]
        /\ undone' = [undone EXCEPT ![p] = @ \ deleted]
        /\ UNCHANGED <<now, hydrated, cache, lastAt, batches, retained, image,
                       confirmed, removed>>
    BY <1>5 DEF WriteFile, memVars
  <2>2. Lock!TypeOK' /\ \A q \in Processes \ {p} : phase'[q] = phase[q]
    BY <1>0, <2>1, LockTyped DEF LockStep
  <2>3. phase[p] = "in" /\ phase'[p] = "leaving"
    BY <1>0, <2>1 DEF Lock!Finish, Lock!Goto, Lock!TypeOK
  <2>4. batches[p] # <<>> /\ batches[p] \in Seq(Batch) /\ Len(batches[p]) <= 2
    BY <1>0, <2>3 DEF Orderly, TypeOK
  <2>5. Deletions(p) \subseteq Later(p) \cup deleted /\ deleted \in SUBSET Ids
    BY <2>4, HeadOfBatches
  <2> HIDE DEF deleted
  <2>6. /\ step'[p] = "written" /\ undone'[p] = undone[p] \ deleted
        /\ \A q \in Processes \ {p} : step'[q] = step[q] /\ undone'[q] = undone[q]
    BY <1>0, <2>1 DEF TypeOK
  <2>7. TypeOK'
    <3>1. file' \in Entries
      BY <1>0, <2>1, <2>5, MergeTyped DEF TypeOK
    <3>2. step' \in [Processes -> Steps]
      BY <1>0, <2>1 DEF TypeOK, Steps
    <3>3. latest' \in [Processes -> Entries]
      BY <1>0, <2>1, EmptyTyped DEF TypeOK
    <3>4. undone' \in [Processes -> SUBSET Ids]
      BY <1>0, <2>1 DEF TypeOK
    <3> QED BY <1>0, <2>1, <2>2, <3>1, <3>2, <3>3, <3>4 DEF TypeOK
  <2>8. Orderly(p)'
    BY <1>0, <2>1, <2>3, <2>4, <2>5, <2>6, SameDeletions DEF Orderly
  <2>9. \A q \in Processes \ {p} : Orderly(q)'
    BY <1>0, <2>1, <2>2, <2>6, OrderlyKept
  <2> QED BY <2>7, <2>8, <2>9, SaveInvParts
<1>6. CASE ReadOrWriteFails(p)
  <2>1. /\ Lock!Finish(p)
        /\ step' = [step EXCEPT ![p] = "failed"]
        /\ latest' = [latest EXCEPT ![p] = Empty]
        /\ UNCHANGED <<now, file, hydrated, cache, lastAt, batches, retained, image,
                       confirmed, removed, undone>>
    BY <1>6 DEF ReadOrWriteFails, memVars, history
  <2>2. Lock!TypeOK' /\ \A q \in Processes \ {p} : phase'[q] = phase[q]
    BY <1>0, <2>1, LockTyped DEF LockStep
  <2>3. phase[p] = "in" /\ phase'[p] = "leaving"
    BY <1>0, <2>1 DEF Lock!Finish, Lock!Goto, Lock!TypeOK
  <2>4. step'[p] = "failed" /\ \A q \in Processes \ {p} : step'[q] = step[q]
    BY <1>0, <2>1 DEF TypeOK
  <2>5. TypeOK'
    BY <1>0, <2>1, <2>2, EmptyTyped DEF TypeOK, Steps
  <2>6. Orderly(p)'
    BY <1>0, <2>1, <2>3, <2>4, SameDeletions DEF Orderly
  <2>7. \A q \in Processes \ {p} : Orderly(q)'
    BY <1>0, <2>1, <2>2, <2>4, OrderlyKept
  <2> QED BY <2>5, <2>6, <2>7, SaveInvParts
<1>7. CASE EndOperation(p)
  <2> DEFINE ok == step[p] = "written"
  <2>1. /\ Lock!Release(p) \/ Lock!KeepLock(p)
        /\ EndSave(p, ok)
        /\ step' = [step EXCEPT ![p] = "none"]
        /\ UNCHANGED <<now, file, latest, hydrated, cache, lastAt, removed, undone>>
    BY <1>7 DEF EndOperation
  <2>2. Lock!TypeOK' /\ \A q \in Processes \ {p} : phase'[q] = phase[q]
    BY <1>0, <2>1, LockTyped DEF LockStep
  <2>3. phase[p] = "leaving" /\ phase'[p] = "out"
    BY <1>0, <2>1 DEF Lock!Release, Lock!KeepLock, Lock!Goto, Lock!TypeOK
  <2>4. Answered(p, ok)
    <3>1. ok \in BOOLEAN /\ batches[p] # <<>>
      BY <1>0, <2>3 DEF Orderly
    <3> HIDE DEF ok
    <3> QED BY <1>0, <2>1, <3>1, EndSaveKeeps
  <2>5. step'[p] = "none" /\ \A q \in Processes \ {p} : step'[q] = step[q]
    BY <1>0, <2>1 DEF TypeOK
  <2>6. TypeOK'
    BY <1>0, <2>1, <2>2, <2>4 DEF TypeOK, Answered, Steps
  <2>7. Orderly(p)'
    BY <1>0, <2>1, <2>3, <2>4, <2>5 DEF Orderly, Answered
  <2>8. \A q \in Processes \ {p} : Orderly(q)'
    BY <1>0, <2>1, <2>2, <2>4, <2>5, OrderlyKept DEF Answered
  <2> QED BY <2>6, <2>7, <2>8, SaveInvParts
<1>8. CASE Crash(p)
  <2>1. /\ Lock!Crash(p)
        /\ batches' = [batches EXCEPT ![p] = <<>>]
        /\ retained' = [retained EXCEPT ![p] = {}]
        /\ undone' = [undone EXCEPT ![p] = {}]
        /\ image' = [image EXCEPT ![p] = Empty]
        /\ latest' = [latest EXCEPT ![p] = Empty]
        /\ step' = [step EXCEPT ![p] = "none"]
        /\ UNCHANGED <<now, file, hydrated, cache, lastAt, confirmed, removed>>
    BY <1>8 DEF Crash
  <2>2. Lock!TypeOK' /\ \A q \in Processes \ {p} : phase'[q] = phase[q]
    BY <1>0, <2>1, LockTyped DEF LockStep
  <2>3. phase'[p] = "gone"
    BY <1>0, <2>1 DEF Lock!Crash, Lock!Goto, Lock!TypeOK
  <2>4. /\ batches'[p] = <<>> /\ undone'[p] = {} /\ step'[p] = "none"
        /\ \A q \in Processes \ {p} :
             /\ batches'[q] = batches[q] /\ retained'[q] = retained[q]
             /\ undone'[q] = undone[q] /\ step'[q] = step[q]
    BY <1>0, <2>1 DEF TypeOK
  <2>5. TypeOK'
    <3>1. <<>> \in Seq(Batch) /\ Len(<<>>) = 0
      BY EmptySeq
    <3>2. /\ batches' \in [Processes -> Seq(Batch)]
          /\ \A q \in Processes : Len(batches'[q]) <= 2
      BY <1>0, <2>1, <3>1 DEF TypeOK
    <3> QED BY <1>0, <2>1, <2>2, <3>2, EmptyTyped DEF TypeOK, Steps
  <2>6. Orderly(p)'
    BY <2>3, <2>4 DEF Orderly
  <2>7. \A q \in Processes \ {p} : Orderly(q)'
    BY <1>0, <2>1, <2>2, <2>4, OrderlyKept
  <2> QED BY <2>5, <2>6, <2>7, SaveInvParts
<1> QED
  BY <1>1, <1>2, <1>3, <1>4, <1>5, <1>6, <1>7, <1>8

(* Every step keeps the invariant of saving.                               *)
LEMMA SaveInvStep == SaveInv /\ [Next]_vars => SaveInv'
<1> SUFFICES ASSUME SaveInv, [Next]_vars PROVE SaveInv'
  OBVIOUS
<1>0. TypeOK /\ Lock!TypeOK /\ \A q \in Processes : Orderly(q)
  BY SaveInvParts DEF TypeOK
<1>1. CASE LockAges \/ Tick \/ UNCHANGED vars
  <2>1. UNCHANGED <<phase, file, latest, step, hydrated, cache, lastAt, batches,
                    retained, image, confirmed, removed, undone>>
    BY <1>1 DEF LockAges, Lock!LockAges, Tick, vars, fileVars, opVars, memVars, history
  <2>2. lock' = lock /\ stolen' = stolen /\ old' \in BOOLEAN /\ now' \in Stamps
    <3>1. CASE LockAges
      BY <1>0, <3>1 DEF LockAges, Lock!LockAges, TypeOK
    <3>2. CASE Tick
      <4>1. UNCHANGED <<lock, stolen, old>> /\ now' = now + 1 /\ now < MaxStamp
        BY <3>2 DEF Tick, fileVars
      <4> QED BY <1>0, <4>1, RegistryAssumption DEF TypeOK, Lock!TypeOK, Stamps
    <3>3. CASE UNCHANGED vars
      BY <1>0, <3>3 DEF vars, fileVars, TypeOK, Lock!TypeOK
    <3> QED BY <1>1, <3>1, <3>2, <3>3
  <2>3. TypeOK'
    BY <1>0, <2>1, <2>2 DEF TypeOK, Lock!TypeOK
  <2>4. \A q \in Processes : Orderly(q)'
    BY <1>0, <2>1, OrderlyKept
  <2> QED BY <2>3, <2>4, SaveInvParts
<1> QED
  BY <1>1, CallsKeep, StoreKeeps DEF Next

(* The values stay within their types: at most one save of a process runs  *)
(* and at most one batch waits for it.                                     *)
THEOREM RegistryTypeCorrect == Spec => []TypeOK
<1>1. SaveInv => TypeOK
  BY DEF SaveInv
<1> QED
  BY <1>1, InitOrderly, SaveInvStep, PTL DEF Spec

(* No deletion is forgotten, whatever fails.                               *)
THEOREM DeletionKeptHolds == Spec => []DeletionKept
<1>1. SaveInv => DeletionKept
  BY DEF SaveInv
<1> QED
  BY <1>1, InitOrderly, SaveInvStep, PTL DEF Spec
-----------------------------------------------------------------------------
(* What holds until a process inside loses its lock file, whoever dies, is *)
(* slow or leaves a lock file behind.                                      *)
Inside == {"in", "leaving"}

(* LockHeld and ChangesCarried, process by process.                        *)
Carried(q) ==
  /\ phase[q] \in Inside => lock = q
  /\ step[q] = "read" => latest[q] = file
  /\ \A b \in ToSet(batches[q]) : \A c \in b.calls : StoredIn(cache[q], c)
  /\ \A i \in Ids : cache[q][i] <= lastAt[q]
  /\ Deletions(q) \subseteq removed
  /\ batches[q] # <<>> =>
       \A c \in Head(batches[q]).calls :
         StoredIn(image[q], c) /\ (step[q] = "written" => StoredIn(file, c))

(* ConfirmedIsStored, as long as no lock was taken away.                   *)
Kept == \A c \in confirmed : StoredIn(file, c)

SafeInv ==
  /\ SaveInv /\ Kept
  /\ \A q \in Processes : Carried(q)

(* A process whose state stays carries what it did, while lock and file    *)
(* stay if it is inside.                                                   *)
LEMMA CarriedKept ==
  ASSUME NEW q \in Processes, Carried(q), Orderly(q),
         phase'[q] = phase[q], step'[q] = step[q], latest'[q] = latest[q],
         batches'[q] = batches[q], retained'[q] = retained[q],
         image'[q] = image[q], cache'[q] = cache[q], lastAt'[q] = lastAt[q],
         removed \subseteq removed',
         phase[q] \in Inside => lock' = lock /\ file' = file
  PROVE  Carried(q)'
<1>1. Deletions(q)' = Deletions(q)
  BY SameDeletions
<1>2. step[q] \in {"read", "written"} => phase[q] \in Inside
  BY DEF Orderly, Inside
<1> QED
  BY <1>1, <1>2 DEF Carried, StoredIn

(* The invariant of the file holds at the start.                           *)
LEMMA InitCarried == Init => SafeInv
<1> SUFFICES ASSUME Init PROVE SafeInv
  OBVIOUS
<1>1. \A q \in Processes : Carried(q)
  BY SetsOfBatches
     DEF Init, Lock!Init, Carried, Inside, Deletions, Empty
<1>2. Kept
  BY DEF Init, Lock!Init, Kept
<1> QED
  BY <1>1, <1>2, InitOrderly DEF SafeInv

(* Nobody else is inside.                                                  *)
LEMMA OneInside ==
  ASSUME SafeInv, NEW p \in Processes, phase[p] \in Inside
  PROVE  \A q \in Processes \ {p} : phase[q] \notin Inside
BY DEF SafeInv, Carried

(* The calls of a host keep the invariant of the file.                     *)
LEMMA CallsCarry ==
  ASSUME SafeInv, NEW p \in Processes,
         \/ Hydrate(p)
         \/ \E i \in Ids : RememberSnapshot(p, i)
         \/ \E S \in SUBSET Ids : DeleteSessions(p, S)
  PROVE  SafeInv'
<1>0. /\ SaveInv' /\ TypeOK /\ Kept
      /\ \A q \in Processes : Carried(q) /\ Orderly(q)
  BY CallsKeep, SaveInvParts DEF SafeInv
<1>1. CASE Hydrate(p)
  <2>1. PICK newest \in {file[i] : i \in Ids} \cup {0} :
          /\ \A i \in Ids : file[i] <= newest
          /\ lastAt' = [lastAt EXCEPT ![p] = newest]
    BY <1>1 DEF Hydrate
  <2>2. /\ p \notin hydrated /\ cache' = [cache EXCEPT ![p] = file]
        /\ UNCHANGED <<lock, old, phase, file, latest, step, batches, retained,
                       image, confirmed, removed>>
    BY <1>1 DEF Hydrate, fileVars, opVars, history
  <2>3. batches'[p] = <<>> /\ ToSet(batches'[p]) = {} /\ batches[p] = <<>>
    BY <1>0, <2>2, SetsOfBatches DEF Orderly
  <2>4. cache'[p] = file /\ lastAt'[p] = newest
        /\ \A q \in Processes \ {p} : cache'[q] = cache[q] /\ lastAt'[q] = lastAt[q]
    BY <1>0, <2>1, <2>2 DEF TypeOK
  <2>5. Carried(p)'
    BY <1>0, <2>1, <2>2, <2>3, <2>4, SameDeletions DEF Carried, Orderly
  <2>6. \A q \in Processes \ {p} : Carried(q)'
    BY <1>0, <2>2, <2>4, CarriedKept
  <2>7. Kept'
    BY <1>0, <2>2 DEF Kept, StoredIn
  <2> QED BY <1>0, <2>5, <2>6, <2>7 DEF SafeInv
<1>2. ASSUME NEW i \in Ids, RememberSnapshot(p, i)
      PROVE  SafeInv'
  <2> DEFINE at == NextTimestamp(p)
             known == [cache[p] EXCEPT ![i] = at]
             calls == {[id |-> i, at |-> at]}
  <2>1. at \in Stamps /\ lastAt[p] < at
    BY <1>0, <1>2, TimestampsGrow DEF RememberSnapshot
  <2>2. known \in Entries /\ calls \in SUBSET Saved
    BY <1>0, <2>1 DEF TypeOK, Entries, Saved
  <2>3. /\ Persist(p, known, {}, calls) /\ cache' = [cache EXCEPT ![p] = known]
        /\ lastAt' = [lastAt EXCEPT ![p] = at] /\ p \in hydrated /\ phase[p] # "gone"
        /\ UNCHANGED <<lock, old, phase, stolen, now, file, latest, step, hydrated,
                       confirmed, removed, undone>>
    BY <1>2 DEF RememberSnapshot, Alive, fileVars, opVars, history
  <2>4. Added(p, known, {}, calls)
    BY <1>0, <2>2, <2>3, PersistAdds
  <2>5. cache'[p] = known /\ lastAt'[p] = at
        /\ \A q \in Processes \ {p} : cache'[q] = cache[q] /\ lastAt'[q] = lastAt[q]
    BY <1>0, <2>3 DEF TypeOK
  <2>6. \A j \in Ids : cache[p][j] <= known[j] /\ known[j] <= at
    <3>1. \A j \in Ids : /\ cache[p][j] \in Nat /\ lastAt[p] \in Nat /\ at \in Nat
                         /\ cache[p][j] <= lastAt[p]
      BY <1>0, <2>1, RegistryAssumption DEF TypeOK, Entries, Stamps, Carried
    <3>2. \A j \in Ids : known[j] = IF j = i THEN at ELSE cache[p][j]
      BY <1>0 DEF TypeOK, Entries
    <3> HIDE DEF at, known
    <3> QED BY <2>1, <3>1, <3>2
  <2>7. \A c \in calls : c.id \in Ids /\ known[c.id] = at /\ c.at = at
    BY <1>0 DEF TypeOK, Entries
  <2> HIDE DEF at, known, calls
  <2>8. \A b \in ToSet(batches'[p]) : \A c \in b.calls : StoredIn(known, c)
    <3> SUFFICES ASSUME NEW b \in ToSet(batches'[p]), NEW c \in b.calls
                 PROVE  StoredIn(known, c)
      OBVIOUS
    <3>1. CASE c \in calls
      BY <2>1, <2>7, <3>1 DEF StoredIn, Stamps
    <3>2. CASE \E b0 \in ToSet(batches[p]) : c \in b0.calls
      <4>1. StoredIn(cache[p], c)
        BY <1>0, <3>2 DEF Carried
      <4>2. c.id \in Ids /\ c.at \in Nat
        BY <1>0, <3>2, CallsTyped
      <4>3. cache[p][c.id] \in Nat /\ known[c.id] \in Nat
        BY <1>0, <2>2, <4>2, RegistryAssumption DEF TypeOK, Entries, Stamps
      <4> QED BY <2>6, <4>1, <4>2, <4>3 DEF StoredIn
    <3> QED BY <2>4, <3>1, <3>2 DEF Added
  <2>9. Carried(p)'
    <3>1. Deletions(p)' \subseteq removed'
      BY <1>0, <2>3, <2>4 DEF Carried, Added
    <3>2. \A b \in ToSet(batches'[p]) : \A c \in b.calls : StoredIn(cache[p], c)'
      BY <2>3, <2>5, <2>8 DEF StoredIn
    <3>3. ASSUME NEW c \in Head(batches'[p]).calls
          PROVE  /\ StoredIn(image[p], c)'
                 /\ step'[p] = "written" => StoredIn(file, c)'
      <4>1. CASE batches[p] # <<>>
        BY <1>0, <2>3, <2>4, <3>3, <4>1 DEF Carried, Added, StoredIn
      <4>2. CASE batches[p] = <<>>
        <5>1. image'[p] = known /\ c \in calls
          BY <2>4, <3>3, <4>2 DEF Added
        <5>2. step'[p] # "written"
          BY <1>0, <2>3, <4>2 DEF Orderly
        <5> QED BY <2>1, <2>7, <5>1, <5>2 DEF StoredIn, Stamps
      <4> QED BY <4>1, <4>2
    <3>4. \A j \in Ids : cache'[p][j] <= lastAt'[p]
      BY <2>5, <2>6
    <3>5. /\ phase'[p] \in Inside => lock' = p
          /\ step'[p] = "read" => latest'[p] = file'
      BY <1>0, <2>3 DEF Carried
    <3> QED BY <3>1, <3>2, <3>3, <3>4, <3>5 DEF Carried
  <2>10. \A q \in Processes \ {p} : Carried(q)'
    BY <1>0, <2>3, <2>4, <2>5, CarriedKept DEF Added
  <2>11. Kept'
    BY <1>0, <2>3 DEF Kept, StoredIn
  <2> QED BY <1>0, <2>9, <2>10, <2>11 DEF SafeInv
<1>3. ASSUME NEW S \in SUBSET Ids, DeleteSessions(p, S)
      PROVE  SafeInv'
  <2> DEFINE known == [i \in Ids |-> IF i \in S THEN 0 ELSE cache[p][i]]
  <2>1. known \in Entries
    BY <1>0, RegistryAssumption DEF TypeOK, Entries, Stamps
  <2>2. /\ Persist(p, known, S, {}) /\ cache' = [cache EXCEPT ![p] = known]
        /\ removed' = removed \cup S /\ p \in hydrated /\ phase[p] # "gone"
        /\ UNCHANGED <<lock, old, phase, stolen, now, file, latest, step, hydrated,
                       lastAt, confirmed>>
    BY <1>3 DEF DeleteSessions, Alive, fileVars, opVars
  <2>3. Added(p, known, S, {})
    BY <1>0, <2>1, <2>2, PersistAdds
  <2>4. cache'[p] = known /\ \A q \in Processes \ {p} : cache'[q] = cache[q]
    BY <1>0, <2>2 DEF TypeOK
  <2>5. /\ \A j \in Ids : known[j] <= lastAt[p]
        /\ \A c \in Saved : StoredIn(cache[p], c) =>
             known[c.id] >= c.at \/ c.id \in removed'
    <3>1. \A j \in Ids : /\ cache[p][j] \in Nat /\ lastAt[p] \in Nat
                         /\ cache[p][j] <= lastAt[p]
      BY <1>0, RegistryAssumption DEF TypeOK, Entries, Stamps, Carried
    <3>2. \A j \in Ids : known[j] = IF j \in S THEN 0 ELSE cache[p][j]
      OBVIOUS
    <3>3. \A c \in Saved : c.id \in Ids
      BY DEF Saved
    <3> HIDE DEF known
    <3> QED BY <2>2, <3>1, <3>2, <3>3 DEF StoredIn
  <2> HIDE DEF known
  <2>6. Carried(p)'
    <3>1. Deletions(p)' \subseteq removed'
      BY <1>0, <2>2, <2>3 DEF Carried, Added
    <3>2. ASSUME NEW b \in ToSet(batches'[p]), NEW c \in b.calls
          PROVE  StoredIn(cache[p], c)'
      <4>1. PICK b0 \in ToSet(batches[p]) : c \in b0.calls
        BY <2>3, <3>2 DEF Added
      <4>2. c \in Saved /\ StoredIn(cache[p], c)
        BY <1>0, <4>1, CallsTyped DEF Carried
      <4> QED BY <2>4, <2>5, <4>2 DEF StoredIn
    <3>3. ASSUME NEW c \in Head(batches'[p]).calls
          PROVE  /\ StoredIn(image[p], c)'
                 /\ step'[p] = "written" => StoredIn(file, c)'
      <4>1. batches[p] # <<>>
        BY <2>3, <3>3 DEF Added
      <4> QED BY <1>0, <2>2, <2>3, <3>3, <4>1 DEF Carried, Added, StoredIn
    <3>4. \A j \in Ids : cache'[p][j] <= lastAt'[p]
      BY <2>2, <2>4, <2>5
    <3>5. /\ phase'[p] \in Inside => lock' = p
          /\ step'[p] = "read" => latest'[p] = file'
      BY <1>0, <2>2 DEF Carried
    <3> QED BY <3>1, <3>2, <3>3, <3>4, <3>5 DEF Carried
  <2>7. \A q \in Processes \ {p} : Carried(q)'
    BY <1>0, <2>2, <2>3, <2>4, CarriedKept DEF Added
  <2>8. Kept'
    BY <1>0, <2>2 DEF Kept, StoredIn
  <2> QED BY <1>0, <2>6, <2>7, <2>8 DEF SafeInv
<1> QED
  BY <1>1, <1>2, <1>3

(* A lock that was taken away stays so marked.                             *)
LEMMA StolenStays == [Next]_vars /\ stolen => stolen'
<1> SUFFICES ASSUME [Next]_vars, stolen PROVE stolen'
  OBVIOUS
<1> QED
  BY DEF Next, vars, fileVars, Hydrate, RememberSnapshot, DeleteSessions,
     BeginSave, Lock!Request, TryLock, Lock!TryOpen, Lock!StatLock,
     Lock!RemoveStale, Lock!Retry, NoLock, Lock!GiveUp, Lock!OpenFails,
     ReadFile, WriteFile, ReadOrWriteFails, Lock!Finish, EndOperation,
     Lock!Release, Lock!KeepLock, Crash, Lock!Crash, LockAges, Lock!LockAges,
     Tick

(* The step that takes a lock away leaves the file.                        *)
LEMMA TheftTakesNoEntry ==
  SaveInv /\ [Next]_vars /\ ~stolen /\ stolen' => EntriesStay
<1> SUFFICES ASSUME SaveInv, [Next]_vars, ~stolen, stolen' PROVE EntriesStay
  OBVIOUS
<1>1. \A i \in Ids : ~(file[i] < file[i])
  BY SaveInvParts, RegistryAssumption DEF TypeOK, Entries, Stamps
<1>2. file' = file
  BY DEF Next, vars, fileVars, Hydrate, RememberSnapshot, DeleteSessions,
     BeginSave, Lock!Request, TryLock, Lock!TryOpen, Lock!StatLock,
     Lock!RemoveStale, Lock!Retry, NoLock, Lock!GiveUp, Lock!OpenFails,
     ReadFile, WriteFile, ReadOrWriteFails, Lock!Finish, EndOperation,
     Lock!Release, Lock!KeepLock, Crash, Lock!Crash, LockAges, Lock!LockAges,
     Tick
<1> QED
  BY <1>1, <1>2 DEF EntriesStay

(* As long as no lock is taken away, the steps of a save keep it, and only *)
(* deletions make an entry older.                                          *)
LEMMA StoreCarries ==
  ASSUME SafeInv, ~stolen', NEW p \in Processes,
         \/ BeginSave(p) \/ TryLock(p) \/ NoLock(p) \/ ReadFile(p)
         \/ WriteFile(p) \/ ReadOrWriteFails(p) \/ EndOperation(p)
  PROVE  /\ SafeInv'
         /\ \A i \in Ids : file'[i] < file[i] =>
              batches[p] # <<>> /\ i \in Head(batches[p]).deleted
<1>0. /\ SaveInv' /\ TypeOK /\ TypeOK' /\ Kept /\ Lock!TypeOK
      /\ \A q \in Processes : Carried(q) /\ Orderly(q)
  BY StoreKeeps, SaveInvParts DEF SafeInv, TypeOK
<1>a. \A i \in Ids : file[i] \in Nat /\ ~(file[i] < file[i])
  BY <1>0, RegistryAssumption DEF TypeOK, Entries, Stamps
<1>1. CASE BeginSave(p) \/ TryLock(p)
  <2>1. /\ \/ Lock!Request(p) \/ Lock!TryOpen(p) \/ Lock!StatLock(p)
           \/ Lock!RemoveStale(p) \/ Lock!Retry(p)
        /\ UNCHANGED <<now, file, latest, step, hydrated, cache, lastAt, batches,
                       retained, image, confirmed, removed, undone>>
    BY <1>1 DEF BeginSave, TryLock, opVars, memVars, history
  <2>2. \A q \in Processes \ {p} : phase'[q] = phase[q]
    BY <1>0, <2>1, LockTyped DEF LockStep
  <2>3. phase[p] \notin Inside
    BY <2>1 DEF Inside, Lock!Request, Lock!TryOpen, Lock!StatLock,
                Lock!RemoveStale, Lock!Retry
  <2>4. \/ lock' = lock /\ phase'[p] \notin Inside
        \/ lock = Nobody /\ lock' = p /\ phase'[p] = "in"
        \/ /\ lock' = Nobody /\ phase'[p] \notin Inside
           /\ lock = Nobody \/ phase[lock] \notin Inside
    BY <1>0, <2>1, <2>3 DEF Inside, Lock!Inside, Lock!Request, Lock!TryOpen,
       Lock!StatLock, Lock!RemoveStale, Lock!Retry, Lock!Free, Lock!Goto, Lock!TypeOK
  <2>5. \A q \in Processes \ {p} : phase[q] \in Inside => lock' = lock
    BY <1>0, <2>4, RegistryAssumption DEF Carried
  <2>6. \A q \in Processes \ {p} : Carried(q)'
    BY <1>0, <2>1, <2>2, <2>5, CarriedKept
  <2>7. Carried(p)'
    <3>1. Deletions(p)' = Deletions(p)
      BY <2>1, SameDeletions
    <3> QED BY <1>0, <2>1, <2>4, <3>1 DEF Carried, StoredIn, Inside
  <2>8. Kept'
    BY <1>0, <2>1 DEF Kept, StoredIn
  <2> QED BY <1>0, <1>a, <2>1, <2>6, <2>7, <2>8 DEF SafeInv
<1>2. CASE ReadFile(p)
  <2>1. /\ phase[p] = "in" /\ step[p] = "none"
        /\ latest' = [latest EXCEPT ![p] = file]
        /\ step' = [step EXCEPT ![p] = "read"]
        /\ UNCHANGED <<lock, old, phase, stolen, now, file, hydrated, cache, lastAt, batches,
                       retained, image, confirmed, removed, undone>>
    BY <1>2 DEF ReadFile, fileVars, memVars, history
  <2>2. /\ step'[p] = "read" /\ latest'[p] = file
        /\ \A q \in Processes \ {p} : step'[q] = step[q] /\ latest'[q] = latest[q]
    BY <1>0, <2>1 DEF TypeOK
  <2>3. Carried(p)'
    <3>1. Deletions(p)' = Deletions(p)
      BY <2>1, SameDeletions
    <3> QED BY <1>0, <2>1, <2>2, <3>1 DEF Carried, StoredIn
  <2>4. \A q \in Processes \ {p} : Carried(q)'
    BY <1>0, <2>1, <2>2, CarriedKept
  <2>5. Kept'
    BY <1>0, <2>1 DEF Kept, StoredIn
  <2> QED BY <1>0, <1>a, <2>1, <2>3, <2>4, <2>5 DEF SafeInv
<1>3. CASE WriteFile(p)
  <2> DEFINE deleted == Head(batches[p]).deleted
  <2>1. /\ Lock!Finish(p) /\ step[p] = "read"
        /\ file' = MergeRegistryState(image[p], latest[p], deleted)
        /\ step' = [step EXCEPT ![p] = "written"]
        /\ latest' = [latest EXCEPT ![p] = Empty]
        /\ UNCHANGED <<now, hydrated, cache, lastAt, batches, retained, image,
                       confirmed, removed>>
    BY <1>3 DEF WriteFile, memVars
  <2>2. /\ phase[p] = "in" /\ phase'[p] = "leaving" /\ lock' = lock /\ old' = old
        /\ \A q \in Processes \ {p} : phase'[q] = phase[q]
    BY <1>0, <2>1 DEF Lock!Finish, Lock!Goto, Lock!TypeOK
  <2>3. /\ batches[p] # <<>> /\ deleted \in SUBSET Ids /\ deleted \subseteq removed
        /\ Head(batches[p]).calls \subseteq Saved
    BY <1>0, <2>2, HeadOfBatches DEF Orderly, TypeOK, Carried
  <2>4. \A i \in Ids : /\ image[p][i] <= file'[i]
                       /\ i \in deleted \/ file[i] <= file'[i]
    BY <1>0, <2>1, <2>3, MergeTyped DEF TypeOK, Carried
  <2>5. \A i \in Ids : image[p][i] \in Nat /\ file[i] \in Nat /\ file'[i] \in Nat
    BY <1>0, RegistryAssumption DEF TypeOK, Entries, Stamps
  <2>6. \A c \in Saved : c.id \in Ids /\ c.at \in Nat
    BY RegistryAssumption DEF Saved, Stamps
  <2> HIDE DEF deleted
  <2>7. /\ step'[p] = "written" /\ removed' = removed
        /\ \A q \in Processes \ {p} : step'[q] = step[q] /\ latest'[q] = latest[q]
    BY <1>0, <2>1 DEF TypeOK
  <2>8. ASSUME NEW c \in Saved
        PROVE  StoredIn(image[p], c) \/ StoredIn(file, c) => StoredIn(file, c)'
    BY <2>3, <2>4, <2>5, <2>6, <2>7 DEF StoredIn
  <2>9. Carried(p)'
    <3>1. Deletions(p)' = Deletions(p)
      BY <2>1, SameDeletions
    <3>2. \A c \in Head(batches[p]).calls : StoredIn(file, c)'
      BY <1>0, <2>3, <2>8 DEF Carried
    <3> QED BY <1>0, <2>1, <2>2, <2>7, <3>1, <3>2 DEF Carried, StoredIn, Inside
  <2>10. \A q \in Processes \ {p} : Carried(q)'
    <3>1. \A q \in Processes \ {p} : phase[q] \notin Inside
      BY <2>2, OneInside DEF Inside
    <3> QED BY <1>0, <2>1, <2>2, <2>7, <3>1, CarriedKept
  <2>11. Kept'
    BY <1>0, <2>1, <2>8 DEF Kept, TypeOK
  <2>12. \A i \in Ids : file'[i] < file[i] => i \in deleted
    BY <2>4, <2>5
  <2> QED BY <1>0, <2>3, <2>9, <2>10, <2>11, <2>12 DEF SafeInv, deleted
<1>4. CASE ReadOrWriteFails(p)
  <2>1. /\ Lock!Finish(p)
        /\ step' = [step EXCEPT ![p] = "failed"]
        /\ latest' = [latest EXCEPT ![p] = Empty]
        /\ UNCHANGED <<now, file, hydrated, cache, lastAt, batches, retained, image,
                       confirmed, removed, undone>>
    BY <1>4 DEF ReadOrWriteFails, memVars, history
  <2>2. /\ phase[p] = "in" /\ phase'[p] = "leaving" /\ lock' = lock /\ old' = old
        /\ \A q \in Processes \ {p} : phase'[q] = phase[q]
    BY <1>0, <2>1 DEF Lock!Finish, Lock!Goto, Lock!TypeOK
  <2>3. /\ step'[p] = "failed"
        /\ \A q \in Processes \ {p} : step'[q] = step[q] /\ latest'[q] = latest[q]
    BY <1>0, <2>1 DEF TypeOK
  <2>4. Carried(p)'
    <3>1. Deletions(p)' = Deletions(p)
      BY <2>1, SameDeletions
    <3> QED BY <1>0, <2>1, <2>2, <2>3, <3>1 DEF Carried, StoredIn, Inside
  <2>5. \A q \in Processes \ {p} : Carried(q)'
    BY <1>0, <2>1, <2>2, <2>3, CarriedKept
  <2>6. Kept'
    BY <1>0, <2>1, <2>2
       DEF Kept, StoredIn, Inside, Lock!TypeOK
  <2> QED BY <1>0, <1>a, <2>1, <2>4, <2>5, <2>6 DEF SafeInv
<1>5. ASSUME NEW ok \in BOOLEAN, EndSave(p, ok), batches[p] # <<>>,
             UNCHANGED <<file, latest, cache, lastAt, removed>>,
             ok => step[p] = "written", step'[p] \notin {"read", "written"},
             phase'[p] = "out",
             \A q \in Processes \ {p} :
               /\ phase'[q] = phase[q] /\ step'[q] = step[q]
               /\ phase[q] \in Inside => lock' = lock
      PROVE  SafeInv' /\ file' = file
  <2>1. Answered(p, ok)
    BY <1>0, <1>5, EndSaveKeeps
  <2>2. Carried(p)'
    <3>1. Deletions(p)' \subseteq removed'
      BY <1>0, <1>5, <2>1 DEF Answered, Carried
    <3>2. \A b \in ToSet(batches'[p]) : \A c \in b.calls : StoredIn(cache[p], c)'
      BY <1>0, <1>5, <2>1 DEF Answered, Carried, StoredIn
    <3>3. batches'[p] # <<>> =>
            \A c \in Head(batches'[p]).calls : StoredIn(image[p], c)'
      BY <2>1, <3>2, <1>5 DEF Answered, StoredIn
    <3> QED BY <1>0, <1>5, <3>1, <3>2, <3>3 DEF Carried, Inside
  <2>3. \A q \in Processes \ {p} : Carried(q)'
    BY <1>0, <1>5, <2>1, CarriedKept DEF Answered
  <2>4. Kept'
    <3>1. ASSUME NEW c \in confirmed' PROVE StoredIn(file, c)
      BY <1>0, <1>5, <2>1, <3>1 DEF Answered, Carried, Kept
    <3> QED BY <1>5, <3>1 DEF Kept, StoredIn
  <2> QED BY <1>0, <1>5, <2>2, <2>3, <2>4 DEF SafeInv
<1>6. CASE NoLock(p)
  <2>1. /\ Lock!GiveUp(p) \/ Lock!OpenFails(p)
        /\ EndSave(p, FALSE)
        /\ UNCHANGED <<now, file, latest, step, hydrated, cache, lastAt, removed, undone>>
    BY <1>6 DEF NoLock, opVars
  <2>2. /\ phase[p] \in {"trying", "blocked", "removing", "waiting"}
        /\ phase'[p] = "out" /\ lock' = lock /\ old' = old
        /\ \A q \in Processes \ {p} : phase'[q] = phase[q]
    BY <1>0, <2>1 DEF Lock!GiveUp, Lock!OpenFails, Lock!Goto, Lock!TypeOK
  <2>3. batches[p] # <<>> /\ step'[p] \notin {"read", "written"}
    BY <1>0, <2>1, <2>2 DEF Orderly
  <2> QED BY <1>5, <1>a, <2>1, <2>2, <2>3
<1>7. CASE EndOperation(p)
  <2> DEFINE ok == step[p] = "written"
  <2>1. /\ Lock!Release(p) \/ Lock!KeepLock(p)
        /\ EndSave(p, ok)
        /\ step' = [step EXCEPT ![p] = "none"]
        /\ UNCHANGED <<now, file, latest, hydrated, cache, lastAt, removed, undone>>
    BY <1>7 DEF EndOperation
  <2>2. /\ phase[p] = "leaving" /\ phase'[p] = "out"
        /\ \A q \in Processes \ {p} : phase'[q] = phase[q]
    BY <1>0, <2>1 DEF Lock!Release, Lock!KeepLock, Lock!Goto, Lock!TypeOK
  <2>3. \A q \in Processes \ {p} : phase[q] \notin Inside
    BY <2>2, OneInside DEF Inside
  <2>4. batches[p] # <<>> /\ ok \in BOOLEAN
    BY <1>0, <2>2 DEF Orderly
  <2>5. step'[p] = "none" /\ \A q \in Processes \ {p} : step'[q] = step[q]
    BY <1>0, <2>1 DEF TypeOK
  <2>6. ok => step[p] = "written"
    OBVIOUS
  <2> HIDE DEF ok
  <2> QED BY <1>5, <1>a, <2>1, <2>2, <2>3, <2>4, <2>5, <2>6
<1> QED
  BY <1>1, <1>2, <1>3, <1>4, <1>6, <1>7

(* A process that dies keeps nothing but its copy of the file.             *)
LEMMA CrashCarries ==
  ASSUME SafeInv, NEW p \in Processes, Crash(p)
  PROVE  SafeInv'
<1>0. /\ SaveInv' /\ TypeOK /\ Kept /\ Lock!TypeOK
      /\ \A q \in Processes : Carried(q) /\ Orderly(q)
  BY StoreKeeps, SaveInvParts DEF SafeInv, TypeOK
<1>1. /\ phase' = [phase EXCEPT ![p] = "gone"] /\ lock' = lock
      /\ batches' = [batches EXCEPT ![p] = <<>>]
      /\ retained' = [retained EXCEPT ![p] = {}]
      /\ image' = [image EXCEPT ![p] = Empty]
      /\ latest' = [latest EXCEPT ![p] = Empty]
      /\ step' = [step EXCEPT ![p] = "none"]
      /\ UNCHANGED <<file, cache, lastAt, confirmed, removed>>
  BY DEF Crash, Lock!Crash, Lock!Goto
<1>2. /\ phase'[p] = "gone" /\ batches'[p] = <<>> /\ retained'[p] = {}
      /\ step'[p] = "none" /\ cache'[p] = cache[p] /\ lastAt'[p] = lastAt[p]
  BY <1>0, <1>1 DEF TypeOK, Lock!TypeOK
<1>3. \A q \in Processes \ {p} :
        /\ phase'[q] = phase[q] /\ batches'[q] = batches[q]
        /\ retained'[q] = retained[q] /\ image'[q] = image[q]
        /\ latest'[q] = latest[q] /\ step'[q] = step[q]
  BY <1>0, <1>1 DEF TypeOK, Lock!TypeOK
<1>4. Carried(p)'
  <2>1. ToSet(batches'[p]) = {} /\ Deletions(p)' = {}
    BY <1>2, SetsOfBatches DEF Deletions
  <2> QED BY <1>0, <1>1, <1>2, <2>1 DEF Carried, Inside
<1>5. \A q \in Processes \ {p} : Carried(q)'
  BY <1>0, <1>1, <1>3, CarriedKept
<1>6. Kept'
  BY <1>0, <1>1 DEF Kept, StoredIn
<1> QED BY <1>0, <1>4, <1>5, <1>6 DEF SafeInv

(* Every step that takes no lock away keeps it, and only deletions make an *)
(* entry older.                                                            *)
LEMMA SafeStep ==
  ASSUME SafeInv, ~stolen', [Next]_vars
  PROVE  SafeInv' /\ EntriesStay
<1>0. /\ SaveInv' /\ TypeOK /\ Kept /\ Lock!TypeOK
      /\ \A q \in Processes : Carried(q) /\ Orderly(q)
  BY SaveInvStep, SaveInvParts DEF SafeInv, TypeOK
<1>1. \A i \in Ids : ~(file[i] < file[i])
  BY <1>0, RegistryAssumption DEF TypeOK, Entries, Stamps
<1>2. CASE LockAges \/ Tick \/ UNCHANGED vars
  <2>1. UNCHANGED <<lock, phase, file, latest, step, cache, lastAt, batches,
                    retained, image, confirmed, removed>>
    BY <1>2 DEF LockAges, Lock!LockAges, Tick, vars, fileVars, opVars, memVars, history
  <2>2. \A q \in Processes : Carried(q)'
    BY <1>0, <2>1, CarriedKept
  <2>3. Kept'
    BY <1>0, <2>1 DEF Kept, StoredIn
  <2> QED BY <1>0, <1>1, <2>1, <2>2, <2>3 DEF SafeInv, EntriesStay
<1>3. ASSUME NEW p \in Processes, Crash(p) PROVE SafeInv' /\ EntriesStay
  BY <1>1, <1>3, CrashCarries DEF Crash, EntriesStay
<1>4. ASSUME NEW p \in Processes,
             \/ Hydrate(p)
             \/ \E i \in Ids : RememberSnapshot(p, i)
             \/ \E S \in SUBSET Ids : DeleteSessions(p, S)
      PROVE  SafeInv' /\ EntriesStay
  BY <1>1, <1>4, CallsCarry DEF Hydrate, RememberSnapshot, DeleteSessions, EntriesStay
<1>5. ASSUME NEW p \in Processes,
             \/ BeginSave(p) \/ TryLock(p) \/ NoLock(p) \/ ReadFile(p)
             \/ WriteFile(p) \/ ReadOrWriteFails(p) \/ EndOperation(p)
      PROVE  SafeInv' /\ EntriesStay
  BY <1>5, StoreCarries DEF EntriesStay
<1> QED
  BY <1>2, <1>3, <1>4, <1>5 DEF Next

(* Until a lock is taken away, the invariant of the file holds.            *)
LEMMA SafeAlways == Spec => [](SaveInv /\ (~stolen => SafeInv))
<1>1. Init => SaveInv /\ (~stolen => SafeInv)
  BY InitCarried DEF SafeInv
<1>2. /\ SaveInv /\ (~stolen => SafeInv) /\ [Next]_vars
      => (SaveInv /\ (~stolen => SafeInv))'
  BY SafeStep, SaveInvStep, StolenStays
<1> QED
  BY <1>1, <1>2, PTL DEF Spec

(* The lock excludes, however many processes want it, die in it, leave it  *)
(* behind, fail to remove it or remove a stale one, until a process that   *)
(* is inside loses its lock file to one that takes it for stale.           *)
THEOREM LockExclusiveHolds == Spec => []LockExclusive
<1>1. (~stolen => SafeInv) => LockExclusive
  BY DEF SafeInv, Carried, LockExclusive, Lock!LockExclusive, Lock!Inside, Inside
<1> QED
  BY <1>1, SafeAlways, PTL

(* What a caller was told is saved is in the file, whoever else saves.     *)
THEOREM ConfirmedIsStoredHolds == Spec => []ConfirmedIsStored
<1>1. (~stolen => SafeInv) => ConfirmedIsStored
  BY DEF SafeInv, Kept, ConfirmedIsStored
<1> QED
  BY <1>1, SafeAlways, PTL

(* No save takes out what another process put into the file.               *)
THEOREM NoEntryLostHolds == Spec => NoEntryLost
<1>1. SaveInv /\ (~stolen => SafeInv) /\ [Next]_vars => [~stolen => EntriesStay]_vars
  BY SafeStep, TheftTakesNoEntry
<1> QED
  BY <1>1, SafeAlways, PTL DEF Spec, NoEntryLost
=============================================================================
