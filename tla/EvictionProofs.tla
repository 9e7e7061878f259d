---------------------------- MODULE EvictionProofs ----------------------------
(***************************************************************************)
(* Two stores of bounded size that evict what nobody uses: the files of    *)
(* the object cache, and the colour maps of the browser.                   *)
(*                                                                         *)
(* Readers keep their files and deleted objects leave the cache, for any   *)
(* number of threads, any keys and sizes, and any sharing of the key       *)
(* locks. A lease is counted before the file is looked up, and the lookup  *)
(* waits for the key lock under which an eviction has read the count: the  *)
(* count alone would not do. The cache keeps to its limit: the eviction    *)
(* under way, or one that somebody is about to start, knows of every file. *)
(*                                                                         *)
(* The viewers keep the colour maps they draw with, for any number of      *)
(* viewers, presets and saved views: a map has one entry, and an entry     *)
(* that is taken over or taken out is nobody's.                            *)
(***************************************************************************)
EXTENDS ObjectCache, Palette, FiniteSetTheorems, SequenceTheorems, WellFoundedInduction, TLAPS

-----------------------------------------------------------------------------
(* The object cache: what it rests on.                                     *)

Leasing(t) == pc[t] \in {"look", "download", "leaving"} \/ next[t] = "holding"
Holders(k) == {t \in Threads : Leasing(t) /\ key[t] = k}
Unlinking(t) == pc[t] \in {"unlinkExpired", "unlinkOldest"}

LeaseCount == \A k \in Keys : leases[k] = Cardinality(Holders(k))

\* What the steps of a thread say of its key and of where it goes on.
StepInv ==
    \A t \in Threads :
        /\ pc[t] \in {"look", "download", "holding", "leaving", "upload", "place",
                      "erase", "eraseLocal"} => key[t] \in Keys
        /\ next[t] = "holding" => key[t] \in Keys /\ pc[t] \in {"holding", "evict"} \cup Evicting
        /\ pc[t] = "holding" => next[t] = "holding"
        /\ pc[t] \in {"idle", "released", "look", "download", "erase", "eraseLocal"}
               => next[t] = "idle"

\* Who has which lock, and that no one reads the file about to be unlinked.
LockInv ==
    \A t \in Threads :
        /\ pc[t] \in {"download", "upload", "place", "erase", "eraseLocal"}
               => stripeLock[Stripe[key[t]]] = t
        /\ pc[t] \in Evicting => cacheLock = t
        /\ Unlinking(t) =>
               /\ scan.victim \in Keys
               /\ stripeLock[Stripe[scan.victim]] = t
               /\ \A u \in Threads : next[u] = "holding" => key[u] # scan.victim

\* A deleted object cannot come back, and its file goes with its last lease.
DeletedInv ==
    /\ \A k \in pendingDelete : leases[k] > 0
    /\ \A k \in deleted :
        /\ remote[k] = "none"
        /\ k \in cached => k \in pendingDelete
        /\ \A t \in Threads : key[t] = k => pc[t] \notin {"upload", "place"}
    /\ \A t \in Threads : pc[t] = "eraseLocal" => remote[key[t]] = "none"

Safe == StepInv /\ LockInv /\ LeasedFileStays /\ DeletedInv
Inv == TypeOK /\ LeaseCount /\ Safe

USE DEF Evicting, Writing, Steps, leaseVars, cacheVars, threadVars

-----------------------------------------------------------------------------
(* The count of a key's leases and the threads that have one.              *)

LEMMA HoldersFinite ==
    ASSUME NEW k
    PROVE  IsFiniteSet(Holders(k)) /\ Cardinality(Holders(k)) \in Nat
<1>1. Holders(k) \in SUBSET Threads
  BY DEF Holders
<1>2. IsFiniteSet(Holders(k))
  BY <1>1, FiniteAssumption, FS_Subset
<1> QED  BY <1>2, FS_CardinalityType

\* A key without leases has no holder, and the holder of a single lease is alone.
LEMMA UnleasedUnheld ==
    ASSUME LeaseCount, NEW k \in Keys, ~(leases[k] > 0), NEW t \in Threads, Leasing(t)
    PROVE  key[t] # k
<1>1. Cardinality(Holders(k)) = 0
  BY HoldersFinite DEF LeaseCount
<1>2. Holders(k) = {}
  BY <1>1, HoldersFinite, FS_EmptySet
<1> QED  BY <1>2 DEF Holders

LEMMA HeldIsLeased ==
    ASSUME LeaseCount, NEW t \in Threads, Leasing(t), key[t] \in Keys
    PROVE  leases[key[t]] > 0
BY UnleasedUnheld

LEMMA SingleHolder ==
    ASSUME LeaseCount, NEW t \in Threads, NEW u \in Threads, key[t] \in Keys,
           Leasing(t), Leasing(u), key[u] = key[t], leases[key[t]] = 1
    PROVE  u = t
<1>1. Cardinality(Holders(key[t])) = 1
  BY DEF LeaseCount
<1>2. PICK x : Holders(key[t]) = {x}
  BY <1>1, HoldersFinite, FS_Singleton
<1> QED  BY <1>2 DEF Holders

\* A thread that keeps or stays without its lease leaves the counts as they are.
LEMMA CountKept ==
    ASSUME LeaseCount, NEW t \in Threads,
           \A u \in Threads \ {t} : pc'[u] = pc[u] /\ key'[u] = key[u] /\ next'[u] = next[u],
           Leasing(t)' <=> Leasing(t), Leasing(t) => key'[t] = key[t],
           UNCHANGED leases
    PROVE  LeaseCount'
<1>1. ASSUME NEW k \in Keys PROVE Holders(k)' = Holders(k)
  BY DEF Holders, Leasing
<1> QED  BY <1>1 DEF LeaseCount

\* A new lease adds the thread to the holders of its key.
LEMMA CountUp ==
    ASSUME TypeOK, LeaseCount, NEW t \in Threads, NEW k \in Keys,
           \A u \in Threads \ {t} : pc'[u] = pc[u] /\ key'[u] = key[u] /\ next'[u] = next[u],
           ~Leasing(t), Leasing(t)', key'[t] = k,
           leases' = [leases EXCEPT ![k] = @ + 1]
    PROVE  LeaseCount'
<1>1. Holders(k)' = Holders(k) \cup {t} /\ t \notin Holders(k)
  BY DEF Holders, Leasing
<1>2. Cardinality(Holders(k) \cup {t}) = Cardinality(Holders(k)) + 1
  BY <1>1, HoldersFinite, FS_AddElement
<1>3. ASSUME NEW j \in Keys \ {k} PROVE Holders(j)' = Holders(j)
  BY DEF Holders, Leasing
<1>4. leases'[k] = leases[k] + 1 /\ \A j \in Keys \ {k} : leases'[j] = leases[j]
  BY DEF TypeOK
<1>5. leases'[k] = Cardinality(Holders(k)')
  BY <1>1, <1>2, <1>4 DEF LeaseCount
<1>6. ASSUME NEW j \in Keys \ {k} PROVE leases'[j] = Cardinality(Holders(j)')
  BY <1>3, <1>4 DEF LeaseCount
<1> QED  BY <1>5, <1>6 DEF LeaseCount

\* A release takes it away.
LEMMA CountDown ==
    ASSUME TypeOK, LeaseCount, NEW t \in Threads, NEW k \in Keys, key[t] = k,
           \A u \in Threads \ {t} : pc'[u] = pc[u] /\ key'[u] = key[u] /\ next'[u] = next[u],
           Leasing(t), ~(Leasing(t)'),
           leases' = [leases EXCEPT ![k] = @ - 1]
    PROVE  LeaseCount'
<1>1. Holders(k)' = Holders(k) \ {t} /\ t \in Holders(k)
  BY DEF Holders, Leasing
<1>2. Cardinality(Holders(k) \ {t}) = Cardinality(Holders(k)) - 1
  BY <1>1, HoldersFinite, FS_RemoveElement
<1>3. ASSUME NEW j \in Keys \ {k} PROVE Holders(j)' = Holders(j)
  BY DEF Holders, Leasing
<1>4. leases'[k] = leases[k] - 1 /\ \A j \in Keys \ {k} : leases'[j] = leases[j]
  BY DEF TypeOK
<1>5. leases'[k] = Cardinality(Holders(k)')
  BY <1>1, <1>2, <1>4 DEF LeaseCount
<1>6. ASSUME NEW j \in Keys \ {k} PROVE leases'[j] = Cardinality(Holders(j)')
  BY <1>3, <1>4 DEF LeaseCount
<1> QED  BY <1>5, <1>6 DEF LeaseCount

-----------------------------------------------------------------------------
LEMMA InitInv == Init => Inv
<1> SUFFICES ASSUME Init PROVE Inv
  OBVIOUS
<1>1. TypeOK
  <2>1. NoScan \in [exclude : Keys \cup {NoKey}, todo : SUBSET Keys, counted : SUBSET Keys,
                    deferred : BOOLEAN, victim : Keys \cup {NoKey}]
    BY DEF NoScan
  <2>2. /\ remote \in [Keys -> {"fresh", "stored", "none"}]
        /\ leases \in [Keys -> Nat]
        /\ stripeLock \in [Stripes -> Threads \cup {NoThread}]
    BY DEF Init
  <2>3. /\ pc \in [Threads -> {"idle"}]
        /\ key \in [Threads -> Keys \cup {NoKey}]
        /\ next \in [Threads -> {"idle", "holding", "stat"}]
    BY DEF Init
  <2>4. calls \in 0..MaxCalls
    BY SizeAssumption DEF Init
  <2> QED  BY <2>1, <2>2, <2>3, <2>4 DEF Init, TypeOK
<1>2. ASSUME NEW k \in Keys PROVE leases[k] = Cardinality(Holders(k))
  <2>1. Holders(k) = {}
    BY DEF Init, Holders, Leasing
  <2> QED  BY <2>1, FS_EmptySet DEF Init
<1>3. Safe
  BY ValueAssumption
     DEF Init, Safe, StepInv, LockInv, Unlinking, LeasedFileStays, DeletedInv
<1> QED  BY <1>1, <1>2, <1>3 DEF Inv, LeaseCount

-----------------------------------------------------------------------------
(* Types.                                                                  *)

Scans == [exclude : Keys \cup {NoKey}, todo : SUBSET Keys, counted : SUBSET Keys,
          deferred : BOOLEAN, victim : Keys \cup {NoKey}]

LEMMA ScanType ==
    ASSUME NEW s \in Scans, NEW k \in Keys, NEW more \in SUBSET Keys
    PROVE  /\ [s EXCEPT !.todo = @ \ {k}] \in Scans
           /\ [s EXCEPT !.todo = @ \ {k}, !.victim = k] \in Scans
           /\ [s EXCEPT !.todo = @ \ {k}, !.deferred = TRUE, !.counted = @ \cup more] \in Scans
<1>1. [s EXCEPT !.todo = @ \ {k}] \in Scans
  BY DEF Scans
<1>2. [s EXCEPT !.todo = @ \ {k}, !.victim = k] \in Scans
  BY DEF Scans
<1>3. [s EXCEPT !.todo = @ \ {k}, !.deferred = TRUE, !.counted = @ \cup more] \in Scans
  BY DEF Scans
<1> QED  BY <1>1, <1>2, <1>3

LEMMA GotoType ==
    ASSUME TypeOK, NEW t \in Threads, NEW step \in Steps, Goto(t, step)
    PROVE  pc' \in [Threads -> Steps] /\ key' \in [Threads -> Keys \cup {NoKey}]
BY DEF Goto, TypeOK

LEMMA LockType ==
    ASSUME TypeOK, NEW t \in Threads, NEW k, Lock(t, k) \/ Unlock(k)
    PROVE  stripeLock' \in [Stripes -> Threads \cup {NoThread}]
BY DEF Lock, Unlock, TypeOK

LEMMA BeginType ==
    ASSUME TypeOK, NEW t \in Threads, NEW k \in Keys, NEW step \in Steps, Begin(t, k, step)
    PROVE  /\ pc' \in [Threads -> Steps] /\ key' \in [Threads -> Keys \cup {NoKey}]
           /\ calls' \in 0..MaxCalls
BY SizeAssumption DEF Begin, TypeOK

LEMMA BeginCallType ==
    ASSUME TypeOK, NEW t \in Threads, NEW k \in Keys, BeginCall(t, k)
    PROVE  TypeOK'
<1>1. CASE AcquireLease(t, k)
  BY <1>1, BeginType DEF AcquireLease, TypeOK
<1>2. CASE Delete(t, k)
  BY <1>2, BeginType, LockType DEF Delete, TypeOK
<1>3. ASSUME NEW after \in {"idle", "stat"}, Save(t, k, after) PROVE TypeOK'
  BY <1>3, BeginType, LockType DEF Save, Return, TypeOK
<1> QED  BY <1>1, <1>2, <1>3 DEF BeginCall

LEMMA CallType ==
    ASSUME TypeOK, LeaseCount, StepInv, NEW t \in Threads, ThreadStep(t), ~EvictionStep(t)
    PROVE  TypeOK'
<1>1. CASE Look(t)
  BY <1>1, GotoType, LockType DEF Look, Return, TypeOK
<1>2. CASE Download(t)
  BY <1>2, GotoType, LockType DEF Download, Return, StepInv, TypeOK
<1>3. CASE DownloadFails(t)
  BY <1>3, GotoType, LockType DEF DownloadFails, Return, TypeOK
<1>4. CASE Release(t)
  <2>1. leases[key[t]] \in Nat /\ leases[key[t]] > 0
    BY <1>4, HeldIsLeased DEF Release, StepInv, Leasing, TypeOK
  <2>2. leases[key[t]] - 1 \in Nat
    BY <2>1
  <2>3. leases' \in [Keys -> Nat]
    BY <1>4, <2>2 DEF Release, TypeOK
  <2> QED  BY <1>4, <2>3, GotoType DEF Release, Return, TypeOK
<1>5. CASE CheckNeedsEviction(t)
  BY <1>5, GotoType, LockType DEF CheckNeedsEviction, Return, TypeOK
<1>6. CASE Upload(t)
  BY <1>6, GotoType, LockType DEF Upload, Return, TypeOK
<1>7. CASE UploadFails(t)
  BY <1>7, GotoType, LockType DEF UploadFails, Return, TypeOK
<1>8. CASE Place(t)
  BY <1>8, GotoType, LockType DEF Place, Return, StepInv, TypeOK
<1>9. CASE StatCopy(t)
  BY <1>9, GotoType, LockType DEF StatCopy, Return, TypeOK
<1>10. CASE EraseRemote(t)
  BY <1>10, GotoType, LockType DEF EraseRemote, Return, TypeOK
<1>11. CASE EraseFails(t)
  BY <1>11, GotoType, LockType DEF EraseFails, Return, TypeOK
<1>12. CASE EraseLocal(t)
  BY <1>12, GotoType, LockType DEF EraseLocal, Return, StepInv, TypeOK
<1> QED  BY <1>1, <1>2, <1>3, <1>4, <1>5, <1>6, <1>7, <1>8, <1>9, <1>10, <1>11, <1>12 DEF ThreadStep

LEMMA EvictionType ==
    ASSUME TypeOK, LockInv, NEW t \in Threads, EvictionStep(t)
    PROVE  TypeOK'
<1>1. CASE StartEviction(t)
  BY <1>1, GotoType, LockType DEF StartEviction, NoScan, TypeOK
<1>2. CASE CountFile(t)
  <2>1. PICK k \in scan.todo :
            scan' = [scan EXCEPT !.todo = @ \ {k}, !.counted = @ \cup ({k} \cap cached)]
    BY <1>2 DEF CountFile
  <2>2. scan' \in Scans
    BY <2>1 DEF Scans, TypeOK
  <2> QED  BY <1>2, <2>2 DEF CountFile, Scans, TypeOK
<1>3. CASE ExpireFile(t)
  <2>1. PICK k \in Keys :
            \/ /\ scan' = [scan EXCEPT !.todo = @ \ {k}, !.deferred = TRUE,
                                       !.counted = @ \cup ({k} \cap cached)]
               /\ UNCHANGED <<threadVars, stripeLock>>
            \/ /\ Lock(t, k) /\ Goto(t, "unlinkExpired")
               /\ scan' = [scan EXCEPT !.todo = @ \ {k}, !.victim = k]
    BY <1>3 DEF ExpireFile, TypeOK
  <2>2. scan \in Scans /\ {k} \cap cached \in SUBSET Keys
    BY DEF Scans, TypeOK
  <2>3. /\ [scan EXCEPT !.todo = @ \ {k}, !.deferred = TRUE,
                         !.counted = @ \cup ({k} \cap cached)] \in Scans
        /\ [scan EXCEPT !.todo = @ \ {k}, !.victim = k] \in Scans
    BY <2>2, ScanType
  <2> QED  BY <1>3, <2>1, <2>3, GotoType, LockType DEF ExpireFile, Scans, TypeOK
<1>4. CASE UnlinkExpired(t)
  BY <1>4, GotoType, LockType DEF UnlinkExpired, NoScan, TypeOK
<1>5. CASE SumFiles(t)
  <2>1. scan' \in Scans
    <3>1. NoScan \in Scans /\ scan \in Scans /\ scan.counted \in SUBSET Keys
      BY DEF NoScan, Scans, TypeOK
    <3>2. [scan EXCEPT !.todo = scan.counted] \in Scans
      BY <3>1 DEF Scans
    <3> QED  BY <1>5, <3>1, <3>2 DEF SumFiles
  <2>2. next[t] \in Steps
    BY DEF TypeOK
  <2> QED  BY <1>5, <2>1, <2>2, GotoType DEF SumFiles, NoScan, Scans, TypeOK
<1>6. CASE EvictFile(t)
  <2>1. PICK k \in Keys :
            \/ scan' = [scan EXCEPT !.todo = @ \ {k}] /\ UNCHANGED <<threadVars, stripeLock>>
            \/ /\ Lock(t, k) /\ Goto(t, "unlinkOldest")
               /\ scan' = [scan EXCEPT !.todo = @ \ {k}, !.victim = k]
    BY <1>6 DEF EvictFile, TypeOK
  <2>2. scan \in Scans
    BY DEF Scans, TypeOK
  <2>3. scan' \in Scans
    BY <2>1, <2>2, ScanType
  <2> QED  BY <1>6, <2>1, <2>3, GotoType, LockType DEF EvictFile, Scans, TypeOK
<1>7. CASE UnlinkOldest(t)
  BY <1>7, GotoType, LockType DEF UnlinkOldest, NoScan, TypeOK
<1>8. CASE EndEviction(t)
  BY <1>8, GotoType, LockType DEF EndEviction, NoScan, TypeOK
<1> QED  BY <1>1, <1>2, <1>3, <1>4, <1>5, <1>6, <1>7, <1>8 DEF EvictionStep

-----------------------------------------------------------------------------
(* Lease counts.                                                           *)

LEMMA CallCount ==
    ASSUME Inv, NEW t \in Threads, NEW k \in Keys, BeginCall(t, k)
    PROVE  LeaseCount'
<1>1. CASE AcquireLease(t, k)
  <2>1. ~Leasing(t) /\ Leasing(t)' /\ key'[t] = k
    BY <1>1 DEF AcquireLease, Begin, Leasing, Inv, Safe, StepInv, TypeOK
  <2> QED  BY <1>1, <2>1, CountUp DEF AcquireLease, Begin, Inv, TypeOK
<1>2. CASE Delete(t, k)
  BY <1>2, CountKept DEF Delete, Begin, Leasing, Inv, Safe, StepInv, TypeOK
<1>3. ASSUME NEW after \in {"idle", "stat"}, Save(t, k, after) PROVE LeaseCount'
  BY <1>3, CountKept DEF Save, Begin, Return, Leasing, Inv, Safe, StepInv, TypeOK
<1> QED  BY <1>1, <1>2, <1>3 DEF BeginCall

LEMMA StepCount ==
    ASSUME Inv, NEW t \in Threads, ThreadStep(t)
    PROVE  LeaseCount'
<1>1. CASE Look(t)
  BY <1>1, CountKept DEF Look, Goto, Return, Leasing, Inv, Safe, StepInv, TypeOK
<1>2. CASE Download(t)
  BY <1>2, CountKept DEF Download, Goto, Return, Leasing, Inv, Safe, StepInv, TypeOK
<1>3. CASE DownloadFails(t)
  BY <1>3, CountKept DEF DownloadFails, Goto, Leasing, Inv, Safe, StepInv, TypeOK
<1>4. CASE Release(t)
  BY <1>4, CountDown DEF Release, Goto, Return, Leasing, Inv, Safe, StepInv, TypeOK
<1>5. CASE CheckNeedsEviction(t)
  BY <1>5, CountKept DEF CheckNeedsEviction, Goto, Leasing, Inv, Safe, StepInv, TypeOK
<1>6. CASE Upload(t)
  BY <1>6, CountKept DEF Upload, Goto, Leasing, Inv, Safe, StepInv, TypeOK
<1>7. CASE UploadFails(t)
  BY <1>7, CountKept DEF UploadFails, Goto, Return, Leasing, Inv, Safe, StepInv, TypeOK
<1>8. CASE Place(t)
  BY <1>8, CountKept DEF Place, Goto, Leasing, Inv, Safe, StepInv, TypeOK
<1>9. CASE StatCopy(t)
  BY <1>9, CountKept DEF StatCopy, Goto, Return, Leasing, Inv, Safe, StepInv, TypeOK
<1>10. CASE EraseRemote(t)
  BY <1>10, CountKept DEF EraseRemote, Goto, Leasing, Inv, Safe, StepInv, TypeOK
<1>11. CASE EraseFails(t)
  BY <1>11, CountKept DEF EraseFails, Goto, Leasing, Inv, Safe, StepInv, TypeOK
<1>12. CASE EraseLocal(t)
  BY <1>12, CountKept DEF EraseLocal, Goto, Leasing, Inv, Safe, StepInv, TypeOK
<1>13. CASE StartEviction(t)
  BY <1>13, CountKept DEF StartEviction, Goto, Leasing, Inv, Safe, StepInv, TypeOK
<1>14. CASE CountFile(t)
  BY <1>14, CountKept DEF CountFile, Leasing, Inv, Safe, StepInv, TypeOK
<1>15. CASE ExpireFile(t)
  BY <1>15, CountKept DEF ExpireFile, Goto, Leasing, Inv, Safe, StepInv, TypeOK
<1>16. CASE UnlinkExpired(t)
  BY <1>16, CountKept DEF UnlinkExpired, Goto, Leasing, Inv, Safe, StepInv, TypeOK
<1>17. CASE SumFiles(t)
  BY <1>17, CountKept DEF SumFiles, Goto, Leasing, Inv, Safe, StepInv, TypeOK
<1>18. CASE EvictFile(t)
  BY <1>18, CountKept DEF EvictFile, Goto, Leasing, Inv, Safe, StepInv, TypeOK
<1>19. CASE UnlinkOldest(t)
  BY <1>19, CountKept DEF UnlinkOldest, Goto, Leasing, Inv, Safe, StepInv, TypeOK
<1>20. CASE EndEviction(t)
  BY <1>20, CountKept DEF EndEviction, Goto, Leasing, Inv, Safe, StepInv, TypeOK
<1> QED
  BY <1>1, <1>2, <1>3, <1>4, <1>5, <1>6, <1>7, <1>8, <1>9, <1>10, <1>11, <1>12, <1>13, <1>14,
     <1>15, <1>16, <1>17, <1>18, <1>19, <1>20 DEF ThreadStep, EvictionStep

-----------------------------------------------------------------------------
LEMMA StepSafe ==
    ASSUME Inv, NEW t \in Threads, ThreadStep(t), TypeOK'
    PROVE  Safe'
<1>1. CASE Look(t)
  <2>1. StepInv'
    BY <1>1 DEF Look, Goto, Return, Inv, Safe, StepInv, TypeOK
  <2>2. LockInv'
    BY <1>1, ValueAssumption, StripeAssumption
       DEF Look, Goto, Return, Lock, Free, Unlinking, Inv, Safe, StepInv, LockInv, TypeOK
  <2>3. LeasedFileStays'
    BY <1>1 DEF Look, Goto, Return, Inv, Safe, StepInv, LeasedFileStays, TypeOK
  <2>4. DeletedInv'
    BY <1>1 DEF Look, Goto, Inv, Safe, StepInv, DeletedInv, TypeOK
  <2> QED  BY <2>1, <2>2, <2>3, <2>4 DEF Safe
<1>2. CASE Download(t)
  <2>1. StepInv'
    BY <1>2 DEF Download, Goto, Return, Inv, Safe, StepInv, TypeOK
  <2>2. LockInv'
    BY <1>2, StripeAssumption
       DEF Download, Goto, Return, Unlock, Unlinking, Inv, Safe, StepInv, LockInv, TypeOK
  <2>3. LeasedFileStays'
    BY <1>2 DEF Download, Goto, Return, Inv, Safe, StepInv, LeasedFileStays, TypeOK
  <2>4. DeletedInv'
    BY <1>2 DEF Download, Goto, Inv, Safe, StepInv, LockInv, DeletedInv, TypeOK
  <2> QED  BY <2>1, <2>2, <2>3, <2>4 DEF Safe
<1>3. CASE DownloadFails(t)
  <2>1. StepInv'
    BY <1>3 DEF DownloadFails, Goto, Inv, Safe, StepInv, TypeOK
  <2>2. LockInv'
    BY <1>3, StripeAssumption
       DEF DownloadFails, Goto, Unlock, Unlinking, Inv, Safe, StepInv, LockInv, TypeOK
  <2>3. LeasedFileStays'
    BY <1>3 DEF DownloadFails, Goto, Inv, Safe, StepInv, LeasedFileStays, TypeOK
  <2>4. DeletedInv'
    BY <1>3 DEF DownloadFails, Goto, Inv, Safe, StepInv, DeletedInv, TypeOK
  <2> QED  BY <2>1, <2>2, <2>3, <2>4 DEF Safe
<1>4. CASE Release(t)
  <2>1. StepInv'
    BY <1>4 DEF Release, Goto, Return, Inv, Safe, StepInv, TypeOK
  <2>2. LockInv'
    BY <1>4 DEF Release, Goto, Return, Unlinking, Inv, Safe, StepInv, LockInv, TypeOK
  <2>3. LeasedFileStays'
    <3>1. ASSUME NEW u \in Threads \ {t}, next[u] = "holding", leases[key[t]] = 1
          PROVE  key[u] # key[t]
      BY <1>4, <3>1, SingleHolder DEF Release, Leasing, Inv, Safe, StepInv
    <3> QED  BY <1>4, <3>1 DEF Release, Goto, Return, Inv, Safe, LeasedFileStays, TypeOK
  <2>4. DeletedInv'
    BY <1>4 DEF Release, Goto, Inv, Safe, StepInv, DeletedInv, TypeOK
  <2> QED  BY <2>1, <2>2, <2>3, <2>4 DEF Safe
<1>5. CASE CheckNeedsEviction(t)
  <2>1. StepInv'
    BY <1>5 DEF CheckNeedsEviction, Goto, Inv, Safe, StepInv, TypeOK
  <2>2. LockInv'
    BY <1>5 DEF CheckNeedsEviction, Goto, Unlinking, Inv, Safe, StepInv, LockInv, TypeOK
  <2>3. LeasedFileStays'
    BY <1>5 DEF CheckNeedsEviction, Goto, Inv, Safe, StepInv, LeasedFileStays, TypeOK
  <2>4. DeletedInv'
    BY <1>5 DEF CheckNeedsEviction, Goto, Inv, Safe, StepInv, DeletedInv, TypeOK
  <2> QED  BY <2>1, <2>2, <2>3, <2>4 DEF Safe
<1>6. CASE Upload(t)
  <2>1. StepInv'
    BY <1>6 DEF Upload, Goto, Inv, Safe, StepInv, TypeOK
  <2>2. LockInv'
    BY <1>6 DEF Upload, Goto, Unlinking, Inv, Safe, StepInv, LockInv, TypeOK
  <2>3. LeasedFileStays'
    BY <1>6 DEF Upload, Goto, Inv, Safe, StepInv, LeasedFileStays, TypeOK
  <2>4. DeletedInv'
    BY <1>6 DEF Upload, Goto, Inv, Safe, StepInv, LockInv, DeletedInv, TypeOK
  <2> QED  BY <2>1, <2>2, <2>3, <2>4 DEF Safe
<1>7. CASE UploadFails(t)
  <2>1. StepInv'
    BY <1>7 DEF UploadFails, Goto, Return, Inv, Safe, StepInv, TypeOK
  <2>2. LockInv'
    BY <1>7, StripeAssumption
       DEF UploadFails, Goto, Return, Unlock, Unlinking, Inv, Safe, StepInv, LockInv, TypeOK
  <2>3. LeasedFileStays'
    BY <1>7 DEF UploadFails, Goto, Return, Inv, Safe, StepInv, LeasedFileStays, TypeOK
  <2>4. DeletedInv'
    BY <1>7 DEF UploadFails, Goto, Inv, Safe, StepInv, DeletedInv, TypeOK
  <2> QED  BY <2>1, <2>2, <2>3, <2>4 DEF Safe
<1>8. CASE Place(t)
  <2>1. StepInv'
    BY <1>8 DEF Place, Goto, Inv, Safe, StepInv, TypeOK
  <2>2. LockInv'
    BY <1>8, StripeAssumption
       DEF Place, Goto, Unlock, Unlinking, Inv, Safe, StepInv, LockInv, TypeOK
  <2>3. LeasedFileStays'
    BY <1>8 DEF Place, Goto, Inv, Safe, StepInv, LeasedFileStays, TypeOK
  <2>4. DeletedInv'
    BY <1>8 DEF Place, Goto, Inv, Safe, StepInv, LockInv, DeletedInv, TypeOK
  <2> QED  BY <2>1, <2>2, <2>3, <2>4 DEF Safe
<1>9. CASE StatCopy(t)
  <2>1. StepInv'
    BY <1>9 DEF StatCopy, Goto, Return, Inv, Safe, StepInv, TypeOK
  <2>2. LockInv'
    BY <1>9 DEF StatCopy, Goto, Return, Unlinking, Inv, Safe, StepInv, LockInv, TypeOK
  <2>3. LeasedFileStays'
    BY <1>9 DEF StatCopy, Goto, Return, Inv, Safe, StepInv, LeasedFileStays, TypeOK
  <2>4. DeletedInv'
    BY <1>9 DEF StatCopy, Goto, Inv, Safe, StepInv, DeletedInv, TypeOK
  <2> QED  BY <2>1, <2>2, <2>3, <2>4 DEF Safe
<1>10. CASE EraseRemote(t)
  <2>1. StepInv'
    BY <1>10 DEF EraseRemote, Goto, Inv, Safe, StepInv, TypeOK
  <2>2. LockInv'
    BY <1>10 DEF EraseRemote, Goto, Unlinking, Inv, Safe, StepInv, LockInv, TypeOK
  <2>3. LeasedFileStays'
    BY <1>10 DEF EraseRemote, Goto, Inv, Safe, StepInv, LeasedFileStays, TypeOK
  <2>4. DeletedInv'
    BY <1>10 DEF EraseRemote, Goto, Inv, Safe, StepInv, DeletedInv, TypeOK
  <2> QED  BY <2>1, <2>2, <2>3, <2>4 DEF Safe
<1>11. CASE EraseFails(t)
  <2>1. StepInv'
    BY <1>11 DEF EraseFails, Goto, Inv, Safe, StepInv, TypeOK
  <2>2. LockInv'
    BY <1>11, StripeAssumption
       DEF EraseFails, Goto, Unlock, Unlinking, Inv, Safe, StepInv, LockInv, TypeOK
  <2>3. LeasedFileStays'
    BY <1>11 DEF EraseFails, Goto, Inv, Safe, StepInv, LeasedFileStays, TypeOK
  <2>4. DeletedInv'
    BY <1>11 DEF EraseFails, Goto, Inv, Safe, StepInv, DeletedInv, TypeOK
  <2> QED  BY <2>1, <2>2, <2>3, <2>4 DEF Safe
<1>12. CASE EraseLocal(t)
  <2>1. StepInv'
    BY <1>12 DEF EraseLocal, Goto, Inv, Safe, StepInv, TypeOK
  <2>2. LockInv'
    BY <1>12, StripeAssumption
       DEF EraseLocal, Goto, Unlock, Unlinking, Inv, Safe, StepInv, LockInv, TypeOK
  <2>3. LeasedFileStays'
    <3>1. ASSUME NEW u \in Threads, next[u] = "holding", ~(leases[key[t]] > 0)
          PROVE  key[u] # key[t]
      BY <1>12, <3>1, UnleasedUnheld DEF EraseLocal, Leasing, Inv, Safe, StepInv
    <3> QED  BY <1>12, <3>1 DEF EraseLocal, Goto, Inv, Safe, LeasedFileStays, StepInv, TypeOK
  <2>4. DeletedInv'
    BY <1>12 DEF EraseLocal, Goto, Inv, Safe, StepInv, LockInv, DeletedInv, TypeOK
  <2> QED  BY <2>1, <2>2, <2>3, <2>4 DEF Safe
<1>13. CASE StartEviction(t)
  <2>1. StepInv'
    BY <1>13 DEF StartEviction, Goto, Inv, Safe, StepInv, TypeOK
  <2>2. LockInv'
    BY <1>13, ValueAssumption
       DEF StartEviction, Goto, Unlinking, Inv, Safe, LockInv, StepInv, TypeOK
  <2>3. LeasedFileStays'
    BY <1>13 DEF StartEviction, Goto, Inv, Safe, StepInv, LeasedFileStays, TypeOK
  <2>4. DeletedInv'
    BY <1>13 DEF StartEviction, Goto, Inv, Safe, StepInv, DeletedInv, TypeOK
  <2> QED  BY <2>1, <2>2, <2>3, <2>4 DEF Safe
<1>14. CASE CountFile(t)
  <2>1. StepInv'
    BY <1>14 DEF CountFile, Inv, Safe, StepInv, TypeOK
  <2>2. LockInv'
    BY <1>14 DEF CountFile, Unlinking, Inv, Safe, StepInv, LockInv, TypeOK
  <2>3. LeasedFileStays'
    BY <1>14 DEF CountFile, Inv, Safe, StepInv, LeasedFileStays, TypeOK
  <2>4. DeletedInv'
    BY <1>14 DEF CountFile, Inv, Safe, StepInv, DeletedInv, TypeOK
  <2> QED  BY <2>1, <2>2, <2>3, <2>4 DEF Safe
<1>15. CASE ExpireFile(t)
  <2>1. StepInv'
    BY <1>15 DEF ExpireFile, Goto, Inv, Safe, StepInv, TypeOK
  <2>2. LockInv'
    <3>1. ASSUME NEW u \in Threads, next[u] = "holding", NEW k \in Keys, ~(leases[k] > 0)
          PROVE  key[u] # k
      BY <3>1, UnleasedUnheld DEF Leasing, Inv
    <3>2. PICK k \in scan.todo :
              \/ /\ scan' = [scan EXCEPT !.todo = @ \ {k}, !.deferred = TRUE,
                                          !.counted = @ \cup ({k} \cap cached)]
                 /\ UNCHANGED <<threadVars, stripeLock>>
              \/ /\ ~(leases[k] > 0) /\ Lock(t, k) /\ Goto(t, "unlinkExpired")
                 /\ scan' = [scan EXCEPT !.todo = @ \ {k}, !.victim = k]
      BY <1>15 DEF ExpireFile
    <3>3. k \in Keys
      BY DEF Inv, TypeOK
    <3>4. pc[t] \in Evicting /\ ~Unlinking(t) /\ UNCHANGED <<next, cacheLock>>
      BY <1>15 DEF ExpireFile, Unlinking
    <3>5. \A u \in Threads \ {t} : pc[u] \notin Evicting
      BY <3>4 DEF Inv, Safe, LockInv
    <3>6. CASE UNCHANGED <<threadVars, stripeLock>>
      BY <3>4, <3>5, <3>6 DEF Unlinking, Inv, Safe, LockInv
    <3>7. CASE /\ ~(leases[k] > 0) /\ Lock(t, k) /\ Goto(t, "unlinkExpired")
               /\ scan' = [scan EXCEPT !.todo = @ \ {k}, !.victim = k]
      <4>1. scan'.victim = k
        BY <3>7 DEF Inv, TypeOK
      <4> QED
       BY <3>1, <3>3, <3>4, <3>5, <3>7, <4>1, StripeAssumption, ValueAssumption
         DEF Goto, Lock, Free, Unlinking, Inv, Safe, LockInv, StepInv, TypeOK
    <3> QED  BY <3>2, <3>6, <3>7
  <2>3. LeasedFileStays'
    BY <1>15 DEF ExpireFile, Goto, Inv, Safe, StepInv, LeasedFileStays, TypeOK
  <2>4. DeletedInv'
    BY <1>15 DEF ExpireFile, Goto, Inv, Safe, StepInv, DeletedInv, TypeOK
  <2> QED  BY <2>1, <2>2, <2>3, <2>4 DEF Safe
<1>16. CASE UnlinkExpired(t)
  <2>1. StepInv'
    BY <1>16 DEF UnlinkExpired, Goto, Inv, Safe, StepInv, TypeOK
  <2>2. LockInv'
    BY <1>16, StripeAssumption
       DEF UnlinkExpired, Goto, Unlock, Unlinking, Inv, Safe, StepInv, LockInv, TypeOK
  <2>3. LeasedFileStays'
    BY <1>16
       DEF UnlinkExpired, Goto, Inv, Safe, StepInv, LockInv, Unlinking, LeasedFileStays,
           TypeOK
  <2>4. DeletedInv'
    BY <1>16 DEF UnlinkExpired, Goto, Inv, Safe, StepInv, DeletedInv, TypeOK
  <2> QED  BY <2>1, <2>2, <2>3, <2>4 DEF Safe
<1>17. CASE SumFiles(t)
  <2>1. StepInv'
    BY <1>17 DEF SumFiles, Goto, Inv, Safe, StepInv, TypeOK
  <2>2. LockInv'
    BY <1>17 DEF SumFiles, Goto, Unlinking, Inv, Safe, StepInv, LockInv, TypeOK
  <2>3. LeasedFileStays'
    BY <1>17 DEF SumFiles, Goto, Inv, Safe, StepInv, LeasedFileStays, TypeOK
  <2>4. DeletedInv'
    BY <1>17 DEF SumFiles, Goto, Inv, Safe, StepInv, DeletedInv, TypeOK
  <2> QED  BY <2>1, <2>2, <2>3, <2>4 DEF Safe
<1>18. CASE EvictFile(t)
  <2>1. StepInv'
    BY <1>18 DEF EvictFile, Goto, Inv, Safe, StepInv, TypeOK
  <2>2. LockInv'
    <3>1. ASSUME NEW u \in Threads, next[u] = "holding", NEW k \in Keys, ~(leases[k] > 0)
          PROVE  key[u] # k
      BY <3>1, UnleasedUnheld DEF Leasing, Inv
    <3>2. PICK k \in scan.todo :
              \/ /\ scan' = [scan EXCEPT !.todo = @ \ {k}]
                 /\ UNCHANGED <<threadVars, stripeLock>>
              \/ /\ ~(leases[k] > 0) /\ Lock(t, k) /\ Goto(t, "unlinkOldest")
                 /\ scan' = [scan EXCEPT !.todo = @ \ {k}, !.victim = k]
      BY <1>18 DEF EvictFile
    <3>3. k \in Keys
      BY DEF Inv, TypeOK
    <3>4. pc[t] \in Evicting /\ ~Unlinking(t) /\ UNCHANGED <<next, cacheLock>>
      BY <1>18 DEF EvictFile, Unlinking
    <3>5. \A u \in Threads \ {t} : pc[u] \notin Evicting
      BY <3>4 DEF Inv, Safe, LockInv
    <3>6. CASE UNCHANGED <<threadVars, stripeLock>>
      BY <3>4, <3>5, <3>6 DEF Unlinking, Inv, Safe, LockInv
    <3>7. CASE /\ ~(leases[k] > 0) /\ Lock(t, k) /\ Goto(t, "unlinkOldest")
               /\ scan' = [scan EXCEPT !.todo = @ \ {k}, !.victim = k]
      <4>1. scan'.victim = k
        BY <3>7 DEF Inv, TypeOK
      <4> QED
       BY <3>1, <3>3, <3>4, <3>5, <3>7, <4>1, StripeAssumption, ValueAssumption
         DEF Goto, Lock, Free, Unlinking, Inv, Safe, LockInv, StepInv, TypeOK
    <3> QED  BY <3>2, <3>6, <3>7
  <2>3. LeasedFileStays'
    BY <1>18 DEF EvictFile, Goto, Inv, Safe, StepInv, LeasedFileStays, TypeOK
  <2>4. DeletedInv'
    BY <1>18 DEF EvictFile, Goto, Inv, Safe, StepInv, DeletedInv, TypeOK
  <2> QED  BY <2>1, <2>2, <2>3, <2>4 DEF Safe
<1>19. CASE UnlinkOldest(t)
  <2>1. StepInv'
    BY <1>19 DEF UnlinkOldest, Goto, Inv, Safe, StepInv, TypeOK
  <2>2. LockInv'
    BY <1>19, StripeAssumption
       DEF UnlinkOldest, Goto, Unlock, Unlinking, Inv, Safe, StepInv, LockInv, TypeOK
  <2>3. LeasedFileStays'
    BY <1>19
       DEF UnlinkOldest, Goto, Inv, Safe, StepInv, LockInv, Unlinking, LeasedFileStays,
           TypeOK
  <2>4. DeletedInv'
    BY <1>19 DEF UnlinkOldest, Goto, Inv, Safe, StepInv, DeletedInv, TypeOK
  <2> QED  BY <2>1, <2>2, <2>3, <2>4 DEF Safe
<1>20. CASE EndEviction(t)
  <2>1. StepInv'
    BY <1>20 DEF EndEviction, Goto, Inv, Safe, StepInv, TypeOK
  <2>2. LockInv'
    BY <1>20 DEF EndEviction, Goto, Unlinking, Inv, Safe, StepInv, LockInv, TypeOK
  <2>3. LeasedFileStays'
    BY <1>20 DEF EndEviction, Goto, Inv, Safe, StepInv, LeasedFileStays, TypeOK
  <2>4. DeletedInv'
    BY <1>20 DEF EndEviction, Goto, Inv, Safe, StepInv, DeletedInv, TypeOK
  <2> QED  BY <2>1, <2>2, <2>3, <2>4 DEF Safe
<1> QED
  BY <1>1, <1>2, <1>3, <1>4, <1>5, <1>6, <1>7, <1>8, <1>9, <1>10, <1>11, <1>12, <1>13, <1>14,
     <1>15, <1>16, <1>17, <1>18, <1>19, <1>20 DEF ThreadStep, EvictionStep

LEMMA BeginSafe ==
    ASSUME Inv, NEW t \in Threads, NEW k \in Keys, BeginCall(t, k), TypeOK'
    PROVE  Safe'
<1>1. CASE AcquireLease(t, k)
  <2>1. StepInv'
    BY <1>1 DEF AcquireLease, Begin, Inv, Safe, StepInv, TypeOK
  <2>2. LockInv'
    BY <1>1 DEF AcquireLease, Begin, Unlinking, Inv, Safe, StepInv, LockInv, TypeOK
  <2>3. LeasedFileStays'
    BY <1>1 DEF AcquireLease, Begin, Inv, Safe, StepInv, LeasedFileStays, TypeOK
  <2>4. DeletedInv'
    BY <1>1 DEF AcquireLease, Begin, Inv, Safe, StepInv, DeletedInv, TypeOK
  <2> QED  BY <2>1, <2>2, <2>3, <2>4 DEF Safe
<1>2. CASE Delete(t, k)
  <2>1. StepInv'
    BY <1>2 DEF Delete, Begin, Inv, Safe, StepInv, TypeOK
  <2>2. LockInv'
    BY <1>2, ValueAssumption, StripeAssumption
       DEF Delete, Begin, Lock, Free, Unlinking, Inv, Safe, StepInv, LockInv, TypeOK
  <2>3. LeasedFileStays'
    BY <1>2 DEF Delete, Begin, Inv, Safe, StepInv, LeasedFileStays, TypeOK
  <2>4. DeletedInv'
    BY <1>2 DEF Delete, Begin, Inv, Safe, StepInv, DeletedInv, TypeOK
  <2> QED  BY <2>1, <2>2, <2>3, <2>4 DEF Safe
<1>3. ASSUME NEW after \in {"idle", "stat"}, Save(t, k, after) PROVE Safe'
  <2>1. StepInv'
    BY <1>3 DEF Save, Begin, Return, Inv, Safe, StepInv, TypeOK
  <2>2. LockInv'
    BY <1>3, ValueAssumption, StripeAssumption
       DEF Save, Begin, Return, Lock, Free, Unlinking, Inv, Safe, StepInv, LockInv, TypeOK
  <2>3. LeasedFileStays'
    BY <1>3 DEF Save, Begin, Return, Inv, Safe, StepInv, LeasedFileStays, TypeOK
  <2>4. DeletedInv'
    BY <1>3, StripeAssumption, ValueAssumption
       DEF Save, Begin, Inv, Safe, StepInv, DeletedInv, TypeOK, LockInv, Lock, Free
  <2> QED  BY <2>1, <2>2, <2>3, <2>4 DEF Safe
<1> QED  BY <1>1, <1>2, <1>3 DEF BeginCall

\* Another process touches none of this one's state, and stores new keys only.
LEMMA ElsewhereInv ==
    ASSUME Inv, NEW k \in Keys, ElsewhereStored(k) \/ ElsewhereDeleted(k)
    PROVE  Inv'
<1>1. UNCHANGED <<cached, leaseVars, deleted, stripeLock, cacheVars, threadVars, next, calls>>
  BY DEF ElsewhereStored, ElsewhereDeleted
<1>2. /\ remote' \in [Keys -> {"fresh", "stored", "none"}]
      /\ \A j \in Keys : remote[j] = "none" => remote'[j] = "none"
  BY DEF ElsewhereStored, ElsewhereDeleted, Inv, TypeOK
<1>3. TypeOK'
  BY <1>1, <1>2 DEF Inv, TypeOK
<1>4. LeaseCount'
  BY <1>1 DEF Inv, LeaseCount, Holders, Leasing
<1>5. StepInv' /\ LockInv' /\ LeasedFileStays'
  BY <1>1 DEF Inv, Safe, StepInv, LockInv, Unlinking, LeasedFileStays
<1>6. DeletedInv'
  BY <1>1, <1>2 DEF Inv, Safe, StepInv, DeletedInv, TypeOK
<1> QED  BY <1>3, <1>4, <1>5, <1>6 DEF Inv, Safe

LEMMA NextInv == Inv /\ [Next]_vars => Inv'
<1> SUFFICES ASSUME Inv, [Next]_vars PROVE Inv'
  OBVIOUS
<1>1. ASSUME NEW t \in Threads, NEW k \in Keys, BeginCall(t, k) PROVE Inv'
  BY <1>1, BeginCallType, CallCount, BeginSafe DEF Inv
<1>2. ASSUME NEW t \in Threads, ThreadStep(t) PROVE Inv'
  <2>1. TypeOK'
    BY <1>2, CallType, EvictionType DEF Inv, Safe
  <2> QED  BY <1>2, <2>1, StepCount, StepSafe DEF Inv
<1>3. ASSUME NEW k \in Keys, ElsewhereStored(k) \/ ElsewhereDeleted(k) PROVE Inv'
  BY <1>3, ElsewhereInv
<1>4. CASE UNCHANGED vars
  BY <1>4 DEF vars, Inv, TypeOK, LeaseCount, Holders, Leasing, Safe, StepInv, LockInv,
              Unlinking, LeasedFileStays, DeletedInv
<1> QED  BY <1>1, <1>2, <1>3, <1>4 DEF Next

THEOREM CacheInvariant == Spec => []Inv
BY InitInv, NextInv, PTL DEF Spec

\* A released count is never negative, and a thread that goes on has a key.
THEOREM CacheType == Spec => []TypeOK
<1>1. Inv => TypeOK
  BY DEF Inv
<1> QED  BY <1>1, CacheInvariant, PTL

\* No eviction and no deletion takes a file from under its reader.
THEOREM CacheLeasedFile == Spec => []LeasedFileStays
<1>1. Inv => LeasedFileStays
  BY DEF Inv, Safe
<1> QED  BY <1>1, CacheInvariant, PTL

\* A deleted object's file lasts no longer than the leases it had.
THEOREM CacheDeleted == Spec => []DeletedIsUncached
<1>1. Inv => DeletedIsUncached
  BY DEF Inv, Safe, DeletedInv, DeletedIsUncached
<1> QED  BY <1>1, CacheInvariant, PTL

-----------------------------------------------------------------------------
(* The limit.                                                              *)

EvictAhead == \E t \in Threads : pc[t] = "evict"
ReleasedAhead == \E t \in Threads : pc[t] = "released"

\* Until a thread is waiting for its own eviction, the one under way knows of every
\* file: it counts it or has yet to look. A file that it leaves was leased, and whoever
\* gives the lease back waits until the eviction has said whether it is to be repeated.
ScanOf(t) ==
    /\ pc[t] \in {"expire", "shrink"} => scan.victim = NoKey
    /\ pc[t] \in {"expire", "unlinkExpired"} /\ ~EvictAhead
           => cached \subseteq scan.counted \cup scan.todo \cup {scan.victim}
    /\ pc[t] \in {"shrink", "unlinkOldest"} /\ ~EvictAhead
           => /\ cached \subseteq scan.counted
              /\ \A k \in cached \ (scan.todo \cup {scan.exclude, scan.victim}) :
                     leases[k] > 0 \/ ReleasedAhead

ScanInv == \A t \in Threads : ScanOf(t)

LockHeld == cacheLock # NoThread => cacheLock \in Threads /\ pc[cacheLock] \in Evicting

\* Files that nobody uses fit into the cache, but for one that does not fit at all.
UnusedFit ==
    MaxBytes > 0 /\ cacheLock = NoThread /\ ~EvictAhead /\ ~ReleasedAhead
        /\ (\A k \in Keys : leases[k] = 0)
        => BytesOf(cached) <= MaxBytes \/ \E k \in Keys : cached \subseteq {k}

LimitInv == LockHeld /\ ScanInv /\ LimitRemembered /\ UnusedFit

\* The bytes of files: as many as the file's size, and more for more files.
LEMMA BytesFinite ==
    ASSUME NEW files \in SUBSET Keys
    PROVE  IsFiniteSet(UNION {Bytes(k) : k \in files}) /\ BytesOf(files) \in Nat
<1> DEFINE all == {Bytes(k) : k \in files}
<1>1. IsFiniteSet(files)
  BY FiniteAssumption, FS_Subset
<1>2. IsFiniteSet(all)
  <2> DEFINE f == [k \in files |-> Bytes(k)]
  <2>1. f \in Surjection(files, all)
    BY DEF Surjection
  <2> QED  BY <1>1, <2>1, FS_Surjection
<1>3. ASSUME NEW T \in all PROVE IsFiniteSet(T)
  <2>1. PICK k \in files : T = {k} \X (1..Weight[k])
    BY DEF Bytes
  <2>2. IsFiniteSet(1..Weight[k])
    BY SizeAssumption, FS_Interval
  <2>3. IsFiniteSet({k})
    BY FS_Singleton
  <2> QED  BY <2>1, <2>2, <2>3, FS_Product
<1> HIDE DEF all
<1>4. IsFiniteSet(UNION all)
  BY <1>2, <1>3, FS_UNION
<1> QED  BY <1>4, FS_CardinalityType DEF all, BytesOf

LEMMA BytesMonotone ==
    ASSUME NEW files \in SUBSET Keys, NEW more \in SUBSET Keys, files \subseteq more
    PROVE  BytesOf(files) <= BytesOf(more)
<1>1. UNION {Bytes(k) : k \in files} \subseteq UNION {Bytes(k) : k \in more}
  OBVIOUS
<1>2. IsFiniteSet(UNION {Bytes(k) : k \in more})
  BY BytesFinite
<1> QED  BY <1>1, <1>2, FS_Subset DEF BytesOf

LEMMA BytesOfFew ==
    /\ BytesOf({}) = 0
    /\ \A k \in Keys : BytesOf({k}) = Weight[k]
<1>1. BytesOf({}) = 0
  <2>1. UNION {Bytes(k) : k \in {}} = {}
    OBVIOUS
  <2> QED  BY <2>1, FS_EmptySet DEF BytesOf
<1>2. ASSUME NEW k \in Keys PROVE BytesOf({k}) = Weight[k]
  <2>1. UNION {Bytes(j) : j \in {k}} = {k} \X (1..Weight[k])
    BY DEF Bytes
  <2>2. Weight[k] \in Nat
    BY SizeAssumption
  <2>3. IsFiniteSet(1..Weight[k]) /\ Cardinality(1..Weight[k]) = Weight[k]
    BY <2>2, FS_Interval
  <2>4. IsFiniteSet({k}) /\ Cardinality({k}) = 1
    BY FS_Singleton
  <2>5. Cardinality({k} \X (1..Weight[k])) = 1 * Weight[k]
    BY <2>3, <2>4, FS_Product
  <2>6. BytesOf({k}) = Cardinality({k} \X (1..Weight[k]))
    BY <2>1 DEF BytesOf
  <2> QED  BY <2>2, <2>5, <2>6
<1> QED  BY <1>1, <1>2

LEMMA InitLimit == Init => LimitInv
<1> SUFFICES ASSUME Init PROVE LimitInv
  OBVIOUS
<1>1. LockHeld /\ ScanInv
  BY DEF Init, LockHeld, ScanInv, ScanOf
<1>2. MaxBytes > 0 => BytesOf(cached) <= MaxBytes
  BY BytesOfFew, SizeAssumption DEF Init
<1> QED  BY <1>1, <1>2 DEF LimitInv, LimitRemembered, UnusedFit

\* A step outside the eviction: it brings a file only to evict next, gives a lease
\* back only to look at the flag next, and looks at it only while no eviction runs.
LEMMA OtherLimit ==
    ASSUME Inv, TypeOK', LimitInv, NEW t \in Threads, NEW step,
           pc' = [pc EXCEPT ![t] = step], UNCHANGED cacheVars,
           pc[t] \notin Evicting \cup {"evict"}, step \notin Evicting,
           cached' \subseteq cached \/ step = "evict",
           step = "released" \/ \A k \in Keys : leases[k] > 0 => leases'[k] > 0,
           pc[t] = "released" => cacheLock = NoThread /\ (step = "evict" \/ ~needsEviction)
    PROVE  LimitInv'
<1>0. TypeOK /\ LockInv
  BY DEF Inv, Safe
<1>1. pc \in [Threads -> Steps] /\ pc'[t] = step /\ \A u \in Threads \ {t} : pc'[u] = pc[u]
  BY <1>0 DEF TypeOK
<1>2. LockHeld'
  BY <1>1 DEF LimitInv, LockHeld
<1>3. ~EvictAhead' => ~EvictAhead /\ cached' \subseteq cached
  BY <1>1 DEF EvictAhead
<1>4. ScanInv'
  <2> SUFFICES ASSUME NEW u \in Threads, pc'[u] \in Evicting
               PROVE  /\ pc'[u] \in {"expire", "shrink"} => scan'.victim = NoKey
                      /\ pc'[u] \in {"expire", "unlinkExpired"} /\ ~EvictAhead'
                             => cached' \subseteq scan'.counted \cup scan'.todo \cup {scan'.victim}
                      /\ pc'[u] \in {"shrink", "unlinkOldest"} /\ ~EvictAhead'
                             => /\ cached' \subseteq scan'.counted
                                /\ \A k \in cached' \ (scan'.todo \cup {scan'.exclude, scan'.victim}) :
                                       leases'[k] > 0 \/ ReleasedAhead'
    BY DEF ScanInv, ScanOf
  <2>1. u # t /\ pc[u] = pc'[u] /\ scan' = scan
    BY <1>1
  <2>0. pc[t] # "released"
    BY <1>0, <2>1, ValueAssumption DEF LockInv
  <2>2. /\ pc[u] \in {"expire", "shrink"} => scan.victim = NoKey
        /\ pc[u] \in {"expire", "unlinkExpired"} /\ ~EvictAhead
               => cached \subseteq scan.counted \cup scan.todo \cup {scan.victim}
        /\ pc[u] \in {"shrink", "unlinkOldest"} /\ ~EvictAhead
               => /\ cached \subseteq scan.counted
                  /\ \A k \in cached \ (scan.todo \cup {scan.exclude, scan.victim}) :
                         leases[k] > 0 \/ ReleasedAhead
    BY DEF LimitInv, ScanInv, ScanOf
  <2>3. ASSUME NEW k \in cached', ~EvictAhead', leases[k] > 0 \/ ReleasedAhead
        PROVE  leases'[k] > 0 \/ ReleasedAhead'
    <3>1. k \in Keys
      BY DEF TypeOK
    <3>2. CASE leases[k] > 0
      BY <1>1, <3>1, <3>2 DEF ReleasedAhead
    <3>3. CASE ReleasedAhead
      BY <1>1, <1>3, <2>0, <2>3, <3>3 DEF ReleasedAhead
    <3> QED  BY <2>3, <3>2, <3>3
  <2> QED  BY <1>3, <2>1, <2>2, <2>3
<1>5. LimitRemembered'
  <2> SUFFICES ASSUME MaxBytes > 0, cacheLock = NoThread, ~EvictAhead'
               PROVE  BytesOf(cached') <= MaxBytes \/ needsEviction
    BY DEF LimitRemembered, EvictAhead
  <2>1. BytesOf(cached) <= MaxBytes \/ needsEviction
    BY <1>3 DEF LimitInv, LimitRemembered, EvictAhead
  <2>2. BytesOf(cached') <= BytesOf(cached) /\ BytesOf(cached') \in Nat /\ BytesOf(cached) \in Nat
    BY <1>3, BytesMonotone, BytesFinite, <1>0 DEF TypeOK
  <2> QED  BY <2>1, <2>2, SizeAssumption
<1>6. UnusedFit'
  <2> SUFFICES ASSUME MaxBytes > 0, cacheLock = NoThread, ~EvictAhead', ~ReleasedAhead',
                      \A k \in Keys : leases'[k] = 0
               PROVE  BytesOf(cached') <= MaxBytes \/ \E k \in Keys : cached' \subseteq {k}
    BY DEF UnusedFit
  <2>1. step # "released" /\ step # "evict" /\ ~EvictAhead /\ cached' \subseteq cached
    BY <1>1, <1>3 DEF ReleasedAhead, EvictAhead
  <2>2. \A k \in Keys : leases[k] = 0
    BY <1>0, <2>1 DEF TypeOK
  <2>3. BytesOf(cached') <= BytesOf(cached) /\ BytesOf(cached') \in Nat /\ BytesOf(cached) \in Nat
    BY <2>1, BytesMonotone, BytesFinite, <1>0 DEF TypeOK
  <2>4. CASE pc[t] = "released"
    <3>1. BytesOf(cached) <= MaxBytes
      BY <2>1, <2>4 DEF LimitInv, LimitRemembered, EvictAhead
    <3> QED  BY <2>3, <3>1, SizeAssumption
  <2>5. CASE pc[t] # "released"
    <3>1. ~ReleasedAhead
      BY <1>1, <2>5 DEF ReleasedAhead
    <3>2. BytesOf(cached) <= MaxBytes \/ \E k \in Keys : cached \subseteq {k}
      BY <2>1, <2>2, <3>1 DEF LimitInv, UnusedFit
    <3> QED  BY <2>1, <2>3, <3>2, SizeAssumption
  <2> QED  BY <2>4, <2>5
<1> QED  BY <1>2, <1>4, <1>5, <1>6 DEF LimitInv

LEMMA BeginCallLimit ==
    ASSUME Inv, TypeOK', LimitInv, NEW t \in Threads, NEW k \in Keys, BeginCall(t, k)
    PROVE  LimitInv'
<1>0. TypeOK
  BY DEF Inv
<1>1. CASE AcquireLease(t, k)
  <2>1. \A j \in Keys : leases[j] > 0 => leases'[j] > 0
    BY <1>0, <1>1 DEF AcquireLease, TypeOK
  <2> QED  BY <1>1, <2>1, OtherLimit DEF AcquireLease, Begin
<1>2. CASE Delete(t, k)
  BY <1>2, OtherLimit DEF Delete, Begin
<1>3. ASSUME NEW after \in {"idle", "stat"}, Save(t, k, after) PROVE LimitInv'
  BY <1>3, OtherLimit DEF Save, Begin
<1> QED  BY <1>1, <1>2, <1>3 DEF BeginCall

LEMMA CallLimit ==
    ASSUME Inv, TypeOK', LimitInv, NEW t \in Threads, ThreadStep(t), ~EvictionStep(t)
    PROVE  LimitInv'
<1>1. CASE Look(t)
  <2>1. PICK step \in {"holding", "download"} : pc' = [pc EXCEPT ![t] = step]
    BY <1>1 DEF Look, Goto
  <2> QED  BY <1>1, <2>1, OtherLimit DEF Look
<1>2. CASE Download(t)
  BY <1>2, OtherLimit DEF Download, Goto
<1>3. CASE DownloadFails(t)
  BY <1>3, OtherLimit DEF DownloadFails, Goto
<1>4. CASE Release(t)
  BY <1>4, OtherLimit DEF Release, Goto
<1>5. CASE CheckNeedsEviction(t)
  <2>1. PICK step \in {"evict", "idle"} :
            pc' = [pc EXCEPT ![t] = step] /\ (step = "evict" \/ ~needsEviction)
    BY <1>5 DEF CheckNeedsEviction, Goto
  <2> QED  BY <1>5, <2>1, OtherLimit DEF CheckNeedsEviction
<1>6. CASE Upload(t)
  BY <1>6, OtherLimit DEF Upload, Goto
<1>7. CASE UploadFails(t)
  BY <1>7, OtherLimit DEF UploadFails, Goto
<1>8. CASE Place(t)
  BY <1>8, OtherLimit DEF Place, Goto
<1>9. CASE StatCopy(t)
  BY <1>9, OtherLimit DEF StatCopy, Goto
<1>10. CASE EraseRemote(t)
  BY <1>10, OtherLimit DEF EraseRemote, Goto
<1>11. CASE EraseFails(t)
  BY <1>11, OtherLimit DEF EraseFails, Goto
<1>12. CASE EraseLocal(t)
  BY <1>12, OtherLimit DEF EraseLocal, Goto
<1> QED  BY <1>1, <1>2, <1>3, <1>4, <1>5, <1>6, <1>7, <1>8, <1>9, <1>10, <1>11, <1>12 DEF ThreadStep

\* While a thread evicts, what it knows of the files is all there is to show: nobody
\* else evicts, and the limit is not in question before it has unlocked the cache.
LEMMA UnderWay ==
    ASSUME Inv, TypeOK', NEW t \in Threads, NEW step \in Evicting,
           pc' = [pc EXCEPT ![t] = step],
           cacheLock = t \/ cacheLock = NoThread, cacheLock' = t, ScanOf(t)'
    PROVE  LimitInv'
<1>1. pc'[t] = step /\ \A u \in Threads \ {t} : pc'[u] = pc[u]
  BY DEF Inv, TypeOK
<1>2. LockHeld'
  BY <1>1 DEF LockHeld
<1>3. ASSUME NEW u \in Threads \ {t} PROVE pc'[u] \notin Evicting
  BY <1>1, ValueAssumption DEF Inv, Safe, LockInv
<1>4. ScanInv'
  BY <1>3 DEF ScanInv, ScanOf
<1>5. cacheLock' # NoThread
  BY ValueAssumption
<1> QED  BY <1>2, <1>4, <1>5 DEF LimitInv, LimitRemembered, UnusedFit

\* A step from one stage of an eviction to the next is no start and no end of it.
LEMMA SameAhead ==
    ASSUME TypeOK, NEW t \in Threads, pc[t] \in Evicting, NEW step \in Evicting,
           pc' = [pc EXCEPT ![t] = step]
    PROVE  (EvictAhead' <=> EvictAhead) /\ (ReleasedAhead' <=> ReleasedAhead) /\ pc'[t] = step
<1>1. pc'[t] = step /\ \A u \in Threads \ {t} : pc'[u] = pc[u]
  BY DEF TypeOK
<1> QED  BY <1>1 DEF EvictAhead, ReleasedAhead

LEMMA ScanLimit ==
    ASSUME Inv, TypeOK', LimitInv, NEW t \in Threads,
           \/ StartEviction(t) \/ CountFile(t) \/ ExpireFile(t) \/ UnlinkExpired(t)
           \/ EvictFile(t) \/ UnlinkOldest(t)
    PROVE  LimitInv'
<1>0. TypeOK /\ ScanOf(t) /\ (pc[t] \in Evicting => cacheLock = t)
  BY DEF Inv, Safe, LockInv, LimitInv, ScanInv
<1>1. CASE StartEviction(t)
  <2>1. pc' = [pc EXCEPT ![t] = "expire"] /\ pc'[t] = "expire"
    BY <1>0, <1>1 DEF StartEviction, Goto, TypeOK
  <2>2. scan'.todo = cached /\ scan'.victim = NoKey /\ cached' = cached
    BY <1>1 DEF StartEviction, NoScan
  <2>3. ScanOf(t)'
    BY <2>1, <2>2 DEF ScanOf
  <2> QED  BY <1>1, <2>1, <2>3, UnderWay DEF StartEviction
<1>2. CASE CountFile(t)
  <2>1. PICK k \in scan.todo :
            scan' = [scan EXCEPT !.todo = @ \ {k}, !.counted = @ \cup ({k} \cap cached)]
    BY <1>2 DEF CountFile
  <2>2. /\ scan'.todo = scan.todo \ {k} /\ scan'.victim = scan.victim
        /\ scan'.counted = scan.counted \cup ({k} \cap cached)
    BY <1>0, <2>1 DEF TypeOK
  <2>3. pc' = [pc EXCEPT ![t] = "expire"]
    BY <1>0, <1>2 DEF CountFile, TypeOK
  <2>4. ScanOf(t)'
    BY <1>0, <1>2, <2>2, <2>3, SameAhead DEF ScanOf, CountFile
  <2> QED  BY <1>0, <1>2, <2>3, <2>4, UnderWay DEF CountFile
<1>3. CASE ExpireFile(t)
  <2>1. PICK k \in scan.todo :
            \/ /\ scan' = [scan EXCEPT !.todo = @ \ {k}, !.deferred = TRUE,
                                       !.counted = @ \cup ({k} \cap cached)]
               /\ UNCHANGED pc
            \/ /\ pc' = [pc EXCEPT ![t] = "unlinkExpired"]
               /\ scan' = [scan EXCEPT !.todo = @ \ {k}, !.victim = k]
    BY <1>3 DEF ExpireFile, Goto
  <2>2. CASE UNCHANGED pc /\ scan' = [scan EXCEPT !.todo = @ \ {k}, !.deferred = TRUE,
                                                  !.counted = @ \cup ({k} \cap cached)]
    <3>1. /\ scan'.todo = scan.todo \ {k} /\ scan'.victim = scan.victim
          /\ scan'.counted = scan.counted \cup ({k} \cap cached)
      BY <1>0, <2>2 DEF TypeOK
    <3>2. pc' = [pc EXCEPT ![t] = "expire"]
      BY <1>0, <1>3, <2>2 DEF ExpireFile, TypeOK
    <3>3. ScanOf(t)'
      BY <1>0, <1>3, <3>1, <3>2, SameAhead DEF ScanOf, ExpireFile
    <3> QED  BY <1>0, <1>3, <3>2, <3>3, UnderWay DEF ExpireFile
  <2>3. CASE /\ pc' = [pc EXCEPT ![t] = "unlinkExpired"]
             /\ scan' = [scan EXCEPT !.todo = @ \ {k}, !.victim = k]
    <3>1. /\ scan'.todo = scan.todo \ {k} /\ scan'.victim = k /\ scan'.counted = scan.counted
      BY <1>0, <2>3 DEF TypeOK
    <3>2. (EvictAhead' <=> EvictAhead) /\ pc'[t] = "unlinkExpired"
      BY <1>0, <1>3, <2>3, SameAhead DEF ExpireFile
    <3>3. ~EvictAhead => cached \subseteq scan.counted \cup scan.todo
      <4>1. pc[t] = "expire" /\ NoKey \notin cached
        BY <1>0, <1>3, ValueAssumption DEF ExpireFile, TypeOK
      <4> QED  BY <1>0, <4>1 DEF ScanOf
    <3>4. cached' = cached
      BY <1>3 DEF ExpireFile
    <3>5. ScanOf(t)'
      BY <3>1, <3>2, <3>3, <3>4 DEF ScanOf
    <3> QED  BY <1>0, <1>3, <2>3, <3>5, UnderWay DEF ExpireFile
  <2> QED  BY <2>1, <2>2, <2>3
<1>4. CASE UnlinkExpired(t)
  <2>1. pc' = [pc EXCEPT ![t] = "expire"]
    BY <1>4 DEF UnlinkExpired, Goto
  <2>2. /\ scan'.todo = scan.todo /\ scan'.victim = NoKey /\ scan'.counted = scan.counted
        /\ cached' = cached \ {scan.victim}
    BY <1>0, <1>4 DEF UnlinkExpired, TypeOK
  <2>3. ScanOf(t)'
    BY <1>0, <1>4, <2>1, <2>2, SameAhead DEF ScanOf, UnlinkExpired
  <2> QED  BY <1>0, <1>4, <2>1, <2>3, UnderWay DEF UnlinkExpired
<1>5. CASE EvictFile(t)
  <2>1. PICK k \in scan.todo :
            \/ /\ leases[k] > 0 /\ UNCHANGED pc
               /\ scan' = [scan EXCEPT !.todo = @ \ {k}]
            \/ /\ pc' = [pc EXCEPT ![t] = "unlinkOldest"]
               /\ scan' = [scan EXCEPT !.todo = @ \ {k}, !.victim = k]
    BY <1>5 DEF EvictFile, Goto
  <2>2. CASE leases[k] > 0 /\ UNCHANGED pc /\ scan' = [scan EXCEPT !.todo = @ \ {k}]
    <3>1. /\ scan'.todo = scan.todo \ {k} /\ scan'.victim = scan.victim
          /\ scan'.counted = scan.counted /\ scan'.exclude = scan.exclude
      BY <1>0, <2>2 DEF TypeOK
    <3>2. pc' = [pc EXCEPT ![t] = "shrink"]
      BY <1>0, <1>5, <2>2 DEF EvictFile, TypeOK
    <3>3. ScanOf(t)'
      BY <1>0, <1>5, <2>2, <3>1, <3>2, SameAhead DEF ScanOf, EvictFile, leaseVars
    <3> QED  BY <1>0, <1>5, <3>2, <3>3, UnderWay DEF EvictFile
  <2>3. CASE /\ pc' = [pc EXCEPT ![t] = "unlinkOldest"]
             /\ scan' = [scan EXCEPT !.todo = @ \ {k}, !.victim = k]
    <3>1. /\ scan'.todo = scan.todo \ {k} /\ scan'.victim = k
          /\ scan'.counted = scan.counted /\ scan'.exclude = scan.exclude
      BY <1>0, <2>3 DEF TypeOK
    <3>2. /\ EvictAhead' <=> EvictAhead
          /\ ReleasedAhead' <=> ReleasedAhead
          /\ pc'[t] = "unlinkOldest"
      BY <1>0, <1>5, <2>3, SameAhead DEF EvictFile
    <3>3. /\ scan.victim = NoKey
          /\ ~EvictAhead => /\ cached \subseteq scan.counted
                            /\ \A j \in cached \ (scan.todo \cup {scan.exclude}) :
                                   leases[j] > 0 \/ ReleasedAhead
      <4>1. pc[t] = "shrink" /\ NoKey \notin cached
        BY <1>0, <1>5, ValueAssumption DEF EvictFile, TypeOK
      <4> QED  BY <1>0, <4>1 DEF ScanOf
    <3>4. cached' = cached /\ leases' = leases
      BY <1>5 DEF EvictFile
    <3>5. ScanOf(t)'
      BY <3>1, <3>2, <3>3, <3>4 DEF ScanOf
    <3> QED  BY <1>0, <1>5, <2>3, <3>5, UnderWay DEF EvictFile
  <2> QED  BY <2>1, <2>2, <2>3
<1>6. CASE UnlinkOldest(t)
  <2>1. pc' = [pc EXCEPT ![t] = "shrink"]
    BY <1>6 DEF UnlinkOldest, Goto
  <2>2. /\ scan'.todo = scan.todo /\ scan'.victim = NoKey /\ scan'.exclude = scan.exclude
        /\ scan'.counted = scan.counted \ ({scan.victim} \cap cached)
        /\ cached' = cached \ {scan.victim}
    BY <1>0, <1>6 DEF UnlinkOldest, TypeOK
  <2>3. ScanOf(t)'
    BY <1>0, <1>6, <2>1, <2>2, SameAhead DEF ScanOf, UnlinkOldest
  <2> QED  BY <1>0, <1>6, <2>1, <2>3, UnderWay DEF UnlinkOldest
<1> QED  BY <1>1, <1>2, <1>3, <1>4, <1>5, <1>6

\* The list of files is done: either there is no limit, or the files are to be shrunk.
LEMMA SumLimit ==
    ASSUME Inv, TypeOK', LimitInv, NEW t \in Threads, SumFiles(t)
    PROVE  LimitInv'
<1>0. TypeOK /\ ScanOf(t) /\ cacheLock = t
  BY DEF Inv, Safe, LockInv, LimitInv, ScanInv, SumFiles
<1>1. CASE MaxBytes = 0
  <2>1. cacheLock' = NoThread /\ pc' = [pc EXCEPT ![t] = next[t]]
    BY <1>1 DEF SumFiles, Goto
  <2>2. next[t] \notin Evicting
    BY <1>0 DEF TypeOK
  <2>3. \A u \in Threads : pc'[u] \notin Evicting
    BY <1>0, <2>1, <2>2, ValueAssumption DEF Inv, Safe, LockInv, TypeOK
  <2> QED  BY <1>1, <2>1, <2>3
              DEF LimitInv, LockHeld, ScanInv, ScanOf, LimitRemembered, UnusedFit
<1>2. CASE MaxBytes # 0
  <2>1. /\ pc' = [pc EXCEPT ![t] = "shrink"] /\ cacheLock' = cacheLock
        /\ scan' = [scan EXCEPT !.todo = scan.counted] /\ scan.todo = {}
    BY <1>2 DEF SumFiles, Goto
  <2>2. /\ scan'.todo = scan.counted /\ scan'.counted = scan.counted
        /\ scan'.victim = scan.victim
    BY <1>0, <2>1 DEF TypeOK
  <2>3. scan.victim = NoKey /\ (~EvictAhead => cached \subseteq scan.counted)
    BY <1>0, <2>1, ValueAssumption DEF ScanOf, SumFiles, TypeOK
  <2>4. ScanOf(t)'
    BY <1>0, <2>1, <2>2, <2>3, SameAhead DEF ScanOf, SumFiles
  <2> QED  BY <1>0, <2>1, <2>4, UnderWay
<1> QED  BY <1>1, <1>2

\* The end: the sum is within the limit and covers every file, or the flag is set and
\* what stayed is leased, but for the file the eviction spared.
LEMMA EndLimit ==
    ASSUME Inv, TypeOK', LimitInv, NEW t \in Threads, EndEviction(t)
    PROVE  LimitInv'
<1>0. TypeOK /\ ScanOf(t) /\ cacheLock = t
  BY DEF Inv, Safe, LockInv, LimitInv, ScanInv, EndEviction
<1>1. /\ cacheLock' = NoThread /\ pc' = [pc EXCEPT ![t] = next[t]]
      /\ UNCHANGED <<cached, leases>>
  BY DEF EndEviction, Goto
<1>2. next[t] \notin Evicting \cup {"evict", "released"}
  BY <1>0 DEF TypeOK
<1>3. /\ \A u \in Threads : pc'[u] \notin Evicting
      /\ EvictAhead' <=> EvictAhead
      /\ ReleasedAhead' <=> ReleasedAhead
  <2>1. pc[t] = "shrink" /\ pc'[t] = next[t] /\ \A u \in Threads \ {t} : pc'[u] = pc[u]
    BY <1>0, <1>1 DEF EndEviction, TypeOK
  <2>2. \A u \in Threads \ {t} : pc[u] \notin Evicting
    BY <1>0 DEF Inv, Safe, LockInv
  <2> QED  BY <1>2, <2>1, <2>2 DEF EvictAhead, ReleasedAhead
<1>4. LockHeld' /\ ScanInv'
  BY <1>1, <1>3 DEF LockHeld, ScanInv, ScanOf
<1>5. ~EvictAhead => cached \subseteq scan.counted
  BY <1>0 DEF ScanOf, EndEviction
<1>6. ASSUME ~EvictAhead, ~OverLimit PROVE BytesOf(cached) <= MaxBytes
  <2>1. BytesOf(cached) <= BytesOf(scan.counted)
    BY <1>0, <1>5, <1>6, BytesMonotone DEF TypeOK
  <2>2. BytesOf(cached) \in Nat /\ BytesOf(scan.counted) \in Nat
    BY <1>0, BytesFinite DEF TypeOK
  <2> QED  BY <1>6, <2>1, <2>2, SizeAssumption DEF OverLimit
<1>7. LimitRemembered'
  <2>1. OverLimit => needsEviction'
    BY DEF EndEviction
  <2> QED  BY <1>1, <1>3, <1>6, <2>1 DEF LimitRemembered, EvictAhead
<1>8. UnusedFit'
  <2> SUFFICES ASSUME ~EvictAhead, ~ReleasedAhead, \A k \in Keys : leases[k] = 0, OverLimit
               PROVE  BytesOf(cached) <= MaxBytes \/ \E k \in Keys : cached \subseteq {k}
    BY <1>1, <1>3, <1>6 DEF UnusedFit
  <2>1. scan.todo \subseteq {scan.exclude} /\ scan.victim = NoKey
    BY <1>0 DEF EndEviction, ScanOf
  <2>2. \A k \in cached : k \in scan.todo \cup {scan.exclude, scan.victim}
    BY <1>0 DEF ScanOf, EndEviction, TypeOK
  <2>3. cached \subseteq {scan.exclude}
    BY <1>0, <2>1, <2>2, ValueAssumption DEF TypeOK
  <2>4. CASE scan.exclude \in Keys
    BY <2>3, <2>4
  <2>5. CASE scan.exclude \notin Keys
    <3>1. cached = {}
      BY <1>0, <2>3, <2>5 DEF TypeOK
    <3> QED  BY <3>1, BytesOfFew, SizeAssumption
  <2> QED  BY <2>4, <2>5
<1> QED  BY <1>4, <1>7, <1>8 DEF LimitInv

LEMMA LimitNext == Inv /\ Inv' /\ LimitInv /\ [Next]_vars => LimitInv'
<1> SUFFICES ASSUME Inv, Inv', LimitInv, [Next]_vars PROVE LimitInv'
  OBVIOUS
<1>0. TypeOK'
  BY DEF Inv
<1>1. ASSUME NEW t \in Threads, NEW k \in Keys, BeginCall(t, k) PROVE LimitInv'
  BY <1>0, <1>1, BeginCallLimit
<1>2. ASSUME NEW t \in Threads, ThreadStep(t) PROVE LimitInv'
  BY <1>0, <1>2, CallLimit, ScanLimit, SumLimit, EndLimit DEF EvictionStep
<1>3. CASE UNCHANGED <<cached, leases, cacheVars, pc>>
  BY <1>3 DEF LimitInv, LockHeld, ScanInv, ScanOf, LimitRemembered, UnusedFit,
              EvictAhead, ReleasedAhead
<1>4. ASSUME NEW k \in Keys, ElsewhereStored(k) \/ ElsewhereDeleted(k) PROVE LimitInv'
  BY <1>3, <1>4 DEF ElsewhereStored, ElsewhereDeleted
<1>5. CASE UNCHANGED vars
  BY <1>3, <1>5 DEF vars
<1> QED  BY <1>1, <1>2, <1>4, <1>5 DEF Next

\* An eviction under way knows of every file nobody else is about to look at, and what
\* an eviction leaves is leased: what the limit rests on in every reachable state.
THEOREM CacheLimitInvariant == Spec => [](Inv /\ LimitInv)
<1>1. Init => Inv /\ LimitInv
  BY InitInv, InitLimit
<1>2. (Inv /\ LimitInv) /\ [Next]_vars => (Inv /\ LimitInv)'
  BY NextInv, LimitNext
<1> QED  BY <1>1, <1>2, PTL DEF Spec

LEMMA IdleFits == Inv /\ LimitInv => IdleWithinLimit
<1> SUFFICES ASSUME Inv, LimitInv, AllIdle, MaxBytes > 0, \A k \in cached : Weight[k] <= MaxBytes
             PROVE  BytesOf(cached) <= MaxBytes
  BY DEF IdleWithinLimit
<1>1. cacheLock = NoThread /\ ~EvictAhead /\ ~ReleasedAhead
  BY DEF LimitInv, LockHeld, EvictAhead, ReleasedAhead, AllIdle
<1>2. ASSUME NEW k \in Keys PROVE leases[k] = 0
  <2>1. Holders(k) = {}
    BY DEF Holders, Leasing, AllIdle, Inv, Safe, StepInv
  <2> QED  BY <2>1, FS_EmptySet DEF Inv, LeaseCount
<1>3. BytesOf(cached) <= MaxBytes \/ \E k \in Keys : cached \subseteq {k}
  BY <1>1, <1>2 DEF LimitInv, UnusedFit
<1>4. ASSUME NEW k \in Keys, cached \subseteq {k} PROVE BytesOf(cached) <= MaxBytes
  <2>1. CASE cached = {}
    BY <2>1, BytesOfFew, SizeAssumption
  <2>2. CASE cached = {k}
    BY <2>2, BytesOfFew
  <2> QED  BY <1>4, <2>1, <2>2
<1> QED  BY <1>3, <1>4

\* However downloads, saves and releases overlap, the limit is exceeded only while
\* somebody knows of it, and no longer once nobody uses the store.
THEOREM CacheLimit == Spec => []LimitKept
<1>1. Inv /\ LimitInv => LimitKept
  BY IdleFits DEF LimitInv, LimitKept
<1> QED  BY <1>1, CacheLimitInvariant, PTL

-----------------------------------------------------------------------------
(* The colour maps.                                                        *)

Accepted == {preset \in Presets : PresetIsValid(preset)}
KnownStops == {ParsedPreset(preset) : preset \in Presets} \cup {view.stops : view \in SavedViews}
Entries == [id : Customs, stops : KnownStops]
\* The stops came with this id, in a preset or in a saved view.
StopsOfId(id, stops) ==
    \/ \E preset \in Accepted : preset.id = id /\ stops = ParsedPreset(preset)
    \/ \E view \in SavedViews : view.embedded /\ view.map = id /\ stops = view.stops

\* One entry for each id, with stops that came with it.
EntriesOK(reg) ==
    /\ reg \in Seq(Entries)
    /\ \A m, n \in DOMAIN reg : reg[m].id = reg[n].id => m = n
    /\ \A n \in DOMAIN reg : StopsOfId(reg[n].id, reg[n].stops)

RegistryOK == EntriesOK(registry) /\ Len(registry) <= MaxMaps

\* The oldest of the entries nobody holds is one of them.
LEMMA MinIn ==
    ASSUME NEW S \in SUBSET Nat, S # {}
    PROVE  Min(S) \in S
<1> DEFINE R == OpToRel(<, Nat)
<1>1. IsWellFoundedOn(R, Nat)
  BY NatLessThanWellFounded
<1>2. \A x, y \in Nat : y < x => <<y, x>> \in R
  BY DEF OpToRel
<1> HIDE DEF R
<1>3. PICK x \in S : \A y \in S : <<y, x>> \notin R
  BY <1>1, WFMin
<1>4. ASSUME NEW y \in S PROVE x <= y
  <2>1. y \in Nat /\ x \in Nat
    OBVIOUS
  <2>2. ~(y < x)
    BY <1>2, <1>3, <2>1, Zenon
  <2> QED  BY <2>1, <2>2
<1> QED  BY <1>4 DEF Min

\* An entry is found at its position, and it is the only one with its id.
LEMMA PositionOK ==
    ASSUME NEW reg, NEW id, Registered(id, reg)
    PROVE  Position(id, reg) \in DOMAIN reg /\ reg[Position(id, reg)].id = id
<1>1. PICK n \in DOMAIN reg : reg[n].id = id
  BY DEF Registered, Ids
<1> QED  BY <1>1 DEF Position

LEMMA StopsFound ==
    ASSUME NEW reg, EntriesOK(reg), NEW n \in DOMAIN reg
    PROVE  Registered(reg[n].id, reg) /\ StopsOf(reg[n].id, reg) = reg[n].stops
<1>1. Registered(reg[n].id, reg)
  BY DEF Registered, Ids
<1>2. Position(reg[n].id, reg) = n
  BY <1>1, PositionOK DEF EntriesOK
<1> QED  BY <1>1, <1>2 DEF StopsOf

\* What is left of a registry without one of its entries: all others, in their order.
LEMMA RemoveAtOK ==
    ASSUME NEW reg, EntriesOK(reg), NEW k \in DOMAIN reg
    PROVE  /\ EntriesOK(RemoveAt(reg, k))
           /\ Len(RemoveAt(reg, k)) = Len(reg) - 1
           /\ \A n \in DOMAIN RemoveAt(reg, k) :
                  \E m \in DOMAIN reg \ {k} : RemoveAt(reg, k)[n] = reg[m]
           /\ \A m \in DOMAIN reg \ {k} :
                  \E n \in DOMAIN RemoveAt(reg, k) : RemoveAt(reg, k)[n] = reg[m]
<1> DEFINE r == RemoveAt(reg, k)
           Old(n) == IF n < k THEN n ELSE n + 1
<1>0. reg \in Seq(Entries) /\ Len(reg) \in Nat /\ DOMAIN reg = 1..Len(reg) /\ k \in 1..Len(reg)
  BY DEF EntriesOK
<1>1. /\ r \in Seq(Entries) /\ Len(r) = Len(reg) - 1
      /\ \A n \in 1..Len(reg) - 1 : r[n] = reg[Old(n)]
  <2>1. /\ SubSeq(reg, 1, k - 1) \in Seq(Entries) /\ Len(SubSeq(reg, 1, k - 1)) = k - 1
        /\ \A n \in 1..k - 1 : SubSeq(reg, 1, k - 1)[n] = reg[n]
    BY <1>0
  <2>2. /\ SubSeq(reg, k + 1, Len(reg)) \in Seq(Entries)
        /\ Len(SubSeq(reg, k + 1, Len(reg))) = Len(reg) - k
        /\ \A n \in 1..Len(reg) - k : SubSeq(reg, k + 1, Len(reg))[n] = reg[k + n]
    BY <1>0
  <2> DEFINE a == SubSeq(reg, 1, k - 1)
             b == SubSeq(reg, k + 1, Len(reg))
  <2>3. r = a \o b
    BY DEF RemoveAt
  <2>4. /\ a \in Seq(Entries) /\ Len(a) = k - 1 /\ \A n \in 1..k - 1 : a[n] = reg[n]
        /\ b \in Seq(Entries) /\ Len(b) = Len(reg) - k
        /\ \A n \in 1..Len(reg) - k : b[n] = reg[k + n]
    BY <2>1, <2>2
  <2> HIDE DEF a, b, r
  <2>5. /\ r \in Seq(Entries) /\ Len(r) = Len(a) + Len(b)
        /\ \A n \in 1..Len(a) + Len(b) : r[n] = IF n <= Len(a) THEN a[n] ELSE b[n - Len(a)]
    BY <2>3, <2>4, ConcatProperties
  <2>6. Len(r) = Len(reg) - 1
    BY <1>0, <2>4, <2>5
  <2>7. ASSUME NEW n \in 1..Len(reg) - 1 PROVE r[n] = reg[Old(n)]
    <3>1. n \in 1..Len(a) + Len(b)
      BY <1>0, <2>4
    <3>2. CASE n < k
      BY <1>0, <2>4, <2>5, <3>1, <3>2
    <3>3. CASE ~(n < k)
      <4>1. n - Len(a) \in 1..Len(reg) - k /\ k + (n - Len(a)) = n + 1 /\ ~(n <= Len(a))
        BY <1>0, <2>4, <3>3
      <4>2. r[n] = b[n - Len(a)]
        BY <2>5, <3>1, <4>1
      <4> QED  BY <2>4, <3>3, <4>1, <4>2
    <3> QED  BY <3>2, <3>3
  <2> QED  BY <2>5, <2>6, <2>7
<1>2. DOMAIN r = 1..Len(reg) - 1
  BY <1>0, <1>1
<1>3. ASSUME NEW n \in DOMAIN r
      PROVE  Old(n) \in DOMAIN reg /\ Old(n) # k /\ r[n] = reg[Old(n)]
  BY <1>0, <1>1, <1>2
<1>4. ASSUME NEW m \in DOMAIN reg \ {k}
      PROVE  \E n \in DOMAIN r : Old(n) = m
  <2>1. CASE m < k
    <3>1. m \in DOMAIN r /\ Old(m) = m
      BY <1>0, <1>2, <2>1
    <3> QED  BY <3>1
  <2>2. CASE m > k
    <3>1. m - 1 \in DOMAIN r /\ Old(m - 1) = m
      BY <1>0, <1>2, <2>2
    <3> QED  BY <3>1
  <2>3. m < k \/ m > k
    BY <1>0
  <2> HIDE DEF r, Old
  <2> QED  BY <2>1, <2>2, <2>3
<1>5. \A m, n \in DOMAIN r : Old(m) = Old(n) => m = n
  BY <1>0, <1>2
<1> HIDE DEF r, Old
<1>6. EntriesOK(r)
  <2>1. \A m, n \in DOMAIN r : r[m].id = r[n].id => m = n
    BY <1>3, <1>5 DEF EntriesOK
  <2>2. \A n \in DOMAIN r : StopsOfId(r[n].id, r[n].stops)
    BY <1>3 DEF EntriesOK
  <2> QED  BY <1>1, <2>1, <2>2 DEF EntriesOK
<1>7. \A n \in DOMAIN r : \E m \in DOMAIN reg \ {k} : r[n] = reg[m]
  BY <1>3
<1>8. \A m \in DOMAIN reg \ {k} : \E n \in DOMAIN r : r[n] = reg[m]
  BY <1>3, <1>4
<1> QED  BY <1>1, <1>6, <1>7, <1>8 DEF r

\* An entry is added for an id that is not there.
LEMMA AppendOK ==
    ASSUME NEW reg, EntriesOK(reg), NEW entry \in Entries, ~Registered(entry.id, reg),
           StopsOfId(entry.id, entry.stops)
    PROVE  /\ EntriesOK(Append(reg, entry))
           /\ Len(Append(reg, entry)) = Len(reg) + 1
           /\ DOMAIN Append(reg, entry) = DOMAIN reg \cup {Len(reg) + 1}
           /\ Append(reg, entry)[Len(reg) + 1] = entry
           /\ \A n \in DOMAIN reg : Append(reg, entry)[n] = reg[n]
<1> DEFINE r == Append(reg, entry)
<1>1. reg \in Seq(Entries) /\ Len(reg) \in Nat /\ DOMAIN reg = 1..Len(reg)
  BY DEF EntriesOK
<1>2. /\ r \in Seq(Entries) /\ Len(r) = Len(reg) + 1
      /\ r[Len(reg) + 1] = entry /\ \A n \in 1..Len(reg) : r[n] = reg[n]
  BY <1>1, AppendProperties
<1>3. DOMAIN r = DOMAIN reg \cup {Len(reg) + 1}
  BY <1>1, <1>2
<1> HIDE DEF r
<1>4. \A n \in DOMAIN reg : reg[n].id # entry.id
  BY DEF Registered, Ids
<1>5. \A m, n \in DOMAIN r : r[m].id = r[n].id => m = n
  BY <1>1, <1>2, <1>3, <1>4 DEF EntriesOK
<1>6. \A n \in DOMAIN r : StopsOfId(r[n].id, r[n].stops)
  BY <1>1, <1>2, <1>3 DEF EntriesOK
<1> QED  BY <1>1, <1>2, <1>3, <1>5, <1>6 DEF EntriesOK, r

LEMMA WithoutOK ==
    ASSUME NEW reg, EntriesOK(reg), NEW id
    PROVE  /\ EntriesOK(Without(id, reg))
           /\ ~Registered(id, Without(id, reg))
           /\ Len(Without(id, reg)) <= Len(reg)
           /\ \A n \in DOMAIN Without(id, reg) :
                  \E m \in DOMAIN reg : Without(id, reg)[n] = reg[m]
           /\ \A m \in DOMAIN reg :
                  reg[m].id # id => \E n \in DOMAIN Without(id, reg) : Without(id, reg)[n] = reg[m]
<1>0. Len(reg) \in Nat
  BY DEF EntriesOK
<1>1. CASE ~Registered(id, reg)
  BY <1>0, <1>1 DEF Without
<1>2. CASE Registered(id, reg)
  <2> DEFINE k == Position(id, reg)
  <2>1. k \in DOMAIN reg /\ reg[k].id = id
    BY <1>2, PositionOK
  <2>2. Without(id, reg) = RemoveAt(reg, k)
    BY <1>2 DEF Without
  <2> HIDE DEF k
  <2>3. ~Registered(id, RemoveAt(reg, k))
    <3>1. \A m \in DOMAIN reg \ {k} : reg[m].id # id
      BY <2>1 DEF EntriesOK
    <3>2. \A n \in DOMAIN RemoveAt(reg, k) : \E m \in DOMAIN reg \ {k} : RemoveAt(reg, k)[n] = reg[m]
      BY <2>1, RemoveAtOK
    <3>3. \A n \in DOMAIN RemoveAt(reg, k) : RemoveAt(reg, k)[n].id # id
      BY <3>1, <3>2
    <3> QED  BY <3>3 DEF Registered, Ids
  <2> QED  BY <1>0, <2>1, <2>2, <2>3, RemoveAtOK
<1> QED  BY <1>1, <1>2

\* A map is registered as it is, or nothing happens; and what the viewers hold stays.
RegisterMeans(r, id, stops) ==
    /\ Registered(id, r) /\ StopsOf(id, r) = stops
    /\ \A map \in Ids(r) : map = id \/ Registered(map, registry)
    /\ \A m \in DOMAIN registry :
           registry[m].id # id /\ registry[m].id \in Held => \E n \in DOMAIN r : r[n] = registry[m]

LEMMA RegisterOK ==
    ASSUME RegistryOK, NEW id \in Customs, NEW stops \in KnownStops, StopsOfId(id, stops),
           NEW r, r = Register(registry, id, stops)
    PROVE  /\ EntriesOK(r) /\ Len(r) <= MaxMaps
           /\ r = registry \/ RegisterMeans(r, id, stops)
<1> DEFINE others == Without(id, registry)
           unused == {n \in DOMAIN others : others[n].id \notin Held}
           entry == [id |-> id, stops |-> stops]
<1>1. /\ EntriesOK(registry) /\ Len(registry) <= MaxMaps
      /\ MaxMaps \in Nat \ {0} /\ Len(registry) \in Nat
  BY PaletteAssumption DEF RegistryOK, EntriesOK
<1>2. /\ EntriesOK(others) /\ ~Registered(id, others) /\ Len(others) <= Len(registry)
      /\ \A n \in DOMAIN others : \E m \in DOMAIN registry : others[n] = registry[m]
      /\ \A m \in DOMAIN registry :
             registry[m].id # id => \E n \in DOMAIN others : others[n] = registry[m]
  BY <1>1, WithoutOK
<1>3. entry \in Entries /\ entry.id = id /\ entry.stops = stops
  BY DEF Entries
<1>4. \/ Len(others) < MaxMaps /\ r = Append(others, entry)
      \/ unused # {} /\ r = Append(RemoveAt(others, Min(unused)), entry)
      \/ r = registry
  BY DEF Register
<1> HIDE DEF others, unused, entry
\* What is appended to: the others, or the others without one nobody holds.
<1>5. ASSUME NEW rest, EntriesOK(rest), ~Registered(id, rest), Len(rest) < MaxMaps,
             r = Append(rest, entry),
             \A n \in DOMAIN rest : \E m \in DOMAIN others : rest[n] = others[m],
             \A m \in DOMAIN others :
                 others[m].id \in Held => \E n \in DOMAIN rest : rest[n] = others[m]
      PROVE  EntriesOK(r) /\ Len(r) <= MaxMaps /\ RegisterMeans(r, id, stops)
  <2>1. /\ EntriesOK(r) /\ Len(r) = Len(rest) + 1 /\ DOMAIN r = DOMAIN rest \cup {Len(rest) + 1}
        /\ r[Len(rest) + 1] = entry /\ \A n \in DOMAIN rest : r[n] = rest[n]
    BY <1>3, <1>5, AppendOK
  <2>2. Len(r) <= MaxMaps
    BY <1>1, <1>5, <2>1 DEF EntriesOK
  <2>3. Registered(id, r) /\ StopsOf(id, r) = stops
    BY <1>3, <2>1, StopsFound
  <2>4. ASSUME NEW map \in Ids(r), map # id PROVE Registered(map, registry)
    <3>1. PICK n \in DOMAIN rest : rest[n].id = map
      BY <1>3, <2>1, <2>4 DEF Ids
    <3>2. PICK m \in DOMAIN registry : rest[n] = registry[m]
      BY <1>2, <1>5
    <3> QED  BY <3>1, <3>2 DEF Registered, Ids
  <2>5. ASSUME NEW m \in DOMAIN registry, registry[m].id # id, registry[m].id \in Held
        PROVE  \E n \in DOMAIN r : r[n] = registry[m]
    <3>1. PICK j \in DOMAIN others : others[j] = registry[m]
      BY <1>2, <2>5
    <3>2. PICK n \in DOMAIN rest : rest[n] = registry[m]
      BY <1>5, <2>5, <3>1
    <3> QED  BY <2>1, <3>2
  <2> QED  BY <2>1, <2>2, <2>3, <2>4, <2>5 DEF RegisterMeans
<1>6. CASE Len(others) < MaxMaps /\ r = Append(others, entry)
  BY <1>2, <1>5, <1>6
<1>7. CASE unused # {} /\ r = Append(RemoveAt(others, Min(unused)), entry)
  <2> DEFINE k == Min(unused)
             rest == RemoveAt(others, k)
  <2>1. k \in DOMAIN others /\ others[k].id \notin Held
    <3>1. unused \in SUBSET Nat
      BY <1>2 DEF unused, EntriesOK
    <3>2. k \in unused
      BY <1>7, <3>1, MinIn
    <3> QED  BY <3>2 DEF unused
  <2>2. r = Append(rest, entry)
    BY <1>7
  <2> HIDE DEF k
  <2>3. /\ EntriesOK(rest) /\ Len(rest) = Len(others) - 1
        /\ \A n \in DOMAIN rest : \E m \in DOMAIN others \ {k} : rest[n] = others[m]
        /\ \A m \in DOMAIN others \ {k} : \E n \in DOMAIN rest : rest[n] = others[m]
    BY <1>2, <2>1, RemoveAtOK
  <2> HIDE DEF rest
  <2>4. Len(rest) < MaxMaps
    BY <1>1, <1>2, <2>3 DEF EntriesOK
  <2>5. ~Registered(id, rest)
    BY <1>2, <2>3 DEF Registered, Ids
  <2> QED  BY <1>5, <2>1, <2>2, <2>3, <2>4, <2>5
<1> QED  BY <1>1, <1>4, <1>6, <1>7

-----------------------------------------------------------------------------
(* Steps that register a map, and the others.                              *)

LEMMA RegisterKeeps ==
    ASSUME RegistryOK, NEW id \in Customs, NEW stops \in KnownStops, StopsOfId(id, stops),
           registry' = Register(registry, id, stops),
           Registered(id, registry) =>
               \/ StopsOf(id, registry) = stops
               \/ StopsOf(id, registry') = stops => Redefined(id),
           Registered(id, registry') => MayEnter(id)
    PROVE  RegistryOK' /\ HeldStays /\ NewIsShown
<1>1. /\ EntriesOK(registry') /\ Len(registry') <= MaxMaps
      /\ registry' = registry \/ RegisterMeans(registry', id, stops)
  BY RegisterOK
<1>2. RegistryOK'
  BY <1>1 DEF RegistryOK, EntriesOK
<1>3. CASE registry' = registry
  BY <1>2, <1>3 DEF HeldStays, NewIsShown
<1>4. CASE RegisterMeans(registry', id, stops)
  <2>1. ASSUME NEW map \in Held, Registered(map, registry)
        PROVE  /\ Registered(map, registry')
               /\ StopsOf(map, registry') = StopsOf(map, registry) \/ Redefined(map)
    <3>1. CASE map = id
      BY <1>4, <2>1, <3>1 DEF RegisterMeans
    <3>2. CASE map # id
      <4>1. PICK m \in DOMAIN registry : registry[m].id = map
        BY <2>1 DEF Registered, Ids
      <4>2. PICK n \in DOMAIN registry' : registry'[n] = registry[m]
        BY <1>4, <2>1, <3>2, <4>1 DEF RegisterMeans
      <4> QED  BY <1>1, <4>1, <4>2, StopsFound DEF RegistryOK
    <3> QED  BY <3>1, <3>2
  <2>2. ASSUME NEW map \in Ids(registry') \ Ids(registry) PROVE MayEnter(map)
    BY <1>4, <2>2 DEF RegisterMeans, Registered
  <2> QED  BY <1>2, <2>1, <2>2 DEF HeldStays, NewIsShown
<1> QED  BY <1>1, <1>3, <1>4

LEMMA ImportKeeps ==
    ASSUME RegistryOK, NEW preset \in Presets, Import(preset)
    PROVE  RegistryOK' /\ HeldStays /\ NewIsShown
<1> DEFINE id == preset.id
           stops == ParsedPreset(preset)
<1>1. preset \in Accepted /\ id \in Customs /\ stops \in KnownStops
  BY PaletteAssumption DEF Import, Accepted, KnownStops
<1>2. StopsOfId(id, stops)
  BY <1>1 DEF StopsOfId
<1>3. registry' = Register(registry, id, stops) /\ (Registered(id, registry') => id = shown')
  BY DEF Import, Show
<1>4. CASE Registered(id, registry')
  <2>1. MayEnter(id)
    BY <1>3, <1>4 DEF MayEnter
  <2>2. StopsOf(id, registry') = stops => Redefined(id)
    BY <1>3, <1>4 DEF Redefined
  <2> QED  BY <1>1, <1>2, <1>3, <2>1, <2>2, RegisterKeeps
<1>5. CASE ~Registered(id, registry')
  <2>1. ~RegisterMeans(registry', id, stops)
    BY <1>5 DEF RegisterMeans
  <2>2. registry' = registry
    BY <1>1, <1>2, <1>3, <2>1, RegisterOK
  <2> QED  BY <2>2 DEF RegistryOK, HeldStays, NewIsShown
<1> QED  BY <1>4, <1>5

LEMMA RestoreKeeps ==
    ASSUME RegistryOK, NEW view \in SavedViews, RestorePipeline(view)
    PROVE  RegistryOK' /\ HeldStays /\ NewIsShown
<1>1. CASE ~(Readable(view) /\ view.embedded)
  BY <1>1 DEF RestorePipeline, ParseViewState, RegistryOK, HeldStays, NewIsShown
<1>2. CASE Readable(view) /\ view.embedded
  <2>1. /\ view.map \in Customs /\ view.stops \in KnownStops
        /\ Registered(view.map, registry) => StopsOf(view.map, registry) = view.stops
    BY <1>2 DEF Readable, KnownStops
  <2>2. StopsOfId(view.map, view.stops)
    BY <1>2 DEF StopsOfId
  <2>3. /\ registry' = Register(registry, view.map, view.stops)
        /\ Registered(view.map, registry') => MayEnter(view.map)
    BY <1>2 DEF RestorePipeline, ParseViewState, MayEnter
  <2> QED  BY <2>1, <2>2, <2>3, RegisterKeeps
<1> QED  BY <1>1, <1>2

LEMMA PaletteKeeps == RegistryOK /\ [PaletteNext]_paletteVars => RegistryOK' /\ HeldStays /\ NewIsShown
<1> SUFFICES ASSUME RegistryOK, [PaletteNext]_paletteVars
             PROVE  RegistryOK' /\ HeldStays /\ NewIsShown
  OBVIOUS
<1>1. CASE UNCHANGED registry
  BY <1>1 DEF RegistryOK, HeldStays, NewIsShown
<1>2. ASSUME NEW preset \in Presets, Import(preset) PROVE RegistryOK' /\ HeldStays /\ NewIsShown
  BY <1>2, ImportKeeps
<1>3. ASSUME NEW view \in SavedViews, RestorePipeline(view)
      PROVE  RegistryOK' /\ HeldStays /\ NewIsShown
  BY <1>3, RestoreKeeps
<1>4. ~(\E preset \in Presets : Import(preset)) /\ ~(\E view \in SavedViews : RestorePipeline(view))
          => UNCHANGED registry
  BY DEF PaletteNext, paletteVars, Effects, Undo, Redo, DatasetSelected, DatasetFails, Choose, Mount
<1> QED  BY <1>1, <1>2, <1>3, <1>4

\* The registry has an entry for each id, within its limit.
THEOREM PaletteRegistry == PaletteSpec => []RegistryOK
<1>1. PaletteInit => RegistryOK
  BY PaletteAssumption DEF PaletteInit, RegistryOK, EntriesOK
<1>2. RegistryOK /\ [PaletteNext]_paletteVars => RegistryOK'
  BY PaletteKeeps
<1> QED  BY <1>1, <1>2, PTL DEF PaletteSpec

\* What viewers draw with stays, with the stops it has unless its preset is imported
\* again, and nothing enters with a view that is unreadable.
THEOREM PaletteServesScreen == PaletteSpec => RegistryServesScreen
<1>1. RegistryOK /\ [PaletteNext]_paletteVars => [HeldStays]_paletteVars /\ [NewIsShown]_paletteVars
  BY PaletteKeeps
<1>2. PaletteSpec => [][HeldStays]_paletteVars /\ [][NewIsShown]_paletteVars
  BY <1>1, PaletteRegistry, PTL DEF PaletteSpec
<1> QED  BY <1>2 DEF RegistryServesScreen, HeldMapStays, RegisteredToBeShown
=============================================================================
