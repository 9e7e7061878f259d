------------------------------ MODULE ObjectCache ------------------------------
(***************************************************************************)
(* S3ObjectStore in one process: the threads that read, save and delete    *)
(* objects share a cache directory. A reader leases a path before it looks *)
(* the file up and releases it when its response or job step ends; a       *)
(* deletion waits for the leases; the eviction that ends a download, a     *)
(* save or a release removes files nobody leases. Three kinds of lock are  *)
(* taken: one for the cache, the key stripes, and one for the leases,      *)
(* which covers single steps here.                                         *)
(*                                                                         *)
(* ObjectStore, the local store, is the part without the cache: its leases *)
(* and its deferred deletion. Objects are written once, under a new key,   *)
(* and no key whose deletion was asked for is written: that is JobRunner's *)
(* RowInv. Other processes have caches of their own and share the remote   *)
(* objects.                                                                *)
(*                                                                         *)
(* Abstracted: the order of modification times in which eviction takes     *)
(* files (any order) and their age (any file may have expired); temporary  *)
(* files, which eviction skips. Bound: MaxCalls calls of the store begin.  *)
(***************************************************************************)
EXTENDS Integers, FiniteSets

CONSTANTS
    Keys, NoKey,
    Threads, NoThread,
    Stripes,
    Stripe,         \* the key lock of each key: hash(name) % 64
    Weight,         \* the size of each object
    MaxBytes,       \* settings.s3_cache_max_bytes, 0 for no limit
    Expiring,       \* whether settings.s3_cache_ttl_seconds is positive
    MaxCalls

ASSUME ValueAssumption == NoKey \notin Keys /\ NoThread \notin Threads
ASSUME StripeAssumption == Stripe \in [Keys -> Stripes]
ASSUME SizeAssumption ==
    Weight \in [Keys -> Nat] /\ MaxBytes \in Nat /\ Expiring \in BOOLEAN /\ MaxCalls \in Nat
ASSUME FiniteAssumption == IsFiniteSet(Threads) /\ IsFiniteSet(Keys)

VARIABLES
    remote,         \* whether each key was never used, is stored, or has no object
    cached,         \* the keys with a file in the cache directory
    leases,         \* _leases
    pendingDelete,  \* _pending_delete
    deleted,        \* the keys that a finished delete of this process erased
    stripeLock,     \* _key_locks
    cacheLock,      \* _cache_lock
    needsEviction,  \* _needs_eviction
    scan,           \* the locals of the _evict_cache under way
    pc, key,        \* the step of each thread and its key
    next,           \* where a thread goes on when its eviction ends
    calls           \* how many calls have begun

leaseVars == <<leases, pendingDelete>>
cacheVars == <<cacheLock, needsEviction, scan>>
threadVars == <<pc, key>>
vars == <<remote, cached, leaseVars, deleted, stripeLock, cacheVars, threadVars, next, calls>>

Evicting == {"expire", "unlinkExpired", "shrink", "unlinkOldest"}
Writing == {"upload", "place", "stat"}
Steps == {"idle", "look", "download", "holding", "leaving", "released",
          "evict", "erase", "eraseLocal"} \cup Evicting \cup Writing
NoScan == [exclude |-> NoKey, todo |-> {}, counted |-> {}, deferred |-> FALSE, victim |-> NoKey]
Bytes(k) == {k} \X (1..Weight[k])
BytesOf(files) == Cardinality(UNION {Bytes(k) : k \in files})

TypeOK ==
    /\ remote \in [Keys -> {"fresh", "stored", "none"}]
    /\ cached \subseteq Keys
    /\ leases \in [Keys -> Nat]
    /\ pendingDelete \subseteq Keys
    /\ deleted \subseteq Keys
    /\ stripeLock \in [Stripes -> Threads \cup {NoThread}]
    /\ cacheLock \in Threads \cup {NoThread}
    /\ needsEviction \in BOOLEAN
    /\ scan \in [exclude : Keys \cup {NoKey}, todo : SUBSET Keys, counted : SUBSET Keys,
                 deferred : BOOLEAN, victim : Keys \cup {NoKey}]
    /\ pc \in [Threads -> Steps]
    /\ key \in [Threads -> Keys \cup {NoKey}]
    /\ next \in [Threads -> {"idle", "holding", "stat"}]
    /\ calls \in 0..MaxCalls

Init ==
    /\ remote = [k \in Keys |-> "fresh"]
    /\ cached = {} /\ pendingDelete = {} /\ deleted = {}
    /\ leases = [k \in Keys |-> 0]
    /\ stripeLock = [s \in Stripes |-> NoThread]
    /\ cacheLock = NoThread /\ needsEviction = FALSE /\ scan = NoScan
    /\ pc = [t \in Threads |-> "idle"]
    /\ key = [t \in Threads |-> NoKey]
    /\ next = [t \in Threads |-> "idle"]
    /\ calls = 0

-----------------------------------------------------------------------------
Goto(t, step) ==
    /\ pc' = [pc EXCEPT ![t] = step]
    /\ key' = IF step \in {"idle", "released"} THEN [key EXCEPT ![t] = NoKey] ELSE key
Return(t, step) == next' = [next EXCEPT ![t] = step]

Free(k) == stripeLock[Stripe[k]] = NoThread
Lock(t, k) == Free(k) /\ stripeLock' = [stripeLock EXCEPT ![Stripe[k]] = t]
Unlock(k) == stripeLock' = [stripeLock EXCEPT ![Stripe[k]] = NoThread]

Begin(t, k, step) ==
    /\ pc[t] = "idle" /\ calls < MaxCalls
    /\ calls' = calls + 1
    /\ pc' = [pc EXCEPT ![t] = step]
    /\ key' = [key EXCEPT ![t] = k]

\* Its caller has not been told yet that the object is there.
BeingWritten(k) ==
    \E t \in Threads :
        /\ key[t] = k /\ next[t] # "holding"
        /\ pc[t] \in Writing \cup Evicting \cup {"evict"}

-----------------------------------------------------------------------------
(* Reading: acquire_path, path_for, and release_path.                      *)

AcquireLease(t, k) ==
    /\ remote[k] # "fresh" /\ ~BeingWritten(k)
    /\ Begin(t, k, "look")
    /\ leases' = [leases EXCEPT ![k] = @ + 1]
    /\ UNCHANGED <<remote, cached, pendingDelete, deleted, stripeLock, cacheVars, next>>

\* Mutant: the file is looked up without the key lock.
LookUnlocked(t) ==
    /\ pc[t] = "look"
    /\ IF key[t] \in cached
       THEN Goto(t, "holding") /\ Return(t, "holding") /\ UNCHANGED stripeLock
       ELSE Lock(t, key[t]) /\ Goto(t, "download") /\ UNCHANGED next
    /\ UNCHANGED <<remote, cached, leaseVars, deleted, cacheVars, calls>>

\* A cached file is touched and returned; otherwise the lock is kept.
Look(t) ==
    /\ pc[t] = "look" /\ Free(key[t])
    /\ IF key[t] \in cached
       THEN Goto(t, "holding") /\ Return(t, "holding") /\ UNCHANGED stripeLock
       ELSE Lock(t, key[t]) /\ Goto(t, "download") /\ UNCHANGED next
    /\ UNCHANGED <<remote, cached, leaseVars, deleted, cacheVars, calls>>

\* Mutant: the eviction runs inside the with-block of the key lock.
DownloadAndEvict(t) ==
    /\ pc[t] = "download" /\ remote[key[t]] = "stored"
    /\ cached' = cached \cup {key[t]}
    /\ Goto(t, "evict") /\ Return(t, "holding")
    /\ UNCHANGED <<remote, leaseVars, deleted, stripeLock, cacheVars, calls>>

Download(t) ==
    /\ pc[t] = "download" /\ remote[key[t]] = "stored"
    /\ cached' = cached \cup {key[t]}
    /\ Unlock(key[t])
    /\ Goto(t, "evict") /\ Return(t, "holding")
    /\ UNCHANGED <<remote, leaseVars, deleted, cacheVars, calls>>

\* A 404 returns a path without a file, which serve_object turns into a 410;
\* any other error raises, and acquire_path gives the lease back.
DownloadFails(t) ==
    /\ pc[t] = "download"
    /\ Unlock(key[t])
    /\ Goto(t, "leaving")
    /\ UNCHANGED <<remote, cached, leaseVars, deleted, cacheVars, calls, next>>

\* Mutant: a deferred deletion is forgotten.
ReleaseAndForget(t) ==
    /\ pc[t] \in {"holding", "leaving"}
    /\ leases' = [leases EXCEPT ![key[t]] = @ - 1]
    /\ Goto(t, "released") /\ Return(t, "idle")
    /\ UNCHANGED <<remote, cached, pendingDelete, deleted, stripeLock, cacheVars, calls>>

\* The last release of a path carries out the deletion that waited for it,
\* with the lease lock but not the key lock.
Release(t) ==
    /\ pc[t] \in {"holding", "leaving"}
    /\ leases' = [leases EXCEPT ![key[t]] = @ - 1]
    /\ IF leases[key[t]] = 1 /\ key[t] \in pendingDelete
       THEN /\ pendingDelete' = pendingDelete \ {key[t]}
            /\ cached' = cached \ {key[t]}
       ELSE UNCHANGED <<pendingDelete, cached>>
    /\ Goto(t, "released") /\ Return(t, "idle")
    /\ UNCHANGED <<remote, deleted, stripeLock, cacheVars, calls>>

\* Mutant: the flag is read while an eviction is about to set it.
CheckFlagUnlocked(t) ==
    /\ pc[t] = "released"
    /\ Goto(t, IF needsEviction THEN "evict" ELSE "idle")
    /\ UNCHANGED <<remote, cached, leaseVars, deleted, stripeLock, cacheVars, calls, next>>

CheckNeedsEviction(t) ==
    /\ pc[t] = "released" /\ cacheLock = NoThread
    /\ Goto(t, IF needsEviction THEN "evict" ELSE "idle")
    /\ UNCHANGED <<remote, cached, leaseVars, deleted, stripeLock, cacheVars, calls, next>>

-----------------------------------------------------------------------------
(* Writing: save_stream, save_bytes and copy_in. The last one looks at its *)
(* file again after the eviction.                                          *)

Save(t, k, after) ==
    /\ remote[k] = "fresh" /\ Lock(t, k)
    /\ Begin(t, k, "upload")
    /\ Return(t, after)
    /\ remote' = [remote EXCEPT ![k] = "none"]
    /\ UNCHANGED <<cached, leaseVars, deleted, cacheVars>>

Upload(t) ==
    /\ pc[t] = "upload"
    /\ remote' = [remote EXCEPT ![key[t]] = "stored"]
    /\ Goto(t, "place")
    /\ UNCHANGED <<cached, leaseVars, deleted, stripeLock, cacheVars, calls, next>>

\* The stream is too long, or the upload fails.
UploadFails(t) ==
    /\ pc[t] = "upload"
    /\ Unlock(key[t])
    /\ Goto(t, "idle") /\ Return(t, "idle")
    /\ UNCHANGED <<remote, cached, leaseVars, deleted, cacheVars, calls>>

Place(t) ==
    /\ pc[t] = "place"
    /\ cached' = cached \cup {key[t]}
    /\ Unlock(key[t])
    /\ Goto(t, "evict")
    /\ UNCHANGED <<remote, leaseVars, deleted, cacheVars, calls, next>>

\* target.stat() outside the lock: the size, or FileNotFoundError.
StatCopy(t) ==
    /\ pc[t] = "stat"
    /\ Goto(t, "idle") /\ Return(t, "idle")
    /\ UNCHANGED <<remote, cached, leaseVars, deleted, stripeLock, cacheVars, calls>>

-----------------------------------------------------------------------------
(* Deleting.                                                               *)

Delete(t, k) ==
    /\ remote[k] # "fresh" /\ ~BeingWritten(k) /\ Lock(t, k)
    /\ Begin(t, k, "erase")
    /\ UNCHANGED <<remote, cached, leaseVars, deleted, cacheVars, next>>

EraseRemote(t) ==
    /\ pc[t] = "erase"
    /\ remote' = [remote EXCEPT ![key[t]] = "none"]
    /\ Goto(t, "eraseLocal")
    /\ UNCHANGED <<cached, leaseVars, deleted, stripeLock, cacheVars, calls, next>>

EraseFails(t) ==
    /\ pc[t] = "erase"
    /\ Unlock(key[t])
    /\ Goto(t, "idle")
    /\ UNCHANGED <<remote, cached, leaseVars, deleted, cacheVars, calls, next>>

\* _delete_local_when_unleased, and the end of delete.
EraseLocal(t) ==
    /\ pc[t] = "eraseLocal"
    /\ IF leases[key[t]] > 0
       THEN pendingDelete' = pendingDelete \cup {key[t]} /\ UNCHANGED cached
       ELSE cached' = cached \ {key[t]} /\ UNCHANGED pendingDelete
    /\ deleted' = deleted \cup {key[t]}
    /\ Unlock(key[t])
    /\ Goto(t, "idle")
    /\ UNCHANGED <<remote, leases, cacheVars, calls, next>>

\* External: another process saves or deletes an object.
ElsewhereStored(k) ==
    /\ remote[k] = "fresh"
    /\ remote' = [remote EXCEPT ![k] = "stored"]
    /\ UNCHANGED <<cached, leaseVars, deleted, stripeLock, cacheVars, threadVars, calls, next>>

ElsewhereDeleted(k) ==
    /\ remote[k] = "stored" /\ ~BeingWritten(k)
    /\ remote' = [remote EXCEPT ![k] = "none"]
    /\ UNCHANGED <<cached, leaseVars, deleted, stripeLock, cacheVars, threadVars, calls, next>>

-----------------------------------------------------------------------------
(* _evict_cache, with the cache lock from its first to its last step.      *)

\* The directory is listed once. The eviction of a download or a save spares
\* the file it brought; after a release the thread has no key to spare.
StartEviction(t) ==
    /\ pc[t] = "evict" /\ cacheLock = NoThread
    /\ cacheLock' = t
    /\ scan' = [NoScan EXCEPT !.todo = cached, !.exclude = key[t]]
    /\ Goto(t, "expire")
    /\ UNCHANGED <<remote, cached, leaseVars, deleted, stripeLock, needsEviction, calls, next>>

\* A file that is gone is not counted; one that is young or spared is.
CountFile(t) ==
    /\ pc[t] = "expire"
    /\ \E k \in scan.todo :
        scan' = [scan EXCEPT !.todo = @ \ {k},
                             !.counted = @ \cup ({k} \cap cached)]
    /\ UNCHANGED <<remote, cached, leaseVars, deleted, stripeLock,
                   cacheLock, needsEviction, threadVars, calls, next>>

\* _evict_path of an expired file: its key lock, then its leases. A leased
\* file stays counted, and the eviction is to be repeated.
ExpireFile(t) ==
    /\ pc[t] = "expire" /\ Expiring
    /\ \E k \in scan.todo \ {scan.exclude} :
        IF leases[k] > 0
        THEN /\ Free(k)
             /\ scan' = [scan EXCEPT !.todo = @ \ {k}, !.deferred = TRUE,
                                      !.counted = @ \cup ({k} \cap cached)]
             /\ UNCHANGED <<threadVars, stripeLock>>
        ELSE /\ Lock(t, k) /\ Goto(t, "unlinkExpired")
             /\ scan' = [scan EXCEPT !.todo = @ \ {k}, !.victim = k]
    /\ UNCHANGED <<remote, cached, leaseVars, deleted, cacheLock, needsEviction, calls, next>>

\* Neither an empty file nor one that vanished frees any bytes: both count as
\* deferred, like a leased one.
UnlinkExpired(t) ==
    /\ pc[t] = "unlinkExpired"
    /\ cached' = cached \ {scan.victim}
    /\ scan' = [scan EXCEPT !.deferred = @ \/ BytesOf({scan.victim} \cap cached) = 0,
                            !.victim = NoKey]
    /\ Unlock(scan.victim)
    /\ Goto(t, "expire")
    /\ UNCHANGED <<remote, leaseVars, deleted, cacheLock, needsEviction, calls, next>>

\* All files were looked at: without a limit the eviction is over.
SumFiles(t) ==
    /\ pc[t] = "expire" /\ scan.todo = {}
    /\ IF MaxBytes = 0
       THEN /\ needsEviction' = scan.deferred
            /\ cacheLock' = NoThread /\ scan' = NoScan
            /\ Goto(t, next[t])
       ELSE /\ scan' = [scan EXCEPT !.todo = scan.counted]
            /\ Goto(t, "shrink")
            /\ UNCHANGED <<needsEviction, cacheLock>>
    /\ UNCHANGED <<remote, cached, leaseVars, deleted, stripeLock, calls, next>>

OverLimit == BytesOf(scan.counted) > MaxBytes

EvictFile(t) ==
    /\ pc[t] = "shrink" /\ OverLimit
    /\ \E k \in scan.todo \ {scan.exclude} :
        IF leases[k] > 0
        THEN /\ Free(k)
             /\ scan' = [scan EXCEPT !.todo = @ \ {k}]
             /\ UNCHANGED <<threadVars, stripeLock>>
        ELSE /\ Lock(t, k) /\ Goto(t, "unlinkOldest")
             /\ scan' = [scan EXCEPT !.todo = @ \ {k}, !.victim = k]
    /\ UNCHANGED <<remote, cached, leaseVars, deleted, cacheLock, needsEviction, calls, next>>

\* A file that someone else removed meanwhile stays in the sum.
UnlinkOldest(t) ==
    /\ pc[t] = "unlinkOldest"
    /\ cached' = cached \ {scan.victim}
    /\ scan' = [scan EXCEPT !.counted = @ \ ({scan.victim} \cap cached), !.victim = NoKey]
    /\ Unlock(scan.victim)
    /\ Goto(t, "shrink")
    /\ UNCHANGED <<remote, leaseVars, deleted, cacheLock, needsEviction, calls, next>>

EndEviction(t) ==
    /\ pc[t] = "shrink" /\ (OverLimit => scan.todo \subseteq {scan.exclude})
    /\ needsEviction' = (scan.deferred \/ OverLimit)
    /\ cacheLock' = NoThread /\ scan' = NoScan
    /\ Goto(t, next[t])
    /\ UNCHANGED <<remote, cached, leaseVars, deleted, stripeLock, calls, next>>

-----------------------------------------------------------------------------
EvictionStep(t) ==
    \/ StartEviction(t) \/ CountFile(t) \/ ExpireFile(t) \/ UnlinkExpired(t) \/ SumFiles(t)
    \/ EvictFile(t) \/ UnlinkOldest(t) \/ EndEviction(t)

\* The steps a thread takes once its call has begun.
ThreadStep(t) ==
    \/ Look(t) \/ Download(t) \/ DownloadFails(t) \/ Release(t) \/ CheckNeedsEviction(t)
    \/ Upload(t) \/ UploadFails(t) \/ Place(t) \/ StatCopy(t)
    \/ EraseRemote(t) \/ EraseFails(t) \/ EraseLocal(t)
    \/ EvictionStep(t)

BeginCall(t, k) ==
    \/ AcquireLease(t, k) \/ Delete(t, k)
    \/ \E after \in {"idle", "stat"} : Save(t, k, after)

Next ==
    \/ \E t \in Threads, k \in Keys : BeginCall(t, k)
    \/ \E t \in Threads : ThreadStep(t)
    \/ \E k \in Keys : ElsewhereStored(k) \/ ElsewhereDeleted(k)

Spec == Init /\ [][Next]_vars

\* A thread goes on whenever its next step is possible. Responses end, and
\* release their lease, when the client has read or has gone: the finally of
\* LeasedFileResponse.__call__. No call is forced to begin.
FairSpec == Spec /\ \A t \in Threads : WF_vars(ThreadStep(t))

-----------------------------------------------------------------------------
(* Properties.                                                             *)

AllIdle == \A t \in Threads : pc[t] = "idle"

\* A path handed out stays a file until it is released: no eviction and no
\* deletion, by any thread, takes it from under a reader.
LeasedFileStays == \A t \in Threads : next[t] = "holding" => key[t] \in cached

\* Once delete has returned, the object's local copy lasts no longer than the
\* leases that were on it, and no reader brings it back.
DeletedIsUncached == \A k \in deleted \cap cached : leases[k] > 0

\* Leases may let the cache exceed its limit, but then it is remembered that
\* files have to go, unless a thread is about to look anyway.
LimitRemembered ==
    MaxBytes > 0 /\ cacheLock = NoThread /\ (\A t \in Threads : pc[t] # "evict")
        => BytesOf(cached) <= MaxBytes \/ needsEviction

\* When nobody uses the store the cache is within its limit again: the last
\* release or save has seen to it, however they overlapped, as long as no
\* single object in it exceeds the limit.
IdleWithinLimit ==
    AllIdle /\ MaxBytes > 0 /\ (\A k \in cached : Weight[k] <= MaxBytes)
        => BytesOf(cached) <= MaxBytes

\* Together: the limit is exceeded only for a time, and somebody knows.
LimitKept == LimitRemembered /\ IdleWithinLimit

\* copy_in returns the size of the object it has just stored: its file is
\* there when it is asked for it.
CopyInSeesItsFile == \A t \in Threads : pc[t] = "stat" => key[t] \in cached

\* Every call ends: no order of the cache lock and the key locks, however the
\* keys share them, makes threads wait for each other.
CallsEnd == \A t \in Threads : pc[t] # "idle" ~> pc[t] = "idle"
=============================================================================
