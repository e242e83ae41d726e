------------------------------ MODULE Snapshot ------------------------------
(***************************************************************************)
(* The snapshot of the database (storage/db/storage_db_snapshot.c and the  *)
(* fiber that drives it on every worker,                                   *)
(* module/redis/fiber/module_redis_fiber_storage_db_snapshot_rdb.c).       *)
(*                                                                         *)
(* The workers take blocks of buckets in turn under one spinlock, while    *)
(* commands change keys.  A SET that replaces an entry index whose block   *)
(* was not taken yet hands it to the snapshot in a queue.  A key is one    *)
(* bucket; the lock of a chunk is held by whoever works on a bucket in it. *)
(* The data structure fields of db->snapshot keep their names.             *)
(***************************************************************************)
EXTENDS Integers, FiniteSets, Sequences

CONSTANTS Workers,        \* one snapshot fiber each
          Keys,
          Entries,        \* addresses of entry indexes
          Volatile,       \* entry indexes that expire one tick after creation
          BucketsCount,   \* ht_current->buckets_count_real
          BlockSize,      \* STORAGE_DB_SNAPSHOT_BLOCK_SIZE, 64 * 1024
          ChunkSlots,     \* HASHTABLE_MCMP_HALF_HASHES_CHUNK_SLOTS_COUNT, 14
          QueueLimit,     \* elements of the queue processed per block, 32 * 1024
          Interval,       \* snapshot.interval_ms
          Scenarios,      \* what to start from: see Init
          NoEntry, NoKey, NoWorker

VARIABLES
    place,      \* the bucket of every key
    table,      \* the entry index of every key
    entry,      \* created_time_ms, snapshot_time_ms, readers_counter
    snap,       \* db->snapshot
    spinlock,   \* the worker holding db->snapshot.spinlock
    queue,      \* entry_index_to_be_deleted_queue, last in first out
    file,       \* what was written to the temporary file
    published,  \* what the file at the configured path holds
    pc,         \* where the snapshot fiber of every worker is
    job,        \* local variables of the worker holding the spinlock
    client,     \* a command that changes a key
    saver,      \* a SAVE that waits
    now,        \* the clock
    bound,      \* how many changes, saves and failures may still happen
    ghost       \* what the properties need to know about the past

world == <<place, table, entry>>
vars == <<place, table, entry, snap, spinlock, queue, file, published, pc, job,
          client, saver, now, bound, ghost>>

Fresh == [created |-> 0, snapshot_time |-> 0, readers |-> 0]
NoJob == [bucket |-> 0, end |-> 0, last |-> FALSE, key |-> NoKey,
          entry |-> NoEntry, counter |-> 0]
NoFile == [items |-> <<>>, eof |-> FALSE, cut |-> FALSE]
IdleClient == [pc |-> "idle", key |-> NoKey, entry |-> NoEntry]
IdleSaver == [pc |-> "idle", start |-> 0]

\* storage_db_new and the initialization fiber, once the database is loaded.
SnapInit == [status |-> "none", in_preparation |-> FALSE, running |-> FALSE,
             block_index |-> 0, start |-> 0, next_run |-> Interval,
             opened |-> FALSE]

\* A scenario fixes the buckets of the keys, the workers and whether a snapshot
\* needs changes (snapshot.min_keys_changed), and bounds the clock,
\* the keys commands change, the snapshots they ask for and the writes that fail.
Init ==
    /\ \E s \in Scenarios :
          /\ place = s.place
          /\ bound = s.bound
          /\ pc = [w \in Workers |-> IF w \in s.workers THEN "loop" ELSE "none"]
    /\ table = CHOOSE f \in [Keys -> Entries] : \A k, l \in Keys : k # l => f[k] # f[l]
    /\ entry = [e \in Entries |-> Fresh]
    /\ snap = SnapInit
    /\ spinlock = NoWorker
    /\ queue = <<>>
    /\ file = NoFile
    /\ published = NoFile
    /\ job = NoJob
    /\ client = IdleClient
    /\ saver = IdleSaver
    /\ now = 0
    /\ ghost = [at_start |-> [k \in Keys |-> NoEntry], lost |-> {}, queued |-> {},
                leaked |-> [e \in Entries |-> 0], changed |-> FALSE,
                limit_hit |-> FALSE, stale |-> FALSE, started |-> -1, repeated |-> FALSE,
                undefined |-> FALSE]

-----------------------------------------------------------------------------
\* Chunks, entry indexes.

ChunkOf(b) == b \div ChunkSlots
ClientLocks(b) == client.pc \in {"stored", "in_progress", "prepared"}
                  /\ ChunkOf(place[client.key]) = ChunkOf(b)
ScanLocks(b) == job.entry # NoEntry /\ job.key # NoKey
                /\ pc[spinlock] = "write" /\ ChunkOf(place[job.key]) = ChunkOf(b)

Filled(b) == \E k \in Keys : place[k] = b /\ table[k] # NoEntry
KeyAt(b) == CHOOSE k \in Keys : place[k] = b

Expired(e) == e \in Volatile /\ now > entry[e].created + 1

InUse(e) == \/ \E k \in Keys : table[k] = e
            \/ entry[e].readers > 0
            \/ client.entry = e

(***************************************************************************)
(* hashtable_mcmp_op_iter_max_distance_all_databases: the first filled     *)
(* bucket from b on.  The distance is looked at only between chunks, and   *)
(* the chunk it starts in adds to it only if it is empty, so the bucket    *)
(* found may lie behind the distance.  -1 is HASHTABLE_OP_ITER_END.        *)
(***************************************************************************)
OccupiedChunk(c) == \E k \in Keys : table[k] # NoEntry /\ ChunkOf(place[k]) = c

DistanceAt(b, c) ==
    IF ChunkOf(c) = ChunkOf(b) THEN 0
    ELSE (IF OccupiedChunk(ChunkOf(b)) THEN 0 ELSE ChunkSlots - (b % ChunkSlots))
         + ChunkSlots * (ChunkOf(c) - ChunkOf(b) - 1)

\* Mutant of Iter: from the bucket after b.
IterAfter(b, distance) ==
    LET reach == {c \in b + 1 .. BucketsCount - 1 :
                    Filled(c) /\ DistanceAt(b, c) < distance}
    IN IF reach = {} THEN -1 ELSE CHOOSE c \in reach : \A d \in reach : c <= d

Iter(b, distance) ==
    LET reach == {c \in b .. BucketsCount - 1 :
                    Filled(c) /\ DistanceAt(b, c) < distance}
    IN IF reach = {} THEN -1 ELSE CHOOSE c \in reach : \A d \in reach : c <= d

\* Mutant of CreatedBefore: also what was created in the millisecond of the start.
CreatedBeforeOrAt(e) == entry[e].created <= snap.start

\* storage_db_snapshot_should_entry_index_be_processed_creation_time
CreatedBefore(e) == entry[e].created < snap.start

\* storage_db_snapshot_should_entry_index_be_processed_block_not_processed
BlockNotProcessed(b) == b \div BlockSize >= snap.block_index

Goto(w, p) == pc' = [pc EXCEPT ![w] = p]

-----------------------------------------------------------------------------
(***************************************************************************)
(* The fiber: when a snapshot is due, and who prepares it.                 *)
(***************************************************************************)
NextRun(s) == [s EXCEPT !.next_run = now + Interval]

Due == now >= snap.next_run
EnoughChanged == bound.only_if_changed => ghost.changed

\* The head of the loop: a running snapshot goes straight to the spinlock,
\* otherwise should_run, enough_keys_data_changed and skip_run decide.
FiberLoop(w) ==
    /\ pc[w] = "loop"
    /\ \/ snap.running /\ Goto(w, "lock") /\ UNCHANGED snap
       \/ ~snap.running /\ Due /\ EnoughChanged /\ Goto(w, "ensure") /\ UNCHANGED snap
       \/ ~snap.running /\ Due /\ ~EnoughChanged /\ snap' = NextRun(snap) /\ UNCHANGED pc
       \/ ~snap.running /\ ~Due /\ UNCHANGED <<pc, snap>>
    /\ UNCHANGED <<world, spinlock, queue, file, published, job, client, saver,
                   now, bound, ghost>>

\* storage_db_snapshot_rdb_ensure_prepared, its look at running
EnsureRunning(w) ==
    /\ pc[w] = "ensure"
    /\ Goto(w, IF snap.running THEN "lock" ELSE "claim")
    /\ UNCHANGED <<world, snap, spinlock, queue, file, published, job, client,
                   saver, now, bound, ghost>>

\* ... its exchange of in_preparation, which running is not part of
EnsurePrepared(w) ==
    /\ pc[w] = "claim"
    /\ IF snap.in_preparation
       THEN Goto(w, "wait") /\ UNCHANGED snap
       ELSE /\ snap' = [snap EXCEPT !.in_preparation = TRUE]
            /\ Goto(w, "prepare")
    /\ UNCHANGED <<world, spinlock, queue, file, published, job, client, saver,
                   now, bound, ghost>>

\* storage_db_snapshot_wait_for_prepared, then storage_db_snapshot_is_failed
WaitForPrepared(w) ==
    /\ pc[w] = "wait"
    /\ ~snap.in_preparation
    /\ Goto(w, IF snap.status \in {"failed", "failed_preparation"}
               THEN "loop" ELSE "lock")
    /\ UNCHANGED <<world, snap, spinlock, queue, file, published, job, client,
                   saver, now, bound, ghost>>

(***************************************************************************)
(* storage_db_snapshot_rdb_prepare.  It resets db->snapshot first.  When   *)
(* another worker started the snapshot in the meantime, the reset frees    *)
(* nothing and clears the channel that worker writes to: the behaviour     *)
(* from there on is undefined.                                             *)
(***************************************************************************)
PrepareReset(w) ==
    /\ pc[w] = "prepare"
    /\ snap' = [snap EXCEPT !.opened = FALSE, !.block_index = 0, !.start = 0]
    /\ file' = NoFile
    /\ ghost' = [ghost EXCEPT !.undefined = snap.running]
    /\ Goto(w, "open")
    /\ UNCHANGED <<world, spinlock, queue, published, job, client, saver, now, bound>>

Started == [snap EXCEPT !.opened = TRUE, !.start = now, !.status = "in_progress",
                        !.running = TRUE, !.in_preparation = FALSE]

PrepareStart(w) ==
    /\ pc[w] = "open"
    /\ snap' = Started
    /\ ghost' = [ghost EXCEPT !.at_start = table, !.lost = {}, !.queued = {},
                              !.stale = queue # <<>>,
                              !.repeated = now = ghost.started, !.started = now,
                              !.limit_hit = FALSE,
                              !.changed = FALSE]
    /\ Goto(w, "lock")
    /\ UNCHANGED <<world, spinlock, queue, file, published, job, client, saver,
                   now, bound>>

\* Mutant of Completed: the time of the next run stays.
CompletedKeepsNextRun(s, status) ==
    [s EXCEPT !.status = status, !.running = FALSE, !.opened = FALSE]

\* storage_db_snapshot_completed
Completed(s, status) ==
    [NextRun(s) EXCEPT !.status = status, !.running = FALSE, !.opened = FALSE]

\* storage_db_snapshot_failed with during_preparation
PrepareFail(w) ==
    /\ pc[w] = "open"
    /\ bound.failures > 0
    /\ bound' = [bound EXCEPT !.failures = @ - 1]
    /\ snap' = [Completed(snap, "failed_preparation") EXCEPT !.in_preparation = FALSE]
    /\ file' = NoFile
    /\ Goto(w, "loop")
    /\ UNCHANGED <<world, spinlock, queue, published, job, client, saver, now, ghost>>

\* storage_db_snapshot_lock_try_acquire: running is not looked at again
LockTryAcquire(w) ==
    /\ pc[w] = "lock"
    /\ IF spinlock = NoWorker
       THEN spinlock' = w /\ Goto(w, "block")
       ELSE Goto(w, "loop") /\ UNCHANGED spinlock
    /\ UNCHANGED <<world, snap, queue, file, published, job, client, saver, now,
                   bound, ghost>>

-----------------------------------------------------------------------------
(***************************************************************************)
(* The worker with the spinlock processes a block, then the queue.  A      *)
(* worker that was late finds the snapshot over: it would write to a       *)
(* channel that was freed, and the behaviour is undefined.                 *)
(***************************************************************************)
BlockStart(i) == i * BlockSize

\* storage_db_snapshot_rdb_process_block up to its loop.  The loop starts at
\* block_start - 1, which for block 0 is the largest uint64_t and ends it.
TakeBlock(w) ==
    /\ pc[w] = "block"
    /\ IF ~snap.running
       THEN /\ ghost' = [ghost EXCEPT !.undefined = TRUE]
            /\ UNCHANGED <<snap, job, pc>>
       ELSE LET start == BlockStart(snap.block_index)
            IN /\ snap' = [snap EXCEPT !.block_index = @ + 1]
               /\ job' = [NoJob EXCEPT !.bucket = start, !.end = start + BlockSize,
                                       !.last = start + BlockSize >= BucketsCount]
               /\ Goto(w, IF start = 0 THEN "finalize" ELSE "scan")
               /\ UNCHANGED ghost
    /\ UNCHANGED <<world, spinlock, queue, file, published, client, saver, now, bound>>

\* The step to the bucket after next: the loop increments, and so does its body.
LoopStep(b) ==
    /\ job' = [job EXCEPT !.bucket = b + 2, !.key = NoKey, !.entry = NoEntry]
    /\ Goto(spinlock, IF b + 1 < job.end /\ b + 1 < BucketsCount
                      THEN "scan" ELSE "finalize")

\* The body of the loop up to the serialization: the next filled bucket, read
\* under the lock of its chunk.
ScanBucket(w) ==
    LET b == Iter(job.bucket, job.end - job.bucket)
        k == KeyAt(b)
        e == table[k]
    IN /\ pc[w] = "scan"
       /\ b # -1
       /\ ~ClientLocks(b)
       /\ IF CreatedBefore(e) /\ ~Expired(e)
          THEN /\ entry' = [entry EXCEPT ![e].readers = @ + 1]
               /\ job' = [job EXCEPT !.key = k, !.entry = e]
               /\ Goto(w, "write")
          ELSE LoopStep(b) /\ UNCHANGED entry
       /\ UNCHANGED <<place, table, snap, spinlock, queue, file, published, client,
                      saver, now, bound, ghost>>

\* hashtable_mcmp_op_get_by_index gives up on a lock it waits for too long
ScanLockTimeout(w) ==
    LET b == Iter(job.bucket, job.end - job.bucket)
    IN /\ pc[w] = "scan"
       /\ b # -1
       /\ ClientLocks(b)
       /\ ghost' = [ghost EXCEPT !.lost = @ \union {KeyAt(b)}]
       /\ LoopStep(b)
       /\ UNCHANGED <<world, snap, spinlock, queue, file, published, client, saver,
                      now, bound>>

ScanEnd(w) ==
    /\ pc[w] = "scan"
    /\ Iter(job.bucket, job.end - job.bucket) = -1
    /\ Goto(w, "finalize")
    /\ UNCHANGED <<world, snap, spinlock, queue, file, published, job, client,
                   saver, now, bound, ghost>>

\* Mutant of AlreadySaved: off by one, as snapshot_time_ms is the start plus one.
AlreadySavedLater(e) == entry[e].snapshot_time > snap.start + 1

(***************************************************************************)
(* storage_db_snapshot_rdb_process_entry_index.  An entry index written    *)
(* after the start of this snapshot is skipped, and its reader stays.      *)
(***************************************************************************)
AlreadySaved(e) == entry[e].snapshot_time > snap.start

Processed(e) ==
    IF AlreadySaved(e) THEN entry
    ELSE [entry EXCEPT ![e].snapshot_time = snap.start + 1, ![e].readers = @ - 1]

Leak(e) == IF AlreadySaved(e) THEN [ghost EXCEPT !.leaked[e] = @ + 1] ELSE ghost

Written(k, e) ==
    IF AlreadySaved(e) THEN file
    ELSE [file EXCEPT !.items = Append(@, <<k, e, entry[e].created>>)]

WriteEntry(w) ==
    LET k == job.key
        e == job.entry
    IN /\ pc[w] = "write"
       /\ entry' = Processed(e)
       /\ file' = Written(k, e)
       /\ ghost' = Leak(e)
       /\ LoopStep(place[k])
       /\ UNCHANGED <<place, table, snap, spinlock, queue, published, client, saver,
                      now, bound>>

\* No slice of the buffer can be had, since writing it to the file failed.
WriteFail(w) ==
    LET e == job.entry
    IN /\ pc[w] = "write"
       /\ bound.failures > 0
       /\ ~AlreadySaved(e)
       /\ bound' = [bound EXCEPT !.failures = @ - 1]
       /\ entry' = Processed(e)
       /\ job' = NoJob
       /\ Goto(w, "fail")
       /\ UNCHANGED <<place, table, snap, spinlock, queue, file, published, client,
                      saver, now, ghost>>

\* storage_db_snapshot_mark_as_being_finalized, after the last block
MarkAsBeingFinalized(w) ==
    /\ pc[w] = "finalize"
    /\ snap' = IF job.last THEN [snap EXCEPT !.status = "being_finalized"] ELSE snap
    /\ Goto(w, "queue")
    /\ UNCHANGED <<world, spinlock, queue, file, published, job, client, saver,
                   now, bound, ghost>>

-----------------------------------------------------------------------------
(***************************************************************************)
(* storage_db_snapshot_rdb_process_entry_index_to_be_deleted_queue.  An    *)
(* element is popped before the limit is looked at: the one that meets it  *)
(* is dropped.                                                             *)
(***************************************************************************)
Popped == queue[1]

\* Mutant of QueueEntry: a key that is gone is not written.
QueueEntryOfLiveKey(w) ==
    /\ pc[w] = "queue"
    /\ queue # <<>>
    /\ job.counter < QueueLimit
    /\ queue' = Tail(queue)
    /\ entry' = Processed(Popped.entry)
    /\ file' = IF table[Popped.key] = NoEntry THEN file ELSE Written(Popped.key, Popped.entry)
    /\ ghost' = Leak(Popped.entry)
    /\ job' = [job EXCEPT !.counter = @ + 1]
    /\ UNCHANGED <<place, table, snap, spinlock, published, pc, client, saver, now, bound>>

QueueEntry(w) ==
    /\ pc[w] = "queue"
    /\ queue # <<>>
    /\ job.counter < QueueLimit
    /\ queue' = Tail(queue)
    /\ entry' = Processed(Popped.entry)
    /\ file' = Written(Popped.key, Popped.entry)
    /\ ghost' = Leak(Popped.entry)
    /\ job' = [job EXCEPT !.counter = @ + 1]
    /\ UNCHANGED <<place, table, snap, spinlock, published, pc, client, saver, now, bound>>

QueueFail(w) ==
    /\ pc[w] = "queue"
    /\ queue # <<>>
    /\ job.counter < QueueLimit
    /\ ~AlreadySaved(Popped.entry)
    /\ bound.failures > 0
    /\ bound' = [bound EXCEPT !.failures = @ - 1]
    /\ queue' = Tail(queue)
    /\ entry' = Processed(Popped.entry)
    /\ Goto(w, "fail")
    /\ UNCHANGED <<place, table, snap, spinlock, file, published, job, client,
                   saver, now, ghost>>

QueueEnd(w) ==
    /\ pc[w] = "queue"
    /\ queue = <<>> \/ job.counter >= QueueLimit
    /\ queue' = IF queue = <<>> THEN queue ELSE Tail(queue)
    /\ ghost' = IF queue = <<>> THEN ghost
                ELSE [ghost EXCEPT !.limit_hit = TRUE, !.leaked[Popped.entry] = @ + 1]
    /\ Goto(w, IF job.last THEN "complete" ELSE "release")
    /\ UNCHANGED <<world, snap, spinlock, file, published, job, client, saver, now, bound>>

(***************************************************************************)
(* storage_db_snapshot_rdb_completed_successfully: the end of file marker, *)
(* a flush whose result is not looked at, the close and the renames.       *)
(***************************************************************************)
CompletedSuccessfully(w) ==
    /\ pc[w] = "complete"
    /\ \E cut \in BOOLEAN :
          /\ cut => bound.failures > 0
          /\ bound' = [bound EXCEPT !.failures = IF cut THEN @ - 1 ELSE @]
          /\ published' = [file EXCEPT !.eof = ~cut, !.cut = cut]
    /\ file' = NoFile
    /\ snap' = Completed(snap, "completed")
    /\ Goto(w, "release")
    /\ UNCHANGED <<world, spinlock, queue, job, client, saver, now, ghost>>

CompleteFail(w) ==
    /\ pc[w] = "complete"
    /\ bound.failures > 0
    /\ bound' = [bound EXCEPT !.failures = @ - 1]
    /\ Goto(w, "fail")
    /\ UNCHANGED <<world, snap, spinlock, queue, file, published, job, client,
                   saver, now, ghost>>

\* Mutant of Fail: the queue is emptied and the readers stay.
FailKeepsReaders(w) ==
    /\ pc[w] = "fail"
    /\ queue' = <<>>
    /\ file' = NoFile
    /\ snap' = Completed(snap, "failed")
    /\ Goto(w, "release")
    /\ UNCHANGED <<world, spinlock, published, job, client, saver, now, bound, ghost>>

\* storage_db_snapshot_rdb_flush_entry_index_to_be_deleted_queue, then
\* storage_db_snapshot_failed: the temporary file is removed
Fail(w) ==
    /\ pc[w] = "fail"
    /\ entry' = [e \in Entries |->
                   [entry[e] EXCEPT !.readers =
                      @ - Cardinality({i \in 1 .. Len(queue) : queue[i].entry = e})]]
    /\ queue' = <<>>
    /\ file' = NoFile
    /\ snap' = Completed(snap, "failed")
    /\ Goto(w, "release")
    /\ UNCHANGED <<place, table, spinlock, published, job, client, saver, now, bound, ghost>>

\* Mutant of Release: only the last block releases the spinlock.
ReleaseAfterLast(w) ==
    /\ pc[w] = "release"
    /\ spinlock' = IF snap.running THEN spinlock ELSE NoWorker
    /\ job' = NoJob
    /\ Goto(w, "loop")
    /\ UNCHANGED <<world, snap, queue, file, published, client, saver, now, bound, ghost>>

Release(w) ==
    /\ pc[w] = "release"
    /\ spinlock' = NoWorker
    /\ job' = NoJob
    /\ Goto(w, "loop")
    /\ UNCHANGED <<world, snap, queue, file, published, client, saver, now, bound, ghost>>

Fiber(w) ==
    \/ FiberLoop(w) \/ EnsureRunning(w) \/ EnsurePrepared(w)
    \/ WaitForPrepared(w) \/ PrepareReset(w) \/ PrepareStart(w) \/ PrepareFail(w)
    \/ LockTryAcquire(w) \/ TakeBlock(w) \/ ScanBucket(w) \/ ScanLockTimeout(w)
    \/ ScanEnd(w) \/ WriteEntry(w) \/ WriteFail(w) \/ MarkAsBeingFinalized(w)
    \/ QueueEntry(w) \/ QueueFail(w) \/ QueueEnd(w) \/ CompletedSuccessfully(w)
    \/ CompleteFail(w) \/ Fail(w) \/ Release(w)

-----------------------------------------------------------------------------
(***************************************************************************)
(* Commands that change a key.  The entry index of a SET is created before *)
(* the chunk is locked; its predecessor is handed to the snapshot with the *)
(* lock held.                                                              *)
(***************************************************************************)
Recreated(e) == [entry EXCEPT ![e] = [Fresh EXCEPT !.created = now]]

\* storage_db_op_set: storage_db_entry_index_ring_buffer_new
SetNew(k, e) ==
    /\ client.pc = "idle"
    /\ bound.changes > 0
    /\ ~InUse(e)
    /\ bound' = [bound EXCEPT !.changes = @ - 1]
    /\ entry' = Recreated(e)
    /\ client' = [pc |-> "created", key |-> k, entry |-> e]
    /\ UNCHANGED <<place, table, snap, spinlock, queue, file, published, pc, job,
                   saver, now, ghost>>

\* storage_db_set_entry_index: hashtable_mcmp_op_set
SetStore ==
    LET k == client.key
        previous == table[k]
    IN /\ client.pc = "created"
       /\ ~ScanLocks(place[k])
       /\ table' = [table EXCEPT ![k] = client.entry]
       /\ client' = IF previous = NoEntry THEN IdleClient
                    ELSE [client EXCEPT !.pc = "stored", !.entry = previous]
       /\ ghost' = [ghost EXCEPT !.changed = TRUE]
       /\ UNCHANGED <<place, entry, snap, spinlock, queue, file, published, pc, job,
                      saver, now, bound>>

\* ... storage_db_snapshot_is_in_progress
SetIsInProgress ==
    /\ client.pc = "stored"
    /\ IF snap.status = "in_progress"
       THEN client' = [client EXCEPT !.pc = "in_progress"] /\ UNCHANGED ghost
       ELSE client' = IdleClient
            /\ ghost' = [ghost EXCEPT !.lost = @ \union {client.key}]
    /\ UNCHANGED <<world, snap, spinlock, queue, file, published, pc, job, saver,
                   now, bound>>

\* ... the creation time, the block and the preparation of the reader
SetShouldQueue ==
    LET e == client.entry
    IN /\ client.pc = "in_progress"
       /\ IF CreatedBefore(e) /\ BlockNotProcessed(place[client.key]) /\ ~Expired(e)
          THEN /\ client' = [client EXCEPT !.pc = "prepared"]
               /\ entry' = [entry EXCEPT ![e].readers = @ + 1]
               /\ UNCHANGED ghost
          ELSE /\ client' = IdleClient
               /\ ghost' = [ghost EXCEPT !.lost = @ \union {client.key}]
               /\ UNCHANGED entry
       /\ UNCHANGED <<place, table, snap, spinlock, queue, file, published, pc, job,
                      saver, now, bound>>

\* ... storage_db_snapshot_queue_entry_index_to_be_deleted
SetQueue ==
    /\ client.pc = "prepared"
    /\ queue' = <<[key |-> client.key, entry |-> client.entry]>> \o queue
    /\ ghost' = [ghost EXCEPT
                   !.queued = @ \union {<<client.key, client.entry, entry[client.entry].created>>}]
    /\ client' = IdleClient
    /\ UNCHANGED <<world, snap, spinlock, file, published, pc, job, saver, now, bound>>

\* storage_db_op_delete and the commits of a read-modify-write that delete a
\* key: the snapshot is not told.
Delete(k) ==
    /\ client.pc = "idle"
    /\ bound.changes > 0
    /\ table[k] # NoEntry
    /\ ~ScanLocks(place[k])
    /\ bound' = [bound EXCEPT !.changes = @ - 1]
    /\ table' = [table EXCEPT ![k] = NoEntry]
    /\ ghost' = [ghost EXCEPT !.lost = @ \union {k}, !.changed = TRUE]
    /\ UNCHANGED <<place, entry, snap, spinlock, queue, file, published, pc, job,
                   client, saver, now>>

\* storage_db_op_rmw_commit_update: replaces an entry index without the queue
RmwUpdate(k, e) ==
    /\ client.pc = "idle"
    /\ bound.changes > 0
    /\ ~InUse(e)
    /\ ~ScanLocks(place[k])
    /\ bound' = [bound EXCEPT !.changes = @ - 1]
    /\ entry' = Recreated(e)
    /\ table' = [table EXCEPT ![k] = e]
    /\ ghost' = [ghost EXCEPT !.lost = @ \union {k}, !.changed = TRUE]
    /\ UNCHANGED <<place, snap, spinlock, queue, file, published, pc, job, client,
                   saver, now>>

\* storage_db_op_rmw_commit_rename: the entry index moves to another bucket
Rename(k, l) ==
    /\ k # l
    /\ client.pc = "idle"
    /\ bound.changes > 0
    /\ table[k] # NoEntry
    /\ ~ScanLocks(place[k]) /\ ~ScanLocks(place[l])
    /\ bound' = [bound EXCEPT !.changes = @ - 1]
    /\ table' = [table EXCEPT ![l] = table[k], ![k] = NoEntry]
    /\ ghost' = [ghost EXCEPT !.lost = @ \union {k, l}]
    /\ UNCHANGED <<place, entry, snap, spinlock, queue, file, published, pc, job,
                   client, saver, now>>

Client ==
    \/ SetStore \/ SetIsInProgress \/ SetShouldQueue \/ SetQueue

Change ==
    \/ \E k \in Keys, e \in Entries : SetNew(k, e) \/ RmwUpdate(k, e)
    \/ \E k \in Keys : Delete(k)
    \/ \E k, l \in Keys : Rename(k, l)

-----------------------------------------------------------------------------
(***************************************************************************)
(* SAVE and BGSAVE: module_redis_command_helper_save.                      *)
(***************************************************************************)
\* module_redis_command_helper_save_request
Request(s) == [s EXCEPT !.next_run = now - 1]

Save ==
    /\ saver.pc = "idle"
    /\ bound.saves > 0
    /\ ~snap.running
    /\ bound' = [bound EXCEPT !.saves = @ - 1]
    /\ snap' = Request(snap)
    /\ saver' = [pc |-> "waiting", start |-> now]
    /\ UNCHANGED <<world, spinlock, queue, file, published, pc, job, client, now, ghost>>

Bgsave ==
    /\ bound.saves > 0
    /\ ~snap.running
    /\ bound' = [bound EXCEPT !.saves = @ - 1]
    /\ snap' = Request(snap)
    /\ UNCHANGED <<world, spinlock, queue, file, published, pc, job, client, saver,
                   now, ghost>>

\* module_redis_command_helper_save_wait
SaveReturn ==
    /\ saver.pc = "waiting"
    /\ snap.next_run > saver.start
    /\ saver' = IdleSaver
    /\ UNCHANGED <<world, snap, spinlock, queue, file, published, pc, job, client,
                   now, bound, ghost>>

-----------------------------------------------------------------------------
Tick ==
    /\ bound.ticks > 0
    /\ bound' = [bound EXCEPT !.ticks = @ - 1]
    /\ now' = now + 1
    /\ UNCHANGED <<world, snap, spinlock, queue, file, published, pc, job, client,
                   saver, ghost>>

\* After undefined behaviour nothing is claimed.
Undefined == ghost.undefined /\ UNCHANGED vars

Next ==
    \/ /\ ~ghost.undefined
       /\ \/ \E w \in Workers : Fiber(w)
          \/ Client \/ Change \/ Save \/ Bgsave \/ SaveReturn \/ Tick
    \/ Undefined

(***************************************************************************)
(* Every worker schedules its fibers in turn, the workers run in parallel, *)
(* and a command does not yield between taking and releasing its lock.     *)
(***************************************************************************)
Fairness ==
    /\ \A w \in Workers : WF_vars(~ghost.undefined /\ Fiber(w))
    /\ WF_vars(~ghost.undefined /\ Client)
    /\ WF_vars(~ghost.undefined /\ SaveReturn)

Spec == Init /\ [][Next]_vars /\ Fairness

-----------------------------------------------------------------------------
(***************************************************************************)
(* Properties                                                              *)
(***************************************************************************)
Status == {"none", "in_progress", "being_finalized", "completed", "failed",
           "failed_preparation"}

\* Every variable has its type.
TypeOK ==
    /\ table \in [Keys -> Entries \union {NoEntry}]
    /\ snap.status \in Status
    /\ snap.block_index \in 0 .. BucketsCount
    /\ spinlock \in Workers \union {NoWorker}
    /\ client.pc \in {"idle", "created", "stored", "in_progress", "prepared"}
    /\ saver.pc \in {"idle", "waiting"}
    /\ \A e \in Entries : entry[e].readers \in Nat

\* The comment of storage_db_snapshot_completed, and the parallel_runs counter
\* of the debug build: while one worker ends a snapshot all the others wait, so
\* no worker prepares or processes a block of a snapshot that is not its own.
OneSnapshotAtATime == ~ghost.undefined

Held(e) == IF job.entry = e THEN 1 ELSE 0
Handed(e) == IF client.pc = "prepared" /\ client.entry = e THEN 1 ELSE 0
Queued(e) == Cardinality({i \in 1 .. Len(queue) : queue[i].entry = e})

\* A reader of an entry index that the snapshot took is held by the scan, by a
\* SET about to queue it, or by the queue; or it was leaked because the entry
\* index was already in the file, or met the limit of the queue.  A leaked
\* reader keeps the entry index from ever being freed.
QueueReadersExact ==
    \A e \in Entries :
       entry[e].readers = Held(e) + Handed(e) + Queued(e) + ghost.leaked[e]

\* An entry index is in a file at most once, even when the scan runs into the
\* next block, or a RENAME or a SET moves the entry index ahead of the scan.
SavedOnce ==
    \A f \in {file, published} : \A i, j \in 1 .. Len(f.items) :
       i # j => f.items[i] # f.items[j]

JustPublished == snap.status = "completed" /\ ~published.cut /\ ~ghost.repeated
Saved(k, e) == \E i \in 1 .. Len(published.items) :
                  published.items[i][1] = k /\ published.items[i][2] = e

\* A published snapshot holds the value every key had at its start, as long as
\* no command changed the key: except for the keys of the first block and for
\* a key in the bucket behind another key, which the loop of process_block
\* does not visit, and for keys created in the very millisecond of the start.
UntouchedKeysSaved ==
    JustPublished =>
       \A k \in Keys :
          LET e == ghost.at_start[k]
          IN \/ e = NoEntry
             \/ k \in ghost.lost
             \/ e \in Volatile
             \/ entry[e].created >= snap.start
             \/ place[k] < BlockSize
             \/ \E l \in Keys : place[l] = place[k] - 1
             \/ table[k] # e
             \/ Saved(k, e)

\* The value that a SET replaced before its block was taken is in the published
\* file, unless the queue met its limit or the SET was overtaken by the end of
\* the snapshot: then it is still in the queue and goes to the next file.
ReplacedKeysSaved ==
    JustPublished /\ ~ghost.limit_hit =>
       \A q \in ghost.queued :
          \/ \E i \in 1 .. Len(queue) : queue[i].entry = q[2]
          \/ \E i \in 1 .. Len(published.items) : published.items[i][2] = q[2]

\* Unless an element was left in the queue by the snapshot before it, a file
\* holds only entry indexes created before the snapshot started.
NothingNewer ==
    snap.running /\ ~ghost.stale =>
       \A i \in 1 .. Len(file.items) : file.items[i][3] < snap.start

\* A SAVE returns, also when the snapshot it asked for fails, and a snapshot that
\* was started ends.
Ended == (saver.pc = "idle" /\ ~snap.running) \/ ghost.undefined

=============================================================================
