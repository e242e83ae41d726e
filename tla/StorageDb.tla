------------------------------ MODULE StorageDb ------------------------------
(***************************************************************************)
(* The life of an entry index (src/storage/db/storage_db.c): the record    *)
(* that the hashtable maps a key to and that owns the chunks of the value. *)
(*                                                                         *)
(* Readers may go on using an entry index after its key got another one or *)
(* was deleted.  One status word holds a count of readers and the deleted  *)
(* flag; whoever takes an entry index out of the hashtable marks it, frees *)
(* its chunks if nobody reads it and else leaves that to the garbage       *)
(* collector of the worker.  The record itself is kept for a while in the  *)
(* ring buffer of the worker, for scans that fetched the pointer from a    *)
(* slot that was emptied in the meantime.                                  *)
(*                                                                         *)
(* The hashtable is used through what module Hashtable is shown to         *)
(* implement, the transactional map KeyValueMap.  A step is one access to  *)
(* shared data: an operation of the map or an atomic operation on a status *)
(* word.  The rings and the lists are private to a worker, and no fiber    *)
(* switch happens inside a function that uses them.                        *)
(***************************************************************************)
EXTENDS Integers, FiniteSets, SequencesExt

CONSTANTS Fibers,        \* each runs one command at a time, in one transaction
          Workers,
          WorkerOf,      \* the worker each fiber runs on
          Keys,
          Values,        \* contents of the chunks of a value
          Entries,       \* addresses at which an entry index can be allocated
          RingSize,      \* STORAGE_DB_WORKER_ENTRY_INDEX_RING_BUFFER_SIZE, 512
          Operations,    \* bound: the operations that are called
          NoEntry, NoValue, NoKey, NoReply, Failed

ASSUME StorageDbAssumption ==
    /\ WorkerOf \in [Fibers -> Workers]
    /\ RingSize \in Nat \ {0}
    /\ Operations \subseteq {"get", "set", "rmw", "rename", "delete", "scan",
                             "expire", "snapshot"}
    /\ NoEntry \notin Entries
    /\ NoValue \notin Values
    /\ NoKey \notin Keys
    /\ {NoReply, Failed} \cap (Entries \cup {NoEntry}) = {}

VARIABLES
    hashtable,    \* the entry index of every key, NoEntry when it has none
    reads,        \* KeyValueMap: keys each live transaction has read
    claims,       \* KeyValueMap: keys each live transaction has locked for writing
    reply,        \* KeyValueMap: what the last operation returned
    slot_data,    \* the pointer in the slot of every key, which a delete leaves there
    allocated,    \* the addresses in use
    status,       \* readers_counter and deleted, one atomic word
    value,        \* the chunks of the value, NoValue when freed
    expiry,       \* "none", "later" or "past"
    ring,         \* deleted_entry_index_ring_buffer of every worker
    deleting,     \* deleting_entry_index_list of every worker
    queue,        \* entry indexes queued for the snapshot, with the value to save
    pc,           \* where each fiber is
    local,        \* local variables of each fiber
    pushes        \* ring insertions of each worker during a fiber's scan

map == <<hashtable, reads, claims, reply>>
memory == <<allocated, status, value, expiry>>
lists == <<ring, deleting>>
vars == <<map, slot_data, memory, lists, queue, pc, local, pushes>>

Table == INSTANCE KeyValueMap WITH
    Transactions <- Fibers, Values <- Entries, NoValue <- NoEntry, map <- hashtable

(***************************************************************************)
(* pc[t]: "idle"; "prep" - about to be counted as a reader; "evict" -      *)
(* found the entry index expired; "stream" - reading the value;            *)
(* "scan_lock", "scan_check" - between finding a slot filled and having    *)
(* its key; "rmw" - with a read-modify-write open; "queue", "mark",        *)
(* "reclaim" - getting rid of the previous entry index; "remove" - about   *)
(* to empty the slot of key; "release" - about to release the transaction. *)
(***************************************************************************)
PCs == {"idle", "prep", "evict", "stream", "scan_lock", "scan_check", "rmw", "queue",
        "mark", "reclaim", "remove", "release"}

Locals == [op       : {"none", "get", "scan", "write"},
           key      : Keys \cup {NoKey},
           entry    : Entries \cup {NoEntry},
           previous : Entries \cup {NoEntry},
           seen     : Values \cup {NoValue},
           on_abort : BOOLEAN,                \* delete_entry_index_on_abort
           reading  : BOOLEAN,                \* counted as a reader of entry
           next     : {"remove", "release"}]  \* after previous is dealt with

NoLocal == [op |-> "none", key |-> NoKey, entry |-> NoEntry,
            previous |-> NoEntry, seen |-> NoValue, on_abort |-> FALSE,
            reading |-> FALSE, next |-> "release"]

\* The expiry times a command can set.
Expiries == IF "expire" \in Operations THEN {"none", "later"} ELSE {"none"}

NewStatus == [readers_counter |-> 0, deleted |-> FALSE]

Init ==
    /\ Table!Init
    /\ slot_data = [k \in Keys |-> NoEntry]
    /\ allocated = {}
    /\ status = [e \in Entries |-> NewStatus]
    /\ value = [e \in Entries |-> NoValue]
    /\ expiry = [e \in Entries |-> "none"]
    /\ ring = [w \in Workers |-> <<>>]
    /\ deleting = [w \in Workers |-> <<>>]
    /\ queue = {}
    /\ pc = [t \in Fibers |-> "idle"]
    /\ local = [t \in Fibers |-> NoLocal]
    /\ pushes = [t \in Fibers |-> [w \in Workers |-> 0]]

-----------------------------------------------------------------------------
(***************************************************************************)
(* A fiber leaves its worker to the others only where it waits for input   *)
(* or output, so not before it is done with what it replaced or deletes.   *)
(***************************************************************************)
Yields(t) == pc[t] \notin {"queue", "mark", "reclaim", "remove"}

MayRun(t) == \A u \in Fibers \ {t} : WorkerOf[u] = WorkerOf[t] => Yields(u)

\* A fiber goes on with pc p and local variables l.
Go(t, p, l) ==
    /\ MayRun(t)
    /\ pc' = [pc EXCEPT ![t] = p]
    /\ local' = [local EXCEPT ![t] = l]

\* The start of a command, which begins its transaction.
Starts(t, op) == pc[t] = "idle" /\ op \in Operations

\* storage_db_entry_index_status_increase_readers_counter on a live entry index.
IncreaseReaders(e) == status' = [status EXCEPT ![e].readers_counter = @ + 1]

\* Mutant of DecreaseReaders: counted down twice.
DecreaseReadersTwice(e) == status' = [status EXCEPT ![e].readers_counter = @ - 2]

\* storage_db_entry_index_status_decrease_readers_counter
DecreaseReaders(e) == status' = [status EXCEPT ![e].readers_counter = @ - 1]

\* Mutant of EntryIndexNew: a record is taken from the ring whenever there is one.
EntryIndexNewEager(w, e, v) ==
    /\ IF Len(ring[w]) > 0
       THEN /\ e = Head(ring[w])
            /\ ring' = [ring EXCEPT ![w] = Tail(@)]
            /\ UNCHANGED allocated
       ELSE /\ e \in Entries \ allocated
            /\ allocated' = allocated \cup {e}
            /\ UNCHANGED ring
    /\ status' = [status EXCEPT ![e] = NewStatus]
    /\ value' = [value EXCEPT ![e] = v]
    /\ expiry' = [expiry EXCEPT ![e] = "none"]
    /\ UNCHANGED deleting

(***************************************************************************)
(* storage_db_entry_index_ring_buffer_new: a record is taken from the ring *)
(* only when the ring is full, and otherwise allocated.  The operations on *)
(* it that follow, up to the moment it is stored, are invisible to others. *)
(***************************************************************************)
EntryIndexNew(w, e, v) ==
    /\ IF Len(ring[w]) = RingSize
       THEN /\ e = Head(ring[w])
            /\ ring' = [ring EXCEPT ![w] = Tail(@)]
            /\ UNCHANGED allocated
       ELSE /\ e \in Entries \ allocated
            /\ allocated' = allocated \cup {e}
            /\ UNCHANGED ring
    /\ status' = [status EXCEPT ![e] = NewStatus]
    /\ value' = [value EXCEPT ![e] = v]
    /\ \E x \in Expiries : expiry' = [expiry EXCEPT ![e] = x]
    /\ UNCHANGED deleting

(***************************************************************************)
(* An entry index that could not be stored is freed, also when it came     *)
(* from the ring.                                                          *)
(***************************************************************************)
EntryIndexNewAndFree(w) ==
    /\ IF Len(ring[w]) = RingSize
       THEN /\ allocated' = allocated \ {Head(ring[w])}
            /\ ring' = [ring EXCEPT ![w] = Tail(@)]
       ELSE UNCHANGED <<allocated, ring>>
    /\ UNCHANGED <<status, value, expiry, deleting>>

(***************************************************************************)
(* Assumption on time, from the comment in ring_buffer_new: the ring is so *)
(* large that it does not turn over while a scan is between finding a slot *)
(* filled and using the pointer in it.  The count starts at one, as a      *)
(* read-modify-write recycles the entry index just before it empties the   *)
(* slot.                                                                   *)
(***************************************************************************)
Scanning(t) == pc[t] \in {"scan_lock", "scan_check"}
RingOutlastsScans(w) == \A t \in Fibers : Scanning(t) => pushes[t][w] < RingSize - 1

\* Mutant of RingBufferFree: the record is freed at once.
RingBufferFreeAtOnce(w, e) ==
    /\ allocated' = allocated \ {e}
    /\ UNCHANGED <<ring, pushes>>

\* storage_db_entry_index_ring_buffer_free
RingBufferFree(w, e) ==
    /\ RingOutlastsScans(w)
    /\ IF Len(ring[w]) = RingSize
       THEN /\ allocated' = allocated \ {Head(ring[w])}
            /\ ring' = [ring EXCEPT ![w] = Append(Tail(@), e)]
       ELSE /\ ring' = [ring EXCEPT ![w] = Append(@, e)]
            /\ UNCHANGED allocated
    /\ pushes' = [t \in Fibers |-> IF Scanning(t) THEN [pushes[t] EXCEPT ![w] = @ + 1]
                                                 ELSE pushes[t]]

\* storage_db_entry_index_chunks_free
ChunksFree(e) == value' = [value EXCEPT ![e] = NoValue]

-----------------------------------------------------------------------------
(***************************************************************************)
(* Reading a key, as GET does: the transaction, and with it the lock on    *)
(* the key, is kept until the value is sent.                               *)
(***************************************************************************)
\* Mutant of Get: the lock of another transaction is not waited for.
GetUnlocked(t, k) ==
    /\ Starts(t, "get")
    /\ hashtable[k] # NoEntry
    /\ reads' = [reads EXCEPT ![t] = @ \cup {k}]
    /\ Go(t, "prep", [NoLocal EXCEPT !.op = "get", !.key = k, !.entry = hashtable[k]])
    /\ UNCHANGED <<hashtable, claims, reply, slot_data, memory, lists, queue, pushes>>

\* storage_db_get_entry_index
Get(t, k) ==
    /\ Starts(t, "get")
    /\ Table!Read(t, k)
    /\ IF hashtable[k] = NoEntry
       THEN Go(t, "release", NoLocal)
       ELSE Go(t, "prep", [NoLocal EXCEPT !.op = "get", !.key = k, !.entry = hashtable[k]])
    /\ UNCHANGED <<slot_data, memory, lists, queue, pushes>>

\* Mutant of Prep: the reader is not counted.
PrepUncounted(t) ==
    LET e == local[t].entry
    IN  /\ pc[t] = "prep"
        /\ Go(t, "stream", [local[t] EXCEPT !.reading = TRUE, !.seen = value[e]])
        /\ UNCHANGED <<map, slot_data, memory, lists, queue, pushes>>

(***************************************************************************)
(* storage_db_get_entry_index_for_read_prep, and its variant for scans:    *)
(* increases the readers counter and takes it back if the entry index is   *)
(* deleted or expired.                                                     *)
(***************************************************************************)
Prep(t) ==
    LET e == local[t].entry
    IN  /\ pc[t] = "prep"
        /\ \/ /\ ~status[e].deleted /\ expiry[e] # "past"
              /\ IncreaseReaders(e)
              /\ Go(t, "stream", [local[t] EXCEPT !.reading = TRUE, !.seen = value[e]])
           \/ /\ status[e].deleted \/ expiry[e] = "past"
              /\ Go(t, IF local[t].op = "get" /\ ~status[e].deleted THEN "evict" ELSE "release",
                    local[t])
              /\ UNCHANGED status
        /\ UNCHANGED <<map, slot_data, allocated, value, expiry, lists, queue, pushes>>

(***************************************************************************)
(* An expired entry index should be removed by a read-modify-write in the  *)
(* transaction that read the key.  That needs the chunk free of readers,   *)
(* and this transaction is one: storage_db_op_rmw_begin gives up.  Run     *)
(* hashtable_expired_get shows this on the locks of module Hashtable.      *)
(***************************************************************************)
Evict(t) ==
    /\ pc[t] = "evict"
    /\ local[t].key \in reads[t]
    /\ Table!Fail(t)
    /\ Go(t, "release", NoLocal)
    /\ UNCHANGED <<slot_data, memory, lists, queue, pushes>>

\* The value is sent and storage_db_entry_index_status_decrease_readers_counter called.
StreamEnd(t) ==
    /\ pc[t] = "stream"
    /\ DecreaseReaders(local[t].entry)
    /\ Go(t, IF local[t].op = "write" THEN "idle" ELSE "release", NoLocal)
    /\ UNCHANGED <<map, slot_data, allocated, value, expiry, lists, queue, pushes>>

\* transaction_release; a command that read in its read-modify-write streams afterwards.
Release(t) ==
    /\ pc[t] = "release"
    /\ Table!End(t)
    /\ IF local[t].reading THEN Go(t, "stream", local[t]) ELSE Go(t, "idle", NoLocal)
    /\ UNCHANGED <<slot_data, memory, lists, queue, pushes>>

(***************************************************************************)
(* Scanning slots, as the snapshot, the flush and the eviction do: the     *)
(* slot is found filled before its chunk is locked and not looked at again *)
(* afterwards, so the pointer found in it may be of a deleted entry index. *)
(***************************************************************************)
\* hashtable_mcmp_op_iter, and hashtable_mcmp_op_get_by_index up to the lock.
ScanPeek(t, k) ==
    /\ Starts(t, "scan")
    /\ hashtable[k] # NoEntry
    /\ Go(t, "scan_lock", [NoLocal EXCEPT !.op = "scan", !.key = k])
    /\ pushes' = [pushes EXCEPT ![t] = [w \in Workers |-> 1]]
    /\ UNCHANGED <<map, slot_data, memory, lists, queue>>

\* hashtable_mcmp_op_get_by_index from the lock on.
ScanLock(t) ==
    LET k == local[t].key
    IN  /\ pc[t] = "scan_lock"
        /\ \A u \in Fibers \ {t} : k \notin claims[u]
        /\ Table!Read(t, k)
        /\ Go(t, "scan_check", [local[t] EXCEPT !.entry = slot_data[k]])
        /\ UNCHANGED <<slot_data, memory, lists, queue, pushes>>

ScanLockFails(t) ==
    /\ pc[t] = "scan_lock"
    /\ Table!Fail(t)
    /\ Go(t, "release", NoLocal)
    /\ UNCHANGED <<slot_data, memory, lists, queue, pushes>>

(***************************************************************************)
(* storage_db_snapshot_rdb_process_block and storage_db_op_flush_sync read *)
(* created_time_ms through the pointer and may skip it; the snapshot gets  *)
(* the key, which fails on an empty slot, and the flush deletes the slot,  *)
(* which fails on an empty slot and if others read the chunk.              *)
(***************************************************************************)
ScanSkip(t) ==
    /\ pc[t] = "scan_check"
    /\ Go(t, "release", NoLocal)
    /\ UNCHANGED <<map, slot_data, memory, lists, queue, pushes>>

ScanKey(t) ==
    /\ pc[t] = "scan_check"
    /\ hashtable[local[t].key] # NoEntry
    /\ Go(t, "prep", local[t])
    /\ UNCHANGED <<map, slot_data, memory, lists, queue, pushes>>

\* Mutant of ScanDelete: the slot is taken for filled.
ScanDeleteUnchecked(t) ==
    LET k == local[t].key
    IN  /\ pc[t] = "scan_check"
        /\ Table!Write(t, k, NoEntry)
        /\ Go(t, "mark", [NoLocal EXCEPT !.op = "write", !.previous = local[t].entry])
        /\ UNCHANGED <<slot_data, memory, lists, queue, pushes>>

ScanDelete(t) ==
    LET k == local[t].key
    IN  /\ pc[t] = "scan_check"
        /\ hashtable[k] # NoEntry
        /\ Table!Write(t, k, NoEntry)
        /\ Go(t, "mark", [NoLocal EXCEPT !.op = "write", !.previous = hashtable[k]])
        /\ UNCHANGED <<slot_data, memory, lists, queue, pushes>>

-----------------------------------------------------------------------------
\* Where a fiber that replaced or deleted the entry index e goes, if there was one.
GoDispose(t, e, l, then) ==
    Go(t, IF e = NoEntry THEN then ELSE "mark", [l EXCEPT !.previous = e, !.next = then])

(***************************************************************************)
(* storage_db_op_set and storage_db_set_entry_index.  While a snapshot is  *)
(* in progress that has not got to the key yet, the previous entry index   *)
(* is queued for it first.                                                 *)
(***************************************************************************)
Set(t, k, e, v) ==
    /\ Starts(t, "set")
    /\ Table!Write(t, k, e)
    /\ slot_data' = [slot_data EXCEPT ![k] = e]
    /\ EntryIndexNew(WorkerOf[t], e, v)
    /\ LET l == [NoLocal EXCEPT !.op = "write"]
       IN  \/ GoDispose(t, hashtable[k], l, "release")
          \/ /\ "snapshot" \in Operations /\ hashtable[k] # NoEntry
             /\ Go(t, "queue", [l EXCEPT !.previous = hashtable[k]])
    /\ UNCHANGED <<queue, pushes>>

\* hashtable_mcmp_op_set fails: no lock or no room.
SetFails(t) ==
    /\ Starts(t, "set")
    /\ Table!Fail(t)
    /\ EntryIndexNewAndFree(WorkerOf[t])
    /\ Go(t, "release", NoLocal)
    /\ UNCHANGED <<slot_data, queue, pushes>>

\* Mutant of QueueForSnapshot: the snapshot is not counted as a reader.
QueueForSnapshotUncounted(t) ==
    LET e == local[t].previous
    IN  /\ pc[t] = "queue"
        /\ queue' = queue \cup {<<e, value[e]>>}
        /\ Go(t, "mark", local[t])
        /\ UNCHANGED <<map, slot_data, memory, lists, pushes>>

\* storage_db_snapshot_queue_entry_index_to_be_deleted, for an entry index not expired.
QueueForSnapshot(t) ==
    LET e == local[t].previous
    IN  /\ pc[t] = "queue"
        /\ IF status[e].deleted \/ expiry[e] = "past"
           THEN UNCHANGED <<status, queue>>
           ELSE /\ IncreaseReaders(e)
                /\ queue' = queue \cup {<<e, value[e]>>}
        /\ Go(t, "mark", local[t])
        /\ UNCHANGED <<map, slot_data, allocated, value, expiry, lists, pushes>>

\* The snapshot saves or drops a queued entry index and stops reading it.
SnapshotDone(e, v) ==
    /\ <<e, v>> \in queue
    /\ queue' = queue \ {<<e, v>>}
    /\ DecreaseReaders(e)
    /\ UNCHANGED <<map, slot_data, allocated, value, expiry, lists, pc, local, pushes>>

\* Mutant of Mark: the flag is set on the entry index that stays.
MarkCurrent(t) ==
    /\ pc[t] = "mark"
    /\ status' = [status EXCEPT ![IF local[t].entry = NoEntry THEN local[t].previous
                                  ELSE local[t].entry].deleted = TRUE]
    /\ status[local[t].previous].readers_counter = 0
    /\ Go(t, "reclaim", local[t])
    /\ UNCHANGED <<map, slot_data, allocated, value, expiry, lists, queue, pushes>>

(***************************************************************************)
(* storage_db_worker_mark_deleted_or_deleting_previous_entry_index: the    *)
(* flag is set and the readers counter read in one atomic operation.       *)
(***************************************************************************)
Mark(t) ==
    LET e == local[t].previous
        w == WorkerOf[t]
    IN  /\ pc[t] = "mark"
        /\ status' = [status EXCEPT ![e].deleted = TRUE]
        /\ \/ /\ status[e].readers_counter = 0
              /\ Go(t, "reclaim", local[t])
              /\ UNCHANGED deleting
           \/ /\ status[e].readers_counter > 0
              /\ deleting' = [deleting EXCEPT ![w] = Append(@, e)]
              /\ Go(t, local[t].next, [local[t] EXCEPT !.previous = NoEntry])
        /\ UNCHANGED <<map, slot_data, allocated, value, expiry, ring, queue, pushes>>

\* The rest of it, when nobody read the entry index.
Reclaim(t) ==
    LET e == local[t].previous
    IN  /\ pc[t] = "reclaim"
        /\ ChunksFree(e)
        /\ RingBufferFree(WorkerOf[t], e)
        /\ Go(t, local[t].next, [local[t] EXCEPT !.previous = NoEntry])
        /\ UNCHANGED <<map, slot_data, status, expiry, deleting, queue>>

\* Mutant of GarbageCollect: the readers counter is not looked at.
GarbageCollectAnyway(w, i) ==
    LET e == deleting[w][i]
    IN  /\ deleting' = [deleting EXCEPT ![w] = RemoveAt(@, i)]
        /\ ChunksFree(e)
        /\ RingBufferFree(w, e)
        /\ UNCHANGED <<map, slot_data, status, expiry, queue, pc, local>>

\* Mutant of GarbageCollect: an item is never found without readers.
GarbageCollectNever(w, i) == FALSE /\ UNCHANGED vars

\* storage_db_worker_garbage_collect_deleting_entry_index_when_no_readers, for one item.
GarbageCollect(w, i) ==
    LET e == deleting[w][i]
    IN  /\ status[e].readers_counter = 0
        /\ deleting' = [deleting EXCEPT ![w] = RemoveAt(@, i)]
        /\ ChunksFree(e)
        /\ RingBufferFree(w, e)
        /\ UNCHANGED <<map, slot_data, status, expiry, queue, pc, local>>

-----------------------------------------------------------------------------
\* storage_db_op_delete
Delete(t, k) ==
    /\ Starts(t, "delete")
    /\ \/ /\ hashtable[k] = NoEntry
          /\ Table!Read(t, k)
       \/ /\ hashtable[k] # NoEntry
          /\ Table!Write(t, k, NoEntry)
    /\ GoDispose(t, hashtable[k], [NoLocal EXCEPT !.op = "write"], "release")
    /\ UNCHANGED <<slot_data, memory, lists, queue, pushes>>

(***************************************************************************)
(* storage_db_op_rmw_begin: the current entry index is hidden from the     *)
(* command if it is expired, and then deleted when the command aborts.     *)
(***************************************************************************)
RmwBegin(t, k) ==
    LET e == hashtable[k]
    IN  /\ Starts(t, "rmw")
        /\ Table!Claim(t, k)
        /\ Go(t, "rmw", [NoLocal EXCEPT !.op = "write", !.key = k, !.entry = e,
                                        !.on_abort = e # NoEntry /\ expiry[e] = "past"])
        /\ UNCHANGED <<slot_data, memory, lists, queue, pushes>>

\* A lock cannot be had in time: get, delete and read-modify-write give up.
OperationFails(t) ==
    /\ pc[t] = "idle"
    /\ Operations \cap {"get", "delete", "rmw"} # {}
    /\ Table!Fail(t)
    /\ Go(t, "release", NoLocal)
    /\ UNCHANGED <<slot_data, memory, lists, queue, pushes>>

\* The command has a current entry index that it may use.
HasCurrent(t) == pc[t] = "rmw" /\ local[t].entry # NoEntry /\ ~local[t].on_abort

\* storage_db_op_rmw_current_entry_index_prep_for_read
RmwPrep(t) ==
    LET e == local[t].entry
    IN  /\ HasCurrent(t)
        /\ ~local[t].reading
        /\ IncreaseReaders(e)
        /\ Go(t, "rmw", [local[t] EXCEPT !.reading = TRUE, !.seen = value[e]])
        /\ UNCHANGED <<map, slot_data, allocated, value, expiry, lists, queue, pushes>>

\* storage_db_op_rmw_commit_update
RmwCommitUpdate(t, e, v) ==
    LET k == local[t].key
    IN  /\ pc[t] = "rmw"
        /\ Table!Write(t, k, e)
        /\ slot_data' = [slot_data EXCEPT ![k] = e]
        /\ EntryIndexNew(WorkerOf[t], e, v)
        /\ GoDispose(t, local[t].entry, local[t], "release")
        /\ UNCHANGED <<queue, pushes>>

\* storage_db_op_rmw_commit_metadata, after EXPIRE or PERSIST set the expiry time.
RmwCommitMetadata(t) ==
    LET e == local[t].entry
    IN  /\ HasCurrent(t)
        /\ Table!Write(t, local[t].key, e)
        /\ \E x \in Expiries : expiry' = [expiry EXCEPT ![e] = x]
        /\ Go(t, "release", local[t])
        /\ UNCHANGED <<slot_data, allocated, status, value, lists, queue, pushes>>

\* Mutant of RmwDelete: an entry index that is read is not marked, only removed.
RmwDeleteUnmarked(t) ==
    /\ Go(t, IF local[t].reading THEN "remove" ELSE "mark",
          [local[t] EXCEPT !.previous = local[t].entry, !.next = "remove"])
    /\ UNCHANGED <<map, slot_data, memory, lists, queue, pushes>>

\* storage_db_op_rmw_commit_delete: disposed of first, then removed from the hashtable.
RmwDelete(t) ==
    /\ GoDispose(t, local[t].entry, local[t], "remove")
    /\ UNCHANGED <<map, slot_data, memory, lists, queue, pushes>>

RmwCommitDelete(t) == HasCurrent(t) /\ RmwDelete(t)

\* storage_db_op_rmw_abort
RmwAbort(t) ==
    /\ pc[t] = "rmw"
    /\ \/ local[t].on_abort /\ RmwDelete(t)
       \/ /\ ~local[t].on_abort
          /\ Go(t, "release", local[t])
          /\ UNCHANGED <<map, slot_data, memory, lists, queue, pushes>>

\* Mutant of Rename: the entry index of the new key is forgotten.
RenameForgets(t, newkey) ==
    /\ "rename" \in Operations
    /\ HasCurrent(t)
    /\ ~local[t].reading
    /\ newkey # local[t].key
    /\ Table!Write(t, newkey, local[t].entry)
    /\ slot_data' = [slot_data EXCEPT ![newkey] = local[t].entry]
    /\ Go(t, "remove", [local[t] EXCEPT !.next = "remove"])
    /\ UNCHANGED <<memory, lists, queue, pushes>>

(***************************************************************************)
(* RENAME: a second read-modify-write, on the new key, and                 *)
(* storage_db_op_rmw_commit_rename.  If the second cannot begin the first  *)
(* is aborted.                                                             *)
(***************************************************************************)
Rename(t, newkey) ==
    /\ "rename" \in Operations
    /\ HasCurrent(t)
    /\ ~local[t].reading
    /\ newkey # local[t].key
    /\ Table!Write(t, newkey, local[t].entry)
    /\ slot_data' = [slot_data EXCEPT ![newkey] = local[t].entry]
    /\ GoDispose(t, hashtable[newkey], local[t], "remove")
    /\ UNCHANGED <<memory, lists, queue, pushes>>

\* hashtable_mcmp_op_rmw_commit_delete, at the end of a delete or a rename.
RemoveKey(t) ==
    /\ pc[t] = "remove"
    /\ Table!Write(t, local[t].key, NoEntry)
    /\ Go(t, "release", local[t])
    /\ UNCHANGED <<slot_data, memory, lists, queue, pushes>>

\* The clock passes the expiry time of an entry index.
Expire(e) ==
    /\ e \in allocated
    /\ expiry[e] = "later"
    /\ expiry' = [expiry EXCEPT ![e] = "past"]
    /\ UNCHANGED <<map, slot_data, allocated, status, value, lists, queue, pc, local, pushes>>

-----------------------------------------------------------------------------
\* What a fiber does once a command has started; it does not wait for input.
FiberStep(t) ==
    \/ Prep(t) \/ Evict(t) \/ StreamEnd(t) \/ Release(t)
    \/ ScanLock(t) \/ ScanLockFails(t) \/ ScanSkip(t) \/ ScanKey(t) \/ ScanDelete(t)
    \/ QueueForSnapshot(t) \/ Mark(t) \/ Reclaim(t) \/ RemoveKey(t)
    \/ RmwPrep(t) \/ RmwCommitMetadata(t) \/ RmwCommitDelete(t) \/ RmwAbort(t)
    \/ \E e \in Entries, v \in Values : RmwCommitUpdate(t, e, v)
    \/ \E k \in Keys : Rename(t, k)

FiberStart(t) ==
    \/ SetFails(t) \/ OperationFails(t)
    \/ \E k \in Keys :
          \/ Get(t, k) \/ ScanPeek(t, k) \/ Delete(t, k) \/ RmwBegin(t, k)
          \/ \E e \in Entries, v \in Values : Set(t, k, e, v)

CollectGarbage(w, e) ==
    /\ \A t \in Fibers : WorkerOf[t] = w => Yields(t)
    /\ \E i \in DOMAIN deleting[w] : deleting[w][i] = e /\ GarbageCollect(w, i)

Next ==
    \/ \E t \in Fibers : FiberStart(t) \/ FiberStep(t)
    \/ \E e \in Entries :
          \/ Expire(e)
          \/ \E w \in Workers : CollectGarbage(w, e)
          \/ \E v \in Values : SnapshotDone(e, v)

Spec == Init /\ [][Next]_vars

(***************************************************************************)
(* A command runs to its end, as every wait in it is bounded and its       *)
(* worker gets back to it; a fiber of every worker runs the garbage        *)
(* collector over the whole list again and again, whatever the others do   *)
(* in between; and a snapshot empties its queue.  For an entry index to be *)
(* freed it is enough that they come by this one.                          *)
(***************************************************************************)
FairTo(e) ==
    /\ \A t \in Fibers : SF_vars(FiberStep(t))
    /\ \A w \in Workers : SF_vars(CollectGarbage(w, e))
    /\ WF_vars(\E v \in Values : SnapshotDone(e, v))

-----------------------------------------------------------------------------
\* Every variable has its type; a counter is never decreased below zero.
TypeOK ==
    /\ hashtable \in [Keys -> Entries \cup {NoEntry}]
    /\ reads \in [Fibers -> SUBSET Keys]
    /\ claims \in [Fibers -> SUBSET Keys]
    /\ reply \in [Fibers -> Entries \cup {NoEntry, NoReply, Failed}]
    /\ slot_data \in [Keys -> Entries \cup {NoEntry}]
    /\ allocated \subseteq Entries
    /\ status \in [Entries -> [readers_counter : Nat, deleted : BOOLEAN]]
    /\ value \in [Entries -> Values \cup {NoValue}]
    /\ expiry \in [Entries -> {"none", "later", "past"}]
    /\ ring \in [Workers -> Seq(Entries)]
    /\ \A w \in Workers : Len(ring[w]) <= RingSize
    /\ deleting \in [Workers -> Seq(Entries)]
    /\ queue \subseteq Entries \X Values
    /\ pc \in [Fibers -> PCs]
    /\ local \in [Fibers -> Locals]
    /\ pushes \in [Fibers -> [Workers -> 0 .. RingSize]]

\* The keys whose slot is about to be emptied.
BeingRemoved ==
    {local[t].key : t \in {u \in Fibers : /\ pc[u] \in {"mark", "reclaim", "remove"}
                                          /\ local[u].next = "remove"}}

\* The places of e in the rings or in the lists of the workers.
PlacesIn(seqs, e) == UNION {{<<w, i>> : i \in {j \in DOMAIN seqs[w] : seqs[w][j] = e}} : w \in Workers}

\* Who is responsible for e: a key, a ring, a list, or a fiber that disposes of it.
Owners(e) ==
    {<<"key", k>> : k \in {k \in Keys \ BeingRemoved : hashtable[k] = e}}
    \cup {<<"ring", p>> : p \in PlacesIn(ring, e)}
    \cup {<<"deleting", p>> : p \in PlacesIn(deleting, e)}
    \cup {<<"fiber", t>> : t \in {t \in Fibers : /\ pc[t] \in {"queue", "mark", "reclaim"}
                                                 /\ local[t].previous = e}}

(***************************************************************************)
(* Every allocated entry index has exactly one owner, so none is leaked,   *)
(* freed twice or stored under two keys by any interleaving of sets,       *)
(* deletes, renames, aborts and garbage collection                         *)
(* (storage_db_worker_mark_deleted_or_deleting_previous_entry_index).      *)
(***************************************************************************)
OneOwner ==
    \A e \in Entries : Cardinality(Owners(e)) = IF e \in allocated THEN 1 ELSE 0

(***************************************************************************)
(* The entry index of a key that is not being removed is not marked        *)
(* deleted, still has its chunks and is the one in the slot.               *)
(***************************************************************************)
KeysHaveLiveEntries ==
    \A k \in Keys \ BeingRemoved :
        hashtable[k] # NoEntry =>
            /\ ~status[hashtable[k]].deleted
            /\ value[hashtable[k]] # NoValue
            /\ slot_data[k] = hashtable[k]

(***************************************************************************)
(* The chunks of an entry index are not freed or reused while a command    *)
(* sends them or the snapshot still has to save them, also when the key    *)
(* was overwritten, deleted or renamed meanwhile and its locks released.   *)
(***************************************************************************)
ReaderSafe ==
    /\ \A t \in Fibers : local[t].reading => value[local[t].entry] = local[t].seen
    /\ \A q \in queue : value[q[1]] = q[2]

(***************************************************************************)
(* Every pointer a fiber is about to follow is to allocated memory, the    *)
(* one that a scan took from an emptied slot included: that is what the    *)
(* ring buffer is for (storage_db_entry_index_ring_buffer_new).            *)
(***************************************************************************)
NoUseAfterFree ==
    \A t \in Fibers :
        /\ pc[t] \in {"prep", "scan_check", "stream"} => local[t].entry \in allocated
        /\ pc[t] = "rmw" => local[t].entry \in allocated \cup {NoEntry}
        /\ pc[t] \in {"queue", "mark", "reclaim"} => local[t].previous \in allocated

(***************************************************************************)
(* The entry index that a scan took from an emptied slot is still the dead *)
(* one, not one that was handed out again for another key: the ring gives  *)
(* its records back only when it is full                                   *)
(* (storage_db_entry_index_ring_buffer_new).                               *)
(***************************************************************************)
StaleEntryNotReused ==
    \A t \in Fibers :
        pc[t] = "scan_check" /\ hashtable[local[t].key] = NoEntry =>
            status[local[t].entry].deleted

\* What a scan reads from a slot without its lock is safe to follow: the entry index is
\* allocated, and the deleted flag tells it apart from a new one.
ScansAreSafe == NoUseAfterFree /\ StaleEntryNotReused

(***************************************************************************)
(* The readers counter counts the fibers that read and the queue of the    *)
(* snapshot: no reader is forgotten and none counted for ever.             *)
(***************************************************************************)
ReadersExact ==
    \A e \in Entries :
        status[e].readers_counter =
            Cardinality({t \in Fibers : local[t].reading /\ local[t].entry = e})
            + Cardinality({q \in queue : q[1] = e})

(***************************************************************************)
(* The life of an entry index: while it is allocated one owner has it, its *)
(* counter counts its readers, and what they read stays as it is.          *)
(***************************************************************************)
EntriesSound == OneOwner /\ ReadersExact /\ ReaderSafe

(***************************************************************************)
(* A read that holds the lock of its key never meets the deleted flag:     *)
(* whoever sets it has the key locked until the entry index is gone.       *)
(***************************************************************************)
PrepFindsLiveEntry ==
    \A t \in Fibers : pc[t] = "prep" => ~status[local[t].entry].deleted

\* A key never leads to an entry index that was disposed of, neither in the table nor
\* for a fiber that looked it up (storage_db_get_entry_index_prep_for_read).
KeysLeadToLiveEntries == KeysHaveLiveEntries /\ PrepFindsLiveEntry

(***************************************************************************)
(* An entry index in a deleting list leaves it: no reader stays counted.   *)
(***************************************************************************)
Deleting(e) == \E w \in Workers : e \in Range(deleting[w])
=============================================================================
