------------------------------ MODULE Hashtable ------------------------------
(***************************************************************************)
(* The concurrent hashtable of cachegrand                                  *)
(* (src/data_structures/hashtable/mcmp).                                   *)
(*                                                                         *)
(* The table is an array of chunks.  A chunk has a transactional lock, the *)
(* slot ids of its slots (distance from the home chunk and a quarter of    *)
(* the hash) and a little metadata; the keys and the values are in an      *)
(* array beside it.  A key lives in its home chunk or in one of the        *)
(* following ones, and the home chunk records how far to look.             *)
(*                                                                         *)
(* An operation runs inside a transaction, which holds what it locked      *)
(* until it is released.  A step is what happens between two accesses that *)
(* another transaction can tell apart: taking the lock of a chunk, with    *)
(* what is then read and written under it, and every read made without a   *)
(* lock.  The locks are used through what module Transaction is shown to   *)
(* implement.  A lock that cannot be taken makes the call return false     *)
(* after a bounded number of spins.                                        *)
(***************************************************************************)
EXTENDS Integers, Sequences, FiniteSetsExt

CONSTANTS Transactions,
          Keys,            \* a key of one database
          Values,          \* pointers to entry indexes
          HomeChunks,      \* chunks that hold the buckets_count buckets
          SearchMax,       \* HASHTABLE_HALF_HASHES_CHUNK_SEARCH_MAX, 32
          SlotsCount,      \* HASHTABLE_MCMP_HALF_HASHES_CHUNK_SLOTS_COUNT, 14
          HomeOf,          \* the chunk of bucket hash & (buckets_count - 1)
          QuarterOf,       \* the quarter of the hash kept in the slot
          DatabaseOf,      \* the database of each key
          MaxOps,          \* bound: operations of one transaction
          Operations,      \* bound: the operations that are called
          RepeatedKeys,    \* may a transaction open two read-modify-writes on a key
          NoTransaction, NoKey, NoValue, NoReply, Failed

ASSUME HashtableAssumption ==
    /\ HomeChunks \in Nat \ {0}
    /\ SearchMax \in 1 .. 256
    /\ SlotsCount \in 1 .. 127
    /\ HomeOf \in [Keys -> 0 .. HomeChunks - 1]
    /\ QuarterOf \in [Keys -> Nat]
    /\ DatabaseOf \in [Keys -> Nat]
    /\ MaxOps \in Nat \ {0}
    /\ Operations \subseteq {"get", "delete", "set", "rmw", "get_by_index",
                            "delete_by_index", "get_key"}
    /\ RepeatedKeys \in BOOLEAN
    /\ NoTransaction \notin Transactions
    /\ NoKey \notin Keys
    /\ NoValue \notin Values
    /\ {NoReply, Failed} \cap (Values \cup {NoValue}) = {}

(***************************************************************************)
(* hashtable_mcmp_data_init adds SearchMax chunks after the home chunks,   *)
(* so a search that starts in the last home chunk stays in the table.      *)
(***************************************************************************)
ChunksCount == HomeChunks + SearchMax
Chunks == 0 .. ChunksCount - 1
Slots == 0 .. SlotsCount - 1

Distances == 0 .. SearchMax - 1
SlotIds == [filled : BOOLEAN, distance : Distances, quarter_hash : Nat]
NoSlotId == [filled |-> FALSE, distance |-> 0, quarter_hash |-> 0]
SlotId(k, c) ==
    [filled |-> TRUE, distance |-> c - HomeOf[k], quarter_hash |-> QuarterOf[k]]

KeyValues == [flags : {"EMPTY", "FILLED", "DELETED"},
              database_number : Nat,
              key : Keys \cup {NoKey},
              data : Values \cup {NoValue}]
NoKeyValue == [flags |-> "EMPTY", database_number |-> 0, key |-> NoKey, data |-> NoValue]

\* slots_occupied is a bit field of 7 bits.
Metadata == [overflowed_chunks_counter : 0 .. 255,
             slots_occupied : 0 .. 127,
             is_full : BOOLEAN]
NoMetadata == [overflowed_chunks_counter |-> 0, slots_occupied |-> 0, is_full |-> FALSE]

VARIABLES
    half_hashes,   \* slot ids, per chunk and slot
    metadata,      \* metadata of every chunk
    keys_values,   \* keys and values, per chunk and slot
    readers,       \* how many times each transaction read-locked each chunk
    writer,        \* the transaction that owns each chunk
    pc,            \* where each transaction is
    ops,           \* operations each transaction has begun, for the bound
    call,          \* local variables of the operation in progress
    rmw,           \* open read-modify-write statuses of each transaction
    indexed,       \* slots each transaction obtained with get_by_index
    reply,         \* what the last operation of each transaction returned
    reads,         \* history: keys each live transaction has read
    claims         \* history: keys each live transaction has written or locked

table == <<half_hashes, metadata, keys_values>>
locks == <<readers, writer>>
history == <<reads, claims>>
vars == <<table, locks, pc, ops, call, rmw, indexed, reply, history>>

(***************************************************************************)
(* pc[t]: "idle" - no transaction; "ready" - in a transaction, between two *)
(* operations; "search_home", "search_peek", "search_lock" - in            *)
(* search_key; "write_search", "write_create" - in                         *)
(* search_key_or_create_new; "fill" - in op_set, the slot is known;        *)
(* "upgrade" - in op_delete, the slot is known; "index_lock" - in          *)
(* op_get_by_index, after the check of the slot; "release" - in            *)
(* transaction_release.                                                    *)
(***************************************************************************)
PCs == {"idle", "ready", "search_home", "search_peek", "search_lock",
        "write_search", "write_create", "fill", "upgrade", "index_lock", "release"}

Calls == [op : {"none", "get", "delete", "set", "rmw", "get_by_index"},
          key : Keys \cup {NoKey},
          value : Values \cup {NoValue},
          chunk : Chunks,
          limit : Nat,
          free : Chunks \cup {ChunksCount},
          slot : Slots,
          created : BOOLEAN]

NoCall == [op |-> "none", key |-> NoKey, value |-> NoValue, chunk |-> 0,
           limit |-> 0, free |-> ChunksCount, slot |-> 0, created |-> FALSE]

RmwStatuses == [key : Keys, chunk : Chunks, slot : Slots, created_new : BOOLEAN]

Init ==
    /\ half_hashes = [c \in Chunks |-> [s \in Slots |-> NoSlotId]]
    /\ metadata = [c \in Chunks |-> NoMetadata]
    /\ keys_values = [c \in Chunks |-> [s \in Slots |-> NoKeyValue]]
    /\ readers = [c \in Chunks |-> [t \in Transactions |-> 0]]
    /\ writer = [c \in Chunks |-> NoTransaction]
    /\ pc = [t \in Transactions |-> "idle"]
    /\ ops = [t \in Transactions |-> 0]
    /\ call = [t \in Transactions |-> NoCall]
    /\ rmw = [t \in Transactions |-> <<>>]
    /\ indexed = [t \in Transactions |-> {}]
    /\ reply = [t \in Transactions |-> NoReply]
    /\ reads = [t \in Transactions |-> {}]
    /\ claims = [t \in Transactions |-> {}]

-----------------------------------------------------------------------------
(***************************************************************************)
(* The locks.  The write lock waits for no reader at all, not even the     *)
(* caller; the upgrade waits for exactly one.                              *)
(***************************************************************************)
IsOwnedBy(c, t) == writer[c] = t
Unread == [u \in Transactions |-> 0]

CanLockForRead(t, c) == writer[c] = NoTransaction
\* Mutant of CanLockForWrite: the readers are not waited for.
CanLockForWriteEarly(t, c) == writer[c] = NoTransaction

CanLockForWrite(t, c) == writer[c] = NoTransaction /\ readers[c] = Unread
\* Mutant of CanUpgrade: other readers are not waited for.
CanUpgradeEarly(t, c) == writer[c] = NoTransaction

CanUpgrade(t, c) == writer[c] = NoTransaction /\ readers[c] = [Unread EXCEPT ![t] = 1]

LockForRead(t, c) ==
    IF IsOwnedBy(c, t)
    THEN UNCHANGED locks
    ELSE /\ CanLockForRead(t, c)
         /\ readers' = [readers EXCEPT ![c][t] = @ + 1]
         /\ UNCHANGED writer

LockForWrite(t, c) ==
    IF IsOwnedBy(c, t)
    THEN UNCHANGED locks
    ELSE /\ CanLockForWrite(t, c)
         /\ writer' = [writer EXCEPT ![c] = t]
         /\ UNCHANGED readers

UpgradeLock(t, c) ==
    IF IsOwnedBy(c, t)
    THEN UNCHANGED locks
    ELSE /\ CanUpgrade(t, c)
         /\ writer' = [writer EXCEPT ![c] = t]
         /\ UNCHANGED readers

-----------------------------------------------------------------------------
(***************************************************************************)
(* Beginning and ending an operation.                                      *)
(***************************************************************************)
CountOp(t, op) ==
    /\ pc[t] = "ready"
    /\ op \in Operations
    /\ ops[t] < MaxOps
    /\ ops' = [ops EXCEPT ![t] = @ + 1]

Return(t, r) ==
    /\ pc' = [pc EXCEPT ![t] = "ready"]
    /\ call' = [call EXCEPT ![t] = NoCall]
    /\ reply' = [reply EXCEPT ![t] = r]

Begin(t, first, c) ==
    /\ CountOp(t, c.op)
    /\ pc' = [pc EXCEPT ![t] = first]
    /\ call' = [call EXCEPT ![t] = c]
    /\ reply' = [reply EXCEPT ![t] = NoReply]
    /\ UNCHANGED <<table, locks, rmw, indexed, history>>

\* Going on with the next step of the operation.
Continue(t, next, c) ==
    /\ pc' = [pc EXCEPT ![t] = next]
    /\ call' = [call EXCEPT ![t] = c]
    /\ UNCHANGED reply

NowReads(t, k) == reads' = [reads EXCEPT ![t] = @ \cup {k}]
NowClaims(t, k) == claims' = [claims EXCEPT ![t] = @ \cup {k}]

Acquire(t) ==
    /\ pc[t] = "idle"
    /\ pc' = [pc EXCEPT ![t] = "ready"]
    /\ UNCHANGED <<table, locks, ops, call, rmw, indexed, reply, history>>

\* Every read-modify-write is committed or aborted before the release.
ReleaseBegin(t) ==
    /\ pc[t] = "ready"
    /\ rmw[t] = <<>>
    /\ pc' = [pc EXCEPT ![t] = "release"]
    /\ indexed' = [indexed EXCEPT ![t] = {}]
    /\ reply' = [reply EXCEPT ![t] = NoReply]
    /\ reads' = [reads EXCEPT ![t] = {}]
    /\ claims' = [claims EXCEPT ![t] = {}]
    /\ UNCHANGED <<table, locks, call, rmw>>
    /\ ops' = [ops EXCEPT ![t] = 0]

Locked(t) == {c \in Chunks : writer[c] = t \/ readers[c][t] > 0}

ReleaseChunk(t, c) ==
    /\ pc[t] = "release"
    /\ c \in Locked(t)
    /\ readers' = [readers EXCEPT ![c][t] = 0]
    /\ writer' = [writer EXCEPT ![c] = IF @ = t THEN NoTransaction ELSE @]
    /\ UNCHANGED <<table, pc, ops, call, rmw, indexed, reply, history>>

ReleaseEnd(t) ==
    /\ pc[t] = "release"
    /\ Locked(t) = {}
    /\ pc' = [pc EXCEPT ![t] = "idle"]
    /\ UNCHANGED <<table, locks, ops, call, rmw, indexed, reply, history>>

(***************************************************************************)
(* A lock was not free for too long: the operation returns false.  For the *)
(* callers of op_get and op_delete this is the same as a missing key; the  *)
(* model keeps the two apart to state what the map promises.               *)
(***************************************************************************)
Stuck(t) ==
    LET c == call[t].chunk
    IN  /\ ~IsOwnedBy(c, t)
        /\ \/ pc[t] \in {"search_home", "search_lock", "index_lock"} /\ ~CanLockForRead(t, c)
           \/ pc[t] \in {"write_search", "write_create"} /\ ~CanLockForWrite(t, c)
           \/ pc[t] = "upgrade" /\ ~CanUpgrade(t, c)
        /\ Return(t, Failed)
        /\ UNCHANGED <<table, locks, rmw, indexed, ops, history>>

-----------------------------------------------------------------------------
(***************************************************************************)
(* hashtable_mcmp_support_op_search_key, used by op_get and op_delete.     *)
(***************************************************************************)
WithSlotId(k, c) == {s \in Slots : half_hashes[c][s] = SlotId(k, c)}

HasKey(k, c, s) == keys_values[c][s].flags = "FILLED" /\ keys_values[c][s].key = k

\* Mutant of SearchLimit: the last overflowed chunk is left out.
SearchLimitShort(home) ==
    LET n == metadata[home].overflowed_chunks_counter
    IN  IF n = 0 THEN home ELSE home + n - 1

\* The last chunk to search.
SearchLimit(home) == home + metadata[home].overflowed_chunks_counter

\* The loop over the slots stops at the first one that is not filled yet.
SlotsFound(k, c) ==
    {s \in WithSlotId(k, c) :
        /\ HasKey(k, c, s)
        /\ \A r \in WithSlotId(k, c) : r < s => keys_values[c][r].flags # "EMPTY"}

(***************************************************************************)
(* COPY looks its source up while the read-modify-write on its destination *)
(* is open.  Nothing else is called in such a transaction, other than      *)
(* opening the next read-modify-write.                                     *)
(***************************************************************************)
Get(t, k) ==
    Begin(t, "search_home", [NoCall EXCEPT !.op = "get", !.key = k, !.chunk = HomeOf[k]])

Delete(t, k) ==
    /\ rmw[t] = <<>>
    /\ Begin(t, "search_home", [NoCall EXCEPT !.op = "delete", !.key = k, !.chunk = HomeOf[k]])

\* No chunk is left to search: the key is not there.
SearchNext(t, limit) ==
    LET k == call[t].key
        c == call[t].chunk
    IN  IF c < limit
        THEN /\ Continue(t, "search_peek", [call[t] EXCEPT !.chunk = c + 1, !.limit = limit])
             /\ UNCHANGED history
        ELSE /\ Return(t, NoValue)
             /\ NowReads(t, k)
             /\ UNCHANGED claims

\* The chunk is locked: look into it.
SearchChunk(t, limit) ==
    LET k == call[t].key
        c == call[t].chunk
        s == Min(SlotsFound(k, c))
    IN  IF metadata[c].slots_occupied = 0 \/ SlotsFound(k, c) = {}
        THEN SearchNext(t, limit)
        ELSE IF call[t].op = "get"
        THEN /\ Return(t, keys_values[c][s].data)
             /\ NowReads(t, k)
             /\ UNCHANGED claims
        ELSE /\ Continue(t, "upgrade", [call[t] EXCEPT !.slot = s, !.limit = limit])
             /\ UNCHANGED history

SearchHome(t) ==
    /\ pc[t] = "search_home"
    /\ LockForRead(t, call[t].chunk)
    /\ SearchChunk(t, SearchLimit(call[t].chunk))
    /\ UNCHANGED <<table, rmw, indexed, ops>>

\* slots_occupied of a further chunk is read before the chunk is locked.
SearchPeek(t) ==
    /\ pc[t] = "search_peek"
    /\ IF metadata[call[t].chunk].slots_occupied = 0
       THEN SearchNext(t, call[t].limit)
       ELSE Continue(t, "search_lock", call[t]) /\ UNCHANGED history
    /\ UNCHANGED <<table, locks, rmw, indexed, ops>>

SearchLock(t) ==
    /\ pc[t] = "search_lock"
    /\ LockForRead(t, call[t].chunk)
    /\ SearchChunk(t, call[t].limit)
    /\ UNCHANGED <<table, rmw, indexed, ops>>

\* Mutant of FreeSlot: is_full is not reset and the slot is not uncounted.
FreeSlotOnly(c, s) ==
    /\ half_hashes' = [half_hashes EXCEPT ![c][s] = NoSlotId]
    /\ UNCHANGED metadata

(***************************************************************************)
(* What every delete does to a slot.  The data pointer stays.              *)
(***************************************************************************)
FreeSlot(c, s) ==
    /\ metadata' = [metadata EXCEPT ![c].slots_occupied = (@ - 1) % 128,
                                    ![c].is_full = FALSE]
    /\ half_hashes' = [half_hashes EXCEPT ![c][s] = NoSlotId]

EraseKey(c, s) ==
    keys_values' = [keys_values EXCEPT ![c][s].flags = "DELETED",
                                       ![c][s].database_number = 0,
                                       ![c][s].key = NoKey]

\* Mutant of DeleteFound: the read lock is not upgraded.
DeleteFoundUnlocked(t) ==
    LET k == call[t].key
        c == call[t].chunk
        s == call[t].slot
    IN  /\ pc[t] = "upgrade"
        /\ FreeSlot(c, s)
        /\ EraseKey(c, s)
        /\ Return(t, keys_values[c][s].data)
        /\ NowClaims(t, k)
        /\ UNCHANGED <<locks, rmw, indexed, ops, reads>>

(***************************************************************************)
(* The rest of hashtable_mcmp_op_delete, once the search has found the     *)
(* slot: the lock is upgraded and the slot checked again.                  *)
(***************************************************************************)
DeleteFound(t) ==
    LET k == call[t].key
        c == call[t].chunk
        s == call[t].slot
    IN  /\ pc[t] = "upgrade"
        /\ UpgradeLock(t, c)
        /\ IF half_hashes[c][s].quarter_hash = QuarterOf[k]
           THEN /\ FreeSlot(c, s)
                /\ EraseKey(c, s)
                /\ Return(t, keys_values[c][s].data)
                /\ NowClaims(t, k)
           ELSE /\ Return(t, Failed)
                /\ UNCHANGED <<table, claims>>
        /\ UNCHANGED <<rmw, indexed, ops, reads>>

-----------------------------------------------------------------------------
(***************************************************************************)
(* hashtable_mcmp_support_op_search_key_or_create_new, used by op_set and  *)
(* op_rmw_begin.  Every chunk it looks into is locked for writing.         *)
(***************************************************************************)
Set(t, k, v) ==
    /\ rmw[t] = <<>>
    /\ Begin(t, "write_search",
             [NoCall EXCEPT !.op = "set", !.key = k, !.value = v, !.chunk = HomeOf[k]])

\* MSETNX opens one read-modify-write for each of its arguments.
RmwBegin(t, k) ==
    /\ (\E i \in DOMAIN rmw[t] : rmw[t][i].key = k) => RepeatedKeys
    /\ Begin(t, "write_search",
             [NoCall EXCEPT !.op = "rmw", !.key = k, !.chunk = HomeOf[k]])

\* The slot is known: op_set goes on to write it, op_rmw_begin returns it.
SlotReady(t, c, s, created) ==
    LET k == call[t].key
    IN  /\ IF call[t].op = "set"
           THEN /\ Continue(t, "fill", [call[t] EXCEPT !.chunk = c, !.slot = s, !.created = created])
                /\ UNCHANGED <<rmw, claims>>
           ELSE /\ Return(t, IF created THEN NoValue ELSE keys_values[c][s].data)
                /\ rmw' = [rmw EXCEPT ![t] = Append(@,
                              [key |-> k, chunk |-> c, slot |-> s, created_new |-> created])]
                /\ NowClaims(t, k)
        /\ UNCHANGED reads

\* A deleted slot, and one that was never used, has no key.
SlotsMatching(k, c) == {s \in WithSlotId(k, c) : keys_values[c][s].key = k}

\* chunk_first_with_freespace, or the last chunk searched when all are full.
FirstWithFreespace(t, limit, free) == IF free = ChunksCount THEN limit ELSE free

WriteSearch(t) ==
    LET k == call[t].key
        c == call[t].chunk
        limit == IF c = HomeOf[k] THEN SearchLimit(c) ELSE call[t].limit
        free == IF call[t].free = ChunksCount /\ ~metadata[c].is_full THEN c ELSE call[t].free
    IN  /\ pc[t] = "write_search"
        /\ LockForWrite(t, c)
        /\ IF metadata[c].slots_occupied # 0 /\ SlotsMatching(k, c) # {}
           THEN SlotReady(t, c, Min(SlotsMatching(k, c)), FALSE)
           ELSE /\ IF c < limit
                   THEN Continue(t, "write_search",
                                 [call[t] EXCEPT !.chunk = c + 1, !.limit = limit, !.free = free])
                   ELSE Continue(t, "write_create",
                                 [call[t] EXCEPT !.chunk = FirstWithFreespace(t, limit, free),
                                                 !.limit = limit])
                /\ UNCHANGED <<rmw, history>>
        /\ UNCHANGED <<table, indexed, ops>>

FreeSlots(c) == {s \in Slots : half_hashes[c][s] = NoSlotId}

\* Mutant of CountSlot: the overflow of the home chunk is not recorded.
CountSlotOnly(c, home) == [metadata EXCEPT ![c].slots_occupied = @ + 1]

\* The metadata once a slot of chunk c is taken for a key of chunk home.
CountSlot(c, home) ==
    LET counted == [metadata EXCEPT ![c].slots_occupied = @ + 1]
    IN  [counted EXCEPT ![home].overflowed_chunks_counter = Max({@, c - home})]

\* The second pass, over the chunks up to SearchMax from the home chunk.
WriteCreate(t) ==
    LET k == call[t].key
        c == call[t].chunk
        home == HomeOf[k]
    IN  /\ pc[t] = "write_create"
        /\ LockForWrite(t, c)
        /\ IF FreeSlots(c) # {}
           THEN LET s == Min(FreeSlots(c))
                IN  /\ half_hashes' = [half_hashes EXCEPT ![c][s] = SlotId(k, c)]
                    /\ metadata' = CountSlot(c, home)
                    /\ SlotReady(t, c, s, TRUE)
           ELSE /\ metadata' = [metadata EXCEPT ![c].is_full = TRUE]
                /\ IF c + 1 < home + SearchMax
                   THEN Continue(t, "write_create", [call[t] EXCEPT !.chunk = c + 1])
                   ELSE Return(t, Failed)
                /\ UNCHANGED <<half_hashes, rmw, history>>
        /\ UNCHANGED <<keys_values, indexed, ops>>

(***************************************************************************)
(* Writing the value, and the key when the slot is new: the end of op_set  *)
(* and op_rmw_commit_update.                                               *)
(***************************************************************************)
Fill(k, c, s, created, v) ==
    keys_values' = [keys_values EXCEPT ![c][s] =
        IF created
        THEN [flags |-> "FILLED", database_number |-> DatabaseOf[k], key |-> k, data |-> v]
        ELSE [@ EXCEPT !.data = v]]

SetFill(t) ==
    LET l == call[t]
    IN  /\ pc[t] = "fill"
        /\ Fill(l.key, l.chunk, l.slot, l.created, l.value)
        /\ Return(t, IF l.created THEN NoValue ELSE keys_values[l.chunk][l.slot].data)
        /\ NowClaims(t, l.key)
        /\ UNCHANGED <<half_hashes, metadata, locks, rmw, indexed, ops, reads>>

(***************************************************************************)
(* Closing the i-th read-modify-write.  The callers commit the slots they  *)
(* created in the order of creation, and after that abort all that is      *)
(* left.                                                                   *)
(***************************************************************************)
Without(q, i) == SubSeq(q, 1, i - 1) \o SubSeq(q, i + 1, Len(q))

CloseRmw(t, i) ==
    /\ pc[t] = "ready"
    /\ rmw[t][i].created_new => \A j \in 1 .. i - 1 : ~rmw[t][j].created_new
    /\ rmw' = [rmw EXCEPT ![t] = Without(@, i)]
    /\ UNCHANGED <<locks, pc, ops, call, indexed, history>>

Current(r) == IF r.created_new THEN NoValue ELSE keys_values[r.chunk][r.slot].data

RmwCommitUpdate(t, i, v) ==
    LET r == rmw[t][i]
    IN  /\ CloseRmw(t, i)
        /\ Fill(r.key, r.chunk, r.slot, r.created_new, v)
        /\ reply' = [reply EXCEPT ![t] = Current(r)]
        /\ UNCHANGED <<half_hashes, metadata>>

RmwCommitDelete(t, i) ==
    LET r == rmw[t][i]
    IN  /\ CloseRmw(t, i)
        /\ r.created_new => Len(rmw[t]) = 1
        /\ FreeSlot(r.chunk, r.slot)
        /\ IF r.created_new THEN UNCHANGED keys_values ELSE EraseKey(r.chunk, r.slot)
        /\ reply' = [reply EXCEPT ![t] = Current(r)]

\* The slots that the open read-modify-writes of t created in chunk c.
CreatedIn(t, c) ==
    {rmw[t][i].slot : i \in {j \in DOMAIN rmw[t] : rmw[t][j].created_new /\ rmw[t][j].chunk = c}}

\* Mutant of RmwAbort: the slots that rmw_begin created are not given back.
RmwAbortKeepsSlot(t) ==
    /\ pc[t] = "ready"
    /\ rmw[t] # <<>>
    /\ rmw' = [rmw EXCEPT ![t] = <<>>]
    /\ reply' = [reply EXCEPT ![t] = NoReply]
    /\ UNCHANGED <<table, locks, pc, ops, call, indexed, history>>

\* hashtable_mcmp_op_rmw_abort of everything that is open.
RmwAbort(t) ==
    /\ pc[t] = "ready"
    /\ rmw[t] # <<>>
    /\ rmw' = [rmw EXCEPT ![t] = <<>>]
    /\ half_hashes' = [c \in Chunks |-> [s \in Slots |->
                          IF s \in CreatedIn(t, c) THEN NoSlotId ELSE half_hashes[c][s]]]
    /\ metadata' = [c \in Chunks |->
                       [metadata[c] EXCEPT !.slots_occupied = @ - Cardinality(CreatedIn(t, c)),
                                           !.is_full = @ /\ CreatedIn(t, c) = {}]]
    /\ reply' = [reply EXCEPT ![t] = NoReply]
    /\ UNCHANGED <<keys_values, locks, pc, ops, call, indexed, history>>

-----------------------------------------------------------------------------
(***************************************************************************)
(* The operations by position, which FLUSHDB, SCAN, KEYS, the snapshots    *)
(* and the eviction use.  hashtable_mcmp_op_get_by_index checks the slot   *)
(* before it locks the chunk and not again after that.                     *)
(***************************************************************************)
GetByIndex(t, c, s) ==
    /\ rmw[t] = <<>>
    /\ half_hashes[c][s].filled
    /\ Begin(t, "index_lock", [NoCall EXCEPT !.op = "get_by_index", !.chunk = c, !.slot = s])

GetByIndexLocked(t) ==
    LET c == call[t].chunk
        s == call[t].slot
    IN  /\ pc[t] = "index_lock"
        /\ LockForRead(t, c)
        /\ indexed' = [indexed EXCEPT ![t] = @ \cup {<<c, s>>}]
        /\ Return(t, NoReply)
        /\ UNCHANGED <<table, rmw, history, ops>>

\* Mutant of DeleteByIndex: whether the slot is still filled is not checked.
DeleteByIndexUnchecked(t, c, s, d) ==
    LET kv == keys_values[c][s]
    IN  /\ CountOp(t, "delete_by_index")
        /\ indexed[t] = {<<c, s>>}
        /\ Locked(t) = {c}
        /\ ~IsOwnedBy(c, t)
        /\ UpgradeLock(t, c)
        /\ indexed' = [indexed EXCEPT ![t] = {}]
        /\ IF kv.database_number = d
           THEN /\ FreeSlot(c, s)
                /\ EraseKey(c, s)
                /\ Return(t, kv.data)
                /\ NowClaims(t, kv.key)
           ELSE /\ Return(t, Failed)
                /\ UNCHANGED <<table, claims>>
        /\ UNCHANGED <<rmw, reads>>

(***************************************************************************)
(* hashtable_mcmp_op_delete_by_index with already_locked_for_read, as      *)
(* storage_db_op_flush_sync calls it: right after op_get_by_index, in a    *)
(* transaction of its own for every slot.                                  *)
(***************************************************************************)
DeleteByIndex(t, c, s, d) ==
    LET kv == keys_values[c][s]
    IN  /\ CountOp(t, "delete_by_index")
        /\ indexed[t] = {<<c, s>>}
        /\ Locked(t) = {c}
        /\ ~IsOwnedBy(c, t)
        /\ half_hashes[c][s].filled
        /\ UpgradeLock(t, c)
        /\ indexed' = [indexed EXCEPT ![t] = {}]
        /\ IF kv.database_number = d
           THEN /\ FreeSlot(c, s)
                /\ EraseKey(c, s)
                /\ Return(t, kv.data)
                /\ NowClaims(t, kv.key)
           ELSE /\ Return(t, Failed)
                /\ UNCHANGED <<table, claims>>
        /\ UNCHANGED <<rmw, reads>>

\* hashtable_mcmp_op_get_key, on any position for RANDOMKEY.
GetKey(t, c, s) ==
    LET kv == keys_values[c][s]
    IN  /\ CountOp(t, "get_key")
        /\ rmw[t] = <<>>
        /\ LockForRead(t, c)
        /\ IF kv.flags = "FILLED"
           THEN Return(t, kv.data) /\ NowReads(t, kv.key)
           ELSE Return(t, Failed) /\ UNCHANGED reads
        /\ UNCHANGED <<table, rmw, indexed, claims>>

-----------------------------------------------------------------------------
Next ==
    \E t \in Transactions :
        \/ Acquire(t)
        \/ ReleaseBegin(t)
        \/ ReleaseEnd(t)
        \/ Stuck(t)
        \/ SearchHome(t)
        \/ SearchPeek(t)
        \/ SearchLock(t)
        \/ DeleteFound(t)
        \/ WriteSearch(t)
        \/ WriteCreate(t)
        \/ SetFill(t)
        \/ GetByIndexLocked(t)
        \/ \E k \in Keys :
              \/ Get(t, k)
              \/ Delete(t, k)
              \/ RmwBegin(t, k)
              \/ \E v \in Values : Set(t, k, v)
        \/ RmwAbort(t)
        \/ \E i \in DOMAIN rmw[t] :
              \/ RmwCommitDelete(t, i)
              \/ \E v \in Values : RmwCommitUpdate(t, i, v)
        \/ \E c \in Chunks :
              \/ ReleaseChunk(t, c)
              \/ \E s \in Slots :
                    \/ GetByIndex(t, c, s)
                    \/ GetKey(t, c, s)
                    \/ \E d \in {DatabaseOf[k] : k \in Keys} : DeleteByIndex(t, c, s, d)

Spec == Init /\ [][Next]_vars

-----------------------------------------------------------------------------
\* Every variable has its type; the bit fields of the metadata never wrap.
TypeOK ==
    /\ half_hashes \in [Chunks -> [Slots -> SlotIds]]
    /\ metadata \in [Chunks -> Metadata]
    /\ keys_values \in [Chunks -> [Slots -> KeyValues]]
    /\ readers \in [Chunks -> [Transactions -> 0 .. MaxOps]]
    /\ writer \in [Chunks -> Transactions \cup {NoTransaction}]
    /\ pc \in [Transactions -> PCs]
    /\ ops \in [Transactions -> 0 .. MaxOps]
    /\ call \in [Transactions -> Calls]
    /\ rmw \in [Transactions -> Seq(RmwStatuses)]
    /\ indexed \in [Transactions -> SUBSET (Chunks \X Slots)]
    /\ reply \in [Transactions -> Values \cup {NoValue, NoReply, Failed}]
    /\ reads \in [Transactions -> SUBSET Keys]
    /\ claims \in [Transactions -> SUBSET Keys]

(***************************************************************************)
(* No key is in the table twice, whatever the order in which transactions  *)
(* look for it and create it: search_key_or_create_new keeps the home      *)
(* chunk locked from the search to the end of the transaction.             *)
(***************************************************************************)
OneSlotPerKey ==
    \A k \in Keys, c, d \in Chunks : \A r, s \in Slots :
        HasKey(k, c, r) /\ HasKey(k, d, s) => c = d /\ r = s

(***************************************************************************)
(* A key that is in the table is where a search looks: within the overflow *)
(* range of its home chunk, under the slot id that search_key computes, in *)
(* a chunk whose slots_occupied does not say it can be skipped.            *)
(***************************************************************************)
Findable ==
    \A k \in Keys, c \in Chunks, s \in Slots :
        HasKey(k, c, s) =>
            /\ c - HomeOf[k] \in 0 .. metadata[HomeOf[k]].overflowed_chunks_counter
            /\ half_hashes[c][s] = SlotId(k, c)
            /\ metadata[c].slots_occupied # 0

\* A key that is stored is found: hashtable_mcmp_support_op_search_key meets it, and
\* meets it in one place only.
KeysFindable == OneSlotPerKey /\ Findable

(***************************************************************************)
(* slots_occupied is the number of slots in use, those of an unfinished    *)
(* read-modify-write included, so the asserts on it in the deletes hold    *)
(* and it never wraps; is_full is set only on a chunk with no free slot.   *)
(***************************************************************************)
OccupancyExact ==
    \A c \in Chunks :
        /\ metadata[c].slots_occupied = Cardinality(Slots \ FreeSlots(c))
        /\ metadata[c].is_full => FreeSlots(c) = {}

(***************************************************************************)
(* A slot id without a filled key belongs to an operation in progress that *)
(* will fill it or give it back: no slot is lost.                          *)
(***************************************************************************)
Pending(c, s) ==
    \E t \in Transactions :
        \/ pc[t] = "fill" /\ call[t].created /\ call[t].chunk = c /\ call[t].slot = s
        \/ s \in CreatedIn(t, c)

NoSlotLost ==
    \A c \in Chunks, s \in Slots :
        s \notin FreeSlots(c) => keys_values[c][s].flags = "FILLED" \/ Pending(c, s)

\* The slots of every chunk are accounted for: the counter that op_set, op_rmw_* and
\* op_delete keep is exact and every slot they take is filled or given back.
SlotsAccounted == OccupancyExact /\ NoSlotLost

(***************************************************************************)
(* The slot that op_delete found is still the slot of its key when the     *)
(* lock has been upgraded, and the slot of an open read-modify-write is    *)
(* not touched by anybody else.                                            *)
(***************************************************************************)
FoundSlotStays ==
    \A t \in Transactions :
        /\ pc[t] = "upgrade" => HasKey(call[t].key, call[t].chunk, call[t].slot)
        /\ \A i \in DOMAIN rmw[t] :
              LET r == rmw[t][i]
              IN  /\ half_hashes[r.chunk][r.slot] = SlotId(r.key, r.chunk)
                  /\ HasKey(r.key, r.chunk, r.slot) <=> ~r.created_new

(***************************************************************************)
(* "the metadata is modified only under a write lock" (hashtable.h:110),   *)
(* and so are the slot ids and the keys.                                   *)
(***************************************************************************)
WrittenUnderLock ==
    [][\A c \in Chunks :
          <<half_hashes[c], metadata[c], keys_values[c]>>' #
              <<half_hashes[c], metadata[c], keys_values[c]>>
          => writer'[c] # NoTransaction /\ writer[c] \in {NoTransaction, writer'[c]}]_vars

(***************************************************************************)
(* A transaction that read a key can go on to delete it, when nobody else  *)
(* holds a lock: storage_db_get_entry_index_for_read_prep begins a         *)
(* read-modify-write on an expired key it has just read, which "will carry *)
(* out the clean up for us" (storage_db.c:1077).                           *)
(***************************************************************************)
ReadKeyCanBeCleanedUp ==
    \A t \in Transactions :
        /\ pc[t] = "write_search" /\ call[t].op = "rmw"
        /\ call[t].key \in reads[t]
        /\ \E c \in Chunks, s \in Slots : HasKey(call[t].key, c, s)
        /\ \A u \in Transactions \ {t} : Locked(u) = {}
        => IsOwnedBy(call[t].chunk, t) \/ CanLockForWrite(t, call[t].chunk)

SlotOf(k) == {p \in Chunks \X Slots : HasKey(k, p[1], p[2])}

(***************************************************************************)
(* Whoever deletes a key leaves none of it behind: GETDEL followed by GET  *)
(* finds nothing, as the tests of the GETDEL command require.              *)
(***************************************************************************)
DeleteRemovesKey ==
    [][\A k \in Keys : SlotOf(k) \subseteq SlotOf(k)' \/ SlotOf(k)' = {}]_vars

(***************************************************************************)
(* The table is a map, and its transactions are isolated (KeyValueMap).    *)
(***************************************************************************)
ValueOf(k) ==
    IF SlotOf(k) = {} THEN NoValue
    ELSE LET p == CHOOSE p \in SlotOf(k) : TRUE IN keys_values[p[1]][p[2]].data

Map == INSTANCE KeyValueMap WITH map <- [k \in Keys |-> ValueOf(k)]

ImplementsMap == Map!Spec
=============================================================================
