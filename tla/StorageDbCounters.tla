-------------------------- MODULE StorageDbCounters --------------------------
(***************************************************************************)
(* The counters of keys and data (src/storage/db/storage_db_counters.c).   *)
(* Every thread has a slot of its own and adds to it what its operations   *)
(* change; nobody locks.  DBSIZE, INFO, the eviction and the snapshot add  *)
(* up the slots of all threads, one after the other.                       *)
(*                                                                         *)
(* keys_count and data_size are two words.  The model reads or updates the *)
(* two of one slot in one step, as no property relates one to the other.   *)
(* keys_changed, which only grows, is the bound on the operations.         *)
(***************************************************************************)
EXTENDS Integers, FiniteSetsExt

CONSTANTS Threads,      \* numbered by their slot
          Keys,
          Sizes,        \* sizes of values
          MaxChanged    \* bound: operations of one thread

VARIABLES
    size,        \* the size of the value of every key, 0 when it has none
    locked,      \* the keys each thread's transaction holds for writing
    counters,    \* the slot of every thread
    pc,          \* "idle"; "update", "remove" - the operation has yet to do that;
                 \* "sum", "summed" - adding up the slots
    delta,       \* what a thread in "update" has yet to add to its slot
    next_slot,   \* the next slot to read of a thread that adds up
    sum,         \* what it has read so far
    disturbed,   \* history: a slot or a key changed since the sum began
    drift        \* history: the keys that were renamed over, which nobody counts

vars == <<size, locked, counters, pc, delta, next_slot, sum, disturbed, drift>>

Zero == [keys_count |-> 0, data_size |-> 0]
Count(k, n) == [keys_count |-> k, data_size |-> n]
Plus(a, b) == Count(a.keys_count + b.keys_count, a.data_size + b.data_size)
SlotsCount == Cardinality(Threads)

Init ==
    /\ size = [k \in Keys |-> 0]
    /\ locked = [t \in Threads |-> {}]
    /\ counters = [t \in Threads |-> [count |-> Zero, keys_changed |-> 0]]
    /\ pc = [t \in Threads |-> "idle"]
    /\ delta = [t \in Threads |-> Zero]
    /\ next_slot = [t \in Threads |-> 0]
    /\ sum = [t \in Threads |-> Zero]
    /\ disturbed = [t \in Threads |-> FALSE]
    /\ drift = Zero

\* A step that changes a key or a slot, for the sums in progress.
Disturb == disturbed' = [t \in Threads |-> pc[t] \in {"sum", "summed"}]

\* A thread begins an operation on keys that no other transaction has locked.
Starts(t, keys) ==
    /\ pc[t] = "idle"
    /\ counters[t].keys_changed < MaxChanged
    /\ \A u \in Threads : locked[u] \cap keys = {}

\* STORAGE_DB_COUNTERS_UPDATE, in the slot of the thread.
CountersUpdate(t, d) ==
    counters' = [counters EXCEPT ![t].count = Plus(@, d), ![t].keys_changed = @ + 1]

-----------------------------------------------------------------------------
\* Mutant of Set: an overwritten key is counted again.
SetCountsAlways(t, k, n) ==
    /\ Starts(t, {k})
    /\ size' = [size EXCEPT ![k] = n]
    /\ delta' = [delta EXCEPT ![t] = Count(1, n - size[k])]
    /\ locked' = [locked EXCEPT ![t] = {k}]
    /\ pc' = [pc EXCEPT ![t] = "update"]
    /\ Disturb
    /\ UNCHANGED <<counters, next_slot, sum, drift>>

\* storage_db_set_entry_index and storage_db_op_rmw_commit_update: the key first.
Set(t, k, n) ==
    /\ Starts(t, {k})
    /\ size' = [size EXCEPT ![k] = n]
    /\ delta' = [delta EXCEPT ![t] = Count(IF size[k] = 0 THEN 1 ELSE 0, n - size[k])]
    /\ locked' = [locked EXCEPT ![t] = {k}]
    /\ pc' = [pc EXCEPT ![t] = "update"]
    /\ Disturb
    /\ UNCHANGED <<counters, next_slot, sum, drift>>

\* storage_db_op_delete and storage_db_op_delete_by_index: the key first.
Delete(t, k) ==
    /\ Starts(t, {k})
    /\ size[k] # 0
    /\ size' = [size EXCEPT ![k] = 0]
    /\ delta' = [delta EXCEPT ![t] = Count(-1, -size[k])]
    /\ locked' = [locked EXCEPT ![t] = {k}]
    /\ pc' = [pc EXCEPT ![t] = "update"]
    /\ Disturb
    /\ UNCHANGED <<counters, next_slot, sum, drift>>

\* The counters after the key; then the transaction is released.
Update(t) ==
    /\ pc[t] = "update"
    /\ CountersUpdate(t, delta[t])
    /\ delta' = [delta EXCEPT ![t] = Zero]
    /\ locked' = [locked EXCEPT ![t] = {}]
    /\ pc' = [pc EXCEPT ![t] = "idle"]
    /\ Disturb
    /\ UNCHANGED <<size, next_slot, sum, drift>>

\* storage_db_op_rmw_commit_delete: the counters first.
RmwCommitDelete(t, k) ==
    /\ Starts(t, {k})
    /\ size[k] # 0
    /\ CountersUpdate(t, Count(-1, -size[k]))
    /\ delta' = [delta EXCEPT ![t] = Count(1, size[k])]
    /\ locked' = [locked EXCEPT ![t] = {k}]
    /\ pc' = [pc EXCEPT ![t] = "remove"]
    /\ Disturb
    /\ UNCHANGED <<size, next_slot, sum, drift>>

Remove(t) ==
    /\ pc[t] = "remove"
    /\ size' = [k \in Keys |-> IF k \in locked[t] THEN 0 ELSE size[k]]
    /\ delta' = [delta EXCEPT ![t] = Zero]
    /\ locked' = [locked EXCEPT ![t] = {}]
    /\ pc' = [pc EXCEPT ![t] = "idle"]
    /\ Disturb
    /\ UNCHANGED <<counters, next_slot, sum, drift>>

\* storage_db_op_rmw_commit_rename, which leaves the counters alone also when a key is
\* renamed over.  One step, as it holds both keys from its first change to its last.
Rename(t, key, newkey) ==
    /\ Starts(t, {key, newkey})
    /\ key # newkey
    /\ size[key] # 0
    /\ size' = [size EXCEPT ![newkey] = size[key], ![key] = 0]
    /\ drift' = IF size[newkey] = 0 THEN drift ELSE Plus(drift, Count(1, size[newkey]))
    /\ Disturb
    /\ UNCHANGED <<locked, counters, pc, delta, next_slot, sum>>

-----------------------------------------------------------------------------
\* storage_db_counters_sum_global is called; the caller does nothing else meanwhile.
SumBegin(t) ==
    /\ pc[t] = "idle"
    /\ pc' = [pc EXCEPT ![t] = "sum"]
    /\ UNCHANGED <<size, locked, counters, delta, next_slot, sum, disturbed, drift>>

\* Mutant of SumSlot: the loop ends one slot early.
SumSlotShort(t) ==
    /\ pc[t] = "sum"
    /\ sum' = [sum EXCEPT ![t] = Plus(@, counters[next_slot[t]].count)]
    /\ next_slot' = [next_slot EXCEPT ![t] = @ + 1]
    /\ pc' = [pc EXCEPT ![t] = IF next_slot[t] + 2 >= SlotsCount THEN "summed" ELSE "sum"]
    /\ UNCHANGED <<size, locked, counters, delta, disturbed, drift>>

\* One iteration of its loop, over the slots that are in use.
SumSlot(t) ==
    /\ pc[t] = "sum"
    /\ sum' = [sum EXCEPT ![t] = Plus(@, counters[next_slot[t]].count)]
    /\ next_slot' = [next_slot EXCEPT ![t] = @ + 1]
    /\ pc' = [pc EXCEPT ![t] = IF next_slot[t] + 1 = SlotsCount THEN "summed" ELSE "sum"]
    /\ UNCHANGED <<size, locked, counters, delta, disturbed, drift>>

\* The sum is returned.
SumEnd(t) ==
    /\ pc[t] = "summed"
    /\ pc' = [pc EXCEPT ![t] = "idle"]
    /\ next_slot' = [next_slot EXCEPT ![t] = 0]
    /\ sum' = [sum EXCEPT ![t] = Zero]
    /\ disturbed' = [disturbed EXCEPT ![t] = FALSE]
    /\ UNCHANGED <<size, locked, counters, delta, drift>>

Next ==
    \E t \in Threads :
        \/ Update(t) \/ Remove(t)
        \/ SumBegin(t) \/ SumSlot(t) \/ SumEnd(t)
        \/ \E k \in Keys :
              \/ Delete(t, k) \/ RmwCommitDelete(t, k)
              \/ \E n \in Sizes : Set(t, k, n)
              \/ \E newkey \in Keys : Rename(t, k, newkey)

Spec == Init /\ [][Next]_vars

-----------------------------------------------------------------------------
\* Every variable has its type; next_slot stays within the slots.
TypeOK ==
    /\ size \in [Keys -> Sizes \cup {0}]
    /\ locked \in [Threads -> SUBSET Keys]
    /\ counters \in [Threads -> [count : [keys_count : Int, data_size : Int],
                                  keys_changed : 0 .. MaxChanged]]
    /\ pc \in [Threads -> {"idle", "update", "remove", "sum", "summed"}]
    /\ delta \in [Threads -> [keys_count : Int, data_size : Int]]
    /\ next_slot \in [Threads -> 0 .. SlotsCount]
    /\ sum \in [Threads -> [keys_count : Int, data_size : Int]]
    /\ disturbed \in [Threads -> BOOLEAN]

\* What the counters should add up to.
KeysTotal == Cardinality({k \in Keys : size[k] # 0})
SizeTotal == MapThenSumSet(LAMBDA k : size[k], Keys)

(***************************************************************************)
(* The slots of all threads, with what unfinished operations have yet to   *)
(* add or to remove, account for every key and its size, whichever threads *)
(* created, overwrote and deleted it: a negative slot is made up for by    *)
(* another.  The keys that RENAME replaced stay counted for ever.          *)
(***************************************************************************)
CountersExact ==
    /\ MapThenSumSet(LAMBDA t : counters[t].count.keys_count + delta[t].keys_count, Threads)
          = KeysTotal + drift.keys_count
    /\ MapThenSumSet(LAMBDA t : counters[t].count.data_size + delta[t].data_size, Threads)
          = SizeTotal + drift.data_size

(***************************************************************************)
(* A sum during which nothing changed, begun when no operation was         *)
(* unfinished, is the number of keys and the size of their values, and of  *)
(* the keys that were renamed over: what DBSIZE answers on an idle server. *)
(***************************************************************************)
QuietSumExact ==
    \A t \in Threads :
        /\ pc[t] = "summed" /\ ~disturbed[t]
        /\ \A u \in Threads : delta[u] = Zero
        => sum[t] = Plus(Count(KeysTotal, SizeTotal), drift)
=============================================================================
