---------------------------- MODULE KeysIteration ----------------------------
(***************************************************************************)
(* The operations that walk over the buckets of the hashtable while other  *)
(* threads write to it: SCAN and KEYS (storage_db_op_get_keys), FLUSHDB    *)
(* (storage_db_op_flush_sync), RANDOMKEY (storage_db_op_random_key) and    *)
(* the eviction of keys with the fiber that runs it                        *)
(* (storage_db_keys_eviction_run_worker,                                   *)
(* worker_fiber_storage_db_keys_eviction.c).                               *)
(*                                                                         *)
(* A behaviour runs one of them.  The transactions of the other threads    *)
(* put and remove one key each, in any bucket, between any two steps.      *)
(***************************************************************************)
EXTENDS Integers, FiniteSets, Sequences, FiniteSetsExt

CONSTANTS
    Scenarios,          \* what is run, on which table, with how many faults
    Buckets,            \* buckets_count_real
    ChunkSlots,         \* HASHTABLE_MCMP_HALF_HASHES_CHUNK_SLOTS_COUNT
    ListLength,         \* the length of the list of candidates, a power of two
    EvictFirst,         \* STORAGE_DB_KEYS_EVICTION_EVICT_FIRST_N_KEYS
    MaxDistance,        \* STORAGE_DB_KEYS_EVICTION_ITER_MAX_DISTANCE
    MaxSearchAttempts,  \* STORAGE_DB_KEYS_EVICTION_ITER_MAX_SEARCH_ATTEMPTS
    MaxIterations,      \* the runs of the eviction in a turn of the fiber
    MaxRank,            \* UINT64_MAX
    None

VARIABLES
    table,      \* the entry of each bucket
    counted,    \* what the counters of the databases add to the real count
    now,        \* clock_monotonic_int64_ms
    op,         \* the operation that runs
    bound,      \* writes, ticks and failed locks that are left
    ghost       \* what the properties remember

vars == <<table, counted, now, op, bound, ghost>>

Bucket == 0..(Buckets - 1)
End == Buckets + ListLength * Buckets

-----------------------------------------------------------------------------
(***************************************************************************)
(* hashtable_mcmp_op_iter_internal: chunks that are not empty do not count *)
(* for the distance.                                                       *)
(***************************************************************************)
Occupied(b) == table[b] # None
Holds(b, db) == Occupied(b) /\ table[b].db = db

ChunkOf(b) == b \div ChunkSlots

EmptyChunk(c) == \A b \in Bucket : ChunkOf(b) = c => ~Occupied(b)

Distance(from, c) ==
    MapThenSumSet(LAMBDA x : ChunkSlots - (IF x = ChunkOf(from) THEN from % ChunkSlots ELSE 0),
                  {x \in ChunkOf(from)..(c - 1) : EmptyChunk(x)})

First(found) == IF found = {} THEN End ELSE Min(found)

\* Mutant of Iter: the bucket it starts from is skipped.
IterAfter(from, db) == First({b \in Bucket : b > from /\ Holds(b, db)})

Iter(from, db) == First({b \in Bucket : b >= from /\ Holds(b, db)})

IterMaxDistance(from, max) == First({b \in Bucket : b >= from /\ Occupied(b) /\ Distance(from, ChunkOf(b)) < max})

KeysOf(db) == {table[b].key : b \in {x \in Bucket : Holds(x, db)}}

(* storage_db_op_get_keys_count_per_db                                      *)
KeysCount(db) == Cardinality({b \in Bucket : Holds(b, db)}) + counted[db]

-----------------------------------------------------------------------------
(***************************************************************************)
(* The other threads.  They wait for the chunks the operation has locked.  *)
(***************************************************************************)
Free(b) == ChunkOf(b) \notin op.locks

(* What a write leaves for the properties: a key the operation may not have *)
(* seen, and one FLUSHDB has to keep.                                       *)
Written(e) ==
    [ghost EXCEPT !.quiet = FALSE,
                  !.kept = IF e.db # op.db \/ now > op.start THEN @ \cup {e.key} ELSE @]

Put ==
    /\ \E b \in Bucket, e \in bound.puts :
        /\ Free(b) /\ ~Occupied(b)
        /\ \A x \in Bucket : Occupied(x) => table[x].key # e.key
        /\ table' = [table EXCEPT ![b] = [e EXCEPT !.created = now]]
        /\ bound' = [bound EXCEPT !.puts = @ \ {e}]
        /\ ghost' = Written(e)
    /\ UNCHANGED <<counted, now, op>>

Overwrite ==
    /\ bound.overwrites > 0
    /\ \E b \in Bucket :
        /\ Free(b) /\ Occupied(b)
        /\ table' = [table EXCEPT ![b].created = now, ![b].expires = FALSE]
        /\ ghost' = [Written(table[b]) EXCEPT !.stayed = @ \ {table[b].key}]
    /\ bound' = [bound EXCEPT !.overwrites = @ - 1]
    /\ UNCHANGED <<counted, now, op>>

Remove ==
    /\ bound.removes > 0
    /\ \E b \in Bucket :
        /\ Free(b) /\ Occupied(b)
        /\ table' = [table EXCEPT ![b] = None]
        /\ ghost' = [ghost EXCEPT !.quiet = FALSE, !.stayed = @ \ {table[b].key}, !.kept = @ \ {table[b].key}]
    /\ bound' = [bound EXCEPT !.removes = @ - 1]
    /\ UNCHANGED <<counted, now, op>>

Tick ==
    /\ bound.ticks > 0
    /\ now' = now + 1
    /\ bound' = [bound EXCEPT !.ticks = @ - 1]
    /\ UNCHANGED <<table, counted, op, ghost>>

-----------------------------------------------------------------------------
(***************************************************************************)
(* SCAN, which the client calls until it is given the cursor 0, and KEYS.  *)
(***************************************************************************)
(* KEYS is a single call; SCAN is called again until the cursor is 0.       *)
LastCall(name, cursor) == name = "keys" \/ cursor = 0

\* Mutant of Returned: the cursor stays where the iteration stopped.
ReturnedNext(o) == [o EXCEPT !.cursor = o.next, !.pc = IF LastCall(o.name, o.next) THEN "done" ELSE "call"]

Returned(o) ==
    LET cursor == IF o.ended THEN 0 ELSE o.next IN
    [o EXCEPT !.cursor = cursor, !.pc = IF LastCall(o.name, cursor) THEN "done" ELSE "call"]

Scanning == op.name \in {"scan", "keys"}

(* The keys are not looked for when there are none or the cursor is past    *)
(* the end, and the cursor is given back as it is.                          *)
GetKeys ==
    /\ Scanning /\ op.pc = "call"
    /\ op' = IF KeysCount(op.db) = 0 \/ op.cursor >= Buckets
             THEN Returned([op EXCEPT !.next = op.cursor])
             ELSE [op EXCEPT !.pc = "loop", !.next = op.cursor, !.start = now]
    /\ UNCHANGED <<table, counted, now, bound, ghost>>

GetKeysNext ==
    /\ Scanning /\ op.pc = "loop"
    /\ LET b == Iter(op.next, op.db) IN
        op' = IF b = End THEN Returned([op EXCEPT !.ended = TRUE])
              ELSE [op EXCEPT !.pc = "entry", !.at = b, !.next = b + 1]
    /\ UNCHANGED <<table, counted, now, bound, ghost>>

AfterEntry(o) == IF o.next < o.cursor + (IF o.count = 0 THEN Buckets ELSE o.count) THEN [o EXCEPT !.pc = "loop"] ELSE Returned(o)

GetKeysEntry ==
    /\ Scanning /\ op.pc = "entry"
    /\ LET e == table[op.at] IN
        op' = AfterEntry(IF e = None \/ ~Holds(op.at, op.db) THEN op
                         ELSE IF e.created > op.start THEN op
                         ELSE [op EXCEPT !.got = @ \cup {e.key}])
    /\ UNCHANGED <<table, counted, now, bound, ghost>>

-----------------------------------------------------------------------------
(***************************************************************************)
(* FLUSHDB: one transaction for each entry.                                *)
(***************************************************************************)
FlushNext ==
    /\ op.name = "flush" /\ op.pc = "loop"
    /\ LET b == Iter(op.next, op.db) IN
        op' = IF b = End THEN [op EXCEPT !.pc = "done"] ELSE [op EXCEPT !.pc = "entry", !.at = b]
    /\ UNCHANGED <<table, counted, now, bound, ghost>>

\* Mutants of Flushes: a key of the same millisecond is spared; the entry found
\* under the lock is not compared with what was looked for.
FlushesOlder(b) == Holds(b, op.db) /\ table[b].created < op.start

FlushesAny(b) == Occupied(b) /\ table[b].created <= op.start

Flushes(b) == Holds(b, op.db) /\ table[b].created <= op.start

FlushEntry ==
    /\ op.name = "flush" /\ op.pc = "entry"
    /\ table' = IF Flushes(op.at) THEN [table EXCEPT ![op.at] = None] ELSE table
    /\ op' = [op EXCEPT !.pc = "loop", !.next = op.at + 1]
    /\ UNCHANGED <<counted, now, bound, ghost>>

(* A lock that is not granted: the entry is skipped by all of them.         *)
LockFails ==
    /\ op.pc = "entry" /\ bound.failures > 0
    /\ op' = CASE Scanning -> AfterEntry(op)
               [] op.name = "flush" -> [op EXCEPT !.pc = "loop", !.next = op.at + 1]
               [] op.name = "evict" -> [op EXCEPT !.pc = "search", !.bucket = op.at - op.step]
    /\ bound' = [bound EXCEPT !.failures = @ - 1]
    /\ ghost' = [ghost EXCEPT !.skipped = IF Occupied(op.at) THEN @ \cup {table[op.at].key} ELSE @]
    /\ UNCHANGED <<table, counted, now>>

-----------------------------------------------------------------------------
(***************************************************************************)
(* RANDOMKEY: buckets are tried while the counters say that there are keys. *)
(***************************************************************************)
\* Mutant of Released: the chunks that were tried stay locked.
ReleasedKeepsLocks(o) == [o EXCEPT !.pc = "done"]

(* The transaction is released only when the search is over.                *)
Released(o) == [o EXCEPT !.pc = "done", !.locks = {}]

RandomHit ==
    /\ op.name = "random" /\ op.pc = "loop" /\ KeysCount(op.db) > 0
    /\ \E b \in Bucket : Holds(b, op.db) /\ op' = Released([op EXCEPT !.got = {table[b].key}])
    /\ UNCHANGED <<table, counted, now, bound, ghost>>

RandomMiss ==
    /\ op.name = "random" /\ op.pc = "loop" /\ KeysCount(op.db) > 0
    /\ \E b \in Bucket : ~Holds(b, op.db) /\ op' = [op EXCEPT !.locks = @ \cup {ChunkOf(b)}]
    /\ UNCHANGED <<table, counted, now, bound, ghost>>

RandomNone ==
    /\ op.name = "random" /\ op.pc = "loop" /\ KeysCount(op.db) <= 0
    /\ op' = Released(op)
    /\ UNCHANGED <<table, counted, now, bound, ghost>>

-----------------------------------------------------------------------------
(***************************************************************************)
(* The list of candidates is sorted by their ranks: the bitonic sort of an *)
(* array whose length is a power of two.                                   *)
(***************************************************************************)
Xor(i, j) == IF (i \div j) % 2 = 0 THEN i + j ELSE i - j
And(i, k) == (i \div k) % 2 = 1

\* Mutant of Swapped: every run of the pass is sorted upwards.
SwappedUpwards(kv, i, j, k) ==
    LET low == IF Xor(i, j) > i THEN i ELSE Xor(i, j) IN kv[low].rank > kv[Xor(low, j)].rank

(* A pass exchanges disjoint pairs, i and i ^ j: upwards where i & k is 0.  *)
Swapped(kv, i, j, k) ==
    LET low == IF Xor(i, j) > i THEN i ELSE Xor(i, j)
        high == Xor(low, j)
    IN  IF And(low, k) THEN kv[low].rank < kv[high].rank ELSE kv[low].rank > kv[high].rank

Pass(kv, j, k) == [i \in DOMAIN kv |-> IF Swapped(kv, i, j, k) THEN kv[Xor(i, j)] ELSE kv[i]]

RECURSIVE Passes(_, _, _)
Passes(kv, j, k) ==
    IF k > Cardinality(DOMAIN kv) THEN kv
    ELSE IF j = 0 THEN Passes(kv, k, 2 * k)
    ELSE CHOOSE r \in {Passes(x, j \div 2, k) : x \in {Pass(kv, j, k)}} : TRUE

BitonicSort(kv) == Passes(kv, 1, 2)

-----------------------------------------------------------------------------
(***************************************************************************)
(* storage_db_keys_eviction_run_worker                                     *)
(***************************************************************************)
SegmentSize == Buckets \div ListLength

Candidate(rank, b, e) == [rank |-> rank, bucket |-> b, entry |-> e]

NoCandidate == Candidate(MaxRank, End, None)

(* What is left of the list is filled and the list is sorted.               *)
Listed(o) ==
    [o EXCEPT !.pc = "evict", !.i = 0, !.first = EvictFirst,
              !.sorted = BitonicSort([i \in 0..(ListLength - 1) |->
                                        IF i < Len(o.list) THEN o.list[i + 1] ELSE NoCandidate])]

\* Mutant of Searched: one failed attempt more.
SearchedOnceMore(o) ==
    IF Len(o.list) < ListLength /\ o.attempts <= MaxSearchAttempts THEN [o EXCEPT !.pc = "search"] ELSE Listed(o)

(* The list is complete, or the search has failed too often.                *)
Searched(o) ==
    IF Len(o.list) < ListLength /\ o.attempts < MaxSearchAttempts THEN [o EXCEPT !.pc = "search"] ELSE Listed(o)

Steps == 0..(SegmentSize - 1)

\* Mutant of SearchDistance: the first attempt looks ahead as well.
SearchDistanceFromOne(attempts) == MaxDistance * (attempts + 1)

SearchDistance(attempts) == MaxDistance * attempts

(* The first attempt looks at no chunk at all, as its distance is zero, and *)
(* every attempt that fails goes back to the first bucket.                  *)
EvictSearch(step) ==
    /\ op.name = "evict" /\ op.pc = "search"
    /\ LET b == IterMaxDistance(op.bucket + step, SearchDistance(op.attempts)) IN
        op' = IF b = End THEN Searched([op EXCEPT !.bucket = 0, !.attempts = @ + 1])
              ELSE [op EXCEPT !.pc = "entry", !.at = b, !.bucket = b, !.step = step, !.attempts = 0]
    /\ UNCHANGED <<table, counted, now, bound, ghost>>

\* Mutant of NotCandidate: the keys that never expire are candidates too.
NotCandidateEmpty(e) == e = None

(* A bucket that was emptied, or whose key never expires when only those    *)
(* that do are evicted, is no candidate and no failed attempt either.       *)
NotCandidate(e) == e = None \/ (op.ttl /\ ~e.expires)

EvictEntry ==
    /\ op.name = "evict" /\ op.pc = "entry"
    /\ LET e == table[op.at] IN
        op' = IF NotCandidate(e) THEN [op EXCEPT !.pc = "search", !.bucket = op.at - op.step]
              ELSE Searched([op EXCEPT !.list = Append(@, Candidate(e.rank, op.at, e))])
    /\ UNCHANGED <<table, counted, now, bound, ghost>>

\* Mutant of EvictEnd: the run is not counted.
EvictEndUncounted(o) == [o EXCEPT !.pc = "check", !.locks = {}]

\* Mutant of Checked: the first bucket is read again.
CheckedFirst(b) == Occupied(0)

(* The bucket that is read again is the last one of the search, not the one *)
(* of the candidate.                                                        *)
EvictEnd(o) == [o EXCEPT !.pc = "check", !.iterations = @ + 1, !.locks = {}]

Checked(b) == Occupied(b)

PassedOver(o) == [o EXCEPT !.i = @ + 1, !.first = @ + 1]

EvictKey ==
    /\ op.name = "evict" /\ op.pc = "evict"
    /\ IF op.i >= op.first \/ op.i >= ListLength \/ op.sorted[op.i] = NoCandidate
       THEN op' = EvictEnd(op) /\ UNCHANGED <<table, ghost>>
       ELSE LET b == op.sorted[op.i].bucket
                held == IF Checked(op.bucket) THEN {ChunkOf(op.bucket), ChunkOf(b)} ELSE {ChunkOf(op.bucket)}
                evicts == Checked(op.bucket) /\ Occupied(b)
                locked == [op EXCEPT !.locks = @ \cup held]
            IN  IF evicts
                THEN /\ table' = [table EXCEPT ![b] = None]
                     /\ op' = [locked EXCEPT !.i = @ + 1, !.keys = @ - 1, !.size = @ - 1]
                     /\ ghost' = [ghost EXCEPT !.evicted = Append(@, [candidate |-> op.sorted[op.i], entry |-> table[b]])]
                ELSE op' = PassedOver(locked) /\ UNCHANGED <<table, ghost>>
    /\ UNCHANGED <<counted, now, bound>>

EvictKeyFails ==
    /\ op.name = "evict" /\ op.pc = "evict" /\ bound.failures > 0
    /\ op.i < op.first /\ op.i < ListLength /\ op.sorted[op.i] # NoCandidate
    /\ op' = PassedOver(op)
    /\ bound' = [bound EXCEPT !.failures = @ - 1]
    /\ UNCHANGED <<table, counted, now, ghost>>

-----------------------------------------------------------------------------
(***************************************************************************)
(* The fiber of the eviction: how close the counters are to the hard       *)
(* limits, on the way from the soft limits.                                *)
(***************************************************************************)
Over(x, limit) == limit.soft > 0 /\ x > limit.soft

ShouldRun(o) == o.keys # 0 /\ (Over(o.keys, o.limits.keys) \/ Over(o.size, o.limits.size))

(* How far x is on the way from the soft to the hard limit, compared with   *)
(* p ten-thousandths of it.                                                 *)
Nearer(x, limit, p) == Over(x, limit) /\ (x - limit.soft) * 10000 > p * (limit.hard - limit.soft)

CloseToHardLimit(o, p) == Nearer(o.keys, o.limits.keys, p) \/ Nearer(o.size, o.limits.size, p)

(* The time to wait is less than a hundredth of a second, hence zero, when  *)
(* 1.01 times the way is more than 99%.                                     *)
MayWait(o) == ~CloseToHardLimit(o, 9802)

FiberTurn ==
    /\ op.name = "evict" /\ op.pc = "turn"
    /\ op' \in (IF MayWait(op) THEN {[op EXCEPT !.pc = "check"]} ELSE {})
          \cup {IF op.keys <= 0 \/ op.size <= 0 THEN [op EXCEPT !.pc = "check"]
                ELSE [op EXCEPT !.pc = "search", !.bucket = 0, !.attempts = 0, !.list = <<>>]}
    /\ UNCHANGED <<table, counted, now, bound, ghost>>

FiberCheck ==
    /\ op.name = "evict" /\ op.pc = "check"
    /\ op' = [op EXCEPT !.pc = IF op.iterations < MaxIterations /\ CloseToHardLimit(op, 9900) THEN "turn" ELSE "done"]
    /\ UNCHANGED <<table, counted, now, bound, ghost>>

(* The counters are summed once, when the fiber wakes up.                   *)
FiberWakes ==
    /\ op.name = "evict" /\ op.pc = "wake"
    /\ LET summed == [op EXCEPT !.keys = @ + Cardinality({b \in Bucket : Occupied(b)}),
                                !.size = @ + Cardinality({b \in Bucket : Occupied(b)})]
       IN  op' = [summed EXCEPT !.pc = IF ShouldRun(summed) THEN "turn" ELSE "done"]
    /\ UNCHANGED <<table, counted, now, bound, ghost>>

-----------------------------------------------------------------------------
(* The sort alone, on any list: it is what SortedByRank is checked on.      *)
SortList ==
    /\ op.name = "sort" /\ op.pc = "loop"
    /\ op' = [op EXCEPT !.pc = "done", !.sorted = BitonicSort(@)]
    /\ UNCHANGED <<table, counted, now, bound, ghost>>

Done == op.pc = "done" /\ UNCHANGED vars

FirstPc(name) == CASE name \in {"scan", "keys"} -> "call" [] name = "evict" -> "wake" [] OTHER -> "loop"

InitOf(scenarios) == \E s \in scenarios :
    /\ table = s.table
    /\ counted = s.counted
    /\ now = 1
    /\ op = [name |-> s.name, pc |-> FirstPc(s.name), db |-> s.db, start |-> 1,
             cursor |-> 0, next |-> 0, ended |-> FALSE, count |-> s.count, at |-> 0, got |-> {}, locks |-> {},
             ttl |-> s.ttl, limits |-> s.limits, keys |-> s.counted[s.db], size |-> s.sizeDrift,
             bucket |-> 0, step |-> 0, attempts |-> 0, list |-> <<>>, sorted |-> s.sorted, i |-> 0, first |-> 0,
             iterations |-> 0]
    /\ bound = [puts |-> s.puts, overwrites |-> s.overwrites, removes |-> s.removes, ticks |-> s.ticks,
                failures |-> s.failures]
    /\ ghost = [stayed |-> {s.table[b].key : b \in {x \in Bucket : s.table[x] # None /\ s.table[x].db = s.db}},
                kept |-> {s.table[b].key : b \in {x \in Bucket : s.table[x] # None /\ s.table[x].db # s.db}},
                listed |-> s.sorted, skipped |-> {}, evicted |-> <<>>, quiet |-> TRUE]

Init == InitOf(Scenarios)

Operation ==
    \/ GetKeys \/ GetKeysNext \/ GetKeysEntry
    \/ FlushNext \/ FlushEntry
    \/ RandomHit \/ RandomMiss \/ RandomNone
    \/ FiberWakes \/ FiberTurn \/ FiberCheck
    \/ \E step \in Steps : EvictSearch(step)
    \/ EvictEntry \/ EvictKey
    \/ SortList

Writers == Put \/ Overwrite \/ Remove \/ Tick

Next == Operation \/ Writers \/ LockFails \/ EvictKeyFails \/ Done

(* A random number that leads the search to a candidate or, after a failed  *)
(* attempt, to nothing.                                                     *)
EvictAdvances ==
    \E step \in Steps :
        /\ op.attempts > 0 /\ EvictSearch(step)
        /\ op'.pc = "entry" => ~NotCandidate(table[op'.at])

(* The fiber of the operation is scheduled.  Of the random numbers that are *)
(* drawn again and again, one that ends the search is drawn some time.      *)
Fairness ==
    /\ WF_vars(Operation)
    /\ SF_vars(RandomHit \/ EvictAdvances)

Spec == Init /\ [][Next]_vars /\ Fairness

-----------------------------------------------------------------------------
(***************************************************************************)
(* Properties                                                              *)
(***************************************************************************)
TypeOK ==
    /\ \A b \in Bucket : table[b] # None => table[b].created \in 0..now
    /\ op.next \in 0..Buckets /\ op.cursor \in 0..Buckets
    /\ op.at \in Bucket /\ op.bucket \in Bucket
    /\ op.attempts \in 0..MaxSearchAttempts /\ Len(op.list) <= ListLength
    /\ op.iterations \in 0..MaxIterations
    /\ op.locks \subseteq {ChunkOf(b) : b \in Bucket}

(* storage_db_op_get_keys: a client that scans until the cursor is 0, or    *)
(* calls KEYS, is given every key that was there all the time and was not   *)
(* written meanwhile, whatever the other threads put and remove; only a key *)
(* whose lock was not granted is missing, or all of them when the counters  *)
(* wrongly say that there are none.                                         *)
ScanComplete ==
    (Scanning /\ op.pc = "done" /\ counted[op.db] >= 0) => ghost.stayed \subseteq op.got \cup ghost.skipped

(* module_redis_command_keys.c asserts that the cursor is 0 at the end: it  *)
(* is not, and only then, when the last bucket read is the last one of the  *)
(* table.                                                                   *)
KeysCursorEnds ==
    (op.name = "keys" /\ op.pc = "done" /\ op.cursor # 0) => op.cursor = Buckets /\ op.at = Buckets - 1

(* storage_db_op_flush_sync: of the keys that were in the database, and     *)
(* were not written meanwhile, none is left but those whose lock was not    *)
(* granted.                                                                 *)
FlushComplete ==
    (op.name = "flush" /\ op.pc = "done") => ghost.stayed \cap KeysOf(op.db) \subseteq ghost.skipped

(* FLUSHDB deletes no key of another database and none written after it     *)
(* started, though the bucket it found may hold another entry when it is    *)
(* locked.                                                                  *)
FlushSpares ==
    op.name = "flush" => \A k \in ghost.kept : \E b \in Bucket : Occupied(b) /\ table[b].key = k

(* The transactions of RANDOMKEY and of the eviction lock chunk after       *)
(* chunk; at the end no writer is left waiting for them.                    *)
LocksReleased == op.pc \in {"done", "check"} => op.locks = {}

(* storage_db_keys_eviction_bitonic_sort_16_elements puts any list in the   *)
(* order of the ranks and loses no candidate.                               *)
SortedByRank ==
    op.pc = "evict" \/ (op.name = "sort" /\ op.pc = "done") =>
        /\ \A i, j \in DOMAIN op.sorted : i < j => op.sorted[i].rank <= op.sorted[j].rank
        /\ LET before == IF op.name = "sort" THEN ghost.listed
                         ELSE [i \in 0..(ListLength - 1) |-> IF i < Len(op.list) THEN op.list[i + 1] ELSE NoCandidate]
           IN  \A c \in {before[i] : i \in DOMAIN before} :
                   Cardinality({i \in DOMAIN before : before[i] = c})
                       = Cardinality({i \in DOMAIN op.sorted : op.sorted[i] = c})

(* With only_ttl no key that never expires is evicted, but the one another  *)
(* thread stored in the bucket of a candidate after it was chosen.          *)
OnlyTtlEvicted ==
    op.ttl => \A i \in DOMAIN ghost.evicted :
                  ghost.evicted[i].entry.expires \/ ghost.evicted[i].entry # ghost.evicted[i].candidate.entry

(* With no write meanwhile, a run that has candidates evicts one, unless    *)
(* the search ended for its failed attempts, at bucket 0, and that bucket   *)
(* is empty: it is that bucket that is read again.                          *)
EvictsSome ==
    (op.name = "evict" /\ op.pc = "check" /\ op.iterations = 1 /\ op.list # <<>> /\ ghost.quiet /\ ghost.skipped = {}
        /\ op.sorted[0] # NoCandidate /\ bound.failures = 0) =>
        ghost.evicted # <<>> \/ (op.attempts = MaxSearchAttempts /\ ~Occupied(0))

(* The candidates are the keys nearest to the buckets of the first segment: *)
(* a segment is one part in ListLength of the table, and the search starts  *)
(* from the first one for every candidate.                                  *)
CandidatesNear ==
    (op.name = "evict" /\ op.iterations = 0 /\ op.pc \in {"search", "entry"} /\ ghost.quiet) =>
        \A i \in DOMAIN op.list : \E s \in Steps : op.list[i].bucket = First({b \in Bucket : b >= s /\ Occupied(b)})

(* A scan whose cursor is given back as it was goes on for ever: the key in *)
(* the last bucket was read, or the database is empty now.                  *)
CursorStuck ==
    /\ op.name = "scan" /\ op.pc = "call" /\ op.cursor # 0
    /\ op.cursor >= Buckets \/ KeysCount(op.db) = 0

(* The counters say that there are keys and there is none.                  *)
NothingToFind == op.name = "random" /\ KeysCount(op.db) > 0 /\ KeysOf(op.db) = {}

(* No bucket of the first segment has an expiring key as its nearest one,   *)
(* and some has one that does not expire: that the search ends is left to   *)
(* chance, and impossible when every bucket has such a key.                 *)
Nearest(s) == First({b \in Bucket : b >= s /\ Occupied(b)})

NoneExpires ==
    /\ op.name = "evict" /\ op.ttl
    /\ \A s \in Steps : Nearest(s) # End => ~table[Nearest(s)].expires
    /\ \E s \in Steps : Nearest(s) # End

(* One counter is negative or zero, the other near to its hard limit; they  *)
(* are not summed again.                                                    *)
FiberSpins ==
    /\ op.name = "evict" /\ op.pc \in {"turn", "check"}
    /\ op.keys <= 0 \/ op.size <= 0
    /\ CloseToHardLimit(op, 9900)

(* SCAN, KEYS, FLUSHDB, RANDOMKEY and a turn of the eviction all end, the   *)
(* four cases above excepted.                                               *)
Settled == op.pc = "done" \/ CursorStuck \/ NothingToFind \/ NoneExpires \/ FiberSpins

=============================================================================
