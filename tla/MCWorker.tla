------------------------------ MODULE MCWorker ------------------------------
(***************************************************************************)
(* The parts of a worker for TLC: its fibers and its ring (Fibers), its    *)
(* walks over all keys (KeysIteration), its shards and files (Storage),    *)
(* the entry indexes it has to free (StorageDb) and the queues it shares   *)
(* with others (QueueMpmc).  They share no state here: a behaviour runs    *)
(* one of them, the others are idle.                                       *)
(***************************************************************************)
EXTENDS MCStorageDb

CONSTANTS f3, None

VARIABLES
    component,
    f_stack, f_size, f_fb, f_list, f_joining, f_entries, f_sq, f_ring, f_cq, f_worker, f_orphans,
    i_table, i_counted, i_now, i_op, i_bound, i_ghost,
    s_shards, s_active, s_lock, s_content, s_fiber, s_running, s_stats, s_open, s_memory, s_reader, s_made,
    s_scenario, s_ghost,
    q_head, q_pages, q_th, q_calls, q_popped, q_freed

fiber_vars == <<f_stack, f_size, f_fb, f_list, f_joining, f_entries, f_sq, f_ring, f_cq, f_worker, f_orphans>>
iter_vars == <<i_table, i_counted, i_now, i_op, i_bound, i_ghost>>
store_vars == <<s_shards, s_active, s_lock, s_content, s_fiber, s_running, s_stats, s_open, s_memory, s_reader,
                s_made, s_scenario, s_ghost>>
queue_vars == <<q_head, q_pages, q_th, q_calls, q_popped, q_freed>>

Fib == INSTANCE Fibers WITH
    Listener <- "listener", Registered <- {"listener", "load"}, Clients <- {"c1", "c2"},
    Scheduler <- "scheduler", Nobody <- "nobody", StackMax <- 5, Entries <- {3, 6}, Waits <- 2,
    stack <- f_stack, size <- f_size, fb <- f_fb, list <- f_list, joining <- f_joining, entries <- f_entries,
    sq <- f_sq, ring <- f_ring, cq <- f_cq, worker <- f_worker, orphans <- f_orphans

Iter == INSTANCE MCKeysIteration WITH
    Scenarios <- {}, Buckets <- 8, ChunkSlots <- 2, ListLength <- 4, EvictFirst <- 2,
    MaxDistance <- 4, MaxSearchAttempts <- 2, MaxIterations <- 2, MaxRank <- 9,
    table <- i_table, counted <- i_counted, now <- i_now, op <- i_op, bound <- i_bound, ghost <- i_ghost

Store == INSTANCE MCStorage WITH
    Fibers <- {f1, f2, f3}, Workers <- {w1, w2}, Scenarios <- {},
    ChunkMax <- 2, Megabyte <- 2, Width <- 8, BufferLength <- 6, Page <- 1, FileLength <- 9, Errno <- 2,
    shards <- s_shards, active <- s_active, lock <- s_lock, content <- s_content, fiber <- s_fiber,
    running <- s_running, stats <- s_stats, open <- s_open, memory <- s_memory, reader <- s_reader,
    made <- s_made, scenario <- s_scenario, ghost <- s_ghost

Queue == INSTANCE MCQueueMpmc WITH
    Threads <- 1..3, Pages <- 1..4, NodesPerPage <- 2, Versions <- 4, NoPage <- 0, Scenarios <- {},
    head <- q_head, pages <- q_pages, th <- q_th, calls <- q_calls, popped <- q_popped, freed <- q_freed

-----------------------------------------------------------------------------
(* Idle: an ended worker, an operation that is done, fibers that are done,  *)
(* a database with no keys, no calls.                                       *)
FibIdle ==
    /\ f_stack = <<"scheduler">> /\ f_size = 1 /\ f_list = <<>> /\ f_joining = "nobody" /\ f_entries = 3
    /\ f_fb = [f \in Fib!AllFibers |-> [state |-> "none", op |-> 0, terminate |-> FALSE, ret |-> 0, freed |-> 0]]
    /\ f_sq = {} /\ f_ring = {} /\ f_cq = <<>> /\ f_worker = "ended" /\ f_orphans = {}

IterIdle ==
    /\ i_op = [name |-> "none", pc |-> "done", attempts |-> 0]
    /\ i_table = None /\ i_counted = None /\ i_now = 0 /\ i_bound = None /\ i_ghost = None

StoreIdle ==
    /\ s_fiber = [f \in {f1, f2, f3} |-> [pc |-> "done"]] /\ s_scenario = [kind |-> "none"]
    /\ s_shards = <<>> /\ s_active = <<>> /\ s_lock = None /\ s_content = {} /\ s_running = None /\ s_stats = 0
    /\ s_open = 0 /\ s_memory = 0 /\ s_reader = None /\ s_made = {} /\ s_ghost = None

QueueIdle ==
    /\ q_th = [t \in 1..3 |-> [pc |-> "idle"]]
    /\ q_head = None /\ q_pages = None /\ q_calls = None /\ q_popped = None /\ q_freed = TRUE

WorkerInit ==
    /\ Init
    /\ \/ component = "lists" /\ FibIdle /\ IterIdle /\ StoreIdle /\ QueueIdle
       \/ component = "fibers" /\ Fib!Init /\ IterIdle /\ StoreIdle /\ QueueIdle
       \/ component = "iteration" /\ FibIdle /\ Iter!MCInit /\ StoreIdle /\ QueueIdle
       \/ component = "storage" /\ FibIdle /\ IterIdle /\ Store!MCInit /\ QueueIdle
       \/ component = "queue" /\ FibIdle /\ IterIdle /\ StoreIdle /\ Queue!MCInit

WorkerNext ==
    \/ component = "lists" /\ Next /\ UNCHANGED <<component, fiber_vars, iter_vars, store_vars, queue_vars>>
    \/ component = "fibers" /\ Fib!Next /\ UNCHANGED <<component, vars, iter_vars, store_vars, queue_vars>>
    \/ component = "iteration" /\ Iter!Next /\ UNCHANGED <<component, vars, fiber_vars, store_vars, queue_vars>>
    \/ component = "storage" /\ Store!Next /\ UNCHANGED <<component, vars, fiber_vars, iter_vars, queue_vars>>
    \/ component = "queue" /\ Queue!Next /\ UNCHANGED <<component, vars, fiber_vars, iter_vars, store_vars>>

WorkerSpec ==
    /\ WorkerInit
    /\ [][WorkerNext]_<<component, vars, fiber_vars, iter_vars, store_vars, queue_vars>>
    /\ FairTo(e1) /\ Fib!Fairness /\ Iter!Fairness /\ Store!Fairness /\ Queue!Fairness

-----------------------------------------------------------------------------
(***************************************************************************)
(* The properties, which the modules state and explain.                    *)
(***************************************************************************)
Of(part, P) == component = part => P

\* Types of the variables of the components.
WorkerTypeOK ==
    /\ Of("fibers", Fib!TypeOK)
    /\ Of("iteration", Iter!TypeOK) /\ Of("storage", Store!TypeOK) /\ Of("lists", TypeOK)
    /\ Of("queue", Queue!TypeOK)

\* fiber_scheduler_* and worker_fiber_*: a fiber is resumed by its own completion, is freed
\* once and at the latest with its worker, unless it is a client that waits, and the
\* stack of the scheduler never reaches its limit.
FibersSound == Of("fibers",
    Fib!FreedOnce /\ Fib!ResumedByItsOwn /\ Fib!StackBounded /\ Fib!FreedAtEnd)

(***************************************************************************)
(* The walks over all keys while others write: SCAN and KEYS give every    *)
(* key that stayed and end with cursor 0, FLUSHDB deletes all keys of its  *)
(* database that were there and no other one, and no chunk stays locked    *)
(* (storage_db_op_get_keys, _op_flush_sync, _op_random_key).  Keys whose   *)
(* lock was not granted, and the last bucket, are the exceptions.          *)
(***************************************************************************)
WalksComplete == Of("iteration",
    /\ Iter!ScanComplete /\ Iter!KeysCursorEnds
    /\ Iter!FlushComplete /\ Iter!FlushSpares /\ Iter!LocksReleased)

\* storage_db_keys_eviction_run_worker: the candidates are the keys nearest to the first
\* segment, they are sorted by rank with none lost, one of them at least is evicted, and
\* with only_ttl none that never expires.
EvictionSound == Of("iteration",
    Iter!CandidatesNear /\ Iter!SortedByRank /\ Iter!EvictsSome /\ Iter!OnlyTtlEvicted)

(***************************************************************************)
(* A value on the disk is the one that was written, whatever the fibers of *)
(* the workers allocate meanwhile and whatever fails: two chunks share no  *)
(* byte, a chunk lies inside its shard, a shard is created under the lock, *)
(* a file is read in order; and the files, the chunks in memory and the    *)
(* parts of a database that are given up are given back.                   *)
(***************************************************************************)
StorageSound == Of("storage",
    /\ Store!ChunksDisjoint /\ Store!ChunksInShard /\ Store!OneShardAtATime
    /\ Store!ReadsWhatWasWritten /\ Store!SlicesInOrder
    /\ Store!OpenFilesExact /\ Store!ClosedWithTheDatabase /\ Store!MemoryOwned /\ Store!NothingLeft)

\* queue_mpmc_push and _pop: the head points at the element that its length counts, no
\* value is popped twice or lost, and every page is freed.
QueueSound == Of("queue",
    Queue!HeadExact /\ Queue!LengthExact /\ Queue!PoppedOnce /\ Queue!NoPageLost)

(***************************************************************************)
(* What a worker begins it ends: completions are processed; SCAN, FLUSHDB, *)
(* RANDOMKEY and the eviction end; a fiber gets its chunks and gives them  *)
(* back; an entry index that waits for its readers is freed (e1 stands for *)
(* any of them, as they are all alike); and the calls of the queue return. *)
(* The cases in which they do not are those that the modules name.         *)
(***************************************************************************)
WorkEnds ==
    []<> /\ Fib!NoEventLeft
         /\ Iter!Settled
         /\ Store!FibersDone
         /\ ~Deleting(e1)
         /\ Queue!AllIdle
=============================================================================
