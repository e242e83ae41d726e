------------------------------ MODULE Storage ------------------------------
(***************************************************************************)
(* The storage: channels (storage.c) over the io_uring or the posix        *)
(* operations, the shards a database of files writes its chunks to and the *)
(* chunks themselves (storage_db.c), the read ahead of a buffered channel  *)
(* (storage_buffered.c), and the construction and the end of a database.   *)
(*                                                                         *)
(* A fiber allocates the chunks of a value, writes them, reads them again  *)
(* and frees them.  It leaves its worker to the other fibers only where it *)
(* waits for an operation or for the lock of the shards; running[w] is the *)
(* fiber that has not done so yet.                                         *)
(***************************************************************************)
EXTENDS Integers, Sequences, FiniteSets, SequencesExt

CONSTANTS
    Scenarios,      \* records: kind, backend, posix, sizes, faults, ...
    Fibers, Workers,
    ChunkMax,       \* STORAGE_DB_CHUNK_MAX_SIZE
    Megabyte, Width, \* the size of a shard is a number below Width
    BufferLength, Page, FileLength, Errno,
    None

VARIABLES
    shards,     \* the opened shards, in the order they were created
    active,     \* the shard each worker writes to, 0 for none
    lock,       \* db->shards.write_spinlock
    content,    \* what each chunk on the disk holds
    fiber, running,
    stats,      \* open_files
    open,       \* the channels that are open
    memory,     \* how many chunks are allocated
    reader,     \* a buffered channel that is read
    made,       \* the parts of a database that are allocated
    scenario, ghost

vars == <<shards, active, lock, content, fiber, running, stats, open, memory, reader, made, scenario, ghost>>

files == <<shards, active, lock, stats, open>>

MayFail == ghost.faults < scenario.faults
Fault(fails) == ghost' = [ghost EXCEPT !.faults = IF fails THEN @ + 1 ELSE @]

HomeOf(f) == scenario.worker[f]

-----------------------------------------------------------------------------
(***************************************************************************)
(* Channels.  A failed close leaves the file counted.                      *)
(***************************************************************************)
StorageOpen == stats' = stats + 1 /\ open' = open + 1

\* Mutant of StorageClose: the file is not counted any more, closed or not.
StorageCloseAlways(n, failed) == stats' = stats - n /\ open' = open - n

StorageClose(n, failed) == stats' = stats - (n - failed) /\ open' = open - n

(* A step of fiber f that keeps its worker, and one that gives it up.       *)
Runs(f) == running[HomeOf(f)] \in {None, f}
Keeps(f) == running' = [running EXCEPT ![HomeOf(f)] = f]
Yields(f) == running' = [running EXCEPT ![HomeOf(f)] = None]

(* The operations of io_uring give the worker up until they complete, those *)
(* of posix block it.                                                       *)
Waits(f) == IF scenario.posix THEN Keeps(f) ELSE Yields(f)

At(f, pc) == scenario.kind = "chunks" /\ fiber[f].pc = pc /\ Runs(f)

-----------------------------------------------------------------------------
(***************************************************************************)
(* The chunks of a value.                                                  *)
(***************************************************************************)
ChunkLength(left) == IF left < ChunkMax THEN left ELSE ChunkMax

\* Mutant of NewIsNeeded: any room left is room enough.
NewIsNeededLate(shard, length) == shard.offset >= shard.size

(* storage_db_shard_new_is_needed                                           *)
NewIsNeeded(shard, length) == shard.offset + length > shard.size

HasRoom(w, length) == active[w] # 0 /\ ~NewIsNeeded(shards[active[w]], length)

Chunk(s, offset, length) == [shard |-> s, offset |-> offset, length |-> length]

\* Mutant of Taken: the offset of the shard stays where it is for a short chunk.
TakenShort(all, s, length) == IF length < ChunkMax THEN all ELSE [all EXCEPT ![s].offset = @ + length]

Taken(all, s, length) == [all EXCEPT ![s].offset = @ + length]

(* The next chunk of the fiber is allocated; the last one ends the loop.    *)
Next1(f, chunk) ==
    LET left == fiber[f].left - chunk.length IN
    fiber' = [fiber EXCEPT ![f].chunks = Append(@, chunk), ![f].left = left,
                           ![f].pc = IF left = 0 THEN "write" ELSE "chunk"]

\* Mutant of Released: the chunks that were allocated before the failure stay.
ReleasedNone(f) == memory

Released(f) == memory - (IF scenario.backend = "memory" THEN Len(fiber[f].chunks) ELSE 0)

(* The end of storage_db_chunk_sequence_allocate after a failure.           *)
AllocationFails(f) ==
    /\ memory' = Released(f)
    /\ fiber' = [fiber EXCEPT ![f].chunks = <<>>, ![f].pc = "failed"]

(* storage_db_chunk_sequence_allocate: a value of no size has no chunks.    *)
AllocateBegins(f) ==
    /\ At(f, "start")
    /\ \E fails \in BOOLEAN :
        /\ fails => MayFail /\ fiber[f].left > 0
        /\ Fault(fails)
        /\ fiber' = [fiber EXCEPT ![f].pc = IF fails THEN "failed" ELSE IF fiber[f].left = 0 THEN "write" ELSE "chunk"]
        /\ IF fails THEN Yields(f) ELSE Keeps(f)
    /\ UNCHANGED <<files, content, memory, reader, made, scenario>>

AllocateInMemory(f) ==
    /\ At(f, "chunk") /\ scenario.backend = "memory"
    /\ \E fails \in BOOLEAN :
        /\ fails => MayFail
        /\ Fault(fails)
        /\ IF fails THEN AllocationFails(f) /\ Yields(f)
           ELSE Next1(f, Chunk(0, 0, ChunkLength(fiber[f].left))) /\ memory' = memory + 1 /\ Keeps(f)
    /\ UNCHANGED <<files, content, reader, made, scenario>>

AllocateInShard(f) ==
    LET w == HomeOf(f)  length == ChunkLength(fiber[f].left) IN
    /\ At(f, "chunk") /\ scenario.backend = "file" /\ HasRoom(w, length)
    /\ Next1(f, Chunk(active[w], shards[active[w]].offset, length))
    /\ shards' = Taken(shards, active[w], length)
    /\ Keeps(f)
    /\ UNCHANGED <<active, lock, stats, open, content, memory, reader, made, scenario, ghost>>

AllocateNeedsShard(f) ==
    /\ At(f, "chunk") /\ scenario.backend = "file" /\ ~HasRoom(HomeOf(f), ChunkLength(fiber[f].left))
    /\ fiber' = [fiber EXCEPT ![f].pc = "lock"]
    /\ Keeps(f)
    /\ UNCHANGED <<files, content, memory, reader, made, scenario, ghost>>

-----------------------------------------------------------------------------
(***************************************************************************)
(* A new shard.  The operations of io_uring may find no entry to be        *)
(* submitted with, which fails them at once.                               *)
(***************************************************************************)
ShardSize == (scenario.megabytes * Megabyte) % Width

LockBusy(f) ==
    /\ At(f, "lock") /\ lock # None
    /\ Yields(f)
    /\ UNCHANGED <<files, content, fiber, memory, reader, made, scenario, ghost>>

\* Mutant of ShardFails: the lock stays taken.
ShardFailsLocked(f) == AllocationFails(f) /\ lock' = f /\ UNCHANGED <<shards, active>>

ShardFails(f) == AllocationFails(f) /\ lock' = None /\ UNCHANGED <<shards, active>>

\* Mutant of LockTaken: the lock is not taken.
LockTakenNot(f) == lock' = lock

LockTaken(f) == lock' = f

(* Submits the open of the file.                                            *)
LockAndOpen(f) ==
    /\ At(f, "lock") /\ lock = None
    /\ \E fails \in BOOLEAN :
        /\ fails => MayFail
        /\ Fault(fails)
        /\ IF fails THEN ShardFails(f)
           ELSE LockTaken(f) /\ fiber' = [fiber EXCEPT ![f].pc = "open"] /\ UNCHANGED <<shards, active, memory>>
        /\ IF fails THEN Yields(f) ELSE Waits(f)
    /\ UNCHANGED <<stats, open, content, reader, made, scenario>>

Opened(f) ==
    /\ At(f, "open")
    /\ \E fails \in BOOLEAN :
        /\ fails => MayFail
        /\ Fault(fails)
        /\ IF fails THEN ShardFails(f) /\ UNCHANGED <<stats, open>>
           ELSE /\ StorageOpen
                /\ fiber' = [fiber EXCEPT ![f].pc = "fallocate"]
                /\ UNCHANGED <<shards, active, lock, memory>>
        /\ IF fails THEN Yields(f) ELSE Waits(f)
    /\ UNCHANGED <<content, reader, made, scenario>>

\* Mutant of CloseAfterFailure: the file stays open.
CloseAfterFailureNot(closeFails) == UNCHANGED <<stats, open>>

CloseAfterFailure(closeFails) == StorageClose(1, IF closeFails THEN 1 ELSE 0)

(* The file is closed when it cannot be allocated, and no length is not a   *)
(* length; the chunk goes in the new shard, with no other look at its size. *)
Fallocated(f) ==
    LET s == Len(shards) + 1
        length == ChunkLength(fiber[f].left)
    IN
    /\ At(f, "fallocate")
    /\ \E fails \in BOOLEAN : \E closeFails \in IF fails THEN BOOLEAN ELSE {FALSE} :
        /\ fails \/ closeFails => MayFail \/ (ShardSize = 0 /\ ~closeFails)
        /\ ShardSize = 0 => fails
        /\ ghost' = [ghost EXCEPT !.faults = IF (fails /\ ShardSize > 0) \/ closeFails THEN @ + 1 ELSE @,
                                  !.closes = IF closeFails THEN @ + 1 ELSE @]
        /\ IF fails
           THEN /\ CloseAfterFailure(closeFails)
                /\ ShardFails(f) /\ Yields(f)
           ELSE /\ shards' = Taken(Append(shards, [worker |-> HomeOf(f), offset |-> 0, size |-> ShardSize]), s, length)
                /\ active' = [active EXCEPT ![HomeOf(f)] = s]
                /\ lock' = None
                /\ Next1(f, Chunk(s, 0, length))
                /\ Keeps(f) /\ UNCHANGED <<stats, open, memory>>
    /\ UNCHANGED <<content, reader, made, scenario>>

-----------------------------------------------------------------------------
(***************************************************************************)
(* Reads and writes.                                                       *)
(***************************************************************************)
(* An operation that would block is submitted again.                        *)
IouringOutcomes == {"again", "error", "short"}

(* errno is compared with -EAGAIN: an operation that would block fails.     *)
PosixOutcomes == {"error", "short"}

Outcomes == {"done"} \cup IF ~MayFail THEN {} ELSE IF scenario.posix THEN PosixOutcomes ELSE IouringOutcomes

Retries(outcome) == outcome = "again"

(* The writes of a fiber, one chunk after the other, and the reads after.   *)
Current(f) == fiber[f].chunks[fiber[f].at]

FinishedOp(f, pc, next) ==
    fiber' = [fiber EXCEPT ![f].at = IF fiber[f].at = Len(fiber[f].chunks) THEN 1 ELSE @ + 1,
                           ![f].pc = IF fiber[f].at >= Len(fiber[f].chunks) THEN next ELSE pc]

OnDisk(c) == {x \in content : x.shard = c.shard /\ x.offset = c.offset}

Written(f, c) == content' = (content \ OnDisk(c)) \cup {[shard |-> c.shard, offset |-> c.offset, by |-> f]}

ChunkWrite(f) ==
    /\ At(f, "write")
    /\ IF fiber[f].chunks = <<>> \/ scenario.backend = "memory"
       THEN fiber' = [fiber EXCEPT ![f].pc = "read"] /\ UNCHANGED <<content, ghost>> /\ Keeps(f)
       ELSE \E outcome \in Outcomes :
            /\ Fault(outcome # "done")
            /\ Waits(f)
            /\ IF outcome = "done" THEN Written(f, Current(f)) /\ FinishedOp(f, "write", "read")
               ELSE /\ IF outcome = "short" THEN Written("partly", Current(f)) ELSE UNCHANGED content
                    /\ fiber' = [fiber EXCEPT ![f].pc = IF Retries(outcome) THEN "write" ELSE "free"]
    /\ UNCHANGED <<files, memory, reader, made, scenario>>

\* Mutant of ReadResult: a short read is taken for a whole one.
ReadResultShort(f, outcome) ==
    IF outcome \in {"done", "short"} THEN {x.by : x \in OnDisk(Current(f))} ELSE {}

ReadResult(f, outcome) ==
    IF outcome = "done" THEN {x.by : x \in OnDisk(Current(f))} ELSE {}

(* storage_db_get_chunk_data: the buffer of a read that failed is not       *)
(* returned, and not freed.                                                 *)
ChunkRead(f) ==
    /\ At(f, "read")
    /\ IF fiber[f].chunks = <<>> \/ scenario.backend = "memory"
       THEN fiber' = [fiber EXCEPT ![f].pc = "free"] /\ UNCHANGED ghost /\ Keeps(f)
       ELSE \E outcome \in Outcomes :
            /\ ghost' = [ghost EXCEPT !.faults = IF outcome = "done" THEN @ ELSE @ + 1,
                                      !.read = IF Retries(outcome) THEN @ ELSE @ \cup {[by |-> f, got |-> ReadResult(f, outcome), outcome |-> outcome]}]
            /\ Waits(f)
            /\ IF outcome = "done" THEN FinishedOp(f, "read", "free")
               ELSE fiber' = [fiber EXCEPT ![f].pc = IF Retries(outcome) THEN "read" ELSE "free"]
    /\ UNCHANGED <<files, content, memory, reader, made, scenario>>

(* storage_db_chunk_sequence_free_chunks: nothing of a file is freed.       *)
ChunksFree(f) ==
    /\ At(f, "free")
    /\ memory' = Released(f)
    /\ fiber' = [fiber EXCEPT ![f].chunks = IF scenario.backend = "memory" THEN <<>> ELSE @, ![f].pc = "done"]
    /\ Yields(f)
    /\ UNCHANGED <<files, content, reader, made, scenario, ghost>>

Done(f) == fiber[f].pc \in {"done", "failed"}

(* storage_db_close                                                         *)
StorageDbClose ==
    /\ scenario.kind = "chunks" /\ \A f \in Fibers : Done(f)
    /\ ~ghost.closed
    /\ \E failed \in 0..Len(shards) :
        /\ failed > 0 => MayFail
        /\ StorageClose(Len(shards), failed)
        /\ ghost' = [ghost EXCEPT !.closed = TRUE, !.closes = @ + failed]
    /\ UNCHANGED <<shards, active, lock, content, fiber, running, memory, reader, made, scenario>>

-----------------------------------------------------------------------------
(***************************************************************************)
(* A buffered channel that is read: byte i of the file is i.               *)
(***************************************************************************)
RoundedUp(n) == n - (n % Page) + 2 * Page

Smaller(a, b) == IF a < b THEN a ELSE b

(* Whether what is left has to be moved to the start of the buffer.         *)
Moves(r, n) == r.size + RoundedUp(n) > BufferLength

ReadLength(r) ==
    LET left == r.size - r.offset
        wanted == RoundedUp(r.asked - left)
    IN  IF Moves(r, r.asked - left) THEN Smaller(wanted, BufferLength - left) ELSE wanted

\* Mutant of Position: the channel moves by what it asked for.
PositionAsked(r, count) == r.position + ReadLength(r)

Position(r, count) == r.position + count

(* storage_buffered_read_ahead, of which the read gives count bytes.  The   *)
(* bytes are put behind the ones that are left as if these were at the      *)
(* start, moved or not.                                                     *)
ReadAhead(r, count) ==
    LET left == r.size - r.offset
        kept == IF Moves(r, r.asked - left)
                THEN [i \in 1..BufferLength |-> IF i <= left THEN r.data[r.offset + i] ELSE r.data[i]] ELSE r.data
    IN  [r EXCEPT !.data = [i \in 1..BufferLength |-> IF i > left /\ i <= left + count THEN r.position + i - left ELSE kept[i]],
                  !.size = left + count, !.offset = 0, !.position = Position(r, count),
                  !.stale = @ \/ (left > 0 /\ r.offset > 0 /\ ~Moves(r, r.asked - left))]

(* An error is taken for a count: it takes bytes away, and with fewer left  *)
(* than its number the size is below zero, which no number of bytes is.     *)
AcquireReads(n) ==
    LET r == [reader EXCEPT !.asked = n]
        there == Smaller(ReadLength(r), FileLength - r.position)
    IN
    /\ scenario.kind = "reader" /\ reader.status = "open" /\ n > reader.size - reader.offset
    /\ \E count \in {there} \cup (IF MayFail THEN {-Errno} ELSE {}) :
        /\ Fault(count < 0)
        /\ \E next \in {ReadAhead(r, count)} :
           LET taken == Smaller(next.size, n) IN
            reader' = IF next.size < 0 THEN [next EXCEPT !.status = "undefined"]
                      ELSE [next EXCEPT !.offset = taken, !.slice = SubSeq(next.data, 1, taken), !.sum = @ + taken]
    /\ UNCHANGED <<files, content, fiber, running, memory, made, scenario>>

AcquireBuffered(n) ==
    /\ scenario.kind = "reader" /\ reader.status = "open" /\ n <= reader.size - reader.offset
    /\ reader' = [reader EXCEPT !.slice = SubSeq(reader.data, reader.offset + 1, reader.offset + n), !.offset = @ + n, !.sum = @ + n]
    /\ UNCHANGED <<files, content, fiber, running, memory, made, scenario, ghost>>

-----------------------------------------------------------------------------
(***************************************************************************)
(* storage_db_new and storage_db_free: the parts of a database in the      *)
(* order they are allocated in; two of them are not looked at.             *)
(***************************************************************************)
P(part) == <<part, 0>>

Parts ==
    <<P("hashtable config"), P("hashtable"), P("workers")>>
    \o FlattenSeq([w \in 1..Cardinality(Workers) |-> <<<<"ring", w>>, <<"list", w>>>>])
    \o <<P("db"), P("bitmap"), P("queue")>> \o (IF scenario.backend = "file" THEN <<P("opened shards")>> ELSE <<>>)

PerWorker == {<<x, w>> : x \in {"ring", "list"}, w \in 1..Cardinality(Workers)}

Checked(part) == part \notin {P("bitmap"), P("queue")}

\* Mutant of FreedAfterFailure: the lists of the workers are forgotten.
FreedAfterFailureNoLists == {P("hashtable config"), P("hashtable"), P("workers"), P("db"), P("opened shards")}
                            \cup {p \in PerWorker : p[1] = "ring"}

FreedAfterFailure == {P("hashtable config"), P("hashtable"), P("workers"), P("db"), P("opened shards")} \cup PerWorker

FreedAtEnd == FreedAfterFailure \cup {P("bitmap")}

New ==
    /\ scenario.kind = "new" /\ ghost.status = "new" /\ ghost.step < Len(Parts)
    /\ \E fails \in BOOLEAN :
        /\ fails => MayFail /\ Checked(Parts[ghost.step + 1])
        /\ made' = IF fails THEN made \ FreedAfterFailure ELSE made \cup {Parts[ghost.step + 1]}
        /\ ghost' = [ghost EXCEPT !.step = @ + 1, !.status = IF fails THEN "failed" ELSE "new"]
    /\ UNCHANGED <<files, content, fiber, running, memory, reader, scenario>>

Free ==
    /\ scenario.kind = "new" /\ ghost.status = "new" /\ ghost.step = Len(Parts)
    /\ made' = made \ FreedAtEnd
    /\ ghost' = [ghost EXCEPT !.status = "freed"]
    /\ UNCHANGED <<files, content, fiber, running, memory, reader, scenario>>

-----------------------------------------------------------------------------
Idle ==
    /\ \/ ghost.closed \/ ghost.status # "new" \/ reader.status = "undefined" \/ scenario.kind = "reader"
    /\ UNCHANGED vars

InitOf(scenarios) == \E s \in scenarios :
    /\ scenario = s
    /\ shards = <<>> /\ active = [w \in Workers |-> 0] /\ lock = None
    /\ content = {}
    /\ fiber = [f \in Fibers |-> [pc |-> "start", left |-> s.size[f], chunks |-> <<>>, at |-> 1]]
    /\ running = [w \in Workers |-> None]
    /\ stats = 0 /\ open = 0 /\ memory = 0 /\ made = {}
    /\ reader = [status |-> "open", data |-> [i \in 1..BufferLength |-> 0], size |-> 0, offset |-> 0, position |-> 0,
                 asked |-> 0, slice |-> <<>>, sum |-> 0, stale |-> FALSE]
    /\ ghost = [faults |-> 0, closes |-> 0, closed |-> FALSE, read |-> {}, step |-> 0, status |-> "new"]

Init == InitOf(Scenarios)

FiberStep(f) ==
    \/ AllocateBegins(f) \/ AllocateInMemory(f) \/ AllocateInShard(f) \/ AllocateNeedsShard(f)
    \/ LockBusy(f) \/ LockAndOpen(f) \/ Opened(f) \/ Fallocated(f)
    \/ ChunkWrite(f) \/ ChunkRead(f) \/ ChunksFree(f)

Next ==
    \/ \E f \in Fibers : FiberStep(f)
    \/ StorageDbClose
    \/ \E n \in 1..BufferLength : AcquireReads(n) \/ AcquireBuffered(n)
    \/ New \/ Free \/ Idle

(* The scheduler of a worker comes back to every fiber that is ready.       *)
Fairness == WF_vars(\E f \in Fibers : FiberStep(f))

Spec == Init /\ [][Next]_vars /\ Fairness

-----------------------------------------------------------------------------
(***************************************************************************)
(* Properties                                                              *)
(***************************************************************************)
AllChunks == UNION {{[by |-> f, i |-> i, chunk |-> fiber[f].chunks[i]] : i \in DOMAIN fiber[f].chunks} : f \in Fibers}

TypeOK ==
    /\ lock \in Fibers \cup {None}
    /\ \A w \in Workers : active[w] \in 0..Len(shards) /\ (active[w] # 0 => shards[active[w]].worker = w)
    /\ stats >= 0 /\ open >= 0 /\ memory >= 0

(* Two chunks on the disk never share a byte, whichever fibers of whichever *)
(* workers allocated them and whatever failed in between                    *)
(* (storage_db_chunk_data_pre_allocate).                                    *)
ChunksDisjoint ==
    scenario.backend = "file" => \A x, y \in AllChunks :
        (x # y /\ x.chunk.shard = y.chunk.shard) =>
            \/ x.chunk.offset + x.chunk.length <= y.chunk.offset
            \/ y.chunk.offset + y.chunk.length <= x.chunk.offset

(* A chunk lies inside its shard, even when the size of the shards wraps.   *)
ChunksInShard ==
    scenario.backend = "file" => \A x \in AllChunks :
        x.chunk.offset + x.chunk.length <= shards[x.chunk.shard].size

(* A chunk that is read is the one the fiber wrote, and a read that failed  *)
(* gives nothing.                                                           *)
ReadsWhatWasWritten == \A r \in ghost.read : r.got = IF r.outcome = "done" THEN {r.by} ELSE {}

(* storage.open_files counts the files that are open, and forever those     *)
(* whose close failed.                                                      *)
OpenFilesExact == stats = open + ghost.closes

(* Every file that was opened for a shard is closed with the database.      *)
ClosedWithTheDatabase == ghost.closed => open = 0

(* The chunks in memory are those of the values there are: an allocation    *)
(* that fails half way gives back what it had.                              *)
MemoryOwned == memory = IF scenario.backend = "memory" THEN Cardinality(AllChunks) ELSE 0

(* The lock of the shards is held while a shard is created, by that fiber   *)
(* alone: no two shards get the same index.                                 *)
OneShardAtATime == \A f \in Fibers : fiber[f].pc \in {"open", "fallocate"} => lock = f

(* A slice of a buffered channel has the next bytes of the file, unless     *)
(* bytes were left in the middle of the buffer when more were read.         *)
SlicesInOrder ==
    (reader.status = "open" /\ ~reader.stale) =>
        reader.slice = [i \in DOMAIN reader.slice |-> reader.sum - Len(reader.slice) + i]

(* A database that cannot be constructed leaves nothing behind, but for the *)
(* slots and the queue when the list of shards fails; a database that is    *)
(* freed leaves the queue of its snapshots.                                 *)
NothingLeft ==
    /\ ghost.status = "failed" => made = IF ghost.step = Len(Parts) /\ scenario.backend = "file" THEN {P("bitmap"), P("queue")} ELSE {}
    /\ ghost.status = "freed" => made = {P("queue")}

(* Every fiber that allocates, writes and reads a value ends: the one that  *)
(* waits for the lock gets it.                                              *)
FibersDone == scenario.kind = "chunks" => \A f \in Fibers : Done(f)

=============================================================================
