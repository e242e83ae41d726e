----------------------------- MODULE Transaction -----------------------------
(***************************************************************************)
(* The transactional read-write spinlocks of cachegrand                    *)
(* (src/transaction.h, src/transaction.c).                                 *)
(*                                                                         *)
(* A spinlock is one 64-bit word: the id of the transaction that holds it  *)
(* for writing (0 when none does), a 16-bit readers count, and 16 reserved *)
(* bits that belong to the hashtable chunk the lock is embedded in.  A     *)
(* transaction keeps the list of the locks it took and gives them all back *)
(* in transaction_release; there is no other way to unlock.                *)
(*                                                                         *)
(* A step is what a thread does between two accesses to a shared word.     *)
(* Several transactions can live on one worker thread (one per fiber).     *)
(* Fibers switch only between two calls of this module, never in the       *)
(* middle of one: the spin loops do not yield.                             *)
(***************************************************************************)
EXTENDS Integers, Sequences, FiniteSets

CONSTANTS Spinlocks,      \* the locks, one per hashtable chunk
          Transactions,   \* the transaction_t objects
          Workers,        \* worker indexes, natural numbers
          WorkerOf,       \* the worker thread each transaction runs on
          IndexModulus,   \* 2^16: transaction_index is a uint16_t
          MaxReaders,     \* UINT16_MAX, from the assert in readers_increment
          MaxSpins,       \* max_spins_before_probably_stuck, 2^26
          Reserved,       \* values of the 16 reserved bits
          MaxLocks,       \* bound: entries in a transaction's list of locks
          NoSpinlock      \* not a spinlock

ASSUME TransactionAssumption ==
    /\ Workers \subseteq Nat
    /\ WorkerOf \in [Transactions -> Workers]
    /\ IndexModulus \in Nat \ {0, 1}
    /\ MaxReaders \in Nat
    /\ MaxSpins \in Nat
    /\ MaxLocks \in Nat
    /\ Reserved # {}
    /\ NoSpinlock \notin Spinlocks

(***************************************************************************)
(* TRANSACTION_ID_NOT_ACQUIRED and TRANSACTION_SPINLOCK_UNLOCKED are both  *)
(* the 32-bit word 0, whose halves are worker index 0 and transaction      *)
(* index 0.                                                                *)
(***************************************************************************)
TransactionIds == Workers \X (0 .. IndexModulus - 1)
NotAcquired == <<0, 0>>
Unlocked == <<0, 0>>

LockTypes == {"READ", "WRITE"}
LockEntries == [spinlock : Spinlocks, lock_type : LockTypes]

VARIABLES
    spinlock,            \* the lock words
    transaction_index,   \* per worker thread, the last index handed out
    transaction,         \* id and list of locks of every transaction
    pc,                  \* where each transaction is
    call                 \* the local variables of the call in progress

vars == <<spinlock, transaction_index, transaction, pc, call>>

(***************************************************************************)
(* pc[t]: "idle" - not acquired; "running" - acquired, in no call of this  *)
(* module; "try_write", "try_write_2", "cas" - in the loop of              *)
(* rwspinlock_write_lock, about to read the reserved bits for the new      *)
(* value, to read them for the expected value, to compare and swap;        *)
(* "read_wait" - counted as a reader, waiting for the writer to leave;     *)
(* "read_cleanup" - gave up waiting; "release" - in transaction_release.   *)
(***************************************************************************)
PCs == {"idle", "running", "try_write", "try_write_2", "cas",
        "read_wait", "read_cleanup", "release"}

NoReserved == CHOOSE r \in Reserved : TRUE

Calls == [spinlock          : Spinlocks \cup {NoSpinlock},
          expected_readers  : {0, 1},
          new_reserved      : Reserved,
          expected_reserved : Reserved,
          spins             : 0 .. MaxSpins,
          index             : Nat]

NoCall == [spinlock          |-> NoSpinlock,
           expected_readers  |-> 0,
           new_reserved      |-> NoReserved,
           expected_reserved |-> NoReserved,
           spins             |-> 0,
           index             |-> 0]

(***************************************************************************)
(* Only one fiber of a worker executes at a time, and it cannot be         *)
(* switched out while it spins or releases.                                *)
(***************************************************************************)
OnThread(t) ==
    \A u \in Transactions \ {t} :
        WorkerOf[u] = WorkerOf[t] => pc[u] \in {"idle", "running"}

\* transaction_rwspinlock_is_owned_by_transaction
IsOwnedBy(l, t) == spinlock[l].transaction_id = transaction[t].id

\* The entries of the list that transaction_release has not processed yet.
Entry(t, i) == transaction[t].locks[i]
Unreleased(t) == {i \in 1 .. Len(transaction[t].locks) : i > call[t].index}
HasEntry(t, i, l, type) ==
    i \in Unreleased(t) /\ Entry(t, i) = [spinlock |-> l, lock_type |-> type]
Holds(t, l, type) == \E i \in Unreleased(t) : HasEntry(t, i, l, type)

\* Counted as a reader by a call of transaction_lock_for_read in progress.
Counted(t, l) == pc[t] \in {"read_wait", "read_cleanup"} /\ call[t].spinlock = l

-----------------------------------------------------------------------------

Init ==
    /\ spinlock \in [Spinlocks -> [transaction_id : {Unlocked},
                                   readers_count  : {0},
                                   reserved       : {NoReserved}]]
    /\ transaction_index = [w \in Workers |-> 0]
    /\ transaction = [t \in Transactions |-> [id |-> NotAcquired, locks |-> <<>>]]
    /\ pc = [t \in Transactions |-> "idle"]
    /\ call = [t \in Transactions |-> NoCall]

(***************************************************************************)
(* transaction_acquire: the next index of the thread, wrapping at 16 bits  *)
(* and skipping the id that means "not acquired".                          *)
(***************************************************************************)
NextIndex(w) ==
    LET i == (transaction_index[w] + 1) % IndexModulus
    IN  IF w = 0 /\ i = 0 THEN i + 1 ELSE i

(***************************************************************************)
(* Bound: fewer than IndexModulus - 1 transactions are acquired on a       *)
(* worker while one of its transactions is alive.  Past that bound the     *)
(* code hands out an id that is still in use.                              *)
(***************************************************************************)
NotReusedWhileAlive(id) == \A u \in Transactions : transaction[u].id # id

Acquire(t) ==
    LET w == WorkerOf[t]
        id == <<w, NextIndex(w)>>
    IN  /\ pc[t] = "idle"
        /\ OnThread(t)
        /\ NotReusedWhileAlive(id)
        /\ transaction_index' = [transaction_index EXCEPT ![w] = NextIndex(w)]
        /\ transaction' = [transaction EXCEPT ![t] = [id |-> id, locks |-> <<>>]]
        /\ pc' = [pc EXCEPT ![t] = "running"]
        /\ UNCHANGED <<spinlock, call>>

(***************************************************************************)
(* transaction_locks_list_add.  The list grows by doubling; xalloc_realloc *)
(* ends the process when memory is short, so the call never fails.         *)
(***************************************************************************)
LocksListAdd(t, l, type) ==
    transaction' = [transaction EXCEPT ![t].locks =
                        Append(@, [spinlock |-> l, lock_type |-> type])]

CanCall(t) ==
    /\ pc[t] = "running"
    /\ OnThread(t)
    /\ Len(transaction[t].locks) < MaxLocks

(***************************************************************************)
(* Entering rwspinlock_write_lock with the given number of readers: 0 from *)
(* transaction_lock_for_write, 1 from transaction_upgrade_lock_for_write,  *)
(* which takes the one reader to be the calling transaction.               *)
(***************************************************************************)
BeginWriteLock(t, l, readers) ==
    /\ CanCall(t)
    /\ ~IsOwnedBy(l, t)
    /\ pc' = [pc EXCEPT ![t] = "try_write"]
    /\ call' = [call EXCEPT ![t] = [NoCall EXCEPT !.spinlock = l,
                                                  !.expected_readers = readers]]
    /\ UNCHANGED <<spinlock, transaction_index, transaction>>

LockForWrite(t, l) == BeginWriteLock(t, l, 0)
UpgradeLockForWrite(t, l) == BeginWriteLock(t, l, 1)

(***************************************************************************)
(* rwspinlock_try_write_lock reads the reserved bits twice, once for the   *)
(* value to write and once for the value to expect, then compares and      *)
(* swaps the whole word.                                                   *)
(***************************************************************************)
ReadReservedForNew(t) ==
    /\ pc[t] = "try_write"
    /\ call' = [call EXCEPT ![t].new_reserved = spinlock[call[t].spinlock].reserved]
    /\ pc' = [pc EXCEPT ![t] = "try_write_2"]
    /\ UNCHANGED <<spinlock, transaction_index, transaction>>

ReadReservedForExpected(t) ==
    /\ pc[t] = "try_write_2"
    /\ call' = [call EXCEPT ![t].expected_reserved = spinlock[call[t].spinlock].reserved]
    /\ pc' = [pc EXCEPT ![t] = "cas"]
    /\ UNCHANGED <<spinlock, transaction_index, transaction>>

\* Mutant of CasMatches: only the owner is compared, readers are not waited for.
CasIgnoresReaders(t) ==
    spinlock[call[t].spinlock].transaction_id = Unlocked

CasMatches(t) ==
    spinlock[call[t].spinlock] = [transaction_id |-> Unlocked,
                                  readers_count  |-> call[t].expected_readers,
                                  reserved       |-> call[t].expected_reserved]

\* Mutant of CompareAndSwap: the readers count is not carried into the new word.
CompareAndSwapDropsReaders(t) ==
    /\ pc[t] = "cas"
    /\ CasMatches(t)
    /\ spinlock' = [spinlock EXCEPT ![call[t].spinlock] =
                       [transaction_id |-> transaction[t].id,
                        readers_count  |-> 0,
                        reserved       |-> call[t].new_reserved]]
    /\ LocksListAdd(t, call[t].spinlock, "WRITE")
    /\ pc' = [pc EXCEPT ![t] = "running"]
    /\ call' = [call EXCEPT ![t] = NoCall]
    /\ UNCHANGED transaction_index

CompareAndSwap(t) ==
    /\ pc[t] = "cas"
    /\ CasMatches(t)
    /\ spinlock' = [spinlock EXCEPT ![call[t].spinlock] =
                       [transaction_id |-> transaction[t].id,
                        readers_count  |-> call[t].expected_readers,
                        reserved       |-> call[t].new_reserved]]
    /\ LocksListAdd(t, call[t].spinlock, "WRITE")
    /\ pc' = [pc EXCEPT ![t] = "running"]
    /\ call' = [call EXCEPT ![t] = NoCall]
    /\ UNCHANGED transaction_index

CompareAndSwapFails(t) ==
    /\ pc[t] = "cas"
    /\ ~CasMatches(t)
    /\ call[t].spins < MaxSpins
    /\ call' = [call EXCEPT ![t].spins = @ + 1,
                            ![t].new_reserved = NoReserved,
                            ![t].expected_reserved = NoReserved]
    /\ pc' = [pc EXCEPT ![t] = "try_write"]
    /\ UNCHANGED <<spinlock, transaction_index, transaction>>

\* Mutant of WriteLockStuck: the call falls through to transaction_locks_list_add.
WriteLockStuckAddsEntry(t) ==
    /\ pc[t] = "cas"
    /\ ~CasMatches(t)
    /\ call[t].spins = MaxSpins
    /\ LocksListAdd(t, call[t].spinlock, "WRITE")
    /\ call' = [call EXCEPT ![t] = NoCall]
    /\ pc' = [pc EXCEPT ![t] = "running"]
    /\ UNCHANGED <<spinlock, transaction_index>>

\* "Possible transactional spinlock stuck": the lock call returns false.
WriteLockStuck(t) ==
    /\ pc[t] = "cas"
    /\ ~CasMatches(t)
    /\ call[t].spins = MaxSpins
    /\ call' = [call EXCEPT ![t] = NoCall]
    /\ pc' = [pc EXCEPT ![t] = "running"]
    /\ UNCHANGED <<spinlock, transaction_index, transaction>>

(***************************************************************************)
(* transaction_lock_for_read: count first, then wait for the writer.       *)
(***************************************************************************)
LockForRead(t, l) ==
    /\ CanCall(t)
    /\ ~IsOwnedBy(l, t)
    /\ spinlock[l].readers_count < MaxReaders
    /\ spinlock' = [spinlock EXCEPT ![l].readers_count = @ + 1]
    /\ pc' = [pc EXCEPT ![t] = "read_wait"]
    /\ call' = [call EXCEPT ![t] = [NoCall EXCEPT !.spinlock = l]]
    /\ UNCHANGED <<transaction_index, transaction>>

\* Mutant of ReadLockGranted: the reader does not wait for the writer to leave.
ReadLockGrantedAtOnce(t) ==
    /\ pc[t] = "read_wait"
    /\ LocksListAdd(t, call[t].spinlock, "READ")
    /\ pc' = [pc EXCEPT ![t] = "running"]
    /\ call' = [call EXCEPT ![t] = NoCall]
    /\ UNCHANGED <<spinlock, transaction_index>>

ReadLockGranted(t) ==
    /\ pc[t] = "read_wait"
    /\ spinlock[call[t].spinlock].transaction_id = Unlocked
    /\ LocksListAdd(t, call[t].spinlock, "READ")
    /\ pc' = [pc EXCEPT ![t] = "running"]
    /\ call' = [call EXCEPT ![t] = NoCall]
    /\ UNCHANGED <<spinlock, transaction_index>>

\* Mutant of ReadLockSpins: the loop never gives up.
ReadLockSpinsForever(t) ==
    /\ pc[t] = "read_wait"
    /\ spinlock[call[t].spinlock].transaction_id # Unlocked
    /\ call' = [call EXCEPT ![t].spins = (@ + 1) % (MaxSpins + 1)]
    /\ UNCHANGED <<spinlock, transaction_index, transaction, pc>>

ReadLockSpins(t) ==
    /\ pc[t] = "read_wait"
    /\ spinlock[call[t].spinlock].transaction_id # Unlocked
    /\ IF call[t].spins < MaxSpins
       THEN /\ call' = [call EXCEPT ![t].spins = @ + 1]
            /\ pc' = pc
       ELSE /\ call' = [call EXCEPT ![t].spins = 0]
            /\ pc' = [pc EXCEPT ![t] = "read_cleanup"]
    /\ UNCHANGED <<spinlock, transaction_index, transaction>>

\* Mutant of ReadLockCleanup: the entry stays in the list, to be released again.
ReadLockCleanupKeepsEntry(t) ==
    /\ pc[t] = "read_cleanup"
    /\ spinlock' = [spinlock EXCEPT ![call[t].spinlock].readers_count = @ - 1]
    /\ LocksListAdd(t, call[t].spinlock, "READ")
    /\ pc' = [pc EXCEPT ![t] = "running"]
    /\ call' = [call EXCEPT ![t] = NoCall]
    /\ UNCHANGED transaction_index

ReadLockCleanup(t) ==
    /\ pc[t] = "read_cleanup"
    /\ spinlock' = [spinlock EXCEPT ![call[t].spinlock].readers_count = @ - 1]
    /\ pc' = [pc EXCEPT ![t] = "running"]
    /\ call' = [call EXCEPT ![t] = NoCall]
    /\ UNCHANGED <<transaction_index, transaction>>

(***************************************************************************)
(* transaction_release: the list is walked in the order of acquisition,    *)
(* one lock word at a time.                                                *)
(***************************************************************************)
ReleaseBegin(t) ==
    /\ pc[t] = "running"
    /\ OnThread(t)
    /\ pc' = [pc EXCEPT ![t] = "release"]
    /\ UNCHANGED <<spinlock, transaction_index, transaction, call>>

\* The entry that the loop of transaction_release reaches next.
NextEntry(t) == Entry(t, call[t].index + 1)

ReleaseWrite(t) ==
    /\ pc[t] = "release"
    /\ call[t].index < Len(transaction[t].locks)
    /\ NextEntry(t).lock_type = "WRITE"
    /\ spinlock' = [spinlock EXCEPT ![NextEntry(t).spinlock].transaction_id = Unlocked]
    /\ call' = [call EXCEPT ![t].index = @ + 1]
    /\ UNCHANGED <<transaction_index, transaction, pc>>

ReleaseRead(t) ==
    /\ pc[t] = "release"
    /\ call[t].index < Len(transaction[t].locks)
    /\ NextEntry(t).lock_type = "READ"
    /\ spinlock' = [spinlock EXCEPT ![NextEntry(t).spinlock].readers_count = @ - 1]
    /\ call' = [call EXCEPT ![t].index = @ + 1]
    /\ UNCHANGED <<transaction_index, transaction, pc>>

ReleaseEnd(t) ==
    /\ pc[t] = "release"
    /\ call[t].index = Len(transaction[t].locks)
    /\ transaction' = [transaction EXCEPT ![t] = [id |-> NotAcquired, locks |-> <<>>]]
    /\ call' = [call EXCEPT ![t] = NoCall]
    /\ pc' = [pc EXCEPT ![t] = "idle"]
    /\ UNCHANGED <<spinlock, transaction_index>>

(***************************************************************************)
(* The transaction that owns the chunk for writing updates the metadata    *)
(* kept in the reserved bits (slots_occupied, is_full,                     *)
(* overflowed_chunks_counter).                                             *)
(***************************************************************************)
WriteReserved(t, l) ==
    /\ pc[t] = "running"
    /\ OnThread(t)
    /\ IsOwnedBy(l, t)
    /\ \E r \in Reserved \ {spinlock[l].reserved} :
          spinlock' = [spinlock EXCEPT ![l].reserved = r]
    /\ UNCHANGED <<transaction_index, transaction, pc, call>>

-----------------------------------------------------------------------------

(***************************************************************************)
(* What goes on inside a call, and the release.                            *)
(***************************************************************************)
Progress(t) ==
    \/ ReadReservedForNew(t)
    \/ ReadReservedForExpected(t)
    \/ CompareAndSwap(t)
    \/ CompareAndSwapFails(t)
    \/ WriteLockStuck(t)
    \/ ReadLockGranted(t)
    \/ ReadLockSpins(t)
    \/ ReadLockCleanup(t)
    \/ ReleaseWrite(t)
    \/ ReleaseRead(t)
    \/ ReleaseEnd(t)

(***************************************************************************)
(* The calls of the hashtable operations.  hashtable_mcmp_op_get, _set,    *)
(* _rmw_begin and _delete take a lock only when the transaction does not   *)
(* own it, and _delete upgrades the lock its own search took for reading.  *)
(* The eviction, which may upgrade a lock it owns, is not among them.      *)
(***************************************************************************)
HashtableCall(t) ==
    \E l \in Spinlocks :
        \/ LockForWrite(t, l)
        \/ LockForRead(t, l)
        \/ Holds(t, l, "READ") /\ UpgradeLockForWrite(t, l)
        \/ WriteReserved(t, l)

Next ==
    \E t \in Transactions :
        \/ Acquire(t)
        \/ HashtableCall(t)
        \/ ReleaseBegin(t)
        \/ Progress(t)

Spec == Init /\ [][Next]_vars

(***************************************************************************)
(* A thread that is in a call of this module keeps executing: every spin   *)
(* loop is bounded and nothing in it blocks.  Which calls are made, and    *)
(* when, is the callers' choice.                                           *)
(***************************************************************************)
FairSpec == Spec /\ \A t \in Transactions : WF_vars(Progress(t))

-----------------------------------------------------------------------------

\* Every variable has its type; the lock words are what transaction.h declares.
TypeOK ==
    /\ spinlock \in [Spinlocks -> [transaction_id : TransactionIds \cup {Unlocked},
                                   readers_count  : 0 .. MaxReaders,
                                   reserved       : Reserved]]
    /\ transaction_index \in [Workers -> 0 .. IndexModulus - 1]
    /\ transaction \in [Transactions -> [id    : TransactionIds \cup {NotAcquired},
                                         locks : Seq(LockEntries)]]
    /\ pc \in [Transactions -> PCs]
    /\ call \in [Transactions -> Calls]

(***************************************************************************)
(* A transaction that has a lock in its list for writing is alone: no      *)
(* other transaction has the lock in its list, for reading or for writing. *)
(* This is what transaction_lock_for_write, _for_read and                  *)
(* _upgrade_lock_for_write promise to the hashtable, under any             *)
(* interleaving of the lock calls and of the entry-by-entry release.       *)
(***************************************************************************)
MutualExclusion ==
    \A l \in Spinlocks : \A t, u \in Transactions :
        Holds(t, l, "WRITE") /\ t # u => ~Holds(u, l, "READ") /\ ~Holds(u, l, "WRITE")

(***************************************************************************)
(* The readers of a lock, one token for each unit of readers_count: <<t,   *)
(* i>> is entry i of t's list, <<t, 0>> the increment of the call t is in. *)
(***************************************************************************)
ReadTokens(l) ==
    {token \in Transactions \X (0 .. MaxLocks) :
        \/ token[2] = 0 /\ Counted(token[1], l)
        \/ HasEntry(token[1], token[2], l, "READ")}

(***************************************************************************)
(* readers_count counts exactly the read entries not released yet and the  *)
(* calls of transaction_lock_for_read in progress: the increment, the      *)
(* cleanup of a call that gave up and the release balance, so a lock       *)
(* nobody uses has no readers and a writer never waits for a ghost.        *)
(***************************************************************************)
ReadersCountExact ==
    \A l \in Spinlocks : spinlock[l].readers_count = Cardinality(ReadTokens(l))

(***************************************************************************)
(* The write half of a lock word names a transaction exactly as long as    *)
(* that transaction has a WRITE entry to release.  It follows that         *)
(* transaction_release always finds itself the owner of a lock it unlocks  *)
(* (the assert of transaction_rwspinlock_unlock) and that no lock stays    *)
(* locked once the transactions have ended.                                *)
(***************************************************************************)
OwnerHasEntry ==
    /\ \A t \in Transactions : \A l \in Spinlocks :
          Holds(t, l, "WRITE") => pc[t] # "idle" /\ IsOwnedBy(l, t)
    /\ \A l \in Spinlocks :
          spinlock[l].transaction_id # Unlocked =>
              \E t \in Transactions : IsOwnedBy(l, t) /\ Holds(t, l, "WRITE")

(***************************************************************************)
(* The comment on hashtable_half_hashes_chunk (hashtable.h:109): the       *)
(* atomic operations of the lock read and write the metadata too, "this is *)
(* not a problem because the metadata is modified only under a write       *)
(* lock".  No step changes the reserved bits of a lock that nobody owns.   *)
(***************************************************************************)
ReservedChangesUnderWriteLock ==
    [][\A l \in Spinlocks :
          spinlock'[l].reserved # spinlock[l].reserved =>
              spinlock[l].transaction_id # Unlocked]_vars

(***************************************************************************)
(* Every lock call and every release ends: a spin loop gives up after      *)
(* max_spins_before_probably_stuck even when two transactions that read    *)
(* the same lock wait for each other to upgrade it.                        *)
(***************************************************************************)
CallsReturn ==
    \A t \in Transactions :
        pc[t] \notin {"idle", "running"} ~> pc[t] \in {"idle", "running"}

(***************************************************************************)
(* The lock words and the lists of locks implement the abstract locks: a   *)
(* transaction has the locks its list still names, it grows until          *)
(* transaction_release starts and shrinks until that call ends.            *)
(***************************************************************************)
ReadersOf(l) == {t \in Transactions : Holds(t, l, "READ")}
WritersOf(l) == {t \in Transactions : Holds(t, l, "WRITE")}
PhaseOf(t) ==
    IF pc[t] = "idle" THEN "none" ELSE IF pc[t] = "release" THEN "shrinking" ELSE "growing"

Locks == INSTANCE RWLocks WITH
    readers <- [l \in Spinlocks |-> ReadersOf(l)],
    writers <- [l \in Spinlocks |-> WritersOf(l)],
    phase   <- [t \in Transactions |-> PhaseOf(t)]

(***************************************************************************)
(* Every behaviour of the spinlocks is a behaviour of RWLocks: the calls   *)
(* of transaction.h never grant a lock that the abstract locks would       *)
(* refuse, and never grant one to a transaction that is releasing.         *)
(***************************************************************************)
ImplementsRWLocks == Locks!Spec
=============================================================================
