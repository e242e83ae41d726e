---------------------------- MODULE RedisCommands ----------------------------
(***************************************************************************)
(* The commands of the Redis module that touch the database, and what each *)
(* of them does with the things it borrows: the locks of its transaction,  *)
(* the slots its read-modify-writes reserve, the reader counts of the      *)
(* entry indexes it sends, and the memory of its key and value arguments.  *)
(* (src/module/redis/command/*.c)                                          *)
(*                                                                         *)
(* A command is an operator from a state to the set of states it may leave *)
(* behind, written as the calls it makes in the order it makes them, one   *)
(* alternative per path of the code.  The calls are the operators of the   *)
(* first half: storage_db_op_rmw_*, storage_db_op_set, transaction_release *)
(* and so on.  A command runs in one step from the moment it has the lock  *)
(* it needs until it needs the next one or yields to send a value.         *)
(*                                                                         *)
(* The search of the hashtable is in Hashtable, the disposal of entry      *)
(* indexes in StorageDb: a chunk is here a set of keys with a number of    *)
(* slots, an entry index that is deleted is free once it has no readers,   *)
(* and the bytes of a value are left out.                                  *)
(***************************************************************************)
EXTENDS Integers, FiniteSets, Sequences, SequencesExt, Functions

CONSTANTS
    Clients,        \* fibers that run a command for their connection
    Keys,           \* keys of the database in use
    Chunks,         \* chunks of the hashtable
    ChunkOf,        \* the chunk a key is stored in
    Entries,        \* entry indexes that can be allocated
    Slots,          \* slots of a chunk
    None,
    Scenarios       \* initial databases, commands and bounds to explore

VARIABLES
    table,          \* the entry index stored for each key
    slots,          \* per chunk: slots in use, and the count in its metadata
    entry,          \* entry indexes: allocated or deleted, readers, expiry
    lock,           \* the lock of each chunk
    client,         \* what each client runs, and what it holds
    lost,           \* what ended commands did not give back
    undefined,      \* the code read or freed what it may not
    bound           \* commands, failures and expirations still to come

vars == <<table, slots, entry, lock, client, lost, undefined, bound>>

-----------------------------------------------------------------------------
(***************************************************************************)
(* Types.                                                                  *)
(***************************************************************************)
Expiries == {"no", "set", "past"}

EntryIndexes == [status: {"free", "live", "deleted"}, readers: Nat, expiry: Expiries]

(* new: the hashtable created a slot; reserved: its slot id is still set;   *)
(* current: the value found; delete: it had expired, an abort deletes it.   *)
RmwStatuses == [key: Keys \cup {None}, new: BOOLEAN, reserved: BOOLEAN,
                current: Entries \cup {None}, delete: BOOLEAN]

NoRmw == [key |-> None, new |-> FALSE, reserved |-> FALSE, current |-> None, delete |-> FALSE]

(* The memory of an argument: still the command's, taken over by the        *)
(* database, or freed; and whether the context of the command forgot it.    *)
Arguments == [memory: {"mine", "taken", "freed"}, null: BOOLEAN]

Argument == [memory |-> "mine", null |-> FALSE]

Idle(c) == [id |-> c, cmd |-> "idle", keys |-> <<>>, opt |-> "none", step |-> 1,
            rmw |-> <<NoRmw, NoRmw>>, found |-> None, held |-> <<>>,
            key |-> <<Argument, Argument>>, value |-> <<Argument, Argument>>,
            replies |-> 0, path |-> "ok", pc |-> "idle"]

-----------------------------------------------------------------------------
(***************************************************************************)
(* The calls.  Each maps a state s to the state after the call; s.me is    *)
(* the record of the client that makes it.                                 *)
(***************************************************************************)
State(c) == [table |-> table, slots |-> slots, entry |-> entry, lock |-> lock,
             me |-> client[c], lost |-> lost, undefined |-> undefined,
             failures |-> bound.failures]

Chunk(s, i) == ChunkOf[s.me.keys[i]]

Reply(s) == [s EXCEPT !.me.replies = @ + 1]

Path(s, p) == [s EXCEPT !.me.path = p]

(* What the command will not give back any more.                            *)
Lose(s, what) ==
    [s EXCEPT !.lost = @ \cup {[what |-> what, cmd |-> s.me.cmd, path |-> s.me.path]}]

(* A call of the operating system or of the allocator fails.                *)
Fails(s) == [s EXCEPT !.failures = @ - 1]

(* The context forgets the key, the value, or both.                         *)
NullKey(s, i) == [s EXCEPT !.me.key[i].null = TRUE]
NullValue(s, i) == [s EXCEPT !.me.value[i].null = TRUE]
NullBoth(s, i) == NullValue(NullKey(s, i), i)

(* transaction_release: every lock of the transaction.                      *)
Release(s) ==
    [s EXCEPT !.lock = [ch \in Chunks |->
        [writer |-> IF @[ch].writer = s.me.id THEN None ELSE @[ch].writer,
         readers |-> @[ch].readers \ {s.me.id}]]]

(* transaction_lock_for_write, for_read and upgrade_lock_for_write.         *)
CanWrite(s, ch) ==
    \/ s.lock[ch].writer = s.me.id
    \/ s.lock[ch].writer = None /\ s.lock[ch].readers = {}
CanRead(s, ch) == s.lock[ch].writer \in {None, s.me.id}
CanUpgrade(s, ch) ==
    \/ s.lock[ch].writer = s.me.id
    \/ s.lock[ch].writer = None /\ s.lock[ch].readers \subseteq {s.me.id}

LockWrite(s, ch) == [s EXCEPT !.lock[ch].writer = s.me.id]
LockRead(s, ch) ==
    IF s.lock[ch].writer = s.me.id THEN s ELSE [s EXCEPT !.lock[ch].readers = @ \cup {s.me.id}]
Upgrade(s, ch) ==
    [s EXCEPT !.lock[ch] = [writer |-> s.me.id, readers |-> @.readers \ {s.me.id}]]

(* A search finds nothing in a chunk whose metadata counts no slots.        *)
Found(s, k) == s.table[k] # None /\ s.slots[ChunkOf[k]].counted > 0

IsExpired(s, e) == e # None /\ s.entry[e].expiry = "past"

(* Reader counts of entry indexes, and the disposal of one that is          *)
(* replaced or deleted.                                                     *)
Increase(s, e) == [s EXCEPT !.entry[e].readers = @ + 1, !.me.held = Append(@, e)]

Decrease(s, e) ==
    LET n == s.entry[e].readers - 1
    IN  [s EXCEPT !.entry[e] = [@ EXCEPT !.readers = n,
                                         !.status = IF n = 0 /\ @ = "deleted" THEN "free" ELSE @],
                  !.me.held = RemoveFirst(@, e)]

Mark(s, e) ==
    [s EXCEPT !.entry[e].status = IF s.entry[e].readers = 0 THEN "free" ELSE "deleted",
              !.undefined = @ \/ s.entry[e].status # "live"]

FreeEntry(s) == CHOOSE e \in Entries : s.entry[e].status = "free"

(* storage_db_entry_index_ring_buffer_new: an entry index of its own.       *)
NewEntry(s, expiry) ==
    [s EXCEPT !.entry[FreeEntry(s)] = [status |-> "live", readers |-> 0, expiry |-> expiry]]

(* storage_db_op_rmw_begin of argument i, in the status of argument i.  A   *)
(* status is not cleared first, and the entry index found is only written   *)
(* when the key exists.                                                     *)
RmwBeginIn(s, i, j) ==
    LET k == s.me.keys[i]
        new == ~Found(s, k)
        found == IF new THEN s.me.found ELSE s.table[k]
        expired == IsExpired(s, found)
    IN  [s EXCEPT
            !.slots[ChunkOf[k]] = IF new THEN [used |-> @.used + 1, counted |-> @.counted + 1] ELSE @,
            !.me.rmw[j] = [key |-> k, new |-> new, reserved |-> new,
                           current |-> IF new THEN None ELSE s.table[k],
                           delete |-> expired \/ @.delete],
            !.me.found = IF expired THEN None ELSE found]

RmwBegin(s, i) == RmwBeginIn([s EXCEPT !.me.found = None], i, i)

\* Mutant of RmwPrep: the reader is counted twice.
RmwPrepTwice(s) ==
    IF s.me.found = None THEN s ELSE Increase([s EXCEPT !.entry[s.me.found].readers = @ + 1], s.me.found)

(* storage_db_op_rmw_current_entry_index_prep_for_read                      *)
RmwPrep(s) == IF s.me.found = None THEN s ELSE Increase(s, s.me.found)

(* hashtable_mcmp_op_rmw_abort: a second one counts the slot down again.    *)
HashtableAbort(s, i) ==
    LET r == s.me.rmw[i] IN
    IF ~r.new THEN s
    ELSE [(IF r.reserved THEN s ELSE Lose(s, "count")) EXCEPT
            !.slots[ChunkOf[r.key]] = [used |-> IF r.reserved THEN @.used - 1 ELSE @.used,
                                       counted |-> @.counted - 1],
            !.me.rmw[i].reserved = FALSE]

(* storage_db_op_rmw_commit_delete reads the value found, so there must be  *)
(* one, and gives the slot of the key back.                                 *)
RmwCommitDelete(s, i) ==
    LET r == s.me.rmw[i] IN
    IF r.current = None THEN [s EXCEPT !.undefined = TRUE]
    ELSE [Mark(s, r.current) EXCEPT
            !.slots[ChunkOf[r.key]] = [used |-> @.used - 1, counted |-> @.counted - 1],
            !.table[r.key] = None]

\* Mutant of RmwAbort: whatever was found is deleted.
RmwAbortDeletes(s, i) ==
    IF s.me.rmw[i].current # None THEN RmwCommitDelete(s, i) ELSE HashtableAbort(s, i)

RmwAbort(s, i) == IF s.me.rmw[i].delete THEN RmwCommitDelete(s, i) ELSE HashtableAbort(s, i)

(* hashtable_mcmp_op_rmw_commit_update: a new slot keeps the key, for an    *)
(* existing one the key of the command is freed.                            *)
HashtableUpdate(s, i, e) ==
    LET r == s.me.rmw[i]
    IN  [s EXCEPT !.table[r.key] = e,
                  !.me.rmw[i].reserved = FALSE,
                  !.me.key[i].memory = IF r.new THEN "taken" ELSE "freed"]

RmwCommitUpdate(s, i, expiry) ==
    LET t == HashtableUpdate(NewEntry(s, expiry), i, FreeEntry(s))
        u == IF s.me.rmw[i].current = None THEN t ELSE Mark(t, s.me.rmw[i].current)
    IN  [u EXCEPT !.me.value[i].memory = "taken"]

(* The entry index cannot be set up: the commit aborts the hashtable's part *)
RmwCommitFails(s, i) == HashtableAbort(Fails(s), i)

(* storage_db_op_rmw_commit_metadata stores the same entry index again.     *)
RmwCommitMetadata(s, i, expiry) ==
    HashtableUpdate([s EXCEPT !.entry[s.me.found].expiry = expiry], i, s.me.rmw[i].current)

\* Mutant of RmwCommitRename: the source stays.
RmwCommitLink(s) ==
    LET t == HashtableUpdate(s, 2, s.me.rmw[1].current)
    IN  IF s.me.rmw[2].current = None THEN t ELSE Mark(t, s.me.rmw[2].current)

RmwCommitRename(s) ==
    LET t == HashtableUpdate(s, 2, s.me.rmw[1].current)
        u == IF s.me.rmw[2].current = None THEN t ELSE Mark(t, s.me.rmw[2].current)
    IN  [u EXCEPT !.slots[Chunk(s, 1)] = [used |-> @.used - 1, counted |-> @.counted - 1],
                  !.table[s.me.keys[1]] = None]

(* storage_db_op_set of argument i                                          *)
OpSet(s, i, expiry) ==
    LET k == s.me.keys[i]
        t == [NewEntry(s, expiry) EXCEPT
                !.table[k] = FreeEntry(s),
                !.slots[ChunkOf[k]] =
                    IF Found(s, k) THEN @ ELSE [used |-> @.used + 1, counted |-> @.counted + 1],
                !.me.key[i].memory = IF Found(s, k) THEN "freed" ELSE "taken",
                !.me.value[i].memory = "taken"]
    IN  IF Found(s, k) THEN Mark(t, s.table[k]) ELSE t

(* storage_db_get_entry_index_for_read of argument i.  The clean up of an   *)
(* expired entry index begins a read-modify-write in the same transaction:  *)
(* its own read lock makes it fail, its own write lock lets it through.     *)
GetForRead(s, i) ==
    LET k == s.me.keys[i]
        t == LockRead(s, ChunkOf[k])
        none == [t EXCEPT !.me.found = None]
        e == s.table[k]
    IN  CASE ~Found(s, k) -> none
          [] Found(s, k) /\ ~IsExpired(s, e) -> Increase([t EXCEPT !.me.found = e], e)
          [] OTHER ->
                IF s.lock[ChunkOf[k]].writer = s.me.id
                THEN [Mark(none, e) EXCEPT
                        !.slots[ChunkOf[k]] = [used |-> @.used - 1, counted |-> @.counted - 1],
                        !.table[k] = None]
                ELSE none

\* Mutant of OpDelete: the slot is not given back.
OpDeleteKeepsSlot(s, i) ==
    LET k == s.me.keys[i] IN
    IF ~Found(s, k) THEN LockRead(s, ChunkOf[k])
    ELSE [Mark(Upgrade(s, ChunkOf[k]), s.table[k]) EXCEPT !.table[k] = None]

(* storage_db_op_delete of argument i, with the lock upgraded               *)
OpDelete(s, i) ==
    LET k == s.me.keys[i] IN
    IF ~Found(s, k) THEN LockRead(s, ChunkOf[k])
    ELSE [Mark(Upgrade(s, ChunkOf[k]), s.table[k]) EXCEPT
            !.slots[ChunkOf[k]] = [used |-> @.used - 1, counted |-> @.counted - 1],
            !.table[k] = None]

-----------------------------------------------------------------------------
(***************************************************************************)
(* How a command goes on: to the step that needs the next lock, to sending *)
(* a value, or to its end.                                                 *)
(***************************************************************************)
Goto(s, pc) == [s EXCEPT !.me.pc = pc]
End(S) == {Goto(s, "end") : s \in S}
Sending(s) == Goto(s, "send")
NextStep(s) == [s EXCEPT !.me.step = @ + 1]
IsLast(s) == s.me.step = Len(s.me.keys)

(* An error is sent, with or without a release of the transaction.          *)
ErrorReleased(s) == End({Release(Reply(Path(s, "failed")))})
ErrorKept(s) == End({Reply(Path(s, "failed"))})

Expiry(s, e) == IF e = None THEN "no" ELSE s.entry[e].expiry

-----------------------------------------------------------------------------
SetBegun(s) ==
    LET opt == s.me.opt
        e == s.me.found
        send == opt = "get" /\ e # None
        t == IF opt = "get" THEN RmwPrep(s) ELSE s
        unmet == (opt = "nx" /\ e # None) \/ (opt = "xx" /\ e = None)
        expiry == IF opt = "keepttl" THEN Expiry(s, e) ELSE "no"
        stored == NullBoth(RmwCommitUpdate(t, 1, expiry), 1)
        failed == Release(Reply(RmwCommitFails(Path(t, "commit"), 1)))
    IN  IF unmet THEN End({Release(Reply(RmwAbort(Path(t, "unmet"), 1)))})
        ELSE (IF send THEN {Sending(stored)} ELSE End({Release(Reply(stored))}))
             \cup End({IF send THEN Decrease(failed, e) ELSE failed})

\* Mutant of SetSent: the reader is not given back.
SetSentKeepsReader(s) == End({Release(Reply(s))})

SetSent(s) == End({Decrease(Release(Reply(s)), s.me.found)})

\* Mutant of SetnxBegun: the command aborts after a commit that failed.
SetnxAbortsAgain(s) ==
    IF s.me.found # None
    THEN End({Reply(Release(RmwAbort(Path(s, "exists"), 1)))})
    ELSE End({NullBoth(Reply(Release(RmwCommitUpdate(s, 1, "no"))), 1),
              Release(RmwAbort(Reply(RmwCommitFails(Path(s, "commit"), 1)), 1))})

\* Mutant of SetnxBegun: an existing key is answered without a release.
SetnxKeepsLock(s) ==
    IF s.me.found # None
    THEN End({Reply(RmwAbort(Path(s, "exists"), 1))})
    ELSE End({NullBoth(Reply(Release(RmwCommitUpdate(s, 1, "no"))), 1),
              Release(Reply(RmwCommitFails(Path(s, "commit"), 1)))})

SetnxBegun(s) ==
    IF s.me.found # None
    THEN End({Reply(Release(RmwAbort(Path(s, "exists"), 1)))})
    ELSE End({NullBoth(Reply(Release(RmwCommitUpdate(s, 1, "no"))), 1),
              Release(Reply(RmwCommitFails(Path(s, "commit"), 1)))})

(* The context forgets key and value on every path.                         *)
GetsetFailed(s) == End({NullBoth(Reply(Release(Path(s, "failed"))), 1)})

GetsetBegun(s) ==
    LET e == s.me.found
        t == RmwPrep(s)
        stored == NullBoth(Release(RmwCommitUpdate(t, 1, "no")), 1)
        failed == NullBoth(Reply(Release(RmwCommitFails(Path(t, "commit"), 1))), 1)
    IN  (IF e # None THEN {Sending(stored)} ELSE End({Reply(stored)}))
        \cup End({IF e # None THEN Decrease(failed, e) ELSE failed})

SentReleased(s) == End({Decrease(Reply(s), s.me.found)})

\* Mutant of GetdelBegun: a missing key is answered without an abort.
GetdelKeepsSlot(s) ==
    IF s.me.found = None
    THEN End({Reply(Release(Path(s, "missing")))})
    ELSE {Sending(Release(RmwCommitDelete(RmwPrep(s), 1)))}

GetdelBegun(s) ==
    IF s.me.found = None
    THEN End({Reply(Release(RmwAbort(Path(s, "missing"), 1)))})
    ELSE {Sending(Release(RmwCommitDelete(RmwPrep(s), 1)))}

(* The transaction is released on every path, the reader only when sent.    *)
GetexBegun(s) ==
    IF s.me.found = None
    THEN End({Reply(Release(RmwAbort(Path(s, "missing"), 1)))})
    ELSE IF s.me.opt = "invalid"
    THEN End({Release(RmwAbort(Reply(RmwPrep(Path(s, "invalid"))), 1))})
    ELSE LET expiry == CASE s.me.opt = "ex" -> "set"
                         [] s.me.opt = "persist" -> "no"
                         [] OTHER -> Expiry(s, s.me.found)
         IN  {Sending(NullKey(Release(RmwCommitMetadata(RmwPrep(s), 1, expiry)), 1))}

\* Mutant of IncrDecrBegun: the context forgets key and value on every path.
IncrDecrForgets(s) ==
    LET e == s.me.found
        stored == RmwCommitUpdate(s, 1, Expiry(s, e))
    IN  End({Reply(NullBoth(Release(stored), 1)),
             NullBoth(Release(RmwAbort(Reply(Path(s, "invalid")), 1)), 1)})

\* Mutant of IncrDecrBegun: the new value does not expire.
IncrDecrNoExpiry(s) ==
    End({Reply(NullBoth(Release(RmwCommitUpdate(s, 1, "no")), 1)),
         Release(RmwAbort(Reply(Path(s, "invalid")), 1))})

(* INCR, INCRBY, DECR, DECRBY: the value is no integer or would overflow,   *)
(* and INCRBYFLOAT: no float or not finite.                                 *)
IncrDecrBegun(s) ==
    LET e == s.me.found
        stored == RmwCommitUpdate(s, 1, Expiry(s, e))
    IN  End({Reply(NullBoth(Release(stored), 1)),
             Release(RmwAbort(Reply(Path(IF e = None THEN Fails(s) ELSE s, "invalid")), 1)),
             Release(RmwAbort(Reply(RmwCommitFails(Path(s, "commit"), 1)), 1))})

(* The reader is counted and never given back.                              *)
AppendBegun(s) ==
    LET t == RmwPrep(s)
        stored == RmwCommitUpdate(t, 1, Expiry(s, s.me.found))
    IN  End({NullValue(Reply(NullKey(Release(stored), 1)), 1),
             Release(RmwAbort(Reply(Path(Fails(t), "failed")), 1)),
             Release(RmwAbort(Reply(RmwCommitFails(Path(t, "commit"), 1)), 1))})

(* release_transaction is never set: no error path releases, and a slot     *)
(* that was created for the key is only given back when the key existed.    *)
SetrangeBegun(s) ==
    LET e == s.me.found
        t == RmwPrep(s)
        abort(u) == IF e # None THEN Decrease(RmwAbort(u, 1), e) ELSE u
        stored == NullValue(Reply(NullKey(Release(RmwCommitUpdate(t, 1, "no")), 1)), 1)
    IN  End({IF e # None THEN Decrease(stored, e) ELSE stored,
             abort(Reply(Path(Fails(t), "failed"))),
             abort(Reply(RmwCommitFails(Path(t, "commit"), 1)))})

(* EXPIRE, EXPIREAT, PEXPIRE and PEXPIREAT: NX, XX, GT and LT look at the   *)
(* expiry of the entry index; a time that is not positive deletes the key.  *)
(* A missing key ends without an abort.                                     *)
ExpireUnmet(s) ==
    LET x == Expiry(s, s.me.found) IN
    CASE s.me.opt = "nx" -> {x # "no"}
      [] s.me.opt = "xx" -> {x = "no"}
      [] s.me.opt = "gt" -> IF x = "no" THEN {TRUE} ELSE BOOLEAN
      [] s.me.opt = "lt" -> IF x = "no" THEN {FALSE} ELSE BOOLEAN
      [] OTHER -> {FALSE}

ExpireBegun(s) ==
    IF s.me.found = None THEN End({Reply(Release(Path(s, "missing")))})
    ELSE {IF unmet THEN Goto(Reply(Release(RmwAbort(Path(s, "unmet"), 1))), "end")
          ELSE IF s.me.opt = "negative" THEN Goto(Reply(Release(RmwCommitDelete(s, 1))), "end")
          ELSE Goto(Reply(Release(NullKey(RmwCommitMetadata(s, 1, "set"), 1))), "end")
            : unmet \in ExpireUnmet(s)}

PersistBegun(s) ==
    IF s.me.found = None THEN End({Reply(Release(Path(s, "missing")))})
    ELSE IF Expiry(s, s.me.found) = "no" THEN End({Reply(Release(RmwAbort(s, 1)))})
    ELSE End({Reply(Release(NullKey(RmwCommitMetadata(s, 1, "no"), 1)))})

(* EXPIRETIME and PEXPIRETIME only look, and abort.                         *)
ExpiretimeBegun(s) == End({Reply(Release(RmwAbort(s, 1)))})

-----------------------------------------------------------------------------
(***************************************************************************)
(* Commands with two keys.                                                 *)
(***************************************************************************)
(* RENAME and RENAMENX: source first, then destination, both locked.        *)
RenameFailed(s) ==
    ErrorReleased(IF s.me.step = 2 THEN RmwAbort(s, 1) ELSE s)

RenameBegun(s) ==
    IF s.me.step = 1
    THEN IF s.me.found = None
         THEN End({Release(RmwAbort(Reply(Path(s, "missing")), 1))})
         ELSE {NextStep(s)}
    ELSE IF s.me.cmd = "renamenx" /\ s.me.found # None
    THEN End({Release(RmwAbort(Reply(Path(s, "exists")), 1))})
    ELSE End({Reply(NullKey(Release(RmwCommitRename(s)), 2))})

(* MSETNX: all the keys are begun before the first is stored, and all that  *)
(* are not stored are aborted.                                              *)
AbortFrom(s, i, n) == FoldLeft(LAMBDA t, j : RmwAbort(t, j), s, [j \in 1..(n - i + 1) |-> i + j - 1])

MsetnxFailed(s) == ErrorReleased(AbortFrom(s, 1, s.me.step - 1))

\* Mutant of MsetnxBegun: only the last key is looked at.
MsetnxLastOnly(s) ==
    LET stored == FoldLeft(LAMBDA t, j : NullBoth(RmwCommitUpdate(t, j, "no"), j), s,
                           [j \in 1..Len(s.me.keys) |-> j])
    IN  IF ~IsLast(s) THEN {NextStep(s)}
        ELSE IF s.me.found # None THEN End({Reply(Release(AbortFrom(s, 1, s.me.step)))})
        ELSE End({Reply(Release(stored))})

MsetnxBegun(s) ==
    LET n == Len(s.me.keys)
        stored(m) == FoldLeft(LAMBDA t, j : NullBoth(RmwCommitUpdate(t, j, "no"), j), s,
                              [j \in 1..m |-> j])
        failed(m) == Reply(RmwCommitFails(Path(stored(m - 1), "commit"), m))
    IN  IF s.me.found # None
        THEN End({Reply(Release(AbortFrom(Path(s, "exists"), 1, s.me.step)))})
        ELSE IF ~IsLast(s) THEN {NextStep(s)}
        ELSE End({Reply(Release(stored(n)))}
                 \cup {Release(AbortFrom(failed(m), m, n)) : m \in 1..n})

(* COPY: a read-modify-write of the destination, the first key, in which    *)
(* the source is looked up.  A failed allocation sends an error and then    *)
(* also a number; a failed write sends nothing.                             *)
CopyBegun(s) ==
    IF s.me.opt # "replace" /\ s.me.found # None
    THEN End({Reply(Release(RmwAbort(Path(s, "exists"), 1)))})
    ELSE {NextStep(s)}

CopyGot(s) ==
    LET e == s.me.found
        end(t) == Decrease(Release(t), e)
    IN  IF e = None THEN End({Reply(Release(RmwAbort(Path(s, "missing"), 1)))})
        ELSE End({Reply(end(NullValue(NullKey(RmwCommitUpdate(s, 1, "no"), 1), 1))),
                  Reply(end(RmwAbort(Reply(Path(Fails(s), "failed")), 1))),
                  end(RmwAbort(Path(Fails(s), "write"), 1)),
                  end(RmwAbort(Reply(NullValue(RmwCommitFails(Path(s, "commit"), 1), 1)), 1))})

(* TOUCH acquires a transaction for every key and releases none; its one    *)
(* status and the entry index found live on from key to key.                *)
Forget(s) ==
    [Lose(s, "lock") EXCEPT !.lock = [ch \in Chunks |->
        IF @[ch].writer = s.me.id THEN [@[ch] EXCEPT !.writer = "lost"] ELSE @[ch]]]

TouchBegun(s) ==
    LET t == RmwAbort(s, 1)
    IN  IF IsLast(s) THEN End({Reply(t)}) ELSE {NextStep(Forget(t))}

-----------------------------------------------------------------------------
(***************************************************************************)
(* Commands that read with a lock for read, store, or delete.              *)
(***************************************************************************)
GetGot(s) ==
    IF s.me.found = None THEN End({Release(Reply(Path(s, "missing")))}) ELSE {Sending(s)}

\* Mutant of GetSent: the value is followed by another reply.
GetSentTwice(s) == End({Release(Decrease(Reply(Reply(s)), s.me.found))})

GetSent(s) == End({Release(Decrease(Reply(s), s.me.found))})

(* GETRANGE and SUBSTR: an empty range is answered at once.                 *)
GetrangeGot(s) ==
    GetGot(s) \cup (IF s.me.found = None THEN {} ELSE GetSent(s))

(* LCS holds a reader of both values.                                       *)
LcsGot(s) ==
    LET t == Release(Reply(s))
        none == s.me.found = None
    IN  IF ~none /\ ~IsLast(s) THEN {NextStep(s)}
        ELSE End({FoldLeft(LAMBDA u, e : Decrease(u, e), t, s.me.held)})

(* MGET sends the values one by one under the read locks it collects, and   *)
(* stops when sending fails.                                                *)
MgetNext(s) == IF IsLast(s) THEN End({Reply(Release(s))}) ELSE {Goto(NextStep(s), "begin")}

MgetGot(s) == IF s.me.found = None THEN MgetNext(s) ELSE {Sending(s)}

MgetSent(s) ==
    LET t == Decrease(s, s.me.found)
    IN  MgetNext(t) \cup End({Reply(Release(Path(Fails(t), "failed")))})

(* EXISTS, STRLEN, TTL and PTTL look at the entry index without a reader.   *)
PeekNext(s) == IF IsLast(s) THEN End({Reply(Release(s))}) ELSE {NextStep(s)}

\* Mutant of StoreNext: the context still points to what the database owns.
StoreNextOwned(s) ==
    IF IsLast(s) THEN End({Reply(Release(s))}) ELSE {NextStep(s)}

(* SET, SETEX, PSETEX and MSET: the locks are kept from key to key.         *)
StoreNext(s) ==
    LET t == NullBoth(s, s.me.step)
    IN  IF IsLast(s) THEN End({Reply(Release(t))}) ELSE {NextStep(t)}

-----------------------------------------------------------------------------
(***************************************************************************)
(* The actions.                                                            *)
(***************************************************************************)
Broken == undefined \/ \E ch \in Chunks : slots[ch].used # slots[ch].counted

Becomes(c, s) ==
    /\ s.failures >= 0
    /\ table' = s.table
    /\ slots' = s.slots
    /\ entry' = s.entry
    /\ lock' = s.lock
    /\ client' = [client EXCEPT ![c] = s.me]
    /\ lost' = s.lost
    /\ undefined' = s.undefined
    /\ bound' = [bound EXCEPT !.failures = s.failures]

At(c, cmd, pc) == ~Broken /\ client[c].cmd = cmd /\ client[c].pc = pc

(* storage_db_op_rmw_begin fails when the lock cannot be had before the     *)
(* spins run out, and when no slot is free.                                 *)
RmwAttempt(s, cmd) ==
    LET i == s.me.step
        ch == Chunk(s, i)
        room == Found(s, s.me.keys[i]) \/ s.slots[ch].used < Slots
        locked == LockWrite(s, ch)
    IN  IF ~CanWrite(s, ch) THEN [begun |-> FALSE, state |-> s]
        ELSE IF ~room THEN [begun |-> FALSE, state |-> locked]
        ELSE [begun |-> TRUE, state |-> IF cmd = "touch" THEN RmwBeginIn(locked, i, 1)
                                        ELSE RmwBegin(locked, i)]

Rmw(c, cmd, Begun(_), Failed(_)) ==
    /\ At(c, cmd, "begin")
    /\ LET r == RmwAttempt(State(c), cmd)
       IN  \E t \in IF r.begun THEN Begun(r.state) ELSE Failed(r.state) : Becomes(c, t)

(* storage_db_get_entry_index_for_read: a lock that cannot be had looks     *)
(* like a missing key.                                                      *)
ReadAttempt(s) ==
    IF CanRead(s, Chunk(s, s.me.step)) THEN GetForRead(s, s.me.step)
    ELSE [s EXCEPT !.me.found = None]

Read(c, cmd, Got(_)) ==
    /\ At(c, cmd, "begin")
    /\ \E t \in Got(ReadAttempt(State(c))) : Becomes(c, t)

Peek(c, cmd) ==
    /\ At(c, cmd, "begin")
    /\ LET s == State(c)
           ch == Chunk(s, s.me.step)
       IN  \E t \in PeekNext(IF CanRead(s, ch) THEN LockRead(s, ch) ELSE s) : Becomes(c, t)

(* storage_db_op_set                                                        *)
Store(c, cmd, expiry) ==
    /\ At(c, cmd, "begin")
    /\ LET s == State(c)
           i == s.me.step
           ch == Chunk(s, i)
           room == Found(s, s.me.keys[i]) \/ s.slots[ch].used < Slots
           locked == LockWrite(s, ch)
       IN  \E t \in IF ~CanWrite(s, ch) THEN ErrorReleased(s)
                     ELSE IF room THEN StoreNext(OpSet(locked, i, expiry))
                     ELSE ErrorReleased(locked) :
                Becomes(c, t)

(* storage_db_op_delete: when the lock cannot be upgraded the key stays and *)
(* is not counted as deleted.                                               *)
Erase(c, cmd) ==
    /\ At(c, cmd, "begin")
    /\ LET s == State(c)
           ch == Chunk(s, s.me.step)
           t == IF CanUpgrade(s, ch) THEN OpDelete(s, s.me.step)
                ELSE IF CanRead(s, ch) THEN LockRead(s, ch) ELSE s
       IN  \E u \in PeekNext(t) : Becomes(c, u)

Sent(c, cmd, After(_)) ==
    /\ At(c, cmd, "send")
    /\ \E t \in After(State(c)) : Becomes(c, t)

(* The command is refused before it touches the database.                   *)
Rejected(c, cmd, opt) ==
    /\ At(c, cmd, "begin")
    /\ client[c].opt = opt
    /\ \E t \in End({Release(Reply(Path(State(c), "invalid")))}) : Becomes(c, t)

With(c, opts) == client[c].opt \in opts

Set(c) ==
    \/ Rejected(c, "set", "invalid")
    \/ With(c, {"none"}) /\ Store(c, "set", "no")
    \/ With(c, {"ex"}) /\ Store(c, "set", "set")
    \/ With(c, {"nx", "xx", "get", "keepttl"}) /\ Rmw(c, "set", SetBegun, ErrorReleased)
    \/ Sent(c, "set", SetSent)
Setex(c) == Rejected(c, "setex", "invalid") \/ (With(c, {"none"}) /\ Store(c, "setex", "set"))
Psetex(c) == Rejected(c, "psetex", "invalid") \/ (With(c, {"none"}) /\ Store(c, "psetex", "set"))
Mset(c) == Store(c, "mset", "no")
Setnx(c) == Rmw(c, "setnx", SetnxBegun, ErrorReleased)
Getset(c) == Rmw(c, "getset", GetsetBegun, GetsetFailed) \/ Sent(c, "getset", SentReleased)
Getdel(c) == Rmw(c, "getdel", GetdelBegun, ErrorReleased) \/ Sent(c, "getdel", SentReleased)
Getex(c) == Rmw(c, "getex", GetexBegun, ErrorReleased) \/ Sent(c, "getex", SentReleased)
Incr(c) == Rmw(c, "incr", IncrDecrBegun, ErrorReleased)
Incrby(c) == Rmw(c, "incrby", IncrDecrBegun, ErrorReleased)
Decr(c) == Rmw(c, "decr", IncrDecrBegun, ErrorReleased)
Decrby(c) == Rmw(c, "decrby", IncrDecrBegun, ErrorReleased)
Incrbyfloat(c) == Rmw(c, "incrbyfloat", IncrDecrBegun, ErrorReleased)
AppendTo(c) == Rmw(c, "append", AppendBegun, ErrorReleased)
Setrange(c) ==
    \/ Rejected(c, "setrange", "negative")
    \/ With(c, {"none"}) /\ Rmw(c, "setrange", SetrangeBegun, ErrorKept)
Expire(c) == Rmw(c, "expire", ExpireBegun, ErrorKept)
Expireat(c) == Rmw(c, "expireat", ExpireBegun, ErrorKept)
Pexpire(c) == Rmw(c, "pexpire", ExpireBegun, ErrorReleased)
Pexpireat(c) == Rmw(c, "pexpireat", ExpireBegun, ErrorReleased)
Persist(c) == Rmw(c, "persist", PersistBegun, ErrorReleased)
Expiretime(c) == Rmw(c, "expiretime", ExpiretimeBegun, ErrorReleased)
Pexpiretime(c) == Rmw(c, "pexpiretime", ExpiretimeBegun, ErrorReleased)
Touch(c) == Rmw(c, "touch", TouchBegun, ErrorKept)
Rename(c) == Rmw(c, "rename", RenameBegun, RenameFailed)
Renamenx(c) == Rmw(c, "renamenx", RenameBegun, RenameFailed)
Msetnx(c) == Rmw(c, "msetnx", MsetnxBegun, MsetnxFailed)
Copy(c) ==
    \/ Rejected(c, "copy", "db")
    \/ ~With(c, {"db"}) /\ client[c].step = 1 /\ Rmw(c, "copy", CopyBegun, ErrorReleased)
    \/ client[c].step = 2 /\ Read(c, "copy", CopyGot)
Get(c) == Read(c, "get", GetGot) \/ Sent(c, "get", GetSent)
Getrange(c) == Read(c, "getrange", GetrangeGot) \/ Sent(c, "getrange", GetSent)
Substr(c) == Read(c, "substr", GetrangeGot) \/ Sent(c, "substr", GetSent)
Lcs(c) == Rejected(c, "lcs", "idx") \/ (With(c, {"none"}) /\ Read(c, "lcs", LcsGot))
Mget(c) == Read(c, "mget", MgetGot) \/ Sent(c, "mget", MgetSent)
Strlen(c) == Peek(c, "strlen")
Exists(c) == Peek(c, "exists")
Ttl(c) == Peek(c, "ttl")
Pttl(c) == Peek(c, "pttl")
Del(c) == Erase(c, "del")
Unlink(c) == Erase(c, "unlink")

-----------------------------------------------------------------------------
TwoKeys == {"rename", "renamenx", "copy", "lcs", "mset", "msetnx", "mget", "del", "unlink",
            "exists", "touch"}

Options(cmd) ==
    CASE cmd = "set" -> {"none", "ex", "invalid", "nx", "xx", "get", "keepttl"}
      [] cmd \in {"setex", "psetex"} -> {"none", "invalid"}
      [] cmd = "getex" -> {"none", "ex", "persist", "invalid"}
      [] cmd \in {"expire", "expireat", "pexpire", "pexpireat"} ->
            {"none", "nx", "xx", "gt", "lt", "negative"}
      [] cmd = "setrange" -> {"none", "negative"}
      [] cmd = "copy" -> {"none", "replace", "db"}
      [] cmd = "lcs" -> {"none", "idx"}
      [] OTHER -> {"none"}

(* A request arrives.  RENAME and RENAMENX of a key to itself are answered  *)
(* at once; repeated keys of MSETNX are in Hashtable.                       *)
Start(c) ==
    /\ ~Broken
    /\ client[c].pc = "idle"
    /\ bound.commands > 0
    /\ Cardinality({e \in Entries : entry[e].status = "free"}) >= 2 * Cardinality(Clients)
    /\ \E cmd \in bound.cmds, keys \in Keys \X Keys :
        \E opt \in Options(cmd) :
            /\ cmd \in {"msetnx"} => keys[1] # keys[2]
            /\ cmd \notin TwoKeys => keys[1] = keys[2]
            /\ LET me == [Idle(c) EXCEPT !.cmd = cmd, !.opt = opt, !.pc = "begin",
                                !.keys = IF cmd \in TwoKeys THEN keys ELSE <<keys[1]>>]
               IN  client' = [client EXCEPT ![c] =
                        IF cmd \in {"rename", "renamenx"} /\ keys[1] = keys[2]
                        THEN [me EXCEPT !.pc = "end", !.replies = 1] ELSE me]
    /\ bound' = [bound EXCEPT !.commands = @ - 1]
    /\ UNCHANGED <<table, slots, entry, lock, lost, undefined>>

(* The command returns and its context is freed with what it still points   *)
(* to.  What the command still holds, nobody will give back.                *)
FreeContext(c) ==
    /\ ~Broken
    /\ client[c].pc = "end"
    /\ LET s == State(c)
           me == s.me
           args == {me.key[i] : i \in 1..Len(me.keys)} \cup {me.value[i] : i \in 1..2}
           things == {what \in {"lock", "reader", "slot", "memory", "no reply", "two replies"} :
                        CASE what = "lock" -> \E ch \in Chunks : lock[ch].writer = c \/ c \in lock[ch].readers
                          [] what = "reader" -> me.held # <<>>
                          [] what = "slot" -> \E i \in 1..2 : me.rmw[i].reserved
                          [] what = "memory" -> \E a \in args : a.null /\ a.memory = "mine"
                          [] what = "no reply" -> me.replies = 0
                          [] what = "two replies" -> me.replies > 1}
       IN  /\ lost' = lost \cup {[what |-> w, cmd |-> me.cmd, path |-> me.path] : w \in things}
           /\ undefined' = \E a \in args : ~a.null /\ a.memory # "mine"
           /\ lock' = [ch \in Chunks |->
                        IF lock[ch].writer = c THEN [lock[ch] EXCEPT !.writer = "lost"] ELSE lock[ch]]
           /\ client' = [client EXCEPT ![c] = Idle(c)]
    /\ UNCHANGED <<table, slots, entry, bound>>

(* Time passes: an entry index that expires is past its time.               *)
Passes(e) ==
    /\ ~Broken
    /\ bound.expirations > 0
    /\ entry[e].status = "live" /\ entry[e].expiry = "set"
    /\ entry' = [entry EXCEPT ![e].expiry = "past"]
    /\ bound' = [bound EXCEPT !.expirations = @ - 1]
    /\ UNCHANGED <<table, slots, lock, client, lost, undefined>>

(* Nothing more to come, or nothing is known any more.                      *)
Quiet ==
    /\ Broken \/ (bound.commands = 0 /\ \A c \in Clients : client[c].pc = "idle")
              \/ Cardinality({e \in Entries : entry[e].status = "free"}) < 2 * Cardinality(Clients)
    /\ UNCHANGED vars

Command(c) ==
    \/ Set(c) \/ Setex(c) \/ Psetex(c) \/ Mset(c) \/ Setnx(c)
    \/ Getset(c) \/ Getdel(c) \/ Getex(c)
    \/ Incr(c) \/ Incrby(c) \/ Decr(c) \/ Decrby(c) \/ Incrbyfloat(c) \/ AppendTo(c) \/ Setrange(c)
    \/ Expire(c) \/ Expireat(c) \/ Pexpire(c) \/ Pexpireat(c) \/ Persist(c)
    \/ Expiretime(c) \/ Pexpiretime(c) \/ Touch(c)
    \/ Rename(c) \/ Renamenx(c) \/ Msetnx(c) \/ Copy(c)
    \/ Get(c) \/ Getrange(c) \/ Substr(c) \/ Lcs(c) \/ Mget(c)
    \/ Strlen(c) \/ Exists(c) \/ Ttl(c) \/ Pttl(c) \/ Del(c) \/ Unlink(c)
    \/ FreeContext(c)


Next ==
    \/ \E c \in Clients : Start(c) \/ Command(c)
    \/ \E e \in Entries : Passes(e)
    \/ Quiet

InitOf(scenarios) ==
    \E sc \in scenarios :
        LET stored == {k \in Keys : sc.db[k] # None}
            index == CHOOSE f \in [stored -> Entries] : IsInjective(f)
            n(ch) == Cardinality({k \in stored : ChunkOf[k] = ch})
        IN  /\ table = [k \in Keys |-> IF k \in stored THEN index[k] ELSE None]
            /\ slots = [ch \in Chunks |-> [used |-> n(ch), counted |-> n(ch)]]
            /\ entry = [e \in Entries |->
                    [status |-> IF \E k \in stored : index[k] = e THEN "live" ELSE "free",
                     readers |-> 0,
                     expiry |-> IF \E k \in stored : index[k] = e
                                THEN sc.db[CHOOSE k \in stored : index[k] = e] ELSE "no"]]
            /\ lock = [ch \in Chunks |-> [writer |-> None, readers |-> {}]]
            /\ client = [c \in Clients |-> Idle(c)]
            /\ lost = {}
            /\ undefined = FALSE
            /\ bound = sc.bound

Init == InitOf(Scenarios)

Spec == Init /\ [][Next]_vars

-----------------------------------------------------------------------------
(***************************************************************************)
(* Properties.                                                             *)
(***************************************************************************)
(* Entry indexes, locks and clients are what the code declares them to be. *)
TypeOK ==
    /\ table \in [Keys -> Entries \cup {None}]
    /\ entry \in [Entries -> EntryIndexes]
    /\ \A ch \in Chunks : lock[ch].writer \in Clients \cup {None, "lost"}
                          /\ lock[ch].readers \subseteq Clients
    /\ \A c \in Clients :
        /\ client[c].rmw \in RmwStatuses \X RmwStatuses
        /\ client[c].key \in Arguments \X Arguments
        /\ client[c].value \in Arguments \X Arguments

IncrDecrs == {"incr", "incrby", "decr", "decrby", "incrbyfloat"}

Lost(what) == {<<l.cmd, l.path>> : l \in {x \in lost : x.what = what}}

(* A command ends with no lock in its hands: module_redis_command_*_end     *)
(* releases the transaction on every path, except in TOUCH, which never     *)
(* does, in EXPIRE and EXPIREAT when the read-modify-write cannot begin,    *)
(* and on the error paths of SETRANGE.                                      *)
LocksReturned ==
    Lost("lock") \subseteq {<<"touch", "ok">>, <<"touch", "failed">>, <<"expire", "failed">>,
                            <<"expireat", "failed">>, <<"setrange", "failed">>,
                            <<"setrange", "commit">>}

(* A command gives the reader of every value it prepared for reading back,  *)
(* so that the value can be disposed of, except APPEND to an existing key   *)
(* and GETEX with an invalid expire time.                                   *)
ReadersReturned ==
    Lost("reader") \subseteq {<<"append", "ok">>, <<"append", "failed">>, <<"append", "commit">>,
                              <<"getex", "invalid">>}

(* A slot that rmw_begin reserved for a missing key is filled or given      *)
(* back, except when the EXPIRE commands and PERSIST meet a missing key and *)
(* when SETRANGE of a missing key fails.                                    *)
SlotsReturned ==
    Lost("slot") \subseteq {<<"expire", "missing">>, <<"expireat", "missing">>,
                            <<"pexpire", "missing">>, <<"pexpireat", "missing">>,
                            <<"persist", "missing">>, <<"setrange", "failed">>}

(* The key and the value of a command are taken over by the database or     *)
(* freed with its context, once, except in GETSET when it fails and in COPY *)
(* when the commit fails.                                                   *)
MemoryReturned ==
    Lost("memory") \subseteq {<<"getset", "failed">>, <<"getset", "commit">>, <<"copy", "commit">>}

(* A client gets one reply for each command, except that COPY sends none    *)
(* when the write of the copy fails and two when its allocation fails.      *)
OneReply ==
    /\ Lost("no reply") \subseteq {<<"copy", "write">>}
    /\ Lost("two replies") \subseteq {<<"copy", "failed">>}

(* A slot is counted down once, except where a failed commit, which aborts  *)
(* the hashtable's operation itself, is followed by an abort of the command.*)
CountedOnce ==
    Lost("count") \subseteq {<<c, "commit">> : c \in IncrDecrs \cup {"append", "copy", "msetnx"}}

(* Nothing that was freed is used: the entry index a key leads to is live   *)
(* and belongs to no other key, whoever replaces, renames or deletes it.    *)
KeysLive ==
    ~undefined =>
        /\ \A k \in Keys : table[k] # None => entry[table[k]].status = "live"
        /\ \A k, l \in Keys : (k # l /\ table[k] # None) => table[k] # table[l]

(* The code uses freed or missing memory only in TOUCH, after an expired    *)
(* key, and in COPY of an expired key to itself.                            *)
DefinedBehaviour ==
    (undefined' /\ ~undefined) =>
        \E c \in Clients : client[c] # client'[c] /\
            \/ client[c].cmd = "touch" /\ client[c].step > 1
            \/ client[c].cmd = "copy" /\ client[c].keys[1] = client[c].keys[2]

(* A value that is being sent cannot be freed: every entry index counts     *)
(* exactly its readers, plus those that ended commands did not give back.   *)
ReadersExact ==
    \A e \in Entries :
        LET holds(c) == Cardinality({i \in DOMAIN client[c].held : client[c].held[i] = e})
            n == FoldFunction(+, 0, [c \in Clients |-> holds(c)])
        IN  /\ entry[e].readers >= n
            /\ Lost("reader") = {} => entry[e].readers = n
            /\ n > 0 => entry[e].status # "free"

(* The slots of a chunk are its keys and what running read-modify-writes    *)
(* reserved, unless a command lost one.                                     *)
SlotsExact ==
    ~Broken => \A ch \in Chunks :
        LET stored == Cardinality({k \in Keys : ChunkOf[k] = ch /\ table[k] # None})
            reserved == Cardinality({x \in Clients \X (1..2) :
                            client[x[1]].rmw[x[2]].reserved /\ ChunkOf[client[x[1]].rmw[x[2]].key] = ch})
        IN  /\ slots[ch].used >= stored + reserved
            /\ Lost("slot") = {} /\ Lost("count") = {} => slots[ch].used = stored + reserved

(* A key that has not expired disappears only by a command that deletes it: *)
(* a failed, an aborted or an unmet command leaves it (RmwAbort deletes     *)
(* only what had expired), but for TOUCH after an expired key.              *)
Deleting(me, k) ==
    \/ me.cmd \in {"del", "unlink", "getdel"}
    \/ me.cmd \in {"expire", "expireat", "pexpire", "pexpireat"} /\ me.opt = "negative"
    \/ me.cmd \in {"rename", "renamenx"} /\ k = me.keys[1]
    \/ me.cmd = "touch" /\ me.step > 1
LiveKeysStay ==
    \A k \in Keys :
        (table[k] # None /\ ~IsExpired([entry |-> entry], table[k]) /\ table'[k] = None) =>
            \E c \in Clients : client[c] # client'[c] /\ Deleting(client[c], k)

(* SETNX, SET NX, MSETNX, RENAMENX and COPY without REPLACE never replace a *)
(* key that exists, though they decide before they store and other clients  *)
(* run in between.                                                          *)
OnlyIfAbsent ==
    \A c \in Clients, k \in Keys :
        LET me == client[c] IN
        (/\ me # client'[c]
         /\ me.cmd \in {"setnx", "msetnx", "renamenx", "copy"} \/ (me.cmd = "set" /\ me.opt = "nx")
         /\ me.opt # "replace"
         /\ table[k] # None /\ ~IsExpired([entry |-> entry], table[k])
         /\ table'[k] # table[k])
        => me.cmd = "renamenx" /\ k = me.keys[1]

(* APPEND, the INCR commands, SET KEEPTTL and RENAME keep the time at which *)
(* the value expires.                                                       *)
ExpiryKept ==
    \A c \in Clients :
        LET me == client[c]
            old == table[me.keys[1]]
            new == table'[me.keys[Len(me.keys)]]
        IN  (/\ me.cmd \in IncrDecrs \cup {"append", "rename", "renamenx"}
                \/ (me.cmd = "set" /\ me.opt = "keepttl")
             /\ client'[c].pc = "end" /\ client'[c].path = "ok" /\ me.pc = "begin"
             /\ old # None /\ ~IsExpired([entry |-> entry], old))
            => entry'[new].expiry = entry[old].expiry
=============================================================================
