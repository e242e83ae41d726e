-------------------------- MODULE TransactionProofs --------------------------
(***************************************************************************)
(* Proofs about Transaction, for any number of transactions, workers and   *)
(* locks, any bound on spins and readers and any modulus of the index.     *)
(* The first part shows the safety properties, the second one that the     *)
(* spinlocks implement RWLocks.                                            *)
(***************************************************************************)
EXTENDS Transaction, FiniteSetTheorems, TLAPS

WritePCs == {"try_write", "try_write_2", "cas"}
ReadPCs == {"read_wait", "read_cleanup"}

(***************************************************************************)
(* The inductive invariant.  OwnerHasEntry ties the owner in a lock word   *)
(* to an entry of a list; it is preserved by a release only because that   *)
(* entry is unique (OneWriteEntry) and ids are (UniqueIds).  A write lock  *)
(* is granted on the readers count alone, so the count must be exact       *)
(* (CountOK), and when the expected count is 1 that one reader must be the *)
(* caller (UpgradeHolds).                                                  *)
(***************************************************************************)
LocalOK ==
    \A t \in Transactions :
        /\ Len(transaction[t].locks) <= MaxLocks
        /\ call[t].index <= Len(transaction[t].locks)
        /\ pc[t] # "release" => call[t].index = 0
        /\ pc[t] = "idle" <=> transaction[t].id = NotAcquired
        /\ pc[t] = "idle" => transaction[t].locks = <<>>
        /\ pc[t] \in WritePCs \cup ReadPCs =>
              call[t].spinlock \in Spinlocks /\ Len(transaction[t].locks) < MaxLocks

UniqueIds ==
    \A t, u \in Transactions :
        t # u /\ transaction[t].id = transaction[u].id => transaction[t].id = NotAcquired

OneWriteEntry ==
    \A t \in Transactions : \A l \in Spinlocks : \A i, j \in 1 .. MaxLocks :
        HasEntry(t, i, l, "WRITE") /\ HasEntry(t, j, l, "WRITE") => i = j

CountOK ==
    \A l \in Spinlocks :
        /\ IsFiniteSet(ReadTokens(l))
        /\ spinlock[l].readers_count = Cardinality(ReadTokens(l))

WriterAlone ==
    \A l \in Spinlocks : \A t, u \in Transactions :
        Holds(t, l, "WRITE") /\ t # u => ~Holds(u, l, "READ")

UpgradeHolds ==
    \A t \in Transactions :
        pc[t] \in WritePCs /\ call[t].expected_readers = 1 =>
            Holds(t, call[t].spinlock, "READ")

IndInv ==
    /\ TypeOK
    /\ LocalOK
    /\ UniqueIds
    /\ OwnerHasEntry
    /\ OneWriteEntry
    /\ CountOK
    /\ WriterAlone
    /\ UpgradeHolds
-----------------------------------------------------------------------------
\* The values of a call's locals before it starts.
LEMMA NoCallType == NoCall \in Calls /\ NoReserved \in Reserved
BY TransactionAssumption DEF NoCall, Calls, NoReserved

\* An entry is at a position of the list, and its transaction is not idle.
LEMMA EntryIndex ==
    ASSUME TypeOK, LocalOK, NEW t \in Transactions, NEW i \in Nat,
           NEW l \in Spinlocks, NEW type \in LockTypes, HasEntry(t, i, l, type)
    PROVE  /\ i \in 1 .. MaxLocks
           /\ i \in Unreleased(t)
           /\ pc[t] # "idle"
           /\ transaction[t].id # NotAcquired
BY TransactionAssumption DEF TypeOK, LocalOK, HasEntry, Unreleased, Calls

\* Holding a lock is having some entry for it.
LEMMA HoldsEntry ==
    ASSUME NEW t \in Transactions, NEW l \in Spinlocks, NEW type \in LockTypes
    PROVE  /\ Holds(t, l, type) <=> \E i \in Nat : HasEntry(t, i, l, type)
           /\ Holds(t, l, type)' <=> \E i \in Nat : HasEntry(t, i, l, type)'
<1>1. Unreleased(t) \subseteq Nat /\ (Unreleased(t) \subseteq Nat)'
  BY DEF Unreleased
<1> QED BY <1>1 DEF Holds, HasEntry

\* What is in the list of tokens of a lock.
LEMMA TokenMembers ==
    ASSUME TypeOK, LocalOK, NEW l \in Spinlocks, NEW t \in Transactions, NEW i \in Nat
    PROVE  <<t, i>> \in ReadTokens(l) <=>
              (i = 0 /\ Counted(t, l)) \/ HasEntry(t, i, l, "READ")
BY EntryIndex, TransactionAssumption DEF ReadTokens, LockTypes

\* A step that touches neither the lists nor the position of a release keeps every entry.
LEMMA KeepEntries ==
    ASSUME \A u \in Transactions : /\ transaction'[u].locks = transaction[u].locks
                                   /\ call'[u].index = call[u].index
    PROVE  \A u \in Transactions, i \in Nat, m \in Spinlocks, type \in LockTypes :
               HasEntry(u, i, m, type)' <=> HasEntry(u, i, m, type)
BY DEF HasEntry, Unreleased, Entry

\* transaction_locks_list_add makes one list one longer, and touches nothing else.
LEMMA AppendType ==
    ASSUME TypeOK, NEW t \in Transactions, NEW l \in Spinlocks,
           NEW type \in LockTypes, LocksListAdd(t, l, type)
    PROVE  /\ transaction' \in [Transactions -> [id    : TransactionIds \cup {NotAcquired},
                                                locks : Seq(LockEntries)]]
           /\ transaction'[t].id = transaction[t].id
           /\ Len(transaction'[t].locks) = Len(transaction[t].locks) + 1
           /\ \A u \in Transactions \ {t} : transaction'[u] = transaction[u]
<1> DEFINE e == [spinlock |-> l, lock_type |-> type]
<1>1. e \in LockEntries
  BY DEF LockEntries
<1>2. transaction' = [transaction EXCEPT ![t].locks = Append(@, e)]
  BY DEF LocksListAdd
<1>3. /\ Append(transaction[t].locks, e) \in Seq(LockEntries)
      /\ Len(Append(transaction[t].locks, e)) = Len(transaction[t].locks) + 1
  <2>1. transaction[t].locks \in Seq(LockEntries)
    BY DEF TypeOK
  <2> HIDE DEF e
  <2> QED BY <1>1, <2>1
<1> HIDE DEF e
<1> QED BY <1>2, <1>3, Zenon DEF TypeOK

\* No release advances in this step.
IndexesStay == \A u \in Transactions : call'[u].index = call[u].index

\* The step adds one entry of t for l, in a position of the list that was free.
OneMoreEntry(t, l, type) ==
    \E n \in 1 .. MaxLocks :
        /\ \A m \in Spinlocks, type2 \in LockTypes : ~HasEntry(t, n, m, type2)
        /\ \A u \in Transactions, i \in Nat, m \in Spinlocks, type2 \in LockTypes :
               HasEntry(u, i, m, type2)' <=>
                  \/ HasEntry(u, i, m, type2)
                  \/ u = t /\ i = n /\ m = l /\ type2 = type

\* transaction_locks_list_add adds one entry.
LEMMA AppendEntry ==
    ASSUME TypeOK, LocalOK, NEW t \in Transactions, NEW l \in Spinlocks,
           NEW type \in LockTypes, LocksListAdd(t, l, type),
           pc[t] # "release", Len(transaction[t].locks) < MaxLocks,
           IndexesStay
    PROVE  OneMoreEntry(t, l, type)
<1>1. transaction[t].locks \in Seq(LockEntries) /\ call[t].index = 0 /\ call'[t].index = 0
  BY DEF TypeOK, LocalOK, IndexesStay
<1>2. transaction'[t].locks = Append(transaction[t].locks, [spinlock |-> l, lock_type |-> type])
  BY DEF TypeOK, LocksListAdd
<1>3. \A u \in Transactions \ {t} : /\ transaction'[u].locks = transaction[u].locks
                                    /\ call'[u].index = call[u].index
  BY DEF TypeOK, LocksListAdd, IndexesStay
<1>4. PICK n \in 1 .. MaxLocks : n = Len(transaction[t].locks) + 1
  BY <1>1, TransactionAssumption
<1>5. \A m \in Spinlocks, type2 \in LockTypes : ~HasEntry(t, n, m, type2)
  BY <1>1, <1>4 DEF HasEntry, Unreleased
<1>6. ASSUME NEW u \in Transactions, NEW i \in Nat, NEW m \in Spinlocks,
             NEW type2 \in LockTypes
      PROVE  HasEntry(u, i, m, type2)' <=>
                \/ HasEntry(u, i, m, type2)
                \/ u = t /\ i = n /\ m = l /\ type2 = type
  <2>1. CASE u # t
    BY <1>3, <2>1 DEF HasEntry, Unreleased, Entry
  <2>2. CASE u = t
    <3> DEFINE s == transaction[t].locks
               e == [spinlock |-> l, lock_type |-> type]
    <3>1. /\ Len(s) \in Nat
          /\ Len(s') = n
          /\ s'[n] = e
          /\ \A j \in 1 .. Len(s) : s'[j] = s[j]
      <4>1. e \in LockEntries
        BY DEF LockEntries
      <4> HIDE DEF e
      <4> QED BY <1>1, <1>2, <1>4, <4>1 DEF e
    <3>2. HasEntry(u, i, m, type2) <=>
             i \in 1 .. Len(s) /\ s[i] = [spinlock |-> m, lock_type |-> type2]
      BY <1>1, <2>2, <3>1 DEF HasEntry, Unreleased, Entry
    <3>3. HasEntry(u, i, m, type2)' <=>
             i \in 1 .. n /\ s'[i] = [spinlock |-> m, lock_type |-> type2]
      BY <1>1, <2>2, <3>1 DEF HasEntry, Unreleased, Entry
    <3>4. e = [spinlock |-> m, lock_type |-> type2] <=> m = l /\ type2 = type
      BY Zenon
    <3> HIDE DEF e
    <3> QED BY <1>4, <2>2, <3>1, <3>2, <3>3, <3>4, SMTT(30)
  <2> QED BY <2>1, <2>2
<1> QED BY <1>5, <1>6 DEF OneMoreEntry

\* A step of the loop of transaction_release takes one entry away, the next one.
LEMMA ReleaseEntry ==
    ASSUME TypeOK, LocalOK, NEW t \in Transactions, UNCHANGED transaction,
           call'[t].index = call[t].index + 1,
           \A u \in Transactions \ {t} : call'[u].index = call[u].index
    PROVE  \A u \in Transactions, i \in Nat, m \in Spinlocks, type \in LockTypes :
               HasEntry(u, i, m, type)' <=>
                  HasEntry(u, i, m, type) /\ ~(u = t /\ i = call[t].index + 1)
<1>1. call[t].index \in Nat
  BY DEF TypeOK, Calls
<1> QED BY <1>1, SMTT(30) DEF HasEntry, Unreleased, Entry

-----------------------------------------------------------------------------
(***************************************************************************)
(* A step that changes no owner, no count, no list and no id.              *)
(***************************************************************************)
LEMMA QuietStep ==
    ASSUME IndInv, TypeOK', LocalOK', UNCHANGED transaction,
           \A m \in Spinlocks : /\ spinlock'[m].transaction_id = spinlock[m].transaction_id
                                /\ spinlock'[m].readers_count = spinlock[m].readers_count,
           \A u \in Transactions :
               /\ call'[u].index = call[u].index
               /\ \A m \in Spinlocks : Counted(u, m)' <=> Counted(u, m)
               /\ pc'[u] \in WritePCs /\ call'[u].expected_readers = 1 =>
                     Holds(u, call'[u].spinlock, "READ")
    PROVE  IndInv'
<1> USE DEF LockTypes
<1>1. \A u \in Transactions, i \in Nat, m \in Spinlocks, type \in LockTypes :
          HasEntry(u, i, m, type)' <=> HasEntry(u, i, m, type)
  BY KeepEntries
<1>2. \A u \in Transactions, m \in Spinlocks, type \in LockTypes : Holds(u, m, type)' <=> Holds(u, m, type)
  BY <1>1, HoldsEntry
<1>3. \A m \in Spinlocks : ReadTokens(m)' = ReadTokens(m)
  BY <1>1 DEF ReadTokens
<1>4. \A u \in Transactions : pc'[u] = "idle" <=> pc[u] = "idle"
  BY DEF IndInv, LocalOK
<1>5. UniqueIds'
  BY DEF IndInv, UniqueIds
<1>6. OwnerHasEntry'
  BY <1>2, <1>4 DEF IndInv, OwnerHasEntry, IsOwnedBy
<1>7. OneWriteEntry'
  BY <1>1 DEF IndInv, OneWriteEntry
<1>8. CountOK'
  BY <1>3 DEF IndInv, CountOK
<1>9. WriterAlone'
  BY <1>2 DEF IndInv, WriterAlone
<1>10. UpgradeHolds'
  BY <1>2 DEF UpgradeHolds, LocalOK
<1> QED BY <1>5, <1>6, <1>7, <1>8, <1>9, <1>10 DEF IndInv

(***************************************************************************)
(* Entering and leaving a call that locks nothing, spinning, starting a    *)
(* release and writing the reserved bits are such steps.                   *)
(***************************************************************************)
LEMMA LockForWriteInv ==
    ASSUME IndInv, NEW t \in Transactions, NEW l \in Spinlocks, LockForWrite(t, l)
    PROVE  IndInv'
<1> USE TransactionAssumption DEF IndInv, LockTypes
<1>1. TypeOK'
  BY NoCallType, Zenon DEF TypeOK, Calls, PCs, LockForWrite, BeginWriteLock, CanCall
<1>2. LocalOK'
  BY SMTT(30) DEF TypeOK, LocalOK, NoCall, Calls, WritePCs, ReadPCs, LockForWrite, BeginWriteLock, CanCall
<1>3. \A u \in Transactions :
          /\ call'[u].index = call[u].index
          /\ \A m \in Spinlocks : Counted(u, m)' <=> Counted(u, m)
  BY SMTT(30) DEF TypeOK, LocalOK, NoCall, Calls, Counted, LockForWrite, BeginWriteLock, CanCall
<1>4. \A u \in Transactions :
          pc'[u] \in WritePCs /\ call'[u].expected_readers = 1 =>
              Holds(u, call'[u].spinlock, "READ")
  BY SMTT(30) DEF TypeOK, NoCall, Calls, UpgradeHolds, WritePCs, LockForWrite, BeginWriteLock, CanCall
<1>5. /\ UNCHANGED transaction
      /\ \A m \in Spinlocks : /\ spinlock'[m].transaction_id = spinlock[m].transaction_id
                               /\ spinlock'[m].readers_count = spinlock[m].readers_count
  BY DEF TypeOK, LockForWrite, BeginWriteLock, CanCall
<1> HIDE DEF IndInv
<1> QED BY <1>1, <1>2, <1>3, <1>4, <1>5, QuietStep

LEMMA UpgradeLockForWriteInv ==
    ASSUME IndInv, NEW t \in Transactions, NEW l \in Spinlocks, Holds(t, l, "READ"), UpgradeLockForWrite(t, l)
    PROVE  IndInv'
<1> USE TransactionAssumption DEF IndInv, LockTypes
<1>1. TypeOK'
  BY NoCallType, Zenon DEF TypeOK, Calls, PCs, UpgradeLockForWrite, BeginWriteLock, CanCall
<1>2. LocalOK'
  BY SMTT(30) DEF TypeOK, LocalOK, NoCall, Calls, WritePCs, ReadPCs, UpgradeLockForWrite, BeginWriteLock, CanCall
<1>3. \A u \in Transactions :
          /\ call'[u].index = call[u].index
          /\ \A m \in Spinlocks : Counted(u, m)' <=> Counted(u, m)
  BY SMTT(30) DEF TypeOK, LocalOK, NoCall, Calls, Counted, UpgradeLockForWrite, BeginWriteLock, CanCall
<1>4. \A u \in Transactions :
          pc'[u] \in WritePCs /\ call'[u].expected_readers = 1 =>
              Holds(u, call'[u].spinlock, "READ")
  BY SMTT(30) DEF TypeOK, NoCall, Calls, UpgradeHolds, WritePCs, UpgradeLockForWrite, BeginWriteLock, CanCall
<1>5. /\ UNCHANGED transaction
      /\ \A m \in Spinlocks : /\ spinlock'[m].transaction_id = spinlock[m].transaction_id
                               /\ spinlock'[m].readers_count = spinlock[m].readers_count
  BY DEF TypeOK, UpgradeLockForWrite, BeginWriteLock, CanCall
<1> HIDE DEF IndInv
<1> QED BY <1>1, <1>2, <1>3, <1>4, <1>5, QuietStep

LEMMA ReadReservedForNewInv ==
    ASSUME IndInv, NEW t \in Transactions, ReadReservedForNew(t)
    PROVE  IndInv'
<1> USE TransactionAssumption DEF IndInv, LockTypes
<1>1. TypeOK'
  <2>1. call[t] \in Calls /\ spinlock[call[t].spinlock].reserved \in Reserved
    BY DEF TypeOK, LocalOK, WritePCs, ReadReservedForNew
  <2> QED BY <2>1, Zenon DEF TypeOK, Calls, PCs, ReadReservedForNew
<1>2. LocalOK'
  BY SMTT(30) DEF TypeOK, LocalOK, NoCall, Calls, WritePCs, ReadPCs, ReadReservedForNew
<1>3. \A u \in Transactions :
          /\ call'[u].index = call[u].index
          /\ \A m \in Spinlocks : Counted(u, m)' <=> Counted(u, m)
  BY SMTT(30) DEF TypeOK, LocalOK, NoCall, Calls, Counted, ReadReservedForNew
<1>4. \A u \in Transactions :
          pc'[u] \in WritePCs /\ call'[u].expected_readers = 1 =>
              Holds(u, call'[u].spinlock, "READ")
  BY SMTT(30) DEF TypeOK, NoCall, Calls, UpgradeHolds, WritePCs, ReadReservedForNew
<1>5. /\ UNCHANGED transaction
      /\ \A m \in Spinlocks : /\ spinlock'[m].transaction_id = spinlock[m].transaction_id
                               /\ spinlock'[m].readers_count = spinlock[m].readers_count
  BY DEF TypeOK, ReadReservedForNew
<1> HIDE DEF IndInv
<1> QED BY <1>1, <1>2, <1>3, <1>4, <1>5, QuietStep

LEMMA ReadReservedForExpectedInv ==
    ASSUME IndInv, NEW t \in Transactions, ReadReservedForExpected(t)
    PROVE  IndInv'
<1> USE TransactionAssumption DEF IndInv, LockTypes
<1>1. TypeOK'
  <2>1. call[t] \in Calls /\ spinlock[call[t].spinlock].reserved \in Reserved
    BY DEF TypeOK, LocalOK, WritePCs, ReadReservedForExpected
  <2> QED BY <2>1, Zenon DEF TypeOK, Calls, PCs, ReadReservedForExpected
<1>2. LocalOK'
  BY SMTT(30) DEF TypeOK, LocalOK, NoCall, Calls, WritePCs, ReadPCs, ReadReservedForExpected
<1>3. \A u \in Transactions :
          /\ call'[u].index = call[u].index
          /\ \A m \in Spinlocks : Counted(u, m)' <=> Counted(u, m)
  BY SMTT(30) DEF TypeOK, LocalOK, NoCall, Calls, Counted, ReadReservedForExpected
<1>4. \A u \in Transactions :
          pc'[u] \in WritePCs /\ call'[u].expected_readers = 1 =>
              Holds(u, call'[u].spinlock, "READ")
  BY SMTT(30) DEF TypeOK, NoCall, Calls, UpgradeHolds, WritePCs, ReadReservedForExpected
<1>5. /\ UNCHANGED transaction
      /\ \A m \in Spinlocks : /\ spinlock'[m].transaction_id = spinlock[m].transaction_id
                               /\ spinlock'[m].readers_count = spinlock[m].readers_count
  BY DEF TypeOK, ReadReservedForExpected
<1> HIDE DEF IndInv
<1> QED BY <1>1, <1>2, <1>3, <1>4, <1>5, QuietStep

LEMMA CompareAndSwapFailsInv ==
    ASSUME IndInv, NEW t \in Transactions, CompareAndSwapFails(t)
    PROVE  IndInv'
<1> USE TransactionAssumption DEF IndInv, LockTypes
<1>1. TypeOK'
  <2>1. call[t] \in Calls /\ call[t].spins + 1 \in 0 .. MaxSpins /\ NoReserved \in Reserved
    BY NoCallType, SMTT(30) DEF TypeOK, Calls, CompareAndSwapFails
  <2>2. call'[t] \in Calls
    BY <2>1, Zenon DEF TypeOK, Calls, CompareAndSwapFails
  <2> QED BY <2>2 DEF TypeOK, PCs, CompareAndSwapFails
<1>2. LocalOK'
  BY SMTT(30) DEF TypeOK, LocalOK, NoCall, Calls, WritePCs, ReadPCs, CompareAndSwapFails
<1>3. \A u \in Transactions :
          /\ call'[u].index = call[u].index
          /\ \A m \in Spinlocks : Counted(u, m)' <=> Counted(u, m)
  BY SMTT(30) DEF TypeOK, LocalOK, NoCall, Calls, Counted, CompareAndSwapFails
<1>4. \A u \in Transactions :
          pc'[u] \in WritePCs /\ call'[u].expected_readers = 1 =>
              Holds(u, call'[u].spinlock, "READ")
  BY SMTT(30) DEF TypeOK, NoCall, Calls, UpgradeHolds, WritePCs, CompareAndSwapFails
<1>5. /\ UNCHANGED transaction
      /\ \A m \in Spinlocks : /\ spinlock'[m].transaction_id = spinlock[m].transaction_id
                               /\ spinlock'[m].readers_count = spinlock[m].readers_count
  BY DEF TypeOK, CompareAndSwapFails
<1> HIDE DEF IndInv
<1> QED BY <1>1, <1>2, <1>3, <1>4, <1>5, QuietStep

LEMMA WriteLockStuckInv ==
    ASSUME IndInv, NEW t \in Transactions, WriteLockStuck(t)
    PROVE  IndInv'
<1> USE TransactionAssumption DEF IndInv, LockTypes
<1>1. TypeOK'
  BY NoCallType DEF TypeOK, Calls, PCs, WriteLockStuck
<1>2. LocalOK'
  BY DEF TypeOK, LocalOK, NoCall, Calls, WritePCs, ReadPCs, WriteLockStuck
<1>3. \A u \in Transactions :
          /\ call'[u].index = call[u].index
          /\ \A m \in Spinlocks : Counted(u, m)' <=> Counted(u, m)
  BY DEF TypeOK, LocalOK, NoCall, Calls, Counted, WriteLockStuck
<1>4. \A u \in Transactions :
          pc'[u] \in WritePCs /\ call'[u].expected_readers = 1 =>
              Holds(u, call'[u].spinlock, "READ")
  BY DEF TypeOK, NoCall, Calls, UpgradeHolds, WritePCs, WriteLockStuck
<1>5. /\ UNCHANGED transaction
      /\ \A m \in Spinlocks : /\ spinlock'[m].transaction_id = spinlock[m].transaction_id
                               /\ spinlock'[m].readers_count = spinlock[m].readers_count
  BY DEF TypeOK, WriteLockStuck
<1> HIDE DEF IndInv
<1> QED BY <1>1, <1>2, <1>3, <1>4, <1>5, QuietStep

LEMMA ReadLockSpinsInv ==
    ASSUME IndInv, NEW t \in Transactions, ReadLockSpins(t)
    PROVE  IndInv'
<1> USE TransactionAssumption DEF IndInv, LockTypes
<1>1. PICK n \in 0 .. MaxSpins, p \in ReadPCs :
          call' = [call EXCEPT ![t].spins = n] /\ pc' = [pc EXCEPT ![t] = p]
  <2>1. CASE call[t].spins < MaxSpins
    <3>1. call[t].spins + 1 \in 0 .. MaxSpins /\ pc' = [pc EXCEPT ![t] = "read_wait"]
      BY <2>1 DEF TypeOK, Calls, ReadLockSpins
    <3> QED BY <2>1, <3>1 DEF ReadPCs, ReadLockSpins
  <2>2. CASE ~(call[t].spins < MaxSpins)
    BY <2>2 DEF ReadPCs, ReadLockSpins
  <2> QED BY <2>1, <2>2
<1>2. TypeOK'
  <2>1. call'[t] \in Calls /\ pc'[t] \in PCs
    BY <1>1, Zenon DEF TypeOK, Calls, PCs, ReadPCs
  <2> QED BY <1>1, <2>1 DEF TypeOK, ReadLockSpins
<1>3. LocalOK'
  BY <1>1, SMTT(30) DEF TypeOK, LocalOK, Calls, WritePCs, ReadPCs, ReadLockSpins
<1>4. \A u \in Transactions :
          /\ call'[u].index = call[u].index
          /\ \A m \in Spinlocks : Counted(u, m)' <=> Counted(u, m)
  BY <1>1, SMTT(30) DEF TypeOK, Calls, Counted, ReadPCs, ReadLockSpins
<1>5. \A u \in Transactions :
          pc'[u] \in WritePCs /\ call'[u].expected_readers = 1 =>
              Holds(u, call'[u].spinlock, "READ")
  BY <1>1, SMTT(30) DEF TypeOK, Calls, UpgradeHolds, WritePCs, ReadPCs
<1>6. UNCHANGED <<transaction, spinlock>>
  BY DEF ReadLockSpins
<1> HIDE DEF IndInv
<1> QED BY <1>2, <1>3, <1>4, <1>5, <1>6, QuietStep

LEMMA ReleaseBeginInv ==
    ASSUME IndInv, NEW t \in Transactions, ReleaseBegin(t)
    PROVE  IndInv'
<1> USE TransactionAssumption DEF IndInv, LockTypes
<1>1. TypeOK'
  BY NoCallType DEF TypeOK, Calls, PCs, ReleaseBegin
<1>2. LocalOK'
  BY DEF TypeOK, LocalOK, NoCall, Calls, WritePCs, ReadPCs, ReleaseBegin
<1>3. \A u \in Transactions :
          /\ call'[u].index = call[u].index
          /\ \A m \in Spinlocks : Counted(u, m)' <=> Counted(u, m)
  BY DEF TypeOK, LocalOK, NoCall, Calls, Counted, ReleaseBegin
<1>4. \A u \in Transactions :
          pc'[u] \in WritePCs /\ call'[u].expected_readers = 1 =>
              Holds(u, call'[u].spinlock, "READ")
  BY DEF TypeOK, NoCall, Calls, UpgradeHolds, WritePCs, ReleaseBegin
<1>5. /\ UNCHANGED transaction
      /\ \A m \in Spinlocks : /\ spinlock'[m].transaction_id = spinlock[m].transaction_id
                               /\ spinlock'[m].readers_count = spinlock[m].readers_count
  BY DEF TypeOK, ReleaseBegin
<1> HIDE DEF IndInv
<1> QED BY <1>1, <1>2, <1>3, <1>4, <1>5, QuietStep

LEMMA WriteReservedInv ==
    ASSUME IndInv, NEW t \in Transactions, NEW l \in Spinlocks, WriteReserved(t, l)
    PROVE  IndInv'
<1> USE TransactionAssumption DEF IndInv, LockTypes
<1>1. TypeOK'
  <2>1. PICK r \in Reserved : spinlock' = [spinlock EXCEPT ![l].reserved = r]
    BY Zenon DEF WriteReserved
  <2> QED BY <2>1, Zenon DEF TypeOK, WriteReserved
<1>2. LocalOK'
  BY DEF TypeOK, LocalOK, NoCall, Calls, WritePCs, ReadPCs, WriteReserved
<1>3. \A u \in Transactions :
          /\ call'[u].index = call[u].index
          /\ \A m \in Spinlocks : Counted(u, m)' <=> Counted(u, m)
  BY DEF TypeOK, LocalOK, NoCall, Calls, Counted, WriteReserved
<1>4. \A u \in Transactions :
          pc'[u] \in WritePCs /\ call'[u].expected_readers = 1 =>
              Holds(u, call'[u].spinlock, "READ")
  BY SMTT(30) DEF TypeOK, NoCall, Calls, UpgradeHolds, WritePCs, WriteReserved
<1>5. /\ UNCHANGED transaction
      /\ \A m \in Spinlocks : /\ spinlock'[m].transaction_id = spinlock[m].transaction_id
                               /\ spinlock'[m].readers_count = spinlock[m].readers_count
  BY DEF TypeOK, WriteReserved
<1> HIDE DEF IndInv
<1> QED BY <1>1, <1>2, <1>3, <1>4, <1>5, QuietStep

-----------------------------------------------------------------------------
(***************************************************************************)
(* transaction_acquire hands out an index that fits and an id that is not  *)
(* the reserved one.                                                       *)
(***************************************************************************)
LEMMA NextIndexRange ==
    ASSUME TypeOK, NEW w \in Workers
    PROVE  /\ NextIndex(w) \in 0 .. IndexModulus - 1
           /\ <<w, NextIndex(w)>> # NotAcquired
<1> DEFINE i == (transaction_index[w] + 1) % IndexModulus
<1>1. i \in 0 .. IndexModulus - 1
  BY TransactionAssumption DEF TypeOK
<1> HIDE DEF i
<1>2. NextIndex(w) = IF w = 0 /\ i = 0 THEN i + 1 ELSE i
  BY DEF NextIndex, i
<1> QED BY <1>1, <1>2, TransactionAssumption DEF NotAcquired

LEMMA AcquireInv ==
    ASSUME IndInv, NEW t \in Transactions, Acquire(t)
    PROVE  IndInv'
<1> USE TransactionAssumption DEF IndInv, LockTypes
<1> DEFINE id == <<WorkerOf[t], NextIndex(WorkerOf[t])>>
<1>1. /\ WorkerOf[t] \in Workers
      /\ NextIndex(WorkerOf[t]) \in 0 .. IndexModulus - 1
      /\ id # NotAcquired
  BY NextIndexRange, Zenon
<1>2. /\ transaction' = [transaction EXCEPT ![t] = [id |-> id, locks |-> <<>>]]
      /\ pc' = [pc EXCEPT ![t] = "running"]
      /\ UNCHANGED <<spinlock, call>>
      /\ transaction[t].locks = <<>> /\ pc[t] = "idle"
      /\ \A u \in Transactions : transaction[u].id # id
  BY DEF Acquire, LocalOK, NotReusedWhileAlive
<1>3. id \in TransactionIds
  BY <1>1 DEF TransactionIds
<1> HIDE DEF id
<1>4. \A u \in Transactions : /\ transaction'[u].locks = transaction[u].locks
                              /\ call'[u].index = call[u].index
                              /\ u # t => transaction'[u].id = transaction[u].id
                              /\ u # t => pc'[u] = pc[u]
  BY <1>2 DEF TypeOK
<1>5. transaction'[t].id = id /\ pc'[t] = "running"
  BY <1>2 DEF TypeOK
<1>6. \A u \in Transactions, i \in Nat, m \in Spinlocks, type \in LockTypes :
          HasEntry(u, i, m, type)' <=> HasEntry(u, i, m, type)
  BY <1>4, KeepEntries
<1>7. \A u \in Transactions, m \in Spinlocks, type \in LockTypes : Holds(u, m, type)' <=> Holds(u, m, type)
  BY <1>6, HoldsEntry
<1>8. \A m \in Spinlocks, type \in LockTypes : ~Holds(t, m, type)
  BY <1>2, HoldsEntry, EntryIndex
<1>9. TypeOK'
  <2>1. transaction' \in [Transactions -> [id    : TransactionIds \cup {NotAcquired},
                                           locks : Seq(LockEntries)]]
    BY <1>2, <1>3 DEF TypeOK
  <2>2. transaction_index' \in [Workers -> 0 .. IndexModulus - 1]
    BY <1>1 DEF TypeOK, Acquire
  <2> QED BY <1>2, <2>1, <2>2 DEF TypeOK, PCs
<1>10. LocalOK'
  BY <1>1, <1>2, <1>4, <1>5, SMTT(30) DEF LocalOK, WritePCs, ReadPCs
<1>11. UniqueIds'
  BY <1>2, <1>4, <1>5, SMTT(30) DEF UniqueIds
<1>12. OwnerHasEntry'
  BY <1>2, <1>4, <1>7, <1>8 DEF OwnerHasEntry, IsOwnedBy
<1>13. OneWriteEntry'
  BY <1>6 DEF OneWriteEntry
<1>14. CountOK'
  <2>1. \A u \in Transactions : \A m \in Spinlocks : Counted(u, m)' <=> Counted(u, m)
    BY <1>2, <1>4, <1>5 DEF Counted
  <2>2. \A m \in Spinlocks : ReadTokens(m)' = ReadTokens(m)
    BY <1>6, <2>1 DEF ReadTokens
  <2> QED BY <1>2, <2>2 DEF CountOK
<1>15. WriterAlone'
  BY <1>7 DEF WriterAlone
<1>16. UpgradeHolds'
  BY <1>2, <1>4, <1>5, <1>7, SMTT(30) DEF UpgradeHolds, LocalOK, WritePCs
<1> QED BY <1>9, <1>10, <1>11, <1>12, <1>13, <1>14, <1>15, <1>16

\* The end of transaction_release: the list is exhausted, nothing is held any more.
LEMMA ReleaseEndInv ==
    ASSUME IndInv, NEW t \in Transactions, ReleaseEnd(t)
    PROVE  IndInv'
<1> USE TransactionAssumption DEF IndInv, LockTypes
<1>1. /\ transaction' = [transaction EXCEPT ![t] = [id |-> NotAcquired, locks |-> <<>>]]
      /\ call' = [call EXCEPT ![t] = NoCall]
      /\ pc' = [pc EXCEPT ![t] = "idle"]
      /\ UNCHANGED <<spinlock, transaction_index>>
      /\ pc[t] = "release"
      /\ call[t].index = Len(transaction[t].locks)
  BY DEF ReleaseEnd
<1>2. /\ transaction'[t] = [id |-> NotAcquired, locks |-> <<>>]
      /\ call'[t] = NoCall
      /\ pc'[t] = "idle"
      /\ \A u \in Transactions \ {t} : /\ transaction'[u] = transaction[u]
                                        /\ call'[u] = call[u]
                                        /\ pc'[u] = pc[u]
  BY <1>1 DEF TypeOK
<1>3. \A i \in Nat, m \in Spinlocks, type \in LockTypes : ~HasEntry(t, i, m, type) /\ ~HasEntry(t, i, m, type)'
  BY <1>1, <1>2 DEF TypeOK, HasEntry, Unreleased
<1>4. \A u \in Transactions, i \in Nat, m \in Spinlocks, type \in LockTypes :
          HasEntry(u, i, m, type)' <=> HasEntry(u, i, m, type)
  <2>1. \A u \in Transactions \ {t}, i \in Nat, m \in Spinlocks, type \in LockTypes :
            HasEntry(u, i, m, type)' <=> HasEntry(u, i, m, type)
    BY <1>2 DEF HasEntry, Unreleased, Entry
  <2> QED BY <1>3, <2>1
<1>5. \A u \in Transactions, m \in Spinlocks, type \in LockTypes : Holds(u, m, type)' <=> Holds(u, m, type)
  BY <1>4, HoldsEntry
<1>6. \A m \in Spinlocks, type \in LockTypes : ~Holds(t, m, type)
  BY <1>3, HoldsEntry
<1>7. TypeOK'
  BY <1>1, NoCallType DEF TypeOK, PCs
<1>8. LocalOK'
  BY <1>2 DEF LocalOK, NoCall, WritePCs, ReadPCs
<1>9. UniqueIds'
  BY <1>2 DEF UniqueIds
<1>10. OwnerHasEntry'
  BY <1>1, <1>2, <1>5, <1>6 DEF OwnerHasEntry, IsOwnedBy
<1>11. OneWriteEntry'
  BY <1>4 DEF OneWriteEntry
<1>12. CountOK'
  <2>1. \A u \in Transactions : \A m \in Spinlocks : Counted(u, m)' <=> Counted(u, m)
    BY <1>1, <1>2, SMTT(30) DEF Counted
  <2>2. \A m \in Spinlocks : ReadTokens(m)' = ReadTokens(m)
    BY <1>4, <2>1 DEF ReadTokens
  <2> QED BY <1>1, <2>2 DEF CountOK
<1>13. WriterAlone'
  BY <1>5 DEF WriterAlone
<1>14. UpgradeHolds'
  BY <1>2, <1>5 DEF UpgradeHolds, LocalOK, WritePCs
<1> QED BY <1>7, <1>8, <1>9, <1>10, <1>11, <1>12, <1>13, <1>14

-----------------------------------------------------------------------------
(***************************************************************************)
(* The compare and swap of a write lock.  The word had no owner, so no     *)
(* list has a WRITE entry for it; the count is 0, and nobody reads, or 1,  *)
(* and the only reader is the transaction that upgrades.                   *)
(***************************************************************************)
LEMMA NoOwnerNoWriter ==
    ASSUME IndInv, NEW l \in Spinlocks, spinlock[l].transaction_id = Unlocked,
           NEW u \in Transactions
    PROVE  ~Holds(u, l, "WRITE")
BY DEF IndInv, LocalOK, OwnerHasEntry, IsOwnedBy, Unlocked, NotAcquired

LEMMA OnlyReader ==
    ASSUME IndInv, NEW t \in Transactions, NEW l \in Spinlocks,
           \/ spinlock[l].readers_count = 0
           \/ spinlock[l].readers_count = 1 /\ Holds(t, l, "READ"),
           NEW u \in Transactions, u # t
    PROVE  ~Holds(u, l, "READ")
<1> USE DEF IndInv, LockTypes
<1> SUFFICES ASSUME Holds(u, l, "READ")
             PROVE  FALSE
  OBVIOUS
<1>1. PICK i \in Nat : <<u, i>> \in ReadTokens(l)
  BY HoldsEntry, TokenMembers
<1>2. IsFiniteSet(ReadTokens(l)) /\ spinlock[l].readers_count = Cardinality(ReadTokens(l))
  BY DEF CountOK
<1>3. CASE spinlock[l].readers_count = 0
  BY <1>1, <1>2, <1>3, FS_EmptySet, Zenon
<1>4. CASE spinlock[l].readers_count = 1 /\ Holds(t, l, "READ")
  <2>1. PICK j \in Nat : <<t, j>> \in ReadTokens(l)
    BY <1>4, HoldsEntry, TokenMembers
  <2>2. PICK x : ReadTokens(l) = {x}
    BY <1>2, <1>4, FS_Singleton, Zenon
  <2> QED BY <1>1, <2>1, <2>2
<1> QED BY <1>3, <1>4

LEMMA CompareAndSwapInv ==
    ASSUME IndInv, NEW t \in Transactions, CompareAndSwap(t)
    PROVE  IndInv'
<1> USE TransactionAssumption DEF IndInv, LockTypes
<1>0. PICK l \in Spinlocks : l = call[t].spinlock
  BY DEF TypeOK, LocalOK, WritePCs, CompareAndSwap
<1>1. /\ l \in Spinlocks /\ pc[t] = "cas" /\ pc[t] \in WritePCs
      /\ call[t] \in Calls
      /\ Len(transaction[t].locks) < MaxLocks
      /\ transaction[t].id \in TransactionIds \cup {NotAcquired}
      /\ transaction[t].id # NotAcquired
  BY DEF TypeOK, LocalOK, WritePCs, CompareAndSwap
<1>2. /\ spinlock[l].transaction_id = Unlocked
      /\ spinlock[l].readers_count = call[t].expected_readers
  BY <1>0 DEF CompareAndSwap, CasMatches
<1>3. /\ spinlock' = [spinlock EXCEPT ![l] = [transaction_id |-> transaction[t].id,
                                             readers_count  |-> call[t].expected_readers,
                                             reserved       |-> call[t].new_reserved]]
      /\ LocksListAdd(t, l, "WRITE")
      /\ pc' = [pc EXCEPT ![t] = "running"]
      /\ call' = [call EXCEPT ![t] = NoCall]
      /\ UNCHANGED transaction_index
  BY <1>0, SMTT(30) DEF CompareAndSwap, LocksListAdd
<1>4. /\ transaction'[t].id = transaction[t].id
      /\ Len(transaction'[t].locks) <= MaxLocks
      /\ call'[t] = NoCall
      /\ pc'[t] = "running"
      /\ \A u \in Transactions \ {t} : /\ transaction'[u] = transaction[u]
                                        /\ call'[u] = call[u]
                                        /\ pc'[u] = pc[u]
  BY <1>0, <1>1, <1>3, AppendType, SMTT(60) DEF TypeOK
<1>5. \A m \in Spinlocks :
          /\ spinlock'[m].readers_count = spinlock[m].readers_count
          /\ m # l => spinlock'[m].transaction_id = spinlock[m].transaction_id
          /\ m = l => spinlock'[m].transaction_id = transaction[t].id
  BY <1>1, <1>2, <1>3 DEF TypeOK
<1>6. PICK n \in 1 .. MaxLocks :
          \A u \in Transactions, i \in Nat, m \in Spinlocks, type \in LockTypes :
              HasEntry(u, i, m, type)' <=>
                 HasEntry(u, i, m, type) \/ (u = t /\ i = n /\ m = l /\ type = "WRITE")
  <2>1. IndexesStay
    BY <1>1, <1>4 DEF LocalOK, NoCall, IndexesStay
  <2>2. /\ TypeOK /\ LocalOK /\ pc[t] # "release" /\ Len(transaction[t].locks) < MaxLocks
        /\ LocksListAdd(t, l, "WRITE") /\ "WRITE" \in LockTypes
    BY <1>1, <1>3
  <2> HIDE DEF IndInv, LockTypes
  <2>3. OneMoreEntry(t, l, "WRITE")
    BY ONLY <2>1, <2>2, AppendEntry, t \in Transactions, l \in Spinlocks
  <2> QED BY ONLY <2>3, Zenon DEF OneMoreEntry
<1>7. \A u \in Transactions, m \in Spinlocks, type \in LockTypes :
          Holds(u, m, type)' <=> Holds(u, m, type) \/ (u = t /\ m = l /\ type = "WRITE")
  BY <1>6, HoldsEntry, SMTT(30)
<1>8. \A u \in Transactions : ~Holds(u, l, "WRITE")
  BY <1>1, <1>2, NoOwnerNoWriter, SMTT(30)
<1>9. \A u \in Transactions \ {t} : ~Holds(u, l, "READ")
  <2>1. call[t].expected_readers = 1 => Holds(t, l, "READ")
    BY <1>0, <1>1, SMTT(30) DEF UpgradeHolds
  <2> QED BY <1>1, <1>2, <2>1, OnlyReader, SMTT(30) DEF Calls
<1>10. TypeOK'
  <2>1. spinlock'[l] \in [transaction_id : TransactionIds \cup {Unlocked},
                          readers_count : 0 .. MaxReaders, reserved : Reserved]
    BY <1>1, <1>2, <1>3 DEF TypeOK, Calls, Unlocked, NotAcquired
  <2>2. transaction' \in [Transactions -> [id    : TransactionIds \cup {NotAcquired},
                                           locks : Seq(LockEntries)]]
    BY <1>1, <1>3, AppendType, ZenonT(30)
  <2> QED BY <1>1, <1>3, <2>1, <2>2, NoCallType, Zenon DEF TypeOK, PCs
<1>11. LocalOK'
  BY <1>1, <1>4, SMTT(30) DEF LocalOK, NoCall, WritePCs, ReadPCs
<1>12. UniqueIds'
  BY <1>4, SMTT(30) DEF UniqueIds
<1>13. OwnerHasEntry'
  BY <1>1, <1>4, <1>5, <1>7, <1>8, SMTT(30) DEF OwnerHasEntry, IsOwnedBy
<1>14. OneWriteEntry'
  BY <1>6, <1>8, HoldsEntry DEF OneWriteEntry
<1>15. CountOK'
  <2>1. \A u \in Transactions : \A m \in Spinlocks : Counted(u, m)' <=> Counted(u, m)
    BY <1>1, <1>4 DEF Counted
  <2>2. \A m \in Spinlocks : ReadTokens(m)' = ReadTokens(m)
    BY <1>6, <2>1 DEF ReadTokens
  <2> QED BY <1>5, <2>2 DEF CountOK
<1>16. WriterAlone'
  BY <1>7, <1>8, <1>9, SMTT(30) DEF WriterAlone
<1>17. UpgradeHolds'
  BY <1>4, <1>7 DEF UpgradeHolds, LocalOK, WritePCs
<1> QED BY <1>10, <1>11, <1>12, <1>13, <1>14, <1>15, <1>16, <1>17, SMTT(30)

-----------------------------------------------------------------------------
(***************************************************************************)
(* The increment of transaction_lock_for_read: one more token.             *)
(***************************************************************************)
LEMMA LockForReadInv ==
    ASSUME IndInv, NEW t \in Transactions, NEW l \in Spinlocks, LockForRead(t, l)
    PROVE  IndInv'
<1> USE TransactionAssumption DEF IndInv, LockTypes
<1>1. /\ pc[t] = "running" /\ Len(transaction[t].locks) < MaxLocks
      /\ spinlock[l].readers_count \in 0 .. MaxReaders - 1
      /\ spinlock' = [spinlock EXCEPT ![l].readers_count = @ + 1]
      /\ pc' = [pc EXCEPT ![t] = "read_wait"]
      /\ call' = [call EXCEPT ![t] = [NoCall EXCEPT !.spinlock = l]]
      /\ UNCHANGED <<transaction_index, transaction>>
  BY DEF TypeOK, LockForRead, CanCall
<1>2. /\ pc'[t] = "read_wait" /\ call'[t].spinlock = l
      /\ \A u \in Transactions \ {t} : call'[u] = call[u] /\ pc'[u] = pc[u]
      /\ \A u \in Transactions : call'[u].index = call[u].index
  BY <1>1 DEF TypeOK, LocalOK, NoCall
<1>3. \A m \in Spinlocks :
          /\ spinlock'[m].transaction_id = spinlock[m].transaction_id
          /\ spinlock'[m].readers_count = IF m = l THEN spinlock[m].readers_count + 1
                                                   ELSE spinlock[m].readers_count
  BY <1>1 DEF TypeOK
<1>4. \A u \in Transactions, i \in Nat, m \in Spinlocks, type \in LockTypes :
          HasEntry(u, i, m, type)' <=> HasEntry(u, i, m, type)
  BY <1>1, <1>2, KeepEntries
<1>5. \A u \in Transactions, m \in Spinlocks, type \in LockTypes :
          Holds(u, m, type)' <=> Holds(u, m, type)
  BY <1>4, HoldsEntry
<1>6. TypeOK'
  <2>1. [NoCall EXCEPT !.spinlock = l] \in Calls
    BY NoCallType DEF Calls
  <2>2. spinlock[l].readers_count + 1 \in 0 .. MaxReaders
    BY <1>1
  <2>3. spinlock' \in [Spinlocks -> [transaction_id : TransactionIds \cup {Unlocked},
                                     readers_count : 0 .. MaxReaders, reserved : Reserved]]
    BY <1>1, <2>2, Zenon DEF TypeOK
  <2> QED BY <1>1, <2>1, <2>3 DEF TypeOK, PCs
<1>7. LocalOK'
  BY <1>1, <1>2 DEF LocalOK, WritePCs, ReadPCs
<1>8. UniqueIds'
  BY <1>1 DEF UniqueIds
<1>9. OwnerHasEntry'
  BY <1>1, <1>2, <1>3, <1>5 DEF OwnerHasEntry, IsOwnedBy
<1>10. OneWriteEntry'
  BY <1>4 DEF OneWriteEntry
<1>11. CountOK'
  <2>1. \A u \in Transactions, m \in Spinlocks :
            Counted(u, m)' <=> Counted(u, m) \/ (u = t /\ m = l)
    BY <1>1, <1>2 DEF Counted
  <2>2. \A m \in Spinlocks \ {l} : ReadTokens(m)' = ReadTokens(m)
    BY <1>4, <2>1 DEF ReadTokens
  <2>3. ReadTokens(l)' = ReadTokens(l) \cup {<<t, 0>>}
    BY <1>4, <2>1 DEF ReadTokens
  <2>4. <<t, 0>> \notin ReadTokens(l)
    <3>1. ~Counted(t, l) /\ ~HasEntry(t, 0, l, "READ")
      BY <1>1, EntryIndex, SMTT(30) DEF Counted
    <3> QED BY <3>1, TokenMembers
  <2>5. /\ IsFiniteSet(ReadTokens(l)) 
        /\ spinlock[l].readers_count = Cardinality(ReadTokens(l))
    BY DEF CountOK
  <2>6. /\ IsFiniteSet(ReadTokens(l))'
        /\ (spinlock[l].readers_count = Cardinality(ReadTokens(l)))'
    <3>1. /\ IsFiniteSet(ReadTokens(l) \cup {<<t, 0>>})
          /\ Cardinality(ReadTokens(l) \cup {<<t, 0>>}) = Cardinality(ReadTokens(l)) + 1
      BY <2>4, <2>5, FS_AddElement, SMTT(30)
    <3> QED BY <1>3, <2>3, <2>5, <3>1, SMTT(30)
  <2> QED BY <1>3, <2>2, <2>6 DEF CountOK
<1>12. WriterAlone'
  BY <1>5 DEF WriterAlone
<1>13. UpgradeHolds'
  BY <1>2, <1>5 DEF UpgradeHolds, LocalOK, WritePCs
<1> QED BY <1>6, <1>7, <1>8, <1>9, <1>10, <1>11, <1>12, <1>13, SMTT(30)

\* The cleanup of a call of transaction_lock_for_read that gave up: its token goes.
LEMMA ReadLockCleanupInv ==
    ASSUME IndInv, NEW t \in Transactions, ReadLockCleanup(t)
    PROVE  IndInv'
<1> USE TransactionAssumption DEF IndInv, LockTypes
<1>0. PICK l \in Spinlocks : l = call[t].spinlock
  BY DEF TypeOK, LocalOK, ReadPCs, ReadLockCleanup
<1>1. /\ pc[t] = "read_cleanup"
      /\ spinlock' = [spinlock EXCEPT ![l].readers_count = @ - 1]
      /\ pc' = [pc EXCEPT ![t] = "running"]
      /\ call' = [call EXCEPT ![t] = NoCall]
      /\ UNCHANGED <<transaction_index, transaction>>
  BY <1>0 DEF ReadLockCleanup
<1>2. /\ pc'[t] = "running"
      /\ \A u \in Transactions \ {t} : call'[u] = call[u] /\ pc'[u] = pc[u]
      /\ \A u \in Transactions : call'[u].index = call[u].index
  BY <1>1 DEF TypeOK, LocalOK, NoCall
<1>3. \A m \in Spinlocks :
          /\ spinlock'[m].transaction_id = spinlock[m].transaction_id
          /\ spinlock'[m].readers_count = IF m = l THEN spinlock[m].readers_count - 1
                                                   ELSE spinlock[m].readers_count
  BY <1>1, SMTT(30) DEF TypeOK
<1>4. \A u \in Transactions, i \in Nat, m \in Spinlocks, type \in LockTypes :
          HasEntry(u, i, m, type)' <=> HasEntry(u, i, m, type)
  BY <1>1, <1>2, KeepEntries
<1>5. \A u \in Transactions, m \in Spinlocks, type \in LockTypes :
          Holds(u, m, type)' <=> Holds(u, m, type)
  BY <1>4, HoldsEntry
<1>6. /\ IsFiniteSet(ReadTokens(l))
      /\ spinlock[l].readers_count = Cardinality(ReadTokens(l))
      /\ <<t, 0>> \in ReadTokens(l)
  BY <1>0, <1>1, TokenMembers DEF CountOK, Counted
<1>7. spinlock[l].readers_count \in 1 .. MaxReaders
  BY <1>6, FS_EmptySet DEF TypeOK
<1>8. TypeOK'
  <2>1. spinlock[l].readers_count - 1 \in 0 .. MaxReaders
    BY <1>7
  <2>2. spinlock' \in [Spinlocks -> [transaction_id : TransactionIds \cup {Unlocked},
                                     readers_count : 0 .. MaxReaders, reserved : Reserved]]
    BY <1>1, <2>1, Zenon DEF TypeOK
  <2> QED BY <1>1, <2>2, NoCallType, SMTT(30) DEF TypeOK, PCs
<1>9. LocalOK'
  BY <1>1, <1>2 DEF LocalOK, WritePCs, ReadPCs
<1>10. UniqueIds'
  BY <1>1 DEF UniqueIds
<1>11. OwnerHasEntry'
  BY <1>1, <1>2, <1>3, <1>5 DEF OwnerHasEntry, IsOwnedBy
<1>12. OneWriteEntry'
  BY <1>4 DEF OneWriteEntry
<1>13. CountOK'
  <2>1. \A u \in Transactions, m \in Spinlocks :
            Counted(u, m)' <=> Counted(u, m) /\ ~(u = t /\ m = l)
    BY <1>0, <1>1, <1>2 DEF Counted
  <2>2. \A m \in Spinlocks \ {l} : ReadTokens(m)' = ReadTokens(m)
    BY <1>4, <2>1 DEF ReadTokens
  <2>3. ReadTokens(l)' = ReadTokens(l) \ {<<t, 0>>}
    <3>1. ~HasEntry(t, 0, l, "READ")
      BY EntryIndex
    <3> QED BY <1>4, <2>1, <3>1, SMTT(30) DEF ReadTokens
  <2>4. /\ IsFiniteSet(ReadTokens(l))'
        /\ (spinlock[l].readers_count = Cardinality(ReadTokens(l)))'
    <3>1. /\ IsFiniteSet(ReadTokens(l) \ {<<t, 0>>})
          /\ Cardinality(ReadTokens(l) \ {<<t, 0>>}) = Cardinality(ReadTokens(l)) - 1
      BY <1>6, FS_RemoveElement, Zenon
    <3> QED BY <1>3, <1>6, <2>3, <3>1
  <2> QED BY <1>3, <2>2, <2>4 DEF CountOK
<1>14. WriterAlone'
  BY <1>5, SMTT(30) DEF WriterAlone
<1>15. UpgradeHolds'
  BY <1>2, <1>5, SMTT(30) DEF UpgradeHolds, LocalOK, WritePCs
<1> QED BY <1>8, <1>9, <1>10, <1>11, <1>12, <1>13, <1>14, <1>15, SMTT(30)

\* A read lock is granted: the token of the call becomes the token of the new entry.
LEMMA ReadLockGrantedInv ==
    ASSUME IndInv, NEW t \in Transactions, ReadLockGranted(t)
    PROVE  IndInv'
<1> USE TransactionAssumption DEF IndInv, LockTypes
<1>0. PICK l \in Spinlocks : l = call[t].spinlock
  BY DEF TypeOK, LocalOK, ReadPCs, ReadLockGranted
<1>1. /\ pc[t] = "read_wait" /\ Len(transaction[t].locks) < MaxLocks
      /\ spinlock[l].transaction_id = Unlocked
      /\ LocksListAdd(t, l, "READ")
      /\ pc' = [pc EXCEPT ![t] = "running"]
      /\ call' = [call EXCEPT ![t] = NoCall]
      /\ UNCHANGED <<spinlock, transaction_index>>
  BY <1>0, SMTT(30) DEF LocalOK, ReadPCs, ReadLockGranted, LocksListAdd
<1>2. /\ transaction'[t].id = transaction[t].id
      /\ Len(transaction'[t].locks) <= MaxLocks
      /\ \A u \in Transactions \ {t} : transaction'[u] = transaction[u]
      /\ transaction' \in [Transactions -> [id    : TransactionIds \cup {NotAcquired},
                                           locks : Seq(LockEntries)]]
  <2>1. TypeOK /\ LocksListAdd(t, l, "READ") /\ "READ" \in LockTypes
    BY <1>1, SMTT(30)
  <2>2. /\ transaction'[t].id = transaction[t].id
        /\ Len(transaction'[t].locks) = Len(transaction[t].locks) + 1
        /\ \A u \in Transactions \ {t} : transaction'[u] = transaction[u]
        /\ transaction' \in [Transactions -> [id    : TransactionIds \cup {NotAcquired},
                                             locks : Seq(LockEntries)]]
    BY ONLY <2>1, AppendType, t \in Transactions, l \in Spinlocks
  <2>3. Len(transaction[t].locks) \in Nat
    BY SMTT(30) DEF TypeOK
  <2> QED BY <1>1, <2>2, <2>3
<1>3. /\ pc'[t] = "running"
      /\ call'[t] = NoCall
      /\ \A u \in Transactions \ {t} : call'[u] = call[u] /\ pc'[u] = pc[u]
      /\ \A u \in Transactions : call'[u].index = call[u].index
  BY <1>1 DEF TypeOK, LocalOK, NoCall
<1>4. PICK n \in 1 .. MaxLocks :
          /\ \A m \in Spinlocks, type \in LockTypes : ~HasEntry(t, n, m, type)
          /\ \A u \in Transactions, i \in Nat, m \in Spinlocks, type \in LockTypes :
                 HasEntry(u, i, m, type)' <=>
                    HasEntry(u, i, m, type) \/ (u = t /\ i = n /\ m = l /\ type = "READ")
  <2>1. /\ TypeOK /\ LocalOK /\ pc[t] # "release" /\ Len(transaction[t].locks) < MaxLocks
        /\ LocksListAdd(t, l, "READ") /\ "READ" \in LockTypes
    BY <1>1
  <2>2. IndexesStay
    BY <1>3 DEF IndexesStay
  <2> HIDE DEF IndInv, LockTypes
  <2>3. OneMoreEntry(t, l, "READ")
    BY ONLY <2>1, <2>2, AppendEntry, t \in Transactions, l \in Spinlocks
  <2> QED BY ONLY <2>3, Zenon DEF OneMoreEntry
<1>5. \A u \in Transactions, m \in Spinlocks, type \in LockTypes :
          Holds(u, m, type)' <=> Holds(u, m, type) \/ (u = t /\ m = l /\ type = "READ")
  BY <1>4, HoldsEntry
<1>6. \A u \in Transactions : ~Holds(u, l, "WRITE")
  BY <1>1, NoOwnerNoWriter, SMTT(30)
<1>7. TypeOK'
  BY <1>1, <1>2, NoCallType, ZenonT(30) DEF TypeOK, PCs
<1>8. LocalOK'
  BY <1>1, <1>2, <1>3 DEF LocalOK, NoCall, WritePCs, ReadPCs
<1>9. UniqueIds'
  BY <1>2, ZenonT(30) DEF UniqueIds
<1>10. OwnerHasEntry'
  <2>1. \A u \in Transactions : /\ transaction'[u].id = transaction[u].id
                                /\ pc'[u] = "idle" <=> pc[u] = "idle"
    BY <1>1, <1>2, <1>3
  <2>2. \A u \in Transactions, m \in Spinlocks :
            Holds(u, m, "WRITE")' <=> Holds(u, m, "WRITE")
    BY <1>5
  <2> QED BY <1>1, <2>1, <2>2 DEF OwnerHasEntry, IsOwnedBy
<1>11. OneWriteEntry'
  BY <1>4 DEF OneWriteEntry
<1>12. CountOK'
  <2>1. \A u \in Transactions, m \in Spinlocks :
            Counted(u, m)' <=> Counted(u, m) /\ ~(u = t /\ m = l)
    BY <1>0, <1>1, <1>3 DEF Counted
  <2>2. \A m \in Spinlocks \ {l} : ReadTokens(m)' = ReadTokens(m)
    BY <1>4, <2>1 DEF ReadTokens
  <2>3. ReadTokens(l)' = (ReadTokens(l) \ {<<t, 0>>}) \cup {<<t, n>>}
    <3>1. ~HasEntry(t, 0, l, "READ")
      BY EntryIndex, SMTT(30)
    <3> QED BY <1>4, <2>1, <3>1, SMTT(30) DEF ReadTokens
  <2>4. /\ IsFiniteSet(ReadTokens(l))
        /\ spinlock[l].readers_count = Cardinality(ReadTokens(l))
        /\ <<t, 0>> \in ReadTokens(l)
        /\ <<t, n>> \notin ReadTokens(l)
    BY <1>0, <1>1, <1>4, TokenMembers, SMTT(60) DEF CountOK, Counted
  <2>5. /\ IsFiniteSet(ReadTokens(l) \ {<<t, 0>>})
        /\ Cardinality(ReadTokens(l) \ {<<t, 0>>}) = Cardinality(ReadTokens(l)) - 1
    BY <2>4, FS_RemoveElement, Zenon
  <2>6. /\ IsFiniteSet((ReadTokens(l) \ {<<t, 0>>}) \cup {<<t, n>>})
        /\ Cardinality((ReadTokens(l) \ {<<t, 0>>}) \cup {<<t, n>>}) =
               Cardinality(ReadTokens(l) \ {<<t, 0>>}) + 1
    BY <2>4, <2>5, FS_AddElement, Zenon
  <2>7. Cardinality(ReadTokens(l)) \in Nat
    BY <2>4, SMTT(30) DEF TypeOK
  <2>8. /\ IsFiniteSet(ReadTokens(l))'
        /\ (spinlock[l].readers_count = Cardinality(ReadTokens(l)))'
    BY <1>1, <2>3, <2>4, <2>5, <2>6, <2>7, SMTT(30)
  <2> QED BY <1>1, <2>2, <2>8, SMTT(30) DEF CountOK
<1>13. WriterAlone'
  BY <1>5, <1>6, SMTT(30) DEF WriterAlone
<1>14. UpgradeHolds'
  BY <1>3, <1>5 DEF UpgradeHolds, LocalOK, WritePCs
<1> QED BY <1>7, <1>8, <1>9, <1>10, <1>11, <1>12, <1>13, <1>14

-----------------------------------------------------------------------------
(***************************************************************************)
(* The loop of transaction_release.                                        *)
(***************************************************************************)
LEMMA ReleaseStep ==
    ASSUME IndInv, NEW t \in Transactions, ReleaseWrite(t) \/ ReleaseRead(t)
    PROVE  /\ pc[t] = "release"
           /\ UNCHANGED <<transaction_index, transaction, pc>>
           /\ call'[t].index = call[t].index + 1
           /\ call'[t].expected_readers = call[t].expected_readers
           /\ \A u \in Transactions \ {t} : call'[u] = call[u]
           /\ \A u \in Transactions : call'[u].spinlock = call[u].spinlock
           /\ call' \in [Transactions -> Calls]
           /\ LocalOK'
           /\ UniqueIds'
           /\ call[t].index + 1 \in Nat
           /\ NextEntry(t) \in LockEntries
           /\ HasEntry(t, call[t].index + 1, NextEntry(t).spinlock, NextEntry(t).lock_type)
<1> USE DEF IndInv
<1>1. /\ pc[t] = "release" /\ call[t].index < Len(transaction[t].locks)
      /\ call' = [call EXCEPT ![t].index = @ + 1]
      /\ UNCHANGED <<transaction_index, transaction, pc>>
  BY DEF ReleaseWrite, ReleaseRead
<1>2. /\ call[t].index \in Nat /\ transaction[t].locks \in Seq(LockEntries)
      /\ Len(transaction[t].locks) \in Nat
  BY DEF TypeOK, Calls
<1>3. call[t].index + 1 \in 1 .. Len(transaction[t].locks)
  BY <1>1, <1>2, SMTT(30)
<1>4. NextEntry(t) \in LockEntries
  BY <1>2, <1>3 DEF NextEntry, Entry
<1>5. HasEntry(t, call[t].index + 1, NextEntry(t).spinlock, NextEntry(t).lock_type)
  <2>1. NextEntry(t) = [spinlock |-> NextEntry(t).spinlock, lock_type |-> NextEntry(t).lock_type]
    BY <1>4 DEF LockEntries
  <2> QED BY <1>2, <1>3, <2>1 DEF HasEntry, Unreleased, NextEntry
<1>6. call' \in [Transactions -> Calls]
  <2>1. [call[t] EXCEPT !.index = call[t].index + 1] \in Calls
    <3>1. call[t] \in Calls /\ call[t].index + 1 \in Nat
      BY <1>2 DEF TypeOK
    <3> QED BY <3>1 DEF Calls
  <2>2. call' = [call EXCEPT ![t] = [call[t] EXCEPT !.index = call[t].index + 1]]
    BY <1>1 DEF TypeOK
  <2> QED BY <2>1, <2>2 DEF TypeOK
<1>7. /\ call'[t].index = call[t].index + 1
      /\ call'[t].expected_readers = call[t].expected_readers
      /\ \A u \in Transactions \ {t} : call'[u] = call[u]
      /\ \A u \in Transactions : call'[u].spinlock = call[u].spinlock
  BY <1>1 DEF TypeOK, Calls
<1>8. LocalOK'
  BY <1>1, <1>2, <1>7 DEF LocalOK
<1>9. UniqueIds'
  BY <1>1 DEF UniqueIds
<1> QED BY <1>1, <1>3, <1>4, <1>5, <1>6, <1>7, <1>8, <1>9

LEMMA ReleaseReadInv ==
    ASSUME IndInv, NEW t \in Transactions, ReleaseRead(t)
    PROVE  IndInv'
<1> USE DEF IndInv, LockTypes
<1>0. PICK l \in Spinlocks, n \in Nat :
          l = NextEntry(t).spinlock /\ n = call[t].index + 1 /\ HasEntry(t, n, l, "READ")
  <2>1. /\ call[t].index + 1 \in Nat
        /\ NextEntry(t) \in LockEntries
        /\ HasEntry(t, call[t].index + 1, NextEntry(t).spinlock, NextEntry(t).lock_type)
    <3> HIDE DEF IndInv
    <3> QED BY ReleaseStep
  <2>2. NextEntry(t).lock_type = "READ"
    BY DEF ReleaseRead
  <2> QED BY <2>1, <2>2, SMTT(30) DEF LockEntries
<1>1. spinlock' = [spinlock EXCEPT ![l].readers_count = @ - 1]
  BY <1>0, SMTT(30) DEF ReleaseRead
<1>2. /\ UNCHANGED <<transaction_index, transaction, pc>>
      /\ pc[t] = "release"
      /\ call' \in [Transactions -> Calls]
      /\ \A u \in Transactions \ {t} : call'[u] = call[u]
      /\ \A u \in Transactions : call'[u].spinlock = call[u].spinlock
      /\ LocalOK' /\ UniqueIds'
  BY ReleaseStep
<1>3. \A m \in Spinlocks :
          /\ spinlock'[m].transaction_id = spinlock[m].transaction_id
          /\ spinlock'[m].readers_count = IF m = l THEN spinlock[m].readers_count - 1
                                                   ELSE spinlock[m].readers_count
  BY <1>1, SMTT(30) DEF TypeOK
<1>4. \A u \in Transactions, i \in Nat, m \in Spinlocks, type \in LockTypes :
          HasEntry(u, i, m, type)' <=> HasEntry(u, i, m, type) /\ ~(u = t /\ i = n)
  BY <1>0, ReleaseStep, ReleaseEntry, SMTT(60)
<1>5. \A m \in Spinlocks, type \in LockTypes :
          HasEntry(t, n, m, type) => m = l /\ type = "READ"
  BY <1>0, SMTT(30) DEF HasEntry
<1>6. \A u \in Transactions, m \in Spinlocks :
          /\ Holds(u, m, "WRITE")' <=> Holds(u, m, "WRITE")
          /\ Holds(u, m, "READ")' => Holds(u, m, "READ")
          /\ u # t => (Holds(u, m, "READ")' <=> Holds(u, m, "READ"))
  BY <1>4, <1>5, HoldsEntry, SMTT(30)
<1>7. /\ IsFiniteSet(ReadTokens(l))
      /\ spinlock[l].readers_count = Cardinality(ReadTokens(l))
      /\ <<t, n>> \in ReadTokens(l)
  BY <1>0, TokenMembers DEF CountOK
<1>8. spinlock[l].readers_count \in 1 .. MaxReaders
  BY <1>7, FS_EmptySet, TransactionAssumption, SMTT(30) DEF TypeOK
<1>9. TypeOK'
  <2>1. spinlock[l].readers_count - 1 \in 0 .. MaxReaders
    BY <1>8, TransactionAssumption
  <2>2. spinlock' \in [Spinlocks -> [transaction_id : TransactionIds \cup {Unlocked},
                                     readers_count : 0 .. MaxReaders, reserved : Reserved]]
    BY <1>1, <2>1, ZenonT(30) DEF TypeOK
  <2> QED BY <1>2, <2>2 DEF TypeOK
<1>10. OwnerHasEntry'
  BY <1>2, <1>3, <1>6, SMTT(60) DEF OwnerHasEntry, IsOwnedBy
<1>11. OneWriteEntry'
  BY <1>4, SMTT(30) DEF OneWriteEntry
<1>12. CountOK'
  <2>1. \A u \in Transactions, m \in Spinlocks : Counted(u, m)' <=> Counted(u, m)
    BY <1>2, SMTT(30) DEF Counted
  <2>2. \A m \in Spinlocks \ {l} : ReadTokens(m)' = ReadTokens(m)
    BY <1>4, <1>5, <2>1, SMTT(30) DEF ReadTokens
  <2>3. ReadTokens(l)' = ReadTokens(l) \ {<<t, n>>}
    <3>1. n # 0
      BY <1>0, EntryIndex, TransactionAssumption, SMTT(30)
    <3> QED BY <1>4, <2>1, <3>1, SMTT(30) DEF ReadTokens
  <2>4. /\ IsFiniteSet(ReadTokens(l) \ {<<t, n>>})
        /\ Cardinality(ReadTokens(l) \ {<<t, n>>}) = Cardinality(ReadTokens(l)) - 1
    BY <1>7, FS_RemoveElement, ZenonT(30)
  <2>5. /\ IsFiniteSet(ReadTokens(l))'
        /\ (spinlock[l].readers_count = Cardinality(ReadTokens(l)))'
    BY <1>3, <1>7, <2>3, <2>4, SMTT(30)
  <2> QED BY <1>3, <2>2, <2>5, SMTT(30) DEF CountOK
<1>13. WriterAlone'
  BY <1>6, SMTT(30) DEF WriterAlone
<1>14. UpgradeHolds'
  BY <1>2, <1>6, SMTT(60) DEF UpgradeHolds, LocalOK, WritePCs
<1> QED BY <1>2, <1>9, <1>10, <1>11, <1>12, <1>13, <1>14, SMTT(30)

\* The owner leaves: its one WRITE entry for the lock goes with the ownership.
LEMMA ReleaseWriteInv ==
    ASSUME IndInv, NEW t \in Transactions, ReleaseWrite(t)
    PROVE  IndInv'
<1> USE DEF IndInv, LockTypes
<1>0. PICK l \in Spinlocks, n \in Nat :
          l = NextEntry(t).spinlock /\ n = call[t].index + 1 /\ HasEntry(t, n, l, "WRITE")
  <2>1. /\ call[t].index + 1 \in Nat
        /\ NextEntry(t) \in LockEntries
        /\ HasEntry(t, call[t].index + 1, NextEntry(t).spinlock, NextEntry(t).lock_type)
    <3> HIDE DEF IndInv
    <3> QED BY ReleaseStep
  <2>2. NextEntry(t).lock_type = "WRITE"
    BY DEF ReleaseWrite
  <2> QED BY <2>1, <2>2, SMTT(30) DEF LockEntries
<1>1. spinlock' = [spinlock EXCEPT ![l].transaction_id = Unlocked]
  BY <1>0, SMTT(30) DEF ReleaseWrite
<1>2. /\ UNCHANGED <<transaction_index, transaction, pc>>
      /\ pc[t] = "release"
      /\ call' \in [Transactions -> Calls]
      /\ \A u \in Transactions \ {t} : call'[u] = call[u]
      /\ \A u \in Transactions : call'[u].spinlock = call[u].spinlock
      /\ LocalOK' /\ UniqueIds'
  BY ReleaseStep
<1>3. \A m \in Spinlocks :
          /\ spinlock'[m].readers_count = spinlock[m].readers_count
          /\ m # l => spinlock'[m].transaction_id = spinlock[m].transaction_id
          /\ m = l => spinlock'[m].transaction_id = Unlocked
  BY <1>1, SMTT(30) DEF TypeOK
<1>4. \A u \in Transactions, i \in Nat, m \in Spinlocks, type \in LockTypes :
          HasEntry(u, i, m, type)' <=> HasEntry(u, i, m, type) /\ ~(u = t /\ i = n)
  BY <1>0, ReleaseStep, ReleaseEntry, SMTT(60)
<1>5. \A m \in Spinlocks, type \in LockTypes :
          HasEntry(t, n, m, type) => m = l /\ type = "WRITE"
  BY <1>0, SMTT(30) DEF HasEntry
<1>6. \A u \in Transactions, m \in Spinlocks :
          /\ Holds(u, m, "READ")' <=> Holds(u, m, "READ")
          /\ Holds(u, m, "WRITE")' => Holds(u, m, "WRITE")
          /\ u # t \/ m # l => (Holds(u, m, "WRITE")' <=> Holds(u, m, "WRITE"))
  BY <1>4, <1>5, HoldsEntry
<1>7. ~Holds(t, l, "WRITE")'
  <2>1. n \in 1 .. MaxLocks
    BY <1>0, EntryIndex, SMTT(30)
  <2>2. ASSUME NEW i \in Nat, HasEntry(t, i, l, "WRITE")
        PROVE  i = n
    <3>1. i \in 1 .. MaxLocks
      BY <2>2, EntryIndex, SMTT(30)
    <3> QED BY <1>0, <2>1, <2>2, <3>1, SMTT(30) DEF OneWriteEntry
  <2> QED BY <1>4, <2>2, HoldsEntry, SMTT(30)
<1>8. IsOwnedBy(l, t) /\ transaction[t].id # NotAcquired
  <2>1. Holds(t, l, "WRITE")
    BY <1>0, HoldsEntry
  <2> QED BY <2>1, SMTT(30) DEF OwnerHasEntry, LocalOK
<1>9. TypeOK'
  BY <1>1, <1>2, ZenonT(30) DEF TypeOK
<1>10. OwnerHasEntry'
  <2>1. \A u \in Transactions \ {t} : ~Holds(u, l, "WRITE")
    BY <1>8 DEF OwnerHasEntry, UniqueIds, IsOwnedBy
  <2>2. \A u \in Transactions, m \in Spinlocks :
            Holds(u, m, "WRITE")' => m # l /\ Holds(u, m, "WRITE")
    BY <1>6, <1>7, <2>1, SMTT(30)
  <2> QED BY <1>2, <1>3, <1>6, <2>2, SMTT(60) DEF OwnerHasEntry, IsOwnedBy
<1>11. OneWriteEntry'
  BY <1>4 DEF OneWriteEntry
<1>12. CountOK'
  <2>1. \A u \in Transactions, m \in Spinlocks : Counted(u, m)' <=> Counted(u, m)
    BY <1>2 DEF Counted
  <2>2. \A m \in Spinlocks : ReadTokens(m)' = ReadTokens(m)
    BY <1>4, <1>5, <2>1, SMTT(30) DEF ReadTokens
  <2> QED BY <1>3, <2>2, SMTT(30) DEF CountOK
<1>13. WriterAlone'
  BY <1>6, SMTT(30) DEF WriterAlone
<1>14. UpgradeHolds'
  BY <1>2, <1>6 DEF UpgradeHolds, LocalOK, WritePCs
<1> QED BY <1>2, <1>9, <1>10, <1>11, <1>12, <1>13, <1>14

-----------------------------------------------------------------------------
\* The lock words and the lists start empty.
LEMMA InitInv == Init => IndInv
<1> SUFFICES ASSUME Init
             PROVE  IndInv
  OBVIOUS
<1> USE TransactionAssumption DEF LockTypes
<1>1. /\ \A t \in Transactions : /\ transaction[t] = [id |-> NotAcquired, locks |-> <<>>]
                                 /\ pc[t] = "idle"
                                 /\ call[t] = NoCall
      /\ \A l \in Spinlocks : /\ spinlock[l].transaction_id = Unlocked
                              /\ spinlock[l].readers_count = 0
  BY SMTT(30) DEF Init
<1>2. \A t \in Transactions, i \in Nat, l \in Spinlocks, type \in LockTypes :
          ~HasEntry(t, i, l, type)
  BY <1>1 DEF HasEntry, Unreleased
<1>3. \A t \in Transactions, l \in Spinlocks, type \in LockTypes : ~Holds(t, l, type)
  BY <1>2, HoldsEntry, SMTT(30)
<1>4. TypeOK
  <2>1. spinlock \in [Spinlocks -> [transaction_id : TransactionIds \cup {Unlocked},
                                    readers_count : 0 .. MaxReaders, reserved : Reserved]]
    BY NoCallType, SMTT(30) DEF Init
  <2>2. transaction \in [Transactions -> [id    : TransactionIds \cup {NotAcquired},
                                          locks : Seq(LockEntries)]]
    BY SMTT(30) DEF Init
  <2> QED BY <2>1, <2>2, NoCallType, SMTT(30) DEF Init, TypeOK, PCs
<1>5. LocalOK
  BY <1>1, SMTT(30) DEF LocalOK, NoCall, WritePCs, ReadPCs
<1>6. UniqueIds
  BY <1>1, SMTT(30) DEF UniqueIds
<1>7. OwnerHasEntry
  BY <1>1, <1>3 DEF OwnerHasEntry
<1>8. OneWriteEntry
  BY <1>2 DEF OneWriteEntry
<1>9. CountOK
  <2>1. \A l \in Spinlocks : ReadTokens(l) = {}
    BY <1>1, <1>2 DEF ReadTokens, Counted
  <2> QED BY <1>1, <2>1, FS_EmptySet, Zenon DEF CountOK
<1>10. WriterAlone
  BY <1>3, SMTT(30) DEF WriterAlone
<1>11. UpgradeHolds
  BY <1>1 DEF UpgradeHolds, WritePCs
<1> QED BY <1>4, <1>5, <1>6, <1>7, <1>8, <1>9, <1>10, <1>11, SMTT(30) DEF IndInv

\* Every step of every transaction preserves the inductive invariant.
LEMMA NextInv == IndInv /\ [Next]_vars => IndInv'
<1> SUFFICES ASSUME IndInv, [Next]_vars
             PROVE  IndInv'
  BY SMTT(30)
<1>1. CASE UNCHANGED vars
  <2>1. /\ TypeOK' /\ LocalOK' /\ UniqueIds'
    <3>0. TypeOK /\ LocalOK /\ UniqueIds
      BY DEF IndInv
    <3>1. TypeOK'
      BY <1>1, <3>0 DEF vars, TypeOK
    <3>2. LocalOK'
      BY <1>1, <3>0 DEF vars, LocalOK
    <3>3. UniqueIds'
      BY <1>1, <3>0 DEF vars, UniqueIds
    <3> QED
      BY <3>1, <3>2, <3>3
  <2>2. UpgradeHolds => \A u \in Transactions :
            pc'[u] \in WritePCs /\ call'[u].expected_readers = 1 =>
                Holds(u, call'[u].spinlock, "READ")
    BY <1>1, SMTT(60) DEF vars, UpgradeHolds
  <2>3. \A u \in Transactions : /\ call'[u].index = call[u].index
                                /\ \A m \in Spinlocks : Counted(u, m)' <=> Counted(u, m)
    BY <1>1 DEF vars, Counted
  <2>4. UNCHANGED <<transaction, spinlock>>
    BY <1>1 DEF vars
  <2> QED BY <2>1, <2>2, <2>3, <2>4, QuietStep, SMTT(60) DEF IndInv
<1>2. ASSUME NEW t \in Transactions, Acquire(t) \/ ReleaseBegin(t)
      PROVE  IndInv'
  BY <1>2, AcquireInv, ReleaseBeginInv
<1>3. ASSUME NEW t \in Transactions, HashtableCall(t)
      PROVE  IndInv'
  BY <1>3, LockForWriteInv, LockForReadInv, UpgradeLockForWriteInv, WriteReservedInv, SMTT(30)
  DEF HashtableCall
<1>4. ASSUME NEW t \in Transactions, Progress(t)
      PROVE  IndInv'
  BY <1>4, ReadReservedForNewInv, ReadReservedForExpectedInv, CompareAndSwapInv,
     CompareAndSwapFailsInv, WriteLockStuckInv, ReadLockGrantedInv, ReadLockSpinsInv,
     ReadLockCleanupInv, ReleaseWriteInv, ReleaseReadInv, ReleaseEndInv, SMTT(30)
  DEF Progress
<1> QED BY <1>1, <1>2, <1>3, <1>4 DEF Next

(***************************************************************************)
(* The invariant holds in every state the locks can reach.                 *)
(***************************************************************************)
THEOREM Invariance == Spec => []IndInv
BY InitInv, NextInv, PTL DEF Spec

(***************************************************************************)
(* Type correctness; in particular readers_count never goes below zero     *)
(* (the assert of transaction_rwspinlock_readers_decrement).               *)
(***************************************************************************)
THEOREM TypeCorrect == Spec => []TypeOK
<1>1. IndInv => TypeOK
  BY SMTT(30) DEF IndInv
<1> QED BY <1>1, Invariance, PTL

(***************************************************************************)
(* A transaction that holds a lock for writing is alone on it.             *)
(***************************************************************************)
THEOREM MutualExclusionHolds == Spec => []MutualExclusion
<1>1. IndInv => MutualExclusion
  BY DEF IndInv, WriterAlone, OwnerHasEntry, UniqueIds, LocalOK, IsOwnedBy, MutualExclusion
<1> QED BY <1>1, Invariance, PTL

(***************************************************************************)
(* The readers count is exact.                                             *)
(***************************************************************************)
THEOREM ReadersCountIsExact == Spec => []ReadersCountExact
<1>1. IndInv => ReadersCountExact
  BY DEF IndInv, CountOK, ReadersCountExact
<1> QED BY <1>1, Invariance, PTL

(***************************************************************************)
(* The owner of a lock is the transaction that has it in its list.         *)
(***************************************************************************)
THEOREM OwnerAlwaysHasEntry == Spec => []OwnerHasEntry
<1>1. IndInv => OwnerHasEntry
  BY DEF IndInv
<1> QED BY <1>1, Invariance, PTL

-----------------------------------------------------------------------------
(***************************************************************************)
(* The spinlocks implement the abstract read-write locks, for any number   *)
(* of transactions, workers and locks: every step of Transaction is a step *)
(* of RWLocks or leaves the abstract locks as they are.                    *)
(***************************************************************************)

(***************************************************************************)
(* The refinement mapping.                                                 *)
(***************************************************************************)
Readers == [l \in Spinlocks |-> ReadersOf(l)]
Writers == [l \in Spinlocks |-> WritersOf(l)]
Phase == [t \in Transactions |-> PhaseOf(t)]

\* Every transaction keeps the locks it holds.
HoldsStay ==
    \A u \in Transactions, m \in Spinlocks, type \in LockTypes :
        Holds(u, m, type)' <=> Holds(u, m, type)

\* All but lock l of transaction t.
OtherHoldsStay(t, l, type) ==
    \A u \in Transactions, m \in Spinlocks, x \in LockTypes :
        ~(u = t /\ m = l /\ x = type) => (Holds(u, m, x)' <=> Holds(u, m, x))

\* The step is transaction t's alone.
OthersStay(t) == \A u \in Transactions \ {t} : pc'[u] = pc[u]

-----------------------------------------------------------------------------
\* Lists and release positions that stay keep what is held.
LEMMA SameLists ==
    ASSUME \A u \in Transactions : /\ transaction'[u].locks = transaction[u].locks
                                   /\ call'[u].index = call[u].index
    PROVE  HoldsStay
<1>1. \A u \in Transactions, i \in Nat, m \in Spinlocks, type \in LockTypes :
          HasEntry(u, i, m, type)' <=> HasEntry(u, i, m, type)
  BY KeepEntries
<1> QED
  BY <1>1, HoldsEntry DEF HoldsStay

\* Locks that stay held are the same abstract readers and writers.
LEMMA SameHolders ==
    ASSUME HoldsStay
    PROVE  Readers' = Readers /\ Writers' = Writers
<1>1. \A l \in Spinlocks : ReadersOf(l)' = ReadersOf(l) /\ WritersOf(l)' = WritersOf(l)
  BY DEF HoldsStay, LockTypes, ReadersOf, WritersOf
<1> QED
  BY <1>1 DEF Readers, Writers

\* A step inside a call moves no transaction from a phase to another.
LEMMA SamePhase ==
    ASSUME NEW t \in Transactions, OthersStay(t), PhaseOf(t)' = PhaseOf(t)
    PROVE  Phase' = Phase
BY DEF Phase, PhaseOf, OthersStay

\* Only t changes its phase.
LEMMA NextPhase ==
    ASSUME NEW t \in Transactions, OthersStay(t)
    PROVE  Phase' = [Phase EXCEPT ![t] = PhaseOf(t)']
BY DEF Phase, PhaseOf, OthersStay

\* t takes, or gives back, the lock l.
LEMMA NextHolder ==
    ASSUME NEW t \in Transactions, NEW l \in Spinlocks, NEW type \in LockTypes,
           OtherHoldsStay(t, l, type)
    PROVE  /\ type = "READ" => /\ Writers' = Writers
                               /\ Holds(t, l, type)' =>
                                     Readers' = [Readers EXCEPT ![l] = @ \cup {t}]
                               /\ ~Holds(t, l, type)' =>
                                     Readers' = [Readers EXCEPT ![l] = @ \ {t}]
           /\ type = "WRITE" => /\ Readers' = Readers
                                /\ Holds(t, l, type)' =>
                                      Writers' = [Writers EXCEPT ![l] = @ \cup {t}]
                                /\ ~Holds(t, l, type)' =>
                                      Writers' = [Writers EXCEPT ![l] = @ \ {t}]
<1>1. \A m \in Spinlocks \ {l} : ReadersOf(m)' = ReadersOf(m) /\ WritersOf(m)' = WritersOf(m)
  BY DEF LockTypes, ReadersOf, WritersOf, OtherHoldsStay
<1>2. CASE type = "READ"
  <2>1. WritersOf(l)' = WritersOf(l)
    BY <1>2 DEF LockTypes, WritersOf, OtherHoldsStay
  <2>2. ReadersOf(l)' = IF Holds(t, l, type)' THEN ReadersOf(l) \cup {t} ELSE ReadersOf(l) \ {t}
    BY <1>2 DEF LockTypes, ReadersOf, OtherHoldsStay
  <2> QED
    BY <1>1, <1>2, <2>1, <2>2 DEF Readers, Writers
<1>3. CASE type = "WRITE"
  <2>1. ReadersOf(l)' = ReadersOf(l)
    BY <1>3 DEF LockTypes, ReadersOf, OtherHoldsStay
  <2>2. WritersOf(l)' = IF Holds(t, l, type)' THEN WritersOf(l) \cup {t} ELSE WritersOf(l) \ {t}
    BY <1>3 DEF LockTypes, WritersOf, OtherHoldsStay
  <2> QED
    BY <1>1, <1>3, <2>1, <2>2 DEF Readers, Writers
<1> QED
  BY <1>2, <1>3 DEF LockTypes

-----------------------------------------------------------------------------
(***************************************************************************)
(* Every step, one by one.  Inside a call, and where a lock is not had,    *)
(* the abstract locks see nothing.                                         *)
(***************************************************************************)
AbstractStep == [Locks!Next]_(Locks!lockVars)

LEMMA QuietRefines ==
    ASSUME NEW t \in Transactions, HoldsStay, OthersStay(t), PhaseOf(t)' = PhaseOf(t)
    PROVE  AbstractStep
<1>1. Readers' = Readers /\ Writers' = Writers /\ Phase' = Phase
  BY SameHolders, SamePhase
<1>2. Locks!lockVars' = Locks!lockVars
  BY <1>1 DEF Locks!lockVars, Readers, Writers, Phase
<1> QED
  BY <1>2 DEF AbstractStep

LEMMA CallRefines ==
    ASSUME IndInv, NEW t \in Transactions, UNCHANGED transaction,
           pc[t] \notin {"idle", "release"}, pc'[t] \notin {"idle", "release"},
           OthersStay(t), \A u \in Transactions \ {t} : call'[u] = call[u],
           call'[t].index = 0
    PROVE  AbstractStep
<1>1. \A u \in Transactions : call'[u].index = call[u].index
  BY DEF IndInv, LocalOK
<1>2. HoldsStay
  BY <1>1, SameLists
<1>3. PhaseOf(t)' = PhaseOf(t)
  BY DEF PhaseOf
<1> QED
  BY <1>2, <1>3, QuietRefines

LEMMA InCallRefines ==
    ASSUME IndInv, NEW t \in Transactions,
           \/ \E l \in Spinlocks : LockForWrite(t, l) \/ UpgradeLockForWrite(t, l)
           \/ \E l \in Spinlocks : LockForRead(t, l) \/ WriteReserved(t, l)
           \/ ReadReservedForNew(t) \/ ReadReservedForExpected(t)
           \/ CompareAndSwapFails(t) \/ WriteLockStuck(t)
           \/ ReadLockSpins(t) \/ ReadLockCleanup(t)
    PROVE  AbstractStep
<1> USE DEF IndInv, TypeOK
<1>1. /\ UNCHANGED transaction /\ pc[t] \notin {"idle", "release"}
      /\ pc'[t] \notin {"idle", "release"}
  BY DEF LockForWrite, UpgradeLockForWrite, LockForRead, WriteReserved, BeginWriteLock, CanCall,
         ReadReservedForNew, ReadReservedForExpected, CompareAndSwapFails, WriteLockStuck,
         ReadLockSpins, ReadLockCleanup
<1>2. OthersStay(t) /\ \A u \in Transactions \ {t} : call'[u] = call[u]
  BY DEF LockForWrite, UpgradeLockForWrite, LockForRead, WriteReserved, BeginWriteLock,
         ReadReservedForNew, ReadReservedForExpected, CompareAndSwapFails, WriteLockStuck,
         ReadLockSpins, ReadLockCleanup, OthersStay
<1>3. call'[t].index = 0
  <2>1. call[t].index = 0 /\ call[t] \in Calls
    BY <1>1 DEF LocalOK
  <2>2. CASE \E c \in Calls : c.index = 0 /\ call' = [call EXCEPT ![t] = c]
    BY <2>2
  <2>3. CASE UNCHANGED call
    BY <2>1, <2>3
  <2>4. \A l \in Spinlocks, n \in {0, 1} :
            /\ [NoCall EXCEPT !.spinlock = l] \in Calls
            /\ [NoCall EXCEPT !.spinlock = l, !.expected_readers = n] \in Calls
    BY NoCallType DEF Calls
  <2>5. NoCall.index = 0 /\ NoCall \in Calls
    BY NoCallType DEF NoCall
  <2>6. CASE \/ \E l \in Spinlocks : LockForWrite(t, l) \/ UpgradeLockForWrite(t, l)
             \/ \E l \in Spinlocks : LockForRead(t, l) \/ WriteReserved(t, l)
    BY <2>2, <2>3, <2>4, <2>6
    DEF LockForWrite, UpgradeLockForWrite, LockForRead, WriteReserved, BeginWriteLock, NoCall
  <2>7. CASE WriteLockStuck(t) \/ ReadLockCleanup(t)
    BY <2>2, <2>5, <2>7 DEF WriteLockStuck, ReadLockCleanup
  <2>8. CASE ReadReservedForNew(t) \/ ReadReservedForExpected(t) \/ CompareAndSwapFails(t)
    BY <2>1, <2>8 DEF ReadReservedForNew, ReadReservedForExpected, CompareAndSwapFails, Calls
  <2>9. CASE ReadLockSpins(t)
    BY <2>1, <2>9 DEF ReadLockSpins, Calls
  <2> QED
    BY <2>6, <2>7, <2>8, <2>9
<1> HIDE DEF IndInv, TypeOK
<1> QED
  BY <1>1, <1>2, <1>3, CallRefines

\* transaction_acquire begins a transaction, which holds nothing yet.
LEMMA AcquireRefines ==
    ASSUME IndInv, NEW t \in Transactions, Acquire(t)
    PROVE  AbstractStep
<1>1. /\ \A u \in Transactions : /\ transaction'[u].locks = transaction[u].locks
                                 /\ call'[u].index = call[u].index
      /\ pc[t] = "idle" /\ pc'[t] = "running" /\ OthersStay(t)
  BY DEF Acquire, IndInv, TypeOK, LocalOK, OthersStay
<1>2. Readers' = Readers /\ Writers' = Writers
  BY <1>1, SameLists, SameHolders
<1>3. Phase' = [Phase EXCEPT ![t] = "growing"] /\ Phase[t] = "none"
  BY <1>1, NextPhase DEF Phase, PhaseOf
<1>4. Locks!Acquire(t)
  BY <1>2, <1>3 DEF Locks!Acquire, Readers, Writers, Phase
<1> QED
  BY <1>4 DEF AbstractStep, Locks!Next

\* transaction_release starts.
LEMMA ReleaseBeginRefines ==
    ASSUME IndInv, NEW t \in Transactions, ReleaseBegin(t)
    PROVE  AbstractStep
<1>1. /\ \A u \in Transactions : /\ transaction'[u].locks = transaction[u].locks
                                 /\ call'[u].index = call[u].index
      /\ pc[t] = "running" /\ pc'[t] = "release" /\ OthersStay(t)
  BY DEF ReleaseBegin, IndInv, TypeOK, OthersStay
<1>2. Readers' = Readers /\ Writers' = Writers
  BY <1>1, SameLists, SameHolders
<1>3. Phase' = [Phase EXCEPT ![t] = "shrinking"] /\ Phase[t] = "growing"
  BY <1>1, NextPhase DEF Phase, PhaseOf
<1>4. Locks!ReleaseBegin(t)
  BY <1>2, <1>3 DEF Locks!ReleaseBegin, Readers, Writers, Phase
<1> QED
  BY <1>4 DEF AbstractStep, Locks!Next

\* It ends when the whole list has been gone through, so nothing is held any more.
LEMMA ReleaseEndRefines ==
    ASSUME IndInv, NEW t \in Transactions, ReleaseEnd(t)
    PROVE  AbstractStep
<1>1. /\ pc[t] = "release" /\ pc'[t] = "idle" /\ OthersStay(t)
      /\ call[t].index = Len(transaction[t].locks)
      /\ transaction'[t].locks = <<>>
      /\ \A u \in Transactions \ {t} : /\ transaction'[u] = transaction[u]
                                        /\ call'[u] = call[u]
  BY DEF ReleaseEnd, IndInv, TypeOK, OthersStay
<1>2. \A i \in Nat, m \in Spinlocks, type \in LockTypes :
          ~HasEntry(t, i, m, type) /\ ~HasEntry(t, i, m, type)'
  BY <1>1 DEF HasEntry, Unreleased
<1>3. \A u \in Transactions \ {t}, i \in Nat, m \in Spinlocks, type \in LockTypes :
          HasEntry(u, i, m, type)' <=> HasEntry(u, i, m, type)
  BY <1>1 DEF HasEntry, Unreleased, Entry
<1>4. HoldsStay /\ \A m \in Spinlocks, type \in LockTypes : ~Holds(t, m, type)
  BY <1>2, <1>3, HoldsEntry DEF HoldsStay
<1>5. Readers' = Readers /\ Writers' = Writers
  BY <1>4, SameHolders
<1>6. Phase' = [Phase EXCEPT ![t] = "none"] /\ Phase[t] = "shrinking"
  BY <1>1, NextPhase DEF Phase, PhaseOf
<1>7. \A l \in Spinlocks : t \notin Readers[l] \cup Writers[l]
  BY <1>4 DEF Readers, Writers, ReadersOf, WritersOf, LockTypes
<1>8. Locks!ReleaseEnd(t)
  BY <1>5, <1>6, <1>7 DEF Locks!ReleaseEnd, Readers, Writers, Phase
<1> QED
  BY <1>8 DEF AbstractStep, Locks!Next

\* A call that ends with transaction_locks_list_add gains its transaction that lock.
LEMMA GrantHolds ==
    ASSUME IndInv, NEW t \in Transactions, NEW l \in Spinlocks, NEW type \in LockTypes,
           pc[t] \in WritePCs \cup ReadPCs, LocksListAdd(t, l, type),
           call' = [call EXCEPT ![t] = NoCall]
    PROVE  OtherHoldsStay(t, l, type) /\ Holds(t, l, type)'
<1>1. /\ TypeOK /\ LocalOK /\ pc[t] # "release" /\ Len(transaction[t].locks) < MaxLocks
  BY DEF IndInv, LocalOK, WritePCs, ReadPCs
<1>2. IndexesStay
  BY <1>1 DEF TypeOK, LocalOK, NoCall, IndexesStay
<1>3. OneMoreEntry(t, l, type)
  BY ONLY <1>1, <1>2, AppendEntry, LocksListAdd(t, l, type), t \in Transactions,
          l \in Spinlocks, type \in LockTypes
<1>4. PICK n \in 1 .. MaxLocks :
          \A u \in Transactions, i \in Nat, m \in Spinlocks, x \in LockTypes :
              HasEntry(u, i, m, x)' <=>
                 HasEntry(u, i, m, x) \/ (u = t /\ i = n /\ m = l /\ x = type)
  BY ONLY <1>3, Zenon DEF OneMoreEntry
<1> QED
  BY <1>4, HoldsEntry, TransactionAssumption, SMTT(30) DEF OtherHoldsStay

\* The compare and swap is where a write lock is had: nobody else has the lock.
LEMMA CompareAndSwapRefines ==
    ASSUME IndInv, NEW t \in Transactions, CompareAndSwap(t)
    PROVE  AbstractStep
<1>0. PICK l \in Spinlocks : l = call[t].spinlock
  BY DEF IndInv, LocalOK, WritePCs, CompareAndSwap
<1>1. /\ pc[t] = "cas" /\ pc[t] \in WritePCs /\ pc'[t] = "running" /\ OthersStay(t)
      /\ LocksListAdd(t, l, "WRITE")
      /\ call' = [call EXCEPT ![t] = NoCall]
  BY <1>0 DEF CompareAndSwap, WritePCs, LocksListAdd, OthersStay, IndInv, TypeOK
<1>2. /\ spinlock[l].transaction_id = Unlocked
      /\ spinlock[l].readers_count = call[t].expected_readers
      /\ call[t].expected_readers \in {0, 1}
  BY <1>0 DEF CompareAndSwap, CasMatches, IndInv, TypeOK, Calls
<1>3. OtherHoldsStay(t, l, "WRITE") /\ Holds(t, l, "WRITE")'
  BY <1>1, GrantHolds DEF LockTypes
<1>4. Readers' = Readers /\ Writers' = [Writers EXCEPT ![l] = @ \cup {t}]
  BY <1>3, NextHolder DEF LockTypes
<1>5. \A u \in Transactions : ~Holds(u, l, "WRITE")
  BY <1>2, NoOwnerNoWriter
<1>6. \A u \in Transactions \ {t} : ~Holds(u, l, "READ")
  <2>1. call[t].expected_readers = 1 => Holds(t, l, "READ")
    BY <1>0, <1>1 DEF IndInv, UpgradeHolds
  <2> QED
    BY <1>2, <2>1, OnlyReader
<1>7. Writers[l] = {} /\ Readers[l] \subseteq {t}
  BY <1>5, <1>6 DEF Writers, Readers, WritersOf, ReadersOf
<1>8. Writers' = [Writers EXCEPT ![l] = {t}]
  BY <1>4, <1>7
<1>9. Phase' = Phase /\ Phase[t] = "growing"
  BY <1>1, SamePhase DEF PhaseOf, Phase
<1>10. Locks!LockForWrite(t, l)
  BY <1>4, <1>7, <1>8, <1>9 DEF Locks!LockForWrite, Readers, Writers, Phase
<1> QED
  BY <1>10 DEF AbstractStep, Locks!Next

\* The reader that was counted finds no writer.
LEMMA ReadLockGrantedRefines ==
    ASSUME IndInv, NEW t \in Transactions, ReadLockGranted(t)
    PROVE  AbstractStep
<1>0. PICK l \in Spinlocks : l = call[t].spinlock
  BY DEF IndInv, LocalOK, ReadPCs, ReadLockGranted
<1>1. /\ pc[t] = "read_wait" /\ pc[t] \in ReadPCs /\ pc'[t] = "running" /\ OthersStay(t)
      /\ LocksListAdd(t, l, "READ")
      /\ call' = [call EXCEPT ![t] = NoCall]
      /\ spinlock[l].transaction_id = Unlocked
  BY <1>0 DEF ReadLockGranted, ReadPCs, LocksListAdd, OthersStay, IndInv, TypeOK
<1>2. OtherHoldsStay(t, l, "READ") /\ Holds(t, l, "READ")'
  BY <1>1, GrantHolds DEF LockTypes
<1>3. Writers' = Writers /\ Readers' = [Readers EXCEPT ![l] = @ \cup {t}]
  BY <1>2, NextHolder DEF LockTypes
<1>4. \A u \in Transactions : ~Holds(u, l, "WRITE")
  BY <1>1, NoOwnerNoWriter
<1>5. Writers[l] = {}
  BY <1>4 DEF Writers, WritersOf
<1>6. Phase' = Phase /\ Phase[t] = "growing"
  BY <1>1, SamePhase DEF PhaseOf, Phase
<1>7. Locks!LockForRead(t, l)
  BY <1>3, <1>5, <1>6 DEF Locks!LockForRead, Readers, Writers, Phase
<1> QED
  BY <1>7 DEF AbstractStep, Locks!Next

(***************************************************************************)
(* The loop of transaction_release.  A list may name a lock for reading    *)
(* more than once, and then the lock is given back with the last entry.    *)
(***************************************************************************)
LEMMA ReleaseEntryRefines ==
    ASSUME IndInv, NEW t \in Transactions, ReleaseWrite(t) \/ ReleaseRead(t)
    PROVE  AbstractStep
<1>1. /\ pc[t] = "release" /\ UNCHANGED <<transaction, pc>>
      /\ call'[t].index = call[t].index + 1
      /\ \A u \in Transactions \ {t} : call'[u] = call[u]
      /\ call[t].index + 1 \in Nat /\ NextEntry(t) \in LockEntries
      /\ HasEntry(t, call[t].index + 1, NextEntry(t).spinlock, NextEntry(t).lock_type)
  BY ReleaseStep
<1>2. PICK n \in Nat, l \in Spinlocks, type \in LockTypes :
          n = call[t].index + 1 /\ HasEntry(t, n, l, type)
  BY <1>1 DEF LockEntries
<1>3. \A u \in Transactions, i \in Nat, m \in Spinlocks, x \in LockTypes :
          HasEntry(u, i, m, x)' <=> HasEntry(u, i, m, x) /\ ~(u = t /\ i = n)
  BY <1>1, <1>2, ReleaseEntry DEF IndInv
<1>4. \A m \in Spinlocks, x \in LockTypes : HasEntry(t, n, m, x) => m = l /\ x = type
  BY <1>1, <1>2 DEF HasEntry
<1>5. OtherHoldsStay(t, l, type)
  BY <1>2, <1>3, <1>4, HoldsEntry, SMTT(30) DEF OtherHoldsStay
<1>6. Holds(t, l, type)
  BY <1>1, <1>2, HoldsEntry
<1>7. Phase' = Phase /\ Phase[t] = "shrinking" /\ OthersStay(t) /\ PhaseOf(t)' = PhaseOf(t)
  BY <1>1, SamePhase DEF PhaseOf, Phase, OthersStay
<1>8. CASE Holds(t, l, type)'
  <2>1. HoldsStay
    BY <1>2, <1>5, <1>6, <1>8 DEF HoldsStay, OtherHoldsStay
  <2> QED
    BY <2>1, <1>7, QuietRefines
<1>9. CASE ~Holds(t, l, type)' /\ type = "READ"
  <2>1. Writers' = Writers /\ Readers' = [Readers EXCEPT ![l] = @ \ {t}]
    BY <1>2, <1>5, <1>9, NextHolder
  <2>2. t \in Readers[l]
    BY <1>2, <1>6, <1>9 DEF Readers, ReadersOf
  <2>3. Locks!ReleaseRead(t, l)
    BY <1>7, <2>1, <2>2 DEF Locks!ReleaseRead, Readers, Writers, Phase
  <2> QED
    BY <1>2, <2>3 DEF AbstractStep, Locks!Next
<1>10. CASE ~Holds(t, l, type)' /\ type = "WRITE"
  <2>1. Readers' = Readers /\ Writers' = [Writers EXCEPT ![l] = @ \ {t}]
    BY <1>2, <1>5, <1>10, NextHolder
  <2>2. t \in Writers[l]
    BY <1>2, <1>6, <1>10 DEF Writers, WritersOf
  <2>3. Locks!ReleaseWrite(t, l)
    BY <1>7, <2>1, <2>2 DEF Locks!ReleaseWrite, Readers, Writers, Phase
  <2> QED
    BY <1>2, <2>3 DEF AbstractStep, Locks!Next
<1> QED
  BY <1>2, <1>8, <1>9, <1>10 DEF LockTypes

-----------------------------------------------------------------------------
(***************************************************************************)
(* Initially no lock is held.                                              *)
(***************************************************************************)
LEMMA InitRefines == Init => Locks!Init
<1> SUFFICES ASSUME Init PROVE Locks!Init
  OBVIOUS
<1>1. \A t \in Transactions : pc[t] = "idle" /\ transaction[t].locks = <<>>
  BY DEF Init
<1>2. \A t \in Transactions, l \in Spinlocks, type \in LockTypes : ~Holds(t, l, type)
  BY <1>1 DEF Holds, Unreleased
<1>3. \A l \in Spinlocks : ReadersOf(l) = {} /\ WritersOf(l) = {}
  BY <1>2 DEF ReadersOf, WritersOf, LockTypes
<1>4. \A t \in Transactions : PhaseOf(t) = "none"
  BY <1>1 DEF PhaseOf
<1> QED
  BY <1>3, <1>4 DEF Locks!Init

LEMMA NextRefines == IndInv /\ [Next]_vars => [Locks!Next]_(Locks!lockVars)
<1> SUFFICES ASSUME IndInv, [Next]_vars PROVE AbstractStep
  BY DEF AbstractStep
<1>1. CASE UNCHANGED vars
  <2>1. HoldsStay
    BY <1>1, SameLists DEF vars
  <2>2. Readers' = Readers /\ Writers' = Writers /\ Phase' = Phase
    BY <1>1, <2>1, SameHolders DEF vars, Phase, PhaseOf
  <2>3. Locks!lockVars' = Locks!lockVars
    BY <2>2 DEF Locks!lockVars, Readers, Writers, Phase
  <2> QED
    BY <2>3 DEF AbstractStep
<1>2. ASSUME NEW t \in Transactions, HashtableCall(t)
      PROVE  AbstractStep
  BY <1>2, InCallRefines DEF HashtableCall
<1>3. ASSUME NEW t \in Transactions, Progress(t)
      PROVE  AbstractStep
  BY <1>3, InCallRefines, CompareAndSwapRefines, ReadLockGrantedRefines, ReleaseEntryRefines,
     ReleaseEndRefines DEF Progress
<1> QED
  BY <1>1, <1>2, <1>3, AcquireRefines, ReleaseBeginRefines DEF Next

(***************************************************************************)
(* transaction_lock_for_read, _for_write and _upgrade_lock_for_write never *)
(* grant a lock that the abstract read-write locks would refuse, and       *)
(* transaction_release gives each back in a phase of its own, whatever the *)
(* number of transactions, workers and locks.                              *)
(***************************************************************************)
THEOREM SpinlocksImplementRWLocks == Spec => ImplementsRWLocks
BY InitRefines, NextRefines, Invariance, PTL DEF Spec, ImplementsRWLocks, Locks!Spec
=============================================================================
