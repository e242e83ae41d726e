-------------------------- MODULE HashtableProofs ---------------------------
(***************************************************************************)
(* What the hashtable promises, for any number of transactions, keys,      *)
(* chunks and slots.  A transaction opens no two read-modify-writes on the *)
(* same key, which is what the commands with several keys have to see to   *)
(* (RepeatedKeys is FALSE): with it the table loses keys.                  *)
(***************************************************************************)
EXTENDS HashtableSearches, HashtableWrites, HashtableMapWrites, FiniteSetTheorems

-----------------------------------------------------------------------------
LEMMA SlotsFinite == IsFiniteSet(Slots) /\ Cardinality(Slots) = SlotsCount
BY HashtableAssumption, FS_Interval DEF Slots

LEMMA LeastIs ==
    ASSUME NEW S \in SUBSET Slots, S # {}
    PROVE  Min(S) \in S /\ \A y \in S : Min(S) <= y
<1>0. S \subseteq Nat
  BY ConstantsSound, Zenon
<1>1. \E x \in S : \A y \in S : ~ (<<y, x>> \in OpToRel(<,Nat))
  BY <1>0, NatLessThanWellFounded, WFMin, Zenon
<1>2. PICK x \in S : \A y \in S : ~ (<<y, x>> \in OpToRel(<,Nat))
  BY <1>1, Zenon
<1>3. ASSUME NEW y \in S PROVE x <= y
  <2>1. ~ (<<y, x>> \in {ss \in Nat \X Nat : ss[1] < ss[2]})
    BY <1>2, Zenon DEF OpToRel
  <2> QED
    BY <1>0, <2>1
<1> QED
  BY <1>3, Zenon DEF Min

LEMMA SlotSetsHold == SlotSets
<1>1. SUFFICES ASSUME NEW S \in SUBSET Slots PROVE SlotSet(S)
  BY Zenon DEF SlotSets
<1>2. IsFiniteSet(S) /\ Cardinality(S) \in Nat /\ Cardinality(S) <= SlotsCount
  BY SlotsFinite, FS_Subset, FS_CardinalityType, ZenonT(30)
<1>3. Cardinality(S) \in 0 .. SlotsCount /\ (Cardinality(S) = 0 <=> S = {})
  <2>1. Cardinality(S) = 0 <=> S = {}
    BY <1>2, FS_EmptySet, Zenon
  <2>2. Cardinality(S) \in 0 .. SlotsCount
    BY <1>2, ConstantsSound
  <2> QED
    BY <2>1, <2>2, Zenon
<1>4. S # {} => Min(S) \in S /\ \A y \in S : Min(S) <= y
  BY LeastIs, Zenon
<1>5. \A s \in S : Cardinality(S \ {s}) = Cardinality(S) - 1
  BY <1>2, FS_RemoveElement, Zenon
<1>6. \A s \in Slots \ S : Cardinality(S \cup {s}) = Cardinality(S) + 1
  BY <1>2, FS_AddElement, Zenon
<1>7. ASSUME NEW T \in SUBSET S PROVE Cardinality(S \ T) = Cardinality(S) - Cardinality(T)
  <2>1. S \cap T = T
    BY Zenon
  <2> QED
    BY <1>2, <2>1, FS_Difference, Zenon
<1> QED
  BY <1>3, <1>4, <1>5, <1>6, <1>7, ZenonT(30) DEF SlotSet

-----------------------------------------------------------------------------
(***************************************************************************)
(* The invariant, from the first state on.                                 *)
(***************************************************************************)
LEMMA InitTable == ASSUME Init PROVE TypeOK /\ TableInv
<1>1. TypeOK
  <2>1. /\ half_hashes \in [Chunks -> [Slots -> SlotIds]] /\ metadata \in [Chunks -> Metadata]
        /\ keys_values \in [Chunks -> [Slots -> KeyValues]]
    <3>1. NoMetadata \in Metadata
      BY DEF NoMetadata, Metadata
    <3>2. NoKeyValue \in KeyValues
      BY HashtableAssumption, Zenon DEF NoKeyValue, KeyValues
    <3> QED
      BY <3>1, <3>2, NoSlotIdSound, ZenonT(30) DEF Init
  <2>2. /\ readers \in [Chunks -> [Transactions -> 0 .. MaxOps]]
        /\ writer \in [Chunks -> Transactions \cup {NoTransaction}]
        /\ ops \in [Transactions -> 0 .. MaxOps]
    BY HashtableAssumption DEF Init
  <2>3. /\ pc \in [Transactions -> PCs] /\ call \in [Transactions -> Calls]
        /\ rmw \in [Transactions -> Seq(RmwStatuses)]
    BY NoCallSound DEF Init, PCs
  <2>4. /\ indexed \in [Transactions -> SUBSET (Chunks \X Slots)]
        /\ reply \in [Transactions -> Values \cup {NoValue, NoReply, Failed}]
        /\ reads \in [Transactions -> SUBSET Keys] /\ claims \in [Transactions -> SUBSET Keys]
    BY Zenon DEF Init
  <2> QED
    BY <2>1, <2>2, <2>3, <2>4, ZenonT(30) DEF TypeOK
<1>2. \A c \in Chunks, s \in Slots : /\ keys_values[c][s].flags = "EMPTY" /\ keys_values[c][s].key = NoKey
                                     /\ half_hashes[c][s] = NoSlotId
  BY Zenon DEF Init, NoKeyValue
<1>3. SlotsSound /\ OneSlotPerKey
  BY <1>2, Zenon DEF SlotsSound, SlotSound, OneSlotPerKey, HasKey
<1>4. OccupancyExact
  <2>1. ASSUME NEW c \in Chunks PROVE Slots \ FreeSlots(c) = {} /\ Cardinality({}) = 0
    BY <1>2, FS_EmptySet, Zenon DEF FreeSlots
  <2>2. \A c \in Chunks : metadata[c].slots_occupied = 0 /\ ~metadata[c].is_full
    BY Zenon DEF Init, NoMetadata
  <2> QED
    BY <2>1, <2>2, Zenon DEF OccupancyExact
<1>5. OverflowBounded
  <2>1. \A c \in Chunks : metadata[c].overflowed_chunks_counter = 0
    BY DEF Init, NoMetadata
  <2> QED
    BY <2>1, ConstantsSound DEF OverflowBounded
<1> QED
  BY <1>1, <1>3, <1>4, <1>5, ZenonT(30) DEF TableInv

LEMMA InitInv == ASSUME Init PROVE IInv
<1>1. TypeOK /\ TableInv
  BY InitTable, Zenon
<1>2. Exclusion
  BY DEF Init, Exclusion
<1>3. ASSUME NEW t \in Transactions PROVE ReadsBounded(t) /\ TxInv(t)
  <2>1. pc[t] = "idle" /\ rmw[t] = <<>> /\ ops[t] = 0 /\ \A c \in Chunks : readers[c][t] = 0 /\ writer[c] # t
    BY HashtableAssumption, Zenon DEF Init
  <2>2. ReadsBounded(t)
    BY <2>1 DEF ReadsBounded, Reading
  <2>3. TxInv(t)
    BY <2>1 DEF TxInv, SearchInv, WriteInv, RmwInv, RmwSlots, Searching, Writing
  <2> QED
    BY <2>2, <2>3, Zenon
<1> QED
  BY <1>1, <1>2, <1>3, ZenonT(30) DEF IInv

LEMMA StepKeeps == ASSUME IInv, ~RepeatedKeys, NEW t \in Transactions, StepOf(t) PROVE IInv' /\ Frame(t)
<1>1. CASE Acquire(t) \/ ReleaseBegin(t) \/ ReleaseEnd(t) \/ Stuck(t)
  BY <1>1, AcquireKeeps, ReleaseBeginKeeps, ReleaseEndKeeps, StuckKeeps, ZenonT(30)
<1>2. CASE SearchHome(t) \/ SearchPeek(t) \/ SearchLock(t) \/ DeleteFound(t)
  BY <1>2, SearchHomeKeeps, SearchPeekKeeps, DeleteFoundKeeps, SlotSetsHold, ZenonT(30)
<1>3. CASE WriteSearch(t) \/ WriteCreate(t) \/ SetFill(t) \/ GetByIndexLocked(t)
  BY <1>3, WriteSearchKeeps, WriteCreateKeeps, SetFillKeeps, GetByIndexLockedKeeps,
     SlotSetsHold, ZenonT(30)
<1>4. ASSUME NEW k \in Keys, Get(t, k) \/ Delete(t, k) PROVE IInv' /\ Frame(t)
  BY <1>4, GetKeeps, Zenon
<1>5. ASSUME NEW k \in Keys, RmwBegin(t, k) \/ \E v \in Values : Set(t, k, v) PROVE IInv' /\ Frame(t)
  BY <1>5, SetKeeps, Zenon
<1>6. CASE RmwAbort(t)
  BY <1>6, RmwAbortKeeps, SlotSetsHold, ZenonT(30)
<1>7. ASSUME NEW i \in DOMAIN rmw[t], RmwCommitDelete(t, i) \/ \E v \in Values : RmwCommitUpdate(t, i, v)
      PROVE  IInv' /\ Frame(t)
  BY <1>7, RmwCommitDeleteKeeps, RmwCommitUpdateKeeps, SlotSetsHold, ZenonT(30)
<1>8. ASSUME NEW c \in Chunks, ReleaseChunk(t, c) PROVE IInv' /\ Frame(t)
  BY <1>8, ReleaseChunkKeeps, Zenon
<1>9. ASSUME NEW c \in Chunks, NEW s \in Slots, GetByIndex(t, c, s) \/ GetKey(t, c, s)
       PROVE  IInv' /\ Frame(t)
  BY <1>9, GetByIndexKeeps, GetKeyKeeps, ZenonT(30)
<1>10. ASSUME NEW c \in Chunks, NEW s \in Slots, NEW k \in Keys, DeleteByIndex(t, c, s, DatabaseOf[k])
       PROVE  IInv' /\ Frame(t)
  <2>1. DatabaseOf[k] \in Nat
    BY HashtableAssumption, Zenon
  <2> QED
    BY <1>10, <2>1, DeleteByIndexKeeps, SlotSetsHold, ZenonT(30)
<1> QED
  BY <1>1, <1>2, <1>3, <1>4, <1>5, <1>6, <1>7, <1>8, <1>9, <1>10, Zenon DEF StepOf

LEMMA NextKeeps == ASSUME IInv, ~RepeatedKeys, Next PROVE IInv' /\ \E t \in Transactions : Frame(t)
BY NextIsAStep, StepKeeps, Zenon

LEMMA StutterKeeps == ASSUME IInv, UNCHANGED vars PROVE IInv'
<1>1. /\ half_hashes' = half_hashes /\ metadata' = metadata /\ keys_values' = keys_values
      /\ readers' = readers /\ writer' = writer /\ pc' = pc /\ ops' = ops /\ call' = call
      /\ rmw' = rmw /\ indexed' = indexed /\ reply' = reply /\ reads' = reads /\ claims' = claims
  BY Zenon DEF vars, table, locks, history
<1>2. TypeOK' /\ Exclusion'
  BY <1>1, ZenonT(30) DEF IInv, TypeOK, Exclusion
<1>3. SlotsSound'
  BY <1>1, SMTT(30) DEF IInv, TableInv, SlotsSound, SlotSound, Pending, CreatedIn, Reach, SearchLimit
<1>4. OneSlotPerKey' /\ OccupancyExact' /\ OverflowBounded'
  BY <1>1 DEF IInv, TableInv, OneSlotPerKey, HasKey, OccupancyExact, FreeSlots, OverflowBounded
<1>5. ASSUME NEW t \in Transactions PROVE ReadsBounded(t)' /\ TxInv(t)'
  <2>1. ReadsBounded(t) /\ SearchInv(t) /\ WriteInv(t) /\ RmwInv(t)
    BY Zenon DEF IInv, TxInv
  <2>2. ReadsBounded(t)' /\ SearchInv(t)'
    BY <1>1, <2>1, Zenon DEF ReadsBounded, SearchInv, Holds, HasKey
  <2>3. WriteInv(t)'
    BY <1>1, <2>1, ZenonT(30) DEF WriteInv, WriteSearchInv, WriteCreateInv, SlotInv, HasKey, Absent, OwnsReach,
       Reach, SearchLimit
  <2>4. RmwInv(t)'
    BY <1>1, <2>1, Zenon DEF RmwInv, RmwSlots, SlotInv, HasKey, Absent, OwnsReach, Reach, SearchLimit
  <2> QED
    BY <2>2, <2>3, <2>4, Zenon DEF TxInv
<1> QED
  BY <1>2, <1>3, <1>4, <1>5, ZenonT(30) DEF IInv, TableInv

\* A step of t changes only chunks that t owns when the step is over.
LEMMA FrameIsUnderLock ==
    ASSUME TypeOK, NEW t \in Transactions, Frame(t), NEW c \in Chunks,
           <<half_hashes[c], metadata[c], keys_values[c]>>' # <<half_hashes[c], metadata[c], keys_values[c]>>
    PROVE  writer'[c] # NoTransaction /\ writer[c] \in {NoTransaction, writer'[c]}
<1>1. writer'[c] = t
  BY Zenon DEF Frame, OtherChunksStay
<1>2. ASSUME NEW u \in Transactions, u # t PROVE writer[c] # u
  BY <1>1, <1>2, ZenonT(30) DEF Frame, LocksOfOthersStay
<1> QED
  BY <1>1, <1>2, HashtableAssumption, ZenonT(30) DEF TypeOK

-----------------------------------------------------------------------------
(***************************************************************************)
(* The inductive invariant is an invariant.                                *)
(***************************************************************************)
THEOREM TableLocked == ASSUME ~RepeatedKeys PROVE Spec => []IInv
<1>1. Init => IInv
  BY InitInv, Zenon
<1>2. IInv /\ [Next]_vars => IInv'
  BY NextKeeps, StutterKeeps, Zenon
<1> QED
  BY <1>1, <1>2, PTL DEF Spec

(***************************************************************************)
(* The variables keep their types: slots_occupied (7 bits) and             *)
(* overflowed_chunks_counter (8 bits) of the chunks never wrap, however    *)
(* large the table is and whatever the transactions do.                    *)
(***************************************************************************)
THEOREM FieldsNeverWrap == ASSUME ~RepeatedKeys PROVE Spec => []TypeOK
<1>1. IInv => TypeOK
  BY DEF IInv
<1> QED
  BY <1>1, TableLocked, PTL

(***************************************************************************)
(* slots_occupied is exact, is_full is set only on a chunk with no free    *)
(* slot, and a slot that op_set or op_rmw_begin took is filled or will be  *)
(* filled or given back.                                                   *)
(***************************************************************************)
THEOREM NoSlotIsLost == ASSUME ~RepeatedKeys PROVE Spec => []SlotsAccounted
<1>1. ASSUME IInv PROVE SlotsAccounted
  <2>1. OccupancyExact /\ SlotsSound
    BY <1>1, Zenon DEF IInv, TableInv
  <2>2. NoSlotLost
    BY <2>1, Zenon DEF NoSlotLost, SlotsSound, SlotSound, FreeSlots
  <2> QED
    BY <2>1, <2>2, Zenon DEF SlotsAccounted
<1> QED
  BY <1>1, TableLocked, PTL

(***************************************************************************)
(* A key is in one slot at most, and a search meets it: the slot is within *)
(* the overflow range of its home chunk, has the slot id that search_key   *)
(* compares with, and is in a chunk that is not skipped as empty.          *)
(***************************************************************************)
THEOREM KeysAreFindable == ASSUME ~RepeatedKeys PROVE Spec => []KeysFindable
<1>1. ASSUME IInv PROVE KeysFindable
  <2>0. TypeOK /\ TableInv /\ OverflowBounded /\ SlotsSound /\ OneSlotPerKey /\ OccupancyExact
    BY <1>1, Zenon DEF IInv, TableInv
  <2>1. SUFFICES ASSUME NEW k \in Keys, NEW c \in Chunks, NEW s \in Slots, HasKey(k, c, s)
                 PROVE  /\ c - HomeOf[k] \in 0 .. metadata[HomeOf[k]].overflowed_chunks_counter
                        /\ half_hashes[c][s] = SlotId(k, c)
                        /\ metadata[c].slots_occupied # 0
    BY <2>0, Zenon DEF KeysFindable, Findable
  <2>2. half_hashes[c][s] = SlotId(k, c) /\ half_hashes[c][s] # NoSlotId /\ c \in Reach(k)
    BY <2>0, <2>1, StoredKey, SlotSetsHold, ZenonT(30) DEF SlotsSound, SlotSound, HasKey
  <2>3. c - HomeOf[k] \in 0 .. metadata[HomeOf[k]].overflowed_chunks_counter
    <3>1. PICK h \in Nat, o \in Nat, l \in Nat :
             /\ h = HomeOf[k] /\ o = metadata[h].overflowed_chunks_counter /\ l = c /\ c \in h .. h + o
      BY <2>0, <2>2, ReachSound, ConstantsSound, ZenonT(30) DEF Reach, SearchLimit
    <3>2. l - h \in 0 .. o
      BY <3>1
    <3> QED
      BY <3>1, <3>2, Zenon
  <2>4. metadata[c].slots_occupied # 0
    BY <2>0, <2>2, InUseIsCounted, SlotSetsHold, ZenonT(30)
  <2> QED
    BY <2>2, <2>3, <2>4, ZenonT(30)
<1> QED
  BY <1>1, TableLocked, PTL

(***************************************************************************)
(* The slot that op_delete found is the slot of its key when the lock has  *)
(* been upgraded, and the slot of an open read-modify-write is touched by  *)
(* nobody but its transaction.                                             *)
(***************************************************************************)
THEOREM FoundSlotIsStable == ASSUME ~RepeatedKeys PROVE Spec => []FoundSlotStays
<1>1. ASSUME IInv PROVE FoundSlotStays
  <2>1. SUFFICES ASSUME NEW t \in Transactions
                 PROVE  /\ pc[t] = "upgrade" => HasKey(call[t].key, call[t].chunk, call[t].slot)
                        /\ \A i \in DOMAIN rmw[t] :
                              LET r == rmw[t][i]
                              IN  /\ half_hashes[r.chunk][r.slot] = SlotId(r.key, r.chunk)
                                  /\ HasKey(r.key, r.chunk, r.slot) <=> ~r.created_new
    BY Zenon DEF FoundSlotStays
  <2>2. TypeOK /\ SearchInv(t) /\ RmwSlots(t)
    BY <1>1, Zenon DEF IInv, TxInv, RmwInv
  <2>3. pc[t] = "upgrade" => HasKey(call[t].key, call[t].chunk, call[t].slot)
    BY <2>2, Zenon DEF SearchInv
  <2>4. ASSUME NEW i \in DOMAIN rmw[t], NEW r, r = rmw[t][i]
        PROVE  /\ half_hashes[r.chunk][r.slot] = SlotId(r.key, r.chunk)
               /\ HasKey(r.key, r.chunk, r.slot) <=> ~r.created_new
    <3>1. SlotInv(t, r.key, r.chunk, r.slot, r.created_new) /\ r.created_new \in BOOLEAN
      BY <2>2, <2>4, RmwIsSeq, ZenonT(30) DEF RmwSlots
    <3> QED
      BY <3>1, Zenon DEF SlotInv, HasKey
  <2> QED
    BY <2>3, <2>4, ZenonT(30)
<1> QED
  BY <1>1, TableLocked, PTL

(***************************************************************************)
(* The slot ids, the metadata and the keys of a chunk change only under    *)
(* its write lock, and no step that changes them takes the lock from       *)
(* another transaction.                                                    *)
(***************************************************************************)
THEOREM ChangesAreUnderLock == ASSUME ~RepeatedKeys PROVE Spec => WrittenUnderLock
<1> DEFINE Within ==
      \A c \in Chunks :
          <<half_hashes[c], metadata[c], keys_values[c]>>' # <<half_hashes[c], metadata[c], keys_values[c]>>
          => writer'[c] # NoTransaction /\ writer[c] \in {NoTransaction, writer'[c]}
<1>1. ASSUME IInv, [Next]_vars PROVE [Within]_vars
  <2>1. CASE Next
    <3>1. PICK t \in Transactions : Frame(t)
      BY <1>1, <2>1, NextKeeps, ZenonT(30)
    <3>2. TypeOK
      BY <1>1, Zenon DEF IInv
    <3> QED
      BY <3>1, <3>2, FrameIsUnderLock, ZenonT(30)
  <2> QED
    BY <1>1, <2>1, Zenon
<1> HIDE DEF Within
<1>2. Spec => [][Within]_vars
  BY <1>1, TableLocked, PTL DEF Spec
<1> QED
  BY <1>2, Zenon DEF WrittenUnderLock, Within

(***************************************************************************)
(* The hashtable is the abstract map: every get, set, delete and           *)
(* read-modify-write takes effect at one of its steps, with the value that *)
(* the map has then, and the locks isolate the transactions.  A key that a *)
(* live transaction has read is not changed by another one, and a value    *)
(* that it wrote is not read by another one.                               *)
(***************************************************************************)
THEOREM TableIsAMap == ASSUME ~RepeatedKeys PROVE Spec => ImplementsMap
<1>1. Init => MapInv /\ Map!Init
  BY InitMaps, Zenon
<1>2. ASSUME IInv, MapInv, [Next]_vars PROVE MapInv' /\ MapStep
  <2>1. CASE Next
    <3>1. PICK t \in Transactions : StepOf(t)
      BY <2>1, NextIsAStep, Zenon
    <3>2. IInv' /\ Frame(t)
      BY <1>2, <3>1, StepKeeps, ZenonT(30)
    <3> QED
      BY <1>2, <3>1, <3>2, SlotSetsHold, StepMaps, ZenonT(30)
  <2>2. CASE UNCHANGED vars
    BY <1>2, <2>2, StutterMaps, ZenonT(30)
  <2> QED
    BY <1>2, <2>1, <2>2, ZenonT(30)
<1>3. Spec => []MapInv
  BY <1>1, <1>2, TableLocked, PTL DEF Spec
<1>4. Spec => Map!Init /\ [][Map!Next]_(Map!mapVars)
  BY <1>1, <1>2, <1>3, TableLocked, PTL DEF Spec, MapStep
<1> QED
  BY <1>4, Zenon DEF ImplementsMap, Map!Spec
=============================================================================
