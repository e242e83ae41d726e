---------------------------- MODULE HashtableMap ----------------------------
(***************************************************************************)
(* The table is a map with isolated transactions, step by step: every step *)
(* of the hashtable is an operation of KeyValueMap taking effect, or       *)
(* leaves the map as it is.                                                *)
(* Beyond IInv this needs what a search for reading has learnt, that slots *)
(* are used from the first one on, and that a key which a live transaction *)
(* has read or claimed stays under one of its locks.                       *)
(***************************************************************************)
EXTENDS HashtableInvariant

\* A search for reading keeps its home chunk locked and has not met the key.
Searched(t) ==
    LET l == call[t]
    IN  pc[t] \in {"search_peek", "search_lock"} =>
            /\ Holds(t, HomeOf[l.key]) /\ l.limit = SearchLimit(HomeOf[l.key])
            /\ \A d \in HomeOf[l.key] .. l.chunk - 1, s \in Slots : ~HasKey(l.key, d, s)

(***************************************************************************)
(* search_key stops at the first slot that was never used.  Slots are      *)
(* taken from the first free one on, and filled in the order of creation.  *)
(***************************************************************************)
Used(c, s) == keys_values[c][s].flags # "EMPTY"
SlotsInOrder == \A c \in Chunks, r, s \in Slots : r < s /\ Used(c, s) => Used(c, r)

\* The i-th read-modify-write of t created slot s of chunk c.
Created(t, i, c, s) == rmw[t][i].created_new /\ rmw[t][i].chunk = c /\ rmw[t][i].slot = s
UsedOrCreated(t, n, c, s) == Used(c, s) \/ \E j \in DOMAIN rmw[t] : j < n /\ Created(t, j, c, s)
CreatedInOrder(t) ==
    /\ pc[t] = "fill" /\ call[t].created =>
          \A r \in Slots : r < call[t].slot => Used(call[t].chunk, r)
    /\ \A i \in DOMAIN rmw[t], c \in Chunks, s \in Slots :
          Created(t, i, c, s) => \A r \in Slots : r < s => UsedOrCreated(t, i, c, r)

\* A key that t has read or claimed is under locks of t, in the table or not.
Guarded(t, k) ==
    /\ \E c \in Reach(k) : Holds(t, c)
    /\ \A c \in Chunks, s \in Slots : HasKey(k, c, s) => Holds(t, c)
Claimed(t, k) == \A c \in Chunks, s \in Slots : HasKey(k, c, s) => writer[c] = t
OpenClaimed(t) == \A i \in DOMAIN rmw[t] : rmw[t][i].key \in claims[t]
Isolated(t) ==
    /\ \A k \in reads[t] \cup claims[t] : Guarded(t, k)
    /\ \A k \in claims[t] : Claimed(t, k)
    /\ OpenClaimed(t)
    /\ pc[t] \in {"idle", "release"} => reads[t] = {} /\ claims[t] = {}

MapTx(t) == Searched(t) /\ CreatedInOrder(t) /\ Isolated(t)
MapInv == SlotsInOrder /\ \A t \in Transactions : MapTx(t)

-----------------------------------------------------------------------------
(***************************************************************************)
(* What a step of t does to the others, and to the keys t has read.        *)
(***************************************************************************)
LocksKept(u) == \A c \in Chunks : /\ Holds(u, c) => Holds(u, c)'
                                  /\ writer[c] = u => writer'[c] = u
UsedGrows == \A c \in Chunks, s \in Slots : Used(c, s) => Used(c, s)'
HistoryOfOthersStays(t) ==
    \A u \in Transactions \ {t} : reads'[u] = reads[u] /\ claims'[u] = claims[u]

LEMMA InvIs ==
    ASSUME IInv
    PROVE  /\ TypeOK /\ Exclusion /\ TableInv /\ SlotsSound /\ OneSlotPerKey /\ OccupancyExact
           /\ OverflowBounded
           /\ \A u \in Transactions : /\ ReadsBounded(u) /\ TxInv(u) /\ SearchInv(u) /\ WriteInv(u)
                                      /\ RmwInv(u) /\ RmwSlots(u)
BY DEF IInv, TableInv, TxInv, RmwInv

LEMMA NextInvIs ==
    ASSUME IInv'
    PROVE  /\ TypeOK' /\ Exclusion' /\ TableInv' /\ SlotsSound' /\ OneSlotPerKey' /\ OverflowBounded'
           /\ \A u \in Transactions : SearchInv(u)' /\ WriteInv(u)' /\ RmwSlots(u)'
BY DEF IInv, TableInv, TxInv, RmwInv

LEMMA KeyIsReached ==
    ASSUME SlotsSound, NEW k \in Keys, NEW c \in Chunks, NEW s \in Slots, HasKey(k, c, s)
    PROVE  c \in Reach(k)
BY DEF SlotsSound, SlotSound, HasKey

LEMMA NextKeyIsReached ==
    ASSUME SlotsSound', NEW k \in Keys, NEW c \in Chunks, NEW s \in Slots, HasKey(k, c, s)'
    PROVE  c \in Reach(k)'
BY DEF SlotsSound, SlotSound, HasKey

LEMMA ReachOnlyGrows ==
    ASSUME IInv, IInv', NEW t \in Transactions, Frame(t), NEW k \in Keys
    PROVE  Reach(k) \subseteq Reach(k)'
<1>0. TypeOK /\ OverflowBounded /\ TypeOK' /\ OverflowBounded'
  BY InvIs, NextInvIs, Zenon
<1>1. HomeOf[k] \in Chunks /\ HomeOf[k] \in Nat
  BY ConstantsSound
<1>2. PICK n \in Nat, m \in Nat : /\ n = metadata[HomeOf[k]].overflowed_chunks_counter
                                  /\ m = metadata'[HomeOf[k]].overflowed_chunks_counter
  BY <1>0, ReachSound, NextReachSound, Zenon
<1>3. n <= m
  BY <1>1, <1>2, Zenon DEF Frame, OverflowGrows
<1>4. Reach(k) = HomeOf[k] .. HomeOf[k] + n /\ Reach(k)' = HomeOf[k] .. HomeOf[k] + m
  BY <1>2 DEF Reach, SearchLimit
<1> QED
  BY <1>1, <1>2, <1>3, <1>4

LEMMA LocksOfOthersKept ==
    ASSUME NEW t \in Transactions, LocksOfOthersStay(t), NEW u \in Transactions, u # t
    PROVE  LocksKept(u)
BY DEF LocksOfOthersStay, LocksKept, Holds

LEMMA LocksKeptIs ==
    ASSUME TypeOK, NEW t \in Transactions, NEW c \in Chunks,
           \/ UNCHANGED locks \/ LockForRead(t, c) \/ LockForWrite(t, c) \/ UpgradeLock(t, c)
    PROVE  LocksKept(t)
<1>0. /\ readers \in [Chunks -> [Transactions -> 0 .. MaxOps]] /\ MaxOps \in Nat
      /\ writer \in [Chunks -> Transactions \cup {NoTransaction}] /\ NoTransaction \notin Transactions
  BY LockTypes
<1>1. CASE UNCHANGED locks
  BY <1>1, Zenon DEF locks, LocksKept, Holds
<1>2. CASE readers' = [readers EXCEPT ![c][t] = @ + 1] /\ writer' = writer
  BY <1>0, <1>2 DEF LocksKept, Holds
<1>3. CASE writer' = [writer EXCEPT ![c] = t] /\ readers' = readers
  BY <1>0, <1>3, Zenon DEF LocksKept, Holds
<1> QED
  BY <1>1, <1>2, <1>3, Zenon DEF LockForRead, LockForWrite, UpgradeLock

\* No other transaction has locked what t owns.
LEMMA NextOwnerIsAlone ==
    ASSUME Exclusion', NEW t \in Transactions, NEW u \in Transactions, u # t, NEW c \in Chunks,
           TypeOK', writer'[c] = t
    PROVE  ~Holds(u, c)'
BY DEF Exclusion, Holds

\* A key that is under u's locks stays there while u keeps its locks.
LEMMA GuardedStays ==
    ASSUME IInv, IInv', NEW t \in Transactions, Frame(t), NEW u \in Transactions, LocksKept(u),
           NEW k \in Keys, Guarded(u, k)
    PROVE  /\ Guarded(u, k)' /\ (Claimed(u, k) => Claimed(u, k)')
           /\ (u # t => ~OwnsReach(t, k)')
<1>0. TypeOK' /\ Exclusion' /\ SlotsSound' /\ Reach(k) \subseteq Chunks
  BY InvIs, NextInvIs, ReachSound, Zenon
<1>1. PICK d \in Reach(k) : Holds(u, d)
  BY DEF Guarded
<1>2. d \in Reach(k)' /\ d \in Chunks /\ Holds(u, d)'
  BY <1>0, <1>1, ReachOnlyGrows, Zenon DEF LocksKept
<1>3. u # t => ~OwnsReach(t, k)'
  BY <1>0, <1>2, NextOwnerIsAlone, Zenon DEF OwnsReach
<1>4. ASSUME NEW c \in Chunks, NEW s \in Slots, HasKey(k, c, s)'
      PROVE  Holds(u, c)' /\ (Claimed(u, k) => writer'[c] = u)
  <2>1. CASE HasKey(k, c, s)
    BY <2>1, Zenon DEF Guarded, Claimed, LocksKept
  <2>2. CASE ~HasKey(k, c, s)
    <3>1. OwnsReach(t, k)'
      BY <1>4, <2>2, Zenon DEF Frame, NewKeysReached
    <3>2. c \in Reach(k)'
      BY <1>0, <1>4, NextKeyIsReached
    <3> QED
      BY <1>3, <3>1, <3>2, Zenon DEF OwnsReach, Holds
  <2> QED
    BY <2>1, <2>2, Zenon
<1> QED
  BY <1>2, <1>3, <1>4, Zenon DEF Guarded, Claimed

LEMMA OthersIsolated ==
    ASSUME IInv, IInv', NEW t \in Transactions, Frame(t), NEW u \in Transactions, u # t, MapTx(u),
           HistoryOfOthersStays(t), UsedGrows
    PROVE  MapTx(u)'
<1>0. /\ TypeOK /\ OverflowBounded /\ TypeOK' /\ OverflowBounded' /\ Exclusion' /\ SearchInv(u)
      /\ Searched(u) /\ CreatedInOrder(u) /\ Isolated(u)
  BY InvIs, NextInvIs, Zenon DEF MapTx
<1>1. PICK l \in Calls, q \in Seq(RmwStatuses), R \in SUBSET Keys, C \in SUBSET Keys :
        /\ call[u] = l /\ call'[u] = l /\ rmw[u] = q /\ rmw'[u] = q
        /\ reads[u] = R /\ reads'[u] = R /\ claims[u] = C /\ claims'[u] = C
  BY <1>0, Zenon DEF Frame, OthersStay, TypeOK, HistoryOfOthersStays
<1>2. pc'[u] = pc[u] /\ LocksKept(u) /\ l.chunk \in Chunks
  BY LocksOfOthersKept, Zenon DEF Frame, OthersStay, Calls
<1>3. Searched(u)'
  <2>1. SUFFICES ASSUME pc[u] \in {"search_peek", "search_lock"}
                 PROVE  /\ Holds(u, HomeOf[l.key])' /\ l.limit = SearchLimit(HomeOf[l.key])'
                        /\ \A d \in HomeOf[l.key] .. l.chunk - 1, s \in Slots : ~HasKey(l.key, d, s)'
    BY <1>1, <1>2, Zenon DEF Searched
  <2>2. PICK k \in Keys : k = l.key
    BY <1>0, <1>1, <2>1, Zenon DEF SearchInv, Searching
  <2>3. HomeOf[k] \in Chunks
    BY ConstantsSound, Zenon
  <2>4. Holds(u, HomeOf[k]) /\ l.limit = SearchLimit(HomeOf[k])
    BY <1>0, <1>1, <2>1, <2>2, Zenon DEF Searched
  <2>5. Holds(u, HomeOf[k])' /\ metadata'[HomeOf[k]] = metadata[HomeOf[k]]
    BY <1>0, <2>3, <2>4, HeldStays, Zenon
  <2>6. ~OwnsReach(t, k)'
    <3>1. HomeOf[k] \in Reach(k)'
      BY <1>0, NextReachSound, Zenon
    <3> QED
      BY <1>0, <2>3, <2>5, <3>1, NextOwnerIsAlone, Zenon DEF OwnsReach
  <2>7. \A d \in HomeOf[k] .. l.chunk - 1 : d \in Chunks
    <3>1. PICK a \in Chunks, b \in Chunks : a = HomeOf[k] /\ b = l.chunk
      BY <1>2, <2>3, Zenon
    <3>2. \A d \in a .. b - 1 : d \in Chunks
      BY ConstantsSound, ChunksBetween
    <3> QED
      BY <3>1, <3>2, Zenon
  <2>8. \A d \in HomeOf[k] .. l.chunk - 1, s \in Slots : ~HasKey(k, d, s)
    BY <1>0, <1>1, <2>1, <2>2, Zenon DEF Searched
  <2>9. \A d \in HomeOf[k] .. l.chunk - 1, s \in Slots : ~HasKey(k, d, s)'
    BY <2>6, <2>7, <2>8, Zenon DEF Frame, NewKeysReached
  <2> QED
    BY <2>2, <2>4, <2>5, <2>9, Zenon DEF SearchLimit
<1>4. CreatedInOrder(u)'
  BY <1>0, <1>1, <1>2 DEF CreatedInOrder, Created, UsedOrCreated, UsedGrows
<1>5. Isolated(u)'
  <2>1. /\ \A k \in R \cup C : Guarded(u, k)
        /\ \A k \in C : Claimed(u, k)
    BY <1>0, <1>1, Zenon DEF Isolated
  <2>2. /\ \A k \in R \cup C : Guarded(u, k)'
        /\ \A k \in C : Claimed(u, k)'
    BY <1>2, <2>1, GuardedStays, Zenon
  <2> QED
    BY <1>0, <1>1, <1>2, <2>2, Zenon DEF Isolated, OpenClaimed
<1> QED
  BY <1>3, <1>4, <1>5, Zenon DEF MapTx

-----------------------------------------------------------------------------
(***************************************************************************)
(* The value of a key.                                                     *)
(***************************************************************************)
LEMMA ValueFound ==
    ASSUME OneSlotPerKey, NEW k \in Keys, NEW c \in Chunks, NEW s \in Slots, HasKey(k, c, s)
    PROVE  ValueOf(k) = keys_values[c][s].data
<1>1. <<c, s>> \in SlotOf(k)
  BY DEF SlotOf
<1>2. \A p \in SlotOf(k) : p = <<c, s>>
  BY DEF SlotOf, OneSlotPerKey
<1>3. SlotOf(k) # {} /\ (CHOOSE p \in SlotOf(k) : TRUE) = <<c, s>>
  BY <1>1, <1>2, Zenon
<1>4. ValueOf(k) = keys_values[<<c, s>>[1]][<<c, s>>[2]].data
  BY <1>3, Zenon DEF ValueOf
<1> QED
  BY <1>4, Zenon

LEMMA NextValueFound ==
    ASSUME OneSlotPerKey', NEW k \in Keys, NEW c \in Chunks, NEW s \in Slots, HasKey(k, c, s)'
    PROVE  ValueOf(k)' = keys_values'[c][s].data
<1>1. <<c, s>> \in SlotOf(k)'
  BY DEF SlotOf
<1>2. \A p \in SlotOf(k)' : p = <<c, s>>
  BY DEF SlotOf, OneSlotPerKey
<1>3. SlotOf(k)' # {} /\ (CHOOSE p \in SlotOf(k)' : TRUE) = <<c, s>>
  BY <1>1, <1>2, Zenon
<1>4. ValueOf(k)' = keys_values'[<<c, s>>[1]][<<c, s>>[2]].data
  BY <1>3, Zenon DEF ValueOf
<1> QED
  BY <1>4

LEMMA NoValueFound == ASSUME NEW k \in Keys, Absent(k) PROVE ValueOf(k) = NoValue
BY Zenon DEF ValueOf, SlotOf, Absent

LEMMA NextNoValueFound == ASSUME NEW k \in Keys, Absent(k)' PROVE ValueOf(k)' = NoValue
BY DEF ValueOf, SlotOf, Absent

\* A key that stays where it is, with its data, keeps its value.
LEMMA ValueStays ==
    ASSUME OneSlotPerKey, OneSlotPerKey', NEW k \in Keys,
           \A c \in Chunks, s \in Slots :
               /\ HasKey(k, c, s)' <=> HasKey(k, c, s)
               /\ HasKey(k, c, s) => keys_values'[c][s].data = keys_values[c][s].data
    PROVE  ValueOf(k)' = ValueOf(k)
<1>1. CASE Absent(k)
  BY <1>1, NoValueFound, NextNoValueFound, Zenon DEF Absent
<1>2. CASE ~Absent(k)
  <2>1. PICK c \in Chunks, s \in Slots : HasKey(k, c, s)
    BY <1>2 DEF Absent
  <2> QED
    BY <2>1, ValueFound, NextValueFound
<1> QED
  BY <1>1, <1>2, Zenon

-----------------------------------------------------------------------------
(***************************************************************************)
(* The operations of the map.                                              *)
(***************************************************************************)
MapStep == [Map!Next]_(Map!mapVars)
TheMap == [k \in Keys |-> ValueOf(k)]

LEMMA SameMap == ASSUME keys_values' = keys_values PROVE TheMap' = TheMap
BY DEF TheMap, ValueOf, SlotOf, HasKey

LEMMA StutterIs ==
    ASSUME keys_values' = keys_values, UNCHANGED history, reply' = reply PROVE MapStep
BY SameMap DEF MapStep, TheMap, Map!mapVars, history

LEMMA BeginStep ==
    ASSUME NEW t \in Transactions, keys_values' = keys_values, UNCHANGED history,
           reply' = [reply EXCEPT ![t] = NoReply]
    PROVE  MapStep
<1>1. Map!Begin(t)
  BY SameMap DEF TheMap, Map!Begin, history
<1> QED
  BY <1>1 DEF MapStep, Map!Next

LEMMA FailStep ==
    ASSUME NEW t \in Transactions, keys_values' = keys_values, UNCHANGED history,
           reply' = [reply EXCEPT ![t] = Failed]
    PROVE  MapStep
<1>1. Map!Fail(t)
  BY SameMap, Zenon DEF TheMap, Map!Fail, history
<1> QED
  BY <1>1, Zenon DEF MapStep, Map!Next

LEMMA EndStep ==
    ASSUME NEW t \in Transactions, keys_values' = keys_values,
           reads' = [reads EXCEPT ![t] = {}], claims' = [claims EXCEPT ![t] = {}],
           reply' = [reply EXCEPT ![t] = NoReply]
    PROVE  MapStep
<1>1. Map!End(t)
  BY SameMap DEF TheMap, Map!End
<1> QED
  BY <1>1 DEF MapStep, Map!Next

LEMMA ReadStep ==
    ASSUME NEW t \in Transactions, NEW k \in Keys, keys_values' = keys_values,
           ValueOf(k) # NoValue => \A u \in Transactions \ {t} : k \notin claims[u],
           NowReads(t, k), claims' = claims, reply' = [reply EXCEPT ![t] = ValueOf(k)]
    PROVE  MapStep
<1>1. TheMap[k] = ValueOf(k)
  BY DEF TheMap
<1>2. Map!Read(t, k)
  BY <1>1, SameMap, Zenon DEF TheMap, Map!Read, Map!Others, NowReads
<1> QED
  BY <1>2 DEF MapStep, Map!Next

\* Nobody else has read or claimed k.
Alone(t, k) == \A u \in Transactions \ {t} : k \notin reads[u] \cup claims[u]

LEMMA ClaimStep ==
    ASSUME NEW t \in Transactions, NEW k \in Keys, keys_values' = keys_values, Alone(t, k),
           NowClaims(t, k), reads' = reads, reply' = [reply EXCEPT ![t] = ValueOf(k)]
    PROVE  MapStep
<1>1. TheMap[k] = ValueOf(k)
  BY DEF TheMap
<1>2. Map!Claim(t, k)
  BY <1>1, SameMap, Zenon DEF TheMap, Map!Claim, Map!Others, NowClaims, Alone
<1> QED
  BY <1>2 DEF MapStep, Map!Next

LEMMA WriteStep ==
    ASSUME NEW t \in Transactions, NEW k \in Keys, NEW v \in Values \cup {NoValue}, Alone(t, k),
           ValueOf(k)' = v, \A j \in Keys \ {k} : ValueOf(j)' = ValueOf(j),
           NowClaims(t, k), reads' = reads, reply' = [reply EXCEPT ![t] = ValueOf(k)]
    PROVE  MapStep
<1>1. TheMap[k] = ValueOf(k) /\ TheMap' = [TheMap EXCEPT ![k] = v]
  BY Zenon DEF TheMap
<1>2. Map!Write(t, k, v)
  BY <1>1 DEF TheMap, Map!Write, Map!Others, NowClaims, Alone
<1> QED
  BY <1>2 DEF MapStep, Map!Next

\* Whoever owns the slot of a key, or all its chunks, is alone with it.
LEMMA AloneIs ==
    ASSUME IInv, IInv', MapInv, NEW t \in Transactions, Frame(t), NEW k \in Keys,
           \/ \E c \in Chunks, s \in Slots : HasKey(k, c, s) /\ writer'[c] = t
           \/ OwnsReach(t, k)'
    PROVE  Alone(t, k)
<1>1. SUFFICES ASSUME NEW u \in Transactions \ {t}, k \in reads[u] \cup claims[u] PROVE FALSE
  BY DEF Alone
<1>2. Guarded(u, k) /\ LocksKept(u) /\ TypeOK' /\ Exclusion'
  BY <1>1, LocksOfOthersKept, NextInvIs, Zenon DEF MapInv, MapTx, Isolated, Frame
<1>3. ~OwnsReach(t, k)'
  BY <1>2, GuardedStays, Zenon
<1>4. PICK c \in Chunks, s \in Slots : HasKey(k, c, s) /\ writer'[c] = t
  BY <1>3, Zenon
<1>5. Holds(u, c)'
  BY <1>2, <1>4, Zenon DEF Guarded, LocksKept
<1> QED
  BY <1>2, <1>4, <1>5, NextOwnerIsAlone, Zenon

-----------------------------------------------------------------------------
(***************************************************************************)
(* Steps that leave the keys alone.                                        *)
(***************************************************************************)
LEMMA MapInvIs ==
    ASSUME MapInv, NEW t \in Transactions
    PROVE  /\ SlotsInOrder /\ Searched(t) /\ CreatedInOrder(t) /\ Isolated(t) /\ OpenClaimed(t)
           /\ \A k \in reads[t] \cup claims[t] : Guarded(t, k)
           /\ \A k \in claims[t] : Claimed(t, k)
BY DEF MapInv, MapTx, Isolated

LEMMA MapKept ==
    ASSUME IInv, IInv', MapInv, NEW t \in Transactions, Frame(t), HistoryOfOthersStays(t), UsedGrows,
           SlotsInOrder', MapTx(t)'
    PROVE  MapInv'
<1>1. \A u \in Transactions \ {t} : MapTx(u)'
  BY OthersIsolated DEF MapInv
<1> QED
  BY <1>1 DEF MapInv

LEMMA SameKeysMapKept ==
    ASSUME IInv, IInv', MapInv, NEW t \in Transactions, Frame(t), HistoryOfOthersStays(t),
           keys_values' = keys_values, MapTx(t)'
    PROVE  MapInv'
<1>1. UsedGrows /\ SlotsInOrder'
  BY DEF UsedGrows, SlotsInOrder, Used, MapInv
<1> QED
  BY <1>1, MapKept, Zenon

LEMMA OwnIsolated ==
    ASSUME IInv, IInv', MapInv, NEW t \in Transactions, Frame(t), LocksKept(t),
           \A k \in (reads'[t] \cup claims'[t]) \ (reads[t] \cup claims[t]) : Guarded(t, k)',
           \A k \in claims'[t] \ claims[t] : Claimed(t, k)',
           OpenClaimed(t)', pc'[t] \notin {"idle", "release"}
    PROVE  Isolated(t)'
<1>1. reads'[t] \subseteq Keys /\ claims'[t] \subseteq Keys
  BY NextInvIs, Zenon DEF TypeOK
<1>2. ASSUME NEW k \in reads'[t] \cup claims'[t] PROVE Guarded(t, k)'
  BY <1>1, MapInvIs, GuardedStays, Zenon
<1>3. ASSUME NEW k \in claims'[t] PROVE Claimed(t, k)'
  BY <1>1, MapInvIs, GuardedStays, Zenon
<1> QED
  BY <1>2, <1>3, Zenon DEF Isolated

LEMMA QuietMapKept ==
    ASSUME IInv, IInv', MapInv, NEW t \in Transactions, Frame(t), LocksKept(t),
           keys_values' = keys_values, UNCHANGED history, rmw'[t] = rmw[t] \/ rmw'[t] = <<>>,
           pc'[t] \notin {"idle", "release", "search_peek", "search_lock"},
           pc'[t] = "fill" /\ call'[t].created =>
               \A r \in Slots : r < call'[t].slot => Used(call'[t].chunk, r)
    PROVE  MapInv'
<1>1. HistoryOfOthersStays(t) /\ reads'[t] = reads[t] /\ claims'[t] = claims[t]
  BY DEF history, HistoryOfOthersStays
<1>2. rmw'[t] = <<>> => DOMAIN rmw'[t] = {}
  OBVIOUS
<1>3. OpenClaimed(t)'
  BY <1>1, <1>2, MapInvIs, Zenon DEF OpenClaimed
<1>4. Isolated(t)'
  BY <1>1, <1>3, OwnIsolated, Zenon
<1>5. CreatedInOrder(t)'
  <2>1. CreatedInOrder(t)
    BY MapInvIs, Zenon
  <2> QED
    BY <1>2, <2>1 DEF CreatedInOrder, Created, UsedOrCreated, Used
<1>6. Searched(t)'
  BY DEF Searched
<1> QED
  BY <1>1, <1>4, <1>5, <1>6, SameKeysMapKept, Zenon DEF MapTx

LEMMA ReleasingMapKept ==
    ASSUME IInv, IInv', MapInv, NEW t \in Transactions, Frame(t), HistoryOfOthersStays(t),
           keys_values' = keys_values, pc'[t] \in {"idle", "release"},
           reads'[t] = {}, claims'[t] = {}
    PROVE  MapInv'
<1>1. rmw'[t] = <<>>
  BY DEF IInv, TxInv, RmwInv
<1>2. DOMAIN rmw'[t] = {}
  BY <1>1
<1>3. Isolated(t)'
  BY <1>2, Zenon DEF Isolated, OpenClaimed
<1>4. CreatedInOrder(t)' /\ Searched(t)'
  BY <1>2, Zenon DEF CreatedInOrder, Searched
<1> QED
  BY <1>3, <1>4, SameKeysMapKept, Zenon DEF MapTx

LEMMA AcquireMaps ==
    ASSUME IInv, IInv', MapInv, NEW t \in Transactions, Frame(t), Acquire(t)
    PROVE  MapInv' /\ MapStep
<1>0. TypeOK
  BY InvIs, Zenon
<1>1. /\ pc'[t] = "ready" /\ UNCHANGED locks /\ keys_values' = keys_values /\ rmw' = rmw
      /\ UNCHANGED history /\ reply' = reply
  BY <1>0, Zenon DEF Acquire, TypeOK, table
<1>2. LocksKept(t)
  BY <1>0, <1>1 DEF locks, LocksKept, Holds
<1> QED
  BY <1>1, <1>2, QuietMapKept, StutterIs, Zenon

LEMMA ReleaseMaps ==
    ASSUME IInv, IInv', MapInv, NEW t \in Transactions, Frame(t),
           ReleaseBegin(t) \/ ReleaseEnd(t) \/ \E c \in Chunks : ReleaseChunk(t, c)
    PROVE  MapInv' /\ MapStep
<1>0. TypeOK /\ Isolated(t)
  BY InvIs, MapInvIs, Zenon
<1>1. CASE ReleaseBegin(t)
  <2>1. /\ pc'[t] = "release" /\ keys_values' = keys_values /\ reads'[t] = {} /\ claims'[t] = {}
        /\ HistoryOfOthersStays(t)
    BY <1>0, <1>1, Zenon DEF ReleaseBegin, TypeOK, table, HistoryOfOthersStays
  <2>2. MapStep
    BY <1>1, <2>1, EndStep, Zenon DEF ReleaseBegin
  <2> QED
    BY <2>1, <2>2, ReleasingMapKept, Zenon
<1>2. CASE ReleaseEnd(t) \/ \E c \in Chunks : ReleaseChunk(t, c)
  <2>1. /\ pc[t] = "release" /\ pc'[t] \in {"idle", "release"} /\ keys_values' = keys_values
        /\ UNCHANGED history /\ reply' = reply
    BY <1>0, <1>2, Zenon DEF ReleaseEnd, ReleaseChunk, TypeOK, table
  <2>2. HistoryOfOthersStays(t) /\ reads'[t] = {} /\ claims'[t] = {}
    BY <1>0, <2>1, Zenon DEF Isolated, history, HistoryOfOthersStays
  <2> QED
    BY <2>1, <2>2, ReleasingMapKept, StutterIs, Zenon
<1> QED
  BY <1>1, <1>2, Zenon

LEMMA BeginMaps ==
    ASSUME IInv, IInv', MapInv, NEW t \in Transactions, Frame(t),
           NEW p \in {"search_home", "write_search", "index_lock"}, NEW l, Begin(t, p, l)
    PROVE  MapInv' /\ MapStep
<1>0. TypeOK
  BY InvIs, Zenon
<1>1. /\ pc'[t] = p /\ UNCHANGED locks /\ keys_values' = keys_values /\ rmw' = rmw
      /\ UNCHANGED history /\ reply' = [reply EXCEPT ![t] = NoReply]
  BY <1>0, Zenon DEF Begin, TypeOK, table
<1>2. LocksKept(t)
  BY <1>0, <1>1, Zenon DEF locks, LocksKept, Holds
<1> QED
  BY <1>1, <1>2, QuietMapKept, BeginStep, Zenon

LEMMA OperationMaps ==
    ASSUME IInv, IInv', MapInv, NEW t \in Transactions, Frame(t), NEW k \in Keys,
           Get(t, k) \/ Delete(t, k) \/ RmwBegin(t, k) \/ \E v \in Values : Set(t, k, v)
    PROVE  MapInv' /\ MapStep
<1>1. CASE Get(t, k)
  BY <1>1, BeginMaps, Zenon DEF Get
<1>2. CASE Delete(t, k)
  BY <1>2, BeginMaps, Zenon DEF Delete
<1>3. CASE RmwBegin(t, k)
  BY <1>3, BeginMaps, Zenon DEF RmwBegin
<1>4. CASE \E v \in Values : Set(t, k, v)
  BY <1>4, BeginMaps, Zenon DEF Set
<1> QED
  BY <1>1, <1>2, <1>3, <1>4, Zenon

LEMMA GetByIndexMaps ==
    ASSUME IInv, IInv', MapInv, NEW t \in Transactions, Frame(t), NEW c \in Chunks, NEW s \in Slots,
           GetByIndex(t, c, s)
    PROVE  MapInv' /\ MapStep
BY BeginMaps, Zenon DEF GetByIndex

\* An operation returns without having read or written a key.
LEMMA QuietReturnMaps ==
    ASSUME IInv, IInv', MapInv, NEW t \in Transactions, Frame(t), LocksKept(t),
           NEW r \in {NoReply, Failed}, Return(t, r), keys_values' = keys_values,
           UNCHANGED history, rmw' = rmw
    PROVE  MapInv' /\ MapStep
<1>1. pc'[t] = "ready" /\ reply' = [reply EXCEPT ![t] = r]
  BY InvIs, Zenon DEF Return, TypeOK
<1>2. MapInv'
  BY <1>1, QuietMapKept
<1> QED
  BY <1>1, <1>2, BeginStep, FailStep, Zenon

LEMMA StuckMaps ==
    ASSUME IInv, IInv', MapInv, NEW t \in Transactions, Frame(t), Stuck(t)
    PROVE  MapInv' /\ MapStep
<1>1. /\ Return(t, Failed) /\ keys_values' = keys_values /\ UNCHANGED history /\ rmw' = rmw
      /\ UNCHANGED locks
  BY DEF Stuck, table
<1>2. LocksKept(t)
  BY <1>1 DEF locks, LocksKept, Holds
<1> QED
  BY <1>1, <1>2, QuietReturnMaps, ZenonT(30)

LEMMA GetByIndexLockedMaps ==
    ASSUME IInv, IInv', MapInv, NEW t \in Transactions, Frame(t), GetByIndexLocked(t)
    PROVE  MapInv' /\ MapStep
<1>0. TypeOK /\ call[t].chunk \in Chunks
  BY InvIs, Zenon DEF TypeOK, Calls
<1>1. /\ Return(t, NoReply) /\ keys_values' = keys_values /\ UNCHANGED history /\ rmw' = rmw
      /\ LockForRead(t, call[t].chunk)
  BY DEF GetByIndexLocked, table
<1>2. LocksKept(t)
  BY <1>0, <1>1, LocksKeptIs
<1> QED
  BY <1>1, <1>2, QuietReturnMaps, ZenonT(30)

LEMMA RmwAbortMaps ==
    ASSUME IInv, IInv', MapInv, NEW t \in Transactions, Frame(t), RmwAbort(t)
    PROVE  MapInv' /\ MapStep
<1>1. /\ pc'[t] = "ready" /\ rmw'[t] = <<>> /\ keys_values' = keys_values /\ UNCHANGED history
      /\ UNCHANGED locks /\ reply' = [reply EXCEPT ![t] = NoReply]
  BY InvIs, Zenon DEF RmwAbort, TypeOK
<1>2. LocksKept(t)
  BY <1>1, Zenon DEF locks, LocksKept, Holds
<1>3. MapInv'
  BY <1>1, <1>2, QuietMapKept, Zenon
<1>4. MapStep
  BY <1>1, BeginStep, Zenon
<1> QED
  BY <1>3, <1>4, Zenon

-----------------------------------------------------------------------------
(***************************************************************************)
(* A key is read.                                                          *)
(***************************************************************************)
LEMMA ReadKept ==
    ASSUME IInv, IInv', MapInv, NEW t \in Transactions, Frame(t), LocksKept(t), NEW k \in Keys,
           keys_values' = keys_values, NowReads(t, k), claims' = claims, rmw' = rmw,
           pc'[t] = "ready", Guarded(t, k)'
    PROVE  MapInv'
<1>0. TypeOK
  BY InvIs, Zenon
<1>1. HistoryOfOthersStays(t) /\ reads'[t] = reads[t] \cup {k} /\ claims'[t] = claims[t]
  BY <1>0, Zenon DEF NowReads, HistoryOfOthersStays, TypeOK
<1>2. OpenClaimed(t)'
  BY <1>1, MapInvIs, Zenon DEF OpenClaimed
<1>3. Isolated(t)'
  BY <1>1, <1>2, OwnIsolated, Zenon
<1>4. CreatedInOrder(t)'
  <2>1. CreatedInOrder(t)
    BY MapInvIs, Zenon
  <2> QED
    BY <2>1 DEF CreatedInOrder, Created, UsedOrCreated, Used
<1>5. Searched(t)'
  BY DEF Searched
<1> QED
  BY <1>1, <1>3, <1>4, <1>5, SameKeysMapKept, Zenon DEF MapTx

LEMMA ReadFoundMaps ==
    ASSUME IInv, IInv', MapInv, NEW t \in Transactions, Frame(t), LocksKept(t), NEW k \in Keys,
           NEW c \in Chunks, NEW s \in Slots, HasKey(k, c, s), Holds(t, c)',
           keys_values' = keys_values, NowReads(t, k), claims' = claims, rmw' = rmw,
           Return(t, keys_values[c][s].data)
    PROVE  MapInv' /\ MapStep
<1>0. /\ TypeOK /\ OneSlotPerKey /\ OneSlotPerKey' /\ SlotsSound' /\ TypeOK' /\ Exclusion'
      /\ LocksOfOthersStay(t)
  BY InvIs, NextInvIs, Zenon DEF Frame
<1>1. HasKey(k, c, s)'
  BY DEF HasKey
<1>2. Guarded(t, k)'
  <2>1. c \in Reach(k)'
    BY <1>0, <1>1, NextKeyIsReached, Zenon
  <2>2. \A d \in Chunks, r \in Slots : HasKey(k, d, r)' => d = c
    BY <1>0, <1>1, Zenon DEF OneSlotPerKey
  <2> QED
    BY <2>1, <2>2, Zenon DEF Guarded
<1>3. ASSUME NEW u \in Transactions \ {t} PROVE k \notin claims[u]
  <2>1. SUFFICES ASSUME k \in claims[u] PROVE FALSE
    BY Zenon
  <2>2. writer[c] = u
    BY <2>1, MapInvIs, Zenon DEF Claimed
  <2>3. writer'[c] = u
    BY <1>0, <2>2, Zenon DEF LocksOfOthersStay
  <2> QED
    BY <1>0, <2>3, NextOwnerIsAlone, Zenon
<1>4. ValueOf(k) = keys_values[c][s].data
  BY <1>0, ValueFound, Zenon
<1>5. MapStep
  BY <1>3, <1>4, ReadStep, Zenon DEF Return
<1>6. pc'[t] = "ready"
  BY <1>0 DEF Return, TypeOK
<1> QED
  BY <1>2, <1>5, <1>6, ReadKept, Zenon

LEMMA ReadMissedMaps ==
    ASSUME IInv, IInv', MapInv, NEW t \in Transactions, Frame(t), LocksKept(t), NEW k \in Keys,
           Absent(k), Holds(t, HomeOf[k])', keys_values' = keys_values, NowReads(t, k),
           claims' = claims, rmw' = rmw, Return(t, NoValue)
    PROVE  MapInv' /\ MapStep
<1>0. TypeOK /\ TypeOK' /\ OverflowBounded'
  BY InvIs, NextInvIs, Zenon
<1>1. Absent(k)'
  BY DEF Absent, HasKey
<1>2. Guarded(t, k)'
  BY <1>0, <1>1, NextReachSound, Zenon DEF Guarded, Absent
<1>3. ValueOf(k) = NoValue
  BY NoValueFound
<1>4. MapStep
  BY <1>3, ReadStep, Zenon DEF Return
<1>5. pc'[t] = "ready"
  BY <1>0, Zenon DEF Return, TypeOK
<1> QED
  BY <1>2, <1>4, <1>5, ReadKept, Zenon

LEMMA GetKeyMaps ==
    ASSUME IInv, IInv', MapInv, NEW t \in Transactions, Frame(t), NEW c \in Chunks, NEW s \in Slots,
           GetKey(t, c, s)
    PROVE  MapInv' /\ MapStep
<1>0. TypeOK /\ Exclusion /\ SlotSound(c, s)
  BY InvIs, Zenon DEF SlotsSound
<1>1. /\ LockForRead(t, c) /\ keys_values' = keys_values /\ claims' = claims /\ rmw' = rmw
  BY DEF GetKey, table
<1>2. LocksKept(t) /\ Holds(t, c)'
  BY <1>0, <1>1, LocksKeptIs, LockForReadIs, Zenon
<1>3. CASE keys_values[c][s].flags = "FILLED"
  <2>1. PICK k \in Keys : k = keys_values[c][s].key
    BY <1>0, <1>3, Zenon DEF SlotSound
  <2>2. Return(t, keys_values[c][s].data) /\ NowReads(t, k) /\ HasKey(k, c, s)
    BY <1>3, <2>1, Zenon DEF GetKey, HasKey
  <2> QED
    BY <1>1, <1>2, <2>2, ReadFoundMaps, Zenon
<1>4. CASE keys_values[c][s].flags # "FILLED"
  <2>1. Return(t, Failed) /\ UNCHANGED history
    BY <1>4, Zenon DEF GetKey, history
  <2> QED
    BY <1>1, <1>2, <2>1, QuietReturnMaps, ZenonT(30)
<1> QED
  BY <1>3, <1>4, Zenon

-----------------------------------------------------------------------------
(***************************************************************************)
(* The search for reading.                                                 *)
(***************************************************************************)
NotBefore(k, c) == \A d \in HomeOf[k] .. c, s \in Slots : ~HasKey(k, d, s)

LEMMA AbsentIs ==
    ASSUME IInv, NEW k \in Keys, NotBefore(k, SearchLimit(HomeOf[k])) PROVE Absent(k)
BY InvIs, KeyIsReached, Zenon DEF NotBefore, Absent, Reach

\* A step inside a search for reading.
LEMMA SearchOnMaps ==
    ASSUME IInv, IInv', MapInv, NEW t \in Transactions, Frame(t), LocksKept(t),
           NEW p \in {"search_peek", "search_lock", "upgrade"}, NEW l \in Calls, Continue(t, p, l),
           keys_values' = keys_values, rmw' = rmw, UNCHANGED history,
           NEW k \in Keys, l.key = k, NEW c \in Chunks, l.chunk = c, Holds(t, HomeOf[k])',
           p # "upgrade" => l.limit = SearchLimit(HomeOf[k])' /\ NotBefore(k, c - 1)
    PROVE  MapInv' /\ MapStep
<1>0. TypeOK
  BY InvIs, Zenon
<1>1. pc'[t] = p /\ call'[t] = l /\ reply' = reply
  BY <1>0, Zenon DEF Continue, TypeOK
<1>2. HistoryOfOthersStays(t) /\ reads'[t] = reads[t] /\ claims'[t] = claims[t]
  BY Zenon DEF history, HistoryOfOthersStays
<1>3. OpenClaimed(t)'
  BY <1>2, MapInvIs, Zenon DEF OpenClaimed
<1>4. Isolated(t)'
  BY <1>1, <1>2, <1>3, OwnIsolated, Zenon
<1>5. CreatedInOrder(t)'
  <2>1. CreatedInOrder(t)
    BY MapInvIs, Zenon
  <2> QED
    BY <1>1, <2>1, SMTT(30) DEF CreatedInOrder, Created, UsedOrCreated, Used
<1>6. Searched(t)'
  BY <1>1, Zenon DEF Searched, NotBefore, HasKey
<1>7. MapInv'
  BY <1>2, <1>4, <1>5, <1>6, SameKeysMapKept, Zenon DEF MapTx
<1> QED
  BY <1>1, <1>7, StutterIs, Zenon

LEMMA SearchNextMaps ==
    ASSUME IInv, IInv', MapInv, NEW t \in Transactions, Frame(t), LocksKept(t), UNCHANGED table,
           rmw' = rmw, NEW k \in Keys, NEW c \in Chunks, k = call[t].key, c = call[t].chunk,
           Holds(t, HomeOf[k])', NotBefore(k, c), HomeOf[k] <= c, c <= SearchLimit(HomeOf[k]),
           SearchNext(t, SearchLimit(HomeOf[k]))
    PROVE  MapInv' /\ MapStep
<1>0. /\ TypeOK /\ OverflowBounded /\ keys_values' = keys_values /\ metadata' = metadata
      /\ call[t] \in Calls
  BY InvIs, Zenon DEF table, TypeOK
<1>1. PICK n \in Nat : n = SearchLimit(HomeOf[k]) /\ n \in HomeOf[k] .. HomeOf[k] + SearchMax - 1
  BY <1>0, ReachSound, SearchedInTable, Zenon
<1>2. n = SearchLimit(HomeOf[k])'
  BY <1>0, <1>1, Zenon DEF SearchLimit
<1>3. CASE c < n
  <2>1. PICK b \in Chunks : b = c + 1 /\ b - 1 = c
    <3>1. c \in Nat /\ HomeOf[k] \in Nat /\ SearchMax \in Nat
      BY ConstantsSound
    <3>2. c + 1 \in HomeOf[k] .. HomeOf[k] + SearchMax - 1 /\ c + 1 - 1 = c
      BY <1>1, <1>3, <3>1, NextChunk, Zenon
    <3> QED
      BY <3>1, <3>2, SearchedInTable
  <2>2. PICK l : l = [call[t] EXCEPT !.chunk = b, !.limit = n]
    BY Zenon
  <2>3. Continue(t, "search_peek", l) /\ UNCHANGED history
    BY <1>1, <1>3, <2>1, <2>2, Zenon DEF SearchNext
  <2>4. l \in Calls /\ l.key = k /\ l.chunk = b /\ l.limit = n
    BY <1>0, <2>2, Zenon DEF Calls
  <2>5. NotBefore(k, b - 1) /\ l.limit = SearchLimit(HomeOf[k])'
    BY <1>2, <2>1, <2>4, Zenon
  <2> QED
    BY <1>0, <2>3, <2>4, <2>5, SearchOnMaps, Zenon
<1>4. CASE ~(c < n)
  <2>1. Return(t, NoValue) /\ NowReads(t, k) /\ claims' = claims
    BY <1>1, <1>4, Zenon DEF SearchNext
  <2>2. c = n
    BY <1>1, <1>4, ConstantsSound
  <2>3. Absent(k)
    BY <1>1, <2>2, AbsentIs, Zenon
  <2> QED
    BY <1>0, <2>1, <2>3, ReadMissedMaps, Zenon
<1> QED
  BY <1>3, <1>4, Zenon

\* A chunk that is skipped or searched in vain does not have the key.
LEMMA MissedChunk ==
    ASSUME SlotSets, IInv, MapInv, NEW k \in Keys, NEW c \in Chunks, NEW s \in Slots,
           metadata[c].slots_occupied = 0 \/ SlotsFound(k, c) = {}
    PROVE  ~HasKey(k, c, s)
<1>1. SUFFICES ASSUME HasKey(k, c, s) PROVE FALSE
  BY Zenon
<1>2. half_hashes[c][s] = SlotId(k, c) /\ metadata[c].slots_occupied # 0
  BY <1>1, InvIs, StoredKey, Zenon
<1>3. \A r \in Slots : r < s => keys_values[c][r].flags # "EMPTY"
  <2>1. Used(c, s)
    BY <1>1, Zenon DEF Used, HasKey
  <2> QED
    BY <2>1, Zenon DEF MapInv, SlotsInOrder, Used
<1>4. s \in SlotsFound(k, c)
  BY <1>1, <1>2, <1>3, Zenon DEF SlotsFound, WithSlotId
<1> QED
  BY <1>2, <1>4, Zenon

LEMMA SearchChunkMaps ==
    ASSUME SlotSets, IInv, IInv', MapInv, NEW t \in Transactions, Frame(t), UNCHANGED table,
           rmw' = rmw, NEW k \in Keys, NEW c \in Chunks, k = call[t].key, c = call[t].chunk,
           LockForRead(t, c), Holds(t, HomeOf[k])', NotBefore(k, c - 1),
           HomeOf[k] <= c, c <= SearchLimit(HomeOf[k]), SearchChunk(t, SearchLimit(HomeOf[k]))
    PROVE  MapInv' /\ MapStep
<1>0. /\ TypeOK /\ Exclusion /\ OverflowBounded /\ keys_values' = keys_values /\ call[t] \in Calls
      /\ c \in Nat /\ HomeOf[k] \in Nat
  BY InvIs, ConstantsSound, Zenon DEF table, TypeOK
<1>1. LocksKept(t) /\ Holds(t, c)'
  BY <1>0, LocksKeptIs, LockForReadIs, Zenon
<1>2. CASE metadata[c].slots_occupied = 0 \/ SlotsFound(k, c) = {}
  <2>1. SearchNext(t, SearchLimit(HomeOf[k]))
    BY <1>2, Zenon DEF SearchChunk
  <2>2. \A s \in Slots : ~HasKey(k, c, s)
    BY <1>2, MissedChunk, Zenon
  <2>3. \A d \in HomeOf[k] .. c : d = c \/ d \in HomeOf[k] .. c - 1
    BY <1>0
  <2>4. NotBefore(k, c)
    BY <2>2, <2>3, Zenon DEF NotBefore
  <2> QED
    BY <1>1, <2>1, <2>4, SearchNextMaps, Zenon
<1>3. CASE ~(metadata[c].slots_occupied = 0 \/ SlotsFound(k, c) = {})
  <2>1. PICK s : s = Min(SlotsFound(k, c))
    BY Zenon
  <2>2. SlotsFound(k, c) \in SUBSET Slots /\ SlotsFound(k, c) # {}
    BY <1>3, Zenon DEF SlotsFound, WithSlotId
  <2>3. s \in SlotsFound(k, c)
    BY <2>1, <2>2, LeastSlot, Zenon
  <2>4. s \in Slots /\ HasKey(k, c, s)
    BY <2>3, Zenon DEF SlotsFound, WithSlotId
  <2>5. CASE call[t].op = "get"
    <3>1. Return(t, keys_values[c][s].data) /\ NowReads(t, k) /\ claims' = claims
      BY <1>3, <2>1, <2>5, Zenon DEF SearchChunk
    <3> QED
      BY <1>0, <1>1, <2>4, <3>1, ReadFoundMaps, Zenon
  <2>6. CASE call[t].op # "get"
    <3>1. PICK n \in Nat : n = SearchLimit(HomeOf[k])
      BY <1>0, ReachSound, SearchedInTable, Zenon
    <3>2. PICK l : l = [call[t] EXCEPT !.slot = s, !.limit = n]
      OBVIOUS
    <3>3. Continue(t, "upgrade", l) /\ UNCHANGED history
      BY <1>3, <2>1, <2>6, <3>1, <3>2, Zenon DEF SearchChunk
    <3>4. l \in Calls /\ l.key = k /\ l.chunk = c
      BY <1>0, <2>4, <3>1, <3>2, Zenon DEF Calls
    <3> QED
      BY <1>0, <1>1, <3>3, <3>4, SearchOnMaps, Zenon
  <2> QED
    BY <2>5, <2>6, Zenon
<1> QED
  BY <1>2, <1>3, Zenon

LEMMA SearchHomeMaps ==
    ASSUME SlotSets, IInv, IInv', MapInv, NEW t \in Transactions, Frame(t), SearchHome(t)
    PROVE  MapInv' /\ MapStep
<1>0. TypeOK /\ Exclusion /\ OverflowBounded /\ SearchInv(t) /\ pc[t] = "search_home"
  BY InvIs, Zenon DEF SearchHome
<1>1. PICK k \in Keys, c \in Chunks : k = call[t].key /\ c = call[t].chunk /\ c = HomeOf[k]
  BY <1>0, Zenon DEF SearchInv, Searching, TypeOK, Calls
<1>2. LockForRead(t, c) /\ SearchChunk(t, SearchLimit(HomeOf[k])) /\ UNCHANGED table /\ rmw' = rmw
  BY <1>1, Zenon DEF SearchHome
<1>3. Holds(t, HomeOf[k])'
  BY <1>0, <1>1, <1>2, LockForReadIs, Zenon
<1>4. c \in Nat /\ c <= SearchLimit(HomeOf[k]) /\ HomeOf[k] <= c
  BY <1>0, <1>1, ReachSound, ConstantsSound
<1>5. NotBefore(k, c - 1)
  BY <1>1, <1>4 DEF NotBefore
<1> QED
  BY <1>1, <1>2, <1>3, <1>4, <1>5, SearchChunkMaps, Zenon

LEMMA SearchLockMaps ==
    ASSUME SlotSets, IInv, IInv', MapInv, NEW t \in Transactions, Frame(t), SearchLock(t)
    PROVE  MapInv' /\ MapStep
<1>0. /\ TypeOK /\ Exclusion /\ OverflowBounded /\ SearchInv(t) /\ Searched(t)
      /\ pc[t] = "search_lock"
  BY InvIs, MapInvIs, Zenon DEF SearchLock
<1>1. PICK k \in Keys, c \in Chunks :
        k = call[t].key /\ c = call[t].chunk /\ HomeOf[k] <= c /\ c <= call[t].limit
  BY <1>0, Zenon DEF SearchInv, Searching, TypeOK, Calls
<1>2. /\ Holds(t, HomeOf[k]) /\ call[t].limit = SearchLimit(HomeOf[k]) /\ NotBefore(k, c - 1)
  BY <1>0, <1>1, Zenon DEF Searched, NotBefore
<1>3. LockForRead(t, c) /\ SearchChunk(t, SearchLimit(HomeOf[k])) /\ UNCHANGED table /\ rmw' = rmw
  BY <1>1, <1>2, Zenon DEF SearchLock
<1>4. Holds(t, HomeOf[k])'
  BY <1>0, <1>2, <1>3, LocksKeptIs, ConstantsSound, Zenon DEF LocksKept
<1> QED
  BY <1>1, <1>2, <1>3, <1>4, SearchChunkMaps, Zenon

LEMMA SearchPeekMaps ==
    ASSUME SlotSets, IInv, IInv', MapInv, NEW t \in Transactions, Frame(t), SearchPeek(t)
    PROVE  MapInv' /\ MapStep
<1>0. /\ TypeOK /\ SearchInv(t) /\ Searched(t) /\ pc[t] = "search_peek" /\ call[t] \in Calls
  BY InvIs, MapInvIs, Zenon DEF SearchPeek, TypeOK
<1>1. PICK k \in Keys, c \in Chunks :
        k = call[t].key /\ c = call[t].chunk /\ HomeOf[k] <= c /\ c <= call[t].limit
  BY <1>0, Zenon DEF SearchInv, Searching, Calls
<1>2. /\ Holds(t, HomeOf[k]) /\ call[t].limit = SearchLimit(HomeOf[k]) /\ NotBefore(k, c - 1)
  BY <1>0, <1>1, Zenon DEF Searched, NotBefore
<1>3. UNCHANGED table /\ rmw' = rmw /\ UNCHANGED locks /\ keys_values' = keys_values
      /\ metadata' = metadata
  BY Zenon DEF SearchPeek, table
<1>4. LocksKept(t) /\ Holds(t, HomeOf[k])' /\ SearchLimit(HomeOf[k])' = SearchLimit(HomeOf[k])
  BY <1>2, <1>3, Zenon DEF locks, LocksKept, Holds, SearchLimit
<1>5. CASE metadata[c].slots_occupied = 0
  <2>1. SearchNext(t, SearchLimit(HomeOf[k]))
    BY <1>1, <1>2, <1>5, Zenon DEF SearchPeek
  <2>2. \A s \in Slots : ~HasKey(k, c, s)
    BY <1>5, MissedChunk, Zenon
  <2>3. c \in Nat /\ HomeOf[k] \in Nat
    BY ConstantsSound, Zenon
  <2>4. \A d \in HomeOf[k] .. c : d = c \/ d \in HomeOf[k] .. c - 1
    BY <2>3
  <2>5. NotBefore(k, c)
    BY <1>2, <2>2, <2>4, Zenon DEF NotBefore
  <2> QED
    BY <1>1, <1>2, <1>3, <1>4, <2>1, <2>5, SearchNextMaps, Zenon
<1>6. CASE metadata[c].slots_occupied # 0
  <2>1. Continue(t, "search_lock", call[t]) /\ UNCHANGED history
    BY <1>1, <1>6, Zenon DEF SearchPeek
  <2> QED
    BY <1>0, <1>1, <1>2, <1>3, <1>4, <2>1, SearchOnMaps, Zenon
<1> QED
  BY <1>5, <1>6, Zenon

-----------------------------------------------------------------------------
(***************************************************************************)
(* The first state, and stuttering.                                        *)
(***************************************************************************)
LEMMA InitMaps == ASSUME Init PROVE MapInv /\ Map!Init
<1>1. \A c \in Chunks, s \in Slots : keys_values[c][s].flags = "EMPTY"
  BY DEF Init, NoKeyValue
<1>2. ASSUME NEW t \in Transactions PROVE MapTx(t)
  <2>1. pc[t] = "idle" /\ DOMAIN rmw[t] = {} /\ reads[t] = {} /\ claims[t] = {}
    BY DEF Init
  <2> QED
    BY <2>1, Zenon DEF MapTx, Searched, CreatedInOrder, Isolated, OpenClaimed
<1>3. MapInv
  BY <1>1, <1>2, Zenon DEF MapInv, SlotsInOrder, Used
<1>4. \A k \in Keys : Absent(k)
  BY <1>1, Zenon DEF Absent, HasKey
<1>5. TheMap = [k \in Keys |-> NoValue]
  BY <1>4, NoValueFound, Zenon DEF TheMap
<1> QED
  BY <1>3, <1>5, Zenon DEF Map!Init, TheMap, Init

LEMMA StutterMaps == ASSUME MapInv, UNCHANGED vars PROVE MapInv' /\ MapStep
<1>1. /\ metadata' = metadata /\ keys_values' = keys_values /\ readers' = readers /\ writer' = writer
      /\ pc' = pc /\ call' = call /\ rmw' = rmw /\ reply' = reply /\ reads' = reads /\ claims' = claims
      /\ UNCHANGED history
  BY Zenon DEF vars, table, locks, history
<1>2. SlotsInOrder'
  BY <1>1, Zenon DEF MapInv, SlotsInOrder, Used
<1>3. ASSUME NEW t \in Transactions PROVE MapTx(t)'
  <2>1. Searched(t) /\ CreatedInOrder(t) /\ Isolated(t)
    BY MapInvIs, Zenon
  <2>2. Searched(t)'
    BY <1>1, <2>1, Zenon DEF Searched, Holds, HasKey, SearchLimit
  <2>3. CreatedInOrder(t)'
    BY <1>1, <2>1 DEF CreatedInOrder, Created, UsedOrCreated, Used
  <2>4. Isolated(t)'
    BY <1>1, <2>1, Zenon DEF Isolated, Guarded, Claimed, OpenClaimed, Holds, HasKey, Reach, SearchLimit
  <2> QED
    BY <2>2, <2>3, <2>4, Zenon DEF MapTx
<1> QED
  BY <1>1, <1>2, <1>3, StutterIs, Zenon DEF MapInv
=============================================================================
