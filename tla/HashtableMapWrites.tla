-------------------------- MODULE HashtableMapWrites --------------------------
(***************************************************************************)
(* The steps that claim, write or erase a key, and with them every step of *)
(* the hashtable, are steps of KeyValueMap.                                *)
(***************************************************************************)
EXTENDS HashtableMap

-----------------------------------------------------------------------------
(***************************************************************************)
(* A key is claimed, written or erased.                                    *)
(***************************************************************************)
LEMMA ClaimKept ==
    ASSUME IInv, IInv', MapInv, NEW t \in Transactions, Frame(t), LocksKept(t), NEW k \in Keys,
           NowClaims(t, k), reads' = reads, pc'[t] = "ready", UsedGrows, SlotsInOrder',
           CreatedInOrder(t)', OpenClaimed(t)', Guarded(t, k)', Claimed(t, k)'
    PROVE  MapInv'
<1>1. HistoryOfOthersStays(t) /\ claims'[t] = claims[t] \cup {k} /\ reads'[t] = reads[t]
  BY InvIs DEF NowClaims, HistoryOfOthersStays, TypeOK
<1>2. Isolated(t)'
  BY <1>1, OwnIsolated, Zenon
<1>3. Searched(t)'
  BY DEF Searched
<1> QED
  BY <1>1, <1>2, <1>3, MapKept, Zenon DEF MapTx

LEMMA GuardedSlot ==
    ASSUME IInv', NEW t \in Transactions, NEW k \in Keys, NEW c \in Chunks, writer'[c] = t,
           c \in Reach(k)', \A d \in Chunks, r \in Slots : HasKey(k, d, r)' => d = c
    PROVE  Guarded(t, k)' /\ Claimed(t, k)'
BY DEF Guarded, Claimed, Holds

LEMMA EraseIs ==
    ASSUME IInv, IInv', MapInv, NEW k \in Keys, NEW c \in Chunks, NEW s \in Slots,
           HasKey(k, c, s), EraseKey(c, s)
    PROVE  /\ UsedGrows /\ SlotsInOrder' /\ Absent(k)'
           /\ \A j \in Keys \ {k} : ValueOf(j)' = ValueOf(j)
<1>0. TypeOK /\ OneSlotPerKey /\ OneSlotPerKey' /\ NoKey \notin Keys
  BY InvIs, NextInvIs, HashtableAssumption, Zenon
<1>1. /\ \A d \in Chunks, r \in Slots : d # c \/ r # s => keys_values'[d][r] = keys_values[d][r]
      /\ keys_values'[c][s].flags = "DELETED" /\ keys_values'[c][s].key = NoKey
  <2>1. /\ keys_values \in [Chunks -> [Slots -> KeyValues]]
        /\ keys_values[c][s] \in KeyValues
    BY <1>0 DEF TypeOK
  <2>2. PICK v : v = [keys_values[c][s] EXCEPT !.flags = "DELETED", !.database_number = 0, !.key = NoKey]
    BY Zenon
  <2>3. v.flags = "DELETED" /\ v.key = NoKey
    BY <2>1, <2>2, Zenon DEF KeyValues
  <2>4. keys_values' = [keys_values EXCEPT ![c][s] = v]
    BY <2>2, Zenon DEF EraseKey
  <2> QED
    BY <2>1, <2>3, <2>4, Zenon
<1>2. UsedGrows /\ SlotsInOrder'
  <2>1. \A d \in Chunks, r \in Slots : Used(d, r)' <=> Used(d, r)
    BY <1>1 DEF Used, HasKey
  <2> QED
    BY <2>1, Zenon DEF UsedGrows, SlotsInOrder, MapInv
<1>3. ASSUME NEW j \in Keys \ {k} PROVE ValueOf(j)' = ValueOf(j)
  <2>1. \A d \in Chunks, r \in Slots : HasKey(j, d, r)' <=> HasKey(j, d, r)
    BY <1>0, <1>1, Zenon DEF HasKey
  <2>2. \A d \in Chunks, r \in Slots :
            HasKey(j, d, r) => keys_values'[d][r].data = keys_values[d][r].data
    BY <1>1, Zenon DEF HasKey
  <2> QED
    BY <1>0, <2>1, <2>2, ValueStays, Zenon
<1>4. Absent(k)'
  <2>1. \A d \in Chunks, r \in Slots : HasKey(k, d, r) => d = c /\ r = s
    BY <1>0 DEF OneSlotPerKey
  <2> QED
    BY <1>0, <1>1, <2>1, ZenonT(30) DEF Absent, HasKey
<1> QED
  BY <1>2, <1>3, <1>4, Zenon

LEMMA EraseMaps ==
    ASSUME IInv, IInv', MapInv, NEW t \in Transactions, Frame(t), LocksKept(t), NEW k \in Keys,
           NEW c \in Chunks, NEW s \in Slots, HasKey(k, c, s), writer'[c] = t, EraseKey(c, s),
           NowClaims(t, k), reads' = reads, pc'[t] = "ready", CreatedInOrder(t)', OpenClaimed(t)',
           reply' = [reply EXCEPT ![t] = keys_values[c][s].data]
    PROVE  MapInv' /\ MapStep
<1>1. /\ UsedGrows /\ SlotsInOrder' /\ Absent(k)'
      /\ \A j \in Keys \ {k} : ValueOf(j)' = ValueOf(j)
  BY EraseIs
<1>2. c \in Reach(k)'
  BY InvIs, KeyIsReached, ReachOnlyGrows, Zenon
<1>3. Guarded(t, k)' /\ Claimed(t, k)'
  BY <1>1, <1>2, GuardedSlot, Zenon DEF Absent
<1>4. MapInv'
  BY <1>1, <1>3, ClaimKept, Zenon
<1>5. Alone(t, k)
  BY AloneIs
<1>6. ValueOf(k) = keys_values[c][s].data /\ ValueOf(k)' = NoValue
  BY <1>1, InvIs, ValueFound, NextNoValueFound, Zenon
<1>7. MapStep
  BY <1>1, <1>5, <1>6, WriteStep, Zenon
<1> QED
  BY <1>4, <1>7, Zenon

LEMMA FillMapIs ==
    ASSUME IInv, IInv', MapInv, NEW t \in Transactions, NEW k \in Keys, NEW c \in Chunks,
           NEW s \in Slots, NEW created \in BOOLEAN, NEW v \in Values, SlotInv(t, k, c, s, created),
           Fill(k, c, s, created, v), created => \A r \in Slots : r < s => Used(c, r)
    PROVE  /\ UsedGrows /\ SlotsInOrder' /\ Used(c, s)' /\ HasKey(k, c, s)'
           /\ keys_values'[c][s].data = v
           /\ \A j \in Keys \ {k} : ValueOf(j)' = ValueOf(j)
<1>0. /\ TypeOK /\ OneSlotPerKey /\ OneSlotPerKey' /\ NoKey \notin Keys
      /\ keys_values \in [Chunks -> [Slots -> KeyValues]] /\ keys_values[c][s] \in KeyValues
  BY InvIs, NextInvIs, HashtableAssumption, SMTT(30) DEF TypeOK
<1>1. /\ \A d \in Chunks, r \in Slots : d # c \/ r # s => keys_values'[d][r] = keys_values[d][r]
      /\ keys_values'[c][s].flags = "FILLED" /\ keys_values'[c][s].key = k
      /\ keys_values'[c][s].data = v
  <2>1. PICK w : w = IF created
                     THEN [flags |-> "FILLED", database_number |-> DatabaseOf[k], key |-> k, data |-> v]
                     ELSE [keys_values[c][s] EXCEPT !.data = v]
    BY Zenon
  <2>2. w.flags = "FILLED" /\ w.key = k /\ w.data = v
    BY <1>0, <2>1, Zenon DEF KeyValues, SlotInv, HasKey
  <2>3. keys_values' = [keys_values EXCEPT ![c][s] = w]
    BY <2>1, Zenon DEF Fill
  <2> QED
    BY <1>0, <2>2, <2>3
<1>2. Used(c, s)' /\ HasKey(k, c, s)'
  BY <1>1, Zenon DEF Used, HasKey
<1>3. \A d \in Chunks, r \in Slots : Used(d, r)' <=> Used(d, r) \/ (d = c /\ r = s)
  BY <1>1, Zenon DEF Used
<1>4. UsedGrows
  BY <1>3, Zenon DEF UsedGrows
<1>5. \A r \in Slots : r < s => Used(c, r)
  BY MapInvIs, Zenon DEF SlotInv, HasKey, MapInv, SlotsInOrder, Used
<1>6. SlotsInOrder'
  BY <1>3, <1>5, Zenon DEF MapInv, SlotsInOrder
<1>7. ASSUME NEW j \in Keys \ {k} PROVE ValueOf(j)' = ValueOf(j)
  <2>1. ~HasKey(j, c, s)
    BY InvIs, HashtableAssumption, Zenon DEF SlotInv, HasKey
  <2>2. \A d \in Chunks, r \in Slots : HasKey(j, d, r)' <=> HasKey(j, d, r)
    BY <1>1, <2>1, Zenon DEF HasKey
  <2>3. \A d \in Chunks, r \in Slots :
            HasKey(j, d, r) => keys_values'[d][r].data = keys_values[d][r].data
    BY <1>1, <2>1
  <2> QED
    BY <1>0, <2>2, <2>3, ValueStays, Zenon
<1> QED
  BY <1>1, <1>2, <1>4, <1>6, <1>7, Zenon

LEMMA FillMaps ==
    ASSUME IInv, IInv', MapInv, NEW t \in Transactions, Frame(t), LocksKept(t), NEW k \in Keys,
           NEW c \in Chunks, NEW s \in Slots, NEW created \in BOOLEAN, NEW v \in Values,
           SlotInv(t, k, c, s, created), Fill(k, c, s, created, v), metadata' = metadata,
           created => \A r \in Slots : r < s => Used(c, r),
           NowClaims(t, k), reads' = reads, pc'[t] = "ready", CreatedInOrder(t)', OpenClaimed(t)',
           reply' = [reply EXCEPT ![t] = IF created THEN NoValue ELSE keys_values[c][s].data]
    PROVE  MapInv' /\ MapStep
<1>0. /\ OneSlotPerKey /\ OneSlotPerKey' /\ Reach(k)' = Reach(k) /\ Reach(k) \subseteq Chunks
  BY InvIs, NextInvIs, ReachSound, Zenon DEF Reach, SearchLimit
<1>1. /\ UsedGrows /\ SlotsInOrder' /\ HasKey(k, c, s)' /\ keys_values'[c][s].data = v
      /\ \A j \in Keys \ {k} : ValueOf(j)' = ValueOf(j)
  BY FillMapIs
<1>2. writer[c] = t /\ writer'[c] = t /\ c \in Reach(k)'
  BY <1>0, Zenon DEF SlotInv, LocksKept
<1>3. \A d \in Chunks, r \in Slots : HasKey(k, d, r)' => d = c
  BY <1>0, <1>1, Zenon DEF OneSlotPerKey
<1>4. Guarded(t, k)' /\ Claimed(t, k)'
  BY <1>2, <1>3, GuardedSlot, Zenon
<1>5. MapInv'
  BY <1>1, <1>4, ClaimKept, Zenon
<1>6. Alone(t, k)
  <2>1. CASE created
    <3>1. OwnsReach(t, k)'
      BY <1>0, <2>1, Zenon DEF SlotInv, OwnsReach, LocksKept
    <3> QED
      BY <3>1, AloneIs, Zenon
  <2>2. CASE ~created
    <3>1. HasKey(k, c, s)
      BY <2>2, Zenon DEF SlotInv
    <3> QED
      BY <1>2, <3>1, AloneIs, Zenon
  <2> QED
    BY <2>1, <2>2, Zenon
<1>7. ValueOf(k) = (IF created THEN NoValue ELSE keys_values[c][s].data) /\ ValueOf(k)' = v
  <2>1. ValueOf(k)' = v
    BY <1>0, <1>1, NextValueFound, Zenon
  <2>2. CASE created
    BY <2>1, <2>2, NoValueFound, Zenon DEF SlotInv
  <2>3. CASE ~created
    BY <1>0, <2>1, <2>3, ValueFound, Zenon DEF SlotInv
  <2> QED
    BY <2>2, <2>3, Zenon
<1>8. MapStep
  BY <1>1, <1>6, <1>7, WriteStep, Zenon
<1> QED
  BY <1>5, <1>8, Zenon

\* Nothing is open: there is nothing to keep in order.
LEMMA NothingOpen ==
    ASSUME NEW t \in Transactions, rmw'[t] = <<>>, pc'[t] = "ready"
    PROVE  CreatedInOrder(t)' /\ OpenClaimed(t)'
<1>1. DOMAIN rmw'[t] = {}
  OBVIOUS
<1> QED
  BY <1>1, Zenon DEF CreatedInOrder, OpenClaimed

LEMMA SetFillMaps ==
    ASSUME IInv, IInv', MapInv, NEW t \in Transactions, Frame(t), SetFill(t)
    PROVE  MapInv' /\ MapStep
<1>0. TypeOK /\ WriteInv(t) /\ RmwInv(t) /\ CreatedInOrder(t) /\ pc[t] = "fill"
  BY InvIs, MapInvIs, Zenon DEF SetFill
<1>1. PICK l \in Calls : l = call[t]
  BY <1>0, Zenon DEF TypeOK
<1>2. /\ l.key \in Keys /\ l.op = "set" /\ l.value \in Values /\ l.chunk \in Chunks
      /\ l.slot \in Slots /\ l.created \in BOOLEAN /\ SlotInv(t, l.key, l.chunk, l.slot, l.created)
  BY <1>0, <1>1, Zenon DEF WriteInv, Writing, Calls
<1>3. l.created => \A r \in Slots : r < l.slot => Used(l.chunk, r)
  BY <1>0, <1>1, Zenon DEF CreatedInOrder
<1>4. rmw[t] = <<>>
  BY <1>0, <1>1, <1>2, Zenon DEF RmwInv
<1>5. /\ Fill(l.key, l.chunk, l.slot, l.created, l.value) /\ metadata' = metadata
      /\ NowClaims(t, l.key) /\ reads' = reads /\ UNCHANGED locks /\ rmw' = rmw
      /\ Return(t, IF l.created THEN NoValue ELSE keys_values[l.chunk][l.slot].data)
  BY <1>1, Zenon DEF SetFill
<1>6. /\ pc'[t] = "ready"
      /\ reply' = [reply EXCEPT ![t] = IF l.created THEN NoValue ELSE keys_values[l.chunk][l.slot].data]
  BY <1>0, <1>5, Zenon DEF Return, TypeOK
<1>7. LocksKept(t)
  BY <1>5, Zenon DEF locks, LocksKept, Holds
<1>8. CreatedInOrder(t)' /\ OpenClaimed(t)'
  BY <1>4, <1>5, <1>6, NothingOpen, Zenon
<1> QED
  BY <1>2, <1>3, <1>5, <1>6, <1>7, <1>8, FillMaps, Zenon

LEMMA DeleteFoundMaps ==
    ASSUME IInv, IInv', MapInv, NEW t \in Transactions, Frame(t), DeleteFound(t)
    PROVE  MapInv' /\ MapStep
<1>0. TypeOK /\ Exclusion /\ SearchInv(t) /\ RmwInv(t) /\ pc[t] = "upgrade"
  BY InvIs, Zenon DEF DeleteFound
<1>1. PICK k \in Keys, c \in Chunks, s \in Slots :
        /\ k = call[t].key /\ c = call[t].chunk /\ s = call[t].slot /\ HasKey(k, c, s)
        /\ call[t].op = "delete"
  BY <1>0, Zenon DEF SearchInv, TypeOK, Calls
<1>2. UpgradeLock(t, c) /\ rmw' = rmw /\ reads' = reads
  BY <1>1 DEF DeleteFound
<1>3. LocksKept(t) /\ writer'[c] = t
  <2>1. LocksKept(t)
    BY <1>0, <1>2, LocksKeptIs, Zenon
  <2> QED
    BY <1>0, <1>2, <2>1, UpgradeLockIs, Zenon
<1>4. CASE half_hashes[c][s].quarter_hash = QuarterOf[k]
  <2>1. EraseKey(c, s) /\ Return(t, keys_values[c][s].data) /\ NowClaims(t, k)
    BY <1>1, <1>4, Zenon DEF DeleteFound
  <2>2. pc'[t] = "ready" /\ reply' = [reply EXCEPT ![t] = keys_values[c][s].data]
    BY <1>0, <2>1, Zenon DEF Return, TypeOK
  <2>3. rmw'[t] = <<>>
    BY <1>0, <1>1, <1>2, Zenon DEF RmwInv
  <2>4. CreatedInOrder(t)' /\ OpenClaimed(t)'
    BY <2>2, <2>3, NothingOpen, Zenon
  <2> QED
    BY <1>1, <1>2, <1>3, <2>1, <2>2, <2>4, EraseMaps, Zenon
<1>5. CASE half_hashes[c][s].quarter_hash # QuarterOf[k]
  <2>1. Return(t, Failed) /\ keys_values' = keys_values /\ UNCHANGED history
    BY <1>1, <1>2, <1>5, Zenon DEF DeleteFound, table, history
  <2> QED
    BY <1>2, <1>3, <2>1, QuietReturnMaps, ZenonT(30)
<1> QED
  BY <1>4, <1>5, Zenon

LEMMA DeleteByIndexMaps ==
    ASSUME IInv, IInv', MapInv, NEW t \in Transactions, Frame(t), NEW c \in Chunks, NEW s \in Slots,
           NEW d \in Nat, DeleteByIndex(t, c, s, d)
    PROVE  MapInv' /\ MapStep
<1>0. TypeOK /\ Exclusion /\ Isolated(t)
  BY InvIs, MapInvIs, Zenon
<1>1. /\ UpgradeLock(t, c) /\ rmw' = rmw /\ reads' = reads /\ half_hashes[c][s].filled
      /\ ~IsOwnedBy(c, t) /\ pc[t] = "ready"
  BY DEF DeleteByIndex, CountOp
<1>2. LocksKept(t) /\ writer'[c] = t /\ writer[c] \notin Transactions
  <2>1. writer[c] = NoTransaction
    BY <1>1, Zenon DEF UpgradeLock, CanUpgrade
  <2> QED
    <3>1. LocksKept(t)
      BY <1>0, <1>1, LocksKeptIs, Zenon
    <3> QED
      BY <1>0, <1>1, <2>1, <3>1, UpgradeLockIs, LockTypes, Zenon
<1>3. half_hashes[c][s] # NoSlotId
  BY <1>1 DEF NoSlotId
<1>4. PICK k \in Keys : keys_values[c][s].flags = "FILLED" /\ k = keys_values[c][s].key
  BY <1>2, <1>3, UnownedSlot, Zenon
<1>5. HasKey(k, c, s)
  BY <1>4 DEF HasKey
<1>6. CASE keys_values[c][s].database_number = d
  <2>1. EraseKey(c, s) /\ Return(t, keys_values[c][s].data) /\ NowClaims(t, k)
    BY <1>4, <1>6, Zenon DEF DeleteByIndex
  <2>2. pc'[t] = "ready" /\ reply' = [reply EXCEPT ![t] = keys_values[c][s].data]
    BY <1>0, <2>1, Zenon DEF Return, TypeOK
  <2>3. OpenClaimed(t)'
    <3>1. claims'[t] = claims[t] \cup {k}
      BY <1>0, <2>1, Zenon DEF NowClaims, TypeOK
    <3> QED
      BY <1>0, <1>1, <3>1, Zenon DEF Isolated, OpenClaimed
  <2>4. CreatedInOrder(t)'
    BY <1>1, <1>5, <2>1, <2>2, EraseIs, MapInvIs, SMTT(30)
       DEF CreatedInOrder, Created, UsedOrCreated, UsedGrows
  <2> QED
    BY <1>1, <1>2, <1>5, <2>1, <2>2, <2>3, <2>4, EraseMaps, Zenon
<1>7. CASE keys_values[c][s].database_number # d
  <2>1. Return(t, Failed) /\ keys_values' = keys_values /\ UNCHANGED history
    BY <1>1, <1>7 DEF DeleteByIndex, table, history
  <2> QED
    BY <1>1, <1>2, <2>1, QuietReturnMaps, ZenonT(30)
<1> QED
  BY <1>6, <1>7, Zenon

-----------------------------------------------------------------------------
(***************************************************************************)
(* Read-modify-writes.                                                     *)
(***************************************************************************)
\* The slots still open stay in order when the first created one is closed.
LEMMA ClosedInOrder ==
    ASSUME TypeOK, NEW t \in Transactions, NEW i \in DOMAIN rmw[t], CloseRmw(t, i),
           CreatedInOrder(t), UsedGrows,
           \A c \in Chunks, s \in Slots : Created(t, i, c, s) => Used(c, s)'
    PROVE  CreatedInOrder(t)'
<1>0. PICK q \in Seq(RmwStatuses) : q = rmw[t] /\ i \in 1 .. Len(q) /\ DOMAIN q = 1 .. Len(q)
  BY RmwIsSeq
<1>1. PICK w : w = rmw'[t] /\ w = Without(q, i)
  BY <1>0, Zenon DEF CloseRmw, TypeOK
<1>2. /\ Len(q) \in Nat /\ i \in Nat /\ w \in Seq(RmwStatuses) /\ Len(w) = Len(q) - 1
      /\ \A j \in 1 .. Len(q) - 1 : w[j] = IF j < i THEN q[j] ELSE q[j + 1]
  BY <1>0, <1>1, WithoutIs
<1>3. DOMAIN w = 1 .. Len(q) - 1
  BY <1>2
<1>4. pc'[t] = "ready"
  BY DEF CloseRmw, TypeOK
<1>5. ASSUME NEW j \in DOMAIN rmw'[t], NEW c \in Chunks, NEW s \in Slots, Created(t, j, c, s)',
             NEW r \in Slots, r < s
      PROVE  UsedOrCreated(t, j, c, r)'
  <2>0. j \in 1 .. Len(q) - 1
    BY <1>1, <1>3, Zenon
  <2>1. PICK m \in 1 .. Len(q) : w[j] = q[m] /\ m = IF j < i THEN j ELSE j + 1
    BY <1>2, <2>0
  <2>2. Created(t, m, c, s)
    BY <1>0, <1>1, <1>5, <2>1, Zenon DEF Created
  <2>3. UsedOrCreated(t, m, c, r)
    BY <1>0, <1>5, <2>2, Zenon DEF CreatedInOrder
  <2>4. CASE Used(c, r)
    BY <2>4 DEF UsedGrows, UsedOrCreated
  <2>5. CASE ~Used(c, r)
    <3>1. PICK h \in 1 .. Len(q) : h < m /\ Created(t, h, c, r)
      BY <1>0, <2>3, <2>5, Zenon DEF UsedOrCreated
    <3>2. CASE h = i
      BY <3>1, <3>2, Zenon DEF UsedOrCreated
    <3>3. CASE h # i
      <4>1. PICK g \in 1 .. Len(q) - 1 : g < j /\ w[g] = q[h]
        <5>1. CASE h < i
          BY <1>2, <2>0, <2>1, <3>1, <5>1, SMTT(30)
        <5>2. CASE h > i
          <6>1. h - 1 \in 1 .. Len(q) - 1 /\ h - 1 < j /\ ~(h - 1 < i) /\ h - 1 + 1 = h
            BY <1>0, <1>2, <2>0, <2>1, <3>1, <5>2, SMTT(30)
          <6> QED
            BY <1>2, <6>1, Zenon
        <5> QED
          BY <1>2, <3>3, <5>1, <5>2
      <4>2. Created(t, g, c, r)'
        BY <1>0, <1>1, <3>1, <4>1, Zenon DEF Created
      <4> QED
        BY <1>1, <1>3, <4>1, <4>2, Zenon DEF UsedOrCreated
    <3> QED
      BY <3>2, <3>3, Zenon
  <2> QED
    BY <2>4, <2>5, Zenon
<1> QED
  BY <1>4, <1>5, Zenon DEF CreatedInOrder

\* The keys still open are claimed, and the one that is closed was.
LEMMA ClosedClaims ==
    ASSUME IInv, MapInv, NEW t \in Transactions, NEW i \in DOMAIN rmw[t], CloseRmw(t, i)
    PROVE  /\ OpenClaimed(t)' /\ NowClaims(t, rmw[t][i].key) /\ reads' = reads
           /\ pc'[t] = "ready" /\ LocksKept(t)
<1>0. TypeOK /\ OpenClaimed(t)
  BY InvIs, MapInvIs, Zenon
<1>1. claims' = claims /\ reads' = reads /\ pc' = pc /\ pc[t] = "ready" /\ UNCHANGED locks
  BY DEF CloseRmw, history
<1>2. PICK q \in Seq(RmwStatuses) : q = rmw[t] /\ i \in 1 .. Len(q) /\ DOMAIN q = 1 .. Len(q)
  BY <1>0, RmwIsSeq, Zenon
<1>3. rmw'[t] = Without(q, i)
  BY <1>0, <1>2, Zenon DEF CloseRmw, TypeOK
<1>4. /\ Len(q) \in Nat /\ Without(q, i) \in Seq(RmwStatuses) /\ Len(Without(q, i)) = Len(q) - 1
      /\ \A j \in 1 .. Len(q) - 1 : Without(q, i)[j] = IF j < i THEN q[j] ELSE q[j + 1]
  BY <1>2, WithoutIs
<1>5. \A j \in 1 .. Len(q) - 1 : \E m \in 1 .. Len(q) : Without(q, i)[j] = q[m]
  BY <1>2, <1>4, SMTT(30)
<1>6. DOMAIN Without(q, i) = 1 .. Len(q) - 1
  BY <1>4
<1>7. OpenClaimed(t)'
  BY <1>0, <1>1, <1>2, <1>3, <1>5, <1>6, SMTT(30) DEF OpenClaimed
<1>8. NowClaims(t, rmw[t][i].key)
  <2>1. rmw[t][i].key \in claims[t]
    BY <1>0, Zenon DEF OpenClaimed
  <2>2. claims \in [Transactions -> SUBSET Keys]
    BY <1>0, Zenon DEF TypeOK
  <2>3. claims[t] \cup {rmw[t][i].key} = claims[t]
    BY <2>1, Zenon
  <2> QED
    BY <1>1, <2>2, <2>3, Zenon DEF NowClaims
<1>9. LocksKept(t)
  BY <1>1 DEF locks, LocksKept, Holds
<1> QED
  BY <1>1, <1>7, <1>8, <1>9, Zenon

LEMMA RmwCommitUpdateMaps ==
    ASSUME IInv, IInv', MapInv, NEW t \in Transactions, Frame(t), NEW i \in DOMAIN rmw[t],
           NEW v \in Values, RmwCommitUpdate(t, i, v)
    PROVE  MapInv' /\ MapStep
<1>0. TypeOK /\ RmwSlots(t) /\ CreatedInOrder(t)
  BY InvIs, MapInvIs, Zenon
<1>1. PICK o \in RmwStatuses : o = rmw[t][i]
  BY <1>0, RmwIsSeq, Zenon
<1>2. /\ o.key \in Keys /\ o.chunk \in Chunks /\ o.slot \in Slots /\ o.created_new \in BOOLEAN
      /\ SlotInv(t, o.key, o.chunk, o.slot, o.created_new)
  BY <1>0, <1>1 DEF RmwStatuses, RmwSlots
<1>3. /\ CloseRmw(t, i) /\ Fill(o.key, o.chunk, o.slot, o.created_new, v) /\ metadata' = metadata
      /\ reply' = [reply EXCEPT ![t] = IF o.created_new THEN NoValue
                                       ELSE keys_values[o.chunk][o.slot].data]
  BY <1>1, Zenon DEF RmwCommitUpdate, Current
<1>4. ASSUME o.created_new, NEW r \in Slots, r < o.slot PROVE Used(o.chunk, r)
  <2>1. UsedOrCreated(t, i, o.chunk, r)
    BY <1>0, <1>1, <1>2, <1>4, Zenon DEF CreatedInOrder, Created
  <2>2. \A j \in 1 .. i - 1 : ~rmw[t][j].created_new
    BY <1>1, <1>3, <1>4, Zenon DEF CloseRmw
  <2>3. \A j \in DOMAIN rmw[t] : j < i => j \in 1 .. i - 1
    BY <1>0, RmwIsSeq, SMTT(30)
  <2> QED
    BY <2>1, <2>2, <2>3, Zenon DEF UsedOrCreated, Created
<1>5. /\ OpenClaimed(t)' /\ NowClaims(t, o.key) /\ reads' = reads /\ pc'[t] = "ready" /\ LocksKept(t)
  BY <1>1, <1>3, ClosedClaims, Zenon
<1>6. UsedGrows /\ Used(o.chunk, o.slot)'
  <2>1. PICK k \in Keys, c \in Chunks, s \in Slots, b \in BOOLEAN :
          k = o.key /\ c = o.chunk /\ s = o.slot /\ b = o.created_new
    BY <1>2, Zenon
  <2>2. UsedGrows /\ Used(c, s)'
    BY <1>2, <1>3, <1>4, <2>1, FillMapIs, SMTT(30)
  <2> QED
    BY <2>1, <2>2, Zenon
<1>7. \A c \in Chunks, s \in Slots : Created(t, i, c, s) => Used(c, s)'
  BY <1>1, <1>6, Zenon DEF Created
<1>8. CreatedInOrder(t)'
  BY <1>0, <1>3, <1>6, <1>7, ClosedInOrder, Zenon
<1> QED
  BY <1>2, <1>3, <1>4, <1>5, <1>8, FillMaps, Zenon

LEMMA RmwCommitDeleteMaps ==
    ASSUME IInv, IInv', MapInv, NEW t \in Transactions, Frame(t), NEW i \in DOMAIN rmw[t],
           RmwCommitDelete(t, i)
    PROVE  MapInv' /\ MapStep
<1>0. TypeOK /\ RmwSlots(t) /\ CreatedInOrder(t) /\ OneSlotPerKey /\ Reach(rmw[t][i].key) \subseteq Chunks
  BY InvIs, MapInvIs, RmwIsSeq, ReachSound, Zenon
<1>1. PICK k \in Keys, c \in Chunks, s \in Slots, created \in BOOLEAN :
        /\ k = rmw[t][i].key /\ c = rmw[t][i].chunk /\ s = rmw[t][i].slot
        /\ created = rmw[t][i].created_new
  BY <1>0, RmwIsSeq, Zenon
<1>2. SlotInv(t, k, c, s, created)
  BY <1>0, <1>1, Zenon DEF RmwSlots
<1>3. /\ CloseRmw(t, i) /\ (created => Len(rmw[t]) = 1)
      /\ created => keys_values' = keys_values
      /\ ~created => EraseKey(c, s)
      /\ reply' = [reply EXCEPT ![t] = IF created THEN NoValue ELSE keys_values[c][s].data]
  BY <1>1, Zenon DEF RmwCommitDelete, Current
<1>4. /\ OpenClaimed(t)' /\ NowClaims(t, k) /\ reads' = reads /\ pc'[t] = "ready" /\ LocksKept(t)
  BY <1>1, <1>3, ClosedClaims, Zenon
<1>5. writer[c] = t /\ writer'[c] = t
  BY <1>2, <1>4, Zenon DEF SlotInv, LocksKept
<1>6. CASE ~created
  <2>1. HasKey(k, c, s) /\ EraseKey(c, s)
    BY <1>2, <1>3, <1>6, Zenon DEF SlotInv
  <2>2. UsedGrows
    BY <2>1, EraseIs, Zenon
  <2>3. \A d \in Chunks, r \in Slots : ~Created(t, i, d, r)
    BY <1>1, <1>6, Zenon DEF Created
  <2>4. CreatedInOrder(t)'
    BY <1>0, <1>3, <2>2, <2>3, ClosedInOrder, Zenon
  <2>5. reply' = [reply EXCEPT ![t] = keys_values[c][s].data]
    BY <1>3, <1>6, Zenon
  <2> QED
    BY <1>4, <1>5, <2>1, <2>4, <2>5, EraseMaps, Zenon
<1>7. CASE created
  <2>1. Absent(k) /\ OwnsReach(t, k) /\ keys_values' = keys_values
    BY <1>2, <1>3, <1>7, Zenon DEF SlotInv
  <2>2. rmw'[t] = <<>>
    <3>1. PICK q \in Seq(RmwStatuses) : q = rmw[t] /\ i \in 1 .. Len(q) /\ Len(q) = 1
      BY <1>0, <1>3, <1>7, RmwIsSeq, Zenon
    <3>2. rmw'[t] = Without(q, i)
      BY <1>0, <1>3, <3>1, Zenon DEF CloseRmw, TypeOK
    <3>3. Without(q, i) \in Seq(RmwStatuses) /\ Len(Without(q, i)) = Len(q) - 1
      BY <3>1, WithoutIs, Zenon
    <3>4. Len(Without(q, i)) = 0
      BY <3>1, <3>3
    <3> QED
      BY <3>2, <3>3, <3>4
  <2>3. UNCHANGED history
    BY <1>3, Zenon DEF CloseRmw
  <2>4. MapInv'
    BY <1>4, <2>1, <2>2, <2>3, QuietMapKept, Zenon
  <2>5. Absent(k)'
    BY <2>1, Zenon DEF Absent, HasKey
  <2>6. ValueOf(k) = NoValue /\ ValueOf(k)' = NoValue
    BY <2>1, <2>5, NoValueFound, NextNoValueFound, Zenon
  <2>7. \A j \in Keys : ValueOf(j)' = ValueOf(j)
    BY <2>1 DEF ValueOf, SlotOf, HasKey
  <2>8. Alone(t, k)
    <3>1. \A u \in Transactions \ {t} : \A d \in Reach(k) : ~Holds(u, d)
      BY <1>0, <1>1, <2>1, InvIs, SMTT(30) DEF Exclusion, OwnsReach, Holds
    <3> QED
      BY <3>1, MapInvIs, Zenon DEF Alone, Guarded
  <2>9. reply' = [reply EXCEPT ![t] = NoValue]
    BY <1>3, <1>7, Zenon
  <2>10. MapStep
    BY <1>4, <2>6, <2>7, <2>8, <2>9, WriteStep, Zenon
  <2> QED
    BY <2>4, <2>10, Zenon
<1> QED
  BY <1>6, <1>7, Zenon

\* The slot for a write is found or taken: a set goes on to fill it, and a
\* read-modify-write takes effect.
LEMMA SlotReadyMaps ==
    ASSUME IInv, IInv', MapInv, NEW t \in Transactions, Frame(t), LocksKept(t),
           pc[t] \in {"write_search", "write_create"},
           NEW c \in Chunks, NEW s \in Slots, NEW created \in BOOLEAN,
           SlotReady(t, c, s, created), keys_values' = keys_values,
           created => \A r \in Slots : r < s => \/ Used(c, r)
                                                \/ \E j \in DOMAIN rmw[t] : Created(t, j, c, r)
    PROVE  MapInv' /\ MapStep
<1>0. TypeOK /\ WriteInv(t) /\ RmwInv(t) /\ CreatedInOrder(t) /\ OpenClaimed(t)
  BY InvIs, MapInvIs, Zenon
<1>1. PICK l \in Calls, k \in Keys : l = call[t] /\ k = l.key /\ l.op \in {"set", "rmw"}
  BY <1>0, Zenon DEF WriteInv, Writing, TypeOK
<1>2. CASE l.op = "set"
  <2>1. PICK m \in Calls : m = [l EXCEPT !.chunk = c, !.slot = s, !.created = created]
    BY Zenon DEF Calls
  <2>2. m.chunk = c /\ m.slot = s /\ m.created = created
    BY <2>1 DEF Calls
  <2>3. Continue(t, "fill", m) /\ rmw' = rmw /\ UNCHANGED history
    BY <1>1, <1>2, <2>1, Zenon DEF SlotReady, history
  <2>4. pc'[t] = "fill" /\ call'[t] = m /\ reply' = reply
    BY <1>0, <2>3, Zenon DEF Continue, TypeOK
  <2>5. DOMAIN rmw[t] = {}
    BY <1>0, <1>1, <1>2, SMTT(30) DEF RmwInv
  <2>6. call'[t].created => \A r \in Slots : r < call'[t].slot => Used(call'[t].chunk, r)
    BY <2>2, <2>4, <2>5, Zenon
  <2>7. MapInv'
    BY <2>3, <2>4, <2>6, QuietMapKept, Zenon
  <2> QED
    BY <2>3, <2>4, <2>7, StutterIs, Zenon
<1>3. CASE l.op = "rmw"
  <2>1. PICK o \in RmwStatuses : o = [key |-> k, chunk |-> c, slot |-> s, created_new |-> created]
    BY Zenon DEF RmwStatuses
  <2>2. /\ Return(t, IF created THEN NoValue ELSE keys_values[c][s].data) /\ NowClaims(t, k)
        /\ rmw' = [rmw EXCEPT ![t] = Append(@, o)] /\ reads' = reads
    BY <1>1, <1>3, <2>1, Zenon DEF SlotReady
  <2>3. PICK q \in Seq(RmwStatuses), w \in Seq(RmwStatuses), n \in Nat :
          /\ q = rmw[t] /\ w = rmw'[t] /\ n = Len(q) /\ DOMAIN q = 1 .. n /\ DOMAIN w = 1 .. n + 1
          /\ w[n + 1] = o /\ \A i \in 1 .. n : w[i] = q[i]
    <3>1. rmw[t] \in Seq(RmwStatuses) /\ rmw'[t] = Append(rmw[t], o)
      BY <1>0, <2>2, Zenon DEF TypeOK
    <3>2. PICK q \in Seq(RmwStatuses) : q = rmw[t] /\ rmw'[t] = Append(q, o)
      BY <3>1, Zenon
    <3>3. /\ Append(q, o) \in Seq(RmwStatuses) /\ Len(Append(q, o)) = Len(q) + 1
          /\ \A i \in 1 .. Len(q) : Append(q, o)[i] = q[i]
          /\ Append(q, o)[Len(q) + 1] = o
      BY AppendIs
    <3>4. /\ DOMAIN q = 1 .. Len(q) /\ Len(q) \in Nat
          /\ DOMAIN Append(q, o) = 1 .. Len(q) + 1
      BY <3>3, SMTT(30)
    <3> QED
      BY <3>2, <3>3, <3>4, Zenon
  <2>4. SlotInv(t, k, c, s, created)'
    <3>1. n + 1 \in DOMAIN rmw'[t] /\ rmw'[t][n + 1] = o
      BY <2>3
    <3>2. SlotInv(t, o.key, o.chunk, o.slot, o.created_new)'
      BY <3>1, NextInvIs, Zenon DEF RmwSlots
    <3>3. o.key = k /\ o.chunk = c /\ o.slot = s /\ o.created_new = created
      BY <2>1, Zenon
    <3> QED
      BY <3>2, <3>3, Zenon
  <2>5. writer'[c] = t /\ c \in Reach(k)'
    BY <2>4, Zenon DEF SlotInv
  <2>6. /\ created => Absent(k)' /\ Absent(k) /\ OwnsReach(t, k)'
        /\ ~created => HasKey(k, c, s)' /\ HasKey(k, c, s)
    BY <2>4, Zenon DEF SlotInv, Absent, HasKey
  <2>7. Alone(t, k)
    BY <2>5, <2>6, AloneIs, Zenon
  <2>8. reply' = [reply EXCEPT ![t] = ValueOf(k)]
    <3>1. OneSlotPerKey
      BY InvIs, Zenon
    <3>2. (IF created THEN NoValue ELSE keys_values[c][s].data) = ValueOf(k)
      BY <2>6, <3>1, ValueFound, NoValueFound, Zenon
    <3> QED
      BY <2>2, <3>2, Zenon DEF Return
  <2>9. MapStep
    BY <2>2, <2>7, <2>8, ClaimStep, Zenon
  <2>10. UsedGrows /\ SlotsInOrder'
    BY Zenon DEF UsedGrows, SlotsInOrder, Used, MapInv
  <2>11. pc'[t] = "ready" /\ claims'[t] = claims[t] \cup {k}
    BY <1>0, <2>2, Zenon DEF Return, NowClaims, TypeOK
  <2>12. OpenClaimed(t)'
    <3>1. ASSUME NEW i \in 1 .. n + 1 PROVE w[i].key \in claims'[t]
      <4>1. CASE i = n + 1
        BY <2>1, <2>3, <2>11, <4>1
      <4>2. CASE i # n + 1
        <5>1. i \in 1 .. n
          BY <2>3, <4>2, SMTT(30)
        <5> QED
          BY <1>0, <2>3, <2>11, <5>1, Zenon DEF OpenClaimed
      <4> QED
        BY <4>1, <4>2, Zenon
    <3> QED
      BY <2>3, <3>1, Zenon DEF OpenClaimed
  <2>13. CreatedInOrder(t)'
    <3>1. ASSUME NEW i \in 1 .. n + 1, NEW d \in Chunks, NEW x \in Slots, Created(t, i, d, x)',
                 NEW r \in Slots, r < x
          PROVE  UsedOrCreated(t, i, d, r)'
      <4>1. CASE i = n + 1
        <5>1. created /\ d = c /\ x = s
          BY <2>1, <2>3, <3>1, <4>1 DEF Created
        <5>2. CASE Used(c, r)
          BY <2>10, <5>1, <5>2, Zenon DEF UsedOrCreated, UsedGrows
        <5>3. CASE ~Used(c, r)
          <6>1. PICK j \in 1 .. n : Created(t, j, c, r)
            BY <2>3, <3>1, <5>1, <5>3, Zenon
          <6>2. j \in 1 .. n + 1 /\ j < i /\ Created(t, j, c, r)'
            BY <2>3, <4>1, <6>1 DEF Created
          <6> QED
            BY <2>3, <5>1, <6>2, Zenon DEF UsedOrCreated
        <5> QED
          BY <5>2, <5>3, Zenon
      <4>2. CASE i # n + 1
        <5>1. i \in 1 .. n
          BY <2>3, <4>2
        <5>2. Created(t, i, d, x)
          BY <2>3, <3>1, <5>1, Zenon DEF Created
        <5>3. UsedOrCreated(t, i, d, r)
          BY <1>0, <2>3, <3>1, <5>1, <5>2, Zenon DEF CreatedInOrder
        <5>4. CASE Used(d, r)
          BY <2>10, <5>4, Zenon DEF UsedOrCreated, UsedGrows
        <5>5. CASE ~Used(d, r)
          <6>1. PICK j \in 1 .. n : j < i /\ Created(t, j, d, r)
            BY <2>3, <5>3, <5>5, Zenon DEF UsedOrCreated
          <6>2. j \in 1 .. n + 1 /\ Created(t, j, d, r)'
            BY <2>3, <6>1, SMTT(30) DEF Created
          <6> QED
            BY <2>3, <6>1, <6>2, Zenon DEF UsedOrCreated
        <5> QED
          BY <5>4, <5>5, Zenon
      <4> QED
        BY <4>1, <4>2, Zenon
    <3> QED
      BY <2>3, <2>11, <3>1, Zenon DEF CreatedInOrder
  <2>14. Guarded(t, k)' /\ Claimed(t, k)'
    <3>1. \A d \in Chunks, r \in Slots : HasKey(k, d, r)' => d = c
      BY <2>6, NextInvIs DEF Absent, OneSlotPerKey
    <3> QED
      BY <2>5, <3>1, GuardedSlot, Zenon
  <2> QED
    BY <2>2, <2>9, <2>10, <2>11, <2>12, <2>13, <2>14, ClaimKept, Zenon
<1> QED
  BY <1>1, <1>2, <1>3, Zenon

LEMMA WriteSearchMaps ==
    ASSUME SlotSets, IInv, IInv', MapInv, NEW t \in Transactions, Frame(t), WriteSearch(t)
    PROVE  MapInv' /\ MapStep
<1>0. TypeOK /\ TableInv /\ WriteInv(t) /\ pc[t] = "write_search" /\ keys_values' = keys_values
  BY InvIs, Zenon DEF WriteSearch, table
<1>1. PICK k \in Keys, c \in Chunks : k = call[t].key /\ c = call[t].chunk
  BY <1>0, Zenon DEF WriteInv, Writing, TypeOK, Calls
<1>2. LocksKept(t)
  BY <1>0, <1>1, LocksKeptIs, Zenon DEF WriteSearch
<1>3. CASE metadata[c].slots_occupied # 0 /\ SlotsMatching(k, c) # {}
  <2>1. PICK s \in Slots : s = Min(SlotsMatching(k, c))
    BY <1>0, <1>3, MatchedSlot, Zenon
  <2>2. SlotReady(t, c, s, FALSE)
    BY <1>1, <1>3, <2>1, Zenon DEF WriteSearch
  <2> QED
    BY <1>0, <1>2, <2>2, SlotReadyMaps, Zenon
<1>4. CASE ~(metadata[c].slots_occupied # 0 /\ SlotsMatching(k, c) # {})
  <2>1. PICK l : Continue(t, "write_search", l) \/ Continue(t, "write_create", l)
    BY <1>1, <1>4, Zenon DEF WriteSearch
  <2>2. rmw' = rmw /\ UNCHANGED history
    BY <1>1, <1>4, Zenon DEF WriteSearch
  <2>3. pc'[t] \in {"write_search", "write_create"} /\ reply' = reply
    BY <1>0, <2>1, Zenon DEF Continue, TypeOK
  <2>4. MapInv'
    BY <1>0, <1>2, <2>2, <2>3, QuietMapKept, Zenon
  <2> QED
    BY <1>0, <2>2, <2>3, <2>4, StutterIs, Zenon
<1> QED
  BY <1>3, <1>4, Zenon

\* Below the first free slot all slots are used, or were created by t.
LEMMA FirstFreeSlot ==
    ASSUME SlotSets, IInv, NEW t \in Transactions, pc[t] # "fill", NEW c \in Chunks, LockForWrite(t, c),
           FreeSlots(c) # {}, NEW s \in Slots, s = Min(FreeSlots(c)), NEW r \in Slots, r < s
    PROVE  Used(c, r) \/ \E j \in DOMAIN rmw[t] : Created(t, j, c, r)
<1>0. TypeOK /\ Exclusion /\ SlotsSound
  BY InvIs
<1>1. half_hashes[c][r] # NoSlotId
  <2>1. FreeSlots(c) \in SUBSET Slots
    BY DEF FreeSlots
  <2>2. r \notin FreeSlots(c)
    BY <2>1, LeastSlot, ConstantsSound
  <2> QED
    BY <2>2 DEF FreeSlots
<1>2. SUFFICES ASSUME ~Used(c, r) PROVE \E j \in DOMAIN rmw[t] : Created(t, j, c, r)
  OBVIOUS
<1>3. Pending(c, r)
  BY <1>0, <1>1, <1>2, Zenon DEF SlotsSound, SlotSound, Used
<1>4. PICK u \in Transactions : \/ pc[u] = "fill" /\ call[u].created /\ call[u].chunk = c /\ call[u].slot = r
                                \/ r \in CreatedIn(u, c)
  BY <1>3 DEF Pending
<1>5. writer[c] = u
  <2>1. CASE pc[u] = "fill" /\ call[u].chunk = c
    BY <2>1, InvIs, Zenon DEF WriteInv, SlotInv
  <2>2. CASE r \in CreatedIn(u, c)
    <3>1. PICK j \in DOMAIN rmw[u] : rmw[u][j].chunk = c
      BY <2>2, Zenon DEF CreatedIn
    <3> QED
      BY <3>1, InvIs, Zenon DEF RmwSlots, SlotInv
  <2> QED
    BY <1>4, <2>1, <2>2, Zenon
<1>6. u = t
  BY <1>0, <1>5, LockForWriteIs, ZenonT(30) DEF LocksOfOthersStay
<1>7. r \in CreatedIn(t, c)
  BY <1>4, <1>6, Zenon
<1> QED
  BY <1>7, Zenon DEF CreatedIn, Created

LEMMA WriteCreateMaps ==
    ASSUME SlotSets, IInv, IInv', MapInv, NEW t \in Transactions, Frame(t), WriteCreate(t)
    PROVE  MapInv' /\ MapStep
<1>0. TypeOK /\ WriteInv(t) /\ pc[t] = "write_create" /\ keys_values' = keys_values
  BY InvIs, Zenon DEF WriteCreate
<1>1. PICK k \in Keys, c \in Chunks : k = call[t].key /\ c = call[t].chunk
  BY <1>0, Zenon DEF WriteInv, Writing, TypeOK, Calls
<1>2. LockForWrite(t, c) /\ LocksKept(t)
  BY <1>0, <1>1, LocksKeptIs, Zenon DEF WriteCreate
<1>3. CASE FreeSlots(c) # {}
  <2>1. PICK s \in Slots : s = Min(FreeSlots(c))
    <3>1. FreeSlots(c) \in SUBSET Slots
      BY DEF FreeSlots
    <3> QED
      BY <1>3, <3>1, LeastSlot, Zenon
  <2>2. SlotReady(t, c, s, TRUE)
    BY <1>1, <1>3, <2>1, Zenon DEF WriteCreate
  <2>3. \A r \in Slots : r < s => Used(c, r) \/ \E j \in DOMAIN rmw[t] : Created(t, j, c, r)
    BY <1>0, <1>2, <1>3, <2>1, FirstFreeSlot, Zenon
  <2> QED
    BY <1>0, <1>2, <2>2, <2>3, SlotReadyMaps, Zenon
<1>4. CASE FreeSlots(c) = {}
  <2>1. /\ rmw' = rmw /\ UNCHANGED history
        /\ \/ \E l : Continue(t, "write_create", l)
           \/ Return(t, Failed)
    BY <1>1, <1>4, Zenon DEF WriteCreate
  <2>2. CASE Return(t, Failed)
    BY <1>0, <1>2, <2>1, <2>2, QuietReturnMaps, Zenon
  <2>3. ASSUME NEW l, Continue(t, "write_create", l) PROVE MapInv' /\ MapStep
    <3>1. pc'[t] = "write_create" /\ reply' = reply
      BY <1>0, <2>3, Zenon DEF Continue, TypeOK
    <3>2. MapInv'
      BY <1>0, <1>2, <2>1, <3>1, QuietMapKept, Zenon
    <3> QED
      BY <1>0, <2>1, <3>1, <3>2, StutterIs, Zenon
  <2> QED
    BY <2>1, <2>2, <2>3, Zenon
<1> QED
  BY <1>3, <1>4, Zenon

-----------------------------------------------------------------------------
(***************************************************************************)
(* Every step of the hashtable.                                            *)
(***************************************************************************)
LEMMA StepMaps ==
    ASSUME SlotSets, IInv, IInv', MapInv, NEW t \in Transactions, Frame(t), StepOf(t)
    PROVE  MapInv' /\ MapStep
<1>1. CASE Acquire(t) \/ Stuck(t) \/ RmwAbort(t) \/ GetByIndexLocked(t)
  BY <1>1, AcquireMaps, StuckMaps, RmwAbortMaps, GetByIndexLockedMaps, Zenon
<1>2. CASE ReleaseBegin(t) \/ ReleaseEnd(t) \/ \E c \in Chunks : ReleaseChunk(t, c)
  BY <1>2, ReleaseMaps, Zenon
<1>3. CASE SearchHome(t) \/ SearchPeek(t) \/ SearchLock(t) \/ DeleteFound(t)
  BY <1>3, SearchHomeMaps, SearchPeekMaps, SearchLockMaps, DeleteFoundMaps, Zenon
<1>4. CASE WriteSearch(t) \/ WriteCreate(t) \/ SetFill(t)
  BY <1>4, WriteSearchMaps, WriteCreateMaps, SetFillMaps, Zenon
<1>5. ASSUME NEW k \in Keys,
             Get(t, k) \/ Delete(t, k) \/ RmwBegin(t, k) \/ \E v \in Values : Set(t, k, v)
      PROVE  MapInv' /\ MapStep
  BY <1>5, OperationMaps, Zenon
<1>6. ASSUME NEW i \in DOMAIN rmw[t], RmwCommitDelete(t, i) \/ \E v \in Values : RmwCommitUpdate(t, i, v)
      PROVE  MapInv' /\ MapStep
  BY <1>6, RmwCommitDeleteMaps, RmwCommitUpdateMaps, Zenon
<1>7. ASSUME NEW c \in Chunks, NEW s \in Slots, GetByIndex(t, c, s) \/ GetKey(t, c, s)
      PROVE  MapInv' /\ MapStep
  BY <1>7, GetByIndexMaps, GetKeyMaps, Zenon
<1>8. ASSUME NEW c \in Chunks, NEW s \in Slots, NEW k \in Keys, DeleteByIndex(t, c, s, DatabaseOf[k])
      PROVE  MapInv' /\ MapStep
  <2>1. DatabaseOf[k] \in Nat
    BY HashtableAssumption
  <2> QED
    BY <1>8, <2>1, DeleteByIndexMaps, Zenon
<1> QED
  BY <1>1, <1>2, <1>3, <1>4, <1>5, <1>6, <1>7, <1>8, Zenon DEF StepOf
=============================================================================
