-------------------------- MODULE HashtableWrites ---------------------------
(***************************************************************************)
(* The steps that fill, update or free slots keep the invariant: the end   *)
(* of op_set, the commits and the abort of a read-modify-write, the        *)
(* deletes.                                                                *)
(***************************************************************************)
EXTENDS HashtableInvariant

-----------------------------------------------------------------------------
(***************************************************************************)
(* A slot is filled, or its value is replaced.                             *)
(***************************************************************************)
LEMMA FillIs ==
    ASSUME TypeOK, TableInv, NEW t \in Transactions, NEW k \in Keys, NEW c \in Chunks,
           NEW s \in Slots, NEW created \in BOOLEAN, NEW v \in Values, SlotInv(t, k, c, s, created),
           Fill(k, c, s, created, v), half_hashes' = half_hashes, metadata' = metadata,
           writer' = writer, PendingKept(c, s)
    PROVE  /\ keys_values' \in [Chunks -> [Slots -> KeyValues]] /\ OtherSlotsStay(c, s) /\ ReachGrows
           /\ TableInv' /\ OtherChunksStay(t) /\ NewKeysReached(t) /\ OverflowGrows
           /\ \A j \in Keys \ {k} : Absent(j) => Absent(j)'
           /\ \A j \in Keys : Reach(j)' = Reach(j)
<1>0. /\ SlotsSound /\ OneSlotPerKey /\ OccupancyExact /\ OverflowBounded /\ SlotSound(c, s)
      /\ writer[c] = t /\ c \in Reach(k) /\ half_hashes[c][s] = SlotId(k, c)
      /\ keys_values \in [Chunks -> [Slots -> KeyValues]] /\ keys_values[c][s] \in KeyValues
  BY DEF TableInv, SlotsSound, SlotInv, TypeOK
<1>1. PICK kv \in KeyValues :
         /\ keys_values' = [keys_values EXCEPT ![c][s] = kv]
         /\ kv.flags = "FILLED" /\ kv.key = k /\ kv.data = v
  <2>1. CASE created
    <3>1. /\ keys_values' = [keys_values EXCEPT ![c][s] =
                [flags |-> "FILLED", database_number |-> DatabaseOf[k], key |-> k, data |-> v]]
      BY <2>1, Zenon DEF Fill
    <3>2. [flags |-> "FILLED", database_number |-> DatabaseOf[k], key |-> k, data |-> v] \in KeyValues
      BY HashtableAssumption DEF KeyValues
    <3> QED
      BY <3>1, <3>2, Zenon
  <2>2. CASE ~created
    <3>1. keys_values' = [keys_values EXCEPT ![c][s] = [keys_values[c][s] EXCEPT !.data = v]]
      BY <1>0, <2>2, Zenon DEF Fill
    <3>2. PICK kv \in KeyValues : kv = [keys_values[c][s] EXCEPT !.data = v]
      BY <1>0, Zenon DEF KeyValues
    <3>3. kv.flags = "FILLED" /\ kv.key = k /\ kv.data = v
      BY <1>0, <2>2, <3>2, Zenon DEF SlotInv, HasKey, KeyValues
    <3> QED
      BY <3>1, <3>2, <3>3, Zenon
  <2> QED
    BY <2>1, <2>2, Zenon
<1>2. /\ keys_values' \in [Chunks -> [Slots -> KeyValues]] /\ keys_values'[c][s] = kv
      /\ \A d \in Chunks, r \in Slots : d # c \/ r # s => keys_values'[d][r] = keys_values[d][r]
      /\ \A d \in Chunks : d # c => keys_values'[d] = keys_values[d]
  BY <1>0, <1>1, Zenon
<1>3. OtherSlotsStay(c, s)
  BY <1>2, Zenon DEF OtherSlotsStay
<1>4. ReachGrows /\ \A j \in Keys : Reach(j)' = Reach(j)
  BY Zenon DEF ReachGrows, Reach, SearchLimit
<1>5. SlotSound(c, s)'
  <2>1. half_hashes'[c][s] = SlotId(k, c) /\ c \in Reach(k)'
    BY <1>0, <1>4, Zenon
  <2>2. half_hashes'[c][s] = SlotId(keys_values[c][s].key, c)' /\ c \in Reach(keys_values[c][s].key)'
    BY <1>1, <1>2, <2>1, Zenon DEF SlotId, Reach, SearchLimit
  <2> QED
    BY <1>1, <1>2, <2>2, Zenon DEF SlotSound
<1>6. SlotsSound'
  BY <1>0, <1>3, <1>4, <1>5, OtherSlotsSound, Zenon
<1>7. \A j \in Keys, d \in Chunks, r \in Slots :
         HasKey(j, d, r)' => HasKey(j, d, r) \/ (j = k /\ d = c /\ r = s)
  BY <1>1, <1>2, Zenon DEF HasKey
<1>8. (\A d \in Chunks, r \in Slots : HasKey(k, d, r) => d = c /\ r = s)
  <2>1. CASE created
    BY <2>1, Zenon DEF SlotInv, Absent
  <2>2. CASE ~created
    BY <1>0, <2>2, Zenon DEF SlotInv, OneSlotPerKey
  <2> QED
    BY <2>1, <2>2, Zenon
<1>9. OneSlotPerKey'
  BY <1>0, <1>7, <1>8 DEF OneSlotPerKey
<1>10. OccupancyExact' /\ OverflowBounded'
  BY <1>0, Zenon DEF OccupancyExact, OverflowBounded, FreeSlots
<1>11. OtherChunksStay(t)
  BY <1>0, <1>2, Zenon DEF OtherChunksStay
<1>12. NewKeysReached(t)
  <2>1. SUFFICES ASSUME created PROVE OwnsReach(t, k)'
    <3>1. ~created => HasKey(k, c, s)
      BY Zenon DEF SlotInv
    <3> QED
      BY <1>7, <3>1, Zenon DEF NewKeysReached
  <2>2. OwnsReach(t, k)
    BY <2>1, Zenon DEF SlotInv
  <2> QED
    BY <1>4, <2>2, Zenon DEF OwnsReach
<1>13. OverflowGrows
  <2>1. \A d \in Chunks : metadata[d] \in Metadata
    BY DEF TypeOK
  <2> QED
    BY <2>1 DEF OverflowGrows, Metadata
<1>14. \A j \in Keys \ {k} : Absent(j) => Absent(j)'
  BY <1>7 DEF Absent
<1> QED
  BY <1>2, <1>3, <1>4, <1>6, <1>9, <1>10, <1>11, <1>12, <1>13, <1>14, Zenon DEF TableInv

LEMMA SetFillKeeps == ASSUME IInv, NEW t \in Transactions, SetFill(t) PROVE IInv' /\ Frame(t)
<1>0. /\ TypeOK /\ Exclusion /\ TableInv /\ ReadsBounded(t) /\ WriteInv(t) /\ RmwInv(t)
      /\ pc[t] = "fill"
  BY Zenon DEF IInv, TxInv, SetFill
<1>1. PICK l \in Calls : l = call[t] /\ l.chunk \in Chunks /\ l.slot \in Slots /\ l.created \in BOOLEAN
  BY <1>0, Zenon DEF TypeOK, Calls
<1>2. /\ l.key \in Keys /\ l.op = "set" /\ l.value \in Values
      /\ SlotInv(t, l.key, l.chunk, l.slot, l.created) /\ rmw[t] = <<>>
  BY <1>0, <1>1, Zenon DEF WriteInv, Writing, RmwInv
<1>3. /\ Fill(l.key, l.chunk, l.slot, l.created, l.value) /\ half_hashes' = half_hashes
      /\ metadata' = metadata /\ readers' = readers /\ writer' = writer /\ rmw' = rmw
      /\ indexed' = indexed /\ ops' = ops /\ reads' = reads
      /\ claims' = [claims EXCEPT ![t] = @ \cup {l.key}]
  BY <1>1, Zenon DEF SetFill, NowClaims, locks
<1>4. PICK r \in Replies : Return(t, r)
  <2>1. keys_values[l.chunk][l.slot] \in KeyValues
    BY <1>0, <1>1, ZenonT(30) DEF TypeOK
  <2>2. Return(t, IF l.created THEN NoValue ELSE keys_values[l.chunk][l.slot].data)
    BY <1>1 DEF SetFill
  <2> QED
    BY <2>1, <2>2, Zenon DEF KeyValues, Replies
<1>5. /\ pc' \in [Transactions -> PCs] /\ call' \in [Transactions -> Calls]
      /\ reply' \in [Transactions -> Replies] /\ pc'[t] = "ready" /\ call'[t] = NoCall
      /\ \A u \in Transactions \ {t} : pc'[u] = pc[u] /\ call'[u] = call[u]
  BY <1>0, <1>4, ReturnIs, Zenon
<1>6. OwnVariables(t) /\ OthersStay(t)
  BY <1>0, <1>2, <1>3, <1>5, Zenon DEF OwnVariables, TypeOK, OthersStay
<1>7. LockStep(t)
  BY <1>0, <1>1, <1>3, LockStepIs, Zenon DEF locks
<1>8. PendingKept(l.chunk, l.slot)
  <2>1. \A d \in Chunks : CreatedIn(t, d) = {}
    BY <1>2, NoneOpen, Zenon
  <2> QED
    BY <1>1, <1>6, <2>1, PendingKeptIs, Zenon
<1>9. /\ keys_values' \in [Chunks -> [Slots -> KeyValues]]
      /\ TableInv' /\ OtherChunksStay(t) /\ NewKeysReached(t) /\ OverflowGrows
  BY <1>0, <1>1, <1>2, <1>3, <1>8, FillIs, ZenonT(30)
<1>10. \A d \in Chunks : readers'[d][t] <= ops'[t]
  BY <1>0, <1>3, Zenon DEF ReadsBounded
<1>11. TypeOK'
  <2>1. half_hashes' \in [Chunks -> [Slots -> SlotIds]] /\ metadata' \in [Chunks -> Metadata]
    BY <1>0, <1>3, Zenon DEF TypeOK
  <2> QED
    BY <1>0, <1>5, <1>6, <1>7, <1>9, <1>10, <2>1, StepTypes, Zenon
<1>12. ReadsBounded(t)'
  BY <1>5, <1>10, Zenon DEF ReadsBounded, Reading
<1>13. TxInv(t)'
  <2>1. RmwSlots(t)'
    BY <1>2, <1>3 DEF RmwSlots
  <2> QED
    BY <1>5, <2>1, ReadyKnows, Zenon
<1>14. Frame(t) /\ Exclusion'
  BY <1>6, <1>7, <1>9, Zenon DEF Frame, LockStep
<1> QED
  BY <1>9, <1>11, <1>12, <1>13, <1>14, TableStep, Zenon

\* The read-modify-writes that stay open when the i-th one is closed.
OtherOpenHold(t, i) ==
    \A j \in DOMAIN rmw[t] \ {i} : \A o \in {rmw[t][j]} :
        SlotInv(t, o.key, o.chunk, o.slot, o.created_new)'

LEMMA ClosedSlots ==
    ASSUME TypeOK, NEW t \in Transactions, NEW i \in DOMAIN rmw[t], RmwSlots(t), CloseRmw(t, i),
           OtherOpenHold(t, i)
    PROVE  RmwSlots(t)'
<1>0. PICK q \in Seq(RmwStatuses) :
         q = rmw[t] /\ Len(q) \in Nat /\ DOMAIN q = 1 .. Len(q) /\ i \in 1 .. Len(q)
  BY RmwIsSeq, Zenon
<1>1. PICK p \in Seq(RmwStatuses) : p = Without(q, i) /\ rmw'[t] = p
  BY <1>0, WithoutIs, Zenon DEF CloseRmw, TypeOK
<1>2. /\ DOMAIN p = 1 .. Len(q) - 1
      /\ \A j \in 1 .. Len(q) - 1 : p[j] = IF j < i THEN q[j] ELSE q[j + 1]
  <2>1. Len(p) = Len(q) - 1 /\ DOMAIN p = 1 .. Len(p)
    BY <1>0, <1>1, WithoutIs
  <2> QED
    BY <1>0, <1>1, <2>1, WithoutIs, ZenonT(30)
<1>3. ASSUME NEW j \in DOMAIN p
      PROVE  \E m \in DOMAIN q \ {i} : p[j] = q[m] /\ m = IF j < i THEN j ELSE j + 1
  <2>1. CASE j < i
    <3>1. j \in DOMAIN q \ {i}
      BY <1>0, <1>2, <2>1
    <3> QED
      BY <1>2, <2>1, <3>1, Zenon
  <2>2. CASE ~(j < i)
    <3>1. j + 1 \in DOMAIN q \ {i}
      BY <1>0, <1>2, <2>2
    <3> QED
      BY <1>2, <2>2, <3>1, Zenon
  <2> QED
    BY <2>1, <2>2, Zenon
<1>4. ASSUME NEW j \in DOMAIN p
      PROVE  SlotInv(t, p[j].key, p[j].chunk, p[j].slot, p[j].created_new)'
  <2>1. PICK m \in DOMAIN q \ {i} : p[j] = q[m]
    BY <1>3, Zenon
  <2>2. PICK o \in {rmw[t][m]} : o = p[j]
    BY <1>0, <2>1, Zenon
  <2>3. SlotInv(t, o.key, o.chunk, o.slot, o.created_new)'
    BY <1>0, <2>1, Zenon DEF OtherOpenHold
  <2> QED
    BY <2>2, <2>3, Zenon
<1>5. ASSUME NEW j \in DOMAIN p, NEW n \in DOMAIN p, j # n PROVE Distinct(p[j], p[n])
  <2>1. PICK a \in DOMAIN q : p[j] = q[a] /\ a = IF j < i THEN j ELSE j + 1
    BY <1>3, Zenon
  <2>2. PICK b \in DOMAIN q : p[n] = q[b] /\ b = IF n < i THEN n ELSE n + 1
    BY <1>3, Zenon
  <2>3. a # b
    BY <1>0, <1>2, <1>5, <2>1, <2>2
  <2>4. Distinct(q[a], q[b])
    BY <1>0, <2>3 DEF RmwSlots
  <2> QED
    BY <2>1, <2>2, <2>4, Zenon
<1> QED
  BY <1>1, <1>4, <1>5, Zenon DEF RmwSlots

LEMMA ClosedCreated ==
    ASSUME TypeOK, NEW t \in Transactions, NEW i \in DOMAIN rmw[t], CloseRmw(t, i),
           NEW d \in Chunks, NEW r \in CreatedIn(t, d)
    PROVE  (d = rmw[t][i].chunk /\ r = rmw[t][i].slot) \/ r \in CreatedIn(t, d)'
<1>0. PICK q \in Seq(RmwStatuses) :
         q = rmw[t] /\ Len(q) \in Nat /\ DOMAIN q = 1 .. Len(q) /\ i \in 1 .. Len(q)
  BY RmwIsSeq, Zenon
<1>1. PICK p \in Seq(RmwStatuses) : p = Without(q, i) /\ rmw'[t] = p
  BY <1>0, WithoutIs, Zenon DEF CloseRmw, TypeOK
<1>2. /\ DOMAIN p = 1 .. Len(q) - 1
      /\ \A j \in 1 .. Len(q) - 1 : p[j] = IF j < i THEN q[j] ELSE q[j + 1]
  <2>1. Len(p) = Len(q) - 1 /\ DOMAIN p = 1 .. Len(p)
    BY <1>0, <1>1, WithoutIs
  <2> QED
    BY <1>0, <1>1, <2>1, WithoutIs, ZenonT(30)
<1>3. PICK j \in DOMAIN q : q[j].created_new /\ q[j].chunk = d /\ q[j].slot = r
  BY <1>0, Zenon DEF CreatedIn
<1>4. CASE j = i
  BY <1>0, <1>3, <1>4, Zenon
<1>5. CASE j # i
  <2>1. PICK m \in DOMAIN p : p[m] = q[j]
    <3>1. CASE j < i
      BY <1>0, <1>2, <3>1
    <3>2. CASE j > i
      <4>1. j - 1 \in DOMAIN p /\ ~(j - 1 < i) /\ (j - 1) + 1 = j
        BY <1>0, <1>2, <3>2
      <4> QED
        BY <1>2, <4>1
    <3> QED
      BY <1>0, <1>5, <3>1, <3>2
  <2> QED
    BY <1>1, <1>3, <2>1, Zenon DEF CreatedIn
<1> QED
  BY <1>4, <1>5, Zenon

\* What a commit does beside the table.
LEMMA CloseKnows ==
    ASSUME IInv, NEW t \in Transactions, NEW i \in DOMAIN rmw[t], CloseRmw(t, i)
    PROVE  OthersStay(t) /\ PendingKept(rmw[t][i].chunk, rmw[t][i].slot) /\ LockStep(t)
<1>0. TypeOK /\ Exclusion /\ pc[t] = "ready"
  BY DEF IInv, CloseRmw
<1>1. /\ readers' = readers /\ writer' = writer /\ pc' = pc /\ ops' = ops /\ call' = call
      /\ \A u \in Transactions \ {t} : rmw'[u] = rmw[u]
  BY <1>0 DEF CloseRmw, locks, TypeOK
<1>2. OthersStay(t)
  BY <1>1 DEF OthersStay
<1>3. rmw[t][i].chunk \in Chunks /\ rmw[t][i].slot \in Slots
  BY <1>0, RmwIsSeq, Zenon
<1>4. PendingKept(rmw[t][i].chunk, rmw[t][i].slot)
  BY <1>0, <1>2, <1>3, ClosedCreated, PendingKeptIs, ZenonT(30)
<1>5. LockStep(t)
  BY <1>0, <1>1, <1>3, LockStepIs, Zenon DEF locks
<1> QED
  BY <1>2, <1>4, <1>5, Zenon

LEMMA CloseStep ==
    ASSUME IInv, NEW t \in Transactions, NEW i \in DOMAIN rmw[t], CloseRmw(t, i),
           NEW v \in Replies, reply' = [reply EXCEPT ![t] = v],
           half_hashes' \in [Chunks -> [Slots -> SlotIds]], metadata' \in [Chunks -> Metadata],
           keys_values' \in [Chunks -> [Slots -> KeyValues]],
           TableInv', OtherChunksStay(t), NewKeysReached(t), OverflowGrows, OtherOpenHold(t, i)
    PROVE  IInv' /\ Frame(t)
<1>0. TypeOK /\ Exclusion /\ ReadsBounded(t) /\ RmwInv(t) /\ RmwSlots(t) /\ pc[t] = "ready"
  BY Zenon DEF IInv, CloseRmw, TxInv, RmwInv
<1>1. /\ readers' = readers /\ writer' = writer /\ pc' = pc /\ ops' = ops /\ call' = call
      /\ indexed' = indexed /\ reads' = reads /\ claims' = claims
  BY DEF CloseRmw, locks, history
<1>2. OthersStay(t) /\ LockStep(t)
  BY CloseKnows, Zenon
<1>3. rmw' \in [Transactions -> Seq(RmwStatuses)]
  <2>1. Without(rmw[t], i) \in Seq(RmwStatuses)
    BY <1>0, RmwIsSeq, WithoutIs, Zenon
  <2> QED
    BY <1>0, <2>1, Zenon DEF CloseRmw, TypeOK
<1>4. OwnVariables(t)
  BY <1>0, <1>1, <1>2, <1>3, Zenon DEF OwnVariables, TypeOK, OthersStay
<1>5. TypeOK'
  <2>1. \A c \in Chunks : readers'[c][t] <= ops'[t]
    BY <1>0, <1>1, Zenon DEF ReadsBounded
  <2>2. /\ pc' \in [Transactions -> PCs] /\ call' \in [Transactions -> Calls]
        /\ reply' \in [Transactions -> Replies]
    BY <1>0, <1>1, Zenon DEF TypeOK, Replies
  <2> QED
    BY <1>0, <1>2, <1>4, <2>1, <2>2, StepTypes, Zenon
<1>6. ReadsBounded(t)'
  BY <1>0, <1>1, Zenon DEF ReadsBounded, Reading
<1>7. RmwSlots(t)'
  BY <1>0, ClosedSlots, Zenon
<1>8. TxInv(t)'
  <2>1. rmw[t] # <<>>
    OBVIOUS
  <2>2. call'[t].op \notin {"delete", "set"} /\ pc'[t] = "ready"
    BY <1>0, <1>1, <2>1, Zenon DEF RmwInv
  <2> QED
    BY <1>7, <2>2, Zenon DEF TxInv, SearchInv, WriteInv, RmwInv, Searching, Writing
<1>9. Frame(t) /\ Exclusion'
  BY <1>2 DEF Frame, LockStep
<1> QED
  BY <1>5, <1>6, <1>8, <1>9, TableStep, Zenon

LEMMA CurrentIs ==
    ASSUME TypeOK, NEW o \in RmwStatuses PROVE Current(o) \in Replies
<1>1. keys_values[o.chunk][o.slot] \in KeyValues
  BY DEF TypeOK, RmwStatuses
<1> QED
  BY <1>1, Zenon DEF Current, KeyValues, Replies

LEMMA OtherOpenIs ==
    ASSUME TypeOK, OverflowBounded, NEW t \in Transactions, RmwSlots(t), writer' = writer,
           NEW i \in DOMAIN rmw[t], OtherSlotsStay(rmw[t][i].chunk, rmw[t][i].slot), ReachGrows,
           \A k \in Keys \ {rmw[t][i].key} : Absent(k) => Absent(k)',
           \A k \in Keys : Reach(k)' = Reach(k)
    PROVE  OtherOpenHold(t, i)
<1>1. PICK o \in RmwStatuses : o = rmw[t][i]
  BY RmwIsSeq, Zenon
<1>2. SUFFICES ASSUME NEW j \in DOMAIN rmw[t] \ {i}, NEW p \in {rmw[t][j]}
               PROVE  SlotInv(t, p.key, p.chunk, p.slot, p.created_new)'
  BY Zenon DEF OtherOpenHold
<1>3. /\ p.key \in Keys /\ p.chunk \in Chunks /\ p.slot \in Slots /\ p.created_new \in BOOLEAN
      /\ SlotInv(t, p.key, p.chunk, p.slot, p.created_new) /\ Distinct(p, o)
  BY <1>1, RmwIsSeq, Zenon DEF RmwSlots
<1>4. /\ half_hashes'[p.chunk][p.slot] = half_hashes[p.chunk][p.slot]
      /\ keys_values'[p.chunk][p.slot] = keys_values[p.chunk][p.slot]
      /\ Absent(p.key) => Absent(p.key)'
  BY <1>1, <1>3, Zenon DEF Distinct, OtherSlotsStay
<1>5. Reach(p.key)' = Reach(p.key) /\ Reach(p.key) \subseteq Chunks
  BY <1>3, ReachSound
<1> QED
  BY <1>3, <1>4, <1>5, OwnSlotStays, Zenon

LEMMA RmwCommitUpdateKeeps ==
    ASSUME IInv, NEW t \in Transactions, NEW i \in DOMAIN rmw[t], NEW v \in Values,
           RmwCommitUpdate(t, i, v)
    PROVE  IInv' /\ Frame(t)
<1>0. TypeOK /\ TableInv /\ OverflowBounded /\ RmwSlots(t)
  BY DEF IInv, TxInv, RmwInv, TableInv
<1>1. PICK o \in RmwStatuses :
         /\ o = rmw[t][i] /\ o.key \in Keys /\ o.chunk \in Chunks /\ o.slot \in Slots
         /\ o.created_new \in BOOLEAN
  BY <1>0, RmwIsSeq, Zenon
<1>2. /\ CloseRmw(t, i) /\ Fill(o.key, o.chunk, o.slot, o.created_new, v)
      /\ reply' = [reply EXCEPT ![t] = Current(o)]
      /\ half_hashes' = half_hashes /\ metadata' = metadata /\ writer' = writer
  BY <1>1, Zenon DEF RmwCommitUpdate, CloseRmw, locks
<1>3. PendingKept(o.chunk, o.slot)
  BY <1>1, <1>2, CloseKnows, Zenon
<1>4. SlotInv(t, o.key, o.chunk, o.slot, o.created_new)
  BY <1>0, <1>1, Zenon DEF RmwSlots
<1>5. /\ keys_values' \in [Chunks -> [Slots -> KeyValues]] /\ OtherSlotsStay(o.chunk, o.slot)
      /\ ReachGrows /\ TableInv' /\ OtherChunksStay(t) /\ NewKeysReached(t) /\ OverflowGrows
      /\ \A j \in Keys \ {o.key} : Absent(j) => Absent(j)'
      /\ \A j \in Keys : Reach(j)' = Reach(j)
  BY <1>0, <1>1, <1>2, <1>3, <1>4, FillIs, Zenon
<1>6. OtherOpenHold(t, i)
  BY <1>0, <1>1, <1>2, <1>5, OtherOpenIs, Zenon
<1>7. Current(o) \in Replies
  BY <1>0, CurrentIs, Zenon
<1>8. half_hashes' \in [Chunks -> [Slots -> SlotIds]] /\ metadata' \in [Chunks -> Metadata]
  BY <1>0, <1>2, Zenon DEF TypeOK
<1> QED
  BY <1>2, <1>5, <1>6, <1>7, <1>8, CloseStep, Zenon

LEMMA FreedCount ==
    ASSUME SlotSets, NEW c \in Chunks, NEW s \in Slots, half_hashes[c][s] # NoSlotId,
           half_hashes'[c][s] = NoSlotId,
           \A r \in Slots \ {s} : half_hashes'[c][r] = half_hashes[c][r]
    PROVE  /\ Cardinality(Slots \ FreeSlots(c)') = Cardinality(Slots \ FreeSlots(c)) - 1
           /\ Cardinality(Slots \ FreeSlots(c)) \in Nat \ {0}
<1>1. s \in Slots \ FreeSlots(c) /\ Slots \ FreeSlots(c)' = (Slots \ FreeSlots(c)) \ {s}
  BY DEF FreeSlots
<1>2. SlotSet(Slots \ FreeSlots(c))
  BY DEF SlotSets
<1>3. Cardinality((Slots \ FreeSlots(c)) \ {s}) = Cardinality(Slots \ FreeSlots(c)) - 1
  BY <1>1, <1>2, Zenon DEF SlotSet
<1>4. Cardinality(Slots \ FreeSlots(c)) \in Nat \ {0}
  BY <1>1, <1>2, ConstantsSound DEF SlotSet
<1> QED
  BY <1>1, <1>3, <1>4, Zenon

LEMMA FreeSlotIs ==
    ASSUME SlotSets, TypeOK, OccupancyExact, NEW c \in Chunks, NEW s \in Slots, half_hashes[c][s] # NoSlotId,
           FreeSlot(c, s)
    PROVE  /\ half_hashes' \in [Chunks -> [Slots -> SlotIds]] /\ metadata' \in [Chunks -> Metadata]
           /\ half_hashes'[c][s] = NoSlotId
           /\ \A d \in Chunks, r \in Slots : d # c \/ r # s => half_hashes'[d][r] = half_hashes[d][r]
           /\ \A d \in Chunks : d # c => half_hashes'[d] = half_hashes[d] /\ metadata'[d] = metadata[d]
           /\ \A d \in Chunks : metadata'[d].overflowed_chunks_counter
                                    = metadata[d].overflowed_chunks_counter
           /\ OccupancyExact'
<1>0. /\ half_hashes \in [Chunks -> [Slots -> SlotIds]] /\ metadata \in [Chunks -> Metadata]
      /\ metadata[c] \in Metadata
  BY DEF TypeOK
<1>1. half_hashes' = [half_hashes EXCEPT ![c][s] = NoSlotId]
  BY DEF FreeSlot
<1>2. /\ half_hashes' \in [Chunks -> [Slots -> SlotIds]] /\ half_hashes'[c][s] = NoSlotId
      /\ \A d \in Chunks, r \in Slots : d # c \/ r # s => half_hashes'[d][r] = half_hashes[d][r]
      /\ \A d \in Chunks : d # c => half_hashes'[d] = half_hashes[d]
  BY <1>0, <1>1, NoSlotIdSound, Zenon
<1>3. PICK n \in 1 .. 127 : n = metadata[c].slots_occupied /\ n = Cardinality(Slots \ FreeSlots(c))
      /\ Cardinality(Slots \ FreeSlots(c)') = n - 1
  <2>1. /\ Cardinality(Slots \ FreeSlots(c)') = Cardinality(Slots \ FreeSlots(c)) - 1
        /\ Cardinality(Slots \ FreeSlots(c)) \in Nat \ {0}
    BY <1>2, FreedCount, Zenon
  <2>2. metadata[c].slots_occupied = Cardinality(Slots \ FreeSlots(c))
        /\ metadata[c].slots_occupied \in 0 .. 127
    BY MetadataIs, ZenonT(30) DEF OccupancyExact
  <2> QED
    BY <2>1, <2>2
<1>4. (n - 1) % 128 = n - 1
  OBVIOUS
<1>5. PICK m \in Metadata :
         /\ metadata' = [metadata EXCEPT ![c] = m]
         /\ m = [metadata[c] EXCEPT !.slots_occupied = n - 1, !.is_full = FALSE]
  <2>1. metadata' = [metadata EXCEPT ![c] =
                        [metadata[c] EXCEPT !.slots_occupied = n - 1, !.is_full = FALSE]]
    <3>1. metadata' = [metadata EXCEPT ![c] =
              [metadata[c] EXCEPT !.slots_occupied = (metadata[c].slots_occupied - 1) % 128,
                                  !.is_full = FALSE]]
      BY <1>0, Zenon DEF FreeSlot
    <3>2. (metadata[c].slots_occupied - 1) % 128 = n - 1
      BY <1>3, <1>4
    <3> QED
      BY <3>1, <3>2, Zenon
  <2>2. [metadata[c] EXCEPT !.slots_occupied = n - 1, !.is_full = FALSE] \in Metadata
    <3>1. n - 1 \in 0 .. 127
      OBVIOUS
    <3> QED
      BY <1>0, <3>1, MetadataWith, Zenon
  <2> QED
    BY <2>1, <2>2, Zenon
<1>6. /\ m.slots_occupied = n - 1 /\ m.is_full = FALSE
      /\ m.overflowed_chunks_counter = metadata[c].overflowed_chunks_counter
  BY <1>0, <1>5, Zenon DEF Metadata
<1>7. /\ metadata' \in [Chunks -> Metadata] /\ metadata'[c] = m
      /\ \A d \in Chunks : d # c => metadata'[d] = metadata[d]
  BY <1>0, <1>5
<1>8. OccupancyExact'
  <2>1. \A d \in Chunks : d # c => FreeSlots(d)' = FreeSlots(d)
    BY <1>2, Zenon DEF FreeSlots
  <2>2. \A d \in Chunks : d # c => metadata'[d].slots_occupied = Cardinality(Slots \ FreeSlots(d)')
    BY <1>7, <2>1, Zenon DEF OccupancyExact
  <2>3. metadata'[c].slots_occupied = Cardinality(Slots \ FreeSlots(c)') /\ ~metadata'[c].is_full
    BY <1>3, <1>6, <1>7, Zenon
  <2>4. \A d \in Chunks : d # c => (metadata'[d].is_full => FreeSlots(d)' = {})
    BY <1>7, <2>1, Zenon DEF OccupancyExact
  <2> QED
    BY <2>2, <2>3, <2>4, Zenon DEF OccupancyExact
<1> QED
  BY <1>2, <1>6, <1>7, <1>8, Zenon

\* The key of the slot, if it has one, is erased with it.
KeyErased(c, s) ==
    \/ keys_values[c][s].flags = "FILLED" /\ EraseKey(c, s)
    \/ keys_values[c][s].flags # "FILLED" /\ keys_values' = keys_values

LEMMA FreeIs ==
    ASSUME SlotSets, TypeOK, TableInv, NEW t \in Transactions, NEW c \in Chunks, NEW s \in Slots,
           writer'[c] = t, half_hashes[c][s] # NoSlotId, FreeSlot(c, s), KeyErased(c, s),
           PendingKept(c, s)
    PROVE  /\ half_hashes' \in [Chunks -> [Slots -> SlotIds]] /\ metadata' \in [Chunks -> Metadata]
           /\ keys_values' \in [Chunks -> [Slots -> KeyValues]] /\ OtherSlotsStay(c, s) /\ ReachGrows
           /\ TableInv' /\ OtherChunksStay(t) /\ NewKeysReached(t) /\ OverflowGrows
           /\ \A k \in Keys : Absent(k) => Absent(k)'
           /\ \A k \in Keys : Reach(k)' = Reach(k)
<1>0. /\ SlotsSound /\ OneSlotPerKey /\ OccupancyExact /\ OverflowBounded /\ SlotSound(c, s)
      /\ keys_values \in [Chunks -> [Slots -> KeyValues]] /\ keys_values[c][s] \in KeyValues
  BY DEF TableInv, SlotsSound, TypeOK
<1>1. /\ half_hashes' \in [Chunks -> [Slots -> SlotIds]] /\ metadata' \in [Chunks -> Metadata]
      /\ half_hashes'[c][s] = NoSlotId
      /\ \A d \in Chunks, r \in Slots : d # c \/ r # s => half_hashes'[d][r] = half_hashes[d][r]
      /\ \A d \in Chunks : d # c => half_hashes'[d] = half_hashes[d] /\ metadata'[d] = metadata[d]
      /\ \A d \in Chunks : metadata'[d].overflowed_chunks_counter
                               = metadata[d].overflowed_chunks_counter
      /\ OccupancyExact'
  BY <1>0, FreeSlotIs, Zenon
<1>2. PICK kv \in KeyValues :
         /\ keys_values' = [keys_values EXCEPT ![c][s] = kv] /\ kv.flags # "FILLED" /\ kv.key = NoKey
  <2>1. CASE keys_values[c][s].flags = "FILLED" /\ EraseKey(c, s)
    <3>1. PICK kv \in KeyValues :
             kv = [keys_values[c][s] EXCEPT !.flags = "DELETED", !.database_number = 0, !.key = NoKey]
      BY <1>0, Zenon DEF KeyValues
    <3>2. keys_values' = [keys_values EXCEPT ![c][s] = kv]
      BY <1>0, <2>1, <3>1, Zenon DEF EraseKey
    <3>3. kv.flags = "DELETED" /\ kv.key = NoKey
      BY <1>0, <3>1, Zenon DEF KeyValues
    <3> QED
      BY <3>2, <3>3, Zenon
  <2>2. CASE keys_values[c][s].flags # "FILLED" /\ keys_values' = keys_values
    <3>1. keys_values[c][s].key = NoKey
      BY <1>0, <2>2, Zenon DEF SlotSound
    <3>2. keys_values' = [keys_values EXCEPT ![c][s] = keys_values[c][s]]
      BY <1>0, <2>2, Zenon
    <3> QED
      BY <1>0, <2>2, <3>1, <3>2, Zenon
  <2> QED
    BY <2>1, <2>2 DEF KeyErased
<1>3. /\ keys_values' \in [Chunks -> [Slots -> KeyValues]] /\ keys_values'[c][s] = kv
      /\ \A d \in Chunks, r \in Slots : d # c \/ r # s => keys_values'[d][r] = keys_values[d][r]
      /\ \A d \in Chunks : d # c => keys_values'[d] = keys_values[d]
  BY <1>0, <1>2, Zenon
<1>4. OtherSlotsStay(c, s) /\ OtherChunksStay(t)
  BY <1>1, <1>3, Zenon DEF OtherSlotsStay, OtherChunksStay
<1>5. \A k \in Keys : Reach(k)' = Reach(k)
  BY <1>1, ConstantsSound, Zenon DEF Reach, SearchLimit
<1>6. ReachGrows
  BY <1>5, Zenon DEF ReachGrows
<1>7. SlotSound(c, s)'
  BY <1>1, <1>2, <1>3, Zenon DEF SlotSound
<1>8. SlotsSound'
  BY <1>0, <1>4, <1>6, <1>7, OtherSlotsSound, Zenon
<1>9. \A k \in Keys, d \in Chunks, r \in Slots : HasKey(k, d, r)' => HasKey(k, d, r)
  BY <1>2, <1>3, Zenon DEF HasKey
<1>10. OneSlotPerKey' /\ NewKeysReached(t) /\ \A k \in Keys : Absent(k) => Absent(k)'
  BY <1>0, <1>9 DEF OneSlotPerKey, NewKeysReached, Absent
<1>11. OverflowBounded'
  BY <1>0, <1>1, Zenon DEF OverflowBounded
<1>12. OverflowGrows
  <2>1. \A d \in Chunks : metadata[d].overflowed_chunks_counter \in Int
    BY MetadataIs
  <2> QED
    BY <1>1, <2>1 DEF OverflowGrows
<1> QED
  BY <1>1, <1>3, <1>4, <1>5, <1>6, <1>8, <1>10, <1>11, <1>12, Zenon DEF TableInv

LEMMA RmwCommitDeleteKeeps ==
    ASSUME SlotSets, IInv, NEW t \in Transactions, NEW i \in DOMAIN rmw[t], RmwCommitDelete(t, i)
    PROVE  IInv' /\ Frame(t)
<1>0. TypeOK /\ TableInv /\ OverflowBounded /\ RmwSlots(t)
  BY DEF IInv, TxInv, RmwInv, TableInv
<1>1. PICK o \in RmwStatuses :
         /\ o = rmw[t][i] /\ o.key \in Keys /\ o.chunk \in Chunks /\ o.slot \in Slots
         /\ o.created_new \in BOOLEAN
  BY <1>0, RmwIsSeq, Zenon
<1>2. /\ CloseRmw(t, i) /\ FreeSlot(o.chunk, o.slot) /\ reply' = [reply EXCEPT ![t] = Current(o)]
      /\ writer' = writer
      /\ IF o.created_new THEN keys_values' = keys_values ELSE EraseKey(o.chunk, o.slot)
  BY <1>1, Zenon DEF RmwCommitDelete, CloseRmw, locks
<1>3. PendingKept(o.chunk, o.slot)
  BY <1>1, <1>2, CloseKnows, Zenon
<1>4. SlotInv(t, o.key, o.chunk, o.slot, o.created_new)
  BY <1>0, <1>1, Zenon DEF RmwSlots
<1>5. half_hashes[o.chunk][o.slot] # NoSlotId
  BY <1>0, <1>1, <1>4, ReachedSlotId, Zenon DEF SlotInv
<1>6. KeyErased(o.chunk, o.slot)
  BY <1>1, <1>2, <1>4, Zenon DEF KeyErased, SlotInv, HasKey
<1>7. writer'[o.chunk] = t
  BY <1>2, <1>4, Zenon DEF SlotInv
<1>8. /\ half_hashes' \in [Chunks -> [Slots -> SlotIds]] /\ metadata' \in [Chunks -> Metadata]
      /\ keys_values' \in [Chunks -> [Slots -> KeyValues]] /\ OtherSlotsStay(o.chunk, o.slot)
      /\ ReachGrows /\ TableInv' /\ OtherChunksStay(t) /\ NewKeysReached(t) /\ OverflowGrows
      /\ \A k \in Keys : Absent(k) => Absent(k)'
      /\ \A k \in Keys : Reach(k)' = Reach(k)
  BY <1>0, <1>1, <1>2, <1>3, <1>5, <1>6, <1>7, FreeIs, Zenon
<1>9. OtherOpenHold(t, i)
  BY <1>0, <1>1, <1>2, <1>8, OtherOpenIs, Zenon
<1>10. Current(o) \in Replies
  BY <1>0, CurrentIs
<1> QED
  BY <1>2, <1>8, <1>9, <1>10, CloseStep, Zenon

\* A delete that returns, with no read-modify-write open.
LEMMA DeleteStep ==
    ASSUME SlotSets, IInv, NEW t \in Transactions, NEW c \in Chunks, NEW s \in Slots, NEW r \in Replies,
           Return(t, r), UpgradeLock(t, c), half_hashes[c][s] # NoSlotId, FreeSlot(c, s),
           keys_values[c][s].flags = "FILLED", EraseKey(c, s), rmw[t] = <<>>, rmw' = rmw,
           OwnVariables(t), pc[t] # "fill", \A d \in Chunks : readers'[d][t] <= ops'[t]
    PROVE  IInv' /\ Frame(t)
<1>0. TypeOK /\ Exclusion /\ TableInv
  BY DEF IInv
<1>1. LockStep(t) /\ writer'[c] = t
  BY <1>0, LockStepIs, UpgradeLockIs, Zenon
<1>2. /\ pc' \in [Transactions -> PCs] /\ call' \in [Transactions -> Calls]
      /\ reply' \in [Transactions -> Replies] /\ pc'[t] = "ready" /\ call'[t] = NoCall
      /\ \A u \in Transactions \ {t} : pc'[u] = pc[u] /\ call'[u] = call[u]
  BY <1>0, ReturnIs, Zenon
<1>3. OthersStay(t)
  BY <1>2, Zenon DEF OthersStay, OwnVariables
<1>4. PendingKept(c, s)
  <2>1. \A d \in Chunks : CreatedIn(t, d) = {}
    BY NoneOpen, Zenon
  <2> QED
    BY <1>3, <2>1, PendingKeptIs, Zenon
<1>5. KeyErased(c, s)
  BY Zenon DEF KeyErased
<1>6. /\ half_hashes' \in [Chunks -> [Slots -> SlotIds]] /\ metadata' \in [Chunks -> Metadata]
      /\ keys_values' \in [Chunks -> [Slots -> KeyValues]]
      /\ TableInv' /\ OtherChunksStay(t) /\ NewKeysReached(t) /\ OverflowGrows
  BY <1>0, <1>1, <1>4, <1>5, FreeIs, Zenon
<1>7. TypeOK'
  BY <1>0, <1>1, <1>2, <1>6, StepTypes, Zenon
<1>8. ReadsBounded(t)'
  BY <1>2, Zenon DEF ReadsBounded, Reading
<1>9. TxInv(t)'
  <2>1. RmwSlots(t)'
    BY SMTT(30) DEF RmwSlots
  <2> QED
    BY <1>2, <2>1, ReadyKnows, Zenon
<1>10. Frame(t) /\ Exclusion'
  BY <1>1, <1>3, <1>6, Zenon DEF Frame, LockStep
<1> QED
  BY <1>6, <1>7, <1>8, <1>9, <1>10, TableStep, Zenon

LEMMA DeleteFoundKeeps == ASSUME SlotSets, IInv, NEW t \in Transactions, DeleteFound(t) PROVE IInv' /\ Frame(t)
<1>0. /\ TypeOK /\ Exclusion /\ TableInv /\ ReadsBounded(t) /\ SearchInv(t) /\ RmwInv(t)
      /\ pc[t] = "upgrade"
  BY Zenon DEF IInv, TxInv, DeleteFound
<1>1. PICK k \in Keys, c \in Chunks, s \in Slots :
         /\ k = call[t].key /\ c = call[t].chunk /\ s = call[t].slot
         /\ HasKey(k, c, s) /\ rmw[t] = <<>>
  <2>1. call[t].chunk \in Chunks /\ call[t].slot \in Slots
    BY <1>0, Zenon DEF TypeOK, Calls
  <2> QED
    BY <1>0, <2>1, Zenon DEF SearchInv, RmwInv
<1>2. half_hashes[c][s] = SlotId(k, c) /\ half_hashes[c][s] # NoSlotId
  BY <1>0, <1>1, StoredKey, Zenon
<1>3. half_hashes[c][s].quarter_hash = QuarterOf[k]
  BY <1>2 DEF SlotId
<1>4. /\ UpgradeLock(t, c) /\ FreeSlot(c, s) /\ EraseKey(c, s) /\ Return(t, keys_values[c][s].data)
      /\ claims' = [claims EXCEPT ![t] = @ \cup {k}]
      /\ rmw' = rmw /\ indexed' = indexed /\ ops' = ops /\ reads' = reads
  BY <1>1, <1>3, Zenon DEF DeleteFound, NowClaims
<1>5. OwnVariables(t)
  BY <1>0, <1>4, Zenon DEF OwnVariables, TypeOK
<1>6. keys_values[c][s].data \in Replies
  <2>1. keys_values[c][s] \in KeyValues
    BY <1>0, Zenon DEF TypeOK
  <2> QED
    BY <2>1, Zenon DEF KeyValues, Replies
<1>7. \A d \in Chunks : readers'[d][t] <= ops'[t]
  BY <1>0, <1>4, UpgradeLockIs, Zenon DEF ReadsBounded
<1>8. keys_values[c][s].flags = "FILLED"
  BY <1>1 DEF HasKey
<1> QED
  BY <1>0, <1>1, <1>2, <1>4, <1>5, <1>6, <1>7, <1>8, DeleteStep, Zenon

LEMMA DeleteByIndexKeeps ==
    ASSUME SlotSets, IInv, NEW t \in Transactions, NEW c \in Chunks, NEW s \in Slots, NEW d \in Nat,
           DeleteByIndex(t, c, s, d)
    PROVE  IInv' /\ Frame(t)
<1>0. TypeOK /\ Exclusion /\ ReadsBounded(t) /\ RmwSlots(t)
  BY Zenon DEF IInv, TxInv, RmwInv
<1>1. /\ pc[t] = "ready" /\ Locked(t) = {c} /\ writer[c] # t /\ half_hashes[c][s].filled
      /\ UpgradeLock(t, c) /\ indexed' = [indexed EXCEPT ![t] = {}] /\ rmw' = rmw /\ reads' = reads
      /\ ops[t] < MaxOps /\ ops' = [ops EXCEPT ![t] = @ + 1]
  BY Zenon DEF DeleteByIndex, CountOp, IsOwnedBy
<1>2. half_hashes[c][s] # NoSlotId /\ writer[c] = NoTransaction
  BY <1>1 DEF NoSlotId, UpgradeLock, IsOwnedBy, CanUpgrade
<1>3. keys_values[c][s].flags = "FILLED" /\ keys_values[c][s].key \in Keys
  BY <1>2, UnownedSlot, HashtableAssumption, Zenon
<1>4. rmw[t] = <<>>
  <2>1. SUFFICES ASSUME NEW i \in DOMAIN rmw[t] PROVE FALSE
    BY <1>0, RmwIsSeq
  <2>2. rmw[t][i].chunk \in Chunks /\ writer[rmw[t][i].chunk] = t
    BY <1>0, RmwIsSeq, Zenon DEF RmwSlots, SlotInv
  <2> QED
    BY <1>1, <2>2, Zenon DEF Locked
<1>5. /\ ops' \in [Transactions -> 0 .. MaxOps] /\ ops'[t] = ops[t] + 1 /\ ops[t] \in Nat
      /\ \A u \in Transactions \ {t} : ops'[u] = ops[u]
  BY <1>0, <1>1, HashtableAssumption DEF TypeOK
<1>6. ASSUME claims' \in [Transactions -> SUBSET Keys] PROVE OwnVariables(t)
  BY <1>0, <1>1, <1>5, <1>6, Zenon DEF OwnVariables, TypeOK
<1>7. \A e \in Chunks : readers'[e][t] <= ops'[t]
  <2>1. \A e \in Chunks : readers'[e][t] <= ops[t] /\ readers'[e][t] \in Nat
    BY <1>0, <1>1, UpgradeLockIs, HashtableAssumption DEF ReadsBounded, TypeOK
  <2> QED
    BY <1>5, <2>1
<1>8. CASE keys_values[c][s].database_number = d
  <2>1. /\ FreeSlot(c, s) /\ EraseKey(c, s) /\ Return(t, keys_values[c][s].data)
        /\ claims' = [claims EXCEPT ![t] = @ \cup {keys_values[c][s].key}]
    BY <1>8, Zenon DEF DeleteByIndex, NowClaims
  <2>2. OwnVariables(t)
    BY <1>0, <1>3, <1>6, <2>1, Zenon DEF TypeOK
  <2>3. keys_values[c][s].data \in Replies
    <3>1. keys_values[c][s] \in KeyValues
      BY <1>0, Zenon DEF TypeOK
    <3> QED
      BY <3>1, Zenon DEF KeyValues, Replies
  <2> QED
    BY <1>1, <1>2, <1>3, <1>4, <1>7, <2>1, <2>2, <2>3, DeleteStep, Zenon
<1>9. CASE keys_values[c][s].database_number # d
  <2>1. Return(t, Failed) /\ UNCHANGED table /\ claims' = claims
    BY <1>9, Zenon DEF DeleteByIndex
  <2>2. OwnVariables(t) /\ LockStep(t)
    BY <1>0, <1>1, <1>6, <2>1, LockStepIs, Zenon DEF TypeOK
  <2> QED
    BY <1>1, <1>7, <2>1, <2>2, QuietReturn, Zenon DEF Replies
<1> QED
  BY <1>8, <1>9, Zenon

\* What t created is in chunks that it owns, has no key and is counted.
LEMMA CreatedIs ==
    ASSUME TypeOK, OverflowBounded, NEW t \in Transactions, RmwSlots(t), NEW c \in Chunks,
           NEW s \in CreatedIn(t, c)
    PROVE  /\ s \in Slots /\ writer[c] = t /\ keys_values[c][s].flags # "FILLED"
           /\ half_hashes[c][s] # NoSlotId
<1>1. PICK i \in DOMAIN rmw[t] : rmw[t][i].created_new /\ rmw[t][i].chunk = c /\ rmw[t][i].slot = s
  BY Zenon DEF CreatedIn
<1>2. PICK k \in Keys : k = rmw[t][i].key /\ s \in Slots
  BY <1>1, RmwIsSeq, Zenon
<1>3. SlotInv(t, k, c, s, TRUE)
  BY <1>1, <1>2, RmwIsSeq, Zenon DEF RmwSlots
<1> QED
  BY <1>2, <1>3, ReachedSlotId, Zenon DEF SlotInv

LEMMA DifferenceFits ==
    ASSUME NEW n \in 0 .. 127, NEW m \in Nat, NEW l \in Nat, l = n - m PROVE n - m \in 0 .. 127
OBVIOUS

LEMMA CreatedCount ==
    ASSUME SlotSets, TypeOK, OverflowBounded, OccupancyExact, NEW t \in Transactions, RmwSlots(t),
           NEW c \in Chunks,
           \A s \in Slots : half_hashes'[c][s] = IF s \in CreatedIn(t, c) THEN NoSlotId
                                                  ELSE half_hashes[c][s]
    PROVE  /\ Cardinality(CreatedIn(t, c)) \in Nat /\ (CreatedIn(t, c) = {} => Cardinality(CreatedIn(t, c)) = 0)
           /\ metadata[c].slots_occupied - Cardinality(CreatedIn(t, c)) \in 0 .. 127
           /\ Cardinality(Slots \ FreeSlots(c)')
                = metadata[c].slots_occupied - Cardinality(CreatedIn(t, c))
           /\ (CreatedIn(t, c) = {} => FreeSlots(c)' = FreeSlots(c))
<1> DEFINE S == Slots \ FreeSlots(c)
           C == CreatedIn(t, c)
<1>1. C \subseteq S
  BY CreatedIs DEF FreeSlots
<1>2. Slots \ FreeSlots(c)' = S \ C
  BY <1>1, Zenon DEF FreeSlots
<1>3. CreatedIn(t, c) = {} => FreeSlots(c)' = FreeSlots(c)
  BY DEF FreeSlots
<1>4. SlotSet(S)
  BY Zenon DEF SlotSets
<1>5. metadata[c].slots_occupied = Cardinality(S) /\ metadata[c].slots_occupied \in 0 .. 127
  BY MetadataIs DEF OccupancyExact
<1> HIDE DEF S, C
<1>6. S \subseteq Slots /\ C \in SUBSET S
  BY <1>1, Zenon DEF S
<1>7. SlotSet(C) /\ SlotSet(S \ C)
  BY <1>6, Zenon DEF SlotSets
<1>8. Cardinality(C) \in Nat /\ Cardinality(S \ C) \in Nat /\ (C = {} => Cardinality(C) = 0)
  BY <1>7, ConstantsSound DEF SlotSet
<1>9. Cardinality(S \ C) = Cardinality(S) - Cardinality(C)
  BY <1>4, <1>6, Zenon DEF SlotSet
<1>10. PICK n \in 0 .. 127, m \in Nat, l \in Nat :
          n = metadata[c].slots_occupied /\ m = Cardinality(C) /\ l = Cardinality(S \ C) /\ l = n - m
  BY <1>5, <1>8, <1>9, Zenon
<1>11. n - m \in 0 .. 127
  BY <1>10, DifferenceFits, Zenon
<1> QED
  BY <1>2, <1>3, <1>8, <1>10, <1>11, Zenon DEF C

LEMMA AbortedSlots ==
    ASSUME SlotSets, TypeOK, TableInv, NEW t \in Transactions, RmwSlots(t), RmwAbort(t)
    PROVE  /\ half_hashes' \in [Chunks -> [Slots -> SlotIds]] /\ metadata' \in [Chunks -> Metadata]
           /\ OccupancyExact' /\ OtherChunksStay(t)
           /\ \A d \in Chunks : metadata'[d].overflowed_chunks_counter
                                    = metadata[d].overflowed_chunks_counter
           /\ \A d \in Chunks, s \in Slots :
                half_hashes'[d][s] = IF s \in CreatedIn(t, d) THEN NoSlotId ELSE half_hashes[d][s]
<1>0. /\ half_hashes \in [Chunks -> [Slots -> SlotIds]] /\ metadata \in [Chunks -> Metadata]
      /\ OverflowBounded /\ OccupancyExact
  BY DEF TypeOK, TableInv
<1>1. /\ half_hashes' = [c \in Chunks |-> [s \in Slots |->
                            IF s \in CreatedIn(t, c) THEN NoSlotId ELSE half_hashes[c][s]]]
      /\ metadata' = [c \in Chunks |->
                        [metadata[c] EXCEPT !.slots_occupied = @ - Cardinality(CreatedIn(t, c)),
                                            !.is_full = @ /\ CreatedIn(t, c) = {}]]
      /\ keys_values' = keys_values /\ writer' = writer
  BY Zenon DEF RmwAbort, locks
<1>2. /\ half_hashes' \in [Chunks -> [Slots -> SlotIds]]
      /\ \A d \in Chunks, s \in Slots :
           half_hashes'[d][s] = IF s \in CreatedIn(t, d) THEN NoSlotId ELSE half_hashes[d][s]
  BY <1>0, <1>1, NoSlotIdSound, Zenon
<1>3. ASSUME NEW d \in Chunks
      PROVE  /\ metadata'[d] \in Metadata
             /\ metadata'[d].slots_occupied = Cardinality(Slots \ FreeSlots(d)')
             /\ (metadata'[d].is_full => FreeSlots(d)' = {})
             /\ metadata'[d].overflowed_chunks_counter = metadata[d].overflowed_chunks_counter
             /\ (CreatedIn(t, d) = {} => metadata'[d] = metadata[d])
  <2>1. PICK m \in Metadata : m = metadata[d]
    BY <1>0, Zenon
  <2>2. PICK n \in 0 .. 127, f \in BOOLEAN :
           /\ n = m.slots_occupied - Cardinality(CreatedIn(t, d))
           /\ f = (m.is_full /\ CreatedIn(t, d) = {})
    BY <1>0, <1>2, <2>1, CreatedCount, Zenon
  <2>3. PICK x \in Metadata : x = [m EXCEPT !.slots_occupied = n, !.is_full = f]
    BY MetadataWith, Zenon
  <2>4. metadata'[d] = x
    <3>1. metadata'[d] = [metadata[d] EXCEPT
                            !.slots_occupied = metadata[d].slots_occupied - Cardinality(CreatedIn(t, d)),
                            !.is_full = metadata[d].is_full /\ CreatedIn(t, d) = {}]
      BY <1>1, Zenon
    <3> QED
      BY <2>1, <2>2, <2>3, <3>1, Zenon
  <2>5. /\ x.slots_occupied = n /\ x.is_full = f
        /\ x.overflowed_chunks_counter = m.overflowed_chunks_counter
    BY <2>3, Zenon DEF Metadata
  <2>6. n = Cardinality(Slots \ FreeSlots(d)') /\ (CreatedIn(t, d) = {} => FreeSlots(d)' = FreeSlots(d))
    BY <1>0, <1>2, <2>1, <2>2, CreatedCount, Zenon
  <2>7. f => FreeSlots(d)' = {}
    BY <1>0, <2>1, <2>2, <2>6, Zenon DEF OccupancyExact
  <2>8. ASSUME CreatedIn(t, d) = {} PROVE x = m
    <3>1. n = m.slots_occupied
      <4>1. m.slots_occupied \in Int
        BY <2>1, MetadataIs
      <4>2. Cardinality(CreatedIn(t, d)) = 0
        BY <1>0, <1>2, <2>8, CreatedCount, Zenon
      <4> QED
        BY <2>2, <4>1, <4>2
    <3>2. f = m.is_full
      BY <2>2, <2>8, Zenon DEF Metadata
    <3> QED
      BY <2>3, <3>1, <3>2, Zenon DEF Metadata
  <2> QED
    BY <2>1, <2>4, <2>5, <2>6, <2>7, <2>8, Zenon
<1>4. metadata' \in [Chunks -> Metadata]
  BY <1>1, <1>3, Zenon
<1>5. OccupancyExact'
  BY <1>3, Zenon DEF OccupancyExact
<1>6. OtherChunksStay(t)
  <2>1. SUFFICES ASSUME NEW d \in Chunks, writer'[d] # t
                 PROVE  half_hashes'[d] = half_hashes[d] /\ metadata'[d] = metadata[d]
    BY <1>1, ZenonT(30) DEF OtherChunksStay
  <2>2. CreatedIn(t, d) = {}
    BY <1>0, <1>1, <2>1, CreatedIs, Zenon
  <2> QED
    BY <1>0, <1>1, <1>3, <2>2, ZenonT(30)
<1> QED
  BY <1>2, <1>3, <1>4, <1>5, <1>6, ZenonT(30)

LEMMA RmwAbortKeeps == ASSUME SlotSets, IInv, NEW t \in Transactions, RmwAbort(t) PROVE IInv' /\ Frame(t)
<1>0. /\ TypeOK /\ Exclusion /\ TableInv /\ OverflowBounded /\ OneSlotPerKey /\ SlotsSound
      /\ ReadsBounded(t) /\ RmwSlots(t)
  BY DEF IInv, TxInv, TableInv, RmwInv
<1>1. /\ pc[t] = "ready" /\ keys_values' = keys_values /\ pc' = pc /\ call' = call /\ ops' = ops
      /\ indexed' = indexed /\ reads' = reads /\ claims' = claims /\ UNCHANGED locks
      /\ rmw' = [rmw EXCEPT ![t] = <<>>] /\ reply' = [reply EXCEPT ![t] = NoReply]
  BY Zenon DEF RmwAbort, history
<1>2. /\ half_hashes' \in [Chunks -> [Slots -> SlotIds]] /\ metadata' \in [Chunks -> Metadata]
      /\ OccupancyExact' /\ OtherChunksStay(t)
      /\ \A d \in Chunks : metadata'[d].overflowed_chunks_counter
                               = metadata[d].overflowed_chunks_counter
      /\ \A d \in Chunks, s \in Slots :
           half_hashes'[d][s] = IF s \in CreatedIn(t, d) THEN NoSlotId ELSE half_hashes[d][s]
  BY <1>0, AbortedSlots, Zenon
<1>3. LockStep(t) /\ readers' = readers /\ writer' = writer
  BY <1>0, <1>1, ConstantsSound, LockStepIs, NoCallSound, Zenon DEF locks, Calls
<1>4. rmw'[t] = <<>> /\ OwnVariables(t) /\ OthersStay(t)
  <2>1. <<>> \in Seq(RmwStatuses)
    OBVIOUS
  <2> QED
    BY <1>0, <1>1, <2>1, Zenon DEF OwnVariables, OthersStay, TypeOK
<1>5. \A d \in Chunks : readers'[d][t] <= ops'[t]
  BY <1>0, <1>1, <1>3, Zenon DEF ReadsBounded
<1>6. TypeOK'
  <2>1. reply' \in [Transactions -> Replies]
    BY <1>0, <1>1, Zenon DEF TypeOK, Replies
  <2>2. /\ keys_values' \in [Chunks -> [Slots -> KeyValues]] /\ pc' \in [Transactions -> PCs]
        /\ call' \in [Transactions -> Calls]
    BY <1>0, <1>1, Zenon DEF TypeOK
  <2> QED
    BY <1>0, <1>2, <1>3, <1>4, <1>5, <2>1, <2>2, StepTypes, Zenon
<1>7. SlotsSound'
  <2>1. SUFFICES ASSUME NEW d \in Chunks, NEW r \in Slots PROVE SlotSound(d, r)'
    BY DEF SlotsSound
  <2>2. SlotSound(d, r)
    BY <1>0, Zenon DEF SlotsSound
  <2>3. \A k \in Keys : Reach(k)' = Reach(k)
    BY <1>2, ConstantsSound, Zenon DEF Reach, SearchLimit
  <2>4. CASE r \in CreatedIn(t, d)
    <3>1. keys_values[d][r].flags # "FILLED" /\ half_hashes'[d][r] = NoSlotId
      BY <1>0, <1>2, <2>4, CreatedIs
    <3> QED
      BY <1>1, <2>2, <3>1, Zenon DEF SlotSound
  <2>5. CASE r \notin CreatedIn(t, d)
    <3>1. half_hashes'[d][r] = half_hashes[d][r]
      BY <1>2, <2>5, Zenon
    <3>2. Pending(d, r) => Pending(d, r)'
      <4>1. SUFFICES ASSUME Pending(d, r) PROVE Pending(d, r)'
        BY Zenon
      <4>2. PICK u \in Transactions :
               \/ pc[u] = "fill" /\ call[u].created /\ call[u].chunk = d /\ call[u].slot = r
               \/ r \in CreatedIn(u, d)
        BY <4>1, Zenon DEF Pending
      <4>3. u # t => CreatedIn(u, d)' = CreatedIn(u, d)
        BY <1>4, ZenonT(30) DEF CreatedIn, OthersStay
      <4> QED
        BY <1>1, <2>5, <4>2, <4>3, Zenon DEF Pending
    <3> QED
      BY <1>1, <2>2, <2>3, <3>1, <3>2, Zenon DEF SlotSound
  <2> QED
    BY <2>4, <2>5, Zenon
<1>8. TableInv' /\ NewKeysReached(t)
  <2>1. OneSlotPerKey'
    <3>1. \A k \in Keys, d \in Chunks, r \in Slots : HasKey(k, d, r)' <=> HasKey(k, d, r)
      BY <1>1, Zenon DEF HasKey
    <3> QED
      BY <1>0, <3>1 DEF OneSlotPerKey
  <2>2. OverflowBounded'
    BY <1>0, <1>2, Zenon DEF OverflowBounded
  <2>3. NewKeysReached(t)
    BY <1>1, Zenon DEF NewKeysReached, HasKey
  <2> QED
    BY <1>2, <1>7, <2>1, <2>2, <2>3, Zenon DEF TableInv
<1>9. OverflowGrows
  <2>1. \A d \in Chunks : metadata[d].overflowed_chunks_counter \in Int
    BY <1>0, MetadataIs
  <2> QED
    BY <1>2, <2>1 DEF OverflowGrows
<1>10. TxInv(t)'
  <2>1. DOMAIN rmw'[t] = {} /\ pc'[t] = "ready"
    BY <1>1, <1>4, NextNoneOpen, Zenon
  <2>2. SearchInv(t)' /\ WriteInv(t)'
    BY <2>1 DEF SearchInv, WriteInv, Searching, Writing
  <2> QED
    BY <1>4, <2>1, <2>2, Zenon DEF TxInv, RmwInv, RmwSlots
<1>11. ReadsBounded(t)'
  BY <1>1, <1>5, Zenon DEF ReadsBounded, Reading
<1>12. Frame(t) /\ Exclusion'
  BY <1>2, <1>3, <1>4, <1>8, <1>9, Zenon DEF Frame, LockStep
<1> QED
  BY <1>6, <1>8, <1>10, <1>11, <1>12, TableStep, Zenon
=============================================================================
