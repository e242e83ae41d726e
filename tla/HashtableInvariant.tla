------------------------- MODULE HashtableInvariant -------------------------
(***************************************************************************)
(* The inductive invariant of the hashtable, for any number of             *)
(* transactions, keys, chunks and slots, and what a step of a transaction  *)
(* leaves alone.                                                           *)
(* What holds the table together is who has locked what: IInv relates the  *)
(* slots to the locks of the transactions that are in the middle of an     *)
(* operation on them.                                                      *)
(***************************************************************************)
EXTENDS Hashtable, TLAPS

Holds(t, c) == writer[c] = t \/ readers[c][t] > 0
Absent(k) == \A c \in Chunks, s \in Slots : ~HasKey(k, c, s)

\* The chunks that a search for k looks into.
Reach(k) == HomeOf[k] .. SearchLimit(HomeOf[k])
OwnsReach(t, k) == \A d \in Reach(k) : writer[d] = t

\* A writer is alone on its chunk.
Exclusion ==
    \A c \in Chunks, t, u \in Transactions : writer[c] = t /\ u # t => readers[c][u] = 0

\* An operation read-locks a chunk once, and the chunks ahead of it not yet.
Reading == {"search_home", "search_peek", "search_lock", "index_lock"}
ReadsBounded(t) ==
    \A c \in Chunks :
        /\ pc[t] = "idle" => readers[c][t] = 0 /\ writer[c] # t
        /\ pc[t] # "release" => readers[c][t] <= ops[t]
        /\ pc[t] \in Reading /\ c >= call[t].chunk => readers[c][t] < ops[t]

\* A slot is filled, or has no key and is free or about to be filled or freed.
SlotSound(c, s) ==
    LET kv == keys_values[c][s]
    IN  IF kv.flags = "FILLED"
        THEN /\ kv.key \in Keys /\ kv.data \in Values
             /\ half_hashes[c][s] = SlotId(kv.key, c) /\ c \in Reach(kv.key)
        ELSE kv.key = NoKey /\ (half_hashes[c][s] = NoSlotId \/ Pending(c, s))
SlotsSound == \A c \in Chunks, s \in Slots : SlotSound(c, s)
OverflowBounded == \A c \in Chunks : metadata[c].overflowed_chunks_counter <= SearchMax - 1
TableInv == SlotsSound /\ OneSlotPerKey /\ OccupancyExact /\ OverflowBounded

(***************************************************************************)
(* What a transaction knows in the middle of an operation.  A search for   *)
(* writing owns the chunks it has left behind, and they do not have the    *)
(* key; the creation of a slot owns all chunks a search for the key looks  *)
(* into, and none of them has it.                                          *)
(***************************************************************************)
Searching == {"search_home", "search_peek", "search_lock"}
Writing == {"write_search", "write_create", "fill"}

SearchInv(t) ==
    LET l == call[t]
    IN  /\ pc[t] \in Searching \cup {"upgrade"} =>
              l.key \in Keys /\ l.op \in {"get", "delete"} /\ l.chunk >= HomeOf[l.key]
        /\ pc[t] = "search_home" => l.chunk = HomeOf[l.key]
        /\ pc[t] \in {"search_peek", "search_lock"} =>
              l.chunk <= l.limit /\ l.limit < HomeOf[l.key] + SearchMax
        /\ pc[t] = "upgrade" =>
              l.op = "delete" /\ Holds(t, l.chunk) /\ HasKey(l.key, l.chunk, l.slot)

WriteSearchInv(t) ==
    LET l == call[t]
        home == HomeOf[l.key]
    IN  /\ home <= l.chunk
        /\ l.chunk > home => l.limit = SearchLimit(home) /\ l.chunk <= l.limit
        /\ l.free = ChunksCount \/ l.free \in home .. l.chunk - 1
        /\ \A d \in home .. l.chunk - 1 : writer[d] = t /\ \A s \in Slots : ~HasKey(l.key, d, s)

WriteCreateInv(t) ==
    LET l == call[t]
        home == HomeOf[l.key]
    IN  /\ l.chunk \in home .. home + SearchMax - 1
        /\ Absent(l.key) /\ OwnsReach(t, l.key)
        /\ \A d \in home .. l.chunk - 1 : writer[d] = t

\* The slot (c, s) that t is about to write for k.
SlotInv(t, k, c, s, created) ==
    /\ writer[c] = t /\ c \in Reach(k) /\ half_hashes[c][s] = SlotId(k, c)
    /\ IF created
       THEN keys_values[c][s].flags # "FILLED" /\ Absent(k) /\ OwnsReach(t, k)
       ELSE HasKey(k, c, s)

WriteInv(t) ==
    LET l == call[t]
    IN  /\ pc[t] \in Writing =>
              /\ l.key \in Keys /\ l.op \in {"set", "rmw"} /\ (l.op = "set" => l.value \in Values)
              /\ \A i \in DOMAIN rmw[t] : rmw[t][i].key # l.key
        /\ pc[t] = "write_search" => WriteSearchInv(t)
        /\ pc[t] = "write_create" => WriteCreateInv(t)
        /\ pc[t] = "fill" => l.op = "set" /\ SlotInv(t, l.key, l.chunk, l.slot, l.created)

Distinct(p, q) == p.key # q.key /\ (p.chunk # q.chunk \/ p.slot # q.slot)
RmwSlots(t) ==
    /\ \A i \in DOMAIN rmw[t] :
          LET r == rmw[t][i] IN SlotInv(t, r.key, r.chunk, r.slot, r.created_new)
    /\ \A i, j \in DOMAIN rmw[t] : i # j => Distinct(rmw[t][i], rmw[t][j])
RmwInv(t) ==
    /\ call[t].op \in {"delete", "set"} \/ pc[t] \in {"idle", "release"} => rmw[t] = <<>>
    /\ RmwSlots(t)

TxInv(t) == SearchInv(t) /\ WriteInv(t) /\ RmwInv(t)

IInv == /\ TypeOK /\ Exclusion /\ TableInv
        /\ \A t \in Transactions : ReadsBounded(t) /\ TxInv(t)

-----------------------------------------------------------------------------
(***************************************************************************)
(* The operators of the model.                                             *)
(***************************************************************************)
LEMMA ConstantsSound ==
    /\ HomeChunks \in Nat /\ SearchMax \in 1 .. 256 /\ SlotsCount \in 1 .. 127
    /\ Chunks \subseteq Nat /\ Slots \subseteq Nat /\ ChunksCount \in Nat
    /\ \A k \in Keys : HomeOf[k] \in Chunks /\ HomeOf[k] \in Nat
BY HashtableAssumption DEF Chunks, ChunksCount, Slots

LEMMA SearchedInTable ==
    ASSUME NEW k \in Keys, NEW c \in HomeOf[k] .. HomeOf[k] + SearchMax - 1
    PROVE  c \in Chunks /\ c \in Nat
BY HashtableAssumption DEF Chunks, ChunksCount

LEMMA ChunksBetween ==
    ASSUME NEW a \in Chunks, NEW b \in Chunks
    PROVE  \A d \in a .. b : d \in Chunks
BY ConstantsSound DEF Chunks

(***************************************************************************)
(* A set of slots has a size and a least element.  The slots being finite, *)
(* this follows from the theorems on finite sets (SlotSetsHold in module   *)
(* HashtableProofs); the lemmas that need it have it as a hypothesis.      *)
(***************************************************************************)
SlotSet(S) ==
    /\ Cardinality(S) \in 0 .. SlotsCount /\ (Cardinality(S) = 0 <=> S = {})
    /\ S # {} => Min(S) \in S /\ \A y \in S : Min(S) <= y
    /\ \A s \in S : Cardinality(S \ {s}) = Cardinality(S) - 1
    /\ \A s \in Slots \ S : Cardinality(S \cup {s}) = Cardinality(S) + 1
    /\ \A T \in SUBSET S : Cardinality(S \ T) = Cardinality(S) - Cardinality(T)
SlotSets == \A S \in SUBSET Slots : SlotSet(S)

LEMMA LeastSlot ==
    ASSUME SlotSets, NEW S \in SUBSET Slots, S # {}
    PROVE  Min(S) \in S /\ \A y \in S : Min(S) <= y
BY DEF SlotSets, SlotSet

\* A slot id in use is not the free one.
LEMMA SlotIdSound ==
    ASSUME NEW k \in Keys, NEW c \in HomeOf[k] .. HomeOf[k] + SearchMax - 1
    PROVE  SlotId(k, c) \in SlotIds /\ SlotId(k, c) # NoSlotId /\ SlotId(k, c).filled
<1>1. c - HomeOf[k] \in Distances /\ QuarterOf[k] \in Nat
  BY ConstantsSound, HashtableAssumption DEF Distances
<1> QED
  BY <1>1, Zenon DEF SlotId, SlotIds, NoSlotId

LEMMA NoSlotIdSound == NoSlotId \in SlotIds
BY HashtableAssumption DEF NoSlotId, SlotIds, Distances

LEMMA NextChunk ==
    ASSUME NEW h \in Nat, NEW m \in Nat, NEW c \in Nat, NEW n \in Nat, n \in h .. h + m - 1, h <= c, c < n
    PROVE  c + 1 \in h .. h + m - 1 /\ c + 1 - 1 = c
OBVIOUS

LEMMA NoneOpen ==
    ASSUME NEW t \in Transactions, rmw[t] = <<>>
    PROVE  DOMAIN rmw[t] = {} /\ \A d \in Chunks : CreatedIn(t, d) = {}
BY DEF CreatedIn

LEMMA NextNoneOpen == ASSUME NEW t \in Transactions, rmw'[t] = <<>> PROVE DOMAIN rmw'[t] = {}
OBVIOUS

LEMMA AppendIs ==
    ASSUME NEW S, NEW q \in Seq(S), NEW r \in S
    PROVE  /\ Append(q, r) \in Seq(S) /\ Len(Append(q, r)) = Len(q) + 1
           /\ \A i \in 1 .. Len(q) : Append(q, r)[i] = q[i]
           /\ Append(q, r)[Len(q) + 1] = r
OBVIOUS

LEMMA TailIs ==
    ASSUME NEW S, NEW q \in Seq(S), NEW i \in 1 .. Len(q)
    PROVE  /\ SubSeq(q, i + 1, Len(q)) \in Seq(S)
           /\ Len(SubSeq(q, i + 1, Len(q))) = Len(q) - i
           /\ \A j \in 1 .. Len(q) - i : SubSeq(q, i + 1, Len(q))[j] = q[i + j]
<1>1. SubSeq(q, i + 1, Len(q)) \in Seq(S)
  OBVIOUS
<1>2. Len(SubSeq(q, i + 1, Len(q))) = Len(q) - i
  OBVIOUS
<1>3. ASSUME NEW j \in 1 .. Len(q) - i PROVE SubSeq(q, i + 1, Len(q))[j] = q[i + j]
  OBVIOUS
<1> QED
  BY <1>1, <1>2, <1>3

LEMMA ConcatIs ==
    ASSUME NEW S, NEW a \in Seq(S), NEW b \in Seq(S)
    PROVE  /\ a \o b \in Seq(S) /\ Len(a \o b) = Len(a) + Len(b)
           /\ \A j \in 1 .. Len(a) + Len(b) : (a \o b)[j] = IF j <= Len(a) THEN a[j] ELSE b[j - Len(a)]
<1>1. a \o b \in Seq(S)
  OBVIOUS
<1>2. Len(a \o b) = Len(a) + Len(b)
  OBVIOUS
<1>3. ASSUME NEW j \in 1 .. Len(a) + Len(b)
      PROVE  (a \o b)[j] = IF j <= Len(a) THEN a[j] ELSE b[j - Len(a)]
  OBVIOUS
<1> QED
  BY <1>1, <1>2, <1>3

LEMMA WithoutIs ==
    ASSUME NEW S, NEW q \in Seq(S), NEW i \in 1 .. Len(q)
    PROVE  /\ Without(q, i) \in Seq(S)
           /\ Len(Without(q, i)) = Len(q) - 1
           /\ \A j \in 1 .. Len(q) - 1 : Without(q, i)[j] = IF j < i THEN q[j] ELSE q[j + 1]
<1> DEFINE a == SubSeq(q, 1, i - 1)
           b == SubSeq(q, i + 1, Len(q))
<1>1. Len(q) \in Nat /\ DOMAIN q = 1 .. Len(q) /\ \A j \in 1 .. Len(q) : q[j] \in S
  OBVIOUS
<1>2. a \in Seq(S) /\ Len(a) = i - 1 /\ \A j \in 1 .. i - 1 : a[j] = q[j]
  BY <1>1
<1>3. b \in Seq(S) /\ Len(b) = Len(q) - i /\ \A j \in 1 .. Len(q) - i : b[j] = q[i + j]
  BY TailIs
<1> HIDE DEF a, b
<1>4. /\ a \o b \in Seq(S) /\ Len(a \o b) = Len(a) + Len(b)
      /\ \A j \in 1 .. Len(a) + Len(b) : (a \o b)[j] = IF j <= Len(a) THEN a[j] ELSE b[j - Len(a)]
  BY <1>2, <1>3, ConcatIs, Zenon
<1>5. Without(q, i) = a \o b
  BY DEF Without, a, b
<1>6. ASSUME NEW j \in 1 .. Len(q) - 1 PROVE (a \o b)[j] = IF j < i THEN q[j] ELSE q[j + 1]
  <2>1. j \in 1 .. Len(a) + Len(b) /\ j - Len(a) = j - i + 1
    BY <1>1, <1>2, <1>3
  <2>2. CASE j < i
    BY <1>2, <1>4, <2>1, <2>2
  <2>3. CASE ~(j < i)
    <3>1. j - i + 1 \in 1 .. Len(q) - i /\ i + (j - i + 1) = j + 1 /\ ~(j <= Len(a))
      BY <1>1, <1>2, <2>3
    <3>2. (a \o b)[j] = b[j - i + 1]
      BY <1>4, <2>1, <3>1, Zenon
    <3>3. b[j - i + 1] = q[i + (j - i + 1)]
      BY <1>3, <3>1
    <3> QED
      BY <2>3, <3>1, <3>2, <3>3
  <2> QED
    BY <1>1, <2>2, <2>3, Zenon
<1>7. Len(a \o b) = Len(q) - 1
  BY <1>1, <1>2, <1>3, <1>4
<1> QED
  BY <1>4, <1>5, <1>6, <1>7, Zenon

LEMMA RmwIsSeq ==
    ASSUME TypeOK, NEW t \in Transactions
    PROVE  /\ rmw[t] \in Seq(RmwStatuses) /\ Len(rmw[t]) \in Nat /\ DOMAIN rmw[t] = 1 .. Len(rmw[t])
           /\ \A i \in DOMAIN rmw[t] : /\ rmw[t][i] \in RmwStatuses
                                       /\ rmw[t][i].key \in Keys /\ rmw[t][i].chunk \in Chunks
                                       /\ rmw[t][i].slot \in Slots /\ rmw[t][i].created_new \in BOOLEAN
<1>1. rmw[t] \in Seq(RmwStatuses)
  BY DEF TypeOK
<1>2. Len(rmw[t]) \in Nat /\ DOMAIN rmw[t] = 1 .. Len(rmw[t])
  BY <1>1
<1>3. \A i \in DOMAIN rmw[t] : rmw[t][i] \in RmwStatuses
  BY <1>1, <1>2
<1> QED
  BY <1>1, <1>2, <1>3 DEF RmwStatuses

LEMMA ReachSound ==
    ASSUME TypeOK, OverflowBounded, NEW k \in Keys
    PROVE  /\ HomeOf[k] \in Reach(k) /\ Reach(k) \subseteq Chunks
           /\ SearchLimit(HomeOf[k]) \in HomeOf[k] .. HomeOf[k] + SearchMax - 1
           /\ metadata[HomeOf[k]].overflowed_chunks_counter \in Nat
<1>1. HomeOf[k] \in Chunks /\ HomeOf[k] \in Nat
  BY ConstantsSound, Zenon
<1>2. metadata[HomeOf[k]].overflowed_chunks_counter \in Nat
  <2>1. metadata[HomeOf[k]] \in Metadata
    BY <1>1 DEF TypeOK
  <2> QED
    BY <2>1 DEF Metadata
<1>3. metadata[HomeOf[k]].overflowed_chunks_counter <= SearchMax - 1
  BY <1>1 DEF OverflowBounded
<1>4. SearchMax \in Nat /\ \A c \in HomeOf[k] .. HomeOf[k] + SearchMax - 1 : c \in Chunks
  BY ConstantsSound, SearchedInTable
<1>5. SearchLimit(HomeOf[k]) \in HomeOf[k] .. HomeOf[k] + SearchMax - 1
  BY <1>1, <1>2, <1>3, <1>4 DEF SearchLimit
<1> QED
  BY <1>1, <1>2, <1>4, <1>5 DEF Reach

LEMMA NextReachSound ==
    ASSUME TypeOK', OverflowBounded', NEW k \in Keys
    PROVE  /\ HomeOf[k] \in Reach(k)' /\ Reach(k)' \subseteq Chunks
           /\ SearchLimit(HomeOf[k])' \in HomeOf[k] .. HomeOf[k] + SearchMax - 1
           /\ metadata'[HomeOf[k]].overflowed_chunks_counter \in Nat
<1>1. HomeOf[k] \in Chunks /\ HomeOf[k] \in Nat
  BY ConstantsSound, Zenon
<1>2. metadata'[HomeOf[k]].overflowed_chunks_counter \in Nat
  <2>1. metadata'[HomeOf[k]] \in Metadata
    BY <1>1 DEF TypeOK
  <2> QED
    BY <2>1 DEF Metadata
<1>3. metadata'[HomeOf[k]].overflowed_chunks_counter <= SearchMax - 1
  BY <1>1 DEF OverflowBounded
<1>4. SearchMax \in Nat /\ \A c \in HomeOf[k] .. HomeOf[k] + SearchMax - 1 : c \in Chunks
  BY ConstantsSound, SearchedInTable
<1>5. SearchLimit(HomeOf[k])' \in HomeOf[k] .. HomeOf[k] + SearchMax - 1
  BY <1>1, <1>2, <1>3, <1>4 DEF SearchLimit
<1> QED
  BY <1>1, <1>2, <1>4, <1>5 DEF Reach

-----------------------------------------------------------------------------
(***************************************************************************)
(* What a step of t leaves alone: the other transactions, their locks, the *)
(* chunks that t does not own.  A key appears only when t owns every chunk *)
(* that a search for it looks into.                                        *)
(***************************************************************************)
OthersStay(t) ==
    \A u \in Transactions \ {t} :
        pc'[u] = pc[u] /\ call'[u] = call[u] /\ rmw'[u] = rmw[u] /\ ops'[u] = ops[u]
LocksOfOthersStay(t) ==
    \A c \in Chunks, u \in Transactions \ {t} :
        readers'[c][u] = readers[c][u] /\ (writer'[c] = u <=> writer[c] = u)
OtherChunksStay(t) ==
    \A c \in Chunks : writer'[c] # t =>
        /\ half_hashes'[c] = half_hashes[c] /\ keys_values'[c] = keys_values[c]
        /\ metadata'[c] = metadata[c]
NewKeysReached(t) ==
    \A k \in Keys, c \in Chunks, s \in Slots :
        HasKey(k, c, s)' => HasKey(k, c, s) \/ OwnsReach(t, k)'
OverflowGrows ==
    \A c \in Chunks :
        metadata'[c].overflowed_chunks_counter >= metadata[c].overflowed_chunks_counter
Frame(t) ==
    /\ OthersStay(t) /\ LocksOfOthersStay(t) /\ OtherChunksStay(t) /\ NewKeysReached(t)
    /\ OverflowGrows

\* The steps of transaction t.
StepOf(t) ==
    \/ Acquire(t) \/ ReleaseBegin(t) \/ ReleaseEnd(t) \/ Stuck(t)
    \/ SearchHome(t) \/ SearchPeek(t) \/ SearchLock(t) \/ DeleteFound(t)
    \/ WriteSearch(t) \/ WriteCreate(t) \/ SetFill(t) \/ GetByIndexLocked(t)
    \/ \E k \in Keys : Get(t, k) \/ Delete(t, k) \/ RmwBegin(t, k) \/ \E v \in Values : Set(t, k, v)
    \/ RmwAbort(t)
    \/ \E i \in DOMAIN rmw[t] : RmwCommitDelete(t, i) \/ \E v \in Values : RmwCommitUpdate(t, i, v)
    \/ \E c \in Chunks : ReleaseChunk(t, c)
    \/ \E c \in Chunks, s \in Slots : GetByIndex(t, c, s) \/ GetKey(t, c, s)
    \/ \E c \in Chunks, s \in Slots, k \in Keys : DeleteByIndex(t, c, s, DatabaseOf[k])

LEMMA NextIsAStep == ASSUME Next PROVE \E t \in Transactions : StepOf(t)
BY Zenon DEF Next, StepOf

\* What is locked by another transaction does not change.
LEMMA HeldStays ==
    ASSUME NEW t \in Transactions, Frame(t), Exclusion',
           NEW u \in Transactions, u # t, NEW c \in Chunks, Holds(u, c)
    PROVE  /\ half_hashes'[c] = half_hashes[c] /\ keys_values'[c] = keys_values[c]
           /\ metadata'[c] = metadata[c] /\ Holds(u, c)'
<1>1. readers'[c][u] = readers[c][u] /\ (writer'[c] = u <=> writer[c] = u)
  BY DEF Frame, LocksOfOthersStay
<1>2. writer'[c] = t => readers'[c][u] = 0
  BY DEF Exclusion
<1>3. writer'[c] # t
  BY <1>1, <1>2 DEF Holds
<1> QED
  BY <1>1, <1>3 DEF Frame, OtherChunksStay, Holds

\* Neither does what a transaction knows about a chunk that it owns.
LEMMA OwnedStays ==
    ASSUME NEW t \in Transactions, Frame(t), NEW u \in Transactions, u # t,
           NEW c \in Chunks, writer[c] = u
    PROVE  /\ half_hashes'[c] = half_hashes[c] /\ keys_values'[c] = keys_values[c]
           /\ metadata'[c] = metadata[c] /\ writer'[c] = u
BY DEF Frame, LocksOfOthersStay, OtherChunksStay

LEMMA ReachStays ==
    ASSUME TypeOK, OverflowBounded, TypeOK', OverflowBounded', NEW t \in Transactions, Frame(t),
           NEW u \in Transactions, u # t, NEW k \in Keys, OwnsReach(u, k)
    PROVE  Reach(k)' = Reach(k) /\ OwnsReach(u, k)' /\ (Absent(k) => Absent(k)')
<1>1. HomeOf[k] \in Reach(k) /\ Reach(k) \subseteq Chunks /\ HomeOf[k] \in Chunks
  BY ReachSound, ConstantsSound
<1>2. \A d \in Reach(k) : writer[d] = u
  BY DEF OwnsReach
<1>3. metadata'[HomeOf[k]] = metadata[HomeOf[k]]
  BY <1>1, <1>2, OwnedStays, Zenon
<1>4. Reach(k)' = Reach(k)
  BY <1>3 DEF Reach, SearchLimit
<1>5. \A d \in Reach(k) : writer'[d] = u
  BY <1>1, <1>2, OwnedStays, Zenon
<1>6. ~OwnsReach(t, k)'
  BY <1>1, <1>4, <1>5, Zenon DEF OwnsReach
<1>7. Absent(k) => Absent(k)'
  BY <1>6 DEF Frame, NewKeysReached, Absent
<1> QED
  BY <1>4, <1>5, <1>7, Zenon DEF OwnsReach

LEMMA SlotStays ==
    ASSUME TypeOK, OverflowBounded, TypeOK', OverflowBounded', Exclusion', NEW t \in Transactions,
           Frame(t), NEW u \in Transactions, u # t, NEW k \in Keys, NEW c \in Chunks,
           NEW s \in Slots, NEW created \in BOOLEAN, SlotInv(u, k, c, s, created),
           metadata'[HomeOf[k]].overflowed_chunks_counter >= metadata[HomeOf[k]].overflowed_chunks_counter
    PROVE  SlotInv(u, k, c, s, created)'
<1>1. writer[c] = u /\ c \in Reach(k) /\ half_hashes[c][s] = SlotId(k, c)
  BY DEF SlotInv
<1>2. /\ half_hashes'[c] = half_hashes[c] /\ keys_values'[c] = keys_values[c] /\ writer'[c] = u
  BY <1>1, OwnedStays, Zenon
<1>3. c \in Reach(k)'
  <2>1. HomeOf[k] \in Nat /\ metadata[HomeOf[k]].overflowed_chunks_counter \in Nat
    BY ReachSound, ConstantsSound, Zenon
  <2>2. metadata'[HomeOf[k]].overflowed_chunks_counter \in Nat
    BY NextReachSound, Zenon
  <2> QED
    BY <1>1, <2>1, <2>2 DEF Reach, SearchLimit
<1>4. CASE created
  <2>1. keys_values[c][s].flags # "FILLED" /\ Absent(k) /\ OwnsReach(u, k)
    BY <1>4, Zenon DEF SlotInv
  <2>2. Absent(k)' /\ OwnsReach(u, k)'
    BY <2>1, ReachStays, Zenon
  <2> QED
    BY <1>1, <1>2, <1>3, <1>4, <2>1, <2>2, Zenon DEF SlotInv
<1>5. CASE ~created
  BY <1>1, <1>2, <1>3, <1>5, Zenon DEF SlotInv, HasKey
<1> QED
  BY <1>4, <1>5, Zenon

\* A transaction keeps what it knows during the steps of the others.
LEMMA OthersKeep ==
    ASSUME TypeOK, TableInv, TypeOK', OverflowBounded', Exclusion', NEW t \in Transactions,
           Frame(t), NEW u \in Transactions, u # t, TxInv(u)
    PROVE  TxInv(u)'
<1>0. PICK l \in Calls, q \in Seq(RmwStatuses) :
          call[u] = l /\ call'[u] = l /\ rmw[u] = q /\ rmw'[u] = q
  BY DEF Frame, OthersStay, TypeOK
<1>1. /\ pc'[u] = pc[u] /\ OverflowBounded
      /\ l.chunk \in Chunks /\ l.slot \in Slots /\ l.created \in BOOLEAN /\ l.chunk \in Nat
  BY ConstantsSound, Zenon DEF TableInv, Frame, OthersStay, Calls
<1>2. \A k \in Keys : metadata'[HomeOf[k]].overflowed_chunks_counter
                          >= metadata[HomeOf[k]].overflowed_chunks_counter
  BY ConstantsSound, Zenon DEF Frame, OverflowGrows
<1>3. SearchInv(u)'
  <2>1. ASSUME pc[u] = "upgrade"
        PROVE  Holds(u, l.chunk)' /\ HasKey(l.key, l.chunk, l.slot)'
    <3>1. Holds(u, l.chunk) /\ HasKey(l.key, l.chunk, l.slot)
      BY <1>0, <2>1, Zenon DEF TxInv, SearchInv
    <3>2. Holds(u, l.chunk)' /\ keys_values'[l.chunk] = keys_values[l.chunk]
      BY <1>1, <3>1, HeldStays, Zenon
    <3> QED
      BY <3>1, <3>2, Zenon DEF HasKey
  <2>2. SearchInv(u)
    BY Zenon DEF TxInv
  <2> QED
    BY <1>0, <1>1, <2>1, <2>2, Zenon DEF SearchInv
<1>4. ASSUME pc[u] \in Writing
      PROVE  l.key \in Keys /\ HomeOf[l.key] \in Chunks /\ HomeOf[l.key] \in Nat
  <2>1. l.key \in Keys
    BY <1>0, <1>4, Zenon DEF TxInv, WriteInv
  <2> QED
    BY <2>1, ConstantsSound, Zenon
<1>5. ASSUME NEW d \in Chunks, writer[d] = u
      PROVE  /\ writer'[d] = u /\ SearchLimit(d)' = SearchLimit(d)
             /\ \A k \in Keys, s \in Slots : HasKey(k, d, s)' <=> HasKey(k, d, s)
  <2>1. keys_values'[d] = keys_values[d] /\ writer'[d] = u /\ metadata'[d] = metadata[d]
    BY <1>5, OwnedStays, Zenon
  <2> QED
    BY <2>1, Zenon DEF HasKey, SearchLimit
<1>6. ASSUME pc[u] = "write_search" PROVE WriteSearchInv(u)'
  <2>0. PICK home \in Chunks : home = HomeOf[l.key] /\ home \in Nat /\ l.key \in Keys
    BY <1>4, <1>6, Zenon DEF Writing
  <2>1. /\ home <= l.chunk
        /\ l.chunk > home => l.limit = SearchLimit(home) /\ l.chunk <= l.limit
        /\ l.free = ChunksCount \/ l.free \in home .. l.chunk - 1
        /\ \A d \in home .. l.chunk - 1 : writer[d] = u /\ \A s \in Slots : ~HasKey(l.key, d, s)
    BY <1>0, <1>6, <2>0, Zenon DEF TxInv, WriteInv, WriteSearchInv
  <2>2. \A d \in home .. l.chunk - 1 : d \in Chunks
    BY <1>1, <2>0, ChunksBetween
  <2>3. \A d \in home .. l.chunk - 1 : writer'[d] = u /\ \A s \in Slots : ~HasKey(l.key, d, s)'
    BY <1>5, <2>0, <2>1, <2>2, Zenon
  <2>4. l.chunk > home => home \in home .. l.chunk - 1
    BY <1>1, <2>0
  <2>5. l.chunk > home => SearchLimit(home)' = SearchLimit(home)
    BY <1>5, <2>1, <2>4, Zenon
  <2> QED
    BY <1>0, <2>0, <2>1, <2>3, <2>5, Zenon DEF WriteSearchInv
<1>7. ASSUME pc[u] = "write_create" PROVE WriteCreateInv(u)'
  <2>0. PICK home \in Chunks : home = HomeOf[l.key] /\ home \in Nat /\ l.key \in Keys
    BY <1>4, <1>7, Zenon DEF Writing
  <2>1. /\ l.chunk \in home .. home + SearchMax - 1
        /\ Absent(l.key) /\ OwnsReach(u, l.key)
        /\ \A d \in home .. l.chunk - 1 : writer[d] = u
    BY <1>0, <1>7, <2>0, Zenon DEF TxInv, WriteInv, WriteCreateInv
  <2>2. \A d \in home .. l.chunk - 1 : d \in Chunks
    BY <1>1, <2>0, ChunksBetween
  <2>3. \A d \in home .. l.chunk - 1 : writer'[d] = u
    BY <1>5, <2>1, <2>2, Zenon
  <2>4. Absent(l.key)' /\ OwnsReach(u, l.key)'
    BY <1>1, <2>0, <2>1, ReachStays, Zenon
  <2> QED
    BY <1>0, <2>0, <2>1, <2>3, <2>4, Zenon DEF WriteCreateInv
<1>8. ASSUME pc[u] = "fill"
      PROVE  SlotInv(u, l.key, l.chunk, l.slot, l.created)'
  <2>1. l.key \in Keys /\ SlotInv(u, l.key, l.chunk, l.slot, l.created)
    BY <1>0, <1>4, <1>8, Zenon DEF Writing, TxInv, WriteInv
  <2> QED
    BY <1>1, <1>2, <2>1, SlotStays, Zenon
<1>9. WriteInv(u)'
  <2>1. WriteInv(u)
    BY Zenon DEF TxInv
  <2> QED
    BY <1>0, <1>1, <1>6, <1>7, <1>8, <2>1, Zenon DEF WriteInv
<1>10. RmwInv(u)'
  <2>1. RmwInv(u)
    BY Zenon DEF TxInv
  <2>2. ASSUME NEW i \in DOMAIN q
        PROVE  SlotInv(u, q[i].key, q[i].chunk, q[i].slot, q[i].created_new)'
    <3>1. SlotInv(u, q[i].key, q[i].chunk, q[i].slot, q[i].created_new)
      BY <1>0, <2>1, Zenon DEF RmwInv, RmwSlots
    <3>2. /\ q[i].key \in Keys /\ q[i].chunk \in Chunks
          /\ q[i].slot \in Slots /\ q[i].created_new \in BOOLEAN
      BY <1>0, RmwIsSeq
    <3> QED
      BY <1>1, <1>2, <3>1, <3>2, SlotStays, Zenon
  <2> QED
    BY <1>0, <1>1, <2>1, <2>2, Zenon DEF RmwInv, RmwSlots
<1> QED
  BY <1>3, <1>9, <1>10, Zenon DEF TxInv

-----------------------------------------------------------------------------
(***************************************************************************)
(* The locks.                                                              *)
(***************************************************************************)
LEMMA LockTypes ==
    ASSUME TypeOK
    PROVE  /\ readers \in [Chunks -> [Transactions -> 0 .. MaxOps]]
           /\ writer \in [Chunks -> Transactions \cup {NoTransaction}]
           /\ MaxOps \in Nat /\ NoTransaction \notin Transactions
BY HashtableAssumption DEF TypeOK

LEMMA LockForReadIs ==
    ASSUME TypeOK, Exclusion, NEW t \in Transactions, NEW c \in Chunks, LockForRead(t, c)
    PROVE  /\ writer' = writer /\ Exclusion' /\ LocksOfOthersStay(t) /\ Holds(t, c)'
           /\ readers' \in [Chunks -> [Transactions -> Nat]]
           /\ \A d \in Chunks \ {c} : readers'[d][t] = readers[d][t]
           /\ readers'[c][t] <= readers[c][t] + 1 /\ readers'[c][t] >= readers[c][t]
<1>0. /\ readers \in [Chunks -> [Transactions -> Nat]]
      /\ writer \in [Chunks -> Transactions \cup {NoTransaction}] /\ NoTransaction \notin Transactions
  BY LockTypes
<1>1. CASE writer[c] = t
  <2>1. readers' = readers /\ writer' = writer
    BY <1>1 DEF LockForRead, IsOwnedBy, locks
  <2> QED
    BY <1>0, <1>1, <2>1 DEF Exclusion, LocksOfOthersStay, Holds
<1>2. CASE writer[c] # t
  <2>1. /\ writer[c] = NoTransaction /\ writer' = writer
        /\ readers' = [readers EXCEPT ![c][t] = @ + 1]
    BY <1>2 DEF LockForRead, IsOwnedBy, CanLockForRead
  <2>2. /\ readers' \in [Chunks -> [Transactions -> Nat]]
        /\ \A d \in Chunks, u \in Transactions :
              readers'[d][u] = IF d = c /\ u = t THEN readers[d][u] + 1 ELSE readers[d][u]
    BY <1>0, <2>1
  <2>3. Exclusion'
    BY <1>0, <2>1, <2>2 DEF Exclusion
  <2>4. readers[c][t] \in Nat
    BY <1>0
  <2> QED
    BY <2>1, <2>2, <2>3, <2>4 DEF LocksOfOthersStay, Holds
<1> QED
  BY <1>1, <1>2

\* The write lock and the upgrade leave the readers alone.
LEMMA OwnIs ==
    ASSUME TypeOK, Exclusion, NEW t \in Transactions, NEW c \in Chunks, readers' = readers,
           \/ writer[c] = t /\ writer' = writer
           \/ /\ writer[c] = NoTransaction /\ writer' = [writer EXCEPT ![c] = t]
              /\ \A u \in Transactions \ {t} : readers[c][u] = 0
    PROVE  /\ writer' \in [Chunks -> Transactions \cup {NoTransaction}]
           /\ writer'[c] = t /\ \A d \in Chunks \ {c} : writer'[d] = writer[d]
           /\ Exclusion' /\ LocksOfOthersStay(t)
<1>0. writer \in [Chunks -> Transactions \cup {NoTransaction}] /\ NoTransaction \notin Transactions
  BY LockTypes
<1>1. CASE writer[c] = t /\ writer' = writer
  BY <1>0, <1>1 DEF Exclusion, LocksOfOthersStay
<1>2. CASE /\ writer[c] = NoTransaction /\ writer' = [writer EXCEPT ![c] = t]
           /\ \A u \in Transactions \ {t} : readers[c][u] = 0
  <2>1. writer'[c] = t /\ \A d \in Chunks \ {c} : writer'[d] = writer[d]
    BY <1>0, <1>2
  <2>2. Exclusion'
    BY <1>0, <1>2, <2>1, ZenonT(30) DEF Exclusion
  <2>3. LocksOfOthersStay(t)
    BY <1>0, <1>2, <2>1, Zenon DEF LocksOfOthersStay
  <2> QED
    BY <1>0, <1>2, <2>1, <2>2, <2>3, Zenon
<1> QED
  BY <1>1, <1>2

LEMMA LockForWriteIs ==
    ASSUME TypeOK, Exclusion, NEW t \in Transactions, NEW c \in Chunks, LockForWrite(t, c)
    PROVE  /\ writer' \in [Chunks -> Transactions \cup {NoTransaction}] /\ readers' = readers
           /\ writer'[c] = t /\ \A d \in Chunks \ {c} : writer'[d] = writer[d]
           /\ Exclusion' /\ LocksOfOthersStay(t)
<1>1. /\ readers' = readers
      /\ \/ writer[c] = t /\ writer' = writer
         \/ /\ writer[c] = NoTransaction /\ writer' = [writer EXCEPT ![c] = t]
            /\ \A u \in Transactions \ {t} : readers[c][u] = 0
  BY DEF LockForWrite, IsOwnedBy, locks, CanLockForWrite, Unread
<1> QED
  BY <1>1, OwnIs

LEMMA UpgradeLockIs ==
    ASSUME TypeOK, Exclusion, NEW t \in Transactions, NEW c \in Chunks, UpgradeLock(t, c)
    PROVE  /\ writer' \in [Chunks -> Transactions \cup {NoTransaction}] /\ readers' = readers
           /\ writer'[c] = t /\ \A d \in Chunks \ {c} : writer'[d] = writer[d]
           /\ Exclusion' /\ LocksOfOthersStay(t)
<1>1. /\ readers' = readers
      /\ \/ writer[c] = t /\ writer' = writer
         \/ /\ writer[c] = NoTransaction /\ writer' = [writer EXCEPT ![c] = t]
            /\ \A u \in Transactions \ {t} : readers[c][u] = 0
  BY DEF UpgradeLock, IsOwnedBy, locks, CanUpgrade, Unread
<1> QED
  BY <1>1, OwnIs, Zenon

-----------------------------------------------------------------------------
(***************************************************************************)
(* Steps that leave the table alone.                                       *)
(***************************************************************************)
LEMMA OthersBounded ==
    ASSUME NEW t \in Transactions, OthersStay(t), LocksOfOthersStay(t),
           NEW u \in Transactions, u # t, ReadsBounded(u)
    PROVE  ReadsBounded(u)'
<1>1. /\ pc'[u] = pc[u] /\ call'[u] = call[u] /\ ops'[u] = ops[u]
      /\ \A c \in Chunks : readers'[c][u] = readers[c][u] /\ (writer'[c] = u <=> writer[c] = u)
  BY DEF OthersStay, LocksOfOthersStay
<1> QED
  BY <1>1 DEF ReadsBounded

LEMMA TableStays ==
    ASSUME TypeOK, TableInv, UNCHANGED table, NEW t \in Transactions, OthersStay(t),
           pc[t] # "fill" \/ ~call[t].created, \A c \in Chunks : CreatedIn(t, c) \subseteq CreatedIn(t, c)'
    PROVE  TableInv'
<1>1. half_hashes' = half_hashes /\ metadata' = metadata /\ keys_values' = keys_values
  BY DEF table
<1>2. ASSUME NEW c \in Chunks, NEW s \in Slots, Pending(c, s) PROVE Pending(c, s)'
  <2>1. PICK u \in Transactions :
           \/ pc[u] = "fill" /\ call[u].created /\ call[u].chunk = c /\ call[u].slot = s
           \/ s \in CreatedIn(u, c)
    BY <1>2 DEF Pending
  <2>2. CASE u = t
    BY <2>1, <2>2, Zenon DEF Pending
  <2>3. CASE u # t
    <3>1. pc'[u] = pc[u] /\ call'[u] = call[u] /\ rmw'[u] = rmw[u]
      BY <2>3, Zenon DEF OthersStay
    <3>2. CreatedIn(u, c)' = CreatedIn(u, c)
      BY <3>1, Zenon DEF CreatedIn
    <3> QED
      BY <2>1, <3>1, <3>2, Zenon DEF Pending
  <2> QED
    BY <2>2, <2>3, Zenon
<1>3. ASSUME NEW c \in Chunks, NEW s \in Slots PROVE SlotSound(c, s)'
  <2>1. SlotSound(c, s)
    BY Zenon DEF TableInv, SlotsSound
  <2> QED
    BY <1>1, <1>2, <2>1, Zenon DEF SlotSound, Reach, SearchLimit
<1>4. OneSlotPerKey' /\ OccupancyExact' /\ OverflowBounded'
  BY <1>1 DEF TableInv, OneSlotPerKey, HasKey, OccupancyExact, FreeSlots, OverflowBounded
<1> QED
  BY <1>3, <1>4 DEF TableInv, SlotsSound

LEMMA QuietFrame ==
    ASSUME TypeOK, UNCHANGED table, NEW t \in Transactions, OthersStay(t), LocksOfOthersStay(t)
    PROVE  Frame(t)
<1>1. half_hashes' = half_hashes /\ metadata' = metadata /\ keys_values' = keys_values
  BY Zenon DEF table
<1>2. \A c \in Chunks : metadata[c].overflowed_chunks_counter \in Int
  <2>1. \A c \in Chunks : metadata[c] \in Metadata
    BY DEF TypeOK
  <2> QED
    BY <2>1 DEF Metadata
<1> QED
  BY <1>1, <1>2 DEF Frame, OtherChunksStay, NewKeysReached, HasKey, OverflowGrows

\* A step of t that writes no slot: what is left is what t itself knows afterwards.
LEMMA QuietStep ==
    ASSUME IInv, UNCHANGED table, NEW t \in Transactions, OthersStay(t), LocksOfOthersStay(t),
           pc[t] # "fill" \/ ~call[t].created, \A c \in Chunks : CreatedIn(t, c) \subseteq CreatedIn(t, c)',
           TypeOK', Exclusion', ReadsBounded(t)', TxInv(t)'
    PROVE  IInv' /\ Frame(t)
<1>1. TypeOK /\ TableInv /\ \A u \in Transactions : ReadsBounded(u) /\ TxInv(u)
  BY DEF IInv
<1>2. TableInv' /\ Frame(t)
  BY <1>1, TableStays, QuietFrame, Zenon
<1>3. OverflowBounded'
  BY <1>2 DEF TableInv
<1>4. \A u \in Transactions \ {t} : ReadsBounded(u)' /\ TxInv(u)'
  BY <1>1, <1>2, <1>3, OthersBounded, OthersKeep, Zenon
<1> QED
  BY <1>2, <1>4 DEF IInv

\* The slots of t's own read-modify-writes, while t writes none of them.
LEMMA OwnSlotsStay ==
    ASSUME TypeOK, UNCHANGED table, NEW t \in Transactions, RmwSlots(t), rmw'[t] = rmw[t],
           OverflowBounded, \A c \in Chunks : writer[c] = t => writer'[c] = t
    PROVE  RmwSlots(t)'
<1>0. PICK q \in Seq(RmwStatuses) : rmw[t] = q /\ rmw'[t] = q
  BY DEF TypeOK
<1>1. half_hashes' = half_hashes /\ metadata' = metadata /\ keys_values' = keys_values
  BY Zenon DEF table
<1>2. ASSUME NEW i \in DOMAIN q
      PROVE  SlotInv(t, q[i].key, q[i].chunk, q[i].slot, q[i].created_new)'
  <2>1. SlotInv(t, q[i].key, q[i].chunk, q[i].slot, q[i].created_new)
    BY <1>0, Zenon DEF RmwSlots
  <2>2. /\ q[i].key \in Keys /\ q[i].chunk \in Chunks
        /\ q[i].slot \in Slots /\ q[i].created_new \in BOOLEAN
    BY <1>0, RmwIsSeq, Zenon
  <2>3. Reach(q[i].key)' = Reach(q[i].key) /\ Reach(q[i].key) \subseteq Chunks
    BY <1>1, <2>2, ReachSound, Zenon DEF Reach, SearchLimit
  <2>4. OwnsReach(t, q[i].key) => OwnsReach(t, q[i].key)'
    BY <2>3, Zenon DEF OwnsReach
  <2>5. Absent(q[i].key) => Absent(q[i].key)'
    BY <1>1, Zenon DEF Absent, HasKey
  <2> QED
    BY <1>1, <2>1, <2>2, <2>3, <2>4, <2>5, Zenon DEF SlotInv, HasKey
<1> QED
  BY <1>0, <1>2, Zenon DEF RmwSlots

-----------------------------------------------------------------------------
(***************************************************************************)
(* Beginning and ending an operation.                                      *)
(***************************************************************************)
Replies == Values \cup {NoValue, NoReply, Failed}

LEMMA NoCallSound == NoCall \in Calls /\ NoCall.op = "none"
<1>1. 0 \in Chunks /\ 0 \in Slots
  BY HashtableAssumption DEF Chunks, ChunksCount, Slots
<1> QED
  BY <1>1, Zenon DEF NoCall, Calls

LEMMA CallChanges ==
    ASSUME TypeOK, NEW t \in Transactions, NEW p \in PCs, NEW l \in Calls,
           pc' = [pc EXCEPT ![t] = p], call' = [call EXCEPT ![t] = l]
    PROVE  /\ pc' \in [Transactions -> PCs] /\ call' \in [Transactions -> Calls]
           /\ pc'[t] = p /\ call'[t] = l
           /\ \A u \in Transactions \ {t} : pc'[u] = pc[u] /\ call'[u] = call[u]
BY DEF TypeOK

LEMMA ReturnIs ==
    ASSUME TypeOK, NEW t \in Transactions, NEW r \in Replies, Return(t, r)
    PROVE  /\ pc' \in [Transactions -> PCs] /\ call' \in [Transactions -> Calls]
           /\ reply' \in [Transactions -> Replies] /\ pc'[t] = "ready" /\ call'[t] = NoCall
           /\ \A u \in Transactions \ {t} : pc'[u] = pc[u] /\ call'[u] = call[u]
<1>1. reply' \in [Transactions -> Replies]
  BY DEF Return, TypeOK, Replies
<1>2. pc' = [pc EXCEPT ![t] = "ready"] /\ call' = [call EXCEPT ![t] = NoCall]
  BY DEF Return
<1>3. "ready" \in PCs
  BY DEF PCs
<1> QED
  BY <1>1, <1>2, <1>3, NoCallSound, CallChanges, Zenon

\* Between two operations only the read-modify-writes that are open matter.
LEMMA ReadyKnows ==
    ASSUME NEW t \in Transactions, pc'[t] = "ready", call'[t] = NoCall, RmwSlots(t)'
    PROVE  TxInv(t)'
BY NoCallSound DEF TxInv, SearchInv, WriteInv, RmwInv, Searching, Writing

-----------------------------------------------------------------------------
(***************************************************************************)
(* The steps inside an operation that take a lock or look at the table.    *)
(***************************************************************************)
LockStep(t) ==
    /\ readers' \in [Chunks -> [Transactions -> Nat]]
    /\ writer' \in [Chunks -> Transactions \cup {NoTransaction}]
    /\ Exclusion' /\ LocksOfOthersStay(t) /\ \A c \in Chunks : writer[c] = t => writer'[c] = t

LEMMA LockStepIs ==
    ASSUME TypeOK, Exclusion, NEW t \in Transactions, NEW c \in Chunks,
           \/ UNCHANGED locks \/ LockForRead(t, c) \/ LockForWrite(t, c) \/ UpgradeLock(t, c)
    PROVE  LockStep(t)
<1>0. /\ readers \in [Chunks -> [Transactions -> Nat]]
      /\ writer \in [Chunks -> Transactions \cup {NoTransaction}]
  BY LockTypes
<1>1. CASE UNCHANGED locks
  BY <1>0, <1>1, Zenon DEF locks, LockStep, Exclusion, LocksOfOthersStay
<1>2. CASE LockForRead(t, c)
  BY <1>0, <1>2, LockForReadIs, Zenon DEF LockStep
<1>3. CASE LockForWrite(t, c)
  BY <1>0, <1>3, LockForWriteIs, Zenon DEF LockStep
<1>4. CASE UpgradeLock(t, c)
  BY <1>0, <1>4, UpgradeLockIs, Zenon DEF LockStep
<1> QED
  BY <1>1, <1>2, <1>3, <1>4, Zenon

\* The variables beside the table, the locks and the operation in progress.
OwnVariables(t) ==
    /\ ops' \in [Transactions -> 0 .. MaxOps] /\ rmw' \in [Transactions -> Seq(RmwStatuses)]
    /\ \A u \in Transactions \ {t} : ops'[u] = ops[u] /\ rmw'[u] = rmw[u]
    /\ indexed' \in [Transactions -> SUBSET (Chunks \X Slots)]
    /\ reads' \in [Transactions -> SUBSET Keys] /\ claims' \in [Transactions -> SUBSET Keys]

LEMMA StepTypes ==
    ASSUME TypeOK, NEW t \in Transactions, LockStep(t), OwnVariables(t),
           half_hashes' \in [Chunks -> [Slots -> SlotIds]], metadata' \in [Chunks -> Metadata],
           keys_values' \in [Chunks -> [Slots -> KeyValues]],
           pc' \in [Transactions -> PCs], call' \in [Transactions -> Calls],
           reply' \in [Transactions -> Replies], \A c \in Chunks : readers'[c][t] <= ops'[t]
    PROVE  TypeOK'
<1>1. ASSUME NEW c \in Chunks, NEW u \in Transactions PROVE readers'[c][u] \in 0 .. MaxOps
  <2>1. readers'[c][u] \in Nat
    BY DEF LockStep
  <2>2. CASE u = t
    <3>1. PICK n \in 0 .. MaxOps : readers'[c][t] <= n
      BY Zenon DEF OwnVariables
    <3>2. MaxOps \in Nat
      BY HashtableAssumption, Zenon
    <3> QED
      BY <2>1, <2>2, <3>1, <3>2
  <2>3. CASE u # t
    <3>1. readers'[c][u] = readers[c][u]
      BY <2>3, Zenon DEF LockStep, LocksOfOthersStay
    <3>2. readers[c][u] \in 0 .. MaxOps
      BY Zenon DEF TypeOK
    <3> QED
      BY <3>1, <3>2, Zenon
  <2> QED
    BY <2>2, <2>3, Zenon
<1>2. readers' \in [Chunks -> [Transactions -> 0 .. MaxOps]]
  BY <1>1 DEF LockStep
<1> QED
  BY <1>2, Zenon DEF TypeOK, LockStep, OwnVariables, Replies

LEMMA QuietReturn ==
    ASSUME IInv, NEW t \in Transactions, NEW r \in Replies, Return(t, r), UNCHANGED table,
           rmw' = rmw, OwnVariables(t), LockStep(t), pc[t] # "fill",
           \A c \in Chunks : readers'[c][t] <= ops'[t]
    PROVE  IInv' /\ Frame(t)
<1>0. TypeOK /\ Exclusion /\ TableInv /\ OverflowBounded /\ RmwSlots(t)
  BY DEF IInv, TableInv, TxInv, RmwInv
<1>1. /\ pc' \in [Transactions -> PCs] /\ call' \in [Transactions -> Calls]
      /\ reply' \in [Transactions -> Replies] /\ pc'[t] = "ready" /\ call'[t] = NoCall
      /\ \A u \in Transactions \ {t} : pc'[u] = pc[u] /\ call'[u] = call[u]
  BY <1>0, ReturnIs, Zenon
<1>2. TypeOK'
  <2>1. /\ half_hashes' \in [Chunks -> [Slots -> SlotIds]] /\ metadata' \in [Chunks -> Metadata]
        /\ keys_values' \in [Chunks -> [Slots -> KeyValues]]
    BY <1>0, Zenon DEF TypeOK, table
  <2> QED
    BY <1>0, <1>1, <2>1, StepTypes, Zenon
<1>3. RmwSlots(t)'
  <2>1. \A c \in Chunks : writer[c] = t => writer'[c] = t
    BY DEF LockStep
  <2> QED
    BY <1>0, <2>1, OwnSlotsStay, Zenon
<1>4. TxInv(t)'
  BY <1>1, <1>3, ReadyKnows, Zenon
<1>5. OthersStay(t) /\ \A c \in Chunks : CreatedIn(t, c) \subseteq CreatedIn(t, c)'
  BY <1>1, Zenon DEF OthersStay, CreatedIn, OwnVariables
<1>6. ReadsBounded(t)'
  BY <1>1, Zenon DEF ReadsBounded, Reading
<1>7. Exclusion' /\ LocksOfOthersStay(t)
  BY Zenon DEF LockStep
<1> QED
  BY <1>2, <1>4, <1>5, <1>6, <1>7, QuietStep, Zenon

LEMMA QuietContinue ==
    ASSUME IInv, NEW t \in Transactions, NEW p \in PCs \ {"idle", "release", "ready"},
           NEW l \in Calls, Continue(t, p, l), UNCHANGED table, ops' = ops, rmw' = rmw,
           OwnVariables(t), LockStep(t), pc[t] \notin {"fill", "idle", "release"}, l.op = call[t].op,
           \A c \in Chunks : readers'[c][t] <= ops'[t], ReadsBounded(t)', SearchInv(t)', WriteInv(t)'
    PROVE  IInv' /\ Frame(t)
<1>0. TypeOK /\ Exclusion /\ TableInv /\ OverflowBounded /\ RmwInv(t)
  BY DEF IInv, TableInv, TxInv
<1>1. /\ pc' \in [Transactions -> PCs] /\ call' \in [Transactions -> Calls]
      /\ reply' \in [Transactions -> Replies] /\ pc'[t] = p /\ call'[t] = l
      /\ \A u \in Transactions \ {t} : pc'[u] = pc[u] /\ call'[u] = call[u]
  <2>1. pc' = [pc EXCEPT ![t] = p] /\ call' = [call EXCEPT ![t] = l] /\ reply' = reply
    BY Zenon DEF Continue
  <2>2. reply' \in [Transactions -> Replies]
    BY <1>0, <2>1, Zenon DEF TypeOK, Replies
  <2> QED
    BY <1>0, <2>1, <2>2, CallChanges, Zenon
<1>2. TypeOK'
  <2>1. /\ half_hashes' \in [Chunks -> [Slots -> SlotIds]] /\ metadata' \in [Chunks -> Metadata]
        /\ keys_values' \in [Chunks -> [Slots -> KeyValues]]
    BY <1>0, Zenon DEF TypeOK, table
  <2> QED
    BY <1>0, <1>1, <2>1, StepTypes, Zenon
<1>3. RmwSlots(t)'
  <2>1. \A c \in Chunks : writer[c] = t => writer'[c] = t
    BY Zenon DEF LockStep
  <2> QED
    BY <1>0, <2>1, OwnSlotsStay, Zenon DEF RmwInv
<1>4. TxInv(t)'
  BY <1>0, <1>1, <1>3, Zenon DEF TxInv, RmwInv
<1>5. OthersStay(t) /\ \A c \in Chunks : CreatedIn(t, c) \subseteq CreatedIn(t, c)'
  BY <1>1, Zenon DEF OthersStay, CreatedIn, OwnVariables
<1>6. Exclusion' /\ LocksOfOthersStay(t)
  BY DEF LockStep
<1> QED
  BY <1>2, <1>4, <1>5, <1>6, QuietStep, Zenon

\* A chunk with a slot in use is not skipped.
LEMMA InUseIsCounted ==
    ASSUME SlotSets, TypeOK, OccupancyExact, NEW c \in Chunks, NEW s \in Slots,
           half_hashes[c][s] # NoSlotId
    PROVE  metadata[c].slots_occupied # 0
<1>1. s \in Slots \ FreeSlots(c)
  BY DEF FreeSlots
<1>2. SlotSet(Slots \ FreeSlots(c))
  BY DEF SlotSets
<1>3. Cardinality(Slots \ FreeSlots(c)) # 0
  BY <1>1, <1>2, Zenon DEF SlotSet
<1> QED
  BY <1>3 DEF OccupancyExact

LEMMA ReachedSlotId ==
    ASSUME TypeOK, OverflowBounded, NEW k \in Keys, NEW c \in Reach(k)
    PROVE  SlotId(k, c) # NoSlotId
<1>1. /\ SearchLimit(HomeOf[k]) \in HomeOf[k] .. HomeOf[k] + SearchMax - 1 /\ HomeOf[k] \in Nat
      /\ SearchMax \in Nat
  BY ReachSound, ConstantsSound
<1>2. PICK n \in Nat : n = SearchLimit(HomeOf[k]) /\ n <= HomeOf[k] + SearchMax - 1
  BY <1>1
<1>3. c \in HomeOf[k] .. HomeOf[k] + SearchMax - 1
  BY <1>1, <1>2 DEF Reach
<1> QED
  BY <1>3, SlotIdSound, Zenon

\* A key that is in a chunk has its slot id there.
LEMMA StoredKey ==
    ASSUME SlotSets, TypeOK, TableInv, NEW k \in Keys, NEW c \in Chunks, NEW s \in Slots, HasKey(k, c, s)
    PROVE  /\ c \in Reach(k) /\ half_hashes[c][s] = SlotId(k, c) /\ half_hashes[c][s] # NoSlotId
           /\ s \in SlotsMatching(k, c) /\ metadata[c].slots_occupied # 0
<1>1. SlotSound(c, s)
  BY DEF TableInv, SlotsSound
<1>2. c \in Reach(k) /\ half_hashes[c][s] = SlotId(k, c) /\ keys_values[c][s].key = k
  BY <1>1 DEF SlotSound, HasKey
<1>4. half_hashes[c][s] # NoSlotId
  BY <1>2, ReachedSlotId, Zenon DEF TableInv
<1>5. metadata[c].slots_occupied # 0
  BY <1>4, InUseIsCounted, Zenon DEF TableInv
<1> QED
  BY <1>2, <1>4, <1>5, Zenon DEF SlotsMatching, WithSlotId

\* A slot with the key in it is filled.
LEMMA MatchedSlot ==
    ASSUME SlotSets, TypeOK, TableInv, NEW k \in Keys, NEW c \in Chunks, SlotsMatching(k, c) # {}
    PROVE  /\ Min(SlotsMatching(k, c)) \in Slots
           /\ HasKey(k, c, Min(SlotsMatching(k, c)))
<1>1. SlotsMatching(k, c) \in SUBSET Slots
  BY DEF SlotsMatching, WithSlotId
<1>2. PICK s \in SlotsMatching(k, c) : s = Min(SlotsMatching(k, c))
  BY <1>1, LeastSlot, Zenon
<1>3. s \in Slots /\ keys_values[c][s].key = k
  BY <1>1, <1>2, Zenon DEF SlotsMatching
<1>4. SlotSound(c, s)
  BY <1>3, Zenon DEF TableInv, SlotsSound
<1>5. keys_values[c][s].flags = "FILLED"
  BY <1>3, <1>4, HashtableAssumption, Zenon DEF SlotSound
<1> QED
  BY <1>2, <1>3, <1>5, Zenon DEF HasKey

\* The slots of the read-modify-writes that are open, with one more.
OwnSlotsHold(t) ==
    \A o \in Range(rmw[t]) : SlotInv(t, o.key, o.chunk, o.slot, o.created_new)'
NotOpen(t, c, s) == \A i \in DOMAIN rmw[t] : rmw[t][i].chunk # c \/ rmw[t][i].slot # s

LEMMA AppendedSlots ==
    ASSUME TypeOK, NEW t \in Transactions, NEW r \in RmwStatuses, rmw'[t] = Append(rmw[t], r),
           RmwSlots(t), SlotInv(t, r.key, r.chunk, r.slot, r.created_new)',
           \A i \in DOMAIN rmw[t] : Distinct(rmw[t][i], r),
           OwnSlotsHold(t)
    PROVE  RmwSlots(t)'
<1>0. PICK q \in Seq(RmwStatuses) : q = rmw[t] /\ Len(q) \in Nat /\ DOMAIN q = 1 .. Len(q)
  BY RmwIsSeq
<1>1. PICK p \in Seq(RmwStatuses) : p = Append(q, r) /\ rmw'[t] = p
  BY <1>0, AppendIs, Zenon
<1>2. /\ DOMAIN p = 1 .. Len(q) + 1 /\ p[Len(q) + 1] = r /\ \A i \in DOMAIN q : p[i] = q[i]
  BY <1>0, <1>1, AppendIs
<1>3. \A i \in DOMAIN p : i \in DOMAIN q \/ i = Len(q) + 1
  BY <1>0, <1>2
<1>4. ASSUME NEW i \in DOMAIN p
      PROVE  SlotInv(t, p[i].key, p[i].chunk, p[i].slot, p[i].created_new)'
  <2>1. CASE i \in DOMAIN q
    <3>1. PICK o \in Range(rmw[t]) : o = p[i]
      BY <1>0, <1>2, <2>1, Zenon DEF Range
    <3>2. SlotInv(t, o.key, o.chunk, o.slot, o.created_new)'
      BY DEF OwnSlotsHold
    <3> QED
      BY <3>1, <3>2, Zenon
  <2>2. CASE i = Len(q) + 1
    BY <1>2, <2>2, Zenon
  <2> QED
    BY <1>3, <2>1, <2>2, Zenon
<1>5. ASSUME NEW i \in DOMAIN p, NEW j \in DOMAIN p, i # j PROVE Distinct(p[i], p[j])
  <2>1. \A m, n \in DOMAIN q : m # n => Distinct(q[m], q[n])
    BY <1>0, Zenon DEF RmwSlots
  <2>2. \A m \in DOMAIN q : Distinct(q[m], r) /\ Distinct(r, q[m])
    BY <1>0 DEF Distinct
  <2> QED
    BY <1>2, <1>3, <1>5, <2>1, <2>2, Zenon
<1> QED
  BY <1>1, <1>4, <1>5, Zenon DEF RmwSlots

LEMMA SlotReadyIs ==
    ASSUME TypeOK, NEW t \in Transactions, pc[t] \in {"write_search", "write_create"},
           WriteInv(t), RmwInv(t), NEW c \in Chunks, NEW s \in Slots, NEW created \in BOOLEAN,
           SlotReady(t, c, s, created), ops' = ops, indexed' = indexed,
           NEW k \in Keys, k = call[t].key, SlotInv(t, k, c, s, created)',
           NotOpen(t, c, s),
           OwnSlotsHold(t)
    PROVE  /\ pc' \in [Transactions -> PCs] /\ call' \in [Transactions -> Calls]
           /\ reply' \in [Transactions -> Replies] /\ OwnVariables(t) /\ OthersStay(t)
           /\ pc'[t] \in {"fill", "ready"} /\ TxInv(t)'
           /\ \A d \in Chunks : CreatedIn(t, d) \subseteq CreatedIn(t, d)'
           /\ created => Pending(c, s)'
<1>0. PICK l \in Calls : l = call[t] /\ l.created \in BOOLEAN
  BY Zenon DEF TypeOK, Calls
<1>1. /\ l.key \in Keys /\ l.op \in {"set", "rmw"} /\ (l.op = "set" => l.value \in Values)
      /\ \A i \in DOMAIN rmw[t] : rmw[t][i].key # l.key
  BY <1>0 DEF WriteInv, Writing
<1>2. reads' = reads /\ SlotInv(t, l.key, c, s, created)'
  BY <1>0, Zenon DEF SlotReady
<1>3. CASE l.op = "set"
  <2>1. PICK m \in Calls : m = [l EXCEPT !.chunk = c, !.slot = s, !.created = created]
    BY Zenon DEF Calls
  <2>2. /\ m.op = "set" /\ m.key = l.key /\ m.value = l.value
        /\ m.chunk = c /\ m.slot = s /\ m.created = created
    BY <1>3, <2>1, Zenon DEF Calls
  <2>3. Continue(t, "fill", m) /\ rmw' = rmw /\ claims' = claims
    BY <1>0, <1>3, <2>1, Zenon DEF SlotReady
  <2>4. /\ pc' \in [Transactions -> PCs] /\ call' \in [Transactions -> Calls]
        /\ pc'[t] = "fill" /\ call'[t] = m /\ reply' \in [Transactions -> Replies]
        /\ \A u \in Transactions \ {t} : pc'[u] = pc[u] /\ call'[u] = call[u]
    <3>1. pc' = [pc EXCEPT ![t] = "fill"] /\ call' = [call EXCEPT ![t] = m] /\ reply' = reply
      BY <2>3, Zenon DEF Continue
    <3>2. "fill" \in PCs /\ reply' \in [Transactions -> Replies]
      BY <3>1, Zenon DEF PCs, TypeOK, Replies
    <3> QED
      BY <3>1, <3>2, CallChanges, Zenon
  <2>5. OwnVariables(t)
    BY <1>2, <2>3, Zenon DEF OwnVariables, TypeOK
  <2>6. RmwSlots(t)'
    <3>1. PICK q : q = rmw[t] /\ rmw'[t] = q
      BY <2>3, Zenon
    <3>2. ASSUME NEW i \in DOMAIN q
          PROVE  SlotInv(t, q[i].key, q[i].chunk, q[i].slot, q[i].created_new)'
      <4>1. PICK o \in Range(rmw[t]) : o = q[i]
        BY <3>1, Zenon DEF Range
      <4>2. SlotInv(t, o.key, o.chunk, o.slot, o.created_new)'
        BY Zenon DEF OwnSlotsHold
      <4> QED
        BY <4>1, <4>2, Zenon
    <3>3. \A i, j \in DOMAIN q : i # j => Distinct(q[i], q[j])
      BY <3>1, Zenon DEF RmwInv, RmwSlots
    <3> QED
      BY <3>1, <3>2, <3>3, Zenon DEF RmwSlots
  <2>7. RmwInv(t)' /\ SearchInv(t)'
    <3>1. rmw[t] = <<>>
      BY <1>0, <1>3, Zenon DEF RmwInv
    <3> QED
      BY <2>3, <2>4, <2>6, <3>1, Zenon DEF RmwInv, SearchInv, Searching
  <2>8. WriteInv(t)'
    BY <1>1, <1>2, <1>3, <2>2, <2>3, <2>4, Zenon DEF WriteInv, Writing
  <2>9. created => Pending(c, s)'
    BY <2>2, <2>4, Zenon DEF Pending
  <2>10. OthersStay(t) /\ \A d \in Chunks : CreatedIn(t, d) \subseteq CreatedIn(t, d)'
    BY <2>3, <2>4, <2>5, Zenon DEF OthersStay, CreatedIn, OwnVariables
  <2> QED
    BY <2>4, <2>5, <2>7, <2>8, <2>9, <2>10, Zenon DEF TxInv
<1>4. CASE l.op # "set"
  <2>1. PICK r \in RmwStatuses : r = [key |-> l.key, chunk |-> c, slot |-> s, created_new |-> created]
    BY <1>1, Zenon DEF RmwStatuses
  <2>2. /\ Return(t, IF created THEN NoValue ELSE keys_values[c][s].data)
        /\ rmw' = [rmw EXCEPT ![t] = Append(@, r)]
        /\ claims' = [claims EXCEPT ![t] = @ \cup {l.key}]
    BY <1>0, <1>4, <2>1, Zenon DEF SlotReady, NowClaims
  <2>3. PICK v \in Replies : Return(t, v)
    <3>1. keys_values[c][s] \in KeyValues
      BY Zenon DEF TypeOK
    <3> QED
      BY <2>2, <3>1, Zenon DEF KeyValues, Replies
  <2>4. /\ pc' \in [Transactions -> PCs] /\ call' \in [Transactions -> Calls]
        /\ reply' \in [Transactions -> Replies] /\ pc'[t] = "ready" /\ call'[t] = NoCall
        /\ \A u \in Transactions \ {t} : pc'[u] = pc[u] /\ call'[u] = call[u]
    BY <2>3, ReturnIs, Zenon
  <2>5. /\ rmw' \in [Transactions -> Seq(RmwStatuses)] /\ rmw'[t] = Append(rmw[t], r)
        /\ \A u \in Transactions \ {t} : rmw'[u] = rmw[u]
    <3>1. Append(rmw[t], r) \in Seq(RmwStatuses)
      BY RmwIsSeq, AppendIs, Zenon
    <3> QED
      BY <2>2, <3>1, Zenon DEF TypeOK
  <2>6. OwnVariables(t)
    BY <1>1, <1>2, <2>2, <2>5, Zenon DEF OwnVariables, TypeOK
  <2>7. SlotInv(t, r.key, r.chunk, r.slot, r.created_new)'
    BY <1>2, <2>1, Zenon
  <2>8. \A i \in DOMAIN rmw[t] : Distinct(rmw[t][i], r)
    BY <1>1, <2>1, Zenon DEF Distinct, NotOpen
  <2>9. RmwSlots(t)'
    BY <2>5, <2>7, <2>8, AppendedSlots, Zenon DEF RmwInv
  <2>10. TxInv(t)'
    BY <2>4, <2>9, ReadyKnows, Zenon
  <2>11. /\ \A d \in Chunks : CreatedIn(t, d) \subseteq CreatedIn(t, d)'
         /\ created => s \in CreatedIn(t, c)'
    <3>1. PICK q \in Seq(RmwStatuses) : q = rmw[t] /\ Len(q) \in Nat /\ DOMAIN q = 1 .. Len(q)
      BY RmwIsSeq, Zenon
    <3>2. PICK p \in Seq(RmwStatuses) : p = Append(q, r) /\ rmw'[t] = p
      BY <2>5, <3>1, AppendIs, Zenon
    <3>3. /\ DOMAIN p = 1 .. Len(q) + 1 /\ p[Len(q) + 1] = r /\ \A i \in DOMAIN q : p[i] = q[i]
      BY <3>1, <3>2, AppendIs
    <3>4. Len(q) + 1 \in DOMAIN p /\ \A i \in DOMAIN q : i \in DOMAIN p
      BY <3>1, <3>3
    <3>5. r.slot = s /\ r.chunk = c /\ r.created_new = created
      BY <2>1, Zenon
    <3> QED
      BY <3>1, <3>2, <3>3, <3>4, <3>5, ZenonT(30) DEF CreatedIn
  <2>12. created => Pending(c, s)'
    BY <2>11, Zenon DEF Pending
  <2>13. OthersStay(t)
    BY <2>4, <2>6 DEF OthersStay, OwnVariables
  <2> QED
    BY <2>4, <2>6, <2>10, <2>11, <2>12, <2>13, Zenon
<1> QED
  BY <1>3, <1>4, Zenon

-----------------------------------------------------------------------------
(***************************************************************************)
(* Steps that write the table.  A slot is taken, filled, freed, or the     *)
(* chunk is found full; each leaves the other slots alone.                 *)
(***************************************************************************)
LEMMA TableStep ==
    ASSUME IInv, NEW t \in Transactions, Frame(t), TableInv', TypeOK', Exclusion',
           ReadsBounded(t)', TxInv(t)'
    PROVE  IInv' /\ Frame(t)
<1>1. TypeOK /\ TableInv /\ OverflowBounded' /\ \A u \in Transactions : ReadsBounded(u) /\ TxInv(u)
  BY DEF IInv, TableInv
<1>2. \A u \in Transactions \ {t} : ReadsBounded(u)' /\ TxInv(u)'
  BY <1>1, OthersBounded, OthersKeep, Zenon DEF Frame
<1> QED
  BY <1>2 DEF IInv

\* What is pending elsewhere than in the slot that is written stays so.
PendingKept(c, s) ==
    \A d \in Chunks, r \in Slots : (d # c \/ r # s) /\ Pending(d, r) => Pending(d, r)'
OtherSlotsStay(c, s) ==
    \A d \in Chunks, r \in Slots : d # c \/ r # s =>
        half_hashes'[d][r] = half_hashes[d][r] /\ keys_values'[d][r] = keys_values[d][r]
ReachGrows == \A k \in Keys : Reach(k) \subseteq Reach(k)'

LEMMA OtherSlotsSound ==
    ASSUME NEW c \in Chunks, NEW s \in Slots, SlotsSound, OtherSlotsStay(c, s), PendingKept(c, s),
           ReachGrows, SlotSound(c, s)'
    PROVE  SlotsSound'
<1>1. SUFFICES ASSUME NEW d \in Chunks, NEW r \in Slots, d # c \/ r # s PROVE SlotSound(d, r)'
  BY DEF SlotsSound
<1>2. half_hashes'[d][r] = half_hashes[d][r] /\ keys_values'[d][r] = keys_values[d][r]
  BY <1>1 DEF OtherSlotsStay
<1>3. SlotSound(d, r) /\ (Pending(d, r) => Pending(d, r)')
  BY <1>1, Zenon DEF SlotsSound, PendingKept
<1>4. CASE keys_values[d][r].flags = "FILLED"
  <2>1. /\ keys_values[d][r].key \in Keys /\ keys_values[d][r].data \in Values
        /\ half_hashes[d][r] = SlotId(keys_values[d][r].key, d) /\ d \in Reach(keys_values[d][r].key)
    BY <1>3, <1>4, Zenon DEF SlotSound
  <2>2. PICK k \in Keys : k = keys_values[d][r].key /\ k = keys_values'[d][r].key
    BY <1>2, <2>1, Zenon
  <2>3. d \in Reach(k)' /\ half_hashes'[d][r] = SlotId(k, d)
    BY <1>2, <2>1, <2>2, Zenon DEF ReachGrows
  <2>4. d \in Reach(keys_values[d][r].key)' /\ half_hashes'[d][r] = SlotId(keys_values[d][r].key, d)'
    BY <2>2, <2>3, Zenon DEF SlotId, Reach, SearchLimit
  <2> QED
    BY <1>2, <1>4, <2>1, <2>4, Zenon DEF SlotSound
<1>5. CASE keys_values[d][r].flags # "FILLED"
  BY <1>2, <1>3, <1>5, Zenon DEF SlotSound
<1> QED
  BY <1>4, <1>5, Zenon

\* A slot that t was about to write, when t writes another one.
LEMMA OwnSlotStays ==
    ASSUME NEW t \in Transactions, NEW k \in Keys, NEW c \in Chunks, NEW s \in Slots,
           NEW created \in BOOLEAN, SlotInv(t, k, c, s, created), ReachGrows,
           half_hashes'[c][s] = half_hashes[c][s], keys_values'[c][s] = keys_values[c][s],
           \A d \in Chunks : writer[d] = t => writer'[d] = t, Reach(k) \subseteq Chunks,
           Absent(k) => Absent(k)',
           \A d \in Reach(k)' : d \in Reach(k) \/ writer'[d] = t
    PROVE  SlotInv(t, k, c, s, created)'
<1>1. writer'[c] = t /\ c \in Reach(k)' /\ half_hashes'[c][s] = SlotId(k, c)
  BY Zenon DEF SlotInv, ReachGrows
<1>2. CASE created
  <2>1. OwnsReach(t, k) => OwnsReach(t, k)'
    BY Zenon DEF OwnsReach
  <2> QED
    BY <1>1, <1>2, <2>1, Zenon DEF SlotInv
<1>3. CASE ~created
  BY <1>1, <1>3, Zenon DEF SlotInv, HasKey
<1> QED
  BY <1>2, <1>3, Zenon

LEMMA PendingKeptIs ==
    ASSUME NEW t \in Transactions, OthersStay(t), NEW c \in Chunks, NEW s \in Slots,
           pc[t] = "fill" /\ call[t].created => call[t].chunk = c /\ call[t].slot = s,
           \A d \in Chunks : \A r \in CreatedIn(t, d) : (d = c /\ r = s) \/ r \in CreatedIn(t, d)'
    PROVE  PendingKept(c, s)
<1>1. SUFFICES ASSUME NEW d \in Chunks, NEW r \in Slots, d # c \/ r # s, Pending(d, r)
               PROVE  Pending(d, r)'
  BY DEF PendingKept
<1>2. PICK u \in Transactions :
         \/ pc[u] = "fill" /\ call[u].created /\ call[u].chunk = d /\ call[u].slot = r
         \/ r \in CreatedIn(u, d)
  BY <1>1, Zenon DEF Pending
<1>3. CASE u = t
  BY <1>1, <1>2, <1>3, Zenon DEF Pending
<1>4. CASE u # t
  <2>1. pc'[u] = pc[u] /\ call'[u] = call[u] /\ rmw'[u] = rmw[u]
    BY <1>4, Zenon DEF OthersStay
  <2>2. CreatedIn(u, d)' = CreatedIn(u, d)
    BY <2>1 DEF CreatedIn
  <2> QED
    BY <1>2, <2>1, <2>2, Zenon DEF Pending
<1> QED
  BY <1>3, <1>4, Zenon

\* A slot id in a chunk that nobody writes is that of a key.
LEMMA UnownedSlot ==
    ASSUME IInv, NEW c \in Chunks, NEW s \in Slots, writer[c] \notin Transactions,
           half_hashes[c][s] # NoSlotId
    PROVE  keys_values[c][s].flags = "FILLED" /\ keys_values[c][s].key \in Keys
<1>0. TypeOK /\ SlotSound(c, s) /\ \A u \in Transactions : WriteInv(u) /\ RmwSlots(u)
  BY Zenon DEF IInv, TableInv, SlotsSound, TxInv, RmwInv
<1>1. SUFFICES ASSUME NEW u \in Transactions,
                      \/ pc[u] = "fill" /\ call[u].created /\ call[u].chunk = c /\ call[u].slot = s
                      \/ s \in CreatedIn(u, c)
               PROVE  FALSE
  BY <1>0, Zenon DEF SlotSound, Pending
<1>2. CASE pc[u] = "fill" /\ call[u].created /\ call[u].chunk = c /\ call[u].slot = s
  BY <1>0, <1>2, Zenon DEF WriteInv, SlotInv
<1>3. CASE s \in CreatedIn(u, c)
  <2>1. PICK i \in DOMAIN rmw[u] : rmw[u][i].chunk = c
    BY <1>3, Zenon DEF CreatedIn
  <2> QED
    BY <1>0, <2>1, ZenonT(30) DEF RmwSlots, SlotInv
<1> QED
  BY <1>1, <1>2, <1>3, Zenon

-----------------------------------------------------------------------------
(***************************************************************************)
(* A slot is freed.                                                        *)
(***************************************************************************)
LEMMA MetadataIs ==
    ASSUME TypeOK, NEW c \in Chunks
    PROVE  /\ metadata[c].overflowed_chunks_counter \in 0 .. 255
           /\ metadata[c].slots_occupied \in 0 .. 127 /\ metadata[c].is_full \in BOOLEAN
<1>1. metadata[c] \in Metadata
  BY DEF TypeOK
<1> QED
  BY <1>1, Zenon DEF Metadata

LEMMA MetadataWith ==
    ASSUME NEW m \in Metadata, NEW n \in 0 .. 127, NEW f \in BOOLEAN
    PROVE  [m EXCEPT !.slots_occupied = n, !.is_full = f] \in Metadata
<1>1. PICK S, T, B : S = 0 .. 255 /\ T = 0 .. 127 /\ B = BOOLEAN
  BY Zenon
<1>2. Metadata = [overflowed_chunks_counter : S, slots_occupied : T, is_full : B]
  BY <1>1, Zenon DEF Metadata
<1>3. n \in T /\ f \in B
  BY <1>1
<1>4. ASSUME NEW r \in [overflowed_chunks_counter : S, slots_occupied : T, is_full : B]
      PROVE  [r EXCEPT !.slots_occupied = n, !.is_full = f]
                 \in [overflowed_chunks_counter : S, slots_occupied : T, is_full : B]
  BY <1>3, Zenon
<1> QED
  BY <1>2, <1>4, Zenon
=============================================================================
