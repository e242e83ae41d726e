------------------------- MODULE HashtableSearches --------------------------
(***************************************************************************)
(* The searches keep the invariant: those of a key for reading and for     *)
(* writing, the operations by position, and search_key_or_create_new when  *)
(* it takes a slot for a key that no chunk has or meets a full chunk.      *)
(***************************************************************************)
EXTENDS HashtableInvariant

LEMMA AcquireKeeps == ASSUME IInv, NEW t \in Transactions, Acquire(t) PROVE IInv' /\ Frame(t)
<1>0. TypeOK /\ Exclusion /\ ReadsBounded(t) /\ TxInv(t) /\ pc[t] = "idle"
  BY DEF IInv, Acquire
<1>1. /\ UNCHANGED table /\ readers' = readers /\ writer' = writer /\ ops' = ops /\ call' = call
      /\ rmw' = rmw /\ pc' \in [Transactions -> PCs] /\ pc'[t] = "ready" /\ OthersStay(t)
  BY <1>0, Zenon DEF Acquire, locks, TypeOK, PCs, OthersStay
<1>2. TypeOK'
  BY <1>0, <1>1, Zenon DEF TypeOK, Acquire, table, history
<1>3. Exclusion' /\ LocksOfOthersStay(t)
  BY <1>0, <1>1, Zenon DEF Exclusion, LocksOfOthersStay
<1>4. ReadsBounded(t)'
  <2>1. ops[t] \in Nat
    BY <1>0, HashtableAssumption DEF TypeOK
  <2> QED
    BY <1>0, <1>1, <2>1, Zenon DEF ReadsBounded, Reading
<1>5. rmw[t] = <<>>
  BY <1>0, Zenon DEF TxInv, RmwInv
<1>6. TxInv(t)'
  BY <1>1, <1>5 DEF TxInv, SearchInv, WriteInv, RmwInv, RmwSlots, Searching, Writing
<1>7. \A c \in Chunks : CreatedIn(t, c) \subseteq CreatedIn(t, c)'
  BY <1>1, Zenon DEF CreatedIn
<1> QED
  BY <1>0, <1>1, <1>2, <1>3, <1>4, <1>6, <1>7, QuietStep, Zenon

LEMMA ReleaseBeginKeeps == ASSUME IInv, NEW t \in Transactions, ReleaseBegin(t) PROVE IInv' /\ Frame(t)
<1>0. TypeOK /\ Exclusion /\ ReadsBounded(t) /\ TxInv(t) /\ pc[t] = "ready" /\ rmw[t] = <<>>
  BY Zenon DEF IInv, ReleaseBegin
<1>1. /\ UNCHANGED table /\ readers' = readers /\ writer' = writer /\ call' = call
      /\ rmw' = rmw /\ pc' \in [Transactions -> PCs] /\ pc'[t] = "release" /\ OthersStay(t)
      /\ ops' \in [Transactions -> 0 .. MaxOps]
  BY <1>0, HashtableAssumption DEF ReleaseBegin, locks, TypeOK, PCs, OthersStay
<1>2. /\ indexed' \in [Transactions -> SUBSET (Chunks \X Slots)]
      /\ reply' \in [Transactions -> Values \cup {NoValue, NoReply, Failed}]
      /\ reads' \in [Transactions -> SUBSET Keys] /\ claims' \in [Transactions -> SUBSET Keys]
  BY <1>0, Zenon DEF ReleaseBegin, TypeOK
<1>3. TypeOK'
  BY <1>0, <1>1, <1>2, Zenon DEF TypeOK, table
<1>4. Exclusion' /\ LocksOfOthersStay(t)
  BY <1>0, <1>1, Zenon DEF Exclusion, LocksOfOthersStay
<1>5. ReadsBounded(t)'
  BY <1>0, <1>1, Zenon DEF ReadsBounded, Reading
<1>6. TxInv(t)'
  BY <1>0, <1>1 DEF TxInv, SearchInv, WriteInv, RmwInv, RmwSlots, Searching, Writing
<1>7. \A c \in Chunks : CreatedIn(t, c) \subseteq CreatedIn(t, c)'
  BY <1>1, Zenon DEF CreatedIn
<1> QED
  BY <1>0, <1>1, <1>3, <1>4, <1>5, <1>6, <1>7, QuietStep, Zenon

LEMMA ReleaseEndKeeps == ASSUME IInv, NEW t \in Transactions, ReleaseEnd(t) PROVE IInv' /\ Frame(t)
<1>0. /\ TypeOK /\ Exclusion /\ TxInv(t) /\ pc[t] = "release"
      /\ \A c \in Chunks : writer[c] # t /\ ~(readers[c][t] > 0)
  BY Zenon DEF IInv, ReleaseEnd, Locked
<1>1. /\ UNCHANGED table /\ readers' = readers /\ writer' = writer /\ call' = call
      /\ rmw' = rmw /\ ops' = ops /\ pc' \in [Transactions -> PCs] /\ pc'[t] = "idle" /\ OthersStay(t)
  BY <1>0, Zenon DEF ReleaseEnd, locks, TypeOK, PCs, OthersStay
<1>2. TypeOK'
  BY <1>0, <1>1, Zenon DEF TypeOK, ReleaseEnd, table, history
<1>3. Exclusion' /\ LocksOfOthersStay(t)
  BY <1>0, <1>1, Zenon DEF Exclusion, LocksOfOthersStay
<1>4. ReadsBounded(t)'
  <2>1. ops[t] \in Nat /\ \A c \in Chunks : readers[c][t] \in Nat
    BY <1>0, HashtableAssumption DEF TypeOK
  <2>2. \A c \in Chunks : readers[c][t] = 0
    BY <1>0, <2>1
  <2> QED
    BY <1>0, <1>1, <2>1, <2>2 DEF ReadsBounded, Reading
<1>5. rmw[t] = <<>>
  BY <1>0, Zenon DEF TxInv, RmwInv
<1>6. TxInv(t)'
  BY <1>1, <1>5 DEF TxInv, SearchInv, WriteInv, RmwInv, RmwSlots, Searching, Writing
<1>7. \A c \in Chunks : CreatedIn(t, c) \subseteq CreatedIn(t, c)'
  BY <1>1 DEF CreatedIn
<1> QED
  BY <1>0, <1>1, <1>2, <1>3, <1>4, <1>6, <1>7, QuietStep, Zenon

LEMMA ReleaseChunkKeeps ==
    ASSUME IInv, NEW t \in Transactions, NEW c \in Chunks, ReleaseChunk(t, c) PROVE IInv' /\ Frame(t)
<1>0. TypeOK /\ Exclusion /\ TxInv(t) /\ pc[t] = "release"
  BY DEF IInv, ReleaseChunk
<1>1. /\ UNCHANGED table /\ call' = call /\ rmw' = rmw /\ ops' = ops /\ pc' = pc /\ OthersStay(t)
  BY Zenon DEF ReleaseChunk, OthersStay
<1>2. /\ readers' \in [Chunks -> [Transactions -> 0 .. MaxOps]]
      /\ writer' \in [Chunks -> Transactions \cup {NoTransaction}]
      /\ \A d \in Chunks, u \in Transactions :
            /\ readers'[d][u] = IF d = c /\ u = t THEN 0 ELSE readers[d][u]
            /\ writer'[d] = IF d = c /\ writer[d] = t THEN NoTransaction ELSE writer[d]
  BY <1>0, HashtableAssumption DEF ReleaseChunk, TypeOK
<1>3. TypeOK'
  BY <1>0, <1>1, <1>2, Zenon DEF TypeOK, ReleaseChunk, table, history
<1>4. Exclusion' /\ LocksOfOthersStay(t)
  BY <1>0, <1>2, HashtableAssumption DEF Exclusion, LocksOfOthersStay
<1>5. ReadsBounded(t)'
  BY <1>0, <1>1, Zenon DEF ReadsBounded, Reading
<1>6. rmw[t] = <<>>
  BY <1>0, Zenon DEF TxInv, RmwInv
<1>7. TxInv(t)'
  BY <1>0, <1>1, <1>6 DEF TxInv, SearchInv, WriteInv, RmwInv, RmwSlots, Searching, Writing
<1>8. \A d \in Chunks : CreatedIn(t, d) \subseteq CreatedIn(t, d)'
  BY <1>1, Zenon DEF CreatedIn
<1> QED
  BY <1>0, <1>1, <1>3, <1>4, <1>5, <1>7, <1>8, QuietStep, Zenon

LEMMA BeginIs ==
    ASSUME NEW t \in Transactions, TypeOK, ReadsBounded(t), NEW p \in PCs \ {"idle", "release"},
           NEW l \in Calls, Begin(t, p, l)
    PROVE  /\ TypeOK' /\ UNCHANGED table /\ readers' = readers /\ writer' = writer /\ rmw' = rmw
           /\ pc[t] = "ready" /\ pc'[t] = p /\ call'[t] = l /\ OthersStay(t) /\ ReadsBounded(t)'
<1>1. /\ UNCHANGED <<table, locks, rmw, indexed, history>> /\ pc' = [pc EXCEPT ![t] = p]
      /\ call' = [call EXCEPT ![t] = l] /\ reply' = [reply EXCEPT ![t] = NoReply]
      /\ pc[t] = "ready" /\ ops[t] < MaxOps /\ ops' = [ops EXCEPT ![t] = @ + 1]
  BY DEF Begin, CountOp
<1>2. /\ pc' \in [Transactions -> PCs] /\ call' \in [Transactions -> Calls]
      /\ pc'[t] = p /\ call'[t] = l
      /\ \A u \in Transactions \ {t} : pc'[u] = pc[u] /\ call'[u] = call[u]
  BY <1>1, CallChanges, Zenon
<1>3. /\ ops' \in [Transactions -> 0 .. MaxOps] /\ ops'[t] = ops[t] + 1 /\ ops[t] \in Nat
      /\ \A u \in Transactions \ {t} : ops'[u] = ops[u]
  BY <1>1, HashtableAssumption DEF TypeOK
<1>4. reply' \in [Transactions -> Values \cup {NoValue, NoReply, Failed}]
  BY <1>1, Zenon DEF TypeOK
<1>5. readers' = readers /\ writer' = writer /\ rmw' = rmw
  BY <1>1, Zenon DEF locks
<1>6. TypeOK'
  BY <1>1, <1>2, <1>3, <1>4, <1>5, Zenon DEF TypeOK, table, history
<1>7. ReadsBounded(t)'
  <2>1. \A c \in Chunks : readers[c][t] \in Nat
    BY HashtableAssumption DEF TypeOK
  <2> QED
    BY <1>1, <1>2, <1>3, <1>5, <2>1 DEF ReadsBounded
<1> QED
  BY <1>1, <1>2, <1>3, <1>5, <1>6, <1>7, Zenon DEF OthersStay

LEMMA BeginKeeps ==
    ASSUME IInv, NEW t \in Transactions, NEW p \in {"search_home", "write_search", "index_lock"},
           NEW l \in Calls, Begin(t, p, l), l.op \in {"delete", "set"} => rmw[t] = <<>>,
           SearchInv(t)', WriteInv(t)'
    PROVE  IInv' /\ Frame(t)
<1>0. TypeOK /\ Exclusion /\ TableInv /\ OverflowBounded /\ ReadsBounded(t) /\ TxInv(t)
  BY Zenon DEF IInv, TableInv
<1>1. /\ TypeOK' /\ UNCHANGED table /\ readers' = readers /\ writer' = writer /\ rmw' = rmw
      /\ pc[t] = "ready" /\ pc'[t] = p /\ call'[t] = l /\ OthersStay(t) /\ ReadsBounded(t)'
  BY <1>0, BeginIs, Zenon DEF PCs
<1>2. Exclusion' /\ LocksOfOthersStay(t)
  BY <1>0, <1>1, Zenon DEF Exclusion, LocksOfOthersStay
<1>3. RmwSlots(t)'
  BY <1>0, <1>1, OwnSlotsStay, Zenon DEF TxInv, RmwInv
<1>4. TxInv(t)'
  BY <1>1, <1>3, Zenon DEF TxInv, RmwInv
<1>5. \A c \in Chunks : CreatedIn(t, c) \subseteq CreatedIn(t, c)'
  BY <1>1 DEF CreatedIn
<1> QED
  BY <1>1, <1>2, <1>4, <1>5, QuietStep, Zenon

LEMMA CallSound ==
    ASSUME NEW op \in {"get", "delete", "rmw"}, NEW k \in Keys
    PROVE  [NoCall EXCEPT !.op = op, !.key = k, !.chunk = HomeOf[k]] \in Calls
BY NoCallSound, ConstantsSound, Zenon DEF Calls, NoCall

LEMMA GetKeeps ==
    ASSUME IInv, NEW t \in Transactions, NEW k \in Keys, Get(t, k) \/ Delete(t, k) PROVE IInv' /\ Frame(t)
<1>0. PICK op \in {"get", "delete"} :
         /\ Begin(t, "search_home", [NoCall EXCEPT !.op = op, !.key = k, !.chunk = HomeOf[k]])
         /\ op = "delete" => rmw[t] = <<>>
  BY DEF Get, Delete
<1>1. PICK l \in Calls : l = [NoCall EXCEPT !.op = op, !.key = k, !.chunk = HomeOf[k]]
  BY CallSound, Zenon
<1>2. l.op = op /\ l.key = k /\ l.chunk = HomeOf[k] /\ HomeOf[k] \in Nat
  BY <1>1, ConstantsSound, Zenon DEF NoCall
<1>3. TypeOK /\ ReadsBounded(t)
  BY DEF IInv
<1>4. pc'[t] = "search_home" /\ call'[t] = l
  BY <1>0, <1>1, <1>3, BeginIs, Zenon DEF PCs
<1>5. SearchInv(t)' /\ WriteInv(t)'
  BY <1>2, <1>4 DEF SearchInv, WriteInv, Searching, Writing
<1> QED
  BY <1>0, <1>1, <1>2, <1>5, BeginKeeps, Zenon

LEMMA SetKeeps ==
    ASSUME IInv, ~RepeatedKeys, NEW t \in Transactions, NEW k \in Keys,
           RmwBegin(t, k) \/ \E v \in Values : Set(t, k, v)
    PROVE  IInv' /\ Frame(t)
<1>0. PICK l \in Calls :
         /\ Begin(t, "write_search", l) /\ l.key = k /\ l.chunk = HomeOf[k] /\ l.free = ChunksCount
         /\ l.op \in {"set", "rmw"} /\ (l.op = "set" => rmw[t] = <<>> /\ l.value \in Values)
         /\ \A i \in DOMAIN rmw[t] : rmw[t][i].key # k
  <2>1. CASE RmwBegin(t, k)
    <3> DEFINE l == [NoCall EXCEPT !.op = "rmw", !.key = k, !.chunk = HomeOf[k]]
    <3>1. l \in Calls /\ l.op = "rmw" /\ l.key = k /\ l.chunk = HomeOf[k] /\ l.free = ChunksCount
      BY CallSound, Zenon DEF NoCall
    <3> QED
      BY <2>1, <3>1, Zenon DEF RmwBegin
  <2>2. CASE \E v \in Values : Set(t, k, v)
    <3>0. PICK v \in Values : Set(t, k, v)
      BY <2>2
    <3> DEFINE l == [NoCall EXCEPT !.op = "set", !.key = k, !.value = v, !.chunk = HomeOf[k]]
    <3>1. /\ l \in Calls /\ l.op = "set" /\ l.key = k /\ l.chunk = HomeOf[k] /\ l.free = ChunksCount
          /\ l.value = v
      BY NoCallSound, ConstantsSound, Zenon DEF NoCall, Calls
    <3>2. Begin(t, "write_search", l) /\ rmw[t] = <<>>
      BY <3>0, Zenon DEF Set
    <3>3. DOMAIN rmw[t] = {}
      BY <3>2
    <3> HIDE DEF l
    <3> QED
      BY <3>1, <3>2, <3>3, Zenon
  <2> QED
    BY <2>1, <2>2
<1>1. TypeOK /\ ReadsBounded(t)
  BY DEF IInv
<1>2. pc'[t] = "write_search" /\ call'[t] = l /\ rmw' = rmw
  BY <1>0, <1>1, BeginIs DEF PCs
<1>3. HomeOf[k] \in Nat /\ HomeOf[k] .. HomeOf[k] - 1 = {}
  BY ConstantsSound
<1>4. SearchInv(t)'
  BY <1>2, Zenon DEF SearchInv, Searching
<1>5. WriteSearchInv(t)'
  BY <1>0, <1>2, <1>3 DEF WriteSearchInv
<1>6. WriteInv(t)'
  BY <1>0, <1>2, <1>5, Zenon DEF WriteInv, Writing
<1> QED
  BY <1>0, <1>4, <1>6, BeginKeeps, Zenon

LEMMA GetByIndexKeeps ==
    ASSUME IInv, NEW t \in Transactions, NEW c \in Chunks, NEW s \in Slots, GetByIndex(t, c, s)
    PROVE  IInv' /\ Frame(t)
<1> DEFINE l == [NoCall EXCEPT !.op = "get_by_index", !.chunk = c, !.slot = s]
<1>1. l \in Calls /\ l.op = "get_by_index"
  BY NoCallSound, Zenon DEF NoCall, Calls
<1>2. Begin(t, "index_lock", l)
  BY DEF GetByIndex
<1> HIDE DEF l
<1>3. TypeOK /\ ReadsBounded(t)
  BY Zenon DEF IInv
<1>4. pc'[t] = "index_lock"
  BY <1>1, <1>2, <1>3, BeginIs, Zenon DEF PCs
<1>5. SearchInv(t)' /\ WriteInv(t)'
  BY <1>4 DEF SearchInv, WriteInv, Searching, Writing
<1> QED
  BY <1>1, <1>2, <1>5, BeginKeeps, Zenon

LEMMA StuckKeeps == ASSUME IInv, NEW t \in Transactions, Stuck(t) PROVE IInv' /\ Frame(t)
<1>0. TypeOK /\ Exclusion /\ ReadsBounded(t)
  BY DEF IInv
<1>1. /\ pc[t] \notin {"fill", "release"} /\ Return(t, Failed) /\ UNCHANGED table /\ UNCHANGED locks
      /\ rmw' = rmw /\ indexed' = indexed /\ ops' = ops /\ reads' = reads /\ claims' = claims
  BY DEF Stuck, history
<1>2. OwnVariables(t)
  BY <1>0, <1>1, Zenon DEF OwnVariables, TypeOK
<1>3. LockStep(t)
  <2>1. 0 \in Chunks
    BY HashtableAssumption DEF Chunks, ChunksCount
  <2> QED
    BY <1>0, <1>1, <2>1, LockStepIs, Zenon
<1>4. \A c \in Chunks : readers'[c][t] <= ops'[t]
  BY <1>0, <1>1, Zenon DEF ReadsBounded, locks
<1> QED
  BY <1>1, <1>2, <1>3, <1>4, QuietReturn, Zenon DEF Replies

LEMMA ReadOnce ==
    ASSUME IInv, NEW t \in Transactions, pc[t] \in Reading, ops' = ops,
           LockForRead(t, call[t].chunk) \/ UNCHANGED locks
    PROVE  \A d \in Chunks : /\ readers'[d][t] <= ops'[t]
                             /\ d > call[t].chunk => readers'[d][t] < ops'[t]
<1>0. TypeOK /\ Exclusion /\ ReadsBounded(t)
  BY DEF IInv
<1>1. PICK c \in Chunks : c = call[t].chunk /\ c \in Nat
  BY <1>0, ConstantsSound, Zenon DEF TypeOK, Calls
<1>2. /\ ops[t] \in Nat /\ \A d \in Chunks : readers[d][t] \in Nat
  BY <1>0, HashtableAssumption DEF TypeOK
<1>3. \A d \in Chunks : readers[d][t] <= ops[t] /\ (d >= c => readers[d][t] < ops[t])
  BY <1>0, <1>1, Zenon DEF ReadsBounded, Reading
<1>4. /\ \A d \in Chunks \ {c} : readers'[d][t] = readers[d][t]
      /\ readers'[c][t] <= readers[c][t] + 1 /\ readers'[c][t] \in Nat
  <2>1. CASE LockForRead(t, c)
    BY <1>0, <2>1, LockForReadIs, Zenon
  <2>2. CASE UNCHANGED locks
    BY <1>2, <2>2 DEF locks
  <2> QED
    BY <1>1, <2>1, <2>2, Zenon
<1>5. c >= c /\ readers'[c][t] <= ops[t]
  BY <1>1, <1>2, <1>3, <1>4
<1>6. ASSUME NEW d \in Chunks
      PROVE  readers'[d][t] <= ops'[t] /\ (d > c => readers'[d][t] < ops'[t])
  <2>1. d \in Nat /\ (d > c => d # c /\ d >= c)
    BY <1>1, ConstantsSound
  <2> QED
    BY <1>3, <1>4, <1>5, <2>1, Zenon
<1> QED
  BY <1>1, <1>6, Zenon

LEMMA SearchNextKeeps ==
    ASSUME IInv, NEW t \in Transactions, pc[t] \in Searching, NEW limit \in Nat,
           limit < HomeOf[call[t].key] + SearchMax, SearchNext(t, limit), UNCHANGED table,
           rmw' = rmw, indexed' = indexed, ops' = ops,
           LockForRead(t, call[t].chunk) \/ UNCHANGED locks
    PROVE  IInv' /\ Frame(t)
<1>0. TypeOK /\ Exclusion /\ ReadsBounded(t) /\ SearchInv(t)
  BY DEF IInv, TxInv
<1>1. PICK l \in Calls : l = call[t] /\ l.chunk \in Chunks /\ l.chunk \in Nat
  BY <1>0, ConstantsSound, Zenon DEF TypeOK, Calls
<1>2. LockStep(t) /\ l.key \in Keys /\ l.op \in {"get", "delete"} /\ HomeOf[l.key] <= l.chunk
      /\ HomeOf[l.key] \in Nat
  BY <1>0, <1>1, LockStepIs, ConstantsSound, Zenon DEF SearchInv
<1>3. \A d \in Chunks : readers'[d][t] <= ops'[t] /\ (d > l.chunk => readers'[d][t] < ops'[t])
  BY <1>1, ReadOnce, Zenon DEF Searching, Reading
<1>4. CASE l.chunk < limit
  <2>1. PICK m : m = [l EXCEPT !.chunk = l.chunk + 1, !.limit = limit]
    OBVIOUS
  <2>2. Continue(t, "search_peek", m) /\ reads' = reads /\ claims' = claims
    BY <1>1, <1>4, <2>1, Zenon DEF SearchNext, history
  <2>3. l.chunk + 1 \in Chunks /\ l.chunk + 1 <= limit
    <3>1. l.chunk + 1 \in HomeOf[l.key] .. HomeOf[l.key] + SearchMax - 1
      <4>1. PICK h \in Nat, c \in Nat : h = HomeOf[l.key] /\ c = l.chunk
        BY <1>1, <1>2, Zenon
      <4>2. SearchMax \in Nat /\ limit < h + SearchMax /\ c < limit /\ h <= c
        BY <1>1, <1>2, <1>4, <4>1, ConstantsSound
      <4>3. c + 1 \in h .. h + SearchMax - 1
        BY <4>2
      <4> QED
        BY <4>1, <4>3, Zenon
    <3>2. l.chunk + 1 \in Chunks
      BY <1>2, <3>1, SearchedInTable, Zenon
    <3> QED
      BY <1>1, <1>4, <3>2
  <2>4. m \in Calls /\ m.op = l.op /\ m.key = l.key /\ m.chunk = l.chunk + 1 /\ m.limit = limit
    BY <1>1, <2>1, <2>3, Zenon DEF Calls
  <2>5. OwnVariables(t)
    BY <1>0, <2>2, Zenon DEF OwnVariables, TypeOK
  <2>6. pc'[t] = "search_peek" /\ call'[t] = m
    BY <1>0, <2>2, Zenon DEF Continue, TypeOK
  <2>7. ReadsBounded(t)'
    <3>1. PICK n \in Nat : l.chunk = n /\ m.chunk = n + 1
      BY <1>1, <2>4, Zenon
    <3>2. ASSUME NEW d \in Chunks, d >= n + 1 PROVE d > n
      <4>1. d \in Nat
        BY ConstantsSound, Zenon
      <4> QED
        BY <3>2, <4>1
    <3> QED
      BY <1>3, <2>6, <3>1, <3>2, Zenon DEF ReadsBounded
  <2>8. SearchInv(t)' /\ WriteInv(t)'
    BY <1>1, <1>2, <2>3, <2>4, <2>6 DEF SearchInv, WriteInv, Searching, Writing
  <2> QED
    BY <1>1, <1>2, <1>3, <2>2, <2>4, <2>5, <2>7, <2>8, QuietContinue, Zenon DEF Searching, PCs
<1>5. CASE ~(l.chunk < limit)
  <2>1. Return(t, NoValue) /\ reads' = [reads EXCEPT ![t] = @ \cup {l.key}] /\ claims' = claims
    BY <1>1, <1>5, Zenon DEF SearchNext, NowReads
  <2>2. OwnVariables(t)
    BY <1>0, <1>2, <2>1, Zenon DEF OwnVariables, TypeOK
  <2> QED
    BY <1>2, <1>3, <2>1, <2>2, QuietReturn, Zenon DEF Searching, Replies
<1> QED
  BY <1>4, <1>5, Zenon

LEMMA SearchPeekKeeps == ASSUME IInv, NEW t \in Transactions, SearchPeek(t) PROVE IInv' /\ Frame(t)
<1>0. TypeOK /\ Exclusion /\ ReadsBounded(t) /\ SearchInv(t) /\ pc[t] = "search_peek"
  BY DEF IInv, TxInv, SearchPeek
<1>1. PICK l \in Calls : l = call[t] /\ l.chunk \in Chunks /\ l.chunk \in Nat /\ l.limit \in Nat
  BY <1>0, ConstantsSound, Zenon DEF TypeOK, Calls
<1>2. UNCHANGED table /\ UNCHANGED locks /\ rmw' = rmw /\ indexed' = indexed /\ ops' = ops
  BY DEF SearchPeek
<1>3. /\ l.key \in Keys /\ l.op \in {"get", "delete"} /\ HomeOf[l.key] <= l.chunk
      /\ l.chunk <= l.limit /\ l.limit < HomeOf[l.key] + SearchMax
  BY <1>0, <1>1, Zenon DEF SearchInv, Searching
<1>4. CASE SearchNext(t, l.limit)
  BY <1>0, <1>1, <1>2, <1>3, <1>4, SearchNextKeeps, Zenon DEF Searching
<1>5. CASE Continue(t, "search_lock", l) /\ UNCHANGED history
  <2>1. OwnVariables(t) /\ LockStep(t)
    BY <1>0, <1>1, <1>2, <1>5, LockStepIs, Zenon DEF OwnVariables, TypeOK, history
  <2>2. pc'[t] = "search_lock" /\ call'[t] = l
    BY <1>0, <1>5, Zenon DEF Continue, TypeOK
  <2>3. \A d \in Chunks : readers'[d][t] <= ops'[t]
    BY <1>0, <1>2, ReadOnce, Zenon DEF Reading
  <2>4. ReadsBounded(t)' /\ SearchInv(t)' /\ WriteInv(t)'
    BY <1>0, <1>1, <1>2, <1>3, <2>2, Zenon
       DEF ReadsBounded, SearchInv, WriteInv, Searching, Writing, Reading, locks
  <2> QED
    BY <1>0, <1>1, <1>2, <1>5, <2>1, <2>3, <2>4, QuietContinue, Zenon DEF PCs
<1> QED
  BY <1>1, <1>4, <1>5, Zenon DEF SearchPeek

LEMMA SearchChunkKeeps ==
    ASSUME SlotSets, IInv, NEW t \in Transactions, pc[t] \in {"search_home", "search_lock"}, NEW limit \in Nat,
           limit < HomeOf[call[t].key] + SearchMax, LockForRead(t, call[t].chunk),
           SearchChunk(t, limit), UNCHANGED table, rmw' = rmw, indexed' = indexed, ops' = ops
    PROVE  IInv' /\ Frame(t)
<1>0. TypeOK /\ Exclusion /\ ReadsBounded(t) /\ SearchInv(t)
  BY DEF IInv, TxInv
<1>1. PICK l \in Calls : l = call[t] /\ l.chunk \in Chunks /\ l.chunk \in Nat
  BY <1>0, ConstantsSound, Zenon DEF TypeOK, Calls
<1>2. /\ l.key \in Keys /\ l.op \in {"get", "delete"} /\ HomeOf[l.key] <= l.chunk
      /\ LockStep(t) /\ Holds(t, l.chunk)'
  BY <1>0, <1>1, LockStepIs, LockForReadIs, Zenon DEF SearchInv, Searching
<1>3. \A d \in Chunks : readers'[d][t] <= ops'[t] /\ (d > l.chunk => readers'[d][t] < ops'[t])
  BY <1>1, ReadOnce, Zenon DEF Reading
<1> DEFINE F == SlotsFound(l.key, l.chunk)
<1>4. CASE SearchNext(t, limit)
  BY <1>4, SearchNextKeeps, Zenon DEF Searching
<1>5. ASSUME F # {} PROVE Min(F) \in Slots /\ HasKey(l.key, l.chunk, Min(F))
  <2>1. F \in SUBSET Slots /\ \A s \in F : HasKey(l.key, l.chunk, s)
    BY DEF SlotsFound, WithSlotId
  <2>2. Min(F) \in F
    BY <1>5, <2>1, LeastSlot, Zenon
  <2> QED
    BY <2>1, <2>2, Zenon
<1>6. CASE /\ F # {} /\ Return(t, keys_values[l.chunk][Min(F)].data)
           /\ NowReads(t, l.key) /\ UNCHANGED claims
  <2>1. keys_values[l.chunk][Min(F)].data \in Replies
    <3>1. keys_values[l.chunk][Min(F)] \in KeyValues
      BY <1>0, <1>1, <1>5, <1>6, Zenon DEF TypeOK
    <3> QED
      BY <3>1, Zenon DEF KeyValues, Replies
  <2>2. OwnVariables(t)
    BY <1>0, <1>2, <1>6, Zenon DEF OwnVariables, TypeOK, NowReads
  <2> QED
    BY <1>2, <1>3, <1>6, <2>1, <2>2, QuietReturn, Zenon
<1>7. CASE /\ F # {} /\ l.op # "get" /\ UNCHANGED history
           /\ Continue(t, "upgrade", [l EXCEPT !.slot = Min(F), !.limit = limit])
  <2>1. PICK s \in Slots : s = Min(F) /\ HasKey(l.key, l.chunk, s)
    BY <1>5, <1>7, Zenon
  <2>2. PICK m \in Calls : m = [l EXCEPT !.slot = s, !.limit = limit]
    BY Zenon DEF Calls
  <2>3. m.op = "delete" /\ m.key = l.key /\ m.chunk = l.chunk /\ m.slot = s /\ m.op = l.op
    BY <1>2, <1>7, <2>2, Zenon DEF Calls
  <2>4. Continue(t, "upgrade", m)
    BY <1>7, <2>1, <2>2, Zenon
  <2>5. OwnVariables(t)
    BY <1>0, <1>7, Zenon DEF OwnVariables, TypeOK, history
  <2>6. pc'[t] = "upgrade" /\ call'[t] = m
    BY <1>0, <2>4, Zenon DEF Continue, TypeOK
  <2>7. HasKey(l.key, l.chunk, s)'
    BY <2>1, Zenon DEF HasKey, table
  <2>8. ReadsBounded(t)' /\ SearchInv(t)' /\ WriteInv(t)'
    BY <1>2, <1>3, <2>3, <2>6, <2>7, Zenon DEF ReadsBounded, SearchInv, WriteInv, Searching, Writing, Reading
  <2> QED
    BY <1>1, <1>2, <1>3, <2>3, <2>4, <2>5, <2>8, QuietContinue, Zenon DEF PCs
<1> QED
  BY <1>1, <1>4, <1>6, <1>7, Zenon DEF SearchChunk

LEMMA SearchHomeKeeps ==
    ASSUME SlotSets, IInv, NEW t \in Transactions, SearchHome(t) \/ SearchLock(t) PROVE IInv' /\ Frame(t)
<1>0. TypeOK /\ OverflowBounded /\ SearchInv(t)
  BY DEF IInv, TxInv, TableInv
<1>1. /\ LockForRead(t, call[t].chunk) /\ UNCHANGED table /\ rmw' = rmw /\ indexed' = indexed
      /\ ops' = ops
  BY DEF SearchHome, SearchLock
<1>2. CASE SearchHome(t)
  <2>1. /\ pc[t] = "search_home" /\ call[t].key \in Keys /\ call[t].chunk = HomeOf[call[t].key]
        /\ SearchChunk(t, SearchLimit(call[t].chunk))
    BY <1>0, <1>2, Zenon DEF SearchHome, SearchInv, Searching
  <2>2. /\ SearchLimit(call[t].chunk) \in Nat
        /\ SearchLimit(call[t].chunk) < HomeOf[call[t].key] + SearchMax
    <3>1. /\ SearchLimit(HomeOf[call[t].key]) \in HomeOf[call[t].key] .. HomeOf[call[t].key] + SearchMax - 1
          /\ HomeOf[call[t].key] \in Nat /\ SearchMax \in Nat
      BY <1>0, <2>1, ReachSound, ConstantsSound
    <3> HIDE DEF SearchLimit
    <3> QED
      BY <2>1, <3>1
  <2> QED
    BY <1>1, <2>1, <2>2, SearchChunkKeeps, Zenon
<1>3. CASE SearchLock(t)
  <2>1. /\ pc[t] = "search_lock" /\ call[t].limit < HomeOf[call[t].key] + SearchMax
        /\ SearchChunk(t, call[t].limit) /\ call[t].limit \in Nat
    BY <1>0, <1>3, Zenon DEF SearchLock, SearchInv, TypeOK, Calls
  <2> QED
    BY <1>1, <2>1, SearchChunkKeeps, Zenon
<1> QED
  BY <1>2, <1>3

LEMMA GetByIndexLockedKeeps == ASSUME IInv, NEW t \in Transactions, GetByIndexLocked(t) PROVE IInv' /\ Frame(t)
<1>0. TypeOK /\ Exclusion
  BY DEF IInv
<1>1. PICK c \in Chunks, s \in Slots : c = call[t].chunk /\ s = call[t].slot
  BY <1>0, Zenon DEF TypeOK, Calls
<1>2. /\ pc[t] = "index_lock" /\ LockForRead(t, c) /\ Return(t, NoReply) /\ UNCHANGED table
      /\ rmw' = rmw /\ ops' = ops /\ reads' = reads /\ claims' = claims
      /\ indexed' = [indexed EXCEPT ![t] = @ \cup {<<c, s>>}]
  BY <1>1, Zenon DEF GetByIndexLocked, history
<1>3. OwnVariables(t) /\ LockStep(t)
  BY <1>0, <1>2, LockStepIs DEF OwnVariables, TypeOK
<1>4. \A d \in Chunks : readers'[d][t] <= ops'[t]
  BY <1>1, <1>2, ReadOnce, Zenon DEF Reading
<1> QED
  BY <1>2, <1>3, <1>4, QuietReturn, Zenon DEF Replies

LEMMA GetKeyKeeps ==
    ASSUME IInv, NEW t \in Transactions, NEW c \in Chunks, NEW s \in Slots, GetKey(t, c, s)
    PROVE  IInv' /\ Frame(t)
<1>0. TypeOK /\ Exclusion /\ ReadsBounded(t) /\ SlotSound(c, s) /\ keys_values[c][s] \in KeyValues
  BY DEF IInv, TableInv, SlotsSound, TypeOK
<1>1. /\ pc[t] = "ready" /\ LockForRead(t, c) /\ UNCHANGED table /\ rmw' = rmw
      /\ ops[t] < MaxOps /\ ops' = [ops EXCEPT ![t] = @ + 1] /\ indexed' = indexed /\ claims' = claims
  BY DEF GetKey, CountOp
<1>2. PICK r \in Replies : Return(t, r) /\ reads' \in [Transactions -> SUBSET Keys]
  <2>1. CASE keys_values[c][s].flags = "FILLED"
    <3>1. keys_values[c][s].key \in Keys /\ keys_values[c][s].data \in Replies
      BY <1>0, <2>1, Zenon DEF SlotSound, Replies
    <3>2. /\ Return(t, keys_values[c][s].data)
          /\ reads' = [reads EXCEPT ![t] = @ \cup {keys_values[c][s].key}]
      BY <2>1, Zenon DEF GetKey, NowReads
    <3> QED
      BY <1>0, <3>1, <3>2, Zenon DEF TypeOK
  <2>2. CASE keys_values[c][s].flags # "FILLED"
    BY <1>0, <2>2, Zenon DEF GetKey, Replies, TypeOK
  <2> QED
    BY <2>1, <2>2, Zenon
<1>3. /\ ops' \in [Transactions -> 0 .. MaxOps] /\ ops'[t] = ops[t] + 1 /\ ops[t] \in Nat
      /\ \A u \in Transactions \ {t} : ops'[u] = ops[u]
  BY <1>0, <1>1, HashtableAssumption DEF TypeOK
<1>4. OwnVariables(t) /\ LockStep(t)
  BY <1>0, <1>1, <1>2, <1>3, LockStepIs, Zenon DEF OwnVariables, TypeOK
<1>5. \A d \in Chunks : readers'[d][t] <= ops'[t]
  <2>1. \A d \in Chunks : readers[d][t] <= ops[t] /\ readers[d][t] \in Nat /\ readers'[d][t] \in Nat
    BY <1>0, <1>1, <1>4, HashtableAssumption DEF ReadsBounded, TypeOK, LockStep
  <2>2. /\ \A d \in Chunks \ {c} : readers'[d][t] = readers[d][t]
        /\ readers'[c][t] <= readers[c][t] + 1
    BY <1>0, <1>1, LockForReadIs
  <2> QED
    BY <1>3, <2>1, <2>2
<1> QED
  BY <1>1, <1>2, <1>4, <1>5, QuietReturn, Zenon

\* What a search for writing has learnt once it has looked into chunk c.
LEMMA SearchedForWriting ==
    ASSUME SlotSets, TypeOK, TableInv, NEW t \in Transactions, pc[t] = "write_search", WriteSearchInv(t),
           NEW k \in Keys, NEW c \in Chunks, k = call[t].key, c = call[t].chunk,
           metadata[c].slots_occupied = 0 \/ SlotsMatching(k, c) = {}
    PROVE  \A d \in HomeOf[k] .. c, s \in Slots : ~HasKey(k, d, s)
<1>1. \A s \in Slots : ~HasKey(k, c, s)
  BY StoredKey, Zenon
<1>2. \A d \in HomeOf[k] .. c - 1, s \in Slots : ~HasKey(k, d, s)
  BY Zenon DEF WriteSearchInv
<1>3. c \in Nat /\ HomeOf[k] \in Nat /\ \A d \in HomeOf[k] .. c : d = c \/ d \in HomeOf[k] .. c - 1
  BY ConstantsSound
<1> QED
  BY <1>1, <1>2, <1>3, Zenon

LEMMA OwnSlotsKept ==
    ASSUME TypeOK, OverflowBounded, UNCHANGED table, NEW t \in Transactions, RmwSlots(t),
           \A c \in Chunks : writer[c] = t => writer'[c] = t
    PROVE  OwnSlotsHold(t)
<1>1. half_hashes' = half_hashes /\ metadata' = metadata /\ keys_values' = keys_values
  BY DEF table
<1>2. SUFFICES ASSUME NEW o \in Range(rmw[t])
               PROVE  SlotInv(t, o.key, o.chunk, o.slot, o.created_new)'
  BY DEF OwnSlotsHold
<1>3. PICK i \in DOMAIN rmw[t] : o = rmw[t][i]
  BY DEF Range
<1>4. SlotInv(t, o.key, o.chunk, o.slot, o.created_new)
  BY <1>3, Zenon DEF RmwSlots
<1>5. /\ o.key \in Keys /\ o.chunk \in Chunks /\ o.slot \in Slots /\ o.created_new \in BOOLEAN
  BY <1>3, RmwIsSeq, Zenon
<1>6. Reach(o.key)' = Reach(o.key) /\ Reach(o.key) \subseteq Chunks
  BY <1>1, <1>5, ReachSound, Zenon DEF Reach, SearchLimit
<1>7. OwnsReach(t, o.key) => OwnsReach(t, o.key)'
  BY <1>6 DEF OwnsReach
<1>8. Absent(o.key) => Absent(o.key)'
  BY <1>1, ZenonT(30) DEF Absent, HasKey
<1> QED
  BY <1>1, <1>4, <1>5, <1>6, <1>7, <1>8, Zenon DEF SlotInv, HasKey

\* No open read-modify-write has the slot of a key that it is not about.
LEMMA OtherSlots ==
    ASSUME TypeOK, NEW t \in Transactions, RmwSlots(t), NEW k \in Keys, NEW c \in Chunks,
           NEW s \in Slots, HasKey(k, c, s), NEW i \in DOMAIN rmw[t], rmw[t][i].key # k
    PROVE  rmw[t][i].chunk # c \/ rmw[t][i].slot # s
<1>1. PICK o \in RmwStatuses : o = rmw[t][i] /\ o.created_new \in BOOLEAN
  BY RmwIsSeq, Zenon
<1>2. SlotInv(t, o.key, o.chunk, o.slot, o.created_new)
  BY <1>1, Zenon DEF RmwSlots
<1> QED
  BY <1>1, <1>2, Zenon DEF SlotInv, HasKey

LEMMA WriteSearchFoundKeeps ==
    ASSUME SlotSets, IInv, NEW t \in Transactions, pc[t] = "write_search", NEW k \in Keys, NEW c \in Chunks,
           k = call[t].key, c = call[t].chunk, LockForWrite(t, c), SlotsMatching(k, c) # {},
           SlotReady(t, c, Min(SlotsMatching(k, c)), FALSE), UNCHANGED table,
           indexed' = indexed, ops' = ops
    PROVE  IInv' /\ Frame(t)
<1>0. /\ TypeOK /\ Exclusion /\ TableInv /\ OverflowBounded /\ ReadsBounded(t) /\ WriteInv(t)
      /\ RmwInv(t) /\ RmwSlots(t)
  BY DEF IInv, TxInv, TableInv, RmwInv
<1>1. PICK s \in Slots : s = Min(SlotsMatching(k, c)) /\ HasKey(k, c, s)
  BY <1>0, MatchedSlot, Zenon
<1>2. SlotReady(t, c, s, FALSE)
  BY <1>1, Zenon
<1>3. LockStep(t) /\ readers' = readers /\ writer'[c] = t
  BY <1>0, LockStepIs, LockForWriteIs, Zenon
<1>4. c \in Reach(k)' /\ half_hashes'[c][s] = SlotId(k, c) /\ HasKey(k, c, s)'
  <2>1. c \in Reach(k) /\ half_hashes[c][s] = SlotId(k, c)
    BY <1>0, <1>1, StoredKey, Zenon
  <2> QED
    BY <1>1, <2>1, Zenon DEF table, Reach, SearchLimit, HasKey
<1>5. SlotInv(t, k, c, s, FALSE)'
  BY <1>3, <1>4, Zenon DEF SlotInv
<1>6. OwnSlotsHold(t)
  BY <1>0, <1>3, OwnSlotsKept, Zenon DEF LockStep
<1>7. NotOpen(t, c, s)
  <2>1. \A i \in DOMAIN rmw[t] : rmw[t][i].key # k
    BY <1>0 DEF WriteInv, Writing
  <2> QED
    BY <1>0, <1>1, <2>1, OtherSlots, Zenon DEF NotOpen
<1>8. /\ pc' \in [Transactions -> PCs] /\ call' \in [Transactions -> Calls]
      /\ reply' \in [Transactions -> Replies] /\ OwnVariables(t) /\ OthersStay(t)
      /\ pc'[t] \in {"fill", "ready"} /\ TxInv(t)'
      /\ \A d \in Chunks : CreatedIn(t, d) \subseteq CreatedIn(t, d)'
  BY <1>0, <1>2, <1>5, <1>6, <1>7, SlotReadyIs, Zenon
<1>9. \A d \in Chunks : readers'[d][t] <= ops'[t]
  BY <1>0, <1>3, Zenon DEF ReadsBounded
<1>10. TypeOK'
  <2>1. /\ half_hashes' \in [Chunks -> [Slots -> SlotIds]] /\ metadata' \in [Chunks -> Metadata]
        /\ keys_values' \in [Chunks -> [Slots -> KeyValues]]
    BY <1>0, Zenon DEF TypeOK, table
  <2> QED
    BY <1>0, <1>3, <1>8, <1>9, <2>1, StepTypes, Zenon
<1>11. ReadsBounded(t)'
  BY <1>8, <1>9, Zenon DEF ReadsBounded, Reading
<1>12. Exclusion' /\ LocksOfOthersStay(t)
  BY <1>3 DEF LockStep
<1> QED
  BY <1>8, <1>10, <1>11, <1>12, QuietStep, Zenon

\* The chunk is searched in vain: on to the next one, or to the second pass.
LEMMA WriteSearchOnKeeps ==
    ASSUME IInv, NEW t \in Transactions, pc[t] = "write_search", NEW p \in {"write_search", "write_create"},
           LockForWrite(t, call[t].chunk), UNCHANGED table, indexed' = indexed, ops' = ops,
           rmw' = rmw, UNCHANGED history, NEW m \in Calls, Continue(t, p, m),
           m.op = call[t].op, m.key = call[t].key, m.value = call[t].value,
           IF p = "write_search" THEN WriteSearchInv(t)' ELSE WriteCreateInv(t)'
    PROVE  IInv' /\ Frame(t)
<1>0. TypeOK /\ Exclusion /\ ReadsBounded(t) /\ WriteInv(t) /\ call[t].chunk \in Chunks
  BY Zenon DEF IInv, TxInv, TypeOK, Calls
<1>1. LockStep(t) /\ readers' = readers
  BY <1>0, LockStepIs, LockForWriteIs
<1>2. OwnVariables(t)
  BY <1>0, Zenon DEF OwnVariables, TypeOK, history
<1>3. pc'[t] = p /\ call'[t] = m
  BY <1>0, Zenon DEF Continue, TypeOK
<1>4. \A d \in Chunks : readers'[d][t] <= ops'[t]
  BY <1>0, <1>1, Zenon DEF ReadsBounded
<1>5. ReadsBounded(t)' /\ SearchInv(t)'
  BY <1>3, <1>4, ZenonT(30) DEF ReadsBounded, Reading, SearchInv, Searching
<1>6. WriteInv(t)'
  BY <1>0, <1>3, Zenon DEF WriteInv, Writing
<1> QED
  BY <1>1, <1>2, <1>4, <1>5, <1>6, QuietContinue, Zenon DEF PCs

LEMMA WriteSearchKeeps == ASSUME SlotSets, IInv, NEW t \in Transactions, WriteSearch(t) PROVE IInv' /\ Frame(t)
<1>0. /\ TypeOK /\ Exclusion /\ TableInv /\ OverflowBounded /\ WriteInv(t) /\ pc[t] = "write_search"
  BY DEF IInv, TxInv, TableInv, WriteSearch
<1>1. PICK l \in Calls, k \in Keys, c \in Chunks, home \in Chunks :
         /\ l = call[t] /\ l.key = k /\ l.chunk = c /\ home = HomeOf[k]
         /\ c \in Nat /\ home \in Nat
  <2>1. call[t].key \in Keys /\ call[t] \in Calls /\ call[t].chunk \in Chunks
    BY <1>0, Zenon DEF WriteInv, Writing, TypeOK, Calls
  <2> QED
    BY <2>1, ConstantsSound, Zenon
<1>2. WriteSearchInv(t)
  BY <1>0, Zenon DEF WriteInv
<1>3. /\ home <= c /\ (c > home => l.limit = SearchLimit(home) /\ c <= l.limit)
      /\ l.free = ChunksCount \/ l.free \in home .. c - 1
      /\ \A d \in home .. c - 1 : writer[d] = t
  BY <1>1, <1>2, Zenon DEF WriteSearchInv
<1>4. PICK limit \in home .. home + SearchMax - 1 :
         limit = SearchLimit(home) /\ limit \in Chunks /\ Reach(k) = home .. limit /\ limit \in Nat
  <2>1. SearchLimit(home) \in home .. home + SearchMax - 1 /\ Reach(k) = home .. SearchLimit(home)
    BY <1>0, <1>1, ReachSound, Zenon DEF Reach
  <2>2. SearchLimit(home) \in Chunks /\ SearchLimit(home) \in Nat
    BY <1>1, <2>1, SearchedInTable, Zenon
  <2> QED
    BY <2>1, <2>2, Zenon
<1>5. c <= limit /\ limit = IF c = HomeOf[k] THEN SearchLimit(c) ELSE l.limit
  BY <1>1, <1>3, <1>4
<1>6. PICK free \in Chunks \cup {ChunksCount} :
         /\ free = IF l.free = ChunksCount /\ ~metadata[c].is_full THEN c ELSE l.free
         /\ free = ChunksCount \/ free \in home .. c
  <2>1. c \in home .. c /\ \A d \in home .. c - 1 : d \in home .. c
    BY <1>1, <1>3
  <2>2. l.free \in Chunks \cup {ChunksCount}
    BY DEF Calls
  <2> QED
    BY <1>3, <2>1, <2>2, Zenon
<1>7. LockForWrite(t, c) /\ UNCHANGED table /\ indexed' = indexed /\ ops' = ops
  BY <1>1 DEF WriteSearch
<1>8. CASE metadata[c].slots_occupied # 0 /\ SlotsMatching(k, c) # {}
  <2>1. SlotReady(t, c, Min(SlotsMatching(k, c)), FALSE)
    BY <1>1, <1>8, Zenon DEF WriteSearch
  <2> QED
    BY <1>0, <1>1, <1>7, <1>8, <2>1, WriteSearchFoundKeeps, Zenon
<1>9. CASE ~(metadata[c].slots_occupied # 0 /\ SlotsMatching(k, c) # {})
  <2>1. /\ IF c < limit
           THEN Continue(t, "write_search", [l EXCEPT !.chunk = c + 1, !.limit = limit, !.free = free])
           ELSE Continue(t, "write_create",
                         [l EXCEPT !.chunk = FirstWithFreespace(t, limit, free), !.limit = limit])
        /\ rmw' = rmw /\ UNCHANGED history
    BY <1>1, <1>5, <1>6, <1>9, Zenon DEF WriteSearch
  <2>2. \A d \in home .. c, s \in Slots : ~HasKey(k, d, s)
    BY <1>0, <1>1, <1>2, <1>9, SearchedForWriting, Zenon
  <2>3. \A d \in home .. c : writer'[d] = t
    <3>1. writer'[c] = t /\ \A d \in Chunks \ {c} : writer'[d] = writer[d]
      BY <1>0, <1>7, LockForWriteIs, Zenon
    <3>2. \A d \in home .. c : d \in Chunks /\ (d = c \/ d \in home .. c - 1)
      BY <1>1, ChunksBetween
    <3> QED
      BY <1>3, <3>1, <3>2, Zenon
  <2>4. SearchLimit(home)' = limit /\ \A d \in Chunks, s \in Slots : HasKey(k, d, s)' <=> HasKey(k, d, s)
    BY <1>4, <1>7, Zenon DEF SearchLimit, table, HasKey
  <2>5. CASE c < limit
    <3>1. c + 1 \in home .. limit /\ (c + 1) - 1 = c /\ home <= c + 1 /\ c + 1 <= limit
      BY <1>1, <1>3, <1>4, <2>5
    <3>2. c + 1 \in Chunks
      BY <1>4, <3>1, ChunksBetween, Zenon
    <3>3. PICK m \in Calls : m = [l EXCEPT !.chunk = c + 1, !.limit = limit, !.free = free]
      BY <1>4, <3>2, Zenon DEF Calls
    <3>4. /\ m.op = l.op /\ m.key = k /\ m.value = l.value
          /\ m.chunk = c + 1 /\ m.limit = limit /\ m.free = free
      BY <1>1, <3>3, Zenon DEF Calls
    <3>5. Continue(t, "write_search", m)
      BY <2>1, <2>5, <3>3, Zenon
    <3>6. call'[t] = m
      BY <1>0, <3>5, Zenon DEF Continue, TypeOK
    <3>7. \A d \in home .. c : writer'[d] = t /\ \A s \in Slots : ~HasKey(k, d, s)'
      BY <1>1, <2>2, <2>3, <2>4, ChunksBetween, Zenon
    <3>8. WriteSearchInv(t)'
      BY <1>1, <1>6, <2>4, <3>1, <3>4, <3>6, <3>7, SMTT(30) DEF WriteSearchInv
    <3> QED
      BY <1>0, <1>1, <1>7, <2>1, <3>4, <3>5, <3>8, WriteSearchOnKeeps, Zenon
  <2>6. CASE ~(c < limit)
    <3>1. c = limit
      BY <1>1, <1>4, <1>5, <2>6
    <3>2. PICK first \in home .. c : first = FirstWithFreespace(t, limit, free) /\ first \in Chunks
      BY <1>1, <1>3, <1>6, <3>1, ChunksBetween DEF FirstWithFreespace
    <3>3. PICK m \in Calls : m = [l EXCEPT !.chunk = first, !.limit = limit]
      BY <1>4, <3>2, Zenon DEF Calls
    <3>4. m.op = l.op /\ m.key = k /\ m.value = l.value /\ m.chunk = first
      BY <1>1, <3>3, Zenon DEF Calls
    <3>5. Continue(t, "write_create", m)
      BY <2>1, <2>6, <3>2, <3>3, Zenon
    <3>6. call'[t] = m
      BY <1>0, <3>5, Zenon DEF Continue, TypeOK
    <3>7. Absent(k)'
      BY <1>0, <1>4, <2>2, <2>4, <3>1, StoredKey, Zenon DEF Absent
    <3>8. OwnsReach(t, k)'
      BY <1>1, <2>3, <2>4, <3>1, Zenon DEF OwnsReach, Reach
    <3>9. first \in home .. home + SearchMax - 1 /\ \A d \in home .. first - 1 : d \in home .. c
      <4>1. c \in home .. home + SearchMax - 1 /\ SearchMax \in Nat
        BY <1>4, <3>1, ConstantsSound
      <4>2. \A n \in Nat : \A d \in home .. c :
               c \in home .. home + n - 1 => d \in home .. home + n - 1
        BY <1>1
      <4>3. \A d \in home .. first - 1 : d \in home .. c
        BY <1>1, <3>2
      <4> QED
        BY <3>2, <4>1, <4>2, <4>3, Zenon
    <3>10. WriteCreateInv(t)'
      BY <1>1, <2>3, <3>4, <3>6, <3>7, <3>8, <3>9, Zenon DEF WriteCreateInv
    <3> QED
      BY <1>0, <1>1, <1>7, <2>1, <3>4, <3>5, <3>10, WriteSearchOnKeeps, Zenon
  <2> QED
    BY <2>5, <2>6, Zenon
<1> QED
  BY <1>8, <1>9, Zenon

-----------------------------------------------------------------------------
(***************************************************************************)
(* A slot is taken for a key that no chunk has, or the chunk is full.      *)
(***************************************************************************)
LEMMA MaxOfTwo ==
    ASSUME NEW a \in Int, NEW b \in Int PROVE Max({a, b}) = IF a >= b THEN a ELSE b
<1>1. CASE a >= b
  <2>1. \A x \in {a, b} : (\A y \in {a, b} : x >= y) => x = a
    BY <1>1
  <2> QED
    BY <1>1, <2>1 DEF Max
<1>2. CASE ~(a >= b)
  <2>1. \A x \in {a, b} : (\A y \in {a, b} : x >= y) => x = b
    BY <1>2, Zenon
  <2> QED
    BY <1>2, <2>1 DEF Max
<1> QED
  BY <1>1, <1>2

LEMMA TakenCount ==
    ASSUME SlotSets, NEW c \in Chunks, NEW s \in FreeSlots(c), half_hashes'[c][s] # NoSlotId,
           \A r \in Slots \ {s} : half_hashes'[c][r] = half_hashes[c][r]
    PROVE  /\ Cardinality(Slots \ FreeSlots(c)') = Cardinality(Slots \ FreeSlots(c)) + 1
           /\ Cardinality(Slots \ FreeSlots(c)) \in Nat
           /\ Cardinality(Slots \ FreeSlots(c)') <= 127
<1>1. /\ s \in Slots \ (Slots \ FreeSlots(c))
      /\ Slots \ FreeSlots(c)' = (Slots \ FreeSlots(c)) \cup {s}
  BY DEF FreeSlots
<1>2. SlotSet(Slots \ FreeSlots(c)) /\ SlotSet(Slots \ FreeSlots(c)')
  BY Zenon DEF SlotSets
<1>3. Cardinality((Slots \ FreeSlots(c)) \cup {s}) = Cardinality(Slots \ FreeSlots(c)) + 1
  BY <1>1, <1>2, Zenon DEF SlotSet
<1>4. /\ Cardinality(Slots \ FreeSlots(c)) \in 0 .. SlotsCount
      /\ Cardinality(Slots \ FreeSlots(c)') \in 0 .. SlotsCount
  BY <1>2, Zenon DEF SlotSet
<1> QED
  BY <1>1, <1>3, <1>4, ConstantsSound

LEMMA CountSlotIs ==
    ASSUME TypeOK, NEW c \in Chunks, NEW home \in Chunks, c - home \in 0 .. 255,
           metadata[c].slots_occupied + 1 <= 127, metadata' = CountSlot(c, home)
    PROVE  /\ metadata' \in [Chunks -> Metadata]
           /\ \A d \in Chunks :
                 /\ metadata'[d].slots_occupied = IF d = c THEN metadata[d].slots_occupied + 1
                                                  ELSE metadata[d].slots_occupied
                 /\ metadata'[d].is_full = metadata[d].is_full
                 /\ d # home => metadata'[d].overflowed_chunks_counter
                                    = metadata[d].overflowed_chunks_counter
                 /\ d # home /\ d # c => metadata'[d] = metadata[d]
           /\ metadata'[home].overflowed_chunks_counter =
                 IF metadata[home].overflowed_chunks_counter >= c - home
                 THEN metadata[home].overflowed_chunks_counter ELSE c - home
<1>0. metadata \in [Chunks -> Metadata]
  BY Zenon DEF TypeOK
<1>1. PICK n \in 0 .. 127 : n = metadata[c].slots_occupied + 1
  BY MetadataIs, SMTT(30)
<1>2. PICK counted \in [Chunks -> Metadata] :
         /\ counted = [metadata EXCEPT ![c].slots_occupied = @ + 1]
         /\ metadata' = [counted EXCEPT ![home].overflowed_chunks_counter = Max({@, c - home})]
         /\ counted[c].slots_occupied = n /\ counted[c].is_full = metadata[c].is_full
         /\ counted[c].overflowed_chunks_counter = metadata[c].overflowed_chunks_counter
         /\ \A d \in Chunks : d # c => counted[d] = metadata[d]
  <2>1. PICK m \in Metadata : /\ m = [metadata[c] EXCEPT !.slots_occupied = metadata[c].slots_occupied + 1]
                              /\ m.slots_occupied = n /\ m.is_full = metadata[c].is_full
                              /\ m.overflowed_chunks_counter = metadata[c].overflowed_chunks_counter
    <3>0. metadata[c] \in Metadata
      BY <1>0, Zenon
    <3>1. [metadata[c] EXCEPT !.slots_occupied = n, !.is_full = metadata[c].is_full] \in Metadata
      BY <3>0, MetadataWith, MetadataIs, Zenon
    <3>2. [metadata[c] EXCEPT !.slots_occupied = n, !.is_full = metadata[c].is_full]
              = [metadata[c] EXCEPT !.slots_occupied = n]
      BY <3>0, Zenon DEF Metadata
    <3>3. PICK m \in Metadata : m = [metadata[c] EXCEPT !.slots_occupied = n]
      BY <3>1, <3>2, Zenon
    <3>4. /\ m.slots_occupied = n /\ m.is_full = metadata[c].is_full
          /\ m.overflowed_chunks_counter = metadata[c].overflowed_chunks_counter
      BY <3>0, <3>3, Zenon DEF Metadata
    <3> QED
      BY <1>1, <3>3, <3>4, Zenon
  <2>2. [metadata EXCEPT ![c].slots_occupied = @ + 1] = [metadata EXCEPT ![c] = m]
    BY <1>0, <2>1, Zenon
  <2>3. PICK f \in [Chunks -> Metadata] : f = [metadata EXCEPT ![c] = m]
    BY <1>0, Zenon
  <2>4. f[c] = m /\ \A d \in Chunks : d # c => f[d] = metadata[d]
    BY <1>0, <2>3, Zenon
  <2>5. metadata' = [f EXCEPT ![home].overflowed_chunks_counter = Max({@, c - home})]
    BY <2>2, <2>3, Zenon DEF CountSlot
  <2> QED
    BY <2>1, <2>2, <2>3, <2>4, <2>5, Zenon
<1>3. counted[home].overflowed_chunks_counter = metadata[home].overflowed_chunks_counter
  BY <1>2
<1>4. PICK b \in 0 .. 255 :
         /\ b = Max({counted[home].overflowed_chunks_counter, c - home})
         /\ b = IF metadata[home].overflowed_chunks_counter >= c - home
                THEN metadata[home].overflowed_chunks_counter ELSE c - home
  <2>1. PICK x \in 0 .. 255 : x = metadata[home].overflowed_chunks_counter
    BY MetadataIs
  <2>2. PICK y \in 0 .. 255 : y = c - home
    BY Zenon
  <2>3. x \in Int /\ y \in Int
    OBVIOUS
  <2>4. Max({x, y}) = IF x >= y THEN x ELSE y
    BY <2>3, MaxOfTwo, Zenon
  <2>5. Max({x, y}) \in 0 .. 255
    BY <2>4, Zenon
  <2> QED
    BY <1>3, <2>1, <2>2, <2>4, <2>5, Zenon
<1>5. PICK m \in Metadata : /\ m = [counted[home] EXCEPT !.overflowed_chunks_counter = b]
                            /\ m.overflowed_chunks_counter = b
                            /\ m.slots_occupied = counted[home].slots_occupied
                            /\ m.is_full = counted[home].is_full
  <2>1. counted[home] \in Metadata
    OBVIOUS
  <2>2. PICK m : m = [counted[home] EXCEPT !.overflowed_chunks_counter = b]
    BY Zenon
  <2>3. /\ m.overflowed_chunks_counter = b /\ m.slots_occupied = counted[home].slots_occupied
        /\ m.is_full = counted[home].is_full
    BY <2>1, <2>2, Zenon DEF Metadata
  <2>4. m \in Metadata
    <3>1. PICK S, T, B : S = 0 .. 255 /\ T = 0 .. 127 /\ B = BOOLEAN
      BY Zenon
    <3>2. Metadata = [overflowed_chunks_counter : S, slots_occupied : T, is_full : B] /\ b \in S
      BY <3>1, Zenon DEF Metadata
    <3> QED
      BY <2>1, <2>2, <3>2, Zenon
  <2> QED
    BY <2>2, <2>3, <2>4, Zenon
<1>6. metadata' = [counted EXCEPT ![home] = m]
  BY <1>2, <1>4, <1>5, Zenon
<1>7. /\ metadata' \in [Chunks -> Metadata] /\ metadata'[home] = m
      /\ \A d \in Chunks : d # home => metadata'[d] = counted[d]
  BY <1>6, Zenon
<1>8. ASSUME NEW d \in Chunks
      PROVE  /\ metadata'[d].slots_occupied = counted[d].slots_occupied
             /\ metadata'[d].is_full = counted[d].is_full
             /\ d # home => metadata'[d] = counted[d]
  BY <1>5, <1>7, Zenon
<1>9. ASSUME NEW d \in Chunks
      PROVE  /\ counted[d].slots_occupied = IF d = c THEN metadata[d].slots_occupied + 1
                                            ELSE metadata[d].slots_occupied
             /\ counted[d].is_full = metadata[d].is_full
             /\ counted[d].overflowed_chunks_counter = metadata[d].overflowed_chunks_counter
             /\ d # c => counted[d] = metadata[d]
  BY <1>1, <1>2, Zenon
<1>10. metadata'[home].overflowed_chunks_counter =
          IF metadata[home].overflowed_chunks_counter >= c - home
          THEN metadata[home].overflowed_chunks_counter ELSE c - home
  BY <1>4, <1>5, <1>7, Zenon
<1>11. ASSUME NEW d \in Chunks
       PROVE  /\ metadata'[d].slots_occupied = IF d = c THEN metadata[d].slots_occupied + 1
                                               ELSE metadata[d].slots_occupied
              /\ metadata'[d].is_full = metadata[d].is_full
              /\ d # home => metadata'[d].overflowed_chunks_counter
                                 = metadata[d].overflowed_chunks_counter
              /\ d # home /\ d # c => metadata'[d] = metadata[d]
  <2>1. metadata'[d].slots_occupied = counted[d].slots_occupied
        /\ metadata'[d].is_full = counted[d].is_full /\ (d # home => metadata'[d] = counted[d])
    BY <1>8, Zenon
  <2>2. /\ counted[d].slots_occupied = IF d = c THEN metadata[d].slots_occupied + 1
                                       ELSE metadata[d].slots_occupied
        /\ counted[d].is_full = metadata[d].is_full
        /\ counted[d].overflowed_chunks_counter = metadata[d].overflowed_chunks_counter
        /\ d # c => counted[d] = metadata[d]
    BY <1>9, Zenon
  <2> QED
    BY <2>1, <2>2, Zenon
<1>12. metadata' \in [Chunks -> Metadata]
  BY <1>7
<1> QED
  BY <1>10, <1>11, <1>12, Zenon

AbsentStays == \A j \in Keys : Absent(j)' <=> Absent(j)
ReachGrowsTo(k, c) ==
    \A j \in Keys : \A d \in Reach(j)' : d \in Reach(j) \/ d \in HomeOf[k] .. c

\* What taking slot s of chunk c for k does to the table.
Taken(t, k, c, s) ==
    /\ half_hashes' \in [Chunks -> [Slots -> SlotIds]] /\ metadata' \in [Chunks -> Metadata]
    /\ half_hashes'[c][s] = SlotId(k, c) /\ keys_values[c][s].flags # "FILLED"
    /\ keys_values[c][s].key = NoKey /\ s \in Slots
    /\ OtherSlotsStay(c, s) /\ ReachGrows /\ c \in Reach(k)'
    /\ OtherChunksStay(t) /\ NewKeysReached(t) /\ OverflowGrows /\ OverflowBounded'
    /\ OneSlotPerKey' /\ OccupancyExact'
    /\ AbsentStays
    /\ ReachGrowsTo(k, c)

LEMMA TakeIs ==
    ASSUME SlotSets, TypeOK, TableInv, NEW t \in Transactions, NEW k \in Keys, NEW c \in Chunks,
           NEW s \in FreeSlots(c), c \in HomeOf[k] .. HomeOf[k] + SearchMax - 1,
           writer'[c] = t, writer'[HomeOf[k]] = t,
           half_hashes' = [half_hashes EXCEPT ![c][s] = SlotId(k, c)],
           metadata' = CountSlot(c, HomeOf[k]), keys_values' = keys_values
    PROVE  Taken(t, k, c, s)
<1>0. /\ SlotsSound /\ OneSlotPerKey /\ OccupancyExact /\ OverflowBounded /\ s \in Slots
      /\ half_hashes[c][s] = NoSlotId /\ SlotSound(c, s)
      /\ half_hashes \in [Chunks -> [Slots -> SlotIds]] /\ metadata \in [Chunks -> Metadata]
  BY DEF TableInv, SlotsSound, FreeSlots, TypeOK
<1>1. SlotId(k, c) \in SlotIds /\ SlotId(k, c) # NoSlotId
  BY SlotIdSound, Zenon
<1>2. /\ half_hashes' \in [Chunks -> [Slots -> SlotIds]] /\ half_hashes'[c][s] = SlotId(k, c)
      /\ \A d \in Chunks, r \in Slots : d # c \/ r # s => half_hashes'[d][r] = half_hashes[d][r]
      /\ \A d \in Chunks : d # c => half_hashes'[d] = half_hashes[d]
  BY <1>0, <1>1, Zenon
<1>3. keys_values[c][s].flags # "FILLED" /\ keys_values[c][s].key = NoKey
  <2>1. ASSUME keys_values[c][s].flags = "FILLED" PROVE FALSE
    <3>1. /\ keys_values[c][s].key \in Keys /\ c \in Reach(keys_values[c][s].key)
          /\ half_hashes[c][s] = SlotId(keys_values[c][s].key, c)
      BY <1>0, <2>1, Zenon DEF SlotSound
    <3> QED
      BY <1>0, <3>1, ReachedSlotId, Zenon
  <2> QED
    BY <1>0, <2>1, Zenon DEF SlotSound
<1>4. PICK home \in Chunks, n \in Nat :
         /\ home = HomeOf[k] /\ home \in Nat /\ c \in Nat /\ n = c - home /\ c = home + n
         /\ n <= SearchMax - 1 /\ n \in 0 .. 255
  <2>1. HomeOf[k] \in Chunks /\ HomeOf[k] \in Nat /\ SearchMax \in 1 .. 256 /\ c \in Nat
    BY ConstantsSound, Zenon
  <2>2. PICK h \in Nat : h = HomeOf[k] /\ c \in h .. h + SearchMax - 1
    BY <2>1, Zenon
  <2>3. c - h \in Nat /\ c = h + (c - h) /\ c - h <= SearchMax - 1 /\ c - h \in 0 .. 255
    BY <2>1, <2>2
  <2> QED
    BY <2>1, <2>2, <2>3
<1>5. /\ Cardinality(Slots \ FreeSlots(c)') = Cardinality(Slots \ FreeSlots(c)) + 1
      /\ Cardinality(Slots \ FreeSlots(c)') <= 127
      /\ metadata[c].slots_occupied = Cardinality(Slots \ FreeSlots(c))
  <2>1. \A r \in Slots \ {s} : half_hashes'[c][r] = half_hashes[c][r]
    BY <1>2, Zenon
  <2>2. half_hashes'[c][s] # NoSlotId
    BY <1>1, <1>2, Zenon
  <2> QED
    BY <1>0, <2>1, <2>2, TakenCount, Zenon DEF OccupancyExact
<1>6. /\ metadata' \in [Chunks -> Metadata]
      /\ \A d \in Chunks :
            /\ metadata'[d].slots_occupied = IF d = c THEN metadata[d].slots_occupied + 1
                                             ELSE metadata[d].slots_occupied
            /\ metadata'[d].is_full = metadata[d].is_full
            /\ d # home => metadata'[d].overflowed_chunks_counter = metadata[d].overflowed_chunks_counter
            /\ d # home /\ d # c => metadata'[d] = metadata[d]
      /\ metadata'[home].overflowed_chunks_counter =
            IF metadata[home].overflowed_chunks_counter >= n
            THEN metadata[home].overflowed_chunks_counter ELSE n
  <2>1. c - home \in 0 .. 255 /\ metadata[c].slots_occupied + 1 <= 127 /\ metadata' = CountSlot(c, home)
    BY <1>4, <1>5, Zenon
  <2>2. metadata'[home].overflowed_chunks_counter =
           IF metadata[home].overflowed_chunks_counter >= c - home
           THEN metadata[home].overflowed_chunks_counter ELSE c - home
    BY <2>1, CountSlotIs, ZenonT(30)
  <2>3. metadata'[home].overflowed_chunks_counter =
           IF metadata[home].overflowed_chunks_counter >= n
           THEN metadata[home].overflowed_chunks_counter ELSE n
    BY <1>4, <2>2, Zenon
  <2> QED
    BY <2>1, <2>3, CountSlotIs, ZenonT(30)
<1>7. OtherSlotsStay(c, s) /\ OtherChunksStay(t)
  BY <1>2, <1>4, <1>6, Zenon DEF OtherSlotsStay, OtherChunksStay
<1>8. \A d \in Chunks : metadata[d].overflowed_chunks_counter \in Nat
  BY MetadataIs, SMTT(30)
<1>9. OverflowGrows /\ OverflowBounded'
  <2>1. SUFFICES ASSUME NEW d \in Chunks
                 PROVE  /\ metadata'[d].overflowed_chunks_counter >= metadata[d].overflowed_chunks_counter
                        /\ metadata'[d].overflowed_chunks_counter <= SearchMax - 1
    BY DEF OverflowGrows, OverflowBounded
  <2>2. PICK a \in Nat : a = metadata[d].overflowed_chunks_counter /\ a <= SearchMax - 1
    BY <1>0, <1>8, Zenon DEF OverflowBounded
  <2>3. CASE d = home
    <3>1. metadata'[d].overflowed_chunks_counter = IF a >= n THEN a ELSE n
      BY <1>6, <2>2, <2>3, Zenon
    <3>2. n <= SearchMax - 1
      BY <1>4, Zenon
    <3> QED
      BY <2>2, <3>1, <3>2
  <2>4. CASE d # home
    <3>1. metadata'[d].overflowed_chunks_counter = a
      BY <1>6, <2>2, <2>4, Zenon
    <3> QED
      BY <2>2, <3>1
  <2> QED
    BY <2>3, <2>4
<1>10. ASSUME NEW j \in Keys
       PROVE  /\ Reach(j) \subseteq Reach(j)'
              /\ \A d \in Reach(j)' : d \in Reach(j) \/ d \in HomeOf[k] .. c
  <2>1. PICK h \in Chunks, a \in Nat, b \in Nat :
           /\ h = HomeOf[j] /\ h \in Nat /\ a = metadata[h].overflowed_chunks_counter
           /\ b = metadata'[h].overflowed_chunks_counter /\ b >= a
           /\ b = a \/ (h = home /\ b = n)
    <3>1. PICK h \in Chunks : h = HomeOf[j] /\ h \in Nat
      BY ConstantsSound, Zenon
    <3>2. PICK a \in Nat : a = metadata[h].overflowed_chunks_counter
      BY <1>8, Zenon
    <3>3. CASE h = home
      <4>1. metadata'[h].overflowed_chunks_counter = IF a >= n THEN a ELSE n
        BY <1>6, <3>2, <3>3, Zenon
      <4> QED
        BY <3>1, <3>2, <3>3, <4>1
    <3>4. CASE h # home
      <4>1. metadata'[h].overflowed_chunks_counter = a
        BY <1>6, <3>2, <3>4, Zenon
      <4> QED
        BY <3>1, <3>2, <4>1
    <3> QED
      BY <3>3, <3>4, Zenon
  <2>2. Reach(j) = h .. h + a /\ Reach(j)' = h .. h + b
    BY <2>1, Zenon DEF Reach, SearchLimit
  <2>3. h .. h + a \subseteq h .. h + b
    BY <2>1
  <2>4. \A d \in h .. h + b : d \in h .. h + a \/ d \in home .. c
    <3>1. CASE b = a
      BY <3>1, Zenon
    <3>2. CASE h = home /\ b = n
      BY <1>4, <3>2, Zenon
    <3> QED
      BY <2>1, <3>1, <3>2, Zenon
  <2> QED
    BY <1>4, <2>2, <2>3, <2>4, Zenon
<1>11. c \in Reach(k)'
  <2>1. PICK a \in Nat : a = metadata[home].overflowed_chunks_counter
    BY <1>8, Zenon
  <2>2. PICK b \in Nat : b = metadata'[home].overflowed_chunks_counter /\ b >= n
    BY <1>6, <2>1
  <2>3. Reach(k)' = home .. home + b
    BY <1>4, <2>2, Zenon DEF Reach, SearchLimit
  <2>4. ASSUME NEW h \in Nat PROVE h + n \in h .. h + b
    BY <2>2
  <2>5. home \in Nat /\ c = home + n
    BY <1>4, Zenon
  <2> QED
    BY <2>3, <2>4, <2>5, Zenon
<1>12. OneSlotPerKey' /\ NewKeysReached(t) /\ AbsentStays
  BY <1>0 DEF OneSlotPerKey, NewKeysReached, AbsentStays, Absent, HasKey
<1>13. OccupancyExact'
  <2>1. \A d \in Chunks : d # c => FreeSlots(d)' = FreeSlots(d)
    BY <1>2, Zenon DEF FreeSlots
  <2>2. ~metadata[c].is_full
    BY <1>0, Zenon DEF OccupancyExact
  <2>3. metadata'[c].slots_occupied = Cardinality(Slots \ FreeSlots(c)') /\ ~metadata'[c].is_full
    BY <1>5, <1>6, <2>2, Zenon
  <2>4. \A d \in Chunks : d # c => /\ metadata'[d].slots_occupied = metadata[d].slots_occupied
                                   /\ metadata'[d].is_full = metadata[d].is_full
    BY <1>6, Zenon
  <2>5. \A d \in Chunks : d # c =>
           /\ metadata'[d].slots_occupied = Cardinality(Slots \ FreeSlots(d)')
           /\ metadata'[d].is_full => FreeSlots(d)' = {}
    BY <1>0, <2>1, <2>4, Zenon DEF OccupancyExact
  <2> QED
    BY <2>3, <2>5, Zenon DEF OccupancyExact
<1>14. ReachGrows /\ ReachGrowsTo(k, c)
  BY <1>10 DEF ReachGrows, ReachGrowsTo
<1> QED
  BY <1>0, <1>2, <1>3, <1>6, <1>7, <1>9, <1>11, <1>12, <1>13, <1>14, Zenon DEF Taken

LEMMA TakenSound ==
    ASSUME SlotsSound, NEW c \in Chunks, NEW s \in Slots, OtherSlotsStay(c, s), ReachGrows,
           keys_values' = keys_values, keys_values[c][s].flags # "FILLED",
           keys_values[c][s].key = NoKey, Pending(c, s)', PendingKept(c, s)
    PROVE  SlotsSound'
<1>1. SlotSound(c, s)'
  BY DEF SlotSound
<1> QED
  BY <1>1, OtherSlotsSound, Zenon

\* What the second pass knows of the chunk it has locked.
LEMMA CreateKnows ==
    ASSUME IInv, NEW t \in Transactions, WriteCreate(t)
    PROVE  \E k \in Keys, c \in Chunks :
              /\ k = call[t].key /\ c = call[t].chunk /\ c \in HomeOf[k] .. HomeOf[k] + SearchMax - 1
              /\ Absent(k) /\ OwnsReach(t, k) /\ \A d \in HomeOf[k] .. c : writer'[d] = t
<1>0. TypeOK /\ Exclusion /\ WriteInv(t) /\ pc[t] = "write_create"
  BY Zenon DEF IInv, TxInv, WriteCreate
<1>1. PICK k \in Keys, c \in Chunks : k = call[t].key /\ c = call[t].chunk
  BY <1>0, Zenon DEF WriteInv, Writing, TypeOK, Calls
<1>2. /\ c \in HomeOf[k] .. HomeOf[k] + SearchMax - 1 /\ Absent(k) /\ OwnsReach(t, k)
      /\ \A d \in HomeOf[k] .. c - 1 : writer[d] = t
  BY <1>0, <1>1, Zenon DEF WriteInv, WriteCreateInv
<1>3. writer'[c] = t /\ \A d \in Chunks \ {c} : writer'[d] = writer[d]
  BY <1>0, <1>1, LockForWriteIs, ZenonT(30) DEF WriteCreate
<1>4. \A d \in HomeOf[k] .. c : d \in Chunks /\ (d = c \/ d \in HomeOf[k] .. c - 1)
  BY ConstantsSound, ChunksBetween
<1> QED
  BY <1>1, <1>2, <1>3, <1>4, ZenonT(30)

LEMMA WriteCreateTakeKeeps ==
    ASSUME SlotSets, IInv, NEW t \in Transactions, WriteCreate(t), FreeSlots(call[t].chunk) # {}
    PROVE  IInv' /\ Frame(t)
<1>0. /\ TypeOK /\ Exclusion /\ TableInv /\ OverflowBounded /\ SlotsSound /\ ReadsBounded(t)
      /\ WriteInv(t) /\ RmwInv(t) /\ RmwSlots(t) /\ pc[t] = "write_create"
  BY Zenon DEF IInv, TxInv, TableInv, RmwInv, WriteCreate
<1>1. PICK k \in Keys, c \in Chunks :
         /\ k = call[t].key /\ c = call[t].chunk /\ c \in HomeOf[k] .. HomeOf[k] + SearchMax - 1
         /\ Absent(k) /\ OwnsReach(t, k) /\ \A d \in HomeOf[k] .. c : writer'[d] = t
  BY CreateKnows, Zenon
<1>2. PICK s \in FreeSlots(c) : s = Min(FreeSlots(c)) /\ s \in Slots
  <2>1. FreeSlots(c) \in SUBSET Slots
    BY DEF FreeSlots
  <2> QED
    BY <1>1, <2>1, LeastSlot, ZenonT(30)
<1>3. /\ LockForWrite(t, c) /\ half_hashes' = [half_hashes EXCEPT ![c][s] = SlotId(k, c)]
      /\ metadata' = CountSlot(c, HomeOf[k]) /\ SlotReady(t, c, s, TRUE)
      /\ keys_values' = keys_values /\ indexed' = indexed /\ ops' = ops
  BY <1>1, <1>2, Zenon DEF WriteCreate
<1>4. LockStep(t) /\ readers' = readers
  BY <1>0, <1>3, LockStepIs, LockForWriteIs, ZenonT(30)
<1>5. writer'[c] = t /\ writer'[HomeOf[k]] = t
  <2>1. c \in HomeOf[k] .. c /\ HomeOf[k] \in HomeOf[k] .. c
    <3>1. PICK h \in Nat : h = HomeOf[k] /\ c \in Nat /\ c >= h
      BY <1>1, ConstantsSound
    <3> QED
      BY <3>1
  <2> QED
    BY <1>1, <2>1, ZenonT(30)
<1>6. /\ half_hashes' \in [Chunks -> [Slots -> SlotIds]] /\ metadata' \in [Chunks -> Metadata]
      /\ half_hashes'[c][s] = SlotId(k, c) /\ keys_values[c][s].flags # "FILLED"
      /\ keys_values[c][s].key = NoKey
      /\ OtherSlotsStay(c, s) /\ ReachGrows /\ c \in Reach(k)'
      /\ OtherChunksStay(t) /\ NewKeysReached(t) /\ OverflowGrows /\ OverflowBounded'
      /\ OneSlotPerKey' /\ OccupancyExact'
      /\ AbsentStays
      /\ ReachGrowsTo(k, c)
  <2>1. Taken(t, k, c, s)
    BY <1>0, <1>1, <1>3, <1>5, TakeIs, Zenon
  <2> QED
    BY <2>1, Zenon DEF Taken
<1>7. ASSUME NEW j \in Keys
      PROVE  Reach(j) \subseteq Chunks /\ \A d \in Reach(j)' : d \in Reach(j) \/ writer'[d] = t
  <2>1. Reach(j) \subseteq Chunks
    BY <1>0, ReachSound, Zenon
  <2>2. \A d \in Reach(j)' : d \in Reach(j) \/ writer'[d] = t
    BY <1>1, <1>6, ZenonT(30) DEF ReachGrowsTo
  <2> QED
    BY <2>1, <2>2, Zenon
<1>8. \A d \in Chunks : writer[d] = t => writer'[d] = t
  BY <1>4, Zenon DEF LockStep
<1>9. SlotInv(t, k, c, s, TRUE)'
  <2>1. OwnsReach(t, k)'
    BY <1>1, <1>7, <1>8, ZenonT(30) DEF OwnsReach
  <2> QED
    BY <1>1, <1>3, <1>5, <1>6, <2>1, ZenonT(30) DEF SlotInv, AbsentStays
<1>10. NotOpen(t, c, s)
  <2>1. SUFFICES ASSUME NEW i \in DOMAIN rmw[t], rmw[t][i].chunk = c, rmw[t][i].slot = s PROVE FALSE
    BY Zenon DEF NotOpen
  <2>2. /\ rmw[t][i].key \in Keys /\ rmw[t][i].chunk \in Reach(rmw[t][i].key)
        /\ half_hashes[c][s] = SlotId(rmw[t][i].key, c)
    BY <1>0, <2>1, RmwIsSeq, ZenonT(30) DEF RmwSlots, SlotInv
  <2>3. half_hashes[c][s] = NoSlotId
    BY Zenon DEF FreeSlots
  <2> QED
    BY <1>0, <2>1, <2>2, <2>3, ReachedSlotId, Zenon
<1>11. OwnSlotsHold(t)
  <2>1. SUFFICES ASSUME NEW o \in Range(rmw[t])
                 PROVE  SlotInv(t, o.key, o.chunk, o.slot, o.created_new)'
    BY Zenon DEF OwnSlotsHold
  <2>2. PICK i \in DOMAIN rmw[t] : o = rmw[t][i]
    BY Zenon DEF Range
  <2>3. /\ o.key \in Keys /\ o.chunk \in Chunks /\ o.slot \in Slots /\ o.created_new \in BOOLEAN
        /\ SlotInv(t, o.key, o.chunk, o.slot, o.created_new) /\ (o.chunk # c \/ o.slot # s)
    BY <1>0, <1>10, <2>2, RmwIsSeq, ZenonT(30) DEF RmwSlots, NotOpen
  <2>4. /\ half_hashes'[o.chunk][o.slot] = half_hashes[o.chunk][o.slot]
        /\ keys_values'[o.chunk][o.slot] = keys_values[o.chunk][o.slot]
    BY <1>6, <2>3, ZenonT(30) DEF OtherSlotsStay
  <2> QED
    BY <1>6, <1>7, <1>8, <2>3, <2>4, OwnSlotStays, ZenonT(30) DEF AbsentStays
<1>12. /\ pc' \in [Transactions -> PCs] /\ call' \in [Transactions -> Calls]
       /\ reply' \in [Transactions -> Replies] /\ OwnVariables(t) /\ OthersStay(t)
       /\ pc'[t] \in {"fill", "ready"} /\ TxInv(t)'
       /\ \A d \in Chunks : CreatedIn(t, d) \subseteq CreatedIn(t, d)'
       /\ Pending(c, s)'
  BY <1>0, <1>1, <1>2, <1>3, <1>9, <1>10, <1>11, SlotReadyIs, Zenon
<1>13. SlotsSound'
  <2>1. PendingKept(c, s)
    BY <1>0, <1>2, <1>12, PendingKeptIs, ZenonT(30)
  <2> QED
    BY <1>0, <1>2, <1>3, <1>6, <1>12, <2>1, TakenSound, ZenonT(30)
<1>14. \A d \in Chunks : readers'[d][t] <= ops'[t]
  BY <1>0, <1>3, <1>4, ZenonT(30) DEF ReadsBounded
<1>15. TypeOK'
  <2>1. keys_values' \in [Chunks -> [Slots -> KeyValues]]
    BY <1>0, <1>3, Zenon DEF TypeOK
  <2> QED
    BY <1>0, <1>4, <1>6, <1>12, <1>14, <2>1, StepTypes, ZenonT(30)
<1>16. ReadsBounded(t)'
  BY <1>12, <1>14, Zenon DEF ReadsBounded, Reading
<1>17. Frame(t) /\ Exclusion' /\ TableInv'
  BY <1>4, <1>6, <1>12, <1>13, ZenonT(30) DEF Frame, LockStep, TableInv
<1> QED
  BY <1>6, <1>12, <1>15, <1>16, <1>17, TableStep, ZenonT(30)

LEMMA FullIs ==
    ASSUME TypeOK, TableInv, NEW t \in Transactions, NEW c \in Chunks, writer'[c] = t,
           FreeSlots(c) = {}, metadata' = [metadata EXCEPT ![c].is_full = TRUE],
           half_hashes' = half_hashes, keys_values' = keys_values,
           \A d \in Chunks, r \in Slots : Pending(d, r) => Pending(d, r)'
    PROVE  /\ metadata' \in [Chunks -> Metadata] /\ TableInv' /\ OtherChunksStay(t)
           /\ NewKeysReached(t) /\ OverflowGrows
           /\ \A k \in Keys : Reach(k)' = Reach(k) /\ (Absent(k)' <=> Absent(k))
<1>0. /\ SlotsSound /\ OneSlotPerKey /\ OccupancyExact /\ OverflowBounded
      /\ metadata \in [Chunks -> Metadata] /\ metadata[c] \in Metadata
  BY DEF TableInv, TypeOK
<1>1. PICK m \in Metadata :
         /\ metadata' = [metadata EXCEPT ![c] = m] /\ m.slots_occupied = metadata[c].slots_occupied
         /\ m.overflowed_chunks_counter = metadata[c].overflowed_chunks_counter
  <2>1. [metadata[c] EXCEPT !.slots_occupied = metadata[c].slots_occupied, !.is_full = TRUE] \in Metadata
    BY <1>0, MetadataIs, MetadataWith, ZenonT(30)
  <2>2. [metadata[c] EXCEPT !.slots_occupied = metadata[c].slots_occupied, !.is_full = TRUE]
            = [metadata[c] EXCEPT !.is_full = TRUE]
    BY <1>0, Zenon DEF Metadata
  <2>3. PICK m \in Metadata : m = [metadata[c] EXCEPT !.is_full = TRUE]
    BY <2>1, <2>2
  <2>4. /\ m.slots_occupied = metadata[c].slots_occupied
        /\ m.overflowed_chunks_counter = metadata[c].overflowed_chunks_counter
    BY <1>0, <2>3, Zenon DEF Metadata
  <2>5. metadata' = [metadata EXCEPT ![c] = m]
    BY <1>0, <2>3, ZenonT(30)
  <2> QED
    BY <2>4, <2>5, Zenon
<1>2. /\ metadata' \in [Chunks -> Metadata]
      /\ \A d \in Chunks : d # c => metadata'[d] = metadata[d]
      /\ \A d \in Chunks :
            /\ metadata'[d].slots_occupied = metadata[d].slots_occupied
            /\ metadata'[d].overflowed_chunks_counter = metadata[d].overflowed_chunks_counter
  BY <1>0, <1>1, Zenon
<1>3. \A k \in Keys : Reach(k)' = Reach(k) /\ (Absent(k)' <=> Absent(k))
  BY <1>2, ConstantsSound, ZenonT(30) DEF Reach, SearchLimit, Absent, HasKey
<1>4. SlotsSound'
  <2>1. SUFFICES ASSUME NEW d \in Chunks, NEW r \in Slots PROVE SlotSound(d, r)'
    BY DEF SlotsSound
  <2>2. SlotSound(d, r) /\ (Pending(d, r) => Pending(d, r)')
    BY <1>0, Zenon DEF SlotsSound
  <2>3. \A k \in Keys : SearchLimit(HomeOf[k])' = SearchLimit(HomeOf[k])
    BY <1>2, ConstantsSound, ZenonT(30) DEF SearchLimit
  <2> QED
    BY <2>2, <2>3, Zenon DEF SlotSound, Reach
<1>5. OccupancyExact'
  <2>1. \A d \in Chunks : FreeSlots(d)' = FreeSlots(d)
    BY Zenon DEF FreeSlots
  <2> QED
    BY <1>0, <1>2, <2>1, ZenonT(30) DEF OccupancyExact
<1>6. OneSlotPerKey' /\ OverflowBounded' /\ NewKeysReached(t)
  BY <1>0, <1>2 DEF OneSlotPerKey, HasKey, OverflowBounded, NewKeysReached
<1>7. OtherChunksStay(t)
  BY <1>2, Zenon DEF OtherChunksStay
<1>8. OverflowGrows
  <2>1. \A d \in Chunks : metadata[d].overflowed_chunks_counter \in Int
    BY MetadataIs
  <2> QED
    BY <1>2, <2>1 DEF OverflowGrows
<1> QED
  BY <1>2, <1>3, <1>4, <1>5, <1>6, <1>7, <1>8, ZenonT(30) DEF TableInv

LEMMA WriteCreateFullKeeps ==
    ASSUME IInv, NEW t \in Transactions, WriteCreate(t), FreeSlots(call[t].chunk) = {}
    PROVE  IInv' /\ Frame(t)
<1>0. /\ TypeOK /\ Exclusion /\ TableInv /\ OverflowBounded /\ ReadsBounded(t)
      /\ WriteInv(t) /\ RmwInv(t) /\ RmwSlots(t) /\ pc[t] = "write_create"
  BY Zenon DEF IInv, TxInv, TableInv, RmwInv, WriteCreate
<1>1. PICK k \in Keys, c \in Chunks :
         /\ k = call[t].key /\ c = call[t].chunk /\ c \in HomeOf[k] .. HomeOf[k] + SearchMax - 1
         /\ Absent(k) /\ OwnsReach(t, k) /\ \A d \in HomeOf[k] .. c : writer'[d] = t
  BY CreateKnows, Zenon
<1>2. /\ LockForWrite(t, c) /\ metadata' = [metadata EXCEPT ![c].is_full = TRUE]
      /\ half_hashes' = half_hashes /\ keys_values' = keys_values
      /\ rmw' = rmw /\ reads' = reads /\ claims' = claims /\ indexed' = indexed /\ ops' = ops
      /\ IF c + 1 < HomeOf[k] + SearchMax
         THEN Continue(t, "write_create", [call[t] EXCEPT !.chunk = c + 1])
         ELSE Return(t, Failed)
  BY <1>1, Zenon DEF WriteCreate, history
<1>3. LockStep(t) /\ readers' = readers /\ writer'[c] = t
  BY <1>0, <1>2, LockStepIs, LockForWriteIs, ZenonT(30)
<1>4. PICK l \in Calls : l = call[t] /\ l.key = k /\ l.chunk = c
  BY <1>0, <1>1, ZenonT(30) DEF TypeOK
<1>5. PICK p \in {"write_create", "ready"}, m \in Calls :
         /\ pc' = [pc EXCEPT ![t] = p] /\ call' = [call EXCEPT ![t] = m]
         /\ reply' \in [Transactions -> Replies]
         /\ IF p = "ready" THEN m = NoCall
            ELSE m = [l EXCEPT !.chunk = c + 1] /\ c + 1 \in HomeOf[k] .. HomeOf[k] + SearchMax - 1
  <2>1. CASE c + 1 < HomeOf[k] + SearchMax
    <3>1. PICK h \in Nat, n \in Nat : h = HomeOf[k] /\ n = SearchMax /\ c \in Nat /\ c >= h
      BY <1>1, ConstantsSound
    <3>2. c + 1 \in h .. h + n - 1
      BY <2>1, <3>1
    <3>3. c + 1 \in HomeOf[k] .. HomeOf[k] + SearchMax - 1
      BY <3>1, <3>2, ZenonT(30)
    <3>4. PICK m \in Calls : m = [l EXCEPT !.chunk = c + 1]
      <4>1. c + 1 \in Chunks
        BY <3>3, SearchedInTable, ZenonT(30)
      <4> QED
        BY <4>1, Zenon DEF Calls
    <3>5. Continue(t, "write_create", m)
      BY <1>2, <1>4, <2>1, <3>4, ZenonT(30)
    <3>6. reply' \in [Transactions -> Replies]
      BY <1>0, <3>5, ZenonT(30) DEF Continue, TypeOK, Replies
    <3> QED
      BY <3>3, <3>4, <3>5, <3>6, Zenon DEF Continue
  <2>2. CASE ~(c + 1 < HomeOf[k] + SearchMax)
    <3>1. Return(t, Failed)
      BY <1>2, <2>2, Zenon
    <3>2. reply' \in [Transactions -> Replies]
      BY <1>0, <3>1, ZenonT(30) DEF Return, TypeOK, Replies
    <3> QED
      BY <3>1, <3>2, NoCallSound, Zenon DEF Return
  <2> QED
    BY <2>1, <2>2, ZenonT(30)
<1>6. /\ pc' \in [Transactions -> PCs] /\ call' \in [Transactions -> Calls]
      /\ pc'[t] = p /\ call'[t] = m
      /\ \A u \in Transactions \ {t} : pc'[u] = pc[u] /\ call'[u] = call[u]
  BY <1>0, <1>5, CallChanges, Zenon DEF PCs
<1>7. OwnVariables(t) /\ OthersStay(t)
  BY <1>0, <1>2, <1>6, ZenonT(30) DEF OwnVariables, TypeOK, OthersStay
<1>8. \A d \in Chunks, r \in Slots : Pending(d, r) => Pending(d, r)'
  <2>1. SUFFICES ASSUME NEW d \in Chunks, NEW r \in Slots, Pending(d, r) PROVE Pending(d, r)'
    BY Zenon
  <2>2. PICK u \in Transactions :
           \/ pc[u] = "fill" /\ call[u].created /\ call[u].chunk = d /\ call[u].slot = r
           \/ r \in CreatedIn(u, d)
    BY <2>1, Zenon DEF Pending
  <2>3. CreatedIn(u, d)' = CreatedIn(u, d)
    BY <1>2, Zenon DEF CreatedIn
  <2>4. pc[u] = "fill" => u # t
    BY <1>0, Zenon
  <2> QED
    BY <1>6, <2>2, <2>3, <2>4, ZenonT(30) DEF Pending
<1>9. /\ metadata' \in [Chunks -> Metadata] /\ TableInv' /\ OtherChunksStay(t)
      /\ NewKeysReached(t) /\ OverflowGrows
      /\ \A j \in Keys : Reach(j)' = Reach(j) /\ (Absent(j)' <=> Absent(j))
  BY <1>0, <1>1, <1>2, <1>3, <1>8, FullIs, Zenon
<1>10. \A d \in Chunks : readers'[d][t] <= ops'[t]
  BY <1>0, <1>2, <1>3, ZenonT(30) DEF ReadsBounded
<1>11. TypeOK'
  <2>1. half_hashes' \in [Chunks -> [Slots -> SlotIds]] /\ keys_values' \in [Chunks -> [Slots -> KeyValues]]
    BY <1>0, <1>2, Zenon DEF TypeOK
  <2> QED
    BY <1>0, <1>3, <1>5, <1>6, <1>7, <1>9, <1>10, <2>1, StepTypes, ZenonT(30)
<1>12. ReadsBounded(t)'
  BY <1>5, <1>6, <1>10, ZenonT(30) DEF ReadsBounded, Reading
<1>13. OwnsReach(t, k)' /\ Absent(k)'
  <2>1. Reach(k) \subseteq Chunks /\ Reach(k)' = Reach(k) /\ \A d \in Chunks : writer[d] = t => writer'[d] = t
    BY <1>0, <1>3, <1>9, ReachSound, ZenonT(30) DEF LockStep
  <2> QED
    BY <1>1, <1>9, <2>1, ZenonT(30) DEF OwnsReach
<1>14. RmwSlots(t)'
  <2>1. PICK q \in Seq(RmwStatuses) : rmw[t] = q /\ rmw'[t] = q
    BY <1>0, <1>2, ZenonT(30) DEF TypeOK
  <2>2. ASSUME NEW i \in DOMAIN q
        PROVE  SlotInv(t, q[i].key, q[i].chunk, q[i].slot, q[i].created_new)'
    <3>1. /\ q[i].key \in Keys /\ q[i].chunk \in Chunks /\ q[i].slot \in Slots
          /\ q[i].created_new \in BOOLEAN
          /\ SlotInv(t, q[i].key, q[i].chunk, q[i].slot, q[i].created_new)
      BY <1>0, <2>1, RmwIsSeq, Zenon DEF RmwSlots
    <3>2. ReachGrows /\ Reach(q[i].key) \subseteq Chunks
      BY <1>0, <1>9, <3>1, ReachSound, Zenon DEF ReachGrows
    <3>3. \A d \in Chunks : writer[d] = t => writer'[d] = t
      BY <1>3, Zenon DEF LockStep
    <3> QED
      BY <1>2, <1>9, <3>1, <3>2, <3>3, OwnSlotStays
  <2> QED
    BY <1>0, <2>1, <2>2, ZenonT(30) DEF RmwSlots
<1>15. TxInv(t)'
  <2>1. CASE p = "ready"
    BY <1>5, <1>6, <1>14, <2>1, ReadyKnows, ZenonT(30)
  <2>2. CASE p # "ready"
    <3>1. /\ m.op = l.op /\ m.key = k /\ m.value = l.value /\ m.chunk = c + 1
          /\ c + 1 \in HomeOf[k] .. HomeOf[k] + SearchMax - 1
      BY <1>4, <1>5, <2>2, ZenonT(30) DEF Calls
    <3>2. p = "write_create" /\ (c + 1) - 1 = c
      BY <2>2, ConstantsSound
    <3>3. WriteCreateInv(t)'
      BY <1>1, <1>6, <1>13, <3>1, <3>2, ZenonT(30) DEF WriteCreateInv
    <3>4. WriteInv(t)'
      BY <1>0, <1>2, <1>4, <1>6, <3>1, <3>2, <3>3, ZenonT(30) DEF WriteInv, Writing
    <3>5. RmwInv(t)' /\ SearchInv(t)'
      BY <1>0, <1>2, <1>4, <1>6, <1>14, <3>1, <3>2, ZenonT(30) DEF RmwInv, SearchInv, Searching
    <3> QED
      BY <3>4, <3>5, Zenon DEF TxInv
  <2> QED
    BY <2>1, <2>2, ZenonT(30)
<1>16. Frame(t) /\ Exclusion'
  BY <1>3, <1>7, <1>9, Zenon DEF Frame, LockStep
<1> QED
  BY <1>9, <1>11, <1>12, <1>15, <1>16, TableStep, ZenonT(30)

LEMMA WriteCreateKeeps == ASSUME SlotSets, IInv, NEW t \in Transactions, WriteCreate(t) PROVE IInv' /\ Frame(t)
BY WriteCreateTakeKeeps, WriteCreateFullKeeps, Zenon
=============================================================================
