-------------------------- MODULE SlotsBitmapProofs --------------------------
(***************************************************************************)
(* Slots of the bitmap have one holder, for every number of threads,       *)
(* shards and bits, as long as no exchange installs bits that it did not   *)
(* compare with.                                                           *)
(***************************************************************************)
EXTENDS SlotsBitmap, FiniteSetTheorems, TLAPS

Locals == [pc : PCs, shard : Int, bit : Int, value : SUBSET Bits, new : SUBSET Bits,
           restart : BOOLEAN, slot : (Shards \X Bits) \cup {NoSlot}]

Types == shards \in [Shards -> SUBSET Bits] /\ th \in [Threads -> Locals] /\ reread \in BOOLEAN

\* What a thread in the middle of a call knows.  The bit it is about to take is not in
\* the value it compares with, and the one it gives back is that of its slot.
Searching(t) ==
    /\ th[t].pc \in {"check", "read", "new", "cas"} => th[t].slot = NoSlot
    /\ th[t].pc \in {"read", "new", "cas"} => th[t].shard \in Shards
    /\ th[t].pc \in {"new", "cas"} => th[t].bit \in Bits \ th[t].value
Releasing(t) ==
    /\ th[t].pc \in {"release", "release_cas"} => th[t].slot # NoSlot
    /\ th[t].pc = "release_cas" => /\ th[t].slot = <<th[t].shard, th[t].bit>>
                                   /\ th[t].new = th[t].value \ {th[t].bit}

\* The inductive invariant.
SlotsInv == Types /\ (\A t \in Threads : Searching(t) /\ Releasing(t)) /\ Exclusive

\* A slot is not NoSlot.
LEMMA SlotIsSome == \A s \in Shards, b \in Bits : <<s, b>> # NoSlot
BY DEF Shards, Bits, NoSlot

LEMMA IdleIsLocal == \A slot \in (Shards \X Bits) \cup {NoSlot} : Idle(slot) \in Locals
BY DEF Idle, Locals, PCs

LEMMA InitInv == Init => SlotsInv
<1> SUFFICES ASSUME Init PROVE SlotsInv
  OBVIOUS
<1>1. Types
  BY IdleIsLocal DEF Init, Types
<1>2. \A t \in Threads : Searching(t) /\ Releasing(t)
  BY DEF Init, Searching, Releasing, Idle
<1>3. Exclusive
  BY DEF Init, Exclusive, Holding, Idle
<1> QED
  BY <1>1, <1>2, <1>3 DEF SlotsInv

\* A step of thread t that only changes t's own variables, and leaves t without a slot or
\* with the one it had, keeps slots exclusive.
LEMMA LocalStep ==
    ASSUME SlotsInv, NEW t \in Threads, NEW l \in Locals,
           th' = [th EXCEPT ![t] = l], l.slot \in {th[t].slot, NoSlot},
           UNCHANGED <<shards, reread>>
    PROVE  Types' /\ Exclusive'
<1>1. Types'
  BY DEF SlotsInv, Types
<1>2. \A u \in Threads : th'[u].slot = th[u].slot \/ th'[u].slot = NoSlot
  BY DEF SlotsInv, Types
<1> QED
  BY <1>1, <1>2 DEF SlotsInv, Exclusive, Holding

\* The other threads know what they knew, whatever becomes of the shards.
LEMMA OthersKnow ==
    ASSUME SlotsInv, NEW t \in Threads, NEW l \in Locals, th' = [th EXCEPT ![t] = l],
           NEW u \in Threads, u # t
    PROVE  Searching(u)' /\ Releasing(u)'
<1>1. th'[u] = th[u]
  BY DEF SlotsInv, Types
<1> QED
  BY <1>1 DEF SlotsInv, Searching, Releasing

LEMMA NextInv == SlotsInv /\ [Next]_vars => SlotsInv'
<1> SUFFICES ASSUME SlotsInv, [Next]_vars PROVE SlotsInv'
  OBVIOUS
<1>1. ASSUME NEW t \in Threads, Get(t) PROVE SlotsInv'
  <2> DEFINE l == [th[t] EXCEPT !.pc = "check"]
  <2>1. l \in Locals /\ th' = [th EXCEPT ![t] = l] /\ th'[t] = l /\ l.slot = th[t].slot
    BY <1>1 DEF Get, SlotsInv, Types, Locals, PCs
  <2>2. Types' /\ Exclusive'
    BY <1>1, <2>1, LocalStep DEF Get
  <2>3. Searching(t)' /\ Releasing(t)'
    BY <1>1, <2>1 DEF Get, Searching, Releasing
  <2> QED
    BY <2>1, <2>2, <2>3, OthersKnow DEF SlotsInv
<1>2. ASSUME NEW t \in Threads, NotFound(t) PROVE SlotsInv'
  <2> DEFINE l == IF th[t].restart THEN [Idle(NoSlot) EXCEPT !.pc = "check"] ELSE Idle(NoSlot)
  <2>0. th' = [th EXCEPT ![t] = l] /\ th'[t] = l
    BY <1>2 DEF NotFound, SlotsInv, Types
  <2>1. l \in Locals /\ l.slot = NoSlot
    <3>1. CASE th[t].restart
      <4>1. l = [Idle(NoSlot) EXCEPT !.pc = "check"]
        BY <3>1
      <4> QED
        BY <4>1, IdleIsLocal DEF Locals, PCs, Idle
    <3>2. CASE ~th[t].restart
      <4>1. l = Idle(NoSlot)
        BY <3>2
      <4> QED
        BY <4>1, IdleIsLocal DEF Idle
    <3> QED
      BY <3>1, <3>2
  <2>2. Types' /\ Exclusive'
    BY <1>2, <2>0, <2>1, LocalStep DEF NotFound
  <2>3. l.pc \in {"check", "idle"}
    BY DEF Idle
  <2>4. Searching(t)' /\ Releasing(t)'
    BY <2>0, <2>1, <2>3 DEF Searching, Releasing
  <2> QED
    BY <2>0, <2>1, <2>2, <2>4, OthersKnow DEF SlotsInv
<1>3. ASSUME NEW t \in Threads, CheckFull(t) PROVE SlotsInv'
  <2>1. ASSUME NEW l \in Locals, th' = [th EXCEPT ![t] = l], l.slot = th[t].slot,
               l.pc = "check" \/ (l.pc = "read" /\ l.shard \in Shards)
        PROVE  SlotsInv'
    <3>1. Types' /\ Exclusive'
      BY <1>3, <2>1, LocalStep DEF CheckFull
    <3>2. th'[t] = l
      BY <2>1 DEF SlotsInv, Types
    <3>3. Searching(t)' /\ Releasing(t)'
      BY <1>3, <2>1, <3>2 DEF CheckFull, SlotsInv, Searching, Releasing
    <3> QED
      BY <2>1, <3>1, <3>3, OthersKnow DEF SlotsInv
  <2>2. CASE used[th[t].shard] = ShardSize
    <3> DEFINE l == [th[t] EXCEPT !.shard = @ + 1]
    <3>0. th[t] \in Locals /\ th[t].pc = "check"
      BY <1>3 DEF CheckFull, SlotsInv, Types
    <3>1. l \in Locals /\ l.slot = th[t].slot /\ l.pc = "check"
      BY <3>0 DEF Locals
    <3>2. th' = [th EXCEPT ![t] = l]
      BY <1>3, <2>2 DEF CheckFull, SlotsInv, Types
    <3> QED
      BY <2>1, <3>1, <3>2
  <2>3. CASE used[th[t].shard] # ShardSize
    <3> DEFINE l == [th[t] EXCEPT !.pc = "read"]
    <3>1. l \in Locals /\ l.slot = th[t].slot /\ l.pc = "read" /\ l.shard \in Shards
      BY <1>3 DEF CheckFull, SlotsInv, Types, Locals, PCs
    <3>2. th' = [th EXCEPT ![t] = l]
      BY <1>3, <2>3 DEF CheckFull, SlotsInv, Types
    <3> QED
      BY <2>1, <3>1, <3>2
  <2> QED
    BY <2>2, <2>3
<1>4. ASSUME NEW t \in Threads, ReadShard(t) PROVE SlotsInv'
  <2>1. CASE /\ Bits \subseteq shards[th[t].shard]
             /\ th' = [th EXCEPT ![t].pc = "check", ![t].shard = @ + 1]
    <3> DEFINE l == [th[t] EXCEPT !.pc = "check", !.shard = @ + 1]
    <3>1. l \in Locals /\ th' = [th EXCEPT ![t] = l] /\ th'[t] = l /\ l.slot = th[t].slot
      BY <2>1 DEF SlotsInv, Types, Locals, PCs
    <3>2. Types' /\ Exclusive'
      BY <1>4, <3>1, LocalStep DEF ReadShard
    <3>3. Searching(t)' /\ Releasing(t)'
      BY <1>4, <3>1 DEF ReadShard, SlotsInv, Searching, Releasing
    <3> QED
      BY <3>1, <3>2, <3>3, OthersKnow DEF SlotsInv
  <2>2. ASSUME NEW b \in Bits \ shards[th[t].shard],
               th' = [th EXCEPT ![t].pc = "new", ![t].value = shards[th[t].shard], ![t].bit = b]
        PROVE  SlotsInv'
    <3> DEFINE l == [th[t] EXCEPT !.pc = "new", !.value = shards[th[t].shard], !.bit = b]
    <3>1. th[t].shard \in Shards /\ shards[th[t].shard] \in SUBSET Bits /\ b \in Int
      BY <1>4 DEF ReadShard, SlotsInv, Types, Searching, Bits
    <3>2. l \in Locals /\ th' = [th EXCEPT ![t] = l] /\ th'[t] = l /\ l.slot = th[t].slot
      BY <2>2, <3>1 DEF SlotsInv, Types, Locals, PCs
    <3>3. Types' /\ Exclusive'
      BY <1>4, <3>2, LocalStep DEF ReadShard
    <3>4. Searching(t)' /\ Releasing(t)'
      BY <1>4, <3>1, <3>2 DEF ReadShard, SlotsInv, Searching, Releasing
    <3> QED
      BY <3>2, <3>3, <3>4, OthersKnow DEF SlotsInv
  <2> QED
    BY <1>4, <2>1, <2>2 DEF ReadShard
<1>5. ASSUME NEW t \in Threads, Compute(t) PROVE SlotsInv'
  <2> DEFINE l == [th[t] EXCEPT !.pc = "cas", !.new = NewValue(t)]
  <2>1. NewValue(t) \in SUBSET Bits
    BY <1>5 DEF Compute, NewValue, SlotsInv, Types, Searching
  <2>2. l \in Locals /\ th' = [th EXCEPT ![t] = l] /\ th'[t] = l /\ l.slot = th[t].slot
    BY <1>5, <2>1 DEF Compute, SlotsInv, Types, Locals, PCs
  <2>3. Types' /\ Exclusive'
    BY <1>5, <2>2, LocalStep DEF Compute
  <2>4. th'[t].pc = "cas" /\ th'[t].slot = th[t].slot /\ th'[t].shard = th[t].shard
           /\ th'[t].bit = th[t].bit /\ th'[t].value = th[t].value
    BY <2>2 DEF SlotsInv, Types, Locals
  <2>5. Searching(t)' /\ Releasing(t)'
    BY <1>5, <2>4 DEF Compute, SlotsInv, Searching, Releasing
  <2> QED
    BY <2>2, <2>3, <2>5, OthersKnow DEF SlotsInv
<1>6. ASSUME NEW t \in Threads, Take(t) PROVE SlotsInv'
  <2> DEFINE s == th[t].shard
             b == th[t].bit
             l == [th[t] EXCEPT !.pc = "count", !.slot = <<s, b>>, !.value = {}, !.new = {}]
  <2>1. s \in Shards /\ b \in Bits /\ b \notin shards[s] /\ th[t].new \in SUBSET Bits
    BY <1>6 DEF Take, Swaps, SlotsInv, Types, Locals, Searching
  <2>2. l \in Locals /\ th' = [th EXCEPT ![t] = l] /\ th'[t] = l /\ l.slot = <<s, b>>
    BY <1>6, <2>1 DEF Take, SlotsInv, Types, Locals, PCs
  <2>3. Types'
    BY <1>6, <2>1, <2>2 DEF Take, SlotsInv, Types
  <2>4. Searching(t)' /\ Releasing(t)'
    <3>1. th'[t].pc = "count"
      BY <2>2 DEF SlotsInv, Types, Locals
    <3> QED
      BY <3>1 DEF Searching, Releasing
  <2>5. ASSUME ~reread' PROVE Exclusive'
    <3>1. shards' = [shards EXCEPT ![s] = shards[s] \cup {b}] /\ ~reread
      BY <1>6, <2>5 DEF Take, Swaps
    <3>2. ASSUME NEW u \in Threads PROVE th[u].slot # <<s, b>>
      <4>1. th[u].slot = NoSlot \/ th[u].slot[2] \in shards[th[u].slot[1]]
        BY <3>1 DEF SlotsInv, Exclusive, Holding
      <4>2. <<s, b>> # NoSlot
        BY <2>1, SlotIsSome
      <4> QED
        BY <2>1, <4>1, <4>2
    <3>3. \A u \in Threads : u # t => th'[u].slot = th[u].slot
      BY <2>2 DEF SlotsInv, Types
    <3>4. \A v \in Shards : shards[v] \subseteq shards'[v]
      BY <3>1 DEF SlotsInv, Types
    <3>5. b \in shards'[s]
      BY <2>1, <3>1 DEF SlotsInv, Types
    <3>6. ASSUME NEW u \in Threads, Holding(u)' PROVE th'[u].slot[2] \in shards'[th'[u].slot[1]]
      <4>1. CASE u = t
        <5>1. th'[u].slot = <<s, b>>
          BY <4>1, <2>2
        <5> QED
          BY <5>1, <3>5
      <4>2. CASE u # t
        <5>1. Holding(u) /\ th[u].slot \in Shards \X Bits
          BY <4>2, <3>3, <3>6 DEF Holding, SlotsInv, Types, Locals
        <5> QED
          BY <5>1, <4>2, <3>1, <3>3, <3>4 DEF SlotsInv, Exclusive
      <4> QED
        BY <4>1, <4>2
    <3>7. \A u, v \in Threads : (u # v /\ Holding(u)') => th'[u].slot # th'[v].slot
      BY <2>2, <3>1, <3>2, <3>3 DEF SlotsInv, Exclusive, Holding
    <3> QED
      BY <3>6, <3>7 DEF Exclusive
  <2>6. Exclusive'
    BY <2>5 DEF Exclusive
  <2> QED
    BY <2>2, <2>3, <2>4, <2>6, OthersKnow DEF SlotsInv
<1>7. ASSUME NEW t \in Threads, TakeLost(t) PROVE SlotsInv'
  <2> DEFINE l == [th[t] EXCEPT !.pc = "check", !.shard = @ + 1, !.restart = TRUE,
                                 !.bit = 0, !.value = {}, !.new = {}]
  <2>1. l \in Locals /\ th' = [th EXCEPT ![t] = l] /\ th'[t] = l /\ l.slot = th[t].slot
    BY <1>7 DEF TakeLost, SlotsInv, Types, Locals, PCs
  <2>2. Types' /\ Exclusive'
    BY <1>7, <2>1, LocalStep DEF TakeLost
  <2>3. th'[t].pc = "check" /\ th'[t].slot = th[t].slot
    BY <2>1 DEF SlotsInv, Types, Locals
  <2>4. Searching(t)' /\ Releasing(t)'
    BY <1>7, <2>3 DEF TakeLost, SlotsInv, Searching, Releasing
  <2> QED
    BY <2>1, <2>2, <2>4, OthersKnow DEF SlotsInv
<1>8. ASSUME NEW t \in Threads, CountTaken(t) \/ CountReleased(t) PROVE SlotsInv'
  <2> DEFINE l == Idle(th[t].slot)
  <2>1. th[t].slot \in (Shards \X Bits) \cup {NoSlot}
    BY DEF SlotsInv, Types, Locals
  <2>2. l \in Locals /\ l.pc = "idle" /\ l.slot = th[t].slot
    BY <2>1, IdleIsLocal DEF Idle
  <2>3. th' = [th EXCEPT ![t] = l] /\ th'[t] = l
    BY <1>8 DEF CountTaken, CountReleased, SlotsInv, Types
  <2>4. Types' /\ Exclusive'
    BY <1>8, <2>2, <2>3, LocalStep DEF CountTaken, CountReleased
  <2>5. Searching(t)' /\ Releasing(t)'
    BY <2>2, <2>3 DEF Searching, Releasing
  <2> QED
    BY <2>2, <2>3, <2>4, <2>5, OthersKnow DEF SlotsInv
<1>9. ASSUME NEW t \in Threads, Release(t) PROVE SlotsInv'
  <2> DEFINE s == th[t].slot[1]
             b == th[t].slot[2]
  <2>1. th[t].slot \in Shards \X Bits
    BY <1>9 DEF Release, SlotsInv, Types, Locals, Releasing
  <2>2. s \in Int /\ b \in Int /\ shards[s] \in SUBSET Bits /\ th[t].slot = <<s, b>>
    BY <2>1 DEF Shards, Bits, SlotsInv, Types
  <2>3. CASE b \in shards[s]
    <3> DEFINE l == [th[t] EXCEPT !.pc = "release_cas", !.shard = s, !.bit = b,
                                  !.value = shards[s], !.new = shards[s] \ {b}]
    <3>1. th' = [th EXCEPT ![t] = l]
      BY <1>9, <2>3 DEF Release, SlotsInv, Types
    <3>0. th[t] \in Locals /\ th'[t] = l
      BY <3>1 DEF SlotsInv, Types
    <3>2. l \in Locals /\ l.slot = th[t].slot /\ th'[t] = l
      BY <2>2, <3>0 DEF Locals, PCs
    <3>3. Types' /\ Exclusive'
      BY <1>9, <3>1, <3>2, LocalStep DEF Release
    <3>4. l.pc = "release_cas" /\ l.shard = s /\ l.bit = b /\ l.value = shards[s]
             /\ l.new = shards[s] \ {b}
      BY DEF SlotsInv, Types, Locals
    <3>5. l.slot # NoSlot
      BY <2>1, <2>2, <3>2, SlotIsSome
    <3> HIDE DEF l
    <3>6. Searching(t)' /\ Releasing(t)'
      BY <2>2, <3>2, <3>4, <3>5 DEF Searching, Releasing
    <3> QED
      BY <3>1, <3>2, <3>3, <3>6, OthersKnow DEF SlotsInv
  <2>4. CASE b \notin shards[s]
    <3>1. th' = [th EXCEPT ![t] = Idle(NoSlot)] /\ th'[t] = Idle(NoSlot)
      BY <1>9, <2>4 DEF Release, SlotsInv, Types
    <3>2. Idle(NoSlot) \in Locals /\ Idle(NoSlot).slot = NoSlot /\ Idle(NoSlot).pc = "idle"
      BY IdleIsLocal DEF Idle
    <3>3. Types' /\ Exclusive'
      BY <1>9, <3>1, <3>2, LocalStep DEF Release
    <3>4. Searching(t)' /\ Releasing(t)'
      BY <3>1, <3>2 DEF Searching, Releasing
    <3> QED
      BY <3>1, <3>2, <3>3, <3>4, OthersKnow DEF SlotsInv
  <2> QED
    BY <2>3, <2>4
<1>10. ASSUME NEW t \in Threads, GiveBack(t) PROVE SlotsInv'
  <2> DEFINE s == th[t].shard
             b == th[t].bit
             l == [th[t] EXCEPT !.pc = "release_count", !.slot = NoSlot, !.value = {}, !.new = {}]
  <2>1. /\ th[t].slot = <<s, b>> /\ <<s, b>> \in Shards \X Bits
        /\ th[t].new = shards[s] \ {b} /\ th[t].new \in SUBSET Bits
    BY <1>10 DEF GiveBack, Swaps, SlotsInv, Types, Locals, Releasing
  <2>2. l \in Locals /\ th' = [th EXCEPT ![t] = l] /\ th'[t] = l /\ l.slot = NoSlot
    BY <1>10 DEF GiveBack, SlotsInv, Types, Locals, PCs
  <2>3. shards' = [shards EXCEPT ![s] = shards[s] \ {b}] /\ reread' = reread
    BY <1>10, <2>1 DEF GiveBack
  <2>4. Types'
    BY <2>1, <2>2, <2>3 DEF SlotsInv, Types
  <2>5. Searching(t)' /\ Releasing(t)'
    <3>1. th'[t].pc = "release_count"
      BY <2>2 DEF SlotsInv, Types, Locals
    <3> QED
      BY <3>1 DEF Searching, Releasing
  <2>6. ASSUME ~reread' PROVE Exclusive'
    <3>1. \A u \in Threads : u # t => th'[u].slot = th[u].slot
      BY <2>2 DEF SlotsInv, Types
    <3>2. ASSUME NEW u \in Threads, Holding(u)' PROVE th'[u].slot[2] \in shards'[th'[u].slot[1]]
      <4>1. u # t /\ Holding(u) /\ th'[u].slot = th[u].slot
        BY <2>2, <3>1, <3>2 DEF Holding
      <4>2. PICK v \in Shards, c \in Bits : th[u].slot = <<v, c>>
        BY <4>1 DEF Holding, SlotsInv, Types, Locals
      <4>3. c \in shards[v] /\ <<v, c>> # <<s, b>>
        BY <2>1, <2>3, <2>6, <4>1, <4>2 DEF SlotsInv, Exclusive
      <4>4. c \in shards'[v]
        BY <2>3, <4>3 DEF SlotsInv, Types
      <4> QED
        BY <4>1, <4>2, <4>4
    <3>3. \A u, v \in Threads : (u # v /\ Holding(u)') => th'[u].slot # th'[v].slot
      BY <2>2, <2>3, <2>6, <3>1 DEF SlotsInv, Exclusive, Holding
    <3> QED
      BY <3>2, <3>3 DEF Exclusive
  <2>7. Exclusive'
    BY <2>6 DEF Exclusive
  <2> QED
    BY <2>2, <2>4, <2>5, <2>7, OthersKnow DEF SlotsInv
<1>11. ASSUME NEW t \in Threads, GiveBackLost(t) PROVE SlotsInv'
  <2> DEFINE l == [th[t] EXCEPT !.pc = "release"]
  <2>1. l \in Locals /\ th' = [th EXCEPT ![t] = l] /\ th'[t] = l /\ l.slot = th[t].slot
    BY <1>11 DEF GiveBackLost, SlotsInv, Types, Locals, PCs
  <2>2. Types' /\ Exclusive'
    BY <1>11, <2>1, LocalStep DEF GiveBackLost
  <2>3. Searching(t)' /\ Releasing(t)'
    BY <1>11, <2>1 DEF GiveBackLost, SlotsInv, Searching, Releasing
  <2> QED
    BY <2>1, <2>2, <2>3, OthersKnow DEF SlotsInv
<1>12. CASE UNCHANGED vars
  BY <1>12 DEF vars, SlotsInv, Types, Searching, Releasing, Exclusive, Holding
<1> QED
  BY <1>1, <1>2, <1>3, <1>4, <1>5, <1>6, <1>7, <1>8, <1>9, <1>10, <1>11, <1>12
  DEF Next, Step, Finished

\* Whatever the threads, shards and bits, two threads hold the same slot only after
\* slots_bitmap_mpmc_get_next_available_ptr_with_step has exchanged a shard for a value
\* that it read after the one it compared with.
THEOREM SlotsExclusive == Spec => []Exclusive
<1>1. SlotsInv => Exclusive
  BY DEF SlotsInv
<1> QED
  BY <1>1, InitInv, NextInv, PTL DEF Spec

----------------------------------------------------------------------------
(***************************************************************************)
(* The count of a shard.  A thread that has exchanged the shard and not    *)
(* counted it yet knows which shard to count.                              *)
(***************************************************************************)
Takers(s) == {t \in Threads : th[t].pc = "count" /\ th[t].shard = s}
Releasers(s) == {t \in Threads : th[t].pc = "release_count" /\ th[t].shard = s}
Counting == {"count", "release_count"}

BitsHeld(s) == \A b \in shards[s] : \E t \in Threads : th[t].slot = <<s, b>>
CountExact(s) ==
    /\ IsFiniteSet(shards[s]) /\ IsFiniteSet(Takers(s)) /\ IsFiniteSet(Releasers(s))
    /\ used[s] = Cardinality(shards[s]) + Cardinality(Releasers(s)) - Cardinality(Takers(s))

\* Inductive together with SlotsInv.
CountsInv ==
    /\ used \in [Shards -> Int]
    /\ \A t \in Threads : th[t].pc \in Counting => th[t].shard \in Shards
    /\ reread \/ \A s \in Shards : BitsHeld(s) /\ CountExact(s)

LEMMA OneMore ==
    ASSUME NEW S, NEW x, IsFiniteSet(S), x \notin S
    PROVE  /\ IsFiniteSet(S \cup {x}) /\ Cardinality(S) \in Nat
           /\ Cardinality(S \cup {x}) = Cardinality(S) + 1
BY FS_AddElement, FS_CardinalityType

LEMMA OneLess ==
    ASSUME NEW S, NEW x, IsFiniteSet(S), x \in S
    PROVE  /\ IsFiniteSet(S \ {x}) /\ Cardinality(S) \in Nat
           /\ Cardinality(S \ {x}) = Cardinality(S) - 1
BY FS_RemoveElement, FS_CardinalityType

LEMMA InitCounts == Init => CountsInv
<1> SUFFICES ASSUME Init PROVE CountsInv
  OBVIOUS
<1>1. \A t \in Threads : th[t].pc = "idle"
  BY DEF Init, Idle
<1>2. ASSUME NEW s \in Shards PROVE BitsHeld(s) /\ CountExact(s)
  <2>1. shards[s] = {} /\ Takers(s) = {} /\ Releasers(s) = {} /\ used[s] = 0
    BY <1>1 DEF Init, Takers, Releasers
  <2> QED
    BY <2>1, FS_EmptySet DEF BitsHeld, CountExact
<1> QED
  BY <1>1, <1>2 DEF Init, CountsInv, Counting

\* A step between the exchanges and the counts: the other threads stay as they are, and
\* t keeps its slot.
OthersStay(t) == \A u \in Threads \ {t} : th'[u] = th[u]
LEMMA QuietCount ==
    ASSUME CountsInv, NEW t \in Threads, OthersStay(t),
           reread \/ th'[t].slot = th[t].slot,
           th[t].pc \notin Counting, th'[t].pc \notin Counting,
           UNCHANGED <<shards, used, reread>>
    PROVE  CountsInv'
<1>1. \A s \in Shards : Takers(s)' = Takers(s) /\ Releasers(s)' = Releasers(s)
  BY DEF Takers, Releasers, Counting, OthersStay
<1>2. reread \/ \A u \in Threads : th'[u].slot = th[u].slot
  BY DEF OthersStay
<1>3. ASSUME ~reread
      PROVE  \A s \in Shards : (BitsHeld(s) => BitsHeld(s)') /\ (CountExact(s) => CountExact(s)')
  BY <1>1, <1>2, <1>3 DEF BitsHeld, CountExact
<1> QED
  BY <1>3 DEF CountsInv, OthersStay

\* An exchange: the thread is now among those that have to count.
LEMMA TakeCounts ==
    ASSUME SlotsInv, CountsInv, NEW t \in Threads, Take(t)
    PROVE  CountsInv'
<1> DEFINE s == th[t].shard
           b == th[t].bit
           l == [th[t] EXCEPT !.pc = "count", !.slot = <<s, b>>, !.value = {}, !.new = {}]
<1>1. /\ s \in Shards /\ b \notin shards[s] /\ th[t].slot = NoSlot /\ th[t].pc = "cas"
      /\ th' = [th EXCEPT ![t] = l] /\ th[t] \in Locals
  BY DEF Take, Swaps, SlotsInv, Types, Searching
<1>2. /\ th'[t].pc = "count" /\ th'[t].shard = s /\ th'[t].slot = <<s, b>>
      /\ \A u \in Threads \ {t} : th'[u] = th[u]
  BY <1>1 DEF SlotsInv, Types, Locals
<1>3. used' = used
  BY DEF Take
<1>4. SUFFICES ASSUME ~reread', NEW v \in Shards PROVE (BitsHeld(v) /\ CountExact(v))'
  BY <1>1, <1>2, <1>3 DEF CountsInv, Counting
<1>5. ~reread /\ shards' = [shards EXCEPT ![s] = shards[s] \cup {b}]
  BY <1>4 DEF Take, Swaps
<1>6. BitsHeld(v) /\ CountExact(v)
  BY <1>5 DEF CountsInv
<1>7. Releasers(v)' = Releasers(v)
  BY <1>1, <1>2 DEF Releasers
<1> HIDE DEF s, b, l
<1>8. \A c : <<v, c>> # NoSlot
  BY <1>4 DEF NoSlot, Shards
<1>9. CASE v = s
  <2>1. shards'[v] = shards[v] \cup {b} /\ b \notin shards[v]
    BY <1>1, <1>5, <1>9 DEF SlotsInv, Types
  <2>2. Takers(v)' = Takers(v) \cup {t} /\ t \notin Takers(v)
    BY <1>1, <1>2, <1>9 DEF Takers
  <2>3. BitsHeld(v)'
    <3> SUFFICES ASSUME NEW c \in shards'[v] PROVE \E u \in Threads : th'[u].slot = <<v, c>>
      BY DEF BitsHeld
    <3>1. CASE c = b
      BY <1>2, <1>9, <3>1
    <3>2. CASE c \in shards[v]
      <4>1. PICK u \in Threads : th[u].slot = <<v, c>>
        BY <1>6, <3>2 DEF BitsHeld
      <4>2. u # t
        BY <1>1, <1>8, <4>1
      <4> QED
        BY <1>2, <4>1, <4>2
    <3> QED
      BY <2>1, <3>1, <3>2
  <2>4. /\ IsFiniteSet(shards'[v]) /\ Cardinality(shards'[v]) = Cardinality(shards[v]) + 1
        /\ Cardinality(shards[v]) \in Nat
    BY <1>6, <2>1, OneMore DEF CountExact
  <2>5. /\ IsFiniteSet(Takers(v)') /\ Cardinality(Takers(v)') = Cardinality(Takers(v)) + 1
        /\ Cardinality(Takers(v)) \in Nat
    BY <1>6, <2>2, OneMore DEF CountExact
  <2>6. Cardinality(Releasers(v)) \in Nat
    BY <1>6, FS_CardinalityType DEF CountExact
  <2>7. used'[v] = Cardinality(shards'[v]) + Cardinality(Releasers(v)') - Cardinality(Takers(v)')
    BY <1>3, <1>6, <1>7, <2>4, <2>5, <2>6 DEF CountExact
  <2> QED
    BY <1>6, <1>7, <2>3, <2>4, <2>5, <2>7 DEF CountExact
<1>10. CASE v # s
  <2>1. shards'[v] = shards[v]
    BY <1>5, <1>10 DEF SlotsInv, Types
  <2>2. Takers(v)' = Takers(v)
    BY <1>1, <1>2, <1>10 DEF Takers
  <2>3. BitsHeld(v)'
    BY <1>1, <1>2, <1>6, <1>8, <2>1 DEF BitsHeld
  <2> QED
    BY <1>3, <1>6, <1>7, <2>1, <2>2, <2>3 DEF CountExact
<1> QED
  BY <1>9, <1>10

\* The thread counts what it took.
LEMMA CountTakenCounts ==
    ASSUME SlotsInv, CountsInv, NEW t \in Threads, CountTaken(t)
    PROVE  CountsInv'
<1> DEFINE s == th[t].shard
<1>1. /\ s \in Shards /\ th[t].pc = "count" /\ th'[t] = Idle(th[t].slot) /\ OthersStay(t)
      /\ UNCHANGED <<shards, reread>> /\ used' = [used EXCEPT ![s] = @ + 1]
  BY DEF CountTaken, SlotsInv, Types, CountsInv, Counting, OthersStay
<1>2. th'[t].pc = "idle" /\ th'[t].slot = th[t].slot
  BY <1>1 DEF Idle
<1>3. used' \in [Shards -> Int] /\ \A v \in Shards : used'[v] = used[v] + (IF v = s THEN 1 ELSE 0)
  BY <1>1 DEF CountsInv
<1> HIDE DEF s
<1>4. SUFFICES ASSUME ~reread, NEW v \in Shards PROVE (BitsHeld(v) /\ CountExact(v))'
  BY <1>1, <1>2, <1>3 DEF CountsInv, Counting, OthersStay
<1>5. BitsHeld(v) /\ CountExact(v)
  BY <1>4 DEF CountsInv
<1>6. Releasers(v)' = Releasers(v)
  BY <1>1, <1>2 DEF Releasers, OthersStay
<1>7. BitsHeld(v)'
  BY <1>1, <1>2, <1>5 DEF BitsHeld, OthersStay
<1>8. CASE v = s
  <2>1. Takers(v)' = Takers(v) \ {t} /\ t \in Takers(v)
    BY <1>1, <1>2, <1>8 DEF Takers, OthersStay, s
  <2>2. /\ IsFiniteSet(Takers(v)') /\ Cardinality(Takers(v)') = Cardinality(Takers(v)) - 1
        /\ Cardinality(Takers(v)) \in Nat
    BY <1>5, <2>1, OneLess DEF CountExact
  <2>3. Cardinality(Releasers(v)) \in Nat /\ Cardinality(shards[v]) \in Nat
    BY <1>5, FS_CardinalityType DEF CountExact
  <2>4. used'[v] = Cardinality(shards[v]) + Cardinality(Releasers(v)) - Cardinality(Takers(v)')
    BY <1>3, <1>5, <1>8, <2>2, <2>3 DEF CountExact
  <2> QED
    BY <1>1, <1>5, <1>6, <1>7, <2>2, <2>4 DEF CountExact
<1>9. CASE v # s
  <2>1. Takers(v)' = Takers(v)
    BY <1>1, <1>2, <1>9 DEF Takers, OthersStay, s
  <2>2. used'[v] = used[v]
    BY <1>3, <1>9 DEF CountsInv
  <2> QED
    BY <1>1, <1>5, <1>6, <1>7, <2>1, <2>2 DEF CountExact
<1> QED
  BY <1>8, <1>9

\* The thread counts what it gave back.
LEMMA CountReleasedCounts ==
    ASSUME SlotsInv, CountsInv, NEW t \in Threads, CountReleased(t)
    PROVE  CountsInv'
<1> DEFINE s == th[t].shard
<1>1. /\ s \in Shards /\ th[t].pc = "release_count" /\ th'[t] = Idle(th[t].slot) /\ OthersStay(t)
      /\ UNCHANGED <<shards, reread>> /\ used' = [used EXCEPT ![s] = @ - 1]
  BY DEF CountReleased, SlotsInv, Types, CountsInv, Counting, OthersStay
<1>2. th'[t].pc = "idle" /\ th'[t].slot = th[t].slot
  BY <1>1 DEF Idle
<1>3. used' \in [Shards -> Int] /\ \A v \in Shards : used'[v] = used[v] - (IF v = s THEN 1 ELSE 0)
  BY <1>1 DEF CountsInv
<1> HIDE DEF s
<1>4. SUFFICES ASSUME ~reread, NEW v \in Shards PROVE (BitsHeld(v) /\ CountExact(v))'
  BY <1>1, <1>2, <1>3 DEF CountsInv, Counting, OthersStay
<1>5. BitsHeld(v) /\ CountExact(v)
  BY <1>4 DEF CountsInv
<1>6. Takers(v)' = Takers(v)
  BY <1>1, <1>2 DEF Takers, OthersStay
<1>7. BitsHeld(v)'
  BY <1>1, <1>2, <1>5 DEF BitsHeld, OthersStay
<1>8. CASE v = s
  <2>1. Releasers(v)' = Releasers(v) \ {t} /\ t \in Releasers(v)
    BY <1>1, <1>2, <1>8 DEF Releasers, OthersStay, s
  <2>2. /\ IsFiniteSet(Releasers(v)') /\ Cardinality(Releasers(v)') = Cardinality(Releasers(v)) - 1
        /\ Cardinality(Releasers(v)) \in Nat
    BY <1>5, <2>1, OneLess DEF CountExact
  <2>3. Cardinality(Takers(v)) \in Nat /\ Cardinality(shards[v]) \in Nat
    BY <1>5, FS_CardinalityType DEF CountExact
  <2>4. used'[v] = Cardinality(shards[v]) + Cardinality(Releasers(v)') - Cardinality(Takers(v))
    BY <1>3, <1>5, <1>8, <2>2, <2>3 DEF CountExact
  <2> QED
    BY <1>1, <1>5, <1>6, <1>7, <2>2, <2>4 DEF CountExact
<1>9. CASE v # s
  <2>1. Releasers(v)' = Releasers(v)
    BY <1>1, <1>2, <1>9 DEF Releasers, OthersStay, s
  <2>2. used'[v] = used[v]
    BY <1>3, <1>9 DEF CountsInv
  <2> QED
    BY <1>1, <1>5, <1>6, <1>7, <2>1, <2>2 DEF CountExact
<1> QED
  BY <1>8, <1>9

\* The bit goes back: no other thread holds it.
LEMMA GiveBackCounts ==
    ASSUME SlotsInv, CountsInv, NEW t \in Threads, GiveBack(t)
    PROVE  CountsInv'
<1> DEFINE s == th[t].shard
           b == th[t].bit
<1>1. /\ th[t].pc = "release_cas" /\ th[t].slot = <<s, b>> /\ th[t].slot # NoSlot
      /\ UNCHANGED <<used, reread>> /\ shards[s] = th[t].value /\ th[t].new = shards[s] \ {b}
  BY DEF GiveBack, Swaps, SlotsInv, Releasing
<1>2. s \in Shards
  <2>1. th[t].slot \in Shards \X Bits
    BY <1>1 DEF SlotsInv, Types, Locals
  <2> HIDE DEF s, b
  <2> QED
    BY <1>1, <2>1
<1>3. shards' = [shards EXCEPT ![s] = shards[s] \ {b}]
  BY <1>1 DEF GiveBack
<1>4. th'[t].pc = "release_count" /\ th'[t].shard = s /\ OthersStay(t)
  BY DEF GiveBack, SlotsInv, Types, Locals, OthersStay
<1> HIDE DEF s, b
<1>5. SUFFICES ASSUME ~reread, NEW v \in Shards PROVE (BitsHeld(v) /\ CountExact(v))'
  BY <1>1, <1>2, <1>4 DEF CountsInv, Counting, OthersStay
<1>6. BitsHeld(v) /\ CountExact(v)
  BY <1>5 DEF CountsInv
<1>7. Takers(v)' = Takers(v)
  BY <1>1, <1>4 DEF Takers, OthersStay
<1>8. b \in shards[s]
  <2>1. th[t].slot[2] \in shards[th[t].slot[1]]
    BY <1>1, <1>5 DEF SlotsInv, Exclusive, Holding
  <2> QED
    BY <1>1, <2>1
<1>9. BitsHeld(v)'
  <2> SUFFICES ASSUME NEW c \in shards'[v] PROVE \E u \in Threads : th'[u].slot = <<v, c>>
    BY DEF BitsHeld
  <2>1. c \in shards[v] /\ (v = s => c # b)
    BY <1>2, <1>3, <1>5 DEF SlotsInv, Types
  <2>2. PICK u \in Threads : th[u].slot = <<v, c>>
    BY <1>6, <2>1 DEF BitsHeld
  <2>3. u # t
    BY <1>1, <2>1, <2>2
  <2> QED
    BY <1>4, <2>2, <2>3 DEF OthersStay
<1>10. CASE v = s
  <2>1. shards'[v] = shards[v] \ {b} /\ b \in shards[v]
    BY <1>2, <1>3, <1>8, <1>10 DEF SlotsInv, Types
  <2>2. Releasers(v)' = Releasers(v) \cup {t} /\ t \notin Releasers(v)
    BY <1>1, <1>4, <1>10 DEF Releasers, OthersStay
  <2>3. /\ IsFiniteSet(shards'[v]) /\ Cardinality(shards'[v]) = Cardinality(shards[v]) - 1
        /\ Cardinality(shards[v]) \in Nat
    BY <1>6, <2>1, OneLess DEF CountExact
  <2>4. /\ IsFiniteSet(Releasers(v)') /\ Cardinality(Releasers(v)') = Cardinality(Releasers(v)) + 1
        /\ Cardinality(Releasers(v)) \in Nat
    BY <1>6, <2>2, OneMore DEF CountExact
  <2>5. Cardinality(Takers(v)) \in Nat
    BY <1>6, FS_CardinalityType DEF CountExact
  <2>6. used'[v] = Cardinality(shards'[v]) + Cardinality(Releasers(v)') - Cardinality(Takers(v))
    BY <1>1, <1>6, <2>3, <2>4, <2>5 DEF CountExact
  <2> QED
    BY <1>6, <1>7, <1>9, <2>3, <2>4, <2>6 DEF CountExact
<1>11. CASE v # s
  <2>1. shards'[v] = shards[v]
    BY <1>3, <1>11 DEF SlotsInv, Types
  <2>2. Releasers(v)' = Releasers(v)
    BY <1>1, <1>4, <1>11 DEF Releasers, OthersStay
  <2> QED
    BY <1>1, <1>6, <1>7, <1>9, <2>1, <2>2 DEF CountExact
<1> QED
  BY <1>10, <1>11

LEMMA NextCounts == SlotsInv /\ CountsInv /\ [Next]_vars => CountsInv'
<1> SUFFICES ASSUME SlotsInv, CountsInv, [Next]_vars PROVE CountsInv'
  OBVIOUS
<1> USE DEF Counting, OthersStay
<1>1. ASSUME NEW t \in Threads, Get(t) \/ Compute(t) \/ TakeLost(t) \/ GiveBackLost(t)
      PROVE  CountsInv'
  <2>1. /\ OthersStay(t) /\ th'[t].slot = th[t].slot
        /\ th[t].pc \notin Counting /\ th'[t].pc \notin Counting
    BY <1>1 DEF Get, Compute, TakeLost, GiveBackLost, SlotsInv, Types, Locals
  <2> QED
    BY <1>1, <2>1, QuietCount DEF Get, Compute, TakeLost, GiveBackLost
<1>2. ASSUME NEW t \in Threads, NotFound(t) PROVE CountsInv'
  <2>1. OthersStay(t) /\ th[t].pc \notin Counting /\ th[t].slot = NoSlot
    BY <1>2 DEF NotFound, SlotsInv, Types, Searching
  <2>2. th'[t].slot = NoSlot /\ th'[t].pc \notin Counting
    BY <1>2 DEF NotFound, SlotsInv, Types, Idle
  <2> QED
    BY <1>2, <2>1, <2>2, QuietCount DEF NotFound
<1>3. ASSUME NEW t \in Threads, CheckFull(t) \/ ReadShard(t) PROVE CountsInv'
  <2>1. /\ OthersStay(t) /\ th'[t].slot = th[t].slot
        /\ th[t].pc \notin Counting /\ th'[t].pc \notin Counting
    BY <1>3 DEF CheckFull, ReadShard, SlotsInv, Types, Locals
  <2> QED
    BY <1>3, <2>1, QuietCount DEF CheckFull, ReadShard
<1>4. ASSUME NEW t \in Threads, Release(t) PROVE CountsInv'
  <2>0. th \in [Threads -> Locals] /\ Releasing(t)
    BY DEF SlotsInv, Types
  <2>1. th[t].pc \in {"idle", "release"} /\ th[t].slot # NoSlot
    <3>1. (th[t].pc = "idle" /\ th[t].slot # NoSlot) \/ th[t].pc = "release"
      BY <1>4, Zenon DEF Release
    <3> QED
      BY <2>0, <3>1 DEF Releasing
  <2>2. CASE th[t].slot[2] \in shards[th[t].slot[1]]
    <3> DEFINE l == [th[t] EXCEPT !.pc = "release_cas", !.shard = th[t].slot[1],
                                  !.bit = th[t].slot[2], !.value = shards[th[t].slot[1]],
                                  !.new = shards[th[t].slot[1]] \ {th[t].slot[2]}]
    <3>1. th' = [th EXCEPT ![t] = l]
      BY <1>4, <2>0, <2>2 DEF Release
    <3>2. l.slot = th[t].slot /\ l.pc = "release_cas"
      BY <2>0 DEF Locals
    <3> HIDE DEF l
    <3>3. OthersStay(t) /\ th'[t] = l
      BY <2>0, <3>1
    <3> QED
      BY <1>4, <2>1, <3>2, <3>3, QuietCount DEF Release
  <2>3. CASE ~(th[t].slot[2] \in shards[th[t].slot[1]])
    <3>1. reread
      BY <2>1, <2>3 DEF SlotsInv, Exclusive, Holding
    <3>2. th' = [th EXCEPT ![t] = Idle(NoSlot)]
      BY <1>4, <2>3 DEF Release
    <3>3. OthersStay(t) /\ th'[t].pc = "idle"
      BY <2>0, <3>2 DEF Idle
    <3> QED
      BY <1>4, <2>1, <3>1, <3>3, QuietCount DEF Release
  <2> QED
    BY <2>2, <2>3
<1>5. ASSUME UNCHANGED vars PROVE CountsInv'
  BY <1>5 DEF vars, CountsInv, BitsHeld, CountExact, Takers, Releasers
<1> QED
  BY <1>1, <1>2, <1>3, <1>4, <1>5, TakeCounts, CountTakenCounts, GiveBackCounts,
     CountReleasedCounts DEF Next, Step, Finished

\* Whatever the threads do, no bit of a slots bitmap stays 1 without a holder and the count
\* of a shard is the number of its bits, but for the threads between their exchange and
\* their count, unless an exchange installed bits that it did not compare with.
THEOREM SlotsCounted == Spec => []CountsExact
<1>1. CountsInv => CountsExact
  BY DEF CountsInv, CountsExact, BitsHeld, CountExact, Takers, Releasers
<1> QED
  BY <1>1, InitInv, InitCounts, NextInv, NextCounts, PTL DEF Spec
=============================================================================
