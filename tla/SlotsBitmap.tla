----------------------------- MODULE SlotsBitmap -----------------------------
(***************************************************************************)
(* The bitmap of slots that threads take and give back without a lock,     *)
(* data_structures/slots_bitmap_mpmc.  The counters of the storage give    *)
(* every thread a slot of it (storage_db_counters.c), for which module     *)
(* StorageDbCounters takes exclusive slots for granted.                    *)
(*                                                                         *)
(* A shard is the set of its bits that are 1; shards_used_slots is kept    *)
(* beside it and changed after it.  A step is one access to the memory     *)
(* that the threads share, and local variables that are out of scope are   *)
(* reset.  A thread holds one slot at a time, as in the counters.          *)
(***************************************************************************)
EXTENDS Integers, FiniteSets

CONSTANTS Threads,
          ShardsCount,  \* shards of the bitmap
          ShardSize,    \* bits of a shard (64)
          Takes         \* bound: the times a slot is asked for

VARIABLES
    shards,     \* the bits of every shard
    used,       \* shards_used_slots
    th,         \* the threads: where they are and their local variables
    takes,      \* the times a slot has been asked for
    reread      \* a thread has installed a shard value that is not the one it
                \* compared with plus its own bit

vars == <<shards, used, th, takes, reread>>

Shards == 0 .. ShardsCount - 1
Bits == 0 .. ShardSize - 1
NoSlot == <<-1, -1>>

\* A thread outside the calls, with the slot it holds.
Idle(slot) == [pc |-> "idle", shard |-> 0, bit |-> 0, value |-> {}, new |-> {},
               restart |-> FALSE, slot |-> slot]

\* slots_bitmap_mpmc_init
Init ==
    /\ shards = [s \in Shards |-> {}]
    /\ used = [s \in Shards |-> 0]
    /\ th = [t \in Threads |-> Idle(NoSlot)]
    /\ takes = 0
    /\ reread = FALSE

----------------------------------------------------------------------------
(* slots_bitmap_mpmc_get_next_available_ptr_with_step, from shard 0 on.    *)

\* slots_bitmap_mpmc_get_next_available
Get(t) ==
    /\ th[t].pc = "idle" /\ th[t].slot = NoSlot /\ takes < Takes
    /\ th' = [th EXCEPT ![t].pc = "check"]
    /\ takes' = takes + 1
    /\ UNCHANGED <<shards, used, reread>>

\* The search is over: from the start when another thread was in the way, or
\* there is no slot.
NotFound(t) ==
    /\ th[t].pc = "check" /\ th[t].shard \notin Shards
    /\ th' = [th EXCEPT ![t] = IF th[t].restart THEN [Idle(NoSlot) EXCEPT !.pc = "check"]
                                                ELSE Idle(NoSlot)]
    /\ UNCHANGED <<shards, used, takes, reread>>

\* slots_bitmap_mpmc_shard_is_full
CheckFull(t) ==
    /\ th[t].pc = "check" /\ th[t].shard \in Shards
    /\ th' = IF used[th[t].shard] = ShardSize
             THEN [th EXCEPT ![t].shard = @ + 1]
             ELSE [th EXCEPT ![t].pc = "read"]
    /\ UNCHANGED <<shards, used, takes, reread>>

\* shard_value = *shard_ptr, of which slots_bitmap_mpmc_shard_find_first_zero finds
\* the first bit that is 0.
ReadShard(t) ==
    /\ th[t].pc = "read"
    /\ LET v == shards[th[t].shard]
       IN \/ /\ Bits \subseteq v
             /\ th' = [th EXCEPT ![t].pc = "check", ![t].shard = @ + 1]
          \/ \E b \in Bits \ v :
               /\ \A c \in Bits \ v : b <= c
               /\ th' = [th EXCEPT ![t].pc = "new", ![t].value = v, ![t].bit = b]
    /\ UNCHANGED <<shards, used, takes, reread>>

\* shard_value_new = *shard_ptr | bit: the shard is read again.
NewValue(t) == shards[th[t].shard] \cup {th[t].bit}

Compute(t) ==
    /\ th[t].pc = "new"
    /\ th' = [th EXCEPT ![t].pc = "cas", ![t].new = NewValue(t)]
    /\ UNCHANGED <<shards, used, takes, reread>>

\* Mutant of Swaps: the value is stored whatever the shard holds by now.
SwapsAlways(t) == TRUE

\* The compare and exchange succeeds.
Swaps(t) == shards[th[t].shard] = th[t].value

Take(t) ==
    /\ th[t].pc = "cas" /\ Swaps(t)
    /\ shards' = [shards EXCEPT ![th[t].shard] = th[t].new]
    /\ th' = [th EXCEPT ![t].pc = "count", ![t].slot = <<th[t].shard, th[t].bit>>,
                        ![t].value = {}, ![t].new = {}]
    /\ reread' = (reread \/ th[t].new # th[t].value \cup {th[t].bit})
    /\ UNCHANGED <<used, takes>>

\* Mutant of TakeLost: the slot is counted although it was not taken.
TakeLostCounted(t) ==
    /\ th[t].pc = "cas" /\ ~Swaps(t)
    /\ th' = [th EXCEPT ![t].pc = "check", ![t].shard = @ + 1, ![t].restart = TRUE,
                        ![t].bit = 0, ![t].value = {}, ![t].new = {}]
    /\ used' = [used EXCEPT ![th[t].shard] = @ + 1]
    /\ UNCHANGED <<shards, takes, reread>>

\* Another thread changed the shard: on with the next one, and once more from the
\* start if nothing is found.
TakeLost(t) ==
    /\ th[t].pc = "cas" /\ ~Swaps(t)
    /\ th' = [th EXCEPT ![t].pc = "check", ![t].shard = @ + 1, ![t].restart = TRUE,
                        ![t].bit = 0, ![t].value = {}, ![t].new = {}]
    /\ UNCHANGED <<shards, used, takes, reread>>

\* slots_bitmap_mpmc_shard_increase_used_count
CountTaken(t) ==
    /\ th[t].pc = "count"
    /\ used' = [used EXCEPT ![th[t].shard] = @ + 1]
    /\ th' = [th EXCEPT ![t] = Idle(th[t].slot)]
    /\ UNCHANGED <<shards, takes, reread>>

----------------------------------------------------------------------------
(* slots_bitmap_mpmc_release.                                              *)

\* A bit that is 0 already ends it.
Release(t) ==
    /\ \/ th[t].pc = "idle" /\ th[t].slot # NoSlot
       \/ th[t].pc = "release"
    /\ LET s == th[t].slot[1] b == th[t].slot[2]
       IN th' = IF b \in shards[s]
                THEN [th EXCEPT ![t].pc = "release_cas", ![t].shard = s, ![t].bit = b,
                                ![t].value = shards[s], ![t].new = shards[s] \ {b}]
                ELSE [th EXCEPT ![t] = Idle(NoSlot)]
    /\ UNCHANGED <<shards, used, takes, reread>>

GiveBack(t) ==
    /\ th[t].pc = "release_cas" /\ Swaps(t)
    /\ shards' = [shards EXCEPT ![th[t].shard] = th[t].new]
    /\ th' = [th EXCEPT ![t].pc = "release_count", ![t].slot = NoSlot,
                        ![t].value = {}, ![t].new = {}]
    /\ UNCHANGED <<used, takes, reread>>

GiveBackLost(t) ==
    /\ th[t].pc = "release_cas" /\ ~Swaps(t)
    /\ th' = [th EXCEPT ![t].pc = "release"]
    /\ UNCHANGED <<shards, used, takes, reread>>

\* Mutant of CountReleased: the count of the first shard.
CountReleasedFirst(t) ==
    /\ th[t].pc = "release_count"
    /\ used' = [used EXCEPT ![0] = @ - 1]
    /\ th' = [th EXCEPT ![t] = Idle(th[t].slot)]
    /\ UNCHANGED <<shards, takes, reread>>

\* slots_bitmap_mpmc_shard_decrease_used_count
CountReleased(t) ==
    /\ th[t].pc = "release_count"
    /\ used' = [used EXCEPT ![th[t].shard] = @ - 1]
    /\ th' = [th EXCEPT ![t] = Idle(th[t].slot)]
    /\ UNCHANGED <<shards, takes, reread>>

----------------------------------------------------------------------------

Step(t) ==
    \/ Get(t) \/ NotFound(t) \/ CheckFull(t) \/ ReadShard(t) \/ Compute(t)
    \/ Take(t) \/ TakeLost(t) \/ CountTaken(t)
    \/ Release(t) \/ GiveBack(t) \/ GiveBackLost(t) \/ CountReleased(t)

\* Every thread has asked as often as it may.
Finished == (\A t \in Threads : th[t].pc = "idle") /\ UNCHANGED vars

Next == (\E t \in Threads : Step(t)) \/ Finished

\* A thread that is not waiting for anything runs.
Fairness == \A t \in Threads : WF_vars(th[t].pc # "idle" /\ Step(t))

Spec == Init /\ [][Next]_vars /\ Fairness

----------------------------------------------------------------------------
(* Properties.                                                             *)

PCs == {"idle", "check", "read", "new", "cas", "count", "release", "release_cas",
        "release_count"}
Holding(t) == th[t].slot # NoSlot

\* Types of the variables.
TypeOK ==
    /\ shards \in [Shards -> SUBSET Bits]
    /\ used \in [Shards -> 0 .. ShardSize + Cardinality(Threads)]
    /\ \A t \in Threads : th[t].pc \in PCs /\ th[t].slot \in (Shards \X Bits) \cup {NoSlot}
    /\ reread \in BOOLEAN

\* Two threads never hold the same slot, and the bit of a slot that is held is 1.  This
\* rests on the compare and exchange installing what it compared with plus one bit.
\* slots_bitmap_mpmc_get_next_available_ptr_with_step reads the shard a second time to
\* compute the new value: when the shard changes and changes back around that read, the
\* exchange succeeds with bits that others took or gave back in between (reread), and
\* only then can a slot have two holders.
Exclusive ==
    reread \/ /\ \A t, u \in Threads : (t # u /\ Holding(t)) => th[t].slot # th[u].slot
              /\ \A t \in Threads : Holding(t) => th[t].slot[2] \in shards[th[t].slot[1]]

\* No bit stays 1 without a holder, and the count of a shard is the number of its bits,
\* but for the threads between their exchange and their count: the count, which decides
\* whether a shard is looked at, is right whenever no thread is in the middle.
CountsExact ==
    reread \/ \A s \in Shards :
        /\ \A b \in shards[s] : \E t \in Threads : th[t].slot = <<s, b>>
        /\ used[s] = Cardinality(shards[s])
                      + Cardinality({t \in Threads : th[t].pc = "release_count" /\ th[t].shard = s})
                      - Cardinality({t \in Threads : th[t].pc = "count" /\ th[t].shard = s})

=============================================================================
