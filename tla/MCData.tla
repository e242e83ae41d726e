------------------------------- MODULE MCData -------------------------------
(***************************************************************************)
(* What the workers share, for TLC: the keys the commands read and change  *)
(* (RedisCommands), the counters they keep of them (StorageDbCounters),    *)
(* the slots a thread takes for its counters (SlotsBitmap), and the file   *)
(* the keys are saved to and loaded from (RdbFile).  The four share no     *)
(* state: a behaviour runs one of them and the others stay as they are.    *)
(***************************************************************************)
EXTENDS SlotsBitmap

CONSTANTS k1, k2, None

VARIABLES
    component,
    c_table, c_slots, c_entry, c_lock, c_client, c_lost, c_undefined, c_bound,
    n_size, n_locked, n_counters, n_pc, n_delta, n_next_slot, n_sum, n_disturbed, n_drift,
    f_phase, f_pending, f_buffer, f_file, f_encoder, f_load, f_store, f_scenario, f_ghost

command_vars == <<c_table, c_slots, c_entry, c_lock, c_client, c_lost, c_undefined, c_bound>>
counter_vars == <<n_size, n_locked, n_counters, n_pc, n_delta, n_next_slot, n_sum, n_disturbed, n_drift>>
file_vars == <<f_phase, f_pending, f_buffer, f_file, f_encoder, f_load, f_store, f_scenario, f_ghost>>

\* Two clients, two keys that share a chunk and one that does not.
Commands == INSTANCE MCRedisCommands WITH
    Clients <- {"c1", "c2"}, Keys <- {"a", "b", "x"}, Chunks <- {1, 2},
    ChunkOf <- [k \in {"a", "b", "x"} |-> IF k = "x" THEN 2 ELSE 1],
    Entries <- 1..7, Slots <- 2, Scenarios <- {},
    table <- c_table, slots <- c_slots, entry <- c_entry, lock <- c_lock, client <- c_client, lost <- c_lost,
    undefined <- c_undefined, bound <- c_bound

\* Two threads that change two keys, three times each.
Counters == INSTANCE StorageDbCounters WITH
    Threads <- {0, 1}, Keys <- {k1, k2}, Sizes <- {1, 2}, MaxChanged <- 3,
    size <- n_size, locked <- n_locked, counters <- n_counters, pc <- n_pc, delta <- n_delta,
    next_slot <- n_next_slot, sum <- n_sum, disturbed <- n_disturbed, drift <- n_drift

\* A byte counts to 16, the small lengths end at 4, an int32 has three of these bytes.
File == INSTANCE MCRdbFile WITH
    Scenarios <- {},
    Byte <- 16, Low <- 4, WideBytes <- 3, LongBytes <- 4, BufferLength <- 60, HeadLength <- 32,
    ChunkMax <- 40, SmallMax <- 60, LoadTime <- 20,
    phase <- f_phase, pending <- f_pending, buffer <- f_buffer, file <- f_file, encoder <- f_encoder,
    load <- f_load, store <- f_store, scenario <- f_scenario, ghost <- f_ghost

-----------------------------------------------------------------------------
(* Nothing is stored and nobody has a command to run; no key was changed;   *)
(* no file is written.                                                      *)
CommandsIdle ==
    /\ c_table = [k \in {"a", "b", "x"} |-> None]
    /\ c_slots = [ch \in {1, 2} |-> [used |-> 0, counted |-> 0]]
    /\ c_entry = [e \in 1..7 |-> [status |-> "free", readers |-> 0, expiry |-> "no"]]
    /\ c_lock = [ch \in {1, 2} |-> [writer |-> None, readers |-> {}]]
    /\ c_client = [c \in {"c1", "c2"} |-> Commands!Idle(c)]
    /\ c_lost = {} /\ c_undefined = FALSE
    /\ c_bound = [commands |-> 0, failures |-> 0, expirations |-> 0, cmds |-> {}]

FileIdle ==
    /\ f_phase = "end" /\ f_pending = <<>> /\ f_buffer = <<>> /\ f_file = <<>> /\ f_store = {}
    /\ f_encoder = File!Encoder(0) /\ f_load = [status |-> "start"] /\ f_scenario = None /\ f_ghost = None

DataInit ==
    \/ component = "slots" /\ Init /\ CommandsIdle /\ Counters!Init /\ FileIdle
    \/ component = "commands" /\ Init /\ Commands!MCInit /\ Counters!Init /\ FileIdle
    \/ component = "counters" /\ Init /\ CommandsIdle /\ Counters!Init /\ FileIdle
    \/ component = "file" /\ Init /\ CommandsIdle /\ Counters!Init /\ File!MCInit

DataNext ==
    \/ component = "slots" /\ Next /\ UNCHANGED <<component, command_vars, counter_vars, file_vars>>
    \/ component = "commands" /\ Commands!Next /\ UNCHANGED <<component, vars, counter_vars, file_vars>>
    \/ component = "counters" /\ Counters!Next /\ UNCHANGED <<component, vars, command_vars, file_vars>>
    \/ component = "file" /\ File!Next /\ UNCHANGED <<component, vars, command_vars, counter_vars>>

DataSpec == DataInit /\ [][DataNext]_<<component, vars, command_vars, counter_vars, file_vars>>

-----------------------------------------------------------------------------
(***************************************************************************)
(* The properties, which the modules state and explain, with those of      *)
(* SlotsBitmap under their own names.                                      *)
(***************************************************************************)
InCommands(P) == component = "commands" => P
InCounters(P) == component = "counters" => P
InFile(P) == component = "file" => P

\* Types of the variables of the four components.
DataTypeOK == TypeOK /\ InCommands(Commands!TypeOK) /\ InCounters(Counters!TypeOK) /\ InFile(File!TypeOK)

(***************************************************************************)
(* What a command takes it gives back, on every path and whatever fails:   *)
(* its locks, the readers of the values it sends, the slots it reserved,   *)
(* the key and the value it was given; it replies once and its slot is     *)
(* counted down once (the *_end functions of the commands and the          *)
(* storage_db_op_rmw_... functions).                                       *)
(* The commands and the paths that do not are those the module lists.      *)
(***************************************************************************)
CommandsGiveBack == InCommands(
    /\ Commands!LocksReturned /\ Commands!ReadersReturned /\ Commands!SlotsReturned
    /\ Commands!MemoryReturned /\ Commands!OneReply /\ Commands!CountedOnce)

\* Between two commands and in the middle of one, every key leads to a live entry index
\* of its own, every entry index counts its readers and every chunk its slots.
KeysAccounted == InCommands(Commands!KeysLive /\ Commands!ReadersExact /\ Commands!SlotsExact)

(***************************************************************************)
(* What a step of a command may do to the keys, whatever other clients do  *)
(* between its steps: a live key goes only by a command that deletes it, a *)
(* key that exists is not replaced by one that must not, an expiry that is *)
(* to be kept is kept, and no freed memory is used, but for TOUCH and COPY *)
(* of expired keys.                                                        *)
(***************************************************************************)
KeysChangeAsAsked ==
    [][InCommands(/\ Commands!DefinedBehaviour /\ Commands!LiveKeysStay
                  /\ Commands!OnlyIfAbsent /\ Commands!ExpiryKept)]_command_vars

\* storage_db_counters_sum: the slots of all threads account for all keys, and for those
\* renamed over; a sum over the slots of a database nobody changes is that number.
CountersExact == InCounters(Counters!CountersExact /\ Counters!QuietSumExact)

(***************************************************************************)
(* A snapshot that is reported complete is all in the file and is loaded,  *)
(* with the value and the expiry of every key, and an incomplete one never *)
(* is; nothing is serialized past the end of the buffer.  The values, the  *)
(* expiries and the failures that are exceptions are those of RdbFile.     *)
(***************************************************************************)
FileKept == InFile(
    /\ File!ValuesKept /\ File!ExpiriesKept
    /\ File!CompletedIsWritten /\ File!LoadsWhatIsComplete /\ File!WithinBuffer)
=============================================================================
