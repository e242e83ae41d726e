----------------------------- MODULE MCProcess -----------------------------
(***************************************************************************)
(* The process as a whole, for TLC: its start and its end (Program), the   *)
(* snapshots its workers share (Snapshot), the connections they serve      *)
(* (Connections) and what a client sends on one (RedisConnection).  They   *)
(* share no state here: a behaviour runs one of them, the others are idle. *)
(***************************************************************************)
EXTENDS MCSnapshot

CONSTANT None

VARIABLES
    component,
    p_scenario, p_main, p_prog, p_handler, p_loaded, p_snap, p_wk, p_pid, p_life, p_bound, p_ghost,
    n_scenario, n_kernel, n_fds_map, n_last_free, n_wk, n_ch, n_stats, n_file, n_term, n_ghost,
    c_input, c_buffer, c_reader, c_command, c_session, c_replies, c_flushed, c_status, c_errno, c_ghost

program_vars == <<p_scenario, p_main, p_prog, p_handler, p_loaded, p_snap, p_wk, p_pid, p_life, p_bound, p_ghost>>
net_vars == <<n_scenario, n_kernel, n_fds_map, n_last_free, n_wk, n_ch, n_stats, n_file, n_term, n_ghost>>
conn_vars == <<c_input, c_buffer, c_reader, c_command, c_session, c_replies, c_flushed, c_status, c_errno, c_ghost>>

Prog == INSTANCE MCProgram WITH
    WorkersMax <- 2, Blocks <- 2, Scenarios <- {},
    scenario <- p_scenario, main <- p_main, prog <- p_prog, handler <- p_handler, loaded <- p_loaded,
    snap <- p_snap, wk <- p_wk, pid <- p_pid, life <- p_life, bound <- p_bound, ghost <- p_ghost

Net == INSTANCE MCConnections WITH
    WorkersMax <- 2, Clients <- 1..3, Fds <- 0..6, FdsExtra <- 0, Scenarios <- {},
    scenario <- n_scenario, kernel <- n_kernel, fds_map <- n_fds_map, last_free <- n_last_free, wk <- n_wk,
    ch <- n_ch, stats <- n_stats, file <- n_file, term <- n_term, ghost <- n_ghost

Tables == INSTANCE MCRedisTables
ConnCommands == Tables!Commands
ConnWordLen == Tables!WordLen

Conn == INSTANCE MCRedisConnection WITH
    Scenarios <- {}, Commands <- ConnCommands, WordLen <- ConnWordLen,
    Numbers <- {"1", "2"}, OutOfRange <- {"big"}, Password <- "secret", Databases <- {"0", "1"},
    BufferSize <- 12, PacketSize <- 6, MaxCommandLength <- 44, MaxKeyLength <- 3, MaxArguments <- 7,
    input <- c_input, buffer <- c_buffer, reader <- c_reader, command <- c_command, session <- c_session,
    replies <- c_replies, flushed <- c_flushed, status <- c_status, errno <- c_errno, ghost <- c_ghost

\* With the one in which nothing asks for a snapshot.
ProcessScenarios == MCScenarios \cup {Scenario(2, 4, {}, FALSE, 0, 0, 0, 0)}

-----------------------------------------------------------------------------
(* Idle: a database that nothing asks for a snapshot, a process that is     *)
(* over, no workers, a closed connection.                                   *)
ProgIdle ==
    /\ p_life = "killed" /\ p_main = None /\ p_scenario = [workers |-> 0, at_shutdown |-> FALSE]
    /\ p_prog = [terminate |-> FALSE] /\ p_handler = None /\ p_loaded = FALSE /\ p_snap = None
    /\ p_wk = [w \in {0, 1} |-> Prog!EmptyWorker] /\ p_pid = None /\ p_bound = Prog!NoBound /\ p_ghost = None

NetIdle ==
    /\ n_scenario = [workers |-> 0, timeout |-> FALSE] /\ n_ch = [c \in 1..3 |-> Net!NoChannel]
    /\ n_kernel = None /\ n_fds_map = None /\ n_last_free = None /\ n_wk = None /\ n_stats = None
    /\ n_file = Net!NotOpened /\ n_term = FALSE /\ n_ghost = None

ConnIdle ==
    /\ c_status = "closed" /\ c_input = <<>> /\ c_replies = <<>> /\ c_flushed = 0 /\ c_errno = FALSE
    /\ c_buffer = None /\ c_reader = None /\ c_command = None /\ c_session = None /\ c_ghost = None

ProcessInit ==
    /\ Init
    /\ \/ component = "snapshot" /\ ProgIdle /\ NetIdle /\ ConnIdle
       \/ component = "program" /\ Prog!MCInit /\ NetIdle /\ ConnIdle
       \/ component = "network" /\ ProgIdle /\ Net!MCInit /\ ConnIdle
       \/ component = "connection" /\ ProgIdle /\ NetIdle /\ Conn!MCInit
    /\ (component = "snapshot") <=> \E w \in Workers : pc[w] # "none"

ProcessNext ==
    \/ component = "snapshot" /\ Next /\ UNCHANGED <<component, program_vars, net_vars, conn_vars>>
    \/ component = "program" /\ Prog!Next /\ UNCHANGED <<component, vars, net_vars, conn_vars>>
    \/ component = "network" /\ Net!Next /\ UNCHANGED <<component, vars, program_vars, conn_vars>>
    \/ component = "connection" /\ Conn!Next /\ UNCHANGED <<component, vars, program_vars, net_vars>>

ProcessSpec ==
    /\ ProcessInit
    /\ [][ProcessNext]_<<component, vars, program_vars, net_vars, conn_vars>>
    /\ Fairness /\ Prog!Fairness /\ Net!Fairness /\ Conn!Fairness

-----------------------------------------------------------------------------
(***************************************************************************)
(* The properties, which the modules state and explain.                    *)
(***************************************************************************)
Of(part, P) == component = part => P

\* Types of the variables of the components.
ProcessTypeOK ==
    /\ Of("snapshot", TypeOK) /\ Of("program", Prog!TypeOK) /\ Of("network", Net!TypeOK)
    /\ Of("connection", Conn!TypeOK)

(***************************************************************************)
(* A snapshot has every key as it was when the snapshot began, once: those *)
(* nobody touched, those replaced or deleted before the snapshot reached   *)
(* them, and nothing newer (storage_db_snapshot_rdb_process_block,         *)
(* storage_db_snapshot_queue_entry_index_to_be_deleted), and the readers   *)
(* of the queued entry indexes are given back.                             *)
(***************************************************************************)
SnapshotComplete ==
    /\ QueueReadersExact /\ SavedOnce
    /\ UntouchedKeysSaved /\ ReplacedKeysSaved /\ NothingNewer

(***************************************************************************)
(* program_main: the first worker loads the database before the others     *)
(* start and anybody listens, what the workers and the signal handlers use *)
(* is freed only after them, nothing is left behind, and the result is 0   *)
(* only if every worker ran; freed memory is used only when the program    *)
(* could not start.                                                        *)
(***************************************************************************)
ProgramSound == Of("program",
    /\ Prog!OthersStartLoaded /\ Prog!ServesLoadedData
    /\ Prog!ResourcesOutliveWorkers /\ Prog!HandlerHasContext
    /\ Prog!MemorySound /\ Prog!CleanExit)

\* Worker 0 does not end before the snapshot at shutdown, two races apart.
SavedAtShutdown == Of("program", Prog!SavedAtShutdown)

(***************************************************************************)
(* Descriptors: fds_map has those of the connections, each at one index,   *)
(* and nobody closes the one of another, but after the closing pass; every *)
(* address of the bindings is accepted from; worker_stats counts the       *)
(* clients and bounds them by max_clients; a worker that ended serves only *)
(* clients that found fds_map full; and a connection is encrypted once.    *)
(***************************************************************************)
SocketsSound == Of("network",
    /\ Net!MapExact /\ Net!DescriptorsOwned /\ Net!ListenersServed /\ Net!CountsExact
    /\ Net!EndedLeavesOnlyUnmapped /\ Net!TlsLayerOnce)

(***************************************************************************)
(* module_redis_connection_process_data answers requests that come in      *)
(* pieces as it answers whole ones, answers every complete one, sends all  *)
(* answers before it waits or closes, ends only commands it found and      *)
(* gives every argument one owner, but for the cases the module lists.     *)
(***************************************************************************)
RequestsAnswered == Of("connection",
    /\ Conn!CutsAgree /\ Conn!AllAnswered /\ Conn!AnswersSent
    /\ Conn!CommandFound /\ Conn!ArgumentsOwned)

\* A command that requires authentication answers only on a connection that authenticated.
OnlyAuthenticated == [][Of("connection", Conn!OnlyAuthenticated)]_conn_vars

(***************************************************************************)
(* What is asked of the process is done in the end: a SAVE returns, also   *)
(* when its snapshot fails; a snapshot that was started ends; a worker     *)
(* whose initialization failed stops the whole program; the program ends   *)
(* once a signal asked for it, and so does every worker, with the          *)
(* exceptions of Prog!Over and Net!Drained; and what a client sends is     *)
(* received, parsed and answered in rounds that end.                       *)
(***************************************************************************)
RequestsEnd ==
    []<> /\ Ended
         /\ Prog!Noticed /\ (p_prog.terminate => Prog!Over)
         /\ n_term => Net!Drained
         /\ Conn!Served
=============================================================================
