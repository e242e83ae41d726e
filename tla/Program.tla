------------------------------- MODULE Program -------------------------------
(***************************************************************************)
(* The life of the process: program_main and its cleanup (program.c), the  *)
(* signal handler thread (signal_handler_thread.c), the pid file           *)
(* (pidfile.c) and the worker threads with their event loop                *)
(* (worker/worker.c, worker_fiber.c, the set up and clean up of io_uring   *)
(* in worker_iouring.c, worker_fiber_storage_db_initialize.c).             *)
(*                                                                         *)
(* The threads share workers_terminate_event_loop, storage_db_loaded and   *)
(* db->snapshot.  A worker runs its fibers only while it processes events, *)
(* one completion at a time.  The snapshot is the one of module Snapshot,  *)
(* with its blocks only counted.  Time is kept as the relation that the    *)
(* code tests: snapshot.next_run_time_ms is in the future ("later"),       *)
(* reached ("due"), or what worker 0 wrote at shutdown ("asked"), the only *)
(* one that is not after snapshot_shutdown_start_time.                     *)
(***************************************************************************)
EXTENDS Integers, FiniteSets

CONSTANTS WorkersMax,   \* most workers of a scenario
          Blocks,       \* blocks of a snapshot
          Scenarios     \* configurations, faults and bounds: see Init

VARIABLES
    scenario,   \* config_t and what goes wrong
    main,       \* where program_main is, the worker it works on, its result
    prog,       \* program_context: what was allocated, the two requests
    handler,    \* the signal handler thread
    loaded,     \* program_context.storage_db_loaded
    snap,       \* db->snapshot
    wk,         \* worker_context of every worker and its thread
    pid,        \* the pid file
    life,       \* how the process is doing
    bound,      \* signals, connections and timers still to come
    ghost       \* what the properties need to know about the past

vars == <<scenario, main, prog, handler, loaded, snap, wk, pid, life, bound, ghost>>

Indexes == 0 .. WorkersMax - 1
AllWorkers == 0 .. scenario.workers - 1

EmptyWorker == [pc |-> "none", running |-> FALSE, aborted |-> FALSE,
                context |-> "none", ring |-> "none", fiber |-> "none",
                listening |-> FALSE, accepting |-> FALSE, connection |-> "none",
                shut |-> FALSE,
                can_start |-> FALSE, started |-> FALSE, can_terminate |-> FALSE,
                failed |-> FALSE]

Resources == {"config", "cpus", "db", "signal_context", "workers_context"}

\* A worker that is running, at the top of its loop.
RunningWorker == [EmptyWorker EXCEPT !.pc = "top", !.running = TRUE, !.context = "live",
                                  !.ring = "live", !.fiber = "ended", !.listening = TRUE,
                                  !.accepting = TRUE]

\* The process starts, or, to follow its end with more happening at once, it is
\* already in its wait loop with every worker running.
InitOf(scenarios) ==
    /\ scenario \in scenarios
    /\ life = "alive"
    /\ bound = scenario.bound
    /\ pid = [file |-> IF scenario.pidfile = "other" THEN "other" ELSE "none",
              owned |-> FALSE, refused |-> FALSE]
    /\ ghost = [undefined |-> FALSE, ran |-> IF scenario.starts THEN {} ELSE AllWorkers,
                saved |-> FALSE, early |-> FALSE, overwritten |-> FALSE, abandoned |-> FALSE]
    /\ \/ /\ scenario.starts
          /\ main = [pc |-> "config", worker |-> 0, result |-> 1]
          /\ prog = [has |-> {}, tables |-> 0, table |-> FALSE,
                     terminate |-> FALSE, terminate_program |-> FALSE]
          /\ handler = "none"
          /\ loaded = FALSE
          /\ snap = [next_run |-> "never", running |-> FALSE, lock |-> -1, left |-> 0]
          /\ wk = [w \in Indexes |-> EmptyWorker]
       \/ /\ ~ scenario.starts
          /\ main = [pc |-> "wait_loop", worker |-> scenario.workers, result |-> 1]
          /\ prog = [has |-> Resources, tables |-> scenario.modules, table |-> scenario.modules > 0,
                     terminate |-> FALSE, terminate_program |-> FALSE]
          /\ handler = "registered"
          /\ loaded = TRUE
          /\ snap = [next_run |-> "later", running |-> FALSE, lock |-> -1, left |-> 0]
          /\ wk = [w \in Indexes |-> IF w \in AllWorkers THEN RunningWorker ELSE EmptyWorker]

Init == InitOf(Scenarios)

Fails(stage, w) == scenario.fail = <<stage, w>>

(***************************************************************************)
(* program_main, up to the threads.  A step that fails goes to the end,    *)
(* which frees whatever the context holds.                                 *)
(***************************************************************************)
Goes(pc) == main' = [main EXCEPT !.pc = pc]
Keeps(new) == prog' = [prog EXCEPT !.has = @ \cup new]

MainOnly == UNCHANGED <<scenario, handler, loaded, snap, wk, life, bound, ghost>>

\* program_parse_arguments_and_load_config
LoadConfig ==
    /\ main.pc = "config"
    /\ UNCHANGED pid
    /\ MainOnly
    /\ \/ /\ Fails("config", 0)
          /\ Goes("end")
          /\ UNCHANGED prog
       \/ /\ ~ Fails("config", 0)
          /\ Goes("kernel")
          /\ Keeps({"config"})

\* program_ensure_min_kernel_version, then log sinks, limits and sentry.
EnsureKernel ==
    /\ main.pc = "kernel"
    /\ Goes(IF Fails("kernel", 0) THEN "end" ELSE "pidfile")
    /\ UNCHANGED <<prog, pid>>
    /\ MainOnly

\* pidfile_create on a path another process may own.  Its result is ignored.
\* The file of an owner that refuses the lock is closed by pidfile_close, which
\* removes it.
SetupPidfile ==
    /\ main.pc = "pidfile"
    /\ Goes("cpus")
    /\ pid' = CASE scenario.pidfile = "none" -> pid
                [] scenario.pidfile = "free" -> [file |-> "ours", owned |-> TRUE, refused |-> FALSE]
                [] scenario.pidfile = "other" -> [file |-> "none", owned |-> FALSE, refused |-> TRUE]
    /\ UNCHANGED prog
    /\ MainOnly

SelectCpus ==
    /\ main.pc = "cpus"
    /\ UNCHANGED pid
    /\ MainOnly
    /\ \/ /\ Fails("cpus", 0)
          /\ Goes("end")
          /\ UNCHANGED prog
       \/ /\ ~ Fails("cpus", 0)
          /\ Goes("db")
          /\ Keeps({"cpus"})

\* program_workers_initialize_count and program_config_setup_storage_db
SetupDb ==
    /\ main.pc = "db"
    /\ UNCHANGED pid
    /\ MainOnly
    /\ \/ /\ Fails("db", 0)
          /\ Goes("end")
          /\ UNCHANGED prog
       \/ /\ ~ Fails("db", 0)
          /\ Goes("modules")
          /\ Keeps({"db"})

\* program_initialize_module: every redis module of the configuration builds the
\* table of its disabled commands and puts it in the same variable.
InitializeModules ==
    /\ main.pc = "modules"
    /\ Goes("signals")
    /\ prog' = [prog EXCEPT !.tables = @ + scenario.modules, !.table = scenario.modules > 0]
    /\ UNCHANGED pid
    /\ MainOnly

\* program_signal_handler_thread_initialize: the context is kept also when the
\* thread cannot be created.
StartHandler ==
    /\ main.pc = "signals"
    /\ Keeps({"signal_context"})
    /\ UNCHANGED <<scenario, loaded, snap, wk, pid, life, bound, ghost>>
    /\ \/ /\ Fails("handler", 0)
          /\ Goes("end")
          /\ UNCHANGED handler
       \/ /\ ~ Fails("handler", 0)
          /\ Goes("workers")
          /\ handler' = "starting"

(***************************************************************************)
(* The workers are started one after the other.                            *)
(***************************************************************************)

\* program_workers_initialize_context: all the contexts at once.
AllocateWorkers ==
    /\ main.pc = "workers"
    /\ main' = [main EXCEPT !.pc = "create", !.worker = 0]
    /\ Keeps({"workers_context"})
    /\ UNCHANGED pid
    /\ MainOnly

\* worker_setup_context and pthread_create
CreateWorker ==
    LET w == main.worker IN
    /\ main.pc = "create"
    /\ UNCHANGED <<scenario, prog, handler, loaded, snap, pid, life, bound, ghost>>
    /\ \/ /\ w \notin AllWorkers \/ Fails("create", w)
          /\ Goes("ensure")
          /\ UNCHANGED wk
       \/ /\ w \in AllWorkers
          /\ ~ Fails("create", w)
          /\ wk' = [wk EXCEPT ![w] = [EmptyWorker EXCEPT !.pc = "general"]]
          /\ Goes("wait_running")

\* Mutant of WaitRunning: a worker that aborted is waited for.
WaitRunningOnly ==
    /\ main.pc = "wait_running"
    /\ wk[main.worker].running
    /\ Goes("check_running")
    /\ UNCHANGED <<prog, pid>>
    /\ MainOnly

\* worker_wait_running
WaitRunning ==
    /\ main.pc = "wait_running"
    /\ wk[main.worker].running \/ wk[main.worker].aborted
    /\ Goes("check_running")
    /\ UNCHANGED <<prog, pid>>
    /\ MainOnly

\* Mutant of CheckRunning: a worker that aborted does not stop the others.
CheckRunningNot ==
    LET w == main.worker IN
    /\ main.pc = "check_running"
    /\ main' = [main EXCEPT !.pc = "create", !.worker = w + 1]
    /\ UNCHANGED <<prog, pid>>
    /\ MainOnly

\* The worker is read again after the wait.
CheckRunning ==
    LET w == main.worker IN
    /\ main.pc = "check_running"
    /\ main' = IF wk[w].aborted \/ ~ wk[w].running
               THEN [main EXCEPT !.pc = "ensure"]
               ELSE [main EXCEPT !.pc = "create", !.worker = w + 1]
    /\ UNCHANGED <<prog, pid>>
    /\ MainOnly

\* program_workers_ensure_started
EnsureStarted ==
    /\ main.pc = "ensure"
    /\ Goes(IF \E w \in AllWorkers : ~ wk[w].running \/ wk[w].aborted THEN "end" ELSE "wait_loop")
    /\ UNCHANGED <<prog, pid>>
    /\ MainOnly

\* program_has_aborted_workers, among the threads that were created
AbortedWorkers == \E w \in AllWorkers : wk[w].pc # "none" /\ wk[w].aborted

\* program_wait_loop
WaitLoop ==
    /\ main.pc = "wait_loop"
    /\ prog.terminate \/ AbortedWorkers
    /\ main' = [main EXCEPT !.pc = "end", !.result = 0]
    /\ UNCHANGED <<prog, pid>>
    /\ MainOnly

(***************************************************************************)
(* The end: program_request_terminate and program_cleanup.                 *)
(***************************************************************************)
RequestTerminate ==
    /\ main.pc = "end"
    /\ main' = [main EXCEPT !.pc = "join", !.worker = 0]
    /\ prog' = [prog EXCEPT !.terminate = TRUE]
    /\ UNCHANGED pid
    /\ MainOnly

\* Mutant of Joined: only a worker marked as running is waited for.
JoinedIfRunning(w) == wk[w].pc \in {"none", "done"} \/ ~ wk[w].running

\* pthread_join returns, or there is no thread to join.
Joined(w) == wk[w].pc \in {"none", "done"}

\* program_workers_cleanup, then the contexts are freed.
JoinWorkers ==
    /\ main.pc = "join"
    /\ UNCHANGED pid
    /\ MainOnly
    /\ \/ /\ "workers_context" \in prog.has
          /\ main.worker \in AllWorkers
          /\ Joined(main.worker)
          /\ main' = [main EXCEPT !.worker = @ + 1]
          /\ UNCHANGED prog
       \/ /\ "workers_context" \notin prog.has \/ main.worker \notin AllWorkers
          /\ prog' = [prog EXCEPT !.has = @ \ {"workers_context"}]
          /\ Goes("cleanup_modules")

\* program_cleanup_module: every redis module frees the one table.
CleanupModules ==
    /\ main.pc = "cleanup_modules"
    /\ prog' = IF "config" \in prog.has /\ scenario.modules > 0 /\ prog.table
               THEN [prog EXCEPT !.tables = @ - 1, !.table = FALSE]
               ELSE prog
    /\ Goes("end_handler")
    /\ UNCHANGED pid
    /\ MainOnly

\* Mutant of EndHandler: the handler thread is not asked to end.
EndHandlerNot ==
    /\ main.pc = "end_handler"
    /\ Goes("join_handler")
    /\ UNCHANGED <<prog, pid>>
    /\ MainOnly

EndHandler ==
    /\ main.pc = "end_handler"
    /\ prog' = [prog EXCEPT !.terminate_program = TRUE]
    /\ Goes("join_handler")
    /\ UNCHANGED pid
    /\ MainOnly

\* Mutant of HandlerJoined: the context is freed without waiting.
HandlerJoinedNot == TRUE

\* pthread_join on the handler thread
HandlerJoined == handler \in {"none", "ended"}

\* Mutant of JoinHandler: the context is not tested.
JoinHandlerAlways ==
    /\ main.pc = "join_handler"
    /\ HandlerJoined
    /\ prog' = [prog EXCEPT !.has = @ \ {"signal_context"}]
    /\ ghost' = [ghost EXCEPT !.undefined = @ \/ handler = "none"]
    /\ Goes("close_db")
    /\ UNCHANGED <<scenario, handler, loaded, snap, wk, pid, life, bound>>

\* program_signal_handler_thread_cleanup: joining a thread that was never
\* created has no defined result.
JoinHandler ==
    /\ main.pc = "join_handler"
    /\ "signal_context" \in prog.has => HandlerJoined
    /\ prog' = [prog EXCEPT !.has = @ \ {"signal_context"}]
    /\ ghost' = [ghost EXCEPT !.undefined = @ \/ ("signal_context" \in prog.has /\ handler = "none")]
    /\ Goes("close_db")
    /\ UNCHANGED <<scenario, handler, loaded, snap, wk, pid, life, bound>>

\* Mutant of FreeRest: the database is left as it is.
FreeRestNoDb ==
    /\ main.pc = "close_db"
    /\ prog' = [prog EXCEPT !.has = @ \ {"cpus", "config"}]
    /\ Goes("close_pidfile")
    /\ UNCHANGED pid
    /\ MainOnly

\* storage_db_close and storage_db_free, the cpus, the configuration, the sinks
FreeRest ==
    /\ main.pc = "close_db"
    /\ prog' = [prog EXCEPT !.has = @ \ {"db", "cpus", "config"}]
    /\ Goes("close_pidfile")
    /\ UNCHANGED pid
    /\ MainOnly

\* pidfile_close, if it is ours
ClosePidfile ==
    /\ main.pc = "close_pidfile"
    /\ pid' = IF pid.owned THEN [pid EXCEPT !.file = "none", !.owned = FALSE] ELSE pid
    /\ Goes("ended")
    /\ UNCHANGED prog
    /\ MainOnly

Main ==
    \/ LoadConfig \/ EnsureKernel \/ SetupPidfile \/ SelectCpus \/ SetupDb
    \/ InitializeModules \/ StartHandler \/ AllocateWorkers \/ CreateWorker
    \/ WaitRunning \/ CheckRunning \/ EnsureStarted \/ WaitLoop
    \/ RequestTerminate \/ JoinWorkers \/ CleanupModules \/ EndHandler
    \/ JoinHandler \/ FreeRest \/ ClosePidfile

(***************************************************************************)
(* The signal handler thread, and a signal.                                *)
(***************************************************************************)

\* signal_handler_thread_func up to its loop: it registers the handlers.
HandlerRegisters ==
    /\ handler = "starting"
    /\ handler' = "registered"
    /\ UNCHANGED <<scenario, main, prog, loaded, snap, wk, pid, life, bound, ghost>>

\* signal_handler_thread_main_loop wakes up on its timeout; at the end the
\* default handlers are put back.
HandlerEnds ==
    /\ handler = "registered"
    /\ prog.terminate_program
    /\ handler' = "ended"
    /\ UNCHANGED <<scenario, main, prog, loaded, snap, wk, pid, life, bound, ghost>>

\* A SIGTERM: signal_handler_thread_handle_signal, or the default action.
Signal ==
    /\ bound.signals > 0
    /\ main.pc # "ended"
    /\ bound' = [bound EXCEPT !.signals = @ - 1]
    /\ IF handler = "registered"
       THEN prog' = [prog EXCEPT !.terminate = TRUE] /\ UNCHANGED life
       ELSE life' = "killed" /\ UNCHANGED prog
    /\ UNCHANGED <<scenario, main, handler, loaded, snap, wk, pid, ghost>>

(***************************************************************************)
(* A worker: worker_thread_func up to its loop.                            *)
(***************************************************************************)
SetWk(w, new) == wk' = [wk EXCEPT ![w] = new]
WorkerOnly == UNCHANGED <<scenario, main, prog, handler, loaded, snap, pid, life, bound>>

\* worker_iouring_cleanup: what it frees and whether it reads freed memory.
IouringCleaned(r) == [r EXCEPT !.context = "none",
                               !.ring = IF r.context = "none" THEN @ ELSE "freed"]
IouringCleanupUndefined(r) ==
    r.context = "freed" \/ (r.context = "live" /\ r.ring = "freed")

\* worker_iouring_fds_register frees the ring when the files are refused.
FdsRegistered(w, r) == IF Fails("files", w) THEN [r EXCEPT !.ring = "freed"] ELSE r

\* worker_iouring_initialize: when the ring cannot be created its context is freed
\* but stays in interface_context.
IouringInitialized(w, r) ==
    IF Fails("ring", w)
    THEN [r EXCEPT !.context = "freed"]
    ELSE FdsRegistered(w, [r EXCEPT !.context = "live", !.ring = "live"])

\* worker_initialize_general cleans up after a failure, and the end of the worker
\* does again.
InitializeGeneral(w) ==
    /\ wk[w].pc = "general"
    /\ WorkerOnly
    /\ LET r == IouringInitialized(w, wk[w]) IN
       IF r.ring = "live"
       THEN SetWk(w, [r EXCEPT !.pc = "storage_db"]) /\ UNCHANGED ghost
       ELSE /\ SetWk(w, [IouringCleaned(r) EXCEPT !.pc = "cleanup", !.failed = TRUE])
            /\ ghost' = [ghost EXCEPT !.undefined = @ \/ IouringCleanupUndefined(r)]

\* worker_fiber_storage_db_initialize_fiber_entrypoint, from where it stopped:
\* the database is opened and worker 0 loads the snapshot; the fiber may wait for
\* the disk in both.
InitializeDb(w, r) ==
    /\ UNCHANGED <<scenario, main, prog, handler, pid, bound>>
    /\ \/ /\ Fails("open", w)
          /\ life' = "fatal"
          /\ UNCHANGED <<wk, loaded, snap, ghost>>
       \/ /\ ~ Fails("open", w)
          /\ SetWk(w, [r EXCEPT !.fiber = "ended"])
          /\ snap' = [snap EXCEPT !.next_run = "later"]
          /\ loaded' = TRUE
          /\ ghost' = [ghost EXCEPT !.overwritten = @ \/ snap.next_run = "asked"]
          /\ UNCHANGED life

\* worker_initialize_storage_db: a fiber runs as soon as it is created, until it
\* waits for something.
InitializeStorageDb(w) ==
    /\ wk[w].pc = "storage_db"
    /\ LET r == [wk[w] EXCEPT !.pc = "contexts"] IN
       \/ InitializeDb(w, r)
       \/ /\ SetWk(w, [r EXCEPT !.fiber = "waiting"])
          /\ UNCHANGED ghost
          /\ WorkerOnly

\* worker_initialize_module registers the snapshot fiber of the redis module;
\* worker_module_contexts_initialize sets TLS up.
InitializeContexts(w) ==
    /\ wk[w].pc = "contexts"
    /\ SetWk(w, [wk[w] EXCEPT !.pc = IF Fails("contexts", w) THEN "cleanup" ELSE "top",
                              !.failed = Fails("contexts", w)])
    /\ UNCHANGED ghost
    /\ WorkerOnly

(***************************************************************************)
(* The event loop.                                                         *)
(***************************************************************************)

\* Mutant of MayListen: the database need not be loaded.
MayListenAtOnce(w) == ~ wk[w].running

MayListen(w) == ~ wk[w].running /\ loaded

\* The listeners are opened once the database is loaded, also after they were
\* closed by a shutdown that came first; a listener fiber accepts connections
\* until it finds the termination requested.
LoopListen(w) ==
    /\ wk[w].pc = "top"
    /\ WorkerOnly
    /\ \/ /\ MayListen(w)
          /\ Fails("listeners", w)
          /\ SetWk(w, [wk[w] EXCEPT !.pc = "cleanup", !.failed = TRUE])
          /\ UNCHANGED ghost
       \/ /\ MayListen(w)
          /\ ~ Fails("listeners", w)
          /\ SetWk(w, [wk[w] EXCEPT !.pc = "terminate", !.listening = TRUE, !.running = TRUE,
                                    !.accepting = ~ prog.terminate])
          /\ ghost' = [ghost EXCEPT !.ran = @ \cup {w}]
       \/ /\ ~ MayListen(w)
          /\ SetWk(w, [wk[w] EXCEPT !.pc = "terminate"])
          /\ UNCHANGED ghost

\* Whether a connection is in the map of the descriptors: not while its accept
\* waits to be processed.
InMap(r) == r.connection \in {"open", "shut"}

\* worker_should_terminate: the first time the listeners and the sockets in the
\* map are closed, then the loop waits for the map to be empty.
Shutdown(w) ==
    LET r == wk[w] IN
    CASE ~ r.shut ->
           [r EXCEPT !.shut = TRUE, !.listening = FALSE,
                     !.connection = IF @ = "open" THEN "shut" ELSE @]
      [] r.shut /\ InMap(r) -> r
      [] r.shut /\ ~ InMap(r) ->
           IF w = 0 /\ scenario.at_shutdown
           THEN [r EXCEPT !.can_start = TRUE]
           ELSE [r EXCEPT !.can_terminate = TRUE]

\* Only worker 0 goes on to the snapshot.
LoopTerminate(w) ==
    /\ wk[w].pc = "terminate"
    /\ SetWk(w, IF prog.terminate
                THEN [Shutdown(w) EXCEPT !.pc = IF Shutdown(w).can_start THEN "ask" ELSE "events"]
                ELSE [wk[w] EXCEPT !.pc = "events"])
    /\ UNCHANGED ghost
    /\ WorkerOnly

\* The snapshot at shutdown is asked for once no snapshot is running; the flag
\* and the time are read and written apart.
LoopAsk(w) ==
    /\ wk[w].pc = "ask"
    /\ SetWk(w, [wk[w] EXCEPT !.pc = IF wk[w].can_start /\ ~ wk[w].started /\ ~ snap.running
                                     THEN "write_next_run" ELSE "asked"])
    /\ UNCHANGED ghost
    /\ WorkerOnly

LoopWriteNextRun(w) ==
    /\ wk[w].pc = "write_next_run"
    /\ SetWk(w, [wk[w] EXCEPT !.pc = "asked", !.started = TRUE])
    /\ snap' = [snap EXCEPT !.next_run = "asked"]
    /\ UNCHANGED <<scenario, main, prog, handler, loaded, pid, life, bound, ghost>>

\* Mutant of AfterStart: the time that was written counts as well.
AfterStartOrAt == TRUE

\* snapshot.next_run_time_ms > snapshot_shutdown_start_time
AfterStart == snap.next_run # "asked"

LoopAsked(w) ==
    /\ wk[w].pc = "asked"
    /\ SetWk(w, [wk[w] EXCEPT !.pc = "events",
                              !.can_terminate = @ \/ (wk[w].started /\ AfterStart)])
    /\ UNCHANGED ghost
    /\ WorkerOnly

(***************************************************************************)
(* The fibers of a worker, run by worker_iouring_process_events.  The loop *)
(* waits for a completion, so a fiber that can go on does.                 *)
(***************************************************************************)
DbFiberReady(r) == r.fiber = "waiting"
ConnectionReady(r) == r.connection \in {"queued", "shut"}

\* The snapshot fiber does nothing before the worker is running.
SnapshotReady(w) ==
    /\ scenario.snapshots
    /\ wk[w].running
    /\ \/ ~ snap.running /\ snap.next_run \in {"due", "asked"}
       \/ snap.running /\ snap.lock \in {-1, w}

DbFiber(w) == DbFiberReady(wk[w]) /\ InitializeDb(w, wk[w])

\* A listener fiber sets an accepted connection up, or the fiber of a connection
\* finds its socket shut and closes it.
ConnectionFiber(w) ==
    /\ ConnectionReady(wk[w])
    /\ SetWk(w, IF wk[w].connection = "queued"
                THEN [wk[w] EXCEPT !.connection = "open", !.accepting = ~ prog.terminate]
                ELSE [wk[w] EXCEPT !.connection = "none"])
    /\ UNCHANGED ghost
    /\ WorkerOnly

\* The lock is released; the last block completes the snapshot.
BlockDone ==
    IF snap.left > 1
    THEN [snap EXCEPT !.lock = -1, !.left = @ - 1]
    ELSE [snap EXCEPT !.lock = -1, !.left = 0, !.running = FALSE, !.next_run = "later"]

\* The fiber starts a snapshot or skips it, takes the lock for a block, writes
\* the block and gives the lock back; the last block ends the snapshot.
SnapshotFiber(w) ==
    /\ SnapshotReady(w)
    /\ \/ /\ ~ snap.running
          /\ snap' = [snap EXCEPT !.running = TRUE, !.left = Blocks]
          /\ ghost' = [ghost EXCEPT !.early = snap.next_run # "asked"]
       \/ /\ ~ snap.running
          /\ snap' = [snap EXCEPT !.next_run = "later"]
          /\ ghost' = [ghost EXCEPT !.saved = @ \/ snap.next_run = "asked"]
       \/ /\ snap.running
          /\ snap.lock = -1
          /\ snap' = [snap EXCEPT !.lock = w]
          /\ UNCHANGED ghost
       \/ /\ snap.running
          /\ snap.lock = w
          /\ snap' = BlockDone
          /\ ghost' = [ghost EXCEPT !.saved = @ \/ (snap.left = 1 /\ ~ ghost.early),
                                    !.early = @ /\ (snap.left > 1 \/ snap.next_run = "asked")]
    /\ UNCHANGED <<scenario, main, prog, handler, loaded, wk, pid, life, bound>>

\* worker_iouring_process_events, one completion.
RunFiber(w) == wk[w].pc = "events" /\ (DbFiber(w) \/ ConnectionFiber(w) \/ SnapshotFiber(w))

\* The end of an iteration.
LoopNext(w) ==
    /\ wk[w].pc = "events"
    /\ SetWk(w, [wk[w] EXCEPT !.pc = IF wk[w].can_terminate THEN "cleanup" ELSE "top"])
    /\ UNCHANGED ghost
    /\ WorkerOnly

(***************************************************************************)
(* The end of a worker: worker_cleanup.  Its fibers are freed wherever     *)
(* they are; the lock of the snapshot stays with the one that held it.     *)
(***************************************************************************)
Cleanup(w) ==
    /\ wk[w].pc = "cleanup"
    /\ SetWk(w, [IouringCleaned(wk[w]) EXCEPT !.pc = "set_running", !.fiber = "none",
                                              !.listening = FALSE, !.accepting = FALSE,
                                              !.connection = "none"])
    /\ ghost' = [ghost EXCEPT !.undefined = @ \/ IouringCleanupUndefined(wk[w]),
                              !.abandoned = @ \/ snap.lock = w]
    /\ WorkerOnly

SetNotRunning(w) ==
    /\ wk[w].pc = "set_running"
    /\ SetWk(w, [wk[w] EXCEPT !.pc = "set_aborted", !.running = FALSE])
    /\ UNCHANGED ghost
    /\ WorkerOnly

SetAborted(w) ==
    /\ wk[w].pc = "set_aborted"
    /\ SetWk(w, [wk[w] EXCEPT !.pc = "done", !.aborted = wk[w].failed])
    /\ UNCHANGED ghost
    /\ WorkerOnly

Loop(w) ==
    \/ InitializeGeneral(w) \/ InitializeStorageDb(w) \/ InitializeContexts(w)
    \/ LoopListen(w) \/ LoopTerminate(w) \/ LoopAsk(w) \/ LoopWriteNextRun(w)
    \/ LoopAsked(w) \/ LoopNext(w)
    \/ Cleanup(w) \/ SetNotRunning(w) \/ SetAborted(w)

(***************************************************************************)
(* The world: time passes, clients come and go.                            *)
(***************************************************************************)
SnapshotDue ==
    /\ scenario.snapshots
    /\ bound.timers > 0
    /\ snap.next_run = "later"
    /\ snap' = [snap EXCEPT !.next_run = "due"]
    /\ bound' = [bound EXCEPT !.timers = @ - 1]
    /\ UNCHANGED <<scenario, main, prog, handler, loaded, wk, pid, life, ghost>>

\* A connection is accepted for a listener fiber that waits for one.
ClientConnects(w) ==
    /\ bound.connections > 0
    /\ wk[w].listening
    /\ wk[w].accepting
    /\ wk[w].connection = "none"
    /\ SetWk(w, [wk[w] EXCEPT !.connection = "queued"])
    /\ bound' = [bound EXCEPT !.connections = @ - 1]
    /\ UNCHANGED <<scenario, main, prog, handler, loaded, snap, pid, life, ghost>>

\* A client leaves, and the fiber of its connection closes it.
ClientLeaves(w) ==
    /\ wk[w].pc = "events"
    /\ wk[w].connection = "open"
    /\ SetWk(w, [wk[w] EXCEPT !.connection = "none"])
    /\ UNCHANGED ghost
    /\ WorkerOnly

\* After undefined behaviour the process may end.
Crash ==
    /\ ghost.undefined
    /\ life' = "crashed"
    /\ UNCHANGED <<scenario, main, prog, handler, loaded, snap, wk, pid, bound, ghost>>

\* The process is over, or the main thread waits for a worker for ever.
Stays ==
    /\ life # "alive" \/ main.pc \in {"ended", "wait_running", "join", "join_handler"}
    /\ UNCHANGED vars

Next ==
    \/ /\ life = "alive"
       /\ \/ Main \/ HandlerRegisters \/ HandlerEnds \/ Signal \/ SnapshotDue \/ Crash
          \/ \E w \in AllWorkers :
                Loop(w) \/ RunFiber(w) \/ ClientConnects(w) \/ ClientLeaves(w)
    \/ Stays

\* Threads are scheduled, timers fire, and a completion that stays available
\* is processed by the loop that asks for it again and again.
Fairness ==
    /\ WF_vars(life = "alive" /\ Main)
    /\ WF_vars(life = "alive" /\ (HandlerRegisters \/ HandlerEnds))
    /\ \A w \in Indexes :
          /\ WF_vars(life = "alive" /\ w \in AllWorkers /\ Loop(w))
          /\ SF_vars(life = "alive" /\ w \in AllWorkers /\ RunFiber(w))

Spec == Init /\ [][Next]_vars /\ Fairness

(***************************************************************************)
(* Properties                                                              *)
(***************************************************************************)
Alive(w) == wk[w].pc \notin {"none", "done"}

TypeOK ==
    /\ main.worker \in 0 .. WorkersMax
    /\ main.result \in {0, 1}
    /\ prog.has \subseteq Resources
    /\ prog.tables \in 0 .. 2
    /\ handler \in {"none", "starting", "registered", "ended"}
    /\ snap.next_run \in {"never", "later", "due", "asked"}
    /\ snap.lock \in Indexes \cup {-1}
    /\ snap.left \in 0 .. Blocks
    /\ \A w \in Indexes :
          /\ wk[w].context \in {"none", "live", "freed"}
          /\ wk[w].ring \in {"none", "live", "freed"}
          /\ wk[w].connection \in {"none", "queued", "open", "shut"}
    /\ pid.file \in {"none", "ours", "other"}
    /\ life \in {"alive", "killed", "fatal", "crashed"}

\* program_cleanup frees the contexts of the workers, the database and the
\* configuration only after every thread that reads them has ended.
ResourcesOutliveWorkers ==
    (\E w \in Indexes : Alive(w)) => {"workers_context", "db", "config"} \subseteq prog.has

\* program_workers_initialize_context starts the workers in turn: when a second
\* one exists the first has opened the database and loaded the snapshot.
OthersStartLoaded == \A w \in Indexes \ {0} : wk[w].pc # "none" => loaded

\* worker_thread_func opens its listeners only once the snapshot was loaded, and
\* a connection is served only by a worker that is marked as running.
ServesLoadedData ==
    \A w \in Indexes : (wk[w].listening \/ wk[w].connection # "none") => (loaded /\ wk[w].running)

\* signal_handler_thread_handle_signal writes through the context of the handler
\* thread: while its handlers are registered the context is not freed.
HandlerHasContext == handler = "registered" => "signal_context" \in prog.has

\* Worker 0 of a program configured to save at shutdown leaves its loop only when
\* the snapshot it asked for was completed or was not needed, with two exceptions.
\* The initialization fiber of a worker still starting writes next_run_time_ms
\* over the request, and another worker may start a snapshot between the test of
\* snapshot.running and the request: the end of that one ends the wait.
SavedAtShutdown ==
    (/\ scenario.at_shutdown
     /\ wk[0].can_terminate)
        => (ghost.saved \/ ghost.overwritten \/ ghost.early)

\* Freed memory is used only when the program cannot start: io_uring could not be
\* set up by a worker (worker_iouring_initialize and worker_initialize_general both
\* clean up), or the signal handler thread could not be created and is joined.
MemorySound ==
    ghost.undefined => \/ Fails("handler", 0)
                       \/ \E w \in AllWorkers : Fails("ring", w) \/ Fails("files", w)

\* When program_main returns nothing is left but the tables of disabled commands
\* that a second redis module replaced; 0 is returned only if every worker ran.
CleanExit ==
    main.pc = "ended" =>
        /\ prog.has = {}
        /\ prog.tables = IF \E s \in {"config", "kernel", "cpus", "db"} : Fails(s, 0)
                         THEN 0 ELSE scenario.modules - 1
        /\ ~ prog.table
        /\ ~ pid.owned
        /\ main.result = 0 => ghost.ran = AllWorkers
        /\ \A w \in AllWorkers : ~ Alive(w) /\ wk[w].context = "none" /\ wk[w].ring # "live"

\* A worker whose initialization failed stops the whole program: program_main
\* notices it and asks every other worker to end.
Noticed == (\E w \in Indexes : wk[w].aborted) => prog.terminate \/ life # "alive"

\* worker_wait_running waits for a worker to be running or aborted: one that
\* stopped at a request for termination is neither.
StartMissed ==
    /\ main.pc = "wait_running"
    /\ wk[main.worker].pc = "done"
    /\ ~ wk[main.worker].aborted

\* Once the termination is requested the program ends, unless a worker stopped
\* before the main thread saw it running, a worker left its loop with the lock of
\* the snapshot, or a client accepted while its worker was closing the others does
\* not leave.
Over ==
    \/ main.pc = "ended"
    \/ life # "alive"
    \/ StartMissed
    \/ ghost.abandoned
    \/ \E w \in Indexes : wk[w].shut /\ wk[w].connection = "open"
=============================================================================
