----------------------------- MODULE Connections -----------------------------
(***************************************************************************)
(* The sockets of the process: the listeners a worker sets up              *)
(* (worker/network/worker_network_op.c, network/channel/network_channel.c, *)
(* network/io/network_io_common.c), accepting a connection and closing it  *)
(* (worker/network/worker_network_iouring_op.c, network/network.c), the    *)
(* files that io_uring has registered (fds_map of worker/worker_iouring.c),*)
(* TLS (network/channel/network_channel_tls.c) and the closing pass of the *)
(* event loop at shutdown (worker/worker.c).                               *)
(*                                                                         *)
(* Descriptors are numbers of one table shared by the process: the kernel  *)
(* gives the lowest free one, and close(fd) closes whatever has that       *)
(* number.  A fiber runs until it waits for the ring, so one action is     *)
(* what a fiber does between two waits.  The build is the release one: the *)
(* assert on a full fds_map is not there.                                  *)
(***************************************************************************)
EXTENDS Integers, Sequences, FiniteSets

CONSTANTS WorkersMax,   \* most workers of a scenario
          Clients,      \* 1 .. n: clients, in the order they connect
          Fds,          \* 0 .. n: the descriptors the process may have
          FdsExtra,     \* what is added to the size of fds_map (11)
          Scenarios     \* configurations, faults and bounds: see Init

VARIABLES
    scenario,   \* config_t and what goes wrong
    kernel,     \* the descriptors and the sockets behind them
    fds_map,    \* fds_map of every worker: descriptor by index, or Empty
    last_free,  \* fds_map_last_free of every worker
    wk,         \* the event loop of every worker and its listeners
    ch,         \* the channel of every client and the fiber that serves it
    stats,      \* worker_stats.network of every worker
    file,       \* the descriptor of the snapshot that worker 0 writes
    term,       \* workers_terminate_event_loop
    ghost       \* what the properties need to know about the past

vars == <<scenario, kernel, fds_map, last_free, wk, ch, stats, file, term, ghost>>

AllWorkers == 0 .. scenario.workers - 1
Empty == 0                      \* WORKER_FDS_MAP_EMPTY
NoIndex == -1
NotOpened == -1
Free == <<"free", 0>>
Conn(c) == <<"conn", c>>
Listener(w, l) == <<"listener", 10 * w + l>>
File == <<"file", 0>>
Std == <<"std", 0>>             \* descriptor 0, open before anything else

\* Of a worker the registered files are sized by its share of max_clients.
MapSize ==
    LET n == (scenario.max_clients * 12) \div (10 * scenario.workers) + FdsExtra
    IN CHOOSE p \in {1, 2, 4, 8, 16} : p >= n /\ (p = 1 \/ p \div 2 < n)

NoTls == [enabled |-> FALSE, completed |-> FALSE, ktls |-> FALSE, mbedtls |-> FALSE]

NoChannel == [st |-> "none", worker |-> 0, listener |-> 0, fd |-> Empty,
              index |-> NoIndex, sock |-> Free, tls |-> NoTls, handshaken |-> FALSE, late |-> FALSE]

\* accepts: for every listener of the worker Waiting (an accept is in the ring),
\* Ended, or the client whose completion is in the ring.
Waiting == 0
Ended == -1
NewWorker == [pc |-> "starting", listeners |-> <<>>, accepts |-> <<>>]

InitOf(scenarios) ==
    /\ scenario \in scenarios
    /\ kernel = [fds |-> [f \in Fds |-> IF f = 0 THEN Std ELSE Free],
                 shut |-> {},
                 offload |-> [c \in Clients |-> [by |-> 0, dirs |-> {}]]]
    /\ fds_map = [w \in AllWorkers |-> [i \in 0 .. MapSize - 1 |-> Empty]]
    /\ last_free = [w \in AllWorkers |-> 0]
    /\ wk = [w \in AllWorkers |-> NewWorker]
    /\ ch = [c \in Clients |-> NoChannel]
    /\ stats = [w \in AllWorkers |-> [active |-> 0, active_tls |-> 0]]
    /\ file = NotOpened
    /\ term = FALSE
    /\ ghost = [foreign |-> {}, overflow |-> FALSE]

Init == InitOf(Scenarios)

Faulty(f) == f \in scenario.faults

----------------------------------------------------------------------------
(* The kernel.                                                             *)

LowestFree(k) == CHOOSE f \in Fds : k.fds[f] = Free /\ \A g \in Fds : k.fds[g] = Free => f <= g
HasFree(k) == \E f \in Fds : k.fds[f] = Free
Open(k, owner) == [k EXCEPT !.fds[LowestFree(k)] = owner]

\* network_io_common_socket_close: shutdown, which only a socket obeys, then
\* close.  Nothing happens when the descriptor is not open any more.
SocketClose(k, f) ==
    [k EXCEPT !.fds[f] = Free,
              !.shut = IF k.fds[f][1] \in {"conn", "listener"} THEN @ \cup {k.fds[f]} ELSE @]

SocketsClosed(k, fds) ==
    [k EXCEPT !.fds = [f \in Fds |-> IF f \in fds THEN Free ELSE @[f]],
              !.shut = @ \cup {k.fds[f] : f \in {g \in fds : k.fds[g][1] \in {"conn", "listener"}}}]

\* Closing descriptor f on behalf of owner takes it from another one.
Taken(k, f, owner) ==
    IF k.fds[f] \in {Free, owner} THEN {} ELSE {<<owner, k.fds[f]>>}

----------------------------------------------------------------------------
(* Listeners.                                                              *)

\* network_io_common_socket_new_server for n addresses: the sockets in the order of
\* the addresses.
RECURSIVE NewServers(_, _, _)
NewServers(k, w, n) ==
    IF n = 0 THEN [k |-> k, fds |-> <<>>]
    ELSE LET before == NewServers(k, w, n - 1)
         IN [k |-> Open(before.k, Listener(w, n)),
             fds |-> Append(before.fds, LowestFree(before.k))]

\* An address that can not be bound, to the last worker.
BindFails(w) == Faulty("bind") /\ w = scenario.workers - 1

\* Mutant of ListenersToCreate: the last address is left out.
ListenersToCreateButOne(w) == scenario.second - 1

\* network_io_common_parse_addresses_foreach: the second pass ends at an address that
\* can not be bound.
ListenersToCreate(w) == IF BindFails(w) THEN scenario.second - 1 ELSE scenario.second

\* The reuse port program is attached by worker 0 to each listener after its
\* binding has been set up, a failure leaves the listeners to nobody.
CbpfFails(w) == Faulty("cbpf") /\ w = 0

\* worker_network_listeners_initialize, then listen_pre and listen when it succeeds.
\* The first resolution of the addresses counts the listeners to allocate, the
\* second one creates them.  The other workers are started once worker 0 runs.
ListenersInitialize(w) ==
    LET servers == NewServers(kernel, w, ListenersToCreate(w))
    IN /\ wk[w].pc = "starting" /\ (w > 0 => wk[0].pc \notin {"starting", "aborted"})
       /\ kernel' = servers.k
       /\ ghost' = [ghost EXCEPT !.overflow = @ \/ scenario.second > scenario.first]
       /\ wk' = [wk EXCEPT ![w] =
            IF CbpfFails(w) THEN [@ EXCEPT !.pc = "aborted"]
            ELSE IF BindFails(w) THEN [@ EXCEPT !.pc = "aborted", !.listeners = servers.fds]
            ELSE [pc |-> "running", listeners |-> servers.fds,
                  accepts |-> [l \in 1 .. Len(servers.fds) |-> Waiting]]]
       /\ UNCHANGED <<scenario, fds_map, last_free, ch, stats, file, term>>

\* A client connects to one of the sockets that listen, whoever has it.
Connects(c, f) ==
    /\ ch[c].st = "none" /\ c <= scenario.clients
    /\ \A d \in Clients : d < c => ch[d].st # "none"
    /\ kernel.fds[f][1] = "listener" /\ kernel.fds[f] \notin kernel.shut
    /\ ch' = [ch EXCEPT ![c].st = "backlog", ![c].listener = kernel.fds[f][2]]
    /\ UNCHANGED <<scenario, kernel, fds_map, last_free, wk, stats, file, term, ghost>>

\* The kernel completes an accept of worker w: the connection gets its descriptor.
AcceptCompletes(w, l, c) ==
    /\ l \in DOMAIN wk[w].accepts /\ wk[w].accepts[l] = Waiting
    /\ ch[c].st = "backlog" /\ Listener(w, l)[2] = ch[c].listener
    /\ Listener(w, l) \notin kernel.shut
    /\ HasFree(kernel)
    /\ ch' = [ch EXCEPT ![c].st = "accepted", ![c].worker = w, ![c].fd = LowestFree(kernel)]
    /\ kernel' = Open(kernel, Conn(c))
    /\ wk' = [wk EXCEPT ![w].accepts[l] = c]
    /\ UNCHANGED <<scenario, fds_map, last_free, stats, file, term, ghost>>

----------------------------------------------------------------------------
(* The fiber of a listener.                                                *)

Looping(w) == wk[w].pc \in {"running", "shut"}

\* worker_network_listeners_fiber_entrypoint: the next turn of its loop.
AcceptAgain(w, l) == wk' = [wk EXCEPT ![w].accepts[l] = IF term THEN Ended ELSE Waiting]

\* Mutant of Full: one client more.
FullOneMore(w) == stats[w].active > scenario.max_clients

Full(w) == stats[w].active >= scenario.max_clients

\* Mutant of FindFreeIndex: the slot at fds_map_last_free whatever it holds.
FindFreeIndexLast(w) == last_free[w]

\* The first free slot at or after fds_map_last_free, around the map.
FindFreeIndex(w) ==
    LET at(i) == (i + last_free[w]) % MapSize
        free == {i \in DOMAIN fds_map[w] : fds_map[w][at(i)] = Empty}
    IN IF free = {} THEN NoIndex ELSE at(CHOOSE i \in free : \A j \in free : i <= j)

\* network_channel_client_setup: an option of the socket can not be set, none of
\* them can when the descriptor is not a socket any more.
SetupFails(c) == Faulty("setup") \/ kernel.fds[ch[c].fd][1] # "conn"

\* worker_iouring_fds_map_files_update: the kernel refuses the file, the slot is
\* empty again.
UpdateFails(w) == Faulty("update") /\ FindFreeIndex(w) # NoIndex

\* worker_iouring_fds_map_add_and_enqueue_files_update.  When the map has no free
\* slot it returns -1 as a bool: the connection goes on, and is not in the map.
MapAdd(w, i, f) == IF i = NoIndex THEN fds_map ELSE [fds_map EXCEPT ![w][i] = f]
LastFreeAfter(w, i) ==
    IF i = NoIndex THEN last_free ELSE [last_free EXCEPT ![w] = (i + 1) % MapSize]

\* The checks of accept_setup_new_channel that close the new connection.
AcceptRefused(w, l, c) ==
    /\ \/ Full(w)
       \/ SetupFails(c)
       \/ UpdateFails(w)
    /\ kernel' = SocketClose(kernel, ch[c].fd)
    /\ ghost' = [ghost EXCEPT !.foreign = @ \cup Taken(kernel, ch[c].fd, Conn(c))]
    /\ ch' = [ch EXCEPT ![c].st = "refused", ![c].fd = Empty]
    /\ UNCHANGED <<fds_map, last_free, stats>>

\* The channel of a listener with TLS starts with mbedtls, to be decided again
\* after the handshake.
NewTls == IF scenario.tls THEN [NoTls EXCEPT !.enabled = TRUE, !.mbedtls = TRUE] ELSE NoTls

\* worker_network_new_client_fiber_entrypoint up to its first wait.
AcceptServed(w, l, c) ==
    LET i == FindFreeIndex(w)
    IN /\ ~Full(w) /\ kernel.fds[ch[c].fd][1] = "conn"
       /\ ch' = [ch EXCEPT ![c].st = IF scenario.tls THEN "handshake" ELSE "serving",
                            ![c].index = i, ![c].sock = kernel.fds[ch[c].fd],
                            ![c].tls = NewTls,
                            ![c].late = wk[w].pc = "shut"]
       /\ fds_map' = MapAdd(w, i, ch[c].fd)
       /\ last_free' = LastFreeAfter(w, i)
       /\ stats' = [stats EXCEPT ![w].active = @ + 1]
       /\ UNCHANGED <<kernel, ghost>>

\* mbedtls_ssl_setup fails: the fiber closes the connection at once.
AcceptTlsInitFails(w, l, c) ==
    /\ ~Full(w) /\ kernel.fds[ch[c].fd][1] = "conn"
    /\ scenario.tls /\ Faulty("tls_init")
    /\ kernel' = SocketClose(kernel, ch[c].fd)
    /\ ghost' = [ghost EXCEPT !.foreign = @ \cup Taken(kernel, ch[c].fd, Conn(c))]
    /\ last_free' = LastFreeAfter(w, FindFreeIndex(w))
    /\ ch' = [ch EXCEPT ![c].st = "closed", ![c].fd = Empty]
    /\ UNCHANGED <<fds_map, stats>>

AcceptSetup(w, l) ==
    /\ Looping(w) /\ l \in DOMAIN wk[w].accepts /\ wk[w].accepts[l] > 0
    /\ LET c == wk[w].accepts[l]
       IN \/ AcceptRefused(w, l, c)
          \/ AcceptServed(w, l, c)
          \/ AcceptTlsInitFails(w, l, c)
    /\ AcceptAgain(w, l)
    /\ UNCHANGED <<scenario, file, term>>

\* The listener has been closed by the closing pass: the accept ends with EINVAL.
\* A socket closed by somebody else while the worker runs makes every accept fail.
ListenerEnds(w, l) ==
    /\ Looping(w) /\ l \in DOMAIN wk[w].accepts /\ wk[w].accepts[l] = Waiting
    /\ Listener(w, l) \in kernel.shut
    /\ AcceptAgain(w, l)
    /\ UNCHANGED <<scenario, kernel, fds_map, last_free, ch, stats, file, term, ghost>>

----------------------------------------------------------------------------
(* The fiber of a client.                                                  *)

Runs(c, st) == ch[c].st = st /\ Looping(ch[c].worker)

\* An operation on a connection in the map reaches the file that was registered,
\* on any other one whatever has the number.
SocketOf(c) == IF ch[c].index = NoIndex THEN kernel.fds[ch[c].fd] ELSE ch[c].sock

\* A receive comes back by itself when the socket has been shut down or is gone, and
\* after the read timeout when there is one.
MustEnd(c) ==
    SocketOf(c) \in kernel.shut \/ SocketOf(c)[1] # "conn" \/ scenario.timeout

\* network_channel_t.fd, which of a connection in the map is the index.
ChannelFd(c) == IF ch[c].index = NoIndex THEN ch[c].fd ELSE ch[c].index

\* TCP_ULP is for a connected socket and can be set once.
TakesUlp(f) ==
    /\ kernel.fds[f][1] = "conn" /\ kernel.fds[f] \notin kernel.shut
    /\ kernel.offload[kernel.fds[f][2]].dirs = {}

\* network_channel_tls_setup_ktls: the directions that end up in the kernel, for the
\* socket whose descriptor is network_channel->fd.
Offloads(c) ==
    IF scenario.ktls /\ TakesUlp(ChannelFd(c)) THEN {{}, {"tx"}, {"tx", "rx"}} ELSE {{}}

\* Mutant of TlsAfter: mbedtls is left on beside kTLS.
TlsAfterBoth(t, dirs) ==
    [t EXCEPT !.completed = TRUE, !.ktls = dirs = {"tx", "rx"}]

\* kTLS when both directions were set up, mbedtls when not.
TlsAfter(t, dirs) ==
    [t EXCEPT !.completed = TRUE, !.ktls = dirs = {"tx", "rx"}, !.mbedtls = dirs # {"tx", "rx"}]

HandshakeDone(c) ==
    /\ Runs(c, "handshake")
    /\ SocketOf(c) \notin kernel.shut /\ SocketOf(c)[1] = "conn"
    /\ \E dirs \in Offloads(c) :
         /\ ch' = [ch EXCEPT ![c].st = "serving", ![c].handshaken = TRUE,
                             ![c].tls = TlsAfter(@, dirs)]
         /\ kernel' = IF dirs = {} THEN kernel
                      ELSE [kernel EXCEPT !.offload[kernel.fds[ChannelFd(c)][2]] =
                                              [by |-> c, dirs |-> dirs]]
    /\ stats' = [stats EXCEPT ![ch[c].worker].active_tls = @ + 1]
    /\ UNCHANGED <<scenario, fds_map, last_free, wk, file, term, ghost>>

\* Mutant of StatsAfter: a TLS connection is counted out even when its handshake failed.
StatsAfterTls(w, c) ==
    [stats EXCEPT ![w].active = @ - 1,
                  ![w].active_tls = @ - (IF scenario.tls THEN 1 ELSE 0)]

StatsAfter(w, c) ==
    [stats EXCEPT ![w].active = @ - 1,
                  ![w].active_tls = @ - (IF ch[c].handshaken THEN 1 ELSE 0)]

\* worker_network_iouring_op_network_post_close
PostClose(c) ==
    IF ch[c].index = NoIndex THEN fds_map
    ELSE [fds_map EXCEPT ![ch[c].worker][ch[c].index] = Empty]

\* network_close_internal and the end of the fiber: the socket is closed by the number
\* it was accepted with.
CloseChannel(c) ==
    /\ kernel' = SocketClose(kernel, ch[c].fd)
    /\ ghost' = [ghost EXCEPT !.foreign = @ \cup Taken(kernel, ch[c].fd, Conn(c))]
    /\ fds_map' = PostClose(c)
    /\ ch' = [ch EXCEPT ![c] = [NoChannel EXCEPT !.st = "closed", !.worker = ch[c].worker]]
    /\ stats' = StatsAfter(ch[c].worker, c)
    /\ UNCHANGED <<scenario, last_free, wk, file, term>>

\* Mutant of NetworkClose: the socket is closed before the close notify, and again after.
NetworkCloseTwice(c) ==
    IF ch[c].tls.enabled /\ ch[c].tls.mbedtls
    THEN /\ ch' = [ch EXCEPT ![c].st = "closing"]
         /\ kernel' = SocketClose(kernel, ch[c].fd)
         /\ UNCHANGED <<scenario, fds_map, last_free, wk, stats, file, term, ghost>>
    ELSE CloseChannel(c)

\* network_close: with mbedtls the close notify is sent first, and waited for.
NetworkClose(c) ==
    IF ch[c].tls.enabled /\ ch[c].tls.mbedtls
    THEN /\ ch' = [ch EXCEPT ![c].st = "closing"]
         /\ UNCHANGED <<scenario, kernel, fds_map, last_free, wk, stats, file, term, ghost>>
    ELSE CloseChannel(c)

\* The peer, a timeout, an error or the closing pass ends the handshake.
HandshakeFails(c) == Runs(c, "handshake") /\ NetworkClose(c)

\* connection_accept of the module returns, whether it closed the channel or not.
ServingEnds(c) == Runs(c, "serving") /\ NetworkClose(c)

CloseNotified(c) == Runs(c, "closing") /\ CloseChannel(c)

----------------------------------------------------------------------------
(* The event loop at shutdown, and the file of the snapshot.               *)

RequestTerminate ==
    /\ ~term /\ scenario.terminates
    /\ term' = TRUE
    /\ UNCHANGED <<scenario, kernel, fds_map, last_free, wk, ch, stats, file, ghost>>

MapFds(w) == {fds_map[w][i] : i \in DOMAIN fds_map[w]} \ {Empty}

ListenerFds(w) == {wk[w].listeners[l] : l \in DOMAIN wk[w].listeners}

\* Mutant of ToClose: the listeners only, the clients would end by themselves.
ToCloseListeners(w) == ListenerFds(w)

\* What the closing pass closes: the listeners, then the sockets in the map.
ToClose(w) == ListenerFds(w) \cup MapFds(w)

ShutdownPass(w) ==
    LET mine == {Listener(w, l) : l \in DOMAIN wk[w].listeners}
                  \cup {Conn(c) : c \in {d \in Clients : ch[d].worker = w}}
    IN /\ term /\ wk[w].pc = "running"
       /\ kernel' = SocketsClosed(kernel, ToClose(w))
       /\ ghost' = [ghost EXCEPT !.foreign = @ \cup
             {<<<<"pass", w>>, kernel.fds[f]>> : f \in {g \in ToClose(w) :
                                                  kernel.fds[g] \notin mine \cup {Free}}}]
       /\ wk' = [wk EXCEPT ![w].pc = "shut"]
       /\ UNCHANGED <<scenario, fds_map, last_free, ch, stats, file, term>>

\* Mutant of CanEnd: the loop ends after the pass, without waiting for the fibers.
CanEndAtOnce(w) == w = 0 => file <= Empty

\* The loop ends when the map is empty; worker 0 first writes the snapshot of the
\* shutdown.
CanEnd(w) == MapFds(w) = {} /\ (w = 0 => file <= Empty)

WorkerEnds(w) ==
    /\ wk[w].pc = "shut" /\ CanEnd(w)
    /\ wk' = [wk EXCEPT ![w].pc = "done"]
    /\ UNCHANGED <<scenario, kernel, fds_map, last_free, ch, stats, file, term, ghost>>

\* A snapshot of worker 0 opens its file.  Bounded to one snapshot.
FileOpens ==
    /\ scenario.files /\ file = NotOpened /\ HasFree(kernel)
    /\ Looping(0)
    /\ file' = LowestFree(kernel)
    /\ kernel' = Open(kernel, File)
    /\ UNCHANGED <<scenario, fds_map, last_free, wk, ch, stats, term, ghost>>

FileCloses ==
    /\ file > Empty /\ Looping(0)
    /\ kernel' = SocketClose(kernel, file)
    /\ ghost' = [ghost EXCEPT !.foreign = @ \cup Taken(kernel, file, File)]
    /\ file' = Empty
    /\ UNCHANGED <<scenario, fds_map, last_free, wk, ch, stats, term>>

----------------------------------------------------------------------------

\* Nothing is left to do: every worker is gone, or the process is left running with
\* its clients.
Stays == UNCHANGED vars

Next ==
    \/ \E w \in AllWorkers : ListenersInitialize(w) \/ ShutdownPass(w) \/ WorkerEnds(w)
    \/ \E w \in AllWorkers : \E l \in DOMAIN wk[w].accepts : AcceptSetup(w, l) \/ ListenerEnds(w, l)
    \/ \E w \in AllWorkers : \E l \in DOMAIN wk[w].accepts, c \in Clients : AcceptCompletes(w, l, c)
    \/ \E c \in Clients, f \in Fds : Connects(c, f)
    \/ \E c \in Clients : HandshakeDone(c) \/ HandshakeFails(c) \/ ServingEnds(c) \/ CloseNotified(c)
    \/ RequestTerminate
    \/ FileOpens \/ FileCloses
    \/ Stays

\* The kernel completes what is in the ring and the loop runs every fiber whose
\* operation completed.  A receive without a timeout may wait for ever.
Fairness ==
    WF_vars(\/ \E w \in AllWorkers : ListenersInitialize(w) \/ ShutdownPass(w) \/ WorkerEnds(w)
            \/ \E w \in AllWorkers : \E l \in DOMAIN wk[w].accepts : AcceptSetup(w, l)
            \/ \E c \in Clients : HandshakeDone(c) \/ HandshakeFails(c) \/ CloseNotified(c)
            \/ \E c \in Clients : ServingEnds(c) /\ MustEnd(c)
            \/ FileCloses)

Spec == Init /\ [][Next]_vars /\ Fairness

----------------------------------------------------------------------------
(* Properties.                                                             *)

Live(c) == ch[c].st \in {"handshake", "serving", "closing"}
LiveOf(w) == {c \in Clients : Live(c) /\ ch[c].worker = w}
Passed(w) == wk[w].pc \in {"shut", "done"}
Victims == {pair[2] : pair \in ghost.foreign}

\* Types of the variables.
TypeOK ==
    /\ DOMAIN kernel.fds = Fds /\ kernel.fds[0] = Std
    /\ \A w \in AllWorkers :
         /\ fds_map[w] \in [0 .. MapSize - 1 -> Fds] /\ last_free[w] \in 0 .. MapSize - 1
         /\ wk[w].pc \in {"starting", "running", "shut", "done", "aborted"}
         /\ \A l \in DOMAIN wk[w].accepts : wk[w].accepts[l] \in Clients \cup {Waiting, Ended}
         /\ stats[w].active \in 0 .. Cardinality(Clients)
         /\ stats[w].active_tls \in 0 .. Cardinality(Clients)
    /\ \A c \in Clients :
         /\ ch[c].st \in {"none", "backlog", "accepted", "handshake", "serving", "closing",
                          "closed", "refused"}
         /\ ch[c].fd \in Fds /\ ch[c].worker \in AllWorkers
         /\ ch[c].index \in DOMAIN fds_map[ch[c].worker] \cup {NoIndex}
    /\ file \in Fds \cup {NotOpened}
    /\ term \in BOOLEAN

\* fds_map of a worker holds, at the index each of its connections operates through,
\* the descriptor of that connection, and nothing else: no two connections share a slot
\* and no slot outlives its connection (worker_iouring_fds_map_add_and_enqueue_files_update
\* against worker_network_iouring_op_network_post_close).
MapExact ==
    /\ \A c \in Clients : (Live(c) /\ ch[c].index # NoIndex) =>
            fds_map[ch[c].worker][ch[c].index] = ch[c].fd
    /\ \A w \in AllWorkers : \A i \in DOMAIN fds_map[w] : fds_map[w][i] # Empty =>
            Cardinality({c \in LiveOf(w) : ch[c].index = i}) = 1

\* Until a worker has made its closing pass every connection, listener and file has the
\* descriptor it was given.  The pass closes descriptors that their fibers close again:
\* only such a second close, or one that follows from it, takes a descriptor that has
\* been given to somebody else in between.
DescriptorsOwned ==
    /\ \A pair \in ghost.foreign :
         \/ pair[1] \in Victims
         \/ pair[1][1] = "pass" /\ \E c \in Clients :
                ch[c].worker = pair[1][2] /\ Conn(c) \in Victims
         \/ pair[1][1] = "pass" /\ \E l \in DOMAIN wk[pair[1][2]].listeners :
                Listener(pair[1][2], l) \in Victims
         \/ pair[1][1] = "conn" /\ Passed(ch[pair[1][2]].worker)
    /\ \A c \in Clients :
         (ch[c].st = "accepted" \/ Live(c)) /\ ~Passed(ch[c].worker) /\ Conn(c) \notin Victims
            => kernel.fds[ch[c].fd] = Conn(c)
    /\ (file > Empty /\ File \notin Victims) => kernel.fds[file] = File

\* A running worker listens on every address of its bindings, and it is the one that
\* accepts from its sockets, a descriptor lost to a second close apart.  A listening
\* socket that no fiber accepts from is left only by a worker that aborted while it was
\* setting up its listeners: their channels are freed and their sockets are not closed.
\* The listeners fit in the array sized by the first resolution of the addresses unless
\* the second one gave more.
ListenersServed ==
    /\ \A w \in AllWorkers : wk[w].pc = "running" =>
         /\ Len(wk[w].listeners) = scenario.second
         /\ \A l \in DOMAIN wk[w].listeners :
              kernel.fds[wk[w].listeners[l]] = Listener(w, l) \/ Listener(w, l) \in Victims
    /\ \A w \in AllWorkers, l \in 1 .. 2, f \in Fds :
         (kernel.fds[f] = Listener(w, l) /\ Listener(w, l) \notin kernel.shut) =>
            wk[w].pc \in {"running", "aborted"}
    /\ ghost.overflow => scenario.second > scenario.first

\* worker_stats counts the fibers that serve a client, and those of them that finished
\* the TLS handshake, whichever way they ended; max_clients bounds the former for every
\* worker by itself.
CountsExact ==
    \A w \in AllWorkers :
        /\ stats[w].active = Cardinality(LiveOf(w))
        /\ stats[w].active_tls = Cardinality({c \in LiveOf(w) : ch[c].handshaken})
        /\ stats[w].active <= scenario.max_clients

\* A worker that has ended leaves no client it was serving, except those that found no
\* free slot in fds_map.  That happens only where max_clients, which bounds a worker, is
\* more than the size of the map, which is its share of max_clients.
EndedLeavesOnlyUnmapped ==
    /\ \A w \in AllWorkers : wk[w].pc = "done" => \A c \in LiveOf(w) : ch[c].index = NoIndex
    /\ \A c \in Clients : (Live(c) /\ ch[c].index = NoIndex) => MapSize < scenario.max_clients

\* The data of c go through one TLS layer, which has the keys of c.
OneLayer(c) ==
    \/ ch[c].tls.mbedtls /\ ~ch[c].tls.ktls /\ kernel.offload[c].dirs = {}
    \/ ch[c].tls.ktls /\ ~ch[c].tls.mbedtls
       /\ kernel.offload[c] = [by |-> c, dirs |-> {"tx", "rx"}]

\* A connection served over TLS is encrypted once, by mbedtls or by the kernel with its
\* own keys, unless network_channel_tls_setup_ktls failed after it had set up the sending
\* direction (mbedtls then writes through it), or was given the index of a connection in
\* fds_map for a descriptor and configured the socket that has that number: then neither
\* connection is as it should be.
TlsLayerOnce ==
    \A c \in Clients :
        (ch[c].st = "serving" /\ scenario.tls /\ ch[c].sock = Conn(c)) =>
            \/ OneLayer(c)
            \/ kernel.offload[c] = [by |-> c, dirs |-> {"tx"}] /\ ch[c].tls.mbedtls
            \/ /\ ch[c].tls.ktls /\ ~ch[c].tls.mbedtls
               /\ ch[c].index \notin {NoIndex, ch[c].fd}
            \/ /\ kernel.offload[c].by \notin {0, c}
               /\ ch[c].tls.ktls # ch[c].tls.mbedtls

\* After a termination request every worker ends, even one whose clients stay silent,
\* unless a connection whose accept completed before the closing pass was set up after
\* it: nobody shuts its socket, and without a read timeout it keeps its worker.
Drained ==
    \/ \A w \in AllWorkers : wk[w].pc \in {"done", "aborted"}
                            \/ (wk[w].pc = "starting" /\ wk[0].pc = "aborted")
    \/ \E c \in Clients : ch[c].late /\ Live(c) /\ ~scenario.timeout

=============================================================================
