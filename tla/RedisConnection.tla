--------------------------- MODULE RedisConnection ---------------------------
(***************************************************************************)
(* One Redis connection: the reader of the protocol, the connection that   *)
(* turns what it reads into the arguments of a command, and the commands   *)
(* that change the connection itself.                                      *)
(* (src/protocol/redis/protocol_redis_reader.c,                            *)
(*  src/module/redis/module_redis_connection.c,                            *)
(*  src/module/redis/module_redis_command.c)                               *)
(*                                                                         *)
(* The bytes arrive in pieces of any size.  A byte is here an item: the    *)
(* header of an array or of a blob, the end of such a line, one byte of an *)
(* argument (which knows its word and its place in it), CR and LF.  What   *)
(* is checked is that the way the bytes are cut does not matter.           *)
(***************************************************************************)
EXTENDS Integers, FiniteSets, Sequences, SequencesExt

CONSTANTS
    Scenarios,          \* what the client sends and how the server is set up
    Commands,           \* the command table
    WordLen,            \* the length of each word
    Numbers,            \* words that are integers in range
    OutOfRange,         \* words that are integers out of range
    Password,           \* the word that authenticates
    BufferSize,         \* NETWORK_CHANNEL_RECV_BUFFER_SIZE
    PacketSize,         \* NETWORK_CHANNEL_MAX_PACKET_SIZE
    MaxCommandLength, MaxKeyLength, MaxArguments,
    Databases,          \* the words that are the number of a database
    None

VARIABLES
    input,              \* what the client has still to send
    buffer,             \* the unread part of the read buffer, and its offset
    reader,             \* protocol_redis_reader_context_t
    command,            \* the command being read, and its parser context
    session,            \* what outlives a command: authenticated, database
    replies,            \* replies and errors in the order they are made
    flushed,            \* how many of them were sent
    status,             \* reading, parsing, closed, or undefined
    errno,              \* the errno of the thread is ERANGE
    ghost               \* the scenario, rollbacks and what was lost

vars == <<input, buffer, reader, command, session, replies, flushed, status, errno, ghost>>

-----------------------------------------------------------------------------
(***************************************************************************)
(* What a client sends.                                                    *)
(***************************************************************************)
ArrayOf(n) == [t |-> "array", n |-> n]
BlobOf(n) == [t |-> "blob", n |-> n]
Line == [t |-> "line"]
Byte(w, i) == [t |-> "data", w |-> w, i |-> i]
CR == [t |-> "cr"]
LF == [t |-> "lf"]

BytesOf(w) == [i \in 1..WordLen[w] |-> Byte(w, i)]

Blob(w) == <<BlobOf(WordLen[w]), Line>> \o BytesOf(w) \o <<CR, LF>>

Request(words) == <<ArrayOf(Len(words)), Line>> \o FlattenSeq([i \in DOMAIN words |-> Blob(words[i])])

(* Op of the value v: a step that reads the result of the step before it.   *)
Bind(v, Op(_)) == CHOOSE r \in {Op(x) : x \in {v}} : TRUE

(* The word a piece of the buffer holds.                                    *)
Word(s) == IF s = <<>> THEN "" ELSE IF s = BytesOf(s[1].w) THEN s[1].w ELSE "garbled"

-----------------------------------------------------------------------------
(***************************************************************************)
(* protocol_redis_reader_read: at most one argument at a time.  x holds    *)
(* the rest of the buffer, how much was read, the context and the ops.     *)
(***************************************************************************)
NewReader == [state |-> "begin", error |-> "ok", count |-> 0, index |-> -1, length |-> 0, received |-> 0]

Op(type, read, r, off, len) ==
    [type |-> type, read |-> read, index |-> r.index, length |-> r.length, off |-> off, len |-> len]

ReaderError(x, e) == [x EXCEPT !.r.error = e, !.stop = TRUE]

HasLine(s) == \E i \in DOMAIN s : s[i] \in {Line, LF}

Advance(x, n) == [x EXCEPT !.rest = SubSeq(@, n + 1, Len(@)), !.off = @ + n]

(* The header of a command.  Only PING is understood inline, and only when  *)
(* it arrives in one piece.                                                 *)
ReadPing(x) ==
    LET r == [x.r EXCEPT !.count = 1, !.index = 0, !.length = WordLen["ping"], !.state = "parsed"]
        n == WordLen["ping"]
    IN  [x EXCEPT !.r = r,
                  !.ops = <<Op("begin", 0, r, 0, 0), Op("argument", 0, r, 0, 0), Op("data", n, r, 0, n),
                            Op("end", 0, r, n, 0), Op("parsed", 1, r, 0, 0)>>]

ReadBegin(x) ==
    IF x.stop \/ x.r.state # "begin" THEN x
    ELSE CASE x.rest[1].t = "data" /\ Len(x.rest) > WordLen["ping"]
              /\ SubSeq(x.rest, 1, WordLen["ping"] + 1) = BytesOf("ping") \o <<Line>> -> ReadPing(x)
           [] x.rest[1].t = "array" /\ ~HasLine(x.rest) -> [x EXCEPT !.stop = TRUE]
           [] x.rest[1].t = "array" /\ HasLine(x.rest) /\ (x.rest[2] # Line \/ x.rest[1].n <= 0) ->
                ReaderError(x, "array length")
           [] x.rest[1].t = "array" /\ HasLine(x.rest) /\ x.rest[2] = Line /\ x.rest[1].n > 0 ->
                LET r == [x.r EXCEPT !.count = x.rest[1].n, !.state = "length", !.index = -1, !.length = 0]
                IN  [Advance(x, 2) EXCEPT !.r = r, !.ops = Append(@, Op("begin", 2, r, 0, 0))]
           [] OTHER -> ReaderError(x, "inline")

ReadLength(x) ==
    IF x.stop \/ x.rest = <<>> \/ x.r.state # "length" THEN x
    ELSE IF x.rest[1].t # "blob" THEN ReaderError(x, "blob expected")
    ELSE IF ~HasLine(x.rest) THEN [x EXCEPT !.stop = TRUE]
    ELSE IF x.rest[2] # Line \/ x.rest[1].n < 0 THEN ReaderError(x, "blob length")
    ELSE LET r == [x.r EXCEPT !.index = @ + 1, !.length = x.rest[1].n, !.received = 0, !.state = "data"]
         IN  [Advance(x, 2) EXCEPT !.r = r, !.ops = Append(@, Op("argument", 2, r, 0, 0))]

ReadData(x) ==
    IF x.stop \/ x.rest = <<>> \/ x.r.state # "data" THEN x
    ELSE LET waiting == x.r.length - x.r.received
             n == IF Len(x.rest) < waiting THEN Len(x.rest) ELSE waiting
             r == [x.r EXCEPT !.received = @ + n, !.state = IF n = waiting THEN "data end" ELSE @]
         IN  [Advance(x, n) EXCEPT !.r = r, !.ops = Append(@, Op("data", n, r, x.off, n))]

ReadEnd(x) ==
    IF x.stop \/ x.r.state # "data end" \/ Len(x.rest) < 2 THEN x
    ELSE IF SubSeq(x.rest, 1, 2) # <<CR, LF>> THEN ReaderError(x, "end signature")
    ELSE LET last == x.r.index = x.r.count - 1
             r == [x.r EXCEPT !.received = @ + 2, !.state = IF last THEN "parsed" ELSE "length"]
         IN  [Advance(x, 2) EXCEPT !.r = r,
                !.ops = @ \o <<Op("end", 2, r, x.off, 0)>>
                          \o (IF last THEN <<Op("parsed", 0, r, 0, 0)>> ELSE <<>>)]

Read(s, r) ==
    Bind(Bind(Bind(Bind([rest |-> s, off |-> 0, r |-> r, ops |-> <<>>, stop |-> FALSE],
                        ReadBegin), ReadLength), ReadData), ReadEnd)

-----------------------------------------------------------------------------
(***************************************************************************)
(* The command being read.  c is the state of the connection while a batch *)
(* of ops is processed.                                                    *)
(***************************************************************************)
NewCommand ==
    [info |-> None, begun |-> FALSE, skip |-> FALSE, length |-> 0, error |-> None,
     terminate |-> FALSE, offset |-> 0, path |-> <<>>, token |-> 0,
     expected |-> None, next |-> None, block |-> 0, positional |-> 0, stream |-> FALSE,
     data |-> <<>>, place |-> None, count |-> 0, args |-> <<>>, tokens |-> {}]

\* Mutant of Error: the rest of the command is not skipped.
ErrorGoesOn(c, e) ==
    IF c.command.error # None THEN [c EXCEPT !.stop = "undefined"]
    ELSE [c EXCEPT !.command.error = e]

(* module_redis_connection_error_message_printf_noncritical: there must be  *)
(* no error yet.                                                            *)
Error(c, e) ==
    IF c.command.error # None THEN [c EXCEPT !.stop = "undefined"]
    ELSE [c EXCEPT !.command.error = e, !.command.skip = TRUE]

CriticalError(c, e) ==
    [c EXCEPT !.command.error = e, !.command.skip = TRUE, !.command.terminate = TRUE]

(* The element of a block that is expected next, or the argument itself.    *)
InBlock(p) == p.expected # None /\ p.expected.type = "block"
Element(p) == IF InBlock(p) THEN p.expected.elements[p.block + 1] ELSE p.expected

(* module_redis_command_context_get_argument_member_context_addr and the    *)
(* assignment of a value: a list grows by an entry unless a block is being  *)
(* continued, and a value that is set again loses the one before it.        *)
Place(p, arg, list) ==
    [arg |-> arg.name, entry |-> IF ~list THEN 0 ELSE IF InBlock(p) /\ p.block > 0 THEN p.count ELSE p.count + 1]

Store(c, arg, list, value) ==
    LET p == c.command
        place == Place(p, arg, list)
        again == ~list /\ arg.type \in {"key", "pattern", "short"} /\ place \in DOMAIN p.args
    IN  [c EXCEPT !.command.count = IF list THEN place.entry ELSE @,
                  !.command.args = [x \in DOMAIN @ \cup {place} |-> IF x = place THEN value ELSE @[x]],
                  !.lost = IF again THEN @ \cup {"argument"} ELSE @]

(* module_redis_command_process_begin                                       *)
ProcessBegin(c) ==
    LET args == c.command.info.args IN
    [c EXCEPT !.command.begun = TRUE,
              !.command.expected = IF args # <<>> /\ args[1].positional THEN args[1] ELSE None,
              !.command.block = 0]

TooLong(arg, n) == arg.type \in {"key", "pattern"} /\ n > MaxKeyLength

(* module_redis_command_process_argument_begin: a long string is streamed   *)
(* into chunks that are allocated here.                                     *)
ArgumentBegin(c, n) ==
    LET p == c.command
        arg == Element(p)
    IN  IF p.expected = None THEN [c EXCEPT !.command.stream = FALSE]
        ELSE IF TooLong(arg, n) THEN Error(c, "key length")
        ELSE IF arg.type # "long" THEN [c EXCEPT !.command.stream = FALSE]
        ELSE IF c.fails THEN [c EXCEPT !.stop = "close"]
        ELSE [Store(c, arg, p.expected.multi, "") EXCEPT
                !.command.stream = TRUE, !.command.data = <<>>, !.command.place = Place(p, arg, p.expected.multi)]

(* module_redis_command_process_argument_stream_data                        *)
ArgumentStream(c, bytes) ==
    [c EXCEPT !.command.data = @ \o bytes,
              !.command.args[c.command.place] = Word(c.command.data \o bytes)]

(* module_redis_command_process_argument_full, the token it looks for       *)
IsToken(p, word) ==
    /\ p.expected = None \/ (~InBlock(p) /\ p.expected.optional /\ p.expected.token = None)
    /\ word \in DOMAIN p.info.tokens

\* Mutant of ArgumentToken: a token may be given again.
ArgumentTokenAgain(c, word) ==
    LET p == c.command
        arg == p.info.tokens[word]
    IN  IF c.strict /\ arg.oneof \cap p.tokens # {} THEN Error(c, "both tokens")
        ELSE [c EXCEPT !.command.expected = None,
                       !.command.next = IF arg.type = "bool" THEN @ ELSE arg,
                       !.command.tokens = @ \cup {word}]

ArgumentToken(c, word) ==
    LET p == c.command
        arg == p.info.tokens[word]
    IN  IF c.strict /\ arg.oneof \cap p.tokens # {} THEN Error(c, "both tokens")
        ELSE IF c.strict /\ word \in p.tokens /\ ~arg.repeats THEN Error(c, "token again")
        ELSE [c EXCEPT !.command.expected = None,
                       !.command.next = IF arg.type = "bool" THEN @ ELSE arg,
                       !.command.tokens = @ \cup {word}]

(* ... and the value it stores: errno is never reset before a conversion.   *)
ArgumentValue(c, word, n) ==
    LET p == c.command
        arg == Element(p)
        placed == Store(c, arg, p.expected.multi, word)
        bad == c.errno \/ word \notin Numbers
    IN  CASE TooLong(arg, n) -> Error(c, "key length")
          [] arg.type \in {"key", "pattern", "short"} /\ n = 0 -> Error(c, "empty")
          [] arg.type = "integer" /\ bad -> [Error(c, "integer") EXCEPT !.errno = @ \/ word \in OutOfRange]
          [] OTHER -> placed

ArgumentFull(c, word, n) ==
    CASE IsToken(c.command, word) -> ArgumentToken(c, word)
      [] ~IsToken(c.command, word) /\ c.command.expected = None -> Error(c, "arguments")
      [] OTHER -> ArgumentValue(c, word, n)

(* module_redis_command_process_argument_end: what is expected next         *)
NextPositional(p) ==
    LET k == p.positional + 1 IN
    IF k < Len(p.info.args) /\ p.info.args[k + 1].positional /\ p.info.args[k + 1].type # "oneof"
    THEN p.info.args[k + 1] ELSE None

ArgumentEnd(c) ==
    LET p == c.command IN
    CASE p.next # None -> [c EXCEPT !.command.next = None, !.command.expected = p.next, !.command.block = 0]
      [] p.next = None /\ p.expected = None -> c
      [] p.next = None /\ InBlock(p) /\ p.block + 1 < Len(p.expected.elements) -> [c EXCEPT !.command.block = @ + 1]
      [] OTHER ->
           [c EXCEPT !.command.block = IF InBlock(p) THEN 0 ELSE @,
                     !.command.positional = IF p.expected.positional /\ ~p.expected.multi THEN @ + 1 ELSE @,
                     !.command.expected = CASE ~@.positional -> None
                                            [] @.positional /\ @.multi -> @
                                            [] OTHER -> NextPositional(p)]

-----------------------------------------------------------------------------
(***************************************************************************)
(* The commands.  Those that work on the connection are here, any other    *)
(* answers with the arguments it was given.                                *)
(***************************************************************************)
Reply(c, r) == [c EXCEPT !.replies = Append(@, r)]

Flush(c) == IF c.unsent THEN [c EXCEPT !.stop = "close"] ELSE [c EXCEPT !.flushed = Len(c.replies)]

ErrorAndTerminate(c, e) == [Error(c, e) EXCEPT !.command.terminate = TRUE]

Argument(c, name) ==
    LET place == [arg |-> name, entry |-> 0] IN
    IF place \in DOMAIN c.command.args THEN c.command.args[place] ELSE None

\* Mutant of Authenticated: the test of the configuration is inverted.
AuthenticatedIfRequired(c) == c.auth \/ c.session.authenticated

Authenticated(c) == ~c.auth \/ c.session.authenticated

Authenticate(c, password) ==
    IF password = Password THEN [c EXCEPT !.session.authenticated = TRUE] ELSE ErrorAndTerminate(c, "wrong password")

(* AUTH: with two arguments the first is the user and the second the        *)
(* password, which the names of the arguments say the other way round.      *)
RunAuth(c) ==
    LET password == IF Argument(c, "username") = None THEN Argument(c, "password") ELSE Argument(c, "username")
        done == Authenticate(c, password)
    IN  IF Authenticated(c) THEN ErrorAndTerminate(c, "already authenticated")
        ELSE IF done.session.authenticated THEN Reply(done, [ok |-> "auth"]) ELSE done

(* HELLO: authentication comes before the protocol version is looked at.    *)
Protover(c) == Argument(c, "protover")

SetName(c) ==
    IF "setname" \notin c.command.tokens THEN c
    ELSE [c EXCEPT !.session.name = TRUE, !.lost = IF c.session.name THEN @ \cup {"name"} ELSE @]

HelloGreets(c) ==
    IF c.reader.count > 1 /\ Protover(c) \notin {"2", "3"} THEN Error(c, "protocol version")
    ELSE Reply(SetName([c EXCEPT !.session.resp = IF c.reader.count > 1 THEN Protover(c) ELSE @]), [ok |-> "hello"])

RunHello(c) ==
    LET auth == "auth" \in c.command.tokens
        done == IF c.auth /\ auth THEN Authenticate(c, Argument(c, "password")) ELSE c
    IN  CASE ~Authenticated(c) /\ ~auth -> ErrorAndTerminate(c, "authentication required")
          [] auth /\ c.auth /\ Authenticated(c) -> ErrorAndTerminate(c, "already authenticated")
          [] OTHER -> IF done.command.error # None THEN done ELSE HelloGreets(done)

RunSelect(c) ==
    IF Argument(c, "index") \notin Databases THEN Error(c, "database")
    ELSE Reply([c EXCEPT !.session.database = Argument(c, "index")], [ok |-> "select"])

RunQuit(c) == [Flush(Reply(c, [ok |-> "quit"])) EXCEPT !.command.terminate = TRUE]

(* SHUTDOWN: the option replaces the configuration, and the worker is asked *)
(* to terminate even when the answer cannot be sent.                        *)
RunShutdown(c) ==
    LET told == Reply(c, [ok |-> "shutdown"]) IN
    [told EXCEPT !.flushed = IF c.unsent THEN @ ELSE Len(told.replies),
                 !.session.shutdown = CASE "save" \in c.command.tokens -> "save"
                                        [] "save" \notin c.command.tokens /\ "nosave" \in c.command.tokens -> "nosave"
                                        [] OTHER -> "as configured",
                 !.command.terminate = TRUE]

RunData(c) ==
    Reply(c, [run |-> c.command.info.name, args |-> c.command.args, tokens |-> c.command.tokens,
              database |-> c.session.database])

Run(c) ==
    CASE c.command.info.name = "auth" -> RunAuth(c)
      [] c.command.info.name = "hello" -> RunHello(c)
      [] c.command.info.name = "select" -> RunSelect(c)
      [] c.command.info.name = "quit" -> RunQuit(c)
      [] c.command.info.name = "shutdown" -> RunShutdown(c)
      [] OTHER -> RunData(c)

(* module_redis_command_process_end: there may be no command at all.        *)
ProcessEnd(c) ==
    CASE InBlock(c.command) /\ c.command.block > 0 -> Error(c, "incomplete block")
      [] ~(InBlock(c.command) /\ c.command.block > 0) /\ c.command.info = None -> [c EXCEPT !.stop = "undefined"]
      [] OTHER -> Run(c)

-----------------------------------------------------------------------------
(***************************************************************************)
(* module_redis_connection_process_data: the ops of a batch, one by one.   *)
(***************************************************************************)
\* Mutant of Rollback: the reader goes on from where it was.
RollbackKeepsReceived(c, op) ==
    [c EXCEPT !.reader.state = "data",
              !.buffer.data = SubSeq(c.batch, op.off + 1, op.off + op.len) \o @,
              !.buffer.offset = @ - op.read,
              !.recounted = @ + op.read,
              !.stop = "wait"]

(* The data of an argument that is not streamed are given back until they   *)
(* are all there; what they added to the length of the command is not.      *)
Rollback(c, op) ==
    [c EXCEPT !.reader.state = "data", !.reader.received = 0,
              !.buffer.data = SubSeq(c.batch, op.off + 1, op.off + op.len) \o @,
              !.buffer.offset = @ - op.read,
              !.recounted = @ + op.read,
              !.stop = "wait"]

Held(c, op, followed) == IF followed THEN [c EXCEPT !.command.token = op.off] ELSE Rollback(c, op)

BytesIn(c, off, n) == SubSeq(c.batch, off + 1, off + n)

(* The first argument, or the first after a container, names the command.   *)
LookUp(c, op) ==
    LET path == Append(c.command.path, Word(BytesIn(c, c.command.token, op.length)))
        known == path \in DOMAIN Commands
        info == IF known THEN Commands[path] ELSE None
        given == c.reader.count - 1 - c.command.offset
    IN  CASE ~known -> Error(c, "unknown command")
          [] known /\ info.disabled -> Error([c EXCEPT !.command.info = info], "disabled")
          [] known /\ ~info.disabled /\ info.auth /\ ~Authenticated(c) ->
               ErrorAndTerminate(c, "authentication required")
          [] known /\ ~info.disabled /\ (info.auth => Authenticated(c)) /\ info.container ->
               [c EXCEPT !.command.offset = @ + 1, !.command.path = path]
          [] OTHER ->
               LET found == [c EXCEPT !.command.info = info] IN
               IF info.required > given THEN Error(found, "arguments")
               ELSE IF given > MaxArguments THEN Error(found, "too many arguments")
               ELSE ProcessBegin(found)

OneArgument(c, op, followed) ==
    CASE op.type = "argument" -> ArgumentBegin(c, op.length)
      [] op.type = "data" /\ c.command.stream -> ArgumentStream(c, BytesIn(c, op.off, op.len))
      [] op.type = "data" /\ ~c.command.stream -> Held(c, op, followed)
      [] op.type = "end" /\ c.command.stream -> ArgumentEnd(c)
      [] op.type = "end" /\ ~c.command.stream ->
           Bind(ArgumentFull(c, Word(BytesIn(c, c.command.token, op.length)), op.length), ArgumentEnd)

Consume(c, op) ==
    [c EXCEPT !.buffer.data = SubSeq(@, op.read + 1, Len(@)), !.buffer.offset = @ + op.read,
              !.command.length = @ + op.read]

ProcessOp(c, op, followed) ==
    CASE c.command.length > MaxCommandLength -> [CriticalError(c, "command length") EXCEPT !.stop = "break"]
      [] c.command.length <= MaxCommandLength /\ c.command.skip -> c
      [] c.command.length <= MaxCommandLength /\ ~c.command.skip ->
           CASE op.type = "data" /\ op.index = c.command.offset -> Held(c, op, followed)
             [] op.type = "end" /\ op.index = c.command.offset -> LookUp(c, op)
             [] op.type \in {"argument", "data", "end"} /\ op.index > c.command.offset -> OneArgument(c, op, followed)
             [] op.type = "parsed" -> ProcessEnd(c)
             [] OTHER -> c

ProcessOps(c, ops) ==
    LET Upto[i \in 0..Len(ops)] ==
            IF i = 0 THEN c
            ELSE Bind(Upto[i - 1], LAMBDA acc :
                    IF acc.stop # "" THEN acc
                    ELSE Bind(Consume(acc, ops[i]), LAMBDA used :
                            ProcessOp(used, ops[i], i < Len(ops) /\ ops[i + 1].type = "end")))
    IN  Upto[Len(ops)]

(* What comes after the batch: the error is sent, the connection closed, or *)
(* the contexts made ready for the next command.                            *)
SendError(c) ==
    IF c.command.error = None THEN c ELSE [Reply(c, [error |-> c.command.error]) EXCEPT !.command.error = None]

FlushAndClose(c) ==
    IF c.unsent THEN [c EXCEPT !.stop = "close"] ELSE [c EXCEPT !.flushed = Len(c.replies), !.stop = "close"]

ContextReset(c) == [c EXCEPT !.command = NewCommand, !.reader = NewReader]

Settle(c) ==
    LET sent == SendError(c) IN
    IF c.stop \in {"wait", "close", "undefined"} THEN c
    ELSE IF sent.command.terminate THEN FlushAndClose(sent)
    ELSE IF sent.reader.state = "parsed" THEN ContextReset(sent) ELSE sent

Batch(c) ==
    Bind(Read(c.buffer.data, c.reader), LAMBDA x :
        LET seen == [c EXCEPT !.reader = x.r, !.batch = c.buffer.data, !.found = Len(x.ops) > 0]
        IN  IF x.r.error # "ok" THEN Bind(CriticalError([seen EXCEPT !.found = FALSE], "parsing"), Settle)
            ELSE Bind(ProcessOps(seen, x.ops), Settle))

\* Mutant of Again: one command for each packet.
AgainInCommand(c) == c.stop = "" /\ c.buffer.data # <<>> /\ c.found /\ c.reader.state # "begin"

\* Mutant of Again: whatever the reader found.
AgainAnyway(c) == c.stop = "" /\ c.buffer.data # <<>>

Again(c) == c.stop = "" /\ c.buffer.data # <<>> /\ c.found

-----------------------------------------------------------------------------
(***************************************************************************)
(* The reference: every request is answered on its own, uncut, in a        *)
(* session that the requests before it left behind.                        *)
(***************************************************************************)
Connection(scenario, data, logged) ==
    [buffer |-> [data |-> data, offset |-> 0], batch |-> <<>>, reader |-> NewReader, command |-> NewCommand,
     session |-> logged, replies |-> <<>>, flushed |-> 0, errno |-> FALSE, lost |-> {}, recounted |-> 0,
     stop |-> "", found |-> FALSE, fails |-> FALSE, unsent |-> FALSE,
     auth |-> scenario.auth, strict |-> scenario.strict]

RECURSIVE Alone(_)
Alone(c) == LET next == Batch(c) IN IF Again(next) THEN Alone(next) ELSE next

NewSession == [authenticated |-> FALSE, database |-> "0", resp |-> "2", name |-> FALSE, shutdown |-> None]

RECURSIVE Answers(_, _, _)
Answers(scenario, i, logged) ==
    IF i > Len(scenario.requests) THEN <<>>
    ELSE LET done == Alone(Connection(scenario, scenario.requests[i], logged)) IN
         done.replies \o (IF done.stop # "" THEN <<>> ELSE Answers(scenario, i + 1, done.session))

-----------------------------------------------------------------------------
(***************************************************************************)
(* module_redis_connection_accept                                          *)
(***************************************************************************)
InitOf(scenarios) ==
    \E scenario \in scenarios :
        /\ input = FlattenSeq(scenario.requests)
        /\ buffer = [data |-> <<>>, offset |-> 0]
        /\ reader = NewReader
        /\ command = NewCommand
        /\ session = NewSession
        /\ replies = <<>>
        /\ flushed = 0
        /\ status = "reading"
        /\ errno = FALSE
        /\ ghost = [scenario |-> scenario, expected |-> Answers(scenario, 1, NewSession),
                    faults |-> scenario.faults, cuts |-> scenario.cuts, recounted |-> 0, lost |-> {}, range |-> FALSE, why |-> None]

Init == InitOf(Scenarios)

HasRoom == Len(buffer.data) + PacketSize <= BufferSize

Rewound == IF buffer.offset + Len(buffer.data) + PacketSize > BufferSize THEN 0 ELSE buffer.offset

(* network_receive: any number of the bytes that fit, with errno left alone *)
(* or overwritten by what the thread does in the meantime.  A behaviour     *)
(* receives less than it could at most scenario.cuts times.                 *)
Most == LET free == BufferSize - Rewound - Len(buffer.data) IN IF Len(input) < free THEN Len(input) ELSE free

Receive ==
    /\ status = "reading" /\ HasRoom /\ input # <<>>
    /\ \E n \in 1..Most :
        /\ n < Most => ghost.cuts > 0
        /\ buffer' = [data |-> buffer.data \o SubSeq(input, 1, n), offset |-> Rewound]
        /\ input' = SubSeq(input, n + 1, Len(input))
        /\ ghost' = [ghost EXCEPT !.cuts = IF n < Most THEN @ - 1 ELSE @]
    /\ status' = "parsing"
    /\ errno' \in {errno, FALSE}
    /\ UNCHANGED <<reader, command, session, replies, flushed>>

PeerCloses ==
    /\ status = "reading" /\ HasRoom
    /\ status' = "closed"
    /\ ghost' = [ghost EXCEPT !.why = "peer"]
    /\ command' = NewCommand /\ reader' = NewReader
    /\ UNCHANGED <<input, buffer, session, replies, flushed, errno>>

(* The read buffer is full of a command that is not complete: the error is  *)
(* written and the loop left without sending it.                            *)
NoRoom ==
    /\ status = "reading" /\ ~HasRoom
    /\ replies' = Append(replies, [error |-> "buffer full"])
    /\ status' = "closed"
    /\ ghost' = [ghost EXCEPT !.why = "buffer full"]
    /\ command' = NewCommand /\ reader' = NewReader
    /\ UNCHANGED <<input, buffer, session, flushed, errno>>

Now(fault) ==
    [Connection(ghost.scenario, <<>>, session) EXCEPT
        !.buffer = buffer, !.reader = reader, !.command = command, !.replies = replies, !.flushed = flushed,
        !.errno = errno, !.fails = fault = "alloc", !.unsent = fault = "send"]

\* Mutant of Ended: nothing is sent when more data are needed.
EndedUnlessWaiting(c) == IF c.stop = "" /\ ~Again(c) /\ c.flushed < Len(c.replies) THEN Flush(c) ELSE c

(* One round of module_redis_connection_process_data, and on its last one   *)
(* the flush of what was answered.                                          *)
Ended(c) == IF c.stop \in {"", "wait"} /\ ~Again(c) /\ c.flushed < Len(c.replies) THEN Flush(c) ELSE c

Parse ==
    /\ status = "parsing"
    /\ \E fault \in ghost.faults \cup {None} : \E c \in {Bind(Bind(Now(fault), Batch), Ended)} :
        /\ buffer' = c.buffer
        /\ reader' = IF c.stop = "close" THEN NewReader ELSE c.reader
        /\ command' = IF c.stop = "close" THEN NewCommand ELSE c.command
        /\ session' = c.session
        /\ replies' = c.replies
        /\ flushed' = c.flushed
        /\ errno' = c.errno
        /\ status' = CASE c.stop = "undefined" -> "undefined"
                       [] c.stop = "close" -> "closed"
                       [] OTHER -> IF Again(c) THEN "parsing" ELSE "reading"
        /\ ghost' = [ghost EXCEPT !.faults = @ \ {fault}, !.recounted = @ + c.recounted, !.lost = @ \cup c.lost,
                                  !.range = @ \/ c.errno, !.why = IF c.stop = "close" THEN fault ELSE @]
    /\ UNCHANGED input

Stopped == status \in {"closed", "undefined"} /\ UNCHANGED vars

Next == Receive \/ PeerCloses \/ NoRoom \/ Parse \/ Stopped

(* The fiber of the connection is scheduled while it has something to do.   *)
Fairness == WF_vars(Receive \/ NoRoom \/ Parse)

Spec == Init /\ [][Next]_vars /\ Fairness

-----------------------------------------------------------------------------
(***************************************************************************)
(* Properties.                                                             *)
(***************************************************************************)
(* The buffer never holds more than it can, the reader is in one of its     *)
(* states, and no more was sent than was answered.                          *)
TypeOK ==
    /\ buffer.offset \in 0..BufferSize /\ buffer.offset + Len(buffer.data) <= BufferSize
    /\ reader.state \in {"begin", "length", "data", "data end", "parsed"}
    /\ command.length \in 0..MaxCommandLength
    /\ flushed \in 0..Len(replies)
    /\ status \in {"reading", "parsing", "closed", "undefined"}

(* However the bytes are cut, process_data answers each request as it would *)
(* have answered it whole and alone.  There are four ways out: the length   *)
(* of what was given back to the buffer is counted again, so that a command *)
(* within max_command_length is refused; an inline PING that is cut is a    *)
(* parsing error; after an integer out of range errno refuses the next ones *)
(* too; and an argument held in the buffer may fill it.                     *)
CutsAgree ==
    \A i \in DOMAIN replies :
        \/ i <= Len(ghost.expected) /\ replies[i] = ghost.expected[i]
        \/ replies[i] = [error |-> "command length"] /\ ghost.recounted > 0 /\ status = "closed"
        \/ replies[i] = [error |-> "parsing"] /\ ghost.scenario.inline /\ status = "closed"
        \/ replies[i] = [error |-> "integer"] /\ ghost.range /\ \E j \in 1..(i - 1) : replies[j] = replies[i]
        \/ replies[i] = [error |-> "buffer full"] /\ ghost.why = "buffer full"

(* When nothing is left to read or to parse, every complete request has its *)
(* answer: module_redis_connection_process_data leaves none in the buffer.  *)
AllAnswered ==
    status = "reading" /\ input = <<>> /\ ghost.scenario.complete => Len(replies) = Len(ghost.expected)

(* The connection never waits for the client, and never closes on its own,  *)
(* with an answer it has not sent: network_flush_send_buffer runs before    *)
(* both.  Only the error about a full read buffer is dropped, and what      *)
(* was answered in the batch in which an allocation or a send fails.        *)
AnswersSent ==
    /\ status = "reading" => flushed = Len(replies)
    /\ status = "closed" /\ ghost.why \in {None, "peer"} => flushed = Len(replies)
    /\ status = "closed" /\ ghost.why = "buffer full" => flushed = Len(replies) - 1

(* A command runs only when one was found (module_redis_command_process_end *)
(* calls through command.info), unless the request is a container command   *)
(* with no subcommand; and no error is set over an error.                   *)
CommandFound == status = "undefined" => ghost.scenario.container

(* Every argument and name the connection allocates has one owner: an       *)
(* argument is lost only when its token is repeated without strict parsing, *)
(* a client name only when HELLO SETNAME is sent twice.                     *)
ArgumentsOwned ==
    /\ "argument" \in ghost.lost => ~ghost.scenario.strict /\ ghost.scenario.repeats
    /\ "name" \in ghost.lost => ghost.scenario.repeats

(* A command that requires authentication answers only on a connection that *)
(* authenticated before, however the requests are cut and pipelined.        *)
OnlyAuthenticated ==
    \A i \in DOMAIN replies' \ DOMAIN replies :
        "run" \in DOMAIN replies'[i] /\ ghost.scenario.auth => session.authenticated

(* The client is served: what it sends is received and parsed, in rounds    *)
(* that end, until the connection waits for more or is closed.              *)
Served == (status = "reading" /\ input = <<>>) \/ status \in {"closed", "undefined"}
=============================================================================
