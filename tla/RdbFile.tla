------------------------------ MODULE RdbFile ------------------------------
(***************************************************************************)
(* The RDB file: the primitives that encode it                             *)
(* (module_redis_snapshot_serialize_primitive.c), the snapshot that writes *)
(* it through a buffered channel (storage_db_snapshot.c,                   *)
(* storage_buffered.c) and the load at the start of the program            *)
(* (module_redis_snapshot_load.c).                                         *)
(*                                                                         *)
(* A file is a sequence of bytes, opcodes and pieces of strings.  The      *)
(* numbers are scaled: a byte has Byte values, the six bits a first byte   *)
(* of a length has left hold Low of them, a 32 bit number has WideBytes    *)
(* bytes and a 64 bit one LongBytes.                                       *)
(***************************************************************************)
EXTENDS Integers, Sequences, FiniteSets, SequencesExt

CONSTANTS
    Scenarios,      \* what is written, through what, with how many faults
    Byte, Low, WideBytes, LongBytes,
    BufferLength,   \* STORAGE_BUFFERED_CHANNEL_BUFFER_SIZE
    HeadLength,     \* the slice of a header or of a number, 128 bytes
    ChunkMax,       \* STORAGE_DB_CHUNK_MAX_SIZE
    SmallMax,       \* the strings that may be compressed are below it
    LoadTime,       \* rdb_load_start
    None

VARIABLES
    phase,      \* write, reported, load or end
    pending,    \* the slices the snapshot has to write
    buffer,     \* the write buffer of the channel
    file,       \* what is in the file
    encoder,    \* the caller's buffer, when the primitives are called alone
    load,       \* the state of the load
    store,      \* the keys that are loaded
    scenario, ghost

vars == <<phase, pending, buffer, file, encoder, load, store, scenario, ghost>>

(* The value is computed once.                                              *)
Bind(v, F(_)) == CHOOSE r \in {F(x) : x \in {v}} : TRUE

Wide == Byte ^ WideBytes
Long == Byte ^ LongBytes

-----------------------------------------------------------------------------
(***************************************************************************)
(* Strings: a numeral has digits, the number they stand for; any other     *)
(* string has a tail that tells it from the others.                        *)
(***************************************************************************)
Numeral(lead, sign, zeros, digits) ==
    [lead |-> lead, sign |-> sign, zeros |-> zeros, digits |-> digits, tail |-> "", packed |-> 0,
     size |-> lead + Len(sign) + zeros + (IF digits < 10 THEN 1 ELSE 2)]

String(tail, size, packed) ==
    [lead |-> 0, sign |-> "", zeros |-> 0, digits |-> None, tail |-> tail, packed |-> packed, size |-> size]

(* snprintf("%d").                                                          *)
Printed(n) == IF n < 0 THEN Numeral(0, "-", 0, -n) ELSE Numeral(0, "", 0, n)

Signed(u, w) == IF u >= w \div 2 THEN u - w ELSE u

(* strtoull gives UINT64_MAX for a number that is too large, and takes a    *)
(* minus sign after spaces.                                                 *)
Strtoull(s) ==
    IF s.digits >= Long THEN Long - 1 ELSE IF s.sign = "-" THEN (Long - s.digits) % Long ELSE s.digits

Strtoll(s) == IF s.digits > Long \div 2 THEN -(Long \div 2) ELSE -s.digits

(* The comparison that has to refuse what is above INT64_MAX is made with   *)
(* unsigned numbers, which are equal: nothing is refused.                   *)
CanEncodeInt(s) ==
    IF s.digits = None \/ s.tail # "" THEN None
    ELSE LET n == IF s.sign = "-" /\ s.lead = 0 THEN Strtoll(s) ELSE Signed(Strtoull(s), Long)
         IN  IF n >= -(Wide \div 2) /\ n < Wide \div 2 THEN n ELSE None

-----------------------------------------------------------------------------
(***************************************************************************)
(* The primitives.  An encoder is the caller's buffer, its size, and the   *)
(* result of the last call; after an error nothing more is encoded.        *)
(***************************************************************************)
B(n) == [byte |-> n]
Op(name) == [op |-> name]
Data(s, part, len) == [data |-> s, part |-> part, len |-> len]

SizeOf(unit) == IF "len" \in DOMAIN unit THEN unit.len ELSE 1

Bytes(units) ==
    LET first[k \in 0..Len(units)] == IF k = 0 THEN 0 ELSE first[k - 1] + SizeOf(units[k]) IN first[Len(units)]

Encoder(size) == [units |-> <<>>, used |-> 0, size |-> size, result |-> "ok"]

Failed(e, result) == [e EXCEPT !.result = result]

(* The space that is checked for is not always the space that is written.   *)
Put(encoded, space, units) == Bind(encoded, LAMBDA e :
    IF e.result # "ok" THEN e
    ELSE IF e.used + space > e.size THEN Failed(e, "overflow")
    ELSE [e EXCEPT !.units = @ \o SelectSeq(units, LAMBDA u : SizeOf(u) > 0), !.used = @ + Bytes(units)])

LittleEndian(n, count) == [i \in 1..count |-> B((n \div Byte ^ (i - 1)) % Byte)]
BigEndian(n, count) == Reverse(LittleEndian(n, count))

LengthSpace(n) ==
    IF n < Low THEN 1 ELSE IF n < Low * Byte THEN 2 ELSE IF n < Wide THEN 1 + WideBytes ELSE 1 + LongBytes

Length63(n) == <<B(n)>>
Length16383(n) == <<B(Low + n \div Byte), B(n % Byte)>>
Length32(n) == <<B(2 * Low)>> \o BigEndian(n, WideBytes)
Length64(n) == <<B(2 * Low + 1)>> \o BigEndian(n, LongBytes)

LengthUnits(n) ==
    IF n < Low THEN Length63(n) ELSE IF n < Low * Byte THEN Length16383(n)
    ELSE IF n < Wide THEN Length32(n) ELSE Length64(n)

EncodeLength(e, n) == Put(e, LengthSpace(n), LengthUnits(n))

Magic == String("REDIS", 5, 0)
Checksum == String("checksum", 8, 0)
Version(n) == Numeral(0, "", 2, n)

EncodeHeader(e, version) == Put(e, 9, <<Data(Magic, 0, 5), Data(version, 0, 4)>>)

EncodeKey(e, s) == Put(EncodeLength(Put(e, LengthSpace(s.size) + s.size, <<>>), s.size), s.size, <<Data(s, 0, s.size)>>)

EncodeStringPlain(e, s) == Put(e, s.size, <<Data(s, 0, s.size)>>)

\* Mutant of IntBytes: the first number of two bytes is written in one.
IntBytesOffByOne(n) ==
    IF n >= -(Byte \div 2) /\ n <= Byte \div 2 THEN 1
    ELSE IF n >= -(Byte ^ 2 \div 2) /\ n < Byte ^ 2 \div 2 THEN 2 ELSE WideBytes

IntBytes(n) ==
    IF n >= -(Byte \div 2) /\ n < Byte \div 2 THEN 1
    ELSE IF n >= -(Byte ^ 2 \div 2) /\ n < Byte ^ 2 \div 2 THEN 2 ELSE WideBytes

IntCode(count) == CASE count = 1 -> 0 [] count = 2 -> 1 [] count = WideBytes -> 2

EncodeInt(e, n) ==
    IF n < -(Wide \div 2) \/ n >= Wide \div 2 THEN Failed(e, "invalid")
    ELSE Put(e, 1 + IntBytes(n), <<B(3 * Low + IntCode(IntBytes(n)))>> \o LittleEndian(n, IntBytes(n)))

(* LZF itself is not part of the program: s.packed is the length it gives,  *)
(* 0 when it fails.                                                         *)
LzfMax(n) == (n * 33) \div 32 + 1

EncodeLzf(e, s) ==
    LET head == 1 + 2 * (1 + WideBytes) IN
    IF s.size >= SmallMax THEN Failed(e, "too large")
    ELSE IF Put(e, head + LzfMax(s.size), <<>>).result # "ok" THEN Failed(e, "overflow")
    ELSE IF s.packed = 0 THEN Failed(e, "not compressed")
    ELSE IF s.packed > s.size THEN Failed(e, "ratio")
    ELSE Put(e, 1 + 2 * (1 + WideBytes) + s.packed,
             <<B(3 * Low + 3)>> \o Length32(s.packed) \o Length32(s.size) \o <<Data(s, -1, s.packed)>>)

EncodePlain(e, s) == EncodeStringPlain(EncodeLength(e, s.size), s)

EncodeSmallString(encoded, s) == Bind(encoded, LAMBDA e :
    IF e.result # "ok" THEN e
    ELSE IF s.size >= SmallMax THEN Failed(e, "too large")
    ELSE IF CanEncodeInt(s) # None THEN EncodeInt(e, CanEncodeInt(s))
    ELSE IF s.size > 32 /\ EncodeLzf(e, s).result # "ratio" THEN EncodeLzf(e, s)
    ELSE EncodePlain(e, s))

EncodeAux(e, key, value) ==
    EncodeSmallString(EncodeSmallString(Put(e, 1 + key.size + value.size, <<Op("aux")>>), key), value)

EncodeDbNumber(e, n) == EncodeLength(Put(e, 2, <<Op("db")>>), n)

(* Only other programs write it.                                            *)
EncodeResizeDb(e, n) == EncodeLength(EncodeLength(Put(e, 1, <<Op("resize")>>), n), 0)

\* Mutant of EncodeExpireTimeS: the opcode is not counted.
EncodeExpireTimeSShort(e, s) == Put(e, WideBytes, <<Op("expire")>> \o LittleEndian(s, WideBytes))

EncodeExpireTimeS(e, s) == Put(e, 1 + WideBytes, <<Op("expire")>> \o LittleEndian(s, WideBytes))

(* A byte less than what is written is checked for.                         *)
EncodeExpireTimeMs(e, ms) == Put(e, LongBytes, <<Op("expire ms")>> \o LittleEndian(ms, LongBytes))

(* Only strings are written; other programs write other types.              *)
EncodeValueType(e, type) == Put(e, 1, <<Op(type)>>)

EncodeEof(e) == Put(e, 9, <<Op("eof"), Data(Checksum, 0, 8)>>)

-----------------------------------------------------------------------------
(***************************************************************************)
(* The snapshot: what is written is a sequence of slices of the write      *)
(* buffer of the channel; a slice that does not fit has the buffer flushed.*)
(***************************************************************************)
Slice(length, units) == [length |-> length, units |-> units]

Head128 == Encoder(HeadLength)

ChunkCount(size) == (size + ChunkMax - 1) \div ChunkMax

ChunkLength(size, i) == IF i * ChunkMax <= size THEN ChunkMax ELSE size - (i - 1) * ChunkMax

(* storage_db_snapshot_rdb_write_value_header                               *)
ValueHeader(entry) ==
    LET fits == HeadLength + entry.key.size < BufferLength
        e == Encoder(IF fits THEN HeadLength + entry.key.size ELSE HeadLength)
        expiry == IF entry.expiry # 0 THEN EncodeExpireTimeMs(e, entry.expiry) ELSE e
        head == EncodeLength(EncodeValueType(expiry, "string"), entry.key.size)
        key == <<Data(entry.key, 0, entry.key.size)>>
    IN  IF fits THEN <<Slice(e.size, head.units \o key)>> ELSE <<Slice(e.size, head.units), Slice(entry.key.size, key)>>

(* storage_db_snapshot_rdb_write_value_string: a value of one chunk may be  *)
(* a number.                                                                *)
ValueString(v) ==
    IF ChunkCount(v.size) = 1 /\ CanEncodeInt(v) # None
    THEN <<Slice(HeadLength, EncodeInt(Head128, CanEncodeInt(v)).units)>>
    ELSE <<Slice(HeadLength, EncodeLength(Head128, v.size).units)>>
         \o [i \in 1..ChunkCount(v.size) |-> Slice(ChunkLength(v.size, i), <<Data(v, i - 1, ChunkLength(v.size, i))>>)]

DatabaseNumber(n) == <<Slice(HeadLength, EncodeDbNumber(Head128, n).units)>>

(* The number of the database is written when it is not the one of the last *)
(* entry.                                                                   *)
EntrySlices(entries, i) ==
    (IF entries[i].db # (IF i = 1 THEN 0 ELSE entries[i - 1].db) THEN DatabaseNumber(entries[i].db) ELSE <<>>)
        \o ValueHeader(entries[i]) \o ValueString(entries[i].value)

SnapshotSlices(entries) ==
    <<Slice(HeadLength, EncodeHeader(Head128, Version(11)).units)>> \o DatabaseNumber(0)
        \o FlattenSeq([i \in DOMAIN entries |-> EntrySlices(entries, i)])
        \o <<Slice(HeadLength, EncodeEof(Head128).units)>>

(* storage_buffered_flush_write, through storage_write: an error or a short *)
(* write fails it and keeps the buffer.                                     *)
FlushWrite(fails) ==
    IF fails THEN UNCHANGED <<buffer, file>> ELSE file' = file \o buffer /\ buffer' = <<>>

MayFail(fails) == fails => scenario.faults > ghost.faults

MustFlush(slice) == Bytes(buffer) + slice.length > BufferLength

\* Mutant of ReleaseSlice: the slice takes the place of what is in the buffer.
ReleaseSliceFromStart(kept, slice) == slice.units

ReleaseSlice(kept, slice) == kept \o slice.units

WriteSlice ==
    /\ phase = "write" /\ pending # <<>>
    /\ \E fails \in BOOLEAN :
        /\ MayFail(fails) /\ (fails => MustFlush(Head(pending)))
        /\ IF fails
           THEN /\ phase' = "failed" /\ pending' = <<>>
                /\ UNCHANGED <<buffer, file>>
           ELSE /\ buffer' = ReleaseSlice(IF MustFlush(Head(pending)) THEN <<>> ELSE buffer, Head(pending))
                /\ file' = IF MustFlush(Head(pending)) THEN file \o buffer ELSE file
                /\ pending' = Tail(pending) /\ UNCHANGED phase
        /\ ghost' = [ghost EXCEPT !.faults = IF fails THEN @ + 1 ELSE @]
    /\ UNCHANGED <<encoder, load, store, scenario>>

(* storage_db_snapshot_failed: what is left is flushed and the file is      *)
(* deleted.                                                                 *)
SnapshotFailed ==
    /\ phase = "failed"
    /\ phase' = "end" /\ file' = <<>> /\ buffer' = <<>>
    /\ UNCHANGED <<pending, encoder, load, store, scenario, ghost>>

(* storage_db_snapshot_completed_successfully: the result of the last flush *)
(* is not looked at, and the file takes the place of the one before.        *)
SnapshotCompleted ==
    /\ phase = "write" /\ pending = <<>> /\ scenario.kind = "snapshot"
    /\ \E fails \in BOOLEAN :
        /\ MayFail(fails) /\ FlushWrite(fails)
        /\ ghost' = [ghost EXCEPT !.faults = IF fails THEN @ + 1 ELSE @, !.lastFlush = ~fails]
    /\ phase' = "load"
    /\ UNCHANGED <<pending, encoder, load, store, scenario>>

-----------------------------------------------------------------------------
(* The primitives called one after the other on a buffer of the caller.     *)
EncodeItem(e, item) ==
    CASE item.kind = "aux" -> EncodeAux(e, item.key, item.value)
      [] item.kind = "db" -> EncodeDbNumber(e, item.n)
      [] item.kind = "resize" -> EncodeResizeDb(e, item.n)
      [] item.kind = "expire" -> EncodeExpireTimeS(e, item.n)
      [] item.kind = "expire ms" -> EncodeExpireTimeMs(e, item.n)
      [] item.kind = "string" -> EncodeSmallString(EncodeKey(EncodeValueType(e, item.type), item.key), item.value)
      [] item.kind = "header" -> EncodeHeader(e, item.version)
      [] item.kind = "eof" -> EncodeEof(e)

WriteItem ==
    /\ phase = "write" /\ scenario.kind = "primitives" /\ ghost.at < Len(scenario.items) /\ encoder.result = "ok"
    /\ \E e \in {EncodeItem(encoder, scenario.items[ghost.at + 1])} :
        /\ encoder' = e
        /\ ghost' = [ghost EXCEPT !.at = @ + 1]
    /\ UNCHANGED <<phase, pending, buffer, file, load, store, scenario>>

WriteItems ==
    /\ phase = "write" /\ scenario.kind = "primitives"
    /\ ghost.at = Len(scenario.items) \/ encoder.result # "ok"
    /\ phase' = IF encoder.result = "ok" THEN "load" ELSE "end"
    /\ file' = encoder.units
    /\ UNCHANGED <<pending, buffer, encoder, load, store, scenario, ghost>>

-----------------------------------------------------------------------------
(***************************************************************************)
(* The load.  A read that finds less than it asks for ends the program.    *)
(***************************************************************************)
Fatal == [ok |-> FALSE]

(* How many units make up the next n bytes, -1 when the file ends before.   *)
RECURSIVE UnitsOf(_, _, _)
UnitsOf(units, k, n) ==
    IF n = 0 THEN k ELSE IF n < 0 \/ k = Len(units) THEN -1 ELSE UnitsOf(units, k + 1, n - SizeOf(units[k + 1]))

Read(units, n) == Bind(units, LAMBDA us : Bind(UnitsOf(us, 0, n), LAMBDA k :
    IF k < 0 THEN Fatal
    ELSE [ok |-> TRUE, got |-> SubSeq(us, 1, k), rest |-> SubSeq(us, k + 1, Len(us))]))

(* The number in the bytes that were read, the most significant one first.  *)
Number(us) ==
    LET first[k \in 0..Len(us)] == IF k = 0 THEN 0 ELSE first[k - 1] * Byte + us[k].byte IN first[Len(us)]

IsBytes(us) == \A i \in DOMAIN us : "byte" \in DOMAIN us[i]

Decoded(read, Value(_)) == Bind(read, LAMBDA r :
    IF r.ok /\ IsBytes(r.got) THEN [ok |-> TRUE, n |-> Value(r.got), rest |-> r.rest] ELSE Fatal)

\* Mutant of ReadLength: the two encodings of a long length are not told apart.
ReadLengthWideOnly(units) == Bind(Read(units, 1), LAMBDA first :
    IF ~(first.ok /\ IsBytes(first.got)) THEN Fatal
    ELSE LET b == first.got[1].byte IN
         CASE b \div Low = 0 -> [ok |-> TRUE, n |-> b % Low, rest |-> first.rest]
               [] b \div Low = 1 -> Decoded(Read(first.rest, 1), LAMBDA us : (b % Low) * Byte + us[1].byte)
               [] b \div Low = 2 -> Decoded(Read(first.rest, WideBytes), Number)
               [] b \div Low = 3 -> [ok |-> TRUE, n |-> 0, rest |-> first.rest])

(* module_redis_snapshot_load_read_length_encoded_int: an integer encoding  *)
(* is read as the length 0.                                                 *)
ReadLength(units) == Bind(Read(units, 1), LAMBDA first :
    IF ~(first.ok /\ IsBytes(first.got)) THEN Fatal
    ELSE LET b == first.got[1].byte IN
         CASE b \div Low = 0 -> [ok |-> TRUE, n |-> b % Low, rest |-> first.rest]
               [] b \div Low = 1 -> Decoded(Read(first.rest, 1), LAMBDA us : (b % Low) * Byte + us[1].byte)
               [] b \div Low = 2 /\ b % 2 = 0 -> Decoded(Read(first.rest, WideBytes), Number)
               [] b \div Low = 2 /\ b % 2 = 1 -> Decoded(Read(first.rest, LongBytes), Number)
               [] b \div Low = 3 -> [ok |-> TRUE, n |-> 0, rest |-> first.rest])

(* The string the pieces that were read make up.                            *)
Whole(us) ==
    IF us = <<>> THEN String("", 0, 0)
    ELSE IF \A i \in DOMAIN us : "data" \in DOMAIN us[i] /\ us[i].data = us[1].data /\ us[i].part = i - 1
         THEN us[1].data ELSE String("garbled", 0, 0)

ReadPlain(read) == Bind(read, LAMBDA length :
    IF ~length.ok THEN Fatal
    ELSE Bind(Read(length.rest, length.n), LAMBDA r :
             IF r.ok THEN [ok |-> TRUE, s |-> Whole(r.got), rest |-> r.rest] ELSE Fatal))

ReadInt(units, count) ==
    Bind(Decoded(Read(units, count), LAMBDA us : Signed(Number(Reverse(us)), Byte ^ count)), LAMBDA r :
        IF r.ok THEN [ok |-> TRUE, s |-> Printed(r.n), rest |-> r.rest] ELSE Fatal)

ReadLzf(units) ==
    Bind(ReadLength(units), LAMBDA packed :
    Bind(IF packed.ok THEN ReadLength(packed.rest) ELSE Fatal, LAMBDA whole :
    Bind(IF whole.ok THEN Read(whole.rest, packed.n) ELSE Fatal, LAMBDA r :
        IF r.ok /\ "data" \in DOMAIN r.got[1] /\ r.got[1].part = -1
        THEN [ok |-> TRUE, s |-> r.got[1].data, rest |-> r.rest] ELSE Fatal)))

(* module_redis_snapshot_load_read_string                                   *)
ReadString(units) == Bind(Read(units, 1), LAMBDA first :
    IF ~(first.ok /\ IsBytes(first.got)) THEN Fatal
    ELSE LET b == first.got[1].byte IN
         IF b \div Low < 3 THEN ReadPlain(ReadLength(units))
        ELSE CASE b % Low = 0 -> ReadInt(first.rest, 1)
               [] b % Low = 1 -> ReadInt(first.rest, 2)
               [] b % Low = 2 -> ReadInt(first.rest, WideBytes)
               [] b % Low = 3 -> ReadLzf(first.rest))

-----------------------------------------------------------------------------
LoadEnds(status) == [load EXCEPT !.status = status]

(* module_redis_snapshot_load: a file that cannot be opened is an error of  *)
(* the start of the program.                                                *)
LoadOpen ==
    /\ phase = "load" /\ load.status = "start"
    /\ \E fails \in BOOLEAN :
        /\ MayFail(fails)
        /\ load' = LoadEnds(IF fails THEN "not opened" ELSE "header")
        /\ ghost' = [ghost EXCEPT !.faults = IF fails THEN @ + 1 ELSE @]
    /\ UNCHANGED <<phase, pending, buffer, file, encoder, store, scenario>>

LoadHeader ==
    /\ phase = "load" /\ load.status = "header"
    /\ LET magic == Read(file, 5)
           version == Read(magic.rest, 4)
       IN  load' = IF magic.ok /\ magic.got[1] = Data(Magic, 0, 5) /\ version.ok
                      /\ version.got[1].data.zeros >= 2 /\ version.got[1].data.digits <= 11
                   THEN [load EXCEPT !.status = "opcodes", !.rest = version.rest] ELSE LoadEnds("fatal")
    /\ UNCHANGED <<phase, pending, buffer, file, encoder, store, scenario, ghost>>

NextOpcode(name) ==
    /\ phase = "load" /\ load.status = "opcodes" /\ load.rest # <<>>
    /\ Head(load.rest) = Op(name)

LoadAux ==
    /\ NextOpcode("aux")
    /\ \E key \in {ReadString(Tail(load.rest))} : \E value \in {IF key.ok THEN ReadString(key.rest) ELSE Fatal} :
        load' = IF value.ok THEN [load EXCEPT !.rest = value.rest] ELSE LoadEnds("fatal")
    /\ UNCHANGED <<phase, pending, buffer, file, encoder, store, scenario, ghost>>

LoadDbNumber ==
    /\ NextOpcode("db")
    /\ \E n \in {ReadLength(Tail(load.rest))} :
        load' = IF n.ok THEN [load EXCEPT !.rest = n.rest, !.db = n.n % Wide] ELSE LoadEnds("fatal")
    /\ UNCHANGED <<phase, pending, buffer, file, encoder, store, scenario, ghost>>

LoadResizeDb ==
    /\ NextOpcode("resize")
    /\ \E n \in {ReadLength(Tail(load.rest))} : \E x \in {IF n.ok THEN ReadLength(n.rest) ELSE Fatal} :
        load' = IF x.ok THEN [load EXCEPT !.rest = x.rest] ELSE LoadEnds("fatal")
    /\ UNCHANGED <<phase, pending, buffer, file, encoder, store, scenario, ghost>>

(* The seconds are multiplied as a 32 bit number.                           *)
LoadExpireTime ==
    /\ NextOpcode("expire") \/ NextOpcode("expire ms")
    /\ LET seconds == Head(load.rest) = Op("expire") IN
       \E n \in {Decoded(Read(Tail(load.rest), IF seconds THEN WideBytes ELSE LongBytes), LAMBDA us : Number(Reverse(us)))} :
        load' = IF n.ok THEN [load EXCEPT !.rest = n.rest, !.expiry = IF seconds THEN (n.n * 1000) % Wide ELSE n.n]
                ELSE LoadEnds("fatal")
    /\ UNCHANGED <<phase, pending, buffer, file, encoder, store, scenario, ghost>>

Live(expiry) == expiry = 0 \/ expiry > LoadTime

\* Mutant of NextExpiry: the expiry stays for the values that follow.
NextExpiryKept(l) == l.expiry

NextExpiry(l) == 0

(* An empty value has no chunk, and the first one is written to all the     *)
(* same; a value that cannot be allocated or set ends the program.          *)
LoadString ==
    /\ NextOpcode("string")
    /\ \E key \in {ReadString(Tail(load.rest))} : \E value \in {IF key.ok THEN ReadString(key.rest) ELSE Fatal} :
       \E fails \in BOOLEAN :
        /\ MayFail(fails) /\ (fails => value.ok /\ Live(load.expiry))
        /\ ghost' = [ghost EXCEPT !.faults = IF fails THEN @ + 1 ELSE @]
        /\ IF ~value.ok \/ fails THEN load' = LoadEnds("fatal") /\ UNCHANGED store
           ELSE IF Live(load.expiry) /\ value.s.size = 0 THEN load' = LoadEnds("undefined") /\ UNCHANGED store
           ELSE /\ load' = [load EXCEPT !.rest = value.rest, !.expiry = NextExpiry(load)]
                /\ store' = IF Live(load.expiry)
                            THEN {x \in store : x.db # load.db \/ x.key # key.s}
                                 \cup {[db |-> load.db, key |-> key.s, value |-> value.s, expiry |-> load.expiry]}
                            ELSE store
    /\ UNCHANGED <<phase, pending, buffer, file, encoder, scenario>>

(* The end of the file, whose checksum is read only, or an unknown opcode.  *)
LoadOther ==
    /\ phase = "load" /\ load.status = "opcodes"
    /\ IF load.rest = <<>> THEN load' = LoadEnds("fatal")
       ELSE /\ \A name \in {"aux", "db", "resize", "expire", "expire ms", "string"} : ~NextOpcode(name)
            /\ load' = IF Head(load.rest) = Op("eof") /\ Read(Tail(load.rest), 8).ok THEN LoadEnds("loaded")
                       ELSE LoadEnds("fatal")
    /\ UNCHANGED <<phase, pending, buffer, file, encoder, store, scenario, ghost>>

Ended == phase = "end" \/ load.status \in {"not opened", "loaded", "fatal", "undefined"}

Idle == Ended /\ UNCHANGED vars

InitOf(scenarios) == \E s \in scenarios :
    /\ phase = "write"
    /\ pending = IF s.kind = "snapshot" THEN SnapshotSlices(s.items) ELSE <<>>
    /\ buffer = <<>> /\ file = <<>> /\ store = {}
    /\ encoder = Encoder(s.size)
    /\ load = [status |-> "start", rest |-> <<>>, db |-> 0, expiry |-> 0]
    /\ scenario = s
    /\ ghost = [faults |-> 0, at |-> 0, lastFlush |-> TRUE]

Init == InitOf(Scenarios)

Write == WriteSlice \/ SnapshotFailed \/ SnapshotCompleted \/ WriteItem \/ WriteItems

Load ==
    \/ LoadOpen \/ LoadHeader \/ LoadAux \/ LoadDbNumber \/ LoadResizeDb \/ LoadExpireTime
    \/ LoadString \/ LoadOther

Next == Write \/ Load \/ Idle

Spec == Init /\ [][Next]_vars

-----------------------------------------------------------------------------
(***************************************************************************)
(* Properties                                                              *)
(***************************************************************************)
TypeOK ==
    /\ phase \in {"write", "failed", "load", "end"}
    /\ Bytes(buffer) <= BufferLength
    /\ load.status \in {"start", "not opened", "header", "opcodes", "loaded", "fatal", "undefined"}
    /\ encoder.result \in {"ok", "overflow", "invalid", "too large", "not compressed", "ratio"}

(* What the scenario wrote, as entries: an expiry is of the value after it. *)
ExpiryBefore(i) ==
    LET x == IF i = 1 THEN [kind |-> "header"] ELSE scenario.items[i - 1] IN
    CASE x.kind = "expire" -> [ms |-> x.n * 1000, wraps |-> x.n * 1000 >= Wide]
      [] x.kind = "expire ms" -> [ms |-> x.n, wraps |-> FALSE]
      [] OTHER -> [ms |-> 0, wraps |-> FALSE]

DbBefore(i) ==
    LET before == {j \in 1..(i - 1) : scenario.items[j].kind = "db"} IN
    IF before = {} THEN 0 ELSE scenario.items[CHOOSE j \in before : \A k \in before : k <= j].n

Written ==
    IF scenario.kind = "snapshot"
    THEN {[db |-> e.db, key |-> e.key, value |-> e.value, expiry |-> [ms |-> e.expiry, wraps |-> FALSE]] :
             e \in {scenario.items[i] : i \in DOMAIN scenario.items}}
    ELSE {[db |-> DbBefore(i), key |-> scenario.items[i].key, value |-> scenario.items[i].value, expiry |-> ExpiryBefore(i)] :
             i \in {j \in DOMAIN scenario.items : scenario.items[j].kind = "string"}}

(* A value that is read back as another one: a numeral that is not written  *)
(* the way the number is printed, or one so large that its 64 bits are      *)
(* those of a small negative number.                                        *)
Altered(v) ==
    /\ v.digits # None
    /\ \/ v.lead > 0 \/ v.zeros > 0 \/ v.sign = "+" \/ (v.sign = "-" /\ v.digits = 0)
       \/ v.digits >= Long - Wide \div 2
    /\ CanEncodeInt(v) # None

(* A snapshot that is written and loaded again: every key is there with its *)
(* value, and only the numerals above are altered.                          *)
ValuesKept ==
    load.status = "loaded" =>
        /\ \A w \in Written : Live(w.expiry.ms) =>
            \/ w.expiry.wraps
            \/ \E x \in store : x.db = w.db /\ x.key = w.key /\ (x.value = w.value <=> ~Altered(w.value))
        /\ \A x \in store : \E w \in Written : x.db = w.db /\ x.key = w.key

(* The expiry of a key is loaded with that key and no other one; one in     *)
(* seconds is kept only while its milliseconds fit in 32 bits.              *)
ExpiriesKept ==
    load.status = "loaded" => \A x \in store : \A w \in Written :
        (x.db = w.db /\ x.key = w.key) => (x.expiry = w.expiry.ms <=> ~w.expiry.wraps)

(* storage_db_snapshot_completed_successfully reports a snapshot only when  *)
(* all of it is in the file, unless it was the last flush that failed.      *)
CompletedIsWritten ==
    (scenario.kind = "snapshot" /\ phase = "load" /\ ghost.lastFlush) =>
        file = FlattenSeq([i \in DOMAIN SnapshotSlices(scenario.items) |-> SnapshotSlices(scenario.items)[i].units])

EmptyValue == \E w \in Written : w.value.size = 0 /\ Live(w.expiry.ms)

Foreign == scenario.kind = "primitives" /\ \E i \in DOMAIN scenario.items :
    scenario.items[i].kind = "string" /\ scenario.items[i].type # "string"

BadVersion == scenario.kind = "primitives" /\ scenario.items[1].version.digits > 11

(* A file that is complete is loaded, unless it has an empty value, another *)
(* type of value or a later version, or a fault stops the load; one that is *)
(* not complete never is.                                                   *)
LoadsWhatIsComplete ==
    /\ load.status = "fatal" => ghost.faults > 0 \/ Foreign \/ BadVersion
    /\ load.status = "undefined" => EmptyValue
    /\ load.status = "loaded" => ghost.lastFlush /\ ~EmptyValue

(* The primitives never write past the end of the caller's buffer, but for  *)
(* an expiry in milliseconds when exactly its eight bytes are left.         *)
WithinBuffer ==
    encoder.used > encoder.size =>
        LET last == IF encoder.result = "ok" THEN ghost.at ELSE ghost.at - 1
        IN  scenario.items[last].kind = "expire ms" /\ encoder.used = encoder.size + 1
=============================================================================
