------------------------- MODULE MCRedisConnection -------------------------
(* Instances of module RedisConnection: scripts of requests. *)
EXTENDS RedisConnection, TLC

Scenario(requests) ==
    [requests |-> requests, auth |-> FALSE, strict |-> TRUE, faults |-> {}, cuts |-> 2, inline |-> FALSE, complete |-> TRUE,
     container |-> FALSE, repeats |-> FALSE]
Secured(s) == [s EXCEPT !.auth = TRUE]

Plain(words) == Scenario([i \in DOMAIN words |-> Request(words[i])])

MCScenarios ==
    { Plain(<< <<"set", "k", "v">>, <<"get", "longkey">> >>),
      Plain(<< <<"get", "k">>, <<"set", "k", "", "ex", "1">> >>),
      Plain(<< <<"mset", "k", "v", "longkey", "v">>, <<"nope">> >>),
      Plain(<< <<"mset", "k", "v", "k">>, <<"get", "">> >>),
      Plain(<< <<"config", "get", "k", "k">>, <<"off">> >>),
      Plain(<< <<"set", "k", "v", "px", "1", "ex", "2">>, <<"get">> >>),
      Plain(<< <<"set", "k", "v", "ex", "1", "ex", "1">> >>),
      Plain(<< <<"set", "k", "v", "ex">>, <<"get", "k", "k">> >>),
      Plain(<< <<"incr", "k", "big">>, <<"incr", "k", "1">>, <<"incr", "k", "word">> >>),
      Plain(<< <<"incr", "k", "word">>, <<"incr", "k", "1">> >>),
      Plain(<< <<"set", "k", "longkey">>, <<"set", "longkey", "v">> >>),
      Plain(<< <<"mset", "k", "v", "k", "v", "val", "longkey">> >>),
      Plain(<< <<"huge">> >>),
      Plain(<< <<"select", "1">>, <<"get", "k">>, <<"select", "2">> >>),
      Plain(<< <<"ping">>, <<"quit">>, <<"ping">> >>),
      Plain(<< <<"shutdown", "save">> >>),
      Plain(<< <<"shutdown", "nosave">> >>),
      Plain(<< <<"mset", "k", "v", "k", "v", "k", "v", "k", "v">>, <<"shutdown">> >>),
      [Plain(<< <<"config">> >>) EXCEPT !.container = TRUE],
      [Plain(<< <<"set", "k", "v", "ex", "1", "ex", "2">> >>) EXCEPT !.strict = FALSE],
      [Plain(<< <<"hello", "2", "setname", "k", "setname", "v">>, <<"hello", "2">> >>) EXCEPT !.strict = FALSE, !.repeats = TRUE],
      [Plain(<< <<"hello", "2", "setname", "k", "setname", "v">> >>) EXCEPT !.repeats = TRUE],
      [Plain(<< <<"hello", "2", "setname", "k">>, <<"hello", "2", "setname", "v">> >>) EXCEPT !.repeats = TRUE],
      Secured(Plain(<< <<"get", "k">>, <<"auth", "secret">> >>)),
      Secured(Plain(<< <<"auth", "secret">>, <<"get", "k">>, <<"auth", "secret">> >>)),
      Secured(Plain(<< <<"auth", "user", "secret">>, <<"hello">>, <<"get", "k">> >>)),
      Secured(Plain(<< <<"auth", "wrong">>, <<"get", "k">> >>)),
      Secured(Plain(<< <<"hello", "2", "auth", "user", "secret">>, <<"get", "k">> >>)),
      Secured(Plain(<< <<"hello", "auth", "user", "secret">>, <<"get", "k">> >>)),
      Secured(Plain(<< <<"hello", "2", "auth", "user">>, <<"get", "k">> >>)),
      Secured(Plain(<< <<"hello", "2">>, <<"get", "k">> >>)),
      [Scenario(<<BytesOf("ping") \o <<Line>>, Request(<<"ping", "v">>)>>) EXCEPT !.inline = TRUE],
      [Scenario(<<Request(<<"get", "k">>), <<ArrayOf(0), Line>> >>) EXCEPT !.complete = FALSE],
      [Scenario(<<Request(<<"get", "k">>), <<ArrayOf(1), Line, BlobOf(-1), Line>> >>) EXCEPT !.complete = FALSE],
      [Scenario(<<Request(<<"nope">>), <<ArrayOf(1), Line, BlobOf(1), Line, Byte("k", 1), LF, CR>> >>) EXCEPT !.complete = FALSE],
      [Scenario(<<Request(<<"ping">>), <<ArrayOf(2), Line>> \o Blob("get") >>) EXCEPT !.complete = FALSE],
      [Plain(<< <<"get", "k">>, <<"set", "k", "v">> >>) EXCEPT !.faults = {"alloc"}],
      [Plain(<< <<"get", "k">>, <<"quit">> >>) EXCEPT !.faults = {"send"}],
      [Plain(<< <<"shutdown">> >>) EXCEPT !.faults = {"send"}] }

MCInit == InitOf(MCScenarios)
=============================================================================
