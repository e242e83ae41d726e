--------------------------- MODULE MCRedisTables ---------------------------
(* A small table of commands, and the length of the words of the requests.  *)
EXTENDS Integers, Sequences, TLC

CONSTANT None

WordLen ==
    [w \in {"ping", "get", "set", "mset", "config", "auth", "hello", "select", "quit", "shutdown", "incr", "nope", "off",
            "k", "v", "longkey", "val", "ex", "px", "keepttl", "1", "2", "big", "word", "secret", "wrong", "user",
            "setname", "save", "nosave", "huge", ""} |->
        CASE w = "" -> 0
          [] w \in {"k", "1", "2", "ex", "v"} -> 1
          [] w = "longkey" -> 4
          [] w = "val" -> 3
          [] w = "huge" -> 8
          [] OTHER -> 2]

Arg(name, type) ==
    [name |-> name, type |-> type, positional |-> TRUE, optional |-> FALSE, multi |-> FALSE, token |-> None,
     elements |-> <<>>, oneof |-> {}, repeats |-> FALSE]
Optional(arg) == [arg EXCEPT !.optional = TRUE]
Multi(arg) == [arg EXCEPT !.multi = TRUE]
Token(arg, t, oneof) == [arg EXCEPT !.optional = TRUE, !.positional = FALSE, !.token = t, !.oneof = oneof]
Block(name, elements) == [Arg(name, "block") EXCEPT !.elements = elements]
NoTokens == [w \in {} |-> None]

Command(name, args, required, tokens) ==
    [name |-> name, args |-> args, required |-> required, tokens |-> tokens,
     auth |-> TRUE, container |-> FALSE, disabled |-> FALSE]
Open(info) == [info EXCEPT !.auth = FALSE]

SetTokens == "ex" :> Token(Arg("ex", "integer"), "ex", {"px", "keepttl"})
          @@ "px" :> Token(Arg("px", "integer"), "px", {"ex", "keepttl"})
          @@ "keepttl" :> Token(Arg("keepttl", "bool"), "keepttl", {"ex", "px"})
HelloAuth == Token(Block("auth", <<Arg("username", "short"), Arg("password", "short")>>), "auth", {})
HelloName == Token(Arg("clientname", "short"), "setname", {})
ShutdownTokens == "save" :> Token(Arg("save", "bool"), "save", {"nosave"})
               @@ "nosave" :> Token(Arg("nosave", "bool"), "nosave", {"save"})

Commands ==
       <<"ping">> :> Open(Command("ping", <<Optional(Arg("message", "long"))>>, 0, NoTokens))
    @@ <<"get">> :> Command("get", <<Arg("key", "key")>>, 1, NoTokens)
    @@ <<"set">> :> Command("set", <<Arg("key", "key"), Arg("value", "long"), Token(Arg("expiry", "oneof"), None, {})>>, 2, SetTokens)
    @@ <<"mset">> :> Command("mset", <<Multi(Block("kv", <<Arg("key", "key"), Arg("value", "long")>>))>>, 2, NoTokens)
    @@ <<"incr">> :> Command("incr", <<Arg("key", "key"), Arg("by", "integer")>>, 2, NoTokens)
    @@ <<"config">> :> [Command("config", <<>>, 0, NoTokens) EXCEPT !.container = TRUE]
    @@ <<"config", "get">> :> Command("config get", <<Multi(Arg("parameter", "pattern"))>>, 1, NoTokens)
    @@ <<"off">> :> [Command("off", <<>>, 0, NoTokens) EXCEPT !.disabled = TRUE]
    @@ <<"auth">> :> Open(Command("auth", <<Arg("password", "short"), Optional(Arg("username", "short"))>>, 1, NoTokens))
    @@ <<"hello">> :> Open(Command("hello", <<Optional(Arg("protover", "integer")), HelloAuth, HelloName>>, 0,
                                   "auth" :> HelloAuth @@ "setname" :> HelloName))
    @@ <<"select">> :> Command("select", <<Arg("index", "integer")>>, 1, NoTokens)
    @@ <<"quit">> :> Open(Command("quit", <<>>, 0, NoTokens))
    @@ <<"shutdown">> :> Command("shutdown", <<Token(Arg("how", "oneof"), None, {})>>, 0, ShutdownTokens)
=============================================================================
