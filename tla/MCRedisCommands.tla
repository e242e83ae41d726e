--------------------------- MODULE MCRedisCommands ---------------------------
(* Two clients on two keys that share a chunk and one that does not.        *)
EXTENDS RedisCommands

MCKeys == {"a", "b", "x"}

Db(a, b, x) == [k \in MCKeys |-> CASE k = "a" -> a [] k = "b" -> b [] k = "x" -> x]

Scenario(db, commands, failures, expirations, cmds) ==
    [db |-> db, bound |-> [commands |-> commands, failures |-> failures,
                           expirations |-> expirations, cmds |-> cmds]]

(* Every command alone on the same database, with a failure and an expiry;  *)
(* then families of commands that meet.                                     *)
MCScenarios ==
    {Scenario(Db("set", "no", None), 2, 1, 1, {cmd}) : cmd \in
        {"set", "setex", "psetex", "mset", "setnx", "getset", "getdel", "getex", "incr",
         "incrby", "decr", "decrby", "incrbyfloat", "append", "setrange", "expire", "expireat", "pexpire", "pexpireat",
         "persist", "expiretime", "pexpiretime", "touch", "rename", "renamenx", "msetnx",
         "copy", "get", "getrange", "substr", "lcs", "mget", "strlen", "exists", "ttl",
         "pttl", "del", "unlink"}}
    \cup {Scenario(Db("past", "set", "no"), 2, 0, 0, cmds) : cmds \in
        {{"touch", "get"}, {"copy", "del"}, {"rename", "msetnx"}, {"append", "getdel"},
         {"mget", "getset"}, {"renamenx", "setnx"}}}
    \cup {Scenario(Db("set", None, "no"), 2, 0, 0, cmds) : cmds \in
        {{"expire"}, {"expireat"}, {"persist", "touch"}}}
    \cup {Scenario(Db("no", "set", None), 3, 0, 0, cmds) : cmds \in
        {{"get", "del", "append"}, {"setnx", "rename"}, {"incr", "persist", "getset"}}}

MCInit == InitOf(MCScenarios)
=============================================================================
