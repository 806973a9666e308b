----------------------------- MODULE MCRedisServer -----------------------------
(* Small instances of RedisServer: families of commands on a few keys. *)
EXTENDS RedisServerProperties

C(cmd, k, v, f) == Command(cmd, k, v, f, 0)
T(cmd, k, v, f, t) == Command(cmd, k, v, f, t)
a == <<0, "a">>
b == <<0, "b">>
d == <<0, "d">>
MCPatternKey == [e \in {1, 2, 101} |-> IF e = 1 THEN "b" ELSE "d"]

\* Values 3..11 are the digits 1..9, 12 and 13 other characters.
StringRequests ==
  {T("set", <<a>>, <<12>>, {}, 0), T("set", <<a>>, <<10>>, {"NX", "PX"}, 1), T("set", <<a>>, <<3>>, {"XX"}, 0),
   T("setex", <<b>>, <<12>>, {}, 1), C("setnx", <<b>>, <<10>>, {}), C("getset", <<b>>, <<3>>, {}),
   T("setrange", <<a>>, <<13>>, {}, 1), C("append", <<a>>, <<3>>, {}),
   C("mset", <<a, b>>, <<3, 12>>, {}), C("msetnx", <<a, b>>, <<3, 10>>, {}),
   C("incrby", <<a>>, <<6>>, {}), C("decrby", <<a>>, <<9>>, {}), C("incrbyfloat", <<a>>, <<60>>, {}),
   C("get", <<a>>, <<>>, {}), C("mget", <<a, b>>, <<>>, {}), C("strlen", <<b>>, <<>>, {}),
   C("getrange", <<a>>, <<-1, 0>>, {})}
BitRequests ==
  {C("set", <<a>>, <<12>>, {}), C("setbit", <<a>>, <<1, 1>>, {}), C("setbit", <<a>>, <<6, 1>>, {}),
   C("getbit", <<a>>, <<2>>, {}), C("bitcount", <<a>>, <<0, -1>>, {}),
   C("bitpos", <<a>>, <<0, 0, -1>>, {}), C("bitop", <<b, a, d>>, <<>>, {"XOR"}), C("bitop", <<b, a>>, <<>>, {"NOT"}),

   C("bitfield", <<a>>, <<2, 3, 4>>, {"SET", "SIGNED", "SAT"}), C("bitfield", <<a>>, <<2, 3, 4>>, {"INCRBY", "FAIL"})}
KeyRequests ==
  {C("set", <<a>>, <<12>>, {}), C("rpush", <<b>>, <<1>>, {}), C("rename", <<a, b>>, <<>>, {}),
   C("renamenx", <<b, a>>, <<>>, {}), C("del", <<a, b>>, <<>>, {}), C("exists", <<a, b>>, <<>>, {}),
   T("pexpire", <<a>>, <<>>, {}, 1), T("pexpireat", <<b>>, <<>>, {}, 1), C("persist", <<a>>, <<>>, {}),
   C("ttl", <<a>>, <<>>, {}), C("type", <<b>>, <<>>, {}), C("touch", <<a>>, <<>>, {}), C("randomkey", <<>>, <<0>>, {}),
   C("keys", <<>>, <<0>>, {}), C("dbsize", <<>>, <<0>>, {}), C("flushdb", <<>>, <<0>>, {}), C("flushall", <<>>, <<>>, {}),
   C("move", <<a>>, <<1>>, {})}
ListRequests ==
  {C("rpush", <<a>>, <<1, 2>>, {}), C("lpush", <<a>>, <<2>>, {}), C("rpushx", <<b>>, <<1>>, {}),
   C("linsert", <<a>>, <<2, 1>>, {}), C("lset", <<a>>, <<-1, 1>>, {}), C("lpop", <<a>>, <<>>, {}), C("rpop", <<b>>, <<>>, {}),
   C("ltrim", <<a>>, <<1, -1>>, {}), C("lrem", <<a>>, <<-1, 2>>, {}), C("rpoplpush", <<a, b>>, <<>>, {}),
   C("rpoplpush", <<a, a>>, <<>>, {}), C("llen", <<a>>, <<>>, {}), C("lindex", <<a>>, <<1>>, {}), C("lrange", <<a>>, <<0, -1>>, {})}
BlockingRequests ==
  {C("rpush", <<a>>, <<1, 2>>, {}), C("set", <<b>>, <<12>>, {}), C("rename", <<b, a>>, <<>>, {}), C("del", <<a, b>>, <<>>, {}),
   C("blpop", <<a, b>>, <<>>, {}), C("brpop", <<b>>, <<>>, {}), C("sort", <<a, b>>, <<0, -1>>, {}), C("brpoplpush", <<a, b>>, <<>>, {}), C("brpoplpush", <<b, a>>, <<>>, {})}
SetRequests ==
  {C("sadd", <<a>>, <<1, 2>>, {}), C("sadd", <<b>>, <<101>>, {}), C("sadd", <<b>>, <<2, 3>>, {}), C("srem", <<a>>, <<1, 2>>, {}),
   C("smove", <<a, b>>, <<1>>, {}), C("spop", <<a>>, <<>>, {}), C("spop", <<b>>, <<2>>, {}), C("spop", <<a>>, <<5>>, {}),
   C("sinterstore", <<a, a, b>>, <<>>, {}), C("sunionstore", <<a, a, b>>, <<>>, {}), C("sdiffstore", <<b, b, a>>, <<>>, {}),
   C("sinter", <<a, b>>, <<>>, {}), C("sunion", <<a, b>>, <<>>, {}), C("sdiff", <<a, b>>, <<>>, {}),
   C("srandmember", <<a>>, <<-2>>, {}), C("sismember", <<a>>, <<101>>, {}), C("scard", <<b>>, <<>>, {})}
HashRequests ==
  {C("hset", <<a>>, <<1, 2>>, {}), C("hset", <<a>>, <<2, 201>>, {}), C("hsetnx", <<a>>, <<2, 1>>, {}),
   C("hmset", <<a>>, <<1, 1, 3, 1>>, {}), C("hincrby", <<a>>, <<1, 2>>, {}), C("hincrbyfloat", <<a>>, <<3, -2>>, {}),
   C("hdel", <<a>>, <<1, 2>>, {}), C("hdel", <<a>>, <<3>>, {}), C("hmget", <<a>>, <<1, 2>>, {}), C("hlen", <<a>>, <<>>, {}),
   C("hexists", <<a>>, <<2>>, {}), C("hgetall", <<a>>, <<>>, {}), C("set", <<a>>, <<12>>, {}),
   C("incrbyfloat", <<b>>, <<6>>, {})}
ZSetRequests ==
  {C("zadd", <<a>>, <<1, 1, 1, 2>>, {}), C("zadd", <<a>>, <<2, 1>>, {"XX", "CH"}), C("zadd", <<b>>, <<Inf, 1, 0, 201>>, {"NX"}),
   C("zincrby", <<b>>, <<-Inf, 1>>, {}), C("zincrby", <<a>>, <<1, 3>>, {}), C("zrem", <<a>>, <<1, 2>>, {}),
   C("zremrangebyrank", <<a>>, <<-1, -1>>, {}), C("zremrangebyscore", <<a>>, <<1, 2>>, {"minex"}),
   C("zremrangebylex", <<b>>, <<LexMin, 3>>, {"maxex"}), C("zunionstore", <<b, a, b>>, <<1, 1>>, {}),
   C("zinterstore", <<a, a, b>>, <<2, 0>>, {"MAX"}), C("zrange", <<a>>, <<0, -1>>, {"REV", "WITHSCORES"}),
   C("zrangebyscore", <<a>>, <<0, 2, 1, 1>>, {}), C("zrangebylex", <<a>>, <<0, LexMax, 0, -1>>, {"REV"}),
   C("zcount", <<a>>, <<1, 2>>, {}), C("zlexcount", <<a>>, <<1, 2>>, {}), C("zcard", <<a>>, <<>>, {}),
   C("zscore", <<a>>, <<1>>, {}), C("zrank", <<a>>, <<1>>, {"REV"})}
SortRequests ==
  {C("rpush", <<a>>, <<2, 1>>, {}), C("sadd", <<a>>, <<1, 2>>, {}), C("zadd", <<a>>, <<1, 2>>, {}), C("set", <<b>>, <<6>>, {}),
   C("set", <<b>>, <<12>>, {}), C("sort", <<a>>, <<0, -1>>, {}), C("sort", <<a, d>>, <<0, -1>>, {"DESC"}),
   C("sort", <<a, d>>, <<0, -1>>, {"NOSORT"}), C("sort", <<a, d>>, <<1, 1>>, {"BY"}), C("sort", <<d, a>>, <<5, 1>>, {"ALPHA"}),
   C("del", <<a>>, <<>>, {})}
TransactionRequests ==
  {C("incrby", <<a>>, <<11>>, {}), C("get", <<a>>, <<>>, {}), C("spop", <<b>>, <<>>, {}), C("sadd", <<b>>, <<1, 2>>, {}),
   C("blpop", <<b>>, <<>>, {}), C("flushdb", <<>>, <<0>>, {})}
WatchRequests ==
  {C("set", <<a>>, <<12>>, {}), T("pexpire", <<a>>, <<>>, {}, 1), C("persist", <<a>>, <<>>, {}),
   C("move", <<a>>, <<1>>, {}), C("rename", <<a, b>>, <<>>, {}), C("flushdb", <<>>, <<0>>, {})}
EvictRequests ==
  {C("set", <<a>>, <<12>>, {}), C("rpush", <<b>>, <<1, 2>>, {}), C("sadd", <<d>>, <<1, 2>>, {}), C("get", <<a>>, <<>>, {})}

MCRequests ==
  [strings |-> StringRequests, bits |-> BitRequests, keys |-> KeyRequests, lists |-> ListRequests,
   blocking |-> BlockingRequests, sets |-> SetRequests, hashes |-> HashRequests, zsets |-> ZSetRequests,
   sort |-> SortRequests, transactions |-> TransactionRequests, watch |-> WatchRequests, evict |-> EvictRequests]

Families == DOMAIN MCRequests
MCFeatures ==
  [f \in Families |-> CASE f \in {"strings", "keys"} -> {"time"}
                        [] f = "transactions" -> {"multi", "misconf"}
                        [] f = "watch" -> {"multi"}
                        [] f = "evict" -> {"evict"}
                        [] f = "blocking" -> {"slaveof"}
                        [] OTHER -> {}]
CONSTANTS c1, c2, c3
MCActors ==
  [f \in Families |-> CASE f = "blocking" -> {c1, c2, c3} [] f \in {"transactions", "watch"} -> {c1, c2} [] OTHER -> {c1}]
=============================================================================
