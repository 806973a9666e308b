---------------------------- MODULE RedisCommands ----------------------------
(***************************************************************************)
(* The command table of Redis and call() (server.c): which operator runs a *)
(* command, and what is propagated to the append only file and the slaves  *)
(* afterwards.  A command is [cmd, k, a, f, ttl]: name, keys, integer      *)
(* arguments, flags and a time.                                            *)
(***************************************************************************)
EXTENDS RedisBits, RedisSort

\* Commands that need memory (CMD_DENYOOM).
DenyOOM == {"set", "setnx", "setex", "getset", "setrange", "append", "incrby", "decrby",
            "incrbyfloat", "mset", "msetnx", "setbit", "bitop", "bitfield", "lpush", "rpush",
            "lpushx", "rpushx", "linsert", "lset", "rpoplpush", "brpoplpush", "sadd",
            "sinterstore", "sunionstore", "sdiffstore", "hset", "hsetnx", "hmset", "hincrby",
            "hincrbyfloat", "zadd", "zincrby", "zunionstore", "zinterstore", "sort"}

Op(c) == [op   |-> IF "INCRBY" \in c.f THEN "INCRBY" ELSE IF "SET" \in c.f THEN "SET" ELSE "GET",
          sign |-> "SIGNED" \in c.f,
          ow   |-> IF "SAT" \in c.f THEN "SAT" ELSE IF "FAIL" \in c.f THEN "FAIL" ELSE "WRAP",
          off  |-> c.a[1], n |-> c.a[2], bits |-> c.a[3]]
Where(c) == IF "AFTER" \in c.f THEN "tail" ELSE "head"

StringRun(x, c) ==
  CASE c.cmd = "set"         -> setCommand(x, c)
    [] c.cmd = "setnx"       -> setnxCommand(x, c)
    [] c.cmd = "setex"       -> setexCommand(x, c)
    [] c.cmd = "get"         -> getGenericCommand(x, c.k[1])
    [] c.cmd = "getset"      -> getsetCommand(x, c)
    [] c.cmd = "setrange"    -> setrangeCommand(x, c.k[1], c.ttl, c.a)
    [] c.cmd = "getrange"    -> getrangeCommand(x, c.k[1], c.a[1], c.a[2])
    [] c.cmd = "strlen"      -> strlenCommand(x, c.k[1])
    [] c.cmd = "mget"        -> mgetCommand(x, c.k)
    [] c.cmd = "mset"        -> msetGenericCommand(x, c.k, c.a, FALSE)
    [] c.cmd = "msetnx"      -> msetGenericCommand(x, c.k, c.a, TRUE)
    [] c.cmd = "incrby"      -> incrbyCommand(x, c.k[1], c.a[1])
    [] c.cmd = "decrby"      -> decrbyCommand(x, c.k[1], c.a[1])
    [] c.cmd = "incrbyfloat" -> incrbyfloatCommand(x, c.k[1], c.a[1])
    [] c.cmd = "append"      -> appendCommand(x, c.k[1], c.a)
BitRun(x, c) ==
  CASE c.cmd = "setbit"      -> setbitCommand(x, c.k[1], c.a[1], c.a[2])
    [] c.cmd = "getbit"      -> getbitCommand(x, c.k[1], c.a[1])
    [] c.cmd = "bitop"       -> bitopCommand(x, CHOOSE op \in c.f : TRUE, c.k[1], Tail(c.k))
    [] c.cmd = "bitcount"    -> bitcountCommand(x, c.k[1], c.a[1], c.a[2])
    [] c.cmd = "bitpos"      -> bitposCommand(x, c.k[1], c.a[1], c.a[2], c.a[3], "END" \in c.f)
    [] c.cmd = "bitfield"    -> bitfieldCommand(x, c.k[1], <<Op(c)>>)
KeyRun(x, c) ==
  CASE c.cmd = "del"         -> delCommand(x, c.k)
    [] c.cmd = "exists"      -> existsCommand(x, c.k)
    [] c.cmd = "rename"      -> renameGenericCommand(x, c.k[1], c.k[2], FALSE)
    [] c.cmd = "renamenx"    -> renameGenericCommand(x, c.k[1], c.k[2], TRUE)
    [] c.cmd = "move"        -> moveCommand(x, c.k[1], c.a[1])
    [] c.cmd = "pexpire"     -> expireGenericCommand(x, c.k[1], x.now + c.ttl)
    [] c.cmd = "pexpireat"   -> expireGenericCommand(x, c.k[1], c.ttl)
    [] c.cmd = "ttl"         -> ttlGenericCommand(x, c.k[1])
    [] c.cmd = "persist"     -> persistCommand(x, c.k[1])
    [] c.cmd = "type"        -> typeCommand(x)
    [] c.cmd = "touch"       -> touchCommand(x, c.k)
    [] c.cmd = "randomkey"   -> dbRandomKey(x, c.a[1])
    [] c.cmd = "keys"        -> keysCommand(x, c.a[1])
    [] c.cmd = "dbsize"      -> dbsizeCommand(x, c.a[1])
    [] c.cmd = "flushdb"     -> flushdbCommand(x, c.a[1])
    [] c.cmd = "flushall"    -> flushallCommand(x)
ListRun(x, c, client, multi) ==
  CASE c.cmd = "lpush"       -> pushGenericCommand(x, c.k[1], c.a, "head")
    [] c.cmd = "rpush"       -> pushGenericCommand(x, c.k[1], c.a, "tail")
    [] c.cmd = "lpushx"      -> pushxGenericCommand(x, c.k[1], c.a[1], "head")
    [] c.cmd = "rpushx"      -> pushxGenericCommand(x, c.k[1], c.a[1], "tail")
    [] c.cmd = "linsert"     -> linsertCommand(x, c.k[1], Where(c), c.a[1], c.a[2])
    [] c.cmd = "llen"        -> llenCommand(x, c.k[1])
    [] c.cmd = "lindex"      -> lindexCommand(x, c.k[1], c.a[1])
    [] c.cmd = "lset"        -> lsetCommand(x, c.k[1], c.a[1], c.a[2])
    [] c.cmd = "lpop"        -> popGenericCommand(x, c.k[1], "head")
    [] c.cmd = "rpop"        -> popGenericCommand(x, c.k[1], "tail")
    [] c.cmd = "lrange"      -> lrangeCommand(x, c.k[1], c.a[1], c.a[2])
    [] c.cmd = "ltrim"       -> ltrimCommand(x, c.k[1], c.a[1], c.a[2])
    [] c.cmd = "lrem"        -> lremCommand(x, c.k[1], c.a[1], c.a[2])
    [] c.cmd = "rpoplpush"   -> rpoplpushCommand(x, c.k[1], c.k[2])
    [] c.cmd = "blpop"       -> blockingPopGenericCommand(x, client, c.k, "head", multi)
    [] c.cmd = "brpop"       -> blockingPopGenericCommand(x, client, c.k, "tail", multi)
    [] c.cmd = "brpoplpush"  -> brpoplpushCommand(x, client, c.k[1], c.k[2], multi)
SetRun(x, c) ==
  CASE c.cmd = "sadd"        -> saddCommand(x, c.k[1], c.a)
    [] c.cmd = "srem"        -> sremCommand(x, c.k[1], c.a)
    [] c.cmd = "smove"       -> smoveCommand(x, c.k[1], c.k[2], c.a[1])
    [] c.cmd = "sismember"   -> sismemberCommand(x, c.k[1], c.a[1])
    [] c.cmd = "scard"       -> scardCommand(x, c.k[1])
    [] c.cmd = "spop"        -> IF c.a = <<>> THEN spopCommand(x, c.k[1])
                                ELSE spopWithCountCommand(x, c.k[1], c.a[1])
    [] c.cmd = "srandmember" -> srandmemberWithCountCommand(x, c.k[1], c.a[1])
    [] c.cmd = "sinter"      -> sinterGenericCommand(x, c.k, <<>>)
    [] c.cmd = "sinterstore" -> sinterGenericCommand(x, Tail(c.k), c.k[1])
    [] c.cmd = "sunion"      -> sunionDiffGenericCommand(x, c.k, <<>>, "union")
    [] c.cmd = "sunionstore" -> sunionDiffGenericCommand(x, Tail(c.k), c.k[1], "union")
    [] c.cmd = "sdiff"       -> sunionDiffGenericCommand(x, c.k, <<>>, "diff")
    [] c.cmd = "sdiffstore"  -> sunionDiffGenericCommand(x, Tail(c.k), c.k[1], "diff")
HashRun(x, c) ==
  CASE c.cmd = "hset"        -> hsetCommand(x, c.k[1], c.a[1], c.a[2])
    [] c.cmd = "hsetnx"      -> hsetnxCommand(x, c.k[1], c.a[1], c.a[2])
    [] c.cmd = "hmset"       -> hmsetCommand(x, c.k[1], c.a)
    [] c.cmd = "hincrby"     -> hincrbyCommand(x, c.k[1], c.a[1], c.a[2])
    [] c.cmd = "hincrbyfloat" -> hincrbyfloatCommand(x, c.k[1], c.a[1], c.a[2])
    [] c.cmd = "hmget"       -> hmgetCommand(x, c.k[1], c.a)
    [] c.cmd = "hdel"        -> hdelCommand(x, c.k[1], c.a)
    [] c.cmd = "hlen"        -> hlenCommand(x, c.k[1])
    [] c.cmd = "hexists"     -> hexistsCommand(x, c.k[1], c.a[1])
    [] c.cmd = "hgetall"     -> genericHgetallCommand(x, c.k[1], {"key", "value"})
RangeOf(c, by) == [by |-> by, min |-> c.a[1], max |-> c.a[2], minex |-> "minex" \in c.f, maxex |-> "maxex" \in c.f]
Aggregate(c)   == IF "MIN" \in c.f THEN "MIN" ELSE IF "MAX" \in c.f THEN "MAX" ELSE "SUM"
ZSetRun(x, c) ==
  CASE c.cmd = "zadd"        -> zaddGenericCommand(x, c.k[1], c.a, c.f)
    [] c.cmd = "zincrby"     -> zaddGenericCommand(x, c.k[1], c.a, {"INCR"})
    [] c.cmd = "zrem"        -> zremCommand(x, c.k[1], c.a)
    [] c.cmd = "zremrangebyrank"  -> zremrangeGenericCommand(x, c.k[1], RangeOf(c, "rank"))
    [] c.cmd = "zremrangebyscore" -> zremrangeGenericCommand(x, c.k[1], RangeOf(c, "score"))
    [] c.cmd = "zremrangebylex"   -> zremrangeGenericCommand(x, c.k[1], RangeOf(c, "lex"))
    [] c.cmd = "zunionstore" -> zunionInterGenericCommand(x, c.k[1], Tail(c.k), c.a, Aggregate(c), "union")
    [] c.cmd = "zinterstore" -> zunionInterGenericCommand(x, c.k[1], Tail(c.k), c.a, Aggregate(c), "inter")
    [] c.cmd = "zrange"      -> zrangeGenericCommand(x, c.k[1], c.a[1], c.a[2], "WITHSCORES" \in c.f, "REV" \in c.f)
    [] c.cmd = "zrangebyscore" -> genericZrangebyscoreCommand(x, c.k[1], RangeOf(c, "score"), c.a[3], c.a[4],
                                                             "WITHSCORES" \in c.f, "REV" \in c.f)
    [] c.cmd = "zrangebylex" -> genericZrangebylexCommand(x, c.k[1], RangeOf(c, "lex"), c.a[3], c.a[4], "REV" \in c.f)
    [] c.cmd = "zcount"      -> zcountCommand(x, c.k[1], RangeOf(c, "score"))
    [] c.cmd = "zlexcount"   -> zlexcountCommand(x, c.k[1], RangeOf(c, "lex"))
    [] c.cmd = "zcard"       -> zcardCommand(x, c.k[1])
    [] c.cmd = "zscore"      -> zscoreCommand(x, c.k[1], c.a[1])
    [] c.cmd = "zrank"       -> zrankGenericCommand(x, c.k[1], c.a[1], "REV" \in c.f)

StringNames == {"set", "setnx", "setex", "get", "getset", "setrange", "getrange", "strlen", "mget",
                "mset", "msetnx", "incrby", "decrby", "incrbyfloat", "append"}
BitNames  == {"setbit", "getbit", "bitop", "bitcount", "bitpos", "bitfield"}
KeyNames  == {"del", "exists", "rename", "renamenx", "move", "pexpire", "pexpireat", "ttl", "persist",
              "type", "touch", "randomkey", "keys", "dbsize", "flushdb", "flushall"}
ListNames == {"lpush", "rpush", "lpushx", "rpushx", "linsert", "llen", "lindex", "lset", "lpop", "rpop",
              "lrange", "ltrim", "lrem", "rpoplpush", "blpop", "brpop", "brpoplpush"}
SetNames  == {"sadd", "srem", "smove", "sismember", "scard", "spop", "srandmember", "sinter",
              "sinterstore", "sunion", "sunionstore", "sdiff", "sdiffstore"}
HashNames == {"hset", "hsetnx", "hmset", "hincrby", "hincrbyfloat", "hmget", "hdel", "hlen", "hexists", "hgetall"}

\* Commands that begin by looking up their first key, to read or to change it, or to
\* change a hash.
LookRead  == {"get", "getset", "getrange", "strlen", "bitcount", "bitpos", "ttl", "type", "llen", "lindex", "lrange",
              "sismember", "scard", "srandmember", "hmget", "hlen", "hexists", "hgetall", "zrange",
              "zrangebyscore", "zrangebylex", "zcount", "zlexcount", "zcard", "zscore", "zrank", "sort"}
LookWrite == {"rename", "renamenx", "pexpire", "pexpireat", "incrby", "decrby", "incrbyfloat", "append",
              "lpush", "rpush", "lpushx", "rpushx", "linsert", "lset", "lpop", "rpop", "ltrim", "lrem",
              "rpoplpush", "brpoplpush", "sadd", "srem", "smove", "hdel", "zrem",
              "zremrangebyrank", "zremrangebyscore", "zremrangebylex"}
LookHash  == {"hset", "hsetnx", "hincrby", "hincrbyfloat"}
Looked(x, c) ==
  CASE c.cmd \in LookRead -> lookupKeyRead(x, c.k[1])
    [] c.cmd \in LookWrite \/ (c.cmd = "spop" /\ c.a = <<>>) -> lookupKeyWrite(x, c.k[1])
    [] c.cmd \in LookHash -> hashTypeLookupWriteOrCreate(x, c.k[1])
    [] OTHER -> x

\* c->cmd->proc(c), after the lookup, for a client that is, or is not, running EXEC.
Proc(x, c, client, multi) ==
  CASE c.cmd \in StringNames -> StringRun(x, c)
    [] c.cmd \in BitNames    -> BitRun(x, c)
    [] c.cmd \in KeyNames    -> KeyRun(x, c)
    [] c.cmd \in ListNames   -> ListRun(x, c, client, multi)
    [] c.cmd \in SetNames    -> SetRun(x, c)
    [] c.cmd \in HashNames   -> HashRun(x, c)
    [] c.cmd = "sort"        -> sortCommand(x, c.k[1], IF Len(c.k) > 1 THEN c.k[2] ELSE NoKey, c.f, c.a[1], c.a[2])
    [] OTHER                 -> ZSetRun(x, c)

\* call(): runs a command on x and adds what it propagates to x.feed: what was fed while
\* it ran, the command (as rewritten) if it changed anything, what alsoPropagate queued.
Called(y, dirty) ==
  [y EXCEPT !.feed = @ \o (IF y.dirty > 0 /\ ~y.prevent THEN <<y.argv>> ELSE <<>>) \o y.also,
            !.dirty = dirty + @]
call(x, c, client, multi) ==
  Called(Proc(Looked([x EXCEPT !.dirty = 0, !.also = <<>>, !.argv = c, !.prevent = FALSE, !.o = NoObj,
                               !.reply = <<>>, !.err = ""], c), c, client, multi), x.dirty)
=============================================================================
