----------------------------- MODULE RedisHashes -----------------------------
(***************************************************************************)
(* Hash commands (t_hash.c).  The value of a hash is a function from its   *)
(* fields.  Fields and values below 100 are integers, above 200 they are   *)
(* strings longer than server.hash_max_ziplist_value.                      *)
(***************************************************************************)
EXTENDS RedisKeyspace

CONSTANT HashMaxZiplist   \* server.hash_max_ziplist_entries

LongString(e)     == e > 200
HashIsInt(e)      == e < 100
HFields(o)        == DOMAIN o.v
hashTypeLength(o) == Cardinality(HFields(o))
hashTypeExists(o, f) == f \in HFields(o)
hashTypeConvert(o)   == [o EXCEPT !.enc = "ht"]
hashTypeTryConversion(o, args) ==
  IF o.enc = "ziplist" /\ \E i \in DOMAIN args : LongString(args[i]) THEN hashTypeConvert(o) ELSE o
hashTypeSet(o, f, e) ==
  LET p == [o EXCEPT !.v = [g \in HFields(o) \union {f} |-> IF g = f THEN e ELSE o.v[g]]]
  IN  IF o.enc = "ziplist" /\ hashTypeLength(p) > HashMaxZiplist THEN hashTypeConvert(p) ELSE p
hashTypeDelete(o, f) == [o EXCEPT !.v = [g \in HFields(o) \ {f} |-> o.v[g]]]
createHashObject == createObject("hash", "ziplist", [f \in {} |-> 0])
\* An empty hash is put into the key space before the first field is set.
hashTypeLookupWriteOrCreate(x, k) ==
  LET on(y) == IF y.o = NoObj THEN lookupKey(dbAdd(y, k, createHashObject), k)
               ELSE IF y.o.t # "hash" THEN WrongType(y) ELSE y
  IN  on(lookupKeyWrite(x, k))
HashChanged(y, k, o, event) == Dirty(notifyKeyspaceEvent(signalModifiedKey(dbOverwrite(y, k, o), k), event, k), 1)

\* HMSET: the pairs are args[1] args[2], args[3] args[4] ...
hmsetCommand(x, k, args) ==
  LET set(y) == IF y.err # "" THEN y
                ELSE HashChanged(y, k, FoldLeft(LAMBDA p, i : hashTypeSet(p, args[2 * i - 1], args[2 * i]),
                                                hashTypeTryConversion(y.o, args),
                                                [i \in 1 .. Len(args) \div 2 |-> i]), "hset")
  IN  IF Len(args) % 2 = 1 THEN addReplyError(x, "wrong number of arguments for HMSET")
      ELSE set(hashTypeLookupWriteOrCreate(x, k))
\* The commands below run on the context hashTypeLookupWriteOrCreate returned.
hsetCommand(y, k, f, e) ==
  IF y.err # "" THEN y
  ELSE addReply(HashChanged(y, k, hashTypeSet(hashTypeTryConversion(y.o, <<f, e>>), f, e), "hset"),
                <<IF hashTypeExists(y.o, f) THEN 0 ELSE 1>>)
\* HSETNX converts the encoding before it looks for the field.
hsetnxCommand(y, k, f, e) ==
  LET set(o) == IF hashTypeExists(o, f) THEN addReply(dbOverwrite(y, k, o), <<0>>)
                ELSE addReply(HashChanged(y, k, hashTypeSet(o, f, e), "hset"), <<1>>)
  IN  IF y.err # "" THEN y ELSE set(hashTypeTryConversion(y.o, <<f, e>>))

\* HINCRBY: no hashTypeTryConversion, so a long field may enter a ziplist.
HIncrOverflows(old, incr) == \/ incr < 0 /\ old < 0 /\ incr < LongMin - old
                             \/ incr > 0 /\ old > 0 /\ incr > LongMax - old
HOld(o, f) == IF hashTypeExists(o, f) THEN o.v[f] ELSE 0
hincrbyCommand(y, k, f, incr) ==
  LET old == HOld(y.o, f)
  IN  CASE y.err # "" -> y
        [] y.err = "" /\ ~HashIsInt(old) -> addReplyError(y, "hash value is not an integer")
        [] y.err = "" /\ HashIsInt(old) /\ HIncrOverflows(old, incr) -> addReplyError(y, "would overflow")
        [] OTHER -> addReply(HashChanged(y, k, hashTypeSet(y.o, f, old + incr), "hincrby"), <<old + incr>>)
\* HINCRBYFLOAT: as HINCRBY without the overflow test; propagated as HSET.
hincrbyfloatCommand(y, k, f, incr) ==
  LET old == HOld(y.o, f)
  IN  CASE y.err # "" -> y
        [] y.err = "" /\ ~HashIsInt(old) -> addReplyError(y, "hash value is not a valid float")
        [] OTHER -> rewriteClientCommandVector(
                      HashChanged(y, k, hashTypeSet(y.o, f, old + incr), "hincrbyfloat"),
                      Command("hset", <<k>>, <<f, old + incr>>, {}, 0))

\* HGET and HMGET; a field that is missing adds nothing.
addHashFieldToReply(x, o, f) == IF o # NoObj /\ hashTypeExists(o, f) THEN addReply(x, <<o.v[f]>>) ELSE x
hmgetCommand(y, k, fs) ==
  IF y.o # NoObj /\ y.o.t # "hash" THEN WrongType(y)
  ELSE FoldLeft(LAMBDA z, f : addHashFieldToReply(z, y.o, f), y, fs)
hdelCommand(y, k, fs) ==
  LET store(o, deleted) ==
        CASE deleted = 0 -> addReply(y, <<0>>)
          [] deleted > 0 /\ HFields(o) # {} -> Dirty(HashChanged(y, k, o, "hdel"), deleted - 1)
          [] OTHER -> Dirty(notifyKeyspaceEvent(dbDelete(HashChanged(y, k, o, "hdel"), k), "del", k), deleted - 1)
      without(o) == store(o, hashTypeLength(y.o) - hashTypeLength(o))
  IN  CASE y.o = NoObj -> addReply(y, <<0>>)
        [] y.o # NoObj /\ checkType(y.o, "hash") -> WrongType(y)
        [] OTHER -> without(FoldLeft(hashTypeDelete, y.o, fs))
hlenCommand(y, k) ==
  IF y.o # NoObj /\ checkType(y.o, "hash") THEN WrongType(y) ELSE addReply(y, <<hashTypeLength(y.o)>>)
hexistsCommand(y, k, f) ==
  IF y.o # NoObj /\ checkType(y.o, "hash") THEN WrongType(y)
  ELSE addReply(y, <<IF y.o # NoObj /\ hashTypeExists(y.o, f) THEN 1 ELSE 0>>)
\* HKEYS, HVALS, HGETALL: what \subseteq {"key", "value"}.
genericHgetallCommand(y, k, what) ==
  LET entry(f) == (IF "key" \in what THEN <<f>> ELSE <<>>) \o (IF "value" \in what THEN <<y.o.v[f]>> ELSE <<>>)
  IN  IF y.o # NoObj /\ checkType(y.o, "hash") THEN WrongType(y)
      ELSE FoldLeft(LAMBDA z, f : addReply(z, entry(f)), y, SetToSeq(HFields(y.o)))
=============================================================================
