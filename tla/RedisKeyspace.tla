---------------------------- MODULE RedisKeyspace ----------------------------
(***************************************************************************)
(* The key space of Redis (db.c) and its objects (object.c), as operators  *)
(* on the context a command runs in.  A context x is a record:             *)
(*   db       key -> object, NoObj where the key is missing                *)
(*   exp      key -> expire time in ms, -1 where there is none             *)
(*   now      mstime()                                                     *)
(*   slave    server.masterhost # NULL: this server is a slave             *)
(*   dirty    how much the command added to server.dirty                   *)
(*   touched  the keys touchWatchedKey was called for                      *)
(*   feed     the commands sent to AOF and slaves while the command ran    *)
(*   also     what alsoPropagate queued                                    *)
(*   argv     the command as call() will propagate it (rewritten or not)   *)
(*   prevent  preventCommandPropagation was called                         *)
(*   ready    server.ready_keys: lists that blocked clients may be fed from*)
(*   bk       db->blocking_keys: key -> the clients blocked on it, in order*)
(*   bpop     client -> [keys, target, where] of the pop it is blocked in  *)
(*   ev       the keyspace events notified, as <<event, key>>              *)
(*   o        the object the last lookup returned                          *)
(*   reply    the reply, a sequence of integers; err: the error or ""      *)
(*   rnd      "asc" or "desc": the order random choices draw elements in   *)
(* Operators keep the names of the C functions and return the new context. *)
(* A byte has 4 bits: 0 is NUL, 1 is "-", 2..11 are the digits and 12..15  *)
(* other characters, in the order of ASCII.  The elements, fields and      *)
(* members of collections are abstracted to integers.                      *)
(***************************************************************************)
EXTENDS Integers, Sequences, FiniteSets, SequencesExt

CONSTANTS DBs,        \* database numbers, 0 .. server.dbnum - 1
          Names,      \* key names
          LongMax,    \* LLONG_MAX, scaled down
          MaxString,  \* the 512 MB limit of a string, scaled down
          EmbLimit    \* OBJ_ENCODING_EMBSTR_SIZE_LIMIT, scaled down

Keys   == DBs \X Names
Zero   == 0
Minus  == 1
Digit(b) == b - 2

NoObj == [t |-> "none", enc |-> "none", v |-> <<>>]
createObject(t, enc, v) == [t |-> t, enc |-> enc, v |-> v]

Command(cmd, k, a, f, ttl) == [cmd |-> cmd, k |-> k, a |-> a, f |-> f, ttl |-> ttl]
NoCommand == Command("none", <<>>, <<>>, {}, 0)

\* What call() sees before a command runs on the data set d with expires e.
Context(d, e, now, slave, bk, bpop, rnd, c) ==
  [db |-> d, exp |-> e, now |-> now, slave |-> slave, dirty |-> 0, touched |-> {},
   feed |-> <<>>, also |-> <<>>, argv |-> c, prevent |-> FALSE, ready |-> <<>>,
   bk |-> bk, bpop |-> bpop, ev |-> {}, o |-> NoObj, reply |-> <<>>, err |-> "", rnd |-> rnd]

Exists(x, k)   == x.db[k] # NoObj
KeyCount(x, d) == Cardinality({k \in Keys : k[1] = d /\ Exists(x, k)})
addReply(x, r) == [x EXCEPT !.reply = @ \o r]
addReplyError(x, e) == [x EXCEPT !.err = e]
Dirty(x, n)    == [x EXCEPT !.dirty = @ + n]
\* The elements of a set in the order they are drawn at random.
Draw(x, S)     == IF x.rnd = "asc" THEN SetToSeq(S) ELSE Reverse(SetToSeq(S))

---------------------------------------------------------------------------
(* Objects: numbers as strings (object.c, util.c) *)

LongMin == -LongMax - 1
Digits[n \in Nat] == IF n < 10 THEN <<n + 2>> ELSE Append(Digits[n \div 10], (n % 10) + 2)
ll2string(n) == IF n < 0 THEN <<Minus>> \o Digits[-n] ELSE Digits[n]
Decimal(s)   == FoldLeft(LAMBDA acc, d : acc * 10 + Digit(d), 0, s)
AllDigits(s) == s # <<>> /\ \A i \in DOMAIN s : s[i] \in 2 .. 11
Magnitude(s) == IF s # <<>> /\ s[1] = Minus THEN Tail(s) ELSE s
Signed(s)    == IF s[1] = Minus THEN -Decimal(Tail(s)) ELSE Decimal(s)

\* The strings that name a long long: no sign but "-", no leading zero, in range.
string2ll(s) == \/ s = <<2>>
                \/ /\ AllDigits(Magnitude(s))
                   /\ Magnitude(s)[1] # 2
                   /\ Signed(s) \in LongMin .. LongMax
\* strtold: leading zeros are fine.  Only integral values are modelled.
strtold(s) == AllDigits(Magnitude(s))

\* OBJ_ENCODING_INT for integers, else embstr up to the limit, else raw.
tryObjectEncoding(s) ==
  createObject("string",
               IF string2ll(s) THEN "int"
               ELSE IF Len(s) <= EmbLimit THEN "embstr" ELSE "raw", s)
createStringObject(s) ==
  createObject("string", IF Len(s) <= EmbLimit THEN "embstr" ELSE "raw", s)
createStringObjectFromLongLong(n) == createObject("string", "int", ll2string(n))
\* Human friendly output of an integral long double: its digits, not int encoded.
createStringObjectFromLongDouble(n) == createStringObject(ll2string(n))
\* The missing key counts as 0.
getLongLongFromObject(o) == IF o = NoObj THEN 0 ELSE Signed(o.v)
IsLongLong(o)            == o = NoObj \/ string2ll(o.v)
IsLongDouble(o)          == o = NoObj \/ strtold(o.v)
stringObjectLen(o)       == Len(o.v)
checkType(o, t)          == o.t # t       \* TRUE: the reply is WRONGTYPE
WrongType(x)             == addReplyError(x, "WRONGTYPE")

---------------------------------------------------------------------------
(* The key space API (db.c) *)

notifyKeyspaceEvent(x, e, k) == [x EXCEPT !.ev = @ \union {<<e, k>>}]
signalModifiedKey(x, k)      == [x EXCEPT !.touched = @ \union {k}]
\* FLUSHDB d, or FLUSHALL with d = -1: only keys that exist are touched.
\* Mutant: clients that watch a key are not told of FLUSHDB, only of FLUSHALL.
SignalFlushedAll(x, d) ==
  [x EXCEPT !.touched = @ \union {k \in Keys : Exists(x, k) /\ d = -1}]
signalFlushedDb(x, d) ==
  [x EXCEPT !.touched = @ \union {k \in Keys : Exists(x, k) /\ (d = -1 \/ k[1] = d)}]

\* A list a client waits for was created: queue the key once.
signalListAsReady(x, k) ==
  IF x.bk[k] # <<>> /\ k \notin Range(x.ready) THEN [x EXCEPT !.ready = Append(@, k)] ELSE x

getExpire(x, k)       == x.exp[k]
setExpire(x, k, when) == [x EXCEPT !.exp[k] = when]
removeExpire(x, k)    == [x EXCEPT !.exp[k] = -1]
\* Mutant: a new list is not announced to the clients that wait for it.
DbAddSilently(x, k, o) == [x EXCEPT !.db[k] = o]
dbAdd(x, k, o) ==
  IF o.t = "list" THEN signalListAsReady([x EXCEPT !.db[k] = o], k) ELSE [x EXCEPT !.db[k] = o]
dbOverwrite(x, k, o) == [x EXCEPT !.db[k] = o]
dbDelete(x, k)       == [x EXCEPT !.db[k] = NoObj, !.exp[k] = -1]

\* Lazy expiration: AOF and slaves get an explicit DEL before the command.
propagateExpire(x, k) ==
  [x EXCEPT !.feed = Append(@, Command("del", <<k>>, <<>>, {}, 0))]
IsExpired(x, k) == x.exp[k] >= 0 /\ x.now > x.exp[k]
\* The value returned by expireIfNeeded is IsExpired; only a master deletes.
expireIfNeeded(x, k) ==
  IF IsExpired(x, k) /\ ~x.slave
  THEN dbDelete(notifyKeyspaceEvent(propagateExpire(x, k), "expired", k), k)
  ELSE x

lookupKey(x, k)      == [x EXCEPT !.o = x.db[k]]
lookupKeyWrite(x, k) == lookupKey(expireIfNeeded(x, k), k)
\* On a slave an expired key is hidden from read only commands of its clients;
\* the master's stream still sees it.
ReadOnly == {"get", "mget", "getrange", "strlen", "getbit", "bitcount", "bitpos", "exists", "ttl",
             "type", "touch", "randomkey", "keys", "dbsize", "lrange", "lindex", "llen",
             "sismember", "scard", "srandmember", "sinter", "sunion", "sdiff", "hmget",
             "hgetall", "hlen", "hexists", "zrange", "zrangebyscore", "zrangebylex", "zcount",
             "zlexcount", "zcard", "zscore", "zrank"}
lookupKeyRead(x, k) ==
  [expireIfNeeded(x, k) EXCEPT
     !.o = IF IsExpired(x, k) /\ (~x.slave \/ x.argv.cmd \in ReadOnly) THEN NoObj ELSE x.db[k]]

\* SET and its like: whatever the key held and its time to live are replaced.
AddOrOverwrite(y, k, o) == IF Exists(y, k) THEN dbOverwrite(y, k, o) ELSE dbAdd(y, k, o)
setKey(x, k, o) ==
  signalModifiedKey(removeExpire(AddOrOverwrite(lookupKeyWrite(x, k), k, o), k), k)

\* A string about to be modified in place becomes raw.
dbUnshareStringValue(x, k) ==
  dbOverwrite(x, k, createObject("string", "raw", x.db[k].v))

emptyDb(x) == [x EXCEPT !.db = [k \in Keys |-> NoObj], !.exp = [k \in Keys |-> -1]]
rewriteClientCommandVector(x, c) == [x EXCEPT !.argv = c]
alsoPropagate(x, c)              == [x EXCEPT !.also = Append(@, c)]
preventCommandPropagation(x)     == [x EXCEPT !.prevent = TRUE]

---------------------------------------------------------------------------
(* Commands on keys of any type (db.c) *)

flushdbCommand(x, d) ==
  LET y == signalFlushedDb(Dirty(x, KeyCount(x, d)), d)
  IN  [y EXCEPT !.db  = [k \in Keys |-> IF k[1] = d THEN NoObj ELSE @[k]],
                !.exp = [k \in Keys |-> IF k[1] = d THEN -1 ELSE @[k]]]
flushallCommand(x) ==
  Dirty(emptyDb(signalFlushedDb(x, -1)),
        1 + Cardinality({k \in Keys : Exists(x, k)}))

\* One key of DEL k1 k2 ...; the keys are handled in order.
Deleted(y, k) ==
  IF Exists(y, k)
  THEN Dirty(notifyKeyspaceEvent(signalModifiedKey(dbDelete(y, k), k), "del", k), 1)
  ELSE y
delCommand(x, ks) == FoldLeft(LAMBDA y, k : Deleted(expireIfNeeded(y, k), k), x, ks)

CountKeys(y, ks)     == addReply(y, <<Cardinality({i \in DOMAIN ks : Exists(y, ks[i])})>>)
existsCommand(x, ks) == CountKeys(FoldLeft(expireIfNeeded, x, ks), ks)

\* RANDOMKEY: draws in the order x.rnd until a key that is not expired comes up; on a
\* master every expired key drawn before it is deleted.  On a slave nothing is deleted
\* and with nothing but expired keys the loop never ends: err is "hang".
dbRandomKey(x, d) ==
  LET first(drawn) == SelectInSeq(drawn, LAMBDA k : ~IsExpired(x, k))
      try(drawn) == IF x.slave /\ drawn # <<>> /\ first(drawn) = 0 THEN addReplyError(x, "hang")
                    ELSE FoldLeft(expireIfNeeded, x,
                                  IF first(drawn) = 0 THEN drawn ELSE SubSeq(drawn, 1, first(drawn)))
  IN  try(Draw(x, {k \in Keys : k[1] = d /\ Exists(x, k)}))

\* KEYS *: every expired key met is dropped from the answer, and deleted on a master.
keysCommand(x, d) ==
  LET In == {k \in Keys : k[1] = d /\ Exists(x, k)}
  IN  addReply(FoldLeft(expireIfNeeded, x, SetToSeq(In)), <<Cardinality({k \in In : ~IsExpired(x, k)})>>)

dbsizeCommand(x, d) == addReply(x, <<KeyCount(x, d)>>)
typeCommand(y)      == addReplyError(y, y.o.t)
touchCommand(x, ks) == FoldLeft(LAMBDA y, k : addReply(lookupKeyRead(y, k), <<>>), x, ks)

\* RENAME and RENAMENX: the value moves with its time to live; what the target held
\* is deleted together with its own.
MoveValue(z, o, expire, src, dst) ==
  dbDelete([dbAdd(z, dst, o) EXCEPT !.exp[dst] = IF expire # -1 THEN expire ELSE @], src)
Rename(z, o, expire, src, dst, nx) ==
  LET free == IF z.o # NoObj THEN dbDelete(z, dst) ELSE z
      moved == MoveValue(free, o, expire, src, dst)
  IN  IF z.o # NoObj /\ nx THEN addReply(z, <<0>>)
      ELSE Dirty(addReply(notifyKeyspaceEvent(notifyKeyspaceEvent(
             signalModifiedKey(signalModifiedKey(moved, src), dst), "rename_from", src), "rename_to", dst), <<1>>), 1)
renameGenericCommand(y, src, dst, nx) ==
  CASE y.o = NoObj -> addReplyError(y, "no such key")
    [] y.o # NoObj /\ src = dst -> addReply(y, <<IF nx THEN 0 ELSE 1>>)
    [] OTHER -> Rename(lookupKeyWrite(y, dst), y.o, getExpire(y, src), src, dst, nx)

\* MOVE: neither signalModifiedKey nor notifyKeyspaceEvent is called.
Move(z, o, expire, src, dst) ==
  IF z.o # NoObj THEN addReply(z, <<0>>)
  ELSE Dirty(addReply(MoveValue(z, o, expire, src, dst), <<1>>), 1)
moveCommand(x, src, d) ==
  LET from(y) == IF y.o = NoObj THEN addReply(y, <<0>>)
                 ELSE Move(lookupKeyWrite(y, <<d, src[2]>>), y.o, getExpire(y, src), src, <<d, src[2]>>)
  IN  CASE d \notin DBs -> addReplyError(x, "index out of range")
        [] d = src[1] -> addReplyError(x, "same object")
        [] OTHER -> from(lookupKeyWrite(x, src))

\* EXPIRE, PEXPIRE, EXPIREAT, PEXPIREAT with the absolute time when: a time that has
\* passed deletes the key on a master, and the command is propagated as DEL.  A slave
\* only records the time: the master will send the DEL.
expireGenericCommand(y, k, when) ==
  LET del == rewriteClientCommandVector(dbDelete(y, k), Command("del", <<k>>, <<>>, {}, 0))
  IN  CASE y.o = NoObj -> addReply(y, <<0>>)
        [] y.o # NoObj /\ when <= y.now /\ ~y.slave ->
             addReply(notifyKeyspaceEvent(signalModifiedKey(Dirty(del, 1), k), "del", k), <<1>>)
        [] OTHER -> Dirty(notifyKeyspaceEvent(signalModifiedKey(
                      addReply(setExpire(y, k, when), <<1>>), k), "expire", k), 1)

ttlGenericCommand(y, k) ==
  LET ttl == getExpire(y, k) - y.now
  IN  addReply(y, <<IF y.o = NoObj THEN -2
                    ELSE IF getExpire(y, k) = -1 THEN -1
                    ELSE IF ttl < 0 THEN 0 ELSE ttl>>)

\* PERSIST looks the key up without expireIfNeeded, and signals nobody.
\* Mutant: the command does not count as a change.
PersistClean(x, k) ==
  IF Exists(x, k) /\ getExpire(x, k) # -1 THEN addReply(removeExpire(x, k), <<1>>) ELSE addReply(x, <<0>>)
persistCommand(x, k) ==
  IF Exists(x, k) /\ getExpire(x, k) # -1
  THEN Dirty(addReply(removeExpire(x, k), <<1>>), 1)
  ELSE addReply(x, <<0>>)
=============================================================================
