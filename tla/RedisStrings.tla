----------------------------- MODULE RedisStrings -----------------------------
(***************************************************************************)
(* String commands (t_string.c) and bit commands (bitops.c) of Redis, as   *)
(* operators on the context of RedisKeyspace.                              *)
(***************************************************************************)
EXTENDS RedisKeyspace

CONSTANT FloatMax   \* the largest finite long double, scaled down

\* A signed 64 bit result, with the width scaled down to that of LongMax.
Wrap(n) == ((n - LongMin) % (2 * LongMax + 2)) + LongMin

checkStringLength(n) == n <= MaxString

\* SET, SETNX, SETEX, PSETEX: flags NX and XX, ttl 0 when no expire is given.
setGenericCommand(x, k, flags, val, hasTtl, ttl) ==
  LET blocked(y) == ("NX" \in flags /\ Exists(y, k)) \/ ("XX" \in flags /\ ~Exists(y, k))
      timed(z) == IF hasTtl THEN notifyKeyspaceEvent(setExpire(z, k, z.now + ttl), "expire", k) ELSE z
      set(y) == IF blocked(y) THEN y
                ELSE timed(notifyKeyspaceEvent(Dirty(setKey(y, k, tryObjectEncoding(val)), 1), "set", k))
  IN  IF hasTtl /\ ttl <= 0 THEN addReplyError(x, "invalid expire time")
      ELSE set(IF flags \intersect {"NX", "XX"} # {} THEN lookupKeyWrite(x, k) ELSE x)

\* The options of SET exclude each other: NX with XX, EX with PX.
setCommand(x, c) ==
  IF {"NX", "XX"} \subseteq c.f \/ {"EX", "PX"} \subseteq c.f
  THEN addReplyError(x, "syntax error")
  ELSE setGenericCommand(x, c.k[1], c.f, c.a, c.f \intersect {"EX", "PX"} # {}, c.ttl)
setnxCommand(x, c) == setGenericCommand(x, c.k[1], {"NX"}, c.a, FALSE, 0)
setexCommand(x, c) == setGenericCommand(x, c.k[1], {}, c.a, TRUE, c.ttl)

getGenericCommand(y, k) ==
  IF y.o # NoObj /\ y.o.t # "string" THEN WrongType(y) ELSE addReply(y, y.o.v)
getsetCommand(y, c) ==
  IF y.o # NoObj /\ y.o.t # "string" THEN WrongType(y)
  ELSE Dirty(notifyKeyspaceEvent(setKey(y, c.k[1], tryObjectEncoding(c.a)), "set", c.k[1]), 1)

\* SETRANGE: pads with NUL bytes up to the offset; the empty value changes nothing.
sdsgrowzero(s, n)    == s \o [i \in 1 .. (IF n > Len(s) THEN n - Len(s) ELSE 0) |-> Zero]
Patched(s, off, val) == [i \in 1 .. Len(sdsgrowzero(s, off + Len(val))) |->
                           IF i > off /\ i <= off + Len(val) THEN val[i - off]
                           ELSE sdsgrowzero(s, off + Len(val))[i]]
setrangeCommand(x, k, offset, val) ==
  LET raw(y) == createObject("string", "raw", Patched(y.o.v, offset, val))
      set(y) ==
        CASE y.o # NoObj /\ checkType(y.o, "string") -> WrongType(y)
          [] y.o.t \in {"none", "string"} /\ val = <<>> -> addReply(y, <<Len(y.o.v)>>)
          [] y.o.t \in {"none", "string"} /\ val # <<>> /\ ~checkStringLength(offset + Len(val)) ->
               addReplyError(y, "string exceeds maximum")
          [] OTHER -> Dirty(notifyKeyspaceEvent(signalModifiedKey(AddOrOverwrite(y, k, raw(y)), k), "setrange", k), 1)
  IN  IF offset < 0 THEN addReplyError(x, "offset is out of range") ELSE set(lookupKeyWrite(x, k))

\* The bytes start .. end of a string of length n, negative from its end, as GETRANGE
\* and BITCOUNT clip them; empty when the first component exceeds the second.
Clip(start, end, n) ==
  LET s0 == IF start < 0 THEN n + start ELSE start
      e0 == IF end < 0 THEN n + end ELSE end
      s1 == IF s0 < 0 THEN 0 ELSE s0
      e1 == IF e0 < 0 THEN 0 ELSE e0
  IN  IF start < 0 /\ end < 0 /\ start > end THEN <<1, 0>>
      ELSE <<s1, IF e1 >= n THEN n - 1 ELSE e1>>
getrangeCommand(y, k, start, end) ==
  LET r == Clip(start, end, Len(y.o.v))
  IN  CASE y.o = NoObj -> y
        [] y.o # NoObj /\ checkType(y.o, "string") -> WrongType(y)
        [] OTHER -> addReply(y, SubSeq(y.o.v, r[1] + 1, r[2] + 1))
strlenCommand(y, k) ==
  IF y.o # NoObj /\ checkType(y.o, "string") THEN WrongType(y)
  ELSE addReply(y, <<stringObjectLen(y.o)>>)
mgetCommand(x, ks) ==
  LET add(z) == IF z.o.t = "string" THEN addReply(z, z.o.v) ELSE z
  IN  FoldLeft(LAMBDA y, k : add(lookupKeyRead(y, k)), x, ks)

\* MSET and MSETNX: the i-th key gets the one byte string <<a[i]>>.  With NX all keys
\* are looked up, and expired, before one is set.
msetGenericCommand(x, ks, a, nx) ==
  LET one(w, i) == notifyKeyspaceEvent(setKey(w, ks[i], tryObjectEncoding(<<a[i]>>)), "set", ks[i])
      set(y) == IF nx /\ \E i \in DOMAIN ks : Exists(y, ks[i]) THEN addReply(y, <<0>>)
                ELSE Dirty(FoldLeftDomain(one, y, ks), Len(ks))
  IN  IF Len(ks) # Len(a) THEN addReplyError(x, "wrong number of arguments for MSET")
      ELSE set(IF nx THEN FoldLeft(lookupKeyWrite, x, ks) ELSE x)

\* The overflow test of INCR and its like, before the addition.
IncrOverflows(old, incr) ==
  \/ incr < 0 /\ old < 0 /\ incr < LongMin - old
  \/ incr > 0 /\ old > 0 /\ incr > LongMax - old
incrDecrCommand(y, k, incr) ==
  LET old == getLongLongFromObject(y.o)
      new == createStringObjectFromLongLong(Wrap(old + incr))
      z == AddOrOverwrite(y, k, new)
  IN  CASE y.o # NoObj /\ checkType(y.o, "string") -> WrongType(y)
        [] y.o.t \in {"none", "string"} /\ ~IsLongLong(y.o) -> addReplyError(y, "not an integer")
        [] y.o.t \in {"none", "string"} /\ IsLongLong(y.o) /\ IncrOverflows(old, incr) ->
             addReplyError(y, "would overflow")
        [] OTHER -> addReply(Dirty(notifyKeyspaceEvent(signalModifiedKey(z, k), "incrby", k), 1),
                             <<old + incr>>)
incrbyCommand(y, k, n) == incrDecrCommand(y, k, n)
\* The negation of LLONG_MIN wraps around.
decrbyCommand(y, k, n) == incrDecrCommand(y, k, Wrap(-n))

\* INCRBYFLOAT: propagated as SET with the result, so that AOF and slaves do not
\* repeat floating point arithmetic.
incrbyfloatCommand(y, k, incr) ==
  LET sum == getLongLongFromObject(y.o) + incr
      new == createStringObjectFromLongDouble(sum)
      z == AddOrOverwrite(y, k, new)
  IN  CASE y.o # NoObj /\ checkType(y.o, "string") -> WrongType(y)
        [] y.o.t \in {"none", "string"} /\ ~IsLongDouble(y.o) -> addReplyError(y, "not a float")
        [] y.o.t \in {"none", "string"} /\ IsLongDouble(y.o) /\ sum \notin -FloatMax .. FloatMax ->
             addReplyError(y, "NaN or Infinity")
        [] OTHER -> rewriteClientCommandVector(
                      addReply(Dirty(notifyKeyspaceEvent(
                        signalModifiedKey(z, k), "incrbyfloat", k), 1), new.v),
                      Command("set", <<k>>, new.v, {}, 0))

appendCommand(y, k, val) ==
  LET z == IF y.o = NoObj THEN dbAdd(y, k, tryObjectEncoding(val))
           ELSE dbOverwrite(dbUnshareStringValue(y, k), k,
                            createObject("string", "raw", y.o.v \o val))
  IN  CASE y.o # NoObj /\ checkType(y.o, "string") -> WrongType(y)
        [] y.o.t = "string" /\ ~checkStringLength(Len(y.o.v) + Len(val)) ->
             addReplyError(y, "string exceeds maximum")
        [] OTHER -> addReply(Dirty(notifyKeyspaceEvent(signalModifiedKey(z, k), "append", k), 1),
                             <<Len(z.db[k].v)>>)
=============================================================================
