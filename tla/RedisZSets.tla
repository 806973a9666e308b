------------------------------ MODULE RedisZSets ------------------------------
(***************************************************************************)
(* Sorted set commands (t_zset.c).  The value of a sorted set is the       *)
(* function from its members to their scores (the dict); the order by      *)
(* (score, member) that ziplist and skiplist keep is Order.  Scores are    *)
(* integers and the two infinities; members are as in RedisHashes and are  *)
(* compared as integers.                                                   *)
(***************************************************************************)
EXTENDS RedisSets, RedisHashes

CONSTANT ZsetMaxZiplist   \* server.zset_max_ziplist_entries

Inf == 1000
NaN == 9999
Infinite(s) == s \in {Inf, -Inf}
DoubleAdd(a, b) == CASE Infinite(a) /\ b = -a -> NaN
                     [] Infinite(a) /\ b # -a -> a
                     [] OTHER -> IF Infinite(b) THEN b ELSE a + b
\* A product that is not a number counts as 0 for the commands that multiply.
Weighted(w, s) == IF Infinite(s) THEN (IF w = 0 THEN 0 ELSE IF w > 0 THEN s ELSE -s) ELSE w * s

ZMembers(o)   == DOMAIN o.v
zsetLength(o) == Cardinality(ZMembers(o))
zsetScore(o, m) == o.v[m]
Before(o, m, n) == \/ o.v[m] < o.v[n]
                   \/ o.v[m] = o.v[n] /\ m < n
Order(o) == SetToSortSeq(ZMembers(o), LAMBDA m, n : Before(o, m, n))
createZsetObject        == createObject("zset", "skiplist", [m \in {} |-> 0])
createZsetZiplistObject == createObject("zset", "ziplist", [m \in {} |-> 0])
zsetConvert(o, enc) == [o EXCEPT !.enc = enc]
zsetConvertToZiplistIfNeeded(o, anyLong) ==
  IF zsetLength(o) <= ZsetMaxZiplist /\ ~anyLong THEN zsetConvert(o, "ziplist") ELSE o
zzlInsert(o, m, s) == [o EXCEPT !.v = [n \in ZMembers(o) \union {m} |-> IF n = m THEN s ELSE o.v[n]]]
zzlDelete(o, m)    == [o EXCEPT !.v = [n \in ZMembers(o) \ {m} |-> o.v[n]]]

---------------------------------------------------------------------------
(* ZADD, ZINCRBY, ZREM *)

\* One score-member pair of ZADD; z counts added and updated elements.
ZaddUpdate(z, s, m) ==
  IF s = NaN THEN [z EXCEPT !.nan = TRUE]
  ELSE [z EXCEPT !.o = zzlInsert(@, m, s), !.updated = @ + (IF s # z.o.v[m] THEN 1 ELSE 0)]
Grown(o, m) == IF o.enc = "ziplist" /\ (zsetLength(o) > ZsetMaxZiplist \/ LongString(m))
               THEN zsetConvert(o, "skiplist") ELSE o
ZaddOne(z, s, m, f) ==
  LET found == m \in ZMembers(z.o)
  IN  CASE z.nan \/ (found /\ "NX" \in f) \/ (~found /\ "XX" \in f) -> z
        [] ~z.nan /\ found /\ "NX" \notin f ->
             ZaddUpdate(z, IF "INCR" \in f THEN DoubleAdd(z.o.v[m], s) ELSE s, m)
        [] OTHER -> [z EXCEPT !.o = Grown(zzlInsert(@, m, s), m), !.added = @ + 1]
\* args are score member score member ..., at least one pair; flags NX, XX, CH, INCR.  A
\* missing key is created before the pairs are looked at.
ZaddSyntax(args, f) ==
  CASE Len(args) % 2 = 1 -> "syntax error"
    [] Len(args) % 2 = 0 /\ {"NX", "XX"} \subseteq f -> "XX and NX options at the same time"
    [] Len(args) > 2 /\ Len(args) % 2 = 0 /\ ~({"NX", "XX"} \subseteq f) /\ "INCR" \in f ->
         "INCR option supports a single increment-element pair"
    [] OTHER -> ""
ZaddStore(z, k, f, end) ==
  LET n == end.added + end.updated
      w == Dirty(dbOverwrite(z, k, end.o), n)
      done == IF n > 0 THEN notifyKeyspaceEvent(signalModifiedKey(w, k), IF "INCR" \in f THEN "zincr" ELSE "zadd", k)
              ELSE w
  IN  IF end.nan THEN addReplyError(done, "resulting score is not a number (NaN)")
      ELSE addReply(done, <<end.added + (IF "CH" \in f THEN end.updated ELSE 0)>>)
zaddGenericCommand(x, k, args, f) ==
  LET new == IF ZsetMaxZiplist = 0 \/ LongString(args[2]) THEN createZsetObject ELSE createZsetZiplistObject
      add(z) == ZaddStore(z, k, f,
                  FoldLeft(LAMBDA w, i : ZaddOne(w, args[2 * i - 1], args[2 * i], f),
                           [o |-> z.db[k], added |-> 0, updated |-> 0, nan |-> FALSE],
                           [i \in 1 .. Len(args) \div 2 |-> i]))
      on(y) == CASE y.o # NoObj /\ y.o.t # "zset" -> WrongType(y)
                 [] y.o = NoObj /\ "XX" \in f -> addReply(y, IF "INCR" \in f THEN <<>> ELSE <<0>>)
                 [] OTHER -> add(IF y.o = NoObj THEN dbAdd(y, k, new) ELSE y)
  IN  IF ZaddSyntax(args, f) # "" THEN addReplyError(x, ZaddSyntax(args, f)) ELSE on(lookupKeyWrite(x, k))

DelIfEmptyZset(x, k) ==
  IF ZMembers(x.db[k]) = {} THEN notifyKeyspaceEvent(dbDelete(x, k), "del", k) ELSE x
zremCommand(y, k, ms) ==
  LET store(o, deleted) ==
        IF deleted = 0 THEN addReply(y, <<0>>)
        ELSE Dirty(signalModifiedKey(DelIfEmptyZset(notifyKeyspaceEvent(
               dbOverwrite(y, k, o), "zrem", k), k), k), deleted)
      without(o) == store(o, zsetLength(y.o) - zsetLength(o))
  IN  CASE y.o = NoObj -> addReply(y, <<0>>)
        [] y.o # NoObj /\ checkType(y.o, "zset") -> WrongType(y)
        [] OTHER -> without(FoldLeft(zzlDelete, y.o, ms))

---------------------------------------------------------------------------
(* Ranges: r is [by, min, max, minex, maxex], by score or by member (lex) *)

LexMin == -1      \* shared.minstring, "-"
LexMax == 1000    \* shared.maxstring, "+"
zslValueGteMin(s, r)    == IF r.minex THEN s > r.min ELSE s >= r.min
zslValueLteMax(s, r)    == IF r.maxex THEN s < r.max ELSE s <= r.max
zslLexValueGteMin(m, r) == IF r.minex THEN m > r.min ELSE m >= r.min
zslLexValueLteMax(m, r) == IF r.maxex THEN m < r.max ELSE m <= r.max
GteMin(o, m, r) == IF r.by = "score" THEN zslValueGteMin(o.v[m], r) ELSE zslLexValueGteMin(m, r)
LteMax(o, m, r) == IF r.by = "score" THEN zslValueLteMax(o.v[m], r) ELSE zslLexValueLteMax(m, r)

\* o is ordered as s.
zslIsInRange(o, s, r) ==
  /\ ~(r.min > r.max \/ (r.min = r.max /\ (r.minex \/ r.maxex)))
  /\ s # <<>> /\ GteMin(o, Last(s), r) /\ LteMax(o, Head(s), r)
\* Positions in s, 0 for NULL.
zslFirstInRange(o, s, r) ==
  LET at(i) == IF LteMax(o, s[i], r) THEN i ELSE 0
  IN  IF zslIsInRange(o, s, r) THEN at(Min({j \in DOMAIN s : GteMin(o, s[j], r)})) ELSE 0
zslLastInRange(o, s, r) ==
  LET at(i) == IF GteMin(o, s[i], r) THEN i ELSE 0
  IN  IF zslIsInRange(o, s, r) THEN at(Max({j \in DOMAIN s : LteMax(o, s[j], r)})) ELSE 0
zslGetRank(o, m) == SelectInSeq(Order(o), LAMBDA n : n = m)

\* From the first element in range until one is above max.
DeleteFrom(o, s, r, first) ==
  IF first = 0 THEN o
  ELSE [o EXCEPT !.v = [m \in ZMembers(o) \ {s[i] : i \in {j \in first .. Len(s) : LteMax(o, s[j], r)}} |-> o.v[m]]]
zzlDeleteRangeByScore(o, r) ==
  LET from(s) == DeleteFrom(o, s, r, zslFirstInRange(o, s, r)) IN from(Order(o))
zzlDeleteRangeByRank(o, start, end) ==
  [o EXCEPT !.v = [m \in ZMembers(o) \ Range(SubSeq(Order(o), start, end)) |-> o.v[m]]]
\* start .. end of llen elements, counted from 0, from the end when negative.
RankRange(llen, start, end) ==
  LET s0 == IF start < 0 THEN llen + start ELSE start
      e == IF end < 0 THEN llen + end ELSE end
      s == IF s0 < 0 THEN 0 ELSE s0
  IN  IF s > e \/ s >= llen THEN <<1, 0>> ELSE <<s, IF e >= llen THEN llen - 1 ELSE e>>

zremrangeGenericCommand(y, k, r) ==
  LET store(o, deleted) ==
        CASE deleted = 0 -> \* the key goes all the same if the set was already empty
               addReply(IF ZMembers(o) = {} THEN dbDelete(y, k) ELSE y, <<0>>)
          [] OTHER -> Dirty(DelIfEmptyZset(notifyKeyspaceEvent(signalModifiedKey(
                        dbOverwrite(y, k, o), k), "zremrange", k), k), deleted)
      without(o) == store(o, zsetLength(y.o) - zsetLength(o))
      byRank(at) == IF at[1] > at[2] THEN addReply(y, <<0>>)
                    ELSE without(zzlDeleteRangeByRank(y.o, at[1] + 1, at[2] + 1))
  IN  CASE y.o = NoObj -> addReply(y, <<0>>)
        [] y.o # NoObj /\ checkType(y.o, "zset") -> WrongType(y)
        [] OTHER -> IF r.by = "rank" THEN byRank(RankRange(zsetLength(y.o), r.min, r.max))
                    ELSE without(zzlDeleteRangeByScore(y.o, r))

---------------------------------------------------------------------------
(* ZUNIONSTORE and ZINTERSTORE of sets and sorted sets *)

zunionInterAggregate(t, val, aggr) ==
  CASE aggr = "SUM" -> IF DoubleAdd(t, val) = NaN THEN 0 ELSE DoubleAdd(t, val)
    [] aggr = "MIN" -> IF val < t THEN val ELSE t
    [] aggr = "MAX" -> IF val > t THEN val ELSE t
\* The iterator over a source: the score of a member of a plain set is 1.
zuiLength(o)   == Cardinality(DOMAIN o.v)
zuiFind(o, m)  == o # NoObj /\ m \in DOMAIN o.v
zuiScore(o, m) == IF o.t = "set" THEN 1 ELSE o.v[m]
\* Sources <<object, weight>> by cardinality, as qsort leaves them.
zuiCompareByCardinality(s, t) == zuiLength(s[1]) < zuiLength(t[1])
Sorted(src) ==
  LET as(at) == [i \in DOMAIN at |-> src[at[i]]]
  IN  as(SetToSortSeq(DOMAIN src, LAMBDA i, j : \/ zuiCompareByCardinality(src[i], src[j])
                                                \/ zuiLength(src[i][1]) = zuiLength(src[j][1]) /\ i < j))
\* The scores of member m in the sources that have it, aggregated in source order.
Aggregated(src, m, aggr) ==
  LET val(s) == Weighted(s[2], zuiScore(s[1], m))
      all(with) == FoldLeft(LAMBDA t, s : zunionInterAggregate(t, val(s), aggr), val(Head(with)), Tail(with))
  IN  all(SelectSeq(src, LAMBDA s : zuiFind(s[1], m)))
InResult(src, op) ==
  IF op = "union" THEN UNION {DOMAIN src[i][1].v : i \in DOMAIN src}
  ELSE {m \in DOMAIN src[1][1].v : \A j \in DOMAIN src : zuiFind(src[j][1], m)}
zunionInterGenericCommand(x, dst, ks, weights, aggr, op) ==
  LET changed(z, event) == Dirty(notifyKeyspaceEvent(signalModifiedKey(z, dst), event, dst), 1)
      store(y, o) == IF ZMembers(o) # {}
                     THEN changed(dbAdd(dbDelete(y, dst), dst,
                            zsetConvertToZiplistIfNeeded(o, \E m \in ZMembers(o) : LongString(m))),
                            IF op = "union" THEN "zunionstore" ELSE "zinterstore")
                     ELSE IF Exists(y, dst) THEN changed(dbDelete(y, dst), "del") ELSE y
      result(y, src) == store(y, createObject("zset", "skiplist",
                                              [m \in InResult(src, op) |-> Aggregated(src, m, aggr)]))
      on(y) == IF y.o.t \notin {"none", "set", "zset"} THEN WrongType(y)
               ELSE result(y, Sorted([i \in DOMAIN ks |-> <<y.db[ks[i]], weights[i]>>]))
  IN  IF ks = <<>> THEN addReplyError(x, "at least 1 input key is needed")
      ELSE on(FoldLeft(LAMBDA y, k : IF y.o.t \notin {"none", "set", "zset"} THEN y ELSE lookupKeyWrite(y, k), x, ks))

---------------------------------------------------------------------------
(* Queries *)

WithScores(o, s, yes) ==
  IF yes THEN FlattenSeq([i \in DOMAIN s |-> <<s[i], o.v[s[i]]>>]) ELSE s
zrangeGenericCommand(y, k, start, end, withscores, reverse) ==
  LET emit(s, rank) == addReply(y, WithScores(y.o, SubSeq(s, rank[1] + 1, rank[2] + 1), withscores))
  IN  CASE y.o = NoObj -> y
        [] y.o # NoObj /\ checkType(y.o, "zset") -> WrongType(y)
        [] OTHER -> emit(IF reverse THEN Reverse(Order(y.o)) ELSE Order(y.o), RankRange(zsetLength(y.o), start, end))
\* Skips offset elements from the first (or last) in range, then emits at most limit
\* (-1: all) until one is out of range.  A negative offset runs off the end.
Emit(o, r, offset, limit, reverse) ==
  LET in(m) == IF reverse THEN GteMin(o, m, r) ELSE LteMax(o, m, r)
      ok(rest) == SubSeq(rest, 1, Cardinality({i \in DOMAIN rest : /\ limit < 0 \/ i <= limit
                                                                 /\ \A j \in 1 .. i : in(rest[j])}))
      from(s, at) == IF at = 0 \/ offset < 0 THEN <<>> ELSE ok(SubSeq(s, at + offset, Len(s)))
      back(at, n) == IF at = 0 THEN 0 ELSE n + 1 - at
      over(s) == IF reverse THEN from(Reverse(s), back(zslLastInRange(o, s, r), Len(s)))
                 ELSE from(s, zslFirstInRange(o, s, r))
  IN  over(Order(o))
genericZrangebyscoreCommand(y, k, r, offset, limit, withscores, reverse) ==
  CASE y.o = NoObj -> y
    [] y.o # NoObj /\ checkType(y.o, "zset") -> WrongType(y)
    [] OTHER -> addReply(y, WithScores(y.o, Emit(y.o, r, offset, limit, reverse), withscores))
genericZrangebylexCommand(y, k, r, offset, limit, reverse) ==
  CASE y.o = NoObj -> y
    [] y.o # NoObj /\ checkType(y.o, "zset") -> WrongType(y)
    [] OTHER -> addReply(y, Emit(y.o, r, offset, limit, reverse))
\* ZCOUNT: a ziplist is walked, for a skiplist two ranks are subtracted.
CountByWalk(o, r) == Len(Emit(o, r, 0, -1, FALSE))
CountByRank(o, r) ==
  LET between(first, last) == IF first = 0 THEN 0
                              ELSE (zsetLength(o) - (first - 1)) - (IF last # 0 THEN zsetLength(o) - last ELSE 0)
      over(s) == between(zslFirstInRange(o, s, r), zslLastInRange(o, s, r))
  IN  over(Order(o))
zcountCommand(y, k, r) ==
  CASE y.o = NoObj -> addReply(y, <<0>>)
    [] y.o # NoObj /\ checkType(y.o, "zset") -> WrongType(y)
    [] OTHER -> addReply(y, <<IF y.o.enc = "ziplist" THEN CountByWalk(y.o, r) ELSE CountByRank(y.o, r)>>)
zlexcountCommand(y, k, r) == zcountCommand(y, k, r)
zcardCommand(y, k) ==
  IF y.o # NoObj /\ checkType(y.o, "zset") THEN WrongType(y) ELSE addReply(y, <<zsetLength(y.o)>>)
zscoreCommand(y, k, m) ==
  CASE y.o # NoObj /\ checkType(y.o, "zset") -> WrongType(y)
    [] y.o.t \in {"none", "zset"} /\ m \notin ZMembers(y.o) -> y
    [] OTHER -> addReply(y, <<zsetScore(y.o, m)>>)
\* ZRANK on a ziplist asserts that there is a first element.
zrankGenericCommand(y, k, m, reverse) ==
  LET rank == zslGetRank(y.o, m)
  IN  CASE y.o = NoObj -> y
        [] y.o # NoObj /\ checkType(y.o, "zset") -> WrongType(y)
        [] y.o.t = "zset" /\ y.o.enc = "ziplist" /\ ZMembers(y.o) = {} -> addReplyError(y, "assertion failed")
        [] y.o.t = "zset" /\ ZMembers(y.o) # {} /\ m \notin ZMembers(y.o) -> y
        [] OTHER -> addReply(y, <<IF reverse THEN zsetLength(y.o) - rank ELSE rank - 1>>)
=============================================================================
