------------------------------ MODULE RedisLists ------------------------------
(***************************************************************************)
(* List commands, blocking ones included (t_list.c, blocked.c), on the     *)
(* context of RedisKeyspace.  A list is a sequence of elements.            *)
(***************************************************************************)
EXTENDS RedisKeyspace

NoKey    == <<>>
NotBlocked == [keys |-> <<>>, target |-> NoKey, where |-> "none"]

listTypePush(s, e, where) == IF where = "head" THEN <<e>> \o s ELSE Append(s, e)
listTypePop(s, where)     == IF where = "head" THEN Tail(s) ELSE Front(s)
listTypeEnd(s, where)     == IF where = "head" THEN Head(s) ELSE Last(s)
listTypeLength(o)         == Len(o.v)
createQuicklistObject(s)  == createObject("list", "quicklist", s)
PopName(where)            == IF where = "head" THEN "lpop" ELSE "rpop"
PushName(where)           == IF where = "head" THEN "lpush" ELSE "rpush"
WithList(x, k, s)         == dbOverwrite(x, k, createQuicklistObject(s))
\* A list that lost its last element is removed, with a "del" event.
DelIfEmpty(x, k) == IF x.db[k].v = <<>> THEN notifyKeyspaceEvent(dbDelete(x, k), "del", k) ELSE x

pushGenericCommand(y, k, es, where) ==
  LET z == IF y.o = NoObj THEN dbAdd(y, k, createQuicklistObject(<<>>)) ELSE y
      w == WithList(z, k, FoldLeft(LAMBDA s, e : listTypePush(s, e, where), z.db[k].v, es))
  IN  IF y.o # NoObj /\ y.o.t # "list" THEN WrongType(y)
      ELSE addReply(Dirty(notifyKeyspaceEvent(signalModifiedKey(w, k), PushName(where), k), Len(es)),
                    <<listTypeLength(w.db[k])>>)

\* LPUSHX, RPUSHX: only on an existing list.
pushxGenericCommand(y, k, e, where) ==
  LET w == WithList(y, k, listTypePush(y.o.v, e, where))
  IN  CASE y.o = NoObj -> addReply(y, <<0>>)
        [] y.o # NoObj /\ checkType(y.o, "list") -> WrongType(y)
        [] OTHER -> addReply(Dirty(notifyKeyspaceEvent(signalModifiedKey(w, k), PushName(where), k), 1),
                             <<Len(w.db[k].v)>>)
\* LINSERT k AFTER|BEFORE pivot e: next to the first occurrence of the pivot.
linsertCommand(y, k, where, pivot, e) ==
  LET insert(p) ==
        IF p = 0 THEN addReply(y, <<-1>>)
        ELSE Dirty(notifyKeyspaceEvent(signalModifiedKey(
               WithList(y, k, InsertAt(y.o.v, IF where = "head" THEN p ELSE p + 1, e)), k), "linsert", k), 1)
  IN  CASE y.o = NoObj -> addReply(y, <<0>>)
        [] y.o # NoObj /\ checkType(y.o, "list") -> WrongType(y)
        [] OTHER -> insert(SelectInSeq(y.o.v, LAMBDA d : d = pivot))

llenCommand(y, k) ==
  IF y.o # NoObj /\ checkType(y.o, "list") THEN WrongType(y) ELSE addReply(y, <<Len(y.o.v)>>)
\* An index counts from the head, or from the tail when negative; 0 when out of range.
quicklistIndex(s, i) == LET p == IF i < 0 THEN Len(s) + i + 1 ELSE i + 1
                        IN  IF p \in DOMAIN s THEN p ELSE 0
lindexCommand(y, k, i) ==
  LET p == quicklistIndex(y.o.v, i)
  IN  CASE y.o # NoObj /\ checkType(y.o, "list") -> WrongType(y)
        [] y.o.t \in {"none", "list"} /\ p = 0 -> y
        [] OTHER -> addReply(y, <<y.o.v[p]>>)
lsetCommand(y, k, i, e) ==
  LET p == quicklistIndex(y.o.v, i)
      w == WithList(y, k, [y.o.v EXCEPT ![p] = e])
  IN  CASE y.o = NoObj -> addReplyError(y, "no such key")
        [] y.o # NoObj /\ checkType(y.o, "list") -> WrongType(y)
        [] y.o.t = "list" /\ p = 0 -> addReplyError(y, "index out of range")
        [] OTHER -> Dirty(notifyKeyspaceEvent(signalModifiedKey(w, k), "lset", k), 1)

popGenericCommand(y, k, where) ==
  LET w == notifyKeyspaceEvent(WithList(y, k, listTypePop(y.o.v, where)), PopName(where), k)
  IN  CASE y.o = NoObj -> y
        [] y.o # NoObj /\ checkType(y.o, "list") -> WrongType(y)
        [] OTHER -> addReply(Dirty(signalModifiedKey(DelIfEmpty(w, k), k), 1),
                             <<listTypeEnd(y.o.v, where)>>)

\* The elements start .. end of a list of length n as <<first, last>>, 0 based; first >
\* last when the range is empty.  Unlike Clip, a negative end is not raised to 0.
ListRange(start, end, n) ==
  LET s0 == IF start < 0 THEN n + start ELSE start
      e == IF end < 0 THEN n + end ELSE end
      s == IF s0 < 0 THEN 0 ELSE s0
  IN  IF s > e \/ s >= n THEN <<1, 0>> ELSE <<s, IF e >= n THEN n - 1 ELSE e>>
InRange(s, r) == SubSeq(s, r[1] + 1, r[2] + 1)
lrangeCommand(y, k, start, end) ==
  IF y.o # NoObj /\ checkType(y.o, "list") THEN WrongType(y)
  ELSE addReply(y, InRange(y.o.v, ListRange(start, end, Len(y.o.v))))
ltrimCommand(y, k, start, end) ==
  LET w == WithList(y, k, InRange(y.o.v, ListRange(start, end, Len(y.o.v))))
  IN  CASE y.o = NoObj -> y
        [] y.o # NoObj /\ checkType(y.o, "list") -> WrongType(y)
        [] OTHER -> Dirty(signalModifiedKey(DelIfEmpty(notifyKeyspaceEvent(w, "ltrim", k), k), k), 1)

\* LREM k n e: the first n occurrences, the last -n when n is negative, all when it is 0.
lremCommand(y, k, n, e) ==
  LET s == y.o.v
      rank(i) == IF n < 0 THEN Cardinality({j \in i .. Len(s) : s[j] = e})
                 ELSE Cardinality({j \in 1 .. i : s[j] = e})
      most == IF n < 0 THEN -n ELSE n
      without(gone) ==
        IF gone = {} THEN addReply(y, <<0>>)
        ELSE Dirty(DelIfEmpty(notifyKeyspaceEvent(signalModifiedKey(WithList(y, k,
               FoldLeftDomain(LAMBDA t, i : IF i \in gone THEN t ELSE Append(t, s[i]), <<>>, s)), k),
               "lrem", k), k), Cardinality(gone))
  IN  CASE y.o = NoObj -> addReply(y, <<0>>)
        [] y.o # NoObj /\ checkType(y.o, "list") -> WrongType(y)
        [] OTHER -> without({i \in DOMAIN s : s[i] = e /\ (n = 0 \/ rank(i) <= most)})

\* Creates the target list when it is missing; the source may be the same key.
rpoplpushHandlePush(x, dst, e) ==
  LET push(y) == WithList(signalModifiedKey(y, dst), dst, listTypePush(y.db[dst].v, e, "head"))
  IN  addReply(notifyKeyspaceEvent(
        push(IF Exists(x, dst) THEN x ELSE dbAdd(x, dst, createQuicklistObject(<<>>))), "lpush", dst), <<e>>)
rpoplpushCommand(y, src, dst) ==
  LET on(z) ==
        IF z.o # NoObj /\ checkType(z.o, "list") THEN WrongType(z)
        ELSE Dirty(signalModifiedKey(DelIfEmpty(notifyKeyspaceEvent(
               rpoplpushHandlePush(WithList(z, src, listTypePop(y.o.v, "tail")), dst, Last(y.o.v)),
               "rpop", src), src), src), 1)
  IN  CASE y.o = NoObj -> y
        [] y.o # NoObj /\ checkType(y.o, "list") -> WrongType(y)
        [] OTHER -> on(lookupKeyWrite(y, dst))

---------------------------------------------------------------------------
(* Blocking operations: client c waits for keys *)

\* Joins the queue of every distinct key.
blockForKeys(x, c, ks, target, where) ==
  [x EXCEPT !.bpop[c] = [keys |-> ks, target |-> target, where |-> where],
            !.bk = [k \in Keys |-> IF k \in Range(ks) THEN Append(@[k], c) ELSE @[k]]]
unblockClientWaitingData(x, c) ==
  [x EXCEPT !.bpop[c] = NotBlocked,
            !.bk = [k \in Keys |-> SelectSeq(@[k], LAMBDA d : d # c)]]
unblockClient(x, c) == unblockClientWaitingData(x, c)

\* BLPOP and BRPOP: the first key that holds a list is popped and the command is
\* propagated as LPOP or RPOP of that key; inside MULTI nobody blocks.
blockingPopGenericCommand(x, c, ks, where, multi) ==
  LET pop(y, k) ==
        rewriteClientCommandVector(Dirty(signalModifiedKey(DelIfEmpty(notifyKeyspaceEvent(
          WithList(y, k, listTypePop(y.o.v, where)), PopName(where), k), k), k), 1),
          Command(PopName(where), <<k>>, <<>>, {}, 0))
      on(y) == CASE y.o = NoObj -> IF multi THEN y ELSE blockForKeys(y, c, ks, NoKey, where)
                 [] y.o # NoObj /\ y.o.t # "list" -> WrongType(y)
                 [] OTHER -> pop(y, ks[SelectInSeq(ks, LAMBDA k : Exists(y, k))])
  \* keys behind the first one that exists are not looked up
  IN  on(FoldLeft(LAMBDA y, k : IF y.o # NoObj THEN y ELSE lookupKeyWrite(y, k), x, ks))
brpoplpushCommand(y, c, src, dst, multi) ==
  CASE y.o = NoObj -> IF multi THEN y ELSE blockForKeys(y, c, <<src>>, dst, "tail")
    [] y.o # NoObj /\ y.o.t # "list" -> WrongType(y)
    [] OTHER -> rpoplpushCommand(y, src, dst)

\* An element popped for a blocked client: what it did is propagated as plain commands.
\* With a target of the wrong type nothing is propagated and the caller undoes the pop.
Feed(x, c) == [x EXCEPT !.feed = Append(@, c)]
serveClientBlockedOnList(x, c, k, dst, e, where) ==
  LET push(y) == IF y.o # NoObj /\ checkType(y.o, "list") THEN WrongType(y)
                 ELSE Feed(rpoplpushHandlePush(Feed(y, Command("rpop", <<k>>, <<>>, {}, 0)), dst, e),
                           Command("lpush", <<dst>>, <<e>>, {}, 0))
  IN  IF dst = NoKey THEN Feed(x, Command(PopName(where), <<k>>, <<>>, {}, 0))
      ELSE push(lookupKeyWrite(x, dst))

\* One client of the queue of key k, the oldest, when the list still has an element.
Serve(x, k, c, e, p) ==
  LET undo(z) == IF z.err # "" THEN WithList(z, k, listTypePush(z.db[k].v, e, p.where)) ELSE z
  IN  undo(serveClientBlockedOnList(
        [unblockClient(WithList(x, k, listTypePop(x.db[k].v, p.where)), c) EXCEPT !.err = ""],
        c, k, p.target, e, p.where))
ServeNext(x, k, c) ==
  Serve(x, k, c, listTypeEnd(x.db[k].v, x.bpop[c].where), x.bpop[c])

\* Mutant: the client that blocked last is served.
Newest(q) == Last(q)
Oldest(q) == Head(q)
\* The first ready key: as many clients as were waiting when the key is looked at.
HandleReadyKey(x) ==
  LET serve(w, k) == IF w.db[k].v = <<>> \/ w.bk[k] = <<>> THEN w ELSE ServeNext(w, k, Oldest(w.bk[k]))
      close(z, k) == IF z.db[k].v = <<>> THEN dbDelete(z, k) ELSE z
      on(y, k) == IF y.o.t # "list" THEN y
                  ELSE close(FoldLeft(LAMBDA w, c : serve(w, k), y, y.bk[k]), k)
  IN  on(lookupKeyWrite([x EXCEPT !.ready = Tail(@)], Head(x.ready)), Head(x.ready))

\* After every command: until no key is ready.  Every round that makes another key
\* ready unblocks a client, so the number of rounds is bounded by Rounds.
CONSTANT Rounds
handleClientsBlockedOnLists(x) ==
  FoldLeft(LAMBDA y, i : IF y.ready = <<>> THEN y ELSE HandleReadyKey(y), x, [i \in 1 .. Rounds |-> i])
=============================================================================
