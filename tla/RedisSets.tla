------------------------------ MODULE RedisSets ------------------------------
(***************************************************************************)
(* Set commands (t_set.c).  The members of a set are the domain of its     *)
(* value, as in a dict with NULL values.  Elements below 100 are the       *)
(* strings that represent a long long.                                     *)
(***************************************************************************)
EXTENDS RedisKeyspace

CONSTANTS SetMaxIntset,   \* server.set_max_intset_entries
          UintMod         \* 2^32, scaled down: a count is cut to unsigned int

isObjectRepresentableAsLongLong(e) == e < 100
Members(o)     == DOMAIN o.v
AsDict(S)      == [e \in S |-> 0]
setTypeSize(o) == Cardinality(Members(o))
setTypeIsMember(o, e) ==
  IF o.enc = "ht" THEN e \in Members(o)
  ELSE isObjectRepresentableAsLongLong(e) /\ e \in Members(o)
createIntsetObject == createObject("set", "intset", AsDict({}))
setTypeCreate(e) == IF isObjectRepresentableAsLongLong(e) THEN createIntsetObject
                    ELSE createObject("set", "ht", AsDict({}))
setTypeConvert(o) == [o EXCEPT !.enc = "ht"]
\* An intset becomes a hash table when it gets too long or a string that is no integer.
setTypeAdd(o, e) ==
  LET p == [o EXCEPT !.v = AsDict(Members(o) \union {e})]
  IN  IF o.enc = "intset" /\ (\/ ~isObjectRepresentableAsLongLong(e)
                              \/ e \notin Members(o) /\ setTypeSize(p) > SetMaxIntset)
      THEN setTypeConvert(p) ELSE p
setTypeRemove(o, e) == [o EXCEPT !.v = AsDict(Members(o) \ {e})]
setTypeRandomElement(x, o) == Head(Draw(x, Members(o)))
AddAll(o, es) == FoldLeft(setTypeAdd, o, es)

saddCommand(y, k, es) ==
  LET store(z, o, added) ==
        IF added = 0 THEN addReply(z, <<0>>)
        ELSE Dirty(notifyKeyspaceEvent(signalModifiedKey(dbOverwrite(z, k, o), k), "sadd", k), added)
      add(z, o) == store(z, o, setTypeSize(o) - setTypeSize(z.db[k]))
      into(z) == add(z, AddAll(z.db[k], es))
  IN  IF y.o # NoObj /\ y.o.t # "set" THEN WrongType(y)
      ELSE into(IF y.o = NoObj THEN dbAdd(y, k, setTypeCreate(es[1])) ELSE y)

\* Removing stops when the set is empty; the key goes with its last member.
\* Mutant: the empty set stays in the key space.
KeepEmptySet(x, k) == x
DelIfEmptySet(x, k) ==
  IF Members(x.db[k]) = {} THEN notifyKeyspaceEvent(dbDelete(x, k), "del", k) ELSE x
sremCommand(y, k, es) ==
  LET w == dbOverwrite(y, k, FoldLeft(setTypeRemove, y.o, es))
      deleted == setTypeSize(y.o) - setTypeSize(w.db[k])
  IN  CASE y.o = NoObj -> addReply(y, <<0>>)
        [] y.o # NoObj /\ checkType(y.o, "set") -> WrongType(y)
        [] y.o.t = "set" /\ deleted = 0 -> addReply(y, <<0>>)
        [] OTHER -> addReply(Dirty(DelIfEmptySet(notifyKeyspaceEvent(
                      signalModifiedKey(w, k), "srem", k), k), deleted), <<deleted>>)

smoveCommand(y, src, dst, e) ==
  LET add(w) == IF setTypeIsMember(w.db[dst], e) THEN w
                ELSE Dirty(notifyKeyspaceEvent(dbOverwrite(w, dst, setTypeAdd(w.db[dst], e)), "sadd", dst), 1)
      made(w) == IF Exists(w, dst) THEN w ELSE dbAdd(w, dst, setTypeCreate(e))
      removed(z) == DelIfEmptySet(notifyKeyspaceEvent(
                      dbOverwrite(z, src, setTypeRemove(y.o, e)), "srem", src), src)
      on(z) == CASE y.o = NoObj -> addReply(z, <<0>>)
                 [] y.o # NoObj /\ (checkType(y.o, "set") \/ (z.o # NoObj /\ checkType(z.o, "set"))) -> WrongType(z)
                 [] y.o.t = "set" /\ z.o.t \in {"none", "set"} /\ (src = dst \/ ~setTypeIsMember(y.o, e)) ->
                      addReply(z, <<IF setTypeIsMember(y.o, e) THEN 1 ELSE 0>>)
                 [] OTHER -> add(Dirty(signalModifiedKey(signalModifiedKey(made(removed(z)), src), dst), 1))
  IN  on(lookupKeyWrite(y, dst))

sismemberCommand(y, k, e) ==
  IF y.o # NoObj /\ checkType(y.o, "set") THEN WrongType(y)
  ELSE addReply(y, <<IF y.o # NoObj /\ setTypeIsMember(y.o, e) THEN 1 ELSE 0>>)
scardCommand(y, k) ==
  IF y.o # NoObj /\ checkType(y.o, "set") THEN WrongType(y) ELSE addReply(y, <<setTypeSize(y.o)>>)

\* SPOP k: propagated as SREM of what was drawn.
\* Mutant: SPOP is propagated as it came, and the slave draws for itself.
SpopVerbatim(y, k) ==
  CASE y.o = NoObj -> y
    [] y.o # NoObj /\ checkType(y.o, "set") -> WrongType(y)
    [] OTHER -> Dirty(signalModifiedKey(DelIfEmptySet(
                  dbOverwrite(y, k, setTypeRemove(y.o, setTypeRandomElement(y, y.o))), k), k), 1)
spopCommand(y, k) ==
  LET pop(e) == rewriteClientCommandVector(notifyKeyspaceEvent(
                  dbOverwrite(y, k, setTypeRemove(y.o, e)), "spop", k), Command("srem", <<k>>, <<e>>, {}, 0))
  IN  CASE y.o = NoObj -> y
        [] y.o # NoObj /\ checkType(y.o, "set") -> WrongType(y)
        [] OTHER -> Dirty(signalModifiedKey(DelIfEmptySet(pop(setTypeRandomElement(y, y.o)), k), k), 1)

SPOP_MOVE_STRATEGY_MUL == 5
\* SPOP k n: the whole set is a DEL; else one SREM per element drawn replaces the
\* command.  With few elements remaining, those are drawn and moved to a new set.
PopAll(y, k) == rewriteClientCommandVector(notifyKeyspaceEvent(dbDelete(y, k), "del", k),
                                           Command("del", <<k>>, <<>>, {}, 0))
PopSome(y, k, rest, gone) ==
  preventCommandPropagation(
    FoldLeft(LAMBDA w, e : alsoPropagate(w, Command("srem", <<k>>, <<e>>, {}, 0)), dbOverwrite(y, k, rest), gone))
PopCount(y, k, drawn, count) ==
  LET remaining == Len(drawn) - count
      gone == SubSeq(drawn, 1, count)
  IN  IF count >= Len(drawn) THEN PopAll(y, k)
      ELSE IF remaining * SPOP_MOVE_STRATEGY_MUL > count
      THEN PopSome(y, k, FoldLeft(setTypeRemove, y.o, gone), gone)
      ELSE PopSome(y, k, AddAll(setTypeCreate(drawn[1]), SubSeq(drawn, 1, remaining)),
                   SubSeq(drawn, remaining + 1, Len(drawn)))
spopWithCountCommand(x, k, l) ==
  LET on(y, count) ==
        CASE y.o # NoObj /\ checkType(y.o, "set") -> WrongType(y)
          [] y.o.t \in {"none", "set"} /\ (y.o = NoObj \/ count = 0) -> y
          [] OTHER -> Dirty(signalModifiedKey(PopCount(notifyKeyspaceEvent(y, "spop", k), k,
                                                       Draw(y, Members(y.o)), count), k), count + 1)
  IN  IF l < 0 THEN addReplyError(x, "out of range") ELSE on(lookupKeyRead(x, k), l % UintMod)

\* SRANDMEMBER k l: l different members, or -l drawn with repetition.
srandmemberWithCountCommand(y, k, l) ==
  LET drawn == Draw(y, Members(y.o))
      count == IF l >= 0 THEN l % UintMod ELSE -l
  IN  CASE y.o # NoObj /\ checkType(y.o, "set") -> WrongType(y)
        [] y.o.t \in {"none", "set"} /\ (y.o = NoObj \/ count = 0) -> y
        [] y.o.t = "set" /\ count > 0 /\ l < 0 -> addReply(y, [i \in 1 .. count |-> drawn[1]])
        [] OTHER -> addReply(y, IF count >= Len(drawn) THEN drawn ELSE SubSeq(drawn, 1, count))

---------------------------------------------------------------------------
\* The sources are looked up in order until one has the wrong type; STORE variants look
\* them up for writing.
Source(x, k, store) == IF store THEN lookupKeyWrite(x, k) ELSE lookupKeyRead(x, k)
\* What replaces the target of a STORE variant.
StoreSet(x, dst, o, event) ==
  Dirty(signalModifiedKey(
    IF setTypeSize(o) > 0 THEN notifyKeyspaceEvent(dbAdd(dbDelete(x, dst), dst, o), event, dst)
    ELSE IF Exists(x, dst) THEN notifyKeyspaceEvent(dbDelete(x, dst), "del", dst) ELSE x, dst), 1)
AnswerSet(x, o) == addReply(x, Draw(x, Members(o)))

\* SINTER, SINTERSTORE (dst # <<>>): a missing source ends the command at once; the
\* smallest set is walked and its elements looked up in the others.
Intersection(sets, least) ==
  AddAll(createIntsetObject,
         SelectSeq(SetToSeq(Members(sets[least])), LAMBDA e : \A j \in DOMAIN sets : setTypeIsMember(sets[j], e)))
SmallestFirst(sets) ==
  CHOOSE i \in DOMAIN sets : \A j \in DOMAIN sets : setTypeSize(sets[i]) <= setTypeSize(sets[j])
sinterGenericCommand(x, ks, dst) ==
  LET store == dst # <<>>
      answer(y, o) == IF store THEN StoreSet(y, dst, o, "sinterstore") ELSE AnswerSet(y, o)
      all(y, sets) == answer(y, Intersection(sets, SmallestFirst(sets)))
      on(y) == CASE y.o.t = "set" -> all(y, [i \in DOMAIN ks |-> y.db[ks[i]]])
                 [] y.o = NoObj -> IF store /\ Exists(y, dst)
                                   THEN Dirty(signalModifiedKey(dbDelete(y, dst), dst), 1) ELSE y
                 [] OTHER -> WrongType(y)
  IN  on(FoldLeft(LAMBDA y, i : IF i > 1 /\ y.o.t # "set" THEN y ELSE Source(y, ks[i], store),
                  x, [i \in DOMAIN ks |-> i]))

\* The two algorithms of SDIFF, chosen by the work they take.
DiffByLookup(sets) ==
  AddAll(createIntsetObject,
         SelectSeq(SetToSeq(Members(sets[1])),
                   LAMBDA e : \A j \in 2 .. Len(sets) : sets[j] = NoObj \/ ~setTypeIsMember(sets[j], e)))
DiffByRemoval(sets) ==
  FoldLeft(LAMBDA o, j : IF j = 1 THEN AddAll(o, SetToSeq(Members(sets[j])))
                         ELSE FoldLeft(setTypeRemove, o, SetToSeq(Members(sets[j]))),
           createIntsetObject, [j \in DOMAIN sets |-> j])
DiffAlgo(sets) ==
  LET There == {j \in DOMAIN sets : sets[j] # NoObj}
      one == (Cardinality(There) * setTypeSize(sets[1])) \div 2
      two == FoldLeft(LAMBDA n, j : n + setTypeSize(sets[j]), 0, [j \in DOMAIN sets |-> j])
  IN  IF one <= two THEN 1 ELSE 2
Union(sets) == FoldLeft(LAMBDA o, s : AddAll(o, SetToSeq(Members(s))), createIntsetObject, sets)
UnionOrDiff(sets, op) ==
  CASE op = "union" -> Union(sets)
    [] op = "diff" /\ sets[1] = NoObj -> createIntsetObject
    [] OTHER -> IF DiffAlgo(sets) = 1 THEN DiffByLookup(sets) ELSE DiffByRemoval(sets)
sunionDiffGenericCommand(x, ks, dst, op) ==
  LET answer(y, o) ==
        IF dst = <<>> THEN AnswerSet(y, o)
        ELSE StoreSet(y, dst, o, IF op = "union" THEN "sunionstore" ELSE "sdiffstore")
      on(y) == IF y.o.t \notin {"none", "set"} THEN WrongType(y)
               ELSE answer(y, UnionOrDiff([i \in DOMAIN ks |-> y.db[ks[i]]], op))
  IN  on(FoldLeft(LAMBDA y, k : IF y.o.t \notin {"none", "set"} THEN y ELSE Source(y, k, dst # <<>>), x, ks))
=============================================================================
