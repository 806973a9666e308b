--------------------------------- MODULE RedisDict ---------------------------------
(* The hash table of dict.c: two tables during an incremental rehash, safe          *)
(* iterators that pause it, and the cursor of dictScan, which keeps no state        *)
(* between calls while other commands add, delete, grow, shrink and rehash.         *)
(* A table is a sequence of chains; the empty sequence is a table not allocated.    *)
EXTENDS Integers, Sequences, FiniteSets, SequencesExt, FiniteSetsExt

CONSTANTS DictKeys,               \* keys, numbered from 1
          DictHash,               \* DictHash[k]: dictHashKey
          DICT_HT_INITIAL_SIZE,
          dict_force_resize_ratio,
          DictStarts,             \* bound: <<n, del>>: n keys were added and del deleted at first
          DictOps                 \* bound: operations of a behaviour

VARIABLE d   \* the dictionary, with the scan and the iterator that are under way

End == -1   \* dictNext returns NULL

InTable(t) == UNION {Range(t[i]) : i \in DOMAIN t}
InDict(r) == InTable(r.ht[1]) \cup InTable(r.ht[2])
Used(t) == Len(FlattenSeq(t))
Slot(t, h) == (h % Len(t)) + 1
dictIsRehashing(r) == r.rehashidx # -1

-----------------------------------------------------------------------------------
dictNextPower(size) ==
  DICT_HT_INITIAL_SIZE * 2^Min({k \in 0..size : DICT_HT_INITIAL_SIZE * 2^k >= size})

dictExpand(r, size) ==
  LET n == [i \in 1..dictNextPower(size) |-> <<>>]
  IN IF dictIsRehashing(r) \/ Used(r.ht[1]) > size \/ Len(n) = Len(r.ht[1]) THEN r
     ELSE IF r.ht[1] = <<>> THEN [r EXCEPT !.ht[1] = n]
     ELSE [r EXCEPT !.ht[2] = n, !.rehashidx = 0]

dictResize(r) ==
  IF ~r.resize \/ dictIsRehashing(r) THEN r
  ELSE dictExpand(r, Max({Used(r.ht[1]), DICT_HT_INITIAL_SIZE}))

dictExpandIfNeeded(r) ==
  LET size == Len(r.ht[1])
      used == Used(r.ht[1])
  IN IF dictIsRehashing(r) THEN r
     ELSE IF size = 0 THEN dictExpand(r, DICT_HT_INITIAL_SIZE)
     ELSE IF used >= size /\ (r.resize \/ used \div size > dict_force_resize_ratio)
     THEN dictExpand(r, used * 2) ELSE r

(* The chain of bucket rehashidx moves, entry by entry, to the other table. *)
MoveBucket(r) ==
  LET push(t, k) == [t EXCEPT ![Slot(t, DictHash[k])] = <<k>> \o @]
      i == r.rehashidx + 1
  IN [r EXCEPT !.ht = <<[r.ht[1] EXCEPT ![i] = <<>>], FoldLeft(push, r.ht[2], r.ht[1][i])>>,
               !.rehashidx = @ + 1]

(* At most n buckets move and at most 10 n empty ones are looked at. *)
dictRehash(r, n) ==
  LET ahead(a) == Min({i \in a.rehashidx..(Len(a.ht[1]) - 1) : a.ht[1][i + 1] # <<>>}) - a.rehashidx
      step(a, ignored) ==
        IF a.visits = 0 \/ Used(a.r.ht[1]) = 0 THEN a
        ELSE IF ahead(a.r) >= a.visits
        THEN [visits |-> 0, r |-> [a.r EXCEPT !.rehashidx = @ + a.visits]]
        ELSE [visits |-> a.visits - ahead(a.r),
              r |-> MoveBucket([a.r EXCEPT !.rehashidx = @ + ahead(a.r)])]
      done(a) == IF Used(a.ht[1]) > 0 THEN a
                 ELSE [a EXCEPT !.ht = <<a.ht[2], <<>>>>, !.rehashidx = -1]
  IN IF ~dictIsRehashing(r) THEN r
     ELSE done(FoldLeft(step, [visits |-> 10 * n, r |-> r],
                        [i \in 1..Min({n, Len(r.ht[1])}) |-> i]).r)

dictRehashMilliseconds(r) == dictRehash(r, 100)

dictRehashStep(r) == IF r.iterators = 0 THEN dictRehash(r, 1) ELSE r

-----------------------------------------------------------------------------------
dictFind(r, k) ==
  \E t \in IF dictIsRehashing(r) THEN {1, 2} ELSE {1} :
    r.ht[t] # <<>> /\ k \in Range(r.ht[t][Slot(r.ht[t], DictHash[k])])

dictAddRaw(r, k) ==
  LET into(y) == IF dictIsRehashing(y) THEN 2 ELSE 1
      add(y, t) == IF dictFind(y, k) THEN y
                   ELSE [y EXCEPT !.ht[t][Slot(y.ht[t], DictHash[k])] = <<k>> \o @]
      grown(y) == add(y, into(y))
  IN grown(dictExpandIfNeeded(dictRehashStep(r)))

dictGenericDelete(r, k) ==
  LET without(t) == IF t = <<>> THEN t
                    ELSE [t EXCEPT ![Slot(t, DictHash[k])] = SelectSeq(@, LAMBDA x : x # k)]
      del(y) == [y EXCEPT !.ht = <<without(y.ht[1]), without(y.ht[2])>>]
  IN IF r.ht[1] = <<>> THEN r ELSE del(dictRehashStep(r))

dictEmpty(r) == [r EXCEPT !.ht = << <<>>, <<>> >>, !.rehashidx = -1, !.iterators = 0]

(* The keys that dictGetRandomKey can draw: buckets already moved are not looked at. *)
dictGetRandomKey(r) ==
  LET from(y) == IF dictIsRehashing(y) THEN y.rehashidx + 1 ELSE 1
      draw(y) == UNION {Range(y.ht[1][i]) : i \in from(y)..Len(y.ht[1])} \cup InTable(y.ht[2])
  IN IF InDict(r) = {} THEN {} ELSE draw(dictRehashStep(r))

(* The rehash steps of dictGetSomeKeys. *)
dictGetSomeKeys(r, count) ==
  FoldLeft(LAMBDA y, i : dictRehashStep(y), r,
           [i \in 1..Min({count, Cardinality(InDict(r))}) |-> i])

-----------------------------------------------------------------------------------
(* dictScan.  The cursor counts with its bits reversed, over the mask of the smaller *)
(* table; of the larger one all the buckets a smaller bucket expands to are visited. *)
rev(v, size) ==
  LET bits == Max({k \in 0..size : 2^k <= size})
  IN FoldSet(LAMBDA i, a : a + ((v \div 2^i) % 2) * 2^(bits - 1 - i), 0, 0..(bits - 1))

(* A plausible slip: the cursor counts upwards. *)
NextUpwards(v, size) == ((v % size) + 1) % size

NextCursor(v, size) == rev((rev(v % size, size) + 1) % size, size)

(* What a call with cursor v visits, and the cursor it returns. *)
dictScan(r, v) ==
  LET small == IF dictIsRehashing(r) /\ Len(r.ht[1]) > Len(r.ht[2]) THEN r.ht[2] ELSE r.ht[1]
      large == IF small = r.ht[1] THEN r.ht[2] ELSE r.ht[1]
      s0 == Len(small)
      s1 == Len(large)
      expansions == {(v % s0) + s0 * h : h \in ((v % s1) \div s0)..(s1 \div s0 - 1)}
  IN IF InDict(r) = {} THEN [seen |-> {}, v |-> 0]
     ELSE [seen |-> Range(small[Slot(small, v)]) \cup
                    IF dictIsRehashing(r) THEN UNION {Range(large[i + 1]) : i \in expansions} ELSE {},
           v |-> NextCursor(v, s0)]

(* dictNext of a safe iterator: the entry after it.last, over both tables when the   *)
(* first one is exhausted during a rehash.  The next entry of a chain was saved when *)
(* the last one was returned; a bucket is looked at when it is entered.              *)
dictNext(r, it) ==
  LET places == {<<t, i>> \in {1, 2} \X (1..Max({Len(r.ht[1]), Len(r.ht[2]), 1})) :
                   i <= Len(r.ht[t]) /\ (t = 2 => dictIsRehashing(r)) /\ r.ht[t][i] # <<>>
                   /\ (t > it.table \/ (t = it.table /\ i > it.index))}
      at == CHOOSE x \in places : \A y \in places : x[1] < y[1] \/ (x[1] = y[1] /\ x[2] <= y[2])
      chain == r.ht[at[1]][at[2]]
  IN IF it.rest # <<>> THEN [it EXCEPT !.last = Head(it.rest), !.rest = Tail(it.rest)]
     ELSE IF places = {} THEN [it EXCEPT !.last = End]
     ELSE [it EXCEPT !.table = at[1], !.index = at[2], !.last = chain[1], !.rest = Tail(chain)]

(* The keys in expansions of the cursor's bucket that the call passes over although  *)
(* the reversed count has not reached them: the loop goes on upwards from the        *)
(* cursor's own expansion.  There are none unless the tables differ by four or more. *)
PassedOver(r, v) ==
  LET s0 == Min({Len(r.ht[1]), Len(r.ht[2])})
      s1 == Max({Len(r.ht[1]), Len(r.ht[2])})
      large == IF Len(r.ht[1]) = s1 THEN r.ht[1] ELSE r.ht[2]
      at == (v % s1) \div s0
      ahead == {h \in 0..(at - 1) : rev(h, s1 \div s0) > rev(at, s1 \div s0)}
  IN IF ~dictIsRehashing(r) THEN {}
     ELSE UNION {Range(large[(v % s0) + s0 * h + 1]) : h \in ahead}

-----------------------------------------------------------------------------------
NoScan == [on |-> FALSE, v |-> 0, seen |-> {}, stable |-> {}, missed |-> {}]
NoIter == [on |-> FALSE, table |-> 1, index |-> 0, last |-> 0, rest |-> <<>>,
           got |-> <<>>, stable |-> {}]

(* After a change of the dictionary: what was there all the time. *)
Kept(r) == [r EXCEPT !.scan.stable = @ \cap r.keys, !.it.stable = @ \cap r.keys]
Spent(r) == [r EXCEPT !.ops = @ + 1]

AddKey(k) == d' = Kept(Spent([dictAddRaw(d, k) EXCEPT !.keys = @ \cup {k}]))

(* Under an iterator only the entry it returned last may be deleted. *)
Delete(k) ==
  /\ d.it.on => d.it.last = k
  /\ d' = Kept(Spent([dictGenericDelete(d, k) EXCEPT !.keys = @ \ {k}]))
Find == d' = Spent(dictRehashStep(d))
SomeKeys == d' = Spent(dictGetSomeKeys(d, 2))
Rehash == ~d.it.on /\ d' = Spent(dictRehashMilliseconds(d))
Resize == d' = Spent(dictResize(d))
CanResize == d' = Spent([d EXCEPT !.resize = ~@])
Clear == ~d.it.on /\ d' = Kept(Spent([dictEmpty(d) EXCEPT !.keys = {}]))

StartScan ==
  /\ "scan" \notin d.done /\ ~d.scan.on
  /\ d' = [d EXCEPT !.scan = [NoScan EXCEPT !.on = TRUE, !.stable = d.keys]]
Scan ==
  /\ d.scan.on
  /\ \E y \in {dictScan(d, d.scan.v)} :
       d' = [d EXCEPT !.scan.v = y.v, !.scan.seen = @ \cup y.seen,
                      !.scan.missed = @ \cup PassedOver(d, d.scan.v),
                      !.scan.on = y.v # 0, !.done = IF y.v = 0 THEN @ \cup {"scan"} ELSE @]

StartIterator ==
  /\ "iterator" \notin d.done /\ ~d.it.on
  /\ d' = [d EXCEPT !.iterators = @ + 1, !.it = [NoIter EXCEPT !.on = TRUE, !.stable = d.keys]]
Iterate ==
  /\ d.it.on
  /\ \E y \in {dictNext(d, d.it)} :
       IF y.last = End
       THEN d' = [d EXCEPT !.iterators = @ - 1, !.it.on = FALSE, !.done = @ \cup {"iterator"}]
       ELSE d' = [d EXCEPT !.it = [y EXCEPT !.got = Append(@, y.last)]]

dictCreate == [ht |-> << <<>>, <<>> >>, rehashidx |-> -1, iterators |-> 0, resize |-> TRUE,
               keys |-> {}, scan |-> NoScan, it |-> NoIter, done |-> {}, ops |-> 0]

(* The dictionary after the first keys were added and some deleted again. *)
DictInit ==
  \E start \in DictStarts :
    LET added == FoldLeft(dictAddRaw, dictCreate, [i \in 1..start[1] |-> i])
    IN d = [FoldLeft(dictGenericDelete, added, SetToSeq(start[2])) EXCEPT
              !.keys = (1..start[1]) \ start[2]]

DictNext ==
  \/ /\ d.ops < DictOps
     /\ \/ \E k \in DictKeys : AddKey(k) \/ Delete(k)
        \/ Find \/ SomeKeys \/ Rehash \/ Resize \/ CanResize \/ Clear
  \/ StartScan \/ Scan \/ StartIterator \/ Iterate
==================================================================================
