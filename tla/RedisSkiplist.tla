------------------------------- MODULE RedisSkiplist -------------------------------
(* The two representations of a sorted set in t_zset.c: the skiplist with its       *)
(* forward pointers and spans on every level, and the ziplist of alternating        *)
(* elements and scores.  Elements and scores are numbers; a node of the skiplist is *)
(* named by its element.                                                            *)
EXTENDS Integers, Sequences, FiniteSets, SequencesExt, FiniteSetsExt

CONSTANTS ZElements, ZScores,
          ZSKIPLIST_MAXLEVEL

VARIABLE z   \* [zsl, zzl, elems: the set <<score, element>> both must represent]

Header == 0
Nil == -1
Nodes == ZElements \cup {Header}
Levels == 1..ZSKIPLIST_MAXLEVEL

(* Elements are ordered by score, then by their bytes. *)
Less(a, b) == a[1] < b[1] \/ (a[1] = b[1] /\ a[2] < b[2])

zslCreate ==
  [level |-> 1, length |-> 0, tail |-> Nil,
   score |-> [x \in Nodes |-> 0], back |-> [x \in Nodes |-> Nil],
   fwd |-> [i \in Levels |-> [x \in Nodes |-> Nil]],
   span |-> [i \in Levels |-> [x \in Nodes |-> 0]]]

(* From the header, level by level, as long as Go(next node, its rank) allows:       *)
(* update[i], rank[i] are the last node on level i and its rank.                     *)
Descend(l, Go(_, _)) ==
  LET on(i, a, k) == LET y == l.fwd[i][a.x] IN
        IF y # Nil /\ Go(y, a.r + l.span[i][a.x]) THEN [x |-> y, r |-> a.r + l.span[i][a.x]] ELSE a
      along(i, a) == FoldLeft(LAMBDA b, k : on(i, b, k), a, [k \in 1..l.length |-> k])
      down(acc, j) ==
        LET i == l.level + 1 - j IN
        LET a == along(i, [x |-> acc.x, r |-> acc.r])
        IN [x |-> a.x, r |-> a.r, update |-> <<a.x>> \o acc.update, rank |-> <<a.r>> \o acc.rank]
  IN FoldLeft(down, [x |-> Header, r |-> 0, update |-> <<>>, rank |-> <<>>],
              [j \in 1..l.level |-> j])

At(l, x) == <<l.score[x], x>>

(* A plausible slip: the levels above the new node keep their spans. *)
SpanKept(spans, x) == spans

(* A link that passes over the new node. *)
SpanAbove(spans, x) == [spans EXCEPT ![x] = @ + 1]

zslInsert(l, level, score, e) ==
  LET w == Descend(l, LAMBDA y, r : Less(At(l, y), <<score, e>>))
      up(i) == IF i <= l.level THEN w.update[i] ELSE Header
      rk(i) == IF i <= l.level THEN w.rank[i] ELSE 0
      sp(i) == IF i <= l.level THEN l.span[i][up(i)] ELSE l.length
      next == l.fwd[1][up(1)]
  IN [l EXCEPT
       !.level = Max({@, level}), !.length = @ + 1, !.score[e] = score,
       !.fwd = [i \in Levels |-> IF i > level THEN @[i]
                  ELSE [@[i] EXCEPT ![e] = l.fwd[i][up(i)], ![up(i)] = e]],
       !.span = [i \in Levels |->
                  IF i <= level
                  THEN [@[i] EXCEPT ![e] = sp(i) - (w.r - rk(i)), ![up(i)] = w.r - rk(i) + 1]
                  ELSE IF i <= l.level THEN SpanAbove(@[i], up(i)) ELSE @[i]],
       !.back = [x \in Nodes |-> IF x = e THEN (IF up(1) = Header THEN Nil ELSE up(1))
                                 ELSE IF x = next THEN e ELSE @[x]],
       !.tail = IF next = Nil THEN e ELSE @]

zslDeleteNode(l, x, update) ==
  LET next == l.fwd[1][x]
      unlinked == [l EXCEPT
        !.length = @ - 1,
        !.span = [i \in Levels |-> IF i > l.level THEN @[i]
                    ELSE IF l.fwd[i][update[i]] = x
                    THEN [@[i] EXCEPT ![update[i]] = @ + l.span[i][x] - 1, ![x] = 0]
                    ELSE [@[i] EXCEPT ![update[i]] = @ - 1]],
        !.fwd = [i \in Levels |-> IF i <= l.level /\ l.fwd[i][update[i]] = x
                    THEN [@[i] EXCEPT ![update[i]] = l.fwd[i][x], ![x] = Nil] ELSE @[i]],
        !.back = [y \in Nodes |-> IF y = next THEN l.back[x] ELSE IF y = x THEN Nil ELSE @[y]],
        !.tail = IF next = Nil THEN l.back[x] ELSE @, !.score[x] = 0]
      lowered(y) == [y EXCEPT !.level = Max({1} \cup {i \in 1..@ : y.fwd[i][Header] # Nil})]
  IN lowered(unlinked)

zslDelete(l, score, e) ==
  LET w == Descend(l, LAMBDA y, r : Less(At(l, y), <<score, e>>))
      x == l.fwd[1][w.x]
  IN IF x = e /\ l.score[x] = score THEN zslDeleteNode(l, x, w.update) ELSE l

(* Deletes the nodes after update, in order, as long as In(node, rank) holds. *)
DeleteAfter(l, update, r, In(_, _)) ==
  LET step(a, k) == LET x == a.l.fwd[1][update[1]] IN
        IF a.on /\ x # Nil /\ In(x, a.r)
        THEN [on |-> TRUE, l |-> zslDeleteNode(a.l, x, update), r |-> a.r + 1]
        ELSE [a EXCEPT !.on = FALSE]
  IN FoldLeft(step, [on |-> TRUE, l |-> l, r |-> r], [k \in 1..l.length |-> k]).l

(* Ranges: [min, max, minex, maxex], of scores or of elements. *)
zslValueGteMin(v, g) == IF g.minex THEN v > g.min ELSE v >= g.min
zslValueLteMax(v, g) == IF g.maxex THEN v < g.max ELSE v <= g.max
EmptyRange(g) == g.min > g.max \/ (g.min = g.max /\ (g.minex \/ g.maxex))

(* Lexicographical ranges name elements; the limits - and + are below and above all. *)
Key(l, x, lex) == IF lex THEN x ELSE l.score[x]

zslIsInRange(l, g, lex) ==
  ~EmptyRange(g) /\ l.length > 0 /\ zslValueGteMin(Key(l, l.tail, lex), g)
  /\ zslValueLteMax(Key(l, l.fwd[1][Header], lex), g)

zslFirstInRange(l, g, lex) ==
  LET x == l.fwd[1][Descend(l, LAMBDA y, r : ~zslValueGteMin(Key(l, y, lex), g)).x]
  IN IF zslIsInRange(l, g, lex) /\ zslValueLteMax(Key(l, x, lex), g) THEN x ELSE Nil

zslLastInRange(l, g, lex) ==
  LET x == Descend(l, LAMBDA y, r : zslValueLteMax(Key(l, y, lex), g)).x
  IN IF zslIsInRange(l, g, lex) /\ zslValueGteMin(Key(l, x, lex), g) THEN x ELSE Nil

zslDeleteRangeByScore(l, g, lex) ==
  LET w == Descend(l, LAMBDA y, r : ~zslValueGteMin(Key(l, y, lex), g))
  IN DeleteAfter(l, w.update, 0, LAMBDA x, r : zslValueLteMax(Key(l, x, lex), g))

zslDeleteRangeByRank(l, from, to) ==
  LET w == Descend(l, LAMBDA y, r : r < from)
  IN DeleteAfter(l, w.update, w.r + 1, LAMBDA x, r : r <= to)

zslGetRank(l, score, e) ==
  LET w == Descend(l, LAMBDA y, r : ~Less(<<score, e>>, At(l, y)))
  IN IF w.x = e THEN w.r ELSE 0

zslGetElementByRank(l, rank) ==
  LET w == Descend(l, LAMBDA y, r : r <= rank) IN IF w.r = rank THEN w.x ELSE Nil

-----------------------------------------------------------------------------------
(* The ziplist: pairs <<score, element>> in order, searched from the front. *)
zzlKey(p, lex) == IF lex THEN p[2] ELSE p[1]

zzlFind(l, e) == SelectInSeq(l, LAMBDA p : p[2] = e)

zzlInsert(l, e, score) ==
  LET i == SelectInSeq(l, LAMBDA p : Less(<<score, e>>, p))
  IN IF i = 0 THEN Append(l, <<score, e>>) ELSE InsertAt(l, i, <<score, e>>)

zzlDelete(l, i) == RemoveAt(l, i)

zzlIsInRange(l, g, lex) ==
  ~EmptyRange(g) /\ l # <<>> /\ zslValueGteMin(zzlKey(Last(l), lex), g)
  /\ zslValueLteMax(zzlKey(Head(l), lex), g)

zzlFirstInRange(l, g, lex) ==
  LET i == SelectInSeq(l, LAMBDA p : zslValueGteMin(zzlKey(p, lex), g))
  IN IF zzlIsInRange(l, g, lex) /\ zslValueLteMax(zzlKey(l[i], lex), g) THEN i ELSE 0

zzlLastInRange(l, g, lex) ==
  LET i == SelectLastInSeq(l, LAMBDA p : zslValueLteMax(zzlKey(p, lex), g))
  IN IF zzlIsInRange(l, g, lex) /\ zslValueGteMin(zzlKey(l[i], lex), g) THEN i ELSE 0

zzlDeleteRangeByScore(l, g, lex) ==
  LET i == zzlFirstInRange(l, g, lex)
      beyond == {k \in i..Len(l) : ~zslValueLteMax(zzlKey(l[k], lex), g)}
      j == IF beyond = {} THEN Len(l) + 1 ELSE Min(beyond)
  IN IF i = 0 THEN l ELSE SubSeq(l, 1, i - 1) \o SubSeq(l, j, Len(l))

zzlDeleteRangeByRank(l, from, to) == SubSeq(l, 1, from - 1) \o SubSeq(l, to + 1, Len(l))

(* Conversions; levels: the level zslRandomLevel draws for each element. *)
ToSkiplist(l, levels) ==
  FoldLeft(LAMBDA s, p : zslInsert(s, levels[p[2]], p[1], p[2]), zslCreate, l)

ToZiplist(l) ==
  FoldLeft(LAMBDA a, k : IF a.x = Nil THEN a
             ELSE [zl |-> Append(a.zl, At(l, a.x)), x |-> l.fwd[1][a.x]],
           [zl |-> <<>>, x |-> l.fwd[1][Header]], [k \in 1..l.length |-> k]).zl

-----------------------------------------------------------------------------------
Ranges(lex) ==
  [min : (IF lex THEN ZElements ELSE ZScores) \cup {0}, minex : BOOLEAN,
   max : (IF lex THEN ZElements ELSE ZScores) \cup {0}, maxex : BOOLEAN]

SortedBecomes(zsl, zzl, elems) == z' = [zsl |-> zsl, zzl |-> zzl, elems |-> elems]

(* ZADD of an element, which is taken out first when it is there. *)
AddElement(e, score, level) ==
  LET old == {p \in z.elems : p[2] = e}
      out(l) == IF old = {} THEN l ELSE zslDelete(l, (CHOOSE p \in old : TRUE)[1], e)
      zout(l) == IF old = {} THEN l ELSE zzlDelete(l, zzlFind(l, e))
  IN SortedBecomes(zslInsert(out(z.zsl), level, score, e), zzlInsert(zout(z.zzl), e, score),
             (z.elems \ old) \cup {<<score, e>>})

RemoveOne(p) ==
  SortedBecomes(zslDelete(z.zsl, p[1], p[2]), zzlDelete(z.zzl, zzlFind(z.zzl, p[2])), z.elems \ {p})

InRange(g, lex) == {p \in z.elems : zslValueGteMin(zzlKey(p, lex), g) /\ zslValueLteMax(zzlKey(p, lex), g)}
SameScore == \A p, q \in z.elems : p[1] = q[1]

(* ZREMRANGEBYSCORE, and ZREMRANGEBYLEX where all scores are equal. *)
RemoveRange(g, lex) ==
  /\ z.elems # {} /\ (lex => SameScore)
  /\ SortedBecomes(zslDeleteRangeByScore(z.zsl, g, lex), zzlDeleteRangeByScore(z.zzl, g, lex),
             z.elems \ InRange(g, lex))

RemoveRanks(from, to) ==
  SortedBecomes(zslDeleteRangeByRank(z.zsl, from, to), zzlDeleteRangeByRank(z.zzl, from, to),
          {p \in z.elems : Cardinality({q \in z.elems : ~Less(p, q)}) \notin from..to})

(* zsetConvert, there and back. *)
Convert(levels) == SortedBecomes(ToSkiplist(z.zzl, levels), ToZiplist(z.zsl), z.elems)

SkiplistInit == z = [zsl |-> zslCreate, zzl |-> <<>>, elems |-> {}]

SkiplistNext ==
  \/ \E e \in ZElements, s \in ZScores, level \in Levels : AddElement(e, s, level)
  \/ \E p \in z.elems : RemoveOne(p)
  \/ \E lex \in BOOLEAN : \E g \in Ranges(lex) : RemoveRange(g, lex)
  \/ \E from \in 1..Cardinality(z.elems) : \E to \in from..Cardinality(z.elems) : RemoveRanks(from, to)
  \/ \E levels \in [ZElements -> Levels] : z.elems # {} /\ Convert(levels)

-----------------------------------------------------------------------------------
Sorted == SetToSortSeq(z.elems, Less)
Place(i) == IF i = 0 THEN Nil ELSE z.zzl[i][2]
==================================================================================
