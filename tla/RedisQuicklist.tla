------------------------------- MODULE RedisQuicklist -------------------------------
(* The list representation of quicklist.c: a chain of ziplist nodes, the inner ones *)
(* LZF-compressed when list-compress-depth is set, as the list commands of t_list.c *)
(* use it.  A node is [v: its values, lzf: compressed?, re: recompress flag,        *)
(* forced: compressed because of that flag].                                        *)
EXTENDS Integers, Sequences, FiniteSets, SequencesExt, FiniteSetsExt

CONSTANTS QValues, QSize,       \* the values and their sizes in bytes
          QFills, QDepths,      \* list-max-ziplist-size, list-compress-depth
          QMaxLen,              \* bound on the length of the list
          MIN_COMPRESS_BYTES, SIZE_SAFETY_LIMIT, optimization_level

VARIABLE q   \* [nodes, count, dead: how the LZF bytes a ziplist call met came about, fill,
             \*  depth, vals: the list it must hold]

quicklistNew(fill, depth) ==
  [nodes |-> <<>>, count |-> 0, dead |-> "no", fill |-> fill, depth |-> depth, vals |-> <<>>]

quicklistCreateNode(v) == [v |-> v, lzf |-> FALSE, re |-> FALSE, forced |-> FALSE]

(* The ziplist header and trailer are 11 bytes, an entry its data and two lengths. *)
Overhead(sz) == (IF sz < 254 THEN 1 ELSE 5) + (IF sz < 64 THEN 1 ELSE IF sz < 16384 THEN 2 ELSE 5)
BlobLen(v) == 11 + FoldLeft(LAMBDA a, x : a + QSize[x] + Overhead(QSize[x]), 0, v)

-----------------------------------------------------------------------------
(* Compression. *)

quicklistCompressNode(n) ==
  IF n.lzf \/ BlobLen(n.v) < MIN_COMPRESS_BYTES THEN n
  ELSE [n EXCEPT !.lzf = TRUE, !.re = FALSE]

quicklistDecompressNode(n) == [n EXCEPT !.lzf = FALSE, !.forced = FALSE]

quicklistDecompressNodeForUse(n) ==
  IF n.lzf THEN [quicklistDecompressNode(n) EXCEPT !.re = TRUE] ELSE n

(* Head and tail, which pushes and pops use as they are. *)
Ends(ns) == {1, Len(ns)} \cap DOMAIN ns

(* A node whose flag is set is compressed wherever it is. *)
Recompress(ns, i) ==
  LET n == quicklistCompressNode(ns[i]) IN [ns EXCEPT ![i] = [n EXCEPT !.forced = n.lzf]]

(* __quicklistCompress: the outer nodes are decompressed; node i (0 for none) is     *)
(* compressed unless it is one of them, and from depth 2 on the first inner nodes    *)
(* too.  len is the length field, which the callers update afterwards.               *)
quicklistCompressInner(ns, len, depth, i) ==
  LET n == Len(ns)
      outer == 1..depth \cup n + 1 - depth..n
      beyond == IF depth > 1 THEN {depth + 1, n - depth} ELSE {}
      raw(k) == IF k \in outer THEN quicklistDecompressNode(ns[k]) ELSE ns[k]
      done(k) == IF n >= 2 * depth /\ (k \in beyond \/ (k = i /\ k \notin outer))
                 THEN quicklistCompressNode(raw(k)) ELSE raw(k)
  IN IF depth = 0 \/ len < 2 * depth THEN ns
     ELSE FoldLeft(LAMBDA s, k : Append(s, done(k)), <<>>, [k \in 1..n |-> k])

quicklistCompress(ns, len, depth, i) ==
  IF ns[i].re THEN Recompress(ns, i)
  ELSE quicklistCompressInner(ns, len, depth, i)

quicklistRecompressOnly(l, i) ==
  IF l.nodes[i].re THEN [l EXCEPT !.nodes = Recompress(@, i)] ELSE l

-----------------------------------------------------------------------------
(* Nodes. *)

(* Inserts a node beside node i of a non-empty chain and lets node i be compressed. *)
quicklistInsertNode(l, i, new, after) ==
  LET at == IF after THEN i + 1 ELSE i
      old == IF after THEN i ELSE i + 1
  IN [l EXCEPT !.nodes = IF @ = <<>> THEN <<new>>
        ELSE quicklistCompress(InsertAt(@, at, new), Len(@), l.depth, old)]

(* A plausible slip: the node that comes to an end of the list is not decompressed. *)
DelNodeKeepsCompressed(l, i) ==
  [l EXCEPT !.nodes = RemoveAt(@, i), !.count = @ - Len(l.nodes[i].v)]

quicklistDelNode(l, i) ==
  [l EXCEPT !.nodes = quicklistCompressInner(RemoveAt(@, i), Len(@), l.depth, 0),
            !.count = @ - Len(l.nodes[i].v)]

SizeMeetsOptimization(sz, fill) ==
  fill < 0 /\ -fill \in DOMAIN optimization_level /\ sz <= optimization_level[-fill]

NodeAllowInsert(l, i, x) ==
  /\ i \in DOMAIN l.nodes
  /\ LET n == l.nodes[i]
         sz == BlobLen(n.v) + QSize[x] + Overhead(QSize[x])
     IN SizeMeetsOptimization(sz, l.fill) \/ (sz <= SIZE_SAFETY_LIMIT /\ Len(n.v) < l.fill)

NodeAllowMerge(l, i, j) ==
  /\ {i, j} \subseteq DOMAIN l.nodes
  /\ LET v == l.nodes[i].v  w == l.nodes[j].v
         sz == BlobLen(v) + BlobLen(w) - 11
     IN SizeMeetsOptimization(sz, l.fill)
          \/ (sz <= SIZE_SAFETY_LIMIT /\ Len(v) + Len(w) <= l.fill)

(* A ziplist call on node i: on LZF bytes its outcome is not defined. *)
Access(l, i) ==
  [l EXCEPT !.dead = IF @ # "no" \/ ~l.nodes[i].lzf THEN @
                     ELSE IF l.nodes[i].forced THEN "forced" ELSE "compressed"]

ForUse(l, i) == [l EXCEPT !.nodes[i] = quicklistDecompressNodeForUse(@)]

PushEnd(l, i, x, head) ==
  [Access(l, i) EXCEPT !.nodes[i].v = IF head THEN <<x>> \o @ ELSE Append(@, x)]

quicklistPushHead(l, x) ==
  [(IF NodeAllowInsert(l, 1, x) THEN PushEnd(l, 1, x, TRUE)
    ELSE quicklistInsertNode(l, 1, quicklistCreateNode(<<x>>), FALSE)) EXCEPT !.count = @ + 1]

quicklistPushTail(l, x) ==
  LET t == Len(l.nodes) IN
  [(IF NodeAllowInsert(l, t, x) THEN PushEnd(l, t, x, FALSE)
    ELSE quicklistInsertNode(l, t, quicklistCreateNode(<<x>>), TRUE)) EXCEPT !.count = @ + 1]

quicklistAppendZiplist(l, v) ==
  [quicklistInsertNode(l, Len(l.nodes), quicklistCreateNode(v), TRUE)
     EXCEPT !.count = @ + Len(v)]

(* Deletes position k of the uncompressed node i. *)
quicklistDelIndex(l, i, k) ==
  LET m == [Access(l, i) EXCEPT !.nodes[i].v = RemoveAt(@, k), !.count = @ - 1]
  IN IF m.nodes[i].v = <<>> THEN quicklistDelNode(m, i) ELSE m

quicklistPopCustom(l, head) ==
  LET i == IF head THEN 1 ELSE Len(l.nodes)
  IN quicklistDelIndex(l, i, IF head THEN 1 ELSE Len(l.nodes[i].v))

(* The node and the position in it of the idx-th value (from 1). *)
NodeOf(ns, idx) ==
  Min({i \in DOMAIN ns : idx <= FoldLeft(LAMBDA a, n : a + Len(n.v), 0, SubSeq(ns, 1, i))})
OffsetIn(ns, idx) ==
  idx - FoldLeft(LAMBDA a, n : a + Len(n.v), 0, SubSeq(ns, 1, NodeOf(ns, idx) - 1))

quicklistIndex(l, idx) == ForUse(l, NodeOf(l.nodes, idx))

quicklistReplaceAtIndex(l, idx, x) ==
  LET i == NodeOf(l.nodes, idx)
      m == [quicklistIndex(l, idx) EXCEPT !.nodes[i].v[OffsetIn(l.nodes, idx)] = x]
  IN [m EXCEPT !.nodes = quicklistCompress(@, Len(@), l.depth, i)]

-----------------------------------------------------------------------------
(* Merging, splitting, inserting. *)

(* Merges node i + 1 into node i (the larger of the two ziplists is the one kept). *)
quicklistZiplistMerge(l, i) ==
  LET a == quicklistDecompressNode(l.nodes[i])
      b == quicklistDecompressNode(l.nodes[i + 1])
      first == Len(a.v) >= Len(b.v)
      keep == [(IF first THEN a ELSE b) EXCEPT !.v = a.v \o b.v]
      gone == [(IF first THEN b ELSE a) EXCEPT !.v = <<>>]
      ns == [l.nodes EXCEPT ![i] = IF first THEN keep ELSE gone,
                            ![i + 1] = IF first THEN gone ELSE keep]
      m == quicklistDelNode([l EXCEPT !.nodes = ns], IF first THEN i + 1 ELSE i)
  IN [m EXCEPT !.nodes = quicklistCompress(@, Len(@), l.depth, i)]

MergeIf(l, i) == IF NodeAllowMerge(l, i, i + 1) THEN quicklistZiplistMerge(l, i) ELSE l

quicklistMergeNodes(l, c) ==
  LET left == MergeIf(l, c - 2)
      c2 == c - (Len(l.nodes) - Len(left.nodes))
      right == MergeIf(left, c2 + 1)
      mid == MergeIf(right, c2 - 1)
      target == c2 - (Len(right.nodes) - Len(mid.nodes))
  IN MergeIf(mid, target)

(* Splits node i around offset o (from 0); the part for the new value is returned. *)
quicklistSplitNode(n, o, after) ==
  IF after THEN [stay |-> SubSeq(n.v, 1, o + 1), new |-> SubSeq(n.v, o + 2, Len(n.v))]
  ELSE [stay |-> SubSeq(n.v, o + 1, Len(n.v)), new |-> SubSeq(n.v, 1, o)]

InsertInNode(l, i, at, x) ==
  LET m == ForUse(l, i)
      p == [Access(m, i) EXCEPT !.nodes[i].v = InsertAt(@, at, x)]
  IN quicklistRecompressOnly(p, i)

InsertBySplit(l, i, o, x, after) ==
  LET m == ForUse(l, i)
      s == quicklistSplitNode(m.nodes[i], o, after)
      new == quicklistCreateNode(IF after THEN <<x>> \o s.new ELSE Append(s.new, x))
      p == quicklistInsertNode([m EXCEPT !.nodes[i].v = s.stay], i, new, after)
  IN quicklistMergeNodes(p, IF after THEN i ELSE i + 1)

quicklistInsert(l, i, o, x, after) ==
  LET n == l.nodes[i]
      full == ~NodeAllowInsert(l, i, x)
      atTail == after /\ o = Len(n.v)      \* never: o is the offset of an entry
      atHead == ~after /\ o = 0
      beside == IF after THEN i + 1 ELSE i - 1
      free == NodeAllowInsert(l, beside, x)
      m == CASE ~full -> InsertInNode(l, i, IF after THEN o + 2 ELSE o + 1, x)
             [] full /\ (atTail \/ atHead) /\ beside \in DOMAIN l.nodes /\ free ->
                  InsertInNode(l, beside, IF after THEN 1 ELSE Len(l.nodes[beside].v) + 1, x)
             [] full /\ (atTail \/ atHead) /\ beside \in DOMAIN l.nodes /\ ~free ->
                  quicklistInsertNode(l, i, quicklistCreateNode(<<x>>), after)
             [] OTHER -> InsertBySplit(l, i, o, x, after)
  IN [m EXCEPT !.count = @ + 1]

-----------------------------------------------------------------------------
(* Iteration: every node left behind is compressed again, the node where the         *)
(* iteration stops is not: listTypeReleaseIterator only frees the iterator.          *)

quicklistNext(l, i) ==
  LET m == ForUse(l, i) IN [m EXCEPT !.nodes = quicklistCompress(@, Len(@), l.depth, i)]

IterateTo(l, from, to) ==
  ForUse(FoldLeft(LAMBDA m, i : quicklistNext(m, i), l, [k \in 1..to - from |-> from + k - 1]), to)

IterateAll(l) == FoldLeft(LAMBDA m, i : quicklistNext(m, i), l, [k \in DOMAIN l.nodes |-> k])

-----------------------------------------------------------------------------
(* quicklistDelRange from the head (LTRIM's left part) or up to the tail (its right   *)
(* part): whole nodes go, the last one touched is cut.                               *)

CutNode(l, i, v) ==
  LET m == [ForUse(l, i) EXCEPT !.nodes[i].v = v, !.count = @ - (Len(l.nodes[i].v) - Len(v))]
  IN IF v = <<>> THEN quicklistDelNode(m, i)
     ELSE quicklistRecompressOnly(m, i)

DelRangeHead(l, extent) ==
  LET del(a, k) ==
        LET n == Len(a.l.nodes[1].v) IN
        CASE a.left = 0 -> a
          [] a.left >= n -> [l |-> quicklistDelNode(a.l, 1), left |-> a.left - n]
          [] OTHER -> [l |-> CutNode(a.l, 1, SubSeq(a.l.nodes[1].v, a.left + 1, n)), left |-> 0]
  IN IF extent = 0 THEN l
     ELSE FoldLeft(del, [l |-> quicklistIndex(l, 1), left |-> extent], l.nodes).l

DelRangeTail(l, extent) ==
  LET first == NodeOf(l.nodes, l.count - extent + 1)
      keep == OffsetIn(l.nodes, l.count - extent + 1) - 1
      m == quicklistIndex(l, l.count - extent + 1)
      c == CutNode(m, first, SubSeq(m.nodes[first].v, 1, keep))
      rest == IF keep = 0 THEN first ELSE first + 1
  IN IF extent = 0 THEN l
     ELSE FoldLeft(LAMBDA a, k : quicklistDelNode(a, rest), c, [k \in 1..Len(l.nodes) - first |-> k])

-----------------------------------------------------------------------------
(* The list commands.  An emptied list is a deleted key, the next push starts anew. *)

Became(l, vals) ==
  q' = IF vals = <<>> /\ l.dead = "no" THEN quicklistNew(q.fill, q.depth)
       ELSE [l EXCEPT !.vals = vals]

pushGenericCommand(head) ==
  \E x \in QValues :
    /\ Len(q.vals) < QMaxLen
    /\ Became(IF head THEN quicklistPushHead(q, x) ELSE quicklistPushTail(q, x),
              IF head THEN <<x>> \o q.vals ELSE Append(q.vals, x))

popGenericCommand(head) ==
  /\ q.vals # <<>>
  /\ Became(quicklistPopCustom(q, head), IF head THEN Tail(q.vals) ELSE Front(q.vals))

lsetCommand ==
  \E i \in DOMAIN q.vals, x \in QValues :
    Became(quicklistReplaceAtIndex(q, i, x), [q.vals EXCEPT ![i] = x])

linsertCommand ==
  \E p \in QValues, x \in QValues, after \in BOOLEAN :
    /\ q.vals # <<>> /\ Len(q.vals) < QMaxLen
    /\ LET hits == {i \in DOMAIN q.vals : q.vals[i] = p} IN
       IF hits = {} THEN Became(IterateAll(q), q.vals)
       ELSE \E i \in {Min(hits)} :
              LET j == NodeOf(q.nodes, i) IN
              Became(quicklistInsert(IterateTo(q, 1, j), j, OffsetIn(q.nodes, i) - 1, x, after),
                     InsertAt(q.vals, IF after THEN i + 1 ELSE i, x))

ltrimCommand ==
  \E left \in 0..Len(q.vals), right \in 0..Len(q.vals) :
    /\ left + right \in 1..Len(q.vals)
    /\ \E m \in {DelRangeHead(q, left)} :
         Became(DelRangeTail(m, right), SubSeq(q.vals, left + 1, Len(q.vals) - right))

(* LREM key 0 element: the iteration runs to the end. *)
lremCommand ==
  \E x \in QValues :
    LET node(a, k) ==
          LET m == ForUse(a.l, a.i)
              v == SelectSeq(m.nodes[a.i].v, LAMBDA y : y # x)
              c == [m EXCEPT !.nodes[a.i].v = v, !.count = @ - (Len(m.nodes[a.i].v) - Len(v))]
          IN IF v = <<>> THEN [l |-> quicklistDelNode(c, a.i), i |-> a.i]
             ELSE [l |-> [c EXCEPT !.nodes = quicklistCompress(@, Len(@), q.depth, a.i)],
                   i |-> a.i + 1]
    IN Became(FoldLeft(node, [l |-> q, i |-> 1], q.nodes).l,
              SelectSeq(q.vals, LAMBDA y : y # x))

(* LRANGE, and LINDEX as the range of one value: a stopped iteration. *)
lrangeCommand ==
  \E i \in DOMAIN q.vals, j \in DOMAIN q.vals :
    /\ i <= j
    /\ Became(IterateTo(q, NodeOf(q.nodes, i), NodeOf(q.nodes, j)), q.vals)

(* Saving writes the nodes, loading appends them one by one. *)
rdbReload ==
  /\ q.vals # <<>>
  /\ Became(FoldLeft(LAMBDA l, n : quicklistAppendZiplist(l, n.v),
                     quicklistNew(q.fill, q.depth), q.nodes), q.vals)

QuicklistInit == \E fill \in QFills, depth \in QDepths : q = quicklistNew(fill, depth)

QuicklistNext ==
  /\ q.dead = "no"
  /\ \/ \E head \in BOOLEAN : pushGenericCommand(head)
     \/ \E head \in BOOLEAN : popGenericCommand(head)
     \/ lsetCommand
     \/ linsertCommand
     \/ ltrimCommand
     \/ lremCommand
     \/ lrangeCommand
     \/ rdbReload
=============================================================================
