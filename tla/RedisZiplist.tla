------------------------------- MODULE RedisZiplist -------------------------------
(* ziplist.c: entries that store the length of the entry before them, in one byte   *)
(* or in five, so that a change of one entry can grow all that follow.  An entry is *)
(* its prevlen field (value and width) and its value; a value is <<"str", length>>  *)
(* or <<"int", n>>.                                                                 *)
EXTENDS Integers, Sequences, FiniteSets, SequencesExt, FiniteSetsExt

CONSTANTS ZipValues,        \* values that are inserted
          ZipMax,           \* bound: entries of a list
          ZIP_BIGLEN,       \* 254
          INT32_MAX,        \* scaled down: a larger number takes 8 bytes
          ZipLenMax         \* UINT16_MAX: the length field saturates

VARIABLE zl   \* [bytes, tail, len: the header; es: the entries; vals: the list it must hold]

HEADER_SIZE == 10
END_SIZE == 1
Lost == <<"lost", 0>>   \* a value whose bytes were overwritten

-----------------------------------------------------------------------------------
(* Encodings. *)
zipIntSize(n) ==
  IF n >= 0 /\ n <= 12 THEN 0
  ELSE IF n >= -128 /\ n <= 127 THEN 1
  ELSE IF n >= -32768 /\ n <= 32767 THEN 2
  ELSE IF n >= -8388608 /\ n <= 8388607 THEN 3
  ELSE IF n >= -INT32_MAX - 1 /\ n <= INT32_MAX THEN 4 ELSE 8

zipEncodeLength(v) ==
  IF v[1] = "int" \/ v[2] <= 63 THEN 1 ELSE IF v[2] <= 16383 THEN 2 ELSE 5

Body(v) == zipEncodeLength(v) + (IF v[1] = "int" THEN zipIntSize(v[2]) ELSE v[2])

zipPrevEncodeLength(len) == IF len < ZIP_BIGLEN THEN 1 ELSE 5
zipPrevLenByteDiff(e, len) == zipPrevEncodeLength(len) - e.psize
zipRawEntryLength(e) == e.psize + e.body

Sizes(es) == FoldLeft(LAMBDA a, e : a + zipRawEntryLength(e), 0, es)
Offset(es, i) == HEADER_SIZE + Sizes(SubSeq(es, 1, i - 1))

ziplistNew == [bytes |-> HEADER_SIZE + END_SIZE, tail |-> HEADER_SIZE, len |-> 0, es |-> <<>>]

(* ZIPLIST_INCR_LENGTH: a saturated length stays. *)
IncrLength(r, k) == [r EXCEPT !.len = IF @ < ZipLenMax THEN @ + k ELSE @]

(* ziplistLen: a saturated length is counted, and stored when it fits again. *)
ziplistLen(r) ==
  IF r.len < ZipLenMax \/ Len(r.es) >= ZipLenMax THEN r ELSE [r EXCEPT !.len = Len(r.es)]

-----------------------------------------------------------------------------------
(* A plausible slip: only the next entry is looked at. *)
CascadeOnce(r, from) ==
  IF from >= Len(r.es) THEN r
  ELSE [r EXCEPT !.es[from + 1].plen = zipRawEntryLength(r.es[from])]

(* From entry `from` on, as long as the prevlen field of the next entry must grow. *)
ziplistCascadeUpdate(r, from) ==
  LET step(a, j) ==
        LET rawlen == zipRawEntryLength(a.r.es[j])
            next == a.r.es[j + 1]
            extra == zipPrevEncodeLength(rawlen) - next.psize
        IN IF ~a.on \/ next.plen = rawlen THEN [a EXCEPT !.on = FALSE]
           ELSE IF extra > 0
           THEN [on |-> TRUE,
                 r |-> [a.r EXCEPT !.es[j + 1].plen = rawlen, !.es[j + 1].psize = @ + extra,
                                   !.bytes = @ + extra,
                                   !.tail = IF @ # Offset(a.r.es, j + 1) THEN @ + extra ELSE @]]
           ELSE [on |-> FALSE, r |-> [a.r EXCEPT !.es[j + 1].plen = rawlen]]
  IN FoldLeft(step, [on |-> TRUE, r |-> r], [k \in 1..(Len(r.es) - from) |-> from + k - 1]).r

(* The block is resized before the entries after p are moved: when that shrinks it,  *)
(* the end mark is written over the last bytes, which are still to be moved.         *)
Torn(es, growth) == IF growth < 0 THEN [es EXCEPT ![Len(es)].val = Lost] ELSE es
IsTorn(r) == \E i \in DOMAIN r.es : r.es[i].val = Lost

ziplistInsert(r, i, v) ==
  LET n == Len(r.es)
      prevlen == IF i <= n THEN r.es[i].plen ELSE IF n > 0 THEN zipRawEntryLength(r.es[n]) ELSE 0
      new == [plen |-> prevlen, psize |-> zipPrevEncodeLength(prevlen), body |-> Body(v), val |-> v]
      reqlen == zipRawEntryLength(new)
      nextdiff == IF i <= n THEN zipPrevLenByteDiff(r.es[i], reqlen) ELSE 0
      next == [r.es[i] EXCEPT !.plen = reqlen, !.psize = @ + nextdiff]
      es == IF i > n THEN Append(r.es, new)
            ELSE InsertAt(Torn([r.es EXCEPT ![i] = next], reqlen + nextdiff), i, new)
      inserted == [r EXCEPT !.es = es, !.bytes = @ + reqlen + nextdiff,
                            !.tail = IF i > n THEN r.bytes - END_SIZE
                                     ELSE @ + reqlen + (IF i < n THEN nextdiff ELSE 0)]
  IN IncrLength(IF nextdiff # 0 THEN ziplistCascadeUpdate(inserted, i + 1) ELSE inserted, 1)

ziplistPush(r, v, head) == ziplistInsert(r, IF head THEN 1 ELSE Len(r.es) + 1, v)

ziplistDeleteRange(r, i, num) ==
  LET n == Len(r.es)
      deleted == Min({num, n + 1 - i})
      first == r.es[i]
      totlen == Sizes(SubSeq(r.es, i, i + deleted - 1))
      more == i + deleted <= n
      nextdiff == IF more THEN zipPrevLenByteDiff(r.es[i + deleted], first.plen) ELSE 0
      rest == IF more THEN <<[r.es[i + deleted] EXCEPT !.plen = first.plen, !.psize = @ + nextdiff]>>
                           \o SubSeq(r.es, i + deleted + 1, n) ELSE <<>>
      cut == [r EXCEPT !.es = SubSeq(@, 1, i - 1) \o rest, !.bytes = @ - totlen + nextdiff,
                       !.tail = IF ~more THEN Offset(r.es, i) - first.plen
                                ELSE @ - totlen + (IF i + deleted < n THEN nextdiff ELSE 0)]
      y == IncrLength(cut, -deleted)
  IN IF nextdiff # 0 THEN ziplistCascadeUpdate(y, i) ELSE y

(* The entries of b follow those of a; neither is empty. *)
ziplistMerge(a, b) ==
  LET joined == [bytes |-> a.bytes + b.bytes - HEADER_SIZE - END_SIZE,
                 tail |-> (a.bytes - END_SIZE) + (b.tail - HEADER_SIZE),
                 len |-> Min({a.len + b.len, ZipLenMax}), es |-> a.es \o b.es]
  IN ziplistCascadeUpdate(joined, Len(a.es))

(* Positions counted from the end follow tail and the prevlen fields. *)
ziplistIndexFromTail(r, k) ==
  LET back(off) == LET i == CHOOSE j \in 1..Len(r.es) : Offset(r.es, j) = off IN off - r.es[i].plen
  IN FoldLeft(LAMBDA off, j : back(off), r.tail, [j \in 1..(k - 1) |-> j])

-----------------------------------------------------------------------------------
List(r) == [bytes |-> r.bytes, tail |-> r.tail, len |-> r.len, es |-> r.es]
ZiplistBecomes(r, vals) == zl' = [bytes |-> r.bytes, tail |-> r.tail, len |-> r.len, es |-> r.es, vals |-> vals]

Push(v, head) ==
  /\ Len(zl.es) < ZipMax
  /\ ZiplistBecomes(ziplistPush(List(zl), v, head), IF head THEN <<v>> \o zl.vals ELSE Append(zl.vals, v))

Insert(i, v) ==
  /\ Len(zl.es) < ZipMax
  /\ ZiplistBecomes(ziplistInsert(List(zl), i, v), InsertAt(zl.vals, i, v))

DeleteRange(i, num) ==
  ZiplistBecomes(ziplistDeleteRange(List(zl), i, num),
          SubSeq(zl.vals, 1, i - 1) \o SubSeq(zl.vals, i + num, Len(zl.vals)))

(* The list is merged with another one of two entries, before or after it. *)
Merge(v, w, after) ==
  LET other == ziplistPush(ziplistPush(ziplistNew, v, FALSE), w, FALSE)
  IN /\ zl.es # <<>> /\ Len(zl.es) + 2 <= ZipMax
     /\ IF after THEN ZiplistBecomes(ziplistMerge(List(zl), other), zl.vals \o <<v, w>>)
                 ELSE ZiplistBecomes(ziplistMerge(other, List(zl)), <<v, w>> \o zl.vals)

Count == ZiplistBecomes(ziplistLen(List(zl)), zl.vals)

ZiplistInit == zl = [bytes |-> HEADER_SIZE + END_SIZE, tail |-> HEADER_SIZE, len |-> 0, es |-> <<>>,
              vals |-> <<>>]

(* What a list that was torn does next is not defined. *)
ZiplistNext ==
  /\ ~IsTorn(zl)
  /\ \/ \E v \in ZipValues :
          (\E head \in BOOLEAN : Push(v, head)) \/ \E i \in 1..Len(zl.es) : Insert(i, v)
     \/ \E i \in 1..Len(zl.es), num \in 1..2 : DeleteRange(i, num)
     \/ \E v, w \in ZipValues, after \in BOOLEAN : Merge(v, w, after)
     \/ Count
==================================================================================
