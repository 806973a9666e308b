----------------------------- MODULE RedisIntset -----------------------------
(* The sorted array of integers that is a small set (intset.c).  All values have the *)
(* width of the widest one added; a wider one upgrades the array in place.  A byte   *)
(* is a digit to the base IntBase, the widths (int16_t, int32_t, int64_t) are        *)
(* IntWidths of them, values are in two's complement.                                *)
EXTENDS Integers, SequencesExt, FiniteSetsExt

CONSTANTS IntBase, IntWidths, IntValues

VARIABLE is   \* [enc: the width, length, contents: bytes; set: the values it must hold]

Modulus(w) == IntBase ^ w

(* The narrowest width that holds v. *)
intsetValueEncoding(v) ==
  Min({w \in ToSet(IntWidths) : 2 * v >= -Modulus(w) /\ 2 * v < Modulus(w)})

(* The value of w bytes at place pos (from 0), lowest byte first. *)
intsetGetEncoded(x, pos, w) ==
  LET u == FoldLeft(LAMBDA a, i : a + x.contents[pos * w + i] * IntBase ^ (i - 1), 0, [i \in 1..w |-> i])
  IN IF 2 * u >= Modulus(w) THEN u - Modulus(w) ELSE u

intsetGet(x, pos) == intsetGetEncoded(x, pos, x.enc)

intsetSet(x, pos, v) ==
  LET u == v % Modulus(x.enc)
      byte(i) == (u \div (IntBase ^ (i - 1))) % IntBase
      cut == SubSeq(x.contents, 1, pos * x.enc)
      rest == SubSeq(x.contents, (pos + 1) * x.enc + 1, Len(x.contents))
  IN [x EXCEPT !.contents = FoldLeft(LAMBDA a, i : Append(a, byte(i)), cut, [i \in 1..x.enc |-> i]) \o rest]

intsetNew == [enc |-> IntWidths[1], length |-> 0, contents |-> <<>>, set |-> {}]

(* Memory for len values; what is new in it is arbitrary, here 0. *)
intsetResize(x, len) ==
  LET size == len * x.enc IN
  [x EXCEPT !.contents = IF size <= Len(@) THEN SubSeq(@, 1, size)
                         ELSE FoldLeft(LAMBDA a, i : Append(a, 0), @, [i \in 1..(size - Len(@)) |-> i])]

(* Binary search: whether value is there, and its place or the one to insert it at. *)
intsetSearch(x, value) ==
  LET step(a, i) ==
        LET mid == (a.min + a.max) \div 2
            cur == intsetGet(x, mid)
        IN CASE a.found \/ a.max < a.min -> a
             [] ~a.found /\ a.max >= a.min /\ value > cur -> [a EXCEPT !.min = mid + 1]
             [] ~a.found /\ a.max >= a.min /\ value < cur -> [a EXCEPT !.max = mid - 1]
             [] OTHER -> [a EXCEPT !.found = TRUE, !.min = mid]
      search == FoldLeft(step, [min |-> 0, max |-> x.length - 1, found |-> FALSE], [i \in 1..x.length |-> i])
  IN CASE x.length = 0 -> [found |-> FALSE, pos |-> 0]
       [] x.length > 0 /\ value > intsetGet(x, x.length - 1) -> [found |-> FALSE, pos |-> x.length]
       [] x.length > 0 /\ value < intsetGet(x, 0) -> [found |-> FALSE, pos |-> 0]
       [] OTHER -> [found |-> search.found, pos |-> search.min]

(* A plausible slip: the values are widened from the front. *)
Forwards(k) == [i \in 1..k |-> i - 1]

(* The order in which the values are widened: from the back, since they overlap. *)
Backwards(k) == [i \in 1..k |-> k - i]

intsetUpgradeAndAdd(x, value) ==
  LET prepend == IF value < 0 THEN 1 ELSE 0
      wide == intsetResize([x EXCEPT !.enc = intsetValueEncoding(value)], x.length + 1)
      widen(y, i) == intsetSet(y, i + prepend, intsetGetEncoded(y, i, x.enc))
      widened == FoldLeft(widen, wide, Backwards(x.length))
  IN [intsetSet(widened, IF value < 0 THEN 0 ELSE x.length, value) EXCEPT !.length = @ + 1]

intsetMoveTail(x, from, to) ==
  LET moved == SubSeq(x.contents, from * x.enc + 1, x.length * x.enc)
      before == SubSeq(x.contents, 1, to * x.enc)
      after == SubSeq(x.contents, to * x.enc + Len(moved) + 1, Len(x.contents))
  IN [x EXCEPT !.contents = before \o moved \o after]

intsetAdd(x, value) ==
  LET place(y, pos) == IF pos < x.length THEN intsetMoveTail(y, pos, pos + 1) ELSE y
      put(pos) == [intsetSet(place(intsetResize(x, x.length + 1), pos), pos, value) EXCEPT !.length = @ + 1]
      search(s) == IF s.found THEN x ELSE put(s.pos)
  IN IF intsetValueEncoding(value) > x.enc THEN intsetUpgradeAndAdd(x, value)
     ELSE search(intsetSearch(x, value))

intsetRemove(x, value) ==
  LET close(pos) == IF pos < x.length - 1 THEN intsetMoveTail(x, pos + 1, pos) ELSE x
      remove(s) == IF ~s.found THEN x
                   ELSE [intsetResize(close(s.pos), x.length - 1) EXCEPT !.length = @ - 1]
  IN IF intsetValueEncoding(value) > x.enc THEN x ELSE remove(intsetSearch(x, value))

intsetFind(x, value) == intsetValueEncoding(value) <= x.enc /\ intsetSearch(x, value).found

AddInteger(v) == is' = [intsetAdd(is, v) EXCEPT !.set = @ \cup {v}]
RemoveInteger(v) == is' = [intsetRemove(is, v) EXCEPT !.set = @ \ {v}]

IntsetInit == is = intsetNew
IntsetNext == \E v \in IntValues : AddInteger(v) \/ RemoveInteger(v)
=============================================================================
