------------------------------ MODULE RedisBits ------------------------------
(***************************************************************************)
(* Bit commands (bitops.c).  A byte has ByteBits bits, the most            *)
(* significant first, and a word (64 bits in C) WordBits.                  *)
(***************************************************************************)
EXTENDS RedisStrings

CONSTANT WordBits   \* 64, scaled down

ByteBits == 4
Word     == 2^WordBits
AsUnsigned(n) == n % Word
AsSigned(n)   == LET u == n % Word IN IF u >= Word \div 2 THEN u - Word ELSE u

\* Bit off of a string; beyond its end every bit is 0.
BitAt(s, off) ==
  LET byte == off \div ByteBits + 1
  IN  IF byte > Len(s) THEN 0 ELSE (s[byte] \div 2^(ByteBits - 1 - (off % ByteBits))) % 2
WithBit(s, off, b) ==
  LET byte == off \div ByteBits + 1
      w == 2^(ByteBits - 1 - (off % ByteBits))
  IN  [s EXCEPT ![byte] = @ + (b - BitAt(s, off)) * w]
BitsOf(s) == [i \in 1 .. ByteBits * Len(s) |-> BitAt(s, i - 1)]

redisPopcount(s) == Cardinality({i \in 1 .. ByteBits * Len(s) : BitAt(s, i - 1) = 1})
\* The position of the first bit of that value; a string of ones is taken to be
\* followed by zeros, a string of zeros has no one: -1.
redisBitpos(s, bit) ==
  LET at(i) == IF i > 0 THEN i - 1 ELSE IF bit = 1 THEN -1 ELSE ByteBits * Len(s)
  IN  at(SelectInSeq(BitsOf(s), LAMBDA b : b = bit))

setUnsignedBitfield(s, off, bits, value) ==
  FoldLeft(LAMBDA t, j : WithBit(t, off + j - 1, (value \div 2^(bits - j)) % 2),
           s, [j \in 1 .. bits |-> j])
getUnsignedBitfield(s, off, bits) ==
  FoldLeft(LAMBDA v, j : v * 2 + BitAt(s, off + j - 1), 0, [j \in 1 .. bits |-> j])
\* (uint64_t)-1 << bits: shifting by the whole width is undefined; the shift of x86
\* takes its count modulo the width and leaves all ones.
Mask(bits) == IF bits = WordBits THEN Word - 1 ELSE Word - 2^bits
\* The sign bit is spread over the bits above the field.
SignExtend(u, bits) ==
  AsSigned(IF u >= 2^(bits - 1) THEN IF bits = WordBits THEN Mask(bits) ELSE u + Mask(bits) ELSE u)
getSignedBitfield(s, off, bits) == SignExtend(getUnsignedBitfield(s, off, bits), bits)

\* Both checks return <<overflow, the value to store instead>>.
checkUnsignedBitfieldOverflow(value, incr, bits, ow) ==
  LET max == 2^bits - 1
      over == value > max \/ (incr > 0 /\ incr > max - value)
      under == incr < 0 /\ incr < -value
      wrapped == AsUnsigned(value + incr) % 2^bits
  IN  <<over \/ under,
        IF ow = "WRAP" THEN wrapped ELSE IF over THEN max ELSE 0>>
checkSignedBitfieldOverflow(value, incr, bits, ow) ==
  LET max == 2^(bits - 1) - 1
      min == -max - 1
      over == \/ value > max
              \/ bits # WordBits /\ incr > max - value
              \/ value >= 0 /\ incr > 0 /\ incr > max - value
      under == \/ value < min
               \/ bits # WordBits /\ incr < min - value
               \/ value < 0 /\ incr < 0 /\ incr < min - value
      wrapped(low) == IF low >= 2^(bits - 1)
                      THEN IF bits = WordBits THEN Mask(bits) ELSE low + Mask(bits)
                      ELSE IF bits = WordBits THEN 0 ELSE low
  IN  <<over \/ under,
        IF ow = "WRAP" THEN AsSigned(wrapped(AsUnsigned(value + incr) % 2^bits)) ELSE IF over THEN max ELSE min>>

\* Offsets are refused when negative or beyond the largest string.
getBitOffsetFromArgument(off) == off >= 0 /\ off \div ByteBits < MaxString

\* The string to write to: created or grown with zeros to hold bit maxbit.  The caller
\* has to see from y.o that the type was wrong.
lookupStringForBitCommand(x, k, maxbit) ==
  LET grown(y) == createObject("string", "raw", sdsgrowzero(y.o.v, maxbit \div ByteBits + 1))
      on(y) == IF y.o # NoObj /\ checkType(y.o, "string") THEN WrongType(y)
               ELSE lookupKey(AddOrOverwrite(y, k, grown(y)), k)
  IN  on(lookupKeyWrite(x, k))

setbitCommand(x, k, off, on) ==
  LET set(y) == IF y.err # "" THEN y
                ELSE addReply(Dirty(notifyKeyspaceEvent(signalModifiedKey(
                       dbOverwrite(y, k, [y.o EXCEPT !.v = WithBit(@, off, on)]), k), "setbit", k), 1),
                       <<BitAt(y.o.v, off)>>)
  IN  CASE ~getBitOffsetFromArgument(off) -> addReplyError(x, "bit offset")
        [] getBitOffsetFromArgument(off) /\ on \notin {0, 1} -> addReplyError(x, "bit is not")
        [] OTHER -> set(lookupStringForBitCommand(x, k, off))
getbitCommand(x, k, off) ==
  LET get(y) == IF y.o # NoObj /\ checkType(y.o, "string") THEN WrongType(y)
                ELSE addReply(y, <<BitAt(y.o.v, off)>>)
  IN  IF getBitOffsetFromArgument(off) THEN get(lookupKeyRead(x, k)) ELSE addReplyError(x, "bit offset")

\* BITOP op target k1 k2 ...: shorter strings count as padded with zeros.  An empty
\* result deletes the target.
BitOf2(op, a, b) == CASE op = "AND" -> a * b
                      [] op = "OR"  -> IF a + b > 0 THEN 1 ELSE 0
                      [] op = "XOR" -> (a + b) % 2
ByteOf(bits) == FoldLeft(LAMBDA v, b : 2 * v + b, 0, bits)
BitopByte(op, src, j) ==
  LET bit(off) == IF op = "NOT" THEN 1 - BitAt(src[1].v, off)
                  ELSE FoldLeft(LAMBDA b, o : BitOf2(op, b, BitAt(o.v, off)), BitAt(src[1].v, off), Tail(src))
  IN  ByteOf([b \in 1 .. ByteBits |-> bit(ByteBits * (j - 1) + b - 1)])
BitopStore(y, op, target, src, maxlen) ==
  IF maxlen > 0
  THEN notifyKeyspaceEvent(setKey(y, target, createObject("string", "raw",
         [j \in 1 .. maxlen |-> BitopByte(op, src, j)])), "set", target)
  ELSE IF Exists(y, target)
  THEN notifyKeyspaceEvent(signalModifiedKey(dbDelete(y, target), target), "del", target)
  ELSE y
\* The sources are looked up in order, up to the first of a wrong type.
bitopCommand(x, op, target, ks) ==
  LET next(acc, k) == IF acc.o.t \notin {"none", "string"} THEN acc ELSE lookupKeyRead(acc, k)
      result(y, src) == Dirty(BitopStore(y, op, target, src, Max({Len(src[i].v) : i \in DOMAIN src})), 1)
      on(y) == IF y.o.t \notin {"none", "string"} THEN WrongType(y)
               ELSE result(y, [i \in DOMAIN ks |-> y.db[ks[i]]])
  IN  IF op = "NOT" /\ Len(ks) # 1 THEN addReplyError(x, "BITOP NOT") ELSE on(FoldLeft(next, x, ks))

bitcountCommand(y, k, start, end) ==
  LET r == Clip(start, end, Len(y.o.v))
  IN  IF y.o # NoObj /\ checkType(y.o, "string") THEN WrongType(y)
      ELSE addReply(y, <<redisPopcount(SubSeq(y.o.v, r[1] + 1, r[2] + 1))>>)
\* BITPOS k bit start end: unlike BITCOUNT it does not test start > end up front.
Bitpos(v, bit, s, e, endGiven) ==
  LET at(pos) == IF pos = -1 \/ (endGiven /\ bit = 0 /\ pos = (e - s + 1) * ByteBits) THEN -1
                 ELSE pos + s * ByteBits
  IN  IF s > e THEN -1 ELSE at(redisBitpos(SubSeq(v, s + 1, e + 1), bit))
bitposCommand(y, k, bit, start, end, endGiven) ==
  LET n == Len(y.o.v)
      fromEnd(i) == IF i < 0 THEN IF n + i < 0 THEN 0 ELSE n + i ELSE i
  IN  CASE y.o = NoObj -> addReply(y, <<IF bit = 1 THEN -1 ELSE 0>>)
        [] y.o # NoObj /\ checkType(y.o, "string") -> WrongType(y)
        [] OTHER -> addReply(y, <<Bitpos(y.o.v, bit, fromEnd(start),
                                         IF endGiven /\ fromEnd(end) < n THEN fromEnd(end) ELSE n - 1, endGiven)>>)

\* BITFIELD: one operation [op, sign, bits, off, n, ow] on the string of key k.
BitfieldStore(x, k, p, old, base, incr, chk) ==
  LET new == IF chk[1] THEN chk[2] ELSE base + incr
  IN  IF chk[1] /\ p.ow = "FAIL" THEN x
      ELSE addReply(dbOverwrite(x, k, [x.db[k] EXCEPT
                      !.v = setUnsignedBitfield(@, p.off, p.bits, AsUnsigned(new))]),
                    <<IF p.op = "INCRBY" THEN new ELSE old>>)
BitfieldSet(x, k, p, old, base, incr) ==
  BitfieldStore(x, k, p, old, base, incr,
                IF p.sign THEN checkSignedBitfieldOverflow(base, incr, p.bits, p.ow)
                ELSE checkUnsignedBitfieldOverflow(base, incr, p.bits, p.ow))
BitfieldOp(x, k, p) ==
  LET on(old) == CASE p.op = "GET" -> addReply(x, <<old>>)
                   [] p.op = "SET" -> BitfieldSet(x, k, p, old, IF p.sign THEN p.n ELSE AsUnsigned(p.n), 0)
                   [] p.op = "INCRBY" -> BitfieldSet(x, k, p, old, old, p.n)
  IN  on(IF p.sign THEN getSignedBitfield(x.db[k].v, p.off, p.bits)
         ELSE getUnsignedBitfield(x.db[k].v, p.off, p.bits))

\* Every SET and INCRBY counts as a change, one that failed on overflow too.
bitfieldCommand(x, k, ops) ==
  LET writes == {i \in DOMAIN ops : ops[i].op # "GET"}
      done(z) == IF writes = {} THEN z
                 ELSE Dirty(notifyKeyspaceEvent(signalModifiedKey(z, k), "setbit", k), Cardinality(writes))
      on(y) == IF y.o.t \notin {"none", "string"} THEN WrongType(y)
               ELSE done(FoldLeft(LAMBDA w, p : BitfieldOp(w, k, p), y, ops))
  IN  IF \E i \in DOMAIN ops : ~getBitOffsetFromArgument(ops[i].off) THEN addReplyError(x, "bit offset")
      ELSE on(IF writes = {} THEN lookupKeyRead(x, k)
              ELSE lookupStringForBitCommand(x, k, Max({ops[i].off + ops[i].bits - 1 : i \in writes})))
=============================================================================
