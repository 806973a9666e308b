------------------------------ MODULE RedisHyperloglog ------------------------------
(* HyperLogLog values (hyperloglog.c): the sparse run-length representation that    *)
(* PFADD splits and merges in place, its promotion to the dense one, and the cached  *)
(* cardinality.  An element is what hllPatLen makes of it: a register and a count.   *)
EXTENDS Integers, Sequences, FiniteSets, SequencesExt, FiniteSetsExt

CONSTANTS HllElements,                \* key -> the <<register, count>> added to it
          HLL_REGISTERS,
          HLL_SPARSE_VAL_MAX_VALUE, HLL_SPARSE_VAL_MAX_LEN,
          HLL_SPARSE_ZERO_MAX_LEN, HLL_SPARSE_XZERO_MAX_LEN,
          hll_sparse_max_bytes,       \* without the 16 bytes of the header
          HllMaxCount,                \* the largest count of an element
          HllMerges                   \* the <<destination, source>> of PFMERGE

VARIABLE hll   \* key -> [enc, ops, regs, card, most: register -> the largest count added]

HKeys == DOMAIN HllElements
Registers == 1..HLL_REGISTERS
NoHll == [enc |-> "none", ops |-> <<>>, regs |-> <<>>, card |-> <<>>, most |-> [r \in 1..HLL_REGISTERS |-> 0]]

(* Opcodes: ZERO and XZERO runs of empty registers, VAL runs of one value. *)
Zeros(len) == [op |-> IF len > HLL_SPARSE_ZERO_MAX_LEN THEN "xzero" ELSE "zero", val |-> 0, len |-> len]
Val(v, len) == [op |-> "val", val |-> v, len |-> len]
OpBytes(o) == IF o.op = "xzero" THEN 2 ELSE 1
SparseBytes(ops) == FoldLeft(LAMBDA a, o : a + OpBytes(o), 0, ops)

(* The registers a sequence of opcodes stands for. *)
Decode(ops) == FlattenSeq([i \in DOMAIN ops |-> [j \in 1..ops[i].len |-> ops[i].val]])

createHLLObject ==
  LET full == HLL_REGISTERS \div HLL_SPARSE_XZERO_MAX_LEN
      rest == HLL_REGISTERS % HLL_SPARSE_XZERO_MAX_LEN
      xzero(n) == [op |-> "xzero", val |-> 0, len |-> n]
  IN [NoHll EXCEPT !.enc = "sparse",
        !.ops = [i \in 1..full |-> xzero(HLL_SPARSE_XZERO_MAX_LEN)]
                  \o (IF rest = 0 THEN <<>> ELSE <<xzero(rest)>>)]

(* Register e[1] raised to e[2] if that is more. *)
WithRegister(regs, e) == [r \in Registers |-> IF r = e[1] /\ e[2] > regs[r] THEN e[2] ELSE regs[r]]

hllDenseAdd(h, e) ==
  IF e[2] > h.regs[e[1]] THEN [h |-> [h EXCEPT !.regs = WithRegister(@, e)], updated |-> TRUE]
  ELSE [h |-> h, updated |-> FALSE]

hllSparseToDense(h) ==
  IF h.enc = "dense" THEN h ELSE [h EXCEPT !.enc = "dense", !.ops = <<>>, !.regs = Decode(h.ops)]

(* The opcode that covers a register, and the registers before it. *)
OpBefore(ops, i) == FoldLeft(LAMBDA a, o : a + o.len, 0, SubSeq(ops, 1, i - 1))
OpCovering(ops, r) == Max({i \in DOMAIN ops : OpBefore(ops, i) < r})

(* What replaces the opcode o when the register at offset k (from 0) of it becomes v. *)
SplitOp(o, k, v) ==
  LET part(len) == IF o.op = "val" THEN Val(o.val, len) ELSE Zeros(len)
  IN (IF k = 0 THEN <<>> ELSE <<part(k)>>) \o <<Val(v, 1)>>
       \o (IF k = o.len - 1 THEN <<>> ELSE <<part(o.len - 1 - k)>>)

(* A plausible slip: runs of different values are merged too. *)
MergeAnyVals(ops, from) ==
  IF from < Len(ops) /\ ops[from].op = "val" /\ ops[from + 1].op = "val"
     /\ ops[from].len + ops[from + 1].len <= HLL_SPARSE_VAL_MAX_LEN
  THEN SubSeq(ops, 1, from - 1) \o <<Val(ops[from + 1].val, ops[from].len + ops[from + 1].len)>>
         \o SubSeq(ops, from + 2, Len(ops))
  ELSE ops

(* Up to five opcodes from p on: adjacent VALs of one value become one. *)
MergeVals(ops, from) ==
  LET mergeable(s, p) ==
        /\ p < Len(s) /\ s[p].op = "val" /\ s[p + 1].op = "val" /\ s[p].val = s[p + 1].val
        /\ s[p].len + s[p + 1].len <= HLL_SPARSE_VAL_MAX_LEN
      step(a, k) ==
        IF a.p <= Len(a.s) /\ mergeable(a.s, a.p)
        THEN [a EXCEPT !.s = SubSeq(a.s, 1, a.p - 1)
                               \o <<Val(a.s[a.p].val, a.s[a.p].len + a.s[a.p + 1].len)>>
                               \o SubSeq(a.s, a.p + 2, Len(a.s))]
        ELSE [a EXCEPT !.p = @ + 1]
  IN FoldLeft(step, [s |-> ops, p |-> from], <<1, 2, 3, 4, 5>>).s

(* The three outcomes of adding to a sparse value: nothing, in place, promoted. *)
Promote(h, e) == hllDenseAdd(hllSparseToDense(h), e)
InPlace(h, i, new) ==
  [h |-> [h EXCEPT !.ops = MergeVals(SubSeq(@, 1, i - 1) \o new \o SubSeq(@, i + 1, Len(@)),
                                     IF i > 1 THEN i - 1 ELSE 1),
                   !.card = <<>>],
   updated |-> TRUE]

hllSparseAdd(h, e) ==
  LET i == OpCovering(h.ops, e[1])
      o == h.ops[i]
      new == SplitOp(o, e[1] - 1 - OpBefore(h.ops, i), e[2])
      more == SparseBytes(new) - OpBytes(o)
  IN CASE e[2] > HLL_SPARSE_VAL_MAX_VALUE -> Promote(h, e)
       [] e[2] <= HLL_SPARSE_VAL_MAX_VALUE /\ o.op = "val" /\ o.val >= e[2] -> [h |-> h, updated |-> FALSE]
       [] OTHER -> IF more > 0 /\ SparseBytes(h.ops) + more > hll_sparse_max_bytes THEN Promote(h, e)
                   ELSE InPlace(h, i, new)

hllAdd(h, e) == IF h.enc = "dense" THEN hllDenseAdd(h, e) ELSE hllSparseAdd(h, e)

(* The estimate is a function of the sum of 2^-register and of the empty registers. *)
hllDenseSum(regs) ==
  <<FoldLeft(LAMBDA a, r : a + 2^(HllMaxCount - r), 0, regs), Cardinality({r \in Registers : regs[r] = 0})>>
hllSparseSum(ops) ==
  FoldLeft(LAMBDA a, o : <<a[1] + o.len * 2^(HllMaxCount - o.val), a[2] + (IF o.val = 0 THEN o.len ELSE 0)>>,
           <<0, 0>>, ops)
hllCount(h) == IF h.enc = "dense" THEN hllDenseSum(h.regs) ELSE hllSparseSum(h.ops)

hllMerge(max, h) ==
  IF h.enc = "none" THEN max
  ELSE LET regs == IF h.enc = "dense" THEN h.regs ELSE Decode(h.ops)
       IN [r \in Registers |-> Max({max[r], regs[r]})]

-----------------------------------------------------------------------------

pfaddCommand(k) ==
  \E e \in HllElements[k] :
    LET old == IF hll[k].enc = "none" THEN createHLLObject ELSE hll[k]
        a == hllAdd(old, e)
    IN hll' = [hll EXCEPT ![k] =
         [a.h EXCEPT !.most = WithRegister(@, e),
                     !.card = IF a.updated \/ hll[k].enc = "none" THEN <<>> ELSE @]]

(* The cached cardinality is answered when it is valid, else computed and stored. *)
pfcountCommand(k) ==
  /\ hll[k].enc # "none"
  /\ hll' = [hll EXCEPT ![k].card = IF @ # <<>> THEN @ ELSE hllCount(hll[k])]

pfmergeCommand(dst, src) ==
  LET max == hllMerge(hllMerge([r \in Registers |-> 0], hll[dst]), hll[src])
      old == IF hll[dst].enc = "none" THEN createHLLObject ELSE hll[dst]
  IN hll' = [hll EXCEPT ![dst] =
       [hllSparseToDense(old) EXCEPT !.regs = [r \in Registers |-> max[r]], !.card = <<>>,
                                     !.most =
                                       [r \in Registers |-> Max({hll[dst].most[r], hll[src].most[r]})]]]

HyperloglogInit == hll = [k \in HKeys |-> NoHll]

HyperloglogNext ==
  \/ \E k \in HKeys : pfaddCommand(k)
  \/ \E k \in HKeys : pfcountCommand(k)
  \/ \E m \in HllMerges : pfmergeCommand(m[1], m[2])
=============================================================================
