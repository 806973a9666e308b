------------------------------- MODULE FoldTheorems -------------------------------
(* Induction over folds.  FoldLeft is defined by a recursive function on the         *)
(* subsets of a finite set, and the library's induction theorems take an operator as *)
(* a parameter.  Here the operator folded and the predicate it keeps are parameters  *)
(* of the module instead: a proof instantiates the module with its own and cites the *)
(* theorems of the instance.  The context c stands for whatever the operator uses    *)
(* besides its two arguments.                                                        *)
EXTENDS Integers, Sequences, FiniteSets, FiniteSetTheorems, SequenceTheorems,
        NaturalsInduction, WellFoundedInduction, TLAPS

CONSTANTS Op(_, _, _),   \* Op(c, a, e): the accumulator a after the element e
          Base(_),       \* Base(c): the accumulator at first
          Good(_, _, _)  \* Good(c, k, a): what is said of the accumulator after k elements

Smaller == {ss \in Nat \X Nat : ss[1] < ss[2]}

(* The order of the natural numbers is well-founded. *)
LEMMA SmallerWellFounded == IsWellFoundedOn(Smaller, Nat)
<1>1. OpToRel(<, Nat) = Smaller
  BY DEF OpToRel, Smaller
<1> QED BY <1>1, NatLessThanWellFounded

(* A set of natural numbers that is not empty has a least element: the principle by  *)
(* which the inductions below are done, on a counterexample as small as can be.      *)
LEMMA LeastNat ==
  ASSUME NEW T, T \subseteq Nat, T # {}
  PROVE  \E n \in T : \A m \in T : n <= m
<1>1. PICK x \in T : \A y \in T : ~ (<<y, x>> \in Smaller)
  BY SmallerWellFounded, WFMin, Zenon
<1>2. ASSUME NEW y \in T PROVE x <= y
  <2>1. CASE y < x
    <3>1. <<y, x>> \in Smaller
      BY <2>1 DEF Smaller
    <3> QED BY <3>1, <1>1
  <2> QED BY <2>1
<1> QED BY <1>2

-----------------------------------------------------------------------------------
(* The recursive function of MapThenFoldSet, on the subsets in D: pick[s] is the     *)
(* element taken from s, val[x] what is folded for x.                                *)
Step(c, pick, val, f, s) ==
  IF s = {} THEN Base(c) ELSE Op(c, f[s \ {pick[s]}], val[pick[s]])
IsIter(c, D, pick, val, f) == f = [s \in D |-> Step(c, pick, val, f, s)]

Small(S, n) == {s \in SUBSET S : Cardinality(s) <= n}

(* The recursion defines a function. *)
LEMMA IterExists ==
  ASSUME NEW c, NEW S, IsFiniteSet(S), NEW pick, NEW val,
         \A s \in SUBSET S : s # {} => pick[s] \in s
  PROVE  \E f : IsIter(c, SUBSET S, pick, val, f)
<1> DEFINE T == {m \in Nat : ~ \E f : IsIter(c, Small(S, m), pick, val, f)}
<1>1. ASSUME T # {} PROVE FALSE
  <2>1. PICK m \in T : \A k \in T : m <= k
    BY <1>1, LeastNat, Zenon
  <2>2. m # 0
    <3> DEFINE g == [s \in Small(S, 0) |-> Base(c)]
    <3>1. Small(S, 0) = {{}}
      <4>1. ASSUME NEW s \in SUBSET S, Cardinality(s) <= 0 PROVE s = {}
        BY <4>1, FS_Subset, FS_EmptySet, FS_CardinalityType
      <4>2. {} \in Small(S, 0)
        BY FS_EmptySet DEF Small
      <4> QED BY <4>1, <4>2 DEF Small
    <3>2. IsIter(c, Small(S, 0), pick, val, g)
      BY <3>1 DEF IsIter, Step
    <3> QED BY <3>2
  <2>3. PICK f : IsIter(c, Small(S, m - 1), pick, val, f)
    BY <2>1, <2>2
  <2> DEFINE g == [s \in Small(S, m) |-> Step(c, pick, val, f, s)]
  <2>4. ASSUME NEW s \in Small(S, m), s # {}
        PROVE  s \ {pick[s]} \in Small(S, m - 1) /\ s \ {pick[s]} \in Small(S, m)
    <3>1. IsFiniteSet(s) /\ pick[s] \in s /\ Cardinality(s) \in Nat
      BY <2>4, FS_Subset, FS_CardinalityType DEF Small
    <3>2. Cardinality(s \ {pick[s]}) = Cardinality(s) - 1
      BY <3>1, FS_RemoveElement
    <3> QED BY <3>1, <3>2 DEF Small
  <2>5. ASSUME NEW s \in Small(S, m - 1)
        PROVE  s \in Small(S, m) /\ f[s] = g[s]
    <3>1. s \in Small(S, m)
      BY <2>2, FS_Subset, FS_CardinalityType DEF Small
    <3>2. f[s] = Step(c, pick, val, f, s)
      BY <2>3 DEF IsIter
    <3> QED BY <3>1, <3>2
  <2>6. ASSUME NEW s \in Small(S, m)
        PROVE  Step(c, pick, val, f, s) = Step(c, pick, val, g, s)
    BY <2>4, <2>5 DEF Step
  <2>7. IsIter(c, Small(S, m), pick, val, g)
    BY <2>6, Zenon DEF IsIter
  <2> QED BY <2>7
<1>2. Cardinality(S) \in Nat /\ Small(S, Cardinality(S)) = SUBSET S
  BY FS_Subset, FS_CardinalityType DEF Small
<1>3. Cardinality(S) \notin T
  BY <1>1
<1>4. \E f : IsIter(c, Small(S, Cardinality(S)), pick, val, f)
  BY <1>2, <1>3
<1> QED BY <1>2, <1>4

-----------------------------------------------------------------------------------
(* FoldLeft(LAMBDA a, e : Op(c, a, e), Base(c), seq), with its definition expanded. *)
Greatest(s) == CHOOSE x \in s : \A y \in s : x >= y
SeqFold(c, seq) ==
  (CHOOSE f : f = [s \in SUBSET (DOMAIN seq) |->
                     IF s = {} THEN Base(c)
                     ELSE Op(c, f[s \ {Greatest(s)}], seq[Greatest(s)])])[DOMAIN seq]

(* A finite set of integers has a greatest element. *)
LEMMA GreatestIn ==
  ASSUME NEW n \in Nat, NEW s \in SUBSET (1..n), s # {}
  PROVE  Greatest(s) \in s /\ \A y \in s : Greatest(s) >= y
<1> DEFINE T == {k \in Nat : \A y \in s : k >= y}
<1>1. n \in T
  OBVIOUS
<1>2. PICK m \in T : \A k \in T : m <= k
  BY <1>1, LeastNat, Zenon
<1>3. m \in s
  <2>1. SUFFICES ASSUME m \notin s PROVE FALSE
    OBVIOUS
  <2>2. \A y \in s : y <= m - 1 /\ y >= 1 /\ y \in Nat
    BY <2>1, <1>2
  <2>3. PICK y \in s : TRUE
    OBVIOUS
  <2>4. m - 1 \in Nat
    BY <1>2, <2>2, <2>3
  <2>5. m - 1 \in T
    BY <2>2, <2>4
  <2> QED BY <1>2, <2>5
<1> QED BY <1>2, <1>3 DEF Greatest

(* The greatest element of the first k numbers is k. *)
LEMMA GreatestOfPrefix ==
  ASSUME NEW k \in Nat, k > 0
  PROVE  Greatest(1..k) = k /\ (1..k) \ {k} = 1..(k - 1)
<1>1. 1..k \in SUBSET (1..k) /\ 1..k # {}
  OBVIOUS
<1>2. Greatest(1..k) \in 1..k /\ \A y \in 1..k : Greatest(1..k) >= y
  BY <1>1, GreatestIn, Zenon
<1> QED BY <1>2

(* The recursion of SeqFold defines a function. *)
LEMMA SeqIter ==
  ASSUME NEW c, NEW X, NEW seq \in Seq(X)
  PROVE  \E f : /\ SeqFold(c, seq) = f[1..Len(seq)]
                /\ f[{}] = Base(c)
                /\ \A k \in 1..Len(seq) : f[1..k] = Op(c, f[1..(k - 1)], seq[k])
<1> DEFINE S == DOMAIN seq
           pick == [s \in SUBSET S |-> Greatest(s)]
           body(f) == [s \in SUBSET S |->
                         IF s = {} THEN Base(c) ELSE Op(c, f[s \ {Greatest(s)}], seq[Greatest(s)])]
           f == CHOOSE f : f = body(f)
<1>1. S = 1..Len(seq) /\ Len(seq) \in Nat /\ IsFiniteSet(S)
  BY LenProperties, FS_Interval
<1>2. \A s \in SUBSET S : s # {} => pick[s] \in s
  BY <1>1, GreatestIn
<1>3. \A g : IsIter(c, SUBSET S, pick, seq, g) <=> g = body(g)
  <2>1. ASSUME NEW g, NEW s \in SUBSET S
        PROVE  Step(c, pick, seq, g, s) = body(g)[s]
    BY DEF Step
  <2> QED BY <2>1 DEF IsIter
<1>4. \E g : IsIter(c, SUBSET S, pick, seq, g)
  <2> HIDE DEF pick, S
  <2> QED BY <1>1, <1>2, IterExists
<1>5. f = body(f)
  <2> HIDE DEF body
  <2> QED BY <1>3, <1>4
<1>6. SeqFold(c, seq) = f[1..Len(seq)]
  <2>1. SeqFold(c, seq) = f[DOMAIN seq]
    BY Zenon DEF SeqFold
  <2> QED BY <1>1, <2>1
<1> HIDE DEF f
<1>7. f[{}] = Base(c)
  BY <1>5
<1>8. ASSUME NEW k \in 1..Len(seq) PROVE f[1..k] = Op(c, f[1..(k - 1)], seq[k])
  <2>1. 1..k \in SUBSET S /\ 1..k # {} /\ k \in Nat /\ k > 0
    BY <1>1
  <2>2. f[1..k] = Op(c, f[(1..k) \ {Greatest(1..k)}], seq[Greatest(1..k)])
    BY <1>5, <2>1
  <2> QED BY <2>1, <2>2, GreatestOfPrefix
<1> QED BY <1>6, <1>7, <1>8

(* FoldLeft of no element is the base. *)
THEOREM SeqFoldEmpty ==
  ASSUME NEW c
  PROVE  SeqFold(c, <<>>) = Base(c)
<1>1. <<>> \in Seq({}) /\ Len(<<>>) = 0 /\ 1..0 = {}
  BY EmptySeq
<1>2. PICK f : SeqFold(c, <<>>) = f[1..Len(<<>>)] /\ f[{}] = Base(c)
  BY <1>1, SeqIter
<1> QED BY <1>1, <1>2

(* FoldLeft of one element more is one step of the operator more. *)
THEOREM SeqFoldAppend ==
  ASSUME NEW c, NEW X, NEW seq \in Seq(X), NEW e \in X
  PROVE  SeqFold(c, Append(seq, e)) = Op(c, SeqFold(c, seq), e)
<1> DEFINE n == Len(seq)
<1>0. PICK longer \in Seq(X) : longer = Append(seq, e)
  BY AppendProperties
<1>1. /\ longer \in Seq(X) /\ Len(longer) = n + 1 /\ n \in Nat
      /\ \A i \in 1..n : longer[i] = seq[i]
      /\ longer[n + 1] = e
  BY <1>0, AppendProperties, LenProperties
<1>2. PICK f : /\ SeqFold(c, seq) = f[1..n]
               /\ f[{}] = Base(c)
               /\ \A k \in 1..n : f[1..k] = Op(c, f[1..(k - 1)], seq[k])
  BY SeqIter
<1>3. PICK g : /\ SeqFold(c, longer) = g[1..(n + 1)]
               /\ g[{}] = Base(c)
               /\ \A k \in 1..(n + 1) : g[1..k] = Op(c, g[1..(k - 1)], longer[k])
  <2>1. \A s \in Seq(X) :
          \E g : /\ SeqFold(c, s) = g[1..Len(s)]
                 /\ g[{}] = Base(c)
                 /\ \A k \in 1..Len(s) : g[1..k] = Op(c, g[1..(k - 1)], s[k])
    BY SeqIter
  <2>2. PICK g : /\ SeqFold(c, longer) = g[1..Len(longer)]
                 /\ g[{}] = Base(c)
                 /\ \A k \in 1..Len(longer) : g[1..k] = Op(c, g[1..(k - 1)], longer[k])
    BY <2>1
  <2> QED BY <1>1, <2>2
<1> HIDE DEF n
<1> DEFINE T == {k \in 0..n : g[1..k] # f[1..k]}
<1>4. ASSUME T # {} PROVE FALSE
  <2>1. PICK k \in T : \A j \in T : k <= j
    <3>1. T \subseteq Nat
      BY <1>1
    <3> QED BY <1>4, <3>1, LeastNat, Zenon
  <2>2. k # 0
    <3>1. 1..0 = {}
      OBVIOUS
    <3> QED BY <1>2, <1>3, <2>1, <3>1
  <2>3. k \in 1..n /\ k \in 1..(n + 1) /\ k - 1 \in 0..n
    BY <1>1, <2>1, <2>2
  <2>4. g[1..(k - 1)] = f[1..(k - 1)]
    BY <2>1, <2>3
  <2>5. g[1..k] = f[1..k]
    BY <1>1, <1>2, <1>3, <2>3, <2>4
  <2> QED BY <2>1, <2>5
<1>5. g[1..n] = f[1..n]
  BY <1>1, <1>4
<1>6. g[1..(n + 1)] = Op(c, g[1..n], longer[n + 1])
  BY <1>1, <1>3
<1>7. SeqFold(c, longer) = Op(c, SeqFold(c, seq), e)
  BY <1>1, <1>2, <1>3, <1>5, <1>6
<1> QED BY <1>0, <1>7

(* What holds of the base, and of the accumulator after each element when it holds    *)
(* before it, holds of the whole fold.                                               *)
LEMMA SeqFoldKeeps ==
  ASSUME NEW c, NEW X, NEW seq \in Seq(X), Good(c, 0, Base(c)),
         \A k \in 1..Len(seq) : \A a : Good(c, k - 1, a) => Good(c, k, Op(c, a, seq[k]))
  PROVE  Good(c, Len(seq), SeqFold(c, seq))
<1>1. PICK f : /\ SeqFold(c, seq) = f[1..Len(seq)]
               /\ f[{}] = Base(c)
               /\ \A k \in 1..Len(seq) : f[1..k] = Op(c, f[1..(k - 1)], seq[k])
  BY SeqIter
<1>2. Len(seq) \in Nat
  BY LenProperties
<1> DEFINE T == {k \in 0..Len(seq) : ~Good(c, k, f[1..k])}
<1>3. ASSUME T # {} PROVE FALSE
  <2>1. PICK k \in T : \A j \in T : k <= j
    <3>1. T \subseteq Nat
      BY <1>2
    <3> QED BY <1>3, <3>1, LeastNat, Zenon
  <2>2. k # 0
    <3>1. 1..0 = {}
      OBVIOUS
    <3> QED BY <1>1, <2>1, <3>1
  <2>3. k \in 1..Len(seq) /\ k - 1 \in 0..Len(seq)
    BY <1>2, <2>1, <2>2
  <2>4. Good(c, k - 1, f[1..(k - 1)])
    BY <2>1, <2>3
  <2>5. Good(c, k, f[1..k])
    BY <1>1, <2>3, <2>4
  <2> QED BY <2>1, <2>5
<1>4. Good(c, Len(seq), f[1..Len(seq)])
  BY <1>2, <1>3
<1> QED BY <1>1, <1>4
=============================================================================
