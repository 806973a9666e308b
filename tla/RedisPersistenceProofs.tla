-------------------------- MODULE RedisPersistenceProofs --------------------------
(* What the append only file and the dump promise, proved of RedisPersistence for any *)
(* number of databases and any scenarios.  The inductive invariant says of the server *)
(* what the three properties leave out: that the file and the buffer together, and    *)
(* the rewritten file with the difference wherever its bytes are, replay to the data  *)
(* set in memory; that bytes move but none is lost; that more of a file restores more;*)
(* how dirty relates to the snapshot the child writes.  What a file replays to, and   *)
(* what a rewrite writes, are folds; FoldTheorems gives the induction.                *)
EXTENDS RedisPersistence, FiniteSetTheorems, SequenceTheorems, TLAPS

(* Concatenation, as an operator the provers do not look into. *)
Cat(u, v) == u \o v

-----------------------------------------------------------------------------------
(* States of the server, with writes numbered below n. *)
Below(n) == 0..(n - 1)
Datasets(n) == [Dbs -> Seq(Below(n))]
Bytes(n) == ({"SET"} \X Below(n) \X {1, 2}) \cup ({"SELECT"} \X Dbs \X {1})
              \cup ({"MULTI", "EXEC"} \X {0} \X {1})
Files(n) == Seq(Bytes(n))

Rewrites(n) == [phase : {"none", "dump", "asked", "acked", "done", "failed"},
                file : Files(n), diff : Files(n)]
Dumps(n) == [phase : {"none", "save", "done", "failed", "killed"}, snap : Datasets(n)]
Jobs == [gen : Nat, len : Nat]

Servers(n) ==
  [up : BOOLEAN, data : Datasets(n), loaded : SUBSET Nat, acked : SUBSET Nat,
   aof : {"on", "off", "wait"}, fd : {"open", "none", "stale"}, sel : Int, buf : Files(n),
   file : Files(n), synced : Nat, base : Nat, gen : Nat, orphan : BOOLEAN,
   postponed : {"no", "yes", "long"}, lastok : BOOLEAN, second : BOOLEAN,
   jobs : Seq(Jobs), rw : Rewrites(n), rwbuf : Files(n), pipe : Files(n), stop : BOOLEAN,
   rwsched : BOOLEAN, rdb : Dumps(n), dump : Datasets(n), dirty : Int, before : Nat,
   bgsched : BOOLEAN, saveok : BOOLEAN, conf : Confs]

(* At most one child; a rewrite that ended or was told to stop gets no more bytes, nor *)
(* does one while the AOF is off; an AOF that is or will be active has a file.         *)
Children(r) ==
  /\ r.rw.phase = "none" \/ r.rdb.phase = "none"
  /\ r.up /\ r.rw.phase = "none" => r.rwbuf = <<>> /\ r.pipe = <<>>
  /\ r.rw.phase \in {"acked", "done"} => r.stop
  /\ r.rw.phase = "done" => r.pipe = <<>>
  /\ r.aof # "off" => r.fd = "open"
  /\ r.aof = "off" => r.rwbuf = <<>>

(* dirty counts at least the writes that are not in the dump; what the child has not  *)
(* seen is counted by dirty without the part recorded when it was started.            *)
Unsaved(d, e) == Cardinality(Holds(d) \ Holds(e))
Saves(r) ==
  /\ Unsaved(r.data, r.dump) <= r.dirty
  /\ r.rdb.phase = "save" => Unsaved(r.data, r.rdb.snap) <= r.dirty - r.before
  /\ r.rdb.phase = "done" => Unsaved(r.data, r.dump) <= r.dirty - r.before

(* The bytes replay to the data set, with sel selected if it is known, and every part *)
(* of at least k0 bytes to an earlier one.                                            *)
Tells(s, k0, data, sel) ==
  /\ Replayed(s).data = data
  /\ sel # -1 => Replayed(s).db = sel
  /\ \A k \in k0..Len(s) : Earlier(Replayed(SubSeq(s, 1, k)).data, data)

(* What the file of a rewrite will be: the difference may be with the child, in the   *)
(* pipe or with the parent.                                                           *)
Running == {"dump", "asked", "acked", "done"}
Rewritten(r) ==
  IF r.rw.phase = "done" THEN Cat(r.rw.file, r.rwbuf)
  ELSE Cat(Cat(Cat(r.rw.file, r.rw.diff), r.pipe), r.rwbuf)

(* An active file tells, with the buffer, the data set; one that is not active tells   *)
(* what it restores itself, and nothing is to be written to it.  With an orphan buffer *)
(* that is only known of the whole file.                                               *)
From(r) == IF r.orphan THEN Len(Cat(r.file, r.buf)) ELSE r.synced
Told(r) ==
  /\ r.aof = "on" => Tells(Cat(r.file, r.buf), From(r), r.data, r.sel)
  /\ r.aof # "on" /\ ~r.orphan =>
       r.buf = <<>> /\ Tells(r.file, r.synced, Replayed(r.file).data, -1)

(* So does the file of the rewrite in progress; a job of the fsync thread stays within *)
(* the file it is for.                                                                 *)
Logs(r) ==
  /\ r.synced <= Len(r.file)
  /\ \A i \in 1..Len(r.jobs) : /\ r.jobs[i].gen <= r.gen
                               /\ r.jobs[i].gen = r.gen => r.jobs[i].len <= Len(r.file)
  /\ Told(r)
  /\ r.aof # "off" /\ r.rw.phase \in Running => Tells(Rewritten(r), Len(r.rw.file), r.data, r.sel)

(* What was acknowledged is in the part of the file that lasts; with appendfsync always *)
(* that is all of it once this process has written something.                          *)
Lasts(r) == IF r.conf.policy = "always" THEN r.synced ELSE Len(r.file)
Durable(r) ==
  /\ r.acked \subseteq Holds(r.data)
  /\ r.conf.policy = "always" => r.jobs = <<>> /\ r.postponed = "no"
  /\ r.aof = "on" /\ r.conf.policy = "always" /\ ~r.conf.nofsync /\ r.up /\ r.buf = <<>>
       => r.synced = Len(r.file) \/ Holds(r.data) \subseteq r.loaded
  /\ r.aof = "on" /\ r.lastok /\ r.postponed = "no" /\ ~r.conf.nofsync =>
       r.acked \subseteq Holds(Replayed(SubSeq(r.file, 1, Lasts(r))).data)

(* The inductive invariant. *)
Good(r, n) == r \in Servers(n) /\ Children(r) /\ Saves(r) /\ Logs(r) /\ Durable(r)
PersistenceInv == left \in Budgets /\ Good(p, left.id)

-----------------------------------------------------------------------------------
(* Two sequences put together are a sequence. *)
LEMMA CatType ==
  ASSUME NEW X, NEW u \in Seq(X), NEW v \in Seq(X)
  PROVE  Cat(u, v) \in Seq(X)
BY ConcatProperties DEF Cat

(* Putting sequences together is associative. *)
LEMMA CatAssoc ==
  ASSUME NEW X, NEW u \in Seq(X), NEW v \in Seq(X), NEW w \in Seq(X)
  PROVE  Cat(Cat(u, v), w) = Cat(u, Cat(v, w))
BY ConcatAssociative, SMTT(30) DEF Cat

(* Concatenation of five sequences. *)
LEMMA CatFive ==
  ASSUME NEW X, NEW s \in Seq(X), NEW m \in Seq(X), NEW a \in Seq(X), NEW b \in Seq(X), NEW e \in Seq(X)
  PROVE  Cat(Cat(Cat(Cat(s, m), a), b), e) = Cat(s, Cat(Cat(Cat(m, a), b), e))
<1>1. Cat(m, a) \in Seq(X) /\ Cat(Cat(m, a), b) \in Seq(X)
  BY CatType
<1>2. Cat(Cat(s, m), a) = Cat(s, Cat(m, a))
  BY CatAssoc
<1>3. Cat(Cat(s, Cat(m, a)), b) = Cat(s, Cat(Cat(m, a), b))
  BY <1>1, CatAssoc
<1>4. Cat(Cat(s, Cat(Cat(m, a), b)), e) = Cat(s, Cat(Cat(Cat(m, a), b), e))
  BY <1>1, CatAssoc
<1> QED BY <1>2, <1>3, <1>4

(* The empty sequence added, the length, the whole as its own prefix. *)
LEMMA CatProperties ==
  ASSUME NEW X, NEW u \in Seq(X), NEW v \in Seq(X)
  PROVE  /\ Cat(u, <<>>) = u /\ Cat(<<>>, u) = u
         /\ Len(Cat(u, v)) = Len(u) + Len(v) /\ Len(u) \in Nat /\ Len(v) \in Nat
BY ConcatProperties, LenProperties, ConcatEmptySeq DEF Cat

(* What a data set holds. *)

(* A data set of writes below n holds finitely many of them. *)
LEMMA HoldsType ==
  ASSUME NEW n \in Nat, NEW d \in Datasets(n)
  PROVE  Holds(d) \subseteq Below(n) /\ IsFiniteSet(Holds(d))
<1>1. Holds(d) \subseteq Below(n)
  BY DEF Holds, Datasets, Range
<1>2. IsFiniteSet(Below(n))
  BY FS_Interval DEF Below
<1> QED BY <1>1, <1>2, FS_Subset

(* The data set with one write more. *)
Added(d, db, id) == [d EXCEPT ![db] = Append(@, id)]

(* It is a data set. *)
LEMMA AddedType ==
  ASSUME NEW X, NEW d \in [Dbs -> Seq(X)], NEW db \in Dbs, NEW id \in X
  PROVE  /\ Added(d, db, id) \in [Dbs -> Seq(X)]
         /\ \A x \in Dbs \ {db} : Added(d, db, id)[x] = d[x]
         /\ Added(d, db, id)[db] = Append(d[db], id)
BY AppendProperties DEF Added

(* A write appended to one database is held besides what was held before. *)
LEMMA HoldsAppend ==
  ASSUME NEW X, NEW d \in [Dbs -> Seq(X)], NEW db \in Dbs, NEW id \in X
  PROVE  Holds(Added(d, db, id)) = Holds(d) \cup {id}
<1> DEFINE e == Added(d, db, id)
<1>1. /\ \A x \in Dbs \ {db} : e[x] = d[x]
      /\ e[db] = Append(d[db], id)
  BY AddedType
<1>2. Range(Append(d[db], id)) = Range(d[db]) \cup {id}
  <2>1. d[db] \in Seq(X)
    OBVIOUS
  <2> QED BY <2>1, AppendProperties DEF Range
<1> HIDE DEF e
<1>3. Holds(e) = Holds(d) \cup {id}
  <2>1. \A x \in Dbs : Range(e[x]) = IF x = db THEN Range(d[x]) \cup {id} ELSE Range(d[x])
    BY <1>1, <1>2
  <2> QED BY <2>1 DEF Holds
<1> QED BY <1>3 DEF e

(* A write adds at most one to the writes that are not in E. *)
LEMMA CountAppend ==
  ASSUME NEW n \in Nat, NEW d \in Datasets(n), NEW db \in Dbs, NEW id \in Below(n), NEW E,
         NEW m \in Int, Cardinality(Holds(d) \ E) <= m
  PROVE  Cardinality(Holds(Added(d, db, id)) \ E) <= m + 1
<1> DEFINE H == Holds(d) \ E
           G == Holds(Added(d, db, id)) \ E
<1>1. IsFiniteSet(H)
  BY HoldsType, FS_Subset
<1>2. G \subseteq H \cup {id} /\ H \subseteq G
  BY HoldsAppend DEF Datasets
<1> HIDE DEF G, H
<1>3. Cardinality(H) <= m /\ Cardinality(H) \in Nat
  BY <1>1, FS_CardinalityType DEF H
<1>4. CASE G = H
  BY <1>3, <1>4 DEF G
<1>5. CASE G # H
  <2>1. G = H \cup {id} /\ id \notin H
    BY <1>2, <1>5
  <2>2. Cardinality(G) = Cardinality(H) + 1
    BY <1>1, <2>1, FS_AddElement
  <2> QED BY <1>3, <2>2 DEF G
<1> QED BY <1>4, <1>5

-----------------------------------------------------------------------------------
(* Replaying a file. *)
Replays(n) == [data : Datasets(n), db : Dbs, multi : BOOLEAN, pos : Nat, valid : Nat, n : Nat]

ReplayOp(c, a, e) == ReplayStep(a, e)
ReplayBase(c) == ReplayStart
ReplayGood(c, k, a) ==
  /\ a \in Replays(c[1])
  /\ a.pos = k /\ a.valid <= k
  /\ Cardinality(Holds(a.data)) <= a.n
  /\ a = Replayed(SubSeq(c[2], 1, k))
  /\ a.data = Replayed(SubSeq(c[2], 1, a.valid)).data

Replay == INSTANCE FoldTheorems WITH Op <- ReplayOp, Base <- ReplayBase, Good <- ReplayGood

(* Replayed is the fold FoldTheorems is about. *)
LEMMA ReplayedIsFold ==
  ASSUME NEW c, NEW s
  PROVE  Replayed(s) = Replay!SeqFold(c, s)
BY Zenon DEF Replayed, FoldLeft, MapThenFoldSet, Max, ReplayOp, ReplayBase, Replay!SeqFold,
             Replay!Greatest

(* A file without a byte restores nothing. *)
LEMMA ReplayedEmpty == Replayed(<<>>) = ReplayStart
BY ReplayedIsFold, Replay!SeqFoldEmpty DEF ReplayBase

(* A byte more is a step more. *)
LEMMA ReplayedAppend ==
  ASSUME NEW X, NEW s \in Seq(X), NEW e \in X
  PROVE  Replayed(Append(s, e)) = ReplayStep(Replayed(s), e)
<1>1. Replay!SeqFold(0, Append(s, e)) = ReplayOp(0, Replay!SeqFold(0, s), e)
  BY Replay!SeqFoldAppend, Zenon
<1> QED BY <1>1, ReplayedIsFold DEF ReplayOp

(* One byte: its effect on the data set restored so far. *)
LEMMA ReplayStepType ==
  ASSUME NEW n \in Nat, NEW a \in Replays(n), NEW b \in Bytes(n)
  PROVE  /\ ReplayStep(a, b) \in Replays(n)
         /\ ReplayStep(a, b).pos = a.pos + 1
         /\ \/ ReplayStep(a, b).valid = a.pos + 1
            \/ /\ ReplayStep(a, b).valid = a.valid
               /\ ReplayStep(a, b).data = a.data
         /\ b[1] = "SELECT" => ReplayStep(a, b).data = a.data /\ ReplayStep(a, b).db = b[2]
         /\ b[1] \in {"MULTI", "EXEC"} => ReplayStep(a, b).data = a.data /\ ReplayStep(a, b).db = a.db
         /\ b[1] = "SET" /\ b[3] = 1 => ReplayStep(a, b).data = a.data /\ ReplayStep(a, b).db = a.db
         /\ b[1] = "SET" /\ b[3] = 2 =>
              /\ ReplayStep(a, b).data = Added(a.data, a.db, b[2])
              /\ ReplayStep(a, b).db = a.db
         /\ ReplayStep(a, b).n = IF b[1] = "SET" /\ b[3] = 2 THEN a.n + 1 ELSE a.n
<1>1. CASE b[1] = "SELECT"
  <2>1. b[2] \in Dbs
    BY <1>1 DEF Bytes
  <2>2. ReplayStep(a, b) =
          [data |-> a.data, db |-> b[2], multi |-> a.multi, pos |-> a.pos + 1, valid |-> a.pos + 1, n |-> a.n]
    BY <1>1 DEF ReplayStep, Replays
  <2> QED BY <1>1, <2>1, <2>2 DEF Replays
<1>2. CASE b[1] = "MULTI"
  <2>2. ReplayStep(a, b) =
          [data |-> a.data, db |-> a.db, multi |-> TRUE, pos |-> a.pos + 1, valid |-> a.pos + 1, n |-> a.n]
    BY <1>2 DEF ReplayStep, Replays
  <2> QED BY <1>2, <2>2 DEF Replays
<1>3. CASE b[1] = "EXEC"
  <2>2. ReplayStep(a, b) =
          [data |-> a.data, db |-> a.db, multi |-> FALSE, pos |-> a.pos + 1, valid |-> a.pos + 1, n |-> a.n]
    BY <1>3 DEF ReplayStep, Replays
  <2> QED BY <1>3, <2>2 DEF Replays
<1>4. CASE b[1] = "SET" /\ b[3] = 1
  <2>2. ReplayStep(a, b) =
          [data |-> a.data, db |-> a.db, multi |-> a.multi, pos |-> a.pos + 1, valid |-> a.valid, n |-> a.n]
    BY <1>4 DEF ReplayStep, Replays
  <2> QED BY <1>4, <2>2 DEF Replays
<1>5. CASE b[1] = "SET" /\ b[3] = 2
  <2> DEFINE d == Added(a.data, a.db, b[2])
  <2>1. b[2] \in Below(n)
    BY <1>5 DEF Bytes
  <2>2. ReplayStep(a, b) =
          [data |-> d, db |-> a.db, multi |-> a.multi, pos |-> a.pos + 1, valid |-> a.pos + 1, n |-> a.n + 1]
    <3>1. ReplayStep(a, b) =
            [[a EXCEPT !.data[a.db] = Append(@, b[2]), !.n = @ + 1] EXCEPT !.pos = @ + 1, !.valid = a.pos + 1]
      BY <1>5 DEF ReplayStep
    <3>2. [a EXCEPT !.data[a.db] = Append(@, b[2]), !.n = @ + 1] = [a EXCEPT !.data = d, !.n = @ + 1]
      BY DEF Replays, Added
    <3> HIDE DEF d
    <3> QED BY <3>1, <3>2 DEF Replays
  <2>3. d \in Datasets(n)
    BY <2>1, AddedType DEF Replays, Datasets
  <2> QED BY <1>5, <2>2, <2>3 DEF Replays
<1> QED BY <1>1, <1>2, <1>3, <1>4, <1>5 DEF Bytes

(* A prefix with one element more. *)
LEMMA PrefixStep ==
  ASSUME NEW X, NEW s \in Seq(X), NEW k \in 1..Len(s)
  PROVE  /\ SubSeq(s, 1, k) = Append(SubSeq(s, 1, k - 1), s[k])
         /\ SubSeq(s, 1, k - 1) \in Seq(X) /\ s[k] \in X
<1>1. Len(s) \in Nat /\ k \in Nat /\ k >= 1 /\ k <= Len(s)
  BY LenProperties
<1>2. s[k] \in X /\ \A i \in 1..(k - 1) : s[i] \in X
  BY <1>1, ElementOfSeq
<1>3. SubSeq(s, 1, k - 1) \in Seq(X)
  BY <1>1, <1>2, SubSeqProperties
<1>4. SubSeq(s, 1, k) = SubSeq(s, 1, k - 1) \o << s[k] >>
  BY <1>1, SubSeqRecursiveSecond
<1> QED BY <1>2, <1>3, <1>4, AppendIsConcat

(* What a file restores: a data set with at most n writes, as of the last complete    *)
(* command, whose end is `valid`.                                                     *)
LEMMA ReplayedType ==
  ASSUME NEW n \in Nat, NEW s \in Files(n)
  PROVE  /\ Replayed(s) \in Replays(n)
         /\ Replayed(s).pos = Len(s) /\ Replayed(s).valid <= Len(s)
         /\ Cardinality(Holds(Replayed(s).data)) <= Replayed(s).n
         /\ Replayed(SubSeq(s, 1, Replayed(s).valid)).data = Replayed(s).data
<1> DEFINE c == << n, s >>
<1>0. s \in Seq(Bytes(n)) /\ c[1] = n /\ c[2] = s
  BY DEF Files
<1> HIDE DEF c
<1>1. ReplayGood(c, 0, ReplayStart)
  <2>1. SubSeq(s, 1, 0) = <<>>
    BY SubSeqEmpty
  <2>2. Empty \in Datasets(n)
    BY EmptySeq DEF Empty, Datasets
  <2>3. Holds(Empty) = {}
    BY DEF Holds, Empty, Range
  <2>4. Cardinality({}) = 0
    BY FS_EmptySet
  <2>5. 0 \in Dbs
    BY DbnumAssumption DEF Dbs
  <2>6. /\ ReplayStart \in Replays(n)
        /\ ReplayStart.pos = 0 /\ ReplayStart.valid = 0 /\ ReplayStart.n = 0
        /\ ReplayStart.data = Empty
    BY <2>2, <2>5 DEF ReplayStart, Replays
  <2>7. Cardinality(Holds(ReplayStart.data)) <= ReplayStart.n
    BY <2>3, <2>4, <2>6
  <2>8. Replayed(SubSeq(c[2], 1, 0)) = ReplayStart
    BY <1>0, <2>1, ReplayedEmpty
  <2>9. Replayed(SubSeq(c[2], 1, ReplayStart.valid)) = ReplayStart
    BY <2>6, <2>8
  <2> QED BY <1>0, <2>6, <2>7, <2>8, <2>9 DEF ReplayGood
<1>2. ASSUME NEW k \in 1..Len(s), NEW a, ReplayGood(c, k - 1, a)
      PROVE  ReplayGood(c, k, ReplayStep(a, s[k]))
  <2> DEFINE b == s[k]
             y == ReplayStep(a, b)
  <2>1. b \in Bytes(n) /\ a \in Replays(n) /\ a.pos = k - 1 /\ a.valid <= k - 1 /\ k \in Nat
    BY <1>0, <1>2, PrefixStep, LenProperties DEF ReplayGood
  <2>2. y = Replayed(SubSeq(s, 1, k))
    <3>1. Replayed(Append(SubSeq(s, 1, k - 1), s[k])) = ReplayStep(Replayed(SubSeq(s, 1, k - 1)), s[k])
      <4>1. SubSeq(s, 1, k - 1) \in Seq(Bytes(n)) /\ s[k] \in Bytes(n)
        BY <1>0, PrefixStep
      <4> QED BY <4>1, ReplayedAppend, Zenon
    <3>2. SubSeq(s, 1, k) = Append(SubSeq(s, 1, k - 1), s[k])
      BY <1>0, PrefixStep, Zenon
    <3>3. a = Replayed(SubSeq(s, 1, k - 1))
      BY <1>0, <1>2 DEF ReplayGood
    <3> QED BY <3>1, <3>2, <3>3, Zenon
  <2> HIDE DEF b, y
  <2>3. /\ y \in Replays(n) /\ y.pos = k
        /\ y.valid = k \/ (y.valid = a.valid /\ y.data = a.data)
        /\ b[1] = "SET" /\ b[3] = 2 =>
             y.data = Added(a.data, a.db, b[2]) /\ y.n = a.n + 1
        /\ ~(b[1] = "SET" /\ b[3] = 2) => y.data = a.data /\ y.n = a.n
    <3>1. b[1] \in {"SELECT", "MULTI", "EXEC"} \/ (b[1] = "SET" /\ b[3] \in {1, 2})
      BY <2>1 DEF Bytes
    <3>2. a.pos + 1 = k
      BY <2>1
    <3> QED BY <2>1, <3>1, <3>2, ReplayStepType DEF y
  <2>4. Cardinality(Holds(y.data)) <= y.n
    <3>1. IsFiniteSet(Holds(a.data)) /\ Cardinality(Holds(a.data)) <= a.n /\ a.n \in Nat
      BY <1>2, <2>1, HoldsType DEF ReplayGood, Replays
    <3>2. CASE b[1] = "SET" /\ b[3] = 2
      <4>1. b[2] \in Below(n)
        BY <2>1, <3>2 DEF Bytes
      <4>2. a.data \in Datasets(n) /\ a.db \in Dbs
        BY <2>1 DEF Replays
      <4>3. Cardinality(Holds(y.data)) <= a.n + 1
        <5>1. Cardinality(Holds(a.data) \ {}) <= a.n /\ a.n \in Int
          BY <3>1
        <5>2. y.data = Added(a.data, a.db, b[2])
          BY <2>3, <3>2
        <5>3. Cardinality(Holds(Added(a.data, a.db, b[2])) \ {}) <= a.n + 1
          BY <4>1, <4>2, <5>1, CountAppend
        <5> QED BY <5>2, <5>3
      <4> QED BY <2>3, <3>2, <4>3
    <3>3. CASE ~(b[1] = "SET" /\ b[3] = 2)
      BY <2>3, <3>1, <3>3
    <3> QED BY <3>2, <3>3
  <2>5. y.data = Replayed(SubSeq(s, 1, y.valid)).data
    <3>1. CASE y.valid = k
      BY <2>2, <3>1
    <3>2. CASE y.valid = a.valid /\ y.data = a.data
      BY <1>0, <1>2, <3>2 DEF ReplayGood
    <3> QED BY <2>3, <3>1, <3>2
  <2>6. y.valid <= k
    BY <2>1, <2>3 DEF Replays
  <2> QED BY <1>0, <2>2, <2>3, <2>4, <2>5, <2>6 DEF ReplayGood, y, b
<1>3. ReplayGood(c, Len(s), Replay!SeqFold(c, s))
  <2>1. ReplayGood(c, 0, ReplayBase(c))
    BY <1>1 DEF ReplayBase
  <2>2. \A k \in 1..Len(s) : \A a : ReplayGood(c, k - 1, a) => ReplayGood(c, k, ReplayOp(c, a, s[k]))
    BY <1>2 DEF ReplayOp
  <2> QED BY <1>0, <2>1, <2>2, Replay!SeqFoldKeeps
<1>4. ReplayGood(c, Len(s), Replayed(s))
  BY <1>3, ReplayedIsFold
<1> QED BY <1>0, <1>4 DEF ReplayGood

-----------------------------------------------------------------------------------
(* What is known of data sets and bytes below n is known of those below m. *)
LEMMA Widen ==
  ASSUME NEW n \in Nat, NEW m \in Nat, n <= m
  PROVE  Datasets(n) \subseteq Datasets(m) /\ Files(n) \subseteq Files(m)
<1>1. Below(n) \subseteq Below(m)
  BY DEF Below
<1>2. Bytes(n) \subseteq Bytes(m)
  BY <1>1 DEF Bytes
<1>3. Seq(Below(n)) \subseteq Seq(Below(m))
  BY <1>1, SeqMonotonic
<1>4. Seq(Bytes(n)) \subseteq Seq(Bytes(m))
  BY <1>2, SeqMonotonic
<1> QED BY <1>3, <1>4 DEF Datasets, Files

(* The order of data sets in time. *)
Before(s, t) == Len(s) <= Len(t) /\ \A i \in 1..Len(s) : s[i] = t[i]

(* IsPrefix, element by element. *)
LEMMA PrefixElements ==
  ASSUME NEW X, NEW s \in Seq(X), NEW t \in Seq(X)
  PROVE  IsPrefix(s, t) <=> Before(s, t)
<1>1. Len(s) \in Nat /\ Len(t) \in Nat
  BY LenProperties
<1>2. SubSeq(s, 1, Len(s)) = s
  BY SubSeqFull
<1>3. ASSUME Len(s) <= Len(t)
      PROVE  /\ SubSeq(t, 1, Len(s)) \in Seq(X) /\ Len(SubSeq(t, 1, Len(s))) = Len(s)
             /\ \A i \in 1..Len(s) : SubSeq(t, 1, Len(s))[i] = t[i]
  <2>1. \A i \in 1..Len(s) : t[i] \in X
    BY <1>1, <1>3, ElementOfSeq
  <2>2. Len(SubSeq(t, 1, Len(s))) = Len(s)
    BY <1>1, <2>1, SubSeqProperties
  <2> QED BY <1>1, <2>1, <2>2, SubSeqProperties
<1>4. ASSUME IsPrefix(s, t) PROVE Before(s, t)
  <2>1. Len(s) <= Len(t) /\ s = SubSeq(t, 1, Len(s))
    BY <1>2, <1>4 DEF IsPrefix
  <2> QED BY <1>3, <2>1 DEF Before
<1>5. ASSUME Before(s, t) PROVE IsPrefix(s, t)
  <2>1. s = SubSeq(t, 1, Len(s))
    BY <1>3, <1>5, SeqEqual DEF Before
  <2> QED BY <1>2, <1>5, <2>1 DEF IsPrefix, Before
<1> QED BY <1>4, <1>5

(* Earlier, element by element. *)
LEMMA EarlierElements ==
  ASSUME NEW X, NEW d \in [Dbs -> Seq(X)], NEW e \in [Dbs -> Seq(X)]
  PROVE  Earlier(d, e) <=>
           \A db \in Dbs : /\ Before(d[db], e[db])
                           /\ \A i \in (Len(d[db]) + 1)..Len(e[db]) : \A id \in Holds(d) : id < e[db][i]
BY PrefixElements DEF Earlier

(* A data set is as early as itself. *)
LEMMA EarlierReflexive ==
  ASSUME NEW n \in Nat, NEW d \in Datasets(n)
  PROVE  Earlier(d, d)
<1>1. \A db \in Dbs : Before(d[db], d[db]) /\ (Len(d[db]) + 1)..Len(d[db]) = {}
  BY LenProperties DEF Datasets, Before
<1> QED BY <1>1, EarlierElements DEF Datasets

(* An earlier data set holds no more. *)
LEMMA EarlierHolds ==
  ASSUME NEW n \in Nat, NEW d \in Datasets(n), NEW e \in Datasets(n), Earlier(d, e)
  PROVE  Holds(d) \subseteq Holds(e)
<1>1. ASSUME NEW db \in Dbs, NEW id \in Range(d[db]) PROVE id \in Range(e[db])
  <2>1. d[db] \in Seq(Below(n)) /\ e[db] \in Seq(Below(n))
    BY DEF Datasets
  <2>2. Before(d[db], e[db])
    BY EarlierElements DEF Datasets
  <2>3. PICK i \in 1..Len(d[db]) : id = d[db][i]
    BY <2>1, LenProperties DEF Range
  <2>4. i \in 1..Len(e[db]) /\ id = e[db][i]
    BY <2>1, <2>2, <2>3, LenProperties DEF Before
  <2> QED BY <2>1, <2>4, LenProperties DEF Range
<1> QED BY <1>1 DEF Holds

(* Earlier than an earlier one is earlier. *)
LEMMA EarlierTransitive ==
  ASSUME NEW n \in Nat, NEW c \in Datasets(n), NEW d \in Datasets(n), NEW e \in Datasets(n),
         Earlier(c, d), Earlier(d, e)
  PROVE  Earlier(c, e)
<1>1. ASSUME NEW db \in Dbs
      PROVE  /\ Before(c[db], e[db])
             /\ \A i \in (Len(c[db]) + 1)..Len(e[db]) : \A id \in Holds(c) : id < e[db][i]
  <2>1. /\ Before(c[db], d[db]) /\ Before(d[db], e[db])
        /\ \A i \in (Len(c[db]) + 1)..Len(d[db]) : \A id \in Holds(c) : id < d[db][i]
        /\ \A i \in (Len(d[db]) + 1)..Len(e[db]) : \A id \in Holds(d) : id < e[db][i]
    BY EarlierElements DEF Datasets
  <2>2. Len(c[db]) \in Nat /\ Len(d[db]) \in Nat /\ Len(e[db]) \in Nat
    BY LenProperties DEF Datasets
  <2>3. Before(c[db], e[db])
    BY <2>1, <2>2 DEF Before
  <2>4. ASSUME NEW i \in (Len(c[db]) + 1)..Len(e[db]), NEW id \in Holds(c) PROVE id < e[db][i]
    <3>1. CASE i <= Len(d[db])
      <4>1. i \in 1..Len(d[db]) /\ i \in (Len(c[db]) + 1)..Len(d[db])
        BY <2>2, <3>1
      <4>2. d[db][i] = e[db][i]
        BY <2>1, <4>1 DEF Before
      <4> QED BY <2>1, <4>1, <4>2
    <3>2. CASE ~(i <= Len(d[db]))
      <4>1. i \in (Len(d[db]) + 1)..Len(e[db])
        BY <2>2, <3>2
      <4>2. id \in Holds(d)
        BY EarlierHolds
      <4> QED BY <2>1, <4>1, <4>2
    <3> QED BY <3>1, <3>2
  <2> QED BY <2>3, <2>4
<1> QED BY <1>1, EarlierElements DEF Datasets

(* A data set is earlier than the one with a new write. *)
LEMMA EarlierAdded ==
  ASSUME NEW n \in Nat, NEW d \in Datasets(n), NEW db \in Dbs, NEW id \in Below(n),
         \A a \in Holds(d) : a < id
  PROVE  Added(d, db, id) \in Datasets(n) /\ Earlier(d, Added(d, db, id))
<1> DEFINE e == Added(d, db, id)
<1>1. /\ e \in Datasets(n)
      /\ \A x \in Dbs \ {db} : e[x] = d[x]
      /\ e[db] = Append(d[db], id)
  BY AddedType DEF Datasets
<1> HIDE DEF e
<1>2. ASSUME NEW x \in Dbs
      PROVE  /\ Before(d[x], e[x])
             /\ \A i \in (Len(d[x]) + 1)..Len(e[x]) : \A a \in Holds(d) : a < e[x][i]
  <2>1. d[x] \in Seq(Below(n)) /\ Len(d[x]) \in Nat
    BY LenProperties DEF Datasets
  <2>2. CASE x = db
    <3>1. /\ Len(e[x]) = Len(d[x]) + 1
          /\ \A i \in 1..Len(d[x]) : e[x][i] = d[x][i]
          /\ e[x][Len(d[x]) + 1] = id
      BY <1>1, <2>1, <2>2, AppendProperties
    <3>2. \A i \in (Len(d[x]) + 1)..Len(e[x]) : i = Len(d[x]) + 1
      BY <2>1, <3>1
    <3>3. Before(d[x], e[x])
      BY <2>1, <3>1 DEF Before
    <3> QED BY <3>1, <3>2, <3>3
  <2>3. CASE x # db
    <3>1. e[x] = d[x] /\ (Len(d[x]) + 1)..Len(d[x]) = {}
      BY <1>1, <2>1, <2>3
    <3> QED BY <2>1, <3>1 DEF Before
  <2> QED BY <2>2, <2>3
<1>3. Earlier(d, e)
  BY <1>1, <1>2, EarlierElements DEF Datasets
<1> QED BY <1>1, <1>3 DEF e

(* A data set that goes on where another ends. *)
Extends(d, e) == \A db \in Dbs : Before(d[db], e[db])

(* It holds what the other holds. *)
LEMMA ExtendsHolds ==
  ASSUME NEW n \in Nat, NEW d \in Datasets(n), NEW e \in Datasets(n), Extends(d, e)
  PROVE  Holds(d) \subseteq Holds(e)
<1>1. ASSUME NEW db \in Dbs, NEW id \in Range(d[db]) PROVE id \in Range(e[db])
  <2>1. d[db] \in Seq(Below(n)) /\ e[db] \in Seq(Below(n))
    BY DEF Datasets
  <2>2. Before(d[db], e[db])
    BY DEF Extends
  <2>3. PICK i \in 1..Len(d[db]) : id = d[db][i]
    BY <2>1, LenProperties DEF Range
  <2>4. i \in 1..Len(e[db]) /\ id = e[db][i]
    BY <2>1, <2>2, <2>3, LenProperties DEF Before
  <2> QED BY <2>1, <2>4, LenProperties DEF Range
<1> QED BY <1>1 DEF Holds

(* Of two data sets that are earlier than a third the shorter one is the earlier one. *)
LEMMA EarlierBetween ==
  ASSUME NEW n \in Nat, NEW c \in Datasets(n), NEW d \in Datasets(n), NEW e \in Datasets(n),
         Extends(c, d), Earlier(c, e), Earlier(d, e)
  PROVE  Earlier(c, d)
<1>1. ASSUME NEW db \in Dbs
      PROVE  /\ Before(c[db], d[db])
             /\ \A i \in (Len(c[db]) + 1)..Len(d[db]) : \A id \in Holds(c) : id < d[db][i]
  <2>1. /\ Before(c[db], d[db]) /\ Before(d[db], e[db])
        /\ \A i \in (Len(c[db]) + 1)..Len(e[db]) : \A id \in Holds(c) : id < e[db][i]
    BY EarlierElements DEF Datasets, Extends
  <2>2. Len(c[db]) \in Nat /\ Len(d[db]) \in Nat /\ Len(e[db]) \in Nat
    BY LenProperties DEF Datasets
  <2>3. ASSUME NEW i \in (Len(c[db]) + 1)..Len(d[db]), NEW id \in Holds(c) PROVE id < d[db][i]
    <3>1. i \in 1..Len(d[db]) /\ i \in (Len(c[db]) + 1)..Len(e[db])
      BY <2>1, <2>2 DEF Before
    <3>2. d[db][i] = e[db][i]
      BY <2>1, <3>1 DEF Before
    <3> QED BY <2>1, <3>1, <3>2
  <2> QED BY <2>1, <2>3
<1> QED BY <1>1, EarlierElements DEF Datasets

-----------------------------------------------------------------------------------
(* A file that tells the data set: what one byte more changes. *)

(* A prefix of a sequence, and of the sequence with another appended. *)
LEMMA PrefixType ==
  ASSUME NEW X, NEW s \in Seq(X), NEW t \in Seq(X), NEW k \in 0..Len(s)
  PROVE  /\ SubSeq(s, 1, k) \in Seq(X) /\ Len(SubSeq(s, 1, k)) = k
         /\ SubSeq(s \o t, 1, k) = SubSeq(s, 1, k)
<1>1. Len(s) \in Nat /\ k \in Nat /\ k <= Len(s) /\ Len(t) \in Nat
  BY LenProperties
<1>2. \A i \in 1..k : s[i] \in X /\ (s \o t)[i] = s[i]
  BY <1>1, ElementOfSeq, ConcatProperties
<1>3. /\ SubSeq(s, 1, k) \in Seq(X) /\ Len(SubSeq(s, 1, k)) = k
      /\ \A i \in 1..k : SubSeq(s, 1, k)[i] = s[i]
  BY <1>1, <1>2, SubSeqProperties
<1>4. /\ SubSeq(s \o t, 1, k) \in Seq(X) /\ Len(SubSeq(s \o t, 1, k)) = k
      /\ \A i \in 1..k : SubSeq(s \o t, 1, k)[i] = s[i]
  BY <1>1, <1>2, SubSeqProperties
<1>5. SubSeq(s \o t, 1, k) = SubSeq(s, 1, k)
  BY <1>3, <1>4, SeqEqual
<1> QED BY <1>3, <1>5

(* More bytes restore more: c = <<n, s, j>>, the bytes s and a place j in them. *)
GrowGood(c, k, a) ==
  /\ a = Replayed(SubSeq(c[2], 1, k))
  /\ k >= c[3] => Extends(Replayed(SubSeq(c[2], 1, c[3])).data, a.data)

Grow == INSTANCE FoldTheorems WITH Op <- ReplayOp, Base <- ReplayBase, Good <- GrowGood

(* Replayed is its fold, too. *)
LEMMA ReplayedIsGrow ==
  ASSUME NEW c, NEW s
  PROVE  Replayed(s) = Grow!SeqFold(c, s)
BY Zenon DEF Replayed, FoldLeft, MapThenFoldSet, Max, ReplayOp, ReplayBase, Grow!SeqFold,
             Grow!Greatest

(* A data set with a write more goes on where the one without it ends. *)
LEMMA ExtendsAdded ==
  ASSUME NEW n \in Nat, NEW d \in Datasets(n), NEW e \in Datasets(n), NEW db \in Dbs,
         NEW id \in Below(n), Extends(d, e)
  PROVE  Extends(d, d) /\ Extends(d, Added(e, db, id))
<1>1. Extends(d, d)
  BY LenProperties DEF Datasets, Extends, Before
<1>2. /\ \A x \in Dbs \ {db} : Added(e, db, id)[x] = e[x]
      /\ Added(e, db, id)[db] = Append(e[db], id)
  <2>1. e \in [Dbs -> Seq(Below(n))]
    BY DEF Datasets
  <2> QED BY <2>1, AddedType
<1>3. ASSUME NEW x \in Dbs PROVE Before(d[x], Added(e, db, id)[x])
  <2>1. e[x] \in Seq(Below(n)) /\ Len(e[x]) \in Nat /\ Len(d[x]) \in Nat /\ Before(d[x], e[x])
    BY LenProperties DEF Datasets, Extends
  <2>2. CASE x # db
    BY <1>2, <2>1, <2>2
  <2>3. CASE x = db
    <3>1. PICK t \in Seq(Below(n)) : t = e[x]
      BY <2>1
    <3>2. /\ Len(Append(t, id)) = Len(t) + 1
          /\ \A i \in 1..Len(t) : Append(t, id)[i] = t[i]
      BY AppendProperties
    <3> QED BY <1>2, <2>1, <2>3, <3>1, <3>2 DEF Before
  <2> QED BY <2>2, <2>3
<1> QED BY <1>1, <1>3 DEF Extends

(* What a part of a file restores goes on in what the file restores. *)
LEMMA ReplayedGrows ==
  ASSUME NEW n \in Nat, NEW s \in Files(n), NEW j \in 0..Len(s)
  PROVE  /\ Extends(Replayed(SubSeq(s, 1, j)).data, Replayed(s).data)
         /\ Replayed(SubSeq(s, 1, j)).data \in Datasets(n) /\ Replayed(s).data \in Datasets(n)
<1> DEFINE c == << n, s, j >>
           D == Replayed(SubSeq(s, 1, j)).data
<1>0. s \in Seq(Bytes(n)) /\ c[2] = s /\ c[3] = j /\ Len(s) \in Nat /\ j \in Nat
  BY LenProperties DEF Files
<1>1. ASSUME NEW k \in 0..Len(s)
      PROVE  /\ SubSeq(s, 1, k) \in Files(n) /\ Replayed(SubSeq(s, 1, k)) \in Replays(n)
             /\ Replayed(SubSeq(s, 1, k)).data \in Datasets(n)
  <2>1. PICK t \in Files(n) : t = SubSeq(s, 1, k)
    BY <1>0, PrefixType DEF Files
  <2>2. Replayed(t) \in Replays(n)
    BY ReplayedType
  <2> QED BY <2>1, <2>2 DEF Replays
<1>2. D \in Datasets(n)
  BY <1>1
<1> HIDE DEF c, D
<1>3. Extends(D, D)
  BY <1>2, LenProperties DEF Datasets, Extends, Before
<1>4. GrowGood(c, 0, ReplayStart)
  <2>1. SubSeq(s, 1, 0) = <<>>
    BY SubSeqEmpty
  <2>2. Replayed(SubSeq(s, 1, 0)) = ReplayStart
    BY <2>1, ReplayedEmpty
  <2>3. 0 >= j => D = ReplayStart.data
    BY <1>0, <2>2 DEF D
  <2> QED BY <1>0, <1>3, <2>2, <2>3 DEF GrowGood, D
<1>5. ASSUME NEW k \in 1..Len(s), NEW a, GrowGood(c, k - 1, a)
      PROVE  GrowGood(c, k, ReplayStep(a, s[k]))
  <2>1. k \in Nat /\ k - 1 \in 0..Len(s) /\ k \in 0..Len(s)
    BY <1>0
  <2>2. a = Replayed(SubSeq(s, 1, k - 1)) /\ a \in Replays(n)
    BY <1>0, <1>1, <1>5, <2>1 DEF GrowGood
  <2>3. PICK b \in Bytes(n), y \in Replays(n) :
          b = s[k] /\ y = ReplayStep(a, s[k]) /\ y = Replayed(SubSeq(s, 1, k))
    <3>1. SubSeq(s, 1, k - 1) \in Seq(Bytes(n)) /\ s[k] \in Bytes(n)
          /\ SubSeq(s, 1, k) = Append(SubSeq(s, 1, k - 1), s[k])
      BY <1>0, PrefixStep, Zenon
    <3>2. Replayed(Append(SubSeq(s, 1, k - 1), s[k])) = ReplayStep(Replayed(SubSeq(s, 1, k - 1)), s[k])
      BY <3>1, ReplayedAppend, Zenon
    <3>3. Replayed(SubSeq(s, 1, k)) \in Replays(n)
      BY <1>1, <2>1
    <3> QED BY <2>2, <3>1, <3>2, <3>3
  <2>4. CASE k >= j
    <3>1. CASE k = j
      BY <1>0, <1>3, <2>3, <3>1 DEF GrowGood, D
    <3>2. CASE k # j
      <4>1. Extends(D, a.data)
        <5>1. k - 1 >= j
          BY <1>0, <2>1, <2>4, <3>2
        <5> QED BY <1>0, <1>5, <5>1 DEF GrowGood, D
      <4>2. a.data \in Datasets(n) /\ a.db \in Dbs
        BY <2>2 DEF Replays
      <4>3. Extends(D, y.data)
        <5>1. CASE b[1] = "SET" /\ b[3] = 2
          <6>1. y.data = Added(a.data, a.db, b[2]) /\ b[2] \in Below(n)
            BY <2>2, <2>3, <5>1, ReplayStepType DEF Bytes
          <6>2. PICK d \in Datasets(n), x \in Dbs, id \in Below(n) : d = a.data /\ x = a.db /\ id = b[2]
            BY <4>2, <6>1
          <6>3. Extends(D, Added(d, x, id))
            BY <1>2, <4>1, <6>2, ExtendsAdded
          <6> QED BY <6>1, <6>2, <6>3
        <5>2. CASE ~(b[1] = "SET" /\ b[3] = 2)
          <6>1. b[1] \in {"SELECT", "MULTI", "EXEC"} \/ (b[1] = "SET" /\ b[3] = 1)
            BY <5>2 DEF Bytes
          <6>2. y.data = a.data
            BY <2>2, <2>3, <6>1, ReplayStepType
          <6> QED BY <4>1, <6>2
        <5> QED BY <5>1, <5>2
      <4> QED BY <1>0, <2>3, <4>3 DEF GrowGood, D
    <3> QED BY <3>1, <3>2
  <2>5. CASE ~(k >= j)
    BY <1>0, <2>3, <2>5 DEF GrowGood
  <2> QED BY <2>4, <2>5
<1>6. GrowGood(c, Len(s), Grow!SeqFold(c, s))
  <2>1. GrowGood(c, 0, ReplayBase(c))
    BY <1>4 DEF ReplayBase
  <2>2. \A k \in 1..Len(s) : \A a : GrowGood(c, k - 1, a) => GrowGood(c, k, ReplayOp(c, a, s[k]))
    BY <1>5 DEF ReplayOp
  <2> QED BY <1>0, <2>1, <2>2, Grow!SeqFoldKeeps
<1>7. GrowGood(c, Len(s), Replayed(s))
  BY <1>6, ReplayedIsGrow
<1>8. Len(s) >= j /\ Len(s) \in 0..Len(s) /\ SubSeq(s, 1, Len(s)) = s
  BY <1>0, SubSeqFull
<1>9. Replayed(s).data \in Datasets(n)
  BY <1>1, <1>8
<1> QED BY <1>0, <1>2, <1>7, <1>8, <1>9 DEF GrowGood, D

(* One byte more: the data sets restored from the prefixes stay earlier ones. *)
LEMMA TellsByte ==
  ASSUME NEW n \in Nat, NEW s \in Files(n), NEW b \in Bytes(n), NEW k0 \in 0..Len(s), NEW d, NEW sel,
         NEW e, NEW x, Tells(s, k0, d, sel), Earlier(d, e),
         ReplayStep(Replayed(s), b).data = e, x # -1 => ReplayStep(Replayed(s), b).db = x
  PROVE  Append(s, b) \in Files(n) /\ k0 \in 0..Len(Append(s, b)) /\ Tells(Append(s, b), k0, e, x)
<1> DEFINE t == Append(s, b)
<1>1. s \in Seq(Bytes(n)) /\ Len(s) \in Nat
  BY LenProperties DEF Files
<1>2. t \in Seq(Bytes(n)) /\ Len(t) = Len(s) + 1 /\ t = s \o << b >> /\ << b >> \in Seq(Bytes(n))
  BY <1>1, AppendProperties, AppendIsConcat
<1>3. Replayed(t) = ReplayStep(Replayed(s), b)
  BY <1>1, ReplayedAppend
<1>4. d \in Datasets(n) /\ e \in Datasets(n)
  <2>1. Replayed(s) \in Replays(n) /\ Replayed(t) \in Replays(n)
    BY <1>2, ReplayedType DEF Files
  <2> QED BY <1>3, <2>1 DEF Tells, Replays
<1> HIDE DEF t
<1>5. ASSUME NEW k \in k0..Len(t) PROVE Earlier(Replayed(SubSeq(t, 1, k)).data, e)
  <2>1. CASE k = Len(s) + 1
    <3>1. SubSeq(t, 1, k) = t
      BY <1>2, <2>1, SubSeqFull
    <3> QED BY <1>3, <1>4, <3>1, EarlierReflexive
  <2>2. CASE k # Len(s) + 1
    <3>1. k \in k0..Len(s) /\ k \in 0..Len(s)
      BY <1>1, <1>2, <2>2
    <3>2. SubSeq(t, 1, k) = SubSeq(s, 1, k) /\ SubSeq(s, 1, k) \in Files(n)
      BY <1>1, <1>2, <3>1, PrefixType DEF Files
    <3>3. Replayed(SubSeq(s, 1, k)).data \in Datasets(n)
      BY <3>2, ReplayedType DEF Replays
    <3>4. Earlier(Replayed(SubSeq(s, 1, k)).data, d)
      BY <3>1 DEF Tells
    <3> QED BY <1>4, <3>2, <3>3, <3>4, EarlierTransitive
  <2> QED BY <2>1, <2>2
<1>6. t \in Files(n) /\ k0 \in 0..Len(t)
  BY <1>1, <1>2 DEF Files
<1> QED BY <1>3, <1>5, <1>6 DEF Tells, t

(* A command that writes nothing, or the first part of one that writes. *)
LEMMA TellsQuiet ==
  ASSUME NEW n \in Nat, NEW s \in Files(n), NEW b \in Bytes(n), NEW k0 \in 0..Len(s), NEW d, NEW sel,
         Tells(s, k0, d, sel), b[1] \in {"MULTI", "EXEC"} \/ (b[1] = "SET" /\ b[3] = 1)
  PROVE  Append(s, b) \in Files(n) /\ k0 \in 0..Len(Append(s, b)) /\ Tells(Append(s, b), k0, d, sel)
<1>1. Replayed(s) \in Replays(n) /\ Replayed(s).data = d /\ d \in Datasets(n)
      /\ (sel # -1 => Replayed(s).db = sel)
  BY ReplayedType DEF Tells, Replays
<1>2. ReplayStep(Replayed(s), b).data = d /\ ReplayStep(Replayed(s), b).db = Replayed(s).db
  BY <1>1, ReplayStepType
<1>3. Earlier(d, d)
  BY <1>1, EarlierReflexive
<1> QED BY <1>1, <1>2, <1>3, TellsByte

(* The end of a write to the database the stream has selected. *)
LEMMA TellsWrite ==
  ASSUME NEW n \in Nat, NEW s \in Files(n), NEW id \in Below(n), NEW k0 \in 0..Len(s), NEW d,
         NEW db \in Dbs, Tells(s, k0, d, db), \A a \in Holds(d) : a < id
  PROVE  LET t == Append(s, <<"SET", id, 2>>) IN
         t \in Files(n) /\ k0 \in 0..Len(t) /\ Tells(t, k0, Added(d, db, id), db)
<1> DEFINE b == <<"SET", id, 2>>
<1>1. Replayed(s) \in Replays(n) /\ Replayed(s).data = d /\ d \in Datasets(n) /\ db # -1
      /\ Replayed(s).db = db
  BY ReplayedType DEF Tells, Replays, Dbs
<1>2. b \in Bytes(n) /\ b[1] = "SET" /\ b[2] = id /\ b[3] = 2
  BY DEF Bytes
<1> HIDE DEF b
<1>3. ReplayStep(Replayed(s), b).data = Added(d, db, id) /\ ReplayStep(Replayed(s), b).db = db
  BY <1>1, <1>2, ReplayStepType
<1>4. Earlier(d, Added(d, db, id))
  BY <1>1, EarlierAdded
<1>5. Append(s, b) \in Files(n) /\ k0 \in 0..Len(Append(s, b)) /\ Tells(Append(s, b), k0, Added(d, db, id), db)
  BY <1>1, <1>2, <1>3, <1>4, TellsByte
<1> QED BY <1>5 DEF b

(* The database of the next command is selected where the stream has another one.     *)
LEMMA TellsSelect ==
  ASSUME NEW n \in Nat, NEW s \in Files(n), NEW k0 \in 0..Len(s), NEW d, NEW sel, NEW db \in Dbs,
         Tells(s, k0, d, sel)
  PROVE  LET t == s \o (IF sel = db THEN <<>> ELSE Select(db)) IN
         t \in Files(n) /\ k0 \in 0..Len(t) /\ Tells(t, k0, d, db)
<1>1. CASE sel = db
  <2>1. s \o <<>> = s
    BY ConcatEmptySeq DEF Files
  <2> QED BY <1>1, <2>1
<1>2. CASE sel # db
  <2> DEFINE b == <<"SELECT", db, 1>>
  <2>1. s \o Select(db) = Append(s, b)
    BY AppendIsConcat DEF Select, Files, Bytes
  <2>2. b \in Bytes(n) /\ b[1] = "SELECT" /\ b[2] = db
    BY DEF Bytes
  <2> HIDE DEF b
  <2>3. Replayed(s) \in Replays(n) /\ Replayed(s).data = d /\ d \in Datasets(n)
    BY ReplayedType DEF Tells, Replays
  <2>4. ReplayStep(Replayed(s), b).data = d /\ ReplayStep(Replayed(s), b).db = db
    BY <2>2, <2>3, ReplayStepType
  <2>5. Earlier(d, d)
    BY <2>3, EarlierReflexive
  <2>6. Append(s, b) \in Files(n) /\ k0 \in 0..Len(Append(s, b)) /\ Tells(Append(s, b), k0, d, db)
    BY <2>2, <2>4, <2>5, TellsByte
  <2> QED BY <1>2, <2>1, <2>6
<1> QED BY <1>1, <1>2

(* A write, both parts. *)
LEMMA TellsSet ==
  ASSUME NEW n \in Nat, NEW s \in Files(n), NEW id \in Below(n), NEW k0 \in 0..Len(s), NEW d,
         NEW db \in Dbs, Tells(s, k0, d, db), \A a \in Holds(d) : a < id
  PROVE  LET t == s \o Set(id) IN
         t \in Files(n) /\ k0 \in 0..Len(t) /\ Tells(t, k0, Added(d, db, id), db)
<1> DEFINE b == <<"SET", id, 1>>
           c == <<"SET", id, 2>>
<1>1. b \in Bytes(n) /\ c \in Bytes(n) /\ b[1] = "SET" /\ b[3] = 1
  BY DEF Bytes
<1>2. s \o Set(id) = Append(Append(s, b), c)
  <2>1. Set(id) = << b, c >>
    BY DEF Set
  <2> HIDE DEF b, c
  <2> QED BY <1>1, <2>1 DEF Files
<1> HIDE DEF b
<1>3. Append(s, b) \in Files(n) /\ k0 \in 0..Len(Append(s, b)) /\ Tells(Append(s, b), k0, d, db)
  BY <1>1, TellsQuiet
<1>4. LET t == Append(Append(s, b), c) IN
      t \in Files(n) /\ k0 \in 0..Len(t) /\ Tells(t, k0, Added(d, db, id), db)
  BY <1>3, TellsWrite
<1> QED BY <1>2, <1>4

(* The bounds of a transaction. *)
LEMMA TellsMulti ==
  ASSUME NEW n \in Nat, NEW s \in Files(n), NEW k0 \in 0..Len(s), NEW d, NEW sel, Tells(s, k0, d, sel)
  PROVE  /\ s \o Multi \in Files(n) /\ k0 \in 0..Len(s \o Multi) /\ Tells(s \o Multi, k0, d, sel)
         /\ s \o Exec \in Files(n) /\ k0 \in 0..Len(s \o Exec) /\ Tells(s \o Exec, k0, d, sel)
<1> DEFINE b == <<"MULTI", 0, 1>>
           c == <<"EXEC", 0, 1>>
<1>1. b \in Bytes(n) /\ c \in Bytes(n) /\ b[1] = "MULTI" /\ c[1] = "EXEC"
  BY DEF Bytes
<1>2. s \o Multi = Append(s, b) /\ s \o Exec = Append(s, c)
  BY <1>1, AppendIsConcat DEF Multi, Exec, Files
<1> HIDE DEF b, c
<1> QED BY <1>1, <1>2, TellsQuiet

(* The commands of the model: the bytes propagated tell the data set they lead to.    *)
Written(k, id) == IF k = 1 THEN << id >> ELSE << id, id + 1 >>
Propagated(k, id) == IF k = 1 THEN Set(id) ELSE Multi \o Set(id) \o Set(id + 1) \o Exec
After(d, db, k, id) == IF k = 1 THEN Added(d, db, id) ELSE Added(Added(d, db, id), db, id + 1)

(* What a command or transaction writes to the data set. *)
LEMMA AfterIsConcat ==
  ASSUME NEW n \in Nat, NEW d \in Datasets(n), NEW db \in Dbs, NEW k \in {1, 2}, NEW id \in Nat,
         id + k <= n
  PROVE  /\ \A x \in Dbs : After(d, db, k, id)[x] = IF x = db THEN Cat(d[x], Written(k, id)) ELSE d[x]
         /\ After(d, db, k, id) \in Datasets(n) /\ Len(Written(k, id)) = k
<1>1. d \in [Dbs -> Seq(Below(n))] /\ id \in Below(n) /\ d[db] \in Seq(Below(n))
  BY DEF Datasets, Below
<1> DEFINE d1 == Added(d, db, id)
<1>2. /\ d1 \in [Dbs -> Seq(Below(n))]
      /\ \A x \in Dbs \ {db} : d1[x] = d[x]
      /\ d1[db] = Append(d[db], id)
  BY <1>1, AddedType
<1> HIDE DEF d1
<1>3. CASE k = 1
  <2>1. d[db] \o << id >> = Append(d[db], id)
    BY <1>1, AppendIsConcat
  <2>2. \A x \in Dbs : d1[x] = IF x = db THEN Cat(d[x], << id >>) ELSE d[x]
    BY <1>2, <2>1 DEF Cat
  <2> QED BY <1>2, <1>3, <2>2 DEF After, Written, d1, Datasets
<1>4. CASE k = 2
  <2> DEFINE d2 == Added(d1, db, id + 1)
  <2>1. id + 1 \in Below(n)
    BY <1>4 DEF Below
  <2>2. /\ d2 \in [Dbs -> Seq(Below(n))]
        /\ \A x \in Dbs \ {db} : d2[x] = d1[x]
        /\ d2[db] = Append(d1[db], id + 1)
    <3>1. PICK j \in Below(n) : j = id + 1
      BY <2>1
    <3>2. PICK e \in [Dbs -> Seq(Below(n))] : e = d1
      BY <1>2
    <3>3. /\ Added(e, db, j) \in [Dbs -> Seq(Below(n))]
          /\ \A x \in Dbs \ {db} : Added(e, db, j)[x] = e[x]
          /\ Added(e, db, j)[db] = Append(e[db], j)
      BY AddedType
    <3> QED BY <3>1, <3>2, <3>3
  <2>3. d[db] \o << id, id + 1 >> = Append(Append(d[db], id), id + 1)
    BY <1>1, <2>1
  <2> HIDE DEF d2
  <2>4. \A x \in Dbs : d2[x] = IF x = db THEN Cat(d[x], << id, id + 1 >>) ELSE d[x]
    BY <1>2, <2>2, <2>3 DEF Cat
  <2>6. Written(k, id) = << id, id + 1 >> /\ Len(<< id, id + 1 >>) = 2 /\ After(d, db, k, id) = d2
    BY <1>4 DEF After, Written, d1, d2
  <2> QED BY <1>4, <2>2, <2>4, <2>6 DEF Datasets
<1> QED BY <1>3, <1>4

(* The bytes of a command or transaction, after the SELECT it may need. *)
Fed(sel, db, k, id) == (IF sel = db THEN <<>> ELSE Select(db)) \o Propagated(k, id)

(* What is put together is as long as each of its parts at least. *)
LEMMA LongerThanParts ==
  ASSUME NEW X, NEW u \in Seq(X), NEW v \in Seq(X)
  PROVE  u \o v \in Seq(X) /\ Len(u \o v) >= Len(u) /\ Len(u \o v) >= Len(v)
BY ConcatProperties, LenProperties

(* They are bytes, and not none. *)
LEMMA FedType ==
  ASSUME NEW n \in Nat, NEW sel, NEW db \in Dbs, NEW k \in {1, 2}, NEW id \in Nat, id + k <= n
  PROVE  /\ Propagated(k, id) \in Files(n)
         /\ Select(db) \in Files(n) /\ Set(id) \in Files(n) /\ (k = 2 => Set(id + 1) \in Files(n))
         /\ Multi \in Files(n) /\ Exec \in Files(n)
         /\ Fed(sel, db, k, id) \in Files(n) /\ Fed(sel, db, k, id) # <<>>
<1> DEFINE B == Bytes(n)
<1>1. /\ Select(db) \in Seq(B) /\ Multi \in Seq(B) /\ Exec \in Seq(B)
      /\ \A j \in Below(n) : Set(j) \in Seq(B) /\ Len(Set(j)) = 2
  <2>1. <<"SELECT", db, 1>> \in B /\ <<"MULTI", 0, 1>> \in B /\ <<"EXEC", 0, 1>> \in B
    BY DEF Bytes
  <2>2. \A j \in Below(n) : <<"SET", j, 1>> \in B /\ <<"SET", j, 2>> \in B
    BY DEF Bytes
  <2> HIDE DEF B
  <2>3. Select(db) \in Seq(B) /\ Multi \in Seq(B) /\ Exec \in Seq(B)
    BY <2>1 DEF Select, Multi, Exec
  <2>4. ASSUME NEW j \in Below(n) PROVE Set(j) \in Seq(B) /\ Len(Set(j)) = 2
    <3>1. PICK b \in B, c \in B : Set(j) = << b, c >>
      BY <2>2 DEF Set
    <3> QED BY <3>1
  <2> QED BY <2>3, <2>4
<1>2. id \in Below(n) /\ (k = 2 => id + 1 \in Below(n))
  BY DEF Below
<1> HIDE DEF B
<1>3. Set(id) \in Seq(B) /\ Len(Set(id)) = 2 /\ (k = 2 => Set(id + 1) \in Seq(B))
  BY <1>1, <1>2
<1>4. Propagated(k, id) \in Seq(B) /\ Len(Propagated(k, id)) > 0
  <2>1. CASE k = 1
    BY <1>3, <2>1 DEF Propagated
  <2>2. CASE k = 2
    <3>1. Multi \o Set(id) \in Seq(B) /\ Len(Multi \o Set(id)) >= Len(Set(id))
      BY <1>1, <1>3, LongerThanParts, Zenon
    <3>2. /\ (Multi \o Set(id)) \o Set(id + 1) \in Seq(B)
          /\ Len((Multi \o Set(id)) \o Set(id + 1)) >= Len(Multi \o Set(id))
      BY <1>3, <2>2, <3>1, LongerThanParts, Zenon
    <3>3. /\ ((Multi \o Set(id)) \o Set(id + 1)) \o Exec \in Seq(B)
          /\ Len(((Multi \o Set(id)) \o Set(id + 1)) \o Exec) >= Len((Multi \o Set(id)) \o Set(id + 1))
      BY <1>1, <3>2, LongerThanParts, Zenon
    <3>4. Propagated(k, id) = ((Multi \o Set(id)) \o Set(id + 1)) \o Exec
      BY <2>2 DEF Propagated
    <3>5. /\ Len(Multi \o Set(id)) \in Nat /\ Len((Multi \o Set(id)) \o Set(id + 1)) \in Nat
          /\ Len(((Multi \o Set(id)) \o Set(id + 1)) \o Exec) \in Nat
      BY <3>1, <3>2, <3>3, LenProperties, Zenon
    <3>6. Len(((Multi \o Set(id)) \o Set(id + 1)) \o Exec) >= 2
      BY <1>3, <3>1, <3>2, <3>3, <3>5
    <3> QED BY <3>3, <3>4, <3>6
  <2> QED BY <2>1, <2>2
<1>5. Fed(sel, db, k, id) \in Seq(B) /\ Len(Fed(sel, db, k, id)) > 0
  <2> DEFINE first == IF sel = db THEN <<>> ELSE Select(db)
  <2>1. first \in Seq(B)
    BY <1>1, EmptySeq
  <2> HIDE DEF first
  <2>2. first \o Propagated(k, id) \in Seq(B) /\ Len(first \o Propagated(k, id)) > 0
    BY <1>4, <2>1, ConcatProperties, LenProperties
  <2> QED BY <2>2 DEF Fed, first
<1>6. Fed(sel, db, k, id) # <<>>
  BY <1>5, EmptySeq
<1> QED BY <1>1, <1>3, <1>4, <1>5, <1>6 DEF Files, B

(* A stream that tells the data set tells the one after the command too. *)
LEMMA TellsFed ==
  ASSUME NEW n \in Nat, NEW s \in Files(n), NEW k0 \in 0..Len(s), NEW d \in Datasets(n), NEW sel,
         NEW db \in Dbs, NEW k \in {1, 2}, NEW id \in Nat, id + k <= n, \A a \in Holds(d) : a < id,
         Tells(s, k0, d, sel)
  PROVE  LET t == Cat(s, Fed(sel, db, k, id)) IN
         t \in Files(n) /\ k0 \in 0..Len(t) /\ Tells(t, k0, After(d, db, k, id), db)
<1> DEFINE first == IF sel = db THEN <<>> ELSE Select(db)
           s1 == s \o first
<1>1. first \in Files(n)
  BY FedType, EmptySeq DEF Files
<1>2. s1 \in Files(n) /\ k0 \in 0..Len(s1) /\ Tells(s1, k0, d, db)
  BY TellsSelect
<1>3. Cat(s, Fed(sel, db, k, id)) = Cat(s1, Propagated(k, id))
  <2>1. Fed(sel, db, k, id) = Cat(first, Propagated(k, id)) /\ s1 = Cat(s, first)
    BY Zenon DEF Fed, Cat
  <2> HIDE DEF first, s1
  <2>2. Propagated(k, id) \in Files(n)
    BY FedType
  <2> QED BY <1>1, <2>1, <2>2, CatAssoc DEF Files
<1> HIDE DEF s1
<1>4. id \in Below(n)
  BY DEF Below
<1>5. CASE k = 1
  <2>1. LET t == s1 \o Set(id) IN
        t \in Files(n) /\ k0 \in 0..Len(t) /\ Tells(t, k0, Added(d, db, id), db)
    BY <1>2, <1>4, TellsSet
  <2> QED BY <1>3, <1>5, <2>1 DEF Propagated, After, Cat
<1>6. CASE k = 2
  <2>1. PICK s2 \in Files(n) : s2 = s1 \o Multi /\ k0 \in 0..Len(s2) /\ Tells(s2, k0, d, db)
    BY <1>2, TellsMulti
  <2>2. PICK s3 \in Files(n) : s3 = s2 \o Set(id) /\ k0 \in 0..Len(s3) /\ Tells(s3, k0, Added(d, db, id), db)
    BY <1>4, <2>1, TellsSet
  <2>3. PICK j \in Below(n) : j = id + 1
    BY <1>6 DEF Below
  <2>4. \A a \in Holds(Added(d, db, id)) : a < j
    <3>1. Holds(Added(d, db, id)) = Holds(d) \cup {id}
      BY <1>4, HoldsAppend DEF Datasets
    <3>2. Holds(d) \subseteq Below(n)
      BY HoldsType
    <3> QED BY <2>3, <3>1, <3>2 DEF Below
  <2>5. PICK s4 \in Files(n) : s4 = s3 \o Set(j) /\ k0 \in 0..Len(s4)
                               /\ Tells(s4, k0, Added(Added(d, db, id), db, j), db)
    BY <2>2, <2>3, <2>4, TellsSet
  <2>6. PICK s5 \in Files(n) : s5 = s4 \o Exec /\ k0 \in 0..Len(s5)
                               /\ Tells(s5, k0, Added(Added(d, db, id), db, j), db)
    BY <2>5, TellsMulti
  <2>7. s5 = Cat(s1, Propagated(k, id))
    <3>1. /\ s1 \in Seq(Bytes(n)) /\ Multi \in Seq(Bytes(n)) /\ Exec \in Seq(Bytes(n))
          /\ Set(id) \in Seq(Bytes(n)) /\ Set(j) \in Seq(Bytes(n))
      BY <1>2, <1>6, <2>3, FedType DEF Files
    <3>2. Propagated(k, id) = ((Multi \o Set(id)) \o Set(j)) \o Exec
      BY <1>6, <2>3 DEF Propagated
    <3>3. s2 = Cat(s1, Multi) /\ s3 = Cat(s2, Set(id)) /\ s4 = Cat(s3, Set(j)) /\ s5 = Cat(s4, Exec)
      BY <2>1, <2>2, <2>5, <2>6 DEF Cat
    <3>4. s5 = Cat(s1, Cat(Cat(Cat(Multi, Set(id)), Set(j)), Exec))
      BY <3>1, <3>3, CatFive
    <3>5. Propagated(k, id) = Cat(Cat(Cat(Multi, Set(id)), Set(j)), Exec)
      BY <3>2, Zenon DEF Cat
    <3> QED BY <3>4, <3>5
  <2>8. After(d, db, k, id) = Added(Added(d, db, id), db, j)
    BY <1>6, <2>3 DEF After
  <2> QED BY <1>3, <2>6, <2>7, <2>8
<1> QED BY <1>5, <1>6

-----------------------------------------------------------------------------------
(* rewriteAppendOnlyFile: the file it writes tells the data set it was given. *)

(* The first byte of a SET changes neither the data set nor the database selected. *)
LEMMA ReplayStepHalf ==
  ASSUME NEW n \in Nat, NEW a \in Replays(n), NEW b \in Bytes(n), b[1] = "SET", b[3] = 1
  PROVE  ReplayStep(a, b).data = a.data /\ ReplayStep(a, b).db = a.db
BY ReplayStepType

(* Its second byte adds the write. *)
LEMMA ReplayStepWhole ==
  ASSUME NEW n \in Nat, NEW a \in Replays(n), NEW b \in Bytes(n), b[1] = "SET", b[3] = 2
  PROVE  ReplayStep(a, b).data = Added(a.data, a.db, b[2]) /\ ReplayStep(a, b).db = a.db
BY ReplayStepType

(* The bytes of a SELECT and of a SET, replayed. *)
LEMMA ReplayedCommands ==
  ASSUME NEW n \in Nat, NEW s \in Files(n), NEW db \in Dbs, NEW id \in Below(n)
  PROVE  /\ s \o Select(db) \in Files(n)
         /\ Replayed(s \o Select(db)).data = Replayed(s).data /\ Replayed(s \o Select(db)).db = db
         /\ s \o Set(id) \in Files(n)
         /\ Replayed(s \o Set(id)).data = Added(Replayed(s).data, Replayed(s).db, id)
         /\ Replayed(s \o Set(id)).db = Replayed(s).db
<1> DEFINE a == <<"SELECT", db, 1>>
           b == <<"SET", id, 1>>
           c == <<"SET", id, 2>>
<1>1. /\ a \in Bytes(n) /\ a[1] = "SELECT" /\ a[2] = db
      /\ b \in Bytes(n) /\ b[1] = "SET" /\ b[3] = 1
      /\ c \in Bytes(n) /\ c[1] = "SET" /\ c[2] = id /\ c[3] = 2
  BY DEF Bytes
<1>2. Select(db) = << a >> /\ Set(id) = << b, c >>
  BY DEF Select, Set
<1> HIDE DEF a, b, c
<1>3. s \in Seq(Bytes(n)) /\ Replayed(s) \in Replays(n)
  BY ReplayedType DEF Files
<1>4. s \o Select(db) = Append(s, a) /\ s \o Set(id) = Append(Append(s, b), c)
  BY <1>1, <1>2, <1>3
<1>5. PICK t \in Seq(Bytes(n)) : t = Append(s, b)
  BY <1>1, <1>3, AppendProperties
<1>6. Append(s, a) \in Seq(Bytes(n)) /\ Append(t, c) \in Seq(Bytes(n))
  BY <1>1, <1>3, AppendProperties
<1>7. Replayed(Append(s, a)) = ReplayStep(Replayed(s), a)
  BY <1>1, <1>3, ReplayedAppend
<1>8. Replayed(t) = ReplayStep(Replayed(s), b) /\ Replayed(t) \in Replays(n)
  BY <1>1, <1>3, <1>5, ReplayedAppend, ReplayedType DEF Files
<1>9. Replayed(Append(t, c)) = ReplayStep(Replayed(t), c)
  BY <1>1, ReplayedAppend
<1>10. Replayed(Append(s, a)).data = Replayed(s).data /\ Replayed(Append(s, a)).db = db
  BY <1>1, <1>3, <1>7, ReplayStepType
<1>11. Replayed(t).data = Replayed(s).data /\ Replayed(t).db = Replayed(s).db
  BY <1>1, <1>3, <1>8, ReplayStepHalf, Zenon
<1>12. /\ Replayed(Append(t, c)).data = Added(Replayed(t).data, Replayed(t).db, id)
       /\ Replayed(Append(t, c)).db = Replayed(t).db
  BY <1>1, <1>8, <1>9, ReplayStepWhole, Zenon
<1> QED BY <1>4, <1>5, <1>6, <1>10, <1>11, <1>12 DEF Files

KeysOp(c, g, id) == RewriteKey(g, id)
KeysBase(c) == c[2] \o Select(c[3])
KeysGood(c, k, g) ==
  /\ g \in Files(c[1])
  /\ Replayed(g).db = c[3]
  /\ \A x \in Dbs : Replayed(g).data[x] = IF x = c[3] THEN SubSeq(c[4], 1, k) ELSE Replayed(c[2]).data[x]
Keys == INSTANCE FoldTheorems WITH Op <- KeysOp, Base <- KeysBase, Good <- KeysGood

(* The keys of one database. *)
LEMMA RewriteDbTells ==
  ASSUME NEW n \in Nat, NEW data \in Datasets(n), NEW f \in Files(n), NEW db \in Dbs,
         Replayed(f).data[db] = <<>>
  PROVE  /\ RewriteDb(data, f, db) \in Files(n)
         /\ \A x \in Dbs : Replayed(RewriteDb(data, f, db)).data[x] =
                             IF x = db THEN data[db] ELSE Replayed(f).data[x]
<1> DEFINE ids == data[db]
           c == << n, f, db, ids >>
<1>1. ids \in Seq(Below(n)) /\ c[1] = n /\ c[2] = f /\ c[3] = db /\ c[4] = ids
  BY DEF Datasets
<1> HIDE DEF c, ids
<1>2. CASE ids = <<>>
  <2>1. RewriteDb(data, f, db) = f
    BY <1>2 DEF RewriteDb, ids
  <2> QED BY <1>2, <2>1 DEF ids
<1>3. CASE ids # <<>>
  <2>1. RewriteDb(data, f, db) = Keys!SeqFold(c, ids)
    <3>1. RewriteDb(data, f, db) = FoldLeft(RewriteKey, KeysBase(c), ids)
      BY <1>1, <1>3, Zenon DEF RewriteDb, ids, KeysBase
    <3>2. Keys!SeqFold(c, ids) = FoldLeft(RewriteKey, KeysBase(c), ids)
      BY Zenon DEF FoldLeft, MapThenFoldSet, Max, KeysOp, Keys!SeqFold, Keys!Greatest
    <3> QED BY <3>1, <3>2, Zenon
  <2>2. KeysGood(c, 0, KeysBase(c))
    <3>1. SubSeq(ids, 1, 0) = <<>>
      BY SubSeqEmpty
    <3>2. /\ f \o Select(db) \in Files(n)
          /\ Replayed(f \o Select(db)).data = Replayed(f).data /\ Replayed(f \o Select(db)).db = db
      <4>1. PICK i \in 1..Len(ids) : TRUE
        BY <1>1, <1>3, EmptySeq
      <4>2. ids[i] \in Below(n)
        BY <1>1, ElementOfSeq
      <4> QED BY <4>2, ReplayedCommands
    <3> QED BY <1>1, <3>1, <3>2 DEF KeysGood, KeysBase
  <2>3. ASSUME NEW k \in 1..Len(ids), NEW g, KeysGood(c, k - 1, g)
        PROVE  KeysGood(c, k, KeysOp(c, g, ids[k]))
    <3>1. ids[k] \in Below(n) /\ g \in Files(n) /\ Replayed(g).db = db
      BY <1>1, <2>3, ElementOfSeq DEF KeysGood
    <3>2. /\ g \o Set(ids[k]) \in Files(n)
          /\ Replayed(g \o Set(ids[k])).data = Added(Replayed(g).data, db, ids[k])
          /\ Replayed(g \o Set(ids[k])).db = db
      BY <3>1, ReplayedCommands
    <3>3. Replayed(g).data \in [Dbs -> Seq(Below(n))]
      BY <3>1, ReplayedType DEF Replays, Datasets
    <3>4. /\ \A x \in Dbs \ {db} : Added(Replayed(g).data, db, ids[k])[x] = Replayed(g).data[x]
          /\ Added(Replayed(g).data, db, ids[k])[db] = Append(Replayed(g).data[db], ids[k])
      BY <3>1, <3>3, AddedType
    <3>5. SubSeq(ids, 1, k) = Append(SubSeq(ids, 1, k - 1), ids[k])
      BY <1>1, PrefixStep
    <3>6. \A x \in Dbs : Replayed(g).data[x] = IF x = db THEN SubSeq(ids, 1, k - 1) ELSE Replayed(f).data[x]
      BY <1>1, <2>3 DEF KeysGood
    <3>7. \A x \in Dbs : Replayed(g \o Set(ids[k])).data[x] =
                           IF x = db THEN SubSeq(ids, 1, k) ELSE Replayed(f).data[x]
      BY <3>2, <3>4, <3>5, <3>6
    <3>8. KeysOp(c, g, ids[k]) = g \o Set(ids[k])
      BY DEF KeysOp, RewriteKey
    <3> QED BY <1>1, <3>2, <3>7, <3>8 DEF KeysGood
  <2>4. KeysGood(c, Len(ids), Keys!SeqFold(c, ids))
    BY <1>1, <2>2, <2>3, Keys!SeqFoldKeeps
  <2>5. SubSeq(ids, 1, Len(ids)) = ids
    BY <1>1, SubSeqFull
  <2> QED BY <1>1, <2>1, <2>4, <2>5 DEF KeysGood, ids
<1> QED BY <1>2, <1>3

DbsOp(c, f, db) == RewriteDb(c[2], f, db)
DbsBase(c) == <<>>
DbsGood(c, k, f) ==
  f \in Files(c[1]) /\ \A x \in Dbs : Replayed(f).data[x] = IF x < k THEN c[2][x] ELSE <<>>
Databases == INSTANCE FoldTheorems WITH Op <- DbsOp, Base <- DbsBase, Good <- DbsGood

(* Every database, in order: the file the child of a rewrite writes. *)
LEMMA RewriteTells ==
  ASSUME NEW n \in Nat, NEW data \in Datasets(n)
  PROVE  /\ rewriteAppendOnlyFile(data) \in Files(n)
         /\ Replayed(rewriteAppendOnlyFile(data)).data = data
<1> DEFINE c == << n, data >>
           order == [k \in 1..dbnum |-> k - 1]
<1>1. c[1] = n /\ c[2] = data
  OBVIOUS
<1>2. order \in Seq(Dbs) /\ Len(order) = dbnum /\ \A k \in 1..dbnum : order[k] = k - 1
  BY DbnumAssumption DEF Dbs
<1>3. rewriteAppendOnlyFile(data) = Databases!SeqFold(c, order)
  <2>1. rewriteAppendOnlyFile(data) = FoldLeft(LAMBDA f, db : RewriteDb(data, f, db), <<>>, order)
    BY Zenon DEF rewriteAppendOnlyFile
  <2> HIDE DEF order
  <2>2. Databases!SeqFold(c, order) = FoldLeft(LAMBDA f, db : RewriteDb(data, f, db), <<>>, order)
    <3>1. c[2] = data
      OBVIOUS
    <3> HIDE DEF c
    <3> QED BY <3>1, Zenon DEF FoldLeft, MapThenFoldSet, Max, DbsOp, DbsBase, Databases!SeqFold, Databases!Greatest
  <2> QED BY <2>1, <2>2, Zenon
<1> HIDE DEF c, order
<1>4. DbsGood(c, 0, DbsBase(c))
  <2>1. Replayed(<<>>).data = [x \in Dbs |-> <<>>]
    BY ReplayedEmpty DEF ReplayStart, Empty
  <2>2. <<>> \in Files(n)
    BY EmptySeq DEF Files
  <2>3. \A x \in Dbs : ~(x < 0)
    BY DEF Dbs
  <2> QED BY <1>1, <2>1, <2>2, <2>3 DEF DbsGood, DbsBase
<1>5. ASSUME NEW k \in 1..Len(order), NEW f, DbsGood(c, k - 1, f)
      PROVE  DbsGood(c, k, DbsOp(c, f, order[k]))
  <2>1. PICK db \in Dbs : db = order[k] /\ db = k - 1
    BY <1>2, DbnumAssumption DEF Dbs
  <2>2. f \in Files(n) /\ \A x \in Dbs : Replayed(f).data[x] = IF x < db THEN data[x] ELSE <<>>
    BY <1>1, <1>5, <2>1 DEF DbsGood
  <2>3. Replayed(f).data[db] = <<>>
    BY <2>2 DEF Dbs
  <2>4. /\ RewriteDb(data, f, db) \in Files(n)
        /\ \A x \in Dbs : Replayed(RewriteDb(data, f, db)).data[x] =
                            IF x = db THEN data[db] ELSE Replayed(f).data[x]
    BY <2>2, <2>3, RewriteDbTells
  <2>5. \A x \in Dbs : x < k <=> x < db \/ x = db
    BY <1>2, <2>1, DbnumAssumption DEF Dbs
  <2>6. \A x \in Dbs : Replayed(RewriteDb(data, f, db)).data[x] = IF x < k THEN data[x] ELSE <<>>
    BY <2>2, <2>4, <2>5
  <2>7. DbsOp(c, f, order[k]) = RewriteDb(data, f, db)
    BY <1>1, <2>1 DEF DbsOp
  <2> QED BY <1>1, <2>4, <2>6, <2>7 DEF DbsGood
<1>6. DbsGood(c, Len(order), Databases!SeqFold(c, order))
  BY <1>2, <1>4, <1>5, Databases!SeqFoldKeeps
<1>7. PICK f \in Files(n) : f = rewriteAppendOnlyFile(data)
                            /\ \A x \in Dbs : Replayed(f).data[x] = IF x < dbnum THEN data[x] ELSE <<>>
  BY <1>1, <1>2, <1>3, <1>6 DEF DbsGood
<1>8. \A x \in Dbs : Replayed(f).data[x] = data[x]
  BY <1>7, DbnumAssumption DEF Dbs
<1>9. Replayed(f).data \in [Dbs -> Seq(Below(n))] /\ data \in [Dbs -> Seq(Below(n))]
  BY ReplayedType DEF Replays, Datasets
<1>10. Replayed(f).data = data
  BY <1>8, <1>9
<1> QED BY <1>7, <1>10

-----------------------------------------------------------------------------------
(* The parts of the invariant, and the fields of the server each of them is about.    *)
SameChildren(r, y) ==
  /\ y.up = r.up /\ y.rw = r.rw /\ y.rdb = r.rdb /\ y.rwbuf = r.rwbuf /\ y.pipe = r.pipe
  /\ y.stop = r.stop /\ y.aof = r.aof /\ y.fd = r.fd
SameSaves(r, y) ==
  y.data = r.data /\ y.dump = r.dump /\ y.dirty = r.dirty /\ y.rdb = r.rdb /\ y.before = r.before
SameLogs(r, y) ==
  /\ y.synced = r.synced /\ y.file = r.file /\ y.jobs = r.jobs /\ y.gen = r.gen /\ y.aof = r.aof
  /\ y.buf = r.buf /\ y.data = r.data /\ y.sel = r.sel /\ y.rw = r.rw /\ y.pipe = r.pipe
  /\ y.rwbuf = r.rwbuf /\ y.orphan = r.orphan
SameDurable(r, y) ==
  /\ y.acked = r.acked /\ y.loaded = r.loaded /\ y.data = r.data /\ y.conf = r.conf
  /\ y.jobs = r.jobs /\ y.aof = r.aof
  /\ y.up = r.up /\ y.buf = r.buf /\ y.synced = r.synced /\ y.file = r.file
  /\ y.lastok = r.lastok /\ y.postponed = r.postponed

(* A part holds as long as its fields are what they were. *)
LEMMA Frame ==
  ASSUME NEW r, NEW y
  PROVE  /\ Children(r) /\ SameChildren(r, y) => Children(y)
         /\ Saves(r) /\ SameSaves(r, y) => Saves(y)
         /\ Logs(r) /\ SameLogs(r, y) => Logs(y)
         /\ Durable(r) /\ SameDurable(r, y) => Durable(y)
<1>1. Children(r) /\ SameChildren(r, y) => Children(y)
  BY DEF Children, SameChildren
<1>2. Saves(r) /\ SameSaves(r, y) => Saves(y)
  BY DEF Saves, SameSaves
<1>3. Logs(r) /\ SameLogs(r, y) => Logs(y)
  <2>1. SameLogs(r, y) => Rewritten(y) = Rewritten(r) /\ From(y) = From(r)
    BY DEF SameLogs, Rewritten, From
  <2>2. SameLogs(r, y) => (Told(r) <=> Told(y))
    BY <2>1 DEF SameLogs, Told
  <2> QED BY <2>1, <2>2 DEF Logs, SameLogs
<1>4. Durable(r) /\ SameDurable(r, y) => Durable(y)
  <2>1. SameDurable(r, y) => Lasts(y) = Lasts(r)
    BY DEF SameDurable, Lasts
  <2> QED BY <2>1 DEF Durable, SameDurable
<1> QED BY <1>1, <1>2, <1>3, <1>4

(* No rewrite, no dump, no data. *)
LEMMA NothingType ==
  ASSUME NEW n \in Nat
  PROVE  /\ Empty \in Datasets(n) /\ <<>> \in Files(n) /\ <<>> \in Seq(Jobs)
         /\ NoRewrite \in Rewrites(n) /\ NoDump \in Dumps(n)
<1>1. Empty \in Datasets(n) /\ <<>> \in Files(n) /\ <<>> \in Seq(Jobs)
  BY EmptySeq DEF Empty, Datasets, Files
<1> QED BY <1>1 DEF NoRewrite, NoDump, Rewrites, Dumps

(* Files put together. *)
LEMMA FilesConcat ==
  ASSUME NEW n \in Nat, NEW s \in Files(n), NEW t \in Files(n)
  PROVE  /\ Cat(s, t) \in Files(n) /\ Len(Cat(s, t)) = Len(s) + Len(t)
         /\ Len(s) \in Nat /\ Len(t) \in Nat /\ Cat(s, <<>>) = s
         /\ SubSeq(s, 1, Len(s)) = s
         /\ Len(Cat(s, t)) \in Nat /\ Len(s) <= Len(Cat(s, t))
         /\ t # <<>> => Cat(s, t) # <<>>
<1>1. s \in Seq(Bytes(n)) /\ t \in Seq(Bytes(n))
  BY DEF Files
<1>2. Cat(s, t) \in Files(n)
  BY <1>1, CatType DEF Files
<1>3. Len(Cat(s, t)) = Len(s) + Len(t) /\ Len(s) \in Nat /\ Len(t) \in Nat /\ Cat(s, <<>>) = s
  BY <1>1, CatProperties
<1>4. ASSUME t # <<>> PROVE Cat(s, t) # <<>>
  <2>1. Len(t) # 0 /\ Len(<<>>) = 0
    BY <1>1, <1>4, EmptySeq
  <2> QED BY <1>3, <2>1
<1> QED BY <1>1, <1>2, <1>3, <1>4, SubSeqFull

(* A file that tells the data set from k0 on does so from any later place on. *)
LEMMA TellsLater ==
  ASSUME NEW n \in Nat, NEW s \in Files(n), NEW k0 \in Nat, NEW k1 \in Nat, k0 <= k1, NEW d, NEW sel,
         Tells(s, k0, d, sel)
  PROVE  Tells(s, k1, d, sel)
<1>1. Len(s) \in Nat
  BY LenProperties DEF Files
<1>2. \A k \in k1..Len(s) : k \in k0..Len(s)
  BY <1>1
<1> QED BY <1>2 DEF Tells

(* A file cut in two. *)
LEMMA SplitFile ==
  ASSUME NEW n \in Nat, NEW s \in Files(n), NEW k \in 0..Len(s)
  PROVE  /\ SubSeq(s, 1, k) \in Files(n) /\ SubSeq(s, k + 1, Len(s)) \in Files(n)
         /\ Cat(SubSeq(s, 1, k), SubSeq(s, k + 1, Len(s))) = s
<1>1. s \in Seq(Bytes(n)) /\ Len(s) \in Nat /\ k \in Nat
  BY LenProperties DEF Files
<1>2. SubSeq(s, 1, k) \in Seq(Bytes(n)) /\ SubSeq(s, k + 1, Len(s)) \in Seq(Bytes(n))
  <2>1. \A i \in 1..Len(s) : s[i] \in Bytes(n)
    BY <1>1, ElementOfSeq
  <2>2. /\ \A i \in 1..k : s[i] \in Bytes(n)
        /\ \A i \in (k + 1)..Len(s) : s[i] \in Bytes(n)
    BY <1>1, <2>1
  <2> QED BY <1>1, <2>2, SubSeqProperties
<1>3. SubSeq(s, 1, k) \o SubSeq(s, k + 1, Len(s)) = SubSeq(s, 1, Len(s))
  <2>1. 1 \in 1..(Len(s) + 1) /\ k \in (1 - 1)..Len(s) /\ Len(s) \in k..Len(s)
    BY <1>1
  <2> QED BY <1>1, <2>1, ConcatAdjacentSubSeq
<1> QED BY <1>1, <1>2, <1>3, SubSeqFull DEF Files, Cat

(* What a file tells does not depend on a selected database that is not known. *)
LEMMA TellsUnselected ==
  ASSUME NEW s, NEW k0, NEW d, NEW sel, Tells(s, k0, d, sel)
  PROVE  Tells(s, k0, d, -1)
BY DEF Tells

(* Any file tells, as a whole, what it restores. *)
LEMMA TellsItself ==
  ASSUME NEW n \in Nat, NEW s \in Files(n)
  PROVE  Tells(s, Len(s), Replayed(s).data, -1)
<1>1. Len(s) \in Nat /\ SubSeq(s, 1, Len(s)) = s
  BY FilesConcat
<1>2. Replayed(s).data \in Datasets(n)
  BY ReplayedType DEF Replays
<1>3. Earlier(Replayed(s).data, Replayed(s).data)
  BY <1>2, EarlierReflexive
<1>4. ASSUME NEW k \in Len(s)..Len(s)
      PROVE  Earlier(Replayed(SubSeq(s, 1, k)).data, Replayed(s).data)
  <2>1. k = Len(s)
    BY <1>1
  <2> QED BY <1>1, <1>3, <2>1
<1> QED BY <1>4 DEF Tells

(* A part of a file that tells a data set tells what the part restores. *)
LEMMA PrefixTells ==
  ASSUME NEW n \in Nat, NEW s \in Files(n), NEW k \in 0..Len(s), NEW k0 \in 0..k, NEW d, NEW sel,
         Tells(s, k0, d, sel)
  PROVE  LET f == SubSeq(s, 1, k) IN
         f \in Files(n) /\ Len(f) = k /\ Tells(f, k0, Replayed(f).data, -1)
<1>1. Len(s) \in Nat /\ k \in Nat /\ k0 \in Nat /\ k0 <= k /\ k <= Len(s)
  BY FilesConcat
<1>2. PICK f \in Files(n), t \in Files(n) : /\ f = SubSeq(s, 1, k) /\ Len(f) = k /\ s = Cat(f, t)
                                           /\ f \in Seq(Bytes(n)) /\ t \in Seq(Bytes(n))
  <2>1. SubSeq(s, 1, k) \in Files(n) /\ SubSeq(s, k + 1, Len(s)) \in Files(n)
        /\ s = Cat(SubSeq(s, 1, k), SubSeq(s, k + 1, Len(s)))
    BY SplitFile
  <2>2. Len(SubSeq(s, 1, k)) = k
    BY PrefixType DEF Files
  <2> QED BY <2>1, <2>2 DEF Files
<1>3. d \in Datasets(n) /\ Replayed(f).data \in Datasets(n)
  <2>1. Replayed(s) \in Replays(n) /\ Replayed(f) \in Replays(n)
    BY ReplayedType
  <2> QED BY <2>1 DEF Tells, Replays
<1>4. Earlier(Replayed(f).data, d)
  <2>1. k \in k0..Len(s)
    BY <1>1
  <2> QED BY <1>2, <2>1 DEF Tells
<1>5. ASSUME NEW j \in k0..Len(f) PROVE Earlier(Replayed(SubSeq(f, 1, j)).data, Replayed(f).data)
  <2>1. j \in 0..Len(f) /\ j \in k0..Len(s)
    BY <1>1, <1>2
  <2>2. SubSeq(s, 1, j) = SubSeq(f, 1, j)
    BY <1>2, <2>1, PrefixType DEF Cat
  <2>3. Earlier(Replayed(SubSeq(f, 1, j)).data, d)
    BY <2>1, <2>2 DEF Tells
  <2>4. /\ Extends(Replayed(SubSeq(f, 1, j)).data, Replayed(f).data)
        /\ Replayed(SubSeq(f, 1, j)).data \in Datasets(n)
    BY <2>1, ReplayedGrows
  <2> QED BY <1>3, <1>4, <2>3, <2>4, EarlierBetween
<1>6. Tells(f, k0, Replayed(f).data, -1)
  BY <1>5 DEF Tells
<1> QED BY <1>2, <1>6

(* The place from which a file and its buffer tell the data set. *)
LEMMA FromType ==
  ASSUME NEW n \in Nat, NEW r \in Servers(n), r.synced <= Len(r.file)
  PROVE  /\ Cat(r.file, r.buf) \in Files(n) /\ Len(Cat(r.file, r.buf)) \in Nat
         /\ From(r) \in 0..Len(Cat(r.file, r.buf)) /\ r.synced <= From(r) /\ r.synced \in Nat
<1>1. r.file \in Files(n) /\ r.buf \in Files(n) /\ r.synced \in Nat
  BY DEF Servers
<1>2. /\ Cat(r.file, r.buf) \in Files(n) /\ Len(Cat(r.file, r.buf)) \in Nat
      /\ Len(r.file) \in Nat /\ Len(r.file) <= Len(Cat(r.file, r.buf))
  BY <1>1, FilesConcat
<1> QED BY <1>1, <1>2 DEF From

(* Bytes that move from the buffer to the file, or are synced, are told as before. *)
LEMMA ToldLater ==
  ASSUME NEW n \in Nat, NEW r \in Servers(n), NEW y \in Servers(n), Told(r),
         r.synced <= Len(r.file), y.synced <= Len(y.file), r.synced <= y.synced,
         y.aof = r.aof, y.orphan = r.orphan, y.data = r.data, y.sel = r.sel,
         Cat(y.file, y.buf) = Cat(r.file, r.buf),
         r.aof # "on" /\ ~r.orphan => y.file = r.file /\ y.buf = r.buf
  PROVE  Told(y)
<1>1. PICK k0 \in Nat, k1 \in Nat : k0 = From(r) /\ k1 = From(y)
  BY FromType
<1>2. k0 <= k1
  BY <1>1 DEF From
<1>3. PICK s \in Files(n) : s = Cat(r.file, r.buf)
  BY FromType
<1>4. ASSUME r.aof = "on" PROVE Tells(s, k1, r.data, r.sel)
  <2>1. Tells(s, k0, r.data, r.sel)
    BY <1>1, <1>3, <1>4 DEF Told
  <2> QED BY <1>2, <2>1, TellsLater
<1>5. ASSUME r.aof # "on", ~r.orphan
      PROVE  r.buf = <<>> /\ Tells(r.file, y.synced, Replayed(r.file).data, -1)
  <2>1. r.buf = <<>> /\ Tells(r.file, r.synced, Replayed(r.file).data, -1)
    BY <1>5 DEF Told
  <2>2. PICK f \in Files(n), i \in Nat, j \in Nat : f = r.file /\ i = r.synced /\ j = y.synced
    BY DEF Servers
  <2>3. Tells(f, j, Replayed(f).data, -1)
    BY <2>1, <2>2, TellsLater
  <2> QED BY <2>1, <2>2, <2>3
<1> QED BY <1>1, <1>3, <1>4, <1>5 DEF Told

(* bio.c: the thread makes safe no more than there is. *)
LEMMA BioGood ==
  ASSUME NEW n \in Nat, NEW r, Good(r, n), r.jobs # <<>>
  PROVE  Good(bioProcessBackgroundJobs(r), n)
<1> DEFINE j == Head(r.jobs)
           s == IF j.gen = r.gen /\ j.len > r.synced THEN j.len ELSE r.synced
           y == [r EXCEPT !.jobs = Tail(@), !.synced = s]
<1>1. r \in Servers(n)
  BY DEF Good
<1>2. r.jobs \in Seq(Jobs) /\ r.synced \in Nat /\ r.gen \in Nat /\ r.file \in Files(n)
  BY <1>1 DEF Servers
<1>3. /\ j \in Jobs /\ j = r.jobs[1] /\ 1 \in 1..Len(r.jobs)
      /\ Tail(r.jobs) \in Seq(Jobs) /\ Len(Tail(r.jobs)) = Len(r.jobs) - 1
      /\ \A i \in 1..Len(Tail(r.jobs)) : Tail(r.jobs)[i] = r.jobs[i + 1] /\ i + 1 \in 1..Len(r.jobs)
  <2>1. Len(r.jobs) \in Nat \ {0}
    BY <1>2, EmptySeq
  <2> QED BY <1>2, <2>1, HeadTailProperties
<1>4. s \in Nat /\ s >= r.synced
  BY <1>2, <1>3 DEF Jobs
<1>5. bioProcessBackgroundJobs(r) = y
  BY DEF bioProcessBackgroundJobs
<1>6. s <= Len(r.file)
  <2>1. r.synced <= Len(r.file) /\ (j.gen = r.gen => j.len <= Len(r.file))
    BY <1>3 DEF Good, Logs
  <2> QED BY <2>1
<1> HIDE DEF s, j
<1>7. /\ y \in Servers(n) /\ SameChildren(r, y) /\ SameSaves(r, y)
      /\ y.jobs = Tail(r.jobs) /\ y.synced = s /\ y.file = r.file /\ y.gen = r.gen /\ y.aof = r.aof
      /\ y.buf = r.buf /\ y.data = r.data /\ y.sel = r.sel /\ y.rw = r.rw /\ y.pipe = r.pipe
      /\ y.rwbuf = r.rwbuf /\ y.acked = r.acked /\ y.conf = r.conf /\ y.up = r.up
      /\ y.lastok = r.lastok /\ y.postponed = r.postponed
      /\ y.orphan = r.orphan /\ y.loaded = r.loaded
  BY <1>1, <1>3, <1>4 DEF Servers, SameChildren, SameSaves
<1> HIDE DEF y
<1>8. Logs(y)
  <2>1. Logs(r)
    BY DEF Good
  <2>2. \A i \in 1..Len(y.jobs) : /\ y.jobs[i].gen <= y.gen
                                  /\ y.jobs[i].gen = y.gen => y.jobs[i].len <= Len(y.file)
    BY <1>3, <1>7, <2>1 DEF Logs
  <2>3. Told(y)
    <3>1. Told(r) /\ r.synced <= Len(r.file)
      BY <2>1 DEF Logs
    <3>2. y.synced <= Len(y.file) /\ r.synced <= y.synced
      BY <1>2, <1>4, <1>6, <1>7
    <3> QED BY <1>1, <1>7, <3>1, <3>2, ToldLater
  <2>4. y.aof # "off" /\ y.rw.phase \in Running => Tells(Rewritten(y), Len(y.rw.file), y.data, y.sel)
    <3>1. Rewritten(y) = Rewritten(r)
      BY <1>7 DEF Rewritten
    <3> QED BY <1>7, <2>1, <3>1 DEF Logs
  <2> QED BY <1>6, <1>7, <2>2, <2>3, <2>4 DEF Logs
<1>9. Durable(y)
  <2>1. Durable(r)
    BY DEF Good
  <2>2. r.conf.policy # "always"
    BY <2>1 DEF Durable
  <2>3. Lasts(y) = Lasts(r)
    BY <1>7, <2>2 DEF Lasts
  <2> QED BY <1>7, <2>1, <2>2, <2>3 DEF Durable
<1> QED BY <1>5, <1>7, <1>8, <1>9, Frame DEF Good

-----------------------------------------------------------------------------------
(* Commands. *)

(* What a command or transaction does to the server. *)
LEMMA ExecutedIs ==
  ASSUME NEW n \in Nat, NEW r \in Servers(n), NEW db \in Dbs, NEW k \in {1, 2}, NEW id \in Nat,
         id + k <= n
  PROVE  LET y == Executed(r, db, Written(k, id), Propagated(k, id))
             b == Fed(r.sel, db, k, id)
         IN /\ y \in Servers(n)
            /\ y.data = After(r.data, db, k, id) /\ y.dirty = r.dirty + k
            /\ y.sel = (IF r.aof = "off" THEN r.sel ELSE db)
            /\ y.buf = (IF r.aof = "on" THEN Cat(r.buf, b) ELSE r.buf)
            /\ y.rwbuf = (IF r.aof = "off" \/ r.rw.phase = "none" THEN r.rwbuf ELSE Cat(r.rwbuf, b))
            /\ y.dump = r.dump /\ y.rdb = r.rdb /\ y.before = r.before
            /\ y.up = r.up /\ y.rw = r.rw /\ y.pipe = r.pipe /\ y.stop = r.stop /\ y.aof = r.aof
            /\ y.fd = r.fd /\ y.synced = r.synced /\ y.file = r.file /\ y.jobs = r.jobs
            /\ y.gen = r.gen /\ y.acked = r.acked /\ y.conf = r.conf /\ y.lastok = r.lastok
            /\ y.postponed = r.postponed /\ y.orphan = r.orphan /\ y.loaded = r.loaded
<1> DEFINE w == Written(k, id)
           b == Fed(r.sel, db, k, id)
           D == After(r.data, db, k, id)
           q == r.dirty + k
           y0 == [r EXCEPT !.data[db] = @ \o w, !.dirty = @ + Len(w)]
           S == IF r.aof = "off" THEN r.sel ELSE db
           B == IF r.aof = "on" THEN Cat(r.buf, b) ELSE r.buf
           W == IF r.aof = "off" \/ r.rw.phase = "none" THEN r.rwbuf ELSE Cat(r.rwbuf, b)
           y == [r EXCEPT !.data = D, !.dirty = q, !.sel = S, !.buf = B, !.rwbuf = W]
<1>1. r.data \in Datasets(n) /\ r.buf \in Files(n) /\ r.rwbuf \in Files(n) /\ r.dirty \in Int
      /\ r.sel \in Int /\ db \in Int /\ k \in Int
  BY DEF Servers, Dbs
<1>2. D = [r.data EXCEPT ![db] = @ \o w] /\ D \in Datasets(n) /\ Len(w) = k
  <2>1. /\ \A x \in Dbs : D[x] = IF x = db THEN Cat(r.data[x], w) ELSE r.data[x]
        /\ D \in Datasets(n) /\ Len(w) = k
    <3>1. PICK d \in Datasets(n) : d = r.data
      BY <1>1
    <3>2. /\ \A x \in Dbs : After(d, db, k, id)[x] = IF x = db THEN Cat(d[x], Written(k, id)) ELSE d[x]
          /\ After(d, db, k, id) \in Datasets(n)
      BY AfterIsConcat
    <3>3. Len(Written(k, id)) = k
      BY DEF Written
    <3> QED BY <3>1, <3>2, <3>3
  <2> HIDE DEF D, w
  <2> QED BY <1>1, <2>1 DEF Datasets, Cat
<1>3. b \in Files(n)
  BY FedType
<1> HIDE DEF D, w, b
<1>4. Cat(r.buf, b) \in Files(n) /\ Cat(r.rwbuf, b) \in Files(n)
  BY <1>1, <1>3, FilesConcat
<1>5. y0 = [r EXCEPT !.data = D, !.dirty = q]
  <2>1. y0 = [r EXCEPT !.data = [r.data EXCEPT ![db] = @ \o w], !.dirty = @ + Len(w)]
    BY DEF Servers
  <2>2. r.dirty + Len(w) = q
    BY <1>2
  <2> QED BY <1>2, <2>1, <2>2
<1>6. q \in Int /\ S \in Int /\ B \in Files(n) /\ W \in Files(n)
  BY <1>1, <1>4
<1>7. Executed(r, db, w, Propagated(k, id)) = y
  <2> HIDE DEF q
  <2>1. CASE r.aof = "off"
    <3>1. Executed(r, db, w, Propagated(k, id)) = y0
      BY <2>1 DEF Executed
    <3>2. S = r.sel /\ B = r.buf /\ W = r.rwbuf
      BY <2>1
    <3> HIDE DEF S, B, W
    <3>3. [r EXCEPT !.data = D, !.dirty = q] = y
      BY <3>2 DEF Servers
    <3> QED BY <1>5, <3>1, <3>3
  <2>2. CASE r.aof # "off"
    <3> DEFINE u == [r EXCEPT !.data = D, !.dirty = q]
    <3>1. u.sel = r.sel /\ u.aof = r.aof /\ u.rw = r.rw /\ u.buf = r.buf
      BY DEF Servers
    <3>2. Executed(r, db, w, Propagated(k, id)) = feedAppendOnlyFile(u, db, Propagated(k, id))
      BY <1>5, <2>2 DEF Executed
    <3>3. b = (IF u.sel = db THEN <<>> ELSE Select(db)) \o Propagated(k, id)
      BY <3>1 DEF b, Fed
    <3> HIDE DEF u
    <3>4. feedAppendOnlyFile(u, db, Propagated(k, id)) =
            aofRewriteBufferAppend([u EXCEPT !.sel = db, !.buf = IF u.aof = "on" THEN @ \o b ELSE @], b)
      BY <3>3 DEF feedAppendOnlyFile
    <3> DEFINE v == [u EXCEPT !.sel = S, !.buf = B]
    <3>5. [u EXCEPT !.sel = db, !.buf = IF u.aof = "on" THEN @ \o b ELSE @] = v
      BY <2>2, <3>1 DEF Cat
    <3>6. v = [r EXCEPT !.data = D, !.dirty = q, !.sel = S, !.buf = B]
      BY DEF u, Servers
    <3>7. v.rw = r.rw /\ v.rwbuf = r.rwbuf
      BY <3>6 DEF Servers
    <3>8. aofRewriteBufferAppend(v, b) = IF r.rw.phase = "none" THEN v ELSE [v EXCEPT !.rwbuf = Cat(r.rwbuf, b)]
      BY <3>7 DEF aofRewriteBufferAppend, Cat
    <3>9. aofRewriteBufferAppend(v, b) = y
      <4> HIDE DEF v, S, B
      <4>1. CASE r.rw.phase = "none"
        <5>1. W = r.rwbuf
          BY <4>1
        <5> HIDE DEF W
        <5> QED BY <3>6, <3>8, <4>1, <5>1 DEF Servers
      <4>2. CASE r.rw.phase # "none"
        <5>1. W = Cat(r.rwbuf, b)
          BY <2>2, <4>2
        <5> HIDE DEF W
        <5> QED BY <3>6, <3>8, <4>2, <5>1 DEF Servers
      <4> QED BY <4>1, <4>2
    <3> QED BY <3>2, <3>4, <3>5, <3>9
  <2> QED BY <2>1, <2>2
<1>8. /\ y \in Servers(n)
      /\ y.data = D /\ y.dirty = q /\ y.sel = S /\ y.buf = B /\ y.rwbuf = W
      /\ y.dump = r.dump /\ y.rdb = r.rdb /\ y.before = r.before
      /\ y.up = r.up /\ y.rw = r.rw /\ y.pipe = r.pipe /\ y.stop = r.stop /\ y.aof = r.aof
      /\ y.fd = r.fd /\ y.synced = r.synced /\ y.file = r.file /\ y.jobs = r.jobs
      /\ y.gen = r.gen /\ y.acked = r.acked /\ y.conf = r.conf /\ y.lastok = r.lastok
      /\ y.postponed = r.postponed /\ y.orphan = r.orphan /\ y.loaded = r.loaded
  <2> HIDE DEF q, S, B, W
  <2> QED BY <1>2, <1>6 DEF Servers
<1> HIDE DEF y
<1> QED BY <1>7, <1>8 DEF D, w, b

(* A server whose writes are below n is one whose writes are below m. *)
LEMMA ServersWiden ==
  ASSUME NEW n \in Nat, NEW m \in Nat, n <= m, NEW r \in Servers(n)
  PROVE  r \in Servers(m)
<1>1. Datasets(n) \subseteq Datasets(m) /\ Files(n) \subseteq Files(m)
  BY Widen
<1>2. Rewrites(n) \subseteq Rewrites(m) /\ Dumps(n) \subseteq Dumps(m)
  BY <1>1 DEF Rewrites, Dumps
<1> QED BY <1>1, <1>2 DEF Servers

(* What a rewrite in progress will leave is made of bytes. *)
LEMMA RewrittenType ==
  ASSUME NEW n \in Nat, NEW r \in Servers(n)
  PROVE  /\ Rewritten(r) \in Files(n) /\ Len(r.rw.file) \in 0..Len(Rewritten(r))
         /\ r.rw.file \in Files(n) /\ r.rw.diff \in Files(n) /\ r.pipe \in Files(n) /\ r.rwbuf \in Files(n)
<1>1. r.rw.file \in Files(n) /\ r.rw.diff \in Files(n) /\ r.pipe \in Files(n) /\ r.rwbuf \in Files(n)
  BY DEF Servers, Rewrites
<1>2. PICK f \in Files(n), g \in Files(n), o \in Files(n), q \in Files(n) :
        f = r.rw.file /\ g = r.rw.diff /\ o = r.pipe /\ q = r.rwbuf
  BY <1>1
<1>3. PICK a \in Files(n) : a = Cat(f, g) /\ Len(f) <= Len(a) /\ Len(a) \in Nat /\ Len(f) \in Nat
  BY FilesConcat
<1>4. PICK b \in Files(n) : b = Cat(a, o) /\ Len(a) <= Len(b) /\ Len(b) \in Nat
  BY FilesConcat
<1>5. PICK c \in Files(n) : c = Cat(b, q) /\ Len(b) <= Len(c) /\ Len(c) \in Nat
  BY FilesConcat
<1>6. PICK d \in Files(n) : d = Cat(f, q) /\ Len(f) <= Len(d) /\ Len(d) \in Nat
  BY FilesConcat
<1>7. Rewritten(r) = IF r.rw.phase = "done" THEN d ELSE c
  BY <1>2, <1>3, <1>4, <1>5, <1>6 DEF Rewritten
<1>8. Len(f) \in 0..Len(c) /\ Len(f) \in 0..Len(d)
  BY <1>3, <1>4, <1>5, <1>6
<1>9. Rewritten(r) \in Files(n) /\ Len(r.rw.file) \in 0..Len(Rewritten(r))
  BY <1>2, <1>7, <1>8
<1> QED BY <1>1, <1>9

(* A command or transaction keeps the invariant: what it writes is counted, and goes  *)
(* to the AOF and to the rewrite in progress.                                         *)
LEMMA ExecutedGood ==
  ASSUME NEW id \in Nat, NEW r, Good(r, id), NEW db \in Dbs, NEW k \in {1, 2}
  PROVE  Good(Executed(r, db, Written(k, id), Propagated(k, id)), id + k)
<1>0. PICK n \in Nat : n = id + k
  OBVIOUS
<1> DEFINE y == Executed(r, db, Written(k, id), Propagated(k, id))
           b == Fed(r.sel, db, k, id)
<1>1. id + k <= n /\ id <= n
  BY <1>0
<1>2. r \in Servers(n) /\ r \in Servers(id)
  BY <1>1, ServersWiden DEF Good
<1>3. /\ y \in Servers(n)
      /\ y.data = After(r.data, db, k, id) /\ y.dirty = r.dirty + k
      /\ y.sel = (IF r.aof = "off" THEN r.sel ELSE db)
      /\ y.buf = (IF r.aof = "on" THEN Cat(r.buf, b) ELSE r.buf)
      /\ y.rwbuf = (IF r.aof = "off" \/ r.rw.phase = "none" THEN r.rwbuf ELSE Cat(r.rwbuf, b))
      /\ y.dump = r.dump /\ y.rdb = r.rdb /\ y.before = r.before
      /\ y.up = r.up /\ y.rw = r.rw /\ y.pipe = r.pipe /\ y.stop = r.stop /\ y.aof = r.aof
      /\ y.fd = r.fd /\ y.synced = r.synced /\ y.file = r.file /\ y.jobs = r.jobs
      /\ y.gen = r.gen /\ y.acked = r.acked /\ y.conf = r.conf /\ y.lastok = r.lastok
      /\ y.postponed = r.postponed /\ y.orphan = r.orphan /\ y.loaded = r.loaded
  BY <1>1, <1>2, ExecutedIs
<1>4. b \in Files(n) /\ b # <<>>
  BY <1>1, FedType
<1> HIDE DEF y
<1>5. r.data \in Datasets(n) /\ r.data \in Datasets(id) /\ r.file \in Files(n) /\ r.buf \in Files(n)
      /\ r.dump \in Datasets(n) /\ r.rdb.snap \in Datasets(n) /\ r.dirty \in Int /\ r.before \in Int
      /\ r.synced \in Nat /\ r.sel \in Int
  BY <1>2 DEF Servers, Dumps
<1>6. \A a \in Holds(r.data) : a < id
  BY <1>5, HoldsType DEF Below
<1>7. Children(y)
  BY <1>3 DEF Good, Children
<1>8. ASSUME NEW E, NEW m \in Int, Cardinality(Holds(r.data) \ E) <= m
      PROVE  Cardinality(Holds(y.data) \ E) <= m + k
  <2> DEFINE d1 == Added(r.data, db, id)
  <2>1. id \in Below(n)
    BY <1>0 DEF Below
  <2>2. d1 \in Datasets(n) /\ Cardinality(Holds(d1) \ E) <= m + 1
    BY <1>5, <1>8, <2>1, AddedType, CountAppend DEF Datasets
  <2>3. CASE k = 1
    BY <1>3, <2>2, <2>3 DEF After
  <2>4. CASE k = 2
    <3>1. PICK j \in Below(n) : j = id + 1
      BY <1>0, <2>4 DEF Below
    <3>2. PICK d \in Datasets(n), q \in Int : d = d1 /\ q = m + 1
      BY <2>2
    <3>3. Cardinality(Holds(d) \ E) <= q
      BY <2>2, <3>2
    <3>4. Cardinality(Holds(Added(d, db, j)) \ E) <= q + 1
      BY <3>3, CountAppend
    <3>5. y.data = Added(d, db, j)
      BY <1>3, <2>4, <3>1, <3>2 DEF After
    <3> QED BY <2>4, <3>2, <3>4, <3>5
  <2> QED BY <2>3, <2>4
<1>9. Saves(y)
  <2>1. Saves(r)
    BY DEF Good
  <2>2. Unsaved(y.data, r.dump) <= r.dirty + k
    BY <1>5, <1>8, <2>1 DEF Saves, Unsaved
  <2>5. PICK m \in Int : m = r.dirty - r.before /\ m + k = (r.dirty + k) - r.before
    BY <1>5
  <2>3. r.rdb.phase = "save" => Unsaved(y.data, r.rdb.snap) <= m + k
    BY <1>8, <2>1, <2>5 DEF Saves, Unsaved
  <2>4. r.rdb.phase = "done" => Unsaved(y.data, r.dump) <= m + k
    BY <1>8, <2>1, <2>5 DEF Saves, Unsaved
  <2> QED BY <1>3, <2>2, <2>3, <2>4, <2>5 DEF Saves
<1>10. Holds(r.data) \subseteq Holds(y.data)
  <2> DEFINE d1 == Added(r.data, db, id)
  <2>1. id \in Below(n)
    BY <1>0 DEF Below
  <2>2. d1 \in Datasets(n) /\ Holds(d1) = Holds(r.data) \cup {id}
    <3>1. PICK d \in [Dbs -> Seq(Below(n))] : d = r.data
      BY <1>5 DEF Datasets
    <3>2. Added(d, db, id) \in [Dbs -> Seq(Below(n))] /\ Holds(Added(d, db, id)) = Holds(d) \cup {id}
      BY <2>1, AddedType, HoldsAppend
    <3> QED BY <3>1, <3>2 DEF Datasets
  <2>3. CASE k = 1
    BY <1>3, <2>2, <2>3 DEF After
  <2>4. CASE k = 2
    <3>1. PICK j \in Below(n) : j = id + 1
      BY <1>0, <2>4 DEF Below
    <3>2. PICK d \in Datasets(n) : d = d1
      BY <2>2
    <3>3. Holds(Added(d, db, j)) = Holds(d) \cup {j}
      BY HoldsAppend DEF Datasets
    <3>4. y.data = Added(d, db, j)
      BY <1>3, <2>4, <3>1, <3>2 DEF After
    <3> QED BY <2>2, <3>2, <3>3, <3>4
  <2> QED BY <2>3, <2>4
<1>11. Logs(y)
  <2>1. Logs(r)
    BY DEF Good
  <2>2. Told(y)
    <3>1. ASSUME r.aof = "on" PROVE Tells(Cat(y.file, y.buf), From(y), y.data, y.sel)
      <4>1. PICK s \in Files(n), k0 \in Nat : /\ s = Cat(r.file, r.buf) /\ k0 = From(r) /\ k0 \in 0..Len(s)
        BY <1>2, <2>1, FromType DEF Logs
      <4>2. Tells(s, k0, r.data, r.sel)
        BY <2>1, <3>1, <4>1 DEF Logs, Told
      <4>3. PICK t \in Files(n) : t = Cat(s, b) /\ k0 \in 0..Len(t) /\ Tells(t, k0, After(r.data, db, k, id), db)
        BY <1>1, <1>5, <1>6, <4>1, <4>2, TellsFed
      <4>4. t = Cat(y.file, y.buf)
        <5>1. Cat(s, b) = Cat(r.file, Cat(r.buf, b))
          BY <1>4, <1>5, <4>1, CatAssoc DEF Files
        <5> QED BY <1>3, <3>1, <4>3, <5>1
      <4>5. PICK k1 \in Nat : k1 = From(y) /\ k0 <= k1
        <5>1. Len(t) \in Nat
          BY FilesConcat
        <5> QED BY <1>3, <1>5, <4>1, <4>3, <4>4, <5>1 DEF From
      <4>6. Tells(t, k1, After(r.data, db, k, id), db)
        BY <4>3, <4>5, TellsLater
      <4> QED BY <1>3, <3>1, <4>4, <4>5, <4>6
    <3>2. ASSUME r.aof # "on", ~r.orphan
          PROVE  y.buf = <<>> /\ Tells(y.file, y.synced, Replayed(y.file).data, -1)
      BY <1>3, <2>1, <3>2 DEF Logs, Told
    <3> QED BY <1>3, <3>1, <3>2 DEF Told
  <2>3. ASSUME r.aof # "off", r.rw.phase \in Running
        PROVE  Tells(Rewritten(y), Len(y.rw.file), y.data, y.sel)
    <3>1. PICK s \in Files(n) : s = Rewritten(r) /\ Len(r.rw.file) \in 0..Len(s)
      BY <1>2, RewrittenType
    <3>2. Tells(s, Len(r.rw.file), r.data, r.sel)
      BY <2>1, <2>3, <3>1 DEF Logs
    <3>3. Tells(Cat(s, b), Len(r.rw.file), After(r.data, db, k, id), db)
      BY <1>1, <1>5, <1>6, <3>1, <3>2, TellsFed
    <3>4. Cat(s, b) = Rewritten(y)
      <4>1. PICK u \in Files(n) : /\ s = Cat(u, r.rwbuf)
                                  /\ Rewritten(y) = Cat(u, y.rwbuf)
        <5>1. CASE r.rw.phase = "done"
          <6>1. r.rw.file \in Files(n)
            BY <1>2, RewrittenType
          <6> QED BY <1>3, <3>1, <5>1, <6>1 DEF Rewritten
        <5>2. CASE r.rw.phase # "done"
          <6>1. PICK v \in Files(n) : v = Cat(r.rw.file, r.rw.diff)
            BY <1>2, RewrittenType, FilesConcat
          <6>2. Cat(v, r.pipe) \in Files(n)
            BY <1>2, RewrittenType, FilesConcat
          <6> QED BY <1>3, <3>1, <5>2, <6>1, <6>2 DEF Rewritten
        <5> QED BY <5>1, <5>2
      <4>2. y.rwbuf = Cat(r.rwbuf, b) /\ r.rwbuf \in Files(n)
        BY <1>2, <1>3, <2>3, RewrittenType DEF Running
      <4> QED BY <1>4, <4>1, <4>2, CatAssoc DEF Files
    <3> QED BY <1>3, <2>3, <3>3, <3>4
  <2> QED BY <1>3, <2>1, <2>2, <2>3 DEF Logs
<1>12. Durable(y)
  <2>1. Durable(r)
    BY DEF Good
  <2>2. Lasts(y) = Lasts(r)
    BY <1>3 DEF Lasts
  <2>3. r.aof = "on" => y.buf # <<>>
    <3>1. PICK c \in Files(n) : c = b /\ c # <<>>
      BY <1>4
    <3>2. Cat(r.buf, c) # <<>>
      BY <1>5, <3>1, FilesConcat
    <3>3. Cat(r.buf, b) # <<>>
      BY <3>1, <3>2
    <3> QED BY <1>3, <3>3
  <2> QED BY <1>3, <1>10, <2>1, <2>2, <2>3 DEF Durable
<1> QED BY <1>0, <1>3, <1>7, <1>9, <1>11, <1>12 DEF Good, y

-----------------------------------------------------------------------------------
(* flushAppendOnlyFile. *)

(* What a write that was tried leaves: the file has got the first part of the buffer, *)
(* unless there was none.                                                             *)
Flushed(n, r, z) ==
  /\ SameSaves(r, z)
  /\ z.rw = r.rw /\ z.rwbuf = r.rwbuf /\ z.pipe = r.pipe /\ z.stop = r.stop /\ z.aof = r.aof
  /\ z.fd = r.fd /\ z.gen = r.gen /\ z.sel = r.sel /\ z.acked = r.acked /\ z.conf = r.conf
  /\ z.orphan = r.orphan /\ z.loaded = r.loaded
  /\ z.up => r.up
  /\ \/ \E x \in Files(n) : z.file = Cat(r.file, x) /\ Cat(x, z.buf) = r.buf
     \/ z.file = r.file /\ r.aof = "off"
  /\ z.synced = r.synced \/ z.synced = Len(z.file)
  /\ \/ z.jobs = r.jobs
     \/ /\ \E len \in 0..Len(z.file) : z.jobs = Append(r.jobs, [gen |-> r.gen, len |-> len])
        /\ r.conf.policy = "everysec"
  /\ z.postponed = "no"
  /\ z.up => z.buf = <<>> \/ ~z.lastok
  /\ ~z.up => z.conf.policy = "always" /\ z.synced = r.synced /\ z.lastok = r.lastok
  /\ z.aof = "on" /\ z.conf.policy = "always" /\ ~z.conf.nofsync /\ z.up => z.synced = Len(z.file)

(* A longer file: the jobs queued for it stay within it. *)
LEMMA JobsWithin ==
  ASSUME NEW n \in Nat, NEW jobs \in Seq(Jobs), NEW gen \in Nat, NEW f \in Files(n), NEW g \in Files(n),
         Len(f) <= Len(g), NEW len \in 0..Len(g),
         \A i \in 1..Len(jobs) : jobs[i].gen <= gen /\ (jobs[i].gen = gen => jobs[i].len <= Len(f))
  PROVE  LET more == Append(jobs, [gen |-> gen, len |-> len]) IN
         /\ \A i \in 1..Len(jobs) : jobs[i].gen <= gen /\ (jobs[i].gen = gen => jobs[i].len <= Len(g))
         /\ \A i \in 1..Len(more) : more[i].gen <= gen /\ (more[i].gen = gen => more[i].len <= Len(g))
         /\ more \in Seq(Jobs)
<1>1. Len(f) \in Nat /\ Len(g) \in Nat /\ Len(jobs) \in Nat /\ len \in Nat /\ len <= Len(g)
  BY LenProperties DEF Files
<1>2. ASSUME NEW i \in 1..Len(jobs)
      PROVE  jobs[i].gen <= gen /\ (jobs[i].gen = gen => jobs[i].len <= Len(g))
  <2>0. jobs[i] \in Jobs
    BY ElementOfSeq
  <2>1. jobs[i].len \in Nat
    BY <2>0 DEF Jobs
  <2> QED BY <1>1, <2>1
<1> DEFINE j == [gen |-> gen, len |-> len]
           more == Append(jobs, j)
<1>3. j \in Jobs /\ j.gen = gen /\ j.len = len
  BY <1>1 DEF Jobs
<1> HIDE DEF j
<1>4. /\ more \in Seq(Jobs) /\ Len(more) = Len(jobs) + 1
      /\ \A i \in 1..Len(jobs) : more[i] = jobs[i]
      /\ more[Len(jobs) + 1] = j
  BY <1>3, AppendProperties
<1> HIDE DEF more
<1>5. ASSUME NEW i \in 1..Len(more)
      PROVE  more[i].gen <= gen /\ (more[i].gen = gen => more[i].len <= Len(g))
  <2>1. CASE i = Len(jobs) + 1
    BY <1>1, <1>3, <1>4, <2>1
  <2>2. CASE i # Len(jobs) + 1
    <3>1. i \in 1..Len(jobs)
      BY <1>1, <1>4, <2>2
    <3> QED BY <1>2, <1>4, <3>1
  <2> QED BY <2>1, <2>2
<1> QED BY <1>2, <1>4, <1>5 DEF more, j

(* A write that was tried keeps the invariant. *)
LEMMA FlushedGood ==
  ASSUME NEW n \in Nat, NEW r, NEW z \in Servers(n), Good(r, n), r.up, r.buf # <<>>, Flushed(n, r, z)
  PROVE  Good(z, n)
<1>1. r \in Servers(n) /\ Children(r) /\ Saves(r) /\ Logs(r) /\ Durable(r)
  BY DEF Good
<1>2. PICK x \in Files(n) : /\ z.file = Cat(r.file, x)
                            /\ r.aof # "off" => Cat(x, z.buf) = r.buf
  <2>1. CASE \E u \in Files(n) : z.file = Cat(r.file, u) /\ Cat(u, z.buf) = r.buf
    BY <2>1
  <2>2. CASE z.file = r.file /\ r.aof = "off"
    <3>1. <<>> \in Files(n) /\ r.file \in Files(n)
      BY <1>1, NothingType DEF Servers
    <3>2. Cat(r.file, <<>>) = r.file
      BY <3>1, FilesConcat
    <3> QED BY <2>2, <3>1, <3>2
  <2> QED BY <2>1, <2>2 DEF Flushed
<1>3. /\ r.file \in Files(n) /\ r.buf \in Files(n) /\ z.file \in Files(n) /\ z.buf \in Files(n)
      /\ r.synced \in Nat /\ z.synced \in Nat /\ r.jobs \in Seq(Jobs) /\ r.gen \in Nat
      /\ r.data \in Datasets(n)
  BY <1>1 DEF Servers
<1>4. Len(r.file) <= Len(z.file) /\ Len(r.file) \in Nat /\ Len(z.file) \in Nat
  BY <1>2, <1>3, FilesConcat
<1>5. r.aof # "off" => Cat(z.file, z.buf) = Cat(r.file, r.buf)
  BY <1>2, <1>3, CatAssoc DEF Files
<1>6. Children(z)
  <2>1. z.rdb = r.rdb
    BY DEF Flushed, SameSaves
  <2> QED BY <1>1, <2>1 DEF Flushed, Children
<1>7. Saves(z)
  BY <1>1, Frame DEF Flushed
<1>8. r.synced <= z.synced /\ z.synced <= Len(z.file) /\ r.synced <= Len(r.file)
  BY <1>1, <1>3, <1>4 DEF Flushed, Logs
<1>9. Logs(z)
  <2>1. ASSUME NEW i \in 1..Len(z.jobs)
        PROVE  z.jobs[i].gen <= z.gen /\ (z.jobs[i].gen = z.gen => z.jobs[i].len <= Len(z.file))
    <3>1. \A j \in 1..Len(r.jobs) : r.jobs[j].gen <= r.gen /\ (r.jobs[j].gen = r.gen => r.jobs[j].len <= Len(r.file))
      BY <1>1 DEF Logs
    <3>2. PICK len \in 0..Len(z.file) :
            z.jobs = r.jobs \/ z.jobs = Append(r.jobs, [gen |-> r.gen, len |-> len])
      <4>1. 0 \in 0..Len(z.file)
        BY <1>4
      <4> QED BY <4>1 DEF Flushed
    <3>3. LET more == Append(r.jobs, [gen |-> r.gen, len |-> len]) IN
          /\ \A j \in 1..Len(r.jobs) : r.jobs[j].gen <= r.gen /\ (r.jobs[j].gen = r.gen => r.jobs[j].len <= Len(z.file))
          /\ \A j \in 1..Len(more) : more[j].gen <= r.gen /\ (more[j].gen = r.gen => more[j].len <= Len(z.file))
      <4>1. PICK J \in Seq(Jobs), g \in Nat, u \in Files(n), v \in Files(n) :
              J = r.jobs /\ g = r.gen /\ u = r.file /\ v = z.file
        BY <1>3
      <4>2. Len(u) <= Len(v) /\ len \in 0..Len(v)
        BY <1>4, <4>1
      <4>3. \A j \in 1..Len(J) : J[j].gen <= g /\ (J[j].gen = g => J[j].len <= Len(u))
        BY <3>1, <4>1
      <4>4. LET more == Append(J, [gen |-> g, len |-> len]) IN
            /\ \A j \in 1..Len(J) : J[j].gen <= g /\ (J[j].gen = g => J[j].len <= Len(v))
            /\ \A j \in 1..Len(more) : more[j].gen <= g /\ (more[j].gen = g => more[j].len <= Len(v))
        BY <4>2, <4>3, JobsWithin
      <4> QED BY <4>1, <4>4
    <3>4. z.gen = r.gen
      BY DEF Flushed
    <3> QED BY <2>1, <3>2, <3>3, <3>4
  <2>2. Told(z)
    <3>1. r.aof # "on" => r.orphan
      BY <1>1 DEF Logs, Told
    <3>2. CASE r.aof = "on"
      <4>1. Told(r) /\ z.aof = r.aof /\ z.orphan = r.orphan /\ z.data = r.data /\ z.sel = r.sel
        BY <1>1 DEF Logs, Flushed, SameSaves
      <4> QED BY <1>1, <1>5, <1>8, <3>2, <4>1, ToldLater
    <3>3. CASE r.aof # "on"
      BY <3>1, <3>3 DEF Told, Flushed
    <3> QED BY <3>2, <3>3
  <2>3. Rewritten(z) = Rewritten(r)
    BY DEF Flushed, Rewritten
  <2>4. z.aof # "off" /\ z.rw.phase \in Running => Tells(Rewritten(z), Len(z.rw.file), z.data, z.sel)
    BY <1>1, <2>3 DEF Logs, Flushed, SameSaves
  <2> QED BY <1>8, <2>1, <2>2, <2>4 DEF Logs
<1>10. Durable(z)
  <2>1. z.acked \subseteq Holds(z.data)
    BY <1>1 DEF Durable, Flushed, SameSaves
  <2>2. z.conf.policy = "always" => z.jobs = <<>> /\ z.postponed = "no"
    BY <1>1 DEF Durable, Flushed
  <2>3. z.aof = "on" /\ z.conf.policy = "always" /\ ~z.conf.nofsync /\ z.up /\ z.buf = <<>>
          => z.synced = Len(z.file)
    BY DEF Flushed
  <2>4. ASSUME z.aof = "on", z.lastok, z.postponed = "no", ~z.conf.nofsync
        PROVE  z.acked \subseteq Holds(Replayed(SubSeq(z.file, 1, Lasts(z))).data)
    <3>0. r.aof = "on"
      BY <2>4 DEF Flushed
    <3>1. CASE z.up
      <4>1. z.buf = <<>> /\ Lasts(z) = Len(z.file)
        BY <2>4, <3>1 DEF Flushed, Lasts
      <4>2. Cat(r.file, r.buf) = z.file
        BY <1>3, <1>5, <3>0, <4>1, FilesConcat
      <4>3. Replayed(z.file).data = r.data
        BY <1>1, <3>0, <4>2 DEF Logs, Told, Tells
      <4>4. SubSeq(z.file, 1, Len(z.file)) = z.file
        BY <1>3, FilesConcat
      <4> QED BY <2>1, <4>1, <4>3, <4>4 DEF Flushed, SameSaves
    <3>2. CASE ~z.up
      <4>1. z.conf.policy = "always" /\ z.synced = r.synced /\ z.lastok = r.lastok /\ r.conf = z.conf
            /\ r.aof = z.aof /\ r.acked = z.acked
        BY <3>2 DEF Flushed
      <4>2. r.acked \subseteq Holds(Replayed(SubSeq(r.file, 1, r.synced)).data)
        BY <1>1, <2>4, <4>1 DEF Durable, Lasts
      <4>3. SubSeq(z.file, 1, r.synced) = SubSeq(r.file, 1, r.synced)
        <5>1. r.synced \in 0..Len(r.file)
          BY <1>3, <1>4, <1>8
        <5>2. PICK f \in Seq(Bytes(n)), t \in Seq(Bytes(n)) : f = r.file /\ t = x
          BY <1>3 DEF Files
        <5>3. SubSeq(f \o t, 1, r.synced) = SubSeq(f, 1, r.synced)
          BY <5>1, <5>2, PrefixType
        <5>4. z.file = f \o t
          BY <1>2, <5>2 DEF Cat
        <5> QED BY <5>2, <5>3, <5>4
      <4> QED BY <4>1, <4>2, <4>3 DEF Lasts
    <3> QED BY <3>1, <3>2
  <2> QED BY <2>1, <2>2, <2>3, <2>4 DEF Durable
<1> QED BY <1>6, <1>7, <1>9, <1>10 DEF Good

(* After everything was written: the file may be synced, or a job queued. *)
LEMMA AllWrittenFlushed ==
  ASSUME NEW n \in Nat, NEW r, Good(r, n), r.up,
         NEW pending \in BOOLEAN
  PROVE  LET z == FsyncAfterWrite(AllWritten(r), pending) IN z \in Servers(n) /\ Flushed(n, r, z)
<1> DEFINE f == IF r.fd = "open" THEN Cat(r.file, r.buf) ELSE r.file
           L == IF r.fd = "open" THEN Len(f) ELSE r.synced
           a == [r EXCEPT !.file = f, !.buf = <<>>, !.lastok = TRUE, !.postponed = "no"]
           z == FsyncAfterWrite(a, pending)
           j == Append(r.jobs, [gen |-> r.gen, len |-> L])
           b == [a EXCEPT !.synced = L]
           c == [a EXCEPT !.second = FALSE]
           d == [a EXCEPT !.jobs = j, !.second = FALSE]
<1>1. r \in Servers(n) /\ Children(r) /\ r.synced <= Len(r.file)
  BY DEF Good, Logs
<1>2. /\ r.file \in Files(n) /\ r.buf \in Files(n) /\ r.jobs \in Seq(Jobs) /\ r.gen \in Nat
      /\ <<>> \in Files(n) /\ r.conf \in Confs /\ r.synced \in Nat
  BY <1>1, NothingType DEF Servers
<1>3. /\ f \in Files(n) /\ L \in Nat /\ L \in 0..Len(f) /\ Cat(r.buf, <<>>) = r.buf
      /\ L = r.synced \/ L = Len(f)
  <2>1. /\ Cat(r.file, r.buf) \in Files(n) /\ Cat(r.buf, <<>>) = r.buf
        /\ Len(Cat(r.file, r.buf)) \in Nat /\ Len(r.file) \in Nat
    BY <1>2, FilesConcat
  <2> QED BY <1>1, <1>2, <2>1
<1>4. j \in Seq(Jobs)
  <2>1. [gen |-> r.gen, len |-> L] \in Jobs
    BY <1>2, <1>3 DEF Jobs
  <2> QED BY <1>2, <2>1, AppendProperties
<1>5. AllWritten(r) = a
  BY DEF AllWritten, Cat, Grown
<1>6. \/ \E x \in Files(n) : f = Cat(r.file, x) /\ Cat(x, <<>>) = r.buf
      \/ f = r.file /\ r.aof = "off"
  BY <1>1, <1>2, <1>3 DEF Children
<1>7. r.aof = "on" => L = Len(f)
  BY <1>1 DEF Children
<1>8. r.fd = "open" => L = Len(f)
  OBVIOUS
<1>9. r.fd # "open" => L = r.synced
  OBVIOUS
<1> HIDE DEF f, j, L
<1>10. a.jobs = r.jobs /\ a.gen = r.gen /\ a.file = f /\ a.conf = r.conf /\ a.rw = r.rw /\ a.rdb = r.rdb
      /\ a.second = r.second /\ a.fd = r.fd /\ a.synced = r.synced
  BY <1>1 DEF Servers
<1>11. \/ z = a /\ (r.conf.policy # "always" \/ r.conf.nofsync)
       \/ z = b
       \/ z \in {c, d} /\ r.conf.policy = "everysec"
  <2>0. Synced(a) = L
    BY <1>8, <1>9, <1>10 DEF Synced
  <2>1. bioCreateBackgroundJob(a) = [a EXCEPT !.jobs = j]
    BY <1>10, <2>0 DEF bioCreateBackgroundJob, j
  <2>2. [[a EXCEPT !.jobs = j] EXCEPT !.second = FALSE] = d
    BY <1>1 DEF Servers
  <2>3. Fsynced(a) = b
    BY <2>0 DEF Fsynced
  <2>4. r.conf.nofsync \in BOOLEAN /\ r.second \in BOOLEAN
    BY <1>1 DEF Servers, Confs
  <2>5. [(IF pending THEN a ELSE bioCreateBackgroundJob(a)) EXCEPT !.second = FALSE] \in {c, d}
    <3>1. CASE pending
      BY <3>1
    <3>2. CASE ~pending
      BY <2>1, <2>2, <3>2
    <3> QED BY <3>1, <3>2
  <2> HIDE DEF a, b, c, d
  <2> QED BY <1>10, <2>3, <2>4, <2>5 DEF FsyncAfterWrite
<1>12. CASE z = a /\ (r.conf.policy # "always" \/ r.conf.nofsync)
  <2>1. a \in Servers(n) /\ Flushed(n, r, a)
    <3>1. a \in Servers(n)
      BY <1>1, <1>2, <1>3 DEF Servers
    <3> QED BY <1>1, <1>2, <1>3, <1>6, <1>12, <3>1, ZenonT(40) DEF Servers, Flushed, SameSaves
  <2> QED BY <1>5, <1>12, <2>1
<1>13. CASE z = b
  <2>1. b \in Servers(n) /\ Flushed(n, r, b)
    <3>1. b \in Servers(n)
      BY <1>1, <1>2, <1>3 DEF Servers
    <3> QED BY <1>1, <1>2, <1>3, <1>6, <1>7, <3>1, ZenonT(40) DEF Servers, Flushed, SameSaves
  <2> QED BY <1>5, <1>13, <2>1
<1>14. CASE z = c /\ r.conf.policy = "everysec"
  <2>1. c \in Servers(n) /\ Flushed(n, r, c)
    <3>1. c \in Servers(n)
      BY <1>1, <1>2, <1>3 DEF Servers
    <3> QED BY <1>1, <1>2, <1>3, <1>6, <1>14, <3>1, ZenonT(40) DEF Servers, Flushed, SameSaves
  <2> QED BY <1>5, <1>14, <2>1
<1>15. CASE z = d /\ r.conf.policy = "everysec"
  <2>1. d \in Servers(n) /\ Flushed(n, r, d)
    <3>1. \E len \in 0..Len(d.file) : d.jobs = Append(r.jobs, [gen |-> r.gen, len |-> len])
      <4>1. d.jobs = j /\ d.file = f
        BY <1>1, <1>4 DEF Servers
      <4> QED BY <1>3, <4>1 DEF j
    <3> QED BY <1>1, <1>2, <1>3, <1>4, <1>6, <1>15, <3>1, ZenonT(40) DEF Servers, Flushed, SameSaves
  <2> QED BY <1>5, <1>15, <2>1
<1> QED BY <1>11, <1>12, <1>13, <1>14, <1>15

(* A write that failed: a part of the buffer may be in the file. *)
LEMMA WriteFailedFlushed ==
  ASSUME NEW n \in Nat, NEW r, Good(r, n), r.up, r.buf # <<>>, NEW how
  PROVE  LET z == WriteFailed(r, how) IN z \in Servers(n) /\ Flushed(n, r, z)
<1> DEFINE k == IF how = "part" THEN 1 ELSE 0
           x == SubSeq(r.buf, 1, k)
           t == SubSeq(r.buf, k + 1, Len(r.buf))
           f == IF r.fd = "open" THEN Cat(r.file, x) ELSE r.file
           y == [r EXCEPT !.postponed = "no", !.file = f, !.buf = t]
           b == [y EXCEPT !.up = FALSE]
           c == [y EXCEPT !.lastok = FALSE]
<1>1. r \in Servers(n) /\ Durable(r) /\ Children(r)
  BY DEF Good
<1>2. r.file \in Files(n) /\ r.buf \in Files(n)
  BY <1>1 DEF Servers
<1>3. k \in 0..Len(r.buf)
  <2>1. Len(r.buf) \in Nat /\ Len(r.buf) # 0
    BY <1>2, EmptySeq, LenProperties DEF Files
  <2> QED BY <2>1
<1>4. x \in Files(n) /\ t \in Files(n) /\ Cat(x, t) = r.buf
  <2> HIDE DEF k
  <2> QED BY <1>2, <1>3, SplitFile
<1>5. WriteFailed(r, how) = IF r.conf.policy = "always" THEN b ELSE c
  BY DEF WriteFailed, Cat, Grown
<1> HIDE DEF x, t
<1>6. /\ f \in Files(n)
      /\ \/ \E u \in Files(n) : f = Cat(r.file, u) /\ Cat(u, t) = r.buf
         \/ f = r.file /\ r.aof = "off"
  BY <1>1, <1>2, <1>4, FilesConcat DEF Children
<1> HIDE DEF f
<1>7. CASE r.conf.policy = "always"
  <2>1. b \in Servers(n) /\ Flushed(n, r, b)
    BY <1>1, <1>4, <1>6, <1>7 DEF Servers, Flushed, SameSaves
  <2> QED BY <1>5, <1>7, <2>1
<1>8. CASE r.conf.policy # "always"
  <2>1. c \in Servers(n) /\ Flushed(n, r, c)
    BY <1>1, <1>4, <1>6, <1>8 DEF Servers, Flushed, SameSaves
  <2> QED BY <1>5, <1>8, <2>1
<1> QED BY <1>7, <1>8

(* What flushAppendOnlyFile leaves alone. *)
SameMemory(r, z) ==
  /\ SameSaves(r, z)
  /\ z.rw = r.rw /\ z.rwbuf = r.rwbuf /\ z.pipe = r.pipe /\ z.stop = r.stop /\ z.aof = r.aof
  /\ z.fd = r.fd /\ z.gen = r.gen /\ z.sel = r.sel /\ z.acked = r.acked /\ z.conf = r.conf
  /\ z.orphan = r.orphan /\ z.loaded = r.loaded

(* flushAppendOnlyFile keeps the invariant; the buffer is empty afterwards unless the *)
(* write was postponed or failed.                                                     *)
LEMMA FlushGood ==
  ASSUME NEW n \in Nat, NEW r, Good(r, n), r.up, NEW force \in BOOLEAN, NEW how \in Hows
  PROVE  LET z == flushAppendOnlyFile(r, force, how) IN
         /\ Good(z, n) /\ SameMemory(r, z)
         /\ z.up /\ z.lastok /\ z.postponed = "no" => z.buf = <<>>
<1> DEFINE pending == r.conf.policy = "everysec" /\ bioPendingJobsOfType(r) # 0
           z == flushAppendOnlyFile(r, force, how)
<1>1. r \in Servers(n) /\ pending \in BOOLEAN
  BY DEF Good
<1>2. /\ r.buf = <<>> => z = r
      /\ r.buf # <<>> /\ ~force /\ pending /\ r.postponed = "no" => z = [r EXCEPT !.postponed = "yes"]
      /\ r.buf # <<>> /\ ~force /\ pending /\ r.postponed = "yes" => z = r
      /\ r.buf # <<>> /\ ~(~force /\ pending /\ r.postponed \in {"no", "yes"}) =>
           z = IF r.fd = "none" THEN WriteFailed(r, "err")
               ELSE IF how = "ok" THEN FsyncAfterWrite(AllWritten(r), pending) ELSE WriteFailed(r, how)
  <2> HIDE DEF pending
  <2>1. z = IF r.buf = <<>> THEN r
            ELSE IF ~force /\ pending /\ r.postponed = "no" THEN [r EXCEPT !.postponed = "yes"]
            ELSE IF ~force /\ pending /\ r.postponed = "yes" THEN r
            ELSE IF r.fd = "none" THEN WriteFailed(r, "err")
            ELSE IF how = "ok" THEN FsyncAfterWrite(AllWritten(r), pending)
            ELSE WriteFailed(r, how)
    BY DEF flushAppendOnlyFile, pending
  <2> HIDE DEF z
  <2> QED BY <1>1, <2>1
<1>3. CASE r.buf = <<>>
  BY <1>2, <1>3 DEF SameMemory, SameSaves
<1>4. CASE r.buf # <<>> /\ ~force /\ pending /\ r.postponed = "no"
  <2> DEFINE y == [r EXCEPT !.postponed = "yes"]
  <2>1. /\ y \in Servers(n) /\ SameMemory(r, y) /\ SameLogs(r, y) /\ SameChildren(r, y) /\ SameSaves(r, y)
        /\ y.postponed = "yes" /\ y.conf = r.conf /\ y.acked = r.acked /\ y.data = r.data
        /\ y.aof = r.aof /\ y.up = r.up /\ y.buf = r.buf /\ y.synced = r.synced /\ y.file = r.file
        /\ y.loaded = r.loaded
    BY <1>1 DEF Servers, SameMemory, SameLogs, SameChildren, SameSaves
  <2>2. z = y /\ r.conf.policy # "always"
    BY <1>2, <1>4
  <2> HIDE DEF y, z
  <2>3. Durable(y)
    BY <2>1, <2>2 DEF Good, Durable
  <2>4. Good(y, n)
    BY <2>1, <2>3, Frame DEF Good
  <2> QED BY <1>4, <2>1, <2>2, <2>4 DEF z
<1>5. CASE r.buf # <<>> /\ ~force /\ pending /\ r.postponed = "yes"
  BY <1>2, <1>5 DEF SameMemory, SameSaves
<1>6. CASE r.buf # <<>> /\ ~(~force /\ pending /\ r.postponed \in {"no", "yes"})
  <2>1. z \in Servers(n) /\ Flushed(n, r, z)
    <3>1. CASE r.fd # "none" /\ how = "ok"
      <4>1. z = FsyncAfterWrite(AllWritten(r), pending)
        BY <1>2, <1>6, <3>1
      <4> HIDE DEF z, pending
      <4> QED BY <1>1, <4>1, AllWrittenFlushed
    <3>2. CASE ~(r.fd # "none" /\ how = "ok")
      <4>1. PICK h : z = WriteFailed(r, h)
        BY <1>2, <1>6, <3>2
      <4> HIDE DEF z, pending
      <4> QED BY <1>6, <4>1, WriteFailedFlushed
    <3> QED BY <3>1, <3>2
  <2> HIDE DEF z
  <2>2. Good(z, n)
    BY <1>6, <2>1, FlushedGood
  <2>3. SameMemory(r, z) /\ (z.up => z.buf = <<>> \/ ~z.lastok)
    BY <2>1 DEF Flushed, SameMemory
  <2> QED BY <2>1, <2>2, <2>3 DEF z
<1> HIDE DEF pending, z
<1> QED BY <1>3, <1>4, <1>5, <1>6 DEF z

(* Nothing the invariant is about has changed. *)
LEMMA GoodSame ==
  ASSUME NEW n \in Nat, NEW r, NEW y \in Servers(n), Good(r, n),
         SameChildren(r, y), SameSaves(r, y), SameLogs(r, y), SameDurable(r, y)
  PROVE  Good(y, n)
BY Frame DEF Good

(* A server that is up and has written all it has to write may reply to everyone.     *)
LEMMA AckedGood ==
  ASSUME NEW n \in Nat, NEW r, Good(r, n), r.up,
         r.aof = "on" /\ r.lastok /\ r.postponed = "no" => r.buf = <<>>
  PROVE  Good(Answered(r), n)
<1> DEFINE h == Holds(r.data) \ r.loaded
           y == [r EXCEPT !.acked = h]
<1>1. r \in Servers(n) /\ Logs(r) /\ Durable(r)
  BY DEF Good
<1>2. r.file \in Files(n) /\ r.buf \in Files(n) /\ r.data \in Datasets(n)
  BY <1>1 DEF Servers
<1>3. h \in SUBSET Nat
  BY <1>2, HoldsType DEF Below
<1> HIDE DEF h
<1>4. /\ y \in Servers(n) /\ SameChildren(r, y) /\ SameSaves(r, y) /\ SameLogs(r, y)
      /\ y.acked = h /\ y.data = r.data /\ y.conf = r.conf /\ y.jobs = r.jobs /\ y.aof = r.aof
      /\ y.up = r.up /\ y.buf = r.buf /\ y.synced = r.synced /\ y.file = r.file
      /\ y.lastok = r.lastok /\ y.postponed = r.postponed /\ y.loaded = r.loaded
  BY <1>1, <1>3 DEF Servers, SameChildren, SameSaves, SameLogs
<1> HIDE DEF y
<1>5. ASSUME y.aof = "on", y.lastok, y.postponed = "no", ~y.conf.nofsync
      PROVE  y.acked \subseteq Holds(Replayed(SubSeq(y.file, 1, Lasts(y))).data)
  <2>1. r.buf = <<>> /\ (Lasts(y) = Len(r.file) \/ h = {})
    BY <1>1, <1>4, <1>5 DEF Durable, Lasts, h
  <2>2. Cat(r.file, r.buf) = r.file /\ SubSeq(r.file, 1, Len(r.file)) = r.file
    BY <1>2, <2>1, FilesConcat
  <2>3. Replayed(r.file).data = r.data
    BY <1>1, <1>4, <1>5, <2>2 DEF Logs, Told, Tells
  <2> QED BY <1>4, <2>1, <2>2, <2>3 DEF h
<1>6. Durable(y)
  BY <1>1, <1>4, <1>5 DEF Durable, h
<1>7. Good(y, n)
  BY <1>4, <1>6, Frame DEF Good
<1> QED BY <1>7 DEF Answered, y, h

(* beforeSleep: the AOF is written, then the clients get their replies. *)
LEMMA BeforeSleepGood ==
  ASSUME NEW n \in Nat, NEW r, Good(r, n), r.up, NEW how \in Hows
  PROVE  Good(beforeSleep(r, how), n)
<1>1. PICK z : z = flushAppendOnlyFile(r, FALSE, how)
  OBVIOUS
<1>2. Good(z, n) /\ (z.up /\ z.lastok /\ z.postponed = "no" => z.buf = <<>>)
  BY <1>1, FlushGood
<1>3. beforeSleep(r, how) = IF z.up THEN Answered(z) ELSE z
  BY <1>1 DEF beforeSleep
<1> QED BY <1>2, <1>3, AckedGood

-----------------------------------------------------------------------------------
(* The rewrite. *)

(* A child that rewrites is started, with what the server has in memory. *)
LEMMA RewriteStarts ==
  ASSUME NEW n \in Nat, NEW r, Good(r, n), r.up
  PROVE  LET y == rewriteAppendOnlyFileBackground(r) IN
         /\ Good(y, n) /\ SameSaves(r, y)
         /\ y.up = r.up /\ y.aof = r.aof /\ y.fd = r.fd /\ y.conf = r.conf /\ y.acked = r.acked
         /\ y.buf = r.buf /\ y.file = r.file /\ y.synced = r.synced /\ y.jobs = r.jobs /\ y.gen = r.gen
         /\ y.lastok = r.lastok /\ y.postponed = r.postponed
         /\ y.orphan = r.orphan /\ y.loaded = r.loaded
<1>1. CASE r.rw.phase # "none" \/ r.rdb.phase # "none"
  BY <1>1 DEF rewriteAppendOnlyFileBackground, SameSaves
<1>2. CASE r.rw.phase = "none" /\ r.rdb.phase = "none"
  <2> DEFINE f == rewriteAppendOnlyFile(r.data)
             w == [phase |-> "dump", file |-> f, diff |-> <<>>]
             m == -1
             y == [r EXCEPT !.rw = w, !.rwsched = FALSE, !.stop = FALSE, !.sel = m]
  <2>1. r \in Servers(n) /\ Logs(r) /\ Durable(r) /\ Children(r) /\ Saves(r)
    BY DEF Good
  <2>2. r.data \in Datasets(n) /\ r.file \in Files(n) /\ r.buf \in Files(n)
        /\ r.rwbuf = <<>> /\ r.pipe = <<>>
    BY <1>2, <2>1 DEF Servers, Children
  <2>3. f \in Files(n) /\ Replayed(f).data = r.data
    BY <2>2, RewriteTells
  <2>4. rewriteAppendOnlyFileBackground(r) = y
    BY <1>2 DEF rewriteAppendOnlyFileBackground
  <2> HIDE DEF f
  <2>5. w \in Rewrites(n) /\ w.phase = "dump" /\ w.file = f /\ w.diff = <<>>
    BY <2>3, NothingType DEF Rewrites
  <2>10. m \in Int
    OBVIOUS
  <2> HIDE DEF w, m
  <2>6. /\ y \in Servers(n) /\ SameSaves(r, y) /\ SameDurable(r, y)
        /\ y.rw = w /\ y.stop = FALSE /\ y.sel = m
        /\ y.up = r.up /\ y.aof = r.aof /\ y.fd = r.fd /\ y.conf = r.conf /\ y.acked = r.acked
        /\ y.buf = r.buf /\ y.file = r.file /\ y.synced = r.synced /\ y.jobs = r.jobs /\ y.gen = r.gen
        /\ y.rwbuf = r.rwbuf /\ y.pipe = r.pipe /\ y.rdb = r.rdb /\ y.data = r.data
        /\ y.lastok = r.lastok /\ y.postponed = r.postponed
        /\ y.orphan = r.orphan /\ y.loaded = r.loaded
    BY <2>1, <2>5, <2>10 DEF Servers, SameSaves, SameDurable
  <2> HIDE DEF y
  <2>7. Children(y)
    BY <1>2, <2>1, <2>2, <2>5, <2>6 DEF Children
  <2>8. Logs(y)
    <3>1. Told(y)
      <4>1. Told(r) /\ From(y) = From(r)
        BY <2>1, <2>6 DEF Logs, From
      <4>2. y.aof = "on" => Tells(Cat(y.file, y.buf), From(y), y.data, y.sel)
        BY <2>6, <4>1, TellsUnselected DEF Told, m
      <4> QED BY <2>6, <4>1, <4>2 DEF Told
    <3>2. Rewritten(y) = f
      <4>1. Cat(f, <<>>) = f
        BY <2>3, FilesConcat
      <4> QED BY <2>2, <2>5, <2>6, <4>1 DEF Rewritten
    <3>3. Tells(f, Len(f), r.data, m)
      <4>1. Len(f) \in Nat /\ SubSeq(f, 1, Len(f)) = f
        BY <2>3, FilesConcat
      <4>2. Earlier(r.data, r.data)
        BY <2>2, EarlierReflexive
      <4>3. ASSUME NEW k \in Len(f)..Len(f) PROVE Earlier(Replayed(SubSeq(f, 1, k)).data, r.data)
        <5>1. k = Len(f)
          BY <4>1
        <5> QED BY <2>3, <4>1, <4>2, <5>1
      <4> QED BY <2>3, <4>3 DEF Tells, m
    <3> QED BY <2>1, <2>5, <2>6, <3>1, <3>2, <3>3 DEF Logs, m
  <2>9. Good(y, n)
    BY <2>1, <2>6, <2>7, <2>8, Frame DEF Good
  <2> QED BY <2>4, <2>6, <2>9
<1> QED BY <1>1, <1>2

(* The bytes of a rewrite may move between its file, the pipe and the buffers. *)
Moved(r, y) ==
  /\ SameSaves(r, y)
  /\ y.synced = r.synced /\ y.file = r.file /\ y.jobs = r.jobs /\ y.gen = r.gen /\ y.aof = r.aof
  /\ y.buf = r.buf /\ y.sel = r.sel /\ y.fd = r.fd /\ y.acked = r.acked /\ y.conf = r.conf
  /\ y.lastok = r.lastok /\ y.postponed = r.postponed
  /\ y.orphan = r.orphan /\ y.loaded = r.loaded
  /\ y.up => r.up

(* That keeps the invariant as long as the bytes are the same. *)
LEMMA MovedGood ==
  ASSUME NEW n \in Nat, NEW r, NEW y \in Servers(n), Good(r, n), Moved(r, y), Children(y),
         y.rw.phase \in Running =>
           r.rw.phase \in Running /\ Rewritten(y) = Rewritten(r) /\ Len(r.rw.file) <= Len(y.rw.file)
  PROVE  Good(y, n)
<1>1. r \in Servers(n) /\ Children(r) /\ Saves(r) /\ Logs(r) /\ Durable(r)
  BY DEF Good
<1>2. Saves(y)
  BY <1>1, Frame DEF Moved
<1>3. Logs(y)
  <2>1. ASSUME y.aof # "off", y.rw.phase \in Running
        PROVE  Tells(Rewritten(y), Len(y.rw.file), y.data, y.sel)
    <3>1. PICK s \in Files(n), k0 \in Nat : s = Rewritten(r) /\ k0 = Len(r.rw.file)
      <4>1. Rewritten(r) \in Files(n) /\ r.rw.file \in Files(n)
        BY <1>1, RewrittenType
      <4> QED BY <4>1, LenProperties DEF Files
    <3>2. PICK k1 \in Nat : k1 = Len(y.rw.file)
      <4>1. y.rw.file \in Files(n)
        BY RewrittenType
      <4> QED BY <4>1, LenProperties DEF Files
    <3>3. Tells(s, k0, r.data, r.sel) /\ k0 <= k1 /\ Rewritten(y) = s
      BY <1>1, <2>1, <3>1, <3>2 DEF Logs, Moved
    <3>4. Tells(s, k1, r.data, r.sel)
      BY <3>3, TellsLater
    <3> QED BY <3>2, <3>3, <3>4 DEF Moved, SameSaves
  <2>2. Told(y)
    <3>1. From(y) = From(r)
      BY DEF From, Moved
    <3> QED BY <1>1, <3>1 DEF Logs, Told, Moved, SameSaves
  <2> QED BY <1>1, <2>1, <2>2 DEF Logs, Moved, SameSaves
<1>4. Durable(y)
  <2>1. Lasts(y) = Lasts(r)
    BY DEF Moved, Lasts
  <2> QED BY <1>1, <2>1 DEF Durable, Moved, SameSaves
<1> QED BY <1>2, <1>3, <1>4 DEF Good

(* Bytes that move from one part of a file in progress to the next. *)
LEMMA MovedBytes ==
  ASSUME NEW n \in Nat, NEW f \in Files(n), NEW d \in Files(n), NEW o \in Files(n), NEW b \in Files(n)
  PROVE  /\ Cat(d, o) \in Files(n) /\ Cat(f, Cat(d, o)) \in Files(n)
         /\ Cat(Cat(Cat(f, Cat(d, o)), <<>>), b) = Cat(Cat(Cat(f, d), o), b)
         /\ Cat(Cat(f, Cat(d, o)), b) = Cat(Cat(Cat(f, d), o), b)
         /\ Len(f) <= Len(Cat(f, Cat(d, o)))
<1>1. PICK e \in Files(n) : e = Cat(d, o)
  BY FilesConcat
<1>2. PICK g \in Files(n) : g = Cat(f, e) /\ Len(f) <= Len(g) /\ Cat(g, <<>>) = g
  BY FilesConcat
<1>3. g = Cat(Cat(f, d), o)
  BY <1>1, <1>2, CatAssoc DEF Files
<1> QED BY <1>1, <1>2, <1>3

(* The pipe and the parent's buffer after one byte has moved from this to that. *)
Sent(o, b) == Append(o, Head(b))
Kept(b) == Tail(b)

(* The bytes are the same. *)
LEMMA MovedByte ==
  ASSUME NEW n \in Nat, NEW f \in Files(n), NEW d \in Files(n), NEW o \in Files(n), NEW b \in Files(n),
         b # <<>>
  PROVE  /\ Sent(o, b) \in Files(n) /\ Kept(b) \in Files(n)
         /\ Cat(Cat(Cat(f, d), Sent(o, b)), Kept(b)) = Cat(Cat(Cat(f, d), o), b)
<1>1. PICK h \in Bytes(n), t \in Files(n) :
        h = Head(b) /\ t = Tail(b) /\ Sent(o, b) = Append(o, h) /\ Kept(b) = t
  BY HeadTailProperties DEF Files, Sent, Kept
<1>2. PICK one \in Files(n) : one = << h >>
  <2>1. << h >> \in Seq(Bytes(n))
    OBVIOUS
  <2> QED BY <2>1 DEF Files
<1>3. b = Cat(one, t)
  <2>1. b \in Seq(Bytes(n))
    BY DEF Files
  <2>2. Len(one) = 1 /\ one[1] = h
    BY <1>2
  <2>3. one \in Seq(Bytes(n)) /\ t \in Seq(Bytes(n))
    BY DEF Files
  <2>4. /\ one \o t \in Seq(Bytes(n)) /\ Len(one \o t) = Len(b)
        /\ \A i \in 1..Len(b) : (one \o t)[i] = b[i]
    <3>1. /\ Len(t) = Len(b) - 1 /\ \A i \in 1..Len(t) : t[i] = b[i + 1]
          /\ Len(b) \in Nat /\ b[1] = h
      BY <1>1, <2>1, HeadTailProperties, LenProperties
    <3>2. /\ one \o t \in Seq(Bytes(n)) /\ Len(one \o t) = 1 + Len(t)
          /\ \A i \in 1..(1 + Len(t)) : (one \o t)[i] = IF i <= 1 THEN one[i] ELSE t[i - 1]
      <4>1. /\ one \o t \in Seq(Bytes(n)) /\ Len(one \o t) = Len(one) + Len(t)
            /\ \A i \in 1..(Len(one) + Len(t)) :
                  (one \o t)[i] = IF i <= Len(one) THEN one[i] ELSE t[i - Len(one)]
        BY <2>3, ConcatProperties
      <4> QED BY <2>2, <4>1
    <3>3. ASSUME NEW i \in 1..Len(b) PROVE (one \o t)[i] = b[i]
      <4>1. CASE i = 1
        BY <2>2, <3>1, <3>2, <4>1
      <4>2. CASE i # 1
        <5>1. i - 1 \in 1..Len(t) /\ (i - 1) + 1 = i /\ i \in 1..(1 + Len(t)) /\ ~(i <= 1)
          BY <3>1, <4>2
        <5> QED BY <3>1, <3>2, <5>1
      <4> QED BY <4>1, <4>2
    <3> QED BY <3>1, <3>2, <3>3
  <2> QED BY <2>1, <2>4, SeqEqual DEF Cat
<1>4. PICK p1 \in Files(n) : p1 = Append(o, h) /\ p1 = Cat(o, one)
  BY <1>2, AppendProperties, AppendIsConcat DEF Files, Cat
<1>5. PICK a \in Files(n) : a = Cat(f, d)
  BY FilesConcat
<1>6. PICK ao \in Files(n) : ao = Cat(a, o)
  BY FilesConcat
<1>7. Cat(a, p1) = Cat(ao, one)
  BY <1>4, <1>6, CatAssoc DEF Files
<1>8. Cat(Cat(ao, one), t) = Cat(ao, b)
  BY <1>3, CatAssoc DEF Files
<1> QED BY <1>1, <1>4, <1>5, <1>6, <1>7, <1>8

(* A byte of the difference goes to the child. *)
LEMMA ParentWritesGood ==
  ASSUME NEW n \in Nat, NEW r, Good(r, n), r.up, r.rw.phase # "none", r.rwbuf # <<>>, ~r.stop
  PROVE  Good(aofChildWriteDiffData(r), n)
<1> DEFINE o == Sent(r.pipe, r.rwbuf)
           t == Kept(r.rwbuf)
           y == [r EXCEPT !.pipe = o, !.rwbuf = t]
<1>1. r \in Servers(n) /\ Children(r)
  BY DEF Good
<1>2. r.rw.file \in Files(n) /\ r.rw.diff \in Files(n) /\ r.pipe \in Files(n) /\ r.rwbuf \in Files(n)
  BY <1>1, RewrittenType
<1>3. /\ o \in Files(n) /\ t \in Files(n)
      /\ Cat(Cat(Cat(r.rw.file, r.rw.diff), o), t) = Cat(Cat(Cat(r.rw.file, r.rw.diff), r.pipe), r.rwbuf)
  <2>1. PICK f \in Files(n), d \in Files(n), q \in Files(n), b \in Files(n) :
          f = r.rw.file /\ d = r.rw.diff /\ q = r.pipe /\ b = r.rwbuf /\ b # <<>>
    BY <1>2
  <2>2. /\ Sent(q, b) \in Files(n) /\ Kept(b) \in Files(n)
        /\ Cat(Cat(Cat(f, d), Sent(q, b)), Kept(b)) = Cat(Cat(Cat(f, d), q), b)
    BY <2>1, MovedByte
  <2> QED BY <2>1, <2>2
<1>4. aofChildWriteDiffData(r) = y
  BY DEF aofChildWriteDiffData, Sent, Kept
<1> HIDE DEF o, t
<1>5. /\ y \in Servers(n) /\ Moved(r, y) /\ y.pipe = o /\ y.rwbuf = t /\ y.rw = r.rw /\ y.up = r.up
      /\ y.rdb = r.rdb /\ y.stop = r.stop /\ y.aof = r.aof /\ y.fd = r.fd
  BY <1>1, <1>3 DEF Servers, Moved, SameSaves
<1> HIDE DEF y
<1>6. r.rw.phase \notin {"acked", "done"}
  BY <1>1 DEF Children
<1>7. Children(y) /\ Rewritten(y) = Rewritten(r)
  BY <1>1, <1>3, <1>5, <1>6 DEF Children, Rewritten
<1>8. Len(r.rw.file) <= Len(y.rw.file)
  <2>1. Len(r.rw.file) \in Nat
    BY <1>2, LenProperties DEF Files
  <2> QED BY <1>5, <2>1
<1> QED BY <1>4, <1>5, <1>7, <1>8, MovedGood

(* Only the phase of the rewrite changes, and perhaps `stop`. *)
LEMMA PhaseGood ==
  ASSUME NEW n \in Nat, NEW r, Good(r, n), r.rw.phase \in {"dump", "asked", "acked"},
         NEW ph \in {"asked", "acked", "failed"}, NEW st \in BOOLEAN,
         ph = "acked" => st
  PROVE  Good([r EXCEPT !.stop = st, !.rw.phase = ph], n)
<1> DEFINE w == [r.rw EXCEPT !.phase = ph]
           y == [r EXCEPT !.stop = st, !.rw = w]
<1>1. r \in Servers(n) /\ Children(r)
  BY DEF Good
<1>2. r.rw \in Rewrites(n) /\ r.rw.file \in Files(n)
  BY <1>1, RewrittenType DEF Servers
<1>3. w \in Rewrites(n) /\ w.phase = ph /\ w.file = r.rw.file /\ w.diff = r.rw.diff
  BY <1>2 DEF Rewrites
<1>4. [r EXCEPT !.stop = st, !.rw.phase = ph] = y
  BY <1>1 DEF Servers
<1> HIDE DEF w
<1>5. /\ y \in Servers(n) /\ Moved(r, y) /\ y.rw = w /\ y.stop = st /\ y.pipe = r.pipe
      /\ y.rwbuf = r.rwbuf /\ y.up = r.up /\ y.rdb = r.rdb /\ y.aof = r.aof /\ y.fd = r.fd
  BY <1>1, <1>3 DEF Servers, Moved, SameSaves
<1> HIDE DEF y
<1>6. Children(y) /\ (y.rw.phase \in Running => Rewritten(y) = Rewritten(r)) /\ r.rw.phase \in Running
  BY <1>1, <1>3, <1>5 DEF Children, Rewritten, Running
<1>7. Len(r.rw.file) <= Len(y.rw.file)
  <2>1. Len(r.rw.file) \in Nat
    BY <1>2, LenProperties DEF Files
  <2> QED BY <1>3, <1>5, <2>1
<1> QED BY <1>4, <1>5, <1>6, <1>7, MovedGood

(* The child reads what is in the pipe. *)
LEMMA ChildReadsGood ==
  ASSUME NEW n \in Nat, NEW r, Good(r, n), r.rw.phase \in {"dump", "asked", "acked"}
  PROVE  LET y == aofReadDiffFromParent(r) IN
         /\ Good(y, n)
         /\ y.pipe = <<>> /\ y.rw.phase = r.rw.phase
<1> DEFINE d == Cat(r.rw.diff, r.pipe)
           w == [r.rw EXCEPT !.diff = d]
           y == [r EXCEPT !.rw = w, !.pipe = <<>>]
<1>1. r \in Servers(n) /\ Children(r)
  BY DEF Good
<1>2. /\ r.rw.file \in Files(n) /\ r.rw.diff \in Files(n) /\ r.pipe \in Files(n) /\ r.rwbuf \in Files(n)
      /\ r.rw \in Rewrites(n) /\ <<>> \in Files(n)
  BY <1>1, RewrittenType, NothingType DEF Servers
<1>3. /\ d \in Files(n)
      /\ Cat(Cat(Cat(r.rw.file, d), <<>>), r.rwbuf) = Cat(Cat(Cat(r.rw.file, r.rw.diff), r.pipe), r.rwbuf)
  <2>1. PICK f \in Files(n), g \in Files(n), q \in Files(n), b \in Files(n) :
          f = r.rw.file /\ g = r.rw.diff /\ q = r.pipe /\ b = r.rwbuf
    BY <1>2
  <2>2. /\ Cat(g, q) \in Files(n)
        /\ Cat(Cat(Cat(f, Cat(g, q)), <<>>), b) = Cat(Cat(Cat(f, g), q), b)
    BY MovedBytes
  <2> QED BY <2>1, <2>2
<1>4. aofReadDiffFromParent(r) = y
  BY <1>1 DEF aofReadDiffFromParent, Cat, Servers
<1> HIDE DEF d
<1>5. w \in Rewrites(n) /\ w.phase = r.rw.phase /\ w.file = r.rw.file /\ w.diff = d
  BY <1>2, <1>3 DEF Rewrites
<1> HIDE DEF w
<1>6. /\ y \in Servers(n) /\ Moved(r, y) /\ y.rw = w /\ y.stop = r.stop /\ y.pipe = <<>>
      /\ y.rwbuf = r.rwbuf /\ y.up = r.up /\ y.rdb = r.rdb /\ y.aof = r.aof /\ y.fd = r.fd
  BY <1>1, <1>2, <1>5 DEF Servers, Moved, SameSaves
<1> HIDE DEF y
<1>7. Children(y) /\ Rewritten(y) = Rewritten(r) /\ r.rw.phase \in Running
  BY <1>1, <1>3, <1>5, <1>6 DEF Children, Rewritten, Running
<1>8. Len(r.rw.file) <= Len(y.rw.file)
  <2>1. Len(r.rw.file) \in Nat
    BY <1>2, LenProperties DEF Files
  <2> QED BY <1>5, <1>6, <2>1
<1>9. Good(y, n)
  BY <1>6, <1>7, <1>8, MovedGood
<1> QED BY <1>4, <1>5, <1>6, <1>9

(* The child ends: the difference is at the end of its file. *)
LEMMA ChildFinishesGood ==
  ASSUME NEW n \in Nat, NEW q, Good(q, n), q.rw.phase = "acked"
  PROVE  Good(FinishRewrite(q), n)
<1> DEFINE r == aofReadDiffFromParent(q)
           f == Cat(r.rw.file, r.rw.diff)
           w == [r.rw EXCEPT !.phase = "done", !.file = f]
           y == [r EXCEPT !.rw = w]
<1>0. Good(r, n) /\ r.pipe = <<>> /\ r.rw.phase = "acked"
  BY ChildReadsGood
<1> HIDE DEF r
<1>1. r \in Servers(n) /\ Children(r)
  BY <1>0 DEF Good
<1>2. /\ r.rw.file \in Files(n) /\ r.rw.diff \in Files(n) /\ r.rwbuf \in Files(n)
      /\ r.rw \in Rewrites(n)
  BY <1>1, RewrittenType DEF Servers
<1>3. f \in Files(n) /\ Len(r.rw.file) <= Len(f) /\ Cat(f, <<>>) = f
  BY <1>2, FilesConcat
<1>4. FinishRewrite(q) = y
  <2>1. FinishRewrite(q) = [r EXCEPT !.rw.phase = "done", !.rw.file = @ \o r.rw.diff]
    BY DEF FinishRewrite, r
  <2> QED BY <1>1, <2>1 DEF Servers, Rewrites, Cat
<1>5. Rewritten(r) = Cat(f, r.rwbuf)
  BY <1>0, <1>3 DEF Rewritten
<1> HIDE DEF f
<1>6. w \in Rewrites(n) /\ w.phase = "done" /\ w.file = f
  BY <1>2, <1>3 DEF Rewrites
<1> HIDE DEF w
<1>7. /\ y \in Servers(n) /\ Moved(r, y) /\ y.rw = w /\ y.stop = r.stop /\ y.pipe = r.pipe
      /\ y.rwbuf = r.rwbuf /\ y.up = r.up /\ y.rdb = r.rdb /\ y.aof = r.aof /\ y.fd = r.fd
  BY <1>1, <1>6 DEF Servers, Moved, SameSaves
<1> HIDE DEF y
<1>8. Children(y) /\ Rewritten(y) = Rewritten(r) /\ r.rw.phase \in Running
  BY <1>0, <1>1, <1>5, <1>6, <1>7 DEF Children, Rewritten, Running
<1>9. Len(r.rw.file) <= Len(y.rw.file)
  BY <1>3, <1>6, <1>7
<1> QED BY <1>0, <1>4, <1>7, <1>8, <1>9, MovedGood

(* The rewrite is given up; the process may have ended. *)
LEMMA ResetGood ==
  ASSUME NEW n \in Nat, NEW r, Good(r, n)
  PROVE  /\ Good(aofRewriteBufferReset(r), n)
         /\ Good([r EXCEPT !.up = FALSE, !.rw = NoRewrite], n)
<1>1. r \in Servers(n) /\ Children(r)
  BY DEF Good
<1> DEFINE e == <<>>
           w == NoRewrite
           y == [r EXCEPT !.rwbuf = e, !.pipe = e, !.rw = w]
           z == [r EXCEPT !.up = FALSE, !.rw = w]
<1>2. e \in Files(n) /\ w \in Rewrites(n) /\ w.phase = "none"
  BY NothingType DEF NoRewrite
<1>3. aofRewriteBufferReset(r) = y
  BY DEF aofRewriteBufferReset
<1> HIDE DEF w, e
<1>4. /\ y \in Servers(n) /\ Moved(r, y) /\ y.rw = w /\ y.rwbuf = e /\ y.pipe = e /\ y.up = r.up
      /\ y.rdb = r.rdb /\ y.aof = r.aof /\ y.fd = r.fd
  BY <1>1, <1>2 DEF Servers, Moved, SameSaves
<1>5. /\ z \in Servers(n) /\ Moved(r, z) /\ z.rw = w /\ z.up = FALSE /\ z.rwbuf = r.rwbuf
      /\ z.rdb = r.rdb /\ z.aof = r.aof /\ z.fd = r.fd
  BY <1>1, <1>2 DEF Servers, Moved, SameSaves
<1> HIDE DEF y, z
<1>6. Children(y) /\ Children(z) /\ y.rw.phase \notin Running /\ z.rw.phase \notin Running
  BY <1>1, <1>2, <1>4, <1>5 DEF Children, Running, e
<1>7. Good(y, n) /\ Good(z, n)
  BY <1>4, <1>5, <1>6, MovedGood
<1> QED BY <1>3, <1>7 DEF y, z, w, e

(* What the switch to the new file leaves. *)
Switched(r, z) ==
  /\ SameSaves(r, z)
  /\ z.rw = r.rw /\ z.rwbuf = r.rwbuf /\ z.pipe = r.pipe /\ z.stop = r.stop /\ z.acked = r.acked
  /\ z.conf = r.conf /\ z.up = r.up /\ z.lastok = r.lastok /\ z.postponed = r.postponed
  /\ z.loaded = r.loaded
  /\ z.file = Cat(r.rw.file, r.rwbuf) /\ z.gen = r.gen + 1
  /\ z.synced = Len(r.rw.file) \/ z.synced = Len(z.file)
  /\ \/ z.jobs = r.jobs
     \/ /\ z.jobs = Append(r.jobs, [gen |-> z.gen, len |-> Len(z.file)])
        /\ r.conf.policy = "everysec"
  /\ \/ z.fd = "none" /\ z.fd = r.fd /\ z.aof = r.aof /\ z.sel = r.sel /\ z.buf = r.buf
        /\ z.orphan = r.orphan
     \/ /\ z.fd = "open" /\ z.sel = -1 /\ z.buf = <<>> /\ z.orphan = FALSE
        /\ z.aof = IF r.aof = "wait" THEN "on" ELSE r.aof
        /\ r.conf.policy = "always" => z.synced = Len(z.file)

(* It keeps the invariant: the file and the rest of the difference are what the new   *)
(* file was made of.                                                                  *)
LEMMA SwitchedGood ==
  ASSUME NEW n \in Nat, NEW r, NEW z \in Servers(n), Good(r, n), r.rw.phase = "done", Switched(r, z)
  PROVE  Good(z, n)
<1>1. r \in Servers(n) /\ Children(r) /\ Saves(r) /\ Logs(r) /\ Durable(r)
  BY DEF Good
<1>2. PICK F \in Files(n) : /\ F = Rewritten(r) /\ F = z.file /\ F = Cat(r.rw.file, r.rwbuf)
                            /\ Len(F) \in Nat /\ SubSeq(F, 1, Len(F)) = F /\ Cat(F, <<>>) = F
  <2>1. Rewritten(r) \in Files(n) /\ Rewritten(r) = Cat(r.rw.file, r.rwbuf)
    BY <1>1, RewrittenType DEF Rewritten
  <2> QED BY <2>1, FilesConcat DEF Switched
<1>3. PICK k0 \in Nat : k0 = Len(r.rw.file) /\ k0 <= Len(F)
  <2>1. Len(r.rw.file) \in 0..Len(F)
    BY <1>1, <1>2, RewrittenType
  <2> QED BY <1>2, <2>1
<1>4. z.synced \in Nat /\ k0 <= z.synced /\ z.synced <= Len(F)
  BY <1>2, <1>3 DEF Switched
<1>5. r.aof # "off" => Tells(F, k0, r.data, r.sel) /\ z.fd = "open"
  BY <1>1, <1>2, <1>3 DEF Logs, Running, Children, Switched
<1>6. r.aof # "off" => Tells(F, k0, r.data, -1) /\ Tells(F, z.synced, r.data, -1)
  <2>1. ASSUME r.aof # "off" PROVE Tells(F, k0, r.data, -1)
    BY <1>5, <2>1, TellsUnselected
  <2>2. PICK k1 \in Nat : k1 = z.synced
    BY <1>4
  <2>3. ASSUME r.aof # "off" PROVE Tells(F, k1, r.data, r.sel)
    BY <1>4, <1>5, <2>2, <2>3, TellsLater
  <2> QED BY <2>1, <2>2, <2>3, TellsUnselected
<1>7. z.aof # "off" => r.aof # "off" /\ z.sel = -1 /\ z.buf = <<>> /\ z.aof = "on" /\ ~z.orphan
  BY <1>1, <1>5 DEF Switched, Servers
<1>8. Children(z)
  <2>1. z.rdb = r.rdb
    BY DEF Switched, SameSaves
  <2> QED BY <1>1, <2>1 DEF Children, Switched
<1>9. Saves(z)
  BY <1>1, Frame DEF Switched
<1>10. Logs(z)
  <2>1. r.jobs \in Seq(Jobs) /\ r.gen \in Nat /\ z.gen = r.gen + 1
    BY <1>1 DEF Servers, Switched
  <2>2. ASSUME NEW i \in 1..Len(r.jobs) PROVE r.jobs[i].gen <= r.gen /\ r.jobs[i].gen \in Nat
    <3>1. r.jobs[i] \in Jobs
      BY <2>1, ElementOfSeq
    <3> QED BY <1>1, <3>1 DEF Logs, Jobs
  <2>3. \A i \in 1..Len(r.jobs) : r.jobs[i].gen <= z.gen /\ (r.jobs[i].gen = z.gen => r.jobs[i].len <= Len(F))
    BY <2>1, <2>2
  <2>4. PICK g \in Nat : g = z.gen
    BY <2>1
  <2>5. Len(F) <= Len(F) /\ Len(F) \in 0..Len(F)
    BY <1>2
  <2>6. LET more == Append(r.jobs, [gen |-> g, len |-> Len(F)]) IN
        \A i \in 1..Len(more) : more[i].gen <= g /\ (more[i].gen = g => more[i].len <= Len(F))
    BY <2>1, <2>3, <2>4, <2>5, JobsWithin
  <2>7. \A i \in 1..Len(z.jobs) : z.jobs[i].gen <= z.gen /\ (z.jobs[i].gen = z.gen => z.jobs[i].len <= Len(z.file))
    BY <1>2, <2>3, <2>4, <2>6 DEF Switched
  <2>8. Told(z)
    <3>1. CASE z.aof # "off"
      <4>1. From(z) = z.synced
        BY <1>7, <3>1 DEF From
      <4> QED BY <1>2, <1>6, <1>7, <3>1, <4>1 DEF Told, Switched, SameSaves
    <3>2. CASE z.aof = "off"
      <4>1. r.aof = "off"
        BY <3>2 DEF Switched
      <4>2. r.rwbuf = <<>> /\ r.rw.file \in Files(n)
        BY <1>1, <4>1, RewrittenType DEF Children
      <4>3. F = r.rw.file
        BY <1>2, <4>2, FilesConcat
      <4>4. z.synced = Len(F)
        BY <1>2, <4>3 DEF Switched
      <4>5. Tells(F, Len(F), Replayed(F).data, -1)
        BY TellsItself
      <4>6. ~z.orphan => z.buf = <<>>
        BY <1>1, <4>1 DEF Logs, Told, Switched
      <4> QED BY <1>2, <3>2, <4>4, <4>5, <4>6 DEF Told
    <3> QED BY <3>1, <3>2
  <2>9. z.aof # "off" => Tells(Rewritten(z), Len(z.rw.file), z.data, z.sel)
    <3>1. Rewritten(z) = F
      BY <1>2 DEF Rewritten, Switched
    <3> QED BY <1>3, <1>6, <1>7, <3>1 DEF Switched, SameSaves
  <2> QED BY <1>2, <1>4, <2>7, <2>8, <2>9 DEF Logs
<1>11. Durable(z)
  <2>1. z.acked \subseteq Holds(z.data) /\ (z.conf.policy = "always" => z.jobs = <<>> /\ z.postponed = "no")
    BY <1>1 DEF Durable, Switched, SameSaves
  <2>2. z.aof = "on" /\ z.conf.policy = "always" => z.synced = Len(z.file)
    BY <1>5, <1>7 DEF Switched
  <2>3. z.aof = "on" => z.acked \subseteq Holds(Replayed(SubSeq(z.file, 1, Lasts(z))).data)
    <3>1. z.aof = "on" => Lasts(z) = Len(F)
      BY <1>2, <2>2 DEF Lasts
    <3>2. z.aof = "on" => Replayed(F).data = z.data
      BY <1>6, <1>7 DEF Tells, Switched, SameSaves
    <3> QED BY <1>2, <2>1, <3>1, <3>2
  <2> QED BY <2>1, <2>2, <2>3 DEF Durable
<1> QED BY <1>8, <1>9, <1>10, <1>11 DEF Good

(* The switch in each of its cases. *)
LEMMA SwitchIs ==
  ASSUME NEW n \in Nat, NEW r \in Servers(n), r.rw.phase = "done"
  PROVE  Switch(r) \in Servers(n) /\ Switched(r, Switch(r))
<1> DEFINE F == Cat(r.rw.file, r.rwbuf)
           k0 == Len(r.rw.file)
           L == Len(F)
           g == r.gen + 1
           m == -1
           j == Append(r.jobs, [gen |-> g, len |-> L])
           on == IF r.aof = "wait" THEN "on" ELSE r.aof
           y == [r EXCEPT !.file = F, !.synced = k0, !.gen = g]
           Z(s, q) == [r EXCEPT !.file = F, !.synced = s, !.gen = g, !.jobs = q, !.fd = "open", !.sel = m,
                                !.buf = <<>>, !.orphan = FALSE, !.base = L, !.aof = on]
           x == [y EXCEPT !.fd = "open"]
<1>1. /\ r.rw.file \in Files(n) /\ r.rwbuf \in Files(n) /\ r.gen \in Nat /\ r.jobs \in Seq(Jobs)
      /\ r.aof \in {"on", "off", "wait"} /\ <<>> \in Files(n)
  BY RewrittenType, NothingType DEF Servers
<1>2. F \in Files(n) /\ k0 \in Nat /\ L \in Nat /\ g \in Nat /\ m \in Int /\ on \in {"on", "off"}
  BY <1>1, FilesConcat
<1>3. j \in Seq(Jobs)
  BY <1>1, <1>2, AppendProperties DEF Jobs
<1>4. Switch(r) =
        IF r.fd = "none" THEN y
        ELSE [(IF r.conf.policy = "always" THEN Fsynced(x)
               ELSE IF r.conf.policy = "everysec" THEN bioCreateBackgroundJob(x) ELSE x)
                EXCEPT !.sel = m, !.buf = <<>>, !.orphan = FALSE, !.base = L, !.aof = IF @ = "wait" THEN "on" ELSE @]
  BY DEF Switch, Cat
<1> HIDE DEF F
<1>5. L = Len(F)
  OBVIOUS
<1> HIDE DEF k0, L, g, m
<1>6. CASE r.fd = "none"
  <2>1. y \in Servers(n)
    BY <1>2 DEF Servers
  <2>2. Switched(r, y)
    BY <1>2, <1>5, <1>6 DEF Servers, Switched, SameSaves, F, k0, g
  <2> QED BY <1>4, <1>6, <2>1, <2>2
<1>7. CASE r.fd # "none"
  <2>1. ASSUME NEW s \in {k0, L}, NEW q, q \in Seq(Jobs),
               q = r.jobs \/ (q = j /\ r.conf.policy = "everysec"), r.conf.policy = "always" => s = L
        PROVE  Z(s, q) \in Servers(n) /\ Switched(r, Z(s, q))
    <3> HIDE DEF on
    <3>0. s \in Nat /\ Z(s, q) \in Servers(n)
      <4>1. s \in Nat
        BY <1>2
      <4> QED BY <1>1, <1>2, <2>1, <4>1 DEF Servers
    <3>1. /\ SameSaves(r, Z(s, q)) /\ Z(s, q).file = F /\ Z(s, q).synced = s
          /\ Z(s, q).gen = g /\ Z(s, q).jobs = q /\ Z(s, q).fd = "open" /\ Z(s, q).sel = m
          /\ Z(s, q).buf = <<>> /\ Z(s, q).aof = on
          /\ Z(s, q).rw = r.rw /\ Z(s, q).rwbuf = r.rwbuf /\ Z(s, q).pipe = r.pipe /\ Z(s, q).stop = r.stop
          /\ Z(s, q).acked = r.acked /\ Z(s, q).conf = r.conf /\ Z(s, q).up = r.up
          /\ Z(s, q).lastok = r.lastok /\ Z(s, q).postponed = r.postponed
          /\ Z(s, q).orphan = FALSE /\ Z(s, q).loaded = r.loaded
      BY DEF Servers, SameSaves
    <3> HIDE DEF Z
    <3>2. F = Cat(r.rw.file, r.rwbuf) /\ g = r.gen + 1 /\ k0 = Len(r.rw.file) /\ m = -1
          /\ on = (IF r.aof = "wait" THEN "on" ELSE r.aof) /\ j = Append(r.jobs, [gen |-> g, len |-> Len(F)])
      BY <1>5 DEF F, g, k0, m, on, L
    <3> HIDE DEF j
    <3>3. Switched(r, Z(s, q))
      BY <1>5, <2>1, <3>1, <3>2 DEF Switched
    <3> QED BY <3>0, <3>3
  <2>2. Switch(r) \in {Z(L, r.jobs), Z(k0, j), Z(k0, r.jobs)}
        /\ (r.conf.policy = "always" => Switch(r) = Z(L, r.jobs))
        /\ (r.conf.policy # "everysec" => Switch(r) \in {Z(L, r.jobs), Z(k0, r.jobs)})
    <3>0. x = [r EXCEPT !.file = F, !.synced = k0, !.gen = g, !.fd = "open"]
      BY DEF Servers
    <3>1. x.file = F /\ x.gen = g /\ x.aof = r.aof /\ x.jobs = r.jobs /\ x.fd = "open"
      BY DEF Servers
    <3>8. Synced(x) = L
      BY <1>5, <3>1 DEF Synced
    <3> HIDE DEF L
    <3>2. Fsynced(x) = [r EXCEPT !.file = F, !.synced = L, !.gen = g, !.fd = "open"]
      <4>1. Fsynced(x) = [x EXCEPT !.synced = L]
        BY <3>8 DEF Fsynced
      <4> QED BY <4>1 DEF Servers
    <3>3. bioCreateBackgroundJob(x) = [r EXCEPT !.file = F, !.synced = k0, !.gen = g, !.fd = "open", !.jobs = j]
      <4>1. bioCreateBackgroundJob(x) = [x EXCEPT !.jobs = j]
        BY <3>1, <3>8 DEF bioCreateBackgroundJob
      <4> HIDE DEF j
      <4> QED BY <4>1 DEF Servers
    <3>4. CASE r.conf.policy = "always"
      <4>1. Switch(r) = [[r EXCEPT !.file = F, !.synced = L, !.gen = g, !.fd = "open"]
                EXCEPT !.sel = m, !.buf = <<>>, !.orphan = FALSE, !.base = L, !.aof = IF @ = "wait" THEN "on" ELSE @]
        BY <1>4, <1>7, <3>2, <3>4
      <4> DEFINE q == r.jobs
      <4>3. [r EXCEPT !.file = F, !.synced = L, !.gen = g, !.fd = "open"]
              = [r EXCEPT !.file = F, !.synced = L, !.gen = g, !.fd = "open", !.jobs = q]
        BY DEF Servers
      <4> HIDE DEF q
      <4>5. Switch(r) = [[r EXCEPT !.file = F, !.synced = L, !.gen = g, !.fd = "open", !.jobs = q]
                EXCEPT !.sel = m, !.buf = <<>>, !.orphan = FALSE, !.base = L, !.aof = IF @ = "wait" THEN "on" ELSE @]
        BY <4>1, <4>3, Zenon
      <4>4. Switch(r) = Z(L, q)
        BY <4>5 DEF Servers
      <4>2. Switch(r) = Z(L, r.jobs)
        BY <4>4 DEF q
      <4> QED BY <3>4, <4>2
    <3>5. CASE r.conf.policy = "everysec"
      <4>1. Switch(r) = [[r EXCEPT !.file = F, !.synced = k0, !.gen = g, !.fd = "open", !.jobs = j]
                EXCEPT !.sel = m, !.buf = <<>>, !.orphan = FALSE, !.base = L, !.aof = IF @ = "wait" THEN "on" ELSE @]
        BY <1>4, <1>7, <3>3, <3>5
      <4> HIDE DEF j
      <4>2. Switch(r) = Z(k0, j)
        BY <4>1 DEF Servers
      <4> QED BY <3>5, <4>2
    <3>6. CASE r.conf.policy \notin {"always", "everysec"}
      <4>1. Switch(r) = [x
                EXCEPT !.sel = m, !.buf = <<>>, !.orphan = FALSE, !.base = L, !.aof = IF @ = "wait" THEN "on" ELSE @]
        BY <1>4, <1>7, <3>6
      <4> DEFINE q == r.jobs
      <4>3. x = [r EXCEPT !.file = F, !.synced = k0, !.gen = g, !.fd = "open", !.jobs = q]
        BY DEF Servers
      <4> HIDE DEF q
      <4> HIDE DEF x
      <4>5. Switch(r) = [[r EXCEPT !.file = F, !.synced = k0, !.gen = g, !.fd = "open", !.jobs = q]
                EXCEPT !.sel = m, !.buf = <<>>, !.orphan = FALSE, !.base = L, !.aof = IF @ = "wait" THEN "on" ELSE @]
        BY <4>1, <4>3, Zenon
      <4>4. Switch(r) = Z(k0, q)
        BY <4>5 DEF Servers
      <4>2. Switch(r) = Z(k0, r.jobs)
        BY <4>4 DEF q
      <4> QED BY <3>6, <4>2
    <3> QED BY <3>4, <3>5, <3>6
  <2> HIDE DEF Z, j
  <2> QED BY <1>1, <1>3, <2>1, <2>2
<1> QED BY <1>6, <1>7

(* What is left when a rewrite is given up or done. *)
LEMMA ResetIs ==
  ASSUME NEW n \in Nat, NEW r \in Servers(n)
  PROVE  LET y == aofRewriteBufferReset(r) IN
         /\ y \in Servers(n) /\ SameSaves(r, y) /\ y.rw.phase = "none"
         /\ y.up = r.up /\ y.aof = r.aof /\ y.buf = r.buf /\ y.conf = r.conf
         /\ y.file = r.file /\ y.synced = r.synced /\ y.lastok = r.lastok /\ y.postponed = r.postponed
         /\ y.orphan = r.orphan /\ y.loaded = r.loaded /\ y.rwbuf = <<>> /\ y.sel = r.sel
<1> DEFINE e == <<>>
           w == NoRewrite
           y == [r EXCEPT !.rwbuf = e, !.pipe = e, !.rw = w]
<1>2. e \in Files(n) /\ w \in Rewrites(n) /\ w.phase = "none"
  BY NothingType DEF NoRewrite
<1>3. aofRewriteBufferReset(r) = y
  BY DEF aofRewriteBufferReset
<1> HIDE DEF w, e
<1>4. /\ y \in Servers(n) /\ SameSaves(r, y) /\ y.rw = w
      /\ y.up = r.up /\ y.aof = r.aof /\ y.buf = r.buf /\ y.conf = r.conf
      /\ y.file = r.file /\ y.synced = r.synced /\ y.lastok = r.lastok /\ y.postponed = r.postponed
      /\ y.orphan = r.orphan /\ y.loaded = r.loaded /\ y.rwbuf = e /\ y.sel = r.sel
  BY <1>2 DEF Servers, SameSaves
<1> QED BY <1>2, <1>3, <1>4 DEF e

(* backgroundRewriteDoneHandler keeps the invariant. *)
LEMMA RewriteDoneGood ==
  ASSUME NEW n \in Nat, NEW q, Good(q, n)
  PROVE  LET y == backgroundRewriteDoneHandler(q) IN Good(y, n) /\ y.up = q.up
<1>1. PICK z : z = IF q.rw.phase = "done" THEN Switch(q) ELSE q
  OBVIOUS
<1>2. Good(z, n) /\ z.up = q.up
  <2>1. CASE q.rw.phase = "done"
    <3>1. z = Switch(q) /\ z \in Servers(n) /\ Switched(q, z)
      BY <1>1, <2>1, SwitchIs DEF Good
    <3> QED BY <2>1, <3>1, SwitchedGood DEF Switched
  <2>2. CASE q.rw.phase # "done"
    BY <1>1, <2>2
  <2> QED BY <2>1, <2>2
<1>3. PICK r : r = aofRewriteBufferReset(z)
  OBVIOUS
<1>4. Good(r, n) /\ r \in Servers(n) /\ r.up = q.up
  BY <1>2, <1>3, ResetGood, ResetIs DEF Good
<1> DEFINE b == r.rwsched \/ r.aof = "wait"
           y == [r EXCEPT !.rwsched = b]
<1>5. b \in BOOLEAN
  OBVIOUS
<1>6. backgroundRewriteDoneHandler(q) = y
  BY <1>1, <1>3 DEF backgroundRewriteDoneHandler
<1> HIDE DEF b
<1>7. y \in Servers(n) /\ SameChildren(r, y) /\ SameSaves(r, y) /\ SameLogs(r, y) /\ SameDurable(r, y)
      /\ y.up = r.up
  BY <1>4, <1>5 DEF Servers, SameChildren, SameSaves, SameLogs, SameDurable
<1> HIDE DEF y
<1> QED BY <1>4, <1>6, <1>7, GoodSame

-----------------------------------------------------------------------------------
(* CONFIG SET appendonly. *)

(* The configuration file follows. *)
LEMMA ReconfiguredGood ==
  ASSUME NEW n \in Nat, NEW r, Good(r, n)
  PROVE  Good(Reconfigured(r), n)
<1> DEFINE a == r.aof # "off"
           c == [r.conf EXCEPT !.aof = a]
           y == [r EXCEPT !.conf = c]
<1>1. r \in Servers(n) /\ Durable(r)
  BY DEF Good
<1>2. r.conf \in Confs
  BY <1>1 DEF Servers
<1>3. a \in BOOLEAN
  OBVIOUS
<1>4. Reconfigured(r) = y
  BY <1>1 DEF Reconfigured, Servers
<1> HIDE DEF a
<1>5. c \in Confs /\ c.policy = r.conf.policy /\ c.nofsync = r.conf.nofsync
  BY <1>2, <1>3 DEF Confs
<1> HIDE DEF c
<1>6. /\ y \in Servers(n) /\ SameChildren(r, y) /\ SameSaves(r, y) /\ SameLogs(r, y) /\ y.conf = c
      /\ y.acked = r.acked /\ y.data = r.data /\ y.jobs = r.jobs /\ y.aof = r.aof
      /\ y.up = r.up /\ y.buf = r.buf /\ y.synced = r.synced /\ y.file = r.file
      /\ y.lastok = r.lastok /\ y.postponed = r.postponed /\ y.loaded = r.loaded
  BY <1>1, <1>5 DEF Servers, SameChildren, SameSaves, SameLogs
<1> HIDE DEF y
<1>7. Durable(y)
  <2>1. Lasts(y) = Lasts(r)
    BY <1>5, <1>6 DEF Lasts
  <2> QED BY <1>1, <1>5, <1>6, <2>1 DEF Durable
<1>8. Good(y, n)
  BY <1>6, <1>7, Frame DEF Good
<1> QED BY <1>4, <1>8

(* The AOF waits for its first rewrite. *)
LEMMA WaitGood ==
  ASSUME NEW n \in Nat, NEW r, Good(r, n), r.rw.phase = "none", r.aof = "off"
  PROVE  Good([r EXCEPT !.fd = "open", !.aof = "wait", !.second = FALSE], n)
<1> DEFINE y == [r EXCEPT !.fd = "open", !.aof = "wait", !.second = FALSE]
<1>1. r \in Servers(n) /\ Children(r) /\ Saves(r) /\ Logs(r) /\ Durable(r)
  BY DEF Good
<1>2. /\ y \in Servers(n) /\ y.aof = "wait" /\ y.fd = "open" /\ SameSaves(r, y)
      /\ y.acked = r.acked /\ y.data = r.data /\ y.jobs = r.jobs /\ y.gen = r.gen
      /\ y.up = r.up /\ y.buf = r.buf /\ y.synced = r.synced /\ y.file = r.file
      /\ y.rw = r.rw /\ y.rdb = r.rdb /\ y.rwbuf = r.rwbuf /\ y.pipe = r.pipe /\ y.stop = r.stop
      /\ y.lastok = r.lastok /\ y.postponed = r.postponed /\ y.conf = r.conf
      /\ y.orphan = r.orphan
  BY <1>1 DEF Servers, SameSaves
<1> HIDE DEF y
<1>3. Children(y) /\ Durable(y)
  BY <1>1, <1>2 DEF Children, Durable
<1>5. Told(y)
  BY <1>1, <1>2 DEF Logs, Told
<1>6. Logs(y)
  BY <1>1, <1>2, <1>5 DEF Logs, Running
<1>4. Good(y, n)
  BY <1>1, <1>2, <1>3, <1>6, Frame DEF Good
<1> QED BY <1>4 DEF y

(* startAppendOnly keeps the invariant. *)
LEMMA StartGood ==
  ASSUME NEW n \in Nat, NEW r, Good(r, n), r.up, r.aof = "off"
  PROVE  Good(startAppendOnly(r), n)
<1>1. r \in Servers(n) /\ Children(r) /\ Saves(r) /\ Logs(r) /\ Durable(r)
  BY DEF Good
<1>2. CASE r.rdb.phase # "none"
  <2> DEFINE u == [r EXCEPT !.fd = "open", !.aof = "wait", !.second = FALSE]
             y == [u EXCEPT !.rwsched = TRUE]
  <2>1. r.rw.phase = "none"
    BY <1>1, <1>2 DEF Children
  <2>2. Good(u, n)
    BY <2>1, WaitGood
  <2>3. startAppendOnly(r) = y
    BY <1>1, <1>2 DEF startAppendOnly, Servers
  <2> HIDE DEF u
  <2>4. u \in Servers(n)
    BY <2>2 DEF Good
  <2>5. y \in Servers(n) /\ SameChildren(u, y) /\ SameSaves(u, y) /\ SameLogs(u, y) /\ SameDurable(u, y)
    BY <2>4 DEF Servers, SameChildren, SameSaves, SameLogs, SameDurable
  <2> HIDE DEF y
  <2> QED BY <2>2, <2>3, <2>5, GoodSame
<1>3. CASE r.rdb.phase = "none" /\ r.rw.phase # "none"
  <2> DEFINE y == [r EXCEPT !.fd = "stale", !.second = FALSE]
  <2>1. startAppendOnly(r) = y
    BY <1>3 DEF startAppendOnly
  <2>2. /\ y \in Servers(n) /\ SameSaves(r, y) /\ SameLogs(r, y) /\ SameDurable(r, y) /\ y.fd = "stale"
        /\ y.up = r.up /\ y.rw = r.rw /\ y.rdb = r.rdb /\ y.rwbuf = r.rwbuf /\ y.pipe = r.pipe
        /\ y.stop = r.stop /\ y.aof = r.aof
    BY <1>1 DEF Servers, SameSaves, SameLogs, SameDurable
  <2> HIDE DEF y
  <2>3. Children(y)
    BY <1>1, <2>2 DEF Children
  <2>4. Good(y, n)
    BY <1>1, <2>2, <2>3, Frame DEF Good
  <2> QED BY <2>1, <2>4
<1>4. CASE r.rdb.phase = "none" /\ r.rw.phase = "none"
  <2> DEFINE u == [r EXCEPT !.fd = "open", !.aof = "wait", !.second = FALSE]
             f == rewriteAppendOnlyFile(r.data)
             w == [phase |-> "dump", file |-> f, diff |-> <<>>]
             m == -1
  <2>1. Good(u, n) /\ u.up /\ u.data = r.data /\ u.rw = r.rw /\ u.rdb = r.rdb
    BY <1>1, <1>4, WaitGood DEF Servers
  <2>2. rewriteAppendOnlyFileBackground(u) = [u EXCEPT !.rw = w, !.rwsched = FALSE, !.stop = FALSE, !.sel = m]
    BY <1>4, <2>1 DEF rewriteAppendOnlyFileBackground
  <2>3. rewriteAppendOnlyFileBackground(r) = [r EXCEPT !.rw = w, !.rwsched = FALSE, !.stop = FALSE, !.sel = m]
    BY <1>4 DEF rewriteAppendOnlyFileBackground
  <2>4. startAppendOnly(r) = [rewriteAppendOnlyFileBackground(r) EXCEPT !.fd = "open", !.aof = "wait", !.second = FALSE]
    BY <1>4 DEF startAppendOnly
  <2> HIDE DEF w, m
  <2>5. startAppendOnly(r) = rewriteAppendOnlyFileBackground(u)
    <3> DEFINE X == [r EXCEPT !.rw = w, !.rwsched = FALSE, !.stop = FALSE, !.sel = m]
               A == [X EXCEPT !.fd = "open", !.aof = "wait", !.second = FALSE]
               B == [u EXCEPT !.rw = w, !.rwsched = FALSE, !.stop = FALSE, !.sel = m]
    <3>1. A = [r EXCEPT !.rw = w, !.rwsched = FALSE, !.stop = FALSE, !.sel = m, !.fd = "open", !.aof = "wait", !.second = FALSE]
      BY <1>1 DEF Servers
    <3>2. B = [r EXCEPT !.rw = w, !.rwsched = FALSE, !.stop = FALSE, !.sel = m, !.fd = "open", !.aof = "wait", !.second = FALSE]
      BY <1>1 DEF Servers
    <3> HIDE DEF u, X
    <3>3. startAppendOnly(r) = A /\ rewriteAppendOnlyFileBackground(u) = B
      BY <2>2, <2>3, <2>4 DEF X
    <3> HIDE DEF A, B
    <3> QED BY <3>1, <3>2, <3>3
  <2> HIDE DEF u
  <2> QED BY <2>1, <2>5, RewriteStarts
<1> QED BY <1>2, <1>3, <1>4

(* More of a file is safe: what was restored before is restored, and perhaps more. *)
LEMMA FsyncedGood ==
  ASSUME NEW n \in Nat, NEW r, Good(r, n)
  PROVE  LET y == Fsynced(r) IN
         Good(y, n) /\ SameMemory(r, y) /\ y.up = r.up /\ y.buf = r.buf /\ y.aof = r.aof
<1> DEFINE L == Len(r.file)
           y == [r EXCEPT !.synced = L]
<1>1. r \in Servers(n) /\ Children(r) /\ Saves(r) /\ Logs(r) /\ Durable(r)
  BY DEF Good
<1>2. PICK f \in Files(n) : f = r.file /\ SubSeq(f, 1, Len(f)) = f /\ Len(f) \in Nat
  <2>1. r.file \in Files(n)
    BY <1>1 DEF Servers
  <2> QED BY <2>1, FilesConcat
<1>3. L \in Nat /\ L = Len(f) /\ r.synced \in Nat /\ r.synced <= L
  BY <1>1, <1>2 DEF Logs, Servers
<1>4. CASE r.fd # "open"
  <2>1. Fsynced(r) = r
    BY <1>1, <1>4 DEF Fsynced, Synced, Servers
  <2> QED BY <2>1 DEF SameMemory, SameSaves
<1>5. CASE r.fd = "open"
  <2>1. Fsynced(r) = y
    BY <1>5 DEF Fsynced, Synced
  <2> HIDE DEF L
  <2>2. /\ y \in Servers(n) /\ SameMemory(r, y) /\ SameSaves(r, y) /\ SameChildren(r, y) /\ y.synced = L
        /\ y.acked = r.acked /\ y.data = r.data /\ y.conf = r.conf /\ y.jobs = r.jobs /\ y.aof = r.aof
        /\ y.gen = r.gen /\ y.sel = r.sel /\ y.rw = r.rw /\ y.pipe = r.pipe /\ y.rwbuf = r.rwbuf
        /\ y.up = r.up /\ y.buf = r.buf /\ y.lastok = r.lastok /\ y.postponed = r.postponed
        /\ y.orphan = r.orphan /\ y.loaded = r.loaded /\ y.file = r.file
    BY <1>1, <1>3, SMTT(60) DEF Servers, SameMemory, SameSaves, SameChildren
  <2> HIDE DEF y
  <2>3. Logs(y)
    <3>1. y.synced <= Len(y.file) /\ r.synced <= Len(r.file) /\ r.synced <= y.synced
      BY <1>2, <1>3, <2>2
    <3>2. Told(r)
      BY <1>1 DEF Logs
    <3>3. Told(y)
      BY <1>1, <2>2, <3>1, <3>2, ToldLater
    <3>4. Rewritten(y) = Rewritten(r)
      BY <2>2 DEF Rewritten
    <3> QED BY <1>1, <2>2, <3>1, <3>3, <3>4 DEF Logs
  <2>4. Durable(y)
    <3>1. y.synced = Len(y.file) /\ Lasts(y) = Len(f)
      BY <1>2, <1>3, <2>2 DEF Lasts
    <3>2. ASSUME y.aof = "on", y.lastok, y.postponed = "no", ~y.conf.nofsync
          PROVE  y.acked \subseteq Holds(Replayed(SubSeq(y.file, 1, Lasts(y))).data)
      <4>1. PICK k \in 0..Len(f) : k = Lasts(r)
        BY <1>2, <1>3 DEF Lasts
      <4>2. r.acked \subseteq Holds(Replayed(SubSeq(f, 1, k)).data)
        BY <1>1, <1>2, <2>2, <3>2, <4>1 DEF Durable
      <4>3. /\ Extends(Replayed(SubSeq(f, 1, k)).data, Replayed(f).data)
            /\ Replayed(SubSeq(f, 1, k)).data \in Datasets(n) /\ Replayed(f).data \in Datasets(n)
        BY ReplayedGrows
      <4>4. Holds(Replayed(SubSeq(f, 1, k)).data) \subseteq Holds(Replayed(f).data)
        BY <4>3, ExtendsHolds
      <4> QED BY <1>2, <2>2, <3>1, <4>2, <4>4
    <3> QED BY <1>1, <2>2, <3>1, <3>2 DEF Durable
  <2>5. Good(y, n)
    BY <1>1, <2>2, <2>3, <2>4, Frame DEF Good
  <2> QED BY <2>1, <2>2, <2>5
<1> QED BY <1>4, <1>5

(* stopAppendOnly keeps the invariant. *)
LEMMA StopGood ==
  ASSUME NEW n \in Nat, NEW q, Good(q, n), q.up, NEW how \in Hows
  PROVE  Good(stopAppendOnly(q, how), n)
<1>1. PICK z : z = flushAppendOnlyFile(q, TRUE, how)
  OBVIOUS
<1>2. Good(z, n)
  BY <1>1, FlushGood
<1>3. CASE ~z.up
  BY <1>1, <1>2, <1>3 DEF stopAppendOnly
<1>4. CASE z.up
  <2>1. PICK u : u = Fsynced(z)
    OBVIOUS
  <2>2. Good(u, n) /\ u.buf = z.buf /\ u.orphan = z.orphan
    BY <1>2, <2>1, FsyncedGood DEF SameMemory
  <2>3. PICK r : r = aofRewriteBufferReset(u)
    OBVIOUS
  <2>4. Good(r, n) /\ r.buf = z.buf /\ r.orphan = z.orphan /\ r.rwbuf = <<>>
    BY <2>2, <2>3, ResetGood, ResetIs DEF Good
  <2> DEFINE m == -1
             o == r.orphan \/ z.buf # <<>>
             y == [r EXCEPT !.fd = "none", !.sel = m, !.aof = "off", !.orphan = o]
  <2>5. stopAppendOnly(q, how) = y
    BY <1>1, <1>4, <2>1, <2>3 DEF stopAppendOnly
  <2>6. r \in Servers(n) /\ Children(r) /\ Saves(r) /\ Logs(r) /\ Durable(r)
    BY <2>4 DEF Good
  <2>7. m \in Int /\ o \in BOOLEAN /\ (~o => ~r.orphan /\ r.buf = <<>>)
    BY <2>4
  <2> HIDE DEF m, o
  <2>8. /\ y \in Servers(n) /\ y.aof = "off" /\ SameSaves(r, y) /\ y.orphan = o
        /\ y.acked = r.acked /\ y.data = r.data /\ y.jobs = r.jobs /\ y.gen = r.gen
        /\ y.up = r.up /\ y.buf = r.buf /\ y.synced = r.synced /\ y.file = r.file
        /\ y.rw = r.rw /\ y.rdb = r.rdb /\ y.rwbuf = r.rwbuf /\ y.pipe = r.pipe /\ y.stop = r.stop
        /\ y.lastok = r.lastok /\ y.postponed = r.postponed /\ y.conf = r.conf
    BY <2>6, <2>7 DEF Servers, SameSaves
  <2> HIDE DEF y
  <2>9. Children(y) /\ Durable(y)
    BY <2>4, <2>6, <2>8 DEF Children, Durable
  <2>10. Told(y)
    <3>1. ASSUME ~o PROVE Tells(r.file, r.synced, Replayed(r.file).data, -1)
      <4>1. CASE r.aof = "on"
        <5>1. From(r) = r.synced /\ Cat(r.file, r.buf) = r.file
          <6>1. r.file \in Files(n)
            BY <2>6 DEF Servers
          <6> QED BY <2>7, <3>1, <6>1, FilesConcat DEF From
        <5>2. Tells(r.file, r.synced, r.data, r.sel)
          BY <2>6, <4>1, <5>1 DEF Logs, Told
        <5>3. r.data = Replayed(r.file).data
          BY <5>2 DEF Tells
        <5>4. Tells(r.file, r.synced, r.data, -1)
          BY <5>2, TellsUnselected
        <5> QED BY <5>3, <5>4
      <4>2. CASE r.aof # "on"
        BY <2>6, <2>7, <3>1, <4>2 DEF Logs, Told
      <4> QED BY <4>1, <4>2
    <3> QED BY <2>7, <2>8, <3>1 DEF Told
  <2>11. Logs(y)
    BY <2>6, <2>8, <2>10 DEF Logs
  <2>12. Good(y, n)
    BY <2>6, <2>8, <2>9, <2>11, Frame DEF Good
  <2> QED BY <2>5, <2>12
<1> QED BY <1>3, <1>4

-----------------------------------------------------------------------------------
(* The dump. *)

(* Nothing is missing in a dump of the data set itself. *)
LEMMA NothingUnsaved ==
  ASSUME NEW n \in Nat, NEW d \in Datasets(n), NEW e
  PROVE  Unsaved(d, d) = 0 /\ Unsaved(d, e) \in Nat /\ Unsaved(d, e) <= Cardinality(Holds(d))
<1>1. IsFiniteSet(Holds(d)) /\ Holds(d) \ Holds(e) \subseteq Holds(d) /\ Holds(d) \ Holds(d) = {}
  BY HoldsType
<1>2. Cardinality({}) = 0
  BY FS_EmptySet
<1>3. /\ Cardinality(Holds(d) \ Holds(e)) \in Nat
      /\ Cardinality(Holds(d) \ Holds(e)) <= Cardinality(Holds(d))
  BY <1>1, FS_Subset, FS_CardinalityType
<1> QED BY <1>1, <1>2, <1>3 DEF Unsaved

(* A step of the dump: only what Saves is about changes, and whether there is a child. *)
Dumped(r, y) ==
  /\ y.data = r.data /\ SameLogs(r, y) /\ SameDurable(r, y)
  /\ y.up = r.up /\ y.rw = r.rw /\ y.rwbuf = r.rwbuf /\ y.pipe = r.pipe /\ y.stop = r.stop
  /\ y.aof = r.aof /\ y.fd = r.fd
  /\ y.rdb.phase = "none" \/ y.rw.phase = "none"

(* It keeps the invariant when it keeps the count. *)
LEMMA DumpedGood ==
  ASSUME NEW n \in Nat, NEW r, NEW y \in Servers(n), Good(r, n), Dumped(r, y), Saves(y)
  PROVE  Good(y, n)
<1>1. Children(y)
  BY DEF Good, Children, Dumped
<1> QED BY <1>1, Frame DEF Good, Dumped

(* A child that dumps is started. *)
LEMMA DumpStarts ==
  ASSUME NEW n \in Nat, NEW r, Good(r, n)
  PROVE  LET y == rdbSaveBackground(r) IN Good(y, n) /\ y.up = r.up
<1>1. CASE r.rw.phase # "none" \/ r.rdb.phase # "none"
  BY <1>1 DEF rdbSaveBackground
<1>2. CASE r.rw.phase = "none" /\ r.rdb.phase = "none"
  <2> DEFINE b == r.dirty
             D == [phase |-> "save", snap |-> r.data]
             y == [r EXCEPT !.before = b, !.rdb = D]
  <2>1. r \in Servers(n) /\ Saves(r)
    BY DEF Good
  <2>2. r.data \in Datasets(n) /\ r.dirty \in Int
    BY <2>1 DEF Servers
  <2>3. Unsaved(r.data, r.dump) \in Nat /\ Unsaved(r.data, r.data) = 0
    BY <2>2, NothingUnsaved
  <2>4. b \in Nat
    BY <2>1, <2>2, <2>3 DEF Saves
  <2>5. D \in Dumps(n) /\ D.phase = "save" /\ D.snap = r.data
    BY <2>2 DEF Dumps
  <2>6. rdbSaveBackground(r) = y
    BY <1>2 DEF rdbSaveBackground
  <2> HIDE DEF b, D
  <2>7. y \in Servers(n) /\ y.rdb = D /\ y.before = b /\ y.dump = r.dump /\ y.dirty = r.dirty /\ y.rw = r.rw
        /\ y.data = r.data /\ y.up = r.up
    BY <2>1, <2>4, <2>5 DEF Servers
  <2>8. /\ SameLogs(r, y) /\ SameDurable(r, y) /\ y.rwbuf = r.rwbuf /\ y.pipe = r.pipe /\ y.stop = r.stop
        /\ y.aof = r.aof /\ y.fd = r.fd
    BY <2>1, <2>4, <2>5 DEF Servers, SameLogs, SameDurable
  <2> HIDE DEF y
  <2>9. Dumped(r, y)
    BY <1>2, <2>7, <2>8 DEF Dumped
  <2>10. Unsaved(y.data, y.rdb.snap) <= y.dirty - y.before
    <3>1. y.dirty - y.before = 0
      BY <2>2, <2>7 DEF b
    <3> QED BY <2>3, <2>5, <2>7, <3>1
  <2>11. Saves(y)
    BY <2>1, <2>5, <2>7, <2>10 DEF Saves
  <2> QED BY <2>6, <2>7, <2>9, <2>11, DumpedGood
<1> QED BY <1>1, <1>2

(* The child that dumps has finished its file, or ends without. *)
LEMMA DumpFinishesGood ==
  ASSUME NEW n \in Nat, NEW r, Good(r, n), r.rdb.phase = "save",
         NEW ph \in {"failed", "killed"}
  PROVE  /\ Good([r EXCEPT !.dump = r.rdb.snap, !.rdb.phase = "done"], n)
         /\ Good([r EXCEPT !.rdb.phase = ph], n)
<1>1. r \in Servers(n) /\ Saves(r) /\ Children(r)
  BY DEF Good
<1>2. r.rdb \in Dumps(n) /\ r.rdb.snap \in Datasets(n) /\ r.dirty \in Int /\ r.before \in Nat
  BY <1>1 DEF Servers, Dumps
<1>3. r.rw.phase = "none"
  BY <1>1 DEF Children
<1> DEFINE s == r.rdb.snap
           D == [r.rdb EXCEPT !.phase = "done"]
           F == [r.rdb EXCEPT !.phase = ph]
           y == [r EXCEPT !.dump = s, !.rdb = D]
           z == [r EXCEPT !.rdb = F]
<1>4. /\ [r EXCEPT !.dump = r.rdb.snap, !.rdb.phase = "done"] = y
      /\ [r EXCEPT !.rdb.phase = ph] = z
  BY <1>1 DEF Servers
<1>5. s \in Datasets(n) /\ D \in Dumps(n) /\ D.phase = "done" /\ F \in Dumps(n) /\ F.phase = ph
  BY <1>2 DEF Dumps
<1> HIDE DEF s, D, F
<1>6. Good(y, n)
  <2>1. y \in Servers(n) /\ y.rdb = D /\ y.before = r.before /\ y.dump = s /\ y.dirty = r.dirty /\ y.rw = r.rw
        /\ y.data = r.data /\ y.up = r.up
    BY <1>1, <1>5 DEF Servers
  <2>2. /\ SameLogs(r, y) /\ SameDurable(r, y) /\ y.rwbuf = r.rwbuf /\ y.pipe = r.pipe /\ y.stop = r.stop
        /\ y.aof = r.aof /\ y.fd = r.fd
    BY <1>1, <1>5 DEF Servers, SameLogs, SameDurable
  <2> HIDE DEF y
  <2>3. Dumped(r, y)
    BY <1>3, <2>1, <2>2 DEF Dumped
  <2>4. Unsaved(y.data, y.dump) <= y.dirty - y.before
    BY <1>1, <2>1 DEF Saves, s
  <2>5. Unsaved(y.data, y.dump) \in Nat
    <3>1. r.data \in Datasets(n)
      BY <1>1 DEF Servers
    <3> QED BY <2>1, <3>1, NothingUnsaved
  <2>6. Unsaved(y.data, y.dump) <= y.dirty
    BY <1>2, <2>1, <2>4, <2>5
  <2>7. Saves(y)
    BY <1>5, <2>1, <2>4, <2>6 DEF Saves
  <2> QED BY <2>1, <2>3, <2>7, DumpedGood
<1>7. Good(z, n)
  <2>1. z \in Servers(n) /\ z.rdb = F /\ z.before = r.before /\ z.dump = r.dump /\ z.dirty = r.dirty /\ z.rw = r.rw
        /\ z.data = r.data /\ z.up = r.up
    BY <1>1, <1>5 DEF Servers
  <2>2. /\ SameLogs(r, z) /\ SameDurable(r, z) /\ z.rwbuf = r.rwbuf /\ z.pipe = r.pipe /\ z.stop = r.stop
        /\ z.aof = r.aof /\ z.fd = r.fd
    BY <1>1, <1>5 DEF Servers, SameLogs, SameDurable
  <2> HIDE DEF z
  <2>3. Dumped(r, z)
    BY <1>3, <2>1, <2>2 DEF Dumped
  <2>4. Saves(z)
    BY <1>1, <1>5, <2>1 DEF Saves
  <2> QED BY <2>1, <2>3, <2>4, DumpedGood
<1> QED BY <1>4, <1>6, <1>7

(* The parent learns of it: what was written meanwhile is still counted. *)
LEMMA SaveDoneGood ==
  ASSUME NEW n \in Nat, NEW r, Good(r, n)
  PROVE  LET y == backgroundSaveDoneHandlerDisk(r) IN Good(y, n) /\ y.up = r.up
<1> DEFINE d == IF r.rdb.phase = "done" THEN r.dirty - r.before ELSE r.dirty
           k == SaveStatus(r)
           D == NoDump
           y == [r EXCEPT !.dirty = d, !.saveok = k, !.rdb = D]
<1>1. r \in Servers(n) /\ Saves(r)
  BY DEF Good
<1>2. r.dirty \in Int /\ r.before \in Nat
  BY <1>1 DEF Servers
<1>3. d \in Int /\ k \in BOOLEAN /\ D \in Dumps(n) /\ D.phase = "none"
  <2>1. r.saveok \in BOOLEAN
    BY <1>1 DEF Servers
  <2>2. k \in BOOLEAN
    BY <2>1, Zenon DEF SaveStatus
  <2> HIDE DEF k
  <2> QED BY <1>2, <2>2, NothingType DEF NoDump
<1>4. backgroundSaveDoneHandlerDisk(r) = y
  BY DEF backgroundSaveDoneHandlerDisk
<1>5. Unsaved(r.data, r.dump) <= d
  BY <1>1 DEF Saves
<1> HIDE DEF d, k, D
<1>6. y \in Servers(n) /\ y.rdb = D /\ y.dump = r.dump /\ y.dirty = d /\ y.rw = r.rw
      /\ y.data = r.data /\ y.up = r.up
  BY <1>1, <1>3 DEF Servers
<1>7. /\ SameLogs(r, y) /\ SameDurable(r, y) /\ y.rwbuf = r.rwbuf /\ y.pipe = r.pipe /\ y.stop = r.stop
      /\ y.aof = r.aof /\ y.fd = r.fd
  BY <1>1, <1>3 DEF Servers, SameLogs, SameDurable
<1> HIDE DEF y
<1>8. Dumped(r, y)
  BY <1>3, <1>6, <1>7 DEF Dumped
<1>9. Saves(y)
  BY <1>3, <1>5, <1>6 DEF Saves
<1> QED BY <1>4, <1>6, <1>8, <1>9, DumpedGood

(* A dump in the foreground, without a child that dumps. *)
LEMMA SaveGood ==
  ASSUME NEW n \in Nat, NEW r, Good(r, n), r.rdb.phase = "none"
  PROVE  Good(rdbSave(r), n)
<1> DEFINE e == r.data
           o == 0
           y == [r EXCEPT !.dump = e, !.dirty = o, !.saveok = TRUE]
<1>1. r \in Servers(n) /\ Saves(r)
  BY DEF Good
<1>2. e \in Datasets(n) /\ Unsaved(e, e) = 0
  BY <1>1, NothingUnsaved DEF Servers
<1>3. rdbSave(r) = y
  BY DEF rdbSave
<1>4. e = r.data /\ o \in Int
  OBVIOUS
<1> HIDE DEF e, o
<1>5. y \in Servers(n) /\ y.rdb = r.rdb /\ y.dump = e /\ y.dirty = o /\ y.rw = r.rw
      /\ y.data = r.data /\ y.up = r.up
  BY <1>1, <1>2, <1>4 DEF Servers
<1>6. /\ SameLogs(r, y) /\ SameDurable(r, y) /\ y.rwbuf = r.rwbuf /\ y.pipe = r.pipe /\ y.stop = r.stop
      /\ y.aof = r.aof /\ y.fd = r.fd
  BY <1>1, <1>2, <1>4 DEF Servers, SameLogs, SameDurable
<1> HIDE DEF y
<1>7. Dumped(r, y)
  BY <1>5, <1>6 DEF Dumped
<1>8. Saves(y)
  BY <1>2, <1>4, <1>5 DEF Saves, o
<1> QED BY <1>3, <1>5, <1>7, <1>8, DumpedGood

(* A flag that the invariant is not about. *)
LEMMA FlagGood ==
  ASSUME NEW n \in Nat, NEW r, Good(r, n), NEW b \in BOOLEAN
  PROVE  /\ Good([r EXCEPT !.bgsched = b], n) /\ [r EXCEPT !.bgsched = b].up = r.up
         /\ Good([r EXCEPT !.rwsched = b], n) /\ [r EXCEPT !.rwsched = b].up = r.up
<1>1. r \in Servers(n)
  BY DEF Good
<1> DEFINE y == [r EXCEPT !.bgsched = b]
           z == [r EXCEPT !.rwsched = b]
<1>2. y \in Servers(n) /\ SameChildren(r, y) /\ SameSaves(r, y) /\ SameLogs(r, y) /\ SameDurable(r, y)
      /\ y.up = r.up
  BY <1>1 DEF Servers, SameChildren, SameSaves, SameLogs, SameDurable
<1>3. z \in Servers(n) /\ SameChildren(r, z) /\ SameSaves(r, z) /\ SameLogs(r, z) /\ SameDurable(r, z)
      /\ z.up = r.up
  BY <1>1 DEF Servers, SameChildren, SameSaves, SameLogs, SameDurable
<1> HIDE DEF y, z
<1>4. Good(y, n) /\ Good(z, n)
  BY <1>2, <1>3, GoodSame
<1> QED BY <1>2, <1>3, <1>4 DEF y, z

(* SAVE, BGSAVE and BGREWRITEAOF. *)
LEMMA CommandsGood ==
  ASSUME NEW n \in Nat, NEW r, Good(r, n), r.up, NEW ok \in BOOLEAN
  PROVE  Good(saveCommand(r, ok), n) /\ Good(bgsaveCommand(r, TRUE), n) /\ Good(bgrewriteaofCommand(r), n)
<1>1. Good(saveCommand(r, ok), n)
  BY SaveGood DEF saveCommand
<1>2. Good(bgsaveCommand(r, TRUE), n)
  <2>1. bgsaveCommand(r, TRUE) \in {r, [r EXCEPT !.bgsched = TRUE], rdbSaveBackground(r)}
    <3>1. [r EXCEPT !.bgsched = @ \/ TRUE] = [r EXCEPT !.bgsched = TRUE]
      OBVIOUS
    <3> QED BY <3>1 DEF bgsaveCommand
  <2>2. TRUE \in BOOLEAN
    OBVIOUS
  <2> QED BY <2>1, <2>2, FlagGood, DumpStarts
<1>3. Good(bgrewriteaofCommand(r), n)
  <2>1. bgrewriteaofCommand(r) \in {r, [r EXCEPT !.rwsched = TRUE], rewriteAppendOnlyFileBackground(r)}
    BY DEF bgrewriteaofCommand
  <2>2. TRUE \in BOOLEAN
    OBVIOUS
  <2> QED BY <2>1, <2>2, FlagGood, RewriteStarts
<1> QED BY <1>1, <1>2, <1>3

(* SHUTDOWN kills the children. *)
LEMMA KillGood ==
  ASSUME NEW n \in Nat, NEW r, Good(r, n)
  PROVE  Good(KillDump(r), n) /\ Good(KillRewrite(r), n)
<1>1. r \in Servers(n)
  BY DEF Good
<1>2. Good(KillDump(r), n)
  <2>1. CASE r.rdb.phase = "save"
    <3>1. KillDump(r) = [r EXCEPT !.rdb.phase = "killed"]
      BY <2>1 DEF KillDump
    <3>2. "killed" \in {"failed", "killed"}
      OBVIOUS
    <3>3. Good([r EXCEPT !.rdb.phase = "killed"], n)
      BY <2>1, <3>2, DumpFinishesGood
    <3> QED BY <3>1, <3>3
  <2>2. CASE r.rdb.phase # "save"
    <3>1. KillDump(r) = r
      BY <1>1, <2>2 DEF KillDump, Servers, Dumps
    <3> QED BY <3>1
  <2> QED BY <2>1, <2>2
<1>3. Good(KillRewrite(r), n)
  <2>1. CASE r.rw.phase \in {"dump", "asked", "acked"}
    <3>1. PICK st \in BOOLEAN : st = r.stop
      BY <1>1 DEF Servers
    <3>2. KillRewrite(r) = [r EXCEPT !.rw.phase = "failed"]
      BY <2>1 DEF KillRewrite
    <3>3. [r EXCEPT !.rw.phase = "failed"] = [r EXCEPT !.stop = st, !.rw.phase = "failed"]
      BY <1>1, <3>1 DEF Servers
    <3>4. "failed" \in {"asked", "acked", "failed"} /\ ("failed" = "acked" => st)
      OBVIOUS
    <3>5. Good([r EXCEPT !.stop = st, !.rw.phase = "failed"], n)
      BY <2>1, <3>4, PhaseGood
    <3> QED BY <3>2, <3>3, <3>5
  <2>2. CASE r.rw.phase \notin {"dump", "asked", "acked"}
    <3>1. KillRewrite(r) = r
      BY <1>1, <2>2 DEF KillRewrite, Servers, Rewrites
    <3> QED BY <3>1
  <2> QED BY <2>1, <2>2
<1> QED BY <1>2, <1>3

(* Without a child that dumps. *)
LEMMA NoDumpGood ==
  ASSUME NEW n \in Nat, NEW r, Good(r, n)
  PROVE  LET y == [r EXCEPT !.rdb = NoDump] IN
         /\ Good(y, n) /\ y.data = r.data /\ y.up = r.up /\ y.aof = r.aof /\ y.buf = r.buf
         /\ y.rdb.phase = "none"
<1> DEFINE D == NoDump
           y == [r EXCEPT !.rdb = D]
<1>1. r \in Servers(n) /\ Saves(r)
  BY DEF Good
<1>2. D \in Dumps(n) /\ D.phase = "none"
  BY NothingType DEF NoDump
<1> HIDE DEF D
<1>3. /\ y \in Servers(n) /\ y.rdb = D /\ y.dump = r.dump /\ y.dirty = r.dirty /\ y.rw = r.rw
      /\ y.data = r.data /\ y.up = r.up
      /\ SameLogs(r, y) /\ SameDurable(r, y) /\ y.rwbuf = r.rwbuf /\ y.pipe = r.pipe /\ y.stop = r.stop
      /\ y.aof = r.aof /\ y.fd = r.fd /\ y.buf = r.buf
  BY <1>1, <1>2 DEF Servers, SameLogs, SameDurable
<1> HIDE DEF y
<1>4. Dumped(r, y) /\ Saves(y)
  BY <1>1, <1>2, <1>3 DEF Dumped, Saves
<1>5. Good(y, n)
  BY <1>3, <1>4, DumpedGood
<1> QED BY <1>2, <1>3, <1>5 DEF y, D

(* The process exits. *)
LEMMA ExitedGood ==
  ASSUME NEW n \in Nat, NEW r, Good(r, n)
  PROVE  Good(Exited(r), n) /\ Exited(r).rdb.phase = "none"
<1> DEFINE e == <<>>
           w == NoRewrite
           N == NoDump
           u == [r EXCEPT !.rdb = N]
           v == aofRewriteBufferReset(u)
           z == [v EXCEPT !.up = FALSE, !.rw = w]
           C == [r EXCEPT !.rwbuf = e, !.pipe = e, !.rw = w, !.up = FALSE, !.rdb = N]
<1>1. r \in Servers(n)
  BY DEF Good
<1>2. Good(u, n)
  BY NoDumpGood
<1>3. Good(v, n)
  <2> HIDE DEF u
  <2> QED BY <1>2, ResetGood
<1>4. Good(z, n)
  <2> HIDE DEF v
  <2> QED BY <1>3, ResetGood
<1>5. Exited(r) = [[r EXCEPT !.rwbuf = e, !.pipe = e, !.rw = w] EXCEPT !.up = FALSE, !.rdb = N]
  BY DEF Exited, aofRewriteBufferReset
<1>6. z = [[u EXCEPT !.rwbuf = e, !.pipe = e, !.rw = w] EXCEPT !.up = FALSE, !.rw = w]
  BY DEF aofRewriteBufferReset
<1>7. N.phase = "none"
  BY DEF NoDump
<1> HIDE DEF e, w, N, z
<1>8. Exited(r) = C
  BY <1>1, <1>5 DEF Servers
<1>9. z = C
  BY <1>1, <1>6 DEF Servers
<1>10. C.rdb = N
  BY <1>1 DEF Servers
<1> HIDE DEF C
<1> QED BY <1>4, <1>7, <1>8, <1>9, <1>10

(* SHUTDOWN keeps the invariant, whether the server exits or goes on. *)
LEMMA ShutdownGood ==
  ASSUME NEW n \in Nat, NEW r, Good(r, n), NEW save \in BOOLEAN, NEW ok \in BOOLEAN
  PROVE  Good(prepareForShutdown(r, save, ok), n)
<1>1. PICK y : y = KillDump(r)
  OBVIOUS
<1>2. Good(y, n)
  BY <1>1, KillGood
<1>3. PICK k : k = KillRewrite(y)
  OBVIOUS
<1>4. Good(k, n)
  BY <1>2, <1>3, KillGood
<1>5. PICK z : z = IF r.aof = "off" THEN y ELSE Fsynced(k)
  OBVIOUS
<1>6. Good(z, n)
  BY <1>2, <1>4, <1>5, FsyncedGood
<1>7. PICK x : x = Exited(z)
  OBVIOUS
<1>8. Good(x, n) /\ x.rdb.phase = "none"
  BY <1>6, <1>7, ExitedGood
<1>9. Good(rdbSave(x), n)
  BY <1>8, SaveGood
<1>10. prepareForShutdown(r, save, ok) \in {y, x, rdbSave(x), z}
  BY <1>1, <1>3, <1>5, <1>7 DEF prepareForShutdown
<1> QED BY <1>2, <1>6, <1>8, <1>9, <1>10

-----------------------------------------------------------------------------------
(* serverCron keeps the invariant, part by part. *)
LEMMA CronGood ==
  ASSUME NEW n \in Nat, NEW r, Good(r, n), r.up, NEW ev, NEW how \in Hows
  PROVE  Good(serverCron(r, ev, how), n)
<1>1. PICK a : a = CronScheduled(r)
  OBVIOUS
<1>2. Good(a, n) /\ a.up
  BY <1>1, RewriteStarts DEF CronScheduled
<1>3. PICK b : b = CronChildren(a, ev)
  OBVIOUS
<1>4. Good(b, n) /\ b.up
  <2> DEFINE due == a.conf.changes > 0 /\ a.dirty >= a.conf.changes /\ "due" \in ev
                    /\ ("retry" \in ev \/ a.saveok)
             grown == "grown" \in ev /\ Len(a.file) > a.base
  <2>1. PICK y : y = IF due THEN rdbSaveBackground(a) ELSE a
    OBVIOUS
  <2>2. Good(y, n) /\ y.up
    <3> HIDE DEF due
    <3> QED BY <1>2, <2>1, DumpStarts
  <2>3. Good(rewriteAppendOnlyFileBackground(y), n) /\ rewriteAppendOnlyFileBackground(y).up
    BY <2>2, RewriteStarts
  <2>4. \/ b = backgroundSaveDoneHandlerDisk(a)
        \/ b = backgroundRewriteDoneHandler(a)
        \/ b = a
        \/ b = IF grown THEN rewriteAppendOnlyFileBackground(y) ELSE y
    BY <1>3, <2>1 DEF CronChildren
  <2> HIDE DEF grown
  <2> QED BY <1>2, <2>2, <2>3, <2>4, SaveDoneGood, RewriteDoneGood
<1>5. PICK c : c = CronFlush(b, how)
  OBVIOUS
<1>6. Good(c, n)
  <2>1. FALSE \in BOOLEAN
    OBVIOUS
  <2> QED BY <1>4, <1>5, <2>1, FlushGood DEF CronFlush
<1>7. Good(CronBgsave(c, ev), n)
  <2>1. PICK y : y = rdbSaveBackground(c)
    OBVIOUS
  <2>2. Good(y, n)
    BY <1>6, <2>1, DumpStarts
  <2>3. FALSE \in BOOLEAN
    OBVIOUS
  <2>4. CronBgsave(c, ev) = c \/ CronBgsave(c, ev) = [y EXCEPT !.bgsched = FALSE]
    BY <2>1 DEF CronBgsave
  <2> QED BY <1>6, <2>2, <2>3, <2>4, FlagGood
<1> QED BY <1>1, <1>3, <1>5, <1>7 DEF serverCron

(* Time passes. *)
LEMMA TickGood ==
  ASSUME NEW n \in Nat, NEW r, Good(r, n)
  PROVE  Good([r EXCEPT !.second = TRUE, !.postponed = IF @ = "yes" THEN "long" ELSE @], n)
<1> DEFINE q == IF r.postponed = "yes" THEN "long" ELSE r.postponed
           y == [r EXCEPT !.second = TRUE, !.postponed = q]
<1>1. r \in Servers(n) /\ Durable(r)
  BY DEF Good
<1>2. q \in {"no", "yes", "long"} /\ (q = "no" <=> r.postponed = "no")
  BY <1>1 DEF Servers
<1> HIDE DEF q
<1>3. /\ y \in Servers(n) /\ SameChildren(r, y) /\ SameSaves(r, y) /\ SameLogs(r, y) /\ y.postponed = q
      /\ y.acked = r.acked /\ y.data = r.data /\ y.jobs = r.jobs /\ y.aof = r.aof /\ y.conf = r.conf
      /\ y.up = r.up /\ y.buf = r.buf /\ y.synced = r.synced /\ y.file = r.file /\ y.lastok = r.lastok
      /\ y.loaded = r.loaded
  BY <1>1, <1>2 DEF Servers, SameChildren, SameSaves, SameLogs
<1> HIDE DEF y
<1>4. Durable(y)
  <2>1. Lasts(y) = Lasts(r)
    BY <1>3 DEF Lasts
  <2> QED BY <1>1, <1>2, <1>3, <2>1 DEF Durable
<1>5. Good(y, n)
  BY <1>3, <1>4, Frame DEF Good
<1> QED BY <1>5 DEF y, q

-----------------------------------------------------------------------------------
(* A server that starts from files that hold what it loads is a good one, if what is  *)
(* not safe of the AOF tells what it restores.                                        *)
LEMMA StartedGood ==
  ASSUME NEW n \in Nat, NEW data \in Datasets(n), NEW file \in Files(n), NEW synced \in 0..Len(file),
         NEW dump \in Datasets(n), NEW dirty \in Nat, NEW conf \in Confs, NEW orphan \in BOOLEAN,
         conf.aof => Replayed(file).data = data, Unsaved(data, dump) <= dirty,
         ~orphan => Tells(file, synced, Replayed(file).data, -1)
  PROVE  Good(Started(data, file, synced, dump, dirty, conf, orphan), n)
<1> DEFINE a == IF conf.aof THEN "on" ELSE "off"
           f == IF conf.aof THEN "open" ELSE "none"
           m == -1
           e == <<>>
           w == NoRewrite
           D == NoDump
           L == Len(file)
           z == {}
           h == Holds(data)
           y == [up |-> TRUE, data |-> data, loaded |-> h, acked |-> z, aof |-> a,
                 fd |-> f, sel |-> m, buf |-> e, file |-> file,
                 synced |-> synced, base |-> L, gen |-> 0, orphan |-> orphan, postponed |-> "no",
                 lastok |-> TRUE, second |-> FALSE, jobs |-> e, rw |-> w, rwbuf |-> e, pipe |-> e,
                 stop |-> FALSE, rwsched |-> FALSE, rdb |-> D, dump |-> dump, dirty |-> dirty,
                 before |-> 0, bgsched |-> FALSE, saveok |-> TRUE, conf |-> conf]
<1>1. Started(data, file, synced, dump, dirty, conf, orphan) = y
  BY DEF Started
<1>2. /\ a \in {"on", "off", "wait"} /\ f \in {"open", "none", "stale"} /\ m \in Int /\ L \in Nat
      /\ a = "on" => conf.aof
      /\ a = "wait" => FALSE
      /\ a # "off" => f = "open"
      /\ e \in Files(n) /\ e \in Seq(Jobs) /\ w \in Rewrites(n) /\ D \in Dumps(n)
      /\ w.phase = "none" /\ D.phase = "none" /\ z \in SUBSET Nat
  <2>1. e \in Files(n) /\ e \in Seq(Jobs) /\ w \in Rewrites(n) /\ D \in Dumps(n)
        /\ w.phase = "none" /\ D.phase = "none"
    BY NothingType DEF NoRewrite, NoDump
  <2>2. L \in Nat
    BY LenProperties DEF Files
  <2> QED BY <2>1, <2>2
<1>3. Len(e) = 0 /\ Cat(file, e) = file /\ SubSeq(file, 1, L) = file
  BY FilesConcat, EmptySeq
<1>4. dirty \in Int /\ synced \in Nat /\ synced <= L
  BY <1>2
<1>12. h \in SUBSET Nat
  BY HoldsType DEF Below
<1> HIDE DEF a, f, m, e, w, D, L, z, h
<1>5. y \in Servers(n)
  BY <1>2, <1>4, <1>12 DEF Servers
<1>6. /\ y.data = data /\ y.dump = dump /\ y.dirty = dirty /\ y.rdb = D /\ y.rw = w /\ y.aof = a
      /\ y.fd = f /\ y.rwbuf = e /\ y.pipe = e /\ y.file = file /\ y.synced = synced /\ y.jobs = e
      /\ y.buf = e /\ y.sel = m /\ y.acked = z /\ y.conf = conf /\ y.postponed = "no" /\ y.up = TRUE
      /\ y.orphan = orphan /\ y.loaded = h
  OBVIOUS
<1> HIDE DEF y
<1>7. Children(y)
  BY <1>2, <1>6 DEF Children, e
<1>8. Saves(y)
  BY <1>2, <1>6 DEF Saves
<1>9. Told(y)
  <2>1. ASSUME conf.aof PROVE Tells(file, From(y), data, m)
    <3>1. From(y) = IF orphan THEN L ELSE synced
      BY <1>3, <1>6 DEF From, L
    <3>2. Tells(file, L, Replayed(file).data, -1)
      BY TellsItself DEF L
    <3>3. Tells(file, From(y), Replayed(file).data, -1)
      BY <3>1, <3>2
    <3> QED BY <2>1, <3>3 DEF m
  <2>2. y.aof = "on" => Tells(Cat(y.file, y.buf), From(y), y.data, y.sel)
    BY <1>2, <1>3, <1>6, <2>1
  <2> QED BY <1>6, <2>2 DEF Told, e
<1>10. Logs(y)
  <2>1. y.synced <= Len(y.file)
    BY <1>4, <1>6 DEF L
  <2>2. \A i \in 1..Len(y.jobs) : FALSE
    BY <1>3, <1>6
  <2> QED BY <1>2, <1>6, <1>9, <2>1, <2>2 DEF Logs, Running
<1>11. Durable(y)
  BY <1>6 DEF Durable, e, z, h
<1> QED BY <1>1, <1>5, <1>7, <1>8, <1>10, <1>11 DEF Good

(* What is not safe of a file tells what the file restores. *)
Sound(q, n) ==
  /\ q \in Servers(n) /\ q.synced \in 0..Len(q.file)
  /\ ~q.orphan => Tells(q.file, q.synced, Replayed(q.file).data, -1)

(* The AOF of a good server does, and any part of it with what is safe. *)
LEMMA GoodSound ==
  ASSUME NEW n \in Nat, NEW r, Good(r, n)
  PROVE  Sound(r, n) /\ \A k \in r.synced..Len(r.file) : Sound(PowerLost(r, k), n)
<1>1. r \in Servers(n) /\ Told(r) /\ r.synced <= Len(r.file)
  BY DEF Good, Logs
<1>2. PICK f \in Files(n), b \in Files(n), i \in Nat : f = r.file /\ b = r.buf /\ i = r.synced
  BY <1>1 DEF Servers
<1>3. Len(f) \in Nat /\ Cat(f, b) \in Files(n) /\ Len(f) <= Len(Cat(f, b)) /\ Len(Cat(f, b)) \in Nat
  BY FilesConcat
<1>4. i \in 0..Len(f) /\ Len(f) \in 0..Len(Cat(f, b))
  BY <1>1, <1>2, <1>3
<1>5. ASSUME ~r.orphan PROVE Tells(f, i, Replayed(f).data, -1)
  <2>1. CASE r.aof = "on"
    <3>1. Tells(Cat(f, b), i, r.data, r.sel)
      BY <1>1, <1>2, <1>5, <2>1 DEF Told, From
    <3>2. SubSeq(Cat(f, b), 1, Len(f)) = f
      <4>1. Len(f) \in 0..Len(f)
        BY <1>3
      <4>2. SubSeq(Cat(f, b), 1, Len(f)) = SubSeq(f, 1, Len(f))
        BY <4>1, PrefixType DEF Files, Cat
      <4> QED BY <4>2, FilesConcat
    <3>3. PICK s \in Files(n) : s = Cat(f, b)
      BY <1>3
    <3>6. PICK k \in 0..Len(s) : k = Len(f)
      BY <1>4, <3>3
    <3>4. i \in 0..k /\ Tells(s, i, r.data, r.sel)
      BY <1>4, <3>1, <3>3, <3>6
    <3>5. LET g == SubSeq(s, 1, k) IN Tells(g, i, Replayed(g).data, -1)
      BY <3>4, PrefixTells
    <3> QED BY <3>2, <3>3, <3>5, <3>6
  <2>2. CASE r.aof # "on"
    BY <1>1, <1>2, <1>5, <2>2 DEF Told
  <2> QED BY <2>1, <2>2
<1>6. Sound(r, n)
  BY <1>1, <1>2, <1>4, <1>5 DEF Sound
<1>7. ASSUME NEW k \in r.synced..Len(r.file) PROVE Sound(PowerLost(r, k), n)
  <2>1. k \in 0..Len(f) /\ k \in Nat
    BY <1>2, <1>3, <1>7
  <2>2. PICK g \in Files(n) : g = SubSeq(f, 1, k)
    BY <2>1, SplitFile
  <2>3. Len(g) = k
    BY <2>1, <2>2, PrefixType DEF Files
  <2> DEFINE q == [r EXCEPT !.file = g, !.synced = k]
  <2>4. q \in Servers(n) /\ q.file = g /\ q.synced = k
    BY <1>1, <2>1 DEF Servers
  <2>5. PowerLost(r, k) = q
    BY <1>2, <2>2 DEF PowerLost
  <2> HIDE DEF q
  <2>6. Tells(g, k, Replayed(g).data, -1)
    BY <2>3, TellsItself
  <2>7. k \in 0..Len(g)
    BY <2>1, <2>3
  <2>8. Sound(q, n)
    BY <2>4, <2>6, <2>7 DEF Sound
  <2> QED BY <2>5, <2>8
<1> QED BY <1>6, <1>7

(* The server that starts again with what there is of its files. *)
LEMMA LoadGood ==
  ASSUME NEW n \in Nat, NEW r, Sound(r, n), ~r.up, loadDataFromDisk(r).up
  PROVE  Good(loadDataFromDisk(r), n)
<1>1. r \in Servers(n)
  BY DEF Sound
<1>2. r.file \in Files(n) /\ r.conf \in Confs /\ r.dump \in Datasets(n) /\ r.orphan \in BOOLEAN
  BY <1>1 DEF Servers
<1>3. PICK f \in Files(n), i \in 0..Len(r.file), o \in BOOLEAN :
        f = r.file /\ i = r.synced /\ o = r.orphan /\ i \in 0..Len(f)
  BY <1>2 DEF Sound
<1>4. Len(f) \in Nat /\ (~o => Tells(f, i, Replayed(f).data, -1))
  BY <1>3, LenProperties DEF Sound, Files
<1>5. CASE ~r.conf.aof
  <2>1. PICK e \in Datasets(n), c \in Confs : e = r.dump /\ c = r.conf
    BY <1>2
  <2>2. loadDataFromDisk(r) = Started(e, f, i, e, 0, c, o)
    BY <1>3, <1>5, <2>1 DEF loadDataFromDisk
  <2>3. Unsaved(e, e) <= 0 /\ 0 \in Nat
    BY NothingUnsaved
  <2>4. Good(Started(e, f, i, e, 0, c, o), n)
    BY <1>3, <1>4, <1>5, <2>1, <2>3, StartedGood
  <2> QED BY <2>2, <2>4
<1>6. CASE r.conf.aof
  <2>1. PICK l \in Replays(n) : /\ l = Replayed(f) /\ l.valid <= Len(f)
                                /\ Cardinality(Holds(l.data)) <= l.n
                                /\ Replayed(SubSeq(f, 1, l.valid)).data = l.data
    BY ReplayedType
  <2>2. PICK d \in Datasets(n), q \in Nat, v \in Nat : d = l.data /\ q = l.n /\ v = l.valid
    BY DEF Replays
  <2>3. v \in 0..Len(f) /\ i \in Nat
    BY <1>4, <2>1, <2>2
  <2>4. PICK rest \in Files(n) : rest = SubSeq(f, 1, v) /\ Len(rest) = v
    <3>1. SubSeq(f, 1, v) \in Files(n)
      BY <2>3, SplitFile
    <3>2. Len(SubSeq(f, 1, v)) = v
      BY <2>3, PrefixType DEF Files
    <3> QED BY <3>1, <3>2
  <2>5. PICK k \in 0..Len(rest) : /\ k = Least(i, v)
                                  /\ ~o => Tells(rest, k, Replayed(rest).data, -1)
    <3>1. CASE i <= v
      <4>1. Least(i, v) = i /\ i \in 0..v
        BY <2>3, <3>1 DEF Least
      <4>2. ASSUME ~o PROVE LET g == SubSeq(f, 1, v) IN Tells(g, i, Replayed(g).data, -1)
        BY <1>4, <2>3, <4>1, <4>2, PrefixTells
      <4> QED BY <2>4, <4>1, <4>2
    <3>2. CASE ~(i <= v)
      <4>1. Least(i, v) = v /\ v \in 0..v
        BY <2>3, <3>2 DEF Least
      <4>2. Tells(rest, v, Replayed(rest).data, -1)
        BY <2>4, TellsItself
      <4> QED BY <2>4, <4>1, <4>2
    <3> QED BY <3>1, <3>2
  <2>6. loadDataFromDisk(r) = IF Truncated(l) /\ ~r.conf.truncated THEN r
                              ELSE Started(d, rest, k, r.dump, q, r.conf, o)
    BY <1>3, <1>6, <2>1, <2>2, <2>4, <2>5 DEF loadDataFromDisk, loadAppendOnlyFile
  <2>7. loadDataFromDisk(r) = Started(d, rest, k, r.dump, q, r.conf, o)
    BY <2>6
  <2>8. Unsaved(d, r.dump) <= q
    <3>1. IsFiniteSet(Holds(d))
      BY HoldsType
    <3>2. Cardinality(Holds(d)) \in Nat
      BY <3>1, FS_CardinalityType
    <3>3. Unsaved(d, r.dump) \in Nat /\ Unsaved(d, r.dump) <= Cardinality(Holds(d))
      BY NothingUnsaved
    <3> QED BY <2>1, <2>2, <3>2, <3>3
  <2>9. Replayed(rest).data = d
    BY <2>1, <2>2, <2>4
  <2>10. PICK e \in Datasets(n), c \in Confs : e = r.dump /\ c = r.conf
    BY <1>2
  <2>11. Good(Started(d, rest, k, e, q, c, o), n)
    BY <2>5, <2>8, <2>9, <2>10, StartedGood
  <2> QED BY <2>7, <2>10, <2>11
<1> QED BY <1>5, <1>6

-----------------------------------------------------------------------------------
(* The steps. *)

(* The server starts in a good state. *)
LEMMA InitInv == Init => PersistenceInv
<1> SUFFICES ASSUME Init PROVE PersistenceInv
  OBVIOUS
<1>1. PICK c \in Scenarios : p = Started(Empty, <<>>, 0, Empty, 0, c.conf, FALSE) /\ left = c.left
  BY DEF Init
<1>2. PICK conf \in Confs : conf = c.conf /\ left \in Budgets
  BY <1>1, ScenariosAssumption
<1>3. PICK n \in Nat : n = left.id
  BY <1>2 DEF Budgets
<1>4. Empty \in Datasets(n) /\ <<>> \in Files(n) /\ 0 \in Nat /\ FALSE \in BOOLEAN
  BY NothingType
<1>5. Unsaved(Empty, Empty) <= 0
  BY <1>4, NothingUnsaved
<1>6. Replayed(<<>>).data = Empty
  BY ReplayedEmpty DEF ReplayStart
<1>7. PICK e \in Files(n) : e = <<>> /\ Len(e) = 0 /\ 0 \in 0..Len(e)
  BY <1>4
<1>8. Tells(e, 0, Replayed(e).data, -1)
  BY <1>7, TellsItself
<1>9. Good(Started(Empty, e, 0, Empty, 0, conf, FALSE), n)
  BY <1>4, <1>5, <1>6, <1>7, <1>8, StartedGood
<1> QED BY <1>1, <1>2, <1>3, <1>7, <1>9 DEF PersistenceInv

(* What may still happen is counted. *)
LEMMA BudgetsType ==
  ASSUME NEW l \in Budgets
  PROVE  /\ l.id \in Nat \ {0} /\ l.write \in Nat /\ l.multi \in Nat /\ l.cron \in Nat /\ l.fail \in Nat
         /\ l.tick \in Nat /\ l.kill \in Nat /\ l.power \in Nat /\ l.childfail \in Nat
<1>1. l.id \in Nat \ {0} /\ l.write \in Nat /\ l.multi \in Nat /\ l.cron \in Nat /\ l.fail \in Nat
  BY DEF Budgets
<1>2. l.tick \in Nat /\ l.kill \in Nat /\ l.power \in Nat /\ l.childfail \in Nat
  BY DEF Budgets
<1> QED BY <1>1, <1>2

(* A command that a client sends. *)
LEMMA ClientKeeps ==
  ASSUME PersistenceInv, NEW db \in Dbs, Client(db)
  PROVE  PersistenceInv'
<1>1. left \in Budgets /\ Good(p, left.id) /\ left.id \in Nat
  BY BudgetsType DEF PersistenceInv
<1>2. CASE /\ left.write > 0
           /\ p' = Executed(p, db, <<left.id>>, Set(left.id))
           /\ left' = [left EXCEPT !.write = @ - 1, !.id = @ + 1]
  <2>1. left' \in Budgets /\ left'.id = left.id + 1
    <3>1. left.write \in Nat
      BY <1>1, BudgetsType
    <3>2. PICK a \in Nat, i \in Nat \ {0} : a = left.write - 1 /\ i = left.id + 1
      BY <1>1, <1>2, <3>1
    <3>3. left' = [left EXCEPT !.write = a, !.id = i]
      BY <1>2, <3>2
    <3>4. left' \in Budgets /\ left'.id = i
      BY <1>1, <3>3 DEF Budgets
    <3> QED BY <3>2, <3>4
  <2>2. p' = Executed(p, db, Written(1, left.id), Propagated(1, left.id))
    BY <1>2 DEF Written, Propagated
  <2>3. Good(p', left.id + 1)
    BY <1>1, <2>2, ExecutedGood
  <2> QED BY <2>1, <2>3 DEF PersistenceInv
<1>3. CASE /\ left.multi > 0
           /\ p' = Executed(p, db, <<left.id, left.id + 1>>,
                            Multi \o Set(left.id) \o Set(left.id + 1) \o Exec)
           /\ left' = [left EXCEPT !.multi = @ - 1, !.id = @ + 2]
  <2>1. left' \in Budgets /\ left'.id = left.id + 2
    <3>1. left.multi \in Nat
      BY <1>1, BudgetsType
    <3>2. PICK a \in Nat, i \in Nat \ {0} : a = left.multi - 1 /\ i = left.id + 2
      BY <1>1, <1>3, <3>1
    <3>3. left' = [left EXCEPT !.multi = a, !.id = i]
      BY <1>3, <3>2
    <3>4. left' \in Budgets /\ left'.id = i
      BY <1>1, <3>3 DEF Budgets
    <3> QED BY <3>2, <3>4
  <2>2. p' = Executed(p, db, Written(2, left.id), Propagated(2, left.id))
    BY <1>3 DEF Written, Propagated
  <2>3. Good(p', left.id + 2)
    BY <1>1, <2>2, ExecutedGood
  <2> QED BY <2>1, <2>3 DEF PersistenceInv
<1> QED BY <1>2, <1>3 DEF Client

(* A step of a kind that is counted. *)
LEMMA SpendType ==
  ASSUME left \in Budgets, NEW kind \in {"tick", "kill", "power", "childfail"}, Spend(kind)
  PROVE  left' \in Budgets /\ left'.id = left.id
<1>1. left[kind] \in Nat
  BY BudgetsType
<1>2. PICK a \in Nat : a = left[kind] - 1
  BY <1>1 DEF Spend
<1>3. left' = [left EXCEPT ![kind] = a]
  BY <1>2 DEF Spend
<1>4. CASE kind = "tick"
  BY <1>3, <1>4 DEF Budgets
<1>5. CASE kind = "kill"
  BY <1>3, <1>5 DEF Budgets
<1>6. CASE kind = "power"
  BY <1>3, <1>6 DEF Budgets
<1>7. CASE kind = "childfail"
  BY <1>3, <1>7 DEF Budgets
<1> QED BY <1>4, <1>5, <1>6, <1>7

(* A write() that may have failed. *)
LEMMA FailingType ==
  ASSUME NEW l \in Budgets, NEW how, how # "ok" => l.fail > 0
  PROVE  Failing(l, how) \in Budgets /\ Failing(l, how).id = l.id
<1>1. CASE how = "ok"
  BY <1>1 DEF Failing
<1>2. CASE how # "ok"
  <2>1. l.fail \in Nat
    BY BudgetsType
  <2>2. PICK a \in Nat : a = l.fail - 1
    BY <1>2, <2>1
  <2>3. Failing(l, how) = [l EXCEPT !.fail = a]
    BY <1>2, <2>2 DEF Failing
  <2>4. PICK m : m = [l EXCEPT !.fail = a]
    OBVIOUS
  <2>5. m \in Budgets /\ m.id = l.id
    BY <2>4 DEF Budgets
  <2> QED BY <2>3, <2>4, <2>5
<1> QED BY <1>1, <1>2

(* serverCron. *)
LEMMA CronKeeps ==
  ASSUME PersistenceInv, NEW how \in Hows, NEW ev, Cron(how, ev)
  PROVE  PersistenceInv'
<1>1. left \in Budgets /\ Good(p, left.id) /\ left.id \in Nat
  BY BudgetsType DEF PersistenceInv
<1>2. Good(p', left.id)
  BY <1>1, CronGood DEF Cron
<1>3. left.cron \in Nat /\ left.fail \in Nat
  BY <1>1, BudgetsType
<1>4. PICK a \in Nat : a = left.cron - 1
  BY <1>3 DEF Cron
<1>5. PICK l : l = [left EXCEPT !.cron = a]
  OBVIOUS
<1>6. l \in Budgets /\ l.id = left.id /\ l.fail = left.fail
  BY <1>1, <1>5 DEF Budgets
<1>7. left' = Failing(l, how) /\ (how # "ok" => l.fail > 0)
  BY <1>4, <1>5, <1>6 DEF Cron, Outcome
<1>8. left' \in Budgets /\ left'.id = left.id
  BY <1>6, <1>7, FailingType
<1> QED BY <1>2, <1>8 DEF PersistenceInv

(* CONFIG SET appendonly, SAVE, BGSAVE, BGREWRITEAOF, SHUTDOWN. *)
LEMMA CommandKeeps ==
  ASSUME PersistenceInv, NEW c \in left.script, NEW how \in Hows, NEW ok \in BOOLEAN, Command(c, how, ok)
  PROVE  PersistenceInv'
<1>1. left \in Budgets /\ Good(p, left.id) /\ left.id \in Nat /\ p.up
  BY BudgetsType DEF PersistenceInv, Command
<1>2. Good(p', left.id)
  <2>1. CASE p.aof = "off" /\ p' = Reconfigured(startAppendOnly(p))
    BY <1>1, <2>1, StartGood, ReconfiguredGood
  <2>2. CASE p' = Reconfigured(stopAppendOnly(p, how))
    BY <1>1, <2>2, StopGood, ReconfiguredGood
  <2>3. CASE p' = bgrewriteaofCommand(p) \/ p' = bgsaveCommand(p, TRUE) \/ p' = saveCommand(p, ok)
    BY <1>1, <2>3, CommandsGood
  <2>4. ASSUME NEW save \in BOOLEAN, p' = prepareForShutdown(p, save, ok)
        PROVE  Good(p', left.id)
    BY <1>1, <2>4, ShutdownGood
  <2> QED BY <2>1, <2>2, <2>3, <2>4 DEF Command
<1>3. left' \in Budgets /\ left'.id = left.id
  <2>1. PICK l : l = Failing(left, how)
    OBVIOUS
  <2>2. l \in Budgets /\ l.id = left.id /\ l.childfail = left.childfail
    <3>1. how # "ok" => left.fail > 0
      BY DEF Command, Outcome
    <3>2. l \in Budgets /\ l.id = left.id
      BY <1>1, <2>1, <3>1, FailingType
    <3>3. l.childfail = left.childfail
      BY <1>1, <2>1 DEF Failing, Budgets
    <3> QED BY <3>2, <3>3
  <2>3. PICK s : s = l.script \ {c}
    OBVIOUS
  <2>4. PICK k \in Nat : k = IF ok THEN l.childfail ELSE l.childfail - 1
    <3>1. left.childfail \in Nat /\ (ok \/ left.childfail > 0)
      BY <1>1, BudgetsType DEF Command
    <3> QED BY <2>2, <3>1
  <2>5. left' = [l EXCEPT !.script = s, !.childfail = k]
    BY <2>1, <2>3, <2>4 DEF Command
  <2>6. s \in SUBSET {"aof on", "aof off", "rewrite", "bgsave", "save", "shutdown"}
    BY <2>2, <2>3 DEF Budgets
  <2> QED BY <2>2, <2>5, <2>6 DEF Budgets
<1> QED BY <1>2, <1>3 DEF PersistenceInv

(* The steps of the event loop, the threads, the children and the clock. *)
LEMMA OthersKeep ==
  ASSUME PersistenceInv,
         \/ BioThread \/ Tick \/ Kill \/ ParentWrites \/ ParentStops \/ ChildReads \/ ChildAsks
         \/ ChildFinishes \/ ChildFails \/ DumpFinishes \/ \E how \in Hows : EventLoop(how)
  PROVE  PersistenceInv'
<1>1. PICK n \in Nat : left \in Budgets /\ Good(p, n) /\ n = left.id /\ p \in Servers(n)
  BY BudgetsType DEF PersistenceInv, Good
<1>2. ASSUME Good(p', n), left' \in Budgets, left'.id = left.id PROVE PersistenceInv'
  BY <1>1, <1>2 DEF PersistenceInv
<1>3. CASE BioThread
  BY <1>1, <1>2, <1>3, BioGood DEF BioThread
<1>4. CASE Tick
  BY <1>1, <1>2, <1>4, TickGood, SpendType DEF Tick
<1>5. CASE Kill
  BY <1>1, <1>2, <1>5, ResetGood, SpendType DEF Kill
<1>6. CASE ParentWrites
  BY <1>1, <1>2, <1>6, ParentWritesGood DEF ParentWrites
<1>7. CASE ParentStops
  <2>1. TRUE \in BOOLEAN
    OBVIOUS
  <2>2. p' = [p EXCEPT !.stop = TRUE, !.rw.phase = "acked"] /\ p.rw.phase = "asked"
    BY <1>7 DEF ParentStops, aofChildPipeReadable
  <2>3. Good(p', n)
    BY <1>1, <2>1, <2>2, PhaseGood
  <2> QED BY <1>1, <1>2, <1>7, <2>3 DEF ParentStops
<1>8. CASE ChildReads
  BY <1>1, <1>2, <1>8, ChildReadsGood DEF ChildReads
<1>9. ASSUME NEW ph \in {"asked", "failed"}, p.rw.phase \in {"dump", "asked", "acked"}
      PROVE  Good([p EXCEPT !.rw.phase = ph], n)
  <2>1. PICK st \in BOOLEAN : st = p.stop
    BY <1>1 DEF Servers
  <2>2. [p EXCEPT !.rw.phase = ph] = [p EXCEPT !.stop = st, !.rw.phase = ph]
    BY <1>1, <2>1 DEF Servers
  <2> QED BY <1>1, <1>9, <2>2, PhaseGood
<1>10. CASE ChildAsks
  BY <1>1, <1>2, <1>9, <1>10 DEF ChildAsks
<1>11. CASE ChildFinishes
  BY <1>1, <1>2, <1>11, ChildFinishesGood DEF ChildFinishes
<1>15. "failed" \in {"failed", "killed"}
  OBVIOUS
<1>12. CASE ChildFails
  BY <1>1, <1>2, <1>9, <1>12, <1>15, DumpFinishesGood, SpendType DEF ChildFails
<1>13. CASE DumpFinishes
  BY <1>1, <1>2, <1>13, <1>15, DumpFinishesGood DEF DumpFinishes
<1>14. ASSUME NEW how \in Hows, EventLoop(how) PROVE PersistenceInv'
  <2>1. Good(p', n)
    BY <1>1, <1>14, BeforeSleepGood DEF EventLoop
  <2>2. left' \in Budgets /\ left'.id = left.id
    <3>1. how # "ok" => left.fail > 0
      BY <1>14 DEF EventLoop, Outcome
    <3> QED BY <1>1, <1>14, <3>1, FailingType DEF EventLoop
  <2> QED BY <1>2, <2>1, <2>2
<1> QED BY <1>3, <1>4, <1>5, <1>6, <1>7, <1>8, <1>10, <1>11, <1>12, <1>13, <1>14

(* A restart, with all of the file or with what was safe and perhaps more. *)
LEMMA RestartKeeps ==
  ASSUME PersistenceInv, Restart
  PROVE  PersistenceInv'
<1>1. PICK n \in Nat : left \in Budgets /\ Good(p, n) /\ n = left.id /\ p \in Servers(n)
  BY BudgetsType DEF PersistenceInv, Good
<1>2. Sound(p, n) /\ \A k \in p.synced..Len(p.file) : Sound(PowerLost(p, k), n)
  BY <1>1, GoodSound
<1>3. \A k : PowerLost(p, k).up = p.up
  BY <1>1 DEF PowerLost, Servers
<1>4. PICK q : Sound(q, n) /\ ~q.up /\ p' = loadDataFromDisk(q) /\ p'.up
  <2>1. CASE p' = loadDataFromDisk(p)
    BY <1>2, <2>1 DEF Restart
  <2>2. ASSUME NEW k \in p.synced..Len(p.file), p' = loadDataFromDisk(PowerLost(p, k))
        PROVE  Sound(PowerLost(p, k), n) /\ ~PowerLost(p, k).up /\ p' = loadDataFromDisk(PowerLost(p, k)) /\ p'.up
    BY <1>2, <1>3, <2>2 DEF Restart
  <2> QED BY <2>1, <2>2, <1>2 DEF Restart
<1>5. Good(p', n)
  BY <1>4, LoadGood
<1>6. left' \in Budgets /\ left'.id = left.id
  BY <1>1, SpendType DEF Restart
<1> QED BY <1>1, <1>5, <1>6 DEF PersistenceInv

(* Every step keeps the invariant. *)
LEMMA StepInv == PersistenceInv /\ [Next]_vars => PersistenceInv'
<1> SUFFICES ASSUME PersistenceInv, [Next]_vars PROVE PersistenceInv'
  OBVIOUS
<1>1. CASE UNCHANGED vars
  BY <1>1 DEF vars, PersistenceInv
<1>2. CASE \E db \in Dbs : Client(db)
  BY <1>2, ClientKeeps
<1>3. CASE \E how \in Hows : \E ev \in left.clocks : Cron(how, ev)
  BY <1>3, CronKeeps
<1>4. CASE \E c \in left.script, how \in Hows, ok \in BOOLEAN : Command(c, how, ok)
  BY <1>4, CommandKeeps
<1>5. CASE Restart
  BY <1>5, RestartKeeps
<1>6. CASE \/ BioThread \/ Tick \/ Kill \/ ParentWrites \/ ParentStops \/ ChildReads \/ ChildAsks
           \/ ChildFinishes \/ ChildFails \/ DumpFinishes \/ \E how \in Hows : EventLoop(how)
  BY <1>6, OthersKeep
<1> QED BY <1>1, <1>2, <1>3, <1>4, <1>5, <1>6 DEF Next

-----------------------------------------------------------------------------------
(* The server with its files, its children and what they exchange is always in a      *)
(* state as described: every step of aof.c, rdb.c, bio.c and serverCron keeps it.     *)
THEOREM PersistenceInvHolds == Spec => []PersistenceInv
BY InitInv, StepInv, PTL DEF Spec

(* The number of changes not in the dump is never understated, whatever the number of *)
(* databases, writes, saves, failures and restarts (rdbSave,                          *)
(* backgroundSaveDoneHandlerDisk, serverCron).                                        *)
THEOREM BgsaveLossHolds == Spec => []BgsaveLoss
<1>1. PersistenceInv => BgsaveLoss
  BY DEF PersistenceInv, Good, Saves, Unsaved, BgsaveLoss
<1> QED BY <1>1, PersistenceInvHolds, PTL

(* Any part of an active AOF that has at least its synced bytes restores the data set *)
(* as it was after some write (feedAppendOnlyFile, rewriteAppendOnlyFile,             *)
(* backgroundRewriteDoneHandler, loadAppendOnlyFile); only not while bytes of an AOF  *)
(* that was switched off may be in it twice (stopAppendOnly).                         *)
THEOREM AofPrefixHolds == Spec => []AofPrefix
<1>1. ASSUME PersistenceInv PROVE AofPrefix
  <2> SUFFICES ASSUME p.aof = "on", ~p.orphan, NEW k \in p.synced..Len(p.file)
               PROVE  Earlier(Replayed(SubSeq(p.file, 1, k)).data, p.data)
    BY DEF AofPrefix
  <2>1. PICK n \in Nat : Good(p, n)
    BY <1>1, BudgetsType DEF PersistenceInv
  <2>2. PICK f \in Files(n), b \in Files(n) : f = p.file /\ b = p.buf /\ p.synced \in Nat
    BY <2>1 DEF Good, Servers
  <2>3. Tells(Cat(f, b), p.synced, p.data, p.sel)
    BY <2>1, <2>2 DEF Good, Logs, Told, From
  <2>4. Len(f) \in Nat /\ Len(f) <= Len(Cat(f, b)) /\ Len(Cat(f, b)) \in Nat
    BY FilesConcat
  <2>5. k \in 0..Len(f) /\ k \in p.synced..Len(Cat(f, b))
    BY <2>2, <2>4
  <2>6. SubSeq(Cat(f, b), 1, k) = SubSeq(f, 1, k)
    BY <2>5, PrefixType DEF Files, Cat
  <2> QED BY <2>2, <2>3, <2>5, <2>6 DEF Tells
<1> QED BY <1>1, PersistenceInvHolds, PTL

(* A write that was acknowledged is in the part of the AOF that survives a crash or a *)
(* SHUTDOWN: of the machine with appendfsync always, of the process with the other    *)
(* policies (flushAppendOnlyFile, beforeSleep, prepareForShutdown).                   *)
THEOREM AckDurableHolds == Spec => []AckDurable
<1>1. PersistenceInv => AckDurable
  BY DEF PersistenceInv, Good, Durable, Lasts, AckDurable, Survives
<1> QED BY <1>1, PersistenceInvHolds, PTL
===================================================================================
