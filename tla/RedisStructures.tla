-------------------------- MODULE RedisStructures --------------------------
(* The building blocks of Redis, each driven by any sequence of its operations:  *)
(* the hash table of the key space and of big sets and hashes (dict.c), the      *)
(* ziplist of small values (ziplist.c), the chain of ziplists of a list          *)
(* (quicklist.c), the skiplist and the ziplist of a sorted set (t_zset.c), the   *)
(* integers of a small set (intset.c), the sparse and dense registers of a       *)
(* cardinality estimate (hyperloglog.c), the subscriptions (pubsub.c), and the   *)
(* buffers of a connection (networking.c).                                       *)
(* They share nothing, so a behaviour follows one of them; the others are absent.*)
EXTENDS RedisDict, RedisSkiplist, RedisZiplist, RedisQuicklist, RedisHyperloglog,
        RedisIntset, RedisPubsub, RedisNetworking

CONSTANT Parts   \* the structures to follow

VARIABLE part

vars == <<part, d, z, zl, q, hll, is, ps, n>>

Absent == <<>>

Init ==
  /\ part \in Parts
  /\ IF part = "dict" THEN DictInit ELSE d = Absent
  /\ IF part = "skiplist" THEN SkiplistInit ELSE z = Absent
  /\ IF part = "ziplist" THEN ZiplistInit ELSE zl = Absent
  /\ IF part = "quicklist" THEN QuicklistInit ELSE q = Absent
  /\ IF part = "hyperloglog" THEN HyperloglogInit ELSE hll = Absent
  /\ IF part = "intset" THEN IntsetInit ELSE is = Absent
  /\ IF part = "pubsub" THEN PubsubInit ELSE ps = Absent
  /\ IF part = "networking" THEN NetworkingInit ELSE n = Absent

Next ==
  \/ part = "dict" /\ DictNext /\ UNCHANGED <<part, z, zl, q, hll, is, ps, n>>
  \/ part = "skiplist" /\ SkiplistNext /\ UNCHANGED <<part, d, zl, q, hll, is, ps, n>>
  \/ part = "ziplist" /\ ZiplistNext /\ UNCHANGED <<part, d, z, q, hll, is, ps, n>>
  \/ part = "quicklist" /\ QuicklistNext /\ UNCHANGED <<part, d, z, zl, hll, is, ps, n>>
  \/ part = "hyperloglog" /\ HyperloglogNext /\ UNCHANGED <<part, d, z, zl, q, is, ps, n>>
  \/ part = "intset" /\ IntsetNext /\ UNCHANGED <<part, d, z, zl, q, hll, ps, n>>
  \/ part = "pubsub" /\ PubsubNext /\ UNCHANGED <<part, d, z, zl, q, hll, is, n>>
  \/ part = "networking" /\ NetworkingNext /\ UNCHANGED <<part, d, z, zl, q, hll, is, ps>>

Spec == Init /\ [][Next]_vars

-----------------------------------------------------------------------------
(* A complete scan has returned every key that was there from its first call to its  *)
(* last, as dict.c:777 promises, whatever grew, shrank or was rehashed in between.   *)
(* The code does not keep it: see TraversalComplete for what it does keep.           *)
ScanComplete ==
  part = "dict" /\ "scan" \in d.done /\ ~d.scan.on => d.scan.stable \subseteq d.scan.seen

(* A complete scan has returned every key that was there from its first call to its  *)
(* last, but for those in the buckets that a call during a rehash to a table at      *)
(* least four times smaller passed over (dictScan); a safe iterator has returned     *)
(* every such key exactly once (dictNext), whatever grew, shrank or was rehashed in  *)
(* between; a random key may be any of the keys, at every moment of a rehash         *)
(* (dictGetRandomKey).                                                               *)
TraversalComplete ==
  part = "dict" =>
    /\ dictGetRandomKey(d) = d.keys
    /\ "scan" \in d.done /\ ~d.scan.on => d.scan.stable \subseteq d.scan.seen \cup d.scan.missed
    /\ "iterator" \in d.done /\ ~d.it.on =>
         \A k \in d.it.stable : Cardinality({i \in DOMAIN d.it.got : d.it.got[i] = k}) = 1

(* After any sequence of insertions, score changes, deletions by score, element or   *)
(* rank and conversions, with any random levels, spans and pointers answer every     *)
(* rank and range query as the sorted sequence does, backwards as forwards, and the  *)
(* ziplist answers the same (zslInsert, zslDeleteNode, zslGetRank, zslFirstInRange). *)
RanksAgree ==
  part = "skiplist" =>
    \A sorted \in {Sorted} :
    /\ z.zzl = sorted /\ ToZiplist(z.zsl) = sorted
    /\ \A i \in 1..Len(sorted) :
         LET p == sorted[i] IN
         /\ zslGetRank(z.zsl, p[1], p[2]) = i /\ zslGetElementByRank(z.zsl, i) = p[2]
         /\ z.zsl.back[p[2]] = IF i = 1 THEN Nil ELSE sorted[i - 1][2]
    /\ z.zsl.tail = IF z.elems = {} THEN Nil ELSE Last(sorted)[2]
    /\ \A lex \in BOOLEAN : (lex => SameScore) => \A g \in Ranges(lex) :
         LET hits == SelectSeq(sorted, LAMBDA p : p \in InRange(g, lex)) IN
         /\ zslFirstInRange(z.zsl, g, lex) = IF hits = <<>> THEN Nil ELSE Head(hits)[2]
         /\ zslLastInRange(z.zsl, g, lex) = IF hits = <<>> THEN Nil ELSE Last(hits)[2]
         /\ Place(zzlFirstInRange(z.zzl, g, lex)) = IF hits = <<>> THEN Nil ELSE Head(hits)[2]
         /\ Place(zzlLastInRange(z.zzl, g, lex)) = IF hits = <<>> THEN Nil ELSE Last(hits)[2]

(* After any sequence of insertions, deletions and merges the list reads the same in *)
(* both directions and as what was put in: every prevlen field holds the length of   *)
(* the entry before it and is wide enough for it, the header's size and tail offset  *)
(* fit the entries (ziplistCascadeUpdate).  The exception is a list that was torn,    *)
(* by an insertion of two or three bytes in front of an entry whose prevlen field     *)
(* shrinks by four (ziplist.c:624-634).                                              *)
ZiplistReads ==
  part = "ziplist" /\ ~IsTorn(zl) =>
    LET count == Len(zl.es) IN
    /\ [i \in 1..count |-> zl.es[i].val] = zl.vals
    /\ \A i \in 1..count :
         LET e == zl.es[i] IN
         /\ e.plen = IF i = 1 THEN 0 ELSE zipRawEntryLength(zl.es[i - 1])
         /\ zipPrevEncodeLength(e.plen) <= e.psize
    /\ zl.bytes = HEADER_SIZE + Sizes(zl.es) + END_SIZE
    /\ count = 0 => zl.tail = HEADER_SIZE
    /\ \A k \in 1..count : ziplistIndexFromTail(zl, k) = Offset(zl.es, count + 1 - k)
    /\ zl.len < ZipLenMax => zl.len = count

(* Whatever pushes, pops, inserts, trims and removals did to the chain (nodes split,  *)
(* merged, compressed and brought back), the list reads as the values put in, its     *)
(* count is right and no node is empty; the nodes at the ends are plain, and no       *)
(* ziplist call meets compressed bytes, unless such a node was compressed because     *)
(* its recompress flag was still set (quicklist.c:334-340).                           *)
QuicklistReads ==
  part = "quicklist" =>
    /\ q.dead # "compressed"
    /\ \A i \in Ends(q.nodes) : q.nodes[i].lzf => q.nodes[i].forced
    /\ FlattenSeq([i \in DOMAIN q.nodes |-> q.nodes[i].v]) = q.vals
    /\ q.count = Len(q.vals)
    /\ \A i \in DOMAIN q.nodes : q.nodes[i].v # <<>>

(* Whichever representation a value went through, each register holds the largest     *)
(* count added to it, the sparse form obeys its limits, and a cached cardinality is    *)
(* the one the registers give.                                                        *)
HllAgrees ==
  part = "hyperloglog" =>
    \A k \in HKeys : LET h == hll[k] IN h.enc # "none" =>
      /\ LET regs == IF h.enc = "dense" THEN h.regs ELSE Decode(h.ops) IN
           /\ Len(regs) = HLL_REGISTERS
           /\ \A r \in Registers : regs[r] = h.most[r]
           /\ h.card # <<>> => h.card = hllDenseSum(regs)
      /\ \A i \in DOMAIN h.ops :
           h.ops[i].len \in 1..(CASE h.ops[i].op = "val" -> HLL_SPARSE_VAL_MAX_LEN
                                  [] h.ops[i].op = "zero" -> HLL_SPARSE_ZERO_MAX_LEN
                                  [] OTHER -> HLL_SPARSE_XZERO_MAX_LEN)

(* The bytes read as the values of the set, in order and once each, a search finds   *)
(* exactly those, and the blob has no spare byte, however it was upgraded.           *)
IntsetHolds ==
  part = "intset" =>
    /\ {intsetGet(is, i) : i \in 0..(is.length - 1)} = is.set
    /\ \A i \in 1..(is.length - 1) : intsetGet(is, i - 1) < intsetGet(is, i)
    /\ \A v \in IntValues : intsetFind(is, v) <=> v \in is.set
    /\ Len(is.contents) = is.length * is.enc

(* A client gets a message exactly once for each subscription confirmed to it and    *)
(* not withdrawn before the message was published, whatever other clients do; the    *)
(* last number it was told is the number it has; it is bound to Pub/Sub commands as  *)
(* long as, and no longer than, it has one (processCommand tests CLIENT_PUBSUB).     *)
PubsubDelivers ==
  part = "pubsub" =>
    \A c \in Subscribers :
      LET got(m) == SelectSeq(ps.inbox[c], LAMBDA e : e[1] \in {"message", "pmessage"} /\ e[3] = m)
          told == SelectSeq(ps.inbox[c], LAMBDA e : e[1] \notin {"message", "pmessage"})
      IN /\ \A m \in DOMAIN ps.log :
              ToSet(got(m)) = Expected(c, m) /\ Len(got(m)) = Cardinality(Expected(c, m))
         /\ c \notin ps.gone =>
              /\ told # <<>> => Last(told)[3] = clientSubscriptionsCount(ps, c)
              /\ c \in ps.flag <=> clientSubscriptionsCount(ps, c) > 0

(* However requests and replies are cut into pieces, commands run once, in the order *)
(* they were sent; the client reads exactly the replies it did not refuse, in that   *)
(* order; a reply is never left without a handler to write it; nothing stays in the  *)
(* input buffer when a block or a pause ends; a freed client is in no queue.         *)
RepliesInOrder ==
  part = "networking" =>
    LET due == IF Flagged(n, "blocked") THEN Front(n.done) ELSE n.done
        all == n.got \o Out(n)
    IN /\ IsPrefix(n.done, Commands(n.stream))
       /\ n.alive => all \in {Replies(due), Replies(due) \o Complaint}
       /\ ~n.alive => IsPrefix(n.got, Replies(n.done) \o Complaint) /\ n.queued = 0
       /\ clientHasPendingReplies(n) => Flagged(n, "pending") \/ n.handler
       /\ AllDone => n.done = Commands(n.stream)
=============================================================================
