--------------------------- MODULE RedisElectionProofs ---------------------------
(* Proof that Sentinels which know each other elect at most one leader with a        *)
(* failover epoch by votes of this epoch.  What a Sentinel voted is said by itself,  *)
(* by its answers under way and by what its peers remember of them.  All of them     *)
(* agree, none is ahead of its vote, and since it votes once in an epoch             *)
(* (RedisSentinelProofs), what a majority once said about an epoch is never          *)
(* contradicted, although each part of it may be forgotten.                          *)
EXTENDS RedisSentinelProofs, FiniteSetTheorems

(* The scenarios of the theorem: the Sentinels know each other from the start, and    *)
(* are never told to forget each other.  (After SENTINEL RESET a Sentinel that knows  *)
(* no other is a majority of its own.)                                                *)
Settled ==
  \A c \in Scenarios :
    /\ ~c.strangers
    /\ "script" \in DOMAIN c.left
    /\ \A k \in c.left.script : k.op \notin {"reset", "remove"}

(* Some part of the system says that Sentinel t voted for l in epoch e. *)
Says(t, e, l) ==
  \/ t \in DOMAIN se /\ se[t].m.leader = l /\ se[t].m.lepoch = e
  \/ \E s \in DOMAIN se : /\ t \in DOMAIN se[s].peers
                          /\ se[s].peers[t].leader = l /\ se[s].peers[t].lepoch = e
  \/ \E m \in net : m.type = "reply" /\ m.from = t /\ m.leader = l /\ m.epoch = e

(* A Sentinel knows the others by their addresses, in memory and in its file. *)
Acquainted(x) ==
  /\ {"me", "peers", "conf", "out"} \subseteq DOMAIN x
  /\ \A t \in DOMAIN x.peers : /\ {"addr", "leader", "lepoch"} \subseteq DOMAIN x.peers[t]
                               /\ x.peers[t].addr = t
  /\ x.conf.me = x.me /\ x.conf.self = x.me
  /\ x.conf.peers = [t \in DOMAIN x.peers |-> t]

KnownInv ==
  \A s \in DOMAIN se : /\ Acquainted(se[s]) /\ se[s].me = s /\ se[s].out = {}
                       /\ DOMAIN se[s].peers = DOMAIN se \ {s}
                       /\ se[s].m.addr # None

(* Answers and hellos come from the Sentinels they name. *)
OriginOK(m, S) ==
  /\ m.type = "reply" => m.from \in S
  /\ m.type = "hello" => m.from \in S /\ m.addr = m.from /\ m.to # m.from

SettledInv ==
  /\ IsFiniteSet(DOMAIN se) /\ None \notin DOMAIN se
  /\ "script" \in DOMAIN left
  /\ \A c \in left.script : c.op \notin {"reset", "remove"}
  /\ \A m \in net : OriginOK(m, DOMAIN se)

(* What is said of a vote is not contradicted, and the vote was given. *)
ClaimInv ==
  /\ \A t, e, l, k : Says(t, e, l) /\ Says(t, e, k) /\ l # None /\ k # None => l = k
  /\ \A t, e, l : Says(t, e, l) /\ l # None => t \in DOMAIN se /\ e \in Nat /\ e <= se[t].m.lepoch

(* The Sentinels in Q voted, in epoch e, for nobody but l. *)
Behind(Q, e, l) ==
  /\ Q \subseteq DOMAIN se
  /\ 2 * Cardinality(Q) > Cardinality(DOMAIN se)
  /\ \A t \in Q : e <= se[t].m.lepoch /\ \A k : Says(t, e, k) /\ k # None => k = l

ElectedInv ==
  \A w \in won : /\ w = [leader |-> w.leader, failover |-> w.failover, votes |-> w.votes]
                 /\ w.leader # None /\ w.failover \in Nat
                 /\ w.votes = w.failover => \E Q : Behind(Q, w.failover, w.leader)

ElectionInv ==
  SentinelInv /\ KnownInv /\ SettledInv /\ ClaimInv /\ ElectedInv /\ LeaderUnique

--------------------------------------------------------------------------------
(* What a handler other than those of the questions and answers does: it knows the    *)
(* same Sentinels, forgets some of their votes, and answers nothing.                  *)
SaysLess(p, q) == q.leader = None \/ (q.leader = p.leader /\ q.lepoch = p.lepoch)

Quietly(x, y) ==
  /\ y.me = x.me /\ DOMAIN y.peers = DOMAIN x.peers
  /\ \A t \in DOMAIN x.peers : SaysLess(x.peers[t], y.peers[t])
  /\ \A m \in y.out : \/ m \in x.out
                      \/ m.type \notin {"reply", "hello"}
                      \/ m.type = "hello" /\ m.from = x.me /\ m.addr = x.me /\ m.to # x.me

Tame(x, y) == Acquainted(y) /\ Quietly(x, y)

(* Nothing the proof looks at changes. *)
Same(x, y) ==
  /\ {"me", "peers", "conf", "out"} \subseteq DOMAIN y
  /\ y.me = x.me /\ y.peers = x.peers /\ y.conf = x.conf /\ y.out = x.out

(* Handlers called one after the other. *)
LEMMA TameTrans ==
  ASSUME NEW x, NEW y, NEW z, Tame(x, y), Tame(y, z)
  PROVE  Tame(x, z)
BY DEF Tame, Quietly, SaysLess

(* A handler that changes nothing of it. *)
LEMMA SameTame ==
  ASSUME NEW x, NEW y, Acquainted(x), Same(x, y)
  PROVE  Tame(x, y)
BY DEF Tame, Quietly, SaysLess, Acquainted, Same

(* Doing nothing. *)
LEMMA TameRefl ==
  ASSUME NEW x, Acquainted(x)
  PROVE  Tame(x, x)
BY DEF Tame, Quietly, SaysLess

(* Messages other than answers leave. *)
LEMMA SendTame ==
  ASSUME NEW x, NEW M, Acquainted(x), \A m \in M : m.type \notin {"reply", "hello"}
  PROVE  Tame(x, Send(x, M))
<1> DEFINE y == Send(x, M)
<1>1. /\ {"me", "peers", "conf", "out"} \subseteq DOMAIN y
      /\ y.me = x.me /\ y.peers = x.peers /\ y.conf = x.conf /\ y.out = x.out \cup M
  BY DEF Send, Acquainted
<1> HIDE DEF y
<1> QED
  BY <1>1 DEF Tame, Quietly, SaysLess, Acquainted, y

(* SLAVEOF is sent. *)
LEMMA SlaveOfTame ==
  ASSUME NEW x, NEW a, NEW host, Acquainted(x)
  PROVE  Tame(x, sentinelSendSlaveOf(x, a, host))
BY SendTame DEF sentinelSendSlaveOf

(* The file names the Sentinels that are known. *)
LEMMA FlushTame ==
  ASSUME NEW x, Acquainted(x)
  PROVE  Tame(x, sentinelFlushConfig(x))
<1> DEFINE y == sentinelFlushConfig(x)
           c == rewriteConfigSentinelOption(x)
<1>1. /\ {"me", "peers", "conf", "out"} \subseteq DOMAIN y
      /\ y.me = x.me /\ y.peers = x.peers /\ y.conf = c /\ y.out = x.out
  BY DEF sentinelFlushConfig, Acquainted
<1>2. c.me = x.me /\ c.self = x.conf.self /\ c.peers = [t \in DOMAIN x.peers |-> x.peers[t].addr]
  BY DEF rewriteConfigSentinelOption
<1> HIDE DEF y, c
<1>3. c.peers = [t \in DOMAIN x.peers |-> t]
  BY <1>2 DEF Acquainted
<1> QED
  BY <1>1, <1>2, <1>3 DEF Tame, Quietly, SaysLess, Acquainted, y

(* Flags, of the master and of the slaves. *)
LEMMA MarkTame ==
  ASSUME NEW x, NEW on, NEW off, NEW A, Acquainted(x)
  PROVE  /\ Tame(x, Mark(x, on, off)) /\ Tame(x, MarkSlaves(x, A, on, off))
         /\ Tame(x, MarkSlave(x, A, on, off))
<1>1. Same(x, Mark(x, on, off))
  BY DEF Same, Mark, Acquainted
<1>2. \A B : Same(x, MarkSlaves(x, B, on, off))
  BY DEF Same, MarkSlaves, Acquainted
<1> QED
  BY <1>1, <1>2, SameTame DEF MarkSlave

(* A vote. *)
LEMMA VoteTame ==
  ASSUME NEW x, NEW e, NEW id, Acquainted(x)
  PROVE  Tame(x, sentinelVoteLeader(x, e, id))
<1>1. ASSUME NEW y, Acquainted(y)
      PROVE  Tame(y, Vote(y, e, id))
  <2> DEFINE z == [y EXCEPT !.m.leader = id, !.m.lepoch = y.epoch,
                            !.m.start = IF id # y.me THEN "new" ELSE @]
  <2>1. Same(y, z)
    BY <1>1 DEF Same, Acquainted
  <2>2. Vote(y, e, id) = y \/ Vote(y, e, id) = sentinelFlushConfig(z)
    BY DEF Vote
  <2> HIDE DEF z
  <2>3. Tame(y, z) /\ Tame(z, sentinelFlushConfig(z))
    BY <1>1, <2>1, SameTame, FlushTame DEF Tame
  <2> QED
    BY <1>1, <2>2, <2>3, TameTrans, TameRefl
<1> DEFINE w == [x EXCEPT !.epoch = e]
           v == IF e > x.epoch THEN sentinelFlushConfig(w) ELSE x
<1>2. Same(x, w)
  BY DEF Same, Acquainted
<1> HIDE DEF w
<1>3. Tame(x, v)
  BY <1>2, SameTame, FlushTame, TameTrans, TameRefl DEF Tame
<1>4. sentinelVoteLeader(x, e, id) = Vote(v, e, id)
  BY DEF sentinelVoteLeader, w
<1> HIDE DEF v
<1> QED
  BY <1>1, <1>3, <1>4, TameTrans DEF Tame

(* The end of a failover that is given up. *)
LEMMA AbortTame ==
  ASSUME NEW x, Acquainted(x)
  PROVE  Tame(x, sentinelAbortFailover(x))
<1> DEFINE w == [x EXCEPT !.m.fstate = NoFailover, !.m.slow = FALSE, !.m.promoted = None]
           y == Mark(w, {}, {"progress", "force"})
<1>1. Same(x, w)
  BY DEF Same, Acquainted
<1>2. sentinelAbortFailover(x) \in {y, MarkSlave(y, x.m.promoted, {}, {"promoted"})}
  BY DEF sentinelAbortFailover
<1> HIDE DEF w
<1>3. Tame(x, w) /\ Tame(w, y)
  BY <1>1, SameTame, MarkTame DEF Tame
<1> HIDE DEF y
<1>4. Tame(x, y) /\ Tame(y, MarkSlave(y, x.m.promoted, {}, {"promoted"}))
  BY <1>3, TameTrans, MarkTame DEF Tame
<1> QED
  BY <1>2, <1>4, TameTrans

(* The start of a failover. *)
LEMMA StartTame ==
  ASSUME NEW x, Acquainted(x)
  PROVE  Tame(x, sentinelStartFailover(x))
<1> DEFINE w == [x EXCEPT !.m.fstate = WaitStart, !.epoch = @ + 1, !.m.fepoch = x.epoch + 1,
                          !.m.start = "new", !.m.slow = FALSE]
<1>1. Same(x, w)
  BY DEF Same, Acquainted
<1>2. sentinelStartFailover(x) = Mark(w, {"progress"}, {})
  BY DEF sentinelStartFailover
<1> HIDE DEF w
<1> QED
  BY <1>1, <1>2, SameTame, MarkTame, TameTrans DEF Tame

(* The election. *)
LEMMA WaitStartTame ==
  ASSUME NEW x, NEW tie, Acquainted(x)
  PROVE  /\ Tame(x, sentinelGetLeader(x, x.m.fepoch, tie).x)
         /\ Tame(x, sentinelFailoverWaitStart(x, tie))
<1> DEFINE r == sentinelGetLeader(x, x.m.fepoch, tie)
           y == r.x
           w == [y EXCEPT !.m.fstate = SelectSlave, !.m.slow = FALSE]
<1>1. \E id : y = sentinelVoteLeader(x, x.m.fepoch, id)
  BY DEF sentinelGetLeader
<1>2. sentinelFailoverWaitStart(x, tie) \in {y, sentinelAbortFailover(y), w}
  BY DEF sentinelFailoverWaitStart
<1> HIDE DEF r
<1> HIDE DEF y
<1>3. Tame(x, y) /\ Acquainted(y)
  BY <1>1, VoteTame DEF Tame
<1>4. Same(y, w)
  BY <1>3 DEF Same, Acquainted
<1> HIDE DEF w
<1> QED
  BY <1>2, <1>3, <1>4, SameTame, AbortTame, TameTrans DEF y, r

(* Slaves are told of their new master. *)
LEMMA TellTame ==
  ASSUME NEW x, NEW A, Acquainted(x)
  PROVE  Tame(x, TellSlaves(x, A))
<1> DEFINE y == MarkSlaves(x, A, {"sent"}, {})
           M == {[type |-> "slaveof", from |-> x.me, to |-> a, host |-> x.m.promoted] : a \in A}
<1>1. Tame(x, y)
  BY MarkTame
<1>2. \A m \in M : m.type \notin {"reply", "hello"}
  OBVIOUS
<1>3. TellSlaves(x, A) = Send(y, M)
  BY DEF TellSlaves
<1> HIDE DEF y, M
<1> QED
  BY <1>1, <1>2, <1>3, SendTame, TameTrans DEF Tame

(* The end of the reconfiguration. *)
LEMMA DetectEndTame ==
  ASSUME NEW x, Acquainted(x)
  PROVE  Tame(x, sentinelFailoverDetectEnd(x))
<1> DEFINE w == [x EXCEPT !.m.fstate = UpdateConfig]
<1>1. Same(x, w)
  BY DEF Same, Acquainted
<1>2. sentinelFailoverDetectEnd(x) = x \/ \E A : sentinelFailoverDetectEnd(x) = TellSlaves(w, A)
  BY DEF sentinelFailoverDetectEnd
<1> HIDE DEF w
<1> QED
  BY <1>1, <1>2, SameTame, TellTame, TameTrans, TameRefl DEF Tame

(* A round of the reconfiguration. *)
LEMMA ReconfTame ==
  ASSUME NEW x, Acquainted(x)
  PROVE  Tame(x, sentinelFailoverReconfNextSlave(x))
<1> DEFINE Again(t, R) == [t EXCEPT !.slaves = [a \in DOMAIN @ |->
                             IF a \in R THEN [@[a] EXCEPT !.sentOld = FALSE] ELSE @[a]]]
<1>1. \E A, B : sentinelFailoverReconfNextSlave(x) =
        sentinelFailoverDetectEnd(Again(TellSlaves(MarkSlaves(x, A, {"done"}, {"sent"}), B), B))
  BY DEF sentinelFailoverReconfNextSlave
<1>2. PICK A, B : sentinelFailoverReconfNextSlave(x) =
        sentinelFailoverDetectEnd(Again(TellSlaves(MarkSlaves(x, A, {"done"}, {"sent"}), B), B))
  BY <1>1
<1> DEFINE y == MarkSlaves(x, A, {"done"}, {"sent"})
           z == TellSlaves(y, B)
<1>3. Tame(x, y)
  BY MarkTame
<1> HIDE DEF y
<1>4. Tame(x, z)
  BY <1>3, TellTame, TameTrans DEF Tame
<1> HIDE DEF z
<1>5. Same(z, Again(z, B))
  BY <1>4 DEF Same, Acquainted, Tame
<1>6. sentinelFailoverReconfNextSlave(x) = sentinelFailoverDetectEnd(Again(z, B))
  BY <1>2 DEF z, y
<1> HIDE DEF Again
<1>7. Tame(x, Again(z, B))
  BY <1>4, <1>5, SameTame, TameTrans DEF Tame
<1> QED
  BY <1>6, <1>7, DetectEndTame, TameTrans DEF Tame

(* Every step of a failover. *)
LEMMA StateMachineTame ==
  ASSUME NEW x, NEW tie, Acquainted(x)
  PROVE  Tame(x, sentinelFailoverStateMachine(x, tie))
<1>1. Tame(x, sentinelFailoverSelectSlave(x))
  <2> DEFINE a == sentinelSelectSlave(x)
             w == [x EXCEPT !.m.promoted = a, !.m.fstate = SendSlaveofNoOne, !.m.slow = FALSE]
  <2>1. Same(x, w)
    BY DEF Same, Acquainted
  <2>2. sentinelFailoverSelectSlave(x) \in {sentinelAbortFailover(x), MarkSlave(w, a, {"promoted"}, {})}
    BY DEF sentinelFailoverSelectSlave
  <2> HIDE DEF w
  <2> QED
    BY <2>1, <2>2, SameTame, AbortTame, MarkTame, TameTrans DEF Tame
<1>2. Tame(x, sentinelFailoverSendSlaveOfNoOne(x))
  <2> DEFINE y == sentinelSendSlaveOf(x, x.m.promoted, None)
             w == [y EXCEPT !.m.fstate = WaitPromotion, !.m.slow = FALSE]
  <2>1. sentinelFailoverSendSlaveOfNoOne(x) \in {x, sentinelAbortFailover(x), w}
    BY DEF sentinelFailoverSendSlaveOfNoOne
  <2> HIDE DEF y
  <2>2. Tame(x, y)
    BY SlaveOfTame DEF y
  <2>3. Same(y, w)
    BY <2>2 DEF Same, Acquainted, Tame
  <2> HIDE DEF w
  <2> QED
    BY <2>1, <2>2, <2>3, SameTame, AbortTame, TameTrans, TameRefl DEF Tame
<1>3. Tame(x, sentinelFailoverWaitPromotion(x))
  BY AbortTame, TameRefl DEF sentinelFailoverWaitPromotion
<1> QED
  BY <1>1, <1>2, <1>3, WaitStartTame, ReconfTame, TameRefl DEF sentinelFailoverStateMachine

(* What is known of the other Sentinels may change, but for their addresses. *)
Relinked(x, y) ==
  /\ {"me", "peers", "conf", "out"} \subseteq DOMAIN y
  /\ y.me = x.me /\ y.conf = x.conf /\ y.out = x.out /\ DOMAIN y.peers = DOMAIN x.peers
  /\ \A t \in DOMAIN x.peers : /\ DOMAIN y.peers[t] = DOMAIN x.peers[t]
                               /\ y.peers[t].addr = x.peers[t].addr
                               /\ SaysLess(x.peers[t], y.peers[t])

(* Such a change is tame. *)
LEMMA RelinkedTame ==
  ASSUME NEW x, NEW y, Acquainted(x), Relinked(x, y)
  PROVE  Tame(x, y)
BY DEF Tame, Quietly, Acquainted, Relinked

(* The other Sentinels stay known when the address of the master changes. *)
LEMMA ChangeAddressTame ==
  ASSUME NEW x, NEW new, Acquainted(x)
  PROVE  Tame(x, sentinelResetMasterAndChangeAddress(x, new))
<1> DEFINE r == sentinelResetMaster(x, TRUE)
           S == (DOMAIN x.slaves \cup {x.m.addr}) \ {new}
           z == [r EXCEPT !.m.addr = new,
                          !.slaves = [a \in S |-> createSentinelRedisInstance("slave")]]
<1>1. Same(x, r)
  BY DEF Same, Acquainted, sentinelResetMaster
<1>2. sentinelResetMasterAndChangeAddress(x, new) = sentinelFlushConfig(z)
  BY DEF sentinelResetMasterAndChangeAddress
<1> HIDE DEF r
<1>3. Same(x, z)
  BY <1>1 DEF Same
<1> HIDE DEF z
<1> QED
  BY <1>2, <1>3, SameTame, FlushTame, TameTrans DEF Tame

(* Is the master down? *)
LEMMA DownTame ==
  ASSUME NEW x, Acquainted(x)
  PROVE  /\ Tame(x, [x EXCEPT !.mi = sentinelCheckSubjectivelyDown(@, TRUE)])
         /\ Tame(x, sentinelCheckObjectivelyDown(x))
<1>1. Same(x, [x EXCEPT !.mi = sentinelCheckSubjectivelyDown(@, TRUE)])
  BY DEF Same, Acquainted
<1> QED
  BY <1>1, SameTame, MarkTame DEF sentinelCheckObjectivelyDown

(* Asking forgets what the others said long ago, and sends questions. *)
LEMMA AskTame ==
  ASSUME NEW x, NEW A, Acquainted(x)
  PROVE  Tame(x, sentinelAskMasterStateToOtherSentinels(x, A))
<1> DEFINE F(p) == IF p.late THEN [p EXCEPT !.down = FALSE, !.leader = None] ELSE p
           old == [x EXCEPT !.peers = [t \in DOMAIN @ |-> F(@[t])]]
           Ask(t) == [type |-> "ask", from |-> x.me, to |-> t, addr |-> x.m.addr,
                      epoch |-> x.epoch, id |-> IF x.m.fstate > NoFailover THEN x.me ELSE None]
           M == {Ask(t) : t \in {p \in A : x.peers[p].link}}
<1>1. sentinelAskMasterStateToOtherSentinels(x, A) \in {old, Send(old, M)}
  BY DEF sentinelAskMasterStateToOtherSentinels
<1>2. \A p : {"addr", "leader", "lepoch"} \subseteq DOMAIN p =>
               DOMAIN F(p) = DOMAIN p /\ F(p).addr = p.addr /\ SaysLess(p, F(p))
  BY DEF SaysLess
<1>3. \A m \in M : m.type \notin {"reply", "hello"}
  OBVIOUS
<1> HIDE DEF M, F
<1>4. /\ {"me", "peers", "conf", "out"} \subseteq DOMAIN old
      /\ old.me = x.me /\ old.conf = x.conf /\ old.out = x.out
      /\ old.peers = [t \in DOMAIN x.peers |-> F(x.peers[t])]
  BY DEF Acquainted
<1> HIDE DEF old
<1>5. Relinked(x, old)
  BY <1>2, <1>4 DEF Relinked, Acquainted
<1>6. Tame(x, old)
  BY <1>5, RelinkedTame
<1> QED
  BY <1>1, <1>3, <1>6, SendTame, TameTrans DEF Tame

(* INFO. *)
LEMMA InfoTame ==
  ASSUME NEW x, NEW r, Acquainted(x)
  PROVE  Tame(x, sentinelRefreshInstanceInfo(x, r))
<1>1. Tame(x, InfoMaster(x, r))
  <2> DEFINE New == r.slaves \ DOMAIN x.slaves
             y == [x EXCEPT !.mi = Reported(@, r),
                     !.slaves = [a \in DOMAIN @ \cup New |->
                       IF a \in New THEN createSentinelRedisInstance("slave") ELSE @[a]]]
  <2>1. Same(x, y)
    BY DEF Same, Acquainted
  <2>2. InfoMaster(x, r) \in {y, sentinelFlushConfig(y)}
    BY DEF InfoMaster
  <2> HIDE DEF y
  <2> QED
    BY <2>1, <2>2, SameTame, FlushTame, TameTrans DEF Tame
<1>2. ASSUME NEW a
      PROVE  Tame(x, InfoOfSlave(x, a, r))
  <2> DEFINE y == [x EXCEPT !.slaves[a] = Reported(@, r)]
  <2>1. InfoOfSlave(x, a, r) \in {y, InfoPromoted(y, a), InfoSlave(y, a)}
    BY DEF InfoOfSlave
  <2>2. Same(x, y)
    BY DEF Same, Acquainted
  <2> HIDE DEF y
  <2>3. Tame(x, y) /\ Acquainted(y)
    BY <2>2, SameTame DEF Tame
  <2>4. Tame(y, InfoPromoted(y, a))
    <3> DEFINE z == [y EXCEPT !.m.cfg = y.m.fepoch, !.m.fstate = ReconfSlaves, !.m.slow = FALSE]
    <3>1. Same(y, z)
      BY <2>3 DEF Same, Acquainted
    <3>2. InfoPromoted(y, a) \in {y, sentinelFlushConfig(z), sentinelSendSlaveOf(y, a, y.m.addr)}
      BY DEF InfoPromoted
    <3> HIDE DEF z
    <3> QED
      BY <2>3, <3>1, <3>2, SameTame, FlushTame, SlaveOfTame, TameTrans, TameRefl DEF Tame
  <2>5. Tame(y, InfoSlave(y, a))
    <3> DEFINE fixed == IF /\ y.slaves[a].host # y.m.addr /\ sentinelMasterLooksSane(y)
                           /\ "sdown" \notin y.slaves[a].flags /\ y.slaves[a].confOld
                        THEN sentinelSendSlaveOf(y, a, y.m.addr) ELSE y
               Inprog(z) == IF SlaveHas(z, a, "sent") /\ y.slaves[a].host = z.m.promoted
                            THEN MarkSlave(z, a, {"inprog"}, {"sent"}) ELSE z
               Done(z) == IF SlaveHas(z, a, "inprog") /\ y.slaves[a].up
                          THEN MarkSlave(z, a, {"done"}, {"inprog"}) ELSE z
    <3>1. InfoSlave(y, a) = Done(Inprog(fixed))
      BY DEF InfoSlave
    <3>2. Tame(y, fixed)
      BY <2>3, SlaveOfTame, TameRefl
    <3>3. \A z : Acquainted(z) => Tame(z, Inprog(z)) /\ Tame(z, Done(z))
      BY MarkTame, TameRefl
    <3> HIDE DEF fixed, Inprog, Done
    <3>4. Tame(y, Inprog(fixed))
      BY <3>2, <3>3, TameTrans DEF Tame
    <3> QED
      BY <3>1, <3>3, <3>4, TameTrans DEF Tame
  <2> QED
    BY <2>1, <2>3, <2>4, <2>5, TameTrans
<1> QED
  BY <1>1, <1>2, TameRefl DEF sentinelRefreshInstanceInfo

(* A hello of a Sentinel that is known brings at most a new epoch and a new master. *)
LEMMA HelloTame ==
  ASSUME NEW x, NEW h, Acquainted(x), h.from \in DOMAIN x.peers, h.addr = h.from
  PROVE  Tame(x, sentinelProcessHelloMessage(x, h))
<1>1. HelloPeer(x, h) = x
  BY DEF HelloPeer, Acquainted
<1> DEFINE w == [x EXCEPT !.epoch = h.epoch]
           y == IF h.epoch > x.epoch THEN sentinelFlushConfig(w) ELSE x
           z == [y EXCEPT !.m.cfg = h.cfg]
<1>2. sentinelProcessHelloMessage(x, h) \in {x, y, z, sentinelResetMasterAndChangeAddress(z, h.master)}
  BY <1>1 DEF sentinelProcessHelloMessage
<1>3. Same(x, w)
  BY DEF Same, Acquainted
<1> HIDE DEF w
<1>4. Tame(x, y) /\ Acquainted(y)
  BY <1>3, SameTame, FlushTame, TameTrans, TameRefl DEF Tame
<1> HIDE DEF y
<1>5. Same(y, z)
  BY <1>4 DEF Same, Acquainted
<1> HIDE DEF z
<1>6. Tame(x, z) /\ Acquainted(z)
  BY <1>4, <1>5, SameTame, TameTrans DEF Tame
<1>7. Tame(x, sentinelResetMasterAndChangeAddress(z, h.master))
  BY <1>6, ChangeAddressTame, TameTrans
<1> QED
  BY <1>2, <1>4, <1>6, <1>7, TameRefl

--------------------------------------------------------------------------------
USE DEF None, NoFailover, WaitStart, SelectSlave, SendSlaveofNoOne, WaitPromotion, ReconfSlaves,
        UpdateConfig, Monitored, Is, SlaveHas

(* The Sentinels that voted for x when it won in epoch e: itself, if its own vote     *)
(* counts (in the state y it is in then), and its peers.                              *)
VotedFor(Q, x, y, e) ==
  /\ Q \subseteq DOMAIN x.peers \cup {x.me}
  /\ 2 * Cardinality(Q) > Cardinality(DOMAIN x.peers) + 1
  /\ \A t \in Q : IF t = x.me THEN y.m.leader = x.me /\ y.m.lepoch = e
                  ELSE x.peers[t].leader = x.me /\ x.peers[t].lepoch = x.epoch

(* Whoever sentinelGetLeader lets win has the votes of a majority. *)
LEMMA MajorityCounted ==
  ASSUME NEW x, NEW e, NEW tie, IsFiniteSet(DOMAIN x.peers), x.me \notin DOMAIN x.peers,
         x.me # None, sentinelGetLeader(x, e, tie).leader = x.me
  PROVE  \E Q : VotedFor(Q, x, sentinelGetLeader(x, e, tie).x, e)
<1> DEFINE P == {t \in DOMAIN x.peers : x.peers[t].leader = x.me /\ x.peers[t].lepoch = x.epoch}
           n == Cardinality(DOMAIN x.peers)
           Leaders == {x.peers[t].leader : t \in DOMAIN x.peers} \ {None}
           max == Max({0} \cup {sentinelLeaderIncr(x, l) : l \in Leaders})
           Best == {l \in Leaders : sentinelLeaderIncr(x, l) = max /\ max > 0}
           favourite == IF Best = {} THEN None
                        ELSE IF tie \in Best THEN tie ELSE CHOOSE l \in Best : TRUE
           y == sentinelVoteLeader(x, e, IF favourite = None THEN x.me ELSE favourite)
           mine == y.m.leader # None /\ y.m.lepoch = e
           votes == sentinelLeaderIncr(x, y.m.leader) + 1
           winner == IF mine /\ votes > max THEN y.m.leader ELSE favourite
           most == IF mine /\ votes > max THEN votes ELSE max
<1>1. sentinelGetLeader(x, e, tie) =
        [x |-> y, leader |-> IF most >= (n + 1) \div 2 + 1 /\ most >= x.m.quorum
                             THEN winner ELSE None]
  BY DEF sentinelGetLeader
<1>2. favourite # None => favourite \in Best
  OBVIOUS
<1>3. \A l \in Best : sentinelLeaderIncr(x, l) = max
  OBVIOUS
<1>4. sentinelLeaderIncr(x, x.me) = Cardinality(P)
  BY DEF sentinelLeaderIncr
<1>5. IsFiniteSet(P) /\ P \in SUBSET DOMAIN x.peers
  BY FS_Subset
<1>6. Cardinality(P) \in Nat /\ n \in Nat
  BY <1>5, FS_CardinalityType
<1>7. IsFiniteSet(P \cup {x.me}) /\ Cardinality(P \cup {x.me}) = Cardinality(P) + 1
  BY <1>5, FS_AddElement
<1>8. \A t \in P : x.peers[t].leader = x.me /\ x.peers[t].lepoch = x.epoch /\ t # x.me
  OBVIOUS
<1> HIDE DEF P, n, Leaders, max, Best, favourite, y
<1>9. most >= (n + 1) \div 2 + 1 /\ winner = x.me
  BY <1>1
<1>10. CASE mine /\ votes > max
  <2>1. y.m.leader = x.me /\ y.m.lepoch = e /\ Cardinality(P) + 1 >= (n + 1) \div 2 + 1
    BY <1>4, <1>9, <1>10
  <2>2. 2 * Cardinality(P \cup {x.me}) > n + 1
    BY <1>6, <1>7, <2>1
  <2>3. VotedFor(P \cup {x.me}, x, y, e)
    BY <1>5, <1>8, <2>1, <2>2 DEF VotedFor, n
  <2> QED
    BY <1>1, <2>3
<1>11. CASE ~(mine /\ votes > max)
  <2>1. favourite = x.me /\ max >= (n + 1) \div 2 + 1
    BY <1>9, <1>11
  <2>2. max = Cardinality(P)
    BY <1>2, <1>3, <1>4, <2>1
  <2>3. 2 * Cardinality(P) > n + 1
    BY <1>6, <2>1, <2>2
  <2>4. VotedFor(P, x, y, e)
    BY <1>5, <1>8, <2>3 DEF VotedFor, n
  <2> QED
    BY <1>1, <2>4
<1> QED
  BY <1>10, <1>11

(* A vote leaves the epoch of the failover alone. *)
LEMMA VoteEpoch ==
  ASSUME NEW x, NEW e, NEW id, Good(x)
  PROVE  sentinelVoteLeader(x, e, id).m.fepoch = x.m.fepoch
<1>1. ASSUME NEW y, {"m", "conf"} \subseteq DOMAIN y,
             {"fepoch", "leader", "lepoch", "start"} \subseteq DOMAIN y.m
      PROVE  Vote(y, e, id).m.fepoch = y.m.fepoch
  BY <1>1 DEF Vote, sentinelFlushConfig
<1> DEFINE w == [x EXCEPT !.epoch = e]
           v == IF e > x.epoch THEN sentinelFlushConfig(w) ELSE x
<1>2. {"m", "conf"} \subseteq DOMAIN v /\ v.m = x.m
  BY DEF sentinelFlushConfig, Good, Core, Shaped
<1>3. sentinelVoteLeader(x, e, id) = Vote(v, e, id)
  BY DEF sentinelVoteLeader
<1> HIDE DEF v
<1> QED
  BY <1>1, <1>2, <1>3 DEF Good, Core, Shaped

(* Nothing the election depends on changes. *)
Still(x, y) ==
  /\ y.me = x.me /\ y.m = x.m /\ y.epoch = x.epoch /\ DOMAIN y.peers = DOMAIN x.peers
  /\ \A t \in DOMAIN x.peers : /\ y.peers[t].leader = x.peers[t].leader
                               /\ y.peers[t].lepoch = x.peers[t].lepoch
  /\ \A f \in {"progress", "force"} : f \in y.mi.flags <=> f \in x.mi.flags

(* A failover that was waiting goes on: this Sentinel has been elected. *)
LEMMA ElectedByVotes ==
  ASSUME NEW x, NEW tie, Good(x), x.m.addr # None, x.m.fstate = WaitStart,
         "force" \notin x.mi.flags, IsFiniteSet(DOMAIN x.peers), x.me \notin DOMAIN x.peers,
         x.me # None
  PROVE  LET y == sentinelFailoverStateMachine(x, tie) IN
         /\ y.m.fstate # UpdateConfig
         /\ y.m.fstate = SelectSlave =>
              y.m.fepoch = x.m.fepoch /\ \E Q : VotedFor(Q, x, y, x.m.fepoch)
<1> DEFINE r == sentinelGetLeader(x, x.m.fepoch, tie)
           z == r.x
           a == sentinelAbortFailover(z)
           w == [z EXCEPT !.m.fstate = SelectSlave, !.m.slow = FALSE]
           y == sentinelFailoverStateMachine(x, tie)
<1>1. "progress" \in x.mi.flags
  BY DEF Good, Core, Promotion
<1>2. y \in {z, a} \/ (r.leader = x.me /\ y = w)
  BY <1>1 DEF sentinelFailoverStateMachine, sentinelFailoverWaitStart
<1>3. \E id : z = sentinelVoteLeader(x, x.m.fepoch, id)
  BY DEF sentinelGetLeader
<1>4. r.leader = x.me => \E Q : VotedFor(Q, x, z, x.m.fepoch)
  BY MajorityCounted
<1>5. Good(z) /\ z.m.fstate = WaitStart
  BY GetLeaderKeeps DEF Keeps, Good, Core, Counted
<1> HIDE DEF r, z, y
<1>6. z.m.fepoch = x.m.fepoch
  BY <1>3, VoteEpoch
<1>7. /\ w.m.fstate = SelectSlave /\ w.m.fepoch = z.m.fepoch
      /\ w.m.leader = z.m.leader /\ w.m.lepoch = z.m.lepoch
  BY <1>5 DEF Good, Core, Shaped
<1>8. a.m.fstate = NoFailover
  BY <1>5 DEF sentinelAbortFailover, Mark, MarkSlave, MarkSlaves, Good, Core, Shaped
<1> HIDE DEF w, a
<1>9. CASE y \in {z, a}
  BY <1>5, <1>8, <1>9 DEF y
<1>10. CASE r.leader = x.me /\ y = w
  <2>1. PICK Q : VotedFor(Q, x, z, x.m.fepoch)
    BY <1>4, <1>10
  <2>2. VotedFor(Q, x, y, x.m.fepoch)
    BY <1>7, <1>10, <2>1 DEF VotedFor
  <2> QED
    BY <1>6, <1>7, <1>10, <2>2 DEF y
<1> QED
  BY <1>2, <1>9, <1>10

(* Still is kept by one handler after the other. *)
LEMMA StillTrans ==
  ASSUME NEW x, NEW y, NEW z, Still(x, y), Still(y, z)
  PROVE  Still(x, z)
BY DEF Still

(* The timer's work for the master, with what it means to be elected in it. *)
LEMMA HandleMasterElects ==
  ASSUME NEW x, NEW A, NEW tie, Good(x), Acquainted(x), x.m.addr # None
  PROVE  LET y == HandleMaster(x, A, tie) IN
         /\ Tame(x, y)
         /\ (/\ x.m.fstate = WaitStart /\ "force" \notin x.mi.flags /\ x.me # None
             /\ IsFiniteSet(DOMAIN x.peers) /\ x.me \notin DOMAIN x.peers)
            => /\ y.m.fstate # UpdateConfig
               /\ y.m.fstate = SelectSlave =>
                    y.m.fepoch = x.m.fepoch /\ \E Q : VotedFor(Q, x, y, x.m.fepoch)
<1> DEFINE i == [x EXCEPT !.mi = sentinelCheckSubjectivelyDown(@, TRUE)]
           d == sentinelCheckObjectivelyDown(i)
           b == sentinelStartFailover(d)
           s == sentinelAskMasterStateToOtherSentinels(b, DOMAIN d.peers)
           t == IF MayStart(d) THEN s ELSE d
           f == sentinelFailoverStateMachine(t, tie)
           g == sentinelAskMasterStateToOtherSentinels(f, A)
<1>1. HandleMaster(x, A, tie) = g
  BY DEF HandleMaster, sentinelStartFailoverIfNeeded
<1>2. Good(i) /\ Tame(x, i) /\ Acquainted(i)
  BY SubjectivelyDownKeeps, DownTame DEF Keeps, Tame
<1>3. Still(x, i)
  <2>1. i.mi = sentinelCheckSubjectivelyDown(x.mi, TRUE)
    BY DEF Good, Core, Shaped
  <2>2. \A u \in {"progress", "force"} : u \in i.mi.flags <=> u \in x.mi.flags
    BY <2>1 DEF sentinelCheckSubjectivelyDown, Good, Core, Shaped
  <2> QED
    BY <2>2 DEF Still, Good, Core, Shaped, Acquainted
<1> HIDE DEF i
<1>4. Good(d) /\ Tame(i, d) /\ Acquainted(d) /\ d.m.addr # None
  <2>1. i.m.addr # None
    BY <1>3 DEF Still
  <2> QED
    BY <1>2, <2>1, ObjectivelyDownKeeps, DownTame DEF Keeps, Tame
<1>5. Still(i, d)
  <2>1. d \in {Mark(i, {"odown"}, {}), Mark(i, {}, {"odown"})}
    BY DEF sentinelCheckObjectivelyDown
  <2> QED
    BY <1>2, <2>1 DEF Still, Mark, Flagged, Good, Core, Shaped, Acquainted
<1> HIDE DEF d
<1>6. Tame(x, d) /\ Still(x, d)
  BY <1>2, <1>3, <1>4, <1>5, TameTrans, StillTrans
<1>7. Tame(d, t) /\ Acquainted(t)
  <2>1. Tame(d, b)
    BY <1>4, StartTame
  <2> HIDE DEF b
  <2>2. Tame(b, s)
    BY <2>1, AskTame DEF Tame
  <2> QED
    BY <1>4, <2>1, <2>2, TameTrans, TameRefl DEF Tame
<1>8. MayStart(d) => x.m.fstate # WaitStart
  <2>1. x.m.fstate = WaitStart => "progress" \in x.mi.flags
    BY DEF Good, Core, Promotion
  <2> QED
    BY <1>6, <2>1 DEF MayStart, Still
<1>9. x.m.fstate = WaitStart => t = d
  BY <1>8
<1> HIDE DEF t
<1>10. Tame(t, f) /\ Acquainted(f)
  BY <1>7, StateMachineTame DEF Tame
<1>11. Good(f) /\ (x.m.fstate = WaitStart => f = sentinelFailoverStateMachine(d, tie))
  <2>1. Good(t) /\ t.m.addr # None
    <3>1. CASE MayStart(d)
      <4>1. Keeps(d, b) /\ Good(b)
        BY <1>4, <3>1, StartKeeps DEF MayStart, Keeps
      <4> HIDE DEF b
      <4>2. Keeps(b, s)
        BY <4>1, AskKeeps
      <4> HIDE DEF s
      <4> QED
        BY <1>4, <3>1, <4>1, <4>2 DEF Keeps, t
    <3>2. CASE ~MayStart(d)
      BY <1>4, <3>2 DEF t
    <3> QED
      BY <3>1, <3>2
  <2> QED
    BY <1>9, <2>1, StateMachineKeeps DEF Keeps
<1> HIDE DEF f
<1>12. Tame(f, g)
  BY <1>10, AskTame
<1>13. g.m = f.m
  BY <1>11 DEF sentinelAskMasterStateToOtherSentinels, Send, Good, Core, Shaped
<1> HIDE DEF g
<1>14. Tame(x, g)
  BY <1>6, <1>7, <1>10, <1>12, TameTrans
<1>15. ASSUME x.m.fstate = WaitStart, "force" \notin x.mi.flags, x.me # None,
              IsFiniteSet(DOMAIN x.peers), x.me \notin DOMAIN x.peers
       PROVE  /\ g.m.fstate # UpdateConfig
              /\ g.m.fstate = SelectSlave =>
                   g.m.fepoch = x.m.fepoch /\ \E Q : VotedFor(Q, x, g, x.m.fepoch)
  <2>1. /\ d.m = x.m /\ "force" \notin d.mi.flags /\ d.me = x.me
        /\ DOMAIN d.peers = DOMAIN x.peers
    BY <1>6, <1>15 DEF Still
  <2>2. /\ f.m.fstate # UpdateConfig
        /\ f.m.fstate = SelectSlave =>
             f.m.fepoch = d.m.fepoch /\ \E Q : VotedFor(Q, d, f, d.m.fepoch)
    BY <1>4, <1>11, <1>15, <2>1, ElectedByVotes
  <2>3. \A Q : VotedFor(Q, d, f, d.m.fepoch) => VotedFor(Q, x, g, x.m.fepoch)
    BY <1>6, <1>13, <2>1 DEF VotedFor, Still
  <2> QED
    BY <1>13, <2>1, <2>2, <2>3
<1> QED
  BY <1>1, <1>14, <1>15

(* One call of sentinelTimer. *)
LEMMA TimerElects ==
  ASSUME NEW x, NEW L, NEW Peers, NEW A, NEW tie, NEW jump, Good(x), Acquainted(x)
  PROVE  LET y == sentinelTimer(x, L, Peers, A, tie, jump) IN
         /\ Tame(x, y)
         /\ (/\ x.m.fstate = WaitStart /\ "force" \notin x.mi.flags /\ x.me # None
             /\ IsFiniteSet(DOMAIN x.peers) /\ x.me \notin DOMAIN x.peers
             /\ y.m.fstate = SelectSlave)
            => y.m.fepoch = x.m.fepoch /\ \E Q : VotedFor(Q, x, y, x.m.fepoch)
<1> DEFINE j == sentinelCheckTiltCondition(x, jump)
           k == [j EXCEPT !.mi = sentinelReconnectInstance(@, j.m.addr \in L),
                   !.slaves = [a \in DOMAIN @ |-> sentinelReconnectInstance(@[a], a \in L)],
                   !.peers = [t \in DOMAIN @ |-> sentinelReconnectInstance(@[t], @[t].addr \in Peers)]]
           n == [k EXCEPT !.tilt = FALSE, !.tiltOld = FALSE]
           h == HandleMaster(n, A, tie)
           d == [h EXCEPT !.slaves = [a \in DOMAIN @ |-> sentinelCheckSubjectivelyDown(@[a], FALSE)]]
           w == sentinelFailoverSwitchToPromotedSlave(d)
           y == sentinelTimer(x, L, Peers, A, tie, jump)
<1>1. \/ y = j
      \/ j.m.addr # None /\ y = k
      \/ j.m.addr # None /\ y = IF d.m.fstate = UpdateConfig THEN w ELSE d
  BY DEF sentinelTimer, sentinelHandleDictOfRedisInstances
<1>2. Good(j) /\ Tame(x, j) /\ Acquainted(j) /\ Still(x, j)
  <2>1. Alike(x, j) /\ Same(x, j) /\ Still(x, j)
    BY DEF sentinelCheckTiltCondition, Alike, Same, Still, Good, Core, Shaped, Acquainted
  <2> HIDE DEF j
  <2> QED
    BY <2>1, AlikeKeeps, SameTame DEF Keeps, Tame
<1> HIDE DEF j
<1>3. Good(k) /\ Tame(j, k) /\ Acquainted(k) /\ Still(j, k)
  <2>1. /\ DOMAIN k = DOMAIN j /\ k.m = j.m /\ k.epoch = j.epoch /\ k.conf = j.conf /\ k.out = j.out
        /\ k.me = j.me
        /\ k.mi = sentinelReconnectInstance(j.mi, j.m.addr \in L)
        /\ k.slaves = [a \in DOMAIN j.slaves |-> sentinelReconnectInstance(j.slaves[a], a \in L)]
        /\ k.peers = [t \in DOMAIN j.peers |->
                        sentinelReconnectInstance(j.peers[t], j.peers[t].addr \in Peers)]
    BY <1>2 DEF Good, Core, Shaped, Acquainted
  <2>2. \A p, on : {"addr", "leader", "lepoch"} \subseteq DOMAIN p =>
          LET q == sentinelReconnectInstance(p, on) IN
          DOMAIN q = DOMAIN p /\ q.addr = p.addr /\ q.leader = p.leader /\ q.lepoch = p.lepoch
    BY DEF sentinelReconnectInstance
  <2>3. \A p, on : "flags" \in DOMAIN p =>
          LET q == sentinelReconnectInstance(p, on) IN DOMAIN q = DOMAIN p /\ q.flags = p.flags
    BY DEF sentinelReconnectInstance
  <2> HIDE DEF k
  <2>4. Alike(j, k)
    BY <1>2, <2>1, <2>3 DEF Alike, Good, Core, Shaped
  <2>5. Relinked(j, k)
    BY <1>2, <2>1, <2>2 DEF Relinked, SaysLess, Acquainted
  <2>6. Still(j, k)
    BY <1>2, <2>1, <2>2, <2>3 DEF Still, Acquainted, Good, Core, Shaped
  <2> QED
    BY <1>2, <2>4, <2>5, <2>6, AlikeKeeps, RelinkedTame DEF Keeps, Tame
<1> HIDE DEF k
<1>4. Good(n) /\ Tame(k, n) /\ Acquainted(n) /\ Still(k, n)
  <2>1. Alike(k, n) /\ Same(k, n) /\ Still(k, n)
    BY <1>3 DEF Alike, Same, Still, Good, Core, Shaped, Acquainted
  <2> HIDE DEF n
  <2> QED
    BY <1>3, <2>1, AlikeKeeps, SameTame DEF Keeps, Tame
<1> HIDE DEF n
<1>5. Tame(x, k) /\ Tame(x, n) /\ Still(x, n)
  BY <1>2, <1>3, <1>4, TameTrans, StillTrans
<1>6. CASE y = j
  BY <1>2, <1>6 DEF y, Still
<1>7. CASE y = k
  <2>1. k.m = x.m
    BY <1>2, <1>3 DEF Still
  <2> QED
    BY <1>5, <1>7, <2>1 DEF y
<1>8. CASE j.m.addr # None /\ y = IF d.m.fstate = UpdateConfig THEN w ELSE d
  <2>1. n.m.addr # None
    BY <1>3, <1>4, <1>8 DEF Still
  <2>2. /\ Tame(n, h) /\ Acquainted(h) /\ Good(h)
        /\ (/\ n.m.fstate = WaitStart /\ "force" \notin n.mi.flags /\ n.me # None
            /\ IsFiniteSet(DOMAIN n.peers) /\ n.me \notin DOMAIN n.peers)
           => /\ h.m.fstate # UpdateConfig
              /\ h.m.fstate = SelectSlave =>
                   h.m.fepoch = n.m.fepoch /\ \E Q : VotedFor(Q, n, h, n.m.fepoch)
    BY <1>4, <2>1, HandleMasterElects, HandleMasterKeeps DEF Keeps, Tame
  <2> HIDE DEF h
  <2>3. Same(h, d) /\ d.m = h.m
    BY <2>2 DEF Same, Acquainted, Good, Core, Shaped
  <2> HIDE DEF d
  <2>4. Tame(h, d) /\ Acquainted(d)
    BY <2>2, <2>3, SameTame DEF Tame
  <2>5. Tame(d, w)
    BY <2>4, ChangeAddressTame DEF sentinelFailoverSwitchToPromotedSlave
  <2> HIDE DEF w
  <2>6. Tame(x, d) /\ Tame(x, w)
    BY <1>5, <2>2, <2>4, <2>5, TameTrans
  <2>7. ASSUME x.m.fstate = WaitStart, "force" \notin x.mi.flags, x.me # None,
               IsFiniteSet(DOMAIN x.peers), x.me \notin DOMAIN x.peers, y.m.fstate = SelectSlave
        PROVE  y.m.fepoch = x.m.fepoch /\ \E Q : VotedFor(Q, x, y, x.m.fepoch)
    <3>1. /\ n.m = x.m /\ "force" \notin n.mi.flags /\ n.me = x.me
          /\ DOMAIN n.peers = DOMAIN x.peers
      BY <1>5, <2>7 DEF Still
    <3>2. /\ h.m.fstate # UpdateConfig
          /\ h.m.fstate = SelectSlave =>
               h.m.fepoch = n.m.fepoch /\ \E Q : VotedFor(Q, n, h, n.m.fepoch)
      BY <2>2, <2>7, <3>1
    <3>3. y.m = h.m
      BY <1>8, <2>3, <3>2
    <3>4. \A Q : VotedFor(Q, n, h, n.m.fepoch) => VotedFor(Q, x, y, x.m.fepoch)
      BY <1>5, <3>1, <3>3 DEF VotedFor, Still
    <3> QED
      BY <2>7, <3>1, <3>2, <3>3, <3>4
  <2> QED
    BY <1>8, <2>6, <2>7
<1> QED
  BY <1>1, <1>6, <1>7, <1>8

--------------------------------------------------------------------------------
(* Commands, but for those that forget the other Sentinels. *)
LEMMA CommandTame ==
  ASSUME NEW x, NEW c, Acquainted(x), x.m.addr # None, c.op \notin {"reset", "remove"}
  PROVE  Tame(x, sentinelCommand(x, c))
<1> DEFINE s == sentinelStartFailover(x)
           z == [x EXCEPT !.m.quorum = c.quorum]
<1>1. sentinelCommand(x, c) \in
        {x, Mark(s, {"force"}, {}), sentinelFlushConfig(z), sentinelFlushConfig(x)}
  BY DEF sentinelCommand
<1>2. Tame(x, s)
  BY StartTame
<1>3. Same(x, z)
  BY DEF Same, Acquainted
<1> HIDE DEF s, z
<1>4. Tame(x, Mark(s, {"force"}, {}))
  BY <1>2, MarkTame, TameTrans DEF Tame
<1>5. Tame(x, sentinelFlushConfig(z))
  BY <1>3, SameTame, FlushTame, TameTrans DEF Tame
<1> QED
  BY <1>1, <1>4, <1>5, FlushTame, TameRefl

(* Time passes: a vote may become old, and is the same vote. *)
LEMMA AgedTame ==
  ASSUME NEW x, NEW w \in Clocks, Acquainted(x)
  PROVE  Tame(x, Aged(x, w)) /\ Aged(x, w).out = x.out
<1> DEFINE y == Aged(x, w)
<1>1. CASE w = "votes"
  <2>1. /\ {"me", "peers", "conf", "out"} \subseteq DOMAIN y
        /\ y.me = x.me /\ y.conf = x.conf /\ y.out = x.out
        /\ y.peers = [t \in DOMAIN x.peers |-> [x.peers[t] EXCEPT !.late = TRUE]]
    BY <1>1 DEF Aged, Acquainted
  <2> HIDE DEF y
  <2>2. Relinked(x, y)
    BY <2>1 DEF Relinked, SaysLess, Acquainted
  <2> QED
    BY <2>1, <2>2, RelinkedTame DEF y
<1>2. CASE w # "votes"
  <2>1. Same(x, y)
    BY <1>2 DEF Aged, Same, Acquainted, Clocks
  <2> HIDE DEF y
  <2> QED
    BY <2>1, SameTame DEF Same, y
<1> QED
  BY <1>1, <1>2

(* A lost connection changes links only. *)
LEMMA ConnectionErrorTame ==
  ASSUME NEW x, NEW a, Acquainted(x)
  PROVE  LET y == instanceLinkConnectionError(x, a) IN Tame(x, y) /\ y.out = x.out
<1> DEFINE y == instanceLinkConnectionError(x, a)
<1>1. /\ {"me", "peers", "conf", "out"} \subseteq DOMAIN y
      /\ y.me = x.me /\ y.conf = x.conf /\ y.out = x.out
      /\ y.peers = [t \in DOMAIN x.peers |-> Cut(x.peers[t], t = a)]
  BY DEF instanceLinkConnectionError, Acquainted
<1>2. \A p, on : {"addr", "leader", "lepoch"} \subseteq DOMAIN p =>
        LET q == Cut(p, on) IN
        DOMAIN q = DOMAIN p /\ q.addr = p.addr /\ q.leader = p.leader /\ q.lepoch = p.lepoch
  BY DEF Cut
<1> HIDE DEF y
<1>3. Relinked(x, y)
  BY <1>1, <1>2 DEF Relinked, SaysLess, Acquainted
<1> QED
  BY <1>1, <1>3, RelinkedTame DEF y

(* A restart reads who the others are, and nothing of their votes. *)
LEMMA RestartTame ==
  ASSUME NEW c, NEW S, c.self = c.me, c.peers = [t \in S |-> t]
  PROVE  LET y == sentinelHandleConfiguration(c) IN
         /\ Acquainted(y) /\ y.me = c.me /\ DOMAIN y.peers = S /\ y.out = {}
         /\ \A t \in S : y.peers[t].leader = None
         /\ y.m.leader = None /\ y.m.addr = c.addr
<1> DEFINE y == sentinelHandleConfiguration(c)
<1>1. /\ {"me", "peers", "conf", "out"} \subseteq DOMAIN y
      /\ y.me = c.me /\ y.conf = c /\ y.out = {}
      /\ y.peers = [t \in S |-> [NewPeer EXCEPT !.addr = t]]
  BY DEF sentinelHandleConfiguration
<1>2. y.m.leader = None /\ y.m.addr = c.addr
  BY DEF sentinelHandleConfiguration, NewMaster
<1>3. \A t : LET p == [NewPeer EXCEPT !.addr = t] IN
        {"addr", "leader", "lepoch"} \subseteq DOMAIN p /\ p.addr = t /\ p.leader = None
  BY DEF NewPeer
<1> HIDE DEF y
<1> QED
  BY <1>1, <1>2, <1>3 DEF Acquainted, y

--------------------------------------------------------------------------------
(* The system.  A step is gentle if the Sentinels stay acquainted, forget votes or     *)
(* learn them from answers, and answers say what the Sentinel voted.                  *)
Learns(t, p, q) == SaysLess(p, q) \/ Says(t, q.lepoch, q.leader)

Answers(m, S, y) ==
  /\ OriginOK(m, S)
  /\ m.type = "reply" => m.leader = None \/ (m.epoch = y.m.lepoch /\ m.leader = y.m.leader)

GentleStep ==
  /\ \A s \in DOMAIN se : /\ Acquainted(se'[s]) /\ se'[s].me = se[s].me /\ se'[s].out = {}
                          /\ DOMAIN se'[s].peers = DOMAIN se[s].peers
                          /\ \A t \in DOMAIN se[s].peers : Learns(t, se[s].peers[t], se'[s].peers[t])
  /\ \A m \in net' : m \in net \/ Answers(m, DOMAIN se, se'[m.from])
  /\ "script" \in DOMAIN left' /\ left'.script \subseteq left.script

(* After a gentle step whatever is said of a vote was said before or is the new vote. *)
LEMMA GentleHonest ==
  ASSUME KnownInv, VoteStep, GentleStep, NEW t, NEW e, NEW l, l # None, Says(t, e, l)'
  PROVE  Says(t, e, l) \/ (t \in DOMAIN se /\ e = se'[t].m.lepoch /\ l = se'[t].m.leader)
<1>1. DOMAIN se' = DOMAIN se
  BY DEF VoteStep
<1>2. \/ t \in DOMAIN se' /\ se'[t].m.leader = l /\ se'[t].m.lepoch = e
      \/ \E s \in DOMAIN se' : /\ t \in DOMAIN se'[s].peers
                               /\ se'[s].peers[t].leader = l /\ se'[s].peers[t].lepoch = e
      \/ \E m \in net' : m.type = "reply" /\ m.from = t /\ m.leader = l /\ m.epoch = e
  BY DEF Says
<1>3. CASE t \in DOMAIN se' /\ se'[t].m.leader = l /\ se'[t].m.lepoch = e
  BY <1>1, <1>3
<1>4. CASE \E s \in DOMAIN se' : /\ t \in DOMAIN se'[s].peers
                                 /\ se'[s].peers[t].leader = l /\ se'[s].peers[t].lepoch = e
  <2>1. PICK s \in DOMAIN se' : /\ t \in DOMAIN se'[s].peers
                                /\ se'[s].peers[t].leader = l /\ se'[s].peers[t].lepoch = e
    BY <1>4
  <2>2. t \in DOMAIN se[s].peers /\ Learns(t, se[s].peers[t], se'[s].peers[t])
    BY <1>1, <2>1 DEF GentleStep
  <2>3. CASE SaysLess(se[s].peers[t], se'[s].peers[t])
    BY <1>1, <2>1, <2>2, <2>3 DEF SaysLess, Says
  <2>4. CASE Says(t, se'[s].peers[t].lepoch, se'[s].peers[t].leader)
    BY <2>1, <2>4
  <2> QED
    BY <2>2, <2>3, <2>4 DEF Learns
<1>5. CASE \E m \in net' : m.type = "reply" /\ m.from = t /\ m.leader = l /\ m.epoch = e
  <2>1. PICK m \in net' : m.type = "reply" /\ m.from = t /\ m.leader = l /\ m.epoch = e
    BY <1>5
  <2>2. CASE m \in net
    BY <2>1, <2>2 DEF Says
  <2>3. CASE Answers(m, DOMAIN se, se'[m.from])
    BY <2>1, <2>3 DEF Answers, OriginOK
  <2> QED
    BY <2>2, <2>3 DEF GentleStep
<1> QED
  BY <1>2, <1>3, <1>4, <1>5

(* The votes of the Sentinels, as numbers, and as they change. *)
LEMMA VotesMove ==
  ASSUME SentinelInv, SentinelInv', SettledInv, VoteStep, NEW t \in DOMAIN se
  PROVE  /\ se[t].m.lepoch \in Nat /\ se'[t].m.lepoch \in Nat
         /\ se[t].m.lepoch <= se'[t].m.lepoch
         /\ \/ se'[t].m.lepoch > se[t].m.lepoch
            \/ se'[t].m.lepoch = se[t].m.lepoch /\ se'[t].m.leader \in {se[t].m.leader, None}
         /\ se[t].m.addr # None => se'[t].m.addr # None
<1>1. se[t].m.lepoch \in Nat
  BY DEF SentinelInv, Good, Core, Counted
<1>2. se'[t].m.lepoch \in Nat
  BY DEF SentinelInv, Good, Core, Counted, VoteStep
<1>3. Tied(se[t], se'[t])
  BY DEF VoteStep, Removed, SettledInv
<1> QED
  BY <1>1, <1>2, <1>3 DEF Tied, Votes

(* A gentle step keeps the invariant, but for new elections. *)
LEMMA GentleKeeps ==
  ASSUME ElectionInv, SentinelInv', VoteStep, GentleStep
  PROVE  /\ KnownInv' /\ SettledInv' /\ ClaimInv'
         /\ \A Q, e, l : e \in Nat /\ Behind(Q, e, l) => Behind(Q, e, l)'
<1> USE DEF ElectionInv
<1>1. DOMAIN se' = DOMAIN se
  BY DEF VoteStep
<1>2. KnownInv'
  BY <1>1, VotesMove DEF KnownInv, GentleStep
<1>3. SettledInv'
  BY <1>1 DEF SettledInv, GentleStep, Answers
<1>4. ASSUME NEW t, NEW e, NEW l, l # None, Says(t, e, l)'
      PROVE  /\ t \in DOMAIN se /\ e \in Nat /\ e <= se'[t].m.lepoch
             /\ ~Says(t, e, l) => e > se[t].m.lepoch /\ l = se'[t].m.leader
  <2>1. CASE Says(t, e, l)
    <3>1. t \in DOMAIN se /\ e \in Nat /\ e <= se[t].m.lepoch
      BY <1>4, <2>1 DEF ClaimInv
    <3>2. se[t].m.lepoch <= se'[t].m.lepoch /\ se[t].m.lepoch \in Nat /\ se'[t].m.lepoch \in Nat
      BY <3>1, VotesMove
    <3> QED
      BY <2>1, <3>1, <3>2
  <2>2. CASE ~Says(t, e, l)
    <3>1. t \in DOMAIN se /\ e = se'[t].m.lepoch /\ l = se'[t].m.leader
      BY <1>4, <2>2, GentleHonest
    <3>2. ~(se[t].m.leader = l /\ se[t].m.lepoch = e)
      BY <2>2, <3>1 DEF Says
    <3>3. e \in Nat /\ e > se[t].m.lepoch
      BY <1>4, <3>1, <3>2, VotesMove
    <3> QED
      BY <3>1, <3>3
  <2> QED
    BY <2>1, <2>2
<1>5. ASSUME NEW t, NEW e, NEW l, NEW k, l # None, k # None, Says(t, e, l)', Says(t, e, k)'
      PROVE  l = k
  <2>1. CASE Says(t, e, l) /\ Says(t, e, k)
    BY <1>5, <2>1 DEF ClaimInv
  <2>2. CASE ~Says(t, e, l) /\ ~Says(t, e, k)
    BY <1>4, <1>5, <2>2
  <2>3. ASSUME NEW i, NEW j, i # None, j # None, Says(t, e, i), ~Says(t, e, j), Says(t, e, j)'
        PROVE  FALSE
    <3>1. t \in DOMAIN se /\ e \in Nat /\ e <= se[t].m.lepoch
      BY <2>3 DEF ClaimInv
    <3>2. e > se[t].m.lepoch
      BY <1>4, <2>3
    <3>3. se[t].m.lepoch \in Nat
      BY <3>1, VotesMove
    <3> QED
      BY <3>1, <3>2, <3>3
  <2> QED
    BY <1>5, <2>1, <2>2, <2>3
<1>6. ClaimInv'
  <2>1. ASSUME NEW t, NEW e, NEW l, l # None, Says(t, e, l)'
        PROVE  t \in DOMAIN se' /\ e \in Nat /\ e <= se'[t].m.lepoch
    BY <1>1, <1>4, <2>1
  <2> QED
    BY <1>5, <2>1 DEF ClaimInv
<1>7. ASSUME NEW Q, NEW e \in Nat, NEW l, Behind(Q, e, l)
      PROVE  Behind(Q, e, l)'
  <2>1. Q \subseteq DOMAIN se' /\ 2 * Cardinality(Q) > Cardinality(DOMAIN se')
    BY <1>1, <1>7 DEF Behind
  <2>2. ASSUME NEW t \in Q
        PROVE  e <= se'[t].m.lepoch
    <3>1. t \in DOMAIN se /\ e <= se[t].m.lepoch
      BY <1>7 DEF Behind
    <3> QED
      BY <3>1, VotesMove
  <2>3. ASSUME NEW t \in Q, NEW k, k # None, Says(t, e, k)'
        PROVE  k = l
    <3>1. t \in DOMAIN se /\ e <= se[t].m.lepoch /\ (Says(t, e, k) => k = l)
      BY <1>7, <2>3 DEF Behind
    <3>2. ~Says(t, e, k) => e > se[t].m.lepoch
      BY <1>4, <2>3
    <3>3. se[t].m.lepoch \in Nat
      BY <3>1, VotesMove
    <3> QED
      BY <3>1, <3>2, <3>3
  <2> QED
    BY <2>1, <2>2, <2>3 DEF Behind
<1> QED
  BY <1>2, <1>3, <1>6, <1>7

(* One Sentinel takes a step and its messages leave. *)
LEMMA BecomesGentle ==
  ASSUME KnownInv, NEW s \in DOMAIN se, NEW x, NEW gone, Becomes(s, x, gone), Good(x),
         Acquainted(x), x.me = s, DOMAIN x.peers = DOMAIN se[s].peers,
         \A t \in DOMAIN x.peers : Learns(t, se[s].peers[t], x.peers[t]),
         \A m \in x.out : Answers(m, DOMAIN se, x) /\ (m.type = "reply" => m.from = s),
         "script" \in DOMAIN left', left'.script \subseteq left.script
  PROVE  GentleStep
<1> DEFINE y == Quiet(x)
<1>1. /\ {"me", "peers", "conf", "out"} \subseteq DOMAIN y
      /\ y.me = x.me /\ y.peers = x.peers /\ y.conf = x.conf /\ y.out = {} /\ y.m = x.m
  BY DEF Quiet, Acquainted, Good, Core, Shaped
<1>2. se' = [se EXCEPT ![s] = y] /\ \A m \in net' : m \in net \/ m \in x.out
  BY DEF Becomes
<1> HIDE DEF y
<1>3. /\ DOMAIN se' = DOMAIN se
      /\ \A t \in DOMAIN se : se'[t] = IF t = s THEN y ELSE se[t]
  BY <1>2
<1>4. Acquainted(y)
  BY <1>1 DEF Acquainted
<1>5. \A t \in DOMAIN se[s].peers : Learns(t, se[s].peers[t], y.peers[t])
  BY <1>1
<1>6. \A u \in DOMAIN se : /\ Acquainted(se'[u]) /\ se'[u].me = se[u].me /\ se'[u].out = {}
                           /\ DOMAIN se'[u].peers = DOMAIN se[u].peers
                           /\ \A t \in DOMAIN se[u].peers : Learns(t, se[u].peers[t], se'[u].peers[t])
  <2> SUFFICES ASSUME NEW u \in DOMAIN se
               PROVE  /\ Acquainted(se'[u]) /\ se'[u].me = se[u].me /\ se'[u].out = {}
                      /\ DOMAIN se'[u].peers = DOMAIN se[u].peers
                      /\ \A t \in DOMAIN se[u].peers : Learns(t, se[u].peers[t], se'[u].peers[t])
    OBVIOUS
  <2>1. CASE u = s
    BY <1>1, <1>3, <1>4, <1>5, <2>1 DEF KnownInv
  <2>2. CASE u # s
    BY <1>3, <2>2 DEF KnownInv, Learns, SaysLess
  <2> QED
    BY <2>1, <2>2
<1>7. ASSUME NEW m \in net', m \notin net
      PROVE  Answers(m, DOMAIN se, se'[m.from])
  <2>1. Answers(m, DOMAIN se, x) /\ (m.type = "reply" => m.from = s)
    BY <1>2, <1>7
  <2> QED
    BY <1>1, <1>3, <2>1 DEF Answers
<1> QED
  BY <1>6, <1>7 DEF GentleStep

(* So it is when the Sentinel took part in no election. *)
LEMMA TameGentle ==
  ASSUME KnownInv, NEW s \in DOMAIN se, NEW x, NEW gone, Becomes(s, x, gone), Good(x),
         Tame(se[s], x), "script" \in DOMAIN left', left'.script \subseteq left.script
  PROVE  GentleStep
<1>1. Acquainted(x) /\ x.me = s /\ DOMAIN x.peers = DOMAIN se[s].peers
  BY DEF Tame, Quietly, KnownInv
<1>2. \A t \in DOMAIN x.peers : Learns(t, se[s].peers[t], x.peers[t])
  BY DEF Tame, Quietly, Learns
<1>3. ASSUME NEW m \in x.out
      PROVE  Answers(m, DOMAIN se, x) /\ (m.type = "reply" => m.from = s)
  <2>1. \/ m.type \notin {"reply", "hello"}
        \/ m.type = "hello" /\ m.from = s /\ m.addr = s /\ m.to # s
    BY DEF Tame, Quietly, KnownInv
  <2> QED
    BY <2>1 DEF Answers, OriginOK
<1> QED
  BY <1>1, <1>2, <1>3, BecomesGentle

(* Every Sentinel takes such a step; messages may be lost. *)
LEMMA AllGentle ==
  ASSUME KnownInv, \A s \in DOMAIN se : Tame(se[s], se'[s]) /\ se'[s].out = {},
         \A m \in net' : m \in net \/ m.type \notin {"reply", "hello"},
         "script" \in DOMAIN left', left'.script \subseteq left.script
  PROVE  GentleStep
BY DEF GentleStep, Tame, Quietly, Learns, KnownInv, Answers, OriginOK

(* A question is answered with the vote it brings about. *)
LEMMA AskGentle ==
  ASSUME ElectionInv, NEW m \in net, Deliver(m), m.type = "ask"
  PROVE  GentleStep
<1> DEFINE s == m.to
           x == se[s]
           here == Monitored(x) /\ m.addr = x.m.addr
           y == IF here /\ m.id # None THEN sentinelVoteLeader(x, m.epoch, m.id) ELSE x
           r == [type |-> "reply", from |-> x.me, to |-> m.from,
                 down |-> here /\ ~x.tilt /\ Is(x, "sdown"),
                 leader |-> IF here /\ m.id # None THEN y.m.leader ELSE None,
                 epoch |-> y.m.lepoch]
           z == Send(y, {r})
<1>1. Becomes(s, z, {m}) /\ s \in DOMAIN se /\ left' = left
  BY DEF Deliver, Handle, IsMasterDownByAddr, ElectionInv, SentinelInv
<1>2. Good(z)
  <2>1. MessageOK(m) /\ Good(x)
    BY <1>1 DEF ElectionInv, SentinelInv
  <2>2. z = IsMasterDownByAddr(x, m)
    BY DEF IsMasterDownByAddr
  <2> QED
    BY <2>1, <2>2, IsMasterDownKeeps DEF Keeps
<1>3. Acquainted(x) /\ x.me = s /\ x.out = {}
  BY <1>1 DEF ElectionInv, KnownInv
<1>4. r.type = "reply" /\ r.from = s /\ (r.leader = None \/ (r.epoch = y.m.lepoch /\ r.leader = y.m.leader))
  BY <1>3
<1>5. Tame(x, y)
  BY <1>3, VoteTame, TameRefl
<1> HIDE DEF y, r
<1>6. /\ {"me", "peers", "conf", "out"} \subseteq DOMAIN z
      /\ z.me = y.me /\ z.peers = y.peers /\ z.conf = y.conf /\ z.out = y.out \cup {r} /\ z.m = y.m
  <2>1. Acquainted(y) /\ "m" \in DOMAIN z
    BY <1>2, <1>5 DEF Tame, Good, Core, Shaped
  <2> QED
    BY <2>1 DEF Send, Acquainted
<1> HIDE DEF z
<1>7. Acquainted(z) /\ z.me = s /\ DOMAIN z.peers = DOMAIN se[s].peers
  BY <1>3, <1>5, <1>6 DEF Acquainted, Tame, Quietly
<1>8. \A t \in DOMAIN z.peers : Learns(t, se[s].peers[t], z.peers[t])
  BY <1>5, <1>6 DEF Tame, Quietly, Learns
<1>9. ASSUME NEW n \in z.out
      PROVE  Answers(n, DOMAIN se, z) /\ (n.type = "reply" => n.from = s)
  <2>1. CASE n = r
    BY <1>1, <1>4, <1>6, <2>1 DEF Answers, OriginOK
  <2>2. CASE n \in y.out
    <3>1. \/ n.type \notin {"reply", "hello"}
          \/ n.type = "hello" /\ n.from = s /\ n.addr = s /\ n.to # s
      BY <1>3, <1>5, <2>2 DEF Tame, Quietly
    <3> QED
      BY <1>1, <3>1 DEF Answers, OriginOK
  <2> QED
    BY <1>6, <2>1, <2>2
<1>10. "script" \in DOMAIN left' /\ left'.script \subseteq left.script
  BY <1>1 DEF ElectionInv, SettledInv
<1> HIDE DEF s
<1> QED
  BY <1>1, <1>2, <1>7, <1>8, <1>9, <1>10, BecomesGentle DEF ElectionInv

(* An answer is remembered as it was given. *)
LEMMA ReplyGentle ==
  ASSUME ElectionInv, NEW m \in net, Deliver(m), m.type = "reply"
  PROVE  GentleStep
<1> DEFINE s == m.to
           x == se[s]
           Answered(p) == [p EXCEPT !.late = FALSE, !.down = m.down,
                                    !.leader = IF m.leader = None THEN @ ELSE m.leader,
                                    !.lepoch = IF m.leader = None THEN @ ELSE m.epoch]
           y == sentinelReceiveIsMasterDownReply(x, m)
           z == [x EXCEPT !.peers[m.from] = Answered(@)]
<1>1. Becomes(s, y, {m}) /\ s \in DOMAIN se /\ left' = left
  BY DEF Deliver, Handle, ElectionInv, SentinelInv
<1>2. Good(y)
  BY <1>1, ReplyKeeps DEF Keeps, ElectionInv, SentinelInv
<1>3. Acquainted(x) /\ x.me = s /\ x.out = {}
  BY <1>1 DEF ElectionInv, KnownInv
<1>4. y = x \/ (m.from \in DOMAIN x.peers /\ y = z)
  BY DEF sentinelReceiveIsMasterDownReply
<1>5. "script" \in DOMAIN left' /\ left'.script \subseteq left.script
  BY <1>1 DEF ElectionInv, SettledInv
<1> HIDE DEF y
<1>6. CASE y = x
  <2>1. Tame(x, y)
    BY <1>3, <1>6, TameRefl
  <2> HIDE DEF s
  <2> QED
    BY <1>1, <1>2, <1>5, <2>1, TameGentle DEF ElectionInv
<1>7. CASE m.from \in DOMAIN x.peers /\ y = z
  <2> DEFINE q == Answered(x.peers[m.from])
  <2>1. {"addr", "leader", "lepoch"} \subseteq DOMAIN x.peers[m.from] /\ x.peers[m.from].addr = m.from
    BY <1>3, <1>7 DEF Acquainted
  <2>2. /\ {"addr", "leader", "lepoch"} \subseteq DOMAIN q /\ q.addr = m.from
        /\ \/ q.leader = x.peers[m.from].leader /\ q.lepoch = x.peers[m.from].lepoch
           \/ q.leader = m.leader /\ q.lepoch = m.epoch
    BY <2>1
  <2>3. /\ {"me", "peers", "conf", "out"} \subseteq DOMAIN z
        /\ z.me = x.me /\ z.conf = x.conf /\ z.out = x.out
        /\ z.peers = [x.peers EXCEPT ![m.from] = q]
    BY <1>3 DEF Acquainted
  <2> HIDE DEF q, z
  <2>4. Acquainted(z)
    BY <1>3, <1>7, <2>2, <2>3, ZenonT(30) DEF Acquainted
  <2>5. Learns(m.from, x.peers[m.from], q)
    BY <2>2 DEF Learns, SaysLess, Says
  <2>6. \A t \in DOMAIN z.peers : Learns(t, x.peers[t], z.peers[t])
    BY <1>7, <2>3, <2>5 DEF Learns, SaysLess
  <2>7. z.me = s /\ DOMAIN z.peers = DOMAIN x.peers /\ z.out = {}
    BY <1>3, <2>3
  <2> HIDE DEF s
  <2> QED
    BY <1>1, <1>2, <1>5, <1>7, <2>4, <2>6, <2>7, BecomesGentle DEF ElectionInv
<1> QED
  BY <1>4, <1>6, <1>7

(* The other messages. *)
LEMMA DeliverGentle ==
  ASSUME ElectionInv, NEW m \in net, Deliver(m)
  PROVE  GentleStep
<1>1. CASE m.type = "ask"
  BY <1>1, AskGentle
<1>2. CASE m.type = "reply"
  BY <1>2, ReplyGentle
<1>3. CASE m.type \notin {"ask", "reply"}
  <2> DEFINE s == m.to
             y == Handle(se[s], m)
  <2>1. Becomes(s, y, {m}) /\ s \in DOMAIN se /\ left' = left
    BY DEF Deliver, ElectionInv, SentinelInv
  <2>2. Good(y)
    BY <2>1, HandleKeeps DEF Keeps, ElectionInv, SentinelInv
  <2>3. Acquainted(se[s])
    BY <2>1 DEF ElectionInv, KnownInv
  <2>4. Tame(se[s], y)
    <3>1. CASE m.type = "hello"
      <4>1. m.from \in DOMAIN se /\ m.addr = m.from /\ m.from # s
        BY <3>1 DEF ElectionInv, SettledInv, OriginOK
      <4>2. m.from \in DOMAIN se[s].peers
        BY <2>1, <4>1 DEF ElectionInv, KnownInv
      <4>3. y = sentinelProcessHelloMessage(se[s], m)
        BY <3>1 DEF Handle
      <4> HIDE DEF y
      <4> QED
        BY <2>3, <4>1, <4>2, <4>3, HelloTame
    <3>2. CASE m.type = "info"
      BY <2>3, <3>2, InfoTame DEF Handle
    <3>3. CASE m.type \notin {"hello", "info"}
      BY <1>3, <2>3, <3>3, TameRefl DEF Handle
    <3> QED
      BY <3>1, <3>2, <3>3
  <2>5. "script" \in DOMAIN left' /\ left'.script \subseteq left.script
    BY <2>1 DEF ElectionInv, SettledInv
  <2> HIDE DEF y, s
  <2> QED
    BY <2>1, <2>2, <2>4, <2>5, TameGentle DEF ElectionInv
<1> QED
  BY <1>1, <1>2, <1>3

(* The budget of a step is not the list of commands. *)
LEMMA SpendScript ==
  ASSUME SettledInv, NEW k, Spend(k), k # "script"
  PROVE  "script" \in DOMAIN left' /\ left'.script \subseteq left.script
BY DEF SettledInv, Spend

(* Every step that is not a timer's. *)
LEMMA OthersGentle ==
  ASSUME ElectionInv, Next, \A s \in DOMAIN se : ~Timer(s)
  PROVE  GentleStep /\ won' = won
<1> USE DEF ElectionInv
<1>1. ASSUME NEW s \in DOMAIN se, Age(s)
      PROVE  GentleStep /\ won' = won
  <2>1. PICK w \in Clocks : se' = [se EXCEPT ![s] = Aged(se[s], w)] /\ Spend("age")
    BY <1>1 DEF Age
  <2>2. net' = net /\ won' = won
    BY <1>1 DEF Age
  <2>3. \A t \in DOMAIN se : se'[t] = IF t = s THEN Aged(se[s], w) ELSE se[t]
    BY <2>1
  <2>4. \A t \in DOMAIN se : Tame(se[t], se'[t]) /\ se'[t].out = {}
    BY <2>3, AgedTame, TameRefl DEF KnownInv
  <2> QED
    BY <2>1, <2>2, <2>4, SpendScript, AllGentle
<1>2. ASSUME NEW a, DOMAIN se' = DOMAIN se, net' \subseteq net, won' = won,
             se' = [t \in DOMAIN se |-> instanceLinkConnectionError(se[t], a)],
             "script" \in DOMAIN left', left'.script \subseteq left.script
      PROVE  GentleStep /\ won' = won
  <2>1. \A t \in DOMAIN se : Tame(se[t], se'[t]) /\ se'[t].out = {}
    BY <1>2, ConnectionErrorTame DEF KnownInv
  <2> QED
    BY <1>2, <2>1, AllGentle
<1>3. ASSUME NEW s \in DOMAIN se, Crash(s)
      PROVE  GentleStep /\ won' = won
  <2>1. "script" \in DOMAIN left' /\ left'.script \subseteq left.script
    BY <1>3, SpendScript DEF Crash
  <2>2. /\ se' = [t \in DOMAIN se |-> instanceLinkConnectionError(se[t], s)]
        /\ net' \subseteq net /\ won' = won
    BY <1>3 DEF Crash
  <2> QED
    BY <1>2, <2>1, <2>2
<1>4. ASSUME NEW r \in DOMAIN rs, Kill(r)
      PROVE  GentleStep /\ won' = won
  <2>1. "script" \in DOMAIN left' /\ left'.script \subseteq left.script
    BY <1>4, SpendScript DEF Kill
  <2>2. /\ se' = [t \in DOMAIN se |-> instanceLinkConnectionError(se[t], r)]
        /\ net' \subseteq net /\ won' = won
    BY <1>4 DEF Kill
  <2> QED
    BY <1>2, <2>1, <2>2
<1>5. ASSUME NEW s \in DOMAIN se, Restart(s)
      PROVE  GentleStep /\ won' = won
  <2> DEFINE c == se[s].conf
             y == sentinelHandleConfiguration(c)
  <2>1. /\ se' = [se EXCEPT ![s] = y] /\ net' = net /\ won' = won /\ Spend("restart")
    BY <1>5 DEF Restart
  <2>2. /\ c.self = c.me /\ c.me = s /\ c.peers = [t \in DOMAIN se[s].peers |-> t]
    BY DEF KnownInv, Acquainted
  <2> HIDE DEF c
  <2>3. /\ Acquainted(y) /\ y.me = s /\ DOMAIN y.peers = DOMAIN se[s].peers /\ y.out = {}
        /\ \A t \in DOMAIN se[s].peers : y.peers[t].leader = None
    BY <2>2, RestartTame
  <2> HIDE DEF y
  <2>4. Tame(se[s], y)
    BY <2>3 DEF Tame, Quietly, SaysLess, KnownInv
  <2>5. \A t \in DOMAIN se : se'[t] = IF t = s THEN y ELSE se[t]
    BY <2>1
  <2>6. \A t \in DOMAIN se : Tame(se[t], se'[t]) /\ se'[t].out = {}
    BY <2>3, <2>4, <2>5, TameRefl DEF KnownInv
  <2> QED
    BY <2>1, <2>6, SpendScript, AllGentle
<1>6. ASSUME NEW s \in DOMAIN se, OtherMaster(s)
      PROVE  GentleStep /\ won' = won
  <2> DEFINE y == [se[s] EXCEPT !.epoch = @ + 1]
  <2>1. se' = [se EXCEPT ![s] = y] /\ net' = net /\ won' = won /\ Spend("other")
    BY <1>6 DEF OtherMaster
  <2>2. Same(se[s], y) /\ Acquainted(se[s]) /\ se[s].out = {}
    BY DEF Same, KnownInv, Acquainted
  <2> HIDE DEF y
  <2>3. Tame(se[s], y) /\ y.out = {}
    BY <2>2, SameTame DEF Same
  <2>4. \A t \in DOMAIN se : se'[t] = IF t = s THEN y ELSE se[t]
    BY <2>1
  <2>5. \A t \in DOMAIN se : Tame(se[t], se'[t]) /\ se'[t].out = {}
    BY <2>3, <2>4, TameRefl DEF KnownInv
  <2> QED
    BY <2>1, <2>5, SpendScript, AllGentle
<1>7. ASSUME se' = se, won' = won, \A m \in net' : m \in net \/ m.type \notin {"reply", "hello"},
             "script" \in DOMAIN left', left'.script \subseteq left.script
      PROVE  GentleStep /\ won' = won
  BY <1>7, TameRefl, AllGentle DEF KnownInv
<1>8. ASSUME NEW s \in DOMAIN se, NEW a \in DOMAIN rs, Info(s, a)
      PROVE  GentleStep /\ won' = won
  <2>1. /\ se' = se /\ won' = won /\ Spend("info")
        /\ \A m \in net' : m \in net \/ m.type = "info"
    BY <1>8 DEF Info
  <2> QED
    BY <1>7, <2>1, SpendScript
<1>9. ASSUME NEW s \in DOMAIN se, NEW a \in DOMAIN rs, Hello(s, a)
      PROVE  GentleStep /\ won' = won
  <2> DEFINE x == se[s]
             H(T) == {[type |-> "hello", from |-> x.me, to |-> t, addr |-> x.conf.self,
                       epoch |-> x.epoch, master |-> sentinelGetCurrentMasterAddress(x),
                       cfg |-> x.m.cfg] : t \in T \ {x.me}}
  <2>1. PICK T : Becomes(s, Send(x, H(T)), {})
    BY <1>9 DEF Hello, sentinelSendHello
  <2> DEFINE y == Send(x, H(T))
  <2>2. won' = won /\ Spend("hello")
    BY <1>9 DEF Hello
  <2>3. Acquainted(x) /\ x.me = s /\ x.conf.self = s /\ Good(x)
    BY DEF KnownInv, Acquainted, SentinelInv
  <2>4. \A m \in H(T) : m.type = "hello" /\ m.from = s /\ m.addr = s /\ m.to # s
    BY <2>3
  <2> HIDE DEF H, x
  <2>5. /\ {"me", "peers", "conf", "out"} \subseteq DOMAIN y
        /\ y.me = x.me /\ y.peers = x.peers /\ y.conf = x.conf /\ y.out = x.out \cup H(T)
    BY <2>3 DEF Send, Acquainted
  <2>6. Good(y)
    <3>1. a # None /\ a \in Watches(x)
      BY <1>9 DEF Hello, SentinelInv, x
    <3>2. x.m.addr # None
      BY DEF KnownInv, x
    <3>3. sentinelGetCurrentMasterAddress(x) # None
      BY <3>2 DEF sentinelGetCurrentMasterAddress
    <3>4. x.epoch \in Nat /\ x.m.cfg \in Nat
      BY <2>3 DEF Good, Core, Counted
    <3>5. \A m \in H(T) : MessageOK(m)
      BY <3>3, <3>4 DEF MessageOK, H
    <3> QED
      BY <2>3, <3>5, SendKeeps DEF Keeps
  <2> HIDE DEF y
  <2>7. Tame(x, y)
    BY <2>3, <2>4, <2>5 DEF Tame, Quietly, SaysLess, Acquainted
  <2> QED
    BY <2>1, <2>2, <2>6, <2>7, SpendScript, TameGentle DEF x, y
<1>10. ASSUME NEW s \in DOMAIN se, NEW a \in DOMAIN rs, Ping(s, a)
       PROVE  GentleStep /\ won' = won
  <2> DEFINE x == se[s]
             y(on) == [x EXCEPT !.mi = sentinelPingReplyCallback(@, on)]
             z(on) == [x EXCEPT !.slaves[a] = sentinelPingReplyCallback(@, on)]
  <2>1. PICK on : se' = [se EXCEPT ![s] = y(on)] \/ se' = [se EXCEPT ![s] = z(on)]
    BY <1>10 DEF Ping
  <2>2. net' = net /\ won' = won /\ Spend("ping")
    BY <1>10 DEF Ping
  <2>3. Same(x, y(on)) /\ Same(x, z(on)) /\ Acquainted(x) /\ x.out = {}
    BY DEF Same, KnownInv, Acquainted
  <2> HIDE DEF y, z
  <2>4. PICK w : Tame(x, w) /\ w.out = {} /\ se' = [se EXCEPT ![s] = w]
    BY <2>1, <2>3, SameTame DEF Same
  <2>5. \A t \in DOMAIN se : se'[t] = IF t = s THEN w ELSE se[t]
    BY <2>4
  <2>6. \A t \in DOMAIN se : Tame(se[t], se'[t]) /\ se'[t].out = {}
    BY <2>4, <2>5, TameRefl DEF KnownInv
  <2> QED
    BY <2>2, <2>6, SpendScript, AllGentle
<1>11. ASSUME NEW m \in net, Deliver(m)
       PROVE  GentleStep /\ won' = won
  BY <1>11, DeliverGentle DEF Deliver
<1>12. ASSUME NEW m \in net, SlaveOf(m)
       PROVE  GentleStep /\ won' = won
  <2>1. se' = se /\ won' = won /\ net' \subseteq net /\ left' = left
    BY <1>12 DEF SlaveOf
  <2> QED
    BY <1>7, <2>1 DEF SettledInv
<1>13. ASSUME NEW m \in net, Lose(m)
       PROVE  GentleStep /\ won' = won
  <2>1. se' = se /\ won' = won /\ net' \subseteq net /\ Spend("lose")
    BY <1>13 DEF Lose
  <2> QED
    BY <1>7, <2>1, SpendScript
<1>14. ASSUME NEW r \in DOMAIN rs, Revive(r)
       PROVE  GentleStep /\ won' = won
  <2>1. se' = se /\ won' = won /\ net' = net /\ Spend("revive")
    BY <1>14 DEF Revive
  <2> QED
    BY <1>7, <2>1, SpendScript
<1>15. ASSUME NEW c \in left.script, Command(c)
       PROVE  GentleStep /\ won' = won
  <2> DEFINE y == sentinelCommand(se[c.at], c)
  <2>1. /\ Becomes(c.at, y, {}) /\ won' = won /\ c.at \in DOMAIN se
        /\ left' = [left EXCEPT !.script = @ \ {c}]
    BY <1>15 DEF Command, SentinelInv
  <2>2. c.op \notin {"reset", "remove"}
    BY DEF SettledInv
  <2>3. Good(y) /\ Tame(se[c.at], y)
    BY <2>1, <2>2, CommandGood, CommandTame DEF SentinelInv, KnownInv
  <2>4. "script" \in DOMAIN left' /\ left'.script \subseteq left.script
    BY <2>1 DEF SettledInv
  <2> HIDE DEF y
  <2> QED
    BY <2>1, <2>3, <2>4, TameGentle
<1> QED
  BY <1>1, <1>3, <1>4, <1>5, <1>6, <1>8, <1>9, <1>10, <1>11, <1>12, <1>13, <1>14, <1>15 DEF Next

(* A timer's step is gentle too, and whoever it elects has a majority behind it, which *)
(* shares a Sentinel with the majority behind any earlier leader of the epoch.         *)
LEMMA TimerElection ==
  ASSUME ElectionInv, SentinelInv', VoteStep, NEW s \in DOMAIN se, Timer(s)
  PROVE  /\ GentleStep
         /\ \A w \in won' : w \in won \/
              /\ w = [leader |-> w.leader, failover |-> w.failover, votes |-> w.votes]
              /\ w.leader # None /\ w.failover \in Nat
              /\ w.votes = w.failover => \E Q : Behind(Q, w.failover, w.leader)'
              /\ w.votes = w.failover => \A v \in won : v.failover = w.failover
                   /\ v.votes = w.failover => v.leader = w.leader
         /\ \A w, v \in won' : w \in won \/ v \in won \/ w = v
<1> USE DEF ElectionInv
<1> DEFINE x == se[s]
<1>1. PICK A, tie, jump :
        LET y == sentinelTimer(x, Live, up, A, tie, jump) IN
        Becomes(s, y, {}) /\ won' = won \cup Elections(s, y)
  BY DEF Timer
<1> DEFINE y == sentinelTimer(x, Live, up, A, tie, jump)
<1>2. Becomes(s, y, {}) /\ won' = won \cup Elections(s, y)
  BY <1>1
<1>3. /\ Acquainted(x) /\ Good(x) /\ x.me = s /\ s # None /\ DOMAIN x.peers = DOMAIN se \ {s}
      /\ IsFiniteSet(DOMAIN x.peers) /\ IsFiniteSet(DOMAIN se)
  <2>1. IsFiniteSet(DOMAIN se) /\ s # None
    BY DEF SettledInv
  <2>2. /\ Acquainted(x) /\ Good(x) /\ x.me = s /\ DOMAIN x.peers = DOMAIN se \ {s}
    BY DEF KnownInv, SentinelInv
  <2> QED
    BY <2>1, <2>2, FS_Subset
<1>4. Good(y)
  BY <1>3, TimerKeeps DEF Keeps
<1>5. /\ Tame(x, y)
      /\ x.m.fstate = WaitStart /\ "force" \notin x.mi.flags /\ y.m.fstate = SelectSlave
           => y.m.fepoch = x.m.fepoch /\ \E Q : VotedFor(Q, x, y, x.m.fepoch)
  BY <1>3, TimerElects
<1> HIDE DEF y
<1>6. GentleStep
  <2>1. "script" \in DOMAIN left' /\ left'.script \subseteq left.script
    BY SpendScript DEF Timer
  <2> QED
    BY <1>2, <1>4, <1>5, <2>1, TameGentle
<1>7. ASSUME NEW w \in won', w \notin won
      PROVE  /\ w = [leader |-> w.leader, failover |-> w.failover, votes |-> w.votes]
             /\ w.leader # None /\ w.failover \in Nat
             /\ w.votes = w.failover => \E Q : Behind(Q, w.failover, w.leader)'
             /\ w.votes = w.failover => \A v \in won : v.failover = w.failover
                  /\ v.votes = w.failover => v.leader = w.leader
  <2>1. /\ x.m.fstate = WaitStart /\ "force" \notin x.mi.flags /\ y.m.fstate = SelectSlave
        /\ w = [leader |-> s, failover |-> y.m.fepoch, votes |-> x.epoch]
    BY <1>2, <1>7 DEF Elections
  <2>2. /\ w = [leader |-> w.leader, failover |-> w.failover, votes |-> w.votes]
        /\ w.leader = s /\ w.failover = y.m.fepoch /\ w.votes = x.epoch
    BY <2>1
  <2>3. w.failover = x.m.fepoch /\ w.failover \in Nat
    BY <1>3, <1>5, <2>1, <2>2 DEF Good, Core, Counted
  <2>4. ASSUME w.votes = w.failover
        PROVE  /\ \E Q : Behind(Q, w.failover, s)'
               /\ \A v \in won : v.failover = w.failover /\ v.votes = w.failover => v.leader = s
    <3> DEFINE e == w.failover
    <3>1. PICK Q : VotedFor(Q, x, y, e)
      BY <1>5, <2>1, <2>3
    <3>2. DOMAIN se' = DOMAIN se /\ se'[s].m = y.m
      BY <1>2, <1>4 DEF Becomes, Quiet, Good, Core, Shaped
    <3>3. ClaimInv'
      BY <1>6, GentleKeeps
    <3>4. Q \subseteq DOMAIN se' /\ 2 * Cardinality(Q) > Cardinality(DOMAIN se')
      <4>1. DOMAIN se = DOMAIN x.peers \cup {s} /\ s \notin DOMAIN x.peers
        BY <1>3
      <4>2. Cardinality(DOMAIN se) = Cardinality(DOMAIN x.peers) + 1
        BY <1>3, <4>1, FS_AddElement
      <4> QED
        BY <1>3, <3>1, <3>2, <4>1, <4>2 DEF VotedFor
    <3>5. ASSUME NEW t \in Q
          PROVE  e <= se'[t].m.lepoch /\ \A k : Says(t, e, k)' /\ k # None => k = s
      <4>1. CASE t = s
        <5>1. Says(s, e, s)'
          BY <1>3, <3>1, <3>2, <3>5, <4>1 DEF VotedFor, Says
        <5> QED
          BY <1>3, <3>3, <4>1, <5>1 DEF ClaimInv
      <4>2. CASE t # s
        <5>1. t \in DOMAIN x.peers /\ x.peers[t].leader = s /\ x.peers[t].lepoch = e
          BY <1>3, <2>2, <2>4, <3>1, <3>5, <4>2 DEF VotedFor
        <5>2. Says(t, e, s)
          BY <5>1 DEF Says
        <5>3. t \in DOMAIN se /\ e <= se[t].m.lepoch /\ e \in Nat
          BY <1>3, <5>2 DEF ClaimInv
        <5>4. /\ se[t].m.lepoch \in Nat /\ se'[t].m.lepoch \in Nat
              /\ se[t].m.lepoch <= se'[t].m.lepoch
              /\ \/ se'[t].m.lepoch > se[t].m.lepoch
                 \/ se'[t].m.lepoch = se[t].m.lepoch /\ se'[t].m.leader \in {se[t].m.leader, None}
          BY <5>3, VotesMove
        <5>5. ASSUME NEW k, Says(t, e, k)', k # None
              PROVE  k = s
          <6>1. Says(t, e, k) \/ (e = se'[t].m.lepoch /\ k = se'[t].m.leader)
            BY <1>6, <5>5, GentleHonest
          <6>2. Says(t, e, k)
            <7>1. CASE e = se'[t].m.lepoch /\ k = se'[t].m.leader
              <8>1. e = se[t].m.lepoch /\ k = se[t].m.leader
                BY <5>3, <5>4, <5>5, <7>1
              <8> QED
                BY <5>3, <8>1 DEF Says
            <7> QED
              BY <6>1, <7>1
          <6> QED
            BY <1>3, <5>2, <5>5, <6>2 DEF ClaimInv
        <5> QED
          BY <5>3, <5>4, <5>5
      <4> QED
        BY <4>1, <4>2
    <3>6. \E P : Behind(P, e, s)'
      BY <3>4, <3>5 DEF Behind
    <3>7. ASSUME NEW v \in won, v.failover = e, v.votes = e
          PROVE  v.leader = s
      <4>1. PICK P : Behind(P, e, v.leader)
        BY <3>7 DEF ElectedInv
      <4>2. Behind(P, e, v.leader)'
        BY <1>6, <2>3, <4>1, GentleKeeps
      <4>3. PICK t \in Q : t \in P
        <5>1. Q \subseteq DOMAIN se /\ P \subseteq DOMAIN se
          BY <3>2, <3>4, <4>1 DEF Behind
        <5>2. 2 * Cardinality(P) > Cardinality(DOMAIN se)
          BY <4>1 DEF Behind
        <5>3. /\ Cardinality(P) \in Nat /\ Cardinality(Q) \in Nat
              /\ Cardinality(DOMAIN se) \in Nat
          BY <1>3, <5>1, FS_Subset, FS_CardinalityType
        <5>4. Cardinality(P) + Cardinality(Q) > Cardinality(DOMAIN se)
          BY <3>2, <3>4, <5>2, <5>3
        <5>5. P \cap Q # {}
          BY <1>3, <5>1, <5>4, FS_MajoritiesIntersect
        <5> QED
          BY <5>5
      <4>4. CASE t = s
        <5>1. Says(t, e, s)'
          BY <1>3, <3>1, <3>2, <4>3, <4>4 DEF VotedFor, Says
        <5> QED
          BY <1>3, <4>2, <4>3, <5>1 DEF Behind
      <4>5. CASE t # s
        <5>1. t \in DOMAIN x.peers /\ x.peers[t].leader = s /\ x.peers[t].lepoch = e
          BY <1>3, <2>2, <2>4, <3>1, <4>3, <4>5 DEF VotedFor
        <5>2. Says(t, e, s)
          BY <5>1 DEF Says
        <5> QED
          BY <1>3, <4>1, <4>3, <5>2 DEF Behind
      <4> QED
        BY <4>4, <4>5
    <3> QED
      BY <3>6, <3>7
  <2> QED
    BY <1>3, <2>2, <2>3, <2>4
<1>8. \A w, v \in won' : w \in won \/ v \in won \/ w = v
  BY <1>2 DEF Elections
<1> QED
  BY <1>6, <1>7, <1>8

(* The states the scenarios start in: the Sentinels know each other, nobody voted. *)
LEMMA ElectionInit == Settled /\ Init => ElectionInv
<1> SUFFICES ASSUME Settled, Init
             PROVE  ElectionInv
  OBVIOUS
<1>1. PICK c \in Scenarios :
        /\ se = [s \in c.sentinels |-> Met(c, sentinelHandleConfiguration(Conf(c, s)))]
        /\ net = {} /\ left = c.left /\ won = {}
  BY DEF Init
<1>2. /\ ~c.strangers /\ "script" \in DOMAIN c.left
      /\ \A k \in c.left.script : k.op \notin {"reset", "remove"}
  BY DEF Settled
<1>3. c.master # None /\ None \notin c.sentinels /\ IsFiniteSet(c.sentinels)
  BY ScenarioAssumption
<1>4. ASSUME NEW s \in c.sentinels
      PROVE  /\ Acquainted(se[s]) /\ se[s].me = s /\ se[s].out = {}
             /\ DOMAIN se[s].peers = c.sentinels \ {s}
             /\ \A t \in c.sentinels \ {s} : se[s].peers[t].leader = None
             /\ se[s].m.leader = None /\ se[s].m.addr # None
  <2> DEFINE k == Conf(c, s)
             x == sentinelHandleConfiguration(k)
             y == Met(c, x)
             S == c.sentinels \ {s}
  <2>1. k.me = s /\ k.self = k.me /\ k.addr = c.master /\ k.peers = [t \in S |-> t]
    BY <1>2 DEF Conf
  <2> HIDE DEF k, S
  <2>2. /\ Acquainted(x) /\ x.me = s /\ DOMAIN x.peers = S /\ x.out = {}
        /\ \A t \in S : x.peers[t].leader = None
        /\ x.m.leader = None /\ x.m.addr = c.master
    BY <2>1, RestartTame
  <2>3. "m" \in DOMAIN x
    BY DEF sentinelHandleConfiguration
  <2> HIDE DEF x
  <2>4. /\ DOMAIN y = DOMAIN x /\ y.me = x.me /\ y.conf = x.conf /\ y.out = x.out /\ y.m = x.m
        /\ y.peers = [t \in DOMAIN x.peers |-> [x.peers[t] EXCEPT !.link = TRUE]]
    BY <2>2, <2>3 DEF Met, Acquainted
  <2>5. se[s] = y
    BY <1>1 DEF x, k
  <2> HIDE DEF y
  <2>6. Relinked(x, y)
    BY <2>2, <2>4 DEF Relinked, SaysLess, Acquainted
  <2>7. Tame(x, y)
    BY <2>2, <2>6, RelinkedTame
  <2> QED
    BY <1>3, <2>2, <2>4, <2>5, <2>7, ZenonT(30) DEF Tame, Quietly, SaysLess, S
<1>5. DOMAIN se = c.sentinels
  BY <1>1
<1>6. KnownInv
  BY <1>4, <1>5 DEF KnownInv
<1>7. SettledInv
  BY <1>1, <1>2, <1>3, <1>5 DEF SettledInv
<1>8. ClaimInv
  <2>1. \A t, e, l : Says(t, e, l) => l = None
    BY <1>1, <1>4, <1>5, ZenonT(30) DEF Says
  <2> QED
    BY <2>1 DEF ClaimInv
<1>9. ElectedInv /\ LeaderUnique
  BY <1>1 DEF ElectedInv, LeaderUnique
<1> QED
  BY InitInv, <1>6, <1>7, <1>8, <1>9 DEF ElectionInv

(* A step of the system keeps the invariant. *)
LEMMA ElectionStep == ElectionInv /\ [Next]_vars => ElectionInv'
<1>1. ASSUME ElectionInv, Next
      PROVE  ElectionInv'
  <2>1. SentinelInv' /\ VoteStep
    BY <1>1, NextInv DEF ElectionInv
  <2>2. CASE \A s \in DOMAIN se : ~Timer(s)
    <3>1. GentleStep /\ won' = won
      BY <1>1, <2>2, OthersGentle
    <3>2. /\ KnownInv' /\ SettledInv' /\ ClaimInv'
          /\ \A Q, e, l : e \in Nat /\ Behind(Q, e, l) => Behind(Q, e, l)'
      BY <1>1, <2>1, <3>1, GentleKeeps
    <3>3. ElectedInv'
      BY <1>1, <3>1, <3>2 DEF ElectionInv, ElectedInv
    <3>4. LeaderUnique'
      BY <1>1, <3>1 DEF ElectionInv, LeaderUnique
    <3> QED
      BY <2>1, <3>2, <3>3, <3>4 DEF ElectionInv
  <2>3. ASSUME NEW s \in DOMAIN se, Timer(s)
        PROVE  ElectionInv'
    <3>1. /\ GentleStep
          /\ \A w \in won' : w \in won \/
               /\ w = [leader |-> w.leader, failover |-> w.failover, votes |-> w.votes]
               /\ w.leader # None /\ w.failover \in Nat
               /\ w.votes = w.failover => \E Q : Behind(Q, w.failover, w.leader)'
               /\ w.votes = w.failover => \A v \in won : v.failover = w.failover
                    /\ v.votes = w.failover => v.leader = w.leader
          /\ \A w, v \in won' : w \in won \/ v \in won \/ w = v
      BY <1>1, <2>1, <2>3, TimerElection
    <3>2. /\ KnownInv' /\ SettledInv' /\ ClaimInv'
          /\ \A Q, e, l : e \in Nat /\ Behind(Q, e, l) => Behind(Q, e, l)'
      BY <1>1, <2>1, <3>1, GentleKeeps
    <3>3. ElectedInv'
      BY <1>1, <3>1, <3>2 DEF ElectionInv, ElectedInv
    <3>4. LeaderUnique'
      <4> SUFFICES ASSUME NEW w \in won', NEW v \in won', w.failover = v.failover,
                          w.votes = w.failover, v.votes = v.failover
                   PROVE  w = v
        BY DEF LeaderUnique
      <4>1. w = v \/ w.leader = v.leader
        BY <1>1, <3>1 DEF ElectionInv, LeaderUnique
      <4>2. /\ w = [leader |-> w.leader, failover |-> w.failover, votes |-> w.votes]
            /\ v = [leader |-> v.leader, failover |-> v.failover, votes |-> v.votes]
        BY <3>3 DEF ElectedInv
      <4> QED
        BY <4>1, <4>2
    <3> QED
      BY <2>1, <3>2, <3>3, <3>4 DEF ElectionInv
  <2> QED
    BY <2>2, <2>3
<1>2. ASSUME ElectionInv, UNCHANGED vars
      PROVE  ElectionInv'
  <2>1. se' = se /\ net' = net /\ left' = left /\ won' = won
    BY <1>2 DEF vars
  <2>2. SentinelInv'
    BY <1>2 DEF vars, ElectionInv, SentinelInv, Good, Core, Shaped, Counted, Idle, Promotion,
       Saved, MessageOK
  <2>3. KnownInv' /\ SettledInv'
    BY <1>2, <2>1 DEF ElectionInv, KnownInv, Acquainted, SettledInv, OriginOK
  <2>4. \A t, e, l : Says(t, e, l)' <=> Says(t, e, l)
    BY <2>1 DEF Says
  <2>5. ClaimInv'
    BY <1>2, <2>1, <2>4 DEF ElectionInv, ClaimInv
  <2>6. \A Q, e, l : Behind(Q, e, l) => Behind(Q, e, l)'
    BY <2>1, <2>4 DEF Behind
  <2>7. ElectedInv' /\ LeaderUnique'
    BY <1>2, <2>1, <2>6 DEF ElectionInv, ElectedInv, LeaderUnique
  <2> QED
    BY <2>2, <2>3, <2>5, <2>7 DEF ElectionInv
<1> QED
  BY <1>1, <1>2

(* Sentinels that know each other from the start, and are never told to forget each     *)
(* other, never elect two leaders with one failover epoch by votes of that epoch,       *)
(* whatever is lost or late, crashes or restarts, however many they are and whatever    *)
(* their quorum is: the votes sentinelVoteLeader gave and sentinelGetLeader counted for *)
(* the two would have one voter in common, and it votes once in an epoch.               *)
THEOREM ElectedOnce == Settled => (Spec => []LeaderUnique)
<1>1. ElectionInv => LeaderUnique
  BY DEF ElectionInv
<1> QED
  BY ElectionInit, ElectionStep, <1>1, PTL DEF Spec
=================================================================================
