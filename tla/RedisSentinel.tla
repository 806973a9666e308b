------------------------------ MODULE RedisSentinel ------------------------------
(* Redis Sentinel (sentinel.c): several Sentinels watch one master and its slaves, *)
(* agree that the master is down, elect one of them to replace it, and spread the  *)
(* new configuration.  A function of the code becomes an operator from the state x *)
(* of one Sentinel, with the commands it queued in x.out, to the state it leaves.  *)
(* Clocks are abstracted: a comparison of mstime() with a stored time reads a flag *)
(* that the environment ages.  Addresses and run IDs are naturals.                 *)
EXTENDS Integers, FiniteSets, FiniteSetsExt

CONSTANTS Scenarios   \* the initial configurations, with what may happen in each

None == 0

(* The configuration file names an address for the monitored master and its slaves; *)
(* there are finitely many Sentinels, and each has a run ID.                         *)
ASSUME ScenarioAssumption ==
  \A c \in Scenarios : /\ None \notin c.slaves \cup {c.master} \cup c.sentinels
                        /\ IsFiniteSet(c.sentinels)

VARIABLES se,     \* se[s]: the state of Sentinel s
          rs,     \* rs[r]: the Redis instance at address r
          net,    \* commands, answers and published messages under way
          up,     \* running Sentinels
          left,   \* left[kind]: how many steps of a kind may still happen; left.awake: the
                  \* Sentinels whose timer runs; left.asks: peers are asked again;
                  \* left.apart: how long a slave may be without its master
          won     \* who was elected, with the epoch of the failover and that of the votes
                  \* it counted (history)

vars == <<se, rs, net, up, left, won>>

(* Failover states, in order. *)
NoFailover == 0
WaitStart == 1
SelectSlave == 2
SendSlaveofNoOne == 3
WaitPromotion == 4
ReconfSlaves == 5
UpdateConfig == 6

(* An instance as a Sentinel sees it.  ping: "late" if a PING is unanswered (or the *)
(* link down) for longer than down-after; fresh: INFO was answered recently;         *)
(* roleOld, confOld: what INFO reports has not changed for a while; apart: how long  *)
(* the slave has been without its master, 1 if longer than ten times down-after, 2   *)
(* if by more than the master has been down.                                         *)
createSentinelRedisInstance(role) ==
  [flags |-> {}, link |-> FALSE, ping |-> "none", fresh |-> FALSE, role |-> role,
   roleOld |-> FALSE, host |-> None, confOld |-> FALSE, up |-> FALSE, prio |-> 1,
   off |-> 0, sentOld |-> FALSE, apart |-> 0]

NewMaster(a) ==
  [addr |-> a, cfg |-> 0, leader |-> None, lepoch |-> 0, fepoch |-> 0,
   fstate |-> NoFailover, start |-> "free", slow |-> FALSE, promoted |-> None, quorum |-> 1,
   psyncs |-> 1]
NewPeer == [down |-> FALSE, leader |-> None, lepoch |-> 0, late |-> FALSE, link |-> FALSE,
            addr |-> None]

Monitored(x) == x.m.addr # None
Is(x, f) == f \in x.mi.flags
Flagged(i, on, off) == [i EXCEPT !.flags = (@ \ off) \cup on]
Mark(x, on, off) == [x EXCEPT !.mi = Flagged(@, on, off)]
SlaveHas(x, a, f) == f \in x.slaves[a].flags
MarkSlaves(x, A, on, off) ==
  [x EXCEPT !.slaves = [a \in DOMAIN @ |-> IF a \in A THEN Flagged(@[a], on, off) ELSE @[a]]]
MarkSlave(x, a, on, off) == MarkSlaves(x, {a}, on, off)

(* A plausible slip: the address is the old one until the failover is over. *)
OldMasterAddress(x) == x.m.addr

sentinelGetCurrentMasterAddress(x) ==
  IF Is(x, "progress") /\ x.m.promoted # None /\ x.m.fstate >= ReconfSlaves
  THEN x.m.promoted ELSE x.m.addr

(* The configuration file: epochs, the current master, the known instances.  It is   *)
(* written and synced before the handler returns.                                    *)
rewriteConfigSentinelOption(x) ==
  LET cur == sentinelGetCurrentMasterAddress(x)
  IN [me |-> x.me, self |-> x.conf.self, epoch |-> x.epoch, addr |-> cur, cfg |-> x.m.cfg,
      lepoch |-> x.m.lepoch, quorum |-> x.m.quorum, psyncs |-> x.m.psyncs,
      peers |-> [t \in DOMAIN x.peers |-> x.peers[t].addr],
      slaves |-> {IF a = cur THEN x.m.addr ELSE a : a \in DOMAIN x.slaves}]

sentinelFlushConfig(x) == [x EXCEPT !.conf = rewriteConfigSentinelOption(x)]

sentinelHandleConfiguration(c) ==
  [me |-> c.me, epoch |-> Max({c.epoch, c.cfg}), tilt |-> FALSE, tiltOld |-> FALSE,
   m |-> [NewMaster(c.addr) EXCEPT !.cfg = c.cfg, !.lepoch = c.lepoch, !.quorum = c.quorum,
                              !.psyncs = c.psyncs],
   mi |-> createSentinelRedisInstance("master"),
   slaves |-> [a \in c.slaves |-> createSentinelRedisInstance("slave")],
   peers |-> [t \in DOMAIN c.peers |-> [NewPeer EXCEPT !.addr = c.peers[t]]],
   conf |-> c, out |-> {}]

Send(x, M) == [x EXCEPT !.out = @ \cup M]
sentinelSendSlaveOf(x, a, host) ==
  Send(x, {[type |-> "slaveof", from |-> x.me, to |-> a, host |-> host]})

--------------------------------------------------------------------------------
(* Resets.  The other Sentinels stay known when only the address changes. *)
sentinelResetMaster(x, keep) ==
  [x EXCEPT !.slaves = [a \in {} |-> createSentinelRedisInstance("slave")],
            !.peers = IF keep THEN @ ELSE [t \in {} |-> NewPeer],
            !.mi = [createSentinelRedisInstance("master") EXCEPT
                      !.fresh = x.mi.fresh, !.prio = x.mi.prio, !.off = x.mi.off, !.up = x.mi.up],
            !.m.leader = None, !.m.fstate = NoFailover, !.m.start = "free",
            !.m.promoted = None]

sentinelResetMasterAndChangeAddress(x, new) ==
  LET Slaves == (DOMAIN x.slaves \cup {x.m.addr}) \ {new}
  IN sentinelFlushConfig(
       [sentinelResetMaster(x, TRUE) EXCEPT !.m.addr = new,
          !.slaves = [a \in Slaves |-> createSentinelRedisInstance("slave")]])

(* A plausible slip: the slave chosen for promotion keeps its flag. *)
AbortKeepsFlag(x) ==
  Mark([x EXCEPT !.m.fstate = NoFailover, !.m.promoted = None], {}, {"progress", "force"})

sentinelAbortFailover(x) ==
  LET y == Mark([x EXCEPT !.m.fstate = NoFailover, !.m.slow = FALSE, !.m.promoted = None],
                {}, {"progress", "force"})
  IN IF x.m.promoted = None THEN y ELSE MarkSlave(y, x.m.promoted, {}, {"promoted"})

--------------------------------------------------------------------------------
(* Votes.  A vote is written to the configuration file before it is answered. *)
(* A plausible slip: the vote is not saved. *)
VoteInMemory(x, e, id) ==
  IF x.m.lepoch < e /\ x.epoch <= e
  THEN [x EXCEPT !.m.leader = id, !.m.lepoch = x.epoch] ELSE x
Vote(x, e, id) ==
  IF x.m.lepoch < e /\ x.epoch <= e
  THEN sentinelFlushConfig([x EXCEPT !.m.leader = id, !.m.lepoch = x.epoch,
                                     !.m.start = IF id # x.me THEN "new" ELSE @])
  ELSE x

(* A plausible slip: an earlier vote in the same epoch does not bind. *)
VoteAgain(x, e, id) ==
  IF x.epoch <= e THEN sentinelFlushConfig([x EXCEPT !.epoch = e, !.m.leader = id, !.m.lepoch = e])
  ELSE x
sentinelVoteLeader(x, e, id) ==
  Vote(IF e > x.epoch THEN sentinelFlushConfig([x EXCEPT !.epoch = e]) ELSE x, e, id)

(* The votes of the others for l in the current epoch; the winner with the own vote, *)
(* given with the others' favourite.  On a tie the first in the dictionary wins, tie  *)
(* if it is among them.                                                              *)
sentinelLeaderIncr(x, l) ==
  Cardinality({t \in DOMAIN x.peers : x.peers[t].leader = l /\ x.peers[t].lepoch = x.epoch})

sentinelGetLeader(x, e, tie) ==
  LET Leaders == {x.peers[t].leader : t \in DOMAIN x.peers} \ {None}
      max == Max({0} \cup {sentinelLeaderIncr(x, l) : l \in Leaders})
      Best == {l \in Leaders : sentinelLeaderIncr(x, l) = max /\ max > 0}
      favourite == IF Best = {} THEN None
                   ELSE IF tie \in Best THEN tie ELSE CHOOSE l \in Best : TRUE
      voters == Cardinality(DOMAIN x.peers) + 1
      Count(y) ==
        LET mine == y.m.leader # None /\ y.m.lepoch = e
            votes == sentinelLeaderIncr(x, y.m.leader) + 1
            winner == IF mine /\ votes > max THEN y.m.leader ELSE favourite
            most == IF mine /\ votes > max THEN votes ELSE max
        IN [x |-> y, leader |-> IF most >= voters \div 2 + 1 /\ most >= x.m.quorum
                                THEN winner ELSE None]
  IN Count(sentinelVoteLeader(x, e, IF favourite = None THEN x.me ELSE favourite))

--------------------------------------------------------------------------------
(* Failover. *)
sentinelStartFailover(x) ==
  Mark([x EXCEPT !.m.fstate = WaitStart, !.epoch = @ + 1, !.m.fepoch = x.epoch + 1,
                 !.m.start = "new", !.m.slow = FALSE], {"progress"}, {})

MayStart(x) == Is(x, "odown") /\ ~Is(x, "progress") /\ x.m.start = "free"
sentinelStartFailoverIfNeeded(x) == IF MayStart(x) THEN sentinelStartFailover(x) ELSE x

(* Is slave a better than slave b?  Priority, then offset, then run ID. *)
compareSlavesForPromotion(x, a, b) ==
  LET s == x.slaves[a]
      t == x.slaves[b]
  IN \/ s.prio < t.prio
     \/ s.prio = t.prio /\ s.off > t.off
     \/ s.prio = t.prio /\ s.off = t.off /\ a <= b

Promotable(x) ==
  {a \in DOMAIN x.slaves : LET s == x.slaves[a] IN
     /\ "sdown" \notin s.flags /\ s.link /\ s.ping # "late" /\ s.prio # 0 /\ s.fresh
     /\ s.apart <= (IF Is(x, "sdown") THEN 1 ELSE 0)}

sentinelSelectSlave(x) ==
  LET Best == {a \in Promotable(x) :
                 \A b \in Promotable(x) : compareSlavesForPromotion(x, a, b)}
  IN IF Best = {} THEN None ELSE CHOOSE a \in Best : TRUE

sentinelFailoverWaitStart(x, tie) ==
  LET Go(r) == IF r.leader # x.me /\ ~Is(x, "force")
               THEN IF r.x.m.start = "new" THEN r.x ELSE sentinelAbortFailover(r.x)
               ELSE [r.x EXCEPT !.m.fstate = SelectSlave, !.m.slow = FALSE]
  IN Go(sentinelGetLeader(x, x.m.fepoch, tie))

sentinelFailoverSelectSlave(x) ==
  LET Promote(a) == MarkSlave([x EXCEPT !.m.promoted = a, !.m.fstate = SendSlaveofNoOne,
                                        !.m.slow = FALSE], a, {"promoted"}, {})
  IN IF sentinelSelectSlave(x) = None THEN sentinelAbortFailover(x)
     ELSE Promote(sentinelSelectSlave(x))

sentinelFailoverSendSlaveOfNoOne(x) ==
  IF ~x.slaves[x.m.promoted].link
  THEN IF x.m.slow THEN sentinelAbortFailover(x) ELSE x
  ELSE [sentinelSendSlaveOf(x, x.m.promoted, None) EXCEPT
          !.m.fstate = WaitPromotion, !.m.slow = FALSE]

sentinelFailoverWaitPromotion(x) == IF x.m.slow THEN sentinelAbortFailover(x) ELSE x

(* The slaves in A are told the address of their new master. *)
TellSlaves(x, A) ==
  Send(MarkSlaves(x, A, {"sent"}, {}),
       {[type |-> "slaveof", from |-> x.me, to |-> a, host |-> x.m.promoted] : a \in A})

sentinelFailoverDetectEnd(x) ==
  LET Waiting == {a \in DOMAIN x.slaves : x.slaves[a].flags \cap {"promoted", "done", "sdown"} = {}}
      Last == {a \in DOMAIN x.slaves : /\ x.slaves[a].flags \cap {"done", "sent"} = {}
                                       /\ x.slaves[a].link}
  IN IF x.m.promoted = None \/ SlaveHas(x, x.m.promoted, "sdown") THEN x
     ELSE IF x.m.slow \/ Waiting = {}
     THEN TellSlaves([x EXCEPT !.m.fstate = UpdateConfig], IF x.m.slow THEN Last ELSE {})
     ELSE x

(* Slaves are told of their new master while fewer than parallel_syncs of them are   *)
(* on the way; only then is a slave that takes too long given up, and told again.    *)
(* The dictionary is walked in the order of the addresses: the walk reaches a while  *)
(* those that are Busy, and those told before a, are too few.                        *)
sentinelFailoverReconfNextSlave(x) ==
  LET Busy == {a \in DOMAIN x.slaves : x.slaves[a].flags \cap {"sent", "inprog"} # {}}
      Waiting == {a \in DOMAIN x.slaves : x.slaves[a].flags \cap {"promoted", "done"} = {}}
      GivenUp == {a \in Waiting : SlaveHas(x, a, "sent") /\ x.slaves[a].sentOld}
      Ready == {a \in Waiting : /\ a \in Busy => a \in GivenUp /\ ~SlaveHas(x, a, "inprog")
                                /\ x.slaves[a].link}
      Reached == {a \in Waiting :
                    Cardinality(Busy) + Cardinality({b \in Ready : b < a}) < x.m.psyncs}
      Told == TellSlaves(MarkSlaves(x, GivenUp \cap Reached, {"done"}, {"sent"}), Ready \cap Reached)
  IN sentinelFailoverDetectEnd(
       [Told EXCEPT !.slaves = [a \in DOMAIN @ |->
          IF a \in Ready \cap Reached THEN [@[a] EXCEPT !.sentOld = FALSE] ELSE @[a]]])

sentinelFailoverStateMachine(x, tie) ==
  IF ~Is(x, "progress") THEN x
  ELSE CASE x.m.fstate = WaitStart -> sentinelFailoverWaitStart(x, tie)
         [] x.m.fstate = SelectSlave -> sentinelFailoverSelectSlave(x)
         [] x.m.fstate = SendSlaveofNoOne -> sentinelFailoverSendSlaveOfNoOne(x)
         [] x.m.fstate = WaitPromotion -> sentinelFailoverWaitPromotion(x)
         [] x.m.fstate = ReconfSlaves -> sentinelFailoverReconfNextSlave(x)
         [] OTHER -> x

sentinelFailoverSwitchToPromotedSlave(x) ==
  sentinelResetMasterAndChangeAddress(x, IF x.m.promoted = None THEN x.m.addr ELSE x.m.promoted)

--------------------------------------------------------------------------------
(* Is it down? *)
sentinelCheckSubjectivelyDown(i, master) ==
  IF i.ping = "late" \/ (master /\ i.role = "slave" /\ i.roleOld)
  THEN [i EXCEPT !.flags = @ \cup {"sdown"}] ELSE [i EXCEPT !.flags = @ \ {"sdown"}]

sentinelCheckObjectivelyDown(x) ==
  IF Is(x, "sdown") /\ 1 + Cardinality({t \in DOMAIN x.peers : x.peers[t].down}) >= x.m.quorum
  THEN Mark(x, {"odown"}, {}) ELSE Mark(x, {}, {"odown"})

(* The peers in A have not answered for a second.  The vote of a peer that has not    *)
(* answered for five is forgotten.                                                   *)
sentinelAskMasterStateToOtherSentinels(x, A) ==
  LET Old == [x EXCEPT !.peers = [t \in DOMAIN @ |->
                IF @[t].late THEN [@[t] EXCEPT !.down = FALSE, !.leader = None] ELSE @[t]]]
      Ask(t) == [type |-> "ask", from |-> x.me, to |-> t, addr |-> x.m.addr, epoch |-> x.epoch,
                 id |-> IF x.m.fstate > NoFailover THEN x.me ELSE None]
  IN IF Is(x, "sdown") THEN Send(Old, {Ask(t) : t \in {p \in A : x.peers[p].link}}) ELSE Old

(* The answer to SENTINEL is-master-down-by-addr, with the vote it may contain. *)
IsMasterDownByAddr(x, q) ==
  LET here == Monitored(x) /\ q.addr = x.m.addr
      Reply(y) == Send(y, {[type |-> "reply", from |-> x.me, to |-> q.from,
                            down |-> here /\ ~x.tilt /\ Is(x, "sdown"),
                            leader |-> IF here /\ q.id # None THEN y.m.leader ELSE None,
                            epoch |-> y.m.lepoch]})
  IN Reply(IF here /\ q.id # None THEN sentinelVoteLeader(x, q.epoch, q.id) ELSE x)

sentinelReceiveIsMasterDownReply(x, r) ==
  IF r.from \notin DOMAIN x.peers THEN x
  ELSE LET Answered(p) ==
             [p EXCEPT !.late = FALSE, !.down = r.down,
                       !.leader = IF r.leader = None THEN @ ELSE r.leader,
                       !.lepoch = IF r.leader = None THEN @ ELSE r.epoch]
       IN [x EXCEPT !.peers[r.from] = Answered(@)]

--------------------------------------------------------------------------------
(* INFO.  A new slave list, the reported role, and what follows from it. *)
sentinelMasterLooksSane(x) ==
  x.mi.role = "master" /\ x.mi.flags \cap {"sdown", "odown"} = {} /\ x.mi.fresh

Reported(i, r) ==
  [i EXCEPT !.fresh = TRUE, !.apart = r.apart, !.role = r.role, !.roleOld = @ /\ r.role = i.role,
            !.host = IF r.role = "slave" THEN r.host ELSE @,
            !.confOld = @ /\ ~(r.role = "slave" /\ (i.role = "master" \/ i.host # r.host)),
            !.up = IF r.role = "slave" THEN r.up ELSE @,
            !.off = IF r.role = "slave" THEN r.off ELSE @]

InfoMaster(x, r) ==
  LET New == r.slaves \ DOMAIN x.slaves
      y == [x EXCEPT !.mi = Reported(@, r),
                     !.slaves = [a \in DOMAIN @ \cup New |->
                       IF a \in New THEN createSentinelRedisInstance("slave") ELSE @[a]]]
  IN IF New = {} THEN y ELSE sentinelFlushConfig(y)

(* A slave that says it is a master: promoted, or to be converted. *)
InfoPromoted(x, a) ==
  IF SlaveHas(x, a, "promoted") /\ Is(x, "progress") /\ x.m.fstate = WaitPromotion
  THEN sentinelFlushConfig([x EXCEPT !.m.cfg = x.m.fepoch, !.m.fstate = ReconfSlaves,
                                     !.m.slow = FALSE])
  ELSE IF /\ ~SlaveHas(x, a, "promoted") /\ sentinelMasterLooksSane(x)
          /\ ~SlaveHas(x, a, "sdown") /\ x.slaves[a].roleOld
  THEN sentinelSendSlaveOf(x, a, x.m.addr) ELSE x

(* A slave of the wrong master is told the right one; one that was told moves on. *)
InfoSlave(x, a) ==
  LET s == x.slaves[a]
      Fixed == IF /\ s.host # x.m.addr /\ sentinelMasterLooksSane(x) /\ "sdown" \notin s.flags
                  /\ s.confOld
               THEN sentinelSendSlaveOf(x, a, x.m.addr) ELSE x
      Inprog(y) == IF SlaveHas(y, a, "sent") /\ s.host = y.m.promoted
                   THEN MarkSlave(y, a, {"inprog"}, {"sent"}) ELSE y
      Done(y) == IF SlaveHas(y, a, "inprog") /\ s.up
                 THEN MarkSlave(y, a, {"done"}, {"inprog"}) ELSE y
  IN Done(Inprog(Fixed))

InfoOfSlave(x, a, r) ==
  LET Acted(y) == IF y.tilt THEN y
                  ELSE IF r.role = "master" THEN InfoPromoted(y, a) ELSE InfoSlave(y, a)
  IN Acted([x EXCEPT !.slaves[a] = Reported(@, r)])

sentinelRefreshInstanceInfo(x, r) ==
  IF r.from = x.m.addr THEN InfoMaster(x, r)
  ELSE IF r.from \in DOMAIN x.slaves THEN InfoOfSlave(x, r.from, r) ELSE x

--------------------------------------------------------------------------------
(* Hello: who I am, the epoch, and the master with its configuration epoch. *)
sentinelSendHello(x, T) ==
  Send(x, {[type |-> "hello", from |-> x.me, to |-> t, addr |-> x.conf.self, epoch |-> x.epoch,
            master |-> sentinelGetCurrentMasterAddress(x), cfg |-> x.m.cfg] : t \in T \ {x.me}})

(* A Sentinel with a new address replaces its old self; one that lost its address to *)
(* another is cut off.                                                               *)
removeMatchingSentinelFromMaster(x, id) ==
  [x EXCEPT !.peers = [t \in DOMAIN @ \ {id} |-> @[t]]]
Invalidated(x, a) ==
  [x EXCEPT !.peers = [t \in DOMAIN @ |-> IF @[t].addr = a
                         THEN [@[t] EXCEPT !.addr = None, !.link = FALSE] ELSE @[t]]]
HelloPeer(x, h) ==
  LET known == h.from \in DOMAIN x.peers
      Add(y) == [y EXCEPT !.peers = [t \in DOMAIN @ \cup {h.from} |->
                   IF t = h.from THEN [NewPeer EXCEPT !.addr = h.addr] ELSE @[t]]]
  IN IF known /\ x.peers[h.from].addr = h.addr THEN x
     ELSE sentinelFlushConfig(Add(IF known THEN removeMatchingSentinelFromMaster(x, h.from)
                                           ELSE Invalidated(x, h.addr)))

sentinelProcessHelloMessage(x, h) ==
  LET Epoch(y) == IF h.epoch > y.epoch THEN sentinelFlushConfig([y EXCEPT !.epoch = h.epoch]) ELSE y
      Config(y) == IF h.cfg <= y.m.cfg THEN y
                   ELSE IF h.master = y.m.addr THEN [y EXCEPT !.m.cfg = h.cfg]
                   ELSE sentinelResetMasterAndChangeAddress([y EXCEPT !.m.cfg = h.cfg], h.master)
  IN IF ~Monitored(x) THEN x ELSE Config(Epoch(HelloPeer(x, h)))

--------------------------------------------------------------------------------
(* sentinelTimer: the master, its slaves, the other Sentinels, then a switch.        *)
sentinelReconnectInstance(i, reachable) == [i EXCEPT !.link = reachable]

HandleMaster(x, A, tie) ==
  LET Down(y) == sentinelCheckObjectivelyDown([y EXCEPT !.mi = sentinelCheckSubjectivelyDown(@, TRUE)])
      Start(y) == IF MayStart(y)
                  THEN sentinelAskMasterStateToOtherSentinels(sentinelStartFailoverIfNeeded(y),
                                                              DOMAIN y.peers) ELSE y
  IN sentinelAskMasterStateToOtherSentinels(
       sentinelFailoverStateMachine(Start(Down(x)), tie), A)

sentinelHandleDictOfRedisInstances(x, Live, Peers, A, tie) ==
  LET Linked == [x EXCEPT !.mi = sentinelReconnectInstance(@, x.m.addr \in Live),
                   !.slaves = [a \in DOMAIN @ |-> sentinelReconnectInstance(@[a], a \in Live)],
                   !.peers = [t \in DOMAIN @ |-> sentinelReconnectInstance(@[t], @[t].addr \in Peers)]]
      Slaves(y) == [y EXCEPT !.slaves = [a \in DOMAIN @ |-> sentinelCheckSubjectivelyDown(@[a], FALSE)]]
      Switch(y) == IF y.m.fstate = UpdateConfig THEN sentinelFailoverSwitchToPromotedSlave(y) ELSE y
      Awake(y) == Switch(Slaves(HandleMaster([y EXCEPT !.tilt = FALSE, !.tiltOld = FALSE], A, tie)))
  IN IF ~Monitored(x) THEN x
     ELSE IF x.tilt /\ ~x.tiltOld THEN Linked ELSE Awake(Linked)

sentinelCheckTiltCondition(x, jump) ==
  IF jump THEN [x EXCEPT !.tilt = TRUE, !.tiltOld = FALSE] ELSE x

sentinelTimer(x, Live, Peers, A, tie, jump) ==
  sentinelHandleDictOfRedisInstances(sentinelCheckTiltCondition(x, jump), Live, Peers, A, tie)

(* SENTINEL FAILOVER, RESET, MONITOR, REMOVE, FLUSHCONFIG and SET quorum. *)
sentinelCommand(x, c) ==
  CASE c.op = "failover" ->
         IF ~Monitored(x) \/ Is(x, "progress") \/ sentinelSelectSlave(x) = None THEN x
         ELSE Mark(sentinelStartFailover(x), {"force"}, {})
    [] c.op = "reset" -> IF Monitored(x) THEN sentinelResetMaster(x, FALSE) ELSE x
    [] c.op = "monitor" ->
         IF Monitored(x) THEN x
         ELSE sentinelFlushConfig(
                [x EXCEPT !.m = [NewMaster(c.addr) EXCEPT !.quorum = c.quorum],
                          !.mi = createSentinelRedisInstance("master")])
    [] c.op = "remove" ->
         IF ~Monitored(x) THEN x
         ELSE sentinelFlushConfig([sentinelResetMaster(x, FALSE) EXCEPT !.m = NewMaster(None)])
    [] c.op = "set" ->
         IF Monitored(x) THEN sentinelFlushConfig([x EXCEPT !.m.quorum = c.quorum]) ELSE x
    [] c.op = "flushconfig" -> sentinelFlushConfig(x)
    [] OTHER -> x

--------------------------------------------------------------------------------
Spend(kind) == left[kind] > 0 /\ left' = [left EXCEPT ![kind] = @ - 1]
Live == {r \in DOMAIN rs : rs[r].alive}

Elections(s, x) ==
  IF se[s].m.fstate = WaitStart /\ x.m.fstate = SelectSlave /\ ~Is(se[s], "force")
  THEN {[leader |-> s, failover |-> x.m.fepoch, votes |-> se[s].epoch]} ELSE {}

Quiet(x) == [x EXCEPT !.out = {}]
Becomes(s, x, gone) ==
  /\ se' = [se EXCEPT ![s] = Quiet(x)]
  /\ net' = (net \ gone) \cup {m \in x.out : m.to \in up \cup Live}

Timer(s) ==
  /\ s \in up \cap left.awake
  /\ Spend("timer")
  /\ \E A \in {{}, IF left.asks THEN DOMAIN se[s].peers ELSE {}}, tie \in DOMAIN se,
        jump \in (IF left.tilt > 0 THEN BOOLEAN ELSE {FALSE}) :
       \E x \in {sentinelTimer(se[s], Live, up, A, tie, jump)} :
         Becomes(s, x, {}) /\ won' = won \cup Elections(s, x)
  /\ UNCHANGED <<rs, up>>

(* A message reaches a Sentinel. *)
Handle(x, m) ==
  CASE m.type = "ask" -> IsMasterDownByAddr(x, m)
    [] m.type = "reply" -> sentinelReceiveIsMasterDownReply(x, m)
    [] m.type = "hello" -> sentinelProcessHelloMessage(x, m)
    [] m.type = "info" -> sentinelRefreshInstanceInfo(x, m)
    [] OTHER -> x

Deliver(m) ==
  /\ m.to \in up
  /\ \E x \in {Handle(se[m.to], m)} : Becomes(m.to, x, {m})
  /\ UNCHANGED <<rs, up, left, won>>

(* SLAVEOF reaches a Redis instance, which saves it (CONFIG REWRITE). *)
SlaveOf(m) ==
  /\ m.type = "slaveof" /\ m.to \in Live
  /\ rs' = [rs EXCEPT ![m.to].master = m.host]
  /\ net' = net \ {m}
  /\ UNCHANGED <<se, up, left, won>>

Lose(m) ==
  /\ Spend("lose")
  /\ net' = net \ {m}
  /\ UNCHANGED <<se, rs, up, won>>

(* INFO is asked of an instance and answered; the answer is still to arrive. *)
Watches(x) == {x.m.addr} \cup DOMAIN x.slaves
Linked(x, a) == IF a = x.m.addr THEN x.mi.link ELSE x.slaves[a].link
Info(s, a) ==
  /\ s \in up /\ a \in Watches(se[s]) \cap Live /\ Linked(se[s], a)
  /\ Spend("info")
  /\ \E apart \in (IF rs[a].master \in Live \cup {None} THEN {0} ELSE left.apart) :
       net' = net \cup {[type |-> "info", from |-> a, to |-> s, host |-> rs[a].master,
                       apart |-> apart,
                       role |-> IF rs[a].master = None THEN "master" ELSE "slave",
                       up |-> rs[a].master \in Live, off |-> rs[a].off,
                       slaves |-> {b \in Live : rs[b].master = a}]}
  /\ UNCHANGED <<se, rs, up, won>>

(* The hello reaches the Sentinels that listen on the same instance. *)
Hello(s, a) ==
  /\ s \in up /\ a \in Watches(se[s]) \cap Live /\ Linked(se[s], a)
  /\ Spend("hello")
  /\ \E x \in {sentinelSendHello(se[s], {t \in up : a \in Watches(se[t]) /\ Linked(se[t], a)})} :
       Becomes(s, x, {})
  /\ UNCHANGED <<rs, up, won>>

sentinelPingReplyCallback(i, on) == [i EXCEPT !.ping = IF on THEN "none" ELSE "late"]
Ping(s, a) ==
  /\ s \in up /\ a \in Watches(se[s])
  /\ Spend("ping")
  /\ \E on \in {o \in BOOLEAN : o => a \in Live /\ Linked(se[s], a)} :
       se' = IF a = se[s].m.addr
             THEN [se EXCEPT ![s].mi = sentinelPingReplyCallback(@, on)]
             ELSE [se EXCEPT ![s].slaves[a] = sentinelPingReplyCallback(@, on)]
  /\ se' # se
  /\ UNCHANGED <<rs, net, up, won>>

(* Time passes. *)
Later(t) == CASE t = "new" -> "elect" [] OTHER -> "free"
Aged(x, w) ==
  CASE w = "start" -> [x EXCEPT !.m.start = Later(@)]
    [] w = "slow" -> [x EXCEPT !.m.slow = TRUE]
    [] w = "votes" -> [x EXCEPT !.peers = [t \in DOMAIN @ |-> [@[t] EXCEPT !.late = TRUE]]]
    [] w = "tilted" -> [x EXCEPT !.tiltOld = x.tilt]
    [] w = "info" -> [x EXCEPT !.mi.fresh = FALSE,
                         !.slaves = [a \in DOMAIN @ |-> [@[a] EXCEPT !.fresh = FALSE]]]
    [] w = "sync" -> [x EXCEPT !.slaves = [a \in DOMAIN @ |-> [@[a] EXCEPT !.sentOld = TRUE]]]
    [] w = "role" -> [x EXCEPT !.mi.roleOld = TRUE,
                         !.slaves = [a \in DOMAIN @ |->
                            [@[a] EXCEPT !.roleOld = TRUE, !.confOld = TRUE]]]
Clocks == {"start", "slow", "votes", "tilted", "info", "sync", "role"}

Age(s) ==
  /\ s \in up
  /\ \E w \in Clocks \cap left.clocks :
       Spend("age") /\ \E x \in {Aged(se[s], w)} : x # se[s] /\ se' = [se EXCEPT ![s] = x]
  /\ UNCHANGED <<rs, net, up, won>>

Command(c) ==
  /\ c.at \in up
  /\ c \in left.script
  /\ left' = [left EXCEPT !.script = @ \ {c}]
  /\ \E x \in {sentinelCommand(se[c.at], c)} : Becomes(c.at, x, {})
  /\ UNCHANGED <<rs, up, won>>

(* A Sentinel also fails over another master: the epoch is one for all masters. *)
OtherMaster(s) ==
  /\ s \in up
  /\ Spend("other")
  /\ se' = [se EXCEPT ![s].epoch = @ + 1]
  /\ UNCHANGED <<rs, net, up, won>>

(* Crashes. *)
Cut(i, lost) == [i EXCEPT !.link = @ /\ ~lost]
instanceLinkConnectionError(x, a) ==
  [x EXCEPT !.mi = Cut(@, x.m.addr = a),
            !.slaves = [b \in DOMAIN @ |-> Cut(@[b], b = a)],
            !.peers = [t \in DOMAIN @ |-> Cut(@[t], t = a)]]

Kill(r) ==
  /\ Spend("kill")
  /\ r \in Live \cap left.mortal
  /\ rs' = [rs EXCEPT ![r].alive = FALSE]
  /\ se' = [s \in DOMAIN se |-> instanceLinkConnectionError(se[s], r)]
  /\ net' = {m \in net : m.to # r}
  /\ UNCHANGED <<up, won>>

Revive(r) ==
  /\ r \notin Live
  /\ Spend("revive")
  /\ rs' = [rs EXCEPT ![r].alive = TRUE]
  /\ UNCHANGED <<se, net, up, won>>

Crash(s) ==
  /\ s \in up
  /\ Spend("crash")
  /\ up' = up \ {s}
  /\ se' = [t \in DOMAIN se |-> instanceLinkConnectionError(se[t], s)]
  /\ net' = {m \in net : m.to # s}
  /\ UNCHANGED <<rs, won>>

Restart(s) ==
  /\ s \notin up
  /\ Spend("restart")
  /\ up' = up \cup {s}
  /\ se' = [se EXCEPT ![s] = sentinelHandleConfiguration(@.conf)]
  /\ UNCHANGED <<rs, net, won>>

--------------------------------------------------------------------------------
Conf(c, s) ==
  [me |-> s, self |-> s, epoch |-> 0, addr |-> c.master, cfg |-> 0, lepoch |-> 0, quorum |-> c.quorum,
   psyncs |-> c.psyncs, slaves |-> c.slaves,
   peers |-> [t \in (IF c.strangers THEN {} ELSE c.sentinels \ {s}) |-> t]]

(* The Sentinels have talked to everyone, and agree so far. *)
Met(c, x) ==
  LET I(i, a) == [i EXCEPT !.link = a \notin c.dead, !.fresh = TRUE,
                           !.ping = IF a \in c.dead THEN "late" ELSE "none",
                           !.host = IF a = c.master THEN None ELSE c.master, !.off = c.off[a]]
  IN [x EXCEPT !.mi = I(@, c.master), !.slaves = [a \in DOMAIN @ |-> I(@[a], a)],
               !.peers = [t \in DOMAIN @ |-> [@[t] EXCEPT !.link = TRUE]]]

Init ==
  \E c \in Scenarios :
    /\ se = [s \in c.sentinels |-> Met(c, sentinelHandleConfiguration(Conf(c, s)))]
    /\ rs = [r \in c.slaves \cup {c.master} |->
               [alive |-> r \notin c.dead, master |-> IF r = c.master THEN None ELSE c.master,
                off |-> c.off[r]]]
    /\ net = {} /\ up = c.sentinels /\ left = c.left /\ won = {}

Next ==
  \/ \E s \in DOMAIN se : Timer(s) \/ Age(s) \/ Crash(s) \/ Restart(s) \/ OtherMaster(s)
  \/ \E s \in DOMAIN se : \E a \in DOMAIN rs : Info(s, a) \/ Hello(s, a) \/ Ping(s, a)
  \/ \E m \in net : Deliver(m) \/ SlaveOf(m) \/ Lose(m)
  \/ \E r \in DOMAIN rs : Kill(r) \/ Revive(r)
  \/ \E c \in left.script : Command(c)

Spec == Init /\ [][Next]_vars

--------------------------------------------------------------------------------
(* What the Sentinels of a master must guarantee. *)

(* Two Sentinels are never elected with the same failover epoch, whatever crashes,   *)
(* restarts or is late, if each was elected by votes of that epoch: sentinelGetLeader *)
(* counts the votes of the current epoch, which may have moved on since the failover  *)
(* started, although its comment asks for votes of the specified epoch.               *)
LeaderUnique ==
  \A w, v \in won :
    w.failover = v.failover /\ w.votes = w.failover /\ v.votes = v.failover => w = v

(* As long as no failover epoch has had two leaders, Sentinels that report the same   *)
(* configuration epoch report the same master, in the middle of a failover too: the   *)
(* epoch is all a client or another Sentinel has to tell a new configuration from an  *)
(* old one (sentinelProcessHelloMessage).                                             *)
ConfigAgree ==
  (\A w, v \in won : w.failover = v.failover => w = v) =>
  \A s, t \in up :
    /\ Monitored(se[s]) /\ Monitored(se[t])
    /\ se[s].m.cfg = se[t].m.cfg
    => sentinelGetCurrentMasterAddress(se[s]) = sentinelGetCurrentMasterAddress(se[t])

(* promoted_slave points to a slave in the table, flagged as promoted, exactly while *)
(* the failover has one; a slave being reconfigured implies it: the INFO handler     *)
(* dereferences it (sentinelRefreshInstanceInfo), as do the failover steps.          *)
PromotedLinked ==
  \A s \in up : LET x == se[s] IN
    /\ x.m.fstate >= SendSlaveofNoOne <=> x.m.promoted # None
    /\ {a \in DOMAIN x.slaves : SlaveHas(x, a, "promoted")} = {x.m.promoted} \ {None}
    /\ \A a \in DOMAIN x.slaves :
         x.slaves[a].flags \cap {"sent", "inprog"} # {} => x.m.promoted # None

(* A Sentinel votes once in an epoch: neither a restart, a reset, nor a new master    *)
(* address lets it change its vote or vote in an epoch again; only SENTINEL REMOVE    *)
(* forgets the vote, with the master (sentinelVoteLeader).                           *)
VoteDurable ==
  [][\A s \in DOMAIN se : LET m == se[s].m
                             n == se'[s].m
       IN \/ n.lepoch > m.lepoch
          \/ n.lepoch = m.lepoch /\ n.leader \in {m.leader, None}
          \/ n.addr = None]_vars
==================================================================================
