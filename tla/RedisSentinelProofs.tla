--------------------------- MODULE RedisSentinelProofs ---------------------------
(* Proofs about the Sentinels, for every set of scenarios: any number of Sentinels   *)
(* and instances, any quorum, any losses, crashes, restarts and commands.            *)
(*                                                                                   *)
(* The invariant says of each Sentinel that it is Good: its epochs are numbers, a    *)
(* Sentinel without a master has nothing else (Idle), the flags of the slaves match  *)
(* the state of the failover (Promotion), and the configuration file holds the epoch *)
(* of the last vote (Saved), which is what a restart reads.  Every function of       *)
(* sentinel.c has a lemma saying that it Keeps its Sentinel Good, and its vote.      *)
EXTENDS RedisSentinel, TLAPS

(* The state of one Sentinel.  Its fields, as far as the proof follows them. *)
Shaped(x) ==
  /\ {"epoch", "m", "mi", "slaves", "peers", "conf", "out"} \subseteq DOMAIN x
  /\ {"addr", "cfg", "leader", "lepoch", "fepoch", "fstate", "start", "slow", "promoted", "quorum"}
       \subseteq DOMAIN x.m
  /\ "flags" \in DOMAIN x.mi
  /\ \A a \in DOMAIN x.slaves : "flags" \in DOMAIN x.slaves[a]

(* Epochs are numbers, the failover is in one of its states. *)
Counted(x) ==
  /\ x.epoch \in Nat /\ x.m.cfg \in Nat /\ x.m.lepoch \in Nat /\ x.m.fepoch \in Nat
  /\ x.m.fstate \in NoFailover..UpdateConfig

(* A Sentinel without a master has no slaves, no vote and no failover. *)
Idle(x) == x.m.addr = None => DOMAIN x.slaves = {} /\ x.m.lepoch = 0 /\ x.m.fstate = NoFailover

(* The slave chosen for promotion, and the slaves being reconfigured. *)
Promotion(x) ==
  /\ x.m.fstate # NoFailover => "progress" \in x.mi.flags
  /\ x.m.fstate >= SendSlaveofNoOne <=> x.m.promoted # None
  /\ \A a \in DOMAIN x.slaves : "promoted" \in x.slaves[a].flags <=> a = x.m.promoted /\ a # None
  /\ x.m.promoted # None => x.m.promoted \in DOMAIN x.slaves
  /\ \A a \in DOMAIN x.slaves :
       "sent" \in x.slaves[a].flags \/ "inprog" \in x.slaves[a].flags => x.m.fstate >= ReconfSlaves

(* Messages carry epochs and the address of a master. *)
MessageOK(m) ==
  /\ m.type = "ask" => m.epoch \in Nat
  /\ m.type = "hello" => m.epoch \in Nat /\ m.cfg \in Nat /\ m.master # None
  /\ m.type = "info" => m.from # None

Core(x) ==
  Shaped(x) /\ Counted(x) /\ Idle(x) /\ Promotion(x) /\ \A m \in x.out : MessageOK(m)

(* The vote is in the configuration file. *)
Saved(x) ==
  /\ x.conf.epoch \in Nat /\ x.conf.cfg \in Nat /\ x.conf.lepoch = x.m.lepoch
  /\ x.conf.addr = None <=> x.m.addr = None
  /\ x.conf.addr = None => x.conf.slaves = {}

Good(x) == Core(x) /\ Saved(x)

SentinelInv ==
  /\ \A s \in DOMAIN se : Good(se[s])
  /\ \A m \in net : MessageOK(m)
  /\ up \subseteq DOMAIN se
  /\ None \notin DOMAIN rs

(* What a handler does to a Sentinel: it keeps its master and its vote. *)
Votes(x, y) ==
  \/ y.m.lepoch > x.m.lepoch
  \/ y.m.lepoch = x.m.lepoch /\ y.m.leader \in {x.m.leader, None}

Keeps(x, y) == Good(y) /\ Votes(x, y) /\ (x.m.addr # None => y.m.addr # None)

USE DEF None, NoFailover, WaitStart, SelectSlave, SendSlaveofNoOne, WaitPromotion, ReconfSlaves,
        UpdateConfig, Monitored, Is, SlaveHas

(* Handlers called one after the other. *)
LEMMA KeepsTrans ==
  ASSUME NEW x, NEW y, NEW z, Good(x), Keeps(x, y), Keeps(y, z)
  PROVE  Keeps(x, z)
BY DEF Keeps, Good, Core, Counted, Votes

(* Doing nothing keeps everything. *)
LEMMA KeepsRefl ==
  ASSUME NEW x, Good(x)
  PROVE  Keeps(x, x)
BY DEF Keeps, Votes

(* Writing the configuration file saves the vote and changes nothing else. *)
LEMMA FlushKeeps ==
  ASSUME NEW x, Core(x)
  PROVE  LET y == sentinelFlushConfig(x) IN
         /\ Good(y) /\ y.m = x.m /\ y.mi = x.mi /\ y.epoch = x.epoch /\ y.slaves = x.slaves
<1> DEFINE y == sentinelFlushConfig(x)
<1>1. /\ y.m = x.m /\ y.mi = x.mi /\ y.epoch = x.epoch /\ y.slaves = x.slaves /\ y.out = x.out
      /\ DOMAIN y = DOMAIN x
      /\ y.conf = rewriteConfigSentinelOption(x)
  BY DEF sentinelFlushConfig, Core, Shaped
<1>2. Core(y)
  BY <1>1 DEF Core, Shaped, Counted, Idle, Promotion
<1>3. Saved(y)
  BY <1>1 DEF Saved, rewriteConfigSentinelOption, sentinelGetCurrentMasterAddress, Core,
     Counted, Idle, Promotion
<1> QED
  BY <1>1, <1>2, <1>3 DEF Good

(* A step that leaves the master's counters, the failover and the flags that follow *)
(* it alone keeps everything, whatever it does to links, pings and times.            *)
Alike(x, y) ==
  /\ DOMAIN y = DOMAIN x /\ DOMAIN y.m = DOMAIN x.m /\ "flags" \in DOMAIN y.mi
  /\ y.epoch = x.epoch /\ y.conf = x.conf
  /\ \A f \in {"addr", "cfg", "leader", "lepoch", "fepoch", "fstate", "promoted"} : y.m[f] = x.m[f]
  /\ "progress" \in x.mi.flags => "progress" \in y.mi.flags
  /\ DOMAIN y.slaves = DOMAIN x.slaves
  /\ \A a \in DOMAIN x.slaves :
       /\ "flags" \in DOMAIN y.slaves[a]
       /\ \A f \in {"promoted", "sent", "inprog"} :
            f \in y.slaves[a].flags <=> f \in x.slaves[a].flags
  /\ \A m \in y.out : MessageOK(m)

(* Such a step keeps the Sentinel Good. *)
LEMMA AlikeKeeps ==
  ASSUME NEW x, NEW y, Good(x), Alike(x, y)
  PROVE  Keeps(x, y)
<1>0. /\ y.m.addr = x.m.addr /\ y.m.cfg = x.m.cfg /\ y.m.leader = x.m.leader
      /\ y.m.lepoch = x.m.lepoch /\ y.m.fepoch = x.m.fepoch /\ y.m.fstate = x.m.fstate
      /\ y.m.promoted = x.m.promoted
  BY DEF Alike
<1>1. Shaped(y) /\ Counted(y) /\ Idle(y) /\ Saved(y) /\ Votes(x, y)
  BY <1>0 DEF Alike, Good, Core, Shaped, Counted, Idle, Saved, Votes
<1>2. Promotion(y)
  <2>1. \A a \in DOMAIN x.slaves :
          /\ "promoted" \in y.slaves[a].flags <=> "promoted" \in x.slaves[a].flags
          /\ "sent" \in y.slaves[a].flags <=> "sent" \in x.slaves[a].flags
          /\ "inprog" \in y.slaves[a].flags <=> "inprog" \in x.slaves[a].flags
    BY DEF Alike
  <2> QED
    BY <1>0, <2>1 DEF Alike, Good, Core, Promotion
<1> QED
  BY <1>0, <1>1, <1>2 DEF Keeps, Good, Core, Alike

(* Queueing messages keeps everything. *)
LEMMA SendKeeps ==
  ASSUME NEW x, NEW M, Good(x), \A m \in M : MessageOK(m)
  PROVE  Keeps(x, Send(x, M))
<1>1. Alike(x, Send(x, M))
  BY DEF Alike, Send, Good, Core, Shaped
<1> QED
  BY <1>1, AlikeKeeps

(* So does sending SLAVEOF and CONFIG REWRITE to an instance. *)
LEMMA SlaveOfKeeps ==
  ASSUME NEW x, NEW a, NEW host, Good(x)
  PROVE  Keeps(x, sentinelSendSlaveOf(x, a, host))
<1>1. MessageOK([type |-> "slaveof", from |-> x.me, to |-> a, host |-> host])
  BY DEF MessageOK
<1> QED
  BY <1>1, SendKeeps DEF sentinelSendSlaveOf

Marked(x, y, A, on, off) ==
  /\ DOMAIN y = DOMAIN x /\ y.m = x.m /\ y.mi = x.mi /\ y.epoch = x.epoch
  /\ y.conf = x.conf /\ y.out = x.out
  /\ DOMAIN y.slaves = DOMAIN x.slaves
  /\ \A a \in DOMAIN x.slaves :
       /\ "flags" \in DOMAIN y.slaves[a]
       /\ \A f : f \in y.slaves[a].flags <=> \/ f \in x.slaves[a].flags /\ (a \notin A \/ f \notin off)
                                             \/ a \in A /\ f \in on

(* What MarkSlaves does to the flags of the slaves, and that it does nothing else. *)
LEMMA MarkedSlaves ==
  ASSUME NEW x, NEW A, NEW on, NEW off, Shaped(x)
  PROVE  Marked(x, MarkSlaves(x, A, on, off), A, on, off)
<1> DEFINE y == MarkSlaves(x, A, on, off)
<1>1. /\ DOMAIN y = DOMAIN x /\ y.m = x.m /\ y.mi = x.mi /\ y.epoch = x.epoch
      /\ y.conf = x.conf /\ y.out = x.out
      /\ y.slaves = [a \in DOMAIN x.slaves |->
                       IF a \in A THEN Flagged(x.slaves[a], on, off) ELSE x.slaves[a]]
  BY DEF MarkSlaves, Shaped
<1>2. \A a \in DOMAIN x.slaves :
        /\ "flags" \in DOMAIN Flagged(x.slaves[a], on, off)
        /\ Flagged(x.slaves[a], on, off).flags = (x.slaves[a].flags \ off) \cup on
  BY DEF Flagged, Shaped
<1> HIDE DEF y
<1> QED
  BY <1>1, <1>2 DEF Shaped, Marked, y

(* Flags other than those of the failover may change. *)
LEMMA MarkKeeps ==
  ASSUME NEW x, NEW on, NEW off, Good(x), "progress" \notin off
  PROVE  Keeps(x, Mark(x, on, off))
<1>1. Alike(x, Mark(x, on, off))
  BY DEF Alike, Mark, Flagged, Good, Core, Shaped
<1> QED
  BY <1>1, AlikeKeeps

--------------------------------------------------------------------------------
(* A vote is given in an epoch later than that of the last one, and saved. *)
LEMMA EpochKeeps ==
  ASSUME NEW x, NEW e \in Nat, Good(x)
  PROVE  LET y == sentinelFlushConfig([x EXCEPT !.epoch = e]) IN
         Keeps(x, y) /\ y.epoch = e /\ y.m = x.m /\ y.mi = x.mi
<1> DEFINE z == [x EXCEPT !.epoch = e]
<1>1. /\ z.m = x.m /\ z.mi = x.mi /\ z.epoch = e /\ z.slaves = x.slaves /\ z.out = x.out
      /\ DOMAIN z = DOMAIN x
  BY DEF Good, Core, Shaped
<1>2. Core(z)
  BY <1>1 DEF Good, Core, Shaped, Counted, Idle, Promotion
<1> HIDE DEF z
<1> QED
  BY <1>1, <1>2, FlushKeeps DEF Keeps, Votes, z

(* sentinelVoteLeader, once the epoch is at least that of the request. *)
LEMMA VoteKeeps ==
  ASSUME NEW x, NEW e \in Nat, NEW id, Good(x), x.m.addr # None, e <= x.epoch
  PROVE  LET y == Vote(x, e, id) IN
         Keeps(x, y) /\ y.m.fstate = x.m.fstate /\ y.mi = x.mi
<1>1. CASE ~(x.m.lepoch < e /\ x.epoch <= e)
  BY <1>1, KeepsRefl DEF Vote
<1>2. CASE x.m.lepoch < e /\ x.epoch <= e
  <2> DEFINE z == [x EXCEPT !.m.leader = id, !.m.lepoch = x.epoch,
                            !.m.start = IF id # x.me THEN "new" ELSE @]
  <2>1. /\ DOMAIN z = DOMAIN x /\ DOMAIN z.m = DOMAIN x.m
        /\ z.mi = x.mi /\ z.epoch = x.epoch /\ z.slaves = x.slaves /\ z.out = x.out
        /\ z.m.addr = x.m.addr /\ z.m.cfg = x.m.cfg /\ z.m.lepoch = x.epoch
        /\ z.m.fepoch = x.m.fepoch /\ z.m.fstate = x.m.fstate /\ z.m.promoted = x.m.promoted
    BY DEF Good, Core, Shaped
  <2>2. Core(z)
    BY <2>1 DEF Good, Core, Shaped, Counted, Idle, Promotion
  <2>3. x.epoch > x.m.lepoch
    BY <1>2 DEF Good, Core, Counted
  <2>4. Vote(x, e, id) = sentinelFlushConfig(z)
    BY <1>2 DEF Vote
  <2> HIDE DEF z
  <2> QED
    BY <2>1, <2>2, <2>3, <2>4, FlushKeeps DEF Keeps, Votes
<1> QED
  BY <1>1, <1>2

(* sentinelVoteLeader as a whole; the failover is where it was. *)
LEMMA VoteLeaderKeeps ==
  ASSUME NEW x, NEW e \in Nat, NEW id, Good(x), x.m.addr # None
  PROVE  LET y == sentinelVoteLeader(x, e, id) IN
         Keeps(x, y) /\ y.m.fstate = x.m.fstate /\ y.mi = x.mi
<1> DEFINE y == IF e > x.epoch THEN sentinelFlushConfig([x EXCEPT !.epoch = e]) ELSE x
<1>1. Keeps(x, y) /\ e <= y.epoch /\ y.m = x.m /\ y.mi = x.mi
  BY EpochKeeps, KeepsRefl DEF Good, Core, Counted
<1>2. LET v == Vote(y, e, id) IN Keeps(y, v) /\ v.m.fstate = y.m.fstate /\ v.mi = y.mi
  BY <1>1, VoteKeeps DEF Keeps
<1> QED
  BY <1>1, <1>2, KeepsTrans DEF sentinelVoteLeader

(* Counting the votes ends with a vote of the Sentinel itself. *)
LEMMA GetLeaderKeeps ==
  ASSUME NEW x, NEW e \in Nat, NEW tie, Good(x), x.m.addr # None
  PROVE  LET y == sentinelGetLeader(x, e, tie).x IN
         Keeps(x, y) /\ y.m.fstate = x.m.fstate /\ y.mi = x.mi
<1>1. \E id : sentinelGetLeader(x, e, tie).x = sentinelVoteLeader(x, e, id)
  BY DEF sentinelGetLeader
<1> QED
  BY <1>1, VoteLeaderKeeps

--------------------------------------------------------------------------------
(* The steps of a failover.  Its start raises the epoch and touches no slave. *)
LEMMA StartKeeps ==
  ASSUME NEW x, Good(x), x.m.addr # None, "progress" \notin x.mi.flags
  PROVE  Keeps(x, sentinelStartFailover(x))
<1> DEFINE y == sentinelStartFailover(x)
<1>1. /\ DOMAIN y = DOMAIN x /\ DOMAIN y.m = DOMAIN x.m /\ DOMAIN y.mi = DOMAIN x.mi
      /\ y.epoch = x.epoch + 1 /\ y.slaves = x.slaves /\ y.out = x.out /\ y.conf = x.conf
      /\ y.m.addr = x.m.addr /\ y.m.cfg = x.m.cfg /\ y.m.lepoch = x.m.lepoch
      /\ y.m.leader = x.m.leader /\ y.m.fepoch = x.epoch + 1 /\ y.m.fstate = WaitStart
      /\ y.m.promoted = x.m.promoted /\ "progress" \in y.mi.flags
  BY DEF sentinelStartFailover, Mark, Flagged, Good, Core, Shaped
<1>2. x.m.fstate = NoFailover
  BY DEF Good, Core, Promotion
<1> HIDE DEF y
<1>3. Core(y)
  BY <1>1, <1>2 DEF Good, Core, Shaped, Counted, Idle, Promotion
<1> QED
  BY <1>1, <1>3 DEF Keeps, Good, Saved, Votes, y

(* An abort before the switch takes the flag from the chosen slave. *)
LEMMA AbortKeeps ==
  ASSUME NEW x, Good(x), x.m.fstate < ReconfSlaves
  PROVE  Keeps(x, sentinelAbortFailover(x))
<1> DEFINE z == Mark([x EXCEPT !.m.fstate = NoFailover, !.m.slow = FALSE, !.m.promoted = None],
                     {}, {"progress", "force"})
           y == sentinelAbortFailover(x)
<1>1. /\ DOMAIN z = DOMAIN x /\ DOMAIN z.m = DOMAIN x.m /\ DOMAIN z.mi = DOMAIN x.mi
      /\ z.epoch = x.epoch /\ z.out = x.out /\ z.conf = x.conf /\ z.slaves = x.slaves
      /\ z.m.addr = x.m.addr /\ z.m.cfg = x.m.cfg /\ z.m.lepoch = x.m.lepoch
      /\ z.m.leader = x.m.leader /\ z.m.fepoch = x.m.fepoch /\ z.m.fstate = NoFailover
      /\ z.m.promoted = None
  BY DEF Mark, Flagged, Good, Core, Shaped
<1>2. y = IF x.m.promoted = None THEN z ELSE MarkSlaves(z, {x.m.promoted}, {}, {"promoted"})
  BY DEF sentinelAbortFailover, MarkSlave
<1> HIDE DEF y, z
<1>3. Shaped(z)
  BY <1>1 DEF Good, Core, Shaped
<1>4. /\ DOMAIN y = DOMAIN z /\ y.m = z.m /\ y.mi = z.mi /\ y.epoch = z.epoch
      /\ y.conf = z.conf /\ y.out = z.out
      /\ DOMAIN y.slaves = DOMAIN x.slaves
      /\ \A a \in DOMAIN x.slaves :
           /\ "flags" \in DOMAIN y.slaves[a]
           /\ "promoted" \notin y.slaves[a].flags
           /\ y.slaves[a].flags \subseteq x.slaves[a].flags
  <2>1. CASE x.m.promoted = None
    BY <1>1, <1>2, <2>1 DEF Good, Core, Shaped, Promotion
  <2>2. CASE x.m.promoted # None
    <3>1. Marked(z, y, {x.m.promoted}, {}, {"promoted"})
      BY <1>2, <1>3, <2>2, MarkedSlaves
    <3> QED
      BY <1>1, <3>1 DEF Marked, Good, Core, Promotion
  <2> QED
    BY <2>1, <2>2
<1>5. Shaped(y) /\ Counted(y) /\ Idle(y)
  BY <1>1, <1>4 DEF Good, Core, Shaped, Counted, Idle
<1>6. Promotion(y)
  BY <1>1, <1>4 DEF Good, Core, Counted, Promotion
<1> QED
  BY <1>1, <1>4, <1>5, <1>6 DEF Keeps, Good, Core, Saved, Votes, y

(* The failover moves on, within the states with, or without, a promoted slave. *)
Moved(x, y, f) ==
  /\ DOMAIN y = DOMAIN x /\ DOMAIN y.m = DOMAIN x.m
  /\ y.mi = x.mi /\ y.epoch = x.epoch /\ y.slaves = x.slaves /\ y.out = x.out
  /\ y.conf = x.conf /\ y.m.leader = x.m.leader
  /\ y.m.addr = x.m.addr /\ y.m.cfg = x.m.cfg /\ y.m.lepoch = x.m.lepoch
  /\ y.m.fepoch = x.m.fepoch /\ y.m.fstate = f /\ y.m.promoted = x.m.promoted

(* Such a move keeps the Sentinel Good. *)
LEMMA MoveKeeps ==
  ASSUME NEW x, NEW y, NEW f \in NoFailover..UpdateConfig, Good(x), x.m.addr # None,
         x.m.fstate # NoFailover, Moved(x, y, f),
         x.m.fstate >= SendSlaveofNoOne <=> f >= SendSlaveofNoOne,
         x.m.fstate <= f
  PROVE  Keeps(x, y) /\ y.m.fstate = f
<1>1. Shaped(y) /\ Counted(y) /\ Idle(y)
  BY DEF Moved, Good, Core, Shaped, Counted, Idle
<1>2. Promotion(y)
  BY DEF Moved, Good, Core, Counted, Promotion
<1> QED
  BY <1>1, <1>2 DEF Moved, Keeps, Good, Core, Saved, Votes

(* The election: wait, give up, or go on. *)
LEMMA WaitStartKeeps ==
  ASSUME NEW x, NEW tie, Good(x), x.m.addr # None, x.m.fstate = WaitStart
  PROVE  Keeps(x, sentinelFailoverWaitStart(x, tie))
<1> DEFINE r == sentinelGetLeader(x, x.m.fepoch, tie)
           z == [r.x EXCEPT !.m.fstate = SelectSlave, !.m.slow = FALSE]
<1>1. Keeps(x, r.x) /\ r.x.m.fstate = WaitStart /\ Good(r.x)
  BY GetLeaderKeeps DEF Keeps, Good, Core, Counted
<1>2. sentinelFailoverWaitStart(x, tie) \in {r.x, sentinelAbortFailover(r.x), z}
  BY DEF sentinelFailoverWaitStart
<1> HIDE DEF r
<1>3. Keeps(r.x, sentinelAbortFailover(r.x))
  BY <1>1, AbortKeeps
<1>4. Keeps(r.x, z)
  <2>1. r.x.m.addr # None /\ Moved(r.x, z, SelectSlave)
    BY <1>1 DEF Keeps, Good, Core, Shaped, Moved
  <2> HIDE DEF z
  <2> QED
    BY <1>1, <2>1, MoveKeeps
<1> HIDE DEF z
<1> QED
  BY <1>1, <1>2, <1>3, <1>4, KeepsTrans

(* The chosen slave is in the table, gets the flag and becomes promoted_slave. *)
LEMMA SelectSlaveKeeps ==
  ASSUME NEW x, Good(x), x.m.addr # None, x.m.fstate = SelectSlave
  PROVE  Keeps(x, sentinelFailoverSelectSlave(x))
<1>1. CASE sentinelSelectSlave(x) = None
  BY <1>1, AbortKeeps DEF sentinelFailoverSelectSlave
<1>2. CASE sentinelSelectSlave(x) # None
  <2> DEFINE a == sentinelSelectSlave(x)
             z == [x EXCEPT !.m.promoted = a, !.m.fstate = SendSlaveofNoOne, !.m.slow = FALSE]
             y == MarkSlaves(z, {a}, {"promoted"}, {})
  <2>1. a \in DOMAIN x.slaves /\ a # None
    BY <1>2 DEF sentinelSelectSlave, Promotable
  <2>2. sentinelFailoverSelectSlave(x) = y
    BY <1>2 DEF sentinelFailoverSelectSlave, MarkSlave
  <2>3. /\ DOMAIN z = DOMAIN x /\ DOMAIN z.m = DOMAIN x.m
        /\ z.mi = x.mi /\ z.epoch = x.epoch /\ z.out = x.out /\ z.conf = x.conf
        /\ z.slaves = x.slaves
        /\ z.m.addr = x.m.addr /\ z.m.cfg = x.m.cfg /\ z.m.lepoch = x.m.lepoch
        /\ z.m.leader = x.m.leader /\ z.m.fepoch = x.m.fepoch /\ z.m.fstate = SendSlaveofNoOne
        /\ z.m.promoted = a
    BY DEF Good, Core, Shaped
  <2> HIDE DEF a, z
  <2>7. Shaped(z)
    BY <2>3 DEF Good, Core, Shaped
  <2>4. /\ DOMAIN y = DOMAIN z /\ y.m = z.m /\ y.mi = z.mi /\ y.epoch = z.epoch
        /\ y.conf = z.conf /\ y.out = z.out
        /\ DOMAIN y.slaves = DOMAIN x.slaves
        /\ \A b \in DOMAIN x.slaves :
             /\ "flags" \in DOMAIN y.slaves[b]
             /\ y.slaves[b].flags = x.slaves[b].flags \cup (IF b = a THEN {"promoted"} ELSE {})
    <3>1. Marked(z, y, {a}, {"promoted"}, {})
      BY <2>7, MarkedSlaves
    <3> HIDE DEF y
    <3> QED
      BY <2>3, <3>1 DEF Marked
  <2> HIDE DEF y
  <2>5. Shaped(y) /\ Counted(y) /\ Idle(y)
    BY <2>3, <2>4 DEF Good, Core, Shaped, Counted, Idle
  <2>6. Promotion(y)
    BY <2>1, <2>3, <2>4 DEF Good, Core, Promotion
  <2> QED
    BY <2>2, <2>3, <2>4, <2>5, <2>6 DEF Keeps, Good, Core, Saved, Votes
<1> QED
  BY <1>1, <1>2

(* SLAVEOF NO ONE is sent to the promoted slave, or the failover is given up. *)
LEMMA SlaveOfNoOneKeeps ==
  ASSUME NEW x, Good(x), x.m.addr # None, x.m.fstate = SendSlaveofNoOne
  PROVE  Keeps(x, sentinelFailoverSendSlaveOfNoOne(x))
<1> DEFINE y == sentinelSendSlaveOf(x, x.m.promoted, None)
           z == [y EXCEPT !.m.fstate = WaitPromotion, !.m.slow = FALSE]
<1>1. sentinelFailoverSendSlaveOfNoOne(x) \in {x, sentinelAbortFailover(x), z}
  BY DEF sentinelFailoverSendSlaveOfNoOne
<1>2. Keeps(x, sentinelAbortFailover(x))
  BY AbortKeeps
<1>3. Keeps(x, z)
  <2>1. Keeps(x, y) /\ y.m = x.m /\ y.mi = x.mi
    BY SlaveOfKeeps DEF sentinelSendSlaveOf, Send, Good, Core, Shaped
  <2> HIDE DEF y
  <2>2. /\ Good(y) /\ y.m.fstate = SendSlaveofNoOne /\ y.m.addr # None
        /\ Moved(y, z, WaitPromotion)
    BY <2>1 DEF Keeps, Good, Core, Shaped, Moved
  <2> HIDE DEF z
  <2>3. Keeps(y, z)
    BY <2>2, MoveKeeps
  <2> QED
    BY <2>1, <2>3, KeepsTrans
<1> HIDE DEF z
<1> QED
  BY <1>1, <1>2, <1>3, KeepsRefl

(* The promotion takes too long: the failover is given up. *)
LEMMA WaitPromotionKeeps ==
  ASSUME NEW x, Good(x), x.m.fstate = WaitPromotion
  PROVE  Keeps(x, sentinelFailoverWaitPromotion(x))
BY AbortKeeps, KeepsRefl DEF sentinelFailoverWaitPromotion

(* Slaves are told, given up or told again: no slave becomes the promoted one. *)
LEMMA SlavesKeep ==
  ASSUME NEW x, NEW y, Good(x), x.m.fstate >= ReconfSlaves,
         DOMAIN y = DOMAIN x, y.m = x.m, y.mi = x.mi, y.epoch = x.epoch, y.conf = x.conf,
         \A m \in y.out : MessageOK(m),
         DOMAIN y.slaves = DOMAIN x.slaves,
         \A a \in DOMAIN x.slaves :
           /\ "flags" \in DOMAIN y.slaves[a]
           /\ "promoted" \in y.slaves[a].flags <=> "promoted" \in x.slaves[a].flags
  PROVE  Keeps(x, y)
<1>1. Shaped(y) /\ Counted(y) /\ Idle(y) /\ Saved(y) /\ Votes(x, y)
  BY DEF Good, Core, Shaped, Counted, Idle, Saved, Votes
<1>2. Promotion(y)
  BY DEF Good, Core, Promotion
<1> QED
  BY <1>1, <1>2 DEF Keeps, Good, Core

(* Flags other than promoted may be set and cleared once the slaves are reconfigured. *)
LEMMA MarkSlavesKeeps ==
  ASSUME NEW x, NEW A, NEW on, NEW off, Good(x), x.m.fstate >= ReconfSlaves,
         "promoted" \notin on \cup off
  PROVE  LET y == MarkSlaves(x, A, on, off) IN Keeps(x, y) /\ y.m = x.m
<1> DEFINE y == MarkSlaves(x, A, on, off)
<1>1. /\ DOMAIN y = DOMAIN x /\ y.m = x.m /\ y.mi = x.mi /\ y.epoch = x.epoch
      /\ y.conf = x.conf /\ y.out = x.out
      /\ DOMAIN y.slaves = DOMAIN x.slaves
      /\ \A a \in DOMAIN x.slaves :
           /\ "flags" \in DOMAIN y.slaves[a]
           /\ "promoted" \in y.slaves[a].flags <=> "promoted" \in x.slaves[a].flags
  <2>1. Marked(x, y, A, on, off)
    BY MarkedSlaves DEF Good, Core
  <2> HIDE DEF y
  <2> QED
    BY <2>1 DEF Marked
<1> HIDE DEF y
<1>2. \A m \in y.out : MessageOK(m)
  BY <1>1 DEF Good, Core
<1> QED
  BY <1>1, <1>2, SlavesKeep DEF y

(* So may slaves be told of their new master. *)
LEMMA TellKeeps ==
  ASSUME NEW x, NEW A, Good(x), x.m.fstate >= ReconfSlaves
  PROVE  LET y == TellSlaves(x, A) IN Keeps(x, y) /\ y.m = x.m
<1> DEFINE z == MarkSlaves(x, A, {"sent"}, {})
           M == {[type |-> "slaveof", from |-> x.me, to |-> a, host |-> x.m.promoted] : a \in A}
<1>1. Keeps(x, z) /\ z.m = x.m
  BY MarkSlavesKeeps
<1> HIDE DEF z
<1>2. \A m \in M : MessageOK(m)
  BY DEF MessageOK
<1>3. TellSlaves(x, A) = Send(z, M)
  BY DEF TellSlaves, z
<1> HIDE DEF M
<1>4. Keeps(z, Send(z, M)) /\ Send(z, M).m = z.m
  BY <1>1, <1>2, SendKeeps DEF Keeps, Send, Good, Core, Shaped
<1> QED
  BY <1>1, <1>3, <1>4, KeepsTrans

(* The end of the reconfiguration keeps the promoted slave. *)
LEMMA DetectEndKeeps ==
  ASSUME NEW x, Good(x), x.m.addr # None, x.m.fstate >= ReconfSlaves
  PROVE  Keeps(x, sentinelFailoverDetectEnd(x))
<1> DEFINE z == [x EXCEPT !.m.fstate = UpdateConfig]
<1>1. \E A : sentinelFailoverDetectEnd(x) \in {x, TellSlaves(z, A)}
  BY DEF sentinelFailoverDetectEnd
<1>2. Moved(x, z, UpdateConfig) /\ x.m.fstate <= UpdateConfig
  BY DEF Good, Core, Shaped, Counted, Moved
<1> HIDE DEF z
<1>4. Keeps(x, z) /\ z.m.fstate = UpdateConfig
  <2>1. UpdateConfig \in NoFailover..UpdateConfig /\ x.m.fstate \in Nat
    BY DEF Good, Core, Counted
  <2> QED
    BY <1>2, <2>1, MoveKeeps
<1>3. \A A : Keeps(z, TellSlaves(z, A))
  BY <1>4, TellKeeps DEF Keeps
<1> QED
  BY <1>1, <1>4, <1>3, KeepsTrans, KeepsRefl

(* One round of the reconfiguration. *)
LEMMA ReconfKeeps ==
  ASSUME NEW x, Good(x), x.m.addr # None, x.m.fstate = ReconfSlaves
  PROVE  Keeps(x, sentinelFailoverReconfNextSlave(x))
<1> DEFINE Again(t, R) == [t EXCEPT !.slaves = [a \in DOMAIN @ |->
             IF a \in R THEN [@[a] EXCEPT !.sentOld = FALSE] ELSE @[a]]]
<1>1. \E G, R : sentinelFailoverReconfNextSlave(x) =
        sentinelFailoverDetectEnd(Again(TellSlaves(MarkSlaves(x, G, {"done"}, {"sent"}), R), R))
  BY DEF sentinelFailoverReconfNextSlave
<1>2. PICK G, R : sentinelFailoverReconfNextSlave(x) =
        sentinelFailoverDetectEnd(Again(TellSlaves(MarkSlaves(x, G, {"done"}, {"sent"}), R), R))
  BY <1>1
<1> DEFINE d == MarkSlaves(x, G, {"done"}, {"sent"})
           t == TellSlaves(d, R)
           y == Again(t, R)
<1>3. Keeps(x, d) /\ d.m = x.m
  BY MarkSlavesKeeps
<1>4. sentinelFailoverReconfNextSlave(x) = sentinelFailoverDetectEnd(y)
  BY <1>2
<1> HIDE DEF d
<1>5. Keeps(d, t) /\ t.m = d.m
  BY <1>3, TellKeeps DEF Keeps
<1> HIDE DEF t
<1>6. Keeps(t, y) /\ y.m = t.m
  <2>1. /\ y.slaves = [a \in DOMAIN t.slaves |->
             IF a \in R THEN [t.slaves[a] EXCEPT !.sentOld = FALSE] ELSE t.slaves[a]]
        /\ DOMAIN y = DOMAIN t /\ y.m = t.m /\ y.mi = t.mi /\ y.epoch = t.epoch /\ y.conf = t.conf
        /\ y.out = t.out
    BY <1>5 DEF Keeps, Good, Core, Shaped
  <2> HIDE DEF y, Again
  <2>2. /\ DOMAIN y.slaves = DOMAIN t.slaves
        /\ \A a \in DOMAIN t.slaves :
             /\ "flags" \in DOMAIN y.slaves[a]
             /\ "promoted" \in y.slaves[a].flags <=> "promoted" \in t.slaves[a].flags
    BY <2>1, <1>5 DEF Keeps, Good, Core, Shaped
  <2>3. \A m \in y.out : MessageOK(m)
    BY <2>1, <1>5 DEF Keeps, Good, Core
  <2>4. Good(t) /\ t.m.fstate >= ReconfSlaves
    BY <1>3, <1>5 DEF Keeps
  <2> QED
    BY <2>1, <2>2, <2>3, <2>4, SlavesKeep
<1> HIDE DEF y, Again
<1>7. Good(y) /\ y.m.addr # None /\ y.m.fstate >= ReconfSlaves
  BY <1>3, <1>5, <1>6 DEF Keeps
<1>8. Keeps(y, sentinelFailoverDetectEnd(y))
  BY <1>7, DetectEndKeeps
<1>9. Keeps(x, y) /\ Good(d) /\ Good(t)
  BY <1>3, <1>5, <1>6, KeepsTrans DEF Keeps
<1> QED
  BY <1>4, <1>8, <1>9, KeepsTrans

(* Every step of the failover. *)
LEMMA StateMachineKeeps ==
  ASSUME NEW x, NEW tie, Good(x), x.m.addr # None
  PROVE  Keeps(x, sentinelFailoverStateMachine(x, tie))
BY WaitStartKeeps, SelectSlaveKeeps, SlaveOfNoOneKeeps, WaitPromotionKeeps, ReconfKeeps, KeepsRefl
   DEF sentinelFailoverStateMachine

--------------------------------------------------------------------------------
(* Resets forget the failover and keep the epoch of the vote. *)
ResetTo(x, y) ==
  /\ DOMAIN y = DOMAIN x /\ DOMAIN y.m = DOMAIN x.m /\ "flags" \in DOMAIN y.mi
  /\ y.epoch = x.epoch /\ y.out = x.out /\ y.conf = x.conf
  /\ y.m.addr = x.m.addr /\ y.m.cfg = x.m.cfg /\ y.m.lepoch = x.m.lepoch
  /\ y.m.leader = None /\ y.m.fepoch = x.m.fepoch /\ y.m.fstate = NoFailover
  /\ y.m.promoted = None /\ DOMAIN y.slaves = {}

(* What sentinelResetMaster leaves and what it clears. *)
LEMMA ResetFields ==
  ASSUME NEW x, NEW keep, Good(x)
  PROVE  ResetTo(x, sentinelResetMaster(x, keep))
<1> DEFINE y == sentinelResetMaster(x, keep)
           i == [createSentinelRedisInstance("master") EXCEPT
                   !.fresh = x.mi.fresh, !.prio = x.mi.prio, !.off = x.mi.off, !.up = x.mi.up]
<1>1. "flags" \in DOMAIN i
  BY DEF createSentinelRedisInstance
<1> HIDE DEF i
<1>2. /\ DOMAIN y = DOMAIN x /\ y.mi = i
      /\ y.epoch = x.epoch /\ y.out = x.out /\ y.conf = x.conf
      /\ y.slaves = [a \in {} |-> createSentinelRedisInstance("slave")]
  BY DEF sentinelResetMaster, Good, Core, Shaped, i
<1>3. /\ DOMAIN y.m = DOMAIN x.m
      /\ y.m.addr = x.m.addr /\ y.m.cfg = x.m.cfg /\ y.m.lepoch = x.m.lepoch
      /\ y.m.leader = None /\ y.m.fepoch = x.m.fepoch /\ y.m.fstate = NoFailover
      /\ y.m.promoted = None
  BY DEF sentinelResetMaster, Good, Core, Shaped
<1> HIDE DEF y
<1> QED
  BY <1>1, <1>2, <1>3 DEF ResetTo, y

(* A reset keeps the epoch of the vote, in memory and in the file. *)
LEMMA ResetKeeps ==
  ASSUME NEW x, NEW keep, Good(x)
  PROVE  Keeps(x, sentinelResetMaster(x, keep))
<1> DEFINE y == sentinelResetMaster(x, keep)
<1>1. ResetTo(x, y)
  BY ResetFields
<1> HIDE DEF y
<1>2. Core(y)
  BY <1>1 DEF ResetTo, Good, Core, Shaped, Counted, Idle, Promotion
<1> QED
  BY <1>1, <1>2 DEF ResetTo, Keeps, Good, Saved, Votes, y

(* A new master address is written with the epoch of the vote. *)
LEMMA ChangeAddressKeeps ==
  ASSUME NEW x, NEW new, Good(x), new # None
  PROVE  Keeps(x, sentinelResetMasterAndChangeAddress(x, new))
<1> DEFINE S == (DOMAIN x.slaves \cup {x.m.addr}) \ {new}
           r == sentinelResetMaster(x, TRUE)
           z == [r EXCEPT !.m.addr = new,
                          !.slaves = [a \in S |-> createSentinelRedisInstance("slave")]]
<1>1. ResetTo(x, r)
  BY ResetFields
<1>2. sentinelResetMasterAndChangeAddress(x, new) = sentinelFlushConfig(z)
  BY DEF sentinelResetMasterAndChangeAddress
<1> HIDE DEF r
<1>3. /\ DOMAIN z = DOMAIN r /\ DOMAIN z.m = DOMAIN r.m /\ z.mi = r.mi
      /\ z.epoch = r.epoch /\ z.out = r.out
      /\ z.m.addr = new /\ z.m.cfg = r.m.cfg /\ z.m.lepoch = r.m.lepoch
      /\ z.m.leader = None /\ z.m.fepoch = r.m.fepoch /\ z.m.fstate = NoFailover
      /\ z.m.promoted = None
      /\ z.slaves = [a \in S |-> createSentinelRedisInstance("slave")]
  BY <1>1 DEF ResetTo, Good, Core, Shaped
<1> HIDE DEF z, S
<1>4. \A a \in DOMAIN z.slaves : "flags" \in DOMAIN z.slaves[a] /\ z.slaves[a].flags = {}
  BY <1>3 DEF createSentinelRedisInstance
<1>5. Core(z)
  BY <1>1, <1>3, <1>4 DEF ResetTo, Good, Core, Shaped, Counted, Idle, Promotion
<1> QED
  BY <1>1, <1>2, <1>3, <1>5, FlushKeeps DEF ResetTo, Keeps, Votes

(* The switch to the promoted slave is such a change of address. *)
LEMMA SwitchKeeps ==
  ASSUME NEW x, Good(x), x.m.addr # None
  PROVE  Keeps(x, sentinelFailoverSwitchToPromotedSlave(x))
BY ChangeAddressKeeps DEF sentinelFailoverSwitchToPromotedSlave

--------------------------------------------------------------------------------
(* The check of an instance changes only its flag sdown. *)
LEMMA SubjectivelyDown ==
  ASSUME NEW i, NEW master, "flags" \in DOMAIN i
  PROVE  LET j == sentinelCheckSubjectivelyDown(i, master) IN
         /\ DOMAIN j = DOMAIN i
         /\ \A f : f # "sdown" => (f \in j.flags <=> f \in i.flags)
BY DEF sentinelCheckSubjectivelyDown

(* The check of the master. *)
LEMMA SubjectivelyDownKeeps ==
  ASSUME NEW x, Good(x)
  PROVE  Keeps(x, [x EXCEPT !.mi = sentinelCheckSubjectivelyDown(@, TRUE)])
<1> DEFINE y == [x EXCEPT !.mi = sentinelCheckSubjectivelyDown(@, TRUE)]
<1>1. Alike(x, y)
  BY SubjectivelyDown DEF Alike, Good, Core, Shaped
<1> QED
  BY <1>1, AlikeKeeps

(* Only the flag odown changes. *)
LEMMA ObjectivelyDownKeeps ==
  ASSUME NEW x, Good(x)
  PROVE  Keeps(x, sentinelCheckObjectivelyDown(x))
<1>1. sentinelCheckObjectivelyDown(x) \in {Mark(x, {"odown"}, {}), Mark(x, {}, {"odown"})}
  BY DEF sentinelCheckObjectivelyDown
<1> QED
  BY <1>1, MarkKeeps

(* The check of the slaves. *)
LEMMA SlavesDownKeeps ==
  ASSUME NEW x, Good(x)
  PROVE  Keeps(x, [x EXCEPT !.slaves = [a \in DOMAIN @ |->
                                          sentinelCheckSubjectivelyDown(@[a], FALSE)]])
<1> DEFINE y == [x EXCEPT !.slaves = [a \in DOMAIN @ |->
                                        sentinelCheckSubjectivelyDown(@[a], FALSE)]]
<1>1. Alike(x, y)
  <2>1. /\ y.slaves = [a \in DOMAIN x.slaves |-> sentinelCheckSubjectivelyDown(x.slaves[a], FALSE)]
        /\ DOMAIN y = DOMAIN x /\ y.m = x.m /\ y.mi = x.mi /\ y.epoch = x.epoch /\ y.conf = x.conf
        /\ y.out = x.out
    BY DEF Good, Core, Shaped
  <2> HIDE DEF y
  <2>2. \A a \in DOMAIN x.slaves :
          /\ "flags" \in DOMAIN y.slaves[a]
          /\ \A f : f # "sdown" => (f \in y.slaves[a].flags <=> f \in x.slaves[a].flags)
    <3>1. \A a \in DOMAIN x.slaves : "flags" \in DOMAIN x.slaves[a]
      BY DEF Good, Core, Shaped
    <3>2. \A a \in DOMAIN x.slaves : y.slaves[a] = sentinelCheckSubjectivelyDown(x.slaves[a], FALSE)
      BY <2>1
    <3> QED
      BY <3>1, <3>2, SubjectivelyDown
  <2> QED
    BY <2>1, <2>2 DEF Alike, Good, Core, Shaped
<1> QED
  BY <1>1, AlikeKeeps

(* Asking the others forgets late answers and sends the current epoch. *)
LEMMA AskKeeps ==
  ASSUME NEW x, NEW A, Good(x)
  PROVE  Keeps(x, sentinelAskMasterStateToOtherSentinels(x, A))
<1> DEFINE Old == [x EXCEPT !.peers = [t \in DOMAIN @ |->
                     IF @[t].late THEN [@[t] EXCEPT !.down = FALSE, !.leader = None] ELSE @[t]]]
           Ask(t) == [type |-> "ask", from |-> x.me, to |-> t, addr |-> x.m.addr, epoch |-> x.epoch,
                      id |-> IF x.m.fstate > NoFailover THEN x.me ELSE None]
           M == {Ask(t) : t \in {p \in A : x.peers[p].link}}
<1>1. Alike(x, Old)
  BY DEF Alike, Good, Core, Shaped
<1>2. \A m \in M : MessageOK(m)
  BY DEF MessageOK, Good, Core, Counted
<1>3. sentinelAskMasterStateToOtherSentinels(x, A) \in {Old, Send(Old, M)}
  BY DEF sentinelAskMasterStateToOtherSentinels
<1> HIDE DEF Old, M
<1>4. Keeps(x, Old)
  BY <1>1, AlikeKeeps
<1>5. Keeps(Old, Send(Old, M))
  BY <1>2, <1>4, SendKeeps DEF Keeps
<1> QED
  BY <1>3, <1>4, <1>5, KeepsTrans

(* The answer of SENTINEL is-master-down-by-addr, with its vote. *)
LEMMA IsMasterDownKeeps ==
  ASSUME NEW x, NEW q, Good(x), q.type = "ask", MessageOK(q)
  PROVE  Keeps(x, IsMasterDownByAddr(x, q))
<1> DEFINE here == Monitored(x) /\ q.addr = x.m.addr
           y == IF here /\ q.id # None THEN sentinelVoteLeader(x, q.epoch, q.id) ELSE x
           R(d, l) == {[type |-> "reply", from |-> x.me, to |-> q.from, down |-> d, leader |-> l,
                        epoch |-> y.m.lepoch]}
<1>1. Keeps(x, y)
  BY VoteLeaderKeeps, KeepsRefl DEF MessageOK
<1>2. \E d, l : IsMasterDownByAddr(x, q) = Send(y, R(d, l))
  BY DEF IsMasterDownByAddr
<1> HIDE DEF y
<1>3. \A d, l : \A m \in R(d, l) : MessageOK(m)
  BY DEF MessageOK
<1> HIDE DEF R
<1>4. \A d, l : Keeps(y, Send(y, R(d, l)))
  BY <1>1, <1>3, SendKeeps DEF Keeps
<1> QED
  BY <1>1, <1>2, <1>4, KeepsTrans

(* An answer changes only what is known of the Sentinel that sent it. *)
LEMMA ReplyKeeps ==
  ASSUME NEW x, NEW r, Good(x)
  PROVE  Keeps(x, sentinelReceiveIsMasterDownReply(x, r))
<1>1. Alike(x, sentinelReceiveIsMasterDownReply(x, r))
  BY DEF Alike, sentinelReceiveIsMasterDownReply, Good, Core, Shaped
<1> QED
  BY <1>1, AlikeKeeps

--------------------------------------------------------------------------------
(* INFO changes no flag of an instance by itself. *)
LEMMA ReportedFlags ==
  ASSUME NEW i, NEW r, "flags" \in DOMAIN i
  PROVE  DOMAIN Reported(i, r) = DOMAIN i /\ Reported(i, r).flags = i.flags
BY DEF Reported

(* INFO of the master: new slaves have no flags. *)
LEMMA InfoMasterKeeps ==
  ASSUME NEW x, NEW r, Good(x), x.m.addr # None
  PROVE  Keeps(x, InfoMaster(x, r))
<1> DEFINE New == r.slaves \ DOMAIN x.slaves
           y == [x EXCEPT !.mi = Reported(@, r),
                          !.slaves = [a \in DOMAIN @ \cup New |->
                            IF a \in New THEN createSentinelRedisInstance("slave") ELSE @[a]]]
<1>1. InfoMaster(x, r) \in {y, sentinelFlushConfig(y)}
  BY DEF InfoMaster
<1>2. /\ DOMAIN y = DOMAIN x /\ y.m = x.m /\ y.epoch = x.epoch /\ y.conf = x.conf /\ y.out = x.out
      /\ y.mi = Reported(x.mi, r)
      /\ y.slaves = [a \in DOMAIN x.slaves \cup New |->
                       IF a \in New THEN createSentinelRedisInstance("slave") ELSE x.slaves[a]]
  BY DEF Good, Core, Shaped
<1> HIDE DEF y
<1>3. "flags" \in DOMAIN y.mi /\ y.mi.flags = x.mi.flags
  BY <1>2, ReportedFlags DEF Good, Core, Shaped
<1>4. /\ DOMAIN y.slaves = DOMAIN x.slaves \cup New
      /\ \A a \in DOMAIN x.slaves : y.slaves[a] = x.slaves[a]
      /\ \A a \in New : "flags" \in DOMAIN y.slaves[a] /\ y.slaves[a].flags = {}
  BY <1>2 DEF createSentinelRedisInstance
<1> HIDE DEF New
<1>5. Shaped(y) /\ Counted(y) /\ Idle(y)
  BY <1>2, <1>3, <1>4 DEF Good, Core, Shaped, Counted, Idle
<1>6. Promotion(y)
  <2>1. x.m.promoted # None => x.m.promoted \in DOMAIN x.slaves
    BY DEF Good, Core, Promotion
  <2>2. \A a \in DOMAIN y.slaves : a \notin DOMAIN x.slaves =>
          /\ "promoted" \notin y.slaves[a].flags /\ "sent" \notin y.slaves[a].flags
          /\ "inprog" \notin y.slaves[a].flags
    BY <1>4
  <2>3. \A a \in DOMAIN y.slaves :
          "promoted" \in y.slaves[a].flags <=> a = x.m.promoted /\ a # None
    BY <1>4, <2>1, <2>2 DEF Good, Core, Promotion
  <2>4. \A a \in DOMAIN y.slaves :
          "sent" \in y.slaves[a].flags \/ "inprog" \in y.slaves[a].flags => x.m.fstate >= ReconfSlaves
    BY <1>4, <2>2 DEF Good, Core, Promotion
  <2> QED
    BY <1>2, <1>3, <1>4, <2>1, <2>3, <2>4, ZenonT(30) DEF Good, Core, Promotion
<1>7. Core(y) /\ Saved(y)
  BY <1>2, <1>5, <1>6 DEF Good, Core, Saved
<1> QED
  BY <1>1, <1>2, <1>7, FlushKeeps DEF Keeps, Votes, Good

(* The promoted slave reports that it is a master: slaves are reconfigured from now on. *)
LEMMA InfoPromotedKeeps ==
  ASSUME NEW x, NEW a, Good(x), x.m.addr # None
  PROVE  Keeps(x, InfoPromoted(x, a))
<1> DEFINE z == [x EXCEPT !.m.cfg = x.m.fepoch, !.m.fstate = ReconfSlaves, !.m.slow = FALSE]
<1>1. CASE SlaveHas(x, a, "promoted") /\ Is(x, "progress") /\ x.m.fstate = WaitPromotion
  <2>1. InfoPromoted(x, a) = sentinelFlushConfig(z)
    BY <1>1 DEF InfoPromoted
  <2>2. /\ DOMAIN z = DOMAIN x /\ DOMAIN z.m = DOMAIN x.m
        /\ z.mi = x.mi /\ z.epoch = x.epoch /\ z.slaves = x.slaves /\ z.out = x.out
        /\ z.conf = x.conf /\ z.m.leader = x.m.leader
        /\ z.m.addr = x.m.addr /\ z.m.cfg = x.m.fepoch /\ z.m.lepoch = x.m.lepoch
        /\ z.m.fepoch = x.m.fepoch /\ z.m.fstate = ReconfSlaves /\ z.m.promoted = x.m.promoted
    BY DEF Good, Core, Shaped
  <2> HIDE DEF z
  <2>3. Shaped(z) /\ Counted(z) /\ Idle(z)
    BY <2>2 DEF Good, Core, Shaped, Counted, Idle
  <2>4. Promotion(z)
    BY <1>1, <2>2 DEF Good, Core, Counted, Promotion
  <2>5. Core(z)
    BY <2>2, <2>3, <2>4 DEF Good, Core
  <2> QED
    BY <2>1, <2>2, <2>5, FlushKeeps DEF Keeps, Votes
<1>2. CASE ~(SlaveHas(x, a, "promoted") /\ Is(x, "progress") /\ x.m.fstate = WaitPromotion)
  <2>1. InfoPromoted(x, a) \in {x, sentinelSendSlaveOf(x, a, x.m.addr)}
    BY <1>2 DEF InfoPromoted
  <2> QED
    BY <2>1, SlaveOfKeeps, KeepsRefl
<1> QED
  BY <1>1, <1>2

(* A slave that was told moves from sent to inprog to done. *)
LEMMA InfoSlaveKeeps ==
  ASSUME NEW x, NEW a \in DOMAIN x.slaves, Good(x)
  PROVE  Keeps(x, InfoSlave(x, a))
<1> DEFINE s == x.slaves[a]
           Fixed == IF /\ s.host # x.m.addr /\ sentinelMasterLooksSane(x) /\ "sdown" \notin s.flags
                       /\ s.confOld
                    THEN sentinelSendSlaveOf(x, a, x.m.addr) ELSE x
           Inprog == IF SlaveHas(Fixed, a, "sent") /\ s.host = Fixed.m.promoted
                     THEN MarkSlave(Fixed, a, {"inprog"}, {"sent"}) ELSE Fixed
           Done == IF SlaveHas(Inprog, a, "inprog") /\ s.up
                   THEN MarkSlave(Inprog, a, {"done"}, {"inprog"}) ELSE Inprog
<1>1. InfoSlave(x, a) = Done
  BY DEF InfoSlave
<1>2. Keeps(x, Fixed) /\ Fixed.slaves = x.slaves
  BY SlaveOfKeeps, KeepsRefl DEF sentinelSendSlaveOf, Send, Good, Core, Shaped
<1> HIDE DEF Fixed
<1>3. Keeps(Fixed, Inprog) /\ a \in DOMAIN Inprog.slaves
  <2>1. CASE SlaveHas(Fixed, a, "sent") /\ s.host = Fixed.m.promoted
    <3>1. Good(Fixed) /\ Fixed.m.fstate >= ReconfSlaves /\ Shaped(Fixed)
      BY <1>2, <2>1 DEF Keeps, Good, Core, Promotion
    <3>2. Inprog = MarkSlaves(Fixed, {a}, {"inprog"}, {"sent"})
      BY <2>1 DEF MarkSlave
    <3> DEFINE on == {"inprog"}
               off == {"sent"}
               A == {a}
    <3>3. "promoted" \notin on \cup off
      OBVIOUS
    <3> HIDE DEF Inprog, on, off, A
    <3>4. Keeps(Fixed, Inprog)
      BY <3>1, <3>2, <3>3, MarkSlavesKeeps DEF on, off
    <3>5. Marked(Fixed, Inprog, A, on, off)
      BY <3>1, <3>2, MarkedSlaves DEF on, off, A
    <3> QED
      BY <1>2, <3>4, <3>5 DEF Marked
  <2>2. CASE ~(SlaveHas(Fixed, a, "sent") /\ s.host = Fixed.m.promoted)
    BY <1>2, <2>2, KeepsRefl DEF Keeps
  <2> QED
    BY <2>1, <2>2
<1> HIDE DEF Inprog
<1>4. Keeps(Inprog, Done)
  <2>1. CASE SlaveHas(Inprog, a, "inprog") /\ s.up
    <3>1. Good(Inprog) /\ Inprog.m.fstate >= ReconfSlaves
      BY <1>3, <2>1 DEF Keeps, Good, Core, Promotion
    <3>2. Done = MarkSlaves(Inprog, {a}, {"done"}, {"inprog"})
      BY <2>1 DEF MarkSlave
    <3> HIDE DEF Done
    <3>3. "promoted" \notin {"done"} \cup {"inprog"}
      OBVIOUS
    <3> QED
      BY <3>1, <3>2, <3>3, MarkSlavesKeeps
  <2>2. CASE ~(SlaveHas(Inprog, a, "inprog") /\ s.up)
    BY <1>3, <2>2, KeepsRefl DEF Keeps
  <2> QED
    BY <2>1, <2>2
<1> HIDE DEF Done
<1>5. Good(Fixed) /\ Good(Inprog)
  BY <1>2, <1>3 DEF Keeps
<1> QED
  BY <1>1, <1>2, <1>3, <1>4, <1>5, KeepsTrans

(* INFO as a whole. *)
LEMMA InfoKeeps ==
  ASSUME NEW x, NEW r, Good(x), r.type = "info", MessageOK(r)
  PROVE  Keeps(x, sentinelRefreshInstanceInfo(x, r))
<1>1. CASE r.from = x.m.addr
  BY <1>1, InfoMasterKeeps DEF sentinelRefreshInstanceInfo, MessageOK
<1>2. CASE r.from # x.m.addr /\ r.from \in DOMAIN x.slaves
  <2> DEFINE a == r.from
             z == [x EXCEPT !.slaves[a] = Reported(@, r)]
  <2>1. sentinelRefreshInstanceInfo(x, r) \in {z, InfoPromoted(z, a), InfoSlave(z, a)}
    BY <1>2 DEF sentinelRefreshInstanceInfo, InfoOfSlave
  <2>2. Alike(x, z)
    BY <1>2, ReportedFlags DEF Alike, Good, Core, Shaped
  <2>3. a \in DOMAIN z.slaves
    BY <1>2 DEF Good, Core, Shaped
  <2> HIDE DEF z
  <2>4. Keeps(x, z)
    BY <2>2, AlikeKeeps
  <2>5. Good(z) /\ z.m.addr # None
    BY <1>2, <2>4 DEF Keeps, Good, Core, Idle
  <2>6. Keeps(z, InfoPromoted(z, a)) /\ Keeps(z, InfoSlave(z, a))
    BY <2>3, <2>5, InfoPromotedKeeps, InfoSlaveKeeps
  <2> QED
    BY <2>1, <2>4, <2>6, KeepsTrans
<1>3. CASE r.from # x.m.addr /\ r.from \notin DOMAIN x.slaves
  BY <1>3, KeepsRefl DEF sentinelRefreshInstanceInfo
<1> QED
  BY <1>1, <1>2, <1>3

--------------------------------------------------------------------------------
(* Whatever becomes of the other Sentinels in the table. *)
LEMMA PeersKeep ==
  ASSUME NEW x, NEW P, Good(x)
  PROVE  Keeps(x, [x EXCEPT !.peers = P])
<1>1. Alike(x, [x EXCEPT !.peers = P])
  BY DEF Alike, Good, Core, Shaped
<1> QED
  BY <1>1, AlikeKeeps

(* The file may be written at any time. *)
LEMMA FlushGood ==
  ASSUME NEW x, Good(x)
  PROVE  Keeps(x, sentinelFlushConfig(x))
BY FlushKeeps DEF Keeps, Votes, Good

(* A hello adds, moves or cuts off other Sentinels. *)
LEMMA HelloPeerKeeps ==
  ASSUME NEW x, NEW h, Good(x)
  PROVE  Keeps(x, HelloPeer(x, h))
<1> DEFINE P(y) == [t \in DOMAIN y.peers \cup {h.from} |->
                      IF t = h.from THEN [NewPeer EXCEPT !.addr = h.addr] ELSE y.peers[t]]
           Q == [t \in DOMAIN x.peers \ {h.from} |-> x.peers[t]]
           R == [t \in DOMAIN x.peers |-> IF x.peers[t].addr = h.addr
                   THEN [x.peers[t] EXCEPT !.addr = None, !.link = FALSE] ELSE x.peers[t]]
           z(S) == [x EXCEPT !.peers = S]
           w(S) == [z(S) EXCEPT !.peers = P(z(S))]
<1>1. HelloPeer(x, h) \in {x, sentinelFlushConfig(w(Q)), sentinelFlushConfig(w(R))}
  BY DEF HelloPeer, removeMatchingSentinelFromMaster, Invalidated
<1>2. ASSUME NEW S
      PROVE  Keeps(x, sentinelFlushConfig(w(S)))
  <2>1. Keeps(x, z(S))
    BY PeersKeep
  <2> DEFINE y == z(S)
             T == P(y)
  <2>2. w(S) = [y EXCEPT !.peers = T]
    OBVIOUS
  <2> DEFINE v == w(S)
  <2> HIDE DEF y, T, v
  <2>3. Keeps(x, y) /\ Good(y)
    BY <2>1 DEF Keeps, y
  <2>4. Keeps(y, v) /\ Good(v)
    <3>1. Keeps(y, [y EXCEPT !.peers = T])
      BY <2>3, PeersKeep
    <3>2. v = [y EXCEPT !.peers = T]
      BY <2>2 DEF v
    <3>3. Keeps(y, v)
      BY <3>1, <3>2, Zenon
    <3> QED
      BY <3>3 DEF Keeps
  <2>5. Keeps(v, sentinelFlushConfig(v))
    BY <2>4, FlushGood
  <2> QED
    BY <2>3, <2>4, <2>5, KeepsTrans DEF v
<1> HIDE DEF w, Q, R
<1> QED
  BY <1>1, <1>2, KeepsRefl

(* A hello may bring a new epoch, and a new master with a later configuration epoch. *)
LEMMA HelloKeeps ==
  ASSUME NEW x, NEW h, Good(x), h.type = "hello", MessageOK(h)
  PROVE  Keeps(x, sentinelProcessHelloMessage(x, h))
<1>1. CASE x.m.addr = None
  BY <1>1, KeepsRefl DEF sentinelProcessHelloMessage
<1>2. CASE x.m.addr # None
  <2> DEFINE p == HelloPeer(x, h)
             e == IF h.epoch > p.epoch THEN sentinelFlushConfig([p EXCEPT !.epoch = h.epoch]) ELSE p
             c == [e EXCEPT !.m.cfg = h.cfg]
  <2>1. sentinelProcessHelloMessage(x, h)
          \in {e, c, sentinelResetMasterAndChangeAddress(c, h.master)}
    BY <1>2 DEF sentinelProcessHelloMessage
  <2>2. Keeps(x, p) /\ Good(p)
    BY HelloPeerKeeps DEF Keeps
  <2> HIDE DEF p
  <2>3. Keeps(p, e) /\ Good(e)
    BY <2>2, EpochKeeps, KeepsRefl DEF Keeps, MessageOK
  <2> HIDE DEF e
  <2>4. Keeps(e, c) /\ Good(c)
    <3>1. /\ DOMAIN c = DOMAIN e /\ DOMAIN c.m = DOMAIN e.m
          /\ c.mi = e.mi /\ c.epoch = e.epoch /\ c.slaves = e.slaves /\ c.out = e.out
          /\ c.conf = e.conf /\ c.m.leader = e.m.leader
          /\ c.m.addr = e.m.addr /\ c.m.cfg = h.cfg /\ c.m.lepoch = e.m.lepoch
          /\ c.m.fepoch = e.m.fepoch /\ c.m.fstate = e.m.fstate /\ c.m.promoted = e.m.promoted
      BY <2>3 DEF Good, Core, Shaped
    <3> HIDE DEF c
    <3>2. Core(c)
      BY <2>3, <3>1 DEF MessageOK, Good, Core, Shaped, Counted, Idle, Promotion
    <3> QED
      BY <2>3, <3>1, <3>2 DEF Keeps, Good, Saved, Votes
  <2> HIDE DEF c
  <2>5. Keeps(c, sentinelResetMasterAndChangeAddress(c, h.master))
    BY <2>4, ChangeAddressKeeps DEF MessageOK
  <2>6. Keeps(x, e) /\ Keeps(x, c)
    BY <2>2, <2>3, <2>4, KeepsTrans
  <2> QED
    BY <2>1, <2>4, <2>5, <2>6, KeepsTrans
<1> QED
  BY <1>1, <1>2

(* Whatever message arrives. *)
LEMMA HandleKeeps ==
  ASSUME NEW x, NEW m, Good(x), MessageOK(m)
  PROVE  Keeps(x, Handle(x, m))
BY IsMasterDownKeeps, ReplyKeeps, HelloKeeps, InfoKeeps, KeepsRefl DEF Handle

--------------------------------------------------------------------------------
(* The timer's work for the master. *)
LEMMA HandleMasterKeeps ==
  ASSUME NEW x, NEW A, NEW tie, Good(x), x.m.addr # None
  PROVE  Keeps(x, HandleMaster(x, A, tie))
<1> DEFINE i == [x EXCEPT !.mi = sentinelCheckSubjectivelyDown(@, TRUE)]
           d == sentinelCheckObjectivelyDown(i)
           b == sentinelStartFailover(d)
           s == sentinelAskMasterStateToOtherSentinels(b, DOMAIN d.peers)
           t == IF MayStart(d) THEN s ELSE d
           f == sentinelFailoverStateMachine(t, tie)
           g == sentinelAskMasterStateToOtherSentinels(f, A)
<1>1. HandleMaster(x, A, tie) = g
  BY DEF HandleMaster, sentinelStartFailoverIfNeeded
<1>2. Keeps(x, i) /\ Good(i)
  BY SubjectivelyDownKeeps DEF Keeps
<1> HIDE DEF i
<1>3. Keeps(i, d) /\ Good(d)
  BY <1>2, ObjectivelyDownKeeps DEF Keeps
<1> HIDE DEF d
<1>4. d.m.addr # None
  BY <1>2, <1>3 DEF Keeps
<1>5. Keeps(d, t)
  <2>1. CASE MayStart(d)
    <3>1. Keeps(d, b) /\ Good(b)
      BY <1>3, <1>4, <2>1, StartKeeps DEF MayStart, Keeps
    <3> HIDE DEF b
    <3>2. Keeps(b, s)
      BY <3>1, AskKeeps
    <3> QED
      BY <1>3, <2>1, <3>1, <3>2, KeepsTrans
  <2>2. CASE ~MayStart(d)
    BY <1>3, <2>2, KeepsRefl
  <2> QED
    BY <2>1, <2>2
<1> HIDE DEF t
<1>6. Good(t) /\ t.m.addr # None
  BY <1>4, <1>5 DEF Keeps
<1>7. Keeps(t, f) /\ Good(f)
  BY <1>6, StateMachineKeeps DEF Keeps
<1> HIDE DEF f
<1>8. Keeps(f, g)
  BY <1>7, AskKeeps
<1> HIDE DEF g
<1>9. Keeps(x, d)
  BY <1>2, <1>3, KeepsTrans
<1>10. Keeps(x, t)
  BY <1>3, <1>5, <1>9, KeepsTrans
<1>11. Keeps(x, f)
  BY <1>6, <1>7, <1>10, KeepsTrans
<1> QED
  BY <1>1, <1>7, <1>8, <1>11, KeepsTrans

(* One call of sentinelTimer. *)
LEMMA TimerKeeps ==
  ASSUME NEW x, NEW L, NEW Peers, NEW A, NEW tie, NEW jump, Good(x)
  PROVE  Keeps(x, sentinelTimer(x, L, Peers, A, tie, jump))
<1> DEFINE j == sentinelCheckTiltCondition(x, jump)
           k == [j EXCEPT !.mi = sentinelReconnectInstance(@, j.m.addr \in L),
                   !.slaves = [a \in DOMAIN @ |-> sentinelReconnectInstance(@[a], a \in L)],
                   !.peers = [t \in DOMAIN @ |-> sentinelReconnectInstance(@[t], @[t].addr \in Peers)]]
           n == [k EXCEPT !.tilt = FALSE, !.tiltOld = FALSE]
           h == HandleMaster(n, A, tie)
           d == [h EXCEPT !.slaves = [a \in DOMAIN @ |-> sentinelCheckSubjectivelyDown(@[a], FALSE)]]
           w == sentinelFailoverSwitchToPromotedSlave(d)
<1>1. /\ sentinelTimer(x, L, Peers, A, tie, jump) \in {j, k, d, w}
      /\ j.m.addr = None => sentinelTimer(x, L, Peers, A, tie, jump) = j
  BY DEF sentinelTimer, sentinelHandleDictOfRedisInstances
<1>2. Keeps(x, j) /\ Good(j)
  <2>1. Alike(x, j)
    BY DEF sentinelCheckTiltCondition, Alike, Good, Core, Shaped
  <2> HIDE DEF j
  <2> QED
    BY <2>1, AlikeKeeps DEF Keeps
<1> HIDE DEF j
<1>3. CASE j.m.addr = None
  BY <1>1, <1>2, <1>3
<1>4. CASE j.m.addr # None
  <2>1. Keeps(j, k) /\ Good(k)
    <3>1. /\ DOMAIN k = DOMAIN j /\ k.m = j.m /\ k.epoch = j.epoch /\ k.conf = j.conf /\ k.out = j.out
          /\ k.mi = sentinelReconnectInstance(j.mi, j.m.addr \in L)
          /\ k.slaves = [a \in DOMAIN j.slaves |-> sentinelReconnectInstance(j.slaves[a], a \in L)]
      BY <1>2 DEF Good, Core, Shaped
    <3> HIDE DEF k
    <3>2. Alike(j, k)
      BY <1>2, <3>1 DEF sentinelReconnectInstance, Alike, Good, Core, Shaped
    <3> QED
      BY <1>2, <3>2, AlikeKeeps DEF Keeps
  <2> HIDE DEF k
  <2>2. Keeps(k, n) /\ Good(n)
    <3>1. Alike(k, n)
      BY <2>1 DEF Alike, Good, Core, Shaped
    <3> HIDE DEF n
    <3> QED
      BY <2>1, <3>1, AlikeKeeps DEF Keeps
  <2> HIDE DEF n
  <2>3. n.m.addr # None
    BY <1>4, <2>1, <2>2 DEF Keeps
  <2>4. Keeps(n, h) /\ Good(h) /\ h.m.addr # None
    BY <2>2, <2>3, HandleMasterKeeps DEF Keeps
  <2> HIDE DEF h
  <2>5. Keeps(h, d) /\ Good(d)
    BY <2>4, SlavesDownKeeps DEF Keeps
  <2> HIDE DEF d
  <2>6. d.m.addr # None
    BY <2>4, <2>5 DEF Keeps
  <2>7. Keeps(d, w)
    BY <2>5, <2>6, SwitchKeeps
  <2> HIDE DEF w
  <2>8. Keeps(x, k)
    BY <1>2, <2>1, KeepsTrans
  <2>9. Keeps(x, n)
    BY <2>1, <2>2, <2>8, KeepsTrans
  <2>10. Keeps(x, h)
    BY <2>2, <2>4, <2>9, KeepsTrans
  <2>11. Keeps(x, d)
    BY <2>4, <2>5, <2>10, KeepsTrans
  <2>12. Keeps(x, w)
    BY <2>5, <2>7, <2>11, KeepsTrans
  <2> QED
    BY <1>1, <1>2, <2>8, <2>11, <2>12
<1> QED
  BY <1>3, <1>4

--------------------------------------------------------------------------------
(* The Sentinel keeps its vote and its master. *)
Tied(x, y) == Votes(x, y) /\ (x.m.addr # None => y.m.addr # None)
USE DEF Tied

(* Only SENTINEL REMOVE forgets the master, and the vote with it. *)
LEMMA CommandGood ==
  ASSUME NEW x, NEW c, Good(x)
  PROVE  LET y == sentinelCommand(x, c) IN
         Good(y) /\ (Tied(x, y) \/ (y.m.addr = None /\ c.op = "remove"))
<1> DEFINE y == sentinelCommand(x, c)
<1>1. CASE c.op = "failover"
  <2> DEFINE s == sentinelStartFailover(x)
  <2>1. y = x \/ (x.m.addr # None /\ "progress" \notin x.mi.flags /\ y = Mark(s, {"force"}, {}))
    BY <1>1 DEF sentinelCommand
  <2>2. x.m.addr # None /\ "progress" \notin x.mi.flags => Keeps(x, s) /\ Keeps(s, Mark(s, {"force"}, {}))
    BY StartKeeps, MarkKeeps DEF Keeps
  <2> HIDE DEF s, y
  <2>3. Keeps(x, y)
    BY <2>1, <2>2, KeepsRefl, KeepsTrans DEF Keeps
  <2> QED
    BY <2>3 DEF Keeps, y
<1>2. CASE c.op = "reset"
  BY <1>2, ResetKeeps, KeepsRefl DEF sentinelCommand, Keeps
<1>3. CASE c.op = "monitor"
  <2> DEFINE z == [x EXCEPT !.m = [NewMaster(c.addr) EXCEPT !.quorum = c.quorum],
                            !.mi = createSentinelRedisInstance("master")]
  <2>1. y = x \/ (x.m.addr = None /\ y = sentinelFlushConfig(z))
    BY <1>3 DEF sentinelCommand
  <2>2. ASSUME x.m.addr = None
        PROVE  Core(z) /\ z.m.lepoch = 0 /\ z.m.leader = None
    <3>1. /\ DOMAIN z = DOMAIN x /\ z.epoch = x.epoch /\ z.slaves = x.slaves /\ z.out = x.out
          /\ z.mi = createSentinelRedisInstance("master")
          /\ z.m = [NewMaster(c.addr) EXCEPT !.quorum = c.quorum]
      BY DEF Good, Core, Shaped
    <3> HIDE DEF z
    <3>2. /\ {"addr", "cfg", "leader", "lepoch", "fepoch", "fstate", "start", "slow", "promoted", "quorum"}
               \subseteq DOMAIN z.m
          /\ z.m.cfg = 0 /\ z.m.lepoch = 0 /\ z.m.fepoch = 0 /\ z.m.fstate = NoFailover
          /\ z.m.promoted = None /\ z.m.leader = None
      BY <3>1 DEF NewMaster
    <3>3. "flags" \in DOMAIN z.mi
      BY <3>1 DEF createSentinelRedisInstance
    <3>4. DOMAIN z.slaves = {}
      BY <2>2, <3>1 DEF Good, Core, Idle
    <3> QED
      BY <3>1, <3>2, <3>3, <3>4 DEF Good, Core, Shaped, Counted, Idle, Promotion
  <2> HIDE DEF z, y
  <2>3. CASE y = x
    BY <2>3, KeepsRefl DEF Keeps, y
  <2>4. CASE x.m.addr = None /\ y = sentinelFlushConfig(z)
    <3>1. x.m.lepoch = 0
      BY <2>4 DEF Good, Core, Idle
    <3> QED
      BY <2>2, <2>4, <3>1, FlushKeeps DEF Votes, y
  <2> QED
    BY <2>1, <2>3, <2>4
<1>4. CASE c.op = "remove"
  <2> DEFINE r == sentinelResetMaster(x, FALSE)
             z == [r EXCEPT !.m = NewMaster(None)]
  <2>1. y = x \/ y = sentinelFlushConfig(z)
    BY <1>4 DEF sentinelCommand
  <2>2. ResetTo(x, r)
    BY ResetFields
  <2> HIDE DEF r
  <2>3. Core(z) /\ z.m.addr = None
    <3>1. /\ DOMAIN z = DOMAIN r /\ z.epoch = r.epoch /\ z.slaves = r.slaves /\ z.out = r.out
          /\ z.mi = r.mi /\ z.m = NewMaster(None)
      BY <2>2 DEF ResetTo, Good, Core, Shaped
    <3> HIDE DEF z
    <3>2. /\ {"addr", "cfg", "leader", "lepoch", "fepoch", "fstate", "start", "slow", "promoted", "quorum"}
               \subseteq DOMAIN z.m
          /\ z.m.cfg = 0 /\ z.m.lepoch = 0 /\ z.m.fepoch = 0 /\ z.m.fstate = NoFailover
          /\ z.m.promoted = None /\ z.m.addr = None
      BY <3>1 DEF NewMaster
    <3> QED
      BY <2>2, <3>1, <3>2 DEF ResetTo, Good, Core, Shaped, Counted, Idle, Promotion
  <2> HIDE DEF z, y
  <2> QED
    BY <1>4, <2>1, <2>3, FlushKeeps, KeepsRefl DEF Keeps, y
<1>5. CASE c.op = "set"
  <2> DEFINE z == [x EXCEPT !.m.quorum = c.quorum]
  <2>1. y = x \/ y = sentinelFlushConfig(z)
    BY <1>5 DEF sentinelCommand
  <2>2. Alike(x, z)
    BY DEF Alike, Good, Core, Shaped
  <2> HIDE DEF z, y
  <2>3. Keeps(x, z) /\ Good(z)
    BY <2>2, AlikeKeeps DEF Keeps
  <2>4. Keeps(x, y)
    BY <2>1, <2>3, FlushGood, KeepsRefl, KeepsTrans
  <2> QED
    BY <2>4 DEF Keeps, y
<1>6. CASE c.op = "flushconfig"
  BY <1>6, FlushGood DEF sentinelCommand, Keeps
<1>7. CASE c.op \notin {"failover", "reset", "monitor", "remove", "set", "flushconfig"}
  BY <1>7, KeepsRefl DEF sentinelCommand, Keeps
<1> QED
  BY <1>1, <1>2, <1>3, <1>4, <1>5, <1>6, <1>7

(* The passing of time changes no vote and no failover state. *)
LEMMA AgedKeeps ==
  ASSUME NEW x, NEW w \in Clocks, Good(x)
  PROVE  Keeps(x, Aged(x, w))
<1>1. CASE w \in {"start", "slow", "votes", "tilted"}
  <2>1. Alike(x, Aged(x, w))
    BY <1>1 DEF Aged, Alike, Good, Core, Shaped
  <2> QED
    BY <2>1, AlikeKeeps
<1>2. CASE w = "info"
  <2>1. Alike(x, Aged(x, w))
    BY <1>2 DEF Aged, Alike, Good, Core, Shaped
  <2> QED
    BY <2>1, AlikeKeeps
<1>3. CASE w = "sync"
  <2>1. Alike(x, Aged(x, w))
    BY <1>3 DEF Aged, Alike, Good, Core, Shaped
  <2> QED
    BY <2>1, AlikeKeeps
<1>4. CASE w = "role"
  <2>1. Alike(x, Aged(x, w))
    BY <1>4 DEF Aged, Alike, Good, Core, Shaped
  <2> QED
    BY <2>1, AlikeKeeps
<1> QED
  BY <1>1, <1>2, <1>3, <1>4 DEF Clocks

(* Neither does a lost connection. *)
LEMMA ConnectionErrorKeeps ==
  ASSUME NEW x, NEW a, Good(x)
  PROVE  Keeps(x, instanceLinkConnectionError(x, a))
<1> DEFINE y == instanceLinkConnectionError(x, a)
<1>1. /\ DOMAIN y = DOMAIN x /\ y.m = x.m /\ y.epoch = x.epoch /\ y.conf = x.conf /\ y.out = x.out
      /\ y.mi = Cut(x.mi, x.m.addr = a)
      /\ y.slaves = [b \in DOMAIN x.slaves |-> Cut(x.slaves[b], b = a)]
  BY DEF instanceLinkConnectionError, Good, Core, Shaped
<1> HIDE DEF y
<1>2. Alike(x, y)
  BY <1>1 DEF Cut, Alike, Good, Core, Shaped
<1> QED
  BY <1>2, AlikeKeeps DEF y

(* What a Sentinel reads from its configuration file. *)
LEMMA ConfigurationGood ==
  ASSUME NEW c, c.epoch \in Nat, c.cfg \in Nat, c.lepoch \in Nat,
         c.addr = None => c.slaves = {} /\ c.lepoch = 0
  PROVE  LET y == sentinelHandleConfiguration(c) IN
         Good(y) /\ y.m.addr = c.addr /\ y.m.lepoch = c.lepoch /\ y.m.leader = None
<1> DEFINE y == sentinelHandleConfiguration(c)
<1>1. Max({c.epoch, c.cfg}) \in Nat
  BY DEF Max
<1>2. /\ {"epoch", "m", "mi", "slaves", "peers", "conf", "out"} \subseteq DOMAIN y
      /\ y.epoch = Max({c.epoch, c.cfg}) /\ y.conf = c /\ y.out = {}
      /\ y.mi = createSentinelRedisInstance("master")
      /\ y.slaves = [a \in c.slaves |-> createSentinelRedisInstance("slave")]
      /\ y.m = [NewMaster(c.addr) EXCEPT !.cfg = c.cfg, !.lepoch = c.lepoch, !.quorum = c.quorum,
                                         !.psyncs = c.psyncs]
  BY DEF sentinelHandleConfiguration
<1> HIDE DEF y
<1>3. /\ {"addr", "cfg", "leader", "lepoch", "fepoch", "fstate", "start", "slow", "promoted", "quorum"}
           \subseteq DOMAIN y.m
      /\ y.m.cfg = c.cfg /\ y.m.lepoch = c.lepoch /\ y.m.fepoch = 0 /\ y.m.fstate = NoFailover
      /\ y.m.promoted = None /\ y.m.leader = None /\ y.m.addr = c.addr
  BY <1>2 DEF NewMaster
<1>4. /\ "flags" \in DOMAIN y.mi /\ DOMAIN y.slaves = c.slaves
      /\ \A a \in c.slaves : "flags" \in DOMAIN y.slaves[a] /\ y.slaves[a].flags = {}
  BY <1>2 DEF createSentinelRedisInstance
<1>5. Shaped(y) /\ Counted(y)
  BY <1>1, <1>2, <1>3, <1>4 DEF Shaped, Counted
<1>6. Idle(y) /\ Saved(y)
  BY <1>2, <1>3, <1>4 DEF Idle, Saved
<1>7. Promotion(y)
  BY <1>2, <1>3, <1>4 DEF Promotion
<1> QED
  BY <1>2, <1>3, <1>5, <1>6, <1>7 DEF Good, Core, y

(* The vote is read back: it was saved. *)
LEMMA RestartKeeps ==
  ASSUME NEW x, Good(x)
  PROVE  Keeps(x, sentinelHandleConfiguration(x.conf))
<1> DEFINE c == x.conf
           y == sentinelHandleConfiguration(c)
<1>1. /\ c.epoch \in Nat /\ c.cfg \in Nat /\ c.lepoch = x.m.lepoch /\ c.lepoch \in Nat
      /\ c.addr = None => c.slaves = {} /\ c.lepoch = 0
      /\ c.addr = None <=> x.m.addr = None
  BY DEF Good, Saved, Core, Counted, Idle
<1> HIDE DEF c
<1>2. Good(y) /\ y.m.addr = c.addr /\ y.m.lepoch = c.lepoch /\ y.m.leader = None
  BY <1>1, ConfigurationGood
<1> HIDE DEF y
<1> QED
  BY <1>1, <1>2 DEF Keeps, Votes, y, c

--------------------------------------------------------------------------------
(* The system. *)
(* SENTINEL REMOVE is among the commands to come. *)
Removed == \E c \in left.script : c.op = "remove"

VoteStep ==
  /\ DOMAIN se' = DOMAIN se
  /\ \A s \in DOMAIN se : Tied(se[s], se'[s]) \/ (se'[s].m.addr = None /\ Removed)

(* One Sentinel takes a step and its commands leave. *)
LEMMA BecomesKeeps ==
  ASSUME NEW s \in DOMAIN se, NEW x, NEW gone, SentinelInv, Becomes(s, x, gone),
         Good(x), Tied(se[s], x) \/ (x.m.addr = None /\ Removed),
         up' \subseteq DOMAIN se, DOMAIN rs' = DOMAIN rs
  PROVE  SentinelInv' /\ VoteStep
<1> DEFINE y == Quiet(x)
<1>1. Alike(x, y) /\ y.m = x.m
  BY DEF Quiet, Alike, Good, Core, Shaped
<1>2. se' = [se EXCEPT ![s] = y] /\ \A m \in net' : m \in net \/ m \in x.out
  BY DEF Becomes
<1> HIDE DEF y
<1>3. Good(y)
  BY <1>1, AlikeKeeps DEF Keeps
<1>4. /\ DOMAIN se' = DOMAIN se
      /\ \A t \in DOMAIN se : se'[t] = IF t = s THEN y ELSE se[t]
  BY <1>2
<1>5. \A m \in x.out : MessageOK(m)
  BY DEF Good, Core
<1>6. SentinelInv'
  BY <1>2, <1>3, <1>4, <1>5 DEF SentinelInv
<1>7. VoteStep
  BY <1>1, <1>4 DEF VoteStep, Votes
<1> QED
  BY <1>6, <1>7

(* Every Sentinel takes a step that keeps its vote; messages may be lost. *)
LEMMA AllKeep ==
  ASSUME SentinelInv, DOMAIN se' = DOMAIN se, \A s \in DOMAIN se : Keeps(se[s], se'[s]),
         net' \subseteq net, up' \subseteq DOMAIN se, DOMAIN rs' = DOMAIN rs
  PROVE  SentinelInv' /\ VoteStep
BY DEF SentinelInv, VoteStep, Keeps

(* The states the scenarios start in satisfy the invariant. *)
LEMMA InitInv == Init => SentinelInv
<1> SUFFICES ASSUME NEW c \in Scenarios,
                    se = [s \in c.sentinels |-> Met(c, sentinelHandleConfiguration(Conf(c, s)))],
                    rs = [r \in c.slaves \cup {c.master} |->
                           [alive |-> r \notin c.dead,
                            master |-> IF r = c.master THEN None ELSE c.master, off |-> c.off[r]]],
                    net = {}, up = c.sentinels
             PROVE  SentinelInv
  BY DEF Init
<1>1. None \notin c.slaves /\ c.master # None
  BY ScenarioAssumption
<1>2. ASSUME NEW s
      PROVE  Good(Met(c, sentinelHandleConfiguration(Conf(c, s))))
  <2> DEFINE k == Conf(c, s)
             x == sentinelHandleConfiguration(k)
             y == Met(c, x)
  <2>1. k.epoch = 0 /\ k.cfg = 0 /\ k.lepoch = 0 /\ k.addr = c.master
    BY DEF Conf
  <2> HIDE DEF k
  <2>2. Good(x)
    BY <1>1, <2>1, ConfigurationGood
  <2> HIDE DEF x
  <2> DEFINE I(i, a) == [i EXCEPT !.link = a \notin c.dead, !.fresh = TRUE,
                           !.ping = IF a \in c.dead THEN "late" ELSE "none",
                           !.host = IF a = c.master THEN None ELSE c.master, !.off = c.off[a]]
  <2>3. /\ DOMAIN y = DOMAIN x /\ y.m = x.m /\ y.epoch = x.epoch /\ y.conf = x.conf /\ y.out = x.out
        /\ y.mi = I(x.mi, c.master) /\ y.slaves = [a \in DOMAIN x.slaves |-> I(x.slaves[a], a)]
    BY <2>2 DEF Met, Good, Core, Shaped
  <2> HIDE DEF y
  <2>4. Alike(x, y)
    <3>1. \A i, a : "flags" \in DOMAIN i => "flags" \in DOMAIN I(i, a) /\ I(i, a).flags = i.flags
      OBVIOUS
    <3> HIDE DEF I
    <3> QED
      BY <2>2, <2>3, <3>1 DEF Alike, Good, Core, Shaped
  <2> QED
    BY <2>2, <2>4, AlikeKeeps DEF Keeps, y, x, k
<1> QED
  BY <1>1, <1>2 DEF SentinelInv

(* A step of the system keeps the invariant and the votes. *)
LEMMA NextInv ==
  ASSUME SentinelInv, Next
  PROVE  SentinelInv' /\ VoteStep
<1>1. ASSUME NEW s \in DOMAIN se, Timer(s)
      PROVE  SentinelInv' /\ VoteStep
  <2>1. PICK A, tie, jump : Becomes(s, sentinelTimer(se[s], Live, up, A, tie, jump), {})
    BY <1>1 DEF Timer
  <2>2. Keeps(se[s], sentinelTimer(se[s], Live, up, A, tie, jump))
    BY TimerKeeps DEF SentinelInv
  <2>3. up' = up /\ rs' = rs
    BY <1>1 DEF Timer
  <2> QED
    BY <2>1, <2>2, <2>3, BecomesKeeps DEF Keeps, SentinelInv
<1>2. ASSUME NEW s \in DOMAIN se, Age(s)
      PROVE  SentinelInv' /\ VoteStep
  <2>1. PICK w \in Clocks : se' = [se EXCEPT ![s] = Aged(se[s], w)]
    BY <1>2 DEF Age
  <2>2. rs' = rs /\ net' = net /\ up' = up
    BY <1>2 DEF Age
  <2>3. Keeps(se[s], Aged(se[s], w))
    BY AgedKeeps DEF SentinelInv
  <2>4. /\ DOMAIN se' = DOMAIN se
        /\ \A t \in DOMAIN se : se'[t] = IF t = s THEN Aged(se[s], w) ELSE se[t]
    BY <2>1
  <2>5. \A t \in DOMAIN se : Keeps(se[t], se'[t])
    BY <2>3, <2>4, KeepsRefl DEF SentinelInv
  <2> QED
    BY <2>2, <2>4, <2>5, AllKeep DEF SentinelInv
<1>3. ASSUME NEW s \in DOMAIN se, Crash(s)
      PROVE  SentinelInv' /\ VoteStep
  <2>1. /\ se' = [t \in DOMAIN se |-> instanceLinkConnectionError(se[t], s)]
        /\ net' \subseteq net /\ rs' = rs /\ up' \subseteq up
    BY <1>3 DEF Crash
  <2>2. \A t \in DOMAIN se : Keeps(se[t], se'[t])
    BY <2>1, ConnectionErrorKeeps DEF SentinelInv
  <2> QED
    BY <2>1, <2>2, AllKeep DEF SentinelInv
<1>4. ASSUME NEW s \in DOMAIN se, Restart(s)
      PROVE  SentinelInv' /\ VoteStep
  <2>1. /\ se' = [se EXCEPT ![s] = sentinelHandleConfiguration(se[s].conf)]
        /\ net' = net /\ rs' = rs /\ up' = up \cup {s}
    BY <1>4 DEF Restart
  <2>2. Keeps(se[s], sentinelHandleConfiguration(se[s].conf))
    BY RestartKeeps DEF SentinelInv
  <2>3. /\ DOMAIN se' = DOMAIN se
        /\ \A t \in DOMAIN se : se'[t] = IF t = s THEN sentinelHandleConfiguration(se[s].conf)
                                        ELSE se[t]
    BY <2>1
  <2>4. \A t \in DOMAIN se : Keeps(se[t], se'[t])
    BY <2>2, <2>3, KeepsRefl DEF SentinelInv
  <2> QED
    BY <2>1, <2>3, <2>4, AllKeep DEF SentinelInv
<1>5. ASSUME NEW s \in DOMAIN se, OtherMaster(s)
      PROVE  SentinelInv' /\ VoteStep
  <2> DEFINE y == [se[s] EXCEPT !.epoch = @ + 1]
  <2>1. se' = [se EXCEPT ![s] = y] /\ net' = net /\ rs' = rs /\ up' = up
    BY <1>5 DEF OtherMaster
  <2>2. Good(se[s])
    BY DEF SentinelInv
  <2>3. Keeps(se[s], y)
    <3> DEFINE x == se[s]
    <3>1. /\ DOMAIN y = DOMAIN x /\ y.m = x.m /\ y.mi = x.mi /\ y.epoch = x.epoch + 1
          /\ y.slaves = x.slaves /\ y.conf = x.conf /\ y.out = x.out
      BY <2>2 DEF Good, Core, Shaped
    <3> HIDE DEF x, y
    <3>2. Good(x)
      BY <2>2 DEF x
    <3>3. Keeps(x, y)
      BY <3>1, <3>2 DEF Keeps, Good, Core, Shaped, Counted, Idle, Promotion, Saved, Votes
    <3> QED
      BY <3>3 DEF x
  <2> HIDE DEF y
  <2>4. DOMAIN se' = DOMAIN se /\ \A t \in DOMAIN se : se'[t] = IF t = s THEN y ELSE se[t]
    BY <2>1
  <2>5. \A t \in DOMAIN se : Keeps(se[t], se'[t])
    BY <2>3, <2>4, KeepsRefl DEF SentinelInv
  <2> QED
    BY <2>1, <2>4, <2>5, AllKeep DEF SentinelInv
<1>6. ASSUME NEW s \in DOMAIN se, NEW a \in DOMAIN rs, Info(s, a)
      PROVE  SentinelInv' /\ VoteStep
  <2>1. /\ se' = se /\ rs' = rs /\ up' = up
        /\ \A m \in net' : m \in net \/ (m.type = "info" /\ m.from = a)
    BY <1>6 DEF Info
  <2>2. \A m \in net' : MessageOK(m)
    BY <2>1 DEF SentinelInv, MessageOK
  <2>3. \A t \in DOMAIN se : Keeps(se[t], se'[t])
    BY <2>1, KeepsRefl DEF SentinelInv
  <2> QED
    BY <2>1, <2>2, <2>3 DEF SentinelInv, VoteStep, Keeps
<1>7. ASSUME NEW s \in DOMAIN se, NEW a \in DOMAIN rs, Hello(s, a)
      PROVE  SentinelInv' /\ VoteStep
  <2> DEFINE H(T) == {[type |-> "hello", from |-> se[s].me, to |-> t, addr |-> se[s].conf.self,
                       epoch |-> se[s].epoch, master |-> sentinelGetCurrentMasterAddress(se[s]),
                       cfg |-> se[s].m.cfg] : t \in T \ {se[s].me}}
  <2>1. PICK T : Becomes(s, Send(se[s], H(T)), {})
    BY <1>7 DEF Hello, sentinelSendHello
  <2>2. up' = up /\ rs' = rs /\ a \in Watches(se[s])
    BY <1>7 DEF Hello
  <2>3. Good(se[s]) /\ a # None
    BY DEF SentinelInv
  <2>4. se[s].m.addr # None
    BY <2>2, <2>3 DEF Watches, Good, Core, Idle
  <2>5. sentinelGetCurrentMasterAddress(se[s]) # None
    BY <2>4 DEF sentinelGetCurrentMasterAddress
  <2>6. se[s].epoch \in Nat /\ se[s].m.cfg \in Nat
    BY <2>3 DEF Good, Core, Counted
  <2>7. \A m \in H(T) : MessageOK(m)
    BY <2>5, <2>6 DEF MessageOK
  <2> HIDE DEF H
  <2>8. Keeps(se[s], Send(se[s], H(T)))
    BY <2>3, <2>7, SendKeeps
  <2> QED
    BY <2>1, <2>2, <2>8, BecomesKeeps DEF Keeps, SentinelInv
<1>8. ASSUME NEW s \in DOMAIN se, NEW a \in DOMAIN rs, Ping(s, a)
      PROVE  SentinelInv' /\ VoteStep
  <2> DEFINE x == se[s]
             y(on) == [x EXCEPT !.mi = sentinelPingReplyCallback(@, on)]
             z(on) == [x EXCEPT !.slaves[a] = sentinelPingReplyCallback(@, on)]
  <2>1. PICK on : \/ se' = [se EXCEPT ![s] = y(on)]
                  \/ a \in DOMAIN x.slaves /\ se' = [se EXCEPT ![s] = z(on)]
    BY <1>8 DEF Ping, Watches
  <2>2. net' = net /\ rs' = rs /\ up' = up
    BY <1>8 DEF Ping
  <2>3. Good(x)
    BY DEF SentinelInv
  <2>4. Alike(x, y(on)) /\ (a \in DOMAIN x.slaves => Alike(x, z(on)))
    BY <2>3 DEF sentinelPingReplyCallback, Alike, Good, Core, Shaped
  <2> HIDE DEF y, z
  <2>5. Keeps(x, y(on)) /\ (a \in DOMAIN x.slaves => Keeps(x, z(on)))
    BY <2>3, <2>4, AlikeKeeps
  <2>6. PICK w : Keeps(x, w) /\ se' = [se EXCEPT ![s] = w]
    BY <2>1, <2>5
  <2>7. DOMAIN se' = DOMAIN se /\ \A t \in DOMAIN se : se'[t] = IF t = s THEN w ELSE se[t]
    BY <2>6
  <2>8. \A t \in DOMAIN se : Keeps(se[t], se'[t])
    BY <2>6, <2>7, KeepsRefl DEF SentinelInv
  <2> QED
    BY <2>2, <2>7, <2>8, AllKeep DEF SentinelInv
<1>9. ASSUME NEW m \in net, Deliver(m)
      PROVE  SentinelInv' /\ VoteStep
  <2>1. Becomes(m.to, Handle(se[m.to], m), {m}) /\ up' = up /\ rs' = rs /\ m.to \in DOMAIN se
    BY <1>9 DEF Deliver, SentinelInv
  <2>2. Keeps(se[m.to], Handle(se[m.to], m))
    BY <2>1, HandleKeeps DEF SentinelInv
  <2> QED
    BY <2>1, <2>2, BecomesKeeps DEF Keeps, SentinelInv
<1>10. ASSUME NEW m \in net, SlaveOf(m) \/ Lose(m)
       PROVE  SentinelInv' /\ VoteStep
  <2>1. se' = se /\ net' \subseteq net /\ up' = up /\ DOMAIN rs' = DOMAIN rs
    BY <1>10 DEF SlaveOf, Lose
  <2>2. \A t \in DOMAIN se : Keeps(se[t], se'[t])
    BY <2>1, KeepsRefl DEF SentinelInv
  <2> QED
    BY <2>1, <2>2, AllKeep DEF SentinelInv
<1>11. ASSUME NEW r \in DOMAIN rs, Kill(r)
       PROVE  SentinelInv' /\ VoteStep
  <2>1. /\ se' = [t \in DOMAIN se |-> instanceLinkConnectionError(se[t], r)]
        /\ net' \subseteq net /\ DOMAIN rs' = DOMAIN rs /\ up' = up
    BY <1>11 DEF Kill
  <2>2. \A t \in DOMAIN se : Keeps(se[t], se'[t])
    BY <2>1, ConnectionErrorKeeps DEF SentinelInv
  <2> QED
    BY <2>1, <2>2, AllKeep DEF SentinelInv
<1>12. ASSUME NEW r \in DOMAIN rs, Revive(r)
       PROVE  SentinelInv' /\ VoteStep
  <2>1. se' = se /\ net' = net /\ up' = up /\ DOMAIN rs' = DOMAIN rs
    BY <1>12 DEF Revive
  <2>2. \A t \in DOMAIN se : Keeps(se[t], se'[t])
    BY <2>1, KeepsRefl DEF SentinelInv
  <2> QED
    BY <2>1, <2>2, AllKeep DEF SentinelInv
<1>13. ASSUME NEW c \in left.script, Command(c)
       PROVE  SentinelInv' /\ VoteStep
  <2>1. Becomes(c.at, sentinelCommand(se[c.at], c), {}) /\ up' = up /\ rs' = rs /\ c.at \in DOMAIN se
    BY <1>13 DEF Command, SentinelInv
  <2> DEFINE y == sentinelCommand(se[c.at], c)
  <2>2. Good(y) /\ (Tied(se[c.at], y) \/ (y.m.addr = None /\ Removed))
    BY <2>1, CommandGood DEF SentinelInv, Removed
  <2>3. up' \subseteq DOMAIN se /\ DOMAIN rs' = DOMAIN rs /\ Becomes(c.at, y, {})
    BY <2>1 DEF SentinelInv
  <2> HIDE DEF y
  <2> QED
    BY <2>1, <2>2, <2>3, BecomesKeeps
<1> QED
  BY <1>1, <1>2, <1>3, <1>4, <1>5, <1>6, <1>7, <1>8, <1>9, <1>10, <1>11, <1>12, <1>13 DEF Next

(* The invariant holds in every behaviour. *)
THEOREM SentinelInvariant == Spec => []SentinelInv
<1>1. SentinelInv /\ UNCHANGED vars => SentinelInv'
  BY DEF vars, SentinelInv, Good, Core, Shaped, Counted, Idle, Promotion, Saved, MessageOK
<1> QED
  BY InitInv, NextInv, <1>1, PTL DEF Spec

(* Whatever the Sentinels, instances and scenarios are, the slave a failover promotes *)
(* is in the table of slaves and flagged, and slaves are reconfigured only while there *)
(* is one: the failover steps and the INFO handler never follow a missing or stale     *)
(* promoted_slave.                                                                     *)
THEOREM PromotionLinked == Spec => []PromotedLinked
<1>1. SentinelInv => PromotedLinked
  <2> SUFFICES ASSUME SentinelInv, NEW s \in up
               PROVE  LET x == se[s] IN
                      /\ x.m.fstate >= SendSlaveofNoOne <=> x.m.promoted # None
                      /\ {a \in DOMAIN x.slaves : SlaveHas(x, a, "promoted")} = {x.m.promoted} \ {None}
                      /\ \A a \in DOMAIN x.slaves :
                           x.slaves[a].flags \cap {"sent", "inprog"} # {} => x.m.promoted # None
    BY DEF PromotedLinked
  <2> DEFINE x == se[s]
  <2>1. Promotion(x) /\ Counted(x)
    BY DEF SentinelInv, Good, Core
  <2> HIDE DEF x
  <2>2. x.m.fstate >= SendSlaveofNoOne <=> x.m.promoted # None
    BY <2>1 DEF Promotion
  <2>3. {a \in DOMAIN x.slaves : SlaveHas(x, a, "promoted")} = {x.m.promoted} \ {None}
    BY <2>1 DEF Promotion
  <2>4. \A a \in DOMAIN x.slaves :
          x.slaves[a].flags \cap {"sent", "inprog"} # {} => x.m.promoted # None
    <3> SUFFICES ASSUME NEW a \in DOMAIN x.slaves, x.slaves[a].flags \cap {"sent", "inprog"} # {}
                 PROVE  x.m.promoted # None
      OBVIOUS
    <3>1. "sent" \in x.slaves[a].flags \/ "inprog" \in x.slaves[a].flags
      OBVIOUS
    <3> QED
      BY <2>1, <3>1 DEF Promotion, Counted
  <2> QED
    BY <2>2, <2>3, <2>4 DEF x
<1> QED
  BY <1>1, SentinelInvariant, PTL

(* Whatever crashes, restarts, resets, lost or late messages happen, a Sentinel votes  *)
(* at most once in an epoch: the epoch of its vote never goes back, and a new vote is  *)
(* given in a later epoch, until SENTINEL REMOVE forgets the master.                   *)
THEOREM VotedOnce == Spec => VoteDurable
<1>1. SentinelInv /\ [Next]_vars =>
        [\A s \in DOMAIN se : LET m == se[s].m
                                  n == se'[s].m
           IN \/ n.lepoch > m.lepoch
              \/ n.lepoch = m.lepoch /\ n.leader \in {m.leader, None}
              \/ n.addr = None]_vars
  BY NextInv DEF VoteStep, Votes
<1> QED
  BY <1>1, SentinelInvariant, PTL DEF Spec, VoteDurable
=================================================================================
