----------------------------- MODULE RedisClusterBus -----------------------------
(* The cluster bus (cluster.c): the packets a node builds and what it does with   *)
(* the ones it reads; failure detection, failover elections, replica migration    *)
(* and the cron that drives them.                                                 *)
EXTENDS RedisClusterState

(* A packet.  "link" names, in the table of the node that opened the connection,  *)
(* the node the connection is to: a PONG travels back over it.                    *)
clusterBuildMessageHdr(x, type) ==
  LET master == IF nodeIsSlave(x, x.me) /\ Myself(x).slaveof # None
                THEN Myself(x).slaveof ELSE x.me
  IN [type |-> type, sender |-> x.me, from |-> Myself(x).addr, to |-> None,
      link |-> None, epoch |-> x.currentEpoch,
      configEpoch |-> x.nodes[master].configEpoch, slots |-> SlotsOf(x, master),
      slaveof |-> Myself(x).slaveof, role |-> Myself(x).flags \cap {"master", "slave"},
      offset |-> x.off, paused |-> nodeIsMaster(x, x.me) /\ x.mf.on, force |-> FALSE,
      gossip |-> {}, about |-> None]

clusterSendMessage(x, to, msg) == [x EXCEPT !.out = @ \cup {[msg EXCEPT !.to = to]}]

clusterBroadcastMessage(x, msg) ==
  [x EXCEPT !.out = @ \cup {[msg EXCEPT !.to = x.nodes[n].addr] :
      n \in {m \in DOMAIN x.nodes \ {x.me} : x.nodes[m].link /\ ~Has(x, m, "handshake")}}]

(* PING, PONG and MEET carry a random few of the other nodes, G. *)
Gossipable(x) ==
  {n \in DOMAIN x.nodes \ {x.me} :
     /\ x.nodes[n].flags \cap {"handshake", "noaddr"} = {}
     /\ x.nodes[n].link \/ numslots(x, n) > 0}

Wanted(x) == Cardinality(DOMAIN x.nodes) - 2

clusterSendPing(x, to, type, link, G) ==
  LET Entry(n) == [name |-> n, addr |-> x.nodes[n].addr, flags |-> x.nodes[n].flags]
      Sent == {Entry(n) : n \in (IF Wanted(x) > 0 THEN G ELSE {}) \cap Gossipable(x)}
  IN clusterSendMessage(x, to,
       [clusterBuildMessageHdr(x, type) EXCEPT !.link = link, !.gossip = Sent])

SendPings(x, N, type, G) ==
  FoldSet(LAMBDA n, y : clusterSendPing(y, y.nodes[n].addr, type, None, G), x, N)

clusterBroadcastPong(x, local, G) ==
  SendPings(x, {n \in DOMAIN x.nodes \ {x.me} :
     /\ x.nodes[n].link /\ ~Has(x, n, "handshake")
     /\ local => /\ nodeIsSlave(x, n) /\ x.nodes[n].slaveof # None
                 /\ x.nodes[n].slaveof \in {x.me, Myself(x).slaveof}}, "pong", G)

clusterSendFail(x, n) ==
  clusterBroadcastMessage(x, [clusterBuildMessageHdr(x, "fail") EXCEPT !.about = n])

clusterSendUpdate(x, s, n) ==
  IF ~x.nodes[s].link THEN x
  ELSE clusterSendMessage(x, x.nodes[s].addr,
         [clusterBuildMessageHdr(x, "update") EXCEPT
            !.about = [name |-> n, configEpoch |-> x.nodes[n].configEpoch,
                       slots |-> SlotsOf(x, n)]])

clusterRequestFailoverAuth(x) ==
  clusterBroadcastMessage(x, [clusterBuildMessageHdr(x, "auth_request") EXCEPT
                                !.force = x.mf.on])

clusterSendFailoverAuth(x, n) ==
  IF x.nodes[n].link
  THEN clusterSendMessage(x, x.nodes[n].addr, clusterBuildMessageHdr(x, "auth_ack")) ELSE x

clusterSendMFStart(x, n) ==
  IF x.nodes[n].link
  THEN clusterSendMessage(x, x.nodes[n].addr, clusterBuildMessageHdr(x, "mfstart")) ELSE x

freeClusterLink(x, n) == [x EXCEPT !.nodes[n].link = FALSE, !.cut = @ \cup {n}]

--------------------------------------------------------------------------------
(* Failure detection. *)
(* A plausible slip: the node counts itself without looking at its own links. *)
MinorityFails(x, n) ==
  IF Has(x, n, "fail") \/ clusterNodeFailureReportsCount(x, n) + 1 < Quorum(x) THEN x
  ELSE clusterDoBeforeSleep(clusterSendFail(Flag(x, n, {"fail"}, {"pfail"}), n), SaveState)

markNodeAsFailingIfNeeded(x, n) ==
  LET failures == clusterNodeFailureReportsCount(x, n)
                  + (IF nodeIsMaster(x, x.me) THEN 1 ELSE 0)
      Failed == [Flag(x, n, {"fail"}, {"pfail"}) EXCEPT !.nodes[n].failOld = FALSE]
  IN IF ~Has(x, n, "pfail") \/ Has(x, n, "fail") \/ failures < Quorum(x) THEN x
     ELSE clusterDoBeforeSleep(
            IF nodeIsMaster(x, x.me) THEN clusterSendFail(Failed, n) ELSE Failed, SaveState)

clearNodeFailureIfNeeded(x, n) ==
  IF nodeIsSlave(x, n) \/ numslots(x, n) = 0 \/ x.nodes[n].failOld
  THEN clusterDoBeforeSleep(Flag(x, n, {}, {"fail"}), SaveState) ELSE x

(* The node is at another address: its link, if any, led to the old one. *)
SetAddress(x, n, addr) ==
  Flag([freeClusterLink(x, n) EXCEPT !.nodes[n].addr = addr], n, {}, {"noaddr"})

(* An entry about a node we know: a failure report, and the new address of a node  *)
(* that we cannot reach and the sender can.                                        *)
GossipKnown(x, s, g) ==
  LET Report == IF g.flags \cap {"fail", "pfail"} # {}
                THEN markNodeAsFailingIfNeeded(clusterNodeAddFailureReport(x, g.name, s), g.name)
                ELSE clusterNodeDelFailureReport(x, g.name, s)
      Moved(y) == IF /\ y.nodes[g.name].flags \cap {"fail", "pfail"} # {}
                     /\ g.flags \cap {"noaddr", "fail", "pfail"} = {}
                     /\ y.nodes[g.name].addr # g.addr
                  THEN SetAddress(y, g.name, g.addr) ELSE y
  IN Moved(IF s # None /\ Known(x, s) /\ nodeIsMaster(x, s) /\ g.name # x.me THEN Report ELSE x)

GossipEntry(x, s, g) ==
  IF Known(x, g.name) THEN GossipKnown(x, s, g)
  ELSE IF s # None /\ "noaddr" \notin g.flags /\ ~clusterBlacklistExists(x, g.name)
       THEN clusterStartHandshake(x, g.addr) ELSE x

clusterProcessGossipSection(x, m, L) ==
  LET s == IF L # None THEN L ELSE clusterLookupNode(x, m.sender)
  IN FoldSet(LAMBDA g, y : GossipEntry(y, s, g), x, m.gossip)

--------------------------------------------------------------------------------
(* Elections.  A voter answers once per epoch, for a slave of a failed master     *)
(* whose slots nobody claimed with a newer epoch.                                 *)
(* A plausible slip: the voter does not remember the epoch it voted in. *)
VoteForgotten(x, n, m) ==
  LET master == x.nodes[n].slaveof
  IN IF \/ nodeIsSlave(x, x.me) \/ numslots(x, x.me) = 0 \/ m.epoch < x.currentEpoch
        \/ nodeIsMaster(x, n) \/ master = None
        \/ ~Has(x, master, "fail") /\ ~m.force
     THEN x ELSE clusterSendFailoverAuth(x, n)

clusterSendFailoverAuthIfNeeded(x, n, m) ==
  LET master == x.nodes[n].slaveof
  IN IF \/ nodeIsSlave(x, x.me) \/ numslots(x, x.me) = 0
        \/ m.epoch < x.currentEpoch
        \/ x.lastVoteEpoch = x.currentEpoch
        \/ nodeIsMaster(x, n) \/ master = None
        \/ ~Has(x, master, "fail") /\ ~m.force
        \/ x.nodes[master].voted
        \/ \E j \in m.slots :
             x.slots[j] # None /\ x.nodes[x.slots[j]].configEpoch > m.configEpoch
     THEN x
     ELSE [clusterSendFailoverAuth(x, n) EXCEPT
             !.lastVoteEpoch = x.currentEpoch, !.nodes[master].voted = TRUE]

clusterGetSlaveRank(x) ==
  LET m == Myself(x).slaveof
  IN IF m = None THEN 0
     ELSE Cardinality({s \in SlavesOf(x, m) \ {x.me} : x.nodes[s].off > x.off})

clusterFailoverReplaceYourMaster(x, G) ==
  LET old == Myself(x).slaveof
      Take(y) == clusterAddSlot(clusterDelSlot(y, SlotsOf(x, old)), x.me, SlotsOf(x, old))
      Master == replicationUnsetMaster(clusterSetNodeAsMaster(x, x.me))
  IN IF nodeIsMaster(x, x.me) \/ old = None THEN x
     ELSE resetManualFailover(clusterBroadcastPong(
            clusterSaveConfig(clusterUpdateState(Take(Master))), FALSE, G))

(* One look at the election: schedule it, wait, ask for votes, count them. *)
Schedule(x, G) ==
  clusterBroadcastPong(
    [x EXCEPT !.auth = [age |-> IF x.mf.on THEN "open" ELSE "wait", count |-> 0,
                        sent |-> FALSE,
                        rank |-> IF x.mf.on THEN 0 ELSE clusterGetSlaveRank(x),
                        epoch |-> x.auth.epoch]], TRUE, G)

ReRank(x) ==
  IF ~x.auth.sent /\ ~x.mf.on /\ clusterGetSlaveRank(x) > x.auth.rank
  THEN [x EXCEPT !.auth.rank = clusterGetSlaveRank(x),
                 !.auth.age = IF @ = "open" THEN "wait" ELSE @]
  ELSE x

Ask(x) ==
  LET Asked(y) == [clusterRequestFailoverAuth(y) EXCEPT !.auth.sent = TRUE]
  IN clusterDoBeforeSleep(
       Asked([x EXCEPT !.currentEpoch = @ + 1, !.auth.epoch = x.currentEpoch + 1]),
       SaveState \cup SaveSync)

Elected(x, G) ==
  clusterFailoverReplaceYourMaster(
    [x EXCEPT !.nodes[x.me].configEpoch = IF @ < x.auth.epoch THEN x.auth.epoch ELSE @], G)

Campaign(x, G) ==
  CASE x.auth.age # "open" -> x
    [] ~x.auth.sent -> Ask(x)
    [] x.auth.count >= Quorum(x) -> Elected(x, G)
    [] OTHER -> x

clusterHandleSlaveFailover(x, tooOld, G) ==
  LET y == [x EXCEPT !.todo = @ \ {"failover"}]
      master == Myself(x).slaveof
      manual == x.mf.on /\ x.mf.can
  IN IF \/ nodeIsMaster(x, x.me) \/ master = None
        \/ ~Has(x, master, "fail") /\ ~manual
        \/ numslots(x, master) = 0
        \/ tooOld /\ ~manual
     THEN y
     ELSE IF x.auth.age = "retry" THEN Schedule(y, G) ELSE Campaign(ReRank(y), G)

(* A slave of the best covered master moves to an orphaned one. *)
IsOrphaned(x, n) ==
  /\ ~nodeIsSlave(x, n) /\ ~Has(x, n, "fail") /\ Has(x, n, "migrate_to")
  /\ nodeIsMaster(x, n) => clusterCountNonFailingSlaves(x, n) = 0

(* A plausible slip: every slave of the best covered master is a candidate. *)
EveryoneMigrates(x, max) ==
  LET Targets == {n \in DOMAIN x.nodes : IsOrphaned(x, n) /\ numslots(x, n) > 0}
  IN IF Targets = {} THEN x
     ELSE IF x.nodes[Min(Targets)].orphan = "old" THEN clusterSetMaster(x, Min(Targets))
     ELSE [x EXCEPT !.nodes[Min(Targets)].orphan = "new"]

clusterHandleSlaveMigration(x, max) ==
  LET mine == Myself(x).slaveof
      okslaves == {s \in SlavesOf(x, mine) : x.nodes[s].flags \cap {"fail", "pfail"} = {}}
      Orphans == {n \in DOMAIN x.nodes : IsOrphaned(x, n)}
      Targets == {n \in Orphans : numslots(x, n) > 0}
      Candidate == Min({x.me} \cup UNION {SlavesOf(x, n) :
        n \in {m \in DOMAIN x.nodes : nodeIsMaster(x, m)
                                      /\ clusterCountNonFailingSlaves(x, m) = max}})
      Timed == [x EXCEPT !.nodes = [n \in DOMAIN @ |->
                  [@[n] EXCEPT !.orphan = IF n \notin Orphans THEN "no"
                                          ELSE IF @ = "no" THEN "new" ELSE @]]]
  IN IF x.state # "ok" \/ mine = None \/ Cardinality(okslaves) <= 1 THEN x
     ELSE IF Targets # {} /\ Candidate = x.me /\ x.nodes[Min(Targets)].orphan = "old"
     THEN clusterSetMaster(Timed, Min(Targets))
     ELSE Timed

--------------------------------------------------------------------------------
(* clusterBeforeSleep runs before any queued packet leaves the process. *)
clusterBeforeSleep(x, G) ==
  LET Failover(y) == IF "failover" \in y.todo THEN clusterHandleSlaveFailover(y, FALSE, G) ELSE y
      State(y) == IF "state" \in y.todo THEN clusterUpdateState(y) ELSE y
      Saved(y) == IF "save" \in y.todo THEN clusterSaveConfig(y) ELSE y
  IN [Saved(State(Failover(x))) EXCEPT !.todo = {}]

--------------------------------------------------------------------------------
(* clusterProcessPacket, one operator per part. *)
PacketEpochs(x, m) ==
  LET s == m.sender
      Seen == [x EXCEPT !.currentEpoch = IF m.epoch > @ THEN m.epoch ELSE @,
                        !.nodes[s].configEpoch = IF m.configEpoch > @ THEN m.configEpoch ELSE @,
                        !.nodes[s].off = m.offset]
      Newer == IF m.configEpoch > x.nodes[s].configEpoch
               THEN clusterDoBeforeSleep(Seen, SaveSync) ELSE Seen
  IN IF ~Known(x, s) \/ Has(x, s, "handshake") THEN x
     ELSE IF x.mf.on /\ nodeIsSlave(x, x.me) /\ Myself(x).slaveof = s /\ m.paused
             /\ x.mf.offset = 0
     THEN [Newer EXCEPT !.mf.offset = m.offset] ELSE Newer

(* PING and MEET are answered; an unknown MEET sender is taken in. *)
PacketMeet(x, m, G) ==
  LET New == clusterDoBeforeSleep(
               clusterAddNode(x, HandshakeName(x), createClusterNode(m.from, {"handshake"})), Save)
      Met == IF m.type = "meet" /\ ~Known(x, m.sender)
             THEN clusterProcessGossipSection(New, m, None) ELSE x
  IN IF m.type \in {"ping", "meet"}
     THEN clusterSendPing(Met, m.from, "pong", m.link, G) ELSE x

(* A node speaks to us from another address than we have for it. *)
nodeUpdateAddressIfNeeded(x, n, addr) ==
  LET Moved == SetAddress(x, n, addr)
  IN IF x.nodes[n].addr = addr THEN x
     ELSE clusterDoBeforeSleep(
            IF nodeIsSlave(x, x.me) /\ Myself(x).slaveof = n
            THEN replicationSetMaster(Moved, n) ELSE Moved, SaveState)

(* The node at the other end L of our own link tells its name. *)
PacketHandshake(x, m, L) ==
  IF L = None THEN [x |-> x, stop |-> FALSE]
  ELSE IF Has(x, L, "handshake")
  THEN IF Known(x, m.sender)
       THEN [x |-> [clusterDelNode(nodeUpdateAddressIfNeeded(x, m.sender, m.from), L) EXCEPT
                      !.cut = @ \cup {L}], stop |-> TRUE]
       ELSE [x |-> clusterDoBeforeSleep(
                     Flag(clusterRenameNode(x, L, m.sender), m.sender, m.role, {"handshake"}),
                     Save), stop |-> FALSE]
  ELSE IF L # m.sender
  THEN [x |-> clusterDoBeforeSleep(
                freeClusterLink([Flag(x, L, {"noaddr"}, {}) EXCEPT !.nodes[L].addr = NoAddr], L),
                Save), stop |-> TRUE]
  ELSE [x |-> x, stop |-> FALSE]

PacketPong(x, m, L) ==
  LET Answered == [x EXCEPT !.nodes[L].ping = "none"]
  IN IF L = None \/ m.type # "pong" THEN x
     ELSE IF Has(x, L, "pfail")
     THEN clusterDoBeforeSleep(Flag(Answered, L, {}, {"pfail"}), SaveState)
     ELSE IF Has(x, L, "fail") THEN clearNodeFailureIfNeeded(Answered, L) ELSE Answered

(* The sender's own word on its role. *)
Demote(x, s) ==
  IF nodeIsMaster(x, s)
  THEN clusterDoBeforeSleep(
         Flag(clusterDelNodeSlots(x, s), s, {"slave"}, {"master", "migrate_to"}), SaveState)
  ELSE x

PacketRole(x, m) ==
  LET s == m.sender
      Moved(y) == IF Known(y, m.slaveof) /\ y.nodes[s].slaveof # m.slaveof
                  THEN clusterDoBeforeSleep(clusterNodeAddSlave(
                         IF y.nodes[s].slaveof = None THEN y
                         ELSE clusterNodeRemoveSlave(y, y.nodes[s].slaveof, s),
                         m.slaveof, s), Save)
                  ELSE y
  IN IF m.slaveof = None THEN clusterSetNodeAsMaster(x, s) ELSE Moved(Demote(x, s))

(* The sender's claim to its slots: take it, or tell it of a newer owner. *)
PacketSlots(x, m) ==
  LET s == m.sender
      owner == IF nodeIsMaster(x, s) THEN s ELSE x.nodes[s].slaveof
      dirty == owner # None /\ SlotsOf(x, owner) # m.slots
      Outdated(y) == {j \in m.slots : /\ y.slots[j] \notin {s, None}
                                      /\ y.nodes[y.slots[j]].configEpoch > m.configEpoch}
      Told(y) == IF Outdated(y) = {} THEN y
                 ELSE clusterSendUpdate(y, s, y.slots[Min(Outdated(y))])
  IN IF ~dirty THEN x
     ELSE Told(IF nodeIsMaster(x, s)
               THEN clusterUpdateSlotsConfigWith(x, s, m.configEpoch, m.slots) ELSE x)

PacketCollision(x, m) ==
  IF /\ nodeIsMaster(x, x.me) /\ nodeIsMaster(x, m.sender)
     /\ m.configEpoch = Myself(x).configEpoch
  THEN clusterHandleConfigEpochCollision(x, m.sender) ELSE x

PacketFail(x, m) ==
  IF /\ Known(x, m.sender) /\ Known(x, m.about) /\ m.about # x.me
     /\ ~Has(x, m.about, "fail")
  THEN clusterDoBeforeSleep(
         [Flag(x, m.about, {"fail"}, {"pfail"}) EXCEPT !.nodes[m.about].failOld = FALSE],
         SaveState)
  ELSE x

PacketAuthAck(x, m) ==
  IF /\ Known(x, m.sender) /\ nodeIsMaster(x, m.sender) /\ numslots(x, m.sender) > 0
     /\ m.epoch >= x.auth.epoch
  THEN clusterDoBeforeSleep([x EXCEPT !.auth.count = @ + 1], {"failover"}) ELSE x

PacketMFStart(x, m) ==
  IF Known(x, m.sender) /\ x.nodes[m.sender].slaveof = x.me
  THEN [resetManualFailover(x) EXCEPT
          !.mf = [NoFailover EXCEPT !.on = TRUE, !.slave = m.sender], !.paused = TRUE]
  ELSE x

PacketUpdate(x, m) ==
  LET n == m.about.name
      Promoted == IF nodeIsSlave(x, n) THEN clusterSetNodeAsMaster(x, n) ELSE x
      Newer(y) == clusterDoBeforeSleep(
                    [y EXCEPT !.nodes[n].configEpoch = m.about.configEpoch], SaveSync)
  IN IF ~Known(x, m.sender) \/ ~Known(x, n) THEN x
     ELSE IF x.nodes[n].configEpoch >= m.about.configEpoch THEN x
     ELSE clusterUpdateSlotsConfigWith(Newer(Promoted), n, m.about.configEpoch, m.about.slots)

PacketPing(x, m, L, known) ==
  LET Sender(y) == clusterProcessGossipSection(
                     PacketCollision(PacketSlots(PacketRole(y, m), m), m), m, L)
      Placed(y) == IF m.type = "ping" /\ ~Has(y, m.sender, "handshake")
                   THEN nodeUpdateAddressIfNeeded(y, m.sender, m.from) ELSE y
      Rest(y) == IF known THEN Sender(PacketPong(Placed(y), m, L))
                 ELSE PacketPong(y, m, IF L = None THEN None ELSE m.sender)
      Go(r) == IF r.stop THEN r.x ELSE Rest(r.x)
  IN Go(PacketHandshake(x, m, L))

clusterProcessPacket(x, m, G) ==
  LET L == IF m.type = "pong" THEN m.link ELSE None
      Body(y) ==
        CASE m.type \in {"ping", "pong", "meet"} ->
               PacketPing(PacketMeet(y, m, G), m, L, Known(x, m.sender))
          [] m.type = "fail" -> PacketFail(y, m)
          [] m.type = "auth_request" ->
               IF Known(y, m.sender) THEN clusterSendFailoverAuthIfNeeded(y, m.sender, m) ELSE y
          [] m.type = "auth_ack" -> PacketAuthAck(y, m)
          [] m.type = "mfstart" -> PacketMFStart(y, m)
          [] m.type = "update" -> PacketUpdate(y, m)
  IN Body(PacketEpochs(x, m))

(* A packet is read only while the connection it comes over is open. *)
clusterReadHandler(x, m) ==
  m.type = "pong" /\ m.link # None => Known(x, m.link) /\ x.nodes[m.link].link

--------------------------------------------------------------------------------
(* clusterCron: connect, ping (the nodes in P), close silent links (those in C),   *)
(* suspect, and, in a slave, go on with failover and migration.                   *)
Watched(x) == {n \in DOMAIN x.nodes \ {x.me} : ~Has(x, n, "noaddr")}

CronConnect(x, G) ==
  LET Dead == {n \in Watched(x) : Has(x, n, "handshake") /\ x.nodes[n].late}
      New(y) == {n \in Watched(y) : ~y.nodes[n].link}
      Type(y, n) == IF Has(y, n, "meet") THEN "meet" ELSE "ping"
      Link(n, y) ==
        [clusterSendPing(y, y.nodes[n].addr, Type(y, n), n, G) EXCEPT
           !.nodes[n].link = TRUE, !.nodes[n].flags = @ \ {"meet"},
           !.nodes[n].ping = IF @ = "none" /\ ~Has(y, n, "meet") THEN "new" ELSE @]
      All(y) == FoldSet(Link, y, New(y))
  IN All(FoldSet(LAMBDA n, y : clusterDelNode(y, n), x, Dead))

CronPing(x, P, G) ==
  FoldSet(LAMBDA n, y : [clusterSendPing(y, y.nodes[n].addr, "ping", n, G) EXCEPT
                           !.nodes[n].ping = "new"],
          x, {n \in P \cap Watched(x) : /\ x.nodes[n].link
                                        /\ ~Has(x, n, "handshake")
                                        /\ x.nodes[n].ping = "none" \/ x.mf.slave = n})

Silent(x) == {n \in Watched(x) : /\ x.nodes[n].link /\ ~Has(x, n, "handshake")
                                 /\ x.nodes[n].ping \in {"half", "late"}}

CronSuspect(x) ==
  LET S == {n \in Watched(x) : /\ x.nodes[n].ping = "late"
                               /\ x.nodes[n].flags \cap {"handshake", "pfail", "fail"} = {}}
  IN IF S = {} THEN x
     ELSE clusterDoBeforeSleep(
            FoldSet(LAMBDA n, y : Flag(y, n, {"pfail"}, {}), x, S), {"state"})

CronSlave(x, tooOld, G) ==
  LET Masters == {n \in Watched(x) : nodeIsMaster(x, n)
                                     /\ x.nodes[n].flags \cap {"fail", "handshake"} = {}}
      Ok(n) == clusterCountNonFailingSlaves(x, n)
      max == Max({0} \cup {Ok(n) : n \in Masters})
      orphaned == \E n \in Masters : Ok(n) = 0 /\ numslots(x, n) > 0 /\ Has(x, n, "migrate_to")
      mine == Myself(x).slaveof
      Migrate(y) == IF orphaned /\ max >= 2 /\ mine \in Masters /\ Ok(mine) = max
                    THEN clusterHandleSlaveMigration(y, max) ELSE y
  IN IF nodeIsSlave(x, x.me)
     THEN Migrate(clusterHandleSlaveFailover(clusterHandleManualFailover(x), tooOld, G))
     ELSE x

CronReplicate(x) ==
  IF /\ nodeIsSlave(x, x.me) /\ x.masterhost = None /\ Myself(x).slaveof # None
     /\ ~Has(x, Myself(x).slaveof, "noaddr")
  THEN replicationSetMaster(x, Myself(x).slaveof) ELSE x

clusterCron(x, P, C, tooOld, G) ==
  LET Close(y) == FoldSet(LAMBDA n, z : freeClusterLink(z, n), y, C \cap Silent(y))
      Slave(y) == CronSlave(manualFailoverCheckTimeout(CronReplicate(y)), tooOld, G)
      State(y) == IF y.state = "fail" \/ "state" \in y.todo THEN clusterUpdateState(y) ELSE y
  IN State(Slave(CronSuspect(CronPing(Close(CronConnect(x, G)), P, G))))
==================================================================================
