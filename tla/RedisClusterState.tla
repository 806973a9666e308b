---------------------------- MODULE RedisClusterState ----------------------------
(* The node table, epochs and slot map of one Redis Cluster node (cluster.c).    *)
(* A handler of the code becomes an operator from the clusterState x (the global *)
(* server.cluster, with the packets it queued in x.out and the links it closed   *)
(* in x.cut) to the state it leaves.                                             *)
(* Names are naturals, so that memcmp on node IDs is <; None is the NULL pointer.*)
(* The bitmap node->slots and the array cluster->slots always change together    *)
(* (clusterAddSlot, clusterDelSlot): only the array is kept.  The same holds for *)
(* master->slaves and node->slaveof.  Clocks are abstracted: every comparison of *)
(* mstime() with a stored time reads a flag that the environment ages.           *)
EXTENDS Integers, FiniteSets, FiniteSetsExt

CONSTANTS Slots,     \* hash slots
          Keys,      \* keys of database 0
          SlotOf     \* SlotOf[k]: the slot of key k

None == 0
NoAddr == -1   \* an empty ip and port 0

Flags == {"master", "slave", "pfail", "fail", "handshake", "noaddr", "meet",
          "migrate_to"}

createClusterNode(addr, flags) ==
  [flags |-> flags, addr |-> addr, configEpoch |-> 0, slaveof |-> None,
   reports |-> {}, ping |-> "none", link |-> FALSE, voted |-> FALSE,
   failOld |-> FALSE, off |-> 0, orphan |-> "no", late |-> FALSE]

Has(x, n, f) == f \in x.nodes[n].flags
Known(x, n) == n \in DOMAIN x.nodes
clusterLookupNode(x, n) == IF Known(x, n) THEN n ELSE None
nodeIsMaster(x, n) == Has(x, n, "master")
nodeIsSlave(x, n) == Has(x, n, "slave")
Myself(x) == x.nodes[x.me]
SlavesOf(x, n) == {s \in DOMAIN x.nodes : x.nodes[s].slaveof = n}
SlotsOf(x, n) == {j \in Slots : x.slots[j] = n}
numslots(x, n) == Cardinality(SlotsOf(x, n))
countKeysInSlot(x, j) == Cardinality({k \in Keys : SlotOf[k] = j /\ x.keys[k] # None})

Flag(x, n, on, off) == [x EXCEPT !.nodes[n].flags = (@ \ off) \cup on]
clusterDoBeforeSleep(x, todo) == [x EXCEPT !.todo = @ \cup todo]
Save == {"save"}
SaveSync == {"save", "fsync"}
SaveState == {"save", "state"}

(* Replication, as the cluster code uses it. *)
replicationSetMaster(x, n) == [x EXCEPT !.masterhost = x.nodes[n].addr]
replicationUnsetMaster(x) == [x EXCEPT !.masterhost = None]
replicationGetSlaveOffset(x) == x.off

clusterNodeRemoveSlave(x, m, s) ==
  IF s \in SlavesOf(x, m)
  THEN [x EXCEPT !.nodes[s].slaveof = None,
                 !.nodes[m].flags = IF SlavesOf(x, m) = {s} THEN @ \ {"migrate_to"} ELSE @]
  ELSE x

clusterNodeAddSlave(x, m, s) ==
  [x EXCEPT !.nodes[s].slaveof = m, !.nodes[m].flags = @ \cup {"migrate_to"}]

clusterCountNonFailingSlaves(x, n) ==
  Cardinality({s \in SlavesOf(x, n) : ~Has(x, s, "fail")})

(* Slots: clusterAddSlot and clusterDelSlot for a set of slots at once. *)
clusterMastersHaveSlaves(x) ==
  \E s \in DOMAIN x.nodes :
    /\ Known(x, x.nodes[s].slaveof)
    /\ ~nodeIsSlave(x, x.nodes[s].slaveof)

clusterNodeSetSlotBit(x, n, S) ==
  IF S # {} /\ numslots(x, n) = 0 /\ clusterMastersHaveSlaves(x)
  THEN Flag(x, n, {"migrate_to"}, {}) ELSE x

clusterAddSlot(x, n, S) ==
  [clusterNodeSetSlotBit(x, n, {j \in S : x.slots[j] = None}) EXCEPT
     !.slots = [j \in Slots |-> IF j \in S /\ @[j] = None THEN n ELSE @[j]]]

clusterDelSlot(x, S) ==
  [x EXCEPT !.slots = [j \in Slots |-> IF j \in S THEN None ELSE @[j]]]

clusterDelNodeSlots(x, n) == clusterDelSlot(x, SlotsOf(x, n))

clusterCloseAllSlots(x) ==
  [x EXCEPT !.mig = [j \in Slots |-> None], !.imp = [j \in Slots |-> None]]

(* Failure reports: a report that outlived 2 * node_timeout is dropped whenever  *)
(* the list is read, so the environment removes it (RedisCluster!Age).           *)
clusterNodeAddFailureReport(x, n, s) == [x EXCEPT !.nodes[n].reports = @ \cup {s}]
clusterNodeDelFailureReport(x, n, s) == [x EXCEPT !.nodes[n].reports = @ \ {s}]
clusterNodeFailureReportsCount(x, n) == Cardinality(x.nodes[n].reports)

freeClusterNode(x, n) ==
  LET y(z) == [z EXCEPT
        !.nodes = [m \in DOMAIN z.nodes \ {n} |->
          IF z.nodes[m].slaveof = n THEN [z.nodes[m] EXCEPT !.slaveof = None]
                                    ELSE z.nodes[m]]]
  IN  y(IF x.nodes[n].slaveof = None THEN x
        ELSE clusterNodeRemoveSlave(x, x.nodes[n].slaveof, n))

Unassign(f, n) == [j \in Slots |-> IF f[j] = n THEN None ELSE f[j]]

(* A plausible slip: a slot stays marked as migrating to the node. *)
DelNodeKeepsMigration(x, n) ==
  freeClusterNode(
    [x EXCEPT !.imp = Unassign(@, n), !.slots = Unassign(@, n),
       !.nodes = [m \in DOMAIN @ |-> [@[m] EXCEPT !.reports = @ \ {n}]]], n)

clusterDelNode(x, n) ==
  freeClusterNode(
    [x EXCEPT !.imp = Unassign(@, n), !.mig = Unassign(@, n), !.slots = Unassign(@, n),
       !.nodes = [m \in DOMAIN @ |-> [@[m] EXCEPT !.reports = @ \ {n}]]], n)

clusterAddNode(x, n, node) ==
  [x EXCEPT !.nodes = [m \in DOMAIN @ \cup {n} |-> IF m = n THEN node ELSE @[m]]]

(* Renaming keeps the object, so every pointer to it follows. *)
clusterRenameNode(x, n, new) ==
  LET At(p) == IF p = n THEN new ELSE p
      Entry(e) == [e EXCEPT !.slaveof = At(@), !.reports = {At(r) : r \in @}]
  IN [x EXCEPT !.nodes = [m \in (DOMAIN @ \ {n}) \cup {new} |->
                            IF m = new THEN Entry(@[n]) ELSE Entry(@[m])],
               !.slots = [j \in Slots |-> At(@[j])]]

(* Epochs. *)
clusterGetMaxEpoch(x) ==
  Max({x.currentEpoch} \cup {x.nodes[n].configEpoch : n \in DOMAIN x.nodes})

NewEpoch(x) ==
  [x EXCEPT !.currentEpoch = @ + 1, !.nodes[x.me].configEpoch = x.currentEpoch + 1]

clusterBumpConfigEpochWithoutConsensus(x) ==
  IF Myself(x).configEpoch = 0 \/ Myself(x).configEpoch # clusterGetMaxEpoch(x)
  THEN clusterDoBeforeSleep(NewEpoch(x), SaveSync)
  ELSE x

(* nodes.conf: handshake nodes are skipped, clocks are not saved. *)
clusterSaveConfig(x) ==
  [x EXCEPT !.todo = @ \ SaveSync,
     !.conf = [me |-> x.me, currentEpoch |-> x.currentEpoch,
               lastVoteEpoch |-> x.lastVoteEpoch, slots |-> x.slots,
               mig |-> x.mig, imp |-> x.imp,
               nodes |-> [n \in {m \in DOMAIN x.nodes : ~Has(x, m, "handshake")} |->
                            x.nodes[n]]]]

(* A node that sees another master with its own epoch and a greater ID moves on. *)
clusterHandleConfigEpochCollision(x, s) ==
  IF \/ x.nodes[s].configEpoch # Myself(x).configEpoch
     \/ ~nodeIsMaster(x, s) \/ ~nodeIsMaster(x, x.me)
     \/ s <= x.me
  THEN x
  ELSE clusterSaveConfig(NewEpoch(x))

(* Manual failover state. *)
NoFailover == [on |-> FALSE, late |-> FALSE, slave |-> None, offset |-> 0,
               can |-> FALSE]
resetManualFailover(x) ==
  [x EXCEPT !.mf = NoFailover, !.paused = @ /\ ~x.mf.on]
manualFailoverCheckTimeout(x) ==
  IF x.mf.on /\ x.mf.late THEN resetManualFailover(x) ELSE x
clusterHandleManualFailover(x) ==
  IF x.mf.on /\ ~x.mf.can /\ x.mf.offset # 0 /\ x.mf.offset = replicationGetSlaveOffset(x)
  THEN [x EXCEPT !.mf.can = TRUE] ELSE x

clusterSetNodeAsMaster(x, n) ==
  IF nodeIsMaster(x, n) THEN x
  ELSE LET m == x.nodes[n].slaveof
           y(z) == Flag(z, n, {"master"} \cup
                     (IF m # None /\ n # x.me THEN {"migrate_to"} ELSE {}), {"slave"})
       IN clusterDoBeforeSleep(
            y(IF m = None THEN x ELSE clusterNodeRemoveSlave(x, m, n)), SaveState)

clusterSetMaster(x, n) ==
  LET Demoted == IF nodeIsMaster(x, x.me)
                 THEN clusterCloseAllSlots(
                        Flag(x, x.me, {"slave"}, {"master", "migrate_to"}))
                 ELSE IF Myself(x).slaveof # None
                 THEN clusterNodeRemoveSlave(x, Myself(x).slaveof, x.me) ELSE x
  IN resetManualFailover(replicationSetMaster(clusterNodeAddSlave(Demoted, n, x.me), n))

(* The slot map after sender n claims the slots S with epoch e: the newest claim *)
(* wins, a slot being imported is never lost, and keys of lost slots are dropped *)
(* unless the whole master was replaced (then replication will do it).           *)
Loses(x, n, e, j) ==
  /\ x.slots[j] # n
  /\ x.imp[j] = None
  /\ x.slots[j] = None \/ x.nodes[x.slots[j]].configEpoch < e

delKeysInSlot(x, S) ==
  [x EXCEPT !.keys = [k \in Keys |-> IF SlotOf[k] \in S THEN None ELSE @[k]]]

CurMaster(x) == IF nodeIsMaster(x, x.me) THEN x.me ELSE Myself(x).slaveof

Reassign(x, n, T) ==
  LET cur == CurMaster(x)
      replaced == cur # None /\ \E j \in T : x.slots[j] = cur
      dirty == {j \in T : x.slots[j] = x.me /\ countKeysInSlot(x, j) > 0}
      Followed(y) == IF replaced /\ numslots(y, cur) = 0
                     THEN clusterDoBeforeSleep(clusterSetMaster(y, n), SaveState \cup SaveSync)
                     ELSE delKeysInSlot(y, dirty)
  IN IF T = {} THEN x
     ELSE Followed(clusterDoBeforeSleep(clusterAddSlot(clusterDelSlot(x, T), n, T),
                                        SaveState \cup SaveSync))

clusterUpdateSlotsConfigWith(x, n, e, S) ==
  IF n = x.me THEN x ELSE Reassign(x, n, {j \in S : Loses(x, n, e, j)})

(* Is the cluster usable from here?  It takes a reachable majority of the masters *)
(* with slots, and no slot unserved or served by a failed node.                  *)
Voters(x) == {n \in DOMAIN x.nodes : nodeIsMaster(x, n) /\ numslots(x, n) > 0}
Reachable(x) == {n \in Voters(x) : x.nodes[n].flags \cap {"fail", "pfail"} = {}}
Quorum(x) == x.size \div 2 + 1
FullCoverage(x) == \A j \in Slots : x.slots[j] # None /\ ~Has(x, x.slots[j], "fail")

SetState(x, new) ==
  IF new # x.state /\ new = "ok" /\ nodeIsMaster(x, x.me) /\ x.minority
  THEN x ELSE [x EXCEPT !.state = new]

clusterUpdateState(x) ==
  LET y == [x EXCEPT !.todo = @ \ {"state"}]
      Judge(z) ==
        IF Cardinality(Reachable(z)) < Quorum(z)
        THEN SetState([z EXCEPT !.minority = TRUE], "fail")
        ELSE SetState(z, IF FullCoverage(z) THEN "ok" ELSE "fail")
  IN IF nodeIsMaster(x, x.me) /\ x.state = "fail" /\ x.boot
     THEN y ELSE Judge([y EXCEPT !.size = Cardinality(Voters(x))])

(* CLUSTER FORGET keeps a name from coming back through gossip for a minute. *)
clusterBlacklistAddNode(x, n) == [x EXCEPT !.black = @ \cup {n}]
clusterBlacklistExists(x, n) == n \in x.black

(* A handshake node gets a random name: the least one nobody uses. *)
HandshakeName(x) == Min((100..110) \ DOMAIN x.nodes)
clusterHandshakeInProgress(x, a) ==
  \E n \in DOMAIN x.nodes : Has(x, n, "handshake") /\ x.nodes[n].addr = a
clusterStartHandshake(x, a) ==
  IF clusterHandshakeInProgress(x, a) THEN x
  ELSE clusterAddNode(x, HandshakeName(x), createClusterNode(a, {"handshake", "meet"}))

(* CLUSTER RESET. *)
Forgotten(x) ==
  [x EXCEPT !.nodes = [n \in {x.me} |-> [@[n] EXCEPT !.reports = {}]],
            !.slots = [j \in Slots |-> None]]
Renewed(x, new) ==
  [x EXCEPT !.currentEpoch = 0, !.lastVoteEpoch = 0, !.me = new,
            !.nodes = [n \in {new} |-> [@[x.me] EXCEPT !.configEpoch = 0]]]
clusterReset(x, hard, new) ==
  LET Alone == IF nodeIsSlave(x, x.me)
               THEN [replicationUnsetMaster(clusterSetNodeAsMaster(x, x.me)) EXCEPT
                       !.keys = [k \in Keys |-> None]]
               ELSE x
      Reset(y) == IF hard THEN Renewed(y, new) ELSE y
  IN clusterDoBeforeSleep(Reset(Forgotten(resetManualFailover(clusterCloseAllSlots(Alone)))),
                          SaveState \cup SaveSync)

(* Start: the node table, the slot map and the epochs come from nodes.conf, the  *)
(* keys from the data set; a key of a slot that is not ours makes it importing.  *)
clusterLoadConfig(c, keys) ==
  [me |-> c.me, currentEpoch |-> Max({c.currentEpoch} \cup
                      {c.nodes[n].configEpoch : n \in DOMAIN c.nodes}),
   lastVoteEpoch |-> c.lastVoteEpoch, slots |-> c.slots, mig |-> c.mig, imp |-> c.imp,
   nodes |-> [n \in DOMAIN c.nodes |->
                [c.nodes[n] EXCEPT !.reports = {}, !.link = FALSE, !.voted = FALSE,
                   !.failOld = FALSE, !.off = 0, !.orphan = "no", !.late = FALSE,
                   !.ping = IF @ = "none" THEN "none" ELSE "new",
                   !.flags = (@ \ {"meet", "migrate_to"}) \cup
                     (IF \E m \in DOMAIN c.nodes : c.nodes[m].slaveof = n
                      THEN {"migrate_to"} ELSE {})]],
   state |-> "fail", size |-> 1, boot |-> TRUE, minority |-> FALSE, todo |-> {},
   auth |-> [age |-> "retry", count |-> 0, sent |-> FALSE, rank |-> 0, epoch |-> 0],
   mf |-> NoFailover, paused |-> FALSE, black |-> {}, keys |-> keys, off |-> 0,
   masterhost |-> None, conf |-> c, out |-> {}, cut |-> {}]

verifyClusterConfigWithData(x) ==
  LET Alien == {j \in Slots : countKeysInSlot(x, j) > 0 /\ x.slots[j] # x.me
                              /\ x.imp[j] = None}
      Owned(y) == clusterAddSlot(y, y.me, {j \in Alien : y.slots[j] = None})
      Import(y) == [y EXCEPT !.imp = [j \in Slots |->
                      IF j \in Alien /\ x.slots[j] # None THEN x.slots[j] ELSE @[j]]]
  IN IF nodeIsSlave(x, x.me) \/ Alien = {} THEN x
     ELSE clusterSaveConfig(Import(Owned(x)))
==================================================================================
