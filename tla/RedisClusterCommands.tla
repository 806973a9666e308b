-------------------------- MODULE RedisClusterCommands --------------------------
(* What a client or the administrator asks of a cluster node (cluster.c): the     *)
(* CLUSTER subcommands that change state, the redirection of a request, and        *)
(* MIGRATE with the RESTORE-ASKING it sends.                                        *)
EXTENDS RedisClusterBus

(* CLUSTER SETSLOT *)
SetSlotNode(x, j, n) ==
  LET held == countKeysInSlot(x, j) > 0
      Closed == [x EXCEPT !.mig[j] = IF held THEN @ ELSE None]
      Imported(y) == IF n = x.me /\ x.imp[j] # None
                     THEN [clusterBumpConfigEpochWithoutConsensus(y) EXCEPT !.imp[j] = None]
                     ELSE y
  IN IF x.slots[j] = x.me /\ n # x.me /\ held THEN x
     ELSE clusterDoBeforeSleep(
            clusterAddSlot(clusterDelSlot(Imported(Closed), {j}), n, {j}), SaveState)

SetSlot(x, c) ==
  LET Done(y) == clusterDoBeforeSleep(y, SaveState)
  IN CASE nodeIsSlave(x, x.me) -> x
       [] c.how = "migrating" ->
            IF x.slots[c.slot] # x.me \/ ~Known(x, c.node) THEN x
            ELSE Done([x EXCEPT !.mig[c.slot] = c.node])
       [] c.how = "importing" ->
            IF x.slots[c.slot] = x.me \/ ~Known(x, c.node) THEN x
            ELSE Done([x EXCEPT !.imp[c.slot] = c.node])
       [] c.how = "stable" ->
            Done([x EXCEPT !.imp[c.slot] = None, !.mig[c.slot] = None])
       [] c.how = "node" -> IF Known(x, c.node) THEN SetSlotNode(x, c.slot, c.node) ELSE x

AddOrDelSlots(x, S, del) ==
  LET Opened == [x EXCEPT !.imp = [j \in Slots |-> IF j \in S THEN None ELSE @[j]]]
  IN IF \E j \in S : (x.slots[j] = None) = del THEN x
     ELSE clusterDoBeforeSleep(IF del THEN clusterDelSlot(Opened, S)
                                      ELSE clusterAddSlot(Opened, x.me, S), SaveState)

Empty(x) == \A k \in Keys : x.keys[k] = None

FlushSlots(x) ==
  IF Empty(x) THEN clusterDoBeforeSleep(clusterDelNodeSlots(x, x.me), SaveState) ELSE x

Forget(x, n) ==
  IF ~Known(x, n) \/ n = x.me \/ (nodeIsSlave(x, x.me) /\ Myself(x).slaveof = n) THEN x
  ELSE clusterDoBeforeSleep(clusterDelNode(clusterBlacklistAddNode(x, n), n), SaveState)

Replicate(x, n) ==
  IF \/ ~Known(x, n) \/ n = x.me \/ nodeIsSlave(x, n)
     \/ nodeIsMaster(x, x.me) /\ (numslots(x, x.me) # 0 \/ ~Empty(x))
  THEN x ELSE clusterDoBeforeSleep(clusterSetMaster(x, n), SaveState)

Failover(x, how, G) ==
  LET master == Myself(x).slaveof
      Started == [resetManualFailover(x) EXCEPT !.mf = [NoFailover EXCEPT !.on = TRUE]]
  IN CASE nodeIsMaster(x, x.me) \/ master = None -> x
       [] how = "takeover" -> clusterFailoverReplaceYourMaster(
                                clusterBumpConfigEpochWithoutConsensus(Started), G)
       [] how = "force" -> [Started EXCEPT !.mf.can = TRUE]
       [] how = "default" -> IF Has(x, master, "fail") \/ ~x.nodes[master].link THEN x
                             ELSE clusterSendMFStart(Started, master)

SetConfigEpoch(x, e) ==
  IF DOMAIN x.nodes # {x.me} \/ Myself(x).configEpoch # 0 THEN x
  ELSE clusterDoBeforeSleep(
         [x EXCEPT !.nodes[x.me].configEpoch = e,
                   !.currentEpoch = IF @ < e THEN e ELSE @], SaveState)

clusterCommand(x, c, G) ==
  CASE c.op = "meet" -> clusterStartHandshake(x, c.addr)
    [] c.op = "addslots" -> AddOrDelSlots(x, c.slots, FALSE)
    [] c.op = "delslots" -> AddOrDelSlots(x, c.slots, TRUE)
    [] c.op = "flushslots" -> FlushSlots(x)
    [] c.op = "setslot" -> SetSlot(x, c)
    [] c.op = "bumpepoch" -> clusterBumpConfigEpochWithoutConsensus(x)
    [] c.op = "forget" -> Forget(x, c.node)
    [] c.op = "replicate" -> Replicate(x, c.node)
    [] c.op = "failover" -> Failover(x, c.how, G)
    [] c.op = "epoch" -> SetConfigEpoch(x, c.epoch)
    [] c.op = "reset" -> IF nodeIsMaster(x, x.me) /\ ~Empty(x) THEN x
                         ELSE clusterReset(x, c.hard, x.me + 10)

--------------------------------------------------------------------------------
(* Where a request for the keys K belongs; asking is the client's ASKING flag,     *)
(* reading its READONLY flag on a read-only command.                               *)
Redirect(n, err) == [node |-> n, err |-> err]

Owner(x, j, K, asking, reading) ==
  LET n == x.slots[j]
      migrating == n = x.me /\ x.mig[j] # None
      importing == ~migrating /\ x.imp[j] # None
      missing == \E k \in K : x.keys[k] = None
  IN CASE n = None -> Redirect(None, "DOWN_UNBOUND")
       [] Cardinality({SlotOf[k] : k \in K}) > 1 -> Redirect(None, "CROSSSLOT")
       [] x.state # "ok" -> Redirect(None, "DOWN_STATE")
       [] migrating /\ missing -> Redirect(x.mig[j], "ASK")
       [] importing /\ asking ->
            IF missing /\ Cardinality(K) > 1 THEN Redirect(None, "TRYAGAIN")
            ELSE Redirect(x.me, "none")
       [] reading /\ nodeIsSlave(x, x.me) /\ Myself(x).slaveof = n -> Redirect(x.me, "none")
       [] OTHER -> Redirect(n, IF n # x.me THEN "MOVED" ELSE "none")

(* A plausible slip: a migrating slot is served without looking for the key. *)
OwnerServes(x, K, asking, reading) ==
  LET n == x.slots[Min({SlotOf[k] : k \in K})]
  IN IF n = None THEN Redirect(None, "DOWN_UNBOUND")
     ELSE IF asking THEN Redirect(x.me, "none")
     ELSE Redirect(n, IF n # x.me THEN "MOVED" ELSE "none")

getNodeByQuery(x, K, asking, reading) ==
  IF K = {} THEN Redirect(x.me, "none")
  ELSE Owner(x, Min({SlotOf[k] : k \in K}), K, asking, reading)

Serves(x, K, asking, reading) == getNodeByQuery(x, K, asking, reading) = Redirect(x.me, "none")

(* MIGRATE of key k from node x to node y; fate is what the socket does to the     *)
(* RESTORE: it is answered, lost before or lost after it was executed.             *)
restoreCommand(y, k, v, replace) ==
  IF ~Serves(y, {k}, TRUE, FALSE) \/ (~replace /\ y.keys[k] # None)
  THEN [ok |-> FALSE, y |-> y]
  ELSE [ok |-> TRUE, y |-> [y EXCEPT !.keys[k] = v]]

migrateCommand(x, y, k, replace, fate) ==
  LET Answered(r) == [x |-> IF r.ok /\ fate = "answered"
                            THEN [x EXCEPT !.keys[k] = None] ELSE x, y |-> r.y]
  IN IF x.keys[k] = None \/ fate = "lost" THEN [x |-> x, y |-> y]
     ELSE Answered(restoreCommand(y, k, x.keys[k], replace))
==================================================================================
