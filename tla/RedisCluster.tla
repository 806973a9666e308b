------------------------------ MODULE RedisCluster ------------------------------
(* A Redis Cluster: nodes with their own view of it, the packets between them,      *)
(* clients, an administrator, crashes and the passing of time.  A step is one       *)
(* event of one node together with the clusterBeforeSleep that follows it.          *)
EXTENDS RedisClusterCommands

CONSTANTS Scenarios,   \* the initial clusters, with what may happen in each
          Many         \* a budget that is never used up

VARIABLES cl,      \* cl[a]: the clusterState of the node at address a
          net,     \* packets under way
          up,      \* addresses of the running processes
          left,    \* left[kind]: how many steps of a kind may still happen; left.mute: the
                   \* packet types a scenario's network always loses;
                   \* left.fragile: the nodes that may crash; left.spare: the addresses
                   \* where a node may be started again
          script,  \* the commands the administrator gives, in any order
          pend,    \* the client request that follows an ASK redirection
          last,    \* last[k]: the value of the last acknowledged write of k
          doubt,   \* <<m, n>>: the master m has suspected node n (history)
          won,     \* <<epoch, a, b>>: a won an election with that epoch against b (history)
          lost,    \* <<epoch, a, b>>: a packet of a to b with that configEpoch was lost (history)
          ordered  \* the nodes that were given an order (history)

vars == <<cl, net, up, left, script, pend, last, doubt, won, lost, ordered>>

Less(b) == IF b = Many THEN b ELSE b - 1
Spend(kind) == left[kind] > 0 /\ left' = [left EXCEPT ![kind] = Less(@)]

(* A node goes to sleep: its packets leave, the links it closed lose theirs. *)
Quiet(x) == [x EXCEPT !.out = {}, !.cut = {}]
Over(a, x, m) == m.type = "pong" /\ m.to = a /\ m.link \in x.cut

Suspicions(x) ==
  IF nodeIsMaster(x, x.me) /\ numslots(x, x.me) > 0
  THEN {<<x.me, n>> : n \in {k \in DOMAIN x.nodes : Has(x, k, "pfail")}} ELSE {}

Elections(a, x) ==
  IF nodeIsSlave(cl[a], cl[a].me) /\ nodeIsMaster(x, x.me)
  THEN {<<Myself(x).configEpoch, a, cl[a].nodes[Myself(cl[a]).slaveof].addr>>} ELSE {}

Sleep(a, x, gone) ==
  /\ cl' = [cl EXCEPT ![a] = Quiet(x)]
  /\ net' = ({m \in net \ gone : ~Over(a, x, m)} \cup {m \in x.out : m.to \in up /\ m.type \notin left.mute})
  /\ doubt' = doubt \cup Suspicions(x)

(* Gossip prefers the nodes in trouble; budget 1 leaves it at those, and at one a packet. *)
Gossips(x) ==
  {{}} \cup {{n} : n \in {m \in Gossipable(x) :
    left.gossip > (IF x.nodes[m].flags \cap {"fail", "pfail"} = {} THEN 1 ELSE 0)}}

--------------------------------------------------------------------------------
Deliver(m) ==
  /\ m.to \in up
  /\ IF clusterReadHandler(cl[m.to], m)
     THEN \E G \in Gossips(cl[m.to]) :
            \E x \in {clusterBeforeSleep(clusterProcessPacket(cl[m.to], m, G), G)} :
              /\ Sleep(m.to, x, {m})
              /\ won' = won \cup Elections(m.to, x)
     ELSE net' = net \ {m} /\ UNCHANGED <<cl, doubt, won>>
  /\ UNCHANGED <<up, left, script, pend, last, lost, ordered>>

Lose(m) ==
  /\ Spend("lose")
  /\ net' = net \ {m}
  /\ lost' = lost \cup {<<m.configEpoch, m.from, m.to>>}
  /\ UNCHANGED <<cl, up, script, pend, last, doubt, won, ordered>>

Cron(a) ==
  /\ a \in up
  /\ left.cron > 0
  /\ \E P \in {{}} \cup {{n} : n \in {k \in DOMAIN cl[a].nodes : left.pings > 0}},
        C \in {{}, Silent(cl[a])}, G \in Gossips(cl[a]),
        tooOld \in (IF left.stale > 0 THEN BOOLEAN ELSE {FALSE}) :
       \E x \in {clusterBeforeSleep(clusterCron(cl[a], P, C, tooOld, G), G)} :
         /\ Sleep(a, x, {})
         /\ won' = won \cup Elections(a, x)
         /\ left' = [left EXCEPT !.cron = Less(@), !.pings = IF P = {} THEN @ ELSE Less(@)]
  /\ UNCHANGED <<up, script, pend, last, lost, ordered>>

(* The administrator works as redis-trib does: in steps, and a slot is assigned      *)
(* only when the node that gives it away holds no more of its keys.                 *)
Orderly(c) ==
  /\ \A d \in script : c.step <= d.step
  /\ c.op = "setslot" /\ c.how = "node" =>
       \A b \in up : cl[b].mig[c.slot] # None => countKeysInSlot(cl[b], c.slot) = 0

Command(a, c) ==
  /\ a \in up
  /\ c \in script /\ c.at = a /\ Orderly(c)
  /\ script' = script \ {c}
  /\ ordered' = ordered \cup {cl[a].me}
  /\ \E x \in {clusterBeforeSleep(clusterCommand(cl[a], c, {}), {})} : Sleep(a, x, {})
  /\ UNCHANGED <<up, left, pend, last, won, lost>>

--------------------------------------------------------------------------------
(* Time passes: one of the clocks a node compares with reaches its limit. *)
Later(t) == CASE t = "new" -> "half" [] t = "half" -> "late" [] OTHER -> t
AuthLater(t) ==
  CASE t = "wait" -> "open" [] t = "open" -> "expired" [] t = "expired" -> "retry" [] OTHER -> t

(* The pause of a master outlasts the attempt of the slave that asked for it, and   *)
(* a packet on its way.                                                             *)
MayExpire(a) ==
  /\ \A m \in net : m.to # a
  /\ \A s \in up \ {a} : cl[a].mf.slave = cl[s].me => ~cl[s].mf.on

NodeClocks == {"ping", "report", "fail", "vote", "orphan", "handshake"}
OwnClocks == {"auth", "mf", "black", "boot"}

AgeNode(x, n, what) ==
  CASE what = "ping" -> [x EXCEPT !.nodes[n].ping = Later(@)]
    [] what = "report" -> [x EXCEPT !.nodes[n].reports = {}]
    [] what = "fail" -> [x EXCEPT !.nodes[n].failOld = Has(x, n, "fail")]
    [] what = "vote" -> [x EXCEPT !.nodes[n].voted = FALSE]
    [] what = "orphan" -> [x EXCEPT !.nodes[n].orphan = IF @ = "new" THEN "old" ELSE @]
    [] what = "handshake" -> [x EXCEPT !.nodes[n].late = Has(x, n, "handshake")]

AgeSelf(a, x, what) ==
  CASE what = "auth" -> [x EXCEPT !.auth.age = AuthLater(@)]
    [] what = "mf" -> [x EXCEPT !.mf.late = x.mf.on /\ MayExpire(a)]
    [] what = "black" -> [x EXCEPT !.black = {}]
    [] what = "boot" -> [x EXCEPT !.boot = FALSE, !.minority = FALSE]

Age(a) ==
  /\ a \in up
  /\ \E w \in NodeClocks \cup OwnClocks :
       /\ Spend(w)
       /\ \E x \in IF w \in OwnClocks THEN {AgeSelf(a, cl[a], w)}
                   ELSE {AgeNode(cl[a], n, w) : n \in DOMAIN cl[a].nodes} :
            x # cl[a] /\ cl' = [cl EXCEPT ![a] = x]
  /\ UNCHANGED <<net, up, script, pend, last, doubt, won, lost, ordered>>

--------------------------------------------------------------------------------
(* Clients: a write is executed where the request is served; ASK sends the client *)
(* on, once, with ASKING.  A paused master executes nothing.                       *)
Put(a, k) ==
  /\ cl' = [cl EXCEPT ![a].keys[k] = last[k] + 1, ![a].off = @ + 1]
  /\ last' = [last EXCEPT ![k] = @ + 1]

ClientSet(a, k) ==
  /\ a \in up /\ pend = <<>>
  /\ Spend("write")
  /\ \E r \in {getNodeByQuery(cl[a], {k}, FALSE, FALSE)} :
       \/ r = Redirect(cl[a].me, "none") /\ ~cl[a].paused /\ nodeIsMaster(cl[a], cl[a].me)
          /\ Put(a, k) /\ UNCHANGED pend
       \/ r.err = "ASK" /\ pend' = <<cl[a].nodes[r.node].addr, k>> /\ UNCHANGED <<cl, last>>
  /\ UNCHANGED <<net, up, script, doubt, won, lost, ordered>>

ClientAsking ==
  /\ pend # <<>>
  /\ pend' = <<>>
  /\ IF pend[1] \in up /\ Serves(cl[pend[1]], {pend[2]}, TRUE, FALSE)
     THEN Put(pend[1], pend[2]) ELSE UNCHANGED <<cl, last>>
  /\ UNCHANGED <<net, up, left, script, doubt, won, lost, ordered>>

Migrate(a, k) ==
  /\ a \in up
  /\ Spend("migrate")
  /\ cl[a].mig[SlotOf[k]] # None
  /\ \E replace \in BOOLEAN, fate \in {"answered", "lost", "unanswered"},
        b \in {cl[a].nodes[cl[a].mig[SlotOf[k]]].addr} \cap up :
       \E r \in {migrateCommand(cl[a], cl[b], k, replace, fate)} :
         cl' = [cl EXCEPT ![a] = r.x, ![b] = r.y]
  /\ UNCHANGED <<net, up, script, pend, last, doubt, won, lost, ordered>>

(* A slave receives the writes of its master, or its whole data set. *)
Follow(a) ==
  /\ a \in up
  /\ nodeIsSlave(cl[a], cl[a].me) /\ cl[a].masterhost # None
  /\ \E b \in {cl[a].masterhost} \cap up :
       /\ nodeIsMaster(cl[b], cl[b].me)
       /\ cl' = [cl EXCEPT ![a].keys = cl[b].keys, ![a].off = cl[b].off]
  /\ cl' # cl
  /\ UNCHANGED <<net, up, left, script, pend, last, doubt, won, lost, ordered>>

(* A process dies: its peers see their links to it fail. *)
handleLinkIOError(x, a) ==
  [x EXCEPT !.nodes = [n \in DOMAIN @ |-> IF @[n].addr = a THEN [@[n] EXCEPT !.link = FALSE]
                                                          ELSE @[n]]]

Crash(a) ==
  /\ a \in up \cap left.fragile
  /\ Spend("crash")
  /\ up' = up \ {a}
  /\ net' = {m \in net : m.to # a /\ ~(m.type = "pong" /\ m.from = a)}
  /\ cl' = [b \in DOMAIN cl |-> handleLinkIOError(cl[b], a)]
  /\ UNCHANGED <<script, pend, last, doubt, won, lost, ordered>>

(* clusterInit reads nodes.conf; the keys are those the data set still holds.  The  *)
(* machine may have got another address b meanwhile.                               *)
clusterInit(a) ==
  /\ a \notin up
  /\ Spend("restart")
  /\ \E b \in {a} \cup (left.spare \ DOMAIN cl) :
       /\ up' = up \cup {b}
       /\ cl' = [c \in (DOMAIN cl \ {a}) \cup {b} |->
            IF c # b THEN cl[c]
            ELSE Quiet(verifyClusterConfigWithData(
                   [clusterLoadConfig(cl[a].conf, cl[a].keys) EXCEPT
                      !.nodes[cl[a].conf.me].addr = b]))]
  /\ UNCHANGED <<net, script, pend, last, doubt, won, lost, ordered>>

--------------------------------------------------------------------------------
(* The cluster a scenario starts with: everyone knows everyone. *)
StartConf(s, a) ==
  [me |-> a, currentEpoch |-> Max({s.epoch[b] : b \in s.nodes}), lastVoteEpoch |-> 0,
   slots |-> s.owner, mig |-> [j \in Slots |-> None], imp |-> [j \in Slots |-> None],
   nodes |-> [b \in (IF s.strangers THEN {a} ELSE s.nodes) |->
     [createClusterNode(b, (IF s.slaveof[b] = None THEN {"master"} ELSE {"slave"})
                           \cup (IF b \in s.failed THEN {"fail"} ELSE {}))
        EXCEPT !.configEpoch = s.epoch[b], !.slaveof = s.slaveof[b]]]]

Start(s, a) ==
  [clusterLoadConfig(StartConf(s, a),
     [k \in Keys |-> IF s.owner[SlotOf[k]] \in {a, s.slaveof[a]} \ {None} THEN 1 ELSE None])
     EXCEPT !.nodes = [b \in DOMAIN @ |-> [@[b] EXCEPT !.link = b # a /\ b \notin s.failed,
                         !.ping = IF b \in s.silent \ {a} THEN "half" ELSE "none",
                         !.flags = @ \cup (IF b \in s.orphans THEN {"migrate_to"} ELSE {})]],
            !.state = IF s.strangers THEN "fail" ELSE "ok", !.boot = s.strangers,
            !.size = Cardinality({s.owner[j] : j \in Slots} \ {None}), !.off = 1,
            !.masterhost = s.slaveof[a]]

Init ==
  \E s \in Scenarios :
    /\ cl = [a \in s.nodes |-> Start(s, a)]
    /\ net = {}
    /\ up = s.nodes \ s.failed
    /\ left = s.left
    /\ script = s.script
    /\ pend = <<>>
    /\ last = [k \in Keys |-> IF s.owner[SlotOf[k]] = None THEN 0 ELSE 1]
    /\ doubt = {<<a, n>> : a \in {b \in s.nodes : s.slaveof[b] = None}, n \in s.failed}
    /\ won = {}
    /\ lost = {}
    /\ ordered = {}

Next ==
  \/ \E m \in net : Deliver(m) \/ Lose(m)
  \/ \E a \in DOMAIN cl : Cron(a) \/ Age(a) \/ Follow(a) \/ Crash(a) \/ clusterInit(a)
  \/ \E a \in DOMAIN cl : \E c \in script : Command(a, c)
  \/ \E a \in DOMAIN cl : \E k \in Keys : ClientSet(a, k) \/ Migrate(a, k)
  \/ ClientAsking

Spec == Init /\ [][Next]_vars

----------------------------------------------------------------------------------
(* The table of a node never refers to a node that was freed: forgetting a node, a   *)
(* failed handshake, a reset and a rename leave no slot, no migration, no failure     *)
(* report and no slave that points to it (clusterDelNode, freeClusterNode).           *)
NoDanglingNode ==
  \A a \in DOMAIN cl : LET x == cl[a] IN
    /\ x.me \in DOMAIN x.nodes
    /\ \A j \in Slots : {x.slots[j], x.mig[j], x.imp[j]} \subseteq DOMAIN x.nodes \cup {None}
    /\ \A n \in DOMAIN x.nodes : /\ x.nodes[n].flags \subseteq Flags
                                 /\ x.nodes[n].reports \subseteq DOMAIN x.nodes
                                 /\ x.nodes[n].slaveof \in DOMAIN x.nodes \cup {None}

(* Two nodes never win an election with the same epoch, whatever is lost, late or *)
(* asked again: the comment of clusterHandleConfigEpochCollision relies on it.     *)
ElectionSafety == \A w, v \in won : w[1] = v[1] => w = v

(* A node is flagged FAIL anywhere only if a majority of the masters with slots    *)
(* have themselves found it unreachable: gossip of gossip never adds up to one.    *)
FailNeedsMajority ==
  \A a \in up : \A n \in DOMAIN cl[a].nodes :
    Has(cl[a], n, "fail") =>
      2 * Cardinality({d \in doubt : d[2] = n}) > Cardinality(Voters(cl[a]))

(* A client that follows the redirections reads the last acknowledged write of a   *)
(* key, at every moment of moving its slot or of a manual failover, whatever       *)
(* packets, answers and attempts get lost, but for one: the winner of a failover    *)
(* tells the old master once (cluster.c:2688-2690), and when that packet is lost    *)
(* the old master, its pause over, goes on serving reads and writes.               *)
FreshRead ==
  won \cap lost = {} =>
  \A a \in {b \in up : ~cl[b].paused} : \A k \in Keys :
    LET r == getNodeByQuery(cl[a], {k}, FALSE, FALSE)
        At(b) == b \in up /\ Serves(cl[b], {k}, TRUE, FALSE) => cl[b].keys[k] = last[k]
    IN /\ r = Redirect(cl[a].me, "none") => cl[a].keys[k] = last[k]
       /\ r.err = "ASK" => At(cl[a].nodes[r.node].addr)

(* Replica migration never takes the last slave of a working master, although the   *)
(* slaves decide by tables of different age and several of them may go at the same   *)
(* time (the race of cluster.c:2921-2924): whoever goes counts on another slave,    *)
(* and only one that died or was ordered away meanwhile may be missing.             *)
BarrierKept ==
  [][\A a \in up \cap up' :
       LET m == Myself(cl[a]).slaveof
           moved == /\ cl'[a].me = cl[a].me /\ ordered' = ordered
                    /\ m # None /\ Myself(cl'[a]).slaveof \notin {m, None}
           Listed == {s \in SlavesOf(cl[a], m) \ {cl[a].me} :
                        cl[a].nodes[s].flags \cap {"fail", "pfail"} = {}}
           Running == {cl[b].me : b \in up}
       IN moved /\ ~Has(cl[a], m, "fail") /\ numslots(cl'[a], m) > 0 =>
            \/ \E b \in up \ {a} : Myself(cl'[b]).slaveof = m
            \/ \E s \in Listed : s \notin Running \/ s \in ordered]_vars
==================================================================================
