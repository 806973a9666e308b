----------------------------- MODULE MCRedisCluster -----------------------------
(* Small clusters for TLC.  Addresses and names are 1..5; three slots. *)
EXTENDS RedisCluster

CONSTANT Picked   \* the names of the scenarios of the run

MCSlots == 1..3
MCKeys == {"k"}
MCSlotOf == [k \in MCKeys |-> 1]
MCMany == 99

Nothing == [lose |-> 0, cron |-> 0, pings |-> 0, gossip |-> 0, stale |-> 0, write |-> 0,
            migrate |-> 0, crash |-> 0, restart |-> 0, ping |-> 0, report |-> 0, fail |-> 0,
            vote |-> 0, orphan |-> 0, handshake |-> 0, auth |-> 0, mf |-> 0, black |-> 0,
            boot |-> 0, mute |-> {}, fragile |-> 1..5, spare |-> {}]

Three == [nodes |-> 1..3, slaveof |-> [b \in 1..5 |-> None], owner |-> [j \in MCSlots |-> j],
          epoch |-> [b \in 1..5 |-> b], failed |-> {}, orphans |-> {}, silent |-> {}, strangers |-> FALSE,
          script |-> {}, left |-> Nothing]

(* Masters 2 and 3 outlive master 1, whose slaves are 4 and 5. *)
Orphaned == [Three EXCEPT !.nodes = 1..5, !.failed = {1},
               !.slaveof = [b \in 1..5 |-> IF b \in {4, 5} THEN 1 ELSE None]]

Move(step, at, how, node) ==
  [op |-> "setslot", how |-> how, slot |-> 1, node |-> node, at |-> at, step |-> step]
Moving == {Move(1, 2, "importing", 1), Move(2, 1, "migrating", 2),
           Move(3, 2, "node", 2), Move(3, 1, "node", 2)}
Give(at, op, S) == [op |-> op, slots |-> S, at |-> at, step |-> 0]
Of(at, op, n) == [op |-> op, node |-> n, at |-> at, step |-> 0]

ByName ==
  [election |-> [Orphaned EXCEPT !.left = [Nothing EXCEPT !.cron = 4, !.auth = 2, !.lose = 1]],
   detect |-> [Three EXCEPT !.silent = {1},
                 !.left = [Nothing EXCEPT !.cron = 3, !.pings = MCMany, !.gossip = 1, !.ping = 2]],
   reshard |-> [Three EXCEPT !.nodes = {1, 2}, !.owner = [j \in MCSlots |-> IF j = 1 THEN 1 ELSE 2],
                  !.script = Moving,
                  !.left = [Nothing EXCEPT !.write = 2, !.migrate = 2, !.cron = 1, !.pings = MCMany, !.lose = 1]],
   resharded |-> [Three EXCEPT !.nodes = {1, 2}, !.owner = [j \in MCSlots |-> IF j = 2 THEN 2 ELSE 1],
                  !.script = Moving,
                  !.left = [Nothing EXCEPT !.write = 2, !.migrate = 2, !.cron = 1, !.pings = MCMany, !.lose = 1]],
   manual |-> [Three EXCEPT !.nodes = {1, 2, 4}, !.owner = [j \in MCSlots |-> IF j = 1 THEN 1 ELSE 2],
                 !.slaveof = [b \in 1..5 |-> IF b = 4 THEN 1 ELSE None],
                 !.script = {[op |-> "failover", how |-> h, at |-> 4, step |-> 0] : h \in {"default"}},
                 !.left = [Nothing EXCEPT !.write = 1, !.cron = 3, !.pings = MCMany, !.mf = 1]],
   unheard |-> [Three EXCEPT !.nodes = {1, 4}, !.owner = [j \in MCSlots |-> 1],
                 !.slaveof = [b \in 1..5 |-> IF b = 4 THEN 1 ELSE None],
                 !.script = {[op |-> "failover", how |-> "default", at |-> 4, step |-> 0]},
                 !.left = [Nothing EXCEPT !.write = 1, !.cron = 5, !.pings = 2, !.mf = 1, !.lose = 1]],
   forced |-> [Orphaned EXCEPT !.nodes = {1, 2, 4}, !.owner = [j \in MCSlots |-> IF j = 1 THEN 1 ELSE 2],
                 !.script = {[op |-> "failover", how |-> h, at |-> 4, step |-> 0] :
                               h \in {"force", "takeover"}},
                 !.left = [Nothing EXCEPT !.cron = 2, !.pings = MCMany, !.stale = 1]],
   orphan |-> [Three EXCEPT !.nodes = 1..5, !.owner = [j \in MCSlots |-> IF j = 1 THEN 1 ELSE 2],
                 !.slaveof = [b \in 1..5 |-> IF b > 3 THEN 1 ELSE None],
                 !.orphans = {2}, !.script = {Of(3, "replicate", 1)},
                 !.left = [Nothing EXCEPT !.cron = 4, !.pings = 1, !.orphan = 2, !.crash = 1, !.fragile = {5}]],
   moved |-> [Three EXCEPT !.script = {[op |-> "meet", addr |-> 4, at |-> 1, step |-> 0]},
                !.left = [Nothing EXCEPT !.cron = 3, !.gossip = 2, !.crash = 1, !.restart = 1,
                                         !.fragile = {3}, !.spare = {4}]],
   restart |-> [Three EXCEPT !.left = [Nothing EXCEPT !.cron = 2, !.pings = MCMany, !.gossip = 1, !.crash = 1,
                                         !.restart = 1, !.boot = 1]],
   join |-> [Three EXCEPT !.nodes = {1, 2}, !.strangers = TRUE, !.owner = [j \in MCSlots |-> None],
               !.epoch = [b \in 1..5 |-> 0],
               !.script = {[op |-> "meet", addr |-> 2, at |-> 1, step |-> 0],
                           [op |-> "epoch", epoch |-> 3, at |-> 2, step |-> 0],
                           Give(1, "addslots", {1}), Give(2, "addslots", {1, 2})},
               !.left = [Nothing EXCEPT !.cron = 3, !.handshake = 1, !.boot = 1]],
   admin |-> [Three EXCEPT !.nodes = {1, 2, 3}, !.owner = [j \in MCSlots |-> IF j = 1 THEN 1 ELSE 2],
                !.script = {Of(3, "replicate", 1), Of(1, "forget", 2), Give(2, "delslots", {3}),
                            Move(0, 1, "migrating", 2),
                            [op |-> "bumpepoch", at |-> 2, step |-> 1],
                            [op |-> "reset", hard |-> TRUE, at |-> 3, step |-> 2],
                            [op |-> "flushslots", at |-> 2, step |-> 2],
                            [op |-> "setslot", how |-> "stable", slot |-> 2, at |-> 2, step |-> 2]},
                !.left = [Nothing EXCEPT !.cron = 2, !.pings = MCMany, !.black = 1]],
   converge |-> [Three EXCEPT !.nodes = {1, 2}, !.owner = [j \in MCSlots |-> None],
                   !.epoch = [b \in 1..5 |-> 0],
                   !.script = {Give(1, "addslots", {1}), Give(2, "addslots", {1, 2})},
                   !.left = [Nothing EXCEPT !.cron = MCMany, !.pings = MCMany]],
   revote |-> [Orphaned EXCEPT !.failed = {},
                 !.script = {[op |-> "failover", how |-> "force", at |-> a, step |-> a] : a \in {4, 5}},
                 !.left = [Nothing EXCEPT !.cron = 5, !.crash = 1, !.restart = 1, !.fragile = {2},
                                          !.mute = {"ping", "pong"}]]]

MCScenarios == {ByName[n] : n \in Picked}
==================================================================================
