----------------------------- MODULE MCRedisSentinel -----------------------------
(* Small configurations for TLC: Sentinels 1..3, Redis instances 11..13. *)
EXTENDS RedisSentinel

CONSTANT Picked   \* the names of the scenarios of the run

Nothing == [timer |-> 0, info |-> 0, hello |-> 0, ping |-> 0, age |-> 0, kill |-> 0, revive |-> 0,
            crash |-> 0, restart |-> 0, lose |-> 0, tilt |-> 0, other |-> 0, script |-> {},
            clocks |-> {}, mortal |-> {}, awake |-> 1..3, asks |-> FALSE, apart |-> {0}]

Down == [sentinels |-> 1..3, master |-> 11, slaves |-> {12, 13}, dead |-> {11}, quorum |-> 2,
         psyncs |-> 1, off |-> [a \in 11..13 |-> a], strangers |-> FALSE, left |-> Nothing]
Alone == [Down EXCEPT !.sentinels = {1}, !.quorum = 1]

ByName ==
  [elect |-> [Down EXCEPT !.quorum = 1,
                !.left = [Nothing EXCEPT !.timer = 4, !.crash = 1, !.restart = 1, !.awake = {1, 2}]],
   suspect |-> [Down EXCEPT !.left = [Nothing EXCEPT !.timer = 3, !.ping = 1, !.asks = TRUE,
                                        !.awake = {1, 2}]],
   ahead |-> [Down EXCEPT !.slaves = {12}, !.quorum = 1,
                !.left = [Nothing EXCEPT !.timer = 4, !.other = 1, !.asks = TRUE, !.awake = {1, 2}]],
   failover |-> [Down EXCEPT !.sentinels = {1, 2}, !.quorum = 1,
                   !.left = [Nothing EXCEPT !.timer = 8, !.info = 2, !.hello = 1, !.awake = {1}, !.other = 1,
                                            !.age = 1, !.clocks = {"votes"}]],
   fixed |-> [Alone EXCEPT !.left = [Nothing EXCEPT !.timer = 7, !.info = 4, !.revive = 1, !.age = 1,
                                     !.clocks = {"role"}, !.apart = 0..2]],
   stuck |-> [Alone EXCEPT !.psyncs = 2,
                !.left = [Nothing EXCEPT !.timer = 6, !.info = 2, !.age = 2, !.kill = 1,
                !.mortal = {12, 13}, !.clocks = {"start", "slow", "sync", "info"}, !.ping = 1]],
   tilt |-> [Down EXCEPT !.sentinels = {1, 2}, !.left = [Nothing EXCEPT !.timer = 4, !.tilt = 1,
               !.asks = TRUE, !.lose = 1, !.age = 1, !.clocks = {"tilted", "votes"}]],
   admin |-> [Down EXCEPT !.sentinels = {1, 2}, !.dead = {}, !.strangers = TRUE,
                !.left = [Nothing EXCEPT !.timer = 2, !.info = 1, !.hello = 2, !.awake = {1},
                  !.script = {[op |-> "failover", at |-> 1], [op |-> "reset", at |-> 2],
                              [op |-> "remove", at |-> 2], [op |-> "flushconfig", at |-> 1],
                              [op |-> "monitor", at |-> 2, addr |-> 11, quorum |-> 1],
                              [op |-> "set", at |-> 1, quorum |-> 1]}]]]

MCScenarios == {ByName[n] : n \in Picked}
==================================================================================
