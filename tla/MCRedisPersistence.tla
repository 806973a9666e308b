---------------------------- MODULE MCRedisPersistence ----------------------------
(* Small configurations for TLC. *)
EXTENDS RedisPersistence

CONSTANT Picked   \* the names of the scenarios of the run

Conf == [aof |-> TRUE, policy |-> "everysec", nofsync |-> FALSE, changes |-> 0,
         stopwrites |-> TRUE, truncated |-> TRUE]
Always == [Conf EXCEPT !.policy = "always"]
Lazy == [Conf EXCEPT !.policy = "no"]
DumpOnly == [Conf EXCEPT !.aof = FALSE, !.changes = 2]

Nothing == [write |-> 0, multi |-> 0, cron |-> 0, clocks |-> {{}}, fail |-> 0, errors |-> {},
            tick |-> 0, kill |-> 0, power |-> 0, childfail |-> 0, script |-> {}, id |-> 1]

ByName ==
  [always |-> [conf |-> Always, left |-> [Nothing EXCEPT !.write = 3, !.multi = 1, !.kill = 1,
                 !.power = 1, !.fail = 1, !.errors = {"err", "part"}, !.script = {"shutdown"}]],
   everysec |-> [conf |-> Conf, left |-> [Nothing EXCEPT !.write = 3, !.cron = 2, !.tick = 2,
                   !.kill = 1, !.power = 1, !.fail = 1, !.errors = {"undone", "part"},
                   !.script = {"shutdown"}]],
   rewrite |-> [conf |-> Lazy, left |-> [Nothing EXCEPT !.write = 3, !.cron = 2, !.clocks = {{}, {"grown"}},
                  !.childfail = 1, !.kill = 1, !.script = {"rewrite"}]],
   synced |-> [conf |-> [Always EXCEPT !.nofsync = TRUE], left |-> [Nothing EXCEPT !.write = 3,
                 !.cron = 2, !.power = 1, !.kill = 1, !.script = {"rewrite"}]],
   onoff |-> [conf |-> Conf, left |-> [Nothing EXCEPT !.write = 2, !.cron = 3, !.tick = 1,
                !.script = {"aof on", "aof off", "rewrite"}]],
   refused |-> [conf |-> Conf, left |-> [Nothing EXCEPT !.write = 2, !.cron = 2, !.fail = 1, !.kill = 1,
                  !.errors = {"err", "part"}, !.script = {"aof on", "aof off", "rewrite"}]],
   turned |-> [conf |-> Always, left |-> [Nothing EXCEPT !.write = 2, !.cron = 2, !.fail = 1, !.kill = 1,
                 !.power = 1, !.errors = {"err"}, !.script = {"aof on", "aof off", "shutdown"}]],
   dump |-> [conf |-> DumpOnly, left |-> [Nothing EXCEPT !.write = 3, !.cron = 3,
               !.clocks = {{}, {"due", "retry"}, {"due"}}, !.childfail = 1, !.kill = 1,
               !.script = {"bgsave", "save", "shutdown"}]],
   both |-> [conf |-> [Conf EXCEPT !.changes = 1], left |-> [Nothing EXCEPT !.write = 2, !.cron = 3,
               !.clocks = {{}, {"due"}}, !.childfail = 1, !.script = {"rewrite", "bgsave", "shutdown"}]],
   strict |-> [conf |-> [Lazy EXCEPT !.truncated = FALSE], left |-> [Nothing EXCEPT !.write = 1,
                 !.multi = 1, !.kill = 1, !.power = 1]]]

MCScenarios == {ByName[n] : n \in Picked}
==================================================================================
