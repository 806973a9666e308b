---------------------------- MODULE MCRedisReplication ----------------------------
(* Small configurations for TLC: server 1 is a master, 2 and 3 are its slaves, or 3 *)
(* is a slave of 2.                                                                 *)
EXTENDS RedisReplication

CONSTANT Picked   \* the names of the scenarios of the run

Conf == [size |-> 3, diskless |-> FALSE, minslaves |-> 0, eof |-> TRUE,
         handshake |-> <<"PING">>]

Nothing == [cron |-> [n \in 1..3 |-> 0], clocks |-> {}, nofork |-> 0, refuse |-> 0,
            childfail |-> 0, write |-> 0, eval |-> 0, wait |-> 0, expire |-> 0, age |-> 0,
            crash |-> 0, badfile |-> 0, script |-> {}, clients |-> 1, dbs |-> {0}, wants |-> {1}, id |-> 1]

(* Nobody is connected yet; the master knows a script. *)
Apart(host, conf) ==
  [srv |-> [n \in DOMAIN host |->
              [initServer(<<n, 1>>, host[n], <<>>, conf) EXCEPT !.lua = host[n] = None]],
   link |-> [i \in Links |-> Free], left |-> Nothing]

(* Slave s is connected to m by connection i, after a full resynchronization. *)
Joined(c, s, m, i) ==
  LET d == IF c.srv[m].blog.on THEN c ELSE [c EXCEPT !.srv[m] = createReplicationBacklog(@)]
  IN [d EXCEPT !.srv[m].slaves = Append(@, i),
               !.link[i] = [Free EXCEPT !.m = m, !.s = s, !.mopen = TRUE, !.sopen = TRUE,
                                        !.st = "online", !.capa = TRUE],
               !.srv[s].link = i, !.srv[s].rstate = "connected", !.srv[s].mrun = <<m, 1>>,
               !.srv[s].minit = d.srv[m].off,
               !.srv[s].master = [on |-> TRUE, off |-> d.srv[m].off, run |-> <<m, 1>>, db |-> 0,
                                  q |-> <<>>, pre |-> FALSE]]

Two == Apart(<<None, 1>>, Conf)
Star == Apart(<<None, 1, 1>>, Conf)
Pair == Joined(Two, 2, 1, 1)
Trio == Joined(Joined(Star, 2, 1, 1), 3, 1, 2)
Chain == Joined(Joined(Apart(<<None, 1, 2>>, Conf), 2, 1, 1), 3, 2, 2)

ByName ==
  [partial |-> [Pair EXCEPT !.left = [Nothing EXCEPT !.cron = <<1, 2>>, !.clocks = {"lost", "ping"},
                  !.write = 3, !.dbs = {0, 1}]],
   full |-> [Star EXCEPT !.left = [Nothing EXCEPT !.cron = <<1, 1, 1>>, !.write = 2, !.nofork = 1,
               !.childfail = 1, !.badfile = 1, !.dbs = {0, 1}]],
   stale |-> [Joined(Star, 2, 1, 1) EXCEPT !.left = [Nothing EXCEPT !.cron = <<2, 1, 1>>, !.write = 2,
               !.age = 1, !.clocks = {"idle", "lag"}]],
   diskless |-> [Apart(<<None, 1, 1>>, [Conf EXCEPT !.diskless = TRUE, !.handshake = <<"PING", "CAPA">>])
                  EXCEPT !.left = [Nothing EXCEPT !.cron = <<1, 2, 2>>, !.write = 1, !.clocks = {"delay"}]],
   scripts |-> [Pair EXCEPT !.left = [Nothing EXCEPT !.cron = <<1, 1>>, !.eval = 2, !.crash = 1,
                  !.write = 1]],
   waits |-> [Trio EXCEPT !.left = [Nothing EXCEPT !.write = 2, !.wait = 2, !.clients = 2,
                !.wants = {1, 2}, !.expire = 1]],
   chain |-> [Chain EXCEPT !.left = [Nothing EXCEPT !.cron = <<0, 1, 1>>, !.write = 2, !.dbs = {0, 1},
                !.clocks = {"lost"}]],
   admin |-> [Pair EXCEPT !.left = [Nothing EXCEPT !.cron = <<0, 2>>, !.write = 2,
                !.script = {[op |-> "resize", at |-> 1, size |-> 2], [op |-> "bgsave", at |-> 1],
                            [op |-> "rewrite", at |-> 1],
                            [op |-> "slaveof", at |-> 2, host |-> None],
                            [op |-> "slaveof", at |-> 2, host |-> 1]}]],
   hands |-> [Apart(<<None, 1>>, [Conf EXCEPT !.minslaves = 1,
                      !.handshake = <<"PING", "AUTH", "PORT", "IP", "CAPA">>]) EXCEPT
                !.left = [Nothing EXCEPT !.cron = <<1, 2>>, !.refuse = 1, !.badfile = 1, !.write = 2, !.age = 1,
                                         !.nofork = 1]],
   switched |-> [Joined(Apart(<<None, None, 2, 2>>, Conf), 3, 2, 1) EXCEPT
                   !.left = [Nothing EXCEPT !.cron = <<0, 1, 1, 1>>, !.write = 3,
                     !.script = {[op |-> "slaveof", at |-> 2, host |-> 1]}]]]

MCScenarios == {ByName[n] : n \in Picked}
==================================================================================
