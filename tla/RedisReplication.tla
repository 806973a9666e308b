----------------------------- MODULE RedisReplication -----------------------------
(* Replication (replication.c): every server may have slaves and may be a slave.   *)
(* A function of the code becomes an operator from the world w (the servers and    *)
(* the connections between them) to the world it leaves.  A byte of the stream is  *)
(* a tuple <<command, argument, part>>: SET is two bytes long, so that a break can  *)
(* fall inside a command; the others are one byte long.  A write is its database   *)
(* and a number, a data set the sequence of the writes it holds.                   *)
EXTENDS Integers, Sequences, FiniteSets, SequencesExt, FiniteSetsExt

CONSTANTS Scenarios,   \* initial worlds, and what may happen in each
          Links        \* identities of connections (file descriptors)

None == 0
NoRun == <<0, 0>>

VARIABLES w,      \* w.srv[n]: server n; w.link[i]: connection i
          left,   \* left[kind]: how many steps of a kind may still happen
          ans     \* the answers of WAIT given by the last step

vars == <<w, left, ans>>

Free == [m |-> None, s |-> None, st |-> "none", put |-> FALSE, ack |-> 0, init |-> 0,
         pre |-> FALSE, capa |-> FALSE, late |-> FALSE, bulk |-> <<>>, out |-> <<>>,
         up |-> <<>>, down |-> <<>>, mopen |-> FALSE, sopen |-> FALSE]
NoBacklog == [on |-> FALSE, buf |-> <<>>, idx |-> 0, hist |-> 0, off |-> 0]
NoMaster == [on |-> FALSE, off |-> 0, run |-> NoRun, db |-> 0, q |-> <<>>, pre |-> FALSE]
NoChild == [type |-> "none", snap |-> <<>>, fds |-> {}, sent |-> FALSE]

(* A server that starts (initServer, loadDataFromDisk), with the slaves' script     *)
(* cache empty and master_repl_offset 0.                                            *)
initServer(run, host, rdb, conf) ==
  [up |-> TRUE, run |-> run, data |-> rdb, rdb |-> rdb, lua |-> FALSE, cache |-> FALSE,
   off |-> 0, blog |-> NoBacklog, sel |-> -1, slaves |-> <<>>, child |-> NoChild, good |-> 0,
   host |-> host, rstate |-> IF host = None THEN "none" ELSE "connect", stage |-> 0,
   link |-> None, minit |-> -1, mrun |-> NoRun, master |-> NoMaster, cached |-> NoMaster,
   wait |-> <<>>, getack |-> FALSE, woff |-> [c \in 1..2 |-> 0], wid |-> [c \in 1..2 |-> 0], conf |-> conf]

Slaves(x, n) == Range(x.srv[n].slaves)
State(x, n, st) == {i \in Slaves(x, n) : x.link[i].st = st}

-----------------------------------------------------------------------------------
(* The backlog: a circular buffer over the last conf.size bytes of the stream. *)
(* A plausible slip: the offset goes on where the freed backlog stopped. *)
BacklogKeepsOffset(r) ==
  [r EXCEPT !.blog = [on |-> TRUE, buf |-> [k \in 0..(r.conf.size - 1) |-> <<>>], idx |-> 0,
                      hist |-> 0, off |-> r.off + 1]]

createReplicationBacklog(r) ==
  [r EXCEPT !.off = @ + 1,
            !.blog = [on |-> TRUE, buf |-> [k \in 0..(r.conf.size - 1) |-> <<>>], idx |-> 0,
                      hist |-> 0, off |-> r.off + 2]]

resizeReplicationBacklog(r, size) ==
  [r EXCEPT !.conf.size = size,
            !.blog = IF @.on
                     THEN [on |-> TRUE, buf |-> [k \in 0..(size - 1) |-> <<>>], idx |-> 0,
                           hist |-> 0, off |-> r.off + 1]
                     ELSE @]

freeReplicationBacklog(r) == [r EXCEPT !.blog = NoBacklog]

feedReplicationBacklog(r, byte) ==
  LET size == r.conf.size
      hist == IF r.blog.hist = size THEN size ELSE r.blog.hist + 1
  IN [r EXCEPT !.off = @ + 1,
               !.blog = [on |-> TRUE, buf |-> [@.buf EXCEPT ![r.blog.idx] = byte],
                         idx |-> (@.idx + 1) % size, hist |-> hist, off |-> r.off + 1 - hist + 1]]

addReplyReplicationBacklog(r, offset) ==
  LET size == r.conf.size
      b == r.blog
      skip == offset - b.off
      j == (((b.idx + (size - b.hist)) % size) + skip) % size
  IN [k \in 1..(b.hist - skip) |-> b.buf[(j + k - 1) % size]]

(* replicationFeedSlaves: SELECT first when the database differs, then the command. *)
FeedBytes(x, n, bytes) ==
  [srv |-> [x.srv EXCEPT ![n] = FoldLeft(feedReplicationBacklog, @, bytes)],
   link |-> [i \in Links |->
               IF i \in Slaves(x, n) /\ x.link[i].st # "start"
               THEN [x.link[i] EXCEPT !.out = @ \o bytes] ELSE x.link[i]]]

Select(x, n, db) == IF x.srv[n].sel = db THEN <<>> ELSE << <<"SELECT", db, 1>> >>

replicationFeedSlaves(x, n, db, bytes) ==
  IF ~x.srv[n].blog.on /\ x.srv[n].slaves = <<>> THEN x
  ELSE FeedBytes([x EXCEPT !.srv[n].sel = db], n, Select(x, n, db) \o bytes)

-----------------------------------------------------------------------------------
(* Connections end: each side closes its own end, the other reads end of file. *)
Settled(x, i) ==
  IF x.link[i].mopen \/ x.link[i].sopen THEN x ELSE [x EXCEPT !.link[i] = Free]

refreshGoodSlavesCount(x, n) ==
  IF x.srv[n].conf.minslaves = 0 THEN x ELSE
  [x EXCEPT !.srv[n].good = Cardinality({i \in State(x, n, "online") : ~x.link[i].late})]

(* freeClient of a slave (or of a connection that is not one yet). *)
freeClient(x, i) ==
  LET n == x.link[i].m
      y == [x EXCEPT !.srv[n].slaves = SelectSeq(@, LAMBDA j : j # i),
                     !.srv[n].child.fds = @ \ {i},
                     !.link[i].mopen = FALSE, !.link[i].out = <<>>, !.link[i].st = "none"]
  IN Settled(refreshGoodSlavesCount(y, n), i)

disconnectSlaves(x, n) == FoldLeft(freeClient, x, x.srv[n].slaves)

undoConnectWithMaster(x, s) ==
  LET i == x.srv[s].link
  IN Settled([x EXCEPT !.srv[s].link = None, !.link[i].sopen = FALSE], i)

cancelReplicationHandshake(x, s) ==
  IF x.srv[s].rstate \in {"handshake", "psync", "transfer"}
  THEN [undoConnectWithMaster(x, s) EXCEPT !.srv[s].rstate = "connect"] ELSE x

(* A plausible slip: the bytes of a half received command are forgotten. *)
CacheMasterDropsQuery(x, s) ==
  [undoConnectWithMaster(x, s) EXCEPT
     !.srv[s].rstate = "connect", !.srv[s].cached = [x.srv[s].master EXCEPT !.q = <<>>],
     !.srv[s].master = NoMaster]

(* The connection to the master is lost: its client is kept for a later PSYNC. *)
replicationCacheMaster(x, s) ==
  [undoConnectWithMaster(x, s) EXCEPT
     !.srv[s].rstate = "connect", !.srv[s].cached = x.srv[s].master, !.srv[s].master = NoMaster]

replicationDiscardCachedMaster(r) == [r EXCEPT !.cached = NoMaster]

-----------------------------------------------------------------------------------
(* The side of the master: PSYNC, SYNC, the child that saves, REPLCONF ACK. *)
getPsyncInitialOffset(r) == IF r.blog.on THEN r.off ELSE r.off + 1

replicationSetupSlaveForFullResync(x, i, offset) ==
  LET n == x.link[i].m
      y == [x EXCEPT !.link[i].init = offset, !.link[i].st = "end", !.srv[n].sel = -1]
  IN IF x.link[i].pre THEN y
     ELSE [y EXCEPT !.link[i].down = Append(@, [op |-> "fullresync", run |-> x.srv[n].run,
                                                off |-> offset, data |-> <<>>])]

(* A slave joins the child that saves for slave j already. *)
copyClientOutputBuffer(x, i, j) ==
  replicationSetupSlaveForFullResync([x EXCEPT !.link[i].out = x.link[j].out], i, x.link[j].init)

replicationScriptCacheFlush(r) == [r EXCEPT !.cache = FALSE]

(* startBgsaveForReplication: fork succeeded (ok), or the waiting slaves are dropped. *)
Snapshot(x, n, type, fds) ==
  [x EXCEPT !.srv[n].child = [type |-> type, snap |-> x.srv[n].data, fds |-> fds, sent |-> FALSE]]

Dropped(x, waiting) ==
  FoldLeft(LAMBDA y, i : freeClient([y EXCEPT !.link[i].down =
                           Append(@, [op |-> "error", run |-> NoRun, off |-> 0, data |-> <<>>])], i),
           x, waiting)

startBgsaveForReplication(x, n, capa, ok) ==
  LET waiting == SelectSeq(x.srv[n].slaves, LAMBDA i : x.link[i].st = "start")
      socket == x.srv[n].conf.diskless /\ capa
      setup(y, i) == replicationSetupSlaveForFullResync(y, i, getPsyncInitialOffset(y.srv[n]))
      started(y) == Snapshot(y, n, IF socket THEN "socket" ELSE "disk",
                             IF socket THEN Range(waiting) ELSE {})
  IN IF ok THEN [started(FoldLeft(setup, x, waiting)) EXCEPT
                   !.srv[n] = replicationScriptCacheFlush(@)]
     ELSE Dropped(IF socket THEN FoldLeft(setup, x, waiting) ELSE x, waiting)

MinCapa(x, n) == \A i \in State(x, n, "start") : x.link[i].capa

masterTryPartialResynchronization(r, req) ==
  /\ req.run = r.run
  /\ r.blog.on
  /\ req.off >= r.blog.off
  /\ req.off <= r.blog.off + r.blog.hist

Continue(x, i, offset) ==
  LET n == x.link[i].m IN
  refreshGoodSlavesCount(
    [x EXCEPT !.link[i].st = "online", !.link[i].put = FALSE, !.link[i].late = FALSE,
              !.srv[n].slaves = Append(@, i),
              !.link[i].down = Append(@, [op |-> "continue", run |-> NoRun, off |-> 0,
                                          data |-> <<>>]),
              !.link[i].out = @ \o addReplyReplicationBacklog(x.srv[n], offset)], n)

(* syncCommand after a failed PSYNC, or for SYNC: join the save in progress, wait   *)
(* for the next one, or start one.                                                  *)
FullResync(x, i, ok) ==
  LET n == x.link[i].m
      y == [x EXCEPT !.link[i].st = "start", !.srv[n].slaves = Append(@, i)]
      ends == SelectSeq(x.srv[n].slaves, LAMBDA j : x.link[j].st = "end")
      joins == ends # <<>> /\ (x.link[i].capa \/ ~x.link[Head(ends)].capa)
      child == x.srv[n].child.type
  IN IF child = "disk" THEN IF joins THEN copyClientOutputBuffer(y, i, Head(ends)) ELSE y
     ELSE IF child \in {"socket", "aof"} \/ (x.srv[n].conf.diskless /\ x.link[i].capa) THEN y
     ELSE startBgsaveForReplication(y, n, x.link[i].capa, ok)

WithBacklog(x, n) ==
  IF Len(x.srv[n].slaves) = 1 /\ ~x.srv[n].blog.on
  THEN [x EXCEPT !.srv[n] = createReplicationBacklog(@)] ELSE x

clientHasPendingReplies(l) == l.out # <<>>

syncCommand(x, i, req, ok) ==
  LET n == x.link[i].m
      r == x.srv[n]
  IN IF i \in Slaves(x, n) THEN x
     ELSE IF (r.host # None /\ r.rstate # "connected") \/ clientHasPendingReplies(x.link[i])
     THEN [x EXCEPT !.link[i].down = Append(@, [op |-> "error", run |-> NoRun, off |-> 0,
                                                data |-> <<>>])]
     ELSE IF req.op = "psync" /\ masterTryPartialResynchronization(r, req)
     THEN Continue(x, i, req.off)
     ELSE WithBacklog(FullResync([x EXCEPT !.link[i].pre = req.op = "sync"], i, ok), n)

putSlaveOnline(x, i) ==
  refreshGoodSlavesCount([x EXCEPT !.link[i].st = "online", !.link[i].put = FALSE,
                                   !.link[i].late = FALSE], x.link[i].m)

sendBulkToSlave(x, i) ==
  putSlaveOnline([x EXCEPT !.link[i].bulk = <<>>,
                           !.link[i].down = Append(@, [op |-> "rdb", run |-> NoRun, off |-> 0,
                                                       data |-> x.link[i].bulk])], i)

(* REPLCONF ACK: the acknowledged offset only grows. *)
replconfCommand(x, i, off) ==
  IF i \notin Slaves(x, x.link[i].m) THEN x
  ELSE LET y == [x EXCEPT !.link[i].ack = IF off > @ THEN off ELSE @, !.link[i].late = FALSE]
       IN IF x.link[i].put /\ x.link[i].st = "online" THEN putSlaveOnline(y, i) ELSE y

(* The child ended: the slaves that waited for it get the file, or are online after *)
(* their first ACK; those that came too late get a child of their own.              *)
Served(x, i, type) ==
  IF type = "socket" THEN [x EXCEPT !.link[i].st = "online", !.link[i].put = TRUE,
                                    !.link[i].late = FALSE]
  ELSE [x EXCEPT !.link[i].st = "bulk", !.link[i].bulk = x.srv[x.link[i].m].rdb]

updateSlavesWaitingBgsave(x, n, err, type, ok) ==
  LET one(y, i) == IF x.link[i].st # "end" THEN y
                   ELSE IF err /\ type = "disk" THEN freeClient(y, i)
                   ELSE Served(y, i, type)
      y == FoldLeft(one, x, x.srv[n].slaves)
  IN IF State(x, n, "start") = {} THEN y
     ELSE startBgsaveForReplication(y, n, MinCapa(x, n), ok)

backgroundSaveDoneHandlerDisk(x, n, err, ok) ==
  updateSlavesWaitingBgsave(
    [x EXCEPT !.srv[n].child = NoChild,
              !.srv[n].rdb = IF err THEN @ ELSE x.srv[n].child.snap], n, err, "disk", ok)

(* The child reports the slaves that received everything: the others are closed. *)
backgroundSaveDoneHandlerSocket(x, n, err, ok) ==
  LET got == IF err \/ ~x.srv[n].child.sent THEN {} ELSE x.srv[n].child.fds
      y == FoldLeft(LAMBDA z, i : IF i \in got THEN z ELSE freeClient(z, i), x,
                    SelectSeq(x.srv[n].slaves, LAMBDA i : x.link[i].st = "end"))
  IN updateSlavesWaitingBgsave([y EXCEPT !.srv[n].child = NoChild], n, err, "socket", ok)

backgroundSaveDoneHandler(x, n, err, ok) ==
  IF x.srv[n].child.type = "disk" THEN backgroundSaveDoneHandlerDisk(x, n, err, ok)
  ELSE IF x.srv[n].child.type = "aof" THEN [x EXCEPT !.srv[n].child = NoChild]
  ELSE backgroundSaveDoneHandlerSocket(x, n, err, ok)

-----------------------------------------------------------------------------------
(* The side of the slave. *)
replicationCreateMasterClient(r) ==
  [r EXCEPT !.rstate = "connected",
            !.master = [on |-> TRUE, off |-> r.minit, run |-> r.mrun, db |-> 0, q |-> <<>>,
                        pre |-> r.minit = -1]]

replicationResurrectCachedMaster(r) ==
  [r EXCEPT !.master = r.cached, !.cached = NoMaster, !.rstate = "connected"]

(* slaveTryPartialResynchronization: the request, then the reply. *)
PsyncRequest(r) ==
  IF r.cached.on THEN [op |-> "psync", run |-> r.cached.run, off |-> r.cached.off + 1]
  ELSE [op |-> "psync", run |-> NoRun, off |-> -1]

(* A full resynchronization: this server's own slaves must do one as well. *)
StartTransfer(x, s) ==
  LET y == disconnectSlaves(x, s)
  IN [y EXCEPT !.srv[s] = [freeReplicationBacklog(@) EXCEPT !.rstate = "transfer",
                                                            !.cached = NoMaster]]

PsyncReply(x, s, i, reply) ==
  CASE reply.op = "fullresync" ->
         [StartTransfer(x, s) EXCEPT !.srv[s].mrun = reply.run, !.srv[s].minit = reply.off]
    [] reply.op = "continue" -> [x EXCEPT !.srv[s] = replicationResurrectCachedMaster(@)]
    [] OTHER -> [StartTransfer(x, s) EXCEPT
                   !.link[i].up = Append(@, [op |-> "sync", run |-> NoRun, off |-> 0])]

(* readSyncBulkPayload, at the end of the file; an error aborts the transfer: fate    *)
(* says whether the file cannot be renamed to dump.rdb, or not be loaded after the    *)
(* old data were dropped.                                                             *)
readSyncBulkPayload(x, s, reply, fate) ==
  LET Renamed == [x EXCEPT !.srv[s].rdb = reply.data, !.srv[s].data = <<>>]
  IN CASE reply.op # "rdb" \/ fate = "norename" -> cancelReplicationHandshake(x, s)
       [] fate = "noload" -> cancelReplicationHandshake(Renamed, s)
       [] OTHER -> [Renamed EXCEPT !.srv[s] = replicationCreateMasterClient(
                                                [@ EXCEPT !.data = reply.data])]

(* syncWithMaster between connect() and PSYNC: one request and its answer at a time. *)
(* Errors to REPLCONF are ignored, the others end the attempt.                       *)
syncWithMaster(x, s, refused) ==
  LET r == x.srv[s]
      req == r.conf.handshake[r.stage + 1]
      i == r.link
  IN IF refused /\ req \in {"PING", "AUTH"} THEN cancelReplicationHandshake(x, s)
     ELSE [x EXCEPT !.srv[s].stage = @ + 1,
                    !.link[i].capa = @ \/ (req = "CAPA" /\ r.conf.eof /\ ~refused)]

connectWithMaster(x, s, i) ==
  [x EXCEPT !.srv[s].rstate = "handshake", !.srv[s].stage = 0, !.srv[s].link = i,
            !.link[i] = [Free EXCEPT !.m = x.srv[s].host, !.s = s, !.mopen = TRUE,
                                     !.sopen = TRUE]]

replicationSendAck(x, s) ==
  IF ~x.srv[s].master.on THEN x
  ELSE [x EXCEPT !.link[x.srv[s].link].up =
                   Append(@, [op |-> "ack", run |-> NoRun, off |-> x.srv[s].master.off])]

(* The effect of a write, and its propagation to the slaves of this server. *)
Wrote(x, n, db, id, bytes) ==
  replicationFeedSlaves([x EXCEPT !.srv[n].data = Append(@, <<db, id>>)], n, db, bytes)

Set(id) == << <<"SET", id, 1>>, <<"SET", id, 2>> >>

(* evalGenericCommand of EVALSHA: the body goes to slaves that may not know it. *)
evalShaCommand(x, n, db, id) ==
  IF ~x.srv[n].lua THEN x
  ELSE IF x.srv[n].cache THEN Wrote(x, n, db, id, << <<"EVALSHA", id, 1>> >>)
  ELSE Wrote([x EXCEPT !.srv[n].cache = TRUE], n, db, id, << <<"EVAL", id, 1>> >>)

Executed(x, s, cmd) ==
  LET db == x.srv[s].master.db IN
  CASE cmd[1] = "SELECT" -> [x EXCEPT !.srv[s].master.db = cmd[2]]
    [] cmd[1] = "SET" -> Wrote(x, s, db, cmd[2], Set(cmd[2]))
    [] cmd[1] = "EVAL" -> Wrote([x EXCEPT !.srv[s].lua = TRUE], s, db, cmd[2], <<cmd>>)
    [] cmd[1] = "EVALSHA" -> evalShaCommand(x, s, db, cmd[2])
    [] cmd[1] = "GETACK" -> replicationSendAck(x, s)
    [] OTHER -> x

(* readQueryFromClient of the master's client: reploff counts bytes, a command runs *)
(* when its last byte is there.                                                     *)
readQueryFromMaster(x, s, byte) ==
  LET q == Append(x.srv[s].master.q, byte)
      y == [x EXCEPT !.srv[s].master.off = @ + 1, !.srv[s].master.q = q]
  IN IF byte[1] = "SET" /\ byte[3] = 1 THEN y
     ELSE LET z == [y EXCEPT !.srv[s].master.q = <<>>]
          IN IF byte[1] = "SET" /\ Len(q) < 2 THEN z ELSE Executed(z, s, byte)

replicationSetMaster(x, s, host) ==
  LET y == IF x.srv[s].master.on THEN replicationCacheMaster(x, s) ELSE x
      z == cancelReplicationHandshake(disconnectSlaves(y, s), s)
  IN [z EXCEPT !.srv[s] = [replicationDiscardCachedMaster(freeReplicationBacklog(@)) EXCEPT
                             !.host = host, !.rstate = "connect", !.off = 0, !.wait = <<>>]]

replicationUnsetMaster(x, s) ==
  LET r == x.srv[s]
      y == IF r.master.on /\ r.slaves = <<>>
           THEN [x EXCEPT !.srv[s] = [freeReplicationBacklog(@) EXCEPT !.off = r.master.off]]
           ELSE x
      z == IF r.master.on THEN replicationCacheMaster(y, s) ELSE cancelReplicationHandshake(y, s)
  IN [z EXCEPT !.srv[s] = [replicationDiscardCachedMaster(@) EXCEPT !.host = None,
                                                                    !.rstate = "none"]]

slaveofCommand(x, s, host) ==
  IF host = None THEN IF x.srv[s].host = None THEN x ELSE replicationUnsetMaster(x, s)
  ELSE IF x.srv[s].host = host THEN x ELSE replicationSetMaster(x, s, host)

-----------------------------------------------------------------------------------
(* WAIT. *)
replicationCountAcksByOffset(x, n, offset) ==
  Cardinality({i \in State(x, n, "online") : x.link[i].ack >= offset})

(* A plausible slip: an answer found for one client is good for the next as well. *)
AnswerReused(x, n) ==
  LET step(a, c) ==
        LET k == replicationCountAcksByOffset(x, n, c.off) IN
        IF a.last > c.n THEN [a EXCEPT !.out = @ \cup {[id |-> c.id, n |-> a.last]}]
        ELSE IF k >= c.n THEN [a EXCEPT !.out = @ \cup {[id |-> c.id, n |-> k]}, !.off = c.off,
                                        !.last = k]
        ELSE [a EXCEPT !.wait = Append(@, c)]
  IN FoldLeft(step, [out |-> {}, wait |-> <<>>, off |-> 0, last |-> 0], x.srv[n].wait)

(* Who is answered, and who waits on; a greater offset acknowledged by more slaves   *)
(* than needed answers a later client without counting again.                        *)
processClientsWaitingReplicas(x, n) ==
  LET step(a, c) ==
        LET k == replicationCountAcksByOffset(x, n, c.off) IN
        IF a.off # 0 /\ a.off > c.off /\ a.last > c.n
        THEN [a EXCEPT !.out = @ \cup {[id |-> c.id, n |-> a.last]}]
        ELSE IF k >= c.n THEN [a EXCEPT !.out = @ \cup {[id |-> c.id, n |-> k]}, !.off = c.off,
                                        !.last = k]
        ELSE [a EXCEPT !.wait = Append(@, c)]
  IN FoldLeft(step, [out |-> {}, wait |-> <<>>, off |-> 0, last |-> 0], x.srv[n].wait)

-----------------------------------------------------------------------------------
(* replicationCron, in its order.  ev: the clocks that ran out since the last time. *)
LostMaster(x, s) ==
  IF x.srv[s].rstate = "connected" THEN replicationCacheMaster(x, s)
  ELSE cancelReplicationHandshake(x, s)

FreeLinks(x) == {i \in Links : x.link[i].m = None}

CronTimeout(x, n, ev) == IF "lost" \in ev /\ x.srv[n].link # None THEN LostMaster(x, n) ELSE x

CronConnect(x, n) ==
  IF x.srv[n].rstate = "connect" /\ x.srv[x.srv[n].host].up /\ FreeLinks(x) # {}
  THEN connectWithMaster(x, n, Min(FreeLinks(x))) ELSE x

CronAck(x, n) == IF x.srv[n].master.on /\ ~x.srv[n].master.pre THEN replicationSendAck(x, n) ELSE x

CronPing(x, n, ev) ==
  IF "ping" \in ev THEN replicationFeedSlaves(x, n, x.srv[n].sel, << <<"PING", 0, 1>> >>) ELSE x

CronLag(x, n, ev) ==
  IF "lag" \in ev
  THEN FoldLeft(freeClient, x, SelectSeq(x.srv[n].slaves, LAMBDA i :
         x.link[i].st = "online" /\ ~x.link[i].pre /\ x.link[i].late))
  ELSE x

CronIdle(x, n, ev) ==
  IF x.srv[n].slaves # <<>> THEN x
  ELSE [x EXCEPT !.srv[n] = replicationScriptCacheFlush(
                              IF "idle" \in ev THEN freeReplicationBacklog(@) ELSE @)]

CronBgsave(x, n, ev, ok) ==
  IF x.srv[n].child.type = "none" /\ State(x, n, "start") # {}
     /\ (~x.srv[n].conf.diskless \/ "delay" \in ev)
  THEN startBgsaveForReplication(x, n, MinCapa(x, n), ok) ELSE x

replicationCron(x, n, ev, ok) ==
  refreshGoodSlavesCount(
    CronBgsave(CronIdle(CronLag(CronPing(CronAck(CronConnect(CronTimeout(x, n, ev), n), n),
                                         n, ev), n, ev), n, ev), n, ev, ok), n)

-----------------------------------------------------------------------------------
Spend(kind) == left[kind] > 0 /\ left' = [left EXCEPT ![kind] = @ - 1]
Fork(ok) == IF ok THEN UNCHANGED left ELSE Spend("nofork")

(* One event of a server: a command, a timer, something to read. *)
Event(x) == w' = x /\ ans' = {}

(* After any number of events the loop comes round: slaves are asked for their        *)
(* offsets if a client started to wait, and the clients in WAIT are looked at.        *)
beforeSleep(n) ==
  LET r == w.srv[n]
      Asked == IF r.getack
               THEN replicationFeedSlaves([w EXCEPT !.srv[n].getack = FALSE], n, r.sel,
                                          << <<"GETACK", 0, 1>> >>)
               ELSE w
  IN /\ r.up /\ r.wait # <<>>
     /\ \E a \in {processClientsWaitingReplicas(Asked, n)} :
          w' = [Asked EXCEPT !.srv[n].wait = a.wait] /\ ans' = a.out
     /\ UNCHANGED left

Cron(n) ==
  \E ev \in SUBSET left.clocks : \E ok \in BOOLEAN :
    /\ w.srv[n].up
    /\ left.cron[n] > 0
    /\ ~({"lag", "idle"} \subseteq ev)   \* repl_no_slaves_since was just set
    /\ ok \/ left.nofork > 0
    /\ left' = [left EXCEPT !.cron[n] = @ - 1, !.clocks = @ \ ev,
                            !.nofork = IF ok THEN @ ELSE @ - 1]
    /\ Event(replicationCron(w, n, ev, ok))

(* The slave's events. *)
Handshake(s) ==
  LET r == w.srv[s] IN
  /\ r.rstate = "handshake"
  /\ w.link[r.link].mopen
  /\ IF r.stage < Len(r.conf.handshake)
     THEN \E refused \in BOOLEAN :
            /\ IF refused THEN Spend("refuse") ELSE UNCHANGED left
            /\ Event(syncWithMaster(w, s, refused))
     ELSE /\ Event([w EXCEPT !.link[r.link].up = Append(@, PsyncRequest(r)),
                                      !.srv[s].minit = -1, !.srv[s].rstate = "psync"])
          /\ UNCHANGED left

SlaveReads(s) ==
  LET r == w.srv[s]
      d == w.link[r.link].down
  IN /\ r.link # None
     /\ d # <<>>
     /\ LET x == [w EXCEPT !.link[r.link].down = Tail(@)] IN
          \/ r.rstate = "psync" /\ Event(PsyncReply(x, s, r.link, Head(d))) /\ UNCHANGED left
          \/ /\ r.rstate # "psync"
             /\ \E fate \in {"loaded", "norename", "noload"} :
                  /\ IF fate = "loaded" THEN UNCHANGED left ELSE Spend("badfile")
                  /\ Event(readSyncBulkPayload(x, s, Head(d), fate))

SlaveStream(s) ==
  LET i == w.srv[s].link IN
  /\ w.srv[s].master.on
  /\ w.link[i].st = "online" /\ ~w.link[i].put
  /\ w.link[i].out # <<>>
  /\ Event(readQueryFromMaster([w EXCEPT !.link[i].out = Tail(@)], s,
                                        Head(w.link[i].out)))
  /\ UNCHANGED left

SlaveEof(s) ==
  LET i == w.srv[s].link IN
  /\ i # None
  /\ ~w.link[i].mopen /\ w.link[i].down = <<>>
  /\ Event(LostMaster(w, s))
  /\ UNCHANGED left

(* The master's events. *)
MasterReads(i) ==
  LET l == w.link[i]
      x == [w EXCEPT !.link[i].up = Tail(@)]
  IN /\ l.mopen /\ l.up # <<>>
     /\ IF Head(l.up).op = "ack"
        THEN Event(replconfCommand(x, i, Head(l.up).off)) /\ UNCHANGED left
        ELSE \E ok \in BOOLEAN : Fork(ok) /\ Event(syncCommand(x, i, Head(l.up), ok))

MasterEof(i) ==
  /\ w.link[i].mopen /\ ~w.link[i].sopen /\ w.link[i].up = <<>>
  /\ Event(freeClient(w, i))
  /\ UNCHANGED left

SendBulk(i) ==
  /\ w.link[i].st = "bulk"
  /\ Event(sendBulkToSlave(w, i))
  /\ UNCHANGED left

(* rdbSaveToSlavesSockets: the child writes to the sockets itself. *)
ChildStreams(n) ==
  LET c == w.srv[n].child IN
  /\ c.type = "socket" /\ ~c.sent
  /\ w' = [w EXCEPT !.srv[n].child.sent = TRUE,
                    !.link = [i \in Links |->
                       IF i \in c.fds THEN [@[i] EXCEPT !.down = Append(@,
                         [op |-> "rdb", run |-> NoRun, off |-> 0, data |-> c.snap])]
                       ELSE @[i]]]
  /\ ans' = {}
  /\ UNCHANGED left

ChildDone(n) ==
  \E err, ok \in BOOLEAN :
    /\ w.srv[n].child.type # "none"
    /\ ~err /\ w.srv[n].child.type = "socket" => w.srv[n].child.sent
    /\ (err => left.childfail > 0) /\ (ok \/ left.nofork > 0)
    /\ left' = [left EXCEPT !.childfail = IF err THEN @ - 1 ELSE @,
                            !.nofork = IF ok THEN @ ELSE @ - 1]
    /\ Event(backgroundSaveDoneHandler(w, n, err, ok))

(* The clients. *)
Write(n, c, db) ==
  /\ w.srv[n].up /\ w.srv[n].host = None
  /\ w.srv[n].good >= w.srv[n].conf.minslaves
  /\ c \notin {e.c : e \in Range(w.srv[n].wait)}
  /\ \E kind \in {"write", "eval"} :
       /\ left[kind] > 0
       /\ kind = "eval" => w.srv[n].lua
       /\ left' = [left EXCEPT ![kind] = @ - 1, !.id = @ + 1]
       /\ \E x \in {IF kind = "write" THEN Wrote(w, n, db, left.id, Set(left.id))
                    ELSE evalShaCommand(w, n, db, left.id)} :
            Event([x EXCEPT !.srv[n].woff[c] = x.srv[n].off,
                                     !.srv[n].wid[c] = left.id])

waitCommand(n, c, k) ==
  LET r == w.srv[n]
      acks == replicationCountAcksByOffset(w, n, r.woff[c])
  IN /\ r.up /\ c \notin {e.c : e \in Range(r.wait)}
     /\ Spend("wait")
     /\ IF acks >= k THEN UNCHANGED w /\ ans' = {[id |-> r.wid[c], n |-> acks]}
        ELSE Event([w EXCEPT !.srv[n].getack = TRUE,
                             !.srv[n].wait = Append(@, [c |-> c, off |-> r.woff[c], n |-> k,
                                                        id |-> r.wid[c]])])

(* replyToBlockedClientTimedOut. *)
WaitTimeout(n) ==
  \E e \in Range(w.srv[n].wait) :
    /\ Spend("expire")
    /\ w' = [w EXCEPT !.srv[n].wait = SelectSeq(@, LAMBDA f : f # e)]
    /\ ans' = {[id |-> e.id, n |-> replicationCountAcksByOffset(w, n, e.off)]}

Command(c) ==
  /\ w.srv[c.at].up
  /\ c \in left.script
  /\ left' = [left EXCEPT !.script = @ \ {c}]
  /\ Event(CASE c.op = "slaveof" -> slaveofCommand(w, c.at, c.host)
         [] c.op = "resize" -> [w EXCEPT !.srv[c.at] = resizeReplicationBacklog(@, c.size)]
         [] c.op = "rewrite" -> IF w.srv[c.at].child.type # "none" THEN w
                                ELSE Snapshot(w, c.at, "aof", {})
         [] c.op = "bgsave" -> IF w.srv[c.at].child.type # "none" THEN w
                               ELSE Snapshot(w, c.at, "disk", {}))

(* A slave has not acknowledged anything for too long. *)
Age(i) ==
  /\ w.link[i].mopen /\ ~w.link[i].late
  /\ Spend("age")
  /\ w' = [w EXCEPT !.link[i].late = TRUE]
  /\ ans' = {}

Crash(n) ==
  LET mine(l) == IF l.m = n THEN [l EXCEPT !.mopen = FALSE, !.out = <<>>, !.up = <<>>, !.st = "none"]
                 ELSE IF l.s = n THEN [l EXCEPT !.sopen = FALSE, !.down = <<>>] ELSE l
      x == [w EXCEPT !.link = [i \in Links |-> mine(@[i])],
                     !.srv[n] = [initServer(@.run, @.host, @.rdb, @.conf) EXCEPT !.up = FALSE]]
  IN /\ w.srv[n].up
     /\ Spend("crash")
     /\ w' = FoldSet(LAMBDA i, y : Settled(y, i), x, {i \in Links : w.link[i].m # None})
     /\ ans' = {}

Restart(n) ==
  /\ ~w.srv[n].up
  /\ w' = [w EXCEPT !.srv[n] = initServer(<<n, @.run[2] + 1>>, @.host, @.rdb, @.conf)]
  /\ ans' = {}
  /\ UNCHANGED left

Init ==
  \E c \in Scenarios : w = [srv |-> c.srv, link |-> c.link] /\ left = c.left /\ ans = {}

Next ==
  \/ \E n \in DOMAIN w.srv :
       \/ Cron(n) \/ beforeSleep(n) \/ Handshake(n) \/ SlaveReads(n) \/ SlaveStream(n) \/ SlaveEof(n)
       \/ ChildStreams(n) \/ ChildDone(n) \/ WaitTimeout(n) \/ Crash(n) \/ Restart(n)
       \/ \E c \in 1..left.clients : \E db \in left.dbs : Write(n, c, db)
       \/ \E c \in 1..left.clients : \E k \in left.wants : waitCommand(n, c, k)
  \/ \E i \in Links : MasterReads(i) \/ MasterEof(i) \/ SendBulk(i) \/ Age(i)
  \/ \E c \in left.script : Command(c)

Spec == Init /\ [][Next]_vars

----------------------------------------------------------------------------------
(* What a slave's data set becomes when it has read the bytes under way. *)
Replay(r, bytes) ==
  LET step(a, b) ==
        CASE b[1] = "SELECT" -> [a EXCEPT !.db = b[2]]
          [] b[1] = "SET" /\ b[3] = 1 -> [a EXCEPT !.q = <<b>>]
          [] b[1] = "SET" /\ b[3] = 2 ->
               IF a.q = << <<"SET", b[2], 1>> >>
               THEN [a EXCEPT !.q = <<>>, !.data = Append(@, <<a.db, b[2]>>)] ELSE a
          [] b[1] = "EVAL" -> [a EXCEPT !.lua = TRUE, !.data = Append(@, <<a.db, b[2]>>)]
          [] b[1] = "EVALSHA" -> IF a.lua THEN [a EXCEPT !.data = Append(@, <<a.db, b[2]>>)] ELSE a
          [] OTHER -> a
  IN FoldLeft(step, [data |-> r.data, db |-> r.master.db, lua |-> r.lua, q |-> r.master.q],
              bytes).data

(* Slaves that replicate, over a connection the master holds as well. *)
Replicating ==
  {s \in DOMAIN w.srv : w.srv[s].master.on /\ w.link[w.srv[s].link].st \in {"end", "online"}}

(* However a slave got there (full or partial resynchronization, a shared or a       *)
(* diskless transfer, a break inside a command, a backlog freed, resized or wrapped  *)
(* around in between), what it holds followed by what is queued for it is exactly    *)
(* what its master holds: no write lost, repeated, or applied to another database.   *)
CatchUp ==
  \A s \in Replicating :
    LET l == w.link[w.srv[s].link] IN Replay(w.srv[s], l.out) = w.srv[l.m].data

(* The offset a slave would ask to continue from names the same byte at the master:  *)
(* a later PSYNC compares nothing else (masterTryPartialResynchronization).          *)
OffsetAgree ==
  \A s \in Replicating :
    LET l == w.link[w.srv[s].link] IN
    ~w.srv[s].master.pre => w.srv[s].master.off + Len(l.out) = w.srv[l.m].off

(* When WAIT answers n, at least n other servers hold the client's last write        *)
(* (waitCommand, processClientsWaitingReplicas).                                     *)
WaitSound ==
  \A a \in ans :
    a.id # 0 =>
      Cardinality({s \in DOMAIN w.srv : w.srv[s].host # None
                     /\ \E k \in 1..Len(w.srv[s].data) : w.srv[s].data[k][2] = a.id}) >= a.n
==================================================================================
