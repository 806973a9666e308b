----------------------------- MODULE RedisPersistence -----------------------------
(* The append only file and the dump of one server (aof.c, rdb.c, bio.c and their   *)
(* calls in server.c): commands, the event loop's flush, the child that rewrites    *)
(* the AOF and the pipes between it and its parent, the child that dumps, the       *)
(* thread that calls fsync, failed writes, crashes of the process and of the        *)
(* machine.  A write is a number, greater than all before it; the data set is the   *)
(* sequence of writes of each database.  A file is a sequence of bytes              *)
(* <<command, argument, part>> of which the first `synced` are safe on disk.        *)
EXTENDS Integers, Sequences, FiniteSets, SequencesExt, FiniteSetsExt

CONSTANTS Scenarios,   \* configurations, with what may happen in each
          dbnum        \* number of databases

Dbs == 0..(dbnum - 1)
Hows == {"ok", "err", "undone", "part"}   \* outcomes of write()

Confs == [aof : BOOLEAN, policy : {"always", "everysec", "no"}, nofsync : BOOLEAN,
          changes : Nat, stopwrites : BOOLEAN, truncated : BOOLEAN]
Budgets == [write : Nat, multi : Nat, cron : Nat, clocks : SUBSET SUBSET {"due", "grown", "retry"},
            fail : Nat, errors : SUBSET Hows, tick : Nat, kill : Nat, power : Nat, childfail : Nat,
            script : SUBSET {"aof on", "aof off", "rewrite", "bgsave", "save", "shutdown"},
            id : Nat \ {0}]

ASSUME DbnumAssumption == dbnum \in Nat \ {0}
ASSUME ScenariosAssumption == Scenarios \subseteq [conf : Confs, left : Budgets]

VARIABLES p,     \* the server: its memory, files, children
          left   \* left[kind]: how many steps of a kind may still happen

vars == <<p, left>>

Empty == [db \in Dbs |-> <<>>]
Holds(data) == UNION {Range(data[db]) : db \in Dbs}
NoRewrite == [phase |-> "none", file |-> <<>>, diff |-> <<>>]
NoDump == [phase |-> "none", snap |-> Empty]

Set(id) == << <<"SET", id, 1>>, <<"SET", id, 2>> >>
Select(db) == << <<"SELECT", db, 1>> >>
Multi == << <<"MULTI", 0, 1>> >>
Exec == << <<"EXEC", 0, 1>> >>

(* A server that starts with the given files.  loaded: the writes it found in them;    *)
(* orphan: see stopAppendOnly.                                                        *)
Started(data, file, synced, dump, dirty, conf, orphan) ==
  [up |-> TRUE, data |-> data, loaded |-> Holds(data), acked |-> {},
   aof |-> IF conf.aof THEN "on" ELSE "off", fd |-> IF conf.aof THEN "open" ELSE "none",
   sel |-> -1, buf |-> <<>>, file |-> file, synced |-> synced, base |-> Len(file), gen |-> 0,
   orphan |-> orphan, postponed |-> "no", lastok |-> TRUE, second |-> FALSE, jobs |-> <<>>,
   rw |-> NoRewrite, rwbuf |-> <<>>, pipe |-> <<>>, stop |-> FALSE, rwsched |-> FALSE, rdb |-> NoDump, dump |-> dump, dirty |-> dirty,
   before |-> 0, bgsched |-> FALSE, saveok |-> TRUE, conf |-> conf]

-----------------------------------------------------------------------------------
(* bio.c: jobs of the fsync thread, served in order.  A job makes safe at least what *)
(* was written when it was queued; the file may have been replaced in between.  It    *)
(* makes nothing safe if the descriptor is not the file's.                            *)
Synced(r) == IF r.fd = "open" THEN Len(r.file) ELSE r.synced

bioCreateBackgroundJob(r) == [r EXCEPT !.jobs = Append(@, [gen |-> r.gen, len |-> Synced(r)])]
bioPendingJobsOfType(r) == Len(r.jobs)

bioProcessBackgroundJobs(r) ==
  LET j == Head(r.jobs)
  IN [r EXCEPT !.jobs = Tail(@),
               !.synced = IF j.gen = r.gen /\ j.len > @ THEN j.len ELSE @]

-----------------------------------------------------------------------------------
(* Commands reach the AOF buffer, and the buffer of the rewrite in progress. *)
aofRewriteBufferAppend(r, bytes) ==
  IF r.rw.phase = "none" THEN r ELSE [r EXCEPT !.rwbuf = @ \o bytes]

feedAppendOnlyFile(r, db, bytes) ==
  LET b == (IF r.sel = db THEN <<>> ELSE Select(db)) \o bytes
      fed(y) == aofRewriteBufferAppend(y, b)
  IN fed([r EXCEPT !.sel = db, !.buf = IF r.aof = "on" THEN @ \o b ELSE @])

(* The effect of a command or transaction: writes ids to db, with the bytes of its   *)
(* propagation.  The reply waits for the end of the event loop's iteration.          *)
Executed(r, db, ids, bytes) ==
  LET y == [r EXCEPT !.data[db] = @ \o ids, !.dirty = @ + Len(ids)]
  IN IF r.aof = "off" THEN y ELSE feedAppendOnlyFile(y, db, bytes)

(* processCommand refuses writes while there are problems persisting on disk. *)
Persists(r) == r.lastok /\ (r.conf.stopwrites /\ r.conf.changes > 0 => r.saveok)

-----------------------------------------------------------------------------------
(* flushAppendOnlyFile.  how: what write() does: everything (ok), nothing (err), or  *)
(* a part, after which ftruncate() works (undone) or not (part).  A descriptor that  *)
(* startAppendOnly closed (stale) may be a client's by now, which then gets the bytes. *)
Fsynced(r) == [r EXCEPT !.synced = Synced(r)]
Grown(r, bytes) == IF r.fd = "open" THEN r.file \o bytes ELSE r.file

FsyncAfterWrite(r, pending) ==
  IF r.conf.nofsync /\ (r.rw.phase # "none" \/ r.rdb.phase # "none") THEN r
  ELSE IF r.conf.policy = "always" THEN Fsynced(r)
  ELSE IF r.conf.policy = "everysec" /\ r.second
  THEN [(IF pending THEN r ELSE bioCreateBackgroundJob(r)) EXCEPT !.second = FALSE]
  ELSE r

AllWritten(r) == [r EXCEPT !.file = Grown(r, r.buf), !.buf = <<>>, !.lastok = TRUE, !.postponed = "no"]

(* A failed write: with appendfsync always the process exits before it replies. *)
WriteFailed(r, how) ==
  LET k == IF how = "part" THEN 1 ELSE 0
      y == [r EXCEPT !.postponed = "no", !.file = Grown(r, SubSeq(r.buf, 1, k)),
                     !.buf = SubSeq(@, k + 1, Len(@))]
  IN IF r.conf.policy = "always" THEN [y EXCEPT !.up = FALSE] ELSE [y EXCEPT !.lastok = FALSE]

flushAppendOnlyFile(r, force, how) ==
  LET pending == r.conf.policy = "everysec" /\ bioPendingJobsOfType(r) # 0
  IN IF r.buf = <<>> THEN r
     ELSE IF ~force /\ pending /\ r.postponed = "no" THEN [r EXCEPT !.postponed = "yes"]
     ELSE IF ~force /\ pending /\ r.postponed = "yes" THEN r
     ELSE IF r.fd = "none" THEN WriteFailed(r, "err")
     ELSE IF how = "ok" THEN FsyncAfterWrite(AllWritten(r), pending)
     ELSE WriteFailed(r, how)

(* Clients get the replies to what this process executed. *)
Answered(r) == [r EXCEPT !.acked = Holds(r.data) \ r.loaded]

(* A plausible slip: clients are answered before the AOF is written. *)
ReplyFirst(r, how) == flushAppendOnlyFile(Answered(r), FALSE, how)

(* beforeSleep: the AOF is written, then the clients get their replies. *)
beforeSleep(r, how) ==
  LET reply(y) == IF y.up THEN Answered(y) ELSE y
  IN reply(flushAppendOnlyFile(r, FALSE, how))

-----------------------------------------------------------------------------------
(* The rewrite: parent and child, and the pipes between them. *)
RewriteKey(f, id) == f \o Set(id)
RewriteDb(data, f, db) ==
  IF data[db] = <<>> THEN f ELSE FoldLeft(RewriteKey, f \o Select(db), data[db])
rewriteAppendOnlyFile(data) ==
  FoldLeft(LAMBDA f, db : RewriteDb(data, f, db), <<>>, [k \in 1..dbnum |-> k - 1])

rewriteAppendOnlyFileBackground(r) ==
  IF r.rw.phase # "none" \/ r.rdb.phase # "none" THEN r
  ELSE [r EXCEPT !.rw = [phase |-> "dump", file |-> rewriteAppendOnlyFile(r.data), diff |-> <<>>],
                 !.rwsched = FALSE, !.stop = FALSE, !.sel = -1]

(* A byte of the difference goes to the child, unless it said it has enough. *)
aofChildWriteDiffData(r) ==
  IF r.stop \/ r.rwbuf = <<>> THEN r
  ELSE [r EXCEPT !.pipe = Append(@, Head(r.rwbuf)), !.rwbuf = Tail(@)]

aofReadDiffFromParent(r) == [r EXCEPT !.rw.diff = @ \o r.pipe, !.pipe = <<>>]

(* The parent sees that the child wants no more. *)
aofChildPipeReadable(r) == [r EXCEPT !.stop = TRUE, !.rw.phase = "acked"]

(* A plausible slip: what is in the pipe when the parent stops is not read. *)
FinishUnread(r) == [r EXCEPT !.rw.phase = "done", !.rw.file = @ \o r.rw.diff]

(* The child ends: a last read, then the difference is appended and synced. *)
FinishRewrite(r) ==
  LET y == aofReadDiffFromParent(r)
  IN [y EXCEPT !.rw.phase = "done", !.rw.file = @ \o y.rw.diff]

aofRewriteBufferReset(r) == [r EXCEPT !.rwbuf = <<>>, !.pipe = <<>>, !.rw = NoRewrite]

(* The new file, with the rest of the difference, replaces the old one. *)
Switch(r) ==
  LET y == [r EXCEPT !.file = r.rw.file \o r.rwbuf, !.synced = Len(r.rw.file), !.gen = @ + 1]
      synced(z) == IF r.conf.policy = "always" THEN Fsynced(z)
                   ELSE IF r.conf.policy = "everysec" THEN bioCreateBackgroundJob(z) ELSE z
  IN IF r.fd = "none" THEN y
     ELSE [synced([y EXCEPT !.fd = "open"]) EXCEPT !.sel = -1, !.buf = <<>>, !.orphan = FALSE,
                            !.base = Len(r.rw.file \o r.rwbuf),
                            !.aof = IF @ = "wait" THEN "on" ELSE @]

backgroundRewriteDoneHandler(r) ==
  LET y == aofRewriteBufferReset(IF r.rw.phase = "done" THEN Switch(r) ELSE r)
  IN [y EXCEPT !.rwsched = @ \/ y.aof = "wait"]

(* CONFIG SET appendonly. *)
startAppendOnly(r) ==
  IF r.rdb.phase # "none"
  THEN [r EXCEPT !.fd = "open", !.rwsched = TRUE, !.aof = "wait", !.second = FALSE]
  ELSE IF r.rw.phase # "none" THEN [r EXCEPT !.fd = "stale", !.second = FALSE]
  ELSE [rewriteAppendOnlyFileBackground(r) EXCEPT !.fd = "open", !.aof = "wait", !.second = FALSE]

(* A write that fails here leaves its bytes in the buffer of an AOF that is off; they *)
(* are written when it is on again, to a file that may have got them from a rewrite   *)
(* (orphan, until a rewrite that empties the buffer replaces the file).               *)
stopAppendOnly(r, how) ==
  LET y == flushAppendOnlyFile(r, TRUE, how)
  IN IF ~y.up THEN y
     ELSE [aofRewriteBufferReset(Fsynced(y)) EXCEPT !.fd = "none", !.sel = -1, !.aof = "off",
                                                    !.orphan = @ \/ y.buf # <<>>]

-----------------------------------------------------------------------------------
(* The dump. *)
rdbSaveBackground(r) ==
  IF r.rw.phase # "none" \/ r.rdb.phase # "none" THEN r
  ELSE [r EXCEPT !.before = r.dirty, !.rdb = [phase |-> "save", snap |-> r.data]]

rdbSave(r) == [r EXCEPT !.dump = r.data, !.dirty = 0, !.saveok = TRUE]

(* A child the server killed itself is no error. *)
SaveStatus(r) == IF r.rdb.phase = "killed" THEN r.saveok ELSE r.rdb.phase = "done"

(* A plausible slip: what was written while the child saved counts as saved. *)
SaveDoneForgets(r) ==
  [r EXCEPT !.dirty = IF r.rdb.phase = "done" THEN 0 ELSE @, !.saveok = SaveStatus(r),
            !.rdb = NoDump]

backgroundSaveDoneHandlerDisk(r) ==
  [r EXCEPT !.dirty = IF r.rdb.phase = "done" THEN @ - r.before ELSE @,
            !.saveok = SaveStatus(r), !.rdb = NoDump]

saveCommand(r, ok) == IF r.rdb.phase # "none" \/ ~ok THEN r ELSE rdbSave(r)

bgsaveCommand(r, schedule) ==
  IF r.rdb.phase # "none" THEN r
  ELSE IF r.rw.phase # "none" THEN [r EXCEPT !.bgsched = @ \/ schedule]
  ELSE rdbSaveBackground(r)

bgrewriteaofCommand(r) ==
  IF r.rw.phase # "none" THEN r
  ELSE IF r.rdb.phase # "none" THEN [r EXCEPT !.rwsched = TRUE]
  ELSE rewriteAppendOnlyFileBackground(r)

(* SHUTDOWN: children are killed, the AOF is synced as far as it is written, the dump *)
(* is written if it is asked for.  The server goes on if it cannot be (~ok), or while  *)
(* the first AOF is being written.                                                     *)
KillDump(r) == [r EXCEPT !.rdb.phase = IF @ = "save" THEN "killed" ELSE @]
KillRewrite(r) == [r EXCEPT !.rw.phase = IF @ \in {"dump", "asked", "acked"} THEN "failed" ELSE @]
Exited(r) == [aofRewriteBufferReset(r) EXCEPT !.up = FALSE, !.rdb = NoDump]

prepareForShutdown(r, save, ok) ==
  LET y == KillDump(r)
      z == IF r.aof = "off" THEN y ELSE Fsynced(KillRewrite(y))
  IN IF r.aof = "wait" /\ r.rw.phase # "none" THEN y
     ELSE IF ~save THEN Exited(z)
     ELSE IF ok THEN rdbSave(Exited(z)) ELSE z

-----------------------------------------------------------------------------------
(* serverCron.  ev: "due" a save point's time has passed, "grown" the AOF has grown  *)
(* enough, "retry" the delay after a failed save is over.                            *)
CronScheduled(r) == IF r.rwsched THEN rewriteAppendOnlyFileBackground(r) ELSE r

CronChildren(r, ev) ==
  IF r.rdb.phase \in {"done", "failed", "killed"} THEN backgroundSaveDoneHandlerDisk(r)
  ELSE IF r.rw.phase \in {"done", "failed"} THEN backgroundRewriteDoneHandler(r)
  ELSE IF r.rdb.phase # "none" \/ r.rw.phase # "none" THEN r
  ELSE LET y == IF r.conf.changes > 0 /\ r.dirty >= r.conf.changes /\ "due" \in ev
                   /\ ("retry" \in ev \/ r.saveok)
                THEN rdbSaveBackground(r) ELSE r
       IN IF "grown" \in ev /\ Len(r.file) > r.base THEN rewriteAppendOnlyFileBackground(y) ELSE y

CronFlush(r, how) ==
  IF r.postponed # "no" \/ ~r.lastok THEN flushAppendOnlyFile(r, FALSE, how) ELSE r

CronBgsave(r, ev) ==
  IF r.bgsched /\ ("retry" \in ev \/ r.saveok) /\ r.rw.phase = "none" /\ r.rdb.phase = "none"
  THEN [rdbSaveBackground(r) EXCEPT !.bgsched = FALSE] ELSE r

serverCron(r, ev, how) == CronBgsave(CronFlush(CronChildren(CronScheduled(r), ev), how), ev)

-----------------------------------------------------------------------------------
(* loadAppendOnlyFile: what the bytes of a file restore; valid: the end of the last  *)
(* complete command.  Commands run at once, inside a MULTI too.                      *)
ReplayStep(a, b) ==
  LET done(y) == [y EXCEPT !.pos = @ + 1, !.valid = a.pos + 1]
  IN CASE b[1] = "SELECT" -> done([a EXCEPT !.db = b[2]])
       [] b[1] = "MULTI" -> done([a EXCEPT !.multi = TRUE])
       [] b[1] = "EXEC" -> done([a EXCEPT !.multi = FALSE])
       [] b[1] = "SET" /\ b[3] = 1 -> [a EXCEPT !.pos = @ + 1]
       [] b[1] = "SET" /\ b[3] = 2 -> done([a EXCEPT !.data[a.db] = Append(@, b[2]), !.n = @ + 1])

ReplayStart == [data |-> Empty, db |-> 0, multi |-> FALSE, pos |-> 0, valid |-> 0, n |-> 0]
Replayed(bytes) == FoldLeft(ReplayStep, ReplayStart, bytes)

Truncated(l) == l.multi \/ l.valid < l.pos

(* The server starts again; the file ends after its last complete command. *)
Least(a, b) == IF a <= b THEN a ELSE b

loadAppendOnlyFile(r) ==
  LET l == Replayed(r.file)
  IN IF Truncated(l) /\ ~r.conf.truncated THEN r
     ELSE Started(l.data, SubSeq(r.file, 1, l.valid), Least(r.synced, l.valid), r.dump, l.n,
                  r.conf, r.orphan)

loadDataFromDisk(r) ==
  IF r.conf.aof THEN loadAppendOnlyFile(r)
  ELSE Started(r.dump, r.file, r.synced, r.dump, 0, r.conf, r.orphan)

(* A power failure leaves some part of the file that is at least what was synced. *)
PowerLost(r, k) == [r EXCEPT !.file = SubSeq(@, 1, k), !.synced = k]

-----------------------------------------------------------------------------------
Spend(kind) == left[kind] > 0 /\ left' = [left EXCEPT ![kind] = @ - 1]

(* One outcome of write() per step; all but "ok" are failures. *)
Outcome(how) == how = "ok" \/ (how \in left.errors /\ left.fail > 0)
Failing(l, how) == IF how = "ok" THEN l ELSE [l EXCEPT !.fail = @ - 1]

Client(db) ==
  /\ p.up /\ Persists(p)
  /\ \/ /\ left.write > 0
        /\ p' = Executed(p, db, <<left.id>>, Set(left.id))
        /\ left' = [left EXCEPT !.write = @ - 1, !.id = @ + 1]
     \/ /\ left.multi > 0
        /\ p' = Executed(p, db, <<left.id, left.id + 1>>,
                         Multi \o Set(left.id) \o Set(left.id + 1) \o Exec)
        /\ left' = [left EXCEPT !.multi = @ - 1, !.id = @ + 2]

EventLoop(how) ==
  /\ p.up /\ Outcome(how)
  /\ p' = beforeSleep(p, how)
  /\ p' # p
  /\ left' = Failing(left, how)

Cron(how, ev) ==
  /\ p.up /\ left.cron > 0 /\ Outcome(how)
  /\ p' = serverCron(p, ev, how)
  /\ left' = Failing([left EXCEPT !.cron = @ - 1], how)

BioThread ==
  /\ p.up /\ p.jobs # <<>>
  /\ p' = bioProcessBackgroundJobs(p)
  /\ UNCHANGED left

(* A second, or the two seconds a write may be postponed, have passed. *)
Tick ==
  /\ p.up
  /\ Spend("tick")
  /\ p' = [p EXCEPT !.second = TRUE, !.postponed = IF @ = "yes" THEN "long" ELSE @]

(* Parent and child of a rewrite. *)
ParentWrites == p.up /\ p.rw.phase # "none" /\ p.rwbuf # <<>> /\ ~p.stop
                /\ p' = aofChildWriteDiffData(p) /\ UNCHANGED left
ParentStops == p.up /\ p.rw.phase = "asked" /\ p' = aofChildPipeReadable(p) /\ UNCHANGED left

ChildReads == p.rw.phase \in {"dump", "asked"} /\ p.pipe # <<>>
              /\ p' = aofReadDiffFromParent(p) /\ UNCHANGED left
ChildAsks == p.rw.phase = "dump" /\ p' = [p EXCEPT !.rw.phase = "asked"] /\ UNCHANGED left
ChildFinishes == p.rw.phase = "acked" /\ p' = FinishRewrite(p) /\ UNCHANGED left
ChildFails ==
  /\ Spend("childfail")
  /\ \/ p.rw.phase \in {"dump", "asked", "acked"} /\ p' = [p EXCEPT !.rw.phase = "failed"]
     \/ p.rdb.phase = "save" /\ p' = [p EXCEPT !.rdb.phase = "failed"]
DumpFinishes == p.rdb.phase = "save" /\ UNCHANGED left
                /\ p' = [p EXCEPT !.dump = p.rdb.snap, !.rdb.phase = "done"]

(* The configuration file follows what CONFIG SET did. *)
Reconfigured(r) == [r EXCEPT !.conf.aof = r.aof # "off"]

(* A command of the administrator; ok: the dump it asks for can be written.  SHUTDOWN *)
(* SAVE and NOSAVE say whether to dump.                                               *)
Command(c, how, ok) ==
  /\ p.up /\ c \in left.script
  /\ Outcome(how) /\ (how # "ok" => c = "aof off")
  /\ ok \/ (c \in {"save", "shutdown"} /\ left.childfail > 0)
  /\ \/ c = "aof on" /\ p.aof = "off" /\ p' = Reconfigured(startAppendOnly(p))
     \/ c = "aof off" /\ p.aof # "off" /\ p' = Reconfigured(stopAppendOnly(p, how))
     \/ c = "rewrite" /\ p' = bgrewriteaofCommand(p)
     \/ c = "bgsave" /\ p' = bgsaveCommand(p, TRUE)
     \/ c = "save" /\ p' = saveCommand(p, ok)
     \/ c = "shutdown" /\ \E save \in BOOLEAN : p' = prepareForShutdown(p, save, ok)
  /\ left' = [Failing(left, how) EXCEPT !.script = @ \ {c},
                                        !.childfail = IF ok THEN @ ELSE @ - 1]

(* The process dies.  The child that rewrites dies as its pipes break; the one that  *)
(* dumps may still finish.                                                           *)
Kill ==
  /\ p.up /\ Spend("kill")
  /\ p' = [p EXCEPT !.up = FALSE, !.rw = NoRewrite]

(* It is started again; after a power failure only a part of the file may be there. *)
Restart ==
  /\ ~p.up
  /\ \/ p' = loadDataFromDisk(p) /\ UNCHANGED left
     \/ /\ Spend("power")
        /\ \E k \in p.synced..Len(p.file) : p' = loadDataFromDisk(PowerLost(p, k))
  /\ p'.up

Init ==
  \E c \in Scenarios : p = Started(Empty, <<>>, 0, Empty, 0, c.conf, FALSE) /\ left = c.left

Next ==
  \/ \E db \in Dbs : Client(db)
  \/ \E how \in Hows : EventLoop(how) \/ \E ev \in left.clocks : Cron(how, ev)
  \/ BioThread \/ Tick \/ Kill \/ Restart
  \/ ParentWrites \/ ParentStops \/ ChildReads \/ ChildAsks \/ ChildFinishes \/ ChildFails
  \/ DumpFinishes
  \/ \E c \in left.script, how \in Hows, ok \in BOOLEAN : Command(c, how, ok)

Spec == Init /\ [][Next]_vars

--------------------------------------------------------------------------------
(* What the append only file and the dump promise.  Earlier: the data set was d once, *)
(* and every write it has besides came after all writes of d.                         *)
Earlier(d, data) ==
  \A db \in Dbs : /\ IsPrefix(d[db], data[db])
                  /\ \A i \in (Len(d[db]) + 1)..Len(data[db]) : \A id \in Holds(d) : id < data[db][i]

(* Whatever part of an active AOF survives, a restart finds in it the data set as it *)
(* was after some write: nothing missing in between, nothing twice, every write in   *)
(* its database; through rewrites with a concurrent difference, failed and partial   *)
(* writes, switches of the file, CONFIG SET appendonly and earlier restarts          *)
(* (feedAppendOnlyFile, rewriteAppendOnlyFile, backgroundRewriteDoneHandler).  The    *)
(* exception is an AOF switched off while the disk refused its last bytes, until the  *)
(* next rewrite (stopAppendOnly): there a write may be in the file twice.             *)
AofPrefix ==
  p.aof = "on" /\ ~p.orphan =>
    \A k \in p.synced..Len(p.file) : Earlier(Replayed(SubSeq(p.file, 1, k)).data, p.data)

(* What surely survives: a loss of power with appendfsync always, the end of the     *)
(* process with the other policies.                                                  *)
Survives == IF p.conf.policy = "always" THEN p.synced ELSE Len(p.file)

(* A client that got its reply finds its write again after a crash or a SHUTDOWN      *)
(* (which does not write what is still in the buffer), except where                  *)
(* the configuration says otherwise: writes postponed behind a slow fsync            *)
(* (everysec), refused by the disk, or not synced during a rewrite                   *)
(* (no-appendfsync-on-rewrite) (flushAppendOnlyFile, beforeSleep).                   *)
AckDurable ==
  p.aof = "on" /\ p.lastok /\ p.postponed = "no" /\ ~p.conf.nofsync =>
    p.acked \subseteq Holds(Replayed(SubSeq(p.file, 1, Survives)).data)

(* The number of changes not in the dump is never understated, so a save point that  *)
(* is due is not missed (rdbSave, backgroundSaveDoneHandlerDisk, serverCron).        *)
BgsaveLoss == Cardinality(Holds(p.data) \ Holds(p.dump)) <= p.dirty
==================================================================================
