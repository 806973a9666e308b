------------------------- MODULE RedisServerProperties -------------------------
(* Correctness properties of RedisServer. *)
EXTENDS RedisServer, TLC

Value(o) == [t |-> o.t, v |-> o.v]

\* A slave that has applied everything the master sent holds the same values, whatever
\* encoding it chose and whatever its random choices: call() and the commands that
\* rewrite what they propagate (SPOP, BLPOP, INCRBYFLOAT, expiration, EXEC).
ReplicaEqual ==
  link = <<>> /\ ~rep.multi => \A k \in Keys : Value(rep.db[k]) = Value(db[k])

\* ... and a key has a time to live on the slave exactly if it has one on the master,
\* unless INCRBYFLOAT changed it since its time was set: it reaches the slave as a SET,
\* which takes the time to live away there (t_string.c, incrbyfloatCommand).
ReplicaVolatile ==
  link = <<>> /\ ~rep.multi =>
    \A k \in Keys : (rep.exp[k] = -1) = (exp[k] = -1 \/ k \in untimed)

\* A key whose collection lost its last element is gone: on the master and on the slave.
NoEmptyAggregate ==
  \A k \in Keys : /\ db[k].t \in {"list", "set", "hash", "zset"} => db[k].v # <<>>
                  /\ rep.db[k].t \in {"list", "set", "hash", "zset"} => rep.db[k].v # <<>>

\* WATCH is sound: while a client watches a key, every change of its value or its time
\* to live, other than by expiration or eviction, marks the transaction, so EXEC refuses
\* it.  MOVE and PERSIST are the exceptions: they do not call signalModifiedKey, although
\* db.c:298 says that every modification does.
WatchSound == \A c \in Clients : stale[c] # {} => cl[c].cas

\* After any request no client stays blocked on a key that holds a list, unless SORT put
\* the list in the place of another value: only dbAdd announces a list, dbOverwrite does
\* not (db.c, sort.c).
NoStarvedClient == \A k \in Keys : bk[k] # <<>> /\ k \notin unserved => db[k].t # "list"

\* Clients that wait for one key only are served in the order they blocked: when the
\* later of two leaves the queue because of a command, so does the earlier.
FifoService ==
  [][\A k \in Keys : \A i, j \in DOMAIN bk[k] :
       LET first == bk[k][i]
           second == bk[k][j]
       IN  /\ i < j /\ bpop[first].keys = <<k>> /\ bpop[second].keys = <<k>>
           /\ link' # link /\ second \notin Range(bk'[k])
           => first \notin Range(bk'[k])]_vars
=============================================================================
