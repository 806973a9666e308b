------------------------------ MODULE RedisServer ------------------------------
(***************************************************************************)
(* A Redis master with its clients and one slave (server.c, multi.c,       *)
(* blocked.c): commands, transactions with WATCH, clients blocked on       *)
(* lists, expiration, eviction, and the stream of commands the slave       *)
(* applies.  A client's request is handled in one step: Redis executes     *)
(* commands in a single thread.                                            *)
(***************************************************************************)
EXTENDS RedisCommands

CONSTANTS Clients,
          Actors,      \* family -> the clients that send requests
          Transactors, \* the clients that use MULTI and WATCH
          Requests,    \* family -> the commands clients send
          Features,    \* family -> subset of {"multi", "time", "evict", "misconf", "slaveof"}
          Policy,      \* server.maxmemory_policy
          MaxMemory,   \* server.maxmemory, counted in elements
          MaxTime,     \* bound: how far the clock runs
          MaxElems,    \* bound: elements in a value
          MaxNumber,   \* bound: finite numbers in hashes and sorted sets
          MaxQueue,    \* bound: commands queued in a transaction
          MaxLink      \* bound: a command runs when fewer wait for the slave

VARIABLES db, exp,     \* the master's key space and expires
          now,         \* mstime()
          cl,          \* client -> [multi, queue, cas, err, watched]
          bk, bpop,    \* blocking_keys, and what each client is blocked in
          link,        \* commands sent to the slave and not applied yet
          rep,         \* the slave: [db, exp, multi, queue]
          misconf,     \* the last BGSAVE, or write to the AOF, failed
          role,        \* "master" or "slave" (SLAVEOF)
          stale,       \* ghost: client -> watched keys that changed since WATCH
          untimed,     \* ghost: keys whose time to live an INCRBYFLOAT took from the slave
          unserved,    \* ghost: lists that a SORT put in the place of another value
          family       \* the commands this behaviour is about

vars == <<db, exp, now, cl, bk, bpop, link, rep, misconf, role, stale, untimed, unserved, family>>
Has(feature) == feature \in Features[family]

---------------------------------------------------------------------------
(* Memory limit *)

Size(o)  == IF o = NoObj THEN 0 ELSE 1 + Cardinality(DOMAIN o.v)
mem_used(x) == MapThenSumSet(LAMBDA k : Size(x.db[k]), Keys)
Evictable(x, d) ==
  {k \in Keys : /\ k[1] = d /\ Exists(x, k)
                /\ Policy \in {"allkeys-lru", "allkeys-random"} \/ x.exp[k] # -1}
\* The key that goes: LRU and random policies may hit any key they sample, volatile-ttl
\* (all keys sampled) the one closest to its expire time.
BestKeys(x, d) ==
  IF Policy # "volatile-ttl" THEN Evictable(x, d)
  ELSE {k \in Evictable(x, d) : \A j \in Evictable(x, d) : x.exp[k] <= x.exp[j]}
EvictOne(x, d) ==
  IF Evictable(x, d) = {} THEN x
  ELSE LET evict(k) == notifyKeyspaceEvent(dbDelete(propagateExpire(x, k), k), "evicted", k)
       IN  evict(Head(Draw(x, BestKeys(x, d))))
\* One key of every database per round, until enough memory is free.
freeMemoryIfNeeded(x) ==
  IF Policy = "noeviction" THEN x
  ELSE FoldLeft(LAMBDA y, i : IF mem_used(y) <= MaxMemory THEN y ELSE FoldLeft(EvictOne, y, SetToSeq(DBs)),
                x, SetToSeq(Keys))

---------------------------------------------------------------------------
(* Effects of a handled request *)

NoBlocked == [k \in Keys |-> <<>>]
Now(rnd) == Context(db, exp, now, role = "slave", bk, bpop, rnd, NoCommand)

\* touchWatchedKey for every key signalled.
Touched(w, x) ==
  [c \in Clients |-> [w[c] EXCEPT !.cas = @ \/ w[c].watched \intersect x.touched # {}]]
\* Keys whose value or time to live changed, other than by expiration or eviction, and
\* other than by MOVE and PERSIST, which do not call signalModifiedKey.
KeysOf(req) == IF req.cmd = "move" THEN {req.k[1], <<req.a[1], req.k[1][2]>>} ELSE Range(req.k)
Silent(reqs) ==
  {k \in UNION {KeysOf(req) : req \in reqs} :
     \A req \in reqs : k \in KeysOf(req) => req.cmd \in {"move", "persist"}}
Changed(x, reqs) ==
  {k \in Keys \ Silent(reqs) :
     /\ db[k] # x.db[k] \/ exp[k] # x.exp[k]
     /\ {<<"expired", k>>, <<"evicted", k>>} \intersect x.ev = {}}
\* INCRBYFLOAT keeps the time to live of the key; what it propagates, SET, does not.
Untimed(x) ==
  {k \in Keys : /\ x.exp[k] # -1 /\ <<"expire", k>> \notin x.ev
                /\ k \in untimed \/ <<"incrbyfloat", k>> \in x.ev}
\* SORT ... STORE over a key that exists: dbOverwrite, which signals no list.
Unserved(x) ==
  {k \in Keys : /\ x.db[k].t = "list"
                /\ k \in unserved \/ (<<"sortstore", k>> \in x.ev /\ db[k] # NoObj)}
WithinBounds(x) ==
  \A k \in Keys : LET v == x.db[k].v
                  IN  /\ Cardinality(DOMAIN v) <= MaxElems
                      /\ x.db[k].t \in {"hash", "zset"} => \A i \in DOMAIN v : v[i] > 100 \/ v[i] \in {-Inf} \union (-MaxNumber .. MaxNumber)

\* The commands reqs left the server in context x, and the clients' flags in w.
Commit(x, w, reqs) ==
  /\ WithinBounds(x)
  /\ db' = x.db /\ exp' = x.exp
  /\ bk' = x.bk /\ bpop' = x.bpop
  /\ link' = link \o x.feed
  /\ cl' = Touched(w, x)
  /\ stale' = [c \in Clients |-> IF w[c].watched = {} THEN {}
                                 ELSE stale[c] \union (w[c].watched \intersect Changed(x, reqs))]
  /\ untimed' = Untimed(x) /\ unserved' = Unserved(x)

---------------------------------------------------------------------------
(* Clients *)

NewClient == [multi |-> FALSE, queue |-> <<>>, cas |-> FALSE, err |-> FALSE, watched |-> {}]
Blocked(c) == bpop[c] # NotBlocked
Ready(c)   == c \in Actors[family] /\ ~Blocked(c) /\ Len(link) < MaxLink
Transacts(c) == Has("multi") /\ c \in Transactors /\ Ready(c)
\* The keys the family's commands name.
NamedKeys  == UNION {Range(req.k) : req \in Requests[family]}

flagTransaction(c)    == [cl EXCEPT ![c].err = @ \/ cl[c].multi]
discardTransaction(c) == [cl EXCEPT ![c] = NewClient]

\* The error processCommand answers with before the command runs, or ""; x is the
\* context after freeMemoryIfNeeded.  Errors in NoFlag do not flag the transaction.
Refusal(x, req) ==
  CASE req.cmd \in DenyOOM /\ Has("evict") /\ mem_used(x) > MaxMemory -> "OOM"
    [] ~(req.cmd \in DenyOOM /\ Has("evict") /\ mem_used(x) > MaxMemory)
         /\ misconf /\ role = "master" /\ req.cmd \notin ReadOnly -> "MISCONF"
    [] role = "slave" /\ req.cmd \notin ReadOnly -> "READONLY"
    [] OTHER -> ""
NoFlag == {"READONLY"}

\* processCommand: eviction, the checks, then the command is queued or called and the
\* clients blocked on lists it filled are served.
Freed(x) == IF Has("evict") THEN freeMemoryIfNeeded(x) ELSE x
Refuse(c, x, refused) == Commit(x, IF refused \in NoFlag THEN cl ELSE flagTransaction(c), {})
queueMultiCommand(c, x, req) ==
  /\ cl[c].multi /\ Len(cl[c].queue) < MaxQueue
  /\ Commit(x, [cl EXCEPT ![c].queue = Append(@, req)], {})
Execute(c, x, req) ==
  /\ ~cl[c].multi
  /\ \E y \in {handleClientsBlockedOnLists(call(x, req, c, FALSE))} : y.err # "hang" /\ Commit(y, cl, {req})
ProcessCommand(c) ==
  /\ Ready(c)
  /\ \E req \in Requests[family], rnd \in {"asc", "desc"} : \E x \in {Freed(Now(rnd))} :
       \/ Refusal(x, req) # "" /\ Refuse(c, x, Refusal(x, req))
       \/ Refusal(x, req) = "" /\ queueMultiCommand(c, x, req)
       \/ Refusal(x, req) = "" /\ Execute(c, x, req)
  /\ UNCHANGED <<now, rep, misconf, role, family>>

Unchanged == UNCHANGED <<db, exp, now, bk, bpop, link, rep, misconf, role, untimed, unserved, family>>
\* MULTI inside MULTI is an error that flags nothing.
multiCommand(c) ==
  /\ Transacts(c) /\ ~cl[c].multi
  /\ cl' = [cl EXCEPT ![c].multi = TRUE]
  /\ UNCHANGED stale /\ Unchanged
watchCommand(c) ==
  /\ Transacts(c) /\ ~cl[c].multi
  /\ \E k \in NamedKeys : /\ k \notin cl[c].watched
                          /\ cl' = [cl EXCEPT ![c].watched = @ \union {k}]
  /\ UNCHANGED stale /\ Unchanged
unwatchCommand(c) ==
  /\ Transacts(c) /\ ~cl[c].multi /\ cl[c].watched # {}
  /\ cl' = [cl EXCEPT ![c].watched = {}, ![c].cas = FALSE]
  /\ stale' = [stale EXCEPT ![c] = {}]
  /\ Unchanged
discardCommand(c) ==
  /\ Ready(c) /\ cl[c].multi
  /\ cl' = discardTransaction(c)
  /\ stale' = [stale EXCEPT ![c] = {}]
  /\ Unchanged

\* The queued commands are called in order.  MULTI is propagated before the first that
\* is not read only, and then EXEC at the end.
MULTI == Command("multi", <<>>, <<>>, {}, 0)
EXEC  == Command("exec", <<>>, <<>>, {}, 0)
Must(y) == MULTI \in Range(y.feed)
execCommandPropagateMulti(y, req) == IF req.cmd \notin ReadOnly /\ ~Must(y) THEN Feed(y, MULTI) ELSE y
execCommand(x, queue, c) ==
  LET end(y) == IF Must(y) \/ y.dirty > 0 THEN Feed(y, EXEC) ELSE y
  IN  end(FoldLeft(LAMBDA y, req : call(execCommandPropagateMulti(y, req), req, c, TRUE), x, queue))
Exec(c) ==
  /\ Ready(c) /\ cl[c].multi
  /\ \E rnd \in {"asc", "desc"} :
       IF cl[c].cas \/ cl[c].err THEN Commit(Freed(Now(rnd)), discardTransaction(c), {})
       ELSE \E y \in {handleClientsBlockedOnLists(execCommand(Freed(Now(rnd)), cl[c].queue, c))} :
              y.err # "hang" /\ Commit(y, discardTransaction(c), Range(cl[c].queue))
  /\ UNCHANGED <<now, rep, misconf, role, family>>

\* The timeout of a blocking operation passed (clientsCronHandleTimeout).
BlockedTimeout(c) ==
  /\ Blocked(c)
  /\ LET x == unblockClient(Now("asc"), c) IN bk' = x.bk /\ bpop' = x.bpop
  /\ UNCHANGED <<db, exp, now, cl, link, rep, misconf, role, stale, untimed, unserved, family>>
\* freeClient, and the next connection takes the slot: the client is taken off every queue.
Disconnect(c) ==
  /\ Blocked(c) \/ cl[c] # NewClient
  /\ LET x == unblockClient(Now("asc"), c) IN bk' = x.bk /\ bpop' = x.bpop
  /\ cl' = discardTransaction(c)
  /\ stale' = [stale EXCEPT ![c] = {}]
  /\ UNCHANGED <<db, exp, now, link, rep, misconf, role, untimed, unserved, family>>

---------------------------------------------------------------------------
(* serverCron and the outside *)

\* One sample of the active expire cycle: a master only.
activeExpireCycleTryExpire(x, k) ==
  notifyKeyspaceEvent(dbDelete(propagateExpire(x, k), k), "expired", k)
ActiveExpire ==
  /\ role = "master" /\ Len(link) < MaxLink
  /\ \E k \in Keys : /\ IsExpired(Now("asc"), k)
                     /\ Commit(activeExpireCycleTryExpire(Now("asc"), k), cl, {})
  /\ UNCHANGED <<now, rep, misconf, role, family>>
Tick ==
  /\ Has("time") /\ now < MaxTime /\ now' = now + 1
  /\ UNCHANGED <<db, exp, cl, bk, bpop, link, rep, misconf, role, stale, untimed, unserved, family>>
\* A BGSAVE or a write to the append only file fails, or works again.
SaveStatus ==
  /\ Has("misconf") /\ misconf' = ~misconf
  /\ UNCHANGED <<db, exp, now, cl, bk, bpop, link, rep, role, stale, untimed, unserved, family>>
\* SLAVEOF: a master that becomes a slave drops the clients blocked in it
\* (disconnectAllBlockedClients).
SlaveOf ==
  /\ Has("slaveof") /\ role' = (IF role = "master" THEN "slave" ELSE "master")
  /\ IF role = "master" THEN bk' = NoBlocked /\ bpop' = [c \in Clients |-> NotBlocked]
     ELSE UNCHANGED <<bk, bpop>>
  /\ UNCHANGED <<db, exp, now, cl, link, rep, misconf, stale, untimed, unserved, family>>

---------------------------------------------------------------------------
(* The slave applies the stream *)

RepContext(r, rnd) == Context(r.db, r.exp, now, TRUE, NoBlocked, [c \in Clients |-> NotBlocked], rnd, NoCommand)
ApplyAll(reqs, rnd) ==
  LET into(x) == [rep EXCEPT !.db = x.db, !.exp = x.exp, !.multi = FALSE, !.queue = <<>>]
  IN  into(FoldLeft(LAMBDA x, req : call(x, req, CHOOSE c \in Clients : TRUE, TRUE), RepContext(rep, rnd), reqs))
SlaveApply ==
  /\ link # <<>>
  /\ link' = Tail(link)
  /\ \E rnd \in {"asc", "desc"} :
       rep' = CASE Head(link) = MULTI -> [rep EXCEPT !.multi = TRUE]
                [] Head(link) # MULTI /\ Head(link) # EXEC /\ rep.multi -> [rep EXCEPT !.queue = Append(@, Head(link))]
                [] Head(link) = EXEC /\ ~rep.multi -> rep
                [] OTHER -> ApplyAll(IF Head(link) = EXEC THEN rep.queue ELSE <<Head(link)>>, rnd)
  /\ UNCHANGED <<db, exp, now, cl, bk, bpop, misconf, role, stale, untimed, unserved, family>>

---------------------------------------------------------------------------
Init ==
  /\ family \in DOMAIN Requests
  /\ db = [k \in Keys |-> NoObj] /\ exp = [k \in Keys |-> -1] /\ now = 0
  /\ cl = [c \in Clients |-> NewClient]
  /\ bk = NoBlocked /\ bpop = [c \in Clients |-> NotBlocked]
  /\ link = <<>> /\ rep = [db |-> db, exp |-> exp, multi |-> FALSE, queue |-> <<>>]
  /\ misconf = FALSE /\ role = "master"
  /\ stale = [c \in Clients |-> {}] /\ untimed = {} /\ unserved = {}

Next ==
  \/ \E c \in Clients :
       \/ ProcessCommand(c)
       \/ multiCommand(c) \/ watchCommand(c) \/ unwatchCommand(c) \/ discardCommand(c) \/ Exec(c)
       \/ BlockedTimeout(c) \/ Disconnect(c)
  \/ ActiveExpire \/ Tick \/ SaveStatus \/ SlaveOf \/ SlaveApply

Spec == Init /\ [][Next]_vars
=============================================================================
