# ITSP: a TLA+ verification project

The repository holds the course work of an IT security class. The program
written for it is the **user management of Aufgabe3**
(`src/Aufgabe3/backup/root/gist-expressauthentication/`): an Express application
(`app.js`, `lib/routes.js`) and a command line tool (`admin.py`) that share a
Redis database. The server they run on is in the repository too, as source:
**Redis**, in `src/Aufgabe3/backup/root/redis-stable/src/`, by far the largest
body of code. This project models both. The requirements of the application
come from the exercise sheet `src/Aufgabe3/ITSW_WiSe2016_Aufgabe3.pdf` and from
`src/Aufgabe3/tipps.txt`, those of Redis from its comments and `redis.conf`.

The rest of the repository is vendored modules, data, configuration and small
scripts without state.

## 1. Inventory

### The user management

| Component | State | Operations |
|---|---|---|
| Web application, `lib/routes.js`, `app.js` | the globals `user`, `token`; the sessions; one Redis connection; the files in `mails/` | `/secure`, `/login`, `/logout`, `/update_mail`, `/update_password`, `/create_user`, `/verify`, `/verify_mail` (GET and POST), `/reset_password`, `/new_password` (GET and POST) |
| Administration tool, `admin.py` | none of its own; each call is a sequence of Redis commands | `-c` create, `-p` password, `-m` mail, `-d` delete, `-l` list |
| node_redis, `src/Aufgabe3/backup/root/node_modules/redis/index.js` | the queue of commands without a reply | send a command, give a reply to the oldest callback |
| express.session (not in the repository) | one session per cookie | load a copy when a request starts, save it when the response ends |
| `fs.writeFile`, `express.static` | the mails directory | write in the thread pool, serve a file |

A browser's request passes the session middleware, then the body parser (which
waits for the network), then `checkAuth`, then the handler. A handler sends
Redis commands and returns; the rest of it runs in the commands' callbacks.
Between two callbacks of one request any callback of another may run. Requests
share the connection, on which a reply is matched with its callback by position
only; the globals, assigned without `var`; the sessions, of which each request
saves its copy as a whole; and the accounts, which `admin.py` changes through a
connection of its own. A link in a "mail" carries a user name and, as its token,
the hash of the time of its issue; the field `timestamp` of the account is the
only record of it, for both kinds of link.

What is hard: overlapping requests between a read and the write that depends on
it; the globals; stale session copies; commands still queued when the page that
announces their effect is out; file writes that complete in any order or fail;
a clock that decides whether two tokens differ; `admin.py` interrupted.

What makes it correct: links act on the account they were issued for, once and
in time; a browser's login is changed only by its own requests; a new address is
never taken for confirmed; a pending account always has a link that confirms it;
a password is salted with the name of its account; each reply reaches the
callback that waits for it; every request is answered.

### Redis

| Component | State | Operations | What makes it correct |
|---|---|---|---|
| Key space, `db.c`, `object.c` | keys, values, expire times, watched keys | lookup, add, overwrite, delete, expire, rename, move, flush | no change escapes WATCH, the slaves or blocked clients |
| Data types, `t_*.c`, `bitops.c`, `sort.c` | the value of a key in one of its encodings | the commands of the types | no empty collection is kept; the encoding is not observable |
| Command execution, `server.c`, `multi.c`, `blocked.c` | transactions, blocked clients, ready keys, propagation | processCommand, call, EXEC, serving blocked clients, expiration, eviction | a slave that replays the stream converges; blocked clients are served, in order |
| Connections, `networking.c` | input and output buffers, flags | read, parse, reply, write, pause, close | replies leave complete and in order |
| Publish/subscribe, `pubsub.c` | subscriptions, kept twice | SUBSCRIBE..., PUBLISH, a client leaves | messages reach exactly the subscribers |
| Cluster, `cluster.c` | per node: nodes, slots, epochs, votes | gossip, failure detection, election, migration of slots and replicas, CLUSTER | one winner per epoch, failure by majority, no stale read through a redirection |
| Sentinel, `sentinel.c` | per Sentinel: master, slaves, epochs, votes | detection, votes, failover, hello, reconfiguration | one leader per epoch (with the exception of section 4), votes survive a restart, epochs identify configurations |
| Replication, `replication.c` | backlog, offsets, cached master, slave states | PSYNC, full resync, REPLCONF, WAIT, SLAVEOF | equal offsets mean equal streams; a slave that caught up has the data |
| Persistence, `aof.c`, `rdb.c`, `bio.c` | AOF, its rewrite, dump, fsync thread | write, flush, rewrite, save, load, crash | what is loaded is a prefix of what was executed; acknowledged writes survive |
| Data structures, `dict.c`, skip list, `ziplist.c`, `quicklist.c`, `hyperloglog.c`, `intset.c` | their memory layout | insert, delete, rehash, scan, convert | they hold what was put into them |

What is hard: crashes between a decision and its record, lost and late packets,
several epochs at once, reconnections with state from before, a child process
that writes while its parent changes, timeouts racing late answers, and layouts
that are rebuilt while a traversal is under way. `PROJECT.json` lists the
hazards with their lines, and every part of the repository with what is modelled.

## 2. Modules

| Modules | Content |
|---|---|
| `RedisStore` | the data set of the application and HGET, HSET, DEL, KEYS on it |
| `AuthService` | web application, Redis connection, sessions, files, `admin.py`, clock |
| `AccountLifecycle` | abstract specification: what the system promises about an account |
| `AuthProperties` | properties, and the refinement mapping to `AccountLifecycle` |
| `AuthServiceProofs`, `AuthConcurrencyProofs`, `AuthLifecycleProofs`, `AuthLinkProofs` | the proofs about the user management, each extending the one before |
| `RedisKeyspace`; `RedisStrings`, `RedisBits`, `RedisLists`, `RedisSets`, `RedisHashes`, `RedisZSets`, `RedisSort` | the key space, and the commands of each type as operators on the context a command runs in |
| `RedisCommands`, `RedisServer` | the command table and `call()`; master, clients, transactions, blocking, expiration, eviction, and a slave |
| `RedisClusterState`, `RedisClusterBus`, `RedisClusterCommands`, `RedisCluster` | the node table; packets and cron; CLUSTER, redirection, MIGRATE; the composed cluster and its properties |
| `RedisSentinel`, `RedisSentinelProofs`, `RedisElectionProofs` | Sentinels, their instances and the network, with their properties; the proofs about one Sentinel and its vote, and about their elections |
| `RedisReplication` | servers, their connections and the byte streams on them, with their properties |
| `RedisPersistence`, `RedisPersistenceProofs` | a server, its files, children and background thread, with its properties; the proofs about them |
| `FoldTheorems` | induction over a left fold, for the proofs about what is replayed and rewritten |
| `RedisDict`, `RedisSkiplist`, `RedisZiplist`, `RedisQuicklist`, `RedisHyperloglog`, `RedisIntset`, `RedisPubsub`, `RedisNetworking` | one module per structure, each with its own variable; `RedisStructures` extends them all, drives one by any sequence of its operations, and states their properties |
| `RedisServerProperties` | the properties of `RedisServer` |
| `MC...` | the constants, scenarios and symmetry of the TLC runs |

The definitions marked "Mutant:" or "A plausible slip" are mistakes that could be
made in the definition that follows them; nothing refers to them. Replacing the
definition by its mutant must make a run fail, which shows that the property
looks at this code.

### State of `AuthService` and the code

| Variable | Code |
|---|---|
| `db` | the Redis data set; a missing key is one whose fields are all `Null` |
| `pipe`, `replies` | node_redis' command queue, split at the point where Redis has executed the command; commands with the empty callback `function (err, obj) {}` get no entry in `replies` |
| `reqs` | the requests in flight, one per slot: `pc` is the callback the handler waits for (or `"body"`), `sess` the request's copy of the session, `ts` the local variable `timestamp` of GET `/new_password` |
| `sessions` | the store of express.session |
| `gUser`, `gToken` | the globals `user` and `token` of routes.js; the other undeclared variables (`timestamp`, `url`, `time_diff`, ...) are always assigned in the callback that reads them |
| `writes`, `files` | calls of `fs.writeFile` under way; the mails directory |
| `admin` | the running call of `admin.py` and its next command |
| `now` | the clock in seconds |
| `nreq`, `ncmd` | counters for the bounds |
| `seen`, `used`, `out` | history: links people have been shown, links accepted since they were issued, the last page that answered a link |

### Actions and the code

* `ReceivePost`, then one action per POST handler (`Login`, `UpdateMail`,
  `UpdatePassword`, `PostNewPassword`, `CreateUser`, `VerifyMail`,
  `ResetPassword`): the session is loaded before the body has arrived.
* `Secure`, `Verify`, `ShowMail`, `NewPassword`, `Logout`: a GET is handled when
  it arrives.
* `LoginPassword`, `LoginValid`, `KeepValid`, `Finish`, `CreateUserKeys`,
  `VerifyTimestamp`, `ShowMailLink`, `ResetMail`, `ResetValid`,
  `NewPasswordTimestamp`, `NewPasswordFlag`: the callbacks. `KeepValid` is the
  first callback of `/secure`, `/verify` and GET `/new_password`, which all keep
  `valid` in the session; `Finish` the last callback of the handlers that then
  only answer.
* `RedisServe`: Redis executes the oldest queued command.
* `WriteFile`: one pending write completes or (fault `"write"`) fails.
* `AdminStart` and `AdminKeys` ... `AdminDelete`: `admin.py` command by command;
  `AdminAborts` (fault `"admin"`) ends the call between two commands, as a Redis
  error, a failing `open` or the administrator does.
* `Tick`: a second passes. `Idle`: nothing is under way; it makes a deadlock in
  any other state an error.

### Abstractions of the application

* A password hash is the pair of salt and password, and the token of a link is
  the timestamp itself: SHA-256 is taken as free of collisions. A timestamp
  carries its origin, because `admin.py` hashes a float (`"1479.0"`) and the
  server a whole number.
* `admin.py` divides a time that is in seconds already by 1000; the model keeps
  this with the divisor `AdminDiv`.
* An unset `session.user` is the string `"undefined"` once node_redis has
  formatted it: the key `Undef`, part of `Keys` and not of `Names`.
* KEYS matches a pattern: `Glob` is the relation of patterns and keys that
  match. The runs use names without wildcard characters (`PlainGlob`); the
  theorems hold for every relation, except where section 5 says otherwise.
* People click only links they were shown and enter names of `Names`; a POST
  carries all the fields its page sends.
* Left out because nothing depends on them: flash messages, `session.mail`,
  rendered pages, logging, and the routes that only render (`/`, `/welcome`,
  `/admin`, GET `/login`, GET `/reset_password`). `/secure` without a login
  renders `unauthorised` and changes nothing.
* express.session is external; that a request works on a copy of the session
  and saves it when the response ends is taken from how app.js uses it and from
  the documentation of Express 2.

`Overlap` is an assumption about the environment and not about the code:
`"none"` serves requests and calls of `admin.py` one by one (an answered
request may still leave commands in `pipe`, as it does in the code, and the next
request may find them there; a call of `admin.py`, which has a connection of its
own, begins when they have been executed), `"browser"` lets requests overlap unless they are of the same browser, `"all"` puts no
restriction. It separates what the code guarantees to a single careful user
from what it guarantees under load.

### State and actions of the Redis modules

A function of the C code becomes an operator of the same name from the state of
one server (`x`, or the world `w` where two servers and their connection change
together) to the state it leaves; what it sends is a field of that state. An
action of the module is one event as the event loop delivers it: a packet read,
a timer, a client's command, a child's end, a crash, together with everything
the code does before it returns to the loop (`clusterBeforeSleep`, the flush of
the AOF, the service of clients blocked on lists).

* *Time.* A comparison of the clock with a stored time reads a flag that the
  environment ages, in the cluster and Sentinel modules; in `RedisServer` the
  clock is a small counter. So every order of a timeout and an answer occurs.
* *Identities.* Node names, run ids and addresses are numbers, because the code
  compares them (`memcmp`, `strcasecmp`).
* *Widths.* Words, lengths, limits and thresholds are constants, scaled down in
  the runs so that their limits are reached (`LongMax`, `ZIP_BIGLEN`,
  `HLL_SPARSE_XZERO_MAX_LEN`, ...).
* *Choice.* Random levels, random victims, `SPOP`, hash order and the pieces in
  which bytes arrive are nondeterministic.
* *Left out.* The wording of replies, logging, statistics, sockets, the text of
  configuration files and of the RDB format.

In `RedisPersistence` a write is a number, so that the order of the writes is in
the data set, and a SET is two bytes, so that a file can end inside a command.
What the loader makes of a file is a left fold over its bytes (`ReplayStep`, from
`ReplayStart`), and what a rewrite writes one over the databases and their keys
(`RewriteDb`, `RewriteKey`). `Earlier(d, data)`, in terms of which `AofPrefix` is
stated: in each database `d` is a prefix of `data`, and what follows it is later
than every write of `d`.

## 3. Runs

| Run | Module | Checks | Distinct states |
|---|---|---|---|
| `serial` | `MCAuthService` | `PendingCanConfirm`, `LinkActsOnItsUser`, `LinkSingleUse`, `ImplementsLifecycle` | 799 427 |
| `concurrent` | `MCAuthService` | `TypeOK`, `SaltedByOwner`, `CallbackMatched`, `SessionByOwnRequest`, `AddressChangeUnconfirms`, `EveryRequestAnswered` | 244 460 |
| `global_user` | `MCAuthService` | violates `LinkActsOnItsUser` | |
| `server` | `MCRedisServer` | `ReplicaEqual`, `ReplicaVolatile`, `NoEmptyAggregate`, `WatchSound`, `NoStarvedClient`, `FifoService` | 414 102 |
| `cluster` | `MCRedisCluster` | `NoDanglingNode`, `ElectionSafety`, `FailNeedsMajority`, `FreshRead`, `BarrierKept` | 592 740 |
| `revote` | `MCRedisCluster` | violates `ElectionSafety` | |
| `sentinel` | `MCRedisSentinel` | `LeaderUnique`, `VoteDurable`, `ConfigAgree`, `PromotedLinked` | 1 297 509 |
| `replication` | `MCRedisReplication` | `CatchUp`, `OffsetAgree`, `WaitSound` | 996 694 |
| `chained_psync` | `MCRedisReplication` | violates `CatchUp` | |
| `persistence` | `MCRedisPersistence` | `AofPrefix`, `AckDurable`, `BgsaveLoss` | 2 416 918 |
| `structures` | `MCRedisStructures` | `TraversalComplete`, `RanksAgree`, `ZiplistReads`, `QuicklistReads`, `HllAgrees`, `RepliesInOrder`, `IntsetHolds`, `PubsubDelivers` | 949 031 |
| `scan_shrink` | `MCRedisStructures` | violates `ScanComplete` | |

* **serial**: requests and calls of `admin.py` one by one; two users, two
  addresses, three requests and one call. A confirmation takes three requests
  (`/update_mail` or `/verify_mail`, showing the mail, the click), a reset two
  and a repeated click a third, so each property's shortest violation fits.
* **concurrent**: all routes, the options `-c` and `-p`, both faults: two
  requests of two browsers overlap with one call of `admin.py` in any
  interleaving, with fairness and without symmetry. An interference needs two
  actors; the third shows that two do not repair each other. `-m`, which goes
  through the steps of `-c` on an account that exists, is in `serial`; the theorems
  of section 5 about these properties hold for all options.
* **global_user**: two people click their confirmation links at the same time.
* **server**: families of commands (one per data type and feature) on two
  databases and three clients; each family has the commands that can interfere.
* **cluster**, **revote**, **sentinel**, **replication**, **chained_psync**,
  **persistence**: scenarios. Each is an initial configuration with a budget for
  every kind of step (packets lost, crashes, timeouts, commands), large enough
  for the behaviour the scenario is named after and every interference with it
  of one further event; the union of the scenarios fires every action. In the
  cluster, packets are lost in the elections (`election`), while slots move
  (`reshard`, `resharded`) and after a manual failover (`unheard`); a node comes
  back at another address (`moved`); and two slaves that know different tables
  migrate at the same time (`orphan`).
* **structures**: a behaviour follows one structure, from empty or small starts,
  through any sequence of operations up to the bound of its size. **scan_shrink**
  follows the hash table alone.

Some properties name the cases in which the code does not keep the general rule.
These cases are in the runs, so a property says that they are the only ones:

| Property | Exception |
|---|---|
| `ReplicaVolatile` | a key that INCRBYFLOAT changed since its time to live was set: it is propagated as SET, which takes the time to live away on the slave (history `untimed`) |
| `WatchSound` | MOVE and PERSIST, which do not call `signalModifiedKey` |
| `NoStarvedClient` | a list that SORT ... STORE put in the place of another value: `dbOverwrite` signals no list (history `unserved`) |
| `FreshRead` | the one packet in which the winner of a failover tells the old master is lost (`cluster.c:2688-2690`): the old master, its pause over, goes on serving (histories `won`, `lost`) |
| `BarrierKept` | a slave on which the one that migrates counted has died or was ordered away meanwhile; that several slaves migrate at once (`cluster.c:2921-2924`) is no exception: the last one stays |
| `AofPrefix` | an AOF switched off while the disk refused its last bytes, until the next rewrite (`orphan`): they are still in the buffer and are written again when it is switched on |
| `TraversalComplete` | keys in the buckets that a scan passes over during a rehash to a table at least four times smaller (`PassedOver`) |
| `ZiplistReads` | a list torn by an insertion of two or three bytes in front of an entry whose `prevlen` shrinks by four (`IsTorn`) |
| `QuicklistReads` | a node compressed because its `recompress` flag was still set, though it is at an end or is being edited (`forced`) |

Bounds of the application's runs: `Window` is 1 second instead of 1800 and
`AdminDiv` 3 instead of 1000; `Epoch` 5 makes a timestamp of `admin.py` lie
further back than the window, as it does in reality. `MaxTime` lets the clock
pass from inside the window to its end; where time plays no role it is 0.
Names, passwords, addresses, browsers and slots are interchangeable, so
`Symmetry` is sound for the safety runs that use it.

**Fairness** (`FairSpec` of `AuthService`): weak fairness of `RedisServe`, of
the callbacks as a whole, of `WriteFile` and of `AdminStep`. Redis, node's event
loop and its thread pool handle what is in their queues, and a call of
`admin.py` runs on. Weak fairness for the callbacks as a whole is enough because
only the head of `replies` can run. Nothing is assumed of browsers (a body may
never arrive, so `EveryRequestAnswered` is about requests whose handler has
started) or of the clock. The Redis runs check safety only; they may stop when
their budgets are used up, so they do not look for deadlocks. `NoStarvedClient`
states as an invariant that a blocked client never waits for a list that is
there.

## 4. Findings

Four runs expect a violation. The first three are of a property that a passing run
checks in other circumstances, the last of a promise in a comment:

1. `global_user` (`routes.js:143`): `user` and `token` are globals; of two people
   who click at the same time, one is confirmed twice and the other not at all,
   and all links `admin.py` issues within 1000 seconds carry the same token.
2. `revote` (`cluster.c:2562`): a vote is sent before it is saved; a voter that
   restarts votes again in the same epoch, and two slaves win it.
3. `chained_psync` (`replication.c:1737`): the backlog is freed but the run id
   kept; a chained slave is later accepted with an offset of the old stream.
4. `scan_shrink` (`dict.c:896`): during a rehash to a table at least four times
   smaller, `dictScan` walks the larger table's expansions of a bucket from the
   cursor's own index upwards. A cursor handed out by the larger table may be in
   the middle of them, and those before it are never visited.

Met while modelling, without a run of their own:

* Application: a confirmation link never expires (`routes.js:141-142`); a
  confirmation mail requested after a reset mail disables the reset link
  (`156`); two overlapping clicks on one link both succeed (`142`); a request
  that started before a logout and ends after it restores the login (`101`).
  After a confirmation recorded for the wrong user, `/create_user` can leave an
  unconfirmed address in a confirmed account; this is why
  `AddressChangeUnconfirms` is about `/update_mail` and not about every writer.
* Connections: while CLIENT PAUSE keeps a complete big argument buffered, a read
  of 0 bytes closes the client (`networking.c:1321-1327`); `clientsArePaused`
  can queue a client twice (`1892-1903`); an inline command ended by a bare LF
  loses the first byte of the next (`1088`).
* Ziplist and quicklist: an insert of two or three bytes in front of an entry
  whose `prevlen` shrinks by four (`ziplist.c:624-634`); a `recompress` flag that
  is still set compresses an end or a node that is then edited
  (`quicklist.c:334-340`, `1263`); `quicklistDelRange` with an offset
  (`992-1012`). The first two are the exceptions of `ZiplistReads` and
  `QuicklistReads`.
* Cluster: the `ttl` of MIGRATE is not reset for each key (`4670`, `4745-4750`);
  a key comes back when the reply of MIGRATE is lost and the client deletes it;
  the winner of a failover tells the old master once (`2688-2690`).
* Sentinel: `sentinelGetLeader` is called with the epoch of the failover, and its
  comment asks for a majority "that reported the same instance as leader for the
  same epoch" (`sentinel.c:3658-3663`), but the votes of the others are counted
  for `sentinel.current_epoch` (`3684`), which is shared by all masters and may
  have moved on. With three Sentinels, quorum 1 and a dead master: 1 and 2 both
  start a failover with epoch 1; 3 votes for 2 in epoch 1, which elects 2; a
  failover of another master moves 1 to epoch 2 (`OtherMaster`); 1 asks again, 3
  votes for 1 in epoch 2, and 1 is elected too, with failover epoch 1. TLC finds
  it in 11 states when the scenario `ahead` of `MCRedisSentinel` gets five timer
  calls instead of four and `w.votes` is left out of `LeaderUnique`. Both leaders
  then publish a configuration with the same epoch. `LeaderUnique` therefore
  speaks of leaders elected by votes of their failover epoch, and `ConfigAgree`
  of behaviours in which no failover epoch has had two leaders.
* Sentinel: a failover waits in RECONF_SLAVES while the promoted slave is down
  (`4052`).
* Replication: a master cached before PSYNC has an offset of -1 plus what was
  read; a slave's own BGSAVE that ends after a full resync renames the old data
  over the dump; `WAIT` counts a half-open connection of a slave as well (it
  looks at the slaves once per turn of the event loop, in `beforeSleep`).
* Persistence: the commands of an unfinished MULTI are executed when a truncated
  AOF is loaded (`aof.c:699`, `733-753`, against the comment at `711`); a failed
  fork leaks the pipes (`1294-1298`); an empty AOF hides the dump; SHUTDOWN syncs
  the file without writing `aof_buf` (`server.c:2588`), so what was executed and
  not yet answered is lost; CONFIG SET appendonly no leaves what the disk refused
  in `aof_buf` (`aof.c:209`), and it is written again later.
* Commands: MOVE and PERSIST change keys without `signalModifiedKey` (against
  `db.c:298`); INCRBYFLOAT is propagated as SET and drops the time to live;
  SORT ... STORE over a list does not wake blocked clients (`t_list.c:779-788`);
  several errors do not mark a transaction (against `multi.c:79`). The first
  three are the exceptions of `WatchSound`, `ReplicaVolatile` and
  `NoStarvedClient`.

## 5. Proofs

The proofs are about the user management, Redis Sentinel and the persistence of
Redis. They hold for every value of the constants: any number of users, browsers,
slots and addresses, every bound on time and requests, every set of routes and
options; any number of Sentinels and instances, any quorum and any budget of
losses, crashes, restarts and commands; any number of databases and any scenario
of writes, failures, crashes and commands.

| Theorem | Module | States | Beyond the assumptions of the module |
|---|---|---|---|
| `TypesHold` | `AuthServiceProofs` | `Spec => []TypeOK` | - |
| `PasswordsSalted` | `AuthServiceProofs` | `Spec => []SaltedByOwner` | - |
| `CallbacksMatched` | `AuthConcurrencyProofs` | `Spec => []CallbackMatched` | - |
| `AddressStoredUnconfirmed` | `AuthConcurrencyProofs` | `Spec => AddressChangeUnconfirms` | - |
| `SessionsByOwnRequests` | `AuthConcurrencyProofs` | `Spec => SessionByOwnRequest` | `Overlap # "all"` |
| `LinksActOnTheirUsers` | `AuthLifecycleProofs` | `Spec => LinkActsOnItsUser` | `Overlap = "none"` |
| `LifecycleImplemented` | `AuthLifecycleProofs` | `Spec => ImplementsLifecycle` | `Overlap = "none"`, no interruption of `admin.py`, each name matches itself as a pattern |
| `LinksUsedOnce` | `AuthLinkProofs` | `Spec => LinkSingleUse` | `Overlap = "none"` |
| `PendingConfirmable` | `AuthLinkProofs` | `Spec => []PendingCanConfirm` | `Overlap = "none"`, `Faults = {}` |
| `PromotionLinked` | `RedisSentinelProofs` | `Spec => []PromotedLinked` | - |
| `VotedOnce` | `RedisSentinelProofs` | `Spec => VoteDurable` | - |
| `ElectedOnce` | `RedisElectionProofs` | `Spec => []LeaderUnique` | `Settled`: the Sentinels know each other from the start, no SENTINEL RESET or REMOVE |
| `BgsaveLossHolds` | `RedisPersistenceProofs` | `Spec => []BgsaveLoss` | - |
| `AofPrefixHolds` | `RedisPersistenceProofs` | `Spec => []AofPrefix` | - |
| `AckDurableHolds` | `RedisPersistenceProofs` | `Spec => []AckDurable` | - |

Assumptions of `AuthService`, evaluated by TLC in every run: `StoreAssumption`
(`Null` is not a name, password, address, browser, slot or flag, `"undefined"` is
not a name, and there is a password and an address), `InputAssumption` (the
parameters name existing routes, options and faults), `TimeAssumption` (times and
bounds are natural numbers, `AdminDiv` is not 0). `RedisSentinel` assumes that the
configured master and slaves have addresses, that there are finitely many
Sentinels and that each has a run ID (`ScenarioAssumption`). `RedisPersistence`
assumes that there is a database (`DbnumAssumption`) and that a scenario is a
configuration with a budget (`ScenariosAssumption`). The last column is where the code needs more: a Sentinel that knows no other, because it has not yet
heard their hellos or was told to forget them, is a majority of its own,
with freely overlapping requests of one browser a session copy can undo a
logout, with overlapping clicks the global `user` sends a link's effect to
another account (run `global_user`), an interrupted `admin.py -m` leaves a new
address in a confirmed account, a name such as `[a` that does not match itself as
a glob pattern is never found by `KEYS`, two overlapping clicks on one link both
succeed, and a failed file write or an interrupted `admin.py` leaves a pending
account without a link. None of the hypotheses is vacuous: the runs `serial` and
`concurrent` are instances of them.

### Types and salts: `Inv`

Neither `TypeOK` nor `SaltedByOwner` is inductive. What `RedisServe` stores was
queued earlier, and what a callback queues depends on the reply it gets and on
the request and session it runs for. `Inv` says of everything on its way into
the data set what the two say of the data set: `PipeInv` (each queued command
has a value of its field, and a queued password has the salt of its key),
`ReplyInv` (each reply is a value of the field its callback reads), `ReqInv`,
`SessInv` (names in requests and sessions are keys), `AdminInv` (`admin.py` has
read the clock before it stores the timestamp), `DbInv`, `GlobalInv`, `MailInv`,
`ClockInv`. One lemma per disjunct of `Next` with one step per action, resting on
lemmas about what HSET, DEL, `Send`, `Await` and `Answer` preserve; `NextInv`
joins them and `InvHolds` lifts them to `Spec`.

### One reply per callback: `CallbackMatched`

The line is `replies \o pipe`. For each slot and `pc` the property says which
callbacks stand in it and in which order: none, one, or two with the first
before the second. It is inductive together with `Inv`; what carries the proof
is a theory of the line in `AuthConcurrencyProofs`: what appending the commands
of one slot, executing the head of `pipe` and removing the head of `replies` do
to the set of positions of each callback.

### Sessions: `OwnInv`; addresses: `WithdrawnInv`

`OwnInv`: a browser has at most one request in flight, and the copy of the session
in it has the user and the login of the stored one. `WithdrawnInv`: every queued
`mail` of `/update_mail` either directly follows its `valid = "False"` in the
queue, or is at its head while the account's `valid` is not `"True"`.

### One request at a time: `LifeInv`

With `Overlap = "none"` an answered request still leaves commands in `pipe`, and
the next request may start before they are executed; a call of `admin.py` starts
when `pipe` and `replies` are empty (`MayAdminister`). `LifeInv` has four parts, all
needed by each other:

* `TurnInv`: at most one request or one call of `admin.py` is under way, and the
  global user is the user of that request;
* `ReadInv`: what a handler has read about its user is still so, because the
  writes that earlier requests left in the queue have been executed before its
  reads;
* `QueueInv`: writes precede reads in the queue, the reads a handler decides on
  are about its own user, a conditional write (`valid = "True"` of `/verify`,
  `new_password` of a reset) will be executed in the state it was decided in, and
  no flag or address is erased;
* `FormInv`: forms with an address are filled in, and `admin.py` goes through the
  steps of its option, `-c` on an account that is not confirmed.

TLC has checked `LifeInv` as an invariant of an instance with all routes, all
options and two slots (1.4 million states) before it was proved.

`LinksActOnTheirUsers` follows from `TurnInv`. `LifecycleImplemented` maps a step
to a step of `AccountLifecycle` as follows; all others leave `confOf`, `addrOf`
and `resetOf` unchanged:

| Step of `AuthService` | Step of `AccountLifecycle` |
|---|---|
| `RedisServe` of `valid` `"False"` / `"True"` | `Withdraw` / `Confirm` |
| `RedisServe` of `mail` | `ChangeAddress` |
| `RedisServe` of `new_password` `"True"` / `"False"` | `OpenReset` / `CloseReset` |
| `AdminKeys` of `-m`; `AdminValid` | `Withdraw` |
| `AdminMail` | `ChangeAddress` |
| `AdminDelete` | `Remove` |

`admin.py -m` stores the address before it withdraws the confirmation; the
refinement mapping therefore counts an account as withdrawn from the moment
`-m` has found it (`Withdrawing`), which is why an interruption is excluded.

### Links: `OnceInv` and `OfferInv`

`Becomes(k, f, v)` says that field `f` of account `k` is `v` once the queue has
been executed; the properties of links are about this value, since the page that
announces a change is out before it is stored. `OnceInv` has three parts:
`LinkInv` (a reset link carries a time of the server that is not ahead of the
clock), `ClickInv` (the global `token` is that of the link being examined, and the
timestamp the handler has read is still the stored one) and `UsedInv` (a link
that would still confirm or reset has not been used since it was issued; a use
changes `valid` or `new_password` so that it would not). `OfferInv` adds
`WriteTurn` (one file write at a time, and only the `/update_mail` that issued it
goes on) and `Offered`: the link of a pending account is in the file of its user,
on the way there, or about to be written by the request or the call under way.
TLC checked `LinkInv`, `ClickInv`, `UsedInv` and `OfferInv` without faults on
1 431 356 states, and the first three with both faults on 2 757 697, before they
were proved.

### Sentinels: `SentinelInv`

Neither `PromotedLinked` nor `VoteDurable` is inductive: what a restart brings
back is what the file holds, and whether a flag may stay on a slave depends on
the state of the failover. `SentinelInv` says of every Sentinel that it is `Good`:

* `Counted`: epochs are numbers and the failover is in one of its states;
* `Idle`: a Sentinel without a master has no slaves, no vote and no failover;
* `Promotion`: a failover under way has its flag; from SEND_SLAVEOF_NOONE on, and
  only then, there is a promoted slave, in the table and the only one flagged;
  slaves are marked as told only from RECONF_SLAVES on;
* `Saved`: the epoch of the vote in the file is the one in memory, and the file
  names a master exactly when one is monitored.

Messages under way carry epochs and, a hello, the address of a master. Each
function of `sentinel.c` has a lemma that it `Keeps` its Sentinel: it leaves it
`Good`, keeps the vote or gives one in a later epoch, and forgets no master. The
functions that write the file in the middle of a change (`sentinelVoteLeader`,
`sentinelResetMasterAndChangeAddress`, INFO of the promoted slave, hello) are
where the order matters. Only `sentinelCommand` with `remove` forgets a vote. TLC
checked `SentinelInv` on the states of the run `sentinel` before it was proved.

### Elections: `ElectionInv`

`sentinelGetLeader` counts what a Sentinel remembers of the others' answers, while
the others restart, vote again in later epochs and have answers under way, so
nothing in the state records who really voted for a leader. `Says(t, e, l)` collects
what does: Sentinel t itself, a peer's record of t, or an answer of t under way says
that t voted for l in epoch e. `ElectionInv` adds to `SentinelInv`:

* `KnownInv`: every Sentinel knows all the others, in memory and in its file, by
  their addresses, and has its master;
* `SettledInv`: answers and hellos come from the Sentinels they name, and no command
  that forgets Sentinels is to come;
* `ClaimInv`: all that is said of t's vote in an epoch agrees, and is not about an
  epoch later than t's last vote. A restarted Sentinel no longer says whom it voted
  for, only that it voted (`Saved`);
* `ElectedInv`: behind every leader elected by votes of its epoch there is a
  majority `Q` (`Behind`) whose members have voted in this epoch, and of whom
  nothing says that they voted for another. This survives a restart and votes in
  later epochs, since a vote is given once (`VotedOnce`);
* `LeaderUnique` itself: a Sentinel that wins has a majority that says it voted for
  this Sentinel; it shares a member with the majority behind any earlier leader of
  the epoch, so the two leaders are one.

Every handler is `Tame`: it only forgets votes of others, and only a question is
answered, with the vote just given or one given before; a step of the system is then
gentle (`GentleStep`), and `GentleKeeps` shows what it preserves. TLC checked these
parts on 882 428 states (the scenarios of the run `sentinel` that satisfy `Settled`,
epochs up to 5) before they were proved.

### Persistence: `PersistenceInv`

None of `AofPrefix`, `AckDurable` and `BgsaveLoss` is inductive. The file the
server will have after a rewrite does not exist yet while the rewrite runs: its
bytes are in the child's file, in the child's memory, in the pipe and in the
parent's buffer, and `AofPrefix` says nothing of them. `PersistenceInv` says of the
server, with its types (`Servers`):

* `Children`: there is at most one child; without a rewrite nothing is left in the
  buffer or the pipe; a rewrite that has acknowledged, or is finished, gets no more
  bytes; an AOF that is on, or will be once its first rewrite ends, has a file;
* `Saves`: `dirty` counts at least the writes the dump lacks, and while a child
  saves, `dirty` without what it was at the fork (`before`) counts those its
  snapshot lacks; this part is subtracted when the child ends;
* `Logs`: the file with the buffer behind it (`Told`), and the file of a rewrite
  with the difference wherever its bytes are (`Rewritten`), `Tells` the data set: it
  replays to the data set in memory, with the database selected that the server last
  selected, and every part with at least its synced (or rewritten) bytes replays to
  an earlier data set. A file that is not active tells what it restores itself. With
  an orphan buffer this is known of the whole file only (`From`). A job of the fsync
  thread is about the present file and within its length, or about a file replaced
  since;
* `Durable`: what was acknowledged is in the data set and in the part of the file
  that lasts; with `appendfsync always` no fsync and no flush is ever left for
  later, and once the buffer is empty the whole file is synced, or the process has
  not written anything since it loaded it (`loaded`): a restart syncs nothing.

SHUTDOWN needs no case of its own in the argument: it syncs the file and leaves the
buffer, and nothing in the buffer was acknowledged unless a write was refused or
postponed, which `AckDurable` excepts.

Each function of `aof.c` and `rdb.c` has lemmas on what it leaves of these parts,
and each action puts them together. The last lines of the argument are about what
bytes replay to: a write appended with its SELECT, or within MULTI and EXEC, tells
the new data set (`Replayed` of `Append` is `ReplayStep`); what a rewrite writes
replays to the data set that was rewritten; and a cut inside a command replays to
the data set before it; and a longer part of a file restores at least what a shorter
part does (`ReplayedGrows`), so that what was acknowledged before a sync is there
after it. The last three are about files of any length and are proved by
induction along the fold. `FoldTheorems` gives this induction once, for an
operator, a start and a property that are constants of the module: an instance
names the fold it is about, and no theorem with an operator as its parameter has to
be instantiated.

TLC checked `PersistenceInv` on all 2 416 918 states of the run `persistence` before
it was proved.

### What is only model-checked

* Liveness (`EveryRequestAnswered`): fairness is out of the prover's reach.
* `ConfigAgree` is about epochs that have had one leader, but not every epoch is
  taken by an election: SENTINEL FAILOVER takes one without asking anybody, and a
  leader that waits in RECONF_SLAVES takes over a newer configuration from a hello.
  What the run shows holds within the budgets of its scenarios; no inductive
  invariant was found.
* `ElectionSafety`, `FailNeedsMajority` and `CatchUp` do not hold for all constants:
  with a voter that restarts (`revote`), with masters that get slots after a node was
  flagged FAIL, so that the majority needed was a smaller one, and with chained
  slaves (`chained_psync`).
* The other properties of the cluster and of replication (`NoDanglingNode`,
  `FreshRead`, `BarrierKept`, `OffsetAgree`, `WaitSound`), those of the server and
  of the data structures. Their states are nested records that one step changes in
  many places, through folds over nodes, keys and links of a list; each of these
  folds would need an invariant of its own.

## 6. Not modelled

* The connection to Redis breaking and node_redis' offline queue.
* `stringmatchlen`: a constant relation (`Glob`, `Matches`).
* Scripting (a Lua program), GEO (floating point), the event loop, strings and
  I/O layers (their effect is part of the operations that use them),
  configuration, statistics and debugging, the command line programs.
* `express_example`, an earlier version that the deployed application replaced;
  the CA scripts, templates, Apache configuration, backup and capture scripts.

## 7. What could follow

1. `OffsetAgree` of `RedisReplication`, with the streams of a connection stated as
   `Logs` states the bytes of a rewrite.
2. Lemmas about the operators of `RedisKeyspace` (what `dbAdd`, `setKey` and
   `dbDelete` leave alone), for `NoEmptyAggregate`.
3. `ConfigAgree` for Sentinels that are never told to fail over, on top of
   `ElectedOnce`.
