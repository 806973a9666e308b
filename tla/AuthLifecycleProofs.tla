------------------------ MODULE AuthLifecycleProofs ------------------------
(***************************************************************************)
(* When requests are served one by one, links act on their own users and   *)
(* the server and admin.py implement the life cycle of the accounts.       *)
(*                                                                         *)
(* An answered request leaves writes behind in the queue of the Redis      *)
(* connection, and the next request starts while they wait.  What has to   *)
(* be shown is that a handler nevertheless decides on values that are      *)
(* still true when its own writes are executed.                            *)
(***************************************************************************)
EXTENDS AuthConcurrencyProofs

\* The callbacks that use the global `user` of routes.js.
Acting == {"verify_valid", "verify_timestamp", "reset_mail", "reset_valid",
           "new_password_valid", "new_password_timestamp", "new_password_flag"}

\* One request, or one call of admin.py, is under way, and the global `user` of
\* routes.js is the user of that request.
TurnInv ==
  /\ \A s, t \in Slots : ~Free(s) /\ ~Free(t) => s = t
  /\ admin.pc # "idle" =>
       (\A s \in Slots : Free(s)) /\ writes = {} /\ pipe = <<>> /\ replies = <<>>
  /\ \A s \in Slots : reqs[s].pc \in Acting => gUser = reqs[s].uid

\* The callbacks that get an answer from the data set, those of them that belong
\* to a second or third read, and those whose answers a handler acts on.
Answers == ReadCallbacks \cup {"create_user"}
Later == {"login_valid", "secure_mail", "verify_timestamp", "reset_valid",
          "new_password_timestamp", "new_password_flag"}
Decisive == {"verify_valid", "verify_timestamp", "reset_valid", "new_password_timestamp",
             "new_password_flag", "create_user"}

\* The answer a read of key k would get now.
Current(cb, k) == IF cb = "create_user" THEN KeysLike(db, k) ELSE HGet(db, k, FieldRead(cb))

\* Nothing in queue q changes the data set.
Quiet(q) == \A i \in 1..Len(q) : q[i].op # "hset"

\* What a handler has read about its user is still so, because the writes that
\* earlier requests left behind have been executed.
ReadInv ==
  /\ \A i \in 1..Len(replies) : replies[i].cb \in Answers => Quiet(pipe)
  /\ \A i \in 1..Len(replies) : replies[i].cb \in Decisive =>
       replies[i].val = Current(replies[i].cb, reqs[replies[i].slot].uid)
  /\ \A s \in Slots : reqs[s].pc \in Later => Quiet(pipe)
  /\ \A s \in Slots : reqs[s].pc = "verify_timestamp" =>
       reqs[s].sess.valid = db[reqs[s].uid]["valid"]

\* No name contains a wildcard: as a pattern of KEYS it matches itself.
PlainNames == \A u \in Keys : <<u, u>> \in Glob

\* The writes a handler sends only in certain states of the account, and these
\* states.
Conditional(c) ==
  c.op = "hset" /\ \/ c.field = "valid" /\ c.val = "True"
                   \/ c.field = "mail" /\ c.cb # "update_mail"
                   \/ c.field = "new_password"

Met(d, c) ==
  /\ c.field = "valid" => d[c.key]["valid"] = "False"
  /\ c.field = "mail" /\ PlainNames => d[c.key]["valid"] # "True"
  /\ c.field = "new_password" /\ c.val = "True" => d[c.key]["valid"] = "True"
  /\ c.field = "new_password" /\ c.val = "False" => d[c.key]["new_password"] = "True"

Harmless(c) == ~(c.op = "hset" /\ c.field \in {"valid", "new_password"})

\* Writes come before reads; a read that decides is about the user of its
\* request; a conditional write will be executed in the state it was decided in;
\* no flag or address is erased.
Orderly(q) == \A i, j \in 1..Len(q) : i < j /\ q[i].op # "hset" => q[j].op # "hset"
Addressed(q, r) == \A i \in 1..Len(q) : q[i].cb \in Decisive => q[i].key = r[q[i].slot].uid
Decided(q, d) ==
  \A i \in 1..Len(q) : Conditional(q[i]) =>
    Met(d, q[i]) /\ \A j \in 1..Len(q) : j < i => Harmless(q[j])
FilledCmd(c) == c.op = "hset" /\ c.field \in {"valid", "mail", "new_password"} => c.val # Null
Filled(q) == \A i \in 1..Len(q) : FilledCmd(q[i])

Queue(q, r, d) == Orderly(q) /\ Addressed(q, r) /\ Decided(q, d) /\ Filled(q)

QueueInv == Queue(pipe, reqs, db)

\* Forms that carry an address are filled in, and admin.py goes through the
\* steps of its option; -c works on an account that is not confirmed.
StoresMail(r) ==
  (r.pc = "body" /\ r.kind \in {"update_mail", "create_user"}) \/ r.pc = "create_user"

FormInv ==
  /\ \A s \in Slots : StoresMail(reqs[s]) => reqs[s].mail # Null
  /\ admin.op \in {"-c", "-m"} => admin.mail # Null
  /\ admin.pc = "keys" => admin.op \in {"-c", "-p", "-m"}
  /\ admin.pc = "password" => admin.op \in {"-c", "-p"}
  /\ admin.pc \in {"mail", "timestamp", "valid"} => admin.op \in {"-c", "-m"}
  /\ admin.pc = "delete" => admin.op = "-d"
  /\ PlainNames /\ admin.op = "-c" /\ admin.pc \in {"password", "mail"} =>
       db[admin.uid]["valid"] # "True"

LifeInv == TurnInv /\ ReadInv /\ QueueInv /\ FormInv

-----------------------------------------------------------------------------
(* The queue.                                                              *)

\* What earlier requests left behind: writes nobody waits for.
LeftOver(q) == \A i \in 1..Len(q) : q[i].op = "hset" /\ q[i].slot = Null /\ q[i].cb = "none"

\* When command c may join the queue.
Admits(q, r, d, c) ==
  /\ c.op = "hset" => \A i \in 1..Len(q) : q[i].op = "hset"
  /\ c.cb \in Decisive => c.key = r[c.slot].uid
  /\ Conditional(c) => Met(d, c) /\ \A i \in 1..Len(q) : Harmless(q[i])
  /\ FilledCmd(c)

\* A command that may join the queue keeps it in order.
LEMMA QueueAppend ==
  ASSUME NEW E, NEW q \in Seq(E), NEW c \in E, NEW r, NEW d, Queue(q, r, d), Admits(q, r, d, c)
  PROVE Queue(Append(q, c), r, d)
  <1> DEFINE new == Append(q, c)
             n == Len(q)
  <1>1. /\ n \in Nat /\ Len(new) = n + 1
        /\ new[n + 1] = c
        /\ \A i \in 1..n : new[i] = q[i]
        /\ \A i \in 1..(n + 1) : i \in 1..n \/ i = n + 1
    OBVIOUS
  <1>2. /\ \A i \in 1..n : i < n + 1 /\ ~(n + 1 < i)
        /\ ~(n + 1 < n + 1)
    BY <1>1
  <1> HIDE DEF new, n
  <1>3. Orderly(new)
    BY <1>1, <1>2 DEF Queue, Orderly, Admits, n
  <1>4. Addressed(new, r)
    BY <1>1 DEF Queue, Addressed, Admits, n
  <1>5. Decided(new, d)
    <2> SUFFICES ASSUME NEW i \in 1..(n + 1), Conditional(new[i])
                 PROVE Met(d, new[i]) /\ \A j \in 1..(n + 1) : j < i => Harmless(new[j])
      BY <1>1 DEF Decided
    <2>1. CASE i \in 1..n
      <3>1. Met(d, q[i]) /\ \A j \in 1..n : j < i => Harmless(q[j])
        BY <1>1, <2>1 DEF Queue, Decided, n
      <3> QED BY <1>1, <1>2, <2>1, <3>1
    <2>2. CASE i = n + 1
      <3>1. Met(d, c) /\ \A j \in 1..n : Harmless(q[j])
        BY <1>1, <2>2 DEF Admits, n
      <3> QED BY <1>1, <1>2, <2>2, <3>1
    <2> QED BY <1>1, <2>1, <2>2
  <1>6. Filled(new)
    BY <1>1 DEF Queue, Filled, Admits, n
  <1> QED BY <1>3, <1>4, <1>5, <1>6 DEF Queue, new

\* Reads of the next request join what was left behind.
LEMMA SentReads ==
  ASSUME NEW q \in Seq(Commands), LeftOver(q), NEW r, NEW s, NEW d, Queue(q, s, d),
         NEW a \in Commands, NEW b \in Commands, a.op # "hset", b.op # "hset",
         a.cb \in Decisive => a.key = r[a.slot].uid,
         b.cb \in Decisive => b.key = r[b.slot].uid
  PROVE Queue(q, r, d) /\ Queue(q \o <<a>>, r, d) /\ Queue(q \o <<a, b>>, r, d)
  <1>1. Queue(q, r, d)
    BY DEF Queue, Addressed, LeftOver, Decisive
  <1>2. \A p : Admits(p, r, d, a) /\ Admits(p, r, d, b)
    BY DEF Admits, Conditional, FilledCmd
  <1>3. Queue(Append(q, a), r, d) /\ Append(q, a) \in Seq(Commands)
    BY <1>1, <1>2, QueueAppend
  <1>4. Queue(Append(Append(q, a), b), r, d)
    BY <1>2, <1>3, QueueAppend
  <1>5. q \o <<a>> = Append(q, a) /\ q \o <<a, b>> = Append(Append(q, a), b)
    OBVIOUS
  <1> QED BY <1>1, <1>3, <1>4, <1>5

\* A write that needs no decision.
Plain(c) == c.op = "hset" /\ c.cb \notin Decisive /\ ~Conditional(c) /\ FilledCmd(c)

\* Such writes join what was left behind.
LEMMA SentWrites ==
  ASSUME NEW q \in Seq(Commands), LeftOver(q), NEW r, NEW s, NEW d, Queue(q, s, d),
         NEW a \in Commands, NEW b \in Commands, NEW c \in Commands,
         Plain(a), Plain(b), Plain(c)
  PROVE Queue(q \o <<a>>, r, d) /\ Queue(q \o <<a, b>>, r, d) /\ Queue(q \o <<a, b, c>>, r, d)
  <1> DEFINE qa == Append(q, a)
             qb == Append(qa, b)
             qc == Append(qb, c)
  <1>1. Queue(q, r, d)
    BY DEF Queue, Addressed, LeftOver, Decisive
  <1>2. \A i \in 1..Len(q) : q[i].op = "hset"
    BY DEF LeftOver
  <1>3. qa \in Seq(Commands) /\ \A i \in 1..Len(qa) : qa[i].op = "hset"
    BY <1>2 DEF Plain
  <1>4. Queue(qa, r, d)
    <2>1. Admits(q, r, d, a)
      BY <1>2 DEF Admits, Plain
    <2> QED BY <1>1, <2>1, QueueAppend
  <1>5. q \o <<a>> = qa /\ q \o <<a, b>> = qb /\ q \o <<a, b, c>> = qc
    OBVIOUS
  <1> HIDE DEF qa
  <1>6. qb \in Seq(Commands) /\ \A i \in 1..Len(qb) : qb[i].op = "hset"
    BY <1>3 DEF Plain
  <1>7. Queue(qb, r, d)
    <2>1. Admits(qa, r, d, b)
      BY <1>3 DEF Admits, Plain
    <2> QED BY <1>3, <1>4, <2>1, QueueAppend
  <1> HIDE DEF qb
  <1>8. Queue(qc, r, d)
    <2>1. Admits(qb, r, d, c)
      BY <1>6 DEF Admits, Plain
    <2> QED BY <1>6, <1>7, <2>1, QueueAppend
  <1> QED BY <1>4, <1>5, <1>7, <1>8

\* A write whose condition holds goes into the empty queue, alone or after one
\* that does no harm.
LEMMA SentDecided ==
  ASSUME NEW r, NEW d, NEW a \in Commands, NEW b \in Commands,
         Plain(a), Harmless(a), b.op = "hset", b.cb \notin Decisive, Met(d, b), FilledCmd(b)
  PROVE Queue(<<>> \o <<b>>, r, d) /\ Queue(<<>> \o <<a, b>>, r, d)
  <1> DEFINE e == <<>>
             ea == Append(e, a)
  <1>1. e \in Seq(Commands) /\ Len(e) = 0
    OBVIOUS
  <1>2. <<>> \o <<b>> = Append(e, b) /\ <<>> \o <<a, b>> = Append(ea, b)
    OBVIOUS
  <1>3. ea \in Seq(Commands) /\ Len(ea) = 1 /\ ea[1] = a
    OBVIOUS
  <1> HIDE DEF e
  <1>4. Queue(e, r, d)
    BY <1>1 DEF Queue, Orderly, Addressed, Decided, Filled
  <1>5. Queue(Append(e, b), r, d)
    <2>1. Admits(e, r, d, b)
      BY <1>1 DEF Admits
    <2> QED BY <1>1, <1>4, <2>1, QueueAppend
  <1>6. Queue(ea, r, d)
    <2>1. Admits(e, r, d, a)
      BY <1>1 DEF Admits, Plain
    <2> QED BY <1>1, <1>4, <2>1, QueueAppend
  <1> HIDE DEF ea
  <1>7. Queue(Append(ea, b), r, d)
    <2>1. Admits(ea, r, d, b)
      BY <1>3 DEF Admits, Plain
    <2> QED BY <1>3, <1>6, <2>1, QueueAppend
  <1> QED BY <1>2, <1>5, <1>7

\* When no request waits for anything, there are no replies and the queue holds
\* only what was left behind.
LEMMA NothingAwaited ==
  ASSUME NEW rs \in Seq(Replies), NEW q \in Seq(Commands), \A t \in Slots : NoneOf(rs \o q, t)
  PROVE rs = <<>> /\ LeftOver(q)
  <1> DEFINE line == rs \o q
             n == Len(rs)
  <1>1. rs \in Seq(Entries) /\ q \in Seq(Entries)
    BY DEF Entries
  <1>2. /\ n \in Nat /\ Len(q) \in Nat /\ Len(line) = n + Len(q)
        /\ \A i \in 1..n : line[i] = rs[i] /\ i \in 1..Len(line)
        /\ \A i \in 1..Len(q) : line[n + i] = q[i] /\ n + i \in 1..Len(line)
    BY <1>1
  <1>3. rs = <<>>
    <2> SUFFICES ASSUME rs # <<>> PROVE FALSE
      OBVIOUS
    <2>1. 1 \in 1..n /\ rs[1] \in Replies
      OBVIOUS
    <2>2. rs[1].slot \in Slots /\ line[1].slot = rs[1].slot
      BY <1>2, <2>1 DEF Replies
    <2> QED BY <1>2, <2>1, <2>2 DEF NoneOf
  <1>4. \A i \in 1..Len(q) : q[i] \in Commands /\ q[i].slot \notin Slots
    <2>1. \A t \in Slots : NoneOf(line, t)
      OBVIOUS
    <2> HIDE DEF line, n
    <2>2. \A t \in Slots, i \in 1..Len(line) : line[i].slot # t
      BY <2>1 DEF NoneOf
    <2> QED BY <1>2, <2>2
  <1>5. \A c \in Commands : c.slot \notin Slots => c.op = "hset" /\ c.slot = Null /\ c.cb = "none"
    BY DEF Commands, RawCommands, CommandOK, SlotOK, ReadCallbacks
  <1> QED BY <1>3, <1>4, <1>5 DEF LeftOver

\* What the commands consist of.
LEMMA CmdContents ==
  ASSUME NEW k, NEW f, NEW v, NEW s, NEW cb
  PROVE /\ HGetCmd(k, f, s, cb).op = "hget" /\ HGetCmd(k, f, s, cb).key = k
        /\ HSetCmd(k, f, v, s, cb).op = "hset" /\ HSetCmd(k, f, v, s, cb).key = k
        /\ HSetCmd(k, f, v, s, cb).field = f /\ HSetCmd(k, f, v, s, cb).val = v
        /\ HSetOnly(k, f, v).op = "hset" /\ HSetOnly(k, f, v).key = k
        /\ HSetOnly(k, f, v).field = f /\ HSetOnly(k, f, v).val = v
        /\ KeysCmd(k, s, cb).op = "keys" /\ KeysCmd(k, s, cb).key = k
  BY DEF HGetCmd, HSetCmd, HSetOnly, KeysCmd

-----------------------------------------------------------------------------
(* The steps of the server.                                                *)

\* A step of the one request under way that leaves no reply behind.
LEMMA LifeWeb ==
  ASSUME LifeInv, NEW s \in Slots, admin.pc = "idle",
         replies' = <<>>, UNCHANGED <<db, admin>>, Queue(pipe', reqs', db),
         \A t \in Slots \ {s} : Free(t)',
         reqs'[s].pc # "verify_timestamp",
         reqs'[s].pc \in Later => Quiet(pipe'),
         reqs'[s].pc \in Acting => gUser' = reqs'[s].uid,
         StoresMail(reqs'[s]) => reqs'[s].mail # Null
  PROVE LifeInv'
  <1>1. \A t \in Slots \ {s} : reqs'[t].pc \notin Acting \cup Later /\ ~StoresMail(reqs'[t])
    BY DEF Free, Acting, Later, StoresMail
  <1>2. TurnInv'
    BY <1>1 DEF TurnInv
  <1>3. Len(replies') = 0
    OBVIOUS
  <1>4. ReadInv'
    BY <1>1, <1>3 DEF ReadInv, Later
  <1>5. QueueInv'
    BY DEF QueueInv
  <1>6. FormInv'
    BY <1>1 DEF LifeInv, FormInv
  <1> QED BY <1>2, <1>4, <1>5, <1>6 DEF LifeInv

\* The one request under way is at pc.
Turn(s, pc) ==
  /\ admin.pc = "idle" /\ reqs[s].pc = pc
  /\ \A t \in Slots \ {s} : Free(t)

\* A request that is not free has its turn.
LEMMA HasTurn ==
  ASSUME TurnInv, NEW s \in Slots, ~Free(s)
  PROVE Turn(s, reqs[s].pc)
  BY DEF TurnInv, Turn

\* The request goes on.
LEMMA GoesOn ==
  ASSUME Inv, NEW s \in Slots, NEW pc, Turn(s, pc)
  PROVE /\ \A to, sess : Await(s, to, sess) =>
             /\ reqs'[s].pc = to /\ reqs'[s].sess = sess
             /\ reqs'[s].uid = reqs[s].uid /\ reqs'[s].kind = reqs[s].kind
             /\ reqs'[s].mail = reqs[s].mail
             /\ \A t \in Slots \ {s} : Free(t)'
        /\ \A sess : Answer(s, sess) =>
             /\ reqs'[s].pc = "free"
             /\ \A t \in Slots \ {s} : Free(t)'
  <1>1. reqs[s] \in Requests
    BY DEF Inv, ReqInv
  <1>2. ASSUME NEW to, NEW sess, Await(s, to, sess)
        PROVE /\ reqs'[s].pc = to /\ reqs'[s].sess = sess
              /\ reqs'[s].uid = reqs[s].uid /\ reqs'[s].kind = reqs[s].kind
              /\ reqs'[s].mail = reqs[s].mail
              /\ \A t \in Slots \ {s} : Free(t)'
    <2>1. reqs'[s] = [reqs[s] EXCEPT !.pc = to, !.sess = sess] /\ \A t \in Slots \ {s} : reqs'[t] = reqs[t]
      BY <1>2 DEF Await, Inv, ReqInv
    <2> QED BY <1>1, <2>1 DEF Turn, Free, Requests
  <1>3. ASSUME NEW sess, Answer(s, sess)
        PROVE reqs'[s].pc = "free" /\ \A t \in Slots \ {s} : Free(t)'
    BY <1>3 DEF Answer, Inv, ReqInv, NoReq, Turn, Free
  <1> QED BY <1>2, <1>3

\* A request that ends leaves a queue in order.
LEMMA LifeEnds ==
  ASSUME Inv, LifeInv, NEW s \in Slots, NEW pc, Turn(s, pc), NEW sess, Answer(s, sess),
         replies' = <<>>, UNCHANGED <<db, admin>>, Queue(pipe', reqs', db)
  PROVE LifeInv'
  <1>1. reqs'[s].pc = "free" /\ \A t \in Slots \ {s} : Free(t)'
    BY GoesOn
  <1>2. reqs'[s].pc \notin Later \cup Acting /\ ~StoresMail(reqs'[s])
    BY <1>1 DEF Later, Acting, StoresMail
  <1> QED BY <1>1, <1>2, LifeWeb DEF Turn, Later

\* Before a request arrives, and before the handler of a POST runs, nothing is
\* awaited.
LEMMA FreshStart ==
  ASSUME Inv, CallbackMatched, \A t \in Slots : reqs[t].pc \in {"free", "body"}
  PROVE replies = <<>> /\ LeftOver(pipe)
  <1>1. \A t \in Slots : NoneOf(replies \o pipe, t)
    BY QueuedCases DEF CallbackMatched, Line
  <1> QED BY <1>1, NothingAwaited DEF Inv, ReplyInv, PipeInv

\* Before the last callback of a request runs, nothing else is awaited, and
\* nothing was left behind when it is the callback of a read.
LEMMA LastCallback ==
  ASSUME Inv, CallbackMatched, LifeInv, NEW s \in Slots, NEW cb \in Callbacks, Callback(s, cb)
  PROVE /\ Turn(s, cb)
        /\ cb \notin Reads => replies' = <<>> /\ LeftOver(pipe)
        /\ cb \in Answers => Quiet(pipe)
        /\ cb \in Answers \ Reads => pipe = <<>>
        /\ cb \in Decisive => Reply = Current(cb, reqs[s].uid)
  <1>1. reqs[s].pc = cb
    BY RestCallback
  <1>2. ~Free(s)
    BY <1>1 DEF Free, Callbacks, ReadCallbacks
  <1>3. Turn(s, cb)
    BY <1>1, <1>2, HasTurn DEF LifeInv
  <1>4. replies \in Seq(Replies) /\ replies # <<>> /\ Head(replies) = replies[1] /\ 1 \in 1..Len(replies)
    BY DEF Inv, ReplyInv, Callback
  <1>5. cb \in Answers => Quiet(pipe)
    BY <1>4 DEF LifeInv, ReadInv, Callback
  <1>6. cb \in Decisive => Reply = Current(cb, reqs[s].uid)
    BY <1>4 DEF LifeInv, ReadInv, Callback, Reply
  <1>7. ASSUME cb \notin Reads PROVE replies' = <<>> /\ LeftOver(pipe)
    <2>1. Rest(replies' \o pipe, s)
      BY <1>7, RestCallback
    <2>2. \A t \in Slots : NoneOf(replies' \o pipe, t)
      BY <1>3, <2>1, QueuedCases DEF Rest, Turn, Free
    <2>3. replies' \in Seq(Replies) /\ pipe \in Seq(Commands)
      BY CallbackOK DEF Inv, ReplyInv, PipeInv
    <2> QED BY <2>2, <2>3, NothingAwaited
  <1>8. ASSUME cb \in Answers \ Reads PROVE pipe = <<>>
    <2>1. LeftOver(pipe) /\ Quiet(pipe)
      BY <1>5, <1>7, <1>8
    <2>2. pipe \in Seq(Commands)
      BY DEF Inv, PipeInv
    <2> QED BY <2>1, <2>2 DEF LeftOver, Quiet
  <1> QED BY <1>3, <1>5, <1>6, <1>7, <1>8

\* A request arrives.
LEMMA LifeArrive ==
  ASSUME Overlap = "none", Inv, CallbackMatched, LifeInv, NEW s \in Slots, NEW b, NEW kind,
         NEW pc \in {"body", "secure_valid", "verify_valid", "show_mail", "new_password_valid"},
         NEW form, Arrive(s, b, kind, pc, form),
         UNCHANGED <<db, replies, admin>>, Queue(pipe', reqs', db),
         pc \in Acting => gUser' = form.uid,
         pc = "body" /\ kind \in {"update_mail", "create_user"} => form.mail # Null
  PROVE LifeInv'
  <1>1. admin.pc = "idle" /\ \A t \in Slots : Free(t)
    BY DEF Arrive, MayArrive, Alone
  <1>2. replies = <<>>
    BY <1>1, FreshStart DEF Free
  <1>3. /\ reqs'[s].pc = pc /\ reqs'[s].kind = kind /\ reqs'[s].uid = form.uid
        /\ reqs'[s].mail = form.mail
        /\ \A t \in Slots \ {s} : reqs'[t] = reqs[t]
    BY DEF Arrive, Inv, ReqInv
  <1>4. \A t \in Slots \ {s} : Free(t)'
    BY <1>1, <1>3 DEF Free
  <1>5. pc \notin Later /\ pc # "verify_timestamp" /\ pc # "create_user"
    BY DEF Later
  <1> QED BY <1>1, <1>2, <1>3, <1>4, <1>5, LifeWeb DEF StoresMail

\* Whichever route it takes.
LEMMA LifeRequest ==
  ASSUME Overlap = "none", Inv, CallbackMatched, LifeInv, NEW s \in Slots, Request(s)
  PROVE LifeInv'
  <1>1. UNCHANGED <<db, replies, admin>>
    BY DEF Request
  <1>2. PICK b \in Browsers : ReceivePost(s, b) \/ Secure(s, b) \/ Verify(s, b)
                                \/ ShowMail(s, b) \/ NewPassword(s, b)
    BY DEF Request
  <1>3. ~(\E t \in Slots : ~Free(t)) /\ sessions[b].user \in Keys /\ seen \subseteq Links
        /\ pipe \in Seq(Commands)
    BY <1>2 DEF ReceivePost, Secure, Verify, ShowMail, NewPassword, Arrive, MayArrive, Alone,
       Inv, SessInv, Sessions, MailInv, PipeInv
  <1>4. LeftOver(pipe) /\ Queue(pipe, reqs, db)
    BY <1>3, FreshStart DEF Free, LifeInv, QueueInv
  <1>5. Queue(pipe, reqs', db)
    BY <1>4 DEF Queue, Addressed, LeftOver, Decisive
  <1>6. ASSUME NEW k \in Keys, NEW f, NEW g, NEW ca \in ReadCallbacks, NEW cb \in ReadCallbacks,
               f = FieldRead(ca), g = FieldRead(cb),
               ca \in Decisive \/ cb \in Decisive => k = reqs'[s].uid,
               \/ Send(<<HGetCmd(k, f, s, ca)>>)
               \/ Send(<<HGetCmd(k, f, s, ca), HGetCmd(k, g, s, cb)>>)
        PROVE Queue(pipe', reqs', db)
    <2> DEFINE x == HGetCmd(k, f, s, ca)
               y == HGetCmd(k, g, s, cb)
    <2>1. x \in Commands /\ y \in Commands
      BY <1>6, HGetCmdOK
    <2>2. /\ x.op # "hset" /\ x.key = k /\ x.cb = ca /\ x.slot = s
          /\ y.op # "hset" /\ y.key = k /\ y.cb = cb /\ y.slot = s
      BY CmdContents, CmdFields
    <2>3. Send(<<x>>) \/ Send(<<x, y>>)
      BY <1>6
    <2> HIDE DEF x, y
    <2>4. Queue(pipe \o <<x>>, reqs', db) /\ Queue(pipe \o <<x, y>>, reqs', db)
      BY <1>3, <1>4, <1>6, <2>1, <2>2, SentReads
    <2> QED BY <2>3, <2>4 DEF Send
  <1>7. CASE ReceivePost(s, b)
    <2>1. PICK kind \in PostKinds : \E f \in Form(kind) : Arrive(s, b, kind, "body", f)
      BY <1>7 DEF ReceivePost
    <2>2. PICK f \in Form(kind) : Arrive(s, b, kind, "body", f)
      BY <2>1
    <2>3. kind \in {"update_mail", "create_user"} => f.mail # Null
      BY <2>2, StoreAssumption DEF Form
    <2>4. Queue(pipe', reqs', db)
      BY <1>5, <1>7 DEF ReceivePost
    <2> QED BY <1>1, <2>2, <2>3, <2>4, LifeArrive DEF Acting
  <1>8. CASE Secure(s, b)
    <2>1. Queue(pipe', reqs', db)
      BY <1>3, <1>6, <1>8, ReadFacts DEF Secure, Decisive
    <2> QED BY <1>1, <1>8, <2>1, LifeArrive DEF Secure, Acting
  <1>9. CASE Verify(s, b)
    <2> DEFINE form(l) == [NoForm EXCEPT !.uid = l.uid, !.tok = l.tok]
    <2>1. PICK l \in seen :
            /\ Arrive(s, b, "verify", "verify_valid", form(l))
            /\ gUser' = LinkUser(l)
            /\ Send(<<HGetCmd(l.uid, "valid", s, "verify_valid"),
                      HGetCmd(l.uid, "timestamp", s, "verify_timestamp")>>)
      BY <1>9 DEF Verify
    <2>2. l.uid \in Keys /\ form(l).uid = l.uid
      BY <1>3 DEF Links, NoForm
    <2> HIDE DEF form
    <2>3. reqs'[s].uid = l.uid
      BY <2>1, <2>2 DEF Arrive, Inv, ReqInv
    <2>4. Queue(pipe', reqs', db)
      BY <1>6, <2>1, <2>2, <2>3, ReadFacts DEF Decisive
    <2> QED BY <1>1, <2>1, <2>2, <2>4, LifeArrive DEF LinkUser
  <1>10. CASE ShowMail(s, b)
    <2>1. PICK u \in Names :
            /\ Arrive(s, b, "show_mail", "show_mail", [NoForm EXCEPT !.uid = u])
            /\ Send(<<HGetCmd(u, "link", s, "show_mail")>>)
      BY <1>10 DEF ShowMail
    <2>2. "show_mail" \in ReadCallbacks /\ u \in Keys /\ "show_mail" \notin Decisive
      BY DEF ReadCallbacks, Keys, Decisive
    <2>3. Queue(pipe', reqs', db)
      BY <1>6, <2>1, <2>2, ReadFacts
    <2> QED BY <1>1, <2>1, <2>3, LifeArrive DEF Acting
  <1>11. CASE NewPassword(s, b)
    <2> DEFINE form(l) == [NoForm EXCEPT !.uid = l.uid, !.tok = l.tok]
    <2>1. PICK l \in seen :
            /\ Arrive(s, b, "new_password", "new_password_valid", form(l))
            /\ gUser' = LinkUser(l)
            /\ Send(<<HGetCmd(l.uid, "valid", s, "new_password_valid"),
                      HGetCmd(l.uid, "timestamp", s, "new_password_timestamp")>>)
      BY <1>11 DEF NewPassword
    <2>2. l.uid \in Keys /\ form(l).uid = l.uid
      BY <1>3 DEF Links, NoForm
    <2> HIDE DEF form
    <2>3. reqs'[s].uid = l.uid
      BY <2>1, <2>2 DEF Arrive, Inv, ReqInv
    <2>4. Queue(pipe', reqs', db)
      BY <1>6, <2>1, <2>2, <2>3, ReadFacts DEF Decisive
    <2> QED BY <1>1, <2>1, <2>2, <2>4, LifeArrive DEF LinkUser
  <1> QED BY <1>2, <1>7, <1>8, <1>9, <1>10, <1>11

\* The handler of a POST runs.
LEMMA LifePost ==
  ASSUME Inv, CallbackMatched, LifeInv, NEW s \in Slots, PostHandler(s)
  PROVE LifeInv'
  <1>1. reqs[s].pc = "body"
    BY DEF PostHandler, Login, UpdateMail, UpdatePassword, PostNewPassword, SetPassword,
       CreateUser, VerifyMail, ResetPassword, Handler
  <1>2. Turn(s, "body")
    BY <1>1, HasTurn DEF Free, LifeInv
  <1>3. /\ replies = <<>> /\ LeftOver(pipe) /\ Queue(pipe, reqs, db) /\ pipe \in Seq(Commands)
        /\ UNCHANGED <<db, replies, admin>>
        /\ reqs[s].uid \in Keys /\ reqs[s].sess.user \in Keys /\ NodeTime \in Timestamps
    BY <1>1, <1>2, FreshStart, RequestFacts, NodeTimeType
       DEF Turn, Free, LifeInv, QueueInv, PostHandler, Inv, PipeInv
  <1>4. ASSUME NEW pc \in Callbacks \ Later, NEW sess, Await(s, pc, sess), Queue(pipe', reqs', db),
               pc \in Acting => gUser' = reqs[s].uid,
               pc = "create_user" => reqs[s].mail # Null
        PROVE LifeInv'
    <2>1. /\ reqs'[s].pc = pc /\ reqs'[s].uid = reqs[s].uid /\ reqs'[s].mail = reqs[s].mail
          /\ \A t \in Slots \ {s} : Free(t)'
      BY <1>2, <1>4, GoesOn
    <2>2. pc \notin Later \cup {"verify_timestamp", "body"}
      BY DEF Later, Callbacks, ReadCallbacks
    <2> QED BY <1>2, <1>3, <1>4, <2>1, <2>2, LifeWeb DEF Turn, StoresMail
  <1>5. ASSUME NEW pc, NEW sess, Await(s, pc, sess), NEW c \in Commands, c.op # "hset", c.slot = s,
               c.key = reqs[s].uid, Send(<<c>>)
        PROVE Queue(pipe', reqs', db)
    <2>1. reqs'[s].uid = reqs[s].uid
      BY <1>2, <1>5, GoesOn
    <2>2. Queue(pipe \o <<c>>, reqs', db)
      BY <1>3, <1>5, <2>1, SentReads
    <2> QED BY <1>5, <2>2 DEF Send
  <1>6. CASE Login(s)
    <2> DEFINE c == HGetCmd(reqs[s].uid, "password", s, "login_password")
    <2>1. "login_password" \in ReadCallbacks
      BY DEF ReadCallbacks
    <2>2. c \in Commands
      BY <1>3, <2>1, HGetCmdOK, ReadFacts
    <2>3. c.op # "hset" /\ c.slot = s /\ c.key = reqs[s].uid /\ Send(<<c>>)
      BY <1>6, CmdContents, CmdFields DEF Login
    <2> HIDE DEF c
    <2>4. Queue(pipe', reqs', db)
      BY <1>5, <1>6, <2>2, <2>3 DEF Login
    <2> QED BY <1>4, <1>6, <2>4 DEF Login, Callbacks, ReadCallbacks, Later, Acting
  <1>7. CASE UpdateMail(s)
    <2> DEFINE u == reqs[s].sess.user
               a == HSetOnly(u, "timestamp", NodeTime)
               b == HSetOnly(u, "valid", "False")
               c == HSetCmd(u, "mail", reqs[s].mail, s, "update_mail")
    <2>1. a \in Commands /\ b \in Commands /\ c \in Commands
      BY <1>3, RequestFacts, HSetCmdOK, FieldFacts, StoreAssumption DEF Inv, HSetOnly, Fields, Flags
    <2>2. reqs[s].mail # Null
      BY <1>1, <1>7 DEF UpdateMail, Handler, LifeInv, FormInv, StoresMail
    <2>3. Plain(a)
      BY CmdContents, CmdFields DEF Plain, Conditional, FilledCmd, Decisive
    <2>4. Plain(b)
      BY CmdContents, CmdFields, StoreAssumption DEF Plain, Conditional, FilledCmd, Decisive
    <2>5. Plain(c)
      BY <2>2, CmdContents, CmdFields DEF Plain, Conditional, FilledCmd, Decisive
    <2>6. pipe' = pipe \o <<a, b, c>>
      BY <1>7 DEF UpdateMail, UpdateMailCmds, Send
    <2> HIDE DEF a, b, c
    <2>7. Queue(pipe', reqs', db)
      BY <1>3, <2>1, <2>3, <2>4, <2>5, <2>6, SentWrites
    <2> QED BY <1>4, <1>7, <2>7 DEF UpdateMail, Callbacks, Later, Acting
  <1>8. ASSUME NEW kind \in {"update_password", "set_password"}, SetPassword(s, kind)
        PROVE LifeInv'
    <2> DEFINE u == reqs[s].sess.user
               c == PasswordCmd(s, kind)
    <2>1. Hash(u, reqs[s].pw) \in Hashes /\ Hash(u, reqs[s].pw).salt = u
      BY <1>3, RequestFacts DEF Inv, Hash, Hashes
    <2>2. c \in Commands
      BY <1>3, <2>1, HSetCmdOK, FieldFacts, StoreAssumption DEF PasswordCmd, Fields
    <2>3. Plain(c)
      BY CmdContents, CmdFields DEF PasswordCmd, Plain, Conditional, FilledCmd, Decisive
    <2>4. Send(<<c>>)
      BY <1>8 DEF SetPassword
    <2> HIDE DEF c
    <2>5. Queue(pipe', reqs', db)
      BY <1>3, <2>2, <2>3, <2>4, SentWrites DEF Send
    <2> QED BY <1>4, <1>8, <2>5 DEF SetPassword, Callbacks, Later, Acting
  <1>9. CASE CreateUser(s)
    <2> DEFINE c == KeysCmd(reqs[s].uid, s, "create_user")
    <2>1. c \in Commands
      BY <1>3, KeysCmdOK
    <2>2. c.op # "hset" /\ c.slot = s /\ c.key = reqs[s].uid /\ Send(<<c>>)
      BY <1>9, CmdContents, CmdFields DEF CreateUser
    <2> HIDE DEF c
    <2>3. Queue(pipe', reqs', db)
      BY <1>5, <1>9, <2>1, <2>2 DEF CreateUser
    <2>4. reqs[s].mail # Null
      BY <1>1, <1>9 DEF CreateUser, Handler, LifeInv, FormInv, StoresMail
    <2> QED BY <1>4, <1>9, <2>3, <2>4 DEF CreateUser, Callbacks, Later, Acting
  <1>10. CASE VerifyMail(s)
    <2> DEFINE u == reqs[s].uid
               link == Link("verify", u, NodeTime)
               a == HSetOnly(u, "timestamp", NodeTime)
               b == HSetOnly(u, "link", link)
    <2>1. link \in Links
      BY <1>3 DEF Link, Links
    <2>2. a \in Commands /\ b \in Commands
      BY <1>3, <2>1, HSetCmdOK, FieldFacts DEF HSetOnly, Fields
    <2>3. Plain(a)
      BY CmdContents, CmdFields DEF Plain, Conditional, FilledCmd, Decisive
    <2>4. Plain(b)
      BY CmdContents, CmdFields DEF Plain, Conditional, FilledCmd, Decisive
    <2>5. pipe' = pipe \o <<a, b>>
      BY <1>10 DEF VerifyMail, VerifyMailCmds, Send
    <2> HIDE DEF a, b
    <2>6. Queue(pipe', reqs', db)
      BY <1>3, <2>2, <2>3, <2>4, <2>5, SentWrites
    <2> QED BY <1>2, <1>3, <1>10, <2>6, LifeEnds DEF VerifyMail
  <1>11. CASE ResetPassword(s)
    <2> DEFINE c == HGetCmd(reqs[s].uid, "mail", s, "reset_mail")
    <2>1. c \in Commands
      BY <1>3, HGetCmdOK, ReadFacts
    <2>2. c.op # "hset" /\ c.slot = s /\ c.key = reqs[s].uid /\ Send(<<c>>)
      BY <1>11, CmdContents, CmdFields DEF ResetPassword
    <2> HIDE DEF c
    <2>3. Queue(pipe', reqs', db)
      BY <1>5, <1>11, <2>1, <2>2 DEF ResetPassword
    <2> QED BY <1>4, <1>11, <2>3 DEF ResetPassword, Callbacks, ReadCallbacks, Later
  <1> QED BY <1>6, <1>7, <1>8, <1>9, <1>10, <1>11 DEF PostHandler, UpdatePassword, PostNewPassword

\* KEYS finds a name without wildcards when its account exists: its confirmation
\* cannot be set when nothing is found.
LEMMA NothingFound ==
  ASSUME PlainNames, Inv, NEW k \in Keys, KeysLike(db, k) = {}
  PROVE db[k]["valid"] # "True"
  <1>1. DOMAIN db = Keys
    BY DEF Inv, DbInv
  <1>2. ~Exists(db, k)
    BY <1>1 DEF KeysLike, PlainNames
  <1>3. db[k]["valid"] = Null
    BY <1>2 DEF Exists, Fields
  <1> QED BY <1>3, StoreAssumption

\* The first of two reads is answered.
LEMMA LifeKeepValid ==
  ASSUME Inv, CallbackMatched, LifeInv, NEW s \in Slots, KeepValid(s), UNCHANGED <<db, gUser, admin>>
  PROVE LifeInv'
  <1>1. PICK cb \in Reads :
          /\ Callback(s, cb)
          /\ Await(s, AfterValid[cb], [reqs[s].sess EXCEPT !.valid = Reply])
    BY DEF KeepValid, AfterValid, Reads
  <1>2. UNCHANGED pipe
    BY DEF KeepValid
  <1>3. cb \in Callbacks /\ cb \in Answers
    BY DEF Reads, Callbacks, ReadCallbacks, Answers
  <1>4. /\ Turn(s, cb) /\ Quiet(pipe)
        /\ cb \in Decisive => Reply = Current(cb, reqs[s].uid)
    BY <1>1, <1>3, LastCallback
  <1>5. /\ reqs'[s].pc = AfterValid[cb]
        /\ reqs'[s].sess = [reqs[s].sess EXCEPT !.valid = Reply]
        /\ reqs'[s].uid = reqs[s].uid
        /\ \A t \in Slots \ {s} : Free(t)'
    BY <1>1, <1>4, GoesOn
  <1>6. \A t \in Slots : reqs'[t].uid = reqs[t].uid
    BY <1>1, <1>5 DEF Await, Inv, ReqInv
  <1>7. AfterValid[cb] \in {"secure_mail", "verify_timestamp", "new_password_timestamp"}
    BY DEF Reads, AfterValid
  <1>8. \A t \in Slots \ {s} : reqs'[t].pc \notin Acting \cup Later /\ ~StoresMail(reqs'[t])
    BY <1>5 DEF Free, Acting, Later, StoresMail
  <1>9. TurnInv'
    <2>1. reqs'[s].pc \in Acting => gUser = reqs[s].uid
      BY <1>4, <1>5 DEF LifeInv, TurnInv, Turn, Reads, AfterValid, Acting
    <2> QED BY <1>4, <1>5, <1>6, <1>8, <2>1 DEF TurnInv, Turn
  <1>10. ReadInv'
    <2>1. /\ replies \in Seq(Replies) /\ replies # <<>> /\ replies' = Tail(replies)
          /\ Len(replies') = Len(replies) - 1
          /\ \A i \in 1..Len(replies') : replies'[i] = replies[i + 1] /\ i + 1 \in 1..Len(replies)
      BY <1>1 DEF Inv, ReplyInv, Callback
    <2>2. \A i \in 1..Len(replies) : replies[i].slot \in Slots
      BY DEF Inv, ReplyInv, Replies
    <2>3. \A i \in 1..Len(replies') : replies'[i].cb \in Decisive =>
            replies'[i].val = Current(replies'[i].cb, reqs'[replies'[i].slot].uid)
      BY <1>6, <2>1, <2>2 DEF LifeInv, ReadInv
    <2>4. reqs'[s].pc = "verify_timestamp" => reqs'[s].sess.valid = db[reqs'[s].uid]["valid"]
      <3> SUFFICES ASSUME AfterValid[cb] = "verify_timestamp"
                   PROVE reqs'[s].sess.valid = db[reqs'[s].uid]["valid"]
        BY <1>5
      <3>1. cb = "verify_valid"
        BY DEF Reads, AfterValid
      <3>2. Reply = db[reqs[s].uid]["valid"]
        BY <1>4, <3>1, ReadFacts DEF Decisive, Current, HGet
      <3>3. [reqs[s].sess EXCEPT !.valid = Reply].valid = Reply
        BY RequestFacts DEF Inv, Sessions
      <3> QED BY <1>5, <3>2, <3>3
    <2>5. \A t \in Slots : reqs'[t].pc = "verify_timestamp" =>
            reqs'[t].sess.valid = db[reqs'[t].uid]["valid"]
      BY <1>8, <2>4 DEF Later
    <2> QED BY <1>2, <1>4, <2>3, <2>5 DEF ReadInv, Current
  <1>11. QueueInv'
    <2>1. \A i \in 1..Len(pipe) : pipe[i].cb \in Decisive => pipe[i].slot \in Slots
      BY DEF Inv, PipeInv, Commands, RawCommands, SlotOK, Decisive
    <2>2. Addressed(pipe, reqs')
      BY <1>6, <2>1 DEF LifeInv, QueueInv, Queue, Addressed
    <2>3. Queue(pipe, reqs', db)
      BY <2>2 DEF LifeInv, QueueInv, Queue
    <2> QED BY <1>2, <2>3 DEF QueueInv
  <1>12. FormInv'
    BY <1>5, <1>7, <1>8 DEF LifeInv, FormInv, StoresMail
  <1> QED BY <1>9, <1>10, <1>11, <1>12 DEF LifeInv

\* A callback runs.
LEMMA LifeCallback ==
  ASSUME Inv, CallbackMatched, LifeInv, NEW s \in Slots, RunCallback(s)
  PROVE LifeInv'
  <1>1. UNCHANGED <<db, gUser, admin>>
    BY DEF RunCallback
  <1>2. /\ Queue(pipe, reqs, db) /\ pipe \in Seq(Commands)
        /\ reqs[s].uid \in Keys /\ gUser \in Keys /\ NodeTime \in Timestamps
        /\ db \in [Keys -> [Fields -> Values]]
    BY RequestFacts, NodeTimeType DEF LifeInv, QueueInv, Inv, PipeInv, GlobalInv, DbInv
  <1>3. ASSUME NEW cb \in Callbacks \ Reads, Callback(s, cb)
        PROVE /\ Turn(s, cb) /\ replies' = <<>> /\ LeftOver(pipe)
              /\ cb \in Answers => pipe = <<>>
              /\ cb \in Decisive => Reply = Current(cb, reqs[s].uid)
              /\ cb \in Acting => gUser = reqs[s].uid
              /\ Queue(pipe, reqs', db)
              /\ reqs[s].pc = cb
    <2>1. /\ Turn(s, cb) /\ replies' = <<>> /\ LeftOver(pipe)
          /\ cb \in Answers => pipe = <<>>
          /\ cb \in Decisive => Reply = Current(cb, reqs[s].uid)
      BY <1>3, LastCallback
    <2>2. Queue(pipe, reqs', db)
      BY <1>2, <2>1 DEF Queue, Addressed, LeftOver, Decisive
    <2>3. cb \in Acting => gUser = reqs[s].uid
      BY <2>1 DEF LifeInv, TurnInv, Turn
    <2> QED BY <2>1, <2>2, <2>3 DEF Turn
  \* The request ends without sending anything.
  <1>4. ASSUME NEW cb \in Callbacks \ Reads, Callback(s, cb), NEW sess, Answer(s, sess), UNCHANGED pipe
        PROVE LifeInv'
    <2>1. Queue(pipe', reqs', db)
      BY <1>3, <1>4
    <2> QED BY <1>1, <1>3, <1>4, <2>1, LifeEnds
  \* The request reads on.
  <1>5. ASSUME NEW cb \in Answers \ Reads, Callback(s, cb), NEW pc \in Later \ {"verify_timestamp"},
               reqs'[s].pc = pc, reqs'[s].uid = reqs[s].uid, \A t \in Slots \ {s} : Free(t)',
               pc \in Acting => cb \in Acting,
               NEW f, f = FieldRead(pc), Send(<<HGetCmd(reqs[s].uid, f, s, pc)>>)
        PROVE LifeInv'
    <2> DEFINE c == HGetCmd(reqs[s].uid, f, s, pc)
    <2>1. cb \in Callbacks \ Reads /\ pc \in ReadCallbacks
      BY DEF Answers, Callbacks, Later, ReadCallbacks
    <2>2. c \in Commands
      BY <1>2, <1>5, <2>1, HGetCmdOK
    <2>3. c.op # "hset" /\ c.slot = s /\ c.key = reqs[s].uid
      BY CmdContents, CmdFields
    <2> HIDE DEF c
    <2>4. pipe' = pipe \o <<c>> /\ pipe = <<>> /\ LeftOver(pipe)
      BY <1>3, <1>5, <2>1 DEF Send, c
    <2>5. Queue(pipe', reqs', db)
      BY <1>2, <1>5, <2>2, <2>3, <2>4, SentReads
    <2>6. pipe' = <<c>>
      BY <2>2, <2>4
    <2>7. Quiet(pipe')
      BY <2>3, <2>6 DEF Quiet
    <2>8. Turn(s, cb) /\ replies' = <<>> /\ (pc \in Acting => gUser = reqs[s].uid)
      BY <1>3, <1>5, <2>1
    <2>9. ~StoresMail(reqs'[s])
      BY <1>5 DEF StoresMail, Later
    <2> QED BY <1>1, <1>5, <2>5, <2>7, <2>8, <2>9, LifeWeb DEF Turn
  \* The request ends with a write that its answer allows.
  <1>6. ASSUME NEW cb \in Answers \ Reads, Callback(s, cb), NEW sess, Answer(s, sess),
               NEW a \in Commands, NEW b \in Commands, Plain(a), Harmless(a),
               b.op = "hset", b.cb \notin Decisive, Met(db, b), FilledCmd(b),
               Send(<<b>>) \/ Send(<<a, b>>)
        PROVE LifeInv'
    <2>1. cb \in Callbacks \ Reads
      BY DEF Answers, Callbacks
    <2>2. Turn(s, cb) /\ replies' = <<>> /\ pipe = <<>>
      BY <1>3, <1>6, <2>1
    <2>3. Queue(<<>> \o <<b>>, reqs', db) /\ Queue(<<>> \o <<a, b>>, reqs', db)
      BY <1>6, SentDecided
    <2>4. Queue(pipe', reqs', db)
      BY <1>6, <2>2, <2>3 DEF Send
    <2> QED BY <1>1, <1>6, <2>2, <2>4, LifeEnds
  <1>7. \A pc, to, sess : Turn(s, pc) /\ Await(s, to, sess) =>
          reqs'[s].pc = to /\ reqs'[s].uid = reqs[s].uid /\ \A t \in Slots \ {s} : Free(t)'
    BY GoesOn
  <1>8. CASE LoginPassword(s)
    <2>1. /\ "login_password" \in Answers \ Reads /\ "login_password" \in Callbacks \ Reads
          /\ "login_valid" \in Later \ {"verify_timestamp"} /\ "login_valid" \notin Acting
      BY DEF Answers, Reads, ReadCallbacks, Callbacks, Later, Acting
    <2>2. Callback(s, "login_password")
      BY <1>8 DEF LoginPassword
    <2>3. CASE Send(<<HGetCmd(reqs[s].uid, "valid", s, "login_valid")>>)
                 /\ Await(s, "login_valid", reqs[s].sess)
      BY <1>3, <1>5, <1>7, <2>1, <2>2, <2>3, ReadFacts
    <2>4. CASE UNCHANGED pipe /\ Answer(s, reqs[s].sess)
      BY <1>4, <2>1, <2>2, <2>4
    <2> QED BY <1>8, <2>3, <2>4 DEF LoginPassword
  <1>9. CASE LoginValid(s)
    BY <1>4, <1>9 DEF LoginValid, Callbacks, ReadCallbacks, Reads
  <1>10. CASE KeepValid(s)
    BY <1>1, <1>10, LifeKeepValid
  <1>11. CASE Finish(s)
    BY <1>4, <1>11 DEF Finish, Callbacks, ReadCallbacks, Reads
  <1>12. CASE CreateUserKeys(s)
    <2> DEFINE r == reqs[s]
               a == HSetOnly(r.uid, "password", Hash(r.uid, r.pw))
               b == HSetOnly(r.uid, "mail", r.mail)
    <2>1. /\ "create_user" \in Answers \ Reads /\ "create_user" \in Callbacks \ Reads
          /\ "create_user" \in Decisive /\ Callback(s, "create_user") /\ Answer(s, r.sess)
      BY <1>12 DEF CreateUserKeys, Answers, Callbacks, Reads, Decisive
    <2>2. CASE UNCHANGED pipe
      BY <1>4, <2>1, <2>2
    <2>3. CASE Reply = {} /\ Send(<<a, b>>)
      <3>1. Hash(r.uid, r.pw) \in Hashes /\ Hash(r.uid, r.pw).salt = r.uid
        BY <1>2, RequestFacts DEF Inv, Hash, Hashes
      <3>2. a \in Commands /\ b \in Commands
        BY <1>2, <3>1, RequestFacts, HSetCmdOK, FieldFacts DEF Inv, HSetOnly, Fields
      <3>3. r.mail # Null
        BY <1>3, <2>1 DEF LifeInv, FormInv, StoresMail
      <3>4. KeysLike(db, r.uid) = {}
        BY <1>3, <2>1, <2>3 DEF Current
      <3>5. PlainNames => db[r.uid]["valid"] # "True"
        BY <1>2, <3>4, NothingFound
      <3>6. Plain(a) /\ Harmless(a)
        BY CmdContents, CmdFields DEF Plain, Harmless, Conditional, FilledCmd, Decisive
      <3>7. b.op = "hset" /\ b.cb \notin Decisive /\ Met(db, b) /\ FilledCmd(b)
        BY <3>3, <3>5, CmdContents, CmdFields DEF Met, FilledCmd, Decisive
      <3> HIDE DEF a, b
      <3> QED BY <1>6, <2>1, <2>3, <3>2, <3>6, <3>7
    <2> QED BY <1>12, <2>2, <2>3 DEF CreateUserKeys
  <1>13. CASE VerifyTimestamp(s)
    <2> DEFINE b == HSetOnly(gUser, "valid", "True")
               a == HSetOnly(gUser, "timestamp", NodeTime)
    <2>1. /\ "verify_timestamp" \in Answers \ Reads /\ "verify_timestamp" \in Callbacks \ Reads
          /\ "verify_timestamp" \in Acting
          /\ Callback(s, "verify_timestamp") /\ Answer(s, reqs[s].sess)
      BY <1>13 DEF VerifyTimestamp, Answers, Callbacks, ReadCallbacks, Reads, Acting
    <2>2. CASE UNCHANGED pipe
      BY <1>4, <2>1, <2>2
    <2>3. CASE Confirms(s) /\ Send(<<b>>)
      <3>1. a \in Commands /\ b \in Commands
        BY <1>2, HSetCmdOK, FieldFacts DEF HSetOnly, Fields, Flags
      <3>2. db[gUser]["valid"] = "False"
        BY <1>3, <2>1, <2>3 DEF LifeInv, ReadInv, Confirms
      <3>3. Plain(a) /\ Harmless(a)
        BY CmdContents, CmdFields DEF Plain, Harmless, Conditional, FilledCmd, Decisive
      <3>4. b.op = "hset" /\ b.cb \notin Decisive /\ Met(db, b) /\ FilledCmd(b)
        BY <3>2, CmdContents, CmdFields, StoreAssumption DEF Met, FilledCmd, Decisive
      <3> HIDE DEF a, b
      <3> QED BY <1>6, <2>1, <2>3, <3>1, <3>3, <3>4
    <2> QED BY <1>13, <2>2, <2>3 DEF VerifyTimestamp
  <1>14. CASE ShowMailLink(s)
    BY <1>4, <1>14 DEF ShowMailLink, Callbacks, ReadCallbacks, Reads
  <1>15. CASE ResetMail(s)
    <2>1. /\ "reset_mail" \in Answers \ Reads /\ "reset_mail" \in Callbacks \ Reads
          /\ "reset_valid" \in Later \ {"verify_timestamp"} /\ "reset_mail" \in Acting
      BY DEF Answers, Reads, ReadCallbacks, Callbacks, Later, Acting
    <2>2. Callback(s, "reset_mail")
      BY <1>15 DEF ResetMail
    <2>3. CASE Send(<<HGetCmd(gUser, "valid", s, "reset_valid")>>)
                 /\ Await(s, "reset_valid", reqs[s].sess)
      <3>1. gUser = reqs[s].uid
        BY <1>3, <2>1, <2>2
      <3> QED BY <1>3, <1>5, <1>7, <2>1, <2>2, <2>3, <3>1, ReadFacts
    <2>4. CASE UNCHANGED pipe /\ Answer(s, reqs[s].sess)
      BY <1>4, <2>1, <2>2, <2>4
    <2> QED BY <1>15, <2>3, <2>4 DEF ResetMail
  <1>16. CASE ResetValid(s)
    <2> DEFINE a == HSetOnly(gUser, "timestamp", NodeTime)
               b == HSetOnly(gUser, "new_password", "True")
    <2>1. /\ "reset_valid" \in Answers \ Reads /\ "reset_valid" \in Callbacks \ Reads
          /\ "reset_valid" \in Acting /\ "reset_valid" \in Decisive
          /\ Callback(s, "reset_valid") /\ Answer(s, reqs[s].sess)
      BY <1>16 DEF ResetValid, Answers, Callbacks, ReadCallbacks, Reads, Acting, Decisive
    <2>2. CASE UNCHANGED pipe
      BY <1>4, <2>1, <2>2
    <2>3. CASE MayReset(Reply) /\ Send(<<a, b>>)
      <3>1. a \in Commands /\ b \in Commands
        BY <1>2, HSetCmdOK, FieldFacts DEF HSetOnly, Fields, Flags
      <3>2. db[gUser]["valid"] = "True"
        BY <1>3, <2>1, <2>3, ReadFacts DEF MayReset, Current, HGet
      <3>3. Plain(a) /\ Harmless(a)
        BY CmdContents, CmdFields DEF Plain, Harmless, Conditional, FilledCmd, Decisive
      <3>4. b.op = "hset" /\ b.cb \notin Decisive /\ Met(db, b) /\ FilledCmd(b)
        BY <3>2, CmdContents, CmdFields, StoreAssumption DEF Met, FilledCmd, Decisive
      <3> HIDE DEF a, b
      <3> QED BY <1>6, <2>1, <2>3, <3>1, <3>3, <3>4
    <2> QED BY <1>16, <2>2, <2>3 DEF ResetValid
  <1>17. CASE NewPasswordTimestamp(s)
    <2> DEFINE cb == "new_password_timestamp"
               pc == "new_password_flag"
    <2>1. /\ cb \in Answers \ Reads /\ cb \in Callbacks \ Reads /\ cb \in Acting
          /\ pc \in Later \ {"verify_timestamp"}
      BY DEF Answers, Reads, ReadCallbacks, Callbacks, Later, Acting
    <2>2. /\ Callback(s, cb) /\ Send(<<HGetCmd(gUser, "new_password", s, pc)>>)
          /\ reqs' = [reqs EXCEPT ![s] = [@ EXCEPT !.pc = pc, !.ts = Reply]]
      BY <1>17 DEF NewPasswordTimestamp
    <2>3. Turn(s, cb) /\ gUser = reqs[s].uid
      BY <1>3, <2>1, <2>2
    <2>4. reqs[s] \in Requests
      BY DEF Inv, ReqInv
    <2>5. reqs'[s] = [reqs[s] EXCEPT !.pc = pc, !.ts = Reply] /\ \A t \in Slots \ {s} : reqs'[t] = reqs[t]
      BY <2>2 DEF Inv, ReqInv
    <2>6. reqs'[s].pc = pc /\ reqs'[s].uid = reqs[s].uid /\ \A t \in Slots \ {s} : Free(t)'
      BY <2>3, <2>4, <2>5 DEF Requests, Turn, Free
    <2> QED BY <1>5, <2>1, <2>2, <2>3, <2>6, ReadFacts
  <1>18. CASE NewPasswordFlag(s)
    <2> DEFINE b == HSetOnly(gUser, "new_password", "False")
               a == HSetOnly(gUser, "timestamp", NodeTime)
    <2>1. /\ "new_password_flag" \in Answers \ Reads /\ "new_password_flag" \in Callbacks \ Reads
          /\ "new_password_flag" \in Acting /\ "new_password_flag" \in Decisive
          /\ Callback(s, "new_password_flag")
      BY <1>18 DEF NewPasswordFlag, Answers, Callbacks, ReadCallbacks, Reads, Acting, Decisive
    <2>2. CASE UNCHANGED pipe /\ Answer(s, reqs[s].sess)
      BY <1>4, <2>1, <2>2
    <2>3. CASE Accepts(s) /\ Send(<<b>>) /\ Answer(s, Accepted(reqs[s].sess))
      <3>1. a \in Commands /\ b \in Commands
        BY <1>2, HSetCmdOK, FieldFacts DEF HSetOnly, Fields, Flags
      <3>2. db[gUser]["new_password"] = "True"
        BY <1>3, <2>1, <2>3, ReadFacts DEF Accepts, Current, HGet
      <3>3. Plain(a) /\ Harmless(a)
        BY CmdContents, CmdFields DEF Plain, Harmless, Conditional, FilledCmd, Decisive
      <3>4. b.op = "hset" /\ b.cb \notin Decisive /\ Met(db, b) /\ FilledCmd(b)
        BY <3>2, CmdContents, CmdFields, StoreAssumption DEF Met, FilledCmd, Decisive
      <3> HIDE DEF a, b
      <3> QED BY <1>6, <2>1, <2>3, <3>1, <3>3, <3>4
    <2> QED BY <1>18, <2>2, <2>3 DEF NewPasswordFlag
  <1> QED BY <1>8, <1>9, <1>10, <1>11, <1>12, <1>13, <1>14, <1>15, <1>16, <1>17, <1>18
          DEF RunCallback

\* Redis serves a command.
LEMMA LifeServe ==
  ASSUME Inv, LifeInv, RedisServe
  PROVE LifeInv'
  <1> DEFINE c == Head(pipe)
             n == Len(pipe)
             new == Tail(pipe)
             r == [slot |-> c.slot, cb |-> c.cb, val |-> Result(c)]
  <1>1. /\ pipe \in Seq(Commands) /\ pipe # <<>> /\ pipe' = new /\ db' = Store(c)
        /\ n \in Nat \ {0} /\ 1 \in 1..n /\ c = pipe[1] /\ c \in Commands
        /\ Len(new) = n - 1 /\ \A i \in 1..(n - 1) : new[i] = pipe[i + 1] /\ i + 1 \in 1..n /\ 1 < i + 1
        /\ UNCHANGED <<reqs, gUser, writes, admin>>
        /\ replies' = Replied(c) /\ replies \in Seq(Replies)
    BY DEF RedisServe, Inv, PipeInv, ReplyInv, webState, mailState
  <1>2. c.key \in Keys /\ db \in [Keys -> [Fields -> Values]]
    BY <1>1 DEF Commands, RawCommands, Inv, DbInv
  <1>3. admin.pc = "idle"
    BY <1>1 DEF LifeInv, TurnInv
  <1>4. \A i \in 1..Len(replies') :
          \/ i \in 1..Len(replies) /\ replies'[i] = replies[i]
          \/ replies'[i] = r /\ c.cb # "none"
    <2>1. replies' = replies \/ (replies' = Append(replies, r) /\ c.cb # "none")
      BY <1>1 DEF Replied
    <2> HIDE DEF r, c
    <2>2. \A i \in 1..Len(Append(replies, r)) :
            \/ i \in 1..Len(replies) /\ Append(replies, r)[i] = replies[i]
            \/ Append(replies, r)[i] = r
      BY <1>1
    <2> QED BY <2>1, <2>2
  <1>5. r.slot = c.slot /\ r.cb = c.cb /\ r.val = Result(c)
    OBVIOUS
  <1>6. c.cb \in Answers =>
          c.op # "hset" /\ (c.cb \in ReadCallbacks => c.op = "hget" /\ c.field = FieldRead(c.cb))
                        /\ (c.cb = "create_user" => c.op = "keys")
    BY <1>1 DEF Commands, CommandOK, SlotOK, RawCommands, Answers, ReadCallbacks
  <1>7. Queue(pipe, reqs, db)
    BY DEF LifeInv, QueueInv
  <1> HIDE DEF c, n, new, r
  <1>8. c.op # "hset" => Quiet(new) /\ db' = db
    BY <1>1, <1>7 DEF Queue, Orderly, Quiet, Store, n
  <1>9. Quiet(pipe) => Quiet(new) /\ db' = db
    BY <1>1, <1>8 DEF Quiet, n
  <1>10. TurnInv'
    BY <1>1, <1>3 DEF LifeInv, TurnInv, Free
  <1>11. ReadInv'
    <2>1. ASSUME NEW i \in 1..Len(replies'), replies'[i].cb \in Answers
          PROVE Quiet(pipe') /\ db' = db
      <3>1. CASE i \in 1..Len(replies) /\ replies'[i] = replies[i]
        BY <1>1, <1>9, <2>1, <3>1 DEF LifeInv, ReadInv
      <3>2. CASE replies'[i] = r
        BY <1>1, <1>5, <1>6, <1>8, <2>1, <3>2
      <3> QED BY <1>4, <3>1, <3>2
    <2>2. ASSUME NEW i \in 1..Len(replies'), replies'[i].cb \in Decisive
          PROVE replies'[i].val = Current(replies'[i].cb, reqs[replies'[i].slot].uid)
      <3>1. CASE i \in 1..Len(replies) /\ replies'[i] = replies[i]
        BY <2>2, <3>1 DEF LifeInv, ReadInv
      <3>2. CASE replies'[i] = r
        <4>1. c.cb \in Answers /\ c.cb \in Decisive
          BY <1>5, <2>2, <3>2 DEF Decisive, Answers, ReadCallbacks
        <4>2. c.key = reqs[c.slot].uid
          BY <1>1, <1>7, <4>1 DEF Queue, Addressed, n
        <4>3. Result(c) = Current(c.cb, c.key)
          BY <1>6, <4>1 DEF Result, Current, Decisive, ReadCallbacks
        <4> QED BY <1>5, <3>2, <4>2, <4>3
      <3> QED BY <1>4, <3>1, <3>2
    <2>3. Decisive \subseteq Answers
      BY DEF Decisive, Answers, ReadCallbacks
    <2>4. ASSUME NEW s \in Slots, reqs[s].pc \in Later PROVE Quiet(pipe') /\ db' = db
      BY <1>1, <1>9, <2>4 DEF LifeInv, ReadInv
    <2>5. \A s \in Slots : reqs[s].pc = "verify_timestamp" =>
            reqs[s].sess.valid = db'[reqs[s].uid]["valid"]
      BY <2>4 DEF LifeInv, ReadInv, Later
    <2>6. \A i \in 1..Len(replies') : replies'[i].cb \in Decisive =>
            replies'[i].val = Current(replies'[i].cb, reqs[replies'[i].slot].uid) /\ db' = db
      BY <2>1, <2>2, <2>3
    <2> QED BY <1>1, <2>1, <2>4, <2>5, <2>6 DEF ReadInv, Current
  <1>12. QueueInv'
    <2>1. Orderly(new)
      <3> SUFFICES ASSUME NEW i \in 1..(n - 1), NEW j \in 1..(n - 1), i < j, new[i].op # "hset"
                   PROVE new[j].op # "hset"
        BY <1>1 DEF Orderly
      <3>1. i + 1 < j + 1
        BY <1>1
      <3> QED BY <1>1, <1>7, <3>1 DEF Queue, Orderly, n
    <2>2. Addressed(new, reqs)
      BY <1>1, <1>7 DEF Queue, Addressed, n
    <2>3. Filled(new)
      BY <1>1, <1>7 DEF Queue, Filled, n
    <2>4. ASSUME NEW i \in 1..(n - 1), Conditional(new[i])
          PROVE Met(db', new[i]) /\ \A j \in 1..(n - 1) : j < i => Harmless(new[j])
      <3>1. Met(db, pipe[i + 1]) /\ \A j \in 1..n : j < i + 1 => Harmless(pipe[j])
        BY <1>1, <1>7, <2>4 DEF Queue, Decided, n
      <3>2. Harmless(c)
        BY <1>1, <3>1
      <3>3. \A k \in Keys : db'[k]["valid"] = db[k]["valid"] /\ db'[k]["new_password"] = db[k]["new_password"]
        BY <1>1, <1>2, <3>2 DEF Harmless, Store, HSet, Fields
      <3>4. new[i].key \in Keys
        <4>1. new[i] \in Commands
          BY <1>1 DEF n
        <4> QED BY <4>1 DEF Commands, RawCommands
      <3>5. Met(db', new[i])
        BY <1>1, <3>1, <3>3, <3>4 DEF Met
      <3>6. \A j \in 1..(n - 1) : j < i => Harmless(new[j])
        BY <1>1, <3>1
      <3> QED BY <3>5, <3>6
    <2>5. Decided(new, db')
      BY <1>1, <2>4 DEF Decided
    <2> QED BY <1>1, <2>1, <2>2, <2>3, <2>5 DEF QueueInv, Queue
  <1>13. FormInv'
    BY <1>1, <1>3 DEF LifeInv, FormInv
  <1> QED BY <1>10, <1>11, <1>12, <1>13 DEF LifeInv

-----------------------------------------------------------------------------
(* The steps of admin.py and the others.                                   *)

\* While admin.py runs, the server rests.
LEMMA LifeRest ==
  ASSUME LifeInv, \A s \in Slots : Free(s), pipe = <<>>, replies = <<>>, writes = {},
         UNCHANGED <<pipe, replies, reqs, gUser, writes>>
  PROVE TurnInv' /\ ReadInv' /\ QueueInv'
  <1>1. Len(pipe) = 0 /\ Len(replies) = 0
    OBVIOUS
  <1>2. \A s \in Slots : reqs[s].pc \notin Acting \cup Later
    BY DEF Free, Acting, Later
  <1>3. TurnInv'
    BY <1>2 DEF TurnInv, Free
  <1>4. ReadInv'
    BY <1>1, <1>2 DEF ReadInv, Later
  <1>5. QueueInv'
    BY <1>1 DEF QueueInv, Queue, Orderly, Addressed, Decided, Filled
  <1> QED BY <1>3, <1>4, <1>5

\* A step of admin.py.
LEMMA LifeAdmin ==
  ASSUME Inv, LifeInv, AdminStep
  PROVE LifeInv'
  <1>1. admin.pc # "idle"
    BY DEF AdminStep, AdminKeys, AdminPassword, AdminMail, AdminTimestamp, AdminValid, AdminFile,
       AdminDelete, AdminAborts
  <1>2. UNCHANGED <<pipe, replies, reqs, gUser, writes>>
    BY DEF AdminStep, redisLink, webState
  <1>3. TurnInv' /\ ReadInv' /\ QueueInv'
    BY <1>1, <1>2, LifeRest DEF LifeInv, TurnInv
  <1>4. admin \in AdminCalls /\ admin.uid \in Keys /\ db \in [Keys -> [Fields -> Values]]
    BY DEF Inv, AdminInv, AdminCalls, DbInv
  <1>5. /\ NoAdmin.pc = "idle" /\ NoAdmin.op = "none"
        /\ \A pc : [admin EXCEPT !.pc = pc].pc = pc /\ [admin EXCEPT !.pc = pc].op = admin.op
                   /\ [admin EXCEPT !.pc = pc].mail = admin.mail /\ [admin EXCEPT !.pc = pc].uid = admin.uid
        /\ \A pc, ts : [admin EXCEPT !.pc = pc, !.ts = ts].pc = pc
                   /\ [admin EXCEPT !.pc = pc, !.ts = ts].op = admin.op
                   /\ [admin EXCEPT !.pc = pc, !.ts = ts].mail = admin.mail
                   /\ [admin EXCEPT !.pc = pc, !.ts = ts].uid = admin.uid
    BY <1>4 DEF AdminCalls, NoAdmin
  <1>6. \A s \in Slots : StoresMail(reqs'[s]) => reqs'[s].mail # Null
    BY <1>2 DEF LifeInv, FormInv
  <1>7. ASSUME admin' = NoAdmin PROVE FormInv'
    BY <1>5, <1>6, <1>7 DEF FormInv
  <1>8. FormInv'
    <2>1. CASE AdminKeys
      <3>1. CASE admin' = NoAdmin
        BY <1>7, <3>1
      <3>2. CASE admin' # NoAdmin
        <4>1. /\ (KeysLike(db, admin.uid) # {}) # (admin.op = "-c")
              /\ admin' = [admin EXCEPT !.pc = IF admin.op = "-m" THEN "mail" ELSE "password"]
              /\ db' = db /\ admin.op \in {"-c", "-p", "-m"}
          BY <2>1, <3>2 DEF AdminKeys, LifeInv, FormInv
        <4>2. admin.op = "-c" /\ PlainNames => db[admin.uid]["valid"] # "True"
          BY <1>4, <4>1, NothingFound
        <4> QED BY <1>5, <1>6, <4>1, <4>2 DEF LifeInv, FormInv
      <3> QED BY <3>1, <3>2
    <2>2. CASE AdminPassword
      <3>1. db'[admin.uid]["valid"] = db[admin.uid]["valid"]
        BY <1>4, <2>2 DEF AdminPassword, HSet, Fields
      <3> QED BY <1>5, <1>6, <1>7, <2>2, <3>1 DEF AdminPassword, LifeInv, FormInv
    <2>3. CASE AdminMail
      BY <1>5, <1>6, <2>3 DEF AdminMail, LifeInv, FormInv
    <2>4. CASE AdminTimestamp
      BY <1>5, <1>6, <2>4 DEF AdminTimestamp, LifeInv, FormInv
    <2>5. CASE AdminValid
      BY <1>5, <1>6, <2>5 DEF AdminValid, LifeInv, FormInv
    <2>6. CASE AdminFile \/ AdminDelete \/ AdminAborts
      BY <1>7, <2>6 DEF AdminFile, AdminDelete, AdminAborts
    <2> QED BY <2>1, <2>2, <2>3, <2>4, <2>5, <2>6 DEF AdminStep
  <1> QED BY <1>3, <1>8 DEF LifeInv

\* A call of admin.py starts when nothing else is under way.
LEMMA LifeAdminStart ==
  ASSUME Overlap = "none", LifeInv, NEW op \in AdminOps, AdminStart(op)
  PROVE LifeInv'
  <1>1. (\A s \in Slots : Free(s)) /\ pipe = <<>> /\ replies = <<>> /\ writes = {}
    BY DEF AdminStart, MayAdminister, Alone
  <1>2. UNCHANGED <<db, pipe, replies, reqs, gUser, writes>>
    BY DEF AdminStart, redisLink, webState, mailState
  <1>3. TurnInv' /\ ReadInv' /\ QueueInv'
    BY <1>1, <1>2, LifeRest
  <1>4. /\ admin'.op = op /\ admin'.pc = (IF op = "-d" THEN "delete" ELSE "keys")
        /\ op \in {"-c", "-m"} => admin'.mail \in Mails
        /\ op \in {"-c", "-p", "-m", "-d"}
    BY InputAssumption DEF AdminStart
  <1>5. FormInv'
    BY <1>2, <1>4, StoreAssumption DEF LifeInv, FormInv
  <1> QED BY <1>3, <1>5 DEF LifeInv

\* The steps that concern none of this.
LEMMA LifeElse ==
  ASSUME LifeInv, UNCHANGED <<db, pipe, replies, reqs, gUser, admin>>,
         writes' = writes \/ admin.pc = "idle"
  PROVE LifeInv'
  BY DEF LifeInv, TurnInv, Free, ReadInv, Current, QueueInv, FormInv

\* Every step keeps the invariant.
LEMMA LifeNextStep ==
  ASSUME Overlap = "none", Inv, CallbackMatched, LifeInv, [Next]_vars
  PROVE LifeInv'
  <1>1. CASE \E s \in Slots : Request(s) \/ PostHandler(s) \/ RunCallback(s)
    BY <1>1, LifeRequest, LifePost, LifeCallback
  <1>2. CASE RedisServe
    BY <1>2, LifeServe
  <1>3. CASE \E b \in Browsers : Logout(b)
    BY <1>3, LifeElse DEF Logout, redisLink, mailState
  <1>4. CASE WriteFile
    <2>1. writes # {}
      BY <1>4 DEF WriteFile
    <2>2. admin.pc = "idle"
      BY <2>1 DEF LifeInv, TurnInv
    <2> QED BY <1>4, <2>2, LifeElse DEF WriteFile, redisLink, webState
  <1>5. CASE \E op \in AdminOps : AdminStart(op)
    BY <1>5, LifeAdminStart
  <1>6. CASE AdminStep
    BY <1>6, LifeAdmin
  <1>7. CASE Tick
    BY <1>7, LifeElse DEF Tick, redisLink, webState, mailState
  <1>8. CASE Idle \/ UNCHANGED vars
    BY <1>8, LifeElse DEF Idle, vars
  <1> QED BY <1>1, <1>2, <1>3, <1>4, <1>5, <1>6, <1>7, <1>8 DEF Next

\* What a handler has read is true when it acts, in every reachable state.
LEMMA LifeHolds == ASSUME Overlap = "none" PROVE Spec => []LifeInv
  <1>1. Init => LifeInv
    <2> SUFFICES ASSUME Init PROVE LifeInv
      OBVIOUS
    <2>1. /\ Len(pipe) = 0 /\ Len(replies) = 0 /\ pipe = <<>> /\ replies = <<>>
          /\ admin.pc = "idle" /\ admin.op = "none" /\ \A s \in Slots : reqs[s].pc = "free"
      BY DEF Init, NoReq, NoAdmin
    <2>2. TurnInv
      BY <2>1 DEF TurnInv, Free, Acting
    <2>3. ReadInv
      BY <2>1 DEF ReadInv, Later
    <2>4. QueueInv
      BY <2>1 DEF QueueInv, Queue, Orderly, Addressed, Decided, Filled
    <2>5. FormInv
      BY <2>1 DEF FormInv, StoresMail
    <2> QED BY <2>2, <2>3, <2>4, <2>5 DEF LifeInv
  <1>2. Inv /\ CallbackMatched /\ LifeInv /\ [Next]_vars => LifeInv'
    BY LifeNextStep
  <1> QED BY <1>1, <1>2, InvHolds, CallbacksMatched, PTL DEF Spec

-----------------------------------------------------------------------------
(* Links.                                                                  *)

\* Only the last callback of its route answers a clicked link.
LEMMA AnsweredLink ==
  ASSUME Inv, CallbackMatched, OwnInv, [Next]_vars, NEW s \in Slots, NEW b,
         NEW kind \in {"verify", "new_password"}, Answered(s, b, kind)
  PROVE IF kind = "verify" THEN VerifyTimestamp(s) ELSE NewPasswordFlag(s)
  <1>1. /\ reqs[s].kind = kind /\ ~Free(s) /\ reqs'[s].pc = "free"
        /\ kind = "verify" => reqs[s].pc \in {"verify_valid", "verify_timestamp"}
        /\ kind = "new_password" => reqs[s].pc \in {"new_password_valid", "new_password_timestamp",
                                                    "new_password_flag"}
    BY DEF Answered, Free, OwnInv, KindOK
  <1>2. reqs \in [Slots -> Requests]
    BY DEF Inv, ReqInv
  <1>3. ReqInv
    BY DEF Inv
  <1>4. reqs'[s].pc # reqs[s].pc
    BY <1>1 DEF Free
  <1>5. ASSUME NEW t \in Slots, NEW pc, Moves(t, pc) PROVE t = s /\ pc = "free"
    BY <1>1, <1>4, <1>5 DEF Moves
  <1>6. ASSUME NEW t \in Slots, Request(t) PROVE FALSE
    <2>1. \E c, k, pc, form : pc # "free" /\ Arrive(t, c, k, pc, form)
      BY <1>6 DEF Request, ReceivePost, Secure, Verify, ShowMail, NewPassword
    <2> QED BY <1>3, <1>5, <2>1, MoveFacts
  <1>7. ASSUME NEW t \in Slots, PostHandler(t) PROVE FALSE
    <2>1. reqs[t].pc = "body"
      BY <1>7 DEF PostHandler, Login, UpdateMail, UpdatePassword, PostNewPassword, SetPassword,
         CreateUser, VerifyMail, ResetPassword, Handler
    <2>2. \E pc : Moves(t, pc)
      <3>1. (\E pc, sess : Await(t, pc, sess)) \/ (\E sess : Answer(t, sess))
        BY <1>7 DEF PostHandler, Login, UpdateMail, UpdatePassword, PostNewPassword, SetPassword,
           CreateUser, VerifyMail, ResetPassword
      <3> QED BY <1>3, <3>1, MoveFacts
    <2> QED BY <1>1, <1>5, <2>1, <2>2
  <1>8. ASSUME NEW t \in Slots, RunCallback(t)
        PROVE IF kind = "verify" THEN VerifyTimestamp(s) ELSE NewPasswordFlag(s)
    <2>1. \A cb : Callback(t, cb) => reqs[t].pc = cb
      BY RestCallback
    <2>2. ASSUME NEW cb, Callback(t, cb), NEW sess, Answer(t, sess)
          PROVE t = s /\ reqs[s].pc = cb
      BY <1>3, <1>5, <2>1, <2>2, MoveFacts
    <2>3. ASSUME NEW pc, pc # "free", NEW sess, Await(t, pc, sess) PROVE FALSE
      BY <1>3, <1>5, <2>3, MoveFacts
    <2>4. CASE LoginPassword(t)
      BY <1>1, <2>2, <2>3, <2>4 DEF LoginPassword
    <2>5. CASE LoginValid(t) \/ ShowMailLink(t) \/ ResetValid(t) \/ CreateUserKeys(t)
      BY <1>1, <2>2, <2>5 DEF LoginValid, ShowMailLink, ResetValid, CreateUserKeys
    <2>6. CASE KeepValid(t)
      BY <2>3, <2>6 DEF KeepValid, AfterValid
    <2>7. CASE Finish(t)
      BY <1>1, <2>2, <2>7 DEF Finish
    <2>8. CASE VerifyTimestamp(t)
      BY <1>1, <2>2, <2>8 DEF VerifyTimestamp
    <2>9. CASE ResetMail(t)
      BY <1>1, <2>2, <2>3, <2>9 DEF ResetMail
    <2>10. CASE NewPasswordTimestamp(t)
      <3>1. reqs[t] \in Requests
        BY <1>2
      <3>2. [reqs[t] EXCEPT !.pc = "new_password_flag", !.ts = Reply].pc = "new_password_flag"
        BY <3>1 DEF Requests
      <3>3. Moves(t, "new_password_flag")
        BY <1>2, <2>10, <3>2 DEF NewPasswordTimestamp, Moves
      <3> QED BY <1>5, <3>3
    <2>11. CASE NewPasswordFlag(t)
      BY <1>1, <2>2, <2>11 DEF NewPasswordFlag
    <2> QED BY <1>8, <2>4, <2>5, <2>6, <2>7, <2>8, <2>9, <2>10, <2>11 DEF RunCallback
  <1>9. ~UNCHANGED reqs
    BY <1>4
  <1>10. \E t \in Slots : Request(t) \/ PostHandler(t) \/ RunCallback(t)
    BY <1>9 DEF Next, Logout, RedisServe, WriteFile, AdminStart, AdminStep, Tick, Idle, vars, webState
  <1> QED BY <1>6, <1>7, <1>8, <1>10

\* The part of LinkActsOnItsUser about one step.
ActsOnItsUser(s, b) ==
  /\ Answered(s, b, "new_password") /\ out'.page = "accept_password" =>
       sessions'[b].user = reqs[s].uid
  /\ Answered(s, b, "verify") /\ out'.page = "success" =>
       pipe' = Append(pipe, HSetOnly(reqs[s].uid, "valid", "True"))

\* When requests are served one by one, an accepted reset link opens the session
\* of the user it was issued for, and a confirmation is recorded for the user
\* whose link was clicked, although routes.js passes both names on in a global.
THEOREM LinksActOnTheirUsers ==
  ASSUME Overlap = "none" PROVE Spec => LinkActsOnItsUser
  <1>1. ASSUME Inv, CallbackMatched, OwnInv, LifeInv, [Next]_vars,
               NEW s \in Slots, NEW b \in Browsers
        PROVE ActsOnItsUser(s, b)
    <2>1. ASSUME Answered(s, b, "new_password"), out'.page = "accept_password"
          PROVE sessions'[b].user = reqs[s].uid
      <3>1. NewPasswordFlag(s)
        BY <1>1, <2>1, AnsweredLink
      <3>2. Callback(s, "new_password_flag") /\ reqs[s].pc = "new_password_flag"
        BY <1>1, <3>1, RestCallback DEF NewPasswordFlag
      <3>3. gUser = reqs[s].uid
        BY <1>1, <3>2 DEF LifeInv, TurnInv, Acting
      <3>4. Answer(s, Accepted(reqs[s].sess))
        BY <2>1, <3>1 DEF NewPasswordFlag, LinkPage
      <3>5. reqs[s].br = b /\ sessions'[b] = Accepted(reqs[s].sess)
        BY <1>1, <2>1, <3>4 DEF Answered, Answer, Inv, SessInv
      <3>6. Accepted(reqs[s].sess).user = gUser
        BY <1>1, RequestFacts DEF Accepted, Inv, Sessions
      <3> QED BY <3>3, <3>5, <3>6
    <2>2. ASSUME Answered(s, b, "verify"), out'.page = "success"
          PROVE pipe' = Append(pipe, HSetOnly(reqs[s].uid, "valid", "True"))
      <3>1. VerifyTimestamp(s)
        BY <1>1, <2>2, AnsweredLink
      <3>2. Callback(s, "verify_timestamp") /\ reqs[s].pc = "verify_timestamp"
        BY <1>1, <3>1, RestCallback DEF VerifyTimestamp
      <3>3. gUser = reqs[s].uid
        BY <1>1, <3>2 DEF LifeInv, TurnInv, Acting
      <3> DEFINE c == HSetOnly(reqs[s].uid, "valid", "True")
      <3>4. pipe' = pipe \o <<c>>
        BY <2>2, <3>1, <3>3 DEF VerifyTimestamp, LinkPage, Send
      <3>5. pipe \in Seq(Commands \cup {c}) /\ c \in Commands \cup {c}
        BY <1>1 DEF Inv, PipeInv
      <3> HIDE DEF c
      <3>6. pipe \o <<c>> = Append(pipe, c)
        BY <3>5
      <3> QED BY <3>4, <3>6 DEF c
    <2> QED BY <2>1, <2>2 DEF ActsOnItsUser
  <1>2. Inv /\ CallbackMatched /\ OwnInv /\ LifeInv /\ [Next]_vars =>
          \A s \in Slots, b \in Browsers : ActsOnItsUser(s, b)
    BY <1>1
  <1>3. Spec => []OwnInv
    BY OwnHolds
  <1>4. Spec => []LifeInv
    BY LifeHolds
  <1> QED BY <1>2, <1>3, <1>4, InvHolds, CallbacksMatched, PTL
          DEF Spec, LinkActsOnItsUser, ActsOnItsUser

-----------------------------------------------------------------------------
(* The life cycle of the accounts.                                         *)

\* How an account counts whose confirmation is not being withdrawn.
ConfView(v) ==
  CASE v = "False" -> "pending"
    [] v = "True" -> "confirmed"
    [] OTHER -> "none"

ResetView(v) ==
  CASE v = "True" -> "open"
    [] v = "False" -> "closed"
    [] OTHER -> "none"

\* Field f is stored for no account, or for k at most.
Kept(f) == \A j \in Keys : db'[j][f] = db[j][f]
Touched(k, f) == \A j \in Keys \ {k} : db'[j][f] = db[j][f]

\* The mapped variables change only with the fields they are mapped from.
LEMMA ViewsKept ==
  /\ Kept("valid") /\ (\A j \in Keys : Withdrawing(j)' = Withdrawing(j)) => UNCHANGED confOf
  /\ Kept("mail") => UNCHANGED addrOf
  /\ Kept("new_password") => UNCHANGED resetOf
  BY DEF Kept, confOf, addrOf, resetOf

\* How an account counts after a step.
LEMMA ConfChanged ==
  ASSUME NEW k \in Keys, Touched(k, "valid"),
         \A j \in Keys \ {k} : Withdrawing(j)' = Withdrawing(j)
  PROVE /\ Withdrawing(k)' => confOf' = [confOf EXCEPT ![k] = "pending"]
        /\ ~Withdrawing(k)' => confOf' = [confOf EXCEPT ![k] = ConfView(db'[k]["valid"])]
  BY DEF Touched, confOf, ConfView

\* Its address.
LEMMA AddrChanged ==
  ASSUME NEW k \in Keys, Touched(k, "mail")
  PROVE addrOf' = [addrOf EXCEPT ![k] = db'[k]["mail"]]
  BY DEF Touched, addrOf

\* Its password reset.
LEMMA ResetChanged ==
  ASSUME NEW k \in Keys, Touched(k, "new_password")
  PROVE resetOf' = [resetOf EXCEPT ![k] = ResetView(db'[k]["new_password"])]
  BY DEF Touched, resetOf, ResetView

\* HSET stores one field of one account.
LEMMA HSetTouches ==
  ASSUME Inv, NEW k \in Keys, NEW f \in Fields, NEW v, db' = HSet(db, k, f, v)
  PROVE /\ \A g \in Fields : g # f => Kept(g)
        /\ Touched(k, f) /\ db'[k][f] = v
  BY DEF HSet, Kept, Touched, Inv, DbInv

\* Redis serves a command: the account takes one step of its life cycle, or the
\* command does not concern it.
LEMMA ServeRefines ==
  ASSUME PlainNames, Inv, LifeInv, WithdrawnInv, RedisServe
  PROVE [Lifecycle!LifeNext]_<<confOf, addrOf, resetOf>>
  <1> DEFINE c == Head(pipe)
             k == c.key
  <1>1. /\ pipe \in Seq(Commands) /\ pipe # <<>> /\ db' = Store(c) /\ admin' = admin
        /\ 1 \in 1..Len(pipe) /\ c = pipe[1] /\ c \in Commands
    BY DEF RedisServe, Inv, PipeInv
  <1>2. \A j \in Keys : ~Withdrawing(j) /\ Withdrawing(j)' = Withdrawing(j)
    <2>1. admin.pc = "idle"
      BY <1>1 DEF LifeInv, TurnInv
    <2> QED BY <1>1, <2>1 DEF Withdrawing
  <1>3. \A j \in Keys : confOf[j] = ConfView(db[j]["valid"])
                          /\ resetOf[j] = ResetView(db[j]["new_password"])
    BY <1>2 DEF confOf, resetOf, ConfView, ResetView
  <1>4. CASE c.op # "hset"
    <2>1. db' = db
      BY <1>1, <1>4 DEF Store
    <2> QED BY <1>2, <2>1, ViewsKept DEF Kept
  <1>5. CASE c.op = "hset"
    <2>1. k \in Keys /\ c.field \in Fields /\ c.val \in FieldValues(c.field)
      BY <1>1, <1>5 DEF Commands, RawCommands, CommandOK
    <2>2. db' = HSet(db, k, c.field, c.val)
      BY <1>1, <1>5 DEF Store
    <2>3. /\ \A g \in Fields : g # c.field => Kept(g)
          /\ Touched(k, c.field) /\ db'[k][c.field] = c.val
      BY <2>1, <2>2, HSetTouches
    <2>4. /\ c.field \in {"valid", "mail", "new_password"} => c.val # Null
          /\ Conditional(c) => Met(db, c)
      BY <1>1, <1>5 DEF LifeInv, QueueInv, Queue, Filled, FilledCmd, Decided
    <2> HIDE DEF c
    <2>5. CASE c.field = "valid"
      <3>1. UNCHANGED <<addrOf, resetOf>>
        BY <2>3, <2>5, ViewsKept DEF Fields
      <3>2. confOf' = [confOf EXCEPT ![k] = ConfView(c.val)]
        BY <1>2, <2>1, <2>3, <2>5, ConfChanged
      <3>3. CASE c.val = "False"
        <4>1. Lifecycle!Withdraw(k)
          BY <3>1, <3>2, <3>3 DEF Lifecycle!Withdraw, ConfView
        <4> QED BY <2>1, <4>1 DEF Lifecycle!LifeNext
      <3>4. CASE c.val = "True"
        <4>1. db[k]["valid"] = "False"
          BY <1>5, <2>4, <2>5, <3>4 DEF Conditional, Met
        <4>2. Lifecycle!Confirm(k)
          BY <1>3, <2>1, <3>1, <3>2, <3>4, <4>1 DEF Lifecycle!Confirm, ConfView
        <4> QED BY <2>1, <4>2 DEF Lifecycle!LifeNext
      <3>5. c.val \in {"True", "False"}
        BY <2>1, <2>4, <2>5, FieldFacts DEF Flags
      <3> QED BY <3>3, <3>4, <3>5
    <2>6. CASE c.field = "mail"
      <3>1. UNCHANGED <<confOf, resetOf>>
        BY <1>2, <2>3, <2>6, ViewsKept DEF Fields
      <3>2. c.val \in Mails /\ addrOf' = [addrOf EXCEPT ![k] = c.val]
        BY <2>1, <2>3, <2>4, <2>6, FieldFacts, AddrChanged
      <3>3. db[k]["valid"] # "True"
        <4>1. CASE c.cb = "update_mail"
          BY <1>1, <4>1 DEF WithdrawnInv, Withdrawn, c
        <4>2. CASE c.cb # "update_mail"
          BY <1>5, <2>4, <2>6, <4>2 DEF Conditional, Met
        <4> QED BY <4>1, <4>2
      <3>4. Lifecycle!ChangeAddress(k)
        BY <1>3, <2>1, <3>1, <3>2, <3>3 DEF Lifecycle!ChangeAddress, ConfView
      <3> QED BY <2>1, <3>4 DEF Lifecycle!LifeNext
    <2>7. CASE c.field = "new_password"
      <3>1. UNCHANGED <<confOf, addrOf>>
        BY <1>2, <2>3, <2>7, ViewsKept DEF Fields
      <3>2. resetOf' = [resetOf EXCEPT ![k] = ResetView(c.val)]
        BY <2>1, <2>3, <2>7, ResetChanged
      <3>3. CASE c.val = "True"
        <4>1. db[k]["valid"] = "True"
          BY <1>5, <2>4, <2>7, <3>3 DEF Conditional, Met
        <4>2. Lifecycle!OpenReset(k)
          BY <1>3, <2>1, <3>1, <3>2, <3>3, <4>1 DEF Lifecycle!OpenReset, ConfView, ResetView
        <4> QED BY <2>1, <4>2 DEF Lifecycle!LifeNext
      <3>4. CASE c.val = "False"
        <4>1. db[k]["new_password"] = "True"
          BY <1>5, <2>4, <2>7, <3>4 DEF Conditional, Met
        <4>2. Lifecycle!CloseReset(k)
          BY <1>3, <2>1, <3>1, <3>2, <3>4, <4>1 DEF Lifecycle!CloseReset, ResetView
        <4> QED BY <2>1, <4>2 DEF Lifecycle!LifeNext
      <3>5. c.val \in {"True", "False"}
        BY <2>1, <2>4, <2>7, FieldFacts DEF Flags
      <3> QED BY <3>3, <3>4, <3>5
    <2>8. CASE c.field \notin {"valid", "mail", "new_password"}
      BY <1>2, <2>3, <2>8, ViewsKept DEF Fields
    <2> QED BY <2>5, <2>6, <2>7, <2>8
  <1> QED BY <1>4, <1>5

\* A step of admin.py: -m withdraws the confirmation when it has found the
\* account, -c and -m store an address, -d removes the account.
LEMMA AdminRefines ==
  ASSUME PlainNames, "admin" \notin Faults, Inv, LifeInv, AdminStep
  PROVE [Lifecycle!LifeNext]_<<confOf, addrOf, resetOf>>
  <1>0. PICK k \in Keys : k = admin.uid
    BY DEF Inv, AdminInv, AdminCalls
  <1>1. admin \in AdminCalls /\ k \in Keys /\ k = admin.uid /\ db \in [Keys -> [Fields -> Values]]
    BY <1>0 DEF Inv, AdminInv, AdminCalls, DbInv
  <1>2. /\ NoAdmin.pc = "idle" /\ NoAdmin.op = "none"
        /\ \A pc : [admin EXCEPT !.pc = pc].pc = pc /\ [admin EXCEPT !.pc = pc].op = admin.op
                   /\ [admin EXCEPT !.pc = pc].uid = k
        /\ \A pc, ts : [admin EXCEPT !.pc = pc, !.ts = ts].pc = pc
                   /\ [admin EXCEPT !.pc = pc, !.ts = ts].op = admin.op
                   /\ [admin EXCEPT !.pc = pc, !.ts = ts].uid = k
    BY <1>1 DEF AdminCalls, NoAdmin
  <1>4. CASE AdminKeys
    <2>1. db' = db /\ admin.pc = "keys"
      BY <1>4 DEF AdminKeys
    <2>2. UNCHANGED <<addrOf, resetOf>> /\ Kept("valid") /\ Touched(k, "valid")
      BY <2>1, ViewsKept DEF Kept, Touched
    <2>3. CASE admin' = NoAdmin
      <3>1. \A j \in Keys : Withdrawing(j)' = Withdrawing(j)
        BY <1>2, <2>1, <2>3 DEF Withdrawing
      <3> QED BY <2>2, <3>1, ViewsKept
    <2>4. CASE admin' = [admin EXCEPT !.pc = IF admin.op = "-m" THEN "mail" ELSE "password"]
      <3>1. CASE admin.op = "-m"
        <4>1. /\ \A j \in Keys \ {k} : Withdrawing(j)' = Withdrawing(j)
              /\ Withdrawing(k)'
          BY <1>1, <1>2, <2>1, <2>4, <3>1 DEF Withdrawing
        <4>2. confOf' = [confOf EXCEPT ![k] = "pending"]
          BY <1>1, <2>2, <4>1, ConfChanged
        <4>3. Lifecycle!Withdraw(k)
          BY <2>2, <4>2 DEF Lifecycle!Withdraw
        <4> QED BY <1>1, <4>3 DEF Lifecycle!LifeNext
      <3>2. CASE admin.op # "-m"
        <4>1. \A j \in Keys : Withdrawing(j)' = Withdrawing(j)
          BY <1>2, <2>1, <2>4, <3>2 DEF Withdrawing
        <4> QED BY <2>2, <4>1, ViewsKept
      <3> QED BY <3>1, <3>2
    <2> QED BY <1>4, <2>3, <2>4 DEF AdminKeys
  <1>5. CASE AdminPassword
    <2>1. Kept("valid") /\ Kept("mail") /\ Kept("new_password")
      BY <1>1, <1>5, HSetTouches DEF AdminPassword, Fields
    <2>2. admin.op # "-m" /\ admin'.op # "-m"
      BY <1>2, <1>5 DEF AdminPassword, LifeInv, FormInv
    <2>3. \A j \in Keys : Withdrawing(j)' = Withdrawing(j)
      BY <2>2 DEF Withdrawing
    <2> QED BY <2>1, <2>3, ViewsKept
  <1>6. CASE AdminMail
    <2>1. Kept("valid") /\ Kept("new_password") /\ Touched(k, "mail") /\ db'[k]["mail"] = admin.mail
      BY <1>1, <1>6, HSetTouches DEF AdminMail, Fields
    <2>2. \A j \in Keys : Withdrawing(j)' = Withdrawing(j)
      BY <1>1, <1>2, <1>6 DEF AdminMail, Withdrawing
    <2>3. UNCHANGED <<confOf, resetOf>>
      BY <2>1, <2>2, ViewsKept
    <2>4. admin.op \in {"-c", "-m"} /\ admin.mail \in Mails
      BY <1>1, <1>6 DEF AdminMail, LifeInv, FormInv, AdminCalls
    <2>5. addrOf' = [addrOf EXCEPT ![k] = admin.mail]
      BY <1>1, <2>1, AddrChanged
    <2>6. confOf[k] # "confirmed"
      <3>1. CASE admin.op = "-m"
        <4>1. Withdrawing(k)
          BY <1>1, <1>6, <3>1 DEF AdminMail, Withdrawing
        <4> QED BY <1>1, <4>1 DEF confOf
      <3>2. CASE admin.op = "-c"
        <4>1. db[k]["valid"] # "True"
          BY <1>1, <1>6, <3>2 DEF AdminMail, LifeInv, FormInv
        <4> QED BY <1>1, <4>1 DEF confOf
      <3> QED BY <2>4, <3>1, <3>2
    <2>7. Lifecycle!ChangeAddress(k)
      BY <2>3, <2>4, <2>5, <2>6 DEF Lifecycle!ChangeAddress
    <2> QED BY <1>1, <2>7 DEF Lifecycle!LifeNext
  <1>7. CASE AdminTimestamp
    <2>1. Kept("valid") /\ Kept("mail") /\ Kept("new_password")
      BY <1>1, <1>7, HSetTouches DEF AdminTimestamp, Fields
    <2>2. \A j \in Keys : Withdrawing(j)' = Withdrawing(j)
      BY <1>1, <1>2, <1>7 DEF AdminTimestamp, Withdrawing
    <2> QED BY <2>1, <2>2, ViewsKept
  <1>8. CASE AdminValid
    <2>1. Kept("mail") /\ Kept("new_password") /\ Touched(k, "valid") /\ db'[k]["valid"] = "False"
      BY <1>1, <1>8, HSetTouches DEF AdminValid, Fields
    <2>2. \A j \in Keys \ {k} : Withdrawing(j)' = Withdrawing(j)
      BY <1>1, <1>2, <1>8 DEF AdminValid, Withdrawing
    <2>3. confOf' = [confOf EXCEPT ![k] = "pending"]
      BY <1>1, <2>1, <2>2, ConfChanged DEF ConfView
    <2>4. Lifecycle!Withdraw(k)
      BY <2>1, <2>3, ViewsKept DEF Lifecycle!Withdraw
    <2> QED BY <1>1, <2>4 DEF Lifecycle!LifeNext
  <1>9. CASE AdminFile
    <2>1. Kept("valid") /\ Kept("mail") /\ Kept("new_password")
      BY <1>9 DEF AdminFile, Kept
    <2>2. \A j \in Keys : Withdrawing(j)' = Withdrawing(j)
      BY <1>2, <1>9 DEF AdminFile, Withdrawing
    <2> QED BY <2>1, <2>2, ViewsKept
  <1>10. CASE AdminDelete
    <2>1. /\ \A f \in Fields : Touched(k, f) /\ db'[k][f] = Null
      BY <1>1, <1>10 DEF AdminDelete, Del, Touched
    <2>2. \A j \in Keys : ~Withdrawing(j)' /\ Withdrawing(j)' = Withdrawing(j)
      BY <1>2, <1>10 DEF AdminDelete, Withdrawing, LifeInv, FormInv
    <2>3. confOf' = [confOf EXCEPT ![k] = "none"]
      BY <1>1, <2>1, <2>2, ConfChanged, StoreAssumption DEF ConfView, Fields
    <2>4. addrOf' = [addrOf EXCEPT ![k] = Null]
      BY <1>1, <2>1, AddrChanged DEF Fields
    <2>5. resetOf' = [resetOf EXCEPT ![k] = "none"]
      BY <1>1, <2>1, ResetChanged, StoreAssumption DEF ResetView, Fields
    <2>6. Lifecycle!Remove(k)
      BY <2>3, <2>4, <2>5 DEF Lifecycle!Remove
    <2> QED BY <1>1, <2>6 DEF Lifecycle!LifeNext
  <1> QED BY <1>4, <1>5, <1>6, <1>7, <1>8, <1>9, <1>10 DEF AdminStep, AdminAborts

\* Every step of the system is a step of an account's life cycle or leaves the
\* accounts as they are.
LEMMA StepRefines ==
  ASSUME Overlap = "none", PlainNames, "admin" \notin Faults,
         Inv, LifeInv, WithdrawnInv, [Next]_vars
  PROVE [Lifecycle!LifeNext]_<<confOf, addrOf, resetOf>>
  <1>1. ASSUME UNCHANGED <<db, admin>> PROVE UNCHANGED <<confOf, addrOf, resetOf>>
    BY <1>1 DEF confOf, addrOf, resetOf, Withdrawing
  <1>2. CASE \E s \in Slots : Request(s) \/ PostHandler(s) \/ RunCallback(s)
    BY <1>1, <1>2 DEF Request, PostHandler, RunCallback
  <1>3. CASE RedisServe
    BY <1>3, ServeRefines
  <1>4. CASE \E b \in Browsers : Logout(b)
    BY <1>1, <1>4 DEF Logout
  <1>5. CASE WriteFile
    BY <1>1, <1>5 DEF WriteFile
  <1>6. CASE \E op \in AdminOps : AdminStart(op)
    <2>1. db' = db /\ admin.pc = "idle" /\ admin'.pc \in {"delete", "keys"}
      BY <1>6 DEF AdminStart, MayAdminister
    <2>2. \A j \in Keys : Withdrawing(j)' = Withdrawing(j)
      BY <2>1 DEF Withdrawing
    <2> QED BY <2>1, <2>2, ViewsKept DEF Kept
  <1>7. CASE AdminStep
    BY <1>7, AdminRefines
  <1>8. CASE Tick
    BY <1>1, <1>8 DEF Tick
  <1>9. CASE Idle \/ UNCHANGED vars
    BY <1>1, <1>9 DEF Idle, vars
  <1> QED BY <1>2, <1>3, <1>4, <1>5, <1>6, <1>7, <1>8, <1>9 DEF Next

\* At the start every account is somewhere in its life cycle.
LEMMA InitRefines == Init => Lifecycle!LifeInit
  <1> SUFFICES ASSUME Init PROVE Lifecycle!LifeInit
    OBVIOUS
  <1>1. Inv
    BY InitInv
  <1>2. \A k \in Keys : db[k]["mail"] \in Mails \cup {Null}
    BY <1>1, FieldFacts DEF Inv, DbInv, Fields
  <1>3. \A k \in Keys : db[k]["new_password"] = Null
    BY DEF Init, Account, Fields
  <1>4. confOf \in [Keys -> {"none", "pending", "confirmed"}]
    BY DEF confOf
  <1>5. addrOf \in [Keys -> Mails \cup {Null}]
    BY <1>2 DEF addrOf
  <1>6. resetOf = [k \in Keys |-> "none"]
    BY <1>3, StoreAssumption DEF resetOf
  <1> QED BY <1>4, <1>5, <1>6 DEF Lifecycle!LifeInit

\* When requests and calls of admin.py are served one by one, admin.py is not
\* interrupted and no name contains a wildcard, every account goes through the
\* life cycle of AccountLifecycle: it is confirmed only while it waits for its
\* confirmation, its address never changes while it counts as confirmed, and a
\* password reset is opened only for a confirmed account and closed once.
THEOREM LifecycleImplemented ==
  ASSUME Overlap = "none", PlainNames, "admin" \notin Faults
  PROVE Spec => ImplementsLifecycle
  <1>1. Inv /\ LifeInv /\ WithdrawnInv /\ [Next]_vars =>
          [Lifecycle!LifeNext]_<<confOf, addrOf, resetOf>>
    BY StepRefines
  <1>2. Spec => []LifeInv
    BY LifeHolds
  <1> QED BY <1>1, <1>2, InitRefines, InvHolds, WithdrawnHolds, PTL
          DEF Spec, ImplementsLifecycle, Lifecycle!LifeSpec, Lifecycle!lifeVars
=============================================================================
