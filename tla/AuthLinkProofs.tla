--------------------------- MODULE AuthLinkProofs ---------------------------
(***************************************************************************)
(* When requests are served one by one, a link is accepted at most once,   *)
(* and a pending account always has a link that confirms it.               *)
(*                                                                         *)
(* Both are about what an account will be once the writes that wait in the *)
(* queue of the Redis connection are executed: a request is answered, and  *)
(* its link counted as used, before the data set knows of it.              *)
(***************************************************************************)
EXTENDS AuthLifecycleProofs

\* Command c stores field f of key k.
Writes(c, k, f) == c.op = "hset" /\ c.key = k /\ c.field = f

\* Field f of key k is v once queue q is executed on data set d: the last write
\* of it in the queue counts.
Ends(q, d, k, f, v) ==
  \/ d[k][f] = v /\ \A i \in 1..Len(q) : ~Writes(q[i], k, f)
  \/ \E i \in 1..Len(q) :
       /\ Writes(q[i], k, f) /\ q[i].val = v
       /\ \A j \in 1..Len(q) : i < j => ~Writes(q[j], k, f)

Becomes(k, f, v) == Ends(pipe, db, k, f, v)

\* The callbacks of a clicked link.
VerifySteps == {"verify_valid", "verify_timestamp"}
ResetSteps == {"new_password_valid", "new_password_timestamp", "new_password_flag"}

\* Links that reset a password carry a time of the server that is not ahead of
\* its clock.
Issued(t) == t.src = "node" /\ t.at \in 0..now
Timely(l) == l.kind = "new_password" => Issued(l.tok)
TimelyOrNull(l) == l # Null => Timely(l)
TimelyCmd(c) == Writes(c, c.key, "link") => TimelyOrNull(c.val)

\* So do all links wherever they are kept.
LinkInv ==
  /\ \A l \in seen \cup used : Timely(l)
  /\ \A w \in writes : Timely(w.link)
  /\ \A k \in Keys : TimelyOrNull(db[k]["link"])
  /\ \A i \in 1..Len(pipe) : TimelyCmd(pipe[i])
  /\ \A i \in 1..Len(replies) : replies[i].cb = "show_mail" => TimelyOrNull(replies[i].val)

\* While a clicked link is examined, the global `token` of routes.js is the
\* token of the link, and the timestamp that was read is still stored.
ClickInv ==
  \A s \in Slots :
    /\ reqs[s].pc \in VerifySteps \cup ResetSteps => gToken = reqs[s].tok
    /\ reqs[s].pc \in ResetSteps => Issued(reqs[s].tok)
    /\ reqs[s].pc = "new_password_flag" => reqs[s].ts = db[reqs[s].uid]["timestamp"]

\* The link that would confirm the account, and the one that would reset its
\* password, have not been used since they were issued.
VerifyUnused(k) ==
  Becomes(k, "valid", "False") =>
    \A v : Becomes(k, "timestamp", v) => Link("verify", k, v) \notin used
ResetUnused(k) ==
  Becomes(k, "new_password", "True") =>
    /\ Link("new_password", k, NodeTime) \notin used
    /\ \A v : Becomes(k, "timestamp", v) => Link("new_password", k, v) \notin used

UsedAccounts == \A k \in Keys : VerifyUnused(k) /\ ResetUnused(k)

\* The link of the running call of admin.py.
UsedAdmin ==
  /\ admin.pc \in {"timestamp", "valid", "file"} => admin.ts.src = "admin"
  /\ admin.pc \in {"valid", "file"} => db[admin.uid]["timestamp"] = admin.ts
  /\ admin.pc = "valid" => Link("verify", admin.uid, admin.ts) \notin used

UsedInv == UsedAccounts /\ UsedAdmin

OnceInv == LinkInv /\ ClickInv /\ UsedInv

\* The mail file of k holds link l, or will when the pending write completes.
Mailed(k, l) ==
  LET pending == {w \in writes : w.key = k /\ w.box = "mail"} IN
  \/ \E w \in pending : w.link = l
  \/ pending = {} /\ files[k]["mail"] = l

\* The link of a pending account is in its mail file or on its page; admin.py
\* writes the file last.
Offered(k) ==
  Becomes(k, "valid", "False") /\ ~(admin.uid = k /\ admin.pc \in {"valid", "file"}) =>
    \A v : Becomes(k, "timestamp", v) =>
      \/ Becomes(k, "link", Link("verify", k, v))
      \/ Mailed(k, Link("verify", k, v))

\* One file is written at a time, and while it is no request but the one that
\* issued the mail goes on.
WriteTurn ==
  /\ \A s \in Slots : reqs[s].pc \notin {"free", "update_mail"} => writes = {}
  /\ \A w, x \in writes : w = x

OfferInv == WriteTurn /\ \A k \in Keys : Offered(k)

-----------------------------------------------------------------------------
(* The queue.                                                              *)

\* A command joins the queue.
LEMMA EndsAppend ==
  ASSUME NEW E, NEW q \in Seq(E), NEW c, NEW d, NEW k, NEW f, NEW v
  PROVE Ends(Append(q, c), d, k, f, v) <=>
          IF Writes(c, k, f) THEN c.val = v ELSE Ends(q, d, k, f, v)
  <1> DEFINE new == Append(q, c)
             n == Len(q)
  <1>1. q \in Seq(E \cup {c}) /\ c \in E \cup {c}
    OBVIOUS
  <1>2. /\ n \in Nat /\ Len(new) = n + 1
        /\ new[n + 1] = c
        /\ \A i \in 1..n : new[i] = q[i]
        /\ \A i \in 1..(n + 1) : i \in 1..n \/ i = n + 1
        /\ \A i \in 1..n : i \in 1..(n + 1) /\ i < n + 1 /\ ~(n + 1 < i)
        /\ n + 1 \in 1..(n + 1)
    BY <1>1
  <1>3. ASSUME Writes(c, k, f) PROVE Ends(new, d, k, f, v) <=> c.val = v
    <2> HIDE DEF new, n
    <2>1. \A i \in 1..(n + 1) : ~(n + 1 < i)
      BY <1>2
    <2> QED BY <1>2, <1>3, <2>1 DEF Ends
  <1>4. ASSUME ~Writes(c, k, f) PROVE Ends(new, d, k, f, v) <=> Ends(q, d, k, f, v)
    <2>1. Len(new) = n + 1 /\ Len(q) = n
      BY <1>2
    <2> HIDE DEF new, n
    <2>2. \A i \in 1..(n + 1) : Writes(new[i], k, f) => i \in 1..n /\ new[i] = q[i]
      BY <1>2, <1>4
    <2>3. \A i \in 1..n : i \in 1..(n + 1) /\ new[i] = q[i]
      BY <1>2
    <2> QED BY <2>1, <2>2, <2>3 DEF Ends
  <1> QED BY <1>3, <1>4

\* Redis serves the oldest command.
LEMMA EndsServe ==
  ASSUME Inv, pipe # <<>>, NEW k \in Keys, NEW f \in Fields, NEW v
  PROVE Ends(Tail(pipe), Store(Head(pipe)), k, f, v) <=> Ends(pipe, db, k, f, v)
  <1> DEFINE q == pipe
             c == Head(pipe)
             t == Tail(pipe)
             n == Len(pipe)
  <1>1. pipe \in Seq(Commands) /\ db \in [Keys -> [Fields -> Values]]
    BY DEF Inv, PipeInv, DbInv
  <1>2. /\ n \in Nat /\ n >= 1 /\ Len(q) = n /\ Len(t) = n - 1
        /\ c = q[1] /\ c \in Commands
        /\ \A i \in 1..(n - 1) : t[i] = q[i + 1]
    BY <1>1
  <1>3. c.key \in Keys /\ (c.op = "hset" => c.field \in Fields)
    BY <1>2 DEF Commands, RawCommands, CommandOK
  <1>4. /\ Writes(c, k, f) => Store(c)[k][f] = c.val
        /\ ~Writes(c, k, f) => Store(c)[k][f] = db[k][f]
    BY <1>1, <1>3 DEF Store, HSet, Writes
  <1> SUFFICES Ends(t, Store(c), k, f, v) <=> Ends(q, db, k, f, v)
    OBVIOUS
  <1> HIDE DEF q, c, t, n
  <1>5. /\ \A i \in 1..(n - 1) : i + 1 \in 1..n /\ 1 < i + 1 /\ t[i] = q[i + 1]
        /\ \A i \in 1..n : i # 1 => i - 1 \in 1..(n - 1) /\ q[i] = t[i - 1]
        /\ \A i \in 1..n : 1 < i <=> i # 1
        /\ 1 \in 1..n
    BY <1>2
  <1>6. (\A i \in 1..(n - 1) : ~Writes(t[i], k, f)) <=> (\A i \in 1..n : 1 < i => ~Writes(q[i], k, f))
    BY <1>5
  <1>7. (\E i \in 1..(n - 1) : /\ Writes(t[i], k, f) /\ t[i].val = v
                               /\ \A j \in 1..(n - 1) : i < j => ~Writes(t[j], k, f))
        <=> (\E i \in 1..n : /\ i # 1 /\ Writes(q[i], k, f) /\ q[i].val = v
                             /\ \A j \in 1..n : i < j => ~Writes(q[j], k, f))
    <2>1. ASSUME NEW i \in 1..(n - 1), \A j \in 1..(n - 1) : i < j => ~Writes(t[j], k, f),
                 NEW j \in 1..n, i + 1 < j
          PROVE ~Writes(q[j], k, f)
      <3>1. j # 1 /\ j - 1 \in 1..(n - 1) /\ i < j - 1
        BY <1>2, <2>1
      <3> QED BY <1>5, <2>1, <3>1
    <2>2. ASSUME NEW i \in 1..n, i # 1, \A j \in 1..n : i < j => ~Writes(q[j], k, f),
                 NEW j \in 1..(n - 1), i - 1 < j
          PROVE ~Writes(t[j], k, f)
      <3>1. j + 1 \in 1..n /\ i < j + 1
        BY <1>2, <2>2
      <3> QED BY <1>5, <2>2, <3>1
    <2> QED BY <1>5, <2>1, <2>2
  <1> DEFINE Later1 == \E i \in 1..n : /\ i # 1 /\ Writes(q[i], k, f) /\ q[i].val = v
                                       /\ \A j \in 1..n : i < j => ~Writes(q[j], k, f)
             Only1 == \A i \in 1..n : 1 < i => ~Writes(q[i], k, f)
  <1>8. Ends(t, Store(c), k, f, v) <=> (Store(c)[k][f] = v /\ Only1) \/ Later1
    BY <1>2, <1>6, <1>7 DEF Ends
  <1>9. Ends(q, db, k, f, v) <=>
          \/ db[k][f] = v /\ ~Writes(q[1], k, f) /\ Only1
          \/ Writes(q[1], k, f) /\ q[1].val = v /\ Only1
          \/ Later1
    <2>1. (\A i \in 1..n : ~Writes(q[i], k, f)) <=> ~Writes(q[1], k, f) /\ Only1
      BY <1>5
    <2>2. (\E i \in 1..n : /\ Writes(q[i], k, f) /\ q[i].val = v
                           /\ \A j \in 1..n : i < j => ~Writes(q[j], k, f))
            <=> (Writes(q[1], k, f) /\ q[1].val = v /\ Only1) \/ Later1
      BY <1>5
    <2> QED BY <1>2, <2>1, <2>2 DEF Ends
  <1> HIDE DEF Later1, Only1
  <1>10. CASE Writes(c, k, f)
    BY <1>2, <1>4, <1>8, <1>9, <1>10
  <1>11. CASE ~Writes(c, k, f)
    BY <1>2, <1>4, <1>8, <1>9, <1>11
  <1> QED BY <1>10, <1>11

\* Nothing in the queue changes the data set.
LEMMA EndsQuiet ==
  ASSUME NEW q, Quiet(q), NEW d, NEW k, NEW f, NEW v
  PROVE Ends(q, d, k, f, v) <=> d[k][f] = v
  BY DEF Quiet, Ends, Writes

-----------------------------------------------------------------------------
(* What the server's steps do to the accounts and links.                   *)

\* The fields that decide about links, and commands that leave them alone.
Watched == {"valid", "timestamp", "link", "new_password"}
Aside(c) == ~(c.op = "hset" /\ c.field \in Watched)

\* A step that changes neither these fields nor the links.
Uneventful ==
  /\ UNCHANGED <<used, writes>>
  /\ \/ UNCHANGED pipe
     \/ \E a : Aside(a) /\ Send(<<a>>)
     \/ \E a, b : Aside(a) /\ Aside(b) /\ Send(<<a, b>>)

\* The five steps that issue or accept a link; all others are uneventful.
LEMMA Events ==
  ASSUME NEW s \in Slots, Request(s) \/ PostHandler(s) \/ RunCallback(s)
  PROVE \/ UpdateMail(s)
        \/ VerifyMail(s)
        \/ VerifyTimestamp(s) /\ Confirms(s)
        \/ ResetValid(s) /\ MayReset(Reply)
        \/ NewPasswordFlag(s) /\ Accepts(s)
        \/ Uneventful
  <1>1. ASSUME UNCHANGED <<used, writes>>, UNCHANGED pipe PROVE Uneventful
    BY <1>1 DEF Uneventful
  <1>2. ASSUME UNCHANGED <<used, writes>>, NEW a, Aside(a), Send(<<a>>) PROVE Uneventful
    BY <1>2, Zenon DEF Uneventful
  <1>3. ASSUME UNCHANGED <<used, writes>>, NEW a, NEW b, Aside(a), Aside(b), Send(<<a, b>>)
        PROVE Uneventful
    BY <1>3, Zenon DEF Uneventful
  <1>4. ASSUME UNCHANGED <<used, writes>>, NEW k, NEW f, NEW t, NEW cb, Send(<<HGetCmd(k, f, t, cb)>>)
        PROVE Uneventful
    <2>1. Aside(HGetCmd(k, f, t, cb))
      BY CmdContents DEF Aside
    <2> QED BY <1>2, <1>4, <2>1, Zenon
  <1>5. ASSUME UNCHANGED <<used, writes>>, NEW k, NEW f, NEW g, NEW t, NEW cb, NEW cc,
               Send(<<HGetCmd(k, f, t, cb), HGetCmd(k, g, t, cc)>>)
        PROVE Uneventful
    <2>1. Aside(HGetCmd(k, f, t, cb)) /\ Aside(HGetCmd(k, g, t, cc))
      BY CmdContents DEF Aside
    <2> QED BY <1>3, <1>5, <2>1, Zenon
  <1>6. CASE Request(s)
    <2>1. UNCHANGED <<used, writes>>
      BY <1>6 DEF Request, mailState
    <2>2. PICK b \in Browsers : ReceivePost(s, b) \/ Secure(s, b) \/ Verify(s, b)
                                   \/ ShowMail(s, b) \/ NewPassword(s, b)
      BY <1>6 DEF Request
    <2>3. CASE ReceivePost(s, b)
      BY <1>1, <2>1, <2>3 DEF ReceivePost
    <2>4. CASE Secure(s, b)
      BY <1>5, <2>1, <2>4 DEF Secure
    <2>5. CASE Verify(s, b)
      BY <1>5, <2>1, <2>5 DEF Verify
    <2>6. CASE ShowMail(s, b)
      BY <1>4, <2>1, <2>6 DEF ShowMail
    <2>7. CASE NewPassword(s, b)
      BY <1>5, <2>1, <2>7 DEF NewPassword
    <2> QED BY <2>2, <2>3, <2>4, <2>5, <2>6, <2>7
  <1>7. CASE PostHandler(s)
    <2>1. CASE Login(s)
      BY <1>4, <2>1 DEF Login
    <2>2. CASE UpdatePassword(s) \/ PostNewPassword(s)
      <3>1. PICK kind : SetPassword(s, kind)
        BY <2>2 DEF UpdatePassword, PostNewPassword
      <3>2. Aside(PasswordCmd(s, kind))
        BY CmdContents DEF Aside, PasswordCmd, Watched
      <3> QED BY <1>2, <3>1, <3>2 DEF SetPassword
    <2>3. CASE CreateUser(s)
      <3>1. Aside(KeysCmd(reqs[s].uid, s, "create_user"))
        BY CmdContents DEF Aside
      <3> QED BY <1>2, <2>3, <3>1 DEF CreateUser
    <2>4. CASE ResetPassword(s)
      BY <1>4, <2>4 DEF ResetPassword
    <2> QED BY <1>7, <2>1, <2>2, <2>3, <2>4 DEF PostHandler
  <1>8. CASE RunCallback(s)
    <2>1. CASE LoginPassword(s)
      BY <1>1, <1>4, <2>1 DEF LoginPassword
    <2>2. CASE LoginValid(s) \/ KeepValid(s) \/ Finish(s) \/ ShowMailLink(s)
      BY <1>1, <2>2 DEF LoginValid, KeepValid, Finish, ShowMailLink
    <2>3. CASE CreateUserKeys(s)
      <3>1. /\ Aside(HSetOnly(reqs[s].uid, "password", Hash(reqs[s].uid, reqs[s].pw)))
            /\ Aside(HSetOnly(reqs[s].uid, "mail", reqs[s].mail))
        BY CmdContents DEF Aside, Watched
      <3> QED BY <1>1, <1>3, <2>3, <3>1 DEF CreateUserKeys
    <2>4. CASE VerifyTimestamp(s) /\ ~Confirms(s)
      BY <1>1, <2>4 DEF VerifyTimestamp, LinkPage
    <2>5. CASE ResetMail(s)
      BY <1>1, <1>4, <2>5 DEF ResetMail
    <2>6. CASE ResetValid(s) /\ ~MayReset(Reply)
      BY <1>1, <2>6 DEF ResetValid
    <2>7. CASE NewPasswordTimestamp(s)
      BY <1>4, <2>7 DEF NewPasswordTimestamp
    <2>8. CASE NewPasswordFlag(s) /\ ~Accepts(s)
      BY <1>1, <2>8 DEF NewPasswordFlag, LinkPage
    <2> QED BY <1>8, <2>1, <2>2, <2>3, <2>4, <2>5, <2>6, <2>7, <2>8 DEF RunCallback
  <1> QED BY <1>6, <1>7, <1>8

\* What appending one, two or three commands makes of a field.
Sets(c, k, f, v, before) == IF Writes(c, k, f) THEN c.val = v ELSE before

LEMMA EndsSent ==
  ASSUME Inv, NEW k, NEW f, NEW v, NEW a, NEW b, NEW c
  PROVE /\ Ends(pipe \o <<a>>, db, k, f, v) <=> Sets(a, k, f, v, Becomes(k, f, v))
        /\ Ends(pipe \o <<a, b>>, db, k, f, v) <=>
             Sets(b, k, f, v, Sets(a, k, f, v, Becomes(k, f, v)))
        /\ Ends(pipe \o <<a, b, c>>, db, k, f, v) <=>
             Sets(c, k, f, v, Sets(b, k, f, v, Sets(a, k, f, v, Becomes(k, f, v))))
  <1> DEFINE E == Commands \cup {a, b, c}
  <1>1. pipe \in Seq(E) /\ a \in E /\ b \in E /\ c \in E
    BY DEF Inv, PipeInv
  <1> HIDE DEF E
  <1>2. /\ pipe \o <<a>> = Append(pipe, a)
        /\ pipe \o <<a, b>> = Append(Append(pipe, a), b)
        /\ pipe \o <<a, b, c>> = Append(Append(Append(pipe, a), b), c)
        /\ Append(pipe, a) \in Seq(E) /\ Append(Append(pipe, a), b) \in Seq(E)
    BY <1>1
  <1>3. Ends(Append(pipe, a), db, k, f, v) <=> Sets(a, k, f, v, Becomes(k, f, v))
    BY <1>1, EndsAppend DEF Sets, Becomes
  <1>4. Ends(Append(Append(pipe, a), b), db, k, f, v) <=>
          Sets(b, k, f, v, Ends(Append(pipe, a), db, k, f, v))
    BY <1>2, EndsAppend DEF Sets
  <1>5. Ends(Append(Append(Append(pipe, a), b), c), db, k, f, v) <=>
          Sets(c, k, f, v, Ends(Append(Append(pipe, a), b), db, k, f, v))
    BY <1>2, EndsAppend DEF Sets
  <1> QED BY <1>2, <1>3, <1>4, <1>5 DEF Sets

\* An uneventful step changes no watched field.
LEMMA AsideKeeps ==
  ASSUME Inv, Uneventful, db' = db, NEW k, NEW f \in Watched, NEW v
  PROVE Becomes(k, f, v)' <=> Becomes(k, f, v)
  <1>1. \A a : Aside(a) => ~Writes(a, k, f)
    BY DEF Aside, Writes
  <1>2. CASE UNCHANGED pipe
    BY <1>2 DEF Becomes
  <1>3. ASSUME NEW a, Aside(a), Send(<<a>>) PROVE Becomes(k, f, v)' <=> Becomes(k, f, v)
    BY <1>1, <1>3, EndsSent DEF Send, Sets, Becomes
  <1>4. ASSUME NEW a, NEW b, Aside(a), Aside(b), Send(<<a, b>>)
        PROVE Becomes(k, f, v)' <=> Becomes(k, f, v)
    <2>1. ~Writes(a, k, f) /\ ~Writes(b, k, f)
      BY <1>1, <1>4
    <2> QED BY <1>4, <2>1, EndsSent DEF Send, Sets, Becomes
  <1> QED BY <1>2, <1>3, <1>4 DEF Uneventful

\* What a step makes of a field of all accounts: it sets that of u to w, or
\* leaves it alone.
Puts(u, f, w) ==
  \A k, v : Becomes(k, f, v)' <=> IF k = u THEN v = w ELSE Becomes(k, f, v)
Leaves(f) == \A k, v : Becomes(k, f, v)' <=> Becomes(k, f, v)

\* Two writes of different fields of one account, and one write.
LEMMA TwoWrites ==
  ASSUME Inv, db' = db, NEW u, NEW f, NEW x, NEW g, NEW y, f # g,
         Send(<<HSetOnly(u, f, x), HSetOnly(u, g, y)>>)
  PROVE /\ Puts(u, f, x) /\ Puts(u, g, y)
        /\ \A h : h # f /\ h # g => Leaves(h)
  <1> DEFINE a == HSetOnly(u, f, x)
             b == HSetOnly(u, g, y)
  <1>1. /\ a.op = "hset" /\ a.key = u /\ a.field = f /\ a.val = x
        /\ b.op = "hset" /\ b.key = u /\ b.field = g /\ b.val = y
    BY CmdContents
  <1>2. pipe' = pipe \o <<a, b>>
    BY DEF Send
  <1> HIDE DEF a, b
  <1>3. \A k, h, v : Becomes(k, h, v)' <=> Sets(b, k, h, v, Sets(a, k, h, v, Becomes(k, h, v)))
    BY <1>2, EndsSent DEF Becomes
  <1> QED BY <1>1, <1>3 DEF Puts, Leaves, Sets, Writes

LEMMA OneWrite ==
  ASSUME Inv, db' = db, NEW u, NEW f, NEW x, Send(<<HSetOnly(u, f, x)>>)
  PROVE Puts(u, f, x) /\ \A h : h # f => Leaves(h)
  <1> DEFINE a == HSetOnly(u, f, x)
  <1>1. a.op = "hset" /\ a.key = u /\ a.field = f /\ a.val = x
    BY CmdContents
  <1>2. pipe' = pipe \o <<a>>
    BY DEF Send
  <1> HIDE DEF a
  <1>3. \A k, h, v : Becomes(k, h, v)' <=> Sets(a, k, h, v, Becomes(k, h, v))
    BY <1>2, EndsSent DEF Becomes
  <1> QED BY <1>1, <1>3 DEF Puts, Leaves, Sets, Writes

\* /update_mail.
LEMMA UpdateMailPuts ==
  ASSUME Inv, db' = db, NEW s \in Slots, UpdateMail(s), NEW u, u = reqs[s].sess.user
  PROVE /\ Puts(u, "timestamp", NodeTime) /\ Puts(u, "valid", "False")
        /\ Leaves("link") /\ Leaves("new_password")
  <1> DEFINE a == HSetOnly(u, "timestamp", NodeTime)
             b == HSetOnly(u, "valid", "False")
             c == HSetCmd(u, "mail", reqs[s].mail, s, "update_mail")
  <1>1. /\ a.op = "hset" /\ a.key = u /\ a.field = "timestamp" /\ a.val = NodeTime
        /\ b.op = "hset" /\ b.key = u /\ b.field = "valid" /\ b.val = "False"
        /\ c.field = "mail"
    BY CmdContents
  <1>2. pipe' = pipe \o <<a, b, c>>
    BY DEF UpdateMail, UpdateMailCmds, Send
  <1> HIDE DEF a, b, c
  <1>3. \A k, h, v : Becomes(k, h, v)' <=>
          Sets(c, k, h, v, Sets(b, k, h, v, Sets(a, k, h, v, Becomes(k, h, v))))
    BY <1>2, EndsSent DEF Becomes
  <1>4. \A k, v : /\ ~Writes(c, k, "timestamp") /\ ~Writes(b, k, "timestamp")
                  /\ ~Writes(c, k, "valid") /\ ~Writes(a, k, "valid")
                  /\ Writes(a, k, "timestamp") <=> k = u
                  /\ Writes(b, k, "valid") <=> k = u
                  /\ ~Writes(a, k, "link") /\ ~Writes(b, k, "link") /\ ~Writes(c, k, "link")
                  /\ ~Writes(a, k, "new_password") /\ ~Writes(b, k, "new_password")
                  /\ ~Writes(c, k, "new_password")
    BY <1>1 DEF Writes
  <1> QED BY <1>1, <1>3, <1>4 DEF Puts, Leaves, Sets

\* The user of a request that has its turn.
LEMMA ActingUser ==
  ASSUME Inv, CallbackMatched, LifeInv, NEW s \in Slots, NEW cb \in Acting, Callback(s, cb)
  PROVE gUser = reqs[s].uid /\ gUser \in Keys /\ reqs[s].pc = cb
  <1>1. cb \in Callbacks
    BY DEF Acting, Callbacks, ReadCallbacks
  <1>2. reqs[s].pc = cb
    BY <1>1, LastCallback DEF Turn
  <1> QED BY <1>2 DEF LifeInv, TurnInv, Inv, GlobalInv

-----------------------------------------------------------------------------
(* A link is accepted at most once.                                        *)

\* Links differ when their kinds, users or tokens do.
LEMMA LinksDiffer ==
  ASSUME NEW a, NEW k, NEW v, NEW b, NEW j, NEW w, Link(a, k, v) = Link(b, j, w)
  PROVE a = b /\ k = j /\ v = w
  BY DEF Link

\* A step of the server accepts only unused links and issues new ones.
LEMMA UsedWeb ==
  ASSUME Inv, CallbackMatched, LifeInv, OnceInv, NEW s \in Slots,
         Request(s) \/ PostHandler(s) \/ RunCallback(s)
  PROVE UsedAccounts'
  <1>1. UNCHANGED <<db, now>> /\ NodeTime' = NodeTime
    BY DEF Request, PostHandler, RunCallback, NodeTime
  <1>2. \A k \in Keys : VerifyUnused(k) /\ ResetUnused(k)
    BY DEF OnceInv, UsedInv, UsedAccounts
  <1>3. ASSUME NEW u, Puts(u, "timestamp", NodeTime), Leaves("valid") \/ Puts(u, "valid", "False"),
               Leaves("new_password"), used' = used \ {Link("verify", u, NodeTime)}
        PROVE UsedAccounts'
    <2> SUFFICES ASSUME NEW k \in Keys PROVE VerifyUnused(k)' /\ ResetUnused(k)'
      BY DEF UsedAccounts
    <2>1. CASE k = u
      BY <1>1, <1>2, <1>3, <2>1 DEF Puts, Leaves, VerifyUnused, ResetUnused
    <2>2. CASE k # u
      BY <1>1, <1>2, <1>3, <2>2 DEF Puts, Leaves, VerifyUnused, ResetUnused
    <2> QED BY <2>1, <2>2
  <1>4. CASE UpdateMail(s)
    BY <1>1, <1>3, <1>4, UpdateMailPuts DEF UpdateMail, IssueMail
  <1>5. CASE VerifyMail(s)
    <2> DEFINE u == reqs[s].uid
    <2>1. /\ Send(<<HSetOnly(u, "timestamp", NodeTime), HSetOnly(u, "link", Link("verify", u, NodeTime))>>)
          /\ used' = used \ {Link("verify", u, NodeTime)}
      BY <1>5 DEF VerifyMail, VerifyMailCmds
    <2> HIDE DEF u
    <2>2. Puts(u, "timestamp", NodeTime) /\ Leaves("valid") /\ Leaves("new_password")
      BY <1>1, <2>1, TwoWrites
    <2> QED BY <1>3, <2>1, <2>2
  <1>6. CASE VerifyTimestamp(s) /\ Confirms(s)
    <2> DEFINE u == reqs[s].uid
    <2>1. gUser = u
      BY <1>6, ActingUser DEF VerifyTimestamp, Acting
    <2>2. Send(<<HSetOnly(u, "valid", "True")>>) /\ used' = used \cup {Link("verify", u, reqs[s].tok)}
      BY <1>6, <2>1 DEF VerifyTimestamp, LinkPage
    <2> HIDE DEF u
    <2>3. Puts(u, "valid", "True") /\ Leaves("timestamp") /\ Leaves("new_password")
      BY <1>1, <2>2, OneWrite
    <2> SUFFICES ASSUME NEW k \in Keys PROVE VerifyUnused(k)' /\ ResetUnused(k)'
      BY DEF UsedAccounts
    <2>4. VerifyUnused(k)'
      BY <1>2, <2>2, <2>3, LinksDiffer DEF Puts, Leaves, VerifyUnused
    <2>5. ResetUnused(k)'
      BY <1>1, <1>2, <2>2, <2>3, LinksDiffer DEF Leaves, ResetUnused
    <2> QED BY <2>4, <2>5
  <1>7. CASE ResetValid(s) /\ MayReset(Reply)
    <2> DEFINE u == gUser
    <2>1. gUser = reqs[s].uid
      BY <1>7, ActingUser DEF ResetValid, Acting
    <2>2. /\ Send(<<HSetOnly(u, "timestamp", NodeTime), HSetOnly(u, "new_password", "True")>>)
          /\ used' = used \ {Link("new_password", u, NodeTime)}
      BY <1>7 DEF ResetValid, IssueMail
    <2>3. Quiet(pipe) /\ db[u]["valid"] = "True"
      <3>1. Callback(s, "reset_valid") /\ Reply = "True"
        BY <1>7 DEF ResetValid, MayReset
      <3>2. "reset_valid" \in Callbacks \cap Answers \cap Decisive /\ FieldRead("reset_valid") = "valid"
        BY ReadFacts DEF Callbacks, ReadCallbacks, Answers, Decisive
      <3> QED BY <2>1, <3>1, <3>2, LastCallback DEF Current, HGet
    <2> HIDE DEF u
    <2>4. Puts(u, "timestamp", NodeTime) /\ Puts(u, "new_password", "True") /\ Leaves("valid")
      BY <1>1, <2>2, TwoWrites
    <2>5. ~Becomes(u, "valid", "False")
      BY <2>3, EndsQuiet DEF Becomes
    <2> SUFFICES ASSUME NEW k \in Keys PROVE VerifyUnused(k)' /\ ResetUnused(k)'
      BY DEF UsedAccounts
    <2>6. VerifyUnused(k)'
      BY <1>2, <2>2, <2>4, <2>5 DEF Puts, Leaves, VerifyUnused
    <2>7. ResetUnused(k)'
      BY <1>1, <1>2, <2>2, <2>4 DEF Puts, ResetUnused
    <2> QED BY <2>6, <2>7
  <1>8. CASE NewPasswordFlag(s) /\ Accepts(s)
    <2> DEFINE u == reqs[s].uid
    <2>1. gUser = u
      BY <1>8, ActingUser DEF NewPasswordFlag, Acting
    <2>2. /\ Send(<<HSetOnly(u, "new_password", "False")>>)
          /\ used' = used \cup {Link("new_password", u, reqs[s].tok)}
      BY <1>8, <2>1 DEF NewPasswordFlag, LinkPage
    <2> HIDE DEF u
    <2>3. Puts(u, "new_password", "False") /\ Leaves("timestamp") /\ Leaves("valid")
      BY <1>1, <2>2, OneWrite
    <2> SUFFICES ASSUME NEW k \in Keys PROVE VerifyUnused(k)' /\ ResetUnused(k)'
      BY DEF UsedAccounts
    <2>4. VerifyUnused(k)'
      BY <1>2, <2>2, <2>3, LinksDiffer DEF Leaves, VerifyUnused
    <2>5. ResetUnused(k)'
      BY <1>1, <1>2, <2>2, <2>3, LinksDiffer DEF Puts, Leaves, ResetUnused
    <2> QED BY <2>4, <2>5
  <1>9. CASE Uneventful
    <2>1. \A f \in Watched : Leaves(f)
      BY <1>1, <1>9, AsideKeeps DEF Leaves
    <2>2. used' = used
      BY <1>9 DEF Uneventful
    <2> QED BY <1>1, <1>2, <2>1, <2>2 DEF Watched, Leaves, UsedAccounts, VerifyUnused, ResetUnused
  <1> QED BY <1>4, <1>5, <1>6, <1>7, <1>8, <1>9, Events

\* What the data set says, once the queue is empty.
LEMMA EndsEmpty ==
  ASSUME NEW d, NEW k, NEW f, NEW v PROVE Ends(<<>>, d, k, f, v) <=> d[k][f] = v
  BY EndsQuiet DEF Quiet

\* admin.py works alone, on an empty queue.
LEMMA AdminAlone ==
  ASSUME LifeInv, AdminStep
  PROVE /\ admin.pc # "idle" /\ pipe = <<>> /\ replies = <<>> /\ writes = {}
        /\ \A s \in Slots : Free(s)
        /\ UNCHANGED <<pipe, replies, writes, reqs, gUser, gToken, now>> /\ NodeTime' = NodeTime
        /\ \A k, f, v : /\ Becomes(k, f, v) <=> db[k][f] = v
                        /\ Becomes(k, f, v)' <=> db'[k][f] = v
  <1>1. admin.pc # "idle"
    BY DEF AdminStep, AdminKeys, AdminPassword, AdminMail, AdminTimestamp, AdminValid, AdminFile,
       AdminDelete, AdminAborts
  <1>2. pipe = <<>> /\ replies = <<>> /\ writes = {} /\ \A s \in Slots : Free(s)
    BY <1>1 DEF LifeInv, TurnInv
  <1>3. UNCHANGED <<pipe, replies, writes, reqs, gUser, gToken, now>> /\ NodeTime' = NodeTime
    BY DEF AdminStep, redisLink, webState, NodeTime
  <1> QED BY <1>1, <1>2, <1>3, EndsEmpty DEF Becomes

\* admin.py issues a link before it withdraws the confirmation.
LEMMA UsedAdminStep ==
  ASSUME Inv, LifeInv, OnceInv, AdminStep
  PROVE UsedInv'
  <1> DEFINE u == admin.uid
  <1>1. admin \in AdminCalls /\ u \in Keys /\ db \in [Keys -> [Fields -> Values]]
    BY DEF Inv, AdminInv, AdminCalls, DbInv
  <1>2. \A k \in Keys :
          /\ db[k]["valid"] = "False" => Link("verify", k, db[k]["timestamp"]) \notin used
          /\ db[k]["new_password"] = "True" =>
               /\ Link("new_password", k, NodeTime) \notin used
               /\ Link("new_password", k, db[k]["timestamp"]) \notin used
    BY AdminAlone DEF OnceInv, UsedInv, UsedAccounts, VerifyUnused, ResetUnused
  <1>3. ASSUME \A k \in Keys :
                 /\ db'[k]["valid"] = "False" => Link("verify", k, db'[k]["timestamp"]) \notin used'
                 /\ db'[k]["new_password"] = "True" =>
                      /\ Link("new_password", k, NodeTime) \notin used'
                      /\ Link("new_password", k, db'[k]["timestamp"]) \notin used'
        PROVE UsedAccounts'
    BY <1>3, AdminAlone DEF UsedAccounts, VerifyUnused, ResetUnused
  <1>4. UsedAdmin
    BY DEF OnceInv, UsedInv
  <1>5. ASSUME NEW f \in Fields, NEW v, db' = HSet(db, u, f, v)
        PROVE /\ db'[u][f] = v
              /\ \A g \in Fields : g # f => db'[u][g] = db[u][g]
              /\ \A k \in Keys \ {u} : db'[k] = db[k]
    BY <1>1, <1>5 DEF HSet
  <1>6. NoAdmin.pc = "idle"
    BY DEF NoAdmin
  <1> HIDE DEF u
  <1>7. CASE AdminKeys \/ AdminFile \/ AdminAborts
    <2>1. UNCHANGED <<db, used>>
      BY <1>7 DEF AdminKeys, AdminFile, AdminAborts
    <2>2. admin'.pc \in {"idle", "mail", "password"}
      BY <1>1, <1>6, <1>7 DEF AdminKeys, AdminFile, AdminAborts, AdminCalls
    <2> QED BY <1>2, <1>3, <2>1, <2>2 DEF UsedInv, UsedAdmin
  <1>8. CASE AdminPassword
    <2>1. db' = HSet(db, u, "password", Hash(admin.uid, admin.pw)) /\ used' = used
      BY <1>8 DEF AdminPassword, u
    <2>2. \A k \in Keys, f \in {"valid", "timestamp", "new_password"} : db'[k][f] = db[k][f]
      BY <1>5, <2>1 DEF Fields
    <2>3. admin'.pc \in {"idle", "mail"}
      BY <1>1, <1>6, <1>8 DEF AdminPassword, AdminCalls
    <2> QED BY <1>2, <1>3, <2>1, <2>2, <2>3 DEF UsedInv, UsedAdmin
  <1>9. CASE AdminMail
    <2>1. db' = HSet(db, u, "mail", admin.mail) /\ used' = used
      BY <1>9 DEF AdminMail, u
    <2>2. \A k \in Keys, f \in {"valid", "timestamp", "new_password"} : db'[k][f] = db[k][f]
      BY <1>5, <2>1 DEF Fields
    <2>3. admin'.pc = "timestamp" /\ admin'.ts.src = "admin"
      BY <1>1, <1>9 DEF AdminMail, AdminCalls, AdminTime
    <2> QED BY <1>2, <1>3, <2>1, <2>2, <2>3 DEF UsedInv, UsedAdmin
  <1>10. CASE AdminTimestamp
    <2>1. /\ db' = HSet(db, u, "timestamp", admin.ts)
          /\ used' = used \ {Link("verify", u, admin.ts)}
      BY <1>10 DEF AdminTimestamp, u
    <2>2. /\ db'[u]["timestamp"] = admin.ts
          /\ \A f \in {"valid", "new_password"} : db'[u][f] = db[u][f]
          /\ \A k \in Keys \ {u} : db'[k] = db[k]
      BY <1>5, <2>1 DEF Fields
    <2>3. admin'.pc = "valid" /\ admin'.uid = u /\ admin'.ts = admin.ts /\ admin.ts.src = "admin"
      BY <1>1, <1>4, <1>10 DEF AdminTimestamp, AdminCalls, UsedAdmin, u
    <2>4. Link("new_password", u, admin.ts) \notin used
      <3>1. /\ Link("new_password", u, admin.ts).kind = "new_password"
            /\ Link("new_password", u, admin.ts).tok = admin.ts
        BY DEF Link
      <3> QED BY <2>3, <3>1 DEF OnceInv, LinkInv, Timely, Issued
    <2> QED BY <1>1, <1>2, <1>3, <2>1, <2>2, <2>3, <2>4 DEF UsedInv, UsedAdmin
  <1>11. CASE AdminValid
    <2>1. db' = HSet(db, u, "valid", "False") /\ used' = used
      BY <1>11 DEF AdminValid, u
    <2>2. /\ \A f \in {"timestamp", "new_password"} : db'[u][f] = db[u][f]
          /\ \A k \in Keys \ {u} : db'[k] = db[k]
      BY <1>5, <2>1 DEF Fields
    <2>3. admin'.pc = "file" /\ admin'.uid = u /\ admin'.ts = admin.ts /\ admin.pc = "valid"
      BY <1>1, <1>11 DEF AdminValid, AdminCalls, u
    <2>4. db[u]["timestamp"] = admin.ts /\ Link("verify", u, admin.ts) \notin used
          /\ admin.ts.src = "admin"
      BY <1>4, <2>3 DEF UsedAdmin, u
    <2> QED BY <1>1, <1>2, <1>3, <2>1, <2>2, <2>3, <2>4 DEF UsedInv, UsedAdmin
  <1>12. CASE AdminDelete
    <2>1. db' = Del(db, u) /\ used' = used /\ admin'.pc = "idle"
      BY <1>6, <1>12 DEF AdminDelete, u
    <2>2. /\ db'[u]["valid"] = Null /\ db'[u]["new_password"] = Null
          /\ \A k \in Keys \ {u} : db'[k] = db[k]
      BY <1>1, <2>1 DEF Del, Fields
    <2> QED BY <1>2, <1>3, <2>1, <2>2, StoreAssumption DEF UsedInv, UsedAdmin
  <1> QED BY <1>7, <1>8, <1>9, <1>10, <1>11, <1>12 DEF AdminStep

\* A step of the server belongs to the only request there is.
LEMMA WebTurn ==
  ASSUME Overlap = "none", Inv, CallbackMatched, LifeInv, NEW s \in Slots,
         Request(s) \/ PostHandler(s) \/ RunCallback(s)
  PROVE /\ admin.pc = "idle" /\ UNCHANGED <<admin, db, now, files>> /\ NodeTime' = NodeTime
        /\ \A t \in Slots \ {s} : Free(t) /\ reqs'[t] = reqs[t]
  <1>1. UNCHANGED <<admin, db, now, files>> /\ NodeTime' = NodeTime
    BY DEF Request, PostHandler, RunCallback, NodeTime, mailState
  <1>2. CASE Request(s)
    <2>1. PICK b, kind, pc, form : Arrive(s, b, kind, pc, form)
      BY <1>2 DEF Request, ReceivePost, Secure, Verify, ShowMail, NewPassword
    <2> QED BY <1>1, <2>1 DEF Arrive, MayArrive, Alone, Inv, ReqInv
  <1>3. CASE PostHandler(s)
    <2>1. reqs[s].pc = "body"
      BY <1>3 DEF PostHandler, Login, UpdateMail, UpdatePassword, PostNewPassword, SetPassword,
         CreateUser, VerifyMail, ResetPassword, Handler
    <2>2. Turn(s, "body")
      BY <2>1, HasTurn DEF Free, LifeInv
    <2>3. (\E pc, sess : Await(s, pc, sess)) \/ (\E sess : Answer(s, sess))
      BY <1>3 DEF PostHandler, Login, UpdateMail, UpdatePassword, PostNewPassword, SetPassword,
         CreateUser, VerifyMail, ResetPassword
    <2>4. \A t \in Slots \ {s} : reqs'[t] = reqs[t]
      BY <2>3 DEF Await, Answer, Inv, ReqInv
    <2> QED BY <1>1, <2>2, <2>4 DEF Turn
  <1>4. CASE RunCallback(s)
    <2>1. PICK cb \in Callbacks : Callback(s, cb)
      BY <1>4 DEF RunCallback, LoginPassword, LoginValid, KeepValid, AfterValid, Finish, CreateUserKeys,
         VerifyTimestamp, ShowMailLink, ResetMail, ResetValid, NewPasswordTimestamp, NewPasswordFlag,
         Callbacks, ReadCallbacks
    <2>2. Turn(s, cb)
      BY <2>1, LastCallback
    <2>3. \/ \E pc, sess : Await(s, pc, sess)
          \/ \E sess : Answer(s, sess)
          \/ NewPasswordTimestamp(s)
      BY <1>4 DEF RunCallback, LoginPassword, LoginValid, KeepValid, Finish, CreateUserKeys,
         VerifyTimestamp, ShowMailLink, ResetMail, ResetValid, NewPasswordFlag
    <2>4. \A t \in Slots \ {s} : reqs'[t] = reqs[t]
      BY <2>3 DEF Await, Answer, NewPasswordTimestamp, Inv, ReqInv
    <2> QED BY <1>1, <2>2, <2>4 DEF Turn
  <1> QED BY <1>2, <1>3, <1>4

\* Redis serves a command: what the fields will be stays the same.
LEMMA ServeKeeps ==
  ASSUME Inv, LifeInv, RedisServe
  PROVE /\ admin.pc = "idle"
        /\ \A k \in Keys, f \in Fields : \A v : Becomes(k, f, v)' <=> Becomes(k, f, v)
  <1>1. pipe # <<>> /\ pipe' = Tail(pipe) /\ db' = Store(Head(pipe))
    BY DEF RedisServe
  <1> QED BY <1>1, EndsServe DEF LifeInv, TurnInv, Becomes

\* Every step keeps the links that count unused.
LEMMA UsedNext ==
  ASSUME Overlap = "none", Inv, CallbackMatched, LifeInv, OnceInv, [Next]_vars
  PROVE UsedInv'
  <1>1. UsedAccounts /\ UsedAdmin
    BY DEF OnceInv, UsedInv
  <1>2. ASSUME UNCHANGED <<db, pipe, used, now>> PROVE UsedAccounts'
    BY <1>1, <1>2 DEF UsedAccounts, VerifyUnused, ResetUnused, Becomes, NodeTime
  <1>3. ASSUME UNCHANGED <<db, pipe, used, now, admin>> PROVE UsedInv'
    BY <1>1, <1>2, <1>3 DEF UsedInv, UsedAdmin
  <1>4. CASE \E s \in Slots : Request(s) \/ PostHandler(s) \/ RunCallback(s)
    <2>1. PICK s \in Slots : Request(s) \/ PostHandler(s) \/ RunCallback(s)
      BY <1>4
    <2>2. UsedAccounts'
      BY <2>1, UsedWeb
    <2>3. UsedAdmin'
      BY <2>1, WebTurn DEF UsedAdmin
    <2> QED BY <2>2, <2>3 DEF UsedInv
  <1>5. CASE RedisServe
    <2>1. UNCHANGED <<used, now, admin>>
      BY <1>5 DEF RedisServe
    <2>2. UsedAccounts'
      BY <1>1, <1>5, <2>1, ServeKeeps DEF UsedAccounts, VerifyUnused, ResetUnused, NodeTime, Fields
    <2>3. UsedAdmin'
      BY <1>5, <2>1, ServeKeeps DEF UsedAdmin
    <2> QED BY <2>2, <2>3 DEF UsedInv
  <1>6. CASE \E b \in Browsers : Logout(b)
    BY <1>3, <1>6 DEF Logout, redisLink
  <1>7. CASE WriteFile
    BY <1>3, <1>7 DEF WriteFile, redisLink
  <1>8. CASE \E op \in AdminOps : AdminStart(op)
    <2>1. UNCHANGED <<db, pipe, used, now>> /\ admin'.pc \in {"delete", "keys"}
      BY <1>8 DEF AdminStart, redisLink
    <2> QED BY <1>2, <2>1 DEF UsedInv, UsedAdmin
  <1>9. CASE AdminStep
    BY <1>9, UsedAdminStep
  <1>10. CASE Tick
    <2>1. UNCHANGED <<db, pipe, used, admin>> /\ now' = now + 1 /\ now \in Nat
      BY <1>10, TimeAssumption DEF Tick, redisLink, Inv, ClockInv
    <2>2. ASSUME NEW k \in Keys PROVE Link("new_password", k, NodeTime') \notin used
      <3> DEFINE l == Link("new_password", k, NodeTime')
      <3>1. l.kind = "new_password" /\ l.tok.at = now + 1
        BY <2>1 DEF Link, NodeTime
      <3>2. l.tok.at \notin 0..now
        BY <2>1, <3>1
      <3> QED BY <3>1, <3>2 DEF OnceInv, LinkInv, Timely, Issued
    <2>3. UsedAccounts'
      BY <1>1, <2>1, <2>2 DEF UsedAccounts, VerifyUnused, ResetUnused, Becomes
    <2> QED BY <1>1, <2>1, <2>3 DEF UsedInv, UsedAdmin
  <1>11. CASE Idle \/ UNCHANGED vars
    BY <1>3, <1>11 DEF Idle, vars
  <1> QED BY <1>4, <1>5, <1>6, <1>7, <1>8, <1>9, <1>10, <1>11 DEF Next

-----------------------------------------------------------------------------
(* The clicked link.                                                       *)

Clicking == VerifySteps \cup ResetSteps

\* The part of ClickInv about one request.
Examined(s) ==
  /\ reqs[s].pc \in Clicking => gToken = reqs[s].tok
  /\ reqs[s].pc \in ResetSteps => Issued(reqs[s].tok)
  /\ reqs[s].pc = "new_password_flag" => reqs[s].ts = db[reqs[s].uid]["timestamp"]

\* A request is not, or no longer, about a link.
LEMMA NotClicking ==
  ASSUME NEW s, reqs[s].pc \notin Clicking
  PROVE Examined(s)
  BY DEF Examined, Clicking, ResetSteps

\* A step of the server keeps them.
LEMMA ClickWeb ==
  ASSUME Overlap = "none", Inv, CallbackMatched, LifeInv, OnceInv, NEW s \in Slots,
         Request(s) \/ PostHandler(s) \/ RunCallback(s)
  PROVE Examined(s)'
  <1>1. UNCHANGED <<db, now>>
    BY WebTurn
  <1>2. reqs \in [Slots -> Requests]
    BY DEF Inv, ReqInv
  <1>3. \A sess : Answer(s, sess) => reqs'[s].pc \notin Clicking
    BY <1>2 DEF Answer, NoReq, Clicking, VerifySteps, ResetSteps
  <1>4. ASSUME NEW pc, NEW sess, Await(s, pc, sess)
        PROVE reqs'[s].pc = pc /\ reqs'[s].tok = reqs[s].tok
    <2>1. reqs'[s] = [reqs[s] EXCEPT !.pc = pc, !.sess = sess] /\ reqs[s] \in Requests
      BY <1>2, <1>4 DEF Await
    <2> QED BY <2>1 DEF Requests
  <1>5. ASSUME reqs'[s].pc \notin Clicking PROVE Examined(s)'
    BY <1>5, NotClicking DEF Examined, Clicking, ResetSteps
  <1>6. CASE Request(s)
    <2>1. PICK b \in Browsers : ReceivePost(s, b) \/ Secure(s, b) \/ Verify(s, b)
                                   \/ ShowMail(s, b) \/ NewPassword(s, b)
      BY <1>6 DEF Request
    <2>2. \A kind, pc, form : Arrive(s, b, kind, pc, form) =>
            reqs'[s].pc = pc /\ reqs'[s].tok = form.tok
      BY <1>2 DEF Arrive
    <2>3. CASE ReceivePost(s, b) \/ Secure(s, b) \/ ShowMail(s, b)
      <3>1. reqs'[s].pc \in {"body", "secure_valid", "show_mail"}
        BY <2>2, <2>3 DEF ReceivePost, Secure, ShowMail
      <3> QED BY <1>5, <3>1 DEF Clicking, VerifySteps, ResetSteps
    <2>4. CASE Verify(s, b)
      <3> DEFINE form(l) == [NoForm EXCEPT !.uid = l.uid, !.tok = l.tok]
      <3>1. PICK l \in seen : /\ Arrive(s, b, "verify", "verify_valid", form(l))
                              /\ gToken' = l.tok
        BY <2>4 DEF Verify
      <3>2. form(l).tok = l.tok
        BY DEF NoForm
      <3> HIDE DEF form
      <3> QED BY <2>2, <3>1, <3>2 DEF Examined, ResetSteps
    <2>5. CASE NewPassword(s, b)
      <3> DEFINE form(l) == [NoForm EXCEPT !.uid = l.uid, !.tok = l.tok]
      <3>1. PICK l \in seen : /\ l.kind = "new_password"
                              /\ Arrive(s, b, "new_password", "new_password_valid", form(l))
                              /\ gToken' = l.tok
        BY <2>5 DEF NewPassword
      <3>2. form(l).tok = l.tok
        BY DEF NoForm
      <3> HIDE DEF form
      <3>3. Issued(l.tok)'
        BY <1>1, <3>1 DEF OnceInv, LinkInv, Timely, Issued
      <3> QED BY <2>2, <3>1, <3>2, <3>3 DEF Examined
    <2> QED BY <2>1, <2>3, <2>4, <2>5
  <1>7. CASE PostHandler(s)
    <2>1. \/ \E sess : Answer(s, sess)
          \/ \E sess : \E pc \in {"login_password", "update_mail", "update_password", "set_password",
                                  "create_user", "reset_mail"} : Await(s, pc, sess)
      BY <1>7 DEF PostHandler, Login, UpdateMail, UpdatePassword, PostNewPassword, SetPassword,
         CreateUser, VerifyMail, ResetPassword
    <2> QED BY <1>3, <1>4, <1>5, <2>1 DEF Clicking, VerifySteps, ResetSteps
  <1>8. CASE RunCallback(s)
    <2>1. gToken' = gToken
      BY <1>8 DEF RunCallback
    <2>2. Examined(s)
      BY DEF OnceInv, ClickInv, Examined, Clicking
    <2>3. CASE KeepValid(s)
      <3>1. PICK cb \in DOMAIN AfterValid : Callback(s, cb) /\ \E sess : Await(s, AfterValid[cb], sess)
        BY <2>3 DEF KeepValid
      <3>2. /\ cb \in {"secure_valid", "verify_valid", "new_password_valid"} /\ cb \in Callbacks
            /\ AfterValid[cb] = CASE cb = "secure_valid" -> "secure_mail"
                                  [] cb = "verify_valid" -> "verify_timestamp"
                                  [] OTHER -> "new_password_timestamp"
        BY <3>1 DEF AfterValid, Callbacks, ReadCallbacks
      <3>3. reqs[s].pc = cb /\ reqs'[s].pc = AfterValid[cb] /\ reqs'[s].tok = reqs[s].tok
        BY <1>4, <3>1, <3>2, LastCallback DEF Turn
      <3>4. CASE cb = "secure_valid"
        BY <1>5, <3>2, <3>3, <3>4 DEF Clicking, VerifySteps, ResetSteps
      <3>5. CASE cb = "verify_valid"
        BY <2>1, <2>2, <3>2, <3>3, <3>5 DEF Examined, Clicking, VerifySteps, ResetSteps
      <3>6. CASE cb = "new_password_valid"
        BY <1>1, <2>1, <2>2, <3>2, <3>3, <3>6 DEF Examined, Clicking, ResetSteps, Issued
      <3> QED BY <3>2, <3>4, <3>5, <3>6
    <2>4. CASE NewPasswordTimestamp(s)
      <3>1. Callback(s, "new_password_timestamp")
        BY <2>4 DEF NewPasswordTimestamp
      <3>2. /\ "new_password_timestamp" \in Callbacks \cap Answers \cap Decisive
            /\ FieldRead("new_password_timestamp") = "timestamp"
        BY ReadFacts DEF Callbacks, ReadCallbacks, Answers, Decisive
      <3>3. reqs[s].pc = "new_password_timestamp" /\ Reply = db[reqs[s].uid]["timestamp"]
        BY <3>1, <3>2, LastCallback DEF Turn, Current, HGet
      <3>4. reqs'[s] = [reqs[s] EXCEPT !.pc = "new_password_flag", !.ts = Reply] /\ reqs[s] \in Requests
        BY <1>2, <2>4 DEF NewPasswordTimestamp
      <3>5. /\ reqs'[s].pc = "new_password_flag" /\ reqs'[s].ts = Reply
            /\ reqs'[s].uid = reqs[s].uid /\ reqs'[s].tok = reqs[s].tok
        BY <3>4 DEF Requests
      <3> QED BY <1>1, <2>1, <2>2, <3>3, <3>5 DEF Examined, Clicking, ResetSteps, Issued
    <2>5. CASE ~KeepValid(s) /\ ~NewPasswordTimestamp(s)
      <3>1. \/ \E sess : Answer(s, sess)
            \/ \E sess : \E pc \in {"login_valid", "reset_valid"} : Await(s, pc, sess)
        BY <1>8, <2>5 DEF RunCallback, LoginPassword, LoginValid, Finish, CreateUserKeys,
           VerifyTimestamp, ShowMailLink, ResetMail, ResetValid, NewPasswordFlag
      <3> QED BY <1>3, <1>4, <1>5, <3>1 DEF Clicking, VerifySteps, ResetSteps
    <2> QED BY <2>3, <2>4, <2>5
  <1> QED BY <1>6, <1>7, <1>8

\* Every step keeps them.
LEMMA ClickNext ==
  ASSUME Overlap = "none", Inv, CallbackMatched, LifeInv, OnceInv, [Next]_vars
  PROVE ClickInv'
  <1>1. \A s \in Slots : Examined(s)
    BY DEF OnceInv, ClickInv, Examined, Clicking
  <1> SUFFICES ASSUME NEW t \in Slots PROVE Examined(t)'
    BY DEF ClickInv, Examined, Clicking
  <1>2. ASSUME UNCHANGED <<reqs, gToken, db, now>> PROVE Examined(t)'
    BY <1>1, <1>2 DEF Examined, Issued
  <1>3. CASE \E s \in Slots : Request(s) \/ PostHandler(s) \/ RunCallback(s)
    <2>1. PICK s \in Slots : Request(s) \/ PostHandler(s) \/ RunCallback(s)
      BY <1>3
    <2>2. CASE t = s
      BY <2>1, <2>2, ClickWeb
    <2>3. CASE t # s
      <3>1. reqs'[t].pc = "free"
        BY <2>1, <2>3, WebTurn DEF Free
      <3> QED BY <3>1 DEF Examined, Clicking, VerifySteps, ResetSteps
    <2> QED BY <2>2, <2>3
  <1>4. CASE RedisServe
    <2>1. UNCHANGED <<reqs, gToken, now>>
      BY <1>4 DEF RedisServe, webState
    <2>2. ASSUME reqs[t].pc = "new_password_flag" PROVE db' = db
      <3>1. Quiet(pipe)
        BY <2>2 DEF LifeInv, ReadInv, Later
      <3>2. pipe \in Seq(Commands) /\ pipe # <<>>
        BY <1>4 DEF Inv, PipeInv, RedisServe
      <3>3. Head(pipe).op # "hset"
        BY <3>1, <3>2 DEF Quiet
      <3> QED BY <1>4, <3>3 DEF RedisServe, Store
    <2> QED BY <1>1, <2>1, <2>2 DEF Examined, Issued
  <1>5. CASE \E b \in Browsers : Logout(b)
    BY <1>2, <1>5 DEF Logout
  <1>6. CASE WriteFile
    BY <1>2, <1>6 DEF WriteFile, webState
  <1>7. CASE \E op \in AdminOps : AdminStart(op)
    BY <1>2, <1>7 DEF AdminStart, webState
  <1>8. CASE AdminStep
    <2>1. reqs'[t].pc = "free"
      BY <1>8, AdminAlone DEF Free
    <2> QED BY <2>1 DEF Examined, Clicking, VerifySteps, ResetSteps
  <1>9. CASE Tick
    <2>1. UNCHANGED <<reqs, gToken, db>> /\ now' = now + 1 /\ now \in Nat
      BY <1>9, TimeAssumption DEF Tick, webState, Inv, ClockInv
    <2>2. reqs[t].pc \in ResetSteps => Issued(reqs[t].tok)'
      BY <1>1, <2>1 DEF Examined, Issued
    <2> QED BY <1>1, <2>1, <2>2 DEF Examined
  <1>10. CASE Idle \/ UNCHANGED vars
    BY <1>2, <1>10 DEF Idle, vars
  <1> QED BY <1>3, <1>4, <1>5, <1>6, <1>7, <1>8, <1>9, <1>10 DEF Next

-----------------------------------------------------------------------------
(* The tokens of the links.                                                *)

TimelyQueue(q) == \A i \in 1..Len(q) : TimelyCmd(q[i])

\* Links that confirm an address, and links that are issued now.
LEMMA TimelyLinks ==
  ASSUME ClockInv
  PROVE \A k, v : /\ Timely(Link("verify", k, v))
                  /\ Timely(Link("new_password", k, NodeTime))
                  /\ Issued(v) => Timely(Link("new_password", k, v))
  <1>1. \A k, v : /\ Link("verify", k, v).kind # "new_password"
                  /\ Link("new_password", k, v).tok = v
    BY DEF Link
  <1>2. Issued(NodeTime)
    BY TimeAssumption DEF Issued, NodeTime, ClockInv
  <1> QED BY <1>1, <1>2 DEF Timely

\* Commands join the queue.
LEMMA TimelyAppend ==
  ASSUME NEW E, NEW q \in Seq(E), NEW c \in E, TimelyQueue(q), TimelyCmd(c)
  PROVE TimelyQueue(Append(q, c))
  <1> DEFINE new == Append(q, c)
             n == Len(q)
  <1>1. /\ n \in Nat /\ Len(new) = n + 1
        /\ new[n + 1] = c
        /\ \A i \in 1..n : new[i] = q[i]
        /\ \A i \in 1..(n + 1) : i \in 1..n \/ i = n + 1
    OBVIOUS
  <1> SUFFICES TimelyQueue(new)
    OBVIOUS
  <1>2. \A i \in 1..n : TimelyCmd(q[i])
    BY DEF TimelyQueue
  <1> HIDE DEF new, n
  <1> QED BY <1>1, <1>2 DEF TimelyQueue

LEMMA TimelySent ==
  ASSUME Inv, TimelyQueue(pipe), NEW a, NEW b, NEW c, TimelyCmd(a)
  PROVE /\ TimelyQueue(pipe \o <<a>>)
        /\ TimelyCmd(b) => TimelyQueue(pipe \o <<a, b>>)
        /\ TimelyCmd(b) /\ TimelyCmd(c) => TimelyQueue(pipe \o <<a, b, c>>)
  <1> DEFINE E == Commands \cup {a, b, c}
  <1>1. pipe \in Seq(E) /\ a \in E /\ b \in E /\ c \in E
    BY DEF Inv, PipeInv
  <1> HIDE DEF E
  <1>2. /\ pipe \o <<a>> = Append(pipe, a)
        /\ pipe \o <<a, b>> = Append(Append(pipe, a), b)
        /\ pipe \o <<a, b, c>> = Append(Append(Append(pipe, a), b), c)
        /\ Append(pipe, a) \in Seq(E) /\ Append(Append(pipe, a), b) \in Seq(E)
    BY <1>1
  <1>3. TimelyQueue(Append(pipe, a))
    BY <1>1, TimelyAppend
  <1>4. TimelyCmd(b) => TimelyQueue(Append(Append(pipe, a), b))
    BY <1>1, <1>2, <1>3, TimelyAppend
  <1>5. TimelyCmd(b) /\ TimelyCmd(c) => TimelyQueue(Append(Append(Append(pipe, a), b), c))
    BY <1>1, <1>2, <1>4, TimelyAppend
  <1> QED BY <1>2, <1>3, <1>4, <1>5

\* What a step of the server does to the queue.
LEMMA TimelyWeb ==
  ASSUME Inv, TimelyQueue(pipe), NEW s \in Slots, Request(s) \/ PostHandler(s) \/ RunCallback(s)
  PROVE TimelyQueue(pipe')
  <1>1. \A a : Aside(a) => TimelyCmd(a)
    BY DEF Aside, TimelyCmd, Writes, Watched
  <1>2. \A k, f, v, t, cb : f # "link" => TimelyCmd(HSetOnly(k, f, v)) /\ TimelyCmd(HSetCmd(k, f, v, t, cb))
    BY CmdContents DEF TimelyCmd, Writes
  <1>3. CASE UpdateMail(s)
    <2> DEFINE u == reqs[s].sess.user
               a == HSetOnly(u, "timestamp", NodeTime)
               b == HSetOnly(u, "valid", "False")
               c == HSetCmd(u, "mail", reqs[s].mail, s, "update_mail")
    <2>1. TimelyCmd(a) /\ TimelyCmd(b) /\ TimelyCmd(c)
      BY <1>2
    <2>2. pipe' = pipe \o <<a, b, c>>
      BY <1>3 DEF UpdateMail, UpdateMailCmds, Send
    <2> HIDE DEF a, b, c
    <2> QED BY <2>1, <2>2, TimelySent
  <1>4. CASE VerifyMail(s)
    <2> DEFINE u == reqs[s].uid
               a == HSetOnly(u, "timestamp", NodeTime)
               b == HSetOnly(u, "link", Link("verify", u, NodeTime))
    <2>1. TimelyCmd(a)
      BY <1>2
    <2>2. TimelyCmd(b)
      BY CmdContents, TimelyLinks DEF TimelyCmd, TimelyOrNull, Inv
    <2>3. pipe' = pipe \o <<a, b>>
      BY <1>4 DEF VerifyMail, VerifyMailCmds, Send
    <2> HIDE DEF a, b
    <2> QED BY <2>1, <2>2, <2>3, TimelySent
  <1>5. CASE VerifyTimestamp(s) /\ Confirms(s)
    BY <1>2, <1>5, TimelySent DEF VerifyTimestamp, Send
  <1>6. CASE ResetValid(s) /\ MayReset(Reply)
    BY <1>2, <1>6, TimelySent DEF ResetValid, Send
  <1>7. CASE NewPasswordFlag(s) /\ Accepts(s)
    BY <1>2, <1>7, TimelySent DEF NewPasswordFlag, Send
  <1>8. CASE Uneventful
    BY <1>1, <1>8, TimelySent DEF Uneventful, Send
  <1> QED BY <1>3, <1>4, <1>5, <1>6, <1>7, <1>8, Events

\* A step of the server keeps the tokens in order.
LEMMA LinkWeb ==
  ASSUME Overlap = "none", Inv, CallbackMatched, LifeInv, OnceInv, NEW s \in Slots,
         Request(s) \/ PostHandler(s) \/ RunCallback(s)
  PROVE LinkInv'
  <1>1. UNCHANGED <<db, now>>
    BY WebTurn
  <1>2. \A l : (Timely(l)' <=> Timely(l)) /\ (TimelyOrNull(l)' <=> TimelyOrNull(l))
    BY <1>1 DEF Timely, TimelyOrNull, Issued
  <1>3. LinkInv
    BY DEF OnceInv
  <1>4. \A i \in 1..Len(pipe') : TimelyCmd(pipe'[i])
    BY <1>3, TimelyWeb DEF LinkInv, TimelyQueue
  <1>5. \A i \in 1..Len(replies') : replies'[i].cb = "show_mail" => TimelyOrNull(replies'[i].val)
    <2>1. CASE replies' = replies
      BY <1>3, <2>1 DEF LinkInv
    <2>2. CASE replies # <<>> /\ replies' = Tail(replies)
      <3>1. replies \in Seq(Replies)
        BY DEF Inv, ReplyInv
      <3>2. \A i \in 1..Len(replies') : i + 1 \in 1..Len(replies) /\ replies'[i] = replies[i + 1]
        BY <2>2, <3>1
      <3> QED BY <1>3, <3>2 DEF LinkInv
    <2>3. replies' = replies \/ (replies # <<>> /\ replies' = Tail(replies))
      <3>1. RunCallback(s) => \E cb : Callback(s, cb)
        BY DEF RunCallback, LoginPassword, LoginValid, KeepValid, Finish, CreateUserKeys,
           VerifyTimestamp, ShowMailLink, ResetMail, ResetValid, NewPasswordTimestamp, NewPasswordFlag
      <3> QED BY <3>1 DEF Request, PostHandler, Callback
    <2> QED BY <2>1, <2>2, <2>3
  <1>6. \A l \in seen' : Timely(l)
    <2>1. CASE seen' = seen
      BY <1>3, <2>1 DEF LinkInv
    <2>2. CASE ShowMailLink(s)
      <3>1. replies \in Seq(Replies) /\ replies # <<>> /\ Head(replies) = replies[1]
            /\ 1 \in 1..Len(replies) /\ Head(replies).cb = "show_mail"
        BY <2>2 DEF ShowMailLink, Callback, Inv, ReplyInv
      <3>2. TimelyOrNull(Reply)
        BY <1>3, <3>1 DEF LinkInv, Reply
      <3> QED BY <1>3, <2>2, <3>2 DEF ShowMailLink, LinkInv, TimelyOrNull
    <2>3. seen' = seen \/ ShowMailLink(s)
      BY DEF Request, mailState, PostHandler, RunCallback, LoginPassword, LoginValid, KeepValid, Finish,
         CreateUserKeys, VerifyTimestamp, ResetMail, ResetValid, NewPasswordTimestamp, NewPasswordFlag
    <2> QED BY <2>1, <2>2, <2>3
  <1>7. (\A l \in used' : Timely(l)) /\ (\A w \in writes' : Timely(w.link))
    <2>1. (\A l \in used : Timely(l)) /\ (\A w \in writes : Timely(w.link)) /\ ClockInv
      BY <1>3 DEF LinkInv, Inv
    <2>2. \A u, box, l : IssueMail(u, box, l) =>
            /\ used' \subseteq used
            /\ \A w \in writes' : w \in writes \/ w.link = l
      BY DEF IssueMail
    <2>3. CASE UpdateMail(s)
      BY <2>1, <2>2, <2>3, TimelyLinks DEF UpdateMail
    <2>4. CASE VerifyMail(s)
      BY <2>1, <2>4 DEF VerifyMail
    <2>5. CASE VerifyTimestamp(s) /\ Confirms(s)
      BY <2>1, <2>5, TimelyLinks DEF VerifyTimestamp, LinkPage
    <2>6. CASE ResetValid(s) /\ MayReset(Reply)
      BY <2>1, <2>2, <2>6, TimelyLinks DEF ResetValid
    <2>7. CASE NewPasswordFlag(s) /\ Accepts(s)
      <3>1. Issued(reqs[s].tok)
        <4>1. reqs[s].pc = "new_password_flag"
          BY <2>7, ActingUser DEF NewPasswordFlag, Acting
        <4> QED BY <4>1 DEF OnceInv, ClickInv, ResetSteps
      <3> QED BY <2>1, <2>7, <3>1, TimelyLinks DEF NewPasswordFlag, LinkPage
    <2>8. CASE Uneventful
      BY <2>1, <2>8 DEF Uneventful
    <2> QED BY <2>3, <2>4, <2>5, <2>6, <2>7, <2>8, Events
  <1>8. \A k \in Keys : TimelyOrNull(db'[k]["link"])
    BY <1>1, <1>3 DEF LinkInv
  <1> QED BY <1>2, <1>4, <1>5, <1>6, <1>7, <1>8 DEF LinkInv, TimelyCmd

\* Redis stores and reads links.
LEMMA LinkServe ==
  ASSUME Inv, OnceInv, RedisServe
  PROVE LinkInv'
  <1> DEFINE c == Head(pipe)
  <1>1. /\ pipe \in Seq(Commands) /\ pipe # <<>> /\ replies \in Seq(Replies)
        /\ db \in [Keys -> [Fields -> Values]]
    BY DEF Inv, PipeInv, ReplyInv, DbInv, RedisServe
  <1>2. /\ UNCHANGED <<seen, used, writes, now>>
        /\ pipe' = Tail(pipe) /\ db' = Store(c) /\ replies' = Replied(c)
    BY DEF RedisServe, mailState
  <1>3. LinkInv
    BY DEF OnceInv
  <1>4. \A l : (Timely(l)' <=> Timely(l)) /\ (TimelyOrNull(l)' <=> TimelyOrNull(l))
    BY <1>2 DEF Timely, TimelyOrNull, Issued
  <1>5. c \in Commands /\ TimelyCmd(c)
    BY <1>1, <1>3 DEF LinkInv
  <1>6. \A i \in 1..Len(pipe') : TimelyCmd(pipe'[i])
    <2>1. \A i \in 1..Len(pipe') : i + 1 \in 1..Len(pipe) /\ pipe'[i] = pipe[i + 1]
      BY <1>1, <1>2
    <2> QED BY <1>3, <2>1 DEF LinkInv
  <1>7. c.key \in Keys /\ CommandOK(c)
    BY <1>5 DEF Commands, RawCommands
  <1> HIDE DEF c
  <1>8. \A k \in Keys : TimelyOrNull(db'[k]["link"])
    <2> SUFFICES ASSUME NEW k \in Keys PROVE TimelyOrNull(db'[k]["link"])
      OBVIOUS
    <2>1. CASE Writes(c, k, "link")
      <3>1. db'[k]["link"] = c.val
        BY <1>1, <1>2, <2>1 DEF Writes, Store, HSet, Fields
      <3> QED BY <1>5, <2>1, <3>1 DEF TimelyCmd, Writes
    <2>2. CASE ~Writes(c, k, "link")
      <3>1. db'[k]["link"] = db[k]["link"]
        BY <1>1, <1>2, <1>7, <2>2 DEF Writes, Store, HSet, Fields
      <3> QED BY <1>3, <3>1 DEF LinkInv
    <2> QED BY <2>1, <2>2
  <1>9. \A i \in 1..Len(replies') : replies'[i].cb = "show_mail" => TimelyOrNull(replies'[i].val)
    <2>1. CASE c.cb = "none"
      BY <1>2, <1>3, <2>1 DEF Replied, LinkInv
    <2>2. CASE c.cb # "none"
      <3> DEFINE r == [slot |-> c.slot, cb |-> c.cb, val |-> Result(c)]
      <3>1. replies' = Append(replies, r) /\ r.cb = c.cb /\ r.val = Result(c)
        BY <1>2, <2>2 DEF Replied
      <3> HIDE DEF r
      <3>2. c.cb = "show_mail" => TimelyOrNull(Result(c))
        <4>1. "show_mail" \in ReadCallbacks /\ FieldRead("show_mail") = "link"
          BY ReadFacts DEF ReadCallbacks
        <4>2. c.cb = "show_mail" => c.op = "hget" /\ c.field = "link"
          BY <1>7, <4>1 DEF CommandOK
        <4> QED BY <1>3, <1>7, <4>2 DEF Result, HGet, LinkInv
      <3> DEFINE E == Replies \cup {r}
      <3>3. replies \in Seq(E) /\ r \in E
        BY <1>1
      <3> HIDE DEF E
      <3>4. \A i \in 1..Len(replies') : (i \in 1..Len(replies) /\ replies'[i] = replies[i]) \/ replies'[i] = r
        BY <3>1, <3>3
      <3> QED BY <1>3, <3>1, <3>2, <3>4 DEF LinkInv
    <2> QED BY <2>1, <2>2
  <1> QED BY <1>2, <1>3, <1>4, <1>6, <1>8, <1>9 DEF LinkInv, TimelyCmd

\* Every step keeps the tokens in order.
LEMMA LinkNext ==
  ASSUME Overlap = "none", Inv, CallbackMatched, LifeInv, OnceInv, [Next]_vars
  PROVE LinkInv'
  <1>1. LinkInv
    BY DEF OnceInv
  <1>2. ASSUME UNCHANGED <<pipe, replies, now>>, \A k \in Keys : db'[k]["link"] \in {db[k]["link"], Null},
               \A l \in seen' \cup used' : Timely(l), \A w \in writes' : Timely(w.link)
        PROVE LinkInv'
    BY <1>1, <1>2 DEF LinkInv, Timely, TimelyOrNull, TimelyCmd, Issued
  <1>3. ASSUME UNCHANGED <<pipe, replies, now, db, seen, used, writes>> PROVE LinkInv'
    BY <1>1, <1>2, <1>3 DEF LinkInv
  <1>4. CASE \E s \in Slots : Request(s) \/ PostHandler(s) \/ RunCallback(s)
    BY <1>4, LinkWeb
  <1>5. CASE RedisServe
    BY <1>5, LinkServe
  <1>6. CASE \E b \in Browsers : Logout(b)
    BY <1>3, <1>6 DEF Logout, redisLink, mailState
  <1>7. CASE WriteFile
    <2>1. PICK w \in writes : /\ WriteDone(w) \/ WriteFails(w)
                              /\ writes' = writes \ {w}
                              /\ UNCHANGED <<db, redisLink, now, used>>
      BY <1>7 DEF WriteFile
    <2>2. seen' \subseteq seen \cup {w.link}
      BY <2>1 DEF WriteDone, WriteFails
    <2> QED BY <1>1, <1>2, <2>1, <2>2 DEF LinkInv, redisLink
  <1>8. CASE \E op \in AdminOps : AdminStart(op)
    BY <1>3, <1>8 DEF AdminStart, redisLink, mailState
  <1>9. CASE AdminStep
    <2>1. admin.uid \in Keys /\ db \in [Keys -> [Fields -> Values]] /\ ClockInv
      BY DEF Inv, AdminInv, AdminCalls, DbInv
    <2>2. UNCHANGED <<pipe, replies, writes, now>>
      BY <1>9, AdminAlone
    <2>3. \A f, v : db' = HSet(db, admin.uid, f, v) /\ f # "link" =>
            \A k \in Keys : db'[k]["link"] = db[k]["link"]
      BY <2>1 DEF HSet, Fields
    <2>4. db' = Del(db, admin.uid) => \A k \in Keys : db'[k]["link"] \in {db[k]["link"], Null}
      BY <2>1 DEF Del, Fields
    <2>5. \A k \in Keys : db'[k]["link"] \in {db[k]["link"], Null}
      <3>1. CASE AdminKeys \/ AdminFile \/ AdminAborts
        BY <3>1 DEF AdminKeys, AdminFile, AdminAborts
      <3>2. CASE AdminPassword \/ AdminMail \/ AdminTimestamp \/ AdminValid
        BY <2>3, <3>2 DEF AdminPassword, AdminMail, AdminTimestamp, AdminValid
      <3>3. CASE AdminDelete
        BY <2>4, <3>3 DEF AdminDelete
      <3> QED BY <1>9, <3>1, <3>2, <3>3 DEF AdminStep
    <2>6. used' \subseteq used
      BY <1>9 DEF AdminStep, AdminKeys, AdminPassword, AdminMail, AdminTimestamp, AdminValid, AdminFile,
         AdminDelete, AdminAborts
    <2>7. seen' \subseteq seen \cup {Link("verify", admin.uid, admin.ts)}
      BY <1>9 DEF AdminStep, AdminKeys, AdminPassword, AdminMail, AdminTimestamp, AdminValid, AdminFile,
         AdminDelete, AdminAborts
    <2>8. \A l \in seen' \cup used' : Timely(l)
      BY <1>1, <2>1, <2>6, <2>7, TimelyLinks DEF LinkInv
    <2> QED BY <1>1, <1>2, <2>2, <2>5, <2>8 DEF LinkInv
  <1>10. CASE Tick
    <2>1. UNCHANGED <<db, pipe, replies, seen, used, writes>> /\ now' = now + 1 /\ now \in Nat
      BY <1>10, TimeAssumption DEF Tick, redisLink, mailState, Inv, ClockInv
    <2>2. \A l : Timely(l) => Timely(l)'
      BY <2>1 DEF Timely, Issued
    <2>3. \A l : TimelyOrNull(l) => TimelyOrNull(l)'
      BY <2>2 DEF TimelyOrNull
    <2> QED BY <1>1, <2>1, <2>2, <2>3 DEF LinkInv, TimelyCmd
  <1>11. CASE Idle \/ UNCHANGED vars
    BY <1>3, <1>11 DEF Idle, vars
  <1> QED BY <1>4, <1>5, <1>6, <1>7, <1>8, <1>9, <1>10, <1>11 DEF Next

-----------------------------------------------------------------------------
(* A link is accepted at most once.                                        *)

\* At the start only confirmed accounts have a used link, and no link resets a
\* password.
LEMMA OnceInit == ASSUME Init PROVE OnceInv
  <1>1. PICK st \in [Names -> Start], p \in Passwords, m \in Mails :
          /\ db = [k \in Keys |-> Account(k, IF k = Undef THEN "absent" ELSE st[k], p, m)]
          /\ seen = {Link("verify", u, FirstTime) : u \in {n \in Names : st[n] # "absent"}}
          /\ used = {Link("verify", u, FirstTime) : u \in {n \in Names : st[n] = "confirmed"}}
    BY DEF Init
  <1>2. /\ pipe = <<>> /\ Len(pipe) = 0 /\ Len(replies) = 0 /\ writes = {}
        /\ admin.pc = "idle" /\ \A s \in Slots : reqs[s].pc = "free"
    BY DEF Init, NoReq, NoAdmin
  <1>3. \A k \in Keys : /\ db[k]["link"] = Null /\ db[k]["new_password"] = Null
                        /\ db[k]["valid"] = "False" => k # Undef /\ st[k] # "confirmed"
    BY <1>1, StoreAssumption DEF Account, Fields
  <1>4. \A l \in seen \cup used : l.kind = "verify"
    BY <1>1 DEF Link
  <1>5. LinkInv
    BY <1>2, <1>3, <1>4 DEF LinkInv, Timely, TimelyOrNull
  <1>6. ClickInv
    BY <1>2 DEF ClickInv, VerifySteps, ResetSteps
  <1>7. UsedAccounts
    <2> SUFFICES ASSUME NEW k \in Keys PROVE VerifyUnused(k) /\ ResetUnused(k)
      BY DEF UsedAccounts
    <2>1. VerifyUnused(k)
      <3> SUFFICES ASSUME Becomes(k, "valid", "False"), NEW v PROVE Link("verify", k, v) \notin used
        BY DEF VerifyUnused
      <3>1. st[k] # "confirmed"
        BY <1>2, <1>3, EndsEmpty DEF Becomes
      <3> QED BY <1>1, <3>1, LinksDiffer
    <2>2. ResetUnused(k)
      BY <1>2, <1>3, EndsEmpty, StoreAssumption DEF ResetUnused, Becomes
    <2> QED BY <2>1, <2>2
  <1>8. UsedAdmin
    BY <1>2 DEF UsedAdmin
  <1> QED BY <1>5, <1>6, <1>7, <1>8 DEF OnceInv, UsedInv

\* The links that would be accepted have not been used, in every reachable state.
LEMMA OnceHolds == ASSUME Overlap = "none" PROVE Spec => []OnceInv
  <1>1. Init => OnceInv
    BY OnceInit
  <1>2. Inv /\ CallbackMatched /\ LifeInv /\ OnceInv /\ [Next]_vars => OnceInv'
    BY LinkNext, ClickNext, UsedNext DEF OnceInv
  <1>3. Spec => []LifeInv
    BY LifeHolds
  <1> QED BY <1>1, <1>2, <1>3, InvHolds, CallbacksMatched, PTL DEF Spec

\* The part of LinkSingleUse about one step.
AcceptsUnused(s) ==
  (Clicked(s, "success") \/ Clicked(s, "accept_password")) => out'.link \notin used

\* When requests are served one by one, a link is accepted at most once after it
\* was issued: by the time a second click is examined the write that withdraws
\* the link has been executed, although the first click was answered before it.
THEOREM LinksUsedOnce ==
  ASSUME Overlap = "none" PROVE Spec => LinkSingleUse
  <1>1. ASSUME Inv, CallbackMatched, OwnInv, LifeInv, OnceInv, [Next]_vars, NEW s \in Slots
        PROVE AcceptsUnused(s)
    <2> SUFFICES ASSUME NEW b \in Browsers, NEW kind \in {"verify", "new_password"},
                        Answered(s, b, kind), out'.page \in {"success", "accept_password"}
                 PROVE out'.link \notin used
      BY Zenon DEF AcceptsUnused, Clicked
    <2> DEFINE u == reqs[s].uid
    <2>1. u \in Keys
      BY <1>1, RequestFacts DEF Inv
    <2>2. VerifyUnused(u) /\ ResetUnused(u)
      BY <1>1, <2>1 DEF OnceInv, UsedInv, UsedAccounts
    <2>3. CASE kind = "verify"
      <3>1. VerifyTimestamp(s)
        BY <1>1, <2>3, AnsweredLink
      <3>2. Callback(s, "verify_timestamp") /\ reqs[s].pc = "verify_timestamp"
        BY <1>1, <3>1, RestCallback DEF VerifyTimestamp
      <3>3. Confirms(s) /\ out'.link = Link("verify", u, reqs[s].tok)
        BY <3>1 DEF VerifyTimestamp, LinkPage
      <3>4. /\ "verify_timestamp" \in Callbacks \cap Answers \cap Decisive
            /\ FieldRead("verify_timestamp") = "timestamp"
        BY ReadFacts DEF Callbacks, ReadCallbacks, Answers, Decisive
      <3>5. Quiet(pipe) /\ Reply = db[u]["timestamp"]
        BY <1>1, <3>2, <3>4, LastCallback DEF Current, HGet
      <3>6. db[u]["valid"] = "False"
        BY <1>1, <3>2, <3>3 DEF Confirms, LifeInv, ReadInv
      <3>7. reqs[s].tok = db[u]["timestamp"]
        BY <1>1, <3>2, <3>3, <3>5 DEF Confirms, OnceInv, ClickInv, VerifySteps
      <3>8. Becomes(u, "valid", "False") /\ Becomes(u, "timestamp", reqs[s].tok)
        BY <3>5, <3>6, <3>7, EndsQuiet DEF Becomes
      <3> QED BY <2>2, <3>3, <3>8 DEF VerifyUnused
    <2>4. CASE kind = "new_password"
      <3>1. NewPasswordFlag(s)
        BY <1>1, <2>4, AnsweredLink
      <3>2. Callback(s, "new_password_flag") /\ reqs[s].pc = "new_password_flag"
        BY <1>1, <3>1, RestCallback DEF NewPasswordFlag
      <3>3. Accepts(s) /\ out'.link = Link("new_password", u, reqs[s].tok)
        BY <3>1 DEF NewPasswordFlag, LinkPage
      <3>4. /\ "new_password_flag" \in Callbacks \cap Answers \cap Decisive
            /\ FieldRead("new_password_flag") = "new_password"
        BY ReadFacts DEF Callbacks, ReadCallbacks, Answers, Decisive
      <3>5. Quiet(pipe) /\ Reply = db[u]["new_password"]
        BY <1>1, <3>2, <3>4, LastCallback DEF Current, HGet
      <3>6. reqs[s].tok = db[u]["timestamp"]
        BY <1>1, <3>2, <3>3 DEF Accepts, OnceInv, ClickInv, ResetSteps
      <3>7. Becomes(u, "new_password", "True") /\ Becomes(u, "timestamp", reqs[s].tok)
        BY <3>3, <3>5, <3>6, EndsQuiet DEF Becomes, Accepts
      <3> QED BY <2>2, <3>3, <3>7 DEF ResetUnused
    <2> QED BY <2>3, <2>4
  <1>2. Inv /\ CallbackMatched /\ OwnInv /\ LifeInv /\ OnceInv /\ [Next]_vars =>
          \A s \in Slots : AcceptsUnused(s)
    BY <1>1
  <1>3. Spec => []OwnInv
    BY OwnHolds
  <1>4. Spec => []LifeInv
    BY LifeHolds
  <1>5. Spec => []OnceInv
    BY OnceHolds
  <1> QED BY <1>2, <1>3, <1>4, <1>5, InvHolds, CallbacksMatched, PTL
          DEF Spec, LinkSingleUse, AcceptsUnused

-----------------------------------------------------------------------------
(* A pending account can be confirmed.                                     *)

\* Mails that are under way for k.
Underway(k) == {w \in writes : w.key = k /\ w.box = "mail"}

\* A step that touches no mail of k.
LEMMA MailedKept ==
  ASSUME NEW k, NEW l, Underway(k)' = Underway(k), UNCHANGED files
  PROVE Mailed(k, l)' <=> Mailed(k, l)
  BY DEF Mailed, Underway

\* Requests wait for the writes of mails.
LEMMA WriteTurnWeb ==
  ASSUME Overlap = "none", Inv, CallbackMatched, LifeInv, WriteTurn, NEW s \in Slots,
         Request(s) \/ PostHandler(s) \/ RunCallback(s)
  PROVE /\ UpdateMail(s) \/ ResetValid(s) => writes = {}
        /\ WriteTurn'
  <1>1. \A t \in Slots \ {s} : reqs'[t].pc = "free"
    BY WebTurn DEF Free
  <1>2. CASE Request(s)
    <2>1. writes = {} /\ writes' = writes /\ Free(s)
      <3>1. \E b, kind, pc, form : Arrive(s, b, kind, pc, form)
        BY <1>2 DEF Request, ReceivePost, Secure, Verify, ShowMail, NewPassword
      <3> QED BY <1>2, <3>1 DEF Arrive, MayArrive, Alone, Request, mailState
    <2>2. ~UpdateMail(s)
      BY <2>1 DEF UpdateMail, Handler, Free
    <2>3. ~ResetValid(s)
      <3>1. "reset_valid" \in Callbacks
        BY DEF Callbacks, ReadCallbacks
      <3> QED BY <2>1, <3>1, LastCallback DEF ResetValid, Turn, Free
    <2> QED BY <2>1, <2>2, <2>3 DEF WriteTurn
  <1>3. CASE PostHandler(s)
    <2>1. reqs[s].pc = "body"
      BY <1>3 DEF PostHandler, Login, UpdateMail, UpdatePassword, PostNewPassword, SetPassword,
         CreateUser, VerifyMail, ResetPassword, Handler
    <2>2. writes = {}
      BY <2>1 DEF WriteTurn
    <2>3. CASE UpdateMail(s)
      <3>1. reqs'[s].pc = "update_mail"
        <4>1. Turn(s, "body")
          BY <2>1, HasTurn DEF Free, LifeInv
        <4> QED BY <2>3, <4>1, GoesOn DEF UpdateMail
      <3>2. \A w, x \in writes' : w = x
        BY <2>2, <2>3 DEF UpdateMail, IssueMail
      <3> QED BY <1>1, <2>2, <3>1, <3>2 DEF WriteTurn
    <2>4. CASE ~UpdateMail(s)
      <3>1. writes' = writes
        BY <1>3, <2>4 DEF PostHandler, Login, UpdatePassword, PostNewPassword, SetPassword,
           CreateUser, VerifyMail, ResetPassword
      <3> QED BY <2>2, <3>1 DEF WriteTurn
    <2> QED BY <2>3, <2>4
  <1>4. CASE RunCallback(s)
    <2>1. PICK cb \in Callbacks : Callback(s, cb)
      BY <1>4 DEF RunCallback, LoginPassword, LoginValid, KeepValid, AfterValid, Finish, CreateUserKeys,
         VerifyTimestamp, ShowMailLink, ResetMail, ResetValid, NewPasswordTimestamp, NewPasswordFlag,
         Callbacks, ReadCallbacks
    <2>2. reqs[s].pc = cb /\ cb # "free" /\ Turn(s, cb)
      BY <2>1, LastCallback DEF Turn, Callbacks, ReadCallbacks
    <2>3. \A sess : Answer(s, sess) => reqs'[s].pc = "free"
      BY <2>2, GoesOn
    <2>4. ~UpdateMail(s)
      BY <2>2 DEF UpdateMail, Handler, Callbacks, ReadCallbacks
    <2>5. CASE ResetValid(s)
      <3>1. cb = "reset_valid"
        BY <2>1, <2>5 DEF ResetValid, Callback
      <3>2. writes = {}
        BY <2>2, <3>1 DEF WriteTurn
      <3>3. reqs'[s].pc = "free"
        BY <2>3, <2>5 DEF ResetValid
      <3>4. \A w, x \in writes' : w = x
        BY <2>5, <3>2 DEF ResetValid, IssueMail
      <3> QED BY <1>1, <3>2, <3>3, <3>4 DEF WriteTurn
    <2>6. CASE ~ResetValid(s)
      <3>1. writes' = writes
        BY <1>4, <2>6 DEF RunCallback, LoginPassword, LoginValid, KeepValid, Finish, CreateUserKeys,
           VerifyTimestamp, ShowMailLink, ResetMail, NewPasswordTimestamp, NewPasswordFlag
      <3>2. CASE cb = "update_mail"
        <4>1. Finish(s)
          BY <1>4, <2>1, <3>2 DEF RunCallback, Callback, LoginPassword, LoginValid, KeepValid, AfterValid,
             CreateUserKeys, VerifyTimestamp, ShowMailLink, ResetMail, ResetValid, NewPasswordTimestamp,
             NewPasswordFlag
        <4>2. reqs'[s].pc = "free"
          BY <2>3, <4>1 DEF Finish
        <4> QED BY <1>1, <2>4, <2>6, <3>1, <4>2 DEF WriteTurn
      <3>3. CASE cb # "update_mail"
        <4>1. writes = {}
          BY <2>2, <3>3 DEF WriteTurn
        <4> QED BY <2>4, <2>6, <3>1, <4>1 DEF WriteTurn
      <3> QED BY <3>2, <3>3
    <2> QED BY <2>5, <2>6
  <1> QED BY <1>2, <1>3, <1>4

\* A step of the server leaves every pending account its link.
LEMMA OfferWeb ==
  ASSUME Overlap = "none", Inv, CallbackMatched, LifeInv, OfferInv, NEW s \in Slots,
         Request(s) \/ PostHandler(s) \/ RunCallback(s)
  PROVE OfferInv'
  <1>1. WriteTurn /\ \A k \in Keys : Offered(k)
    BY DEF OfferInv, WriteTurn
  <1>2. WriteTurn' /\ (UpdateMail(s) \/ ResetValid(s) => writes = {})
    BY <1>1, WriteTurnWeb
  <1>3. admin.pc = "idle" /\ UNCHANGED <<admin, db, files>> /\ NodeTime' = NodeTime
    BY WebTurn
  <1> SUFFICES ASSUME NEW k \in Keys PROVE Offered(k)'
    BY <1>2 DEF OfferInv, WriteTurn
  <1>4. Becomes(k, "valid", "False") => \A v : Becomes(k, "timestamp", v) =>
          Becomes(k, "link", Link("verify", k, v)) \/ Mailed(k, Link("verify", k, v))
    BY <1>1, <1>3 DEF Offered
  <1>5. ASSUME Becomes(k, "valid", "False")' => \A v : Becomes(k, "timestamp", v)' =>
                 Becomes(k, "link", Link("verify", k, v))' \/ Mailed(k, Link("verify", k, v))'
        PROVE Offered(k)'
    BY <1>5 DEF Offered
  <1>6. ASSUME UNCHANGED writes PROVE \A l : Mailed(k, l)' <=> Mailed(k, l)
    BY <1>3, <1>6, MailedKept DEF Underway
  <1>7. CASE UpdateMail(s)
    <2> DEFINE u == reqs[s].sess.user
               w == [key |-> u, box |-> "mail", link |-> Link("verify", u, NodeTime)]
    <2>1. /\ Puts(u, "timestamp", NodeTime) /\ Puts(u, "valid", "False") /\ Leaves("link")
      BY <1>3, <1>7, UpdateMailPuts
    <2>2. writes = {} /\ writes' = {w}
      BY <1>2, <1>7 DEF UpdateMail, IssueMail
    <2>3. w.key = u /\ w.box = "mail" /\ w.link = Link("verify", u, NodeTime)
      OBVIOUS
    <2> HIDE DEF u, w
    <2>4. CASE k = u
      <3>1. \A l : l = Link("verify", k, NodeTime) => Mailed(k, l)'
        BY <2>2, <2>3, <2>4 DEF Mailed
      <3> QED BY <1>5, <2>1, <2>4, <3>1 DEF Puts
    <2>5. CASE k # u
      <3>1. Underway(k)' = {} /\ Underway(k) = {}
        BY <2>2, <2>3, <2>5 DEF Underway
      <3>2. \A l : Mailed(k, l)' <=> Mailed(k, l)
        BY <1>3, <3>1, MailedKept
      <3> QED BY <1>4, <1>5, <2>1, <2>5, <3>2 DEF Puts, Leaves
    <2> QED BY <2>4, <2>5
  <1>8. CASE VerifyMail(s)
    <2> DEFINE u == reqs[s].uid
    <2>1. /\ Send(<<HSetOnly(u, "timestamp", NodeTime), HSetOnly(u, "link", Link("verify", u, NodeTime))>>)
          /\ UNCHANGED writes
      BY <1>8 DEF VerifyMail, VerifyMailCmds
    <2> HIDE DEF u
    <2>2. /\ Puts(u, "timestamp", NodeTime) /\ Puts(u, "link", Link("verify", u, NodeTime))
          /\ Leaves("valid")
      BY <1>3, <2>1, TwoWrites
    <2>3. CASE k = u
      BY <1>5, <2>2, <2>3 DEF Puts
    <2>4. CASE k # u
      BY <1>4, <1>5, <1>6, <2>1, <2>2, <2>4 DEF Puts, Leaves
    <2> QED BY <2>3, <2>4
  <1>9. CASE VerifyTimestamp(s) /\ Confirms(s)
    <2> DEFINE u == gUser
    <2>1. Send(<<HSetOnly(u, "valid", "True")>>) /\ UNCHANGED writes
      BY <1>9 DEF VerifyTimestamp, LinkPage
    <2> HIDE DEF u
    <2>2. Puts(u, "valid", "True") /\ Leaves("timestamp") /\ Leaves("link")
      BY <1>3, <2>1, OneWrite
    <2> QED BY <1>4, <1>5, <1>6, <2>1, <2>2 DEF Puts, Leaves
  <1>10. CASE ResetValid(s) /\ MayReset(Reply)
    <2> DEFINE u == gUser
               w == [key |-> u, box |-> "password", link |-> Link("new_password", u, NodeTime)]
    <2>1. /\ Send(<<HSetOnly(u, "timestamp", NodeTime), HSetOnly(u, "new_password", "True")>>)
          /\ writes = {} /\ writes' = {w}
      BY <1>2, <1>10 DEF ResetValid, IssueMail
    <2>2. Quiet(pipe) /\ db[u]["valid"] = "True"
      <3>1. Callback(s, "reset_valid") /\ Reply = "True"
        BY <1>10 DEF ResetValid, MayReset
      <3>2. "reset_valid" \in Callbacks \cap Answers \cap Decisive /\ FieldRead("reset_valid") = "valid"
        BY ReadFacts DEF Callbacks, ReadCallbacks, Answers, Decisive
      <3>3. gUser = reqs[s].uid
        BY <3>1, ActingUser DEF Acting
      <3> QED BY <3>1, <3>2, <3>3, LastCallback DEF Current, HGet
    <2>3. w.box = "password"
      OBVIOUS
    <2> HIDE DEF u, w
    <2>4. Puts(u, "timestamp", NodeTime) /\ Leaves("valid") /\ Leaves("link")
      BY <1>3, <2>1, TwoWrites
    <2>5. ~Becomes(u, "valid", "False")
      BY <2>2, EndsQuiet DEF Becomes
    <2>6. Underway(k)' = {} /\ Underway(k) = {}
      BY <2>1, <2>3 DEF Underway
    <2>7. \A l : Mailed(k, l)' <=> Mailed(k, l)
      BY <1>3, <2>6, MailedKept
    <2> QED BY <1>4, <1>5, <2>4, <2>5, <2>7 DEF Puts, Leaves
  <1>11. CASE NewPasswordFlag(s) /\ Accepts(s)
    <2>1. Send(<<HSetOnly(gUser, "new_password", "False")>>) /\ UNCHANGED writes
      BY <1>11 DEF NewPasswordFlag
    <2>2. Leaves("timestamp") /\ Leaves("valid") /\ Leaves("link")
      BY <1>3, <2>1, OneWrite
    <2> QED BY <1>4, <1>5, <1>6, <2>1, <2>2 DEF Leaves
  <1>12. CASE Uneventful
    <2>1. \A f \in Watched : Leaves(f)
      BY <1>3, <1>12, AsideKeeps DEF Leaves
    <2>2. UNCHANGED writes
      BY <1>12 DEF Uneventful
    <2> QED BY <1>4, <1>5, <1>6, <2>1, <2>2 DEF Watched, Leaves
  <1> QED BY <1>7, <1>8, <1>9, <1>10, <1>11, <1>12, Events

\* The thread pool completes the one write.
LEMMA OfferWrite ==
  ASSUME Faults = {}, Inv, OfferInv, WriteFile
  PROVE OfferInv'
  <1>1. PICK w \in writes : /\ WriteDone(w) \/ WriteFails(w)
                            /\ writes' = writes \ {w}
                            /\ UNCHANGED <<db, pipe, reqs, admin>>
    BY DEF WriteFile, redisLink, webState
  <1>2. files' = [files EXCEPT ![w.key] = [@ EXCEPT ![w.box] = w.link]]
    BY <1>1 DEF WriteDone, WriteFails
  <1>3. writes = {w} /\ writes' = {}
    BY <1>1 DEF OfferInv, WriteTurn
  <1>4. files \in [Keys -> [Boxes -> Links \cup {Null}]] /\ w.key \in Keys /\ w.box \in Boxes
    BY <1>1 DEF Inv, MailInv
  <1> SUFFICES ASSUME NEW k \in Keys PROVE Offered(k)'
    BY <1>3 DEF OfferInv, WriteTurn
  <1>5. Offered(k)
    BY DEF OfferInv, WriteTurn
  <1>6. ASSUME NEW l, Mailed(k, l) PROVE Mailed(k, l)'
    <2>1. CASE w.key = k /\ w.box = "mail"
      <3>1. w.link = l
        BY <1>3, <1>6, <2>1 DEF Mailed
      <3>2. files'[k]["mail"] = l
        BY <1>2, <1>4, <2>1, <3>1
      <3> QED BY <1>3, <3>2 DEF Mailed
    <2>2. CASE ~(w.key = k /\ w.box = "mail")
      <3>1. files[k]["mail"] = l
        BY <1>3, <1>6, <2>2 DEF Mailed
      <3>2. files'[k]["mail"] = l
        BY <1>2, <1>4, <2>2, <3>1 DEF Boxes
      <3> QED BY <1>3, <3>2 DEF Mailed
    <2> QED BY <2>1, <2>2
  <1>7. \A f, v : Becomes(k, f, v)' <=> Becomes(k, f, v)
    BY <1>1 DEF Becomes
  <1> QED BY <1>1, <1>5, <1>6, <1>7 DEF Offered

\* admin.py writes the mail of the timestamp it has stored.
LEMMA OfferAdmin ==
  ASSUME Faults = {}, Inv, LifeInv, UsedAdmin, OfferInv, AdminStep
  PROVE OfferInv'
  <1> DEFINE u == admin.uid
             Shown(k) == Link("verify", k, db[k]["timestamp"]) \in {files[k]["mail"], db[k]["link"]}
  <1>1. /\ admin \in AdminCalls /\ u \in Keys /\ db \in [Keys -> [Fields -> Values]]
        /\ files \in [Keys -> [Boxes -> Links \cup {Null}]]
    BY DEF Inv, AdminInv, AdminCalls, DbInv, MailInv
  <1>2. writes = {} /\ writes' = {} /\ \A s \in Slots : reqs'[s] = reqs[s]
    BY AdminAlone
  <1>3. \A k, l : /\ Mailed(k, l) <=> files[k]["mail"] = l
                  /\ Mailed(k, l)' <=> files'[k]["mail"] = l
    BY <1>2 DEF Mailed
  <1>4. ASSUME NEW k \in Keys, db[k]["valid"] = "False", ~(u = k /\ admin.pc \in {"valid", "file"})
        PROVE Shown(k)
    <2>1. Offered(k)
      BY DEF OfferInv, WriteTurn
    <2> QED BY <1>3, <1>4, <2>1, AdminAlone DEF Offered
  <1>5. ASSUME \A k \in Keys : db'[k]["valid"] = "False" /\ ~(admin'.uid = k /\ admin'.pc \in {"valid", "file"}) =>
                 Shown(k)'
        PROVE OfferInv'
    <2>1. ASSUME NEW k \in Keys PROVE Offered(k)'
      BY <1>3, <1>5, AdminAlone DEF Offered
    <2> QED BY <1>2, <2>1 DEF OfferInv, WriteTurn
  <1>6. ASSUME NEW f \in Fields, NEW v, db' = HSet(db, u, f, v)
        PROVE /\ \A g \in Fields : g # f => db'[u][g] = db[u][g]
              /\ \A k \in Keys \ {u} : db'[k] = db[k]
    BY <1>1, <1>6 DEF HSet
  <1>7. {"valid", "timestamp", "link", "mail", "password"} \subseteq Fields
    BY DEF Fields
  <1>8. CASE AdminKeys
    <2>1. UNCHANGED <<db, files>> /\ admin.pc = "keys"
      BY <1>8 DEF AdminKeys
    <2> QED BY <1>4, <1>5, <2>1
  <1>9. CASE AdminPassword \/ AdminMail
    <2>1. /\ \E f \in {"password", "mail"} : \E v : db' = HSet(db, u, f, v)
          /\ UNCHANGED files /\ admin.pc \in {"password", "mail"}
      BY <1>9 DEF AdminPassword, AdminMail
    <2>2. \A k \in Keys, f \in {"valid", "timestamp", "link"} : db'[k][f] = db[k][f]
      BY <1>6, <1>7, <2>1
    <2> QED BY <1>4, <1>5, <2>1, <2>2
  <1>10. CASE AdminTimestamp \/ AdminValid
    <2>1. /\ \E f \in {"timestamp", "valid"} : \E v : db' = HSet(db, u, f, v)
          /\ UNCHANGED files /\ admin'.uid = u /\ admin'.pc \in {"valid", "file"}
      BY <1>1, <1>10 DEF AdminTimestamp, AdminValid, AdminCalls
    <2>2. \A k \in Keys \ {u} : db'[k] = db[k]
      BY <1>6, <1>7, <2>1
    <2> QED BY <1>4, <1>5, <2>1, <2>2
  <1>11. CASE AdminFile
    <2>1. /\ files' = [files EXCEPT ![u] = [@ EXCEPT !["mail"] = Link("verify", u, admin.ts)]]
          /\ db' = db /\ admin.pc = "file"
      BY <1>11 DEF AdminFile
    <2>2. /\ files'[u]["mail"] = Link("verify", u, admin.ts)
          /\ \A k \in Keys \ {u} : files'[k] = files[k]
      BY <1>1, <2>1 DEF Boxes
    <2>3. db[u]["timestamp"] = admin.ts
      BY <2>1 DEF UsedAdmin
    <2> QED BY <1>4, <1>5, <2>1, <2>2, <2>3
  <1>12. CASE AdminDelete
    <2>1. db' = Del(db, u) /\ UNCHANGED files /\ admin.pc = "delete"
      BY <1>12 DEF AdminDelete
    <2>2. db'[u]["valid"] = Null /\ \A k \in Keys \ {u} : db'[k] = db[k]
      BY <1>1, <1>7, <2>1 DEF Del
    <2> QED BY <1>4, <1>5, <2>1, <2>2, StoreAssumption
  <1>13. ~AdminAborts
    BY DEF AdminAborts
  <1> QED BY <1>8, <1>9, <1>10, <1>11, <1>12, <1>13 DEF AdminStep

\* Every step leaves a pending account its link.
LEMMA OfferNext ==
  ASSUME Overlap = "none", Faults = {}, Inv, CallbackMatched, LifeInv, UsedAdmin, OfferInv, [Next]_vars
  PROVE OfferInv'
  <1>1. ASSUME UNCHANGED <<reqs, writes, files, pipe, db>>,
               admin' = admin \/ (admin.pc = "idle" /\ admin'.pc \in {"keys", "delete"})
        PROVE OfferInv'
    <2>1. \A k, f, v : Becomes(k, f, v)' <=> Becomes(k, f, v)
      BY <1>1 DEF Becomes
    <2>2. \A k, l : Mailed(k, l)' <=> Mailed(k, l)
      BY <1>1 DEF Mailed
    <2>3. \A k \in Keys : Offered(k)'
      BY <1>1, <2>1, <2>2 DEF OfferInv, WriteTurn, Offered
    <2> QED BY <1>1, <2>3 DEF OfferInv, WriteTurn
  <1>2. CASE \E s \in Slots : Request(s) \/ PostHandler(s) \/ RunCallback(s)
    BY <1>2, OfferWeb
  <1>3. CASE RedisServe
    <2>1. UNCHANGED <<reqs, writes, files, admin>>
      BY <1>3 DEF RedisServe, webState, mailState
    <2>2. \A k \in Keys, f \in {"valid", "timestamp", "link"} : \A v : Becomes(k, f, v)' <=> Becomes(k, f, v)
      BY <1>3, ServeKeeps DEF Fields
    <2>3. \A k, l : Mailed(k, l)' <=> Mailed(k, l)
      BY <2>1 DEF Mailed
    <2>4. \A k \in Keys : Offered(k)'
      BY <2>1, <2>2, <2>3 DEF OfferInv, WriteTurn, Offered
    <2> QED BY <2>1, <2>4 DEF OfferInv, WriteTurn
  <1>4. CASE \E b \in Browsers : Logout(b)
    BY <1>1, <1>4 DEF Logout, redisLink, mailState
  <1>5. CASE WriteFile
    BY <1>5, OfferWrite
  <1>6. CASE \E op \in AdminOps : AdminStart(op)
    <2>1. admin.pc = "idle" /\ admin'.pc \in {"keys", "delete"} /\ UNCHANGED <<reqs, writes, files, pipe, db>>
      BY <1>6 DEF AdminStart, MayAdminister, redisLink, webState, mailState
    <2> QED BY <1>1, <2>1
  <1>7. CASE AdminStep
    BY <1>7, OfferAdmin
  <1>8. CASE Tick
    BY <1>1, <1>8 DEF Tick, redisLink, webState, mailState
  <1>9. CASE Idle \/ UNCHANGED vars
    BY <1>1, <1>9 DEF Idle, vars
  <1> QED BY <1>2, <1>3, <1>4, <1>5, <1>6, <1>7, <1>8, <1>9 DEF Next

\* At the start the mail of every pending account is in its file.
LEMMA OfferInit == ASSUME Init PROVE OfferInv
  <1>1. PICK st \in [Names -> Start], p \in Passwords, m \in Mails :
          /\ db = [k \in Keys |-> Account(k, IF k = Undef THEN "absent" ELSE st[k], p, m)]
          /\ files = [k \in Keys |-> [b \in Boxes |->
                        IF b = "mail" /\ k # Undef /\ st[k] # "absent"
                          THEN Link("verify", k, FirstTime) ELSE Null]]
    BY DEF Init
  <1>2. pipe = <<>> /\ writes = {}
    BY DEF Init
  <1>3. \A k \in Keys : db[k]["valid"] = "False" =>
          db[k]["timestamp"] = FirstTime /\ k # Undef /\ st[k] # "absent"
    BY <1>1, StoreAssumption DEF Account, Fields
  <1>4. \A k \in Keys : db[k]["valid"] = "False" => files[k]["mail"] = Link("verify", k, db[k]["timestamp"])
    BY <1>1, <1>3 DEF Boxes
  <1>5. ASSUME NEW k \in Keys PROVE Offered(k)
    <2> SUFFICES ASSUME Becomes(k, "valid", "False"), NEW v, Becomes(k, "timestamp", v)
                 PROVE Mailed(k, Link("verify", k, v))
      BY DEF Offered
    <2>1. db[k]["valid"] = "False" /\ db[k]["timestamp"] = v
      BY <1>2, EndsEmpty DEF Becomes
    <2> QED BY <1>2, <1>4, <2>1 DEF Mailed
  <1> QED BY <1>2, <1>5 DEF OfferInv, WriteTurn

\* When requests and calls of admin.py are served one by one, no file write
\* fails and admin.py is not interrupted, every account that waits for its
\* confirmation has, once the server is idle, a link that will be accepted: in
\* its mail file or on its page, with the token of the stored timestamp.
THEOREM PendingConfirmable ==
  ASSUME Overlap = "none", Faults = {} PROVE Spec => []PendingCanConfirm
  <1>1. Init => OfferInv
    BY OfferInit
  <1>2. Inv /\ CallbackMatched /\ LifeInv /\ OnceInv /\ OfferInv /\ [Next]_vars => OfferInv'
    BY OfferNext DEF OnceInv, UsedInv
  <1>3. ASSUME OfferInv PROVE PendingCanConfirm
    <2> SUFFICES ASSUME Settled, NEW k \in Keys, db[k]["valid"] = "False"
                 PROVE Link("verify", k, db[k]["timestamp"]) \in {files[k]["mail"], db[k]["link"]}
      BY DEF PendingCanConfirm
    <2>1. pipe = <<>> /\ writes = {} /\ admin.pc = "idle"
      BY DEF Settled, Alone
    <2>2. \A f, v : Becomes(k, f, v) <=> db[k][f] = v
      BY <2>1, EndsEmpty DEF Becomes
    <2>3. Offered(k)
      BY <1>3 DEF OfferInv, WriteTurn
    <2> QED BY <2>1, <2>2, <2>3 DEF Offered, Mailed
  <1>4. Spec => []LifeInv
    BY LifeHolds
  <1>5. Spec => []OnceInv
    BY OnceHolds
  <1>6. OfferInv => PendingCanConfirm
    BY <1>3
  <1> QED BY <1>1, <1>2, <1>4, <1>5, <1>6, InvHolds, CallbacksMatched, PTL DEF Spec
=============================================================================
