---------------------------- MODULE AuthService ----------------------------
(***************************************************************************)
(* The user management server: the Express application (app.js,            *)
(* lib/routes.js), its one Redis connection, the session store of the      *)
(* Express session middleware, the mails directory, and admin.py, which    *)
(* works on the same Redis through a connection of its own.                *)
(*                                                                         *)
(* Node runs one callback at a time, so a handler up to its first Redis    *)
(* reply, and every Redis callback, is one action.  Commands of the server *)
(* wait in `pipe`, Redis serves them in order, and their replies wait in   *)
(* `replies` until node runs the callbacks in the same order.              *)
(***************************************************************************)
EXTENDS Integers, Sequences, FiniteSets, RedisStore

CONSTANTS
  Names,        \* user names people type
  Undef,        \* the string "undefined": what an unset session.user becomes
  Passwords, Mails,
  Browsers,     \* clients, each holding one session cookie
  Slots,        \* requests the server can have in flight
  Kinds,        \* the routes the browsers use
  AdminOps,     \* the options admin.py is called with
  Faults,       \* "write": a mail file cannot be written; "admin": admin.py is interrupted
  Overlap,      \* "none", "browser" or "all": which requests may overlap
  Start,        \* the states an account may be in at the start
  Epoch,        \* the clock at the start, in seconds
  MaxTime,      \* bound: seconds that may pass
  Window,       \* validity of a reset link in seconds (1800 in the code)
  AdminDiv,     \* admin.py divides the clock by this (1000 in the code)
  MaxRequests,  \* bound: requests of the browsers
  MaxCommands   \* bound: calls of admin.py

PostKinds == {"login", "update_mail", "update_password", "create_user",
              "verify_mail", "reset_password", "set_password"}
GetKinds == {"secure", "logout", "verify", "show_mail", "new_password"}

ASSUME StoreAssumption ==
  /\ Undef \notin Names
  /\ Null \notin Names \cup {Undef} \cup Passwords \cup Mails \cup Browsers \cup Slots
  /\ Null \notin {"True", "False"}
  /\ Passwords # {} /\ Mails # {}

ASSUME InputAssumption ==
  /\ Kinds \subseteq PostKinds \cup GetKinds
  /\ AdminOps \subseteq {"-c", "-p", "-m", "-d"}
  /\ Faults \subseteq {"write", "admin"}
  /\ Overlap \in {"none", "browser", "all"}
  /\ Start \subseteq {"absent", "pending", "confirmed"}

ASSUME TimeAssumption ==
  /\ Epoch \in Nat /\ MaxTime \in Nat /\ Window \in Nat
  /\ AdminDiv \in Nat \ {0}
  /\ MaxRequests \in Nat /\ MaxCommands \in Nat

VARIABLES
  db,        \* the Redis data set
  pipe,      \* commands of the server that Redis has not served yet
  replies,   \* replies whose callbacks node has not run yet
  reqs,      \* the requests in flight
  sessions,  \* the session store of the middleware
  gUser,     \* the global variable `user` of routes.js
  gToken,    \* the global variable `token` of routes.js
  writes,    \* fs.writeFile calls that have not completed
  files,     \* the mails directory, which express.static serves
  admin,     \* the running call of admin.py
  now,       \* the clock in seconds
  nreq, ncmd,\* requests and admin.py calls made so far
  seen,      \* the links people have been shown
  used,      \* the links accepted since they were last issued
  out        \* the last page that answered a link

webState == <<reqs, sessions, gUser, gToken>>
redisLink == <<pipe, replies>>
mailState == <<writes, files, seen>>
counters == <<nreq, ncmd>>
vars == <<db, pipe, replies, reqs, sessions, gUser, gToken, writes, files,
          admin, now, nreq, ncmd, seen, used, out>>

-----------------------------------------------------------------------------
(* Data.                                                                   *)

Keys == Names \cup {Undef}

\* sha256(username + password): the name is the salt.
Hash(u, p) == [salt |-> u, pw |-> p]

\* A timestamp, and its hash, the token of a link.  The server stores whole
\* seconds; admin.py stores the float floor(seconds / 1000), which never
\* prints like a whole number.
NodeTime == [src |-> "node", at |-> now]
AdminTime(t) == [src |-> "admin", at |-> t \div AdminDiv]

Link(kind, u, ts) == [kind |-> kind, uid |-> u, tok |-> ts]

Hashes == [salt : Keys, pw : Passwords \cup {Null}]
Timestamps == [src : {"node", "admin"}, at : Nat]
Links == [kind : {"verify", "new_password"}, uid : Keys, tok : Timestamps]
Flags == {"True", "False"}
Boxes == {"mail", "password"}   \* <name>_mail.html and <name>_password.html

NoSession == [auth |-> FALSE, user |-> Undef, valid |-> Null]
NoReq == [pc |-> "free", kind |-> "none", br |-> Null, uid |-> Undef,
          pw |-> Null, mail |-> Null, tok |-> Null, sess |-> NoSession,
          ts |-> Null]
NoAdmin == [pc |-> "idle", op |-> "none", uid |-> Undef, pw |-> Null,
            mail |-> Null, ts |-> Null]
NoPage == [page |-> "none", link |-> Null]

Free(s) == reqs[s].pc = "free"

\* Commands with a callback that matters, and those whose callback is empty.
HGetCmd(k, f, s, cb) ==
  [op |-> "hget", key |-> k, field |-> f, val |-> Null, slot |-> s, cb |-> cb]
HSetCmd(k, f, v, s, cb) ==
  [op |-> "hset", key |-> k, field |-> f, val |-> v, slot |-> s, cb |-> cb]
HSetOnly(k, f, v) == HSetCmd(k, f, v, Null, "none")
KeysCmd(k, s, cb) ==
  [op |-> "keys", key |-> k, field |-> "none", val |-> Null, slot |-> s, cb |-> cb]

-----------------------------------------------------------------------------
(* Initial states: accounts admin.py -c has created, some of them already  *)
(* confirmed, and browsers with an empty session or logged in.             *)

FirstTime == AdminTime(Epoch)

Account(u, st, p, m) ==
  [f \in Fields |->
     IF st = "absent" THEN Null
     ELSE CASE f = "password" -> Hash(u, p)
            [] f = "mail" -> m
            [] f = "timestamp" -> FirstTime
            [] f = "valid" -> (IF st = "confirmed" THEN "True" ELSE "False")
            [] OTHER -> Null]

Init ==
  /\ \E st \in [Names -> Start], p \in Passwords, m \in Mails :
       /\ db = [k \in Keys |-> Account(k, IF k = Undef THEN "absent" ELSE st[k], p, m)]
       /\ files = [k \in Keys |-> [b \in Boxes |->
                     IF b = "mail" /\ k # Undef /\ st[k] # "absent"
                       THEN Link("verify", k, FirstTime) ELSE Null]]
       /\ seen = {Link("verify", u, FirstTime) : u \in {n \in Names : st[n] # "absent"}}
       /\ used = {Link("verify", u, FirstTime) : u \in {n \in Names : st[n] = "confirmed"}}
       /\ sessions \in [Browsers -> {NoSession} \cup
            {[auth |-> TRUE, user |-> u, valid |-> Null] : u \in {n \in Names : st[n] = "confirmed"}}]
  /\ pipe = <<>> /\ replies = <<>>
  /\ reqs = [s \in Slots |-> NoReq]
  /\ gUser = Undef /\ gToken = Null
  /\ writes = {}
  /\ admin = NoAdmin
  /\ now = Epoch
  /\ nreq = 0 /\ ncmd = 0
  /\ out = NoPage

-----------------------------------------------------------------------------
(* The steps every handler is made of.                                     *)

\* The connection is a pipeline: commands queue behind those sent before.
Send(cmds) == pipe' = pipe \o cmds

\* Node takes the oldest reply and runs its callback.
Callback(s, cb) ==
  /\ replies # <<>>
  /\ Head(replies).slot = s
  /\ Head(replies).cb = cb
  /\ replies' = Tail(replies)

Reply == Head(replies).val

\* The handler of s waits for its next callback with session copy `sess`.
Await(s, pc, sess) ==
  /\ reqs' = [reqs EXCEPT ![s] = [@ EXCEPT !.pc = pc, !.sess = sess]]
  /\ UNCHANGED sessions

\* res.redirect and res.render end the request; the middleware then writes
\* the request's copy of the session back, whatever happened to it meanwhile.
Answer(s, sess) ==
  /\ reqs' = [reqs EXCEPT ![s] = NoReq]
  /\ sessions' = [sessions EXCEPT ![reqs[s].br] = sess]

\* The page that answers a clicked link; an accepted link is used up.
LinkPage(page, link) ==
  /\ out' = [page |-> page, link |-> link]
  /\ used' = IF page = "fail" THEN used ELSE used \cup {link}

\* A mail text is generated: its file is written in the background.
IssueMail(u, box, link) ==
  /\ writes' = writes \cup {[key |-> u, box |-> box, link |-> link]}
  /\ used' = used \ {link}

\* Which requests overlap: none, those of different browsers, or all.
Alone == (\A s \in Slots : Free(s)) /\ admin.pc = "idle" /\ writes = {}
MayArrive(b) ==
  /\ nreq < MaxRequests
  /\ Overlap = "none" => Alone
  /\ Overlap = "browser" => \A s \in Slots : Free(s) \/ reqs[s].br # b
MayAdminister ==
  /\ ncmd < MaxCommands
  /\ admin.pc = "idle"
  /\ Overlap = "none" => Alone /\ pipe = <<>> /\ replies = <<>>

\* A request of browser b enters slot s with a copy of b's session.
Arrive(s, b, kind, pc, form) ==
  /\ kind \in Kinds
  /\ Free(s)
  /\ MayArrive(b)
  /\ nreq' = nreq + 1
  /\ reqs' = [reqs EXCEPT ![s] =
       [pc |-> pc, kind |-> kind, br |-> b, uid |-> form.uid, pw |-> form.pw,
        mail |-> form.mail, tok |-> form.tok, sess |-> sessions[b], ts |-> Null]]

-----------------------------------------------------------------------------
(* Requests arrive.  A GET is handled at once.                             *)

NoForm == [uid |-> Undef, pw |-> Null, mail |-> Null, tok |-> Null]

\* The form fields a POST carries (uid is the :uid parameter of verify_mail).
Form(kind) ==
  [uid : IF kind \in {"login", "create_user", "reset_password", "verify_mail"}
           THEN Names ELSE {Undef},
   pw : IF kind \in {"login", "create_user", "update_password", "set_password"}
          THEN Passwords ELSE {Null},
   mail : IF kind \in {"update_mail", "create_user", "reset_password"}
            THEN Mails ELSE {Null},
   tok : {Null}]

\* The session middleware runs before the body parser: the session copy is
\* older than the body the handler waits for.
ReceivePost(s, b) ==
  /\ \E kind \in PostKinds : \E f \in Form(kind) : Arrive(s, b, kind, "body", f)
  /\ UNCHANGED <<pipe, gUser, gToken>>

\* GET /secure, behind checkAuth
Secure(s, b) ==
  /\ sessions[b].auth
  /\ Arrive(s, b, "secure", "secure_valid", NoForm)
  /\ Send(<<HGetCmd(sessions[b].user, "valid", s, "secure_valid"),
            HGetCmd(sessions[b].user, "mail", s, "secure_mail")>>)
  /\ UNCHANGED <<gUser, gToken>>

\* Mutant: the handlers do not assign the global `user`.
LinkUserKept(l) == gUser

\* What a click assigns to the global `user`.
LinkUser(l) == l.uid

\* GET /verify/user=:uid&token=:token
Verify(s, b) ==
  \E l \in seen :
    /\ l.kind = "verify"
    /\ Arrive(s, b, "verify", "verify_valid", [NoForm EXCEPT !.uid = l.uid, !.tok = l.tok])
    /\ gUser' = LinkUser(l)
    /\ gToken' = l.tok
    /\ Send(<<HGetCmd(l.uid, "valid", s, "verify_valid"),
              HGetCmd(l.uid, "timestamp", s, "verify_timestamp")>>)

\* GET /verify_mail/user=:uid
ShowMail(s, b) ==
  \E u \in Names :
    /\ Arrive(s, b, "show_mail", "show_mail", [NoForm EXCEPT !.uid = u])
    /\ Send(<<HGetCmd(u, "link", s, "show_mail")>>)
    /\ UNCHANGED <<gUser, gToken>>

\* GET /new_password/user=:uid&token=:token
NewPassword(s, b) ==
  \E l \in seen :
    /\ l.kind = "new_password"
    /\ Arrive(s, b, "new_password", "new_password_valid",
              [NoForm EXCEPT !.uid = l.uid, !.tok = l.tok])
    /\ gUser' = LinkUser(l)
    /\ gToken' = l.tok
    /\ Send(<<HGetCmd(l.uid, "valid", s, "new_password_valid"),
              HGetCmd(l.uid, "timestamp", s, "new_password_timestamp")>>)

Request(s) ==
  /\ \E b \in Browsers :
       ReceivePost(s, b) \/ Secure(s, b) \/ Verify(s, b) \/ ShowMail(s, b) \/ NewPassword(s, b)
  /\ UNCHANGED <<db, replies, sessions, mailState, admin, now, ncmd, used, out>>

Logout(b) ==
  /\ "logout" \in Kinds
  /\ MayArrive(b)
  /\ nreq' = nreq + 1
  /\ sessions' = [sessions EXCEPT ![b] = [@ EXCEPT !.auth = FALSE]]
  /\ UNCHANGED <<db, redisLink, reqs, gUser, gToken, mailState, admin, now, ncmd, used, out>>

-----------------------------------------------------------------------------
(* The body of a POST is there and its handler runs.                       *)

Handler(s, kind) == reqs[s].pc = "body" /\ reqs[s].kind = kind

Login(s) ==
  /\ Handler(s, "login")
  /\ Send(<<HGetCmd(reqs[s].uid, "password", s, "login_password")>>)
  /\ Await(s, "login_password", reqs[s].sess)
  /\ UNCHANGED <<gUser, writes, used>>

\* Mutant: the address is stored before the confirmation is withdrawn.
UpdateMailLate(s, u) ==
  <<HSetOnly(u, "timestamp", NodeTime),
    HSetCmd(u, "mail", reqs[s].mail, s, "update_mail"),
    HSetOnly(u, "valid", "False")>>

\* Mutant: the new timestamp is not stored.
UpdateMailUntimed(s, u) ==
  <<HSetOnly(u, "valid", "False"), HSetCmd(u, "mail", reqs[s].mail, s, "update_mail")>>

UpdateMailCmds(s, u) ==
  <<HSetOnly(u, "timestamp", NodeTime),
    HSetOnly(u, "valid", "False"),
    HSetCmd(u, "mail", reqs[s].mail, s, "update_mail")>>

UpdateMail(s) ==
  LET u == reqs[s].sess.user IN
  /\ Handler(s, "update_mail")
  /\ gUser' = u
  /\ Send(UpdateMailCmds(s, u))
  /\ IssueMail(u, "mail", Link("verify", u, NodeTime))
  /\ Await(s, "update_mail", [reqs[s].sess EXCEPT !.valid = "False"])

\* Mutant: the key is the global `user`, the salt the user of the session.
PasswordCmdGlobal(s, kind) ==
  HSetCmd(gUser, "password", Hash(reqs[s].sess.user, reqs[s].pw), s, kind)

PasswordCmd(s, kind) ==
  HSetCmd(reqs[s].sess.user, "password", Hash(reqs[s].sess.user, reqs[s].pw), s, kind)

\* update_password and new_password differ only in where they redirect to.
SetPassword(s, kind) ==
  /\ Handler(s, kind)
  /\ Send(<<PasswordCmd(s, kind)>>)
  /\ Await(s, kind, reqs[s].sess)
  /\ UNCHANGED <<gUser, writes, used>>

UpdatePassword(s) == SetPassword(s, "update_password")
PostNewPassword(s) == SetPassword(s, "set_password")

CreateUser(s) ==
  /\ Handler(s, "create_user")
  /\ Send(<<KeysCmd(reqs[s].uid, s, "create_user")>>)
  /\ Await(s, "create_user", reqs[s].sess)
  /\ UNCHANGED <<gUser, writes, used>>

\* Mutant: the two values are swapped.
VerifyMailSwapped(u, link) ==
  <<HSetOnly(u, "timestamp", link), HSetOnly(u, "link", NodeTime)>>

VerifyMailCmds(u, link) ==
  <<HSetOnly(u, "timestamp", NodeTime), HSetOnly(u, "link", link)>>

\* This one redirects without waiting for Redis.
VerifyMail(s) ==
  LET u == reqs[s].uid
      link == Link("verify", u, NodeTime)
  IN
  /\ Handler(s, "verify_mail")
  /\ gUser' = u
  /\ Send(VerifyMailCmds(u, link))
  /\ used' = used \ {link}
  /\ Answer(s, reqs[s].sess)
  /\ UNCHANGED writes

ResetPassword(s) ==
  /\ Handler(s, "reset_password")
  /\ gUser' = reqs[s].uid
  /\ Send(<<HGetCmd(reqs[s].uid, "mail", s, "reset_mail")>>)
  /\ Await(s, "reset_mail", reqs[s].sess)
  /\ UNCHANGED <<writes, used>>

PostHandler(s) ==
  /\ \/ Login(s) \/ UpdateMail(s) \/ UpdatePassword(s) \/ PostNewPassword(s)
     \/ CreateUser(s) \/ VerifyMail(s) \/ ResetPassword(s)
  /\ UNCHANGED <<db, replies, gToken, files, seen, admin, now, counters, out>>

-----------------------------------------------------------------------------
(* The callbacks.  None of them assigns the globals `user` and `token`.    *)

LoginPassword(s) ==
  LET right == Reply = Hash(reqs[s].uid, reqs[s].pw) IN
  /\ Callback(s, "login_password")
  /\ \/ /\ right
        /\ Send(<<HGetCmd(reqs[s].uid, "valid", s, "login_valid")>>)
        /\ Await(s, "login_valid", reqs[s].sess)
     \/ /\ ~right
        /\ Answer(s, reqs[s].sess)
        /\ UNCHANGED pipe
  /\ UNCHANGED <<writes, seen, used, out>>

MayLogin(v) == v = "True"

LoginValid(s) ==
  /\ Callback(s, "login_valid")
  /\ Answer(s, IF MayLogin(Reply)
                 THEN [reqs[s].sess EXCEPT !.auth = TRUE, !.user = reqs[s].uid]
                 ELSE reqs[s].sess)
  /\ UNCHANGED <<pipe, writes, seen, used, out>>

\* The first of two reads keeps its result in the session copy.
AfterValid == [secure_valid |-> "secure_mail",
               verify_valid |-> "verify_timestamp",
               new_password_valid |-> "new_password_timestamp"]

KeepValid(s) ==
  /\ \E cb \in DOMAIN AfterValid :
       /\ Callback(s, cb)
       /\ Await(s, AfterValid[cb], [reqs[s].sess EXCEPT !.valid = Reply])
  /\ UNCHANGED <<pipe, writes, seen, used, out>>

\* The last callback of these handlers renders or redirects.
Finish(s) ==
  /\ \E cb \in {"secure_mail", "update_mail", "update_password", "set_password"} :
       Callback(s, cb)
  /\ Answer(s, reqs[s].sess)
  /\ UNCHANGED <<pipe, writes, seen, used, out>>

CreateUserKeys(s) ==
  LET r == reqs[s] IN
  /\ Callback(s, "create_user")
  /\ \/ /\ Reply = {}
        /\ Send(<<HSetOnly(r.uid, "password", Hash(r.uid, r.pw)),
                  HSetOnly(r.uid, "mail", r.mail)>>)
     \/ /\ Reply # {}
        /\ UNCHANGED pipe
  /\ Answer(s, r.sess)
  /\ UNCHANGED <<writes, seen, used, out>>

\* Mutant: an account that is confirmed already is confirmed again.
ConfirmsAgain(s) == gToken = Reply

\* time_diff is computed here and not looked at.
Confirms(s) == gToken = Reply /\ reqs[s].sess.valid = "False"

VerifyTimestamp(s) ==
  LET link == Link("verify", reqs[s].uid, reqs[s].tok) IN
  /\ Callback(s, "verify_timestamp")
  /\ \/ /\ Confirms(s)
        /\ Send(<<HSetOnly(gUser, "valid", "True")>>)
        /\ LinkPage("success", link)
     \/ /\ ~Confirms(s)
        /\ LinkPage("fail", link)
        /\ UNCHANGED pipe
  /\ Answer(s, reqs[s].sess)
  /\ UNCHANGED <<writes, seen>>

ShowMailLink(s) ==
  /\ Callback(s, "show_mail")
  /\ seen' = seen \cup ({Reply} \ {Null})
  /\ Answer(s, reqs[s].sess)
  /\ UNCHANGED <<pipe, writes, used, out>>

ResetMail(s) ==
  /\ Callback(s, "reset_mail")
  /\ \/ /\ Reply = reqs[s].mail
        /\ Send(<<HGetCmd(gUser, "valid", s, "reset_valid")>>)
        /\ Await(s, "reset_valid", reqs[s].sess)
     \/ /\ Reply # reqs[s].mail
        /\ Answer(s, reqs[s].sess)
        /\ UNCHANGED pipe
  /\ UNCHANGED <<writes, seen, used, out>>

\* Mutant: the confirmation is not looked at.
MayResetAlways(v) == TRUE

MayReset(v) == v = "True"

ResetValid(s) ==
  /\ Callback(s, "reset_valid")
  /\ \/ /\ MayReset(Reply)
        /\ Send(<<HSetOnly(gUser, "timestamp", NodeTime),
                  HSetOnly(gUser, "new_password", "True")>>)
        /\ IssueMail(gUser, "password", Link("new_password", gUser, NodeTime))
     \/ /\ ~MayReset(Reply)
        /\ UNCHANGED <<pipe, writes, used>>
  /\ Answer(s, reqs[s].sess)
  /\ UNCHANGED <<seen, out>>

NewPasswordTimestamp(s) ==
  /\ Callback(s, "new_password_timestamp")
  /\ Send(<<HGetCmd(gUser, "new_password", s, "new_password_flag")>>)
  /\ reqs' = [reqs EXCEPT ![s] = [@ EXCEPT !.pc = "new_password_flag", !.ts = Reply]]
  /\ UNCHANGED <<sessions, writes, seen, used, out>>

Accepts(s) ==
  gToken = reqs[s].ts /\ now - reqs[s].ts.at < Window /\ Reply = "True"

\* Mutant: the reset link also logs its user in.
AcceptedAndIn(sess) == [sess EXCEPT !.user = gUser, !.auth = TRUE]

\* The session an accepted reset link leaves behind.
Accepted(sess) == [sess EXCEPT !.user = gUser]

NewPasswordFlag(s) ==
  LET link == Link("new_password", reqs[s].uid, reqs[s].tok) IN
  /\ Callback(s, "new_password_flag")
  /\ \/ /\ Accepts(s)
        /\ Send(<<HSetOnly(gUser, "new_password", "False")>>)
        /\ Answer(s, Accepted(reqs[s].sess))
        /\ LinkPage("accept_password", link)
     \/ /\ ~Accepts(s)
        /\ Answer(s, reqs[s].sess)
        /\ LinkPage("fail", link)
        /\ UNCHANGED pipe
  /\ UNCHANGED <<writes, seen>>

RunCallback(s) ==
  /\ \/ LoginPassword(s) \/ LoginValid(s) \/ KeepValid(s) \/ Finish(s)
     \/ CreateUserKeys(s) \/ VerifyTimestamp(s) \/ ShowMailLink(s)
     \/ ResetMail(s) \/ ResetValid(s) \/ NewPasswordTimestamp(s) \/ NewPasswordFlag(s)
  /\ UNCHANGED <<db, gUser, gToken, files, admin, now, counters>>

-----------------------------------------------------------------------------
(* Redis serves the server's commands one at a time.                       *)

Result(c) == CASE c.op = "hget" -> HGet(db, c.key, c.field)
               [] c.op = "keys" -> KeysLike(db, c.key)
               [] OTHER -> Null

\* The data set after command c.
Store(c) == IF c.op = "hset" THEN HSet(db, c.key, c.field, c.val) ELSE db

\* Mutant: the youngest reply is handled first.
RepliedLast(c) ==
  IF c.cb = "none" THEN replies
  ELSE <<[slot |-> c.slot, cb |-> c.cb, val |-> Result(c)]>> \o replies

\* Mutant: a nil reply has no callback.
RepliedSome(c) ==
  IF c.cb = "none" \/ (c.op = "hget" /\ Result(c) = Null) THEN replies
  ELSE Append(replies, [slot |-> c.slot, cb |-> c.cb, val |-> Result(c)])

\* Replies come back in the order of their commands; those whose callback is
\* empty are dropped.
Replied(c) ==
  IF c.cb = "none" THEN replies
  ELSE Append(replies, [slot |-> c.slot, cb |-> c.cb, val |-> Result(c)])

RedisServe ==
  LET c == Head(pipe) IN
  /\ pipe # <<>>
  /\ pipe' = Tail(pipe)
  /\ db' = Store(c)
  /\ replies' = Replied(c)
  /\ UNCHANGED <<webState, mailState, admin, now, counters, used, out>>

-----------------------------------------------------------------------------
(* The thread pool completes the file writes in any order; a failed one is *)
(* only logged.                                                            *)

WriteDone(w) ==
  /\ files' = [files EXCEPT ![w.key] = [@ EXCEPT ![w.box] = w.link]]
  /\ seen' = seen \cup {w.link}

WriteFails(w) == "write" \in Faults /\ UNCHANGED <<files, seen>>

WriteFile == \E w \in writes :
  /\ WriteDone(w) \/ WriteFails(w)
  /\ writes' = writes \ {w}
  /\ UNCHANGED <<db, redisLink, webState, admin, now, counters, used, out>>

-----------------------------------------------------------------------------
(* admin.py: one process, one Redis command after the other.               *)

AdminStart(op) ==
  /\ MayAdminister
  /\ \E u \in Names,
        p \in (IF op \in {"-c", "-p"} THEN Passwords ELSE {Null}),
        m \in (IF op \in {"-c", "-m"} THEN Mails ELSE {Null}) :
       admin' = [pc |-> IF op = "-d" THEN "delete" ELSE "keys", op |-> op,
                 uid |-> u, pw |-> p, mail |-> m, ts |-> Null]
  /\ ncmd' = ncmd + 1
  /\ UNCHANGED <<db, redisLink, webState, mailState, now, nreq, used, out>>

\* -c goes on when no key matches the name, -p and -m when one does.
AdminKeys ==
  LET found == KeysLike(db, admin.uid) # {} IN
  /\ admin.pc = "keys"
  /\ admin' = IF found = (admin.op = "-c") THEN NoAdmin
              ELSE [admin EXCEPT !.pc = IF admin.op = "-m" THEN "mail" ELSE "password"]
  /\ UNCHANGED <<db, files, seen, used>>

AdminPassword ==
  /\ admin.pc = "password"
  /\ db' = HSet(db, admin.uid, "password", Hash(admin.uid, admin.pw))
  /\ admin' = IF admin.op = "-p" THEN NoAdmin ELSE [admin EXCEPT !.pc = "mail"]
  /\ UNCHANGED <<files, seen, used>>

\* The reply to this command leads into createMail, which reads the clock.
AdminMail ==
  /\ admin.pc = "mail"
  /\ db' = HSet(db, admin.uid, "mail", admin.mail)
  /\ admin' = [admin EXCEPT !.pc = "timestamp", !.ts = AdminTime(now)]
  /\ UNCHANGED <<files, seen, used>>

AdminTimestamp ==
  /\ admin.pc = "timestamp"
  /\ db' = HSet(db, admin.uid, "timestamp", admin.ts)
  /\ admin' = [admin EXCEPT !.pc = "valid"]
  /\ used' = used \ {Link("verify", admin.uid, admin.ts)}
  /\ UNCHANGED <<files, seen>>

AdminValid ==
  /\ admin.pc = "valid"
  /\ db' = HSet(db, admin.uid, "valid", "False")
  /\ admin' = [admin EXCEPT !.pc = "file"]
  /\ UNCHANGED <<files, seen, used>>

AdminFile ==
  LET link == Link("verify", admin.uid, admin.ts) IN
  /\ admin.pc = "file"
  /\ files' = [files EXCEPT ![admin.uid] = [@ EXCEPT !["mail"] = link]]
  /\ seen' = seen \cup {link}
  /\ admin' = NoAdmin
  /\ UNCHANGED <<db, used>>

AdminDelete ==
  /\ admin.pc = "delete"
  /\ db' = Del(db, admin.uid)
  /\ admin' = NoAdmin
  /\ UNCHANGED <<files, seen, used>>

\* A Redis or file error, or the administrator, ends the call half way.
AdminAborts ==
  /\ "admin" \in Faults
  /\ admin.pc # "idle"
  /\ admin' = NoAdmin
  /\ UNCHANGED <<db, files, seen, used>>

AdminStep ==
  /\ \/ AdminKeys \/ AdminPassword \/ AdminMail \/ AdminTimestamp
     \/ AdminValid \/ AdminFile \/ AdminDelete \/ AdminAborts
  /\ UNCHANGED <<redisLink, webState, writes, now, counters, out>>

-----------------------------------------------------------------------------
Tick ==
  /\ now < Epoch + MaxTime
  /\ now' = now + 1
  /\ UNCHANGED <<db, redisLink, webState, mailState, admin, counters, used, out>>

\* Nothing is under way and the server waits for the next request.
Idle == Alone /\ pipe = <<>> /\ replies = <<>> /\ UNCHANGED vars

Next ==
  \/ \E s \in Slots : Request(s) \/ PostHandler(s) \/ RunCallback(s)
  \/ \E b \in Browsers : Logout(b)
  \/ RedisServe
  \/ WriteFile
  \/ \E op \in AdminOps : AdminStart(op)
  \/ AdminStep
  \/ Tick
  \/ Idle

Spec == Init /\ [][Next]_vars

\* Redis, node's event loop and the thread pool keep going, and admin.py runs
\* on.  Nothing is assumed of the browsers, which may never send a body, or of
\* the clock.
Fairness ==
  /\ WF_vars(RedisServe)
  /\ WF_vars(\E s \in Slots : RunCallback(s))
  /\ WF_vars(WriteFile)
  /\ WF_vars(AdminStep)

FairSpec == Spec /\ Fairness
=============================================================================
