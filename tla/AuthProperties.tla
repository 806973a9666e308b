--------------------------- MODULE AuthProperties ---------------------------
(***************************************************************************)
(* What the user management has to guarantee: for any interleaving of the  *)
(* requests, and when requests are served one by one.                      *)
(***************************************************************************)
EXTENDS AuthService

\* What each field of an account, and the reply to a read of it, may be.
FieldValues(f) ==
  {Null} \cup CASE f = "password" -> Hashes
                [] f = "mail" -> Mails
                [] f = "timestamp" -> Timestamps
                [] f = "link" -> Links
                [] OTHER -> Flags

Sessions == [auth : BOOLEAN, user : Keys, valid : Flags \cup {Null}]

\* The callbacks that are given the value of a field, and which field it is.
ReadCallbacks ==
  {"login_password", "login_valid", "secure_valid", "secure_mail", "verify_valid",
   "verify_timestamp", "show_mail", "reset_mail", "reset_valid", "new_password_valid",
   "new_password_timestamp", "new_password_flag"}

FieldRead(cb) ==
  CASE cb = "login_password" -> "password"
    [] cb \in {"secure_mail", "reset_mail"} -> "mail"
    [] cb \in {"verify_timestamp", "new_password_timestamp"} -> "timestamp"
    [] cb = "show_mail" -> "link"
    [] cb = "new_password_flag" -> "new_password"
    [] OTHER -> "valid"

Callbacks == ReadCallbacks \cup {"update_mail", "update_password", "set_password", "create_user"}

Requests ==
  [pc : Callbacks \cup {"free", "body"}, kind : PostKinds \cup GetKinds \cup {"none"},
   br : Browsers \cup {Null}, uid : Keys, pw : Passwords \cup {Null},
   mail : Mails \cup {Null}, tok : Timestamps \cup {Null}, sess : Sessions,
   ts : Timestamps \cup {Null}]

AdminCalls ==
  [pc : {"idle", "keys", "password", "mail", "timestamp", "valid", "file", "delete"},
   op : {"none", "-c", "-p", "-m", "-d"}, uid : Keys, pw : Passwords \cup {Null},
   mail : Mails \cup {Null}, ts : Timestamps \cup {Null}]

\* A queued command writes a value of its field or reads the field its
\* callback expects.
CommandOK(c) ==
  /\ c.key \in Keys
  /\ c.op = "hset" => c.field \in Fields /\ c.val \in FieldValues(c.field)
  /\ c.op = "hget" => c.cb \in ReadCallbacks /\ c.field = FieldRead(c.cb)
  /\ c.op # "hget" => c.cb \notin ReadCallbacks

ReplyOK(r) == r.cb \in ReadCallbacks => r.val \in FieldValues(FieldRead(r.cb))

\* Every variable keeps its type.  In particular a field of an account only
\* ever holds, and a callback is only ever given, a value of the kind the
\* handlers expect, although commands and replies of all requests share one
\* connection.
TypeOK ==
  /\ \A k \in Keys : \A f \in Fields : db[k][f] \in FieldValues(f)
  /\ \A i \in 1..Len(pipe) : CommandOK(pipe[i])
  /\ \A i \in 1..Len(replies) : ReplyOK(replies[i])
  /\ reqs \in [Slots -> Requests]
  /\ sessions \in [Browsers -> Sessions]
  /\ gUser \in Keys /\ gToken \in Timestamps \cup {Null}
  /\ writes \subseteq [key : Keys, box : Boxes, link : Links]
  /\ files \in [Keys -> [Boxes -> Links \cup {Null}]]
  /\ seen \subseteq Links
  /\ admin \in AdminCalls
  /\ now \in Epoch..(Epoch + MaxTime)
  /\ nreq \in 0..MaxRequests /\ ncmd \in 0..MaxCommands

-----------------------------------------------------------------------------
(* For every interleaving.                                                 *)

\* A stored password is salted with the name of the account it is stored in,
\* so equal passwords of two accounts never look equal, whichever handler or
\* admin.py wrote them and however late the write is executed.
SaltedByOwner ==
  \A k \in Keys : db[k]["password"] # Null => db[k]["password"].salt = k

\* The callbacks on their way, the next one first: Redis has replied to some,
\* the commands of the others are still queued.
Line == replies \o pipe

\* What a line holds for request s: nothing, callback a, or a and later b.
NoneOf(line, s) == \A i \in 1..Len(line) : line[i].slot # s

OneOf(line, s, a) ==
  \E i \in 1..Len(line) :
    /\ line[i].slot = s /\ line[i].cb = a
    /\ \A k \in 1..Len(line) : line[k].slot = s => k = i

TwoOf(line, s, a, b) ==
  \E i, j \in 1..Len(line) :
    /\ i < j
    /\ line[i].slot = s /\ line[i].cb = a
    /\ line[j].slot = s /\ line[j].cb = b
    /\ \A k \in 1..Len(line) : line[k].slot = s => k = i \/ k = j

\* The line holds exactly the callbacks a request at pc still has to run.
Queued(line, s, pc) ==
  CASE pc \in {"free", "body"} -> NoneOf(line, s)
    [] pc \in DOMAIN AfterValid -> TwoOf(line, s, pc, AfterValid[pc])
    [] OTHER -> OneOf(line, s, pc)

\* Replies never go astray: every request waits for exactly the callbacks that
\* are on their way for it, in that order.  So no request is answered twice or
\* after it has ended, and none waits for a reply that will not come.
CallbackMatched == \A s \in Slots : Queued(Line, s, reqs[s].pc)

\* Request s of browser b, of the given kind, is answered by this step.
Answered(s, b, kind) ==
  reqs[s].br = b /\ reqs[s].kind = kind /\ ~Free(s) /\ Free(s)'

\* In this step a browser is logged in only by its own login, and its session
\* gets another user only by its own login or reset link.
OwnSession ==
  \A b \in Browsers :
    /\ sessions'[b].auth /\ ~sessions[b].auth =>
         \E s \in Slots : Answered(s, b, "login")
    /\ sessions'[b].user # sessions[b].user =>
         \E s \in Slots : Answered(s, b, "login") \/ Answered(s, b, "new_password")

\* As long as a browser waits for each answer before its next request, its
\* session changes hands only by its own requests: those of other browsers,
\* which share the globals of routes.js with it, never do it.
SessionByOwnRequest == [][OwnSession]_vars

\* Redis serves the command of /update_mail that stores the new address.
StoresAddress == pipe # <<>> /\ pipe' = Tail(pipe) /\ Head(pipe).cb = "update_mail"

\* /update_mail never puts its unconfirmed address into an account that counts
\* as confirmed: the confirmation is withdrawn first, and whatever other
\* requests and admin.py write in between, nothing brings it back.
AddressChangeUnconfirms ==
  [][StoresAddress => db'[Head(pipe).key]["valid"] # "True"]_vars

\* Every request whose handler has started is answered.
EveryRequestAnswered ==
  \A s \in Slots : reqs[s].pc \notin {"free", "body"} ~> Free(s)

-----------------------------------------------------------------------------
(* When requests are served one by one.                                    *)

Settled == Alone /\ pipe = <<>> /\ replies = <<>>

\* A link acts on the user it was issued for, even though the handlers pass the
\* name on in a global: an accepted reset link opens the session of its own
\* user, and a confirmation is recorded for its own user.
LinkActsOnItsUser ==
  [][\A s \in Slots, b \in Browsers :
       /\ Answered(s, b, "new_password") /\ out'.page = "accept_password" =>
            sessions'[b].user = reqs[s].uid
       /\ Answered(s, b, "verify") /\ out'.page = "success" =>
            pipe' = Append(pipe, HSetOnly(reqs[s].uid, "valid", "True"))]_vars

\* The link answered by this step, if its page is the given one.
Clicked(s, page) ==
  \E b \in Browsers : \E kind \in {"verify", "new_password"} :
    Answered(s, b, kind) /\ out'.page = page

\* A link is accepted at most once after it was issued: a second click, or a
\* reload, gets the error page.
LinkSingleUse ==
  [][\A s \in Slots : (Clicked(s, "success") \/ Clicked(s, "accept_password")) =>
       out'.link \notin used]_vars

\* Whenever nothing is under way, an account that waits for its confirmation has
\* a link somebody can click and that will be accepted: the mail file or the
\* page of /verify_mail carries the token of the stored timestamp.
PendingCanConfirm ==
  Settled => \A k \in Keys : db[k]["valid"] = "False" =>
    Link("verify", k, db[k]["timestamp"]) \in {files[k]["mail"], db[k]["link"]}

\* The account as AccountLifecycle sees it.  admin.py -m stores the address
\* before it withdraws the confirmation; nobody else is served in between.
Withdrawing(k) == admin.op = "-m" /\ admin.uid = k /\ admin.pc \in {"mail", "timestamp", "valid"}

confOf == [k \in Keys |->
  CASE db[k]["valid"] = "False" \/ Withdrawing(k) -> "pending"
    [] db[k]["valid"] = "True" /\ ~Withdrawing(k) -> "confirmed"
    [] OTHER -> "none"]
addrOf == [k \in Keys |-> db[k]["mail"]]
resetOf == [k \in Keys |->
  CASE db[k]["new_password"] = "True" -> "open"
    [] db[k]["new_password"] = "False" -> "closed"
    [] OTHER -> "none"]

Lifecycle == INSTANCE AccountLifecycle WITH conf <- confOf, addr <- addrOf, reset <- resetOf

\* The server and admin.py together implement the account's life cycle.
ImplementsLifecycle == Lifecycle!LifeSpec
=============================================================================
