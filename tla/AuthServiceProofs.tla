------------------------- MODULE AuthServiceProofs -------------------------
(***************************************************************************)
(* Types and the salting of passwords, for any number of users, browsers,  *)
(* requests and calls of admin.py and for every interleaving.              *)
(*                                                                         *)
(* Neither property is inductive: what is stored was queued earlier, and   *)
(* what was queued was computed from a request.  Inv says of everything on *)
(* its way to the data set what the two properties say of the data set.    *)
(***************************************************************************)
EXTENDS AuthProperties, TLAPS

Values == Hashes \cup Mails \cup Flags \cup Timestamps \cup Links \cup {Null}

RawCommands ==
  [op : {"hget", "hset", "keys"}, key : Keys, field : Fields \cup {"none"},
   val : Values, slot : Slots \cup {Null}, cb : Callbacks \cup {"none"}]

\* A queued password is salted with the key it is queued for.
SaltOK(c) ==
  c.op = "hset" /\ c.field = "password" /\ c.val # Null => c.val.salt = c.key

\* A command has a request that waits for it, or an empty callback; only
\* /create_user lists keys.
SlotOK(c) ==
  /\ c.slot = Null <=> c.cb = "none"
  /\ c.op = "keys" <=> c.cb = "create_user"

Commands == {c \in RawCommands : CommandOK(c) /\ SaltOK(c) /\ SlotOK(c)}

Replies ==
  {r \in [slot : Slots, cb : Callbacks, val : Values \cup SUBSET Keys] : ReplyOK(r)}

DbInv ==
  /\ db \in [Keys -> [Fields -> Values]]
  /\ \A k \in Keys : \A f \in Fields : db[k][f] \in FieldValues(f)
  /\ SaltedByOwner
PipeInv == pipe \in Seq(Commands)
ReplyInv == replies \in Seq(Replies)
ReqInv == reqs \in [Slots -> Requests]
SessInv == sessions \in [Browsers -> Sessions]
GlobalInv == gUser \in Keys /\ gToken \in Timestamps \cup {Null}
MailInv ==
  /\ writes \subseteq [key : Keys, box : Boxes, link : Links]
  /\ files \in [Keys -> [Boxes -> Links \cup {Null}]]
  /\ seen \subseteq Links
AdminInv ==
  /\ admin \in AdminCalls
  /\ admin.pc \in {"timestamp", "valid", "file"} => admin.ts \in Timestamps
ClockInv ==
  /\ now \in Epoch..(Epoch + MaxTime)
  /\ nreq \in 0..MaxRequests /\ ncmd \in 0..MaxCommands

Inv == DbInv /\ PipeInv /\ ReplyInv /\ ReqInv /\ SessInv /\ GlobalInv
         /\ MailInv /\ AdminInv /\ ClockInv

-----------------------------------------------------------------------------
(* The values of the fields.                                               *)

\* What may be stored in each field.
LEMMA FieldFacts ==
  /\ FieldValues("password") = Hashes \cup {Null}
  /\ FieldValues("mail") = Mails \cup {Null}
  /\ FieldValues("timestamp") = Timestamps \cup {Null}
  /\ FieldValues("link") = Links \cup {Null}
  /\ FieldValues("valid") = Flags \cup {Null}
  /\ FieldValues("new_password") = Flags \cup {Null}
  /\ \A f \in Fields : FieldValues(f) \subseteq Values
  BY DEF FieldValues, Fields, Values

\* The field each callback is given.
LEMMA ReadFacts ==
  /\ FieldRead("login_password") = "password"
  /\ \A cb \in {"login_valid", "secure_valid", "verify_valid", "reset_valid", "new_password_valid"} :
       cb \in ReadCallbacks /\ FieldRead(cb) = "valid"
  /\ \A cb \in {"secure_mail", "reset_mail"} : cb \in ReadCallbacks /\ FieldRead(cb) = "mail"
  /\ \A cb \in {"verify_timestamp", "new_password_timestamp"} :
       cb \in ReadCallbacks /\ FieldRead(cb) = "timestamp"
  /\ FieldRead("show_mail") = "link"
  /\ FieldRead("new_password_flag") = "new_password"
  /\ \A cb \in ReadCallbacks : FieldRead(cb) \in Fields
  BY DEF FieldRead, ReadCallbacks, Fields

\* The server's clock value is a timestamp.
LEMMA NodeTimeType == ASSUME ClockInv PROVE NodeTime \in Timestamps
  BY TimeAssumption DEF ClockInv, NodeTime, Timestamps

\* So is the value admin.py computes from the clock.
LEMMA AdminTimeType == ASSUME NEW t \in Nat PROVE AdminTime(t) \in Timestamps
  <1>1. t \div AdminDiv \in Nat
    BY TimeAssumption
  <1> QED BY <1>1 DEF AdminTime, Timestamps

\* A read that is queued with the callback for its field is well formed.
LEMMA HGetCmdOK ==
  ASSUME NEW k \in Keys, NEW s \in Slots, NEW cb \in ReadCallbacks, NEW f, f = FieldRead(cb)
  PROVE HGetCmd(k, f, s, cb) \in Commands
  <1>1. s # Null /\ cb \notin {"none", "create_user"}
    BY StoreAssumption DEF ReadCallbacks
  <1> QED BY <1>1, ReadFacts DEF HGetCmd, Commands, RawCommands, CommandOK, SaltOK, SlotOK,
          Values, Callbacks

\* A write of a value of its field, salted with its key, is well formed.
LEMMA HSetCmdOK ==
  ASSUME NEW k \in Keys, NEW f \in Fields, NEW v \in FieldValues(f),
         NEW s \in Slots \cup {Null},
         NEW cb \in {"none", "update_mail", "update_password", "set_password"},
         f = "password" /\ v # Null => v.salt = k,
         s = Null <=> cb = "none"
  PROVE HSetCmd(k, f, v, s, cb) \in Commands
  <1>1. v \in Values
    BY FieldFacts
  <1>2. cb \in Callbacks \cup {"none"} /\ cb \notin ReadCallbacks
    BY DEF Callbacks, ReadCallbacks
  <1> QED BY <1>1, <1>2 DEF HSetCmd, Commands, RawCommands, CommandOK, SaltOK, SlotOK

\* KEYS is well formed.
LEMMA KeysCmdOK ==
  ASSUME NEW k \in Keys, NEW s \in Slots
  PROVE KeysCmd(k, s, "create_user") \in Commands
  BY StoreAssumption DEF KeysCmd, Commands, RawCommands, CommandOK, SaltOK, SlotOK, Values,
     Callbacks, ReadCallbacks

\* Sending one, two or three well-formed commands keeps the queue well formed.
LEMMA SendOK ==
  ASSUME PipeInv, NEW a \in Commands, NEW b \in Commands, NEW c \in Commands
  PROVE /\ Send(<<a>>) => PipeInv'
        /\ Send(<<a, b>>) => PipeInv'
        /\ Send(<<a, b, c>>) => PipeInv'
  <1>1. <<a>> \in Seq(Commands) /\ <<a, b>> \in Seq(Commands) /\ <<a, b, c>> \in Seq(Commands)
    OBVIOUS
  <1>2. \A t \in Seq(Commands) : pipe \o t \in Seq(Commands)
    BY DEF PipeInv
  <1> QED BY <1>1, <1>2 DEF PipeInv, Send

\* HSET of a well-formed value keeps the data set well formed.
LEMMA HSetOK ==
  ASSUME DbInv, NEW k \in Keys, NEW f \in Fields, NEW v \in FieldValues(f),
         f = "password" /\ v # Null => v.salt = k,
         db' = HSet(db, k, f, v)
  PROVE DbInv'
  <1>1. v \in Values
    BY FieldFacts
  <1>2. db' \in [Keys -> [Fields -> Values]]
    BY <1>1 DEF DbInv, HSet
  <1>3. \A j \in Keys, g \in Fields :
          db'[j][g] = IF j = k /\ g = f THEN v ELSE db[j][g]
    BY DEF DbInv, HSet
  <1>4. \A j \in Keys : \A g \in Fields : db'[j][g] \in FieldValues(g)
    BY <1>3 DEF DbInv
  <1>5. SaltedByOwner'
    BY <1>3 DEF DbInv, SaltedByOwner, Fields
  <1> QED BY <1>2, <1>4, <1>5 DEF DbInv

\* Running the oldest callback leaves the other replies well formed, and its
\* argument has the type of the field it reads.
LEMMA CallbackOK ==
  ASSUME ReplyInv, NEW s, NEW cb, Callback(s, cb)
  PROVE /\ ReplyInv'
        /\ cb \in ReadCallbacks => Reply \in FieldValues(FieldRead(cb))
  BY DEF ReplyInv, Callback, Reply, Replies, ReplyOK

\* A request that waits keeps its type.
LEMMA AwaitOK ==
  ASSUME ReqInv, SessInv, NEW s \in Slots, NEW pc \in Callbacks, NEW sess \in Sessions,
         Await(s, pc, sess)
  PROVE ReqInv' /\ SessInv'
  <1>1. reqs[s] \in Requests
    BY DEF ReqInv
  <1>2. [reqs[s] EXCEPT !.pc = pc, !.sess = sess] \in Requests
    BY <1>1 DEF Requests
  <1>3. ReqInv'
    BY <1>2 DEF ReqInv, Await
  <1> QED BY <1>3 DEF SessInv, Await

\* The free slot is a well-typed request.
LEMMA NoReqType == NoReq \in Requests /\ NoSession \in Sessions
  <1>1. NoSession \in Sessions
    BY DEF NoSession, Sessions, Keys
  <1> QED BY <1>1 DEF NoReq, Requests, Keys

\* A request that ends frees its slot and saves a session.
LEMMA AnswerOK ==
  ASSUME ReqInv, SessInv, NEW s \in Slots, NEW sess \in Sessions, Answer(s, sess)
  PROVE ReqInv' /\ SessInv'
  BY NoReqType DEF ReqInv, SessInv, Answer

\* What the invariant says about the request a step works on.
LEMMA RequestFacts ==
  ASSUME ReqInv, NEW s \in Slots
  PROVE /\ reqs[s].uid \in Keys
        /\ reqs[s].pw \in Passwords \cup {Null}
        /\ reqs[s].mail \in Mails \cup {Null}
        /\ reqs[s].sess \in Sessions
        /\ reqs[s].sess.user \in Keys
        /\ reqs[s].sess.valid \in Flags \cup {Null}
  BY DEF ReqInv, Requests, Sessions

-----------------------------------------------------------------------------
(* The requests.                                                           *)

\* A request that arrives is well typed.
LEMMA ArriveOK ==
  ASSUME ReqInv, SessInv, ClockInv, NEW s \in Slots, NEW b \in Browsers, NEW kind,
         NEW pc \in Callbacks \cup {"body"},
         NEW form \in [uid : Keys, pw : Passwords \cup {Null}, mail : Mails \cup {Null},
                       tok : Timestamps \cup {Null}],
         Arrive(s, b, kind, pc, form)
  PROVE ReqInv' /\ nreq' \in 0..MaxRequests
  <1>1. sessions[b] \in Sessions
    BY DEF SessInv
  <1>2. kind \in PostKinds \cup GetKinds
    BY InputAssumption DEF Arrive
  <1>3. [pc |-> pc, kind |-> kind, br |-> b, uid |-> form.uid, pw |-> form.pw,
         mail |-> form.mail, tok |-> form.tok, sess |-> sessions[b], ts |-> Null] \in Requests
    BY <1>1, <1>2 DEF Requests
  <1>4. ReqInv'
    BY <1>3 DEF ReqInv, Arrive
  <1>5. nreq' \in 0..MaxRequests
    BY TimeAssumption DEF ClockInv, Arrive, MayArrive
  <1> QED BY <1>4, <1>5

\* A request, whichever route it takes, keeps the invariant.
LEMMA RequestStep ==
  ASSUME Inv, NEW s \in Slots, Request(s)
  PROVE Inv'
  <1> USE DEF Inv
  <1>1. PICK b \in Browsers : ReceivePost(s, b) \/ Secure(s, b) \/ Verify(s, b)
                                \/ ShowMail(s, b) \/ NewPassword(s, b)
    BY DEF Request
  <1>2. UNCHANGED <<db, replies, sessions, mailState, admin, now, ncmd, used, out>>
    BY DEF Request
  <1>3. DbInv' /\ ReplyInv' /\ SessInv' /\ MailInv' /\ AdminInv'
    BY <1>2 DEF DbInv, SaltedByOwner, ReplyInv, SessInv, MailInv, AdminInv, mailState
  <1>4. nreq' \in 0..MaxRequests => ClockInv'
    BY <1>2 DEF ClockInv
  <1>5. sessions[b].user \in Keys
    BY DEF SessInv, Sessions
  <1>6. SUFFICES ReqInv' /\ PipeInv' /\ GlobalInv' /\ nreq' \in 0..MaxRequests
    BY <1>3, <1>4
  <1>7. CASE ReceivePost(s, b)
    <2>0. PICK kind \in PostKinds : \E f \in Form(kind) : Arrive(s, b, kind, "body", f)
      BY <1>7 DEF ReceivePost
    <2>1. PICK f \in Form(kind) : Arrive(s, b, kind, "body", f)
      BY <2>0
    <2>2. f \in [uid : Keys, pw : Passwords \cup {Null}, mail : Mails \cup {Null},
                 tok : Timestamps \cup {Null}]
      BY <2>1 DEF Form, Keys
    <2>3. ReqInv' /\ nreq' \in 0..MaxRequests
      BY <2>1, <2>2, ArriveOK
    <2> QED BY <2>3, <1>7 DEF ReceivePost, PipeInv, GlobalInv
  <1>8. CASE Secure(s, b)
    <2>1. NoForm \in [uid : Keys, pw : Passwords \cup {Null}, mail : Mails \cup {Null},
                      tok : Timestamps \cup {Null}]
      BY DEF NoForm, Keys
    <2>2. ReqInv' /\ nreq' \in 0..MaxRequests
      BY <1>8, <2>1, ArriveOK DEF Secure, Callbacks, ReadCallbacks
    <2>3. PipeInv'
      BY <1>8, <1>5, SendOK, HGetCmdOK, ReadFacts DEF Secure
    <2> QED BY <2>2, <2>3, <1>8 DEF Secure, GlobalInv
  <1>9. CASE Verify(s, b)
    <2>1. PICK l \in seen :
            /\ Arrive(s, b, "verify", "verify_valid", [NoForm EXCEPT !.uid = l.uid, !.tok = l.tok])
            /\ gUser' = LinkUser(l)
            /\ gToken' = l.tok
            /\ Send(<<HGetCmd(l.uid, "valid", s, "verify_valid"),
                      HGetCmd(l.uid, "timestamp", s, "verify_timestamp")>>)
      BY <1>9 DEF Verify
    <2>2. l.uid \in Keys /\ l.tok \in Timestamps
      BY DEF MailInv, Links
    <2>3. [NoForm EXCEPT !.uid = l.uid, !.tok = l.tok] \in
            [uid : Keys, pw : Passwords \cup {Null}, mail : Mails \cup {Null},
             tok : Timestamps \cup {Null}]
      BY <2>2 DEF NoForm
    <2>4. ReqInv' /\ nreq' \in 0..MaxRequests
      BY <2>1, <2>3, ArriveOK DEF Callbacks, ReadCallbacks
    <2>5. PipeInv'
      BY <2>1, <2>2, SendOK, HGetCmdOK, ReadFacts
    <2>6. GlobalInv'
      BY <2>1, <2>2 DEF GlobalInv, LinkUser
    <2> QED BY <2>4, <2>5, <2>6
  <1>10. CASE ShowMail(s, b)
    <2>1. PICK u \in Names :
            /\ Arrive(s, b, "show_mail", "show_mail", [NoForm EXCEPT !.uid = u])
            /\ Send(<<HGetCmd(u, "link", s, "show_mail")>>)
      BY <1>10 DEF ShowMail
    <2>2. [NoForm EXCEPT !.uid = u] \in
            [uid : Keys, pw : Passwords \cup {Null}, mail : Mails \cup {Null},
             tok : Timestamps \cup {Null}]
      BY DEF NoForm, Keys
    <2>3. ReqInv' /\ nreq' \in 0..MaxRequests
      BY <2>1, <2>2, ArriveOK DEF Callbacks, ReadCallbacks
    <2>4. "show_mail" \in ReadCallbacks /\ u \in Keys
      BY DEF ReadCallbacks, Keys
    <2>5. PipeInv'
      BY <2>1, <2>4, SendOK, HGetCmdOK, ReadFacts
    <2> QED BY <2>3, <2>5, <1>10 DEF ShowMail, GlobalInv
  <1>11. CASE NewPassword(s, b)
    <2>1. PICK l \in seen :
            /\ Arrive(s, b, "new_password", "new_password_valid",
                      [NoForm EXCEPT !.uid = l.uid, !.tok = l.tok])
            /\ gUser' = LinkUser(l)
            /\ gToken' = l.tok
            /\ Send(<<HGetCmd(l.uid, "valid", s, "new_password_valid"),
                      HGetCmd(l.uid, "timestamp", s, "new_password_timestamp")>>)
      BY <1>11 DEF NewPassword
    <2>2. l.uid \in Keys /\ l.tok \in Timestamps
      BY DEF MailInv, Links
    <2>3. [NoForm EXCEPT !.uid = l.uid, !.tok = l.tok] \in
            [uid : Keys, pw : Passwords \cup {Null}, mail : Mails \cup {Null},
             tok : Timestamps \cup {Null}]
      BY <2>2 DEF NoForm
    <2>4. ReqInv' /\ nreq' \in 0..MaxRequests
      BY <2>1, <2>3, ArriveOK DEF Callbacks, ReadCallbacks
    <2>5. PipeInv'
      BY <2>1, <2>2, SendOK, HGetCmdOK, ReadFacts
    <2>6. GlobalInv'
      BY <2>1, <2>2 DEF GlobalInv, LinkUser
    <2> QED BY <2>4, <2>5, <2>6
  <1> QED BY <1>1, <1>7, <1>8, <1>9, <1>10, <1>11

-----------------------------------------------------------------------------
(* The handlers of POST requests.                                          *)

\* A handler that runs when its body is there keeps the invariant.
LEMMA PostHandlerStep ==
  ASSUME Inv, NEW s \in Slots, PostHandler(s)
  PROVE Inv'
  <1> USE DEF Inv
  <1>1. UNCHANGED <<db, replies, gToken, files, seen, admin, now, counters, out>>
    BY DEF PostHandler
  <1>2. DbInv' /\ ReplyInv' /\ AdminInv' /\ ClockInv'
    BY <1>1 DEF DbInv, SaltedByOwner, ReplyInv, AdminInv, ClockInv, counters
  <1>3. SUFFICES ReqInv' /\ SessInv' /\ PipeInv' /\ gUser' \in Keys
                   /\ writes' \subseteq [key : Keys, box : Boxes, link : Links]
    BY <1>1, <1>2 DEF GlobalInv, MailInv
  <1>4. /\ gUser \in Keys
        /\ writes \subseteq [key : Keys, box : Boxes, link : Links]
        /\ NodeTime \in Timestamps
    BY NodeTimeType DEF GlobalInv, MailInv
  <1>5. CASE Login(s)
    <2>1. ReqInv' /\ SessInv'
      BY <1>5, AwaitOK, RequestFacts DEF Login, Callbacks, ReadCallbacks
    <2>2. "login_password" \in ReadCallbacks
      BY DEF ReadCallbacks
    <2>3. PipeInv'
      BY <1>5, <2>2, RequestFacts, SendOK, HGetCmdOK, ReadFacts DEF Login
    <2> QED BY <2>1, <2>3, <1>4, <1>5 DEF Login
  <1>6. CASE UpdateMail(s)
    <2> DEFINE u == reqs[s].sess.user
    <2>1. u \in Keys
      BY RequestFacts
    <2>2. [reqs[s].sess EXCEPT !.valid = "False"] \in Sessions
      BY RequestFacts DEF Sessions, Flags
    <2>3. ReqInv' /\ SessInv'
      BY <1>6, <2>2, AwaitOK DEF UpdateMail, Callbacks
    <2>4. /\ HSetOnly(u, "timestamp", NodeTime) \in Commands
          /\ HSetOnly(u, "valid", "False") \in Commands
          /\ HSetCmd(u, "mail", reqs[s].mail, s, "update_mail") \in Commands
      BY <1>4, <2>1, RequestFacts, HSetCmdOK, FieldFacts, StoreAssumption DEF HSetOnly, Fields, Flags
    <2>5. PipeInv'
      BY <1>6, <2>4, SendOK DEF UpdateMail, UpdateMailCmds
    <2>6. [key |-> u, box |-> "mail", link |-> Link("verify", u, NodeTime)]
             \in [key : Keys, box : Boxes, link : Links]
      BY <1>4, <2>1 DEF Link, Links, Boxes
    <2>7. writes' \subseteq [key : Keys, box : Boxes, link : Links]
      BY <1>4, <1>6, <2>6 DEF UpdateMail, IssueMail
    <2> QED BY <2>1, <2>3, <2>5, <2>7, <1>6 DEF UpdateMail
  <1>7. ASSUME NEW kind \in {"update_password", "set_password"}, SetPassword(s, kind)
        PROVE ReqInv' /\ SessInv' /\ PipeInv' /\ gUser' \in Keys
                /\ writes' \subseteq [key : Keys, box : Boxes, link : Links]
    <2> DEFINE u == reqs[s].sess.user
    <2>1. ReqInv' /\ SessInv'
      BY <1>7, AwaitOK, RequestFacts DEF SetPassword, Callbacks
    <2>2. Hash(u, reqs[s].pw) \in Hashes /\ Hash(u, reqs[s].pw).salt = u /\ u \in Keys
      BY RequestFacts DEF Hash, Hashes
    <2>3. PasswordCmd(s, kind) \in Commands
      BY <2>2, HSetCmdOK, FieldFacts, StoreAssumption DEF PasswordCmd, Fields
    <2>4. PipeInv'
      BY <1>7, <2>3, SendOK DEF SetPassword
    <2> QED BY <2>1, <2>4, <1>4, <1>7 DEF SetPassword
  <1>8. CASE UpdatePassword(s) \/ PostNewPassword(s)
    BY <1>7, <1>8 DEF UpdatePassword, PostNewPassword
  <1>9. CASE CreateUser(s)
    <2>1. ReqInv' /\ SessInv'
      BY <1>9, AwaitOK, RequestFacts DEF CreateUser, Callbacks
    <2>2. PipeInv'
      BY <1>9, RequestFacts, SendOK, KeysCmdOK DEF CreateUser
    <2> QED BY <2>1, <2>2, <1>4, <1>9 DEF CreateUser
  <1>10. CASE VerifyMail(s)
    <2> DEFINE u == reqs[s].uid
               link == Link("verify", u, NodeTime)
    <2>1. u \in Keys /\ link \in Links
      BY <1>4, RequestFacts DEF Link, Links
    <2>2. ReqInv' /\ SessInv'
      BY <1>10, AnswerOK, RequestFacts DEF VerifyMail
    <2>3. HSetOnly(u, "timestamp", NodeTime) \in Commands /\ HSetOnly(u, "link", link) \in Commands
      BY <1>4, <2>1, HSetCmdOK, FieldFacts DEF HSetOnly, Fields
    <2>4. PipeInv'
      BY <1>10, <2>3, SendOK DEF VerifyMail, VerifyMailCmds
    <2> QED BY <2>1, <2>2, <2>4, <1>4, <1>10 DEF VerifyMail
  <1>11. CASE ResetPassword(s)
    <2>1. ReqInv' /\ SessInv'
      BY <1>11, AwaitOK, RequestFacts DEF ResetPassword, Callbacks, ReadCallbacks
    <2>2. PipeInv'
      BY <1>11, RequestFacts, SendOK, HGetCmdOK, ReadFacts DEF ResetPassword
    <2> QED BY <2>1, <2>2, <1>4, <1>11, RequestFacts DEF ResetPassword
  <1> QED BY <1>5, <1>6, <1>8, <1>9, <1>10, <1>11 DEF PostHandler

-----------------------------------------------------------------------------
(* The callbacks.                                                          *)

\* A callback, whichever request it belongs to, keeps the invariant.
LEMMA CallbackStep ==
  ASSUME Inv, NEW s \in Slots, RunCallback(s)
  PROVE Inv'
  <1> USE DEF Inv
  <1>1. UNCHANGED <<db, gUser, gToken, files, admin, now, counters>>
    BY DEF RunCallback
  <1>2. DbInv' /\ GlobalInv' /\ AdminInv' /\ ClockInv'
    BY <1>1 DEF DbInv, SaltedByOwner, GlobalInv, AdminInv, ClockInv, counters
  <1> DEFINE Goal == /\ ReqInv' /\ SessInv' /\ PipeInv' /\ ReplyInv'
                     /\ writes' \subseteq [key : Keys, box : Boxes, link : Links]
                     /\ seen' \subseteq Links
  <1>3. SUFFICES Goal
    BY <1>1, <1>2 DEF MailInv
  <1>4. /\ gUser \in Keys
        /\ writes \subseteq [key : Keys, box : Boxes, link : Links]
        /\ seen \subseteq Links
        /\ NodeTime \in Timestamps
    BY NodeTimeType DEF GlobalInv, MailInv
  <1>5. UNCHANGED pipe => PipeInv'
    BY DEF PipeInv
  <1>6. CASE LoginPassword(s)
    <2>1. ReplyInv'
      BY <1>6, CallbackOK DEF LoginPassword
    <2>2. ReqInv' /\ SessInv'
      BY <1>6, AwaitOK, AnswerOK, RequestFacts DEF LoginPassword, Callbacks, ReadCallbacks
    <2>3. PipeInv'
      BY <1>5, <1>6, RequestFacts, SendOK, HGetCmdOK, ReadFacts DEF LoginPassword
    <2> QED BY <2>1, <2>2, <2>3, <1>4, <1>6 DEF LoginPassword
  <1>7. CASE LoginValid(s)
    <2>1. ReplyInv'
      BY <1>7, CallbackOK DEF LoginValid
    <2>2. [reqs[s].sess EXCEPT !.auth = TRUE, !.user = reqs[s].uid] \in Sessions
      BY RequestFacts DEF Sessions
    <2>3. ReqInv' /\ SessInv'
      BY <1>7, <2>2, AnswerOK, RequestFacts DEF LoginValid
    <2> QED BY <2>1, <2>3, <1>4, <1>5, <1>7 DEF LoginValid
  <1>8. CASE KeepValid(s)
    <2>1. PICK cb \in {"secure_valid", "verify_valid", "new_password_valid"} :
            /\ Callback(s, cb)
            /\ Await(s, AfterValid[cb], [reqs[s].sess EXCEPT !.valid = Reply])
      BY <1>8 DEF KeepValid, AfterValid
    <2>2. ReplyInv' /\ Reply \in Flags \cup {Null}
      BY <2>1, CallbackOK, ReadFacts, FieldFacts
    <2>3. AfterValid[cb] \in Callbacks
      BY DEF AfterValid, Callbacks, ReadCallbacks
    <2>4. [reqs[s].sess EXCEPT !.valid = Reply] \in Sessions
      BY <2>2, RequestFacts DEF Sessions
    <2>5. ReqInv' /\ SessInv'
      BY <2>1, <2>3, <2>4, AwaitOK
    <2> QED BY <2>2, <2>5, <1>4, <1>5, <1>8 DEF KeepValid
  <1>9. CASE Finish(s)
    <2>1. ReplyInv'
      BY <1>9, CallbackOK DEF Finish
    <2>2. ReqInv' /\ SessInv'
      BY <1>9, AnswerOK, RequestFacts DEF Finish
    <2> QED BY <2>1, <2>2, <1>4, <1>5, <1>9 DEF Finish
  <1>10. CASE CreateUserKeys(s)
    <2> DEFINE r == reqs[s]
    <2>1. ReplyInv'
      BY <1>10, CallbackOK DEF CreateUserKeys
    <2>2. ReqInv' /\ SessInv'
      BY <1>10, AnswerOK, RequestFacts DEF CreateUserKeys
    <2>3. Hash(r.uid, r.pw) \in Hashes /\ Hash(r.uid, r.pw).salt = r.uid /\ r.uid \in Keys
      BY RequestFacts DEF Hash, Hashes
    <2>4. /\ HSetOnly(r.uid, "password", Hash(r.uid, r.pw)) \in Commands
          /\ HSetOnly(r.uid, "mail", r.mail) \in Commands
      BY <2>3, RequestFacts, HSetCmdOK, FieldFacts DEF HSetOnly, Fields
    <2>5. PipeInv'
      BY <1>5, <1>10, <2>4, SendOK DEF CreateUserKeys
    <2> QED BY <2>1, <2>2, <2>5, <1>4, <1>10 DEF CreateUserKeys
  <1>11. CASE VerifyTimestamp(s)
    <2>1. ReplyInv'
      BY <1>11, CallbackOK DEF VerifyTimestamp
    <2>2. ReqInv' /\ SessInv'
      BY <1>11, AnswerOK, RequestFacts DEF VerifyTimestamp
    <2>3. HSetOnly(gUser, "valid", "True") \in Commands
      BY <1>4, HSetCmdOK, FieldFacts DEF HSetOnly, Fields, Flags
    <2>4. PipeInv'
      BY <1>5, <1>11, <2>3, SendOK DEF VerifyTimestamp
    <2> QED BY <2>1, <2>2, <2>4, <1>4, <1>11 DEF VerifyTimestamp
  <1>12. CASE ShowMailLink(s)
    <2>1. "show_mail" \in ReadCallbacks
      BY DEF ReadCallbacks
    <2>2. ReplyInv' /\ Reply \in Links \cup {Null}
      BY <1>12, <2>1, CallbackOK, ReadFacts, FieldFacts DEF ShowMailLink
    <2>3. seen' \subseteq Links
      BY <1>4, <1>12, <2>2 DEF ShowMailLink
    <2>4. ReqInv' /\ SessInv'
      BY <1>12, AnswerOK, RequestFacts DEF ShowMailLink
    <2> QED BY <2>2, <2>3, <2>4, <1>4, <1>5, <1>12 DEF ShowMailLink
  <1>13. CASE ResetMail(s)
    <2>1. ReplyInv'
      BY <1>13, CallbackOK DEF ResetMail
    <2>2. ReqInv' /\ SessInv'
      BY <1>13, AwaitOK, AnswerOK, RequestFacts DEF ResetMail, Callbacks, ReadCallbacks
    <2>3. PipeInv'
      BY <1>4, <1>5, <1>13, SendOK, HGetCmdOK, ReadFacts DEF ResetMail
    <2> QED BY <2>1, <2>2, <2>3, <1>4, <1>13 DEF ResetMail
  <1>14. CASE ResetValid(s)
    <2>1. ReplyInv'
      BY <1>14, CallbackOK DEF ResetValid
    <2>2. ReqInv' /\ SessInv'
      BY <1>14, AnswerOK, RequestFacts DEF ResetValid
    <2>3. /\ HSetOnly(gUser, "timestamp", NodeTime) \in Commands
          /\ HSetOnly(gUser, "new_password", "True") \in Commands
      BY <1>4, HSetCmdOK, FieldFacts DEF HSetOnly, Fields, Flags
    <2>4. PipeInv'
      BY <1>5, <1>14, <2>3, SendOK DEF ResetValid
    <2>5. [key |-> gUser, box |-> "password", link |-> Link("new_password", gUser, NodeTime)]
             \in [key : Keys, box : Boxes, link : Links]
      BY <1>4 DEF Link, Links, Boxes
    <2>6. writes' \subseteq [key : Keys, box : Boxes, link : Links]
      BY <1>4, <1>14, <2>5 DEF ResetValid, IssueMail
    <2> QED BY <2>1, <2>2, <2>4, <2>6, <1>4, <1>14 DEF ResetValid
  <1>15. CASE NewPasswordTimestamp(s)
    <2>1. ReplyInv' /\ Reply \in Timestamps \cup {Null}
      BY <1>15, CallbackOK, ReadFacts, FieldFacts DEF NewPasswordTimestamp
    <2>2. reqs[s] \in Requests
      BY DEF ReqInv
    <2>3. [reqs[s] EXCEPT !.pc = "new_password_flag", !.ts = Reply] \in Requests
      BY <2>1, <2>2 DEF Requests, Callbacks, ReadCallbacks
    <2>4. ReqInv' /\ SessInv'
      BY <1>15, <2>3 DEF NewPasswordTimestamp, ReqInv, SessInv
    <2>5. "new_password_flag" \in ReadCallbacks
      BY DEF ReadCallbacks
    <2>6. PipeInv'
      BY <1>4, <1>15, <2>5, SendOK, HGetCmdOK, ReadFacts DEF NewPasswordTimestamp
    <2> QED BY <2>1, <2>4, <2>6, <1>4, <1>15 DEF NewPasswordTimestamp
  <1>16. CASE NewPasswordFlag(s)
    <2>1. ReplyInv'
      BY <1>16, CallbackOK DEF NewPasswordFlag
    <2>2. Accepted(reqs[s].sess) \in Sessions
      BY <1>4, RequestFacts DEF Accepted, Sessions
    <2>3. ReqInv' /\ SessInv'
      BY <1>16, <2>2, AnswerOK, RequestFacts DEF NewPasswordFlag
    <2>4. HSetOnly(gUser, "new_password", "False") \in Commands
      BY <1>4, HSetCmdOK, FieldFacts DEF HSetOnly, Fields, Flags
    <2>5. PipeInv'
      BY <1>5, <1>16, <2>4, SendOK DEF NewPasswordFlag
    <2> QED BY <2>1, <2>3, <2>5, <1>4, <1>16 DEF NewPasswordFlag
  <1> HIDE DEF Goal
  <1> QED BY <1>6, <1>7, <1>8, <1>9, <1>10, <1>11, <1>12, <1>13, <1>14, <1>15, <1>16
          DEF RunCallback

-----------------------------------------------------------------------------
(* Redis, the mails directory and admin.py.                                *)

\* Serving a command keeps the invariant.
LEMMA RedisStep ==
  ASSUME Inv, RedisServe
  PROVE Inv'
  <1> USE DEF Inv
  <1> DEFINE c == Head(pipe)
  <1>1. c \in Commands /\ PipeInv'
    BY DEF RedisServe, PipeInv
  <1>2. c \in RawCommands /\ CommandOK(c) /\ SaltOK(c) /\ SlotOK(c)
    BY <1>1 DEF Commands
  <1>3. DbInv'
    <2>1. CASE c.op = "hset"
      BY <1>2, <2>1, HSetOK DEF RedisServe, Store, CommandOK, SaltOK
    <2>2. CASE c.op # "hset"
      BY <2>2 DEF RedisServe, Store, DbInv, SaltedByOwner
    <2> QED BY <2>1, <2>2
  <1>4. ReplyInv'
    <2> DEFINE r == [slot |-> c.slot, cb |-> c.cb, val |-> Result(c)]
    <2>1. CASE c.cb = "none"
      BY <2>1 DEF RedisServe, Replied, ReplyInv
    <2>2. CASE c.cb # "none"
      <3>1. c.slot \in Slots /\ c.cb \in Callbacks /\ c.key \in Keys
        BY <1>2, <2>2 DEF RawCommands, SlotOK
      <3>2. c.op \in {"hget", "hset", "keys"}
        BY <1>2 DEF RawCommands
      <3>3. c.op = "hget" => Result(c) \in FieldValues(FieldRead(c.cb)) /\ Result(c) \in Values
        BY <1>2, <3>1, ReadFacts DEF Result, HGet, CommandOK, DbInv
      <3>4. c.op # "hget" => Result(c) \in Values \cup SUBSET Keys
        BY <3>1, <3>2 DEF Result, KeysLike, DbInv, Values
      <3>5. c.op # "hget" => c.cb \notin ReadCallbacks
        BY <1>2 DEF CommandOK
      <3>6. Result(c) \in Values \cup SUBSET Keys
        BY <3>3, <3>4
      <3>7. ReplyOK(r)
        BY <3>3, <3>5 DEF ReplyOK
      <3>8. r \in Replies
        BY <3>1, <3>6, <3>7 DEF Replies
      <3> QED BY <2>2, <3>8 DEF RedisServe, Replied, ReplyInv
    <2> QED BY <2>1, <2>2
  <1> QED BY <1>1, <1>3, <1>4
      DEF RedisServe, webState, mailState, counters, ReqInv, SessInv, GlobalInv, MailInv,
          AdminInv, ClockInv

\* A file write, successful or not, keeps the invariant.
LEMMA WriteStep ==
  ASSUME Inv, WriteFile
  PROVE Inv'
  <1> USE DEF Inv
  <1>1. PICK w \in writes : /\ WriteDone(w) \/ WriteFails(w)
                            /\ writes' = writes \ {w}
    BY DEF WriteFile
  <1>2. w.key \in Keys /\ w.box \in Boxes /\ w.link \in Links
    BY DEF MailInv
  <1>3. MailInv'
    BY <1>1, <1>2 DEF MailInv, WriteDone, WriteFails
  <1> QED BY <1>3 DEF WriteFile, redisLink, webState, counters, DbInv, SaltedByOwner, PipeInv,
          ReplyInv, ReqInv, SessInv, GlobalInv, AdminInv, ClockInv

\* Starting admin.py keeps the invariant.
LEMMA AdminStartStep ==
  ASSUME Inv, NEW op \in AdminOps, AdminStart(op)
  PROVE Inv'
  <1> USE DEF Inv
  <1>1. AdminInv'
    <2>1. op \in {"-c", "-p", "-m", "-d"}
      BY InputAssumption
    <2> QED BY <2>1 DEF AdminStart, AdminInv, AdminCalls, Keys
  <1>2. ClockInv'
    BY TimeAssumption DEF AdminStart, MayAdminister, ClockInv
  <1> QED BY <1>1, <1>2 DEF AdminStart, redisLink, webState, mailState, DbInv, SaltedByOwner,
          PipeInv, ReplyInv, ReqInv, SessInv, GlobalInv, MailInv

\* A step of admin.py, or its interruption, keeps the invariant.
LEMMA AdminStepOK ==
  ASSUME Inv, AdminStep
  PROVE Inv'
  <1> USE DEF Inv
  <1>1. UNCHANGED <<redisLink, webState, writes, now, counters, out>>
    BY DEF AdminStep
  <1>2. PipeInv' /\ ReplyInv' /\ ReqInv' /\ SessInv' /\ GlobalInv' /\ ClockInv'
    BY <1>1 DEF redisLink, webState, counters, PipeInv, ReplyInv, ReqInv, SessInv, GlobalInv, ClockInv
  <1>3. SUFFICES DbInv' /\ AdminInv' /\ MailInv'
    BY <1>2
  <1>4. /\ admin \in AdminCalls
        /\ admin.uid \in Keys /\ admin.pw \in Passwords \cup {Null}
        /\ admin.mail \in Mails \cup {Null} /\ admin.ts \in Timestamps \cup {Null}
    BY DEF AdminInv, AdminCalls
  <1>5. NoAdmin \in AdminCalls /\ NoAdmin.pc = "idle"
    BY DEF NoAdmin, AdminCalls, Keys
  <1>6. admin' = NoAdmin => AdminInv'
    BY <1>5 DEF AdminInv
  <1>7. UNCHANGED <<files, seen>> => MailInv'
    BY <1>1 DEF MailInv
  <1>8. UNCHANGED db => DbInv'
    BY DEF DbInv, SaltedByOwner
  <1>9. CASE AdminKeys
    <2>1. AdminInv'
      BY <1>4, <1>6, <1>9 DEF AdminKeys, AdminInv, AdminCalls
    <2> QED BY <2>1, <1>7, <1>8, <1>9 DEF AdminKeys
  <1>10. CASE AdminPassword
    <2>1. Hash(admin.uid, admin.pw) \in Hashes /\ Hash(admin.uid, admin.pw).salt = admin.uid
      BY <1>4 DEF Hash, Hashes
    <2>2. DbInv'
      BY <1>4, <1>10, <2>1, HSetOK, FieldFacts DEF AdminPassword, Fields
    <2>3. AdminInv'
      BY <1>4, <1>6, <1>10 DEF AdminPassword, AdminInv, AdminCalls
    <2> QED BY <2>2, <2>3, <1>7, <1>10 DEF AdminPassword
  <1>11. CASE AdminMail
    <2>1. DbInv'
      BY <1>4, <1>11, HSetOK, FieldFacts DEF AdminMail, Fields
    <2>2. now \in Nat
      BY TimeAssumption DEF ClockInv
    <2>3. AdminInv'
      BY <1>4, <1>11, <2>2, AdminTimeType DEF AdminMail, AdminInv, AdminCalls
    <2> QED BY <2>1, <2>3, <1>7, <1>11 DEF AdminMail
  <1>12. CASE AdminTimestamp
    <2>1. DbInv'
      BY <1>4, <1>12, HSetOK, FieldFacts DEF AdminTimestamp, Fields
    <2>2. AdminInv'
      BY <1>4, <1>12 DEF AdminTimestamp, AdminInv, AdminCalls
    <2> QED BY <2>1, <2>2, <1>7, <1>12 DEF AdminTimestamp
  <1>13. CASE AdminValid
    <2>1. DbInv'
      BY <1>4, <1>13, HSetOK, FieldFacts DEF AdminValid, Fields, Flags
    <2>2. AdminInv'
      BY <1>4, <1>13 DEF AdminValid, AdminInv, AdminCalls
    <2> QED BY <2>1, <2>2, <1>7, <1>13 DEF AdminValid
  <1>14. CASE AdminFile
    <2>1. Link("verify", admin.uid, admin.ts) \in Links
      BY <1>4, <1>14 DEF AdminFile, AdminInv, Link, Links
    <2>2. MailInv'
      BY <1>1, <1>4, <1>14, <2>1 DEF AdminFile, MailInv, Boxes
    <2> QED BY <2>2, <1>6, <1>8, <1>14 DEF AdminFile
  <1>15. CASE AdminDelete
    <2>1. db' \in [Keys -> [Fields -> Values]]
      BY <1>4, <1>15 DEF AdminDelete, DbInv, Del, Values
    <2>2. \A k \in Keys : db'[k] = IF k = admin.uid THEN [f \in Fields |-> Null] ELSE db[k]
      BY <1>15 DEF AdminDelete, DbInv, Del
    <2>3. \A k \in Keys : \A f \in Fields : db'[k][f] = Null \/ db'[k][f] = db[k][f]
      BY <2>2
    <2>4. \A k \in Keys : \A f \in Fields : db'[k][f] \in FieldValues(f)
      BY <2>3 DEF DbInv, FieldValues
    <2>5. SaltedByOwner'
      BY <2>3 DEF DbInv, SaltedByOwner, Fields
    <2> QED BY <2>1, <2>4, <2>5, <1>6, <1>7, <1>15 DEF AdminDelete, DbInv
  <1>16. CASE AdminAborts
    BY <1>6, <1>7, <1>8, <1>16 DEF AdminAborts
  <1> QED BY <1>9, <1>10, <1>11, <1>12, <1>13, <1>14, <1>15, <1>16 DEF AdminStep

-----------------------------------------------------------------------------
(* The theorems.                                                           *)

\* The accounts and sessions the server starts with satisfy the invariant.
LEMMA InitInv == Init => Inv
  <1> SUFFICES ASSUME Init PROVE Inv
    OBVIOUS
  <1>1. PICK st \in [Names -> Start], p \in Passwords, m \in Mails :
         /\ db = [k \in Keys |-> Account(k, IF k = Undef THEN "absent" ELSE st[k], p, m)]
         /\ files = [k \in Keys |-> [b \in Boxes |->
                       IF b = "mail" /\ k # Undef /\ st[k] # "absent"
                         THEN Link("verify", k, FirstTime) ELSE Null]]
         /\ seen = {Link("verify", u, FirstTime) : u \in {n \in Names : st[n] # "absent"}}
         /\ sessions \in [Browsers -> {NoSession} \cup
              {[auth |-> TRUE, user |-> u, valid |-> Null] : u \in {n \in Names : st[n] = "confirmed"}}]
    BY DEF Init
  <1>2. FirstTime \in Timestamps
    BY TimeAssumption, AdminTimeType DEF FirstTime
  <1>3. \A k \in Keys : Link("verify", k, FirstTime) \in Links
    BY <1>2 DEF Link, Links
  <1>4. \A k \in Keys : \A a : \A f \in Fields :
          /\ Account(k, a, p, m)[f] \in FieldValues(f)
          /\ f = "password" => Account(k, a, p, m)[f] \in {Null, Hash(k, p)}
    <2> SUFFICES ASSUME NEW k \in Keys, NEW a, NEW f \in Fields
                 PROVE /\ Account(k, a, p, m)[f] \in FieldValues(f)
                       /\ f = "password" => Account(k, a, p, m)[f] \in {Null, Hash(k, p)}
      OBVIOUS
    <2>1. Hash(k, p) \in Hashes
      BY DEF Hash, Hashes
    <2> QED BY <1>2, <2>1, FieldFacts DEF Account, Fields, Flags
  <1>5. DbInv
    <2>1. \A k \in Keys : \A f \in Fields : db[k][f] \in FieldValues(f)
      BY <1>1, <1>4
    <2>2. db \in [Keys -> [Fields -> Values]]
      <3>1. \A k \in Keys : \A a : Account(k, a, p, m) \in [Fields -> Values]
        BY <1>4, FieldFacts DEF Account
      <3> QED BY <1>1, <3>1
    <2>3. SaltedByOwner
      BY <1>1, <1>4 DEF SaltedByOwner, Hash, Fields
    <2> QED BY <2>1, <2>2, <2>3 DEF DbInv
  <1>6. SessInv
    <2>1. \A u \in Names : [auth |-> TRUE, user |-> u, valid |-> Null] \in Sessions
      BY DEF Sessions, Keys
    <2> QED BY <1>1, <2>1, NoReqType DEF SessInv
  <1>7. MailInv
    <2>1. writes = {}
      BY DEF Init
    <2>2. seen \subseteq Links
      BY <1>1, <1>3 DEF Keys
    <2>3. files \in [Keys -> [Boxes -> Links \cup {Null}]]
      BY <1>1, <1>3
    <2> QED BY <2>1, <2>2, <2>3 DEF MailInv
  <1>8. AdminInv
    BY DEF Init, AdminInv, NoAdmin, AdminCalls, Keys
  <1>9. PipeInv /\ ReplyInv /\ ReqInv /\ GlobalInv
    BY NoReqType DEF Init, PipeInv, ReplyInv, ReqInv, GlobalInv, Keys
  <1>10. ClockInv
    BY TimeAssumption DEF Init, ClockInv
  <1> QED BY <1>5, <1>6, <1>7, <1>8, <1>9, <1>10 DEF Inv

\* Every step keeps the invariant.
LEMMA NextInv == Inv /\ [Next]_vars => Inv'
  <1> SUFFICES ASSUME Inv, [Next]_vars PROVE Inv'
    OBVIOUS
  <1>1. CASE \E s \in Slots : Request(s) \/ PostHandler(s) \/ RunCallback(s)
    BY <1>1, RequestStep, PostHandlerStep, CallbackStep
  <1>2. CASE \E b \in Browsers : Logout(b)
    <2>1. PICK b \in Browsers : Logout(b)
      BY <1>2
    <2>2. [sessions[b] EXCEPT !.auth = FALSE] \in Sessions
      BY DEF Inv, SessInv, Sessions
    <2>3. SessInv'
      BY <2>1, <2>2 DEF Logout, Inv, SessInv
    <2>4. ClockInv'
      BY <2>1, TimeAssumption DEF Logout, MayArrive, Inv, ClockInv
    <2> QED BY <2>1, <2>3, <2>4 DEF Logout, Inv, redisLink, mailState, DbInv, SaltedByOwner,
            PipeInv, ReplyInv, ReqInv, GlobalInv, MailInv, AdminInv
  <1>3. CASE RedisServe
    BY <1>3, RedisStep
  <1>4. CASE WriteFile
    BY <1>4, WriteStep
  <1>5. CASE \E op \in AdminOps : AdminStart(op)
    BY <1>5, AdminStartStep
  <1>6. CASE AdminStep
    BY <1>6, AdminStepOK
  <1>7. CASE Tick
    <2>1. ClockInv'
      BY <1>7, TimeAssumption DEF Tick, Inv, ClockInv, counters
    <2> QED BY <1>7, <2>1 DEF Tick, Inv, redisLink, webState, mailState, DbInv, SaltedByOwner,
            PipeInv, ReplyInv, ReqInv, SessInv, GlobalInv, MailInv, AdminInv
  <1>8. CASE Idle \/ UNCHANGED vars
    BY <1>8 DEF Idle, vars, Inv, DbInv, SaltedByOwner, PipeInv, ReplyInv, ReqInv, SessInv,
       GlobalInv, MailInv, AdminInv, ClockInv
  <1> QED BY <1>1, <1>2, <1>3, <1>4, <1>5, <1>6, <1>7, <1>8 DEF Next

\* The invariant holds in every reachable state.
LEMMA InvHolds == Spec => []Inv
  BY InitInv, NextInv, PTL DEF Spec

\* A field of an account, a queued command and the reply given to a callback
\* always have the type the handlers of routes.js rely on, for any number of
\* users, browsers, overlapping requests and interrupted calls of admin.py.
THEOREM TypesHold == Spec => []TypeOK
  <1>1. Inv => TypeOK
    BY DEF Inv, TypeOK, DbInv, PipeInv, ReplyInv, ReqInv, SessInv, GlobalInv, MailInv,
       AdminInv, ClockInv, Commands, Replies
  <1> QED BY <1>1, InvHolds, PTL

\* A password is always salted with the name of the account it is stored in,
\* whatever the interleaving of routes.js and admin.py.
THEOREM PasswordsSalted == Spec => []SaltedByOwner
  <1>1. Inv => SaltedByOwner
    BY DEF Inv, DbInv
  <1> QED BY <1>1, InvHolds, PTL
=============================================================================
