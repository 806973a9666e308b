-------------------------- MODULE RedisNetworking --------------------------
(* One connection of the server (networking.c, blocked.c): the bytes of pipelined    *)
(* requests arrive in pieces of any length and are cut into commands, the replies    *)
(* pass a fixed buffer and a list of chunks and leave as the socket takes them; the  *)
(* client may be blocked, paused, muted, over its output limit, or about to close.   *)
(* A byte of a request is a string; the i-th byte of the reply to the k-th command   *)
(* is <<k, i>>, of a protocol error <<0, i>>.  CLIENT KILL of other clients, masters *)
(* and slaves are left out (RedisReplication has the latter).                        *)
EXTENDS Integers, SequencesExt, FiniteSetsExt

CONSTANTS Streams,                    \* sequences of requests a client sends
          PROTO_IOBUF_LEN, PROTO_INLINE_MAX_SIZE, PROTO_MBULK_BIG_ARG,
          PROTO_REPLY_CHUNK_BYTES, MaxMultibulk, MaxBulk, client_max_querybuf_len,
          hard_limit_bytes, soft_limit_bytes,
          NetPauses                   \* how often clients are paused

VARIABLE n

-----------------------------------------------------------------------------
(* What a client sends. *)
Digit == <<"1", "2", "3", "4", "5", "6", "7", "8", "9">>
Numeral(k) == IF k = 0 THEN "0" ELSE Digit[k]

Encode(r) ==
  CASE r.how = "multibulk" ->
         <<"*", Numeral(Len(r.argv)), "CR", "LF">>
           \o FlattenSeq([i \in DOMAIN r.argv |->
                 <<"$", Numeral(Len(r.argv[i])), "CR", "LF">> \o r.argv[i] \o <<"CR", "LF">>])
    [] r.how = "inline" ->
         FlattenSeq([i \in DOMAIN r.argv |-> <<" ">> \o r.argv[i]]) \o <<"CR", "LF">>
    [] r.how = "raw" -> r.bytes

Encoded(s) == FlattenSeq([i \in DOMAIN s |-> Encode(s[i])])

createClient(s) ==
  [stream |-> s, in |-> Encoded(s), qb |-> <<>>, reqtype |-> "none", mb |-> 0, bulk |-> -1,
   pos |-> 0, argv |-> <<>>, go |-> "on", flags |-> {}, queued |-> 0, buf |-> <<>>, list |-> <<>>,
   sentlen |-> 0, handler |-> FALSE, soft |-> "no", done |-> <<>>, got |-> <<>>, pause |-> "no",
   pauses |-> NetPauses, cron |-> FALSE, alive |-> TRUE]

From(s, i) == SubSeq(s, i + 1, Len(s))
Flagged(x, f) == f \in x.flags
SetFlag(x, f) == [x EXCEPT !.flags = @ \cup {f}]
ClearFlag(x, f) == [x EXCEPT !.flags = @ \ {f}]

-----------------------------------------------------------------------------
(* Output. *)
clientHasPendingReplies(x) == x.buf # <<>> \/ x.list # <<>>

(* Whether the client is to get replies, and the state with its write scheduled. *)
Muted(x) == Flagged(x, "off") \/ Flagged(x, "skip")

prepareClientToWrite(x) == IF clientHasPendingReplies(x) THEN x ELSE SetFlag(x, "pending")

freeClientAsync(x) == SetFlag(x, "close_asap")

getClientOutputBufferMemoryUsage(x) ==
  Len(x.list) + FoldLeft(LAMBDA a, o : a + Len(o.s), 0, x.list)

checkClientOutputBufferLimits(x) ==
  LET soft(y, used) ==
        CASE used < soft_limit_bytes -> [y EXCEPT !.soft = "no"]
          [] used >= soft_limit_bytes /\ y.soft = "no" -> [y EXCEPT !.soft = "reached"]
          [] OTHER -> y
      close(y, used) == used >= hard_limit_bytes \/ (used >= soft_limit_bytes /\ x.soft = "long")
      both(used) == LET y == soft(x, used) IN IF close(y, used) THEN freeClientAsync(y) ELSE y
  IN both(getClientOutputBufferMemoryUsage(x))

asyncCloseClientOnOutputBufferLimitReached(x) ==
  IF Flagged(x, "close_asap") THEN x ELSE checkClientOutputBufferLimits(x)

(* A plausible slip: a short reply overtakes the chunks that wait in the list. *)
FitsAlone(x, s) == Len(s) <= PROTO_REPLY_CHUNK_BYTES - Len(x.buf)

(* _addReplyToBuffer: whether the fixed buffer takes the bytes. *)
addReplyToBuffer(x, s) == x.list = <<>> /\ Len(s) <= PROTO_REPLY_CHUNK_BYTES - Len(x.buf)

(* _addReplyObjectToList and its siblings: the last chunk grows if it may be changed *)
(* (raw) and stays small enough; an empty one is a length still to be filled in.     *)
addReplyObjectToList(x, s, raw) ==
  LET l == Len(x.list)
      glue == l > 0 /\ x.list[l].s # <<>> /\ x.list[l].raw
                /\ Len(x.list[l].s) + Len(s) <= PROTO_REPLY_CHUNK_BYTES
      grown == IF glue THEN Append(Front(x.list), [s |-> x.list[l].s \o s, raw |-> TRUE])
               ELSE Append(x.list, [s |-> s, raw |-> raw])
  IN asyncCloseClientOnOutputBufferLimitReached([x EXCEPT !.list = grown])

addReply(x, s, raw) ==
  LET add(y) == CASE Flagged(y, "close_after") -> y
                  [] ~Flagged(y, "close_after") /\ addReplyToBuffer(y, s) -> [y EXCEPT !.buf = @ \o s]
                  [] OTHER -> addReplyObjectToList(y, s, raw)
  IN IF Muted(x) THEN x ELSE add(prepareClientToWrite(x))

(* The bytes from..to of the reply to command k. *)
ReplyBytes(k, from, to) == SubSeq([i \in 1..to |-> <<k, i>>], from, to)

addReplyStatus(x, k) == addReply(x, ReplyBytes(k, 1, 2), FALSE)

addReplyBulk(x, k, from, len) ==
  addReply(addReply(addReply(x, ReplyBytes(k, from, from), FALSE),
                    ReplyBytes(k, from + 1, from + len), TRUE),
           ReplyBytes(k, from + len + 1, from + len + 1), FALSE)

addReplyError(x) == addReply(addReply(x, ReplyBytes(0, 1, 1), FALSE), ReplyBytes(0, 2, 3), FALSE)

addDeferredMultiBulkLength(x) ==
  [prepareClientToWrite(x) EXCEPT !.list = Append(@, [s |-> <<>>, raw |-> FALSE])]

(* The chunk of the length, at the given place of the list, takes in the next one. *)
setDeferredMultiBulkLength(x, node, k) ==
  LET next == IF node < Len(x.list) THEN x.list[node + 1].s ELSE <<>>
      glued == [s |-> ReplyBytes(k, 1, 1) \o next, raw |-> TRUE]
      list == Append(SubSeq(x.list, 1, node - 1), glued)
                \o From(x.list, IF next = <<>> THEN node ELSE node + 1)
  IN asyncCloseClientOnOutputBufferLimitReached([x EXCEPT !.list = list])

(* A reply of as many elements as there are arguments, its length written last. *)
MultiBulkReply(x, k, args) ==
  LET element(a, arg) == [x |-> addReplyBulk(a.x, k, a.at, Len(arg)), at |-> a.at + Len(arg) + 2]
      filled(y) == FoldLeft(element, [x |-> y, at |-> 2], args).x
  IN IF Muted(x) THEN x
     ELSE setDeferredMultiBulkLength(filled(addDeferredMultiBulkLength(x)), Len(x.list) + 1, k)

-----------------------------------------------------------------------------
(* Blocking, pausing, closing. *)
blockClient(x) == SetFlag(x, "blocked")

unblockClient(x) ==
  LET y == ClearFlag(x, "blocked")
  IN IF Flagged(y, "unblocked") THEN y
     ELSE [SetFlag(y, "unblocked") EXCEPT !.queued = @ + 1]

(* Also ends a pause whose time is over: the client, unless it is blocked, is queued *)
(* to have its buffered input processed.                                             *)
clientsArePaused(x) ==
  CASE x.pause = "over" /\ ~Flagged(x, "blocked") ->
         [SetFlag(x, "unblocked") EXCEPT !.pause = "no", !.queued = @ + 1]
    [] x.pause = "over" /\ Flagged(x, "blocked") -> [x EXCEPT !.pause = "no"]
    [] OTHER -> x

unlinkClient(x) ==
  [x EXCEPT !.queued = IF Flagged(x, "unblocked") THEN @ - 1 ELSE @, !.flags = {}]

freeClient(x) ==
  LET gone(y) == [createClient(x.stream) EXCEPT !.alive = FALSE, !.done = x.done, !.got = x.got,
                    !.in = <<>>, !.queued = y.queued, !.pauses = 0]
  IN gone(unlinkClient(IF Flagged(x, "blocked") THEN unblockClient(x) ELSE x))

freeClientsInAsyncFreeQueue(x) == IF Flagged(x, "close_asap") THEN freeClient(x) ELSE x

-----------------------------------------------------------------------------
(* Writing to the socket, which takes t bytes before it would block. *)
WriteOnce(a) ==
  LET fixed == a.x.buf # <<>>
      chunk == IF fixed THEN a.x.buf ELSE a.x.list[1].s
      w == Min({a.t, Len(chunk) - a.x.sentlen})
      to == a.x.sentlen + w
      sent == [a.x EXCEPT !.got = @ \o SubSeq(chunk, a.x.sentlen + 1, to)]
  IN [t |-> a.t - w,
      x |-> CASE to < Len(chunk) -> [sent EXCEPT !.sentlen = to]
              [] to = Len(chunk) /\ fixed -> [sent EXCEPT !.sentlen = 0, !.buf = <<>>]
              [] to = Len(chunk) /\ ~fixed -> [sent EXCEPT !.sentlen = 0, !.list = Tail(@)]]

writeToClient(x, t) ==
  LET step(a, i) == IF a.t > 0 /\ clientHasPendingReplies(a.x) THEN WriteOnce(a) ELSE a
      written == FoldLeft(step, [x |-> x, t |-> t], [i \in 1..(Len(x.list) + 1) |-> i]).x
      settled(y) == CASE clientHasPendingReplies(y) -> y
                      [] ~clientHasPendingReplies(y) /\ Flagged(y, "close_after") -> freeClient(y)
                      [] OTHER -> [y EXCEPT !.sentlen = 0, !.handler = FALSE]
  IN settled(written)

handleClientsWithPendingWrites(x, t) ==
  LET rest(y) == [y EXCEPT !.handler = clientHasPendingReplies(y)]
  IN IF Flagged(x, "pending") THEN rest(writeToClient(ClearFlag(x, "pending"), t)) ELSE x

-----------------------------------------------------------------------------
(* Input. *)
(* The functions that parse say how they ended (go): "on" with a request, "more" if  *)
(* it is not complete, "error" with the place the buffer is cut at.                  *)
More(x) == [x EXCEPT !.go = "more"]
Wrong(x, pos) == [x EXCEPT !.go = "error", !.pos = pos]

setProtocolError(x) ==
  [SetFlag(addReplyError(x), "close_after") EXCEPT !.qb = From(@, x.pos), !.pos = 0]

(* The place of the first such byte after the first i, 0 if there is none. *)
strchr(s, b, i) ==
  LET at == {j \in (i + 1)..Len(s) : s[j] = b} IN IF at = {} THEN 0 ELSE Min(at)

(* The number a text of one digit, perhaps with a sign, stands for; {} if it is none. *)
string2ll(s) ==
  CASE Len(s) = 1 -> {k \in 0..9 : Numeral(k) = s[1]}
    [] Len(s) = 2 /\ s[1] = "-" -> {k \in -9..-1 : Numeral(-k) = s[2]}
    [] OTHER -> {}

(* The words of a line; NULL, here {}, for quotes that are not closed. *)
sdssplitargs(s) ==
  LET word(a, b) == CASE b = " " -> [a EXCEPT !.in = FALSE]
                      [] b # " " /\ a.in -> [a EXCEPT !.ws = Append(Front(@), Append(Last(@), b))]
                      [] OTHER -> [in |-> TRUE, ws |-> Append(a.ws, <<b>>)]
  IN IF "quote" \in ToSet(s) THEN {} ELSE {FoldLeft(word, [in |-> FALSE, ws |-> <<>>], s).ws}

processInlineBuffer(x) ==
  LET nl == strchr(x.qb, "LF", 0)
      querylen == IF nl > 1 /\ x.qb[nl - 1] = "CR" THEN nl - 2 ELSE nl - 1
      argv == sdssplitargs(SubSeq(x.qb, 1, querylen))
  IN CASE nl = 0 /\ Len(x.qb) > PROTO_INLINE_MAX_SIZE -> Wrong(x, 0)
       [] nl = 0 /\ Len(x.qb) <= PROTO_INLINE_MAX_SIZE -> More(x)
       [] nl # 0 /\ argv = {} -> Wrong(x, 0)
       [] OTHER -> [x EXCEPT !.qb = From(@, querylen + 2), !.argv = CHOOSE a \in argv : TRUE]

(* The line after the first pos bytes that ends in CR LF: how it is dealt with. *)
Line(x, Complete(_)) ==
  LET nl == strchr(x.qb, "CR", x.pos)
  IN CASE nl = 0 /\ Len(x.qb) > PROTO_INLINE_MAX_SIZE -> Wrong(x, 0)
       [] nl = 0 /\ Len(x.qb) <= PROTO_INLINE_MAX_SIZE -> More(x)
       [] nl > Len(x.qb) - 1 -> More(x)
       [] OTHER -> Complete(nl)

MultibulkLength(x) ==
  LET complete(nl) ==
        LET ll == string2ll(SubSeq(x.qb, 2, nl - 1)) IN
        CASE ll = {} \/ \E k \in ll : k > MaxMultibulk -> Wrong(x, 0)
          [] \E k \in ll : k <= 0 -> [x EXCEPT !.pos = nl + 1]
          [] OTHER -> [x EXCEPT !.pos = nl + 1, !.mb = Max(ll)]
  IN Line(x, complete)

(* A big argument is moved to the start of the buffer. *)
BulkLength(x) ==
  LET start(y, ll) == IF ll >= PROTO_MBULK_BIG_ARG
                      THEN [y EXCEPT !.bulk = ll, !.qb = From(@, y.pos), !.pos = 0]
                      ELSE [y EXCEPT !.bulk = ll]
      complete(nl) ==
        LET ll == string2ll(SubSeq(x.qb, x.pos + 2, nl - 1)) IN
        CASE x.qb[x.pos + 1] # "$" -> Wrong(x, x.pos)
          [] x.qb[x.pos + 1] = "$" /\ (ll = {} \/ \E k \in ll : k < 0 \/ k > MaxBulk) ->
               Wrong(x, x.pos)
          [] OTHER -> start([x EXCEPT !.pos = nl + 1], Max(ll))
  IN Line(x, complete)

(* A big argument that fills the buffer becomes the argument itself, without a copy. *)
BulkArgument(x) ==
  LET read(y) == [y EXCEPT !.argv = Append(@, SubSeq(x.qb, x.pos + 1, x.pos + x.bulk)),
                           !.bulk = -1, !.mb = @ - 1]
  IN CASE Len(x.qb) - x.pos < x.bulk + 2 -> More(x)
       [] Len(x.qb) - x.pos >= x.bulk + 2 /\ x.pos = 0 /\ x.bulk >= PROTO_MBULK_BIG_ARG
            /\ Len(x.qb) = x.bulk + 2 -> read([x EXCEPT !.qb = <<>>])
       [] OTHER -> read([x EXCEPT !.pos = @ + x.bulk + 2])

processMultibulkBuffer(x) ==
  LET header(y) == IF y.mb = 0 THEN MultibulkLength(y) ELSE y
      length(y) == IF y.bulk = -1 THEN BulkLength(y) ELSE y
      argument(y) == IF y.go = "on" THEN BulkArgument(y) ELSE y
      step(y, i) == IF y.go = "on" /\ y.mb > 0 THEN argument(length(y)) ELSE y
      loop(y) == FoldLeft(step, y, [i \in 1..y.mb |-> i])
      trim(y) == IF y.go = "error" THEN y ELSE [y EXCEPT !.qb = From(@, y.pos), !.pos = 0]
  IN trim(loop(header(x)))

resetClient(x) ==
  LET y == [x EXCEPT !.argv = <<>>, !.reqtype = "none", !.mb = 0, !.bulk = -1]
  IN IF Flagged(x, "skip_next")
     THEN [y EXCEPT !.flags = (@ \ {"skip_next"}) \cup {"skip"}]
     ELSE ClearFlag(y, "skip")

(* CLIENT REPLY. *)
ClientReply(x, k, mode) ==
  CASE mode = <<"on">> -> addReplyStatus([x EXCEPT !.flags = @ \ {"off", "skip"}], k)
    [] mode = <<"off">> -> SetFlag(x, "off")
    [] mode = <<"skip">> -> IF Flagged(x, "off") THEN x ELSE SetFlag(x, "skip_next")

(* processCommand, for commands that stand for the ways to reply; QUIT does not come *)
(* back to reset the client.                                                         *)
RunCommand(x, k) ==
  LET name == x.argv[1][1] IN
  CASE name \in {"ping", "quit"} -> addReplyStatus(x, k)
    [] name = "echo" -> addReplyBulk(x, k, 1, Len(x.argv[2]))
    [] name = "list" -> MultiBulkReply(x, k, Tail(x.argv))
    [] name = "block" -> blockClient(x)
    [] name = "reply" -> ClientReply(x, k, x.argv[2])

AfterCommand(x) == IF x.argv[1] = <<"quit">> THEN SetFlag(x, "close_after") ELSE resetClient(x)

ProcessCommand(x) == AfterCommand(RunCommand([x EXCEPT !.done = Append(@, x.argv)], Len(x.done) + 1))

Busy(x) == x.pause = "on" \/ Flagged(x, "blocked") \/ Flagged(x, "close_after")

(* Request type, parser, execution. *)
RequestType(x) ==
  IF x.reqtype # "none" THEN x
  ELSE [x EXCEPT !.reqtype = IF x.qb[1] = "*" THEN "multibulk" ELSE "inline"]

Parse(x) == IF x.reqtype = "inline" THEN processInlineBuffer(x) ELSE processMultibulkBuffer(x)

Execute(x) ==
  CASE x.go = "more" -> x
    [] x.go = "error" -> setProtocolError(x)
    [] x.go = "on" /\ x.argv = <<>> -> resetClient(x)
    [] OTHER -> ProcessCommand(x)

Request(x) == IF Busy(x) THEN [x EXCEPT !.go = "busy"] ELSE Execute(Parse(RequestType(x)))

processInputBuffer(x) ==
  [FoldLeft(LAMBDA y, i : IF y.go # "on" \/ y.qb = <<>> THEN y ELSE Request(clientsArePaused(y)),
            x, [i \in 1..Len(x.qb) |-> i]) EXCEPT !.go = "on"]

(* At most this many bytes are read: a big argument is not read past its end. *)
ReadLen(x) ==
  IF x.reqtype = "multibulk" /\ x.mb > 0 /\ x.bulk >= PROTO_MBULK_BIG_ARG
  THEN Min({PROTO_IOBUF_LEN, x.bulk + 2 - Len(x.qb)}) ELSE PROTO_IOBUF_LEN

(* The socket has some bytes; a read of none of them counts as its end. *)
readQueryFromClient(x, some) ==
  LET nread == Min({some, ReadLen(x)})
      filled == [x EXCEPT !.qb = @ \o SubSeq(x.in, 1, nread), !.in = From(@, nread)]
  IN CASE nread <= 0 -> freeClient(x)
       [] nread > 0 /\ Len(filled.qb) > client_max_querybuf_len -> freeClient(filled)
       [] OTHER -> processInputBuffer(filled)

ProcessUnblocked(x) == IF ~Flagged(x, "blocked") /\ x.qb # <<>> THEN processInputBuffer(x) ELSE x

processUnblockedClients(x) ==
  FoldLeft(LAMBDA y, i : IF y.queued = 0 THEN y
                         ELSE ProcessUnblocked([ClearFlag(y, "unblocked") EXCEPT !.queued = @ - 1]),
           x, [i \in 1..(x.queued + 2) |-> i])

-----------------------------------------------------------------------------
(* The event loop.  serverCron runs after the handlers of a round, so that only      *)
(* beforeSleep follows it.                                                           *)
Out(x) == From(x.buf \o FlattenSeq([i \in DOMAIN x.list |-> x.list[i].s]), x.sentlen)

Handler == n.alive /\ ~n.cron

Read == /\ Handler
        /\ \E some \in 1..Len(n.in) : n' = readQueryFromClient(n, some)

sendReplyToClient == /\ Handler /\ n.handler
                     /\ \E t \in 1..Len(Out(n)) : n' = writeToClient(n, t)

(* The connection breaks, noticed by a read or a write. *)
Hangup == Handler /\ n' = freeClient(n)

(* Another client's command gives the blocked one what it waits for. *)
Served(x) == unblockClient(addReplyStatus(x, Len(x.done)))

Serve == /\ Handler /\ Flagged(n, "blocked")
         /\ n.pause # "on"
         /\ n' = Served(clientsArePaused(n))

pauseClients == /\ Handler /\ n.pauses > 0 /\ n.pause # "on"
                /\ n' = [clientsArePaused(n) EXCEPT !.pause = "on", !.pauses = @ - 1]

(* The output has been over its soft limit for too long. *)
TimePasses == Handler /\ n.soft = "reached" /\ n' = [n EXCEPT !.soft = "long"]

(* The clock is read once per round, here: a pause may turn out to be over, a        *)
(* blocked client to have waited long enough.                                        *)
serverCron ==
  LET timeouts == {n} \cup {Served(x) : x \in {y \in {n} : Flagged(y, "blocked")}}
      paused(x) == {x} \cup {[y EXCEPT !.pause = "over"] : y \in {y \in {x} : y.pause = "on"}}
  IN /\ Handler
     /\ \E x \in timeouts : \E y \in paused(freeClientsInAsyncFreeQueue(x)) :
          n' = [clientsArePaused(y) EXCEPT !.cron = TRUE]

beforeSleep ==
  /\ n.alive
  /\ \E x \in {processUnblockedClients([n EXCEPT !.cron = FALSE])} :
       \E t \in 0..Len(Out(x)) : n' = handleClientsWithPendingWrites(x, t)

NetworkingInit == \E s \in Streams : n = createClient(s)
NetworkingNext == \/ Read \/ sendReplyToClient \/ Hangup \/ Serve
        \/ pauseClients \/ TimePasses \/ serverCron \/ beforeSleep

-----------------------------------------------------------------------------
(* The commands a client meant to send, up to a malformed request. *)
Commands(s) == FlattenSeq([i \in DOMAIN s |-> IF s[i].how = "raw" THEN <<>> ELSE <<s[i].argv>>])

IsReply(argv, mode) == argv = << <<"reply">>, <<mode>> >>

(* Whether the client asked not to get the reply to command k. *)
Silenced(cs, k) ==
  \/ IsReply(cs[k], "off") \/ IsReply(cs[k], "skip")
  \/ /\ ~IsReply(cs[k], "on")
     /\ \/ k > 1 /\ IsReply(cs[k - 1], "skip")
        \/ \E j \in 1..(k - 1) : /\ IsReply(cs[j], "off")
                                 /\ \A i \in (j + 1)..(k - 1) : ~IsReply(cs[i], "on")

ReplyLength(argv) ==
  CASE argv[1] = <<"echo">> -> Len(argv[2]) + 2
    [] argv[1] = <<"list">> -> FoldLeft(LAMBDA a, arg : a + Len(arg) + 2, 1, Tail(argv))
    [] OTHER -> 2

Replies(cs) ==
  FlattenSeq([k \in DOMAIN cs |-> IF Silenced(cs, k) THEN <<>> ELSE ReplyBytes(k, 1, ReplyLength(cs[k]))])

Complaint == ReplyBytes(0, 1, 3)

(* Nothing is left to do for the client. *)
AllDone == /\ n.alive /\ n.in = <<>> /\ n.pause = "no" /\ n.queued = 0
        /\ n.flags \cap {"blocked", "close_after"} = {}
=============================================================================
