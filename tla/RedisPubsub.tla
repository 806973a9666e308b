----------------------------- MODULE RedisPubsub -----------------------------
(* Publish and subscribe (pubsub.c).  Subscriptions are kept twice: with the client, *)
(* and with the server as a list of clients per channel and one list of patterns.    *)
(* What a client is sent is a sequence of entries <<kind, name, number or message>>. *)
EXTENDS Integers, SequencesExt, FiniteSetsExt

CONSTANTS Subscribers, Channels, Patterns,
          Matches,       \* Matches[p]: the channels pattern p matches (stringmatchlen)
          PubsubStarts,  \* what a client may be subscribed to in the beginning
          PubsubOps,     \* how many commands follow the first subscriptions
          PubsubMessages \* how many messages are published

VARIABLE ps

(* chans, pats: per client; channels, patterns: the server's; flag: CLIENT_PUBSUB;   *)
(* inbox: what each client was sent; log: what was published, and what each client   *)
(* had been sent by then.                                                            *)
Empty == [chans |-> [c \in Subscribers |-> {}], pats |-> [c \in Subscribers |-> <<>>],
          channels |-> [ch \in Channels |-> <<>>], patterns |-> <<>>, flag |-> {},
          inbox |-> [c \in Subscribers |-> <<>>], log |-> <<>>, left |-> PubsubOps, gone |-> {}]

clientSubscriptionsCount(x, c) == Cardinality(x.chans[c]) + Len(x.pats[c])

Tell(x, c, kind, name, info) == [x EXCEPT !.inbox[c] = Append(@, <<kind, name, info>>)]

Notify(x, c, kind, name) == Tell(x, c, kind, name, clientSubscriptionsCount(x, c))

pubsubSubscribeChannel(x, c, ch) ==
  LET added == IF ch \in x.chans[c] THEN x
               ELSE [x EXCEPT !.chans[c] = @ \cup {ch}, !.channels[ch] = Append(@, c)]
  IN Notify(added, c, "subscribe", ch)

(* A plausible slip: the channel goes with the first client that leaves it. *)
DropChannel(clients, c) == <<>>

(* The clients of a channel without c. *)
listDelNode(clients, c) == SelectSeq(clients, LAMBDA d : d # c)

pubsubUnsubscribeChannel(x, c, ch, notify) ==
  LET removed == IF ch \notin x.chans[c] THEN x
                 ELSE [x EXCEPT !.chans[c] = @ \ {ch}, !.channels[ch] = listDelNode(@, c)]
  IN IF notify THEN Notify(removed, c, "unsubscribe", ch) ELSE removed

pubsubSubscribePattern(x, c, p) ==
  LET added == IF p \in ToSet(x.pats[c]) THEN x
               ELSE [x EXCEPT !.pats[c] = Append(@, p), !.patterns = Append(@, <<c, p>>)]
  IN Notify(added, c, "psubscribe", p)

pubsubUnsubscribePattern(x, c, p, notify) ==
  LET removed == IF p \notin ToSet(x.pats[c]) THEN x
                 ELSE [x EXCEPT !.pats[c] = SelectSeq(@, LAMBDA d : d # p),
                                !.patterns = SelectSeq(@, LAMBDA d : d # <<c, p>>)]
  IN IF notify THEN Notify(removed, c, "punsubscribe", p) ELSE removed

(* The channels are visited in the order of a hash table, here some order. *)
pubsubUnsubscribeAllChannels(x, c, notify) ==
  LET each(y, ch) == pubsubUnsubscribeChannel(y, c, ch, notify)
  IN IF notify /\ x.chans[c] = {} THEN Notify(x, c, "unsubscribe", "nil")
     ELSE FoldLeft(each, x, SetToSeq(x.chans[c]))

pubsubUnsubscribeAllPatterns(x, c, notify) ==
  LET each(y, p) == pubsubUnsubscribePattern(y, c, p, notify)
  IN IF notify /\ x.pats[c] = <<>> THEN Notify(x, c, "punsubscribe", "nil")
     ELSE FoldLeft(each, x, x.pats[c])

pubsubPublishMessage(x, ch, m) ==
  LET direct(y, c) == Tell(y, c, "message", ch, m)
      matched(y, cp) == IF ch \in Matches[cp[2]] THEN Tell(y, cp[1], "pmessage", cp[2], m) ELSE y
      sent(y) == FoldLeft(matched, y, y.patterns)
  IN sent(FoldLeft(direct, x, x.channels[ch]))

-----------------------------------------------------------------------------
(* Commands; each ends with CLIENT_PUBSUB set or, with nothing left, cleared. *)
Subscribed(x, c) == [x EXCEPT !.flag = @ \cup {c}]
Unsubscribed(x, c) == IF clientSubscriptionsCount(x, c) = 0 THEN [x EXCEPT !.flag = @ \ {c}] ELSE x

subscribeCommand(x, c, chs) ==
  Subscribed(FoldLeft(LAMBDA y, ch : pubsubSubscribeChannel(y, c, ch), x, chs), c)

unsubscribeCommand(x, c, chs) ==
  Unsubscribed(IF chs = <<>> THEN pubsubUnsubscribeAllChannels(x, c, TRUE)
               ELSE FoldLeft(LAMBDA y, ch : pubsubUnsubscribeChannel(y, c, ch, TRUE), x, chs), c)

psubscribeCommand(x, c, pats) ==
  Subscribed(FoldLeft(LAMBDA y, p : pubsubSubscribePattern(y, c, p), x, pats), c)

punsubscribeCommand(x, c, pats) ==
  Unsubscribed(IF pats = <<>> THEN pubsubUnsubscribeAllPatterns(x, c, TRUE)
               ELSE FoldLeft(LAMBDA y, p : pubsubUnsubscribePattern(y, c, p, TRUE), x, pats), c)

(* The message is its number. *)
publishCommand(x, ch) ==
  pubsubPublishMessage([x EXCEPT !.log = Append(@, [ch |-> ch, had |-> [c \in Subscribers |-> Len(x.inbox[c])],
                                                    open |-> Subscribers \ x.gone])],
                       ch, Len(x.log) + 1)

(* freeClient: nothing is sent any more. *)
Quit(x, c) ==
  [pubsubUnsubscribeAllPatterns(pubsubUnsubscribeAllChannels(x, c, FALSE), c, FALSE)
     EXCEPT !.gone = @ \cup {c}, !.flag = @ \ {c}]

(* No channel, one, or two of them, perhaps the same one twice. *)
Lists(S) == {<<>>} \cup {<<a>> : a \in S} \cup (S \X S)

Command(c) ==
  \/ \E chs \in Lists(Channels) \ {<<>>} : ps' = [subscribeCommand(ps, c, chs) EXCEPT !.left = @ - 1]
  \/ \E chs \in Lists(Channels) : ps' = [unsubscribeCommand(ps, c, chs) EXCEPT !.left = @ - 1]
  \/ \E pats \in Lists(Patterns) \ {<<>>} : ps' = [psubscribeCommand(ps, c, pats) EXCEPT !.left = @ - 1]
  \/ \E pats \in Lists(Patterns) : ps' = [punsubscribeCommand(ps, c, pats) EXCEPT !.left = @ - 1]
  \/ ps' = [Quit(ps, c) EXCEPT !.left = @ - 1]

(* Each client starts with some subscriptions; a publisher never needs one. *)
PubsubInit ==
  \E first \in [Subscribers -> PubsubStarts] :
    LET subscribe(x, c) == IF first[c].chs = <<>> THEN x ELSE subscribeCommand(x, c, first[c].chs)
        start(x, c) == IF first[c].pats = <<>> THEN subscribe(x, c)
                       ELSE psubscribeCommand(subscribe(x, c), c, first[c].pats)
    IN ps = FoldLeft(start, Empty, SetToSeq(Subscribers))

PubsubNext ==
  \/ ps.left > 0 /\ \E c \in Subscribers \ ps.gone : Command(c)
  \/ Len(ps.log) < PubsubMessages /\ \E ch \in Channels : ps' = publishCommand(ps, ch)

-----------------------------------------------------------------------------
(* What a client must believe of its subscriptions from the first k entries it got. *)
Believed(c, k, on, off) ==
  LET entries == SubSeq(ps.inbox[c], 1, k)
  IN {e[2] : e \in {entries[i] : i \in {i \in DOMAIN entries :
        /\ entries[i][1] = on
        /\ \A j \in (i + 1)..Len(entries) : ~(entries[j][1] = off /\ entries[j][2] = entries[i][2])}}}

BelievedChannels(c, k) == Believed(c, k, "subscribe", "unsubscribe")
BelievedPatterns(c, k) == Believed(c, k, "psubscribe", "punsubscribe")

(* What client c is to get of the m-th message, told from the confirmations it had. *)
Expected(c, m) ==
  LET k == ps.log[m].had[c] IN
  IF c \notin ps.log[m].open THEN {}
  ELSE {<<"message", ch, m>> : ch \in BelievedChannels(c, k) \cap {ps.log[m].ch}}
         \cup {<<"pmessage", p, m>> : p \in {p \in BelievedPatterns(c, k) : ps.log[m].ch \in Matches[p]}}
=============================================================================
