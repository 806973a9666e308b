------------------------- MODULE MCRedisStructures -------------------------
(* Small instances of the data structures. *)
EXTENDS RedisStructures

AllParts == {"dict", "skiplist", "ziplist", "quicklist", "hyperloglog", "intset", "pubsub", "networking"}

\* Six keys; four of them meet in a bucket of the smallest table, two in one of the next.
MCDictHash == <<0, 1, 2, 4, 6, 5>>
\* In the last start a table of eight holds two keys: it may shrink by four at once.
MCDictStarts == {<<0, {}>>, <<2, {}>>, <<3, {}>>, <<5, {}>>, <<5, {1, 2, 5}>>}
OnlyDict == {"dict"}

\* 247 and 250 bytes make an entry just shorter than 254, which a longer prevlen widens.
\* An immediate integer makes the shortest entry, two bytes; the largest takes ten.
MCZipValues == {<<"int", 1>>, <<"int", 20000000>>, <<"str", 5>>, <<"str", 247>>, <<"str", 250>>, <<"str", 300>>}

MCQSize == [x \in {"s", "L"} |-> IF x = "s" THEN 1 ELSE 40]
MCQFills == {2, -1}
MCOptimization == <<60>>

MCHllElements == <<(1..5) \X (1..3), {<<2, 1>>, <<3, 2>>}>>
MCHllMerges == {<<1, 2>>}

\* Values of one, two and four bytes to the base 4, and the ends of each range.
MCIntWidths == <<1, 2, 4>>
MCIntValues == {-128, -20, -8, -2, -1, 0, 1, 5, 100}

MCMatches == [p |-> {"a", "b"}]
MCPubsubStarts ==
  {[chs |-> <<>>, pats |-> <<>>], [chs |-> <<"a">>, pats |-> <<>>], [chs |-> <<"a", "b">>, pats |-> <<"p">>]}

\* Pipelines of requests in both formats, and requests that are malformed.
M(args) == [how |-> "multibulk", argv |-> args]
I(args) == [how |-> "inline", argv |-> args]
Raw(b) == [how |-> "raw", bytes |-> b]
PING == << <<"ping">> >>
R(m) == << <<"reply">>, <<m>> >>
MCStreams ==
  {<<M(PING), I(PING), M(<< <<"echo">>, <<"CR", "LF", "*">> >>), M(PING)>>,
   <<M(<< <<"list">>, <<"a", "b">>, <<"c">> >>), M(PING), M(PING)>>,
   <<M(<< <<"block">> >>), M(PING), I(<< <<"block">> >>), I(PING)>>,
   <<M(R("skip")), M(PING), M(R("off")), I(PING), M(R("on")), I(PING)>>,
   <<I(PING), M(<< <<"quit">> >>), I(PING)>>,
   <<Raw(<<"*", "0", "CR", "LF", "CR", "LF", "*", "-", "1", "CR", "LF">>), I(PING)>>,
   <<I(PING), Raw(<<"*", "x", "CR", "LF">>)>>,
   <<M(PING), Raw(<<"*", "1", "CR", "LF", "$", "-", "1", "CR", "LF">>)>>,
   <<M(PING), Raw(<<"*", "1", "CR", "LF", "4", "CR", "LF">>)>>,
   <<I(PING), Raw(<<"a", "quote", "LF">>)>>,
   <<I(PING), Raw(<<"*", "1", "1", "1", "1", "1", "1", "1", "1", "1", "1", "1">>)>>,
   <<M(<< <<"echo">>, <<"1", "2", "3", "4", "5", "6", "7">> >>), M(PING)>>}
=============================================================================
