------------------------ MODULE AuthConcurrencyProofs ------------------------
(***************************************************************************)
(* What the server guarantees however its requests overlap.                *)
(***************************************************************************)
EXTENDS AuthServiceProofs

-----------------------------------------------------------------------------
(* Lines of callbacks: what appending an entry and removing one do.        *)

\* A command of another request, or one nobody waits for, joins the line.
LEMMA AppendOther ==
  ASSUME NEW E, NEW line \in Seq(E), NEW c \in E, NEW s, c.slot # s, NEW a, NEW b
  PROVE /\ NoneOf(line, s) => NoneOf(Append(line, c), s)
        /\ OneOf(line, s, a) => OneOf(Append(line, c), s, a)
        /\ TwoOf(line, s, a, b) => TwoOf(Append(line, c), s, a, b)
  <1> DEFINE new == Append(line, c)
  <1>1. /\ Len(line) \in Nat /\ Len(new) = Len(line) + 1
        /\ \A i \in 1..Len(line) : new[i] = line[i] /\ i \in 1..Len(new)
        /\ \A i \in 1..Len(new) : i \in 1..Len(line) \/ new[i] = c
    OBVIOUS
  <1> HIDE DEF new
  <1>2. NoneOf(line, s) => NoneOf(new, s)
    BY <1>1 DEF NoneOf
  <1>3. OneOf(line, s, a) => OneOf(new, s, a)
    BY <1>1 DEF OneOf
  <1>4. TwoOf(line, s, a, b) => TwoOf(new, s, a, b)
    BY <1>1 DEF TwoOf
  <1> QED BY <1>2, <1>3, <1>4 DEF new

\* A command of the request joins the line: it is the last to be answered.
LEMMA AppendOwn ==
  ASSUME NEW E, NEW line \in Seq(E), NEW c \in E, NEW a
  PROVE /\ NoneOf(line, c.slot) => OneOf(Append(line, c), c.slot, c.cb)
        /\ OneOf(line, c.slot, a) => TwoOf(Append(line, c), c.slot, a, c.cb)
  <1> DEFINE new == Append(line, c)
             n == Len(line)
  <1>1. /\ n \in Nat /\ Len(new) = n + 1
        /\ new[n + 1] = c
        /\ \A i \in 1..n : new[i] = line[i]
    OBVIOUS
  <1> HIDE DEF new, n
  <1>2. ASSUME NoneOf(line, c.slot) PROVE OneOf(new, c.slot, c.cb)
    <2>1. \A k \in 1..(n + 1) : new[k].slot = c.slot => k = n + 1
      BY <1>1, <1>2 DEF NoneOf, n
    <2>2. n + 1 \in 1..(n + 1)
      BY <1>1
    <2> QED BY <1>1, <2>1, <2>2 DEF OneOf
  <1>3. ASSUME OneOf(line, c.slot, a) PROVE TwoOf(new, c.slot, a, c.cb)
    <2>1. PICK i \in 1..n : /\ line[i].slot = c.slot /\ line[i].cb = a
                            /\ \A k \in 1..n : line[k].slot = c.slot => k = i
      BY <1>3 DEF OneOf, n
    <2>2. \A k \in 1..(n + 1) : new[k].slot = c.slot => k = i \/ k = n + 1
      BY <1>1, <2>1
    <2>3. /\ i \in 1..(n + 1) /\ n + 1 \in 1..(n + 1) /\ i < n + 1
          /\ new[i].slot = c.slot /\ new[i].cb = a
      BY <1>1, <2>1
    <2> QED BY <1>1, <2>2, <2>3 DEF TwoOf
  <1> QED BY <1>2, <1>3 DEF new

\* Entry p leaves the line, and it is not of request s.
LEMMA RemoveOther ==
  ASSUME NEW line, NEW new, NEW m \in Nat, NEW p \in 1..m, NEW s, NEW a, NEW b,
         Len(line) = m, Len(new) = m - 1, line[p].slot # s,
         \A i \in 1..(m - 1) : i < p => new[i].slot = line[i].slot /\ new[i].cb = line[i].cb,
         \A i \in 1..(m - 1) : i >= p => new[i].slot = line[i + 1].slot /\ new[i].cb = line[i + 1].cb
  PROVE /\ NoneOf(line, s) => NoneOf(new, s)
        /\ OneOf(line, s, a) => OneOf(new, s, a)
        /\ TwoOf(line, s, a, b) => TwoOf(new, s, a, b)
  <1>1. \A i \in 1..(m - 1) : \E k \in 1..m :
           /\ k = (IF i < p THEN i ELSE i + 1)
           /\ new[i].slot = line[k].slot /\ new[i].cb = line[k].cb
    OBVIOUS
  <1>2. \A k \in 1..m : k # p => \E i \in 1..(m - 1) :
           /\ i = (IF k < p THEN k ELSE k - 1)
           /\ k = (IF i < p THEN i ELSE i + 1)
           /\ new[i].slot = line[k].slot /\ new[i].cb = line[k].cb
    <2> SUFFICES ASSUME NEW k \in 1..m, k # p
                 PROVE \E i \in 1..(m - 1) :
                   /\ i = (IF k < p THEN k ELSE k - 1)
                   /\ k = (IF i < p THEN i ELSE i + 1)
                   /\ new[i].slot = line[k].slot /\ new[i].cb = line[k].cb
      OBVIOUS
    <2>1. CASE k < p
      <3>1. k \in 1..(m - 1)
        BY <2>1
      <3> QED BY <2>1, <3>1
    <2>2. CASE k > p
      <3>1. k - 1 \in 1..(m - 1) /\ k - 1 >= p /\ (k - 1) + 1 = k
        BY <2>2
      <3> QED BY <2>2, <3>1
    <2> QED BY <2>1, <2>2
  <1>3. NoneOf(line, s) => NoneOf(new, s)
    BY <1>1 DEF NoneOf
  <1>4. ASSUME OneOf(line, s, a) PROVE OneOf(new, s, a)
    <2>1. PICK k \in 1..m : /\ line[k].slot = s /\ line[k].cb = a
                            /\ \A q \in 1..m : line[q].slot = s => q = k
      BY <1>4 DEF OneOf
    <2>2. PICK i \in 1..(m - 1) : /\ k = (IF i < p THEN i ELSE i + 1)
                                  /\ new[i].slot = line[k].slot /\ new[i].cb = line[k].cb
      BY <1>2, <2>1
    <2>3. ASSUME NEW q \in 1..(m - 1), new[q].slot = s PROVE q = i
      <3>1. (IF q < p THEN q ELSE q + 1) = k
        BY <1>1, <2>1, <2>3
      <3> QED BY <2>2, <3>1
    <2> QED BY <2>1, <2>2, <2>3 DEF OneOf
  <1>5. ASSUME TwoOf(line, s, a, b) PROVE TwoOf(new, s, a, b)
    <2>1. PICK k \in 1..m, l \in 1..m :
             /\ k < l
             /\ line[k].slot = s /\ line[k].cb = a /\ line[l].slot = s /\ line[l].cb = b
             /\ \A q \in 1..m : line[q].slot = s => q = k \/ q = l
      BY <1>5 DEF TwoOf
    <2>2. PICK i \in 1..(m - 1) : /\ k = (IF i < p THEN i ELSE i + 1)
                                  /\ new[i].slot = line[k].slot /\ new[i].cb = line[k].cb
      BY <1>2, <2>1
    <2>3. PICK j \in 1..(m - 1) : /\ l = (IF j < p THEN j ELSE j + 1)
                                  /\ new[j].slot = line[l].slot /\ new[j].cb = line[l].cb
      BY <1>2, <2>1
    <2>4. i < j
      BY <2>1, <2>2, <2>3
    <2>5. ASSUME NEW q \in 1..(m - 1), new[q].slot = s PROVE q = i \/ q = j
      <3>1. (IF q < p THEN q ELSE q + 1) \in {k, l}
        BY <1>1, <2>1, <2>5, SMTT(30)
      <3> QED BY <2>2, <2>3, <3>1
    <2> QED BY <2>1, <2>2, <2>3, <2>4, <2>5 DEF TwoOf
  <1> QED BY <1>3, <1>4, <1>5

\* The first entry of the line is served, and it is of request s: it is the
\* callback s waits for.
LEMMA RemoveOwn ==
  ASSUME NEW E, NEW line \in Seq(E), line # <<>>, NEW s, NEW a, NEW b, Head(line).slot = s
  PROVE /\ ~NoneOf(line, s)
        /\ OneOf(line, s, a) => Head(line).cb = a /\ NoneOf(Tail(line), s)
        /\ TwoOf(line, s, a, b) => Head(line).cb = a /\ OneOf(Tail(line), s, b)
  <1> DEFINE new == Tail(line)
             m == Len(line)
  <1>1. /\ m \in Nat \ {0} /\ 1 \in 1..m /\ Len(new) = m - 1
        /\ \A i \in 1..(m - 1) : new[i] = line[i + 1]
        /\ Head(line) = line[1]
    OBVIOUS
  <1> HIDE DEF new, m
  <1>2. ~NoneOf(line, s)
    BY <1>1 DEF NoneOf, m
  <1>3. ASSUME OneOf(line, s, a) PROVE Head(line).cb = a /\ NoneOf(new, s)
    <2>1. line[1].cb = a /\ \A k \in 1..m : line[k].slot = s => k = 1
      BY <1>1, <1>3 DEF OneOf, m
    <2>2. \A i \in 1..(m - 1) : i + 1 \in 1..m /\ i + 1 # 1
      BY <1>1
    <2> QED BY <1>1, <2>1, <2>2 DEF NoneOf
  <1>4. ASSUME TwoOf(line, s, a, b) PROVE Head(line).cb = a /\ OneOf(new, s, b)
    <2>1. PICK k \in 1..m, l \in 1..m :
             /\ k < l
             /\ line[k].slot = s /\ line[k].cb = a /\ line[l].slot = s /\ line[l].cb = b
             /\ \A q \in 1..m : line[q].slot = s => q = k \/ q = l
      BY <1>4 DEF TwoOf, m
    <2>2. k = 1
      BY <1>1, <2>1
    <2>3. l - 1 \in 1..(m - 1) /\ (l - 1) + 1 = l
      BY <1>1, <2>1
    <2>4. new[l - 1] = line[l]
      BY <1>1, <2>3
    <2>5. ASSUME NEW q \in 1..(m - 1), new[q].slot = s PROVE q = l - 1
      <3>1. q + 1 \in 1..m /\ q + 1 # 1 /\ line[q + 1].slot = s
        BY <1>1, <2>5
      <3>2. q + 1 = l
        BY <2>1, <2>2, <3>1
      <3> QED BY <3>2, <1>1
    <2> QED BY <1>1, <2>1, <2>2, <2>3, <2>4, <2>5 DEF OneOf
  <1> QED BY <1>2, <1>3, <1>4 DEF new

\* An entry is replaced by one of the same request and callback.
LEMMA Alike ==
  ASSUME NEW line, NEW new, NEW s, NEW a, NEW b, Len(new) = Len(line),
         \A i \in 1..Len(line) : new[i].slot = line[i].slot /\ new[i].cb = line[i].cb
  PROVE /\ NoneOf(line, s) => NoneOf(new, s)
        /\ OneOf(line, s, a) => OneOf(new, s, a)
        /\ TwoOf(line, s, a, b) => TwoOf(new, s, a, b)
  <1>1. NoneOf(line, s) => NoneOf(new, s)
    BY DEF NoneOf
  <1>2. OneOf(line, s, a) => OneOf(new, s, a)
    BY DEF OneOf
  <1>3. TwoOf(line, s, a, b) => TwoOf(new, s, a, b)
    BY DEF TwoOf
  <1> QED BY <1>1, <1>2, <1>3

-----------------------------------------------------------------------------
(* Every request waits for what is on its way.                             *)

Entries == Commands \cup Replies

Reads == {"secure_valid", "verify_valid", "new_password_valid"}

\* The cases of Queued.
LEMMA QueuedCases ==
  ASSUME NEW line, NEW s, NEW pc
  PROVE /\ pc \in {"free", "body"} => (Queued(line, s, pc) <=> NoneOf(line, s))
        /\ pc \in Reads => (Queued(line, s, pc) <=> TwoOf(line, s, pc, AfterValid[pc]))
        /\ pc \notin {"free", "body"} \cup Reads => (Queued(line, s, pc) <=> OneOf(line, s, pc))
  BY DEF Queued, AfterValid, Reads

\* An entry of another request joins the line.
LEMMA QueuedAppend ==
  ASSUME NEW line \in Seq(Entries), NEW c \in Entries, NEW s, c.slot # s, NEW pc, Queued(line, s, pc)
  PROVE Queued(Append(line, c), s, pc)
  <1>1. /\ NoneOf(line, s) => NoneOf(Append(line, c), s)
        /\ OneOf(line, s, pc) => OneOf(Append(line, c), s, pc)
        /\ TwoOf(line, s, pc, AfterValid[pc]) => TwoOf(Append(line, c), s, pc, AfterValid[pc])
    BY AppendOther
  <1> QED BY <1>1, QueuedCases

\* The first entry of the line, of another request, is served.
LEMMA QueuedTail ==
  ASSUME NEW line \in Seq(Entries), line # <<>>, NEW s, Head(line).slot # s, NEW pc, Queued(line, s, pc)
  PROVE Queued(Tail(line), s, pc)
  <1> DEFINE new == Tail(line)
             m == Len(line)
  <1>1. /\ m \in Nat /\ 1 \in 1..m /\ Len(new) = m - 1
        /\ \A i \in 1..(m - 1) : new[i] = line[i + 1] /\ ~(i < 1) /\ i >= 1
        /\ Head(line) = line[1]
    OBVIOUS
  <1> HIDE DEF new, m
  <1>2. Len(line) = m
    BY DEF m
  <1>3. /\ line[1].slot # s
        /\ \A i \in 1..(m - 1) : i < 1 => new[i].slot = line[i].slot /\ new[i].cb = line[i].cb
        /\ \A i \in 1..(m - 1) : i >= 1 => new[i].slot = line[i + 1].slot /\ new[i].cb = line[i + 1].cb
    BY <1>1
  <1>4. /\ NoneOf(line, s) => NoneOf(new, s)
        /\ OneOf(line, s, pc) => OneOf(new, s, pc)
        /\ TwoOf(line, s, pc, AfterValid[pc]) => TwoOf(new, s, pc, AfterValid[pc])
    BY <1>1, <1>2, <1>3, RemoveOther, ZenonT(30)
  <1>5. Queued(new, s, pc)
    BY <1>4, QueuedCases
  <1> QED BY <1>5 DEF new

\* The line holds nothing for s and what the other requests wait for.
Rest(line, s) ==
  /\ line \in Seq(Entries)
  /\ NoneOf(line, s)
  /\ \A t \in Slots \ {s} : Queued(line, t, reqs[t].pc)

\* Request s goes on to pc and the others stay where they are.
Moves(s, pc) ==
  /\ reqs'[s].pc = pc
  /\ \A t \in Slots \ {s} : reqs'[t].pc = reqs[t].pc

\* The three ways a step moves a request.
LEMMA MoveFacts ==
  ASSUME ReqInv, NEW s \in Slots
  PROVE /\ \A pc, sess : Await(s, pc, sess) => Moves(s, pc)
        /\ \A sess : Answer(s, sess) => Moves(s, "free")
        /\ \A b, kind, pc, form : Arrive(s, b, kind, pc, form) => Moves(s, pc)
  <1>1. ASSUME NEW pc, NEW sess, Await(s, pc, sess) PROVE Moves(s, pc)
    <2>1. reqs[s] \in Requests
      BY DEF ReqInv
    <2>2. [reqs[s] EXCEPT !.pc = pc, !.sess = sess].pc = pc
      BY <2>1 DEF Requests
    <2> QED BY <1>1, <2>2 DEF ReqInv, Moves, Await
  <1>2. ASSUME NEW sess, Answer(s, sess) PROVE Moves(s, "free")
    BY <1>2 DEF ReqInv, Moves, Answer, NoReq
  <1>3. ASSUME NEW b, NEW kind, NEW pc, NEW form, Arrive(s, b, kind, pc, form) PROVE Moves(s, pc)
    BY <1>3 DEF ReqInv, Moves, Arrive
  <1> QED BY <1>1, <1>2, <1>3

\* A command nobody waits for joins the line.
LEMMA RestUnawaited ==
  ASSUME NEW line, NEW s \in Slots, Rest(line, s), NEW c \in Commands, c.slot = Null
  PROVE Rest(Append(line, c), s)
  <1>1. c \in Entries /\ \A t \in Slots : c.slot # t
    BY StoreAssumption DEF Entries
  <1>2. Append(line, c) \in Seq(Entries)
    BY <1>1 DEF Rest
  <1>3. NoneOf(Append(line, c), s)
    BY <1>1, AppendOther DEF Rest
  <1>4. \A t \in Slots \ {s} : Queued(Append(line, c), t, reqs[t].pc)
    BY <1>1, QueuedAppend DEF Rest
  <1> QED BY <1>2, <1>3, <1>4 DEF Rest

\* The request ends, or waits for its body, and nothing is on its way for it.
LEMMA RestEnds ==
  ASSUME NEW s \in Slots, NEW pc \in {"free", "body"}, Rest(Line', s), Moves(s, pc)
  PROVE CallbackMatched'
  <1>1. Queued(Line', s, pc)
    BY QueuedCases DEF Rest
  <1> QED BY <1>1 DEF CallbackMatched, Rest, Moves

\* The request sends one command and waits for it.
LEMMA RestOne ==
  ASSUME NEW line, NEW s \in Slots, Rest(line, s), NEW c \in Commands, c.slot = s,
         c.cb \notin {"free", "body"} \cup Reads, Line' = Append(line, c), Moves(s, c.cb)
  PROVE CallbackMatched'
  <1>1. c \in Entries /\ \A t \in Slots \ {s} : c.slot # t
    BY DEF Entries
  <1>2. OneOf(Append(line, c), s, c.cb)
    BY <1>1, AppendOwn DEF Rest
  <1>3. Queued(Append(line, c), s, c.cb)
    BY <1>2, QueuedCases
  <1>4. \A t \in Slots \ {s} : Queued(Append(line, c), t, reqs[t].pc)
    BY <1>1, QueuedAppend DEF Rest
  <1> QED BY <1>3, <1>4 DEF CallbackMatched, Moves

\* The request sends two commands and waits for both.
LEMMA RestTwo ==
  ASSUME NEW line, NEW s \in Slots, Rest(line, s), NEW c \in Commands, NEW d \in Commands,
         c.slot = s, d.slot = s, c.cb \in Reads, d.cb = AfterValid[c.cb],
         Line' = Append(Append(line, c), d), Moves(s, c.cb)
  PROVE CallbackMatched'
  <1> DEFINE one == Append(line, c)
  <1>1. c \in Entries /\ d \in Entries /\ \A t \in Slots \ {s} : c.slot # t /\ d.slot # t
    BY DEF Entries
  <1>2. OneOf(one, s, c.cb) /\ one \in Seq(Entries)
    BY <1>1, AppendOwn DEF Rest
  <1>3. \A t \in Slots \ {s} : Queued(one, t, reqs[t].pc)
    BY <1>1, QueuedAppend DEF Rest
  <1> HIDE DEF one
  <1>4. TwoOf(Append(one, d), s, c.cb, d.cb)
    BY <1>1, <1>2, AppendOwn
  <1>5. Queued(Append(one, d), s, c.cb)
    BY <1>4, QueuedCases
  <1>6. \A t \in Slots \ {s} : Queued(Append(one, d), t, reqs[t].pc)
    BY <1>1, <1>2, <1>3, QueuedAppend
  <1>7. Line' = Append(one, d)
    BY DEF one
  <1> QED BY <1>5, <1>6, <1>7 DEF CallbackMatched, Moves

\* Nothing is on its way for a request that is free or waits for its body.
LEMMA RestIdle ==
  ASSUME Inv, CallbackMatched, NEW s \in Slots, reqs[s].pc \in {"free", "body"}
  PROVE Rest(Line, s)
  <1>1. Line \in Seq(Entries)
    <2>1. replies \in Seq(Entries) /\ pipe \in Seq(Entries)
      BY DEF Inv, PipeInv, ReplyInv, Entries
    <2> QED BY <2>1 DEF Line
  <1>2. NoneOf(Line, s)
    BY QueuedCases DEF CallbackMatched
  <1> QED BY <1>1, <1>2 DEF Rest, CallbackMatched

\* The callback node runs is the one the request waits for.  Without it the
\* line holds the second read of the request, if there is one.
LEMMA RestCallback ==
  ASSUME Inv, CallbackMatched, NEW s \in Slots, NEW cb, Callback(s, cb)
  PROVE /\ reqs[s].pc = cb
        /\ cb \notin Reads => Rest(replies' \o pipe, s)
        /\ cb \in Reads =>
             /\ Queued(replies' \o pipe, s, AfterValid[cb])
             /\ \A t \in Slots \ {s} : Queued(replies' \o pipe, t, reqs[t].pc)
  <1>1. replies \in Seq(Entries) /\ pipe \in Seq(Entries) /\ replies # <<>>
    BY DEF Inv, PipeInv, ReplyInv, Entries, Callback
  <1>2. /\ Line \in Seq(Entries) /\ Line # <<>>
        /\ Head(Line) = Head(replies) /\ Tail(Line) = Tail(replies) \o pipe
    BY <1>1 DEF Line
  <1> DEFINE new == replies' \o pipe
  <1>3. Tail(Line) = new /\ new \in Seq(Entries)
    BY <1>1, <1>2 DEF Callback
  <1>4. Head(Line).slot = s /\ Head(Line).cb = cb
    BY <1>2 DEF Callback
  <1> HIDE DEF new
  <1>5. \A t \in Slots \ {s} : Queued(new, t, reqs[t].pc)
    BY <1>2, <1>3, <1>4, QueuedTail DEF CallbackMatched
  <1>6. Queued(Line, s, reqs[s].pc)
    BY DEF CallbackMatched
  <1>7. /\ ~NoneOf(Line, s)
        /\ \A a : OneOf(Line, s, a) => cb = a /\ NoneOf(new, s)
        /\ \A a, b : TwoOf(Line, s, a, b) => cb = a /\ OneOf(new, s, b)
    BY <1>2, <1>3, <1>4, RemoveOwn
  <1>8. reqs[s].pc = cb
    BY <1>6, <1>7, QueuedCases
  <1>9. cb \notin Reads => NoneOf(new, s)
    BY <1>6, <1>7, <1>8, QueuedCases
  <1>10. cb \in Reads => Queued(new, s, AfterValid[cb])
    <2>1. cb \in Reads => OneOf(new, s, AfterValid[cb])
      BY <1>6, <1>7, <1>8, QueuedCases
    <2>2. cb \in Reads => AfterValid[cb] \notin {"free", "body"} \cup Reads
      BY DEF Reads, AfterValid
    <2> QED BY <2>1, <2>2, QueuedCases
  <1> QED BY <1>3, <1>5, <1>8, <1>9, <1>10 DEF Rest, new

\* Sent commands go to the end of the line.
LEMMA SendLine ==
  ASSUME Inv, replies' \in Seq(Replies),
         NEW a \in Commands, NEW b \in Commands, NEW c \in Commands
  PROVE /\ UNCHANGED pipe => Line' = replies' \o pipe
        /\ Send(<<a>>) => Line' = Append(replies' \o pipe, a)
        /\ Send(<<a, b>>) => Line' = Append(Append(replies' \o pipe, a), b)
        /\ Send(<<a, b, c>>) => Line' = Append(Append(Append(replies' \o pipe, a), b), c)
  <1> DEFINE rest == replies'
  <1>1. rest \in Seq(Entries) /\ pipe \in Seq(Entries) /\ a \in Entries /\ b \in Entries /\ c \in Entries
    BY DEF Inv, PipeInv, Entries
  <1> HIDE DEF rest
  <1>2. \A t \in Seq(Entries), e \in Entries :
          /\ Append(t, e) \in Seq(Entries)
          /\ rest \o Append(t, e) = Append(rest \o t, e)
    BY <1>1
  <1>3. pipe \o <<a>> = Append(pipe, a)
    BY <1>1
  <1>4. pipe \o <<a, b>> = Append(Append(pipe, a), b)
    BY <1>1
  <1>5. pipe \o <<a, b, c>> = Append(Append(Append(pipe, a), b), c)
    BY <1>1
  <1> DEFINE pa == Append(pipe, a)
             pb == Append(pa, b)
             pc == Append(pb, c)
  <1>6. rest \o pa = Append(rest \o pipe, a) /\ pa \in Seq(Entries)
    BY <1>1, <1>2
  <1>7. rest \o pb = Append(Append(rest \o pipe, a), b) /\ pb \in Seq(Entries)
    BY <1>1, <1>2, <1>6
  <1>8. rest \o pc = Append(Append(Append(rest \o pipe, a), b), c)
    BY <1>1, <1>2, <1>7
  <1>9. Line' = rest \o pipe'
    BY DEF Line, rest
  <1>10. UNCHANGED pipe => Line' = replies' \o pipe
    BY DEF Line
  <1>11. Send(<<a>>) => Line' = Append(replies' \o pipe, a)
    BY <1>3, <1>6, <1>9 DEF Send, rest
  <1>12. Send(<<a, b>>) => Line' = Append(Append(replies' \o pipe, a), b)
    BY <1>4, <1>7, <1>9 DEF Send, rest
  <1>13. Send(<<a, b, c>>) => Line' = Append(Append(Append(replies' \o pipe, a), b), c)
    BY <1>5, <1>8, <1>9 DEF Send, rest
  <1> QED BY <1>10, <1>11, <1>12, <1>13

\* The request and the callback of each kind of command.
LEMMA CmdFields ==
  ASSUME NEW k, NEW f, NEW v, NEW s, NEW cb
  PROVE /\ HGetCmd(k, f, s, cb).slot = s /\ HGetCmd(k, f, s, cb).cb = cb
        /\ HSetCmd(k, f, v, s, cb).slot = s /\ HSetCmd(k, f, v, s, cb).cb = cb
        /\ HSetOnly(k, f, v).slot = Null /\ HSetOnly(k, f, v).cb = "none"
        /\ KeysCmd(k, s, cb).slot = s /\ KeysCmd(k, s, cb).cb = cb
  BY DEF HGetCmd, HSetCmd, HSetOnly, KeysCmd

\* A request that arrives finds nothing on its way for it.
LEMMA MatchedRequest ==
  ASSUME Inv, CallbackMatched, NEW s \in Slots, Request(s)
  PROVE CallbackMatched'
  <1>1. PICK b \in Browsers : ReceivePost(s, b) \/ Secure(s, b) \/ Verify(s, b)
                                \/ ShowMail(s, b) \/ NewPassword(s, b)
    BY DEF Request
  <1>2. Free(s)
    BY <1>1 DEF ReceivePost, Secure, Verify, ShowMail, NewPassword, Arrive
  <1>3. Rest(Line, s)
    BY <1>2, RestIdle DEF Free
  <1>4. replies' = replies /\ replies' \in Seq(Replies) /\ ReqInv /\ sessions[b].user \in Keys
        /\ seen \subseteq Links
    BY DEF Request, Inv, ReplyInv, SessInv, Sessions, MailInv
  <1>5. Rest(replies' \o pipe, s)
    BY <1>3, <1>4 DEF Line
  <1>6. CASE ReceivePost(s, b)
    <2>1. Moves(s, "body")
      BY <1>4, <1>6, MoveFacts DEF ReceivePost
    <2>2. Line' = replies' \o pipe
      BY <1>6, <1>4 DEF ReceivePost, Line
    <2> QED BY <1>5, <2>1, <2>2, RestEnds
  <1>7. ASSUME NEW k \in Keys, NEW cb \in Reads, NEW f, NEW g, Moves(s, cb),
               f = FieldRead(cb), g = FieldRead(AfterValid[cb]),
               Send(<<HGetCmd(k, f, s, cb), HGetCmd(k, g, s, AfterValid[cb])>>)
        PROVE CallbackMatched'
    <2> DEFINE c == HGetCmd(k, f, s, cb)
               d == HGetCmd(k, g, s, AfterValid[cb])
    <2>1. cb \in ReadCallbacks /\ AfterValid[cb] \in ReadCallbacks
      BY DEF Reads, AfterValid, ReadCallbacks
    <2>2. c \in Commands /\ d \in Commands
      BY <1>7, <2>1, HGetCmdOK
    <2>3. c.slot = s /\ c.cb = cb /\ d.slot = s /\ d.cb = AfterValid[cb]
      BY CmdFields
    <2> HIDE DEF c, d
    <2>4. Send(<<c, d>>)
      BY <1>7 DEF c, d
    <2>5. Line' = Append(Append(replies' \o pipe, c), d)
      BY <1>4, <2>2, <2>4, SendLine
    <2> QED BY <1>5, <1>7, <2>2, <2>3, <2>5, RestTwo
  <1>8. /\ \A cb \in Reads : FieldRead(cb) = "valid"
        /\ AfterValid["secure_valid"] = "secure_mail"
        /\ AfterValid["verify_valid"] = "verify_timestamp"
        /\ AfterValid["new_password_valid"] = "new_password_timestamp"
        /\ {"secure_valid", "verify_valid", "new_password_valid"} \subseteq Reads
    BY DEF FieldRead, AfterValid, Reads
  <1>9. CASE Secure(s, b)
    <2>1. Moves(s, "secure_valid")
      BY <1>4, <1>9, MoveFacts DEF Secure
    <2> QED BY <1>4, <1>7, <1>8, <1>9, <2>1, ReadFacts DEF Secure
  <1>10. CASE Verify(s, b)
    <2>1. PICK l \in seen :
            /\ Arrive(s, b, "verify", "verify_valid", [NoForm EXCEPT !.uid = l.uid, !.tok = l.tok])
            /\ Send(<<HGetCmd(l.uid, "valid", s, "verify_valid"),
                      HGetCmd(l.uid, "timestamp", s, "verify_timestamp")>>)
      BY <1>10 DEF Verify
    <2>2. l.uid \in Keys
      BY <1>4 DEF Links
    <2>3. Moves(s, "verify_valid")
      BY <1>4, <2>1, MoveFacts
    <2> QED BY <1>7, <1>8, <2>1, <2>2, <2>3, ReadFacts
  <1>11. CASE NewPassword(s, b)
    <2>1. PICK l \in seen :
            /\ Arrive(s, b, "new_password", "new_password_valid",
                      [NoForm EXCEPT !.uid = l.uid, !.tok = l.tok])
            /\ Send(<<HGetCmd(l.uid, "valid", s, "new_password_valid"),
                      HGetCmd(l.uid, "timestamp", s, "new_password_timestamp")>>)
      BY <1>11 DEF NewPassword
    <2>2. l.uid \in Keys
      BY <1>4 DEF Links
    <2>3. Moves(s, "new_password_valid")
      BY <1>4, <2>1, MoveFacts
    <2> QED BY <1>7, <1>8, <2>1, <2>2, <2>3, ReadFacts
  <1>12. CASE ShowMail(s, b)
    <2>1. PICK u \in Names :
            /\ Arrive(s, b, "show_mail", "show_mail", [NoForm EXCEPT !.uid = u])
            /\ Send(<<HGetCmd(u, "link", s, "show_mail")>>)
      BY <1>12 DEF ShowMail
    <2> DEFINE c == HGetCmd(u, "link", s, "show_mail")
    <2>2. "show_mail" \in ReadCallbacks /\ u \in Keys
      BY DEF ReadCallbacks, Keys
    <2>3. c \in Commands
      BY <2>2, HGetCmdOK, ReadFacts
    <2>4. c.slot = s /\ c.cb = "show_mail"
      BY CmdFields
    <2>5. Moves(s, "show_mail")
      BY <1>4, <2>1, MoveFacts
    <2>6. Send(<<c>>)
      BY <2>1
    <2> HIDE DEF c
    <2>7. Line' = Append(replies' \o pipe, c)
      BY <1>4, <2>3, <2>6, SendLine
    <2>8. c.cb \notin {"free", "body"} \cup Reads
      BY <2>4 DEF Reads
    <2> QED BY <1>5, <2>3, <2>4, <2>5, <2>7, <2>8, RestOne
  <1> QED BY <1>1, <1>6, <1>9, <1>10, <1>11, <1>12

\* A handler runs: it answers at once, or waits for the one command it sent.
LEMMA MatchedPost ==
  ASSUME Inv, CallbackMatched, NEW s \in Slots, PostHandler(s)
  PROVE CallbackMatched'
  <1>1. reqs[s].pc = "body"
    BY DEF PostHandler, Login, UpdateMail, UpdatePassword, PostNewPassword, SetPassword,
       CreateUser, VerifyMail, ResetPassword, Handler
  <1>2. replies' = replies /\ replies' \in Seq(Replies) /\ ReqInv /\ ClockInv
    BY DEF PostHandler, Inv, ReplyInv
  <1>3. Rest(replies' \o pipe, s)
    <2>1. Rest(Line, s)
      BY <1>1, RestIdle
    <2> QED BY <1>2, <2>1 DEF Line
  <1>4. ASSUME NEW c \in Commands, c.slot = s, c.cb \notin {"free", "body"} \cup Reads,
               Moves(s, c.cb), Send(<<c>>)
        PROVE CallbackMatched'
    <2>1. Line' = Append(replies' \o pipe, c)
      BY <1>2, <1>4, SendLine
    <2> QED BY <1>3, <1>4, <2>1, RestOne
  <1>5. CASE Login(s)
    <2> DEFINE c == HGetCmd(reqs[s].uid, "password", s, "login_password")
    <2>1. "login_password" \in ReadCallbacks
      BY DEF ReadCallbacks
    <2>2. c \in Commands
      BY <1>2, <2>1, RequestFacts, HGetCmdOK, ReadFacts
    <2>3. c.slot = s /\ c.cb = "login_password"
      BY CmdFields
    <2>4. Moves(s, "login_password") /\ Send(<<c>>)
      BY <1>2, <1>5, MoveFacts DEF Login
    <2> HIDE DEF c
    <2> QED BY <1>4, <2>2, <2>3, <2>4 DEF Reads
  <1>6. CASE UpdateMail(s)
    <2> DEFINE u == reqs[s].sess.user
               a == HSetOnly(u, "timestamp", NodeTime)
               b == HSetOnly(u, "valid", "False")
               c == HSetCmd(u, "mail", reqs[s].mail, s, "update_mail")
    <2>1. u \in Keys /\ NodeTime \in Timestamps
      BY <1>2, RequestFacts, NodeTimeType
    <2>2. a \in Commands /\ b \in Commands /\ c \in Commands
      BY <1>2, <2>1, RequestFacts, HSetCmdOK, FieldFacts, StoreAssumption DEF HSetOnly, Fields, Flags
    <2>3. a.slot = Null /\ b.slot = Null /\ c.slot = s /\ c.cb = "update_mail"
      BY CmdFields
    <2>4. Moves(s, "update_mail") /\ Send(<<a, b, c>>)
      BY <1>2, <1>6, MoveFacts DEF UpdateMail, UpdateMailCmds
    <2> HIDE DEF a, b, c
    <2>5. Line' = Append(Append(Append(replies' \o pipe, a), b), c)
      BY <1>2, <2>2, <2>4, SendLine
    <2>6. Rest(Append(Append(replies' \o pipe, a), b), s)
      BY <1>3, <2>2, <2>3, RestUnawaited
    <2> QED BY <2>2, <2>3, <2>4, <2>5, <2>6, RestOne DEF Reads
  <1>7. ASSUME NEW kind \in {"update_password", "set_password"}, SetPassword(s, kind)
        PROVE CallbackMatched'
    <2> DEFINE u == reqs[s].sess.user
               c == PasswordCmd(s, kind)
    <2>1. Hash(u, reqs[s].pw) \in Hashes /\ Hash(u, reqs[s].pw).salt = u /\ u \in Keys
      BY <1>2, RequestFacts DEF Hash, Hashes
    <2>2. c \in Commands
      BY <2>1, HSetCmdOK, FieldFacts, StoreAssumption DEF PasswordCmd, Fields
    <2>3. c.slot = s /\ c.cb = kind
      BY CmdFields DEF PasswordCmd
    <2>4. Moves(s, kind) /\ Send(<<c>>)
      BY <1>2, <1>7, MoveFacts DEF SetPassword
    <2> HIDE DEF c
    <2> QED BY <1>4, <2>2, <2>3, <2>4 DEF Reads
  <1>8. CASE CreateUser(s)
    <2> DEFINE c == KeysCmd(reqs[s].uid, s, "create_user")
    <2>1. c \in Commands
      BY <1>2, RequestFacts, KeysCmdOK
    <2>2. c.slot = s /\ c.cb = "create_user"
      BY CmdFields
    <2>3. Moves(s, "create_user") /\ Send(<<c>>)
      BY <1>2, <1>8, MoveFacts DEF CreateUser
    <2> HIDE DEF c
    <2> QED BY <1>4, <2>1, <2>2, <2>3 DEF Reads
  <1>9. CASE VerifyMail(s)
    <2> DEFINE u == reqs[s].uid
               link == Link("verify", u, NodeTime)
               a == HSetOnly(u, "timestamp", NodeTime)
               b == HSetOnly(u, "link", link)
    <2>1. u \in Keys /\ NodeTime \in Timestamps
      BY <1>2, RequestFacts, NodeTimeType
    <2>2. link \in Links
      BY <2>1 DEF Link, Links
    <2>3. a \in Commands /\ b \in Commands
      BY <2>1, <2>2, HSetCmdOK, FieldFacts DEF HSetOnly, Fields
    <2>4. a.slot = Null /\ b.slot = Null
      BY CmdFields
    <2>5. Moves(s, "free") /\ Send(<<a, b>>)
      BY <1>2, <1>9, MoveFacts DEF VerifyMail, VerifyMailCmds
    <2> HIDE DEF a, b
    <2>6. Line' = Append(Append(replies' \o pipe, a), b)
      BY <1>2, <2>3, <2>5, SendLine
    <2>7. Rest(Append(Append(replies' \o pipe, a), b), s)
      BY <1>3, <2>3, <2>4, RestUnawaited
    <2> QED BY <2>5, <2>6, <2>7, RestEnds
  <1>10. CASE ResetPassword(s)
    <2> DEFINE c == HGetCmd(reqs[s].uid, "mail", s, "reset_mail")
    <2>1. c \in Commands
      BY <1>2, RequestFacts, HGetCmdOK, ReadFacts
    <2>2. c.slot = s /\ c.cb = "reset_mail"
      BY CmdFields
    <2>3. Moves(s, "reset_mail") /\ Send(<<c>>)
      BY <1>2, <1>10, MoveFacts DEF ResetPassword
    <2> HIDE DEF c
    <2> QED BY <1>4, <2>1, <2>2, <2>3 DEF Reads
  <1> QED BY <1>5, <1>6, <1>7, <1>8, <1>9, <1>10 DEF PostHandler, UpdatePassword, PostNewPassword

\* A callback runs: the request reads on, waits for its second read, or ends.
LEMMA MatchedCallback ==
  ASSUME Inv, CallbackMatched, NEW s \in Slots, RunCallback(s)
  PROVE CallbackMatched'
  <1>1. ReqInv /\ gUser \in Keys /\ NodeTime \in Timestamps
    BY NodeTimeType DEF Inv, GlobalInv
  <1>2. ASSUME NEW cb, Callback(s, cb), cb \notin Reads
        PROVE /\ replies' \in Seq(Replies) /\ Rest(replies' \o pipe, s)
    BY <1>2, RestCallback, CallbackOK DEF Inv, ReplyInv
  <1>3. ASSUME NEW cb, Callback(s, cb), cb \notin Reads, UNCHANGED pipe, Moves(s, "free")
        PROVE CallbackMatched'
    <2>1. Line' = replies' \o pipe
      BY <1>3 DEF Line
    <2> QED BY <1>2, <1>3, <2>1, RestEnds
  <1>4. ASSUME NEW cb, Callback(s, cb), cb \notin Reads,
               NEW k \in Keys, NEW pc \in ReadCallbacks \ Reads, NEW f, f = FieldRead(pc),
               Send(<<HGetCmd(k, f, s, pc)>>), Moves(s, pc)
        PROVE CallbackMatched'
    <2> DEFINE c == HGetCmd(k, f, s, pc)
    <2>1. c \in Commands
      BY <1>4, HGetCmdOK
    <2>2. c.slot = s /\ c.cb = pc /\ pc \notin {"free", "body"} \cup Reads
      BY CmdFields DEF ReadCallbacks
    <2> HIDE DEF c
    <2>3. Send(<<c>>)
      BY <1>4 DEF c
    <2>4. Line' = Append(replies' \o pipe, c)
      BY <1>2, <1>4, <2>1, <2>3, SendLine
    <2> QED BY <1>2, <1>4, <2>1, <2>2, <2>4, RestOne
  <1>5. ASSUME NEW cb, Callback(s, cb), cb \notin Reads, Moves(s, "free"),
               NEW a \in Commands, NEW b \in Commands, a.slot = Null, b.slot = Null,
               Send(<<a>>) \/ Send(<<a, b>>)
        PROVE CallbackMatched'
    <2>1. Line' \in {Append(replies' \o pipe, a), Append(Append(replies' \o pipe, a), b)}
      BY <1>2, <1>5, SendLine
    <2>2. Rest(Append(replies' \o pipe, a), s)
      BY <1>2, <1>5, RestUnawaited
    <2>3. Rest(Append(Append(replies' \o pipe, a), b), s)
      BY <1>5, <2>2, RestUnawaited
    <2> QED BY <1>5, <2>1, <2>2, <2>3, RestEnds
  <1>6. /\ \A pc, sess : Await(s, pc, sess) => Moves(s, pc)
        /\ \A sess : Answer(s, sess) => Moves(s, "free")
    BY <1>1, MoveFacts
  <1>7. CASE LoginPassword(s)
    <2>1. "login_password" \notin Reads /\ "login_valid" \in ReadCallbacks \ Reads
      BY DEF Reads, ReadCallbacks
    <2>2. Callback(s, "login_password")
      BY <1>7 DEF LoginPassword
    <2>3. \/ Send(<<HGetCmd(reqs[s].uid, "valid", s, "login_valid")>>) /\ Moves(s, "login_valid")
          \/ UNCHANGED pipe /\ Moves(s, "free")
      BY <1>6, <1>7 DEF LoginPassword
    <2>4. reqs[s].uid \in Keys
      BY <1>1, RequestFacts
    <2> QED BY <1>3, <1>4, <2>1, <2>2, <2>3, <2>4, ReadFacts
  <1>8. CASE LoginValid(s)
    BY <1>3, <1>6, <1>8 DEF LoginValid, Reads
  <1>9. CASE KeepValid(s)
    <2>1. PICK cb \in Reads :
            /\ Callback(s, cb)
            /\ Await(s, AfterValid[cb], [reqs[s].sess EXCEPT !.valid = Reply])
      BY <1>9 DEF KeepValid, AfterValid, Reads
    <2>2. Moves(s, AfterValid[cb])
      BY <1>6, <2>1
    <2>3. Line' = replies' \o pipe
      BY <1>9 DEF KeepValid, Line
    <2> QED BY <2>1, <2>2, <2>3, RestCallback DEF CallbackMatched, Moves
  <1>10. CASE Finish(s)
    <2>1. PICK cb \in {"secure_mail", "update_mail", "update_password", "set_password"} :
            Callback(s, cb)
      BY <1>10 DEF Finish
    <2> QED BY <1>3, <1>6, <1>10, <2>1 DEF Finish, Reads
  <1>11. CASE CreateUserKeys(s)
    <2> DEFINE r == reqs[s]
               a == HSetOnly(r.uid, "password", Hash(r.uid, r.pw))
               b == HSetOnly(r.uid, "mail", r.mail)
    <2>1. Hash(r.uid, r.pw) \in Hashes /\ Hash(r.uid, r.pw).salt = r.uid /\ r.uid \in Keys
      BY <1>1, RequestFacts DEF Hash, Hashes
    <2>2. a \in Commands /\ b \in Commands
      BY <1>1, <2>1, RequestFacts, HSetCmdOK, FieldFacts DEF HSetOnly, Fields
    <2>3. a.slot = Null /\ b.slot = Null
      BY CmdFields
    <2>4. /\ Callback(s, "create_user") /\ Moves(s, "free")
          /\ Send(<<a, b>>) \/ UNCHANGED pipe
      BY <1>6, <1>11 DEF CreateUserKeys
    <2> HIDE DEF a, b
    <2>5. "create_user" \notin Reads
      BY DEF Reads
    <2> QED BY <1>3, <1>5, <2>2, <2>3, <2>4, <2>5
  <1>12. CASE VerifyTimestamp(s)
    <2> DEFINE a == HSetOnly(gUser, "valid", "True")
    <2>1. a \in Commands
      BY <1>1, HSetCmdOK, FieldFacts DEF HSetOnly, Fields, Flags
    <2>2. a.slot = Null
      BY CmdFields
    <2>3. /\ Callback(s, "verify_timestamp") /\ Moves(s, "free")
          /\ Send(<<a>>) \/ UNCHANGED pipe
      BY <1>6, <1>12 DEF VerifyTimestamp
    <2> HIDE DEF a
    <2>4. "verify_timestamp" \notin Reads
      BY DEF Reads
    <2> QED BY <1>3, <1>5, <2>1, <2>2, <2>3, <2>4
  <1>13. CASE ShowMailLink(s)
    BY <1>3, <1>6, <1>13 DEF ShowMailLink, Reads
  <1>14. CASE ResetMail(s)
    <2>1. "reset_mail" \notin Reads /\ "reset_valid" \in ReadCallbacks \ Reads
      BY DEF Reads, ReadCallbacks
    <2>2. Callback(s, "reset_mail")
      BY <1>14 DEF ResetMail
    <2>3. \/ Send(<<HGetCmd(gUser, "valid", s, "reset_valid")>>) /\ Moves(s, "reset_valid")
          \/ UNCHANGED pipe /\ Moves(s, "free")
      BY <1>6, <1>14 DEF ResetMail
    <2> QED BY <1>1, <1>3, <1>4, <2>1, <2>2, <2>3, ReadFacts
  <1>15. CASE ResetValid(s)
    <2> DEFINE a == HSetOnly(gUser, "timestamp", NodeTime)
               b == HSetOnly(gUser, "new_password", "True")
    <2>1. a \in Commands /\ b \in Commands
      BY <1>1, HSetCmdOK, FieldFacts DEF HSetOnly, Fields, Flags
    <2>2. a.slot = Null /\ b.slot = Null
      BY CmdFields
    <2>3. /\ Callback(s, "reset_valid") /\ Moves(s, "free")
          /\ Send(<<a, b>>) \/ UNCHANGED pipe
      BY <1>6, <1>15 DEF ResetValid
    <2> HIDE DEF a, b
    <2>4. "reset_valid" \notin Reads
      BY DEF Reads
    <2> QED BY <1>3, <1>5, <2>1, <2>2, <2>3, <2>4
  <1>16. CASE NewPasswordTimestamp(s)
    <2>1. "new_password_timestamp" \notin Reads /\ "new_password_flag" \in ReadCallbacks \ Reads
      BY DEF Reads, ReadCallbacks
    <2>2. reqs[s] \in Requests
      BY <1>1 DEF ReqInv
    <2>3. [reqs[s] EXCEPT !.pc = "new_password_flag", !.ts = Reply].pc = "new_password_flag"
      BY <2>2 DEF Requests
    <2>4. Moves(s, "new_password_flag")
      BY <1>1, <1>16, <2>3 DEF NewPasswordTimestamp, ReqInv, Moves
    <2> QED BY <1>1, <1>4, <1>16, <2>1, <2>4, ReadFacts DEF NewPasswordTimestamp
  <1>17. CASE NewPasswordFlag(s)
    <2> DEFINE a == HSetOnly(gUser, "new_password", "False")
    <2>1. a \in Commands
      BY <1>1, HSetCmdOK, FieldFacts DEF HSetOnly, Fields, Flags
    <2>2. a.slot = Null
      BY CmdFields
    <2>3. /\ Callback(s, "new_password_flag") /\ Moves(s, "free")
          /\ Send(<<a>>) \/ UNCHANGED pipe
      BY <1>6, <1>17 DEF NewPasswordFlag
    <2> HIDE DEF a
    <2>4. "new_password_flag" \notin Reads
      BY DEF Reads
    <2> QED BY <1>3, <1>5, <2>1, <2>2, <2>3, <2>4
  <1> QED BY <1>7, <1>8, <1>9, <1>10, <1>11, <1>12, <1>13, <1>14, <1>15, <1>16, <1>17
          DEF RunCallback

\* Redis serves a command: its reply takes its place in the line, or the line
\* loses an entry nobody waits for.
LEMMA MatchedServe ==
  ASSUME Inv, CallbackMatched, RedisServe
  PROVE CallbackMatched'
  <1> DEFINE c == Head(pipe)
             p == Len(replies) + 1
             m == Len(replies) + Len(pipe)
             r == [slot |-> c.slot, cb |-> c.cb, val |-> Result(c)]
  <1>1. /\ replies \in Seq(Entries) /\ pipe \in Seq(Entries) /\ pipe # <<>>
        /\ pipe' = Tail(pipe) /\ reqs' = reqs
    BY DEF Inv, PipeInv, ReplyInv, Entries, RedisServe, webState
  <1>2. /\ m \in Nat /\ p \in 1..m /\ Len(Line) = m /\ Line[p] = c
        /\ \A i \in 1..m : Line[i] = IF i < p THEN replies[i] ELSE pipe[i - Len(replies)]
    BY <1>1 DEF Line
  <1>3. c \in Commands
    BY <1>1 DEF Inv, PipeInv
  <1>4. CASE c.cb = "none"
    <2>1. \A s \in Slots : Line[p].slot # s
      BY <1>2, <1>3, <1>4, StoreAssumption DEF Commands, SlotOK
    <2>2. Line' = replies \o Tail(pipe)
      BY <1>1, <1>4 DEF RedisServe, Replied, Line
    <2>3. /\ Len(replies \o Tail(pipe)) = m - 1
          /\ \A i \in 1..(m - 1) : i < p => (replies \o Tail(pipe))[i] = replies[i]
          /\ \A i \in 1..(m - 1) : i >= p => (replies \o Tail(pipe))[i] = pipe[(i + 1) - Len(replies)]
      BY <1>1
    <2>4. \A i \in 1..(m - 1) : i \in 1..m /\ i + 1 \in 1..m /\ (i >= p => ~(i + 1 < p))
      BY <1>2
    <2> HIDE DEF c, p, m
    <2>5. /\ Len(Line') = m - 1
          /\ \A i \in 1..(m - 1) : i < p => Line'[i] = Line[i]
          /\ \A i \in 1..(m - 1) : i >= p => Line'[i] = Line[i + 1]
      BY <1>2, <2>2, <2>3, <2>4
    <2> SUFFICES ASSUME NEW s \in Slots PROVE Queued(Line', s, reqs[s].pc)
      BY <1>1 DEF CallbackMatched
    <2> DEFINE pc == reqs[s].pc
               new == Line'
    <2>6. /\ \A i \in 1..(m - 1) : i < p => new[i].slot = Line[i].slot /\ new[i].cb = Line[i].cb
          /\ \A i \in 1..(m - 1) : i >= p => new[i].slot = Line[i + 1].slot /\ new[i].cb = Line[i + 1].cb
          /\ Len(new) = m - 1
      BY <2>5
    <2> HIDE DEF new
    <2>7. /\ NoneOf(Line, s) => NoneOf(new, s)
          /\ OneOf(Line, s, pc) => OneOf(new, s, pc)
          /\ TwoOf(Line, s, pc, AfterValid[pc]) => TwoOf(new, s, pc, AfterValid[pc])
      <3>1. m \in Nat /\ p \in 1..m /\ Len(Line) = m /\ Line[p].slot # s
        BY <1>2, <2>1
      <3> HIDE DEF pc
      <3> QED BY <2>6, <3>1, RemoveOther, ZenonT(30)
    <2>8. Queued(Line, s, pc)
      BY DEF CallbackMatched
    <2>9. Queued(new, s, pc)
      BY <2>7, <2>8, QueuedCases
    <2> QED BY <2>9 DEF new
  <1>5. CASE c.cb # "none"
    <2>1. Line' = Append(replies, r) \o Tail(pipe)
      BY <1>1, <1>5 DEF RedisServe, Replied, Line
    <2>2. r \in Replies
      <3>1. replies' = Append(replies, r) /\ replies' \in Seq(Replies)
        BY <1>5, RedisStep DEF RedisServe, Replied, Inv, ReplyInv
      <3>2. replies \in Seq(Replies)
        BY DEF Inv, ReplyInv
      <3>3. Len(Append(replies, r)) = Len(replies) + 1 /\ Append(replies, r)[Len(replies) + 1] = r
        BY <3>2
      <3> QED BY <3>1, <3>2, <3>3
    <2>3. r.slot = c.slot /\ r.cb = c.cb /\ r \in Entries
      BY <2>2 DEF Entries
    <2> HIDE DEF r
    <2>4. /\ Len(Append(replies, r) \o Tail(pipe)) = m
          /\ \A i \in 1..m : (Append(replies, r) \o Tail(pipe))[i] =
                IF i < p THEN replies[i] ELSE IF i = p THEN r ELSE pipe[i - Len(replies)]
      BY <1>1, <2>3
    <2> DEFINE new == Line'
    <2> HIDE DEF c, p, m
    <2>5. /\ Len(new) = Len(Line)
          /\ \A i \in 1..Len(Line) : new[i].slot = Line[i].slot /\ new[i].cb = Line[i].cb
      BY <1>2, <2>1, <2>3, <2>4
    <2> SUFFICES ASSUME NEW s \in Slots PROVE Queued(Line', s, reqs[s].pc)
      BY <1>1 DEF CallbackMatched
    <2> DEFINE pc == reqs[s].pc
    <2> HIDE DEF new
    <2>6. /\ NoneOf(Line, s) => NoneOf(new, s)
          /\ OneOf(Line, s, pc) => OneOf(new, s, pc)
          /\ TwoOf(Line, s, pc, AfterValid[pc]) => TwoOf(new, s, pc, AfterValid[pc])
      BY <2>5, Alike
    <2>7. Queued(Line, s, pc)
      BY DEF CallbackMatched
    <2>8. Queued(new, s, pc)
      BY <2>6, <2>7, QueuedCases
    <2> QED BY <2>8 DEF new
  <1> QED BY <1>4, <1>5

\* The other steps leave the requests and the connection alone.
LEMMA MatchedElse ==
  ASSUME CallbackMatched, UNCHANGED <<redisLink, reqs>>
  PROVE CallbackMatched'
  BY DEF CallbackMatched, Line, redisLink

\* The line and the requests agree in every reachable state.
LEMMA MatchedNext == Inv /\ CallbackMatched /\ [Next]_vars => CallbackMatched'
  <1> SUFFICES ASSUME Inv, CallbackMatched, [Next]_vars PROVE CallbackMatched'
    OBVIOUS
  <1>1. CASE \E s \in Slots : Request(s) \/ PostHandler(s) \/ RunCallback(s)
    BY <1>1, MatchedRequest, MatchedPost, MatchedCallback
  <1>2. CASE RedisServe
    BY <1>2, MatchedServe
  <1>3. CASE \E b \in Browsers : Logout(b)
    BY <1>3, MatchedElse DEF Logout
  <1>4. CASE WriteFile
    BY <1>4, MatchedElse DEF WriteFile, webState
  <1>5. CASE \E op \in AdminOps : AdminStart(op)
    BY <1>5, MatchedElse DEF AdminStart, webState
  <1>6. CASE AdminStep
    BY <1>6, MatchedElse DEF AdminStep, webState
  <1>7. CASE Tick
    BY <1>7, MatchedElse DEF Tick, webState
  <1>8. CASE Idle \/ UNCHANGED vars
    BY <1>8, MatchedElse DEF Idle, vars, redisLink
  <1> QED BY <1>1, <1>2, <1>3, <1>4, <1>5, <1>6, <1>7, <1>8 DEF Next

\* Every request waits for exactly the callbacks that are on their way for it,
\* in that order, however the handlers of routes.js, Redis and admin.py
\* interleave: no request is answered twice or after its end, and none waits
\* for a reply that will not come.
THEOREM CallbacksMatched == Spec => []CallbackMatched
  <1>1. Init => CallbackMatched
    <2> SUFFICES ASSUME Init, NEW s \in Slots PROVE Queued(Line, s, reqs[s].pc)
      BY DEF CallbackMatched
    <2>1. Len(Line) = 0 /\ reqs[s].pc = "free"
      BY DEF Init, Line, NoReq
    <2>2. NoneOf(Line, s)
      BY <2>1 DEF NoneOf
    <2>3. Queued(Line, s, "free")
      BY <2>2, QueuedCases
    <2> QED BY <2>1, <2>3
  <1> QED BY <1>1, InvHolds, MatchedNext, PTL DEF Spec

-----------------------------------------------------------------------------
(* Sessions belong to their browsers.                                      *)

\* The callbacks of a request are those of its route.
KindOK(kind, pc) ==
  /\ kind = "verify" <=> pc \in {"verify_valid", "verify_timestamp"}
  /\ kind = "new_password" <=>
       pc \in {"new_password_valid", "new_password_timestamp", "new_password_flag"}
  /\ pc \in {"login_password", "login_valid"} => kind = "login"
  /\ pc \in {"reset_mail", "reset_valid"} => kind = "reset_password"
  /\ pc = "create_user" => kind = "create_user"

\* A browser has one request in flight, whose copy of the session has the user
\* and the login state of the stored one.
OwnInv ==
  /\ \A s \in Slots : KindOK(reqs[s].kind, reqs[s].pc)
  /\ \A s \in Slots : ~Free(s) =>
       /\ reqs[s].br \in Browsers
       /\ reqs[s].sess.auth = sessions[reqs[s].br].auth
       /\ reqs[s].sess.user = sessions[reqs[s].br].user
  /\ \A s, t \in Slots : s # t /\ ~Free(s) /\ ~Free(t) => reqs[s].br # reqs[t].br

\* A request arrives from a browser that has none in flight.
LEMMA OwnArrive ==
  ASSUME Overlap # "all", Inv, OwnInv, NEW s \in Slots, NEW b \in Browsers, NEW kind, NEW pc, NEW form,
         Arrive(s, b, kind, pc, form), KindOK(kind, pc), UNCHANGED sessions
  PROVE OwnInv'
  <1>1. \A t \in Slots : Free(t) \/ reqs[t].br # b
    BY InputAssumption DEF Arrive, MayArrive, Alone
  <1>2. /\ reqs'[s].pc = pc /\ reqs'[s].kind = kind /\ reqs'[s].br = b /\ reqs'[s].sess = sessions[b]
        /\ \A t \in Slots \ {s} : reqs'[t] = reqs[t]
    BY DEF Arrive, Inv, ReqInv
  <1> QED BY <1>1, <1>2 DEF OwnInv, Free

\* A handler goes on with the session copy it has.
LEMMA OwnAwait ==
  ASSUME Inv, OwnInv, NEW s \in Slots, ~Free(s), NEW pc, NEW sess, Await(s, pc, sess),
         KindOK(reqs[s].kind, pc),
         sess.auth = reqs[s].sess.auth, sess.user = reqs[s].sess.user
  PROVE OwnInv' /\ OwnSession
  <1>1. reqs[s] \in Requests
    BY DEF Inv, ReqInv
  <1>2. /\ reqs'[s].pc = pc /\ reqs'[s].sess = sess
        /\ reqs'[s].kind = reqs[s].kind /\ reqs'[s].br = reqs[s].br
        /\ \A t \in Slots \ {s} : reqs'[t] = reqs[t]
        /\ sessions' = sessions
    BY <1>1 DEF Await, Inv, ReqInv, Requests
  <1>3. OwnInv'
    BY <1>2 DEF OwnInv, Free
  <1> QED BY <1>2, <1>3 DEF OwnSession

\* A request ends and its session copy is stored; only a login or a reset link
\* has changed the user or the login state.
LEMMA OwnAnswer ==
  ASSUME Inv, OwnInv, NEW s \in Slots, ~Free(s), NEW sess, Answer(s, sess),
         sess.auth # reqs[s].sess.auth => reqs[s].kind = "login",
         sess.user # reqs[s].sess.user => reqs[s].kind \in {"login", "new_password"}
  PROVE OwnInv' /\ OwnSession
  <1> DEFINE b == reqs[s].br
  <1>1. /\ reqs'[s] = NoReq
        /\ \A t \in Slots \ {s} : reqs'[t] = reqs[t]
    BY DEF Answer, Inv, ReqInv
  <1>2. /\ b \in Browsers /\ sessions'[b] = sess
        /\ \A c \in Browsers \ {b} : sessions'[c] = sessions[c]
    BY DEF Answer, Inv, SessInv, OwnInv
  <1>3. Free(s)' /\ \A t \in Slots \ {s} : Free(t)' <=> Free(t)
    BY <1>1 DEF Free, NoReq
  <1>4. OwnInv'
    <2>1. \A t \in Slots : KindOK(reqs'[t].kind, reqs'[t].pc)
      BY <1>1 DEF OwnInv, NoReq, KindOK
    <2>2. \A t \in Slots : ~Free(t)' =>
            /\ t # s /\ ~Free(t) /\ reqs'[t] = reqs[t]
            /\ reqs[t].br \in Browsers \ {b}
      BY <1>1, <1>3 DEF OwnInv
    <2>3. \A t \in Slots : ~Free(t)' =>
            /\ reqs'[t].br \in Browsers
            /\ reqs'[t].sess.auth = sessions'[reqs'[t].br].auth
            /\ reqs'[t].sess.user = sessions'[reqs'[t].br].user
      BY <1>2, <2>2 DEF OwnInv
    <2>4. \A t, u \in Slots : t # u /\ ~Free(t)' /\ ~Free(u)' => reqs'[t].br # reqs'[u].br
      BY <2>2 DEF OwnInv
    <2> QED BY <2>1, <2>3, <2>4 DEF OwnInv
  <1>5. reqs[s].sess.auth = sessions[b].auth /\ reqs[s].sess.user = sessions[b].user
    BY DEF OwnInv
  <1>6. \A kind : reqs[s].kind = kind => Answered(s, b, kind)
    BY <1>3 DEF Answered
  <1>7. OwnSession
    BY <1>2, <1>5, <1>6 DEF OwnSession
  <1> QED BY <1>4, <1>7

\* Nothing happens to requests and sessions.
LEMMA OwnElse ==
  ASSUME OwnInv, UNCHANGED <<reqs, sessions>>
  PROVE OwnInv' /\ OwnSession
  BY DEF OwnInv, Free, OwnSession

\* Every step keeps the sessions with their browsers.
LEMMA OwnNext ==
  ASSUME Overlap # "all", Inv, CallbackMatched, OwnInv, [Next]_vars
  PROVE OwnInv' /\ OwnSession
  <1> DEFINE Goal == OwnInv' /\ OwnSession
  <1>1. ASSUME NEW s \in Slots, Request(s) PROVE Goal
    <2>1. UNCHANGED sessions
      BY <1>1 DEF Request
    <2>2. PICK b \in Browsers : ReceivePost(s, b) \/ Secure(s, b) \/ Verify(s, b)
                                   \/ ShowMail(s, b) \/ NewPassword(s, b)
      BY <1>1 DEF Request
    <2>3. \E kind, pc, form : Arrive(s, b, kind, pc, form) /\ KindOK(kind, pc)
      <3>1. CASE ReceivePost(s, b)
        BY <3>1 DEF ReceivePost, KindOK, PostKinds
      <3>2. CASE Secure(s, b)
        BY <3>2 DEF Secure, KindOK
      <3>3. CASE Verify(s, b)
        BY <3>3 DEF Verify, KindOK
      <3>4. CASE ShowMail(s, b)
        BY <3>4 DEF ShowMail, KindOK
      <3>5. CASE NewPassword(s, b)
        BY <3>5 DEF NewPassword, KindOK
      <3> QED BY <2>2, <3>1, <3>2, <3>3, <3>4, <3>5
    <2>4. OwnInv'
      BY <2>1, <2>3, OwnArrive
    <2> QED BY <2>1, <2>4 DEF OwnSession
  <1>2. ASSUME NEW s \in Slots, PostHandler(s) PROVE Goal
    <2>1. ~Free(s)
      BY <1>2 DEF PostHandler, Login, UpdateMail, UpdatePassword, PostNewPassword, SetPassword,
         CreateUser, VerifyMail, ResetPassword, Handler, Free
    <2>2. reqs[s].sess \in Sessions
      BY RequestFacts DEF Inv
    <2>3. CASE Login(s)
      BY <2>1, <2>3, OwnAwait DEF Login, Handler, KindOK
    <2>4. CASE UpdateMail(s)
      <3>1. /\ [reqs[s].sess EXCEPT !.valid = "False"].auth = reqs[s].sess.auth
            /\ [reqs[s].sess EXCEPT !.valid = "False"].user = reqs[s].sess.user
        BY <2>2 DEF Sessions
      <3> QED BY <2>1, <2>4, <3>1, OwnAwait DEF UpdateMail, Handler, KindOK
    <2>5. CASE UpdatePassword(s) \/ PostNewPassword(s)
      BY <2>1, <2>5, OwnAwait DEF UpdatePassword, PostNewPassword, SetPassword, Handler, KindOK
    <2>6. CASE CreateUser(s)
      BY <2>1, <2>6, OwnAwait DEF CreateUser, Handler, KindOK
    <2>7. CASE VerifyMail(s)
      BY <2>1, <2>7, OwnAnswer DEF VerifyMail
    <2>8. CASE ResetPassword(s)
      BY <2>1, <2>8, OwnAwait DEF ResetPassword, Handler, KindOK
    <2> HIDE DEF Goal
    <2> QED BY <1>2, <2>3, <2>4, <2>5, <2>6, <2>7, <2>8 DEF PostHandler, Goal
  <1>3. ASSUME NEW s \in Slots, RunCallback(s) PROVE Goal
    <2>1. \A cb : Callback(s, cb) => reqs[s].pc = cb
      BY RestCallback
    <2>2. reqs[s].sess \in Sessions /\ KindOK(reqs[s].kind, reqs[s].pc)
      BY RequestFacts DEF Inv, OwnInv
    <2>3. \A cb : Callback(s, cb) /\ cb # "free" => ~Free(s)
      BY <2>1 DEF Free
    <2>4. CASE LoginPassword(s)
      <3>1. Callback(s, "login_password") /\ ~Free(s) /\ reqs[s].kind = "login"
        BY <2>1, <2>2, <2>3, <2>4 DEF LoginPassword, KindOK
      <3> QED BY <2>4, <3>1, OwnAwait, OwnAnswer DEF LoginPassword, KindOK
    <2>5. CASE LoginValid(s)
      <3>1. Callback(s, "login_valid") /\ ~Free(s) /\ reqs[s].kind = "login"
        BY <2>1, <2>2, <2>3, <2>5 DEF LoginValid, KindOK
      <3> QED BY <2>5, <3>1, OwnAnswer DEF LoginValid
    <2>6. CASE KeepValid(s)
      <3>1. PICK cb \in Reads :
              /\ Callback(s, cb)
              /\ Await(s, AfterValid[cb], [reqs[s].sess EXCEPT !.valid = Reply])
        BY <2>6 DEF KeepValid, AfterValid, Reads
      <3>2. ~Free(s) /\ KindOK(reqs[s].kind, AfterValid[cb])
        BY <2>1, <2>2, <2>3, <3>1 DEF Reads, AfterValid, KindOK
      <3>3. /\ [reqs[s].sess EXCEPT !.valid = Reply].auth = reqs[s].sess.auth
            /\ [reqs[s].sess EXCEPT !.valid = Reply].user = reqs[s].sess.user
        BY <2>2 DEF Sessions
      <3> QED BY <3>1, <3>2, <3>3, OwnAwait
    <2>7. CASE Finish(s)
      BY <2>3, <2>7, OwnAnswer DEF Finish
    <2>8. CASE CreateUserKeys(s)
      BY <2>3, <2>8, OwnAnswer DEF CreateUserKeys
    <2>9. CASE VerifyTimestamp(s)
      BY <2>3, <2>9, OwnAnswer DEF VerifyTimestamp
    <2>10. CASE ShowMailLink(s)
      BY <2>3, <2>10, OwnAnswer DEF ShowMailLink
    <2>11. CASE ResetMail(s)
      <3>1. Callback(s, "reset_mail") /\ ~Free(s) /\ KindOK(reqs[s].kind, "reset_valid")
        BY <2>1, <2>2, <2>3, <2>11 DEF ResetMail, KindOK
      <3> QED BY <2>11, <3>1, OwnAwait, OwnAnswer DEF ResetMail
    <2>12. CASE ResetValid(s)
      BY <2>3, <2>12, OwnAnswer DEF ResetValid
    <2>13. CASE NewPasswordTimestamp(s)
      <3>1. ~Free(s) /\ reqs[s].kind = "new_password"
        BY <2>1, <2>2, <2>3, <2>13 DEF NewPasswordTimestamp, KindOK
      <3>2. reqs[s] \in Requests
        BY DEF Inv, ReqInv
      <3>3. /\ reqs'[s].pc = "new_password_flag" /\ reqs'[s].sess = reqs[s].sess
            /\ reqs'[s].kind = reqs[s].kind /\ reqs'[s].br = reqs[s].br
            /\ \A t \in Slots \ {s} : reqs'[t] = reqs[t]
            /\ sessions' = sessions
        BY <2>13, <3>2 DEF NewPasswordTimestamp, Inv, ReqInv, Requests
      <3>4. OwnInv'
        BY <3>1, <3>3 DEF OwnInv, Free, KindOK
      <3> QED BY <3>3, <3>4 DEF OwnSession
    <2>14. CASE NewPasswordFlag(s)
      <3>1. ~Free(s) /\ reqs[s].kind = "new_password"
        BY <2>1, <2>2, <2>3, <2>14 DEF NewPasswordFlag, KindOK
      <3>2. Accepted(reqs[s].sess).auth = reqs[s].sess.auth
        BY <2>2 DEF Accepted, Sessions
      <3> QED BY <2>14, <3>1, <3>2, OwnAnswer DEF NewPasswordFlag
    <2> HIDE DEF Goal
    <2> QED BY <1>3, <2>4, <2>5, <2>6, <2>7, <2>8, <2>9, <2>10, <2>11, <2>12, <2>13, <2>14
            DEF RunCallback, Goal
  <1>4. ASSUME NEW b \in Browsers, Logout(b) PROVE Goal
    <2>1. \A t \in Slots : Free(t) \/ reqs[t].br # b
      BY <1>4, InputAssumption DEF Logout, MayArrive, Alone
    <2>2. sessions[b] \in Sessions
      BY DEF Inv, SessInv
    <2>3. /\ sessions'[b].user = sessions[b].user /\ sessions'[b].auth = FALSE
          /\ \A c \in Browsers \ {b} : sessions'[c] = sessions[c]
          /\ reqs' = reqs
      BY <1>4, <2>2 DEF Logout, Inv, SessInv, Sessions
    <2>4. OwnInv'
      BY <2>1, <2>3 DEF OwnInv, Free
    <2> QED BY <2>3, <2>4 DEF OwnSession
  <1>5. CASE RedisServe
    BY <1>5, OwnElse DEF RedisServe, webState
  <1>6. CASE WriteFile
    BY <1>6, OwnElse DEF WriteFile, webState
  <1>7. CASE \E op \in AdminOps : AdminStart(op)
    BY <1>7, OwnElse DEF AdminStart, webState
  <1>8. CASE AdminStep
    BY <1>8, OwnElse DEF AdminStep, webState
  <1>9. CASE Tick
    BY <1>9, OwnElse DEF Tick, webState
  <1>10. CASE Idle \/ UNCHANGED vars
    BY <1>10, OwnElse DEF Idle, vars
  <1> HIDE DEF Goal
  <1> QED BY <1>1, <1>2, <1>3, <1>4, <1>5, <1>6, <1>7, <1>8, <1>9, <1>10 DEF Next, Goal

\* The session copies agree with the stored sessions in every reachable state.
LEMMA OwnHolds == ASSUME Overlap # "all" PROVE Spec => []OwnInv
  <1>1. Init => OwnInv
    BY DEF Init, OwnInv, Free, NoReq, KindOK
  <1>2. Inv /\ CallbackMatched /\ OwnInv /\ [Next]_vars => OwnInv'
    BY OwnNext
  <1> QED BY <1>1, <1>2, InvHolds, CallbacksMatched, PTL DEF Spec

\* When each browser waits for its answers, only its own login logs it in and
\* only its own login or reset link changes the user of its session, although
\* routes.js keeps the user of a link in a global all requests share.
THEOREM SessionsByOwnRequests ==
  ASSUME Overlap # "all" PROVE Spec => SessionByOwnRequest
  <1>1. Inv /\ CallbackMatched /\ OwnInv /\ [Next]_vars => OwnSession
    BY OwnNext
  <1> QED BY <1>1, OwnHolds, InvHolds, CallbacksMatched, PTL DEF Spec, SessionByOwnRequest

-----------------------------------------------------------------------------
(* A new address is stored unconfirmed.                                    *)

\* The command that stores an address follows the one that withdraws the
\* confirmation directly, or that one has just been served.
Withdrawn(cmds) ==
  \A i \in 1..Len(cmds) : cmds[i].cb = "update_mail" =>
    /\ cmds[i].op = "hset" /\ cmds[i].field = "mail"
    /\ i = 1 => db[cmds[i].key]["valid"] # "True"
    /\ i # 1 => cmds[i - 1] = HSetOnly(cmds[i].key, "valid", "False")

WithdrawnInv == Withdrawn(pipe)

\* Another command joins the queue.
LEMMA WithdrawnAppend ==
  ASSUME NEW E, NEW cmds \in Seq(E), Withdrawn(cmds), NEW c, c.cb # "update_mail"
  PROVE Withdrawn(Append(cmds, c))
  <1> DEFINE new == Append(cmds, c)
             n == Len(cmds)
  <1>1. /\ n \in Nat /\ Len(new) = n + 1
        /\ new[n + 1] = c
        /\ \A i \in 1..n : new[i] = cmds[i]
    OBVIOUS
  <1> HIDE DEF new, n
  <1>2. SUFFICES ASSUME NEW i \in 1..(n + 1), new[i].cb = "update_mail"
                 PROVE /\ new[i].op = "hset" /\ new[i].field = "mail"
                       /\ i = 1 => db[new[i].key]["valid"] # "True"
                       /\ i # 1 => new[i - 1] = HSetOnly(new[i].key, "valid", "False")
    BY <1>1 DEF Withdrawn, new
  <1>3. i \in 1..n /\ new[i] = cmds[i] /\ (i # 1 => i - 1 \in 1..n)
    BY <1>1, <1>2
  <1>4. i # 1 => new[i - 1] = cmds[i - 1]
    BY <1>1, <1>3
  <1> QED BY <1>2, <1>3, <1>4 DEF Withdrawn, n

\* The commands of /update_mail join the queue.
LEMMA WithdrawnSent ==
  ASSUME NEW E, NEW cmds \in Seq(E), Withdrawn(cmds), NEW k, NEW b \in E, NEW c \in E,
         b = HSetOnly(k, "valid", "False"), c.op = "hset", c.key = k, c.field = "mail"
  PROVE Withdrawn(Append(Append(cmds, b), c))
  <1> DEFINE new == Append(Append(cmds, b), c)
             n == Len(cmds)
  <1>1. /\ n \in Nat /\ Len(new) = n + 2
        /\ new[n + 1] = b /\ new[n + 2] = c
        /\ \A i \in 1..n : new[i] = cmds[i]
    OBVIOUS
  <1> HIDE DEF new, n
  <1>2. SUFFICES ASSUME NEW i \in 1..(n + 2), new[i].cb = "update_mail"
                 PROVE /\ new[i].op = "hset" /\ new[i].field = "mail"
                       /\ i = 1 => db[new[i].key]["valid"] # "True"
                       /\ i # 1 => new[i - 1] = HSetOnly(new[i].key, "valid", "False")
    BY <1>1 DEF Withdrawn, new
  <1>3. CASE i \in 1..n
    <2>1. i # 1 => i - 1 \in 1..n
      BY <1>1, <1>3
    <2>2. new[i] = cmds[i] /\ (i # 1 => new[i - 1] = cmds[i - 1])
      BY <1>1, <1>3, <2>1
    <2> QED BY <1>2, <1>3, <2>2 DEF Withdrawn, n
  <1>4. CASE i = n + 1
    <2>1. b.cb = "none"
      BY DEF HSetOnly, HSetCmd
    <2> QED BY <1>1, <1>2, <1>4, <2>1
  <1>5. CASE i = n + 2
    <2>1. i # 1 /\ i - 1 = n + 1
      BY <1>1, <1>5
    <2> QED BY <1>1, <1>5, <2>1
  <1> QED BY <1>1, <1>3, <1>4, <1>5

\* A step that stores no confirmation and leaves the queue alone.
LEMMA WithdrawnKept ==
  ASSUME WithdrawnInv, UNCHANGED pipe, Inv,
         \A k \in Keys : db'[k]["valid"] = "True" => db[k]["valid"] = "True"
  PROVE WithdrawnInv'
  <1>1. \A i \in 1..Len(pipe) : pipe[i].key \in Keys
    BY DEF Inv, PipeInv, Commands, RawCommands
  <1> QED BY <1>1 DEF WithdrawnInv, Withdrawn

\* What the server's steps do to the queue.
LEMMA Sends ==
  ASSUME NEW s \in Slots, Request(s) \/ PostHandler(s) \/ RunCallback(s)
  PROVE \/ UpdateMail(s)
        \/ UNCHANGED pipe
        \/ \E a : a.cb # "update_mail" /\ Send(<<a>>)
        \/ \E a, b : a.cb # "update_mail" /\ b.cb # "update_mail" /\ Send(<<a, b>>)
  <1> DEFINE Goal == \/ UpdateMail(s)
                     \/ UNCHANGED pipe
                     \/ \E a : a.cb # "update_mail" /\ Send(<<a>>)
                     \/ \E a, b : a.cb # "update_mail" /\ b.cb # "update_mail" /\ Send(<<a, b>>)
  <1>1. UpdateMail(s) \/ UNCHANGED pipe => Goal
    OBVIOUS
  <1>2. ASSUME NEW a, a.cb # "update_mail", Send(<<a>>) PROVE Goal
    BY <1>2, Zenon
  <1>3. ASSUME NEW a, NEW b, a.cb # "update_mail", b.cb # "update_mail", Send(<<a, b>>) PROVE Goal
    BY <1>3, Zenon
  <1> SUFFICES Goal
    OBVIOUS
  <1> HIDE DEF Goal
  <1>4. ASSUME NEW k, NEW f, NEW t, NEW cb, cb # "update_mail", Send(<<HGetCmd(k, f, t, cb)>>)
        PROVE Goal
    <2>1. HGetCmd(k, f, t, cb).cb # "update_mail"
      BY <1>4, CmdFields
    <2> QED BY <1>2, <1>4, <2>1, Zenon
  <1>5. ASSUME NEW k, NEW f, NEW g, NEW t, NEW cb, NEW cc, cb # "update_mail", cc # "update_mail",
               Send(<<HGetCmd(k, f, t, cb), HGetCmd(k, g, t, cc)>>)
        PROVE Goal
    <2>1. HGetCmd(k, f, t, cb).cb # "update_mail" /\ HGetCmd(k, g, t, cc).cb # "update_mail"
      BY <1>5, CmdFields
    <2> QED BY <1>3, <1>5, <2>1, Zenon
  <1>6. ASSUME NEW k, NEW f, NEW v, NEW t, NEW cb, cb # "update_mail", Send(<<HSetCmd(k, f, v, t, cb)>>)
        PROVE Goal
    <2>1. HSetCmd(k, f, v, t, cb).cb # "update_mail"
      BY <1>6, CmdFields
    <2> QED BY <1>2, <1>6, <2>1, Zenon
  <1>7. ASSUME NEW k, NEW f, NEW v, Send(<<HSetOnly(k, f, v)>>) PROVE Goal
    <2>1. HSetOnly(k, f, v).cb # "update_mail"
      BY CmdFields
    <2> QED BY <1>2, <1>7, <2>1, Zenon
  <1>8. ASSUME NEW k, NEW f, NEW v, NEW g, NEW w, Send(<<HSetOnly(k, f, v), HSetOnly(k, g, w)>>)
        PROVE Goal
    <2>1. HSetOnly(k, f, v).cb # "update_mail" /\ HSetOnly(k, g, w).cb # "update_mail"
      BY CmdFields
    <2> QED BY <1>3, <1>8, <2>1, Zenon
  <1>9. ASSUME NEW k, NEW t, NEW cb, cb # "update_mail", Send(<<KeysCmd(k, t, cb)>>) PROVE Goal
    <2>1. KeysCmd(k, t, cb).cb # "update_mail"
      BY <1>9, CmdFields
    <2> QED BY <1>2, <1>9, <2>1, Zenon
  <1>10. CASE Request(s)
    <2>1. PICK b \in Browsers : ReceivePost(s, b) \/ Secure(s, b) \/ Verify(s, b)
                                   \/ ShowMail(s, b) \/ NewPassword(s, b)
      BY <1>10 DEF Request
    <2>2. CASE ReceivePost(s, b)
      BY <1>1, <2>2 DEF ReceivePost
    <2>3. CASE Secure(s, b)
      BY <1>5, <2>3 DEF Secure
    <2>4. CASE Verify(s, b)
      BY <1>5, <2>4 DEF Verify
    <2>5. CASE ShowMail(s, b)
      BY <1>4, <2>5 DEF ShowMail
    <2>6. CASE NewPassword(s, b)
      BY <1>5, <2>6 DEF NewPassword
    <2> QED BY <2>1, <2>2, <2>3, <2>4, <2>5, <2>6
  <1>11. CASE PostHandler(s)
    <2>1. CASE Login(s)
      BY <1>4, <2>1 DEF Login
    <2>2. CASE UpdatePassword(s) \/ PostNewPassword(s)
      BY <1>6, <2>2 DEF UpdatePassword, PostNewPassword, SetPassword, PasswordCmd
    <2>3. CASE CreateUser(s)
      BY <1>9, <2>3 DEF CreateUser
    <2>4. CASE VerifyMail(s)
      BY <1>8, <2>4 DEF VerifyMail, VerifyMailCmds
    <2>5. CASE ResetPassword(s)
      BY <1>4, <2>5 DEF ResetPassword
    <2> QED BY <1>1, <1>11, <2>1, <2>2, <2>3, <2>4, <2>5 DEF PostHandler
  <1>12. CASE RunCallback(s)
    <2>1. CASE LoginPassword(s)
      BY <1>1, <1>4, <2>1 DEF LoginPassword
    <2>2. CASE LoginValid(s) \/ KeepValid(s) \/ Finish(s) \/ ShowMailLink(s)
      BY <1>1, <2>2 DEF LoginValid, KeepValid, Finish, ShowMailLink
    <2>3. CASE CreateUserKeys(s)
      BY <1>1, <1>8, <2>3 DEF CreateUserKeys
    <2>4. CASE VerifyTimestamp(s)
      BY <1>1, <1>7, <2>4 DEF VerifyTimestamp
    <2>5. CASE ResetMail(s)
      BY <1>1, <1>4, <2>5 DEF ResetMail
    <2>6. CASE ResetValid(s)
      BY <1>1, <1>8, <2>6 DEF ResetValid
    <2>7. CASE NewPasswordTimestamp(s)
      BY <1>4, <2>7 DEF NewPasswordTimestamp
    <2>8. CASE NewPasswordFlag(s)
      BY <1>1, <1>7, <2>8 DEF NewPasswordFlag
    <2> QED BY <1>12, <2>1, <2>2, <2>3, <2>4, <2>5, <2>6, <2>7, <2>8 DEF RunCallback
  <1> QED BY <1>10, <1>11, <1>12

\* A step that does not shorten the queue stores no address.
LEMMA NoAddressStored ==
  ASSUME Inv, Inv', Len(pipe') >= Len(pipe)
  PROVE ~StoresAddress
  BY DEF Inv, PipeInv, StoresAddress

\* Redis withdraws the confirmation before it stores the address.
LEMMA WithdrawnServe ==
  ASSUME Inv, WithdrawnInv, RedisServe
  PROVE WithdrawnInv' /\ (StoresAddress => db'[Head(pipe).key]["valid"] # "True")
  <1> DEFINE c == Head(pipe)
             n == Len(pipe)
             new == Tail(pipe)
  <1>1. /\ pipe \in Seq(Commands) /\ pipe # <<>> /\ pipe' = new /\ db' = Store(c)
        /\ n \in Nat \ {0} /\ c = pipe[1] /\ c \in Commands
        /\ Len(new) = n - 1 /\ \A i \in 1..(n - 1) : new[i] = pipe[i + 1] /\ i + 1 \in 1..n
    BY DEF RedisServe, Inv, PipeInv
  <1>2. c.key \in Keys
    BY <1>1 DEF Commands, RawCommands
  <1>3. c.cb = "update_mail" => db'[c.key]["valid"] # "True"
    <2> SUFFICES ASSUME c.cb = "update_mail" PROVE db'[c.key]["valid"] # "True"
      OBVIOUS
    <2>1. c.op = "hset" /\ c.field = "mail" /\ db[c.key]["valid"] # "True"
      BY <1>1 DEF WithdrawnInv, Withdrawn
    <2> QED BY <1>1, <1>2, <2>1 DEF Store, HSet, Inv, DbInv, Fields
  <1> HIDE DEF c, n, new
  <1>4. WithdrawnInv'
    <2> SUFFICES ASSUME NEW i \in 1..(n - 1), new[i].cb = "update_mail"
                 PROVE /\ new[i].op = "hset" /\ new[i].field = "mail"
                       /\ i = 1 => db'[new[i].key]["valid"] # "True"
                       /\ i # 1 => new[i - 1] = HSetOnly(new[i].key, "valid", "False")
      BY <1>1 DEF WithdrawnInv, Withdrawn
    <2>1. new[i] = pipe[i + 1] /\ i + 1 \in 1..n /\ i + 1 # 1 /\ (i + 1) - 1 = i
      BY <1>1
    <2>2. /\ new[i].op = "hset" /\ new[i].field = "mail"
          /\ pipe[i] = HSetOnly(new[i].key, "valid", "False")
      BY <2>1 DEF WithdrawnInv, Withdrawn, n
    <2>3. CASE i = 1
      <3>1. c = HSetOnly(new[i].key, "valid", "False")
        BY <1>1, <2>2, <2>3
      <3>2. c.op = "hset" /\ c.key = new[i].key /\ c.field = "valid" /\ c.val = "False"
        BY <3>1 DEF HSetOnly, HSetCmd
      <3>3. db'[c.key]["valid"] = "False"
        BY <1>1, <1>2, <3>2 DEF Store, HSet, Inv, DbInv, Fields
      <3> QED BY <2>2, <2>3, <3>2, <3>3
    <2>4. CASE i # 1
      <3>1. i - 1 \in 1..(n - 1) /\ (i - 1) + 1 = i
        BY <1>1, <2>4
      <3>2. new[i - 1] = pipe[i]
        BY <1>1, <3>1
      <3> QED BY <2>2, <2>4, <3>2
    <2> QED BY <2>3, <2>4
  <1> QED BY <1>3, <1>4 DEF StoresAddress, c

\* Every step keeps the withdrawal in front of the new address.
LEMMA WithdrawnNext ==
  ASSUME Inv, Inv', WithdrawnInv, [Next]_vars
  PROVE WithdrawnInv' /\ (StoresAddress => db'[Head(pipe).key]["valid"] # "True")
  <1> DEFINE Goal == WithdrawnInv' /\ (StoresAddress => db'[Head(pipe).key]["valid"] # "True")
  <1>1. pipe \in Seq(Commands)
    BY DEF Inv, PipeInv
  <1>2. ASSUME UNCHANGED pipe, \A k \in Keys : db'[k]["valid"] = "True" => db[k]["valid"] = "True"
        PROVE Goal
    <2>1. Len(pipe') >= Len(pipe)
      BY <1>1, <1>2
    <2> QED BY <1>2, <2>1, WithdrawnKept, NoAddressStored
  <1>3. ASSUME NEW s \in Slots, Request(s) \/ PostHandler(s) \/ RunCallback(s) PROVE Goal
    <2>1. db' = db
      BY <1>3 DEF Request, PostHandler, RunCallback
    <2>2. CASE UpdateMail(s)
      <3> DEFINE u == reqs[s].sess.user
                 a == HSetOnly(u, "timestamp", NodeTime)
                 b == HSetOnly(u, "valid", "False")
                 c == HSetCmd(u, "mail", reqs[s].mail, s, "update_mail")
      <3>1. a.cb # "update_mail" /\ c.op = "hset" /\ c.key = u /\ c.field = "mail"
        BY DEF HSetOnly, HSetCmd
      <3>2. a \in Commands /\ b \in Commands /\ c \in Commands
        <4>1. u \in Keys /\ NodeTime \in Timestamps
          BY RequestFacts, NodeTimeType DEF Inv
        <4> QED BY <4>1, RequestFacts, HSetCmdOK, FieldFacts, StoreAssumption
                DEF Inv, HSetOnly, Fields, Flags
      <3>3. b = HSetOnly(u, "valid", "False")
        OBVIOUS
      <3>4. pipe' = pipe \o <<a, b, c>>
        BY <2>2 DEF UpdateMail, UpdateMailCmds, Send
      <3> HIDE DEF a, b, c
      <3>5. pipe \o <<a, b, c>> = Append(Append(Append(pipe, a), b), c)
        BY <1>1, <3>2
      <3>6. Withdrawn(Append(pipe, a)) /\ Append(pipe, a) \in Seq(Commands)
        BY <1>1, <3>1, <3>2, WithdrawnAppend DEF WithdrawnInv
      <3>7. Withdrawn(pipe')
        BY <3>1, <3>2, <3>3, <3>4, <3>5, <3>6, WithdrawnSent
      <3>8. WithdrawnInv'
        BY <2>1, <3>7 DEF WithdrawnInv, Withdrawn
      <3>9. Len(pipe') >= Len(pipe)
        BY <1>1, <3>2, <3>4
      <3> QED BY <3>8, <3>9, NoAddressStored
    <2>3. ASSUME NEW a, a.cb # "update_mail" PROVE Withdrawn(pipe \o <<a>>) /\ Len(pipe \o <<a>>) >= Len(pipe)
      <3> DEFINE E == Commands \cup {a}
      <3>1. pipe \in Seq(E) /\ a \in E
        BY <1>1
      <3> HIDE DEF E
      <3>2. pipe \o <<a>> = Append(pipe, a) /\ Len(pipe \o <<a>>) >= Len(pipe)
        BY <3>1
      <3> QED BY <2>3, <3>1, <3>2, WithdrawnAppend DEF WithdrawnInv
    <2>4. ASSUME NEW a, NEW b, a.cb # "update_mail", b.cb # "update_mail"
          PROVE Withdrawn(pipe \o <<a, b>>) /\ Len(pipe \o <<a, b>>) >= Len(pipe)
      <3> DEFINE E == Commands \cup {a, b}
      <3>1. pipe \in Seq(E) /\ a \in E /\ b \in E
        BY <1>1
      <3> HIDE DEF E
      <3>2. pipe \o <<a, b>> = Append(Append(pipe, a), b) /\ Len(pipe \o <<a, b>>) >= Len(pipe)
        BY <3>1
      <3>3. Withdrawn(Append(pipe, a)) /\ Append(pipe, a) \in Seq(E)
        BY <2>4, <3>1, WithdrawnAppend DEF WithdrawnInv
      <3> QED BY <2>4, <3>1, <3>2, <3>3, WithdrawnAppend
    <2>5. CASE \/ \E a : a.cb # "update_mail" /\ Send(<<a>>)
               \/ \E a, b : a.cb # "update_mail" /\ b.cb # "update_mail" /\ Send(<<a, b>>)
      <3>1. Withdrawn(pipe') /\ Len(pipe') >= Len(pipe)
        BY <2>3, <2>4, <2>5 DEF Send
      <3>2. WithdrawnInv'
        BY <2>1, <3>1 DEF WithdrawnInv, Withdrawn
      <3> QED BY <3>1, <3>2, NoAddressStored
    <2>6. CASE UNCHANGED pipe
      BY <1>2, <2>1, <2>6
    <2> HIDE DEF Goal
    <2> QED BY <1>3, <2>2, <2>5, <2>6, Sends
  <1>4. CASE RedisServe
    BY <1>4, WithdrawnServe
  <1>5. ASSUME AdminStep PROVE Goal
    <2>1. UNCHANGED pipe
      BY <1>5 DEF AdminStep, redisLink
    <2>2. admin.uid \in Keys /\ db \in [Keys -> [Fields -> Values]]
      BY DEF Inv, AdminInv, AdminCalls, DbInv
    <2>3. \A f, v : db' = HSet(db, admin.uid, f, v) /\ (f # "valid" \/ v = "False") =>
            \A k \in Keys : db'[k]["valid"] \in {db[k]["valid"], "False"}
      BY <2>2 DEF HSet, Fields
    <2>4. db' = Del(db, admin.uid) => \A k \in Keys : db'[k]["valid"] \in {db[k]["valid"], Null}
      BY <2>2 DEF Del, Fields
    <2>5. \A k \in Keys : db'[k]["valid"] \in {db[k]["valid"], "False", Null}
      <3>1. CASE AdminKeys \/ AdminFile \/ AdminAborts
        BY <3>1 DEF AdminKeys, AdminFile, AdminAborts
      <3>2. CASE AdminPassword
        BY <2>3, <3>2 DEF AdminPassword
      <3>3. CASE AdminMail
        BY <2>3, <3>3 DEF AdminMail
      <3>4. CASE AdminTimestamp
        BY <2>3, <3>4 DEF AdminTimestamp
      <3>5. CASE AdminValid
        BY <2>3, <3>5 DEF AdminValid
      <3>6. CASE AdminDelete
        BY <2>4, <3>6 DEF AdminDelete
      <3> QED BY <1>5, <3>1, <3>2, <3>3, <3>4, <3>5, <3>6 DEF AdminStep
    <2>6. \A k \in Keys : db'[k]["valid"] = "True" => db[k]["valid"] = "True"
      BY <2>5, StoreAssumption
    <2> QED BY <1>2, <2>1, <2>6
  <1>6. CASE \E b \in Browsers : Logout(b)
    BY <1>2, <1>6 DEF Logout, redisLink
  <1>7. CASE WriteFile
    BY <1>2, <1>7 DEF WriteFile, redisLink
  <1>8. CASE \E op \in AdminOps : AdminStart(op)
    BY <1>2, <1>8 DEF AdminStart, redisLink
  <1>9. CASE Tick
    BY <1>2, <1>9 DEF Tick, redisLink
  <1>10. CASE Idle \/ UNCHANGED vars
    BY <1>2, <1>10 DEF Idle, vars
  <1> HIDE DEF Goal
  <1> QED BY <1>3, <1>4, <1>5, <1>6, <1>7, <1>8, <1>9, <1>10 DEF Next, Goal

\* The withdrawal comes first in every reachable state.
LEMMA WithdrawnHolds == Spec => []WithdrawnInv
  <1>1. Init => WithdrawnInv
    BY DEF Init, WithdrawnInv, Withdrawn
  <1>2. Inv /\ Inv' /\ WithdrawnInv /\ [Next]_vars => WithdrawnInv'
    BY WithdrawnNext
  <1> QED BY <1>1, <1>2, InvHolds, PTL DEF Spec

\* However /update_mail, other requests and admin.py interleave, when the new
\* address is stored the account does not count as confirmed.
THEOREM AddressStoredUnconfirmed == Spec => AddressChangeUnconfirms
  <1>1. Inv /\ Inv' /\ WithdrawnInv /\ [Next]_vars =>
          (StoresAddress => db'[Head(pipe).key]["valid"] # "True")
    BY WithdrawnNext
  <1> QED BY <1>1, WithdrawnHolds, InvHolds, PTL DEF Spec, AddressChangeUnconfirms
=============================================================================
