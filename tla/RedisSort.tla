------------------------------- MODULE RedisSort -------------------------------
(***************************************************************************)
(* SORT (sort.c).  The pattern of BY and GET maps an element to the key    *)
(* <<db, PatternKey[element]>>; without a star in it (nosort) the elements *)
(* keep their order.  Elements below 100 are numbers.                      *)
(***************************************************************************)
EXTENDS RedisLists, RedisZSets

CONSTANT PatternKey   \* element -> name of the key the pattern turns it into

\* The weight of element e, or 0 where the key is missing, or not a string.
lookupKeyByPattern(x, d, e) ==
  LET on(y) == IF y.o.t = "string" THEN y ELSE [y EXCEPT !.o = NoObj] IN on(lookupKeyRead(x, <<d, PatternKey[e]>>))
\* Elements <<element, score>>: by score and, among equals, by element.
sortCompare(s, t) == s[2] < t[2] \/ (s[2] = t[2] /\ s[1] < t[1])

\* The vector before sorting: a list in order, a set and a sorted set to be sorted in
\* hash table order, a sorted set not to be sorted by rank.
SortVector(x, o, dontsort, desc) ==
  CASE o.t = "list" -> IF dontsort /\ desc THEN Reverse(o.v) ELSE o.v
    [] o.t = "set" -> Draw(x, Members(o))
    [] o.t = "zset" -> IF ~dontsort THEN Draw(x, ZMembers(o))
                       ELSE IF desc THEN Reverse(Order(o)) ELSE Order(o)
    [] OTHER -> <<>>
\* LIMIT start count as positions in a vector of n elements; count < 0 is everything.
SortLimit(n, limit_start, limit_count) ==
  LET start == IF limit_start < 0 THEN 0 ELSE limit_start
      end == IF limit_count < 0 THEN n - 1 ELSE start + limit_count - 1
  IN  IF start >= n THEN <<n - 1, n - 2>> ELSE <<start, IF end >= n THEN n - 1 ELSE end>>

\* The elements with their weights: themselves, or what the pattern of BY names.
WeightOf(o) == IF o = NoObj THEN 0 ELSE IF strtold(o.v) THEN Signed(o.v) ELSE NaN
Weights(x, d, vector, by) ==
  [i \in DOMAIN vector |->
     <<vector[i], IF by THEN WeightOf(lookupKeyByPattern(x, d, vector[i]).o)
                  ELSE IF vector[i] >= 100 THEN NaN ELSE vector[i]>>]
SortedVector(ws, desc) ==
  LET as(at) == [i \in DOMAIN at |-> ws[at[i]][1]]
      up == SetToSortSeq(DOMAIN ws, LAMBDA i, j : sortCompare(ws[i], ws[j]) \/ (ws[i] = ws[j] /\ i < j))
  IN  as(IF desc THEN Reverse(up) ELSE up)

\* flags: BY (a pattern with a star), NOSORT (BY without one), DESC, ALPHA; store is the
\* key of STORE or NoKey.  The vector of a sorted set is taken from its skiplist: the
\* ziplist is converted even though SORT only reads.
SortStore(x, store, out) ==
  CASE store = NoKey -> addReply(x, out)
    [] store # NoKey /\ out # <<>> ->
         Dirty(notifyKeyspaceEvent(setKey(x, store, createQuicklistObject(out)), "sortstore", store), Len(out))
    [] OTHER -> IF Exists(x, store)
                THEN Dirty(notifyKeyspaceEvent(signalModifiedKey(dbDelete(x, store), store), "del", store), 1)
                ELSE x
Sort(z, d, store, vector, p) ==
  LET take(sorted, limit) == SubSeq(sorted, limit[1] + 1, limit[2] + 1)
      looked == IF p.by THEN FoldLeft(LAMBDA w, e : lookupKeyByPattern(w, d, e), z, vector) ELSE z
      put(sorted) == SortStore(looked, store, take(sorted, SortLimit(Len(vector), p.start, p.count)))
      order(ws) == IF ~p.alpha /\ \E i \in DOMAIN ws : ws[i][2] = NaN
                   THEN addReplyError(looked, "One or more scores can't be converted into double")
                   ELSE put(SortedVector(ws, p.desc))
  IN  IF p.dontsort THEN put(vector) ELSE order(Weights(z, d, vector, p.by))
sortCommand(y, k, store, flags, start, count) ==
  LET set == y.o.t = "set" /\ "NOSORT" \in flags /\ store # NoKey
      p == [dontsort |-> "NOSORT" \in flags /\ ~set, alpha |-> "ALPHA" \in flags \/ set,
            by |-> "BY" \in flags, desc |-> "DESC" \in flags, start |-> start, count |-> count]
      with(q) == Sort(IF y.o.t = "zset" THEN dbOverwrite(y, k, zsetConvert(y.o, "skiplist")) ELSE y,
                      k[1], store, SortVector(y, y.o, q.dontsort, q.desc), q)
  IN  IF y.o.t \notin {"none", "set", "list", "zset"} THEN WrongType(y) ELSE with(p)
=============================================================================
