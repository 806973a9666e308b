----------------------------- MODULE RedisStore -----------------------------
(***************************************************************************)
(* The part of Redis the user management relies on: one hash per user      *)
(* name.  A store maps every key to its fields; a field that is not set    *)
(* has the value Null, and a key whose fields are all Null does not exist. *)
(***************************************************************************)
CONSTANTS Null,   \* the nil reply of Redis, null or undefined in JavaScript
          Glob    \* <<pattern, key>> pairs for which stringmatchlen succeeds

Fields == {"password", "mail", "valid", "timestamp", "link", "new_password"}

\* HGET key field: nil when the key or the field is missing.
HGet(d, k, f) == d[k][f]

\* HSET key field value: creates the key when it is missing.
HSet(d, k, f, v) == [d EXCEPT ![k] = [@ EXCEPT ![f] = v]]

\* DEL key: deleting a missing key does nothing.
Del(d, k) == [d EXCEPT ![k] = [f \in Fields |-> Null]]

\* A key is in the key space iff its hash has at least one field.
Exists(d, k) == \E f \in Fields : d[k][f] # Null

\* KEYS pattern: the argument is a glob pattern and not a name.
KeysLike(d, p) == {k \in DOMAIN d : Exists(d, k) /\ <<p, k>> \in Glob}
=============================================================================
