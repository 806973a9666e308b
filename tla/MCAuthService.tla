--------------------------- MODULE MCAuthService ---------------------------
(***************************************************************************)
(* AuthService with plain user names: none of them contains a character    *)
(* that KEYS reads as a wildcard, so a name matches itself only.           *)
(***************************************************************************)
EXTENDS AuthProperties, TLC

PlainGlob == {<<k, k>> : k \in Keys}

\* Names, addresses, browsers and slots are interchangeable.
Symmetry == Permutations(Names) \cup Permutations(Mails)
              \cup Permutations(Browsers) \cup Permutations(Slots)
=============================================================================
