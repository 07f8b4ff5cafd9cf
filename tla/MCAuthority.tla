---- MODULE MCAuthority ----
(***************************************************************************)
(* Small instances of Authority: three key ids over two public keys, so a  *)
(* public key can come back under another key id.                          *)
(***************************************************************************)
EXTENDS Authority

Member(k, p, u) == [key |-> k, pub |-> p, principal |-> u, human |-> TRUE]

\* Key id k1 and key id k3 carry the same public key.
M1 == Member("k1", "pk1", "alice")
M2 == Member("k2", "pk2", "bob")
M3 == Member("k3", "pk1", "alice")

Policy(v, roster, human) ==
  [id |-> "p", version |-> v, tool |-> "refund", threshold |-> 1,
   roster |-> roster, human |-> human, maxTtl |-> 10, enrich |-> FALSE]

MCTools == {"refund"}

Requests(pols) ==
  [policy : pols, denied : SUBSET MCTools, revoked : SUBSET {"k1", "k2", "k3"}]

\* Each change of the policy has a version of its own; the last one lacks the
\* human an irreversible tool needs.
VersionedConfigurations ==
  Requests({Policy(1, {M1}, TRUE), Policy(2, {M2}, TRUE),
            Policy(3, {M2, M3}, TRUE), Policy(4, {M2}, FALSE)})

\* The administrator edits the roster without changing the version.
ReusedConfigurations ==
  Requests({Policy(1, {M1}, TRUE), Policy(1, {M2}, TRUE),
            Policy(1, {M2, M3}, TRUE)})
====
