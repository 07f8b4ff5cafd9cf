------------------------------ MODULE Authority ------------------------------
(***************************************************************************)
(* The signing authority of one (tenant, executor) identity: the policy in *)
(* force, its epoch, the denied tools and the revoked keys, the table of   *)
(* policies and the administrative event stream, as Coordinator.configure  *)
(* keeps them (python/vekquorum/coordinator.py).                           *)
(*                                                                         *)
(* A policy is a record [id, version, tool, threshold, roster, human,      *)
(* maxTtl, enrich]; equality of policies stands for equality of their      *)
(* hashes.  A roster is a set of members [key, pub, principal, human].  A  *)
(* configure request is a record [policy, denied, revoked].  The instants  *)
(* an authority is installed at are left out.                              *)
(***************************************************************************)
EXTENDS Integers, Sequences, FiniteSets

CONSTANTS None,            \* the absence of a value (Python's None)
          Configurations,  \* the configure requests administrators may send
          Tools,           \* the registered executors, by tool name
          Irreversible,    \* the tools a deployment manifest marks irreversible
          MaxEpoch         \* bound on the number of configurations

VARIABLES authority,       \* row of authorities: [epoch, policy, denied, revoked]
          policies,        \* rows of policies
          adminLog         \* AuthorityChanged events of the admin stream

authorityVars == <<authority, policies, adminLog>>

Policies == {c.policy : c \in Configurations}
RosterKeys(p) == {m.key : m \in p.roster}
RosterPubs(p) == {m.pub : m \in p.roster}
Keys == UNION {RosterKeys(p) : p \in Policies}

Authorities == [epoch : 1 .. MaxEpoch, policy : Policies,
                denied : SUBSET Tools, revoked : SUBSET Keys]

\* The invariants schema.policy enforces on every policy it accepts: one
\* member per key, principal and public key, a reachable threshold, and a
\* human to ask when one is required.
WellFormedPolicy(p) ==
  /\ IsFiniteSet(p.roster)
  /\ p.threshold \in 1 .. Cardinality(p.roster)
  /\ \A m, n \in p.roster :
       m.key = n.key \/ m.pub = n.pub \/ m.principal = n.principal => m = n
  /\ p.human => \E m \in p.roster : m.human

ASSUME AuthorityAssumption ==
  /\ \A c \in Configurations : /\ WellFormedPolicy(c.policy)
                               /\ c.denied \subseteq Tools
                               /\ c.revoked \subseteq Keys
  /\ None \notin Authorities
  /\ MaxEpoch \in Nat

CurrentEpoch == IF authority = None THEN 0 ELSE authority.epoch

\* Fault: a change of authority that keeps the epoch.
SameEpoch == IF authority = None THEN 1 ELSE authority.epoch
NewEpoch == CurrentEpoch + 1

\* The public keys that any stored policy gives to a revoked key id.
RevokedPublicKeys(revoked) ==
  {m.pub : m \in {n \in UNION {p.roster : p \in policies} : n.key \in revoked}}

\* Fault: REPLACE on the policy id alone.
PutPolicyById(p) == {q \in policies : q.id # p.id} \union {p}

\* INSERT OR REPLACE under UNIQUE (tenant, policy_id, version): installing a
\* policy deletes another policy stored with the same id and version.
PutPolicy(p) ==
  {q \in policies : q.id # p.id \/ q.version # p.version} \union {p}

\* Fault: the request's revocations are taken without the earlier ones.
ForgetRevocations(revoked) == TRUE

\* Revocations only accumulate (revoked_shrink).
KeepsRevocations(revoked) ==
  authority # None => authority.revoked \subseteq revoked

MayInstall(c) ==
  /\ c.policy.tool \in Tools
  /\ c.policy.tool \in Irreversible => c.policy.human
  /\ RosterKeys(c.policy) \intersect c.revoked = {}
  /\ KeepsRevocations(c.revoked)
  /\ authority # None =>
       RevokedPublicKeys(c.revoked) \intersect RosterPubs(c.policy) = {}

InstallAuthority(c) ==
  /\ CurrentEpoch < MaxEpoch
  /\ MayInstall(c)
  /\ authority' = [epoch |-> NewEpoch, policy |-> c.policy,
                   denied |-> c.denied, revoked |-> c.revoked]
  /\ policies' = PutPolicy(c.policy)
  /\ adminLog' = Append(adminLog, authority')

AuthorityInit ==
  /\ authority = None
  /\ policies = {}
  /\ adminLog = <<>>

AuthorityNext == \E c \in Configurations : InstallAuthority(c)

AuthoritySpec == AuthorityInit /\ [][AuthorityNext]_authorityVars

-----------------------------------------------------------------------------
\* Every version of a policy id is one policy: an administrator never edits a
\* policy without giving it a new version.  Nothing in the code enforces it.
VersionsImmutable ==
  \A p, q \in Policies : p.id = q.id /\ p.version = q.version => p = q

\* Type correctness; the admin stream records every epoch in order and its
\* head is the authority in force (configure).
AuthorityTypeOK ==
  /\ authority \in Authorities \union {None}
  /\ policies \subseteq Policies
  /\ adminLog \in Seq(Authorities)
  /\ Len(adminLog) = CurrentEpoch
  /\ \A i \in 1 .. Len(adminLog) : adminLog[i].epoch = i
  /\ authority # None => authority = adminLog[Len(adminLog)]

\* "A public key once revoked can never re-enroll under any new key id within
\* this executor identity" (configure): if a member of the policy of epoch i
\* has its key id revoked at epoch j, no policy from epoch j on enrolls its
\* public key.
NoReenroll ==
  \A i, j, l \in 1 .. Len(adminLog) :
    \A m \in adminLog[i].policy.roster :
      j <= l /\ m.key \in adminLog[j].revoked
        => m.pub \notin RosterPubs(adminLog[l].policy)

\* A key id revoked at some epoch is on no roster installed at that epoch or
\* at any later one (configure: revoked_in_roster with revoked_shrink).
RevocationIsFinal ==
  \A j, l \in 1 .. Len(adminLog) :
    j <= l => RosterKeys(adminLog[l].policy) \intersect adminLog[j].revoked = {}

=============================================================================
