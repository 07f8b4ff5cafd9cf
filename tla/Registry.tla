------------------------------ MODULE Registry ------------------------------
(***************************************************************************)
(* The local registry (python/vekquorum/registry.py): policies and proofs  *)
(* registered per tenant, the newest head of each proposal, and the        *)
(* quarantine of a proposal whose head was seen in two versions.           *)
(*                                                                         *)
(* A policy is a record [tenant, id, version, content] and a proof a       *)
(* record [tenant, proposal, seq, head, valid, copy]: the checkpoint it    *)
(* carries, whether verify_proof accepts it under the pinned Trust, and    *)
(* what else tells two bundles apart.  Equality stands for equality of     *)
(* hashes.  put_proof counts the request in a transaction of its own and   *)
(* works in a second one that never looks at the count, so one action      *)
(* takes both; a process that dies between them has counted a request and  *)
(* stored nothing, like one whose proof is refused.                        *)
(***************************************************************************)
EXTENDS Integers, FiniteSets

CONSTANTS None,
          Tenants, Principals,
          RequestKeys,     \* the Idempotency-Keys of clients; None is not one
          Policies,        \* the well-formed policies clients may put
          Proofs,          \* the well-formed proofs clients may put
          Trust,           \* None, or [tenant, policies]: the pinned Trust
          Minutes,         \* readings of the registry's clock, in minutes
          WriteLimit,      \* limits["writes_per_minute"]
          VerifyLimit      \* limits["verify_per_minute"]

VARIABLES process,   \* "down", "up", or "refused" when the file cannot be opened
          tables,    \* the file holds the tables of SCHEMA
          policies,  \* rows of policies
          bundles,   \* registered_ms of each stored bundle, None if not stored
          heads,     \* row of heads by (tenant, proposal)
          conflicts, \* rows of conflicts: [tenant, proposal, left, right]
          requests,  \* rows of requests: [slot, body, response]
          buckets,   \* count by (tenant, route, minute)
          answers    \* what callers with a key were told

rows == <<policies, bundles, heads, conflicts, requests, buckets>>
vars == <<process, tables, policies, bundles, heads, conflicts, requests,
          buckets, answers>>

Proposals == {b.proposal : b \in Proofs}
Scopes == Tenants \X Proposals
Scope(b) == <<b.tenant, b.proposal>>
Routes == {"put_proof", "verify"}
Slots == Tenants \X Principals \X {"put_policy", "put_proof"} \X RequestKeys

Heads == [seq : Nat, head : {b.head : b \in Proofs}, bundle : Proofs,
          quarantined : BOOLEAN]
Checkpoint(b) == [proposal |-> b.proposal, seq |-> b.seq, head |-> b.head]
Checkpoints == {Checkpoint(b) : b \in Proofs}
Conflicts == [tenant : Tenants, proposal : Proposals,
              left : Checkpoints, right : Checkpoints]

ASSUME RegistryAssumption ==
  /\ \A b \in Proofs : b.tenant \in Tenants /\ b.seq \in Nat /\ b.valid \in BOOLEAN
  /\ \A p \in Policies : p.tenant \in Tenants
  /\ None \notin RequestKeys /\ None \notin Minutes /\ None \notin Heads
  /\ WriteLimit \in Nat /\ VerifyLimit \in Nat

-----------------------------------------------------------------------------
(* LocalRegistry.__init__ and close.  SCHEMA creates its tables without IF *)
(* NOT EXISTS, so the constructor fails on a file that has them.           *)

Init ==
  /\ process = "down"
  /\ tables = FALSE
  /\ policies = {}
  /\ bundles = [b \in Proofs |-> None]
  /\ heads = [s \in Scopes |-> None]
  /\ conflicts = {}
  /\ requests = {}
  /\ buckets = [x \in Tenants \X Routes \X Minutes |-> 0]
  /\ answers = {}

Open ==
  /\ process # "up"
  /\ process' = IF tables THEN "refused" ELSE "up"
  /\ tables' = TRUE
  /\ UNCHANGED <<rows, answers>>

\* close, or the death of the process between two transactions.
Exit ==
  /\ process = "up"
  /\ process' = "down"
  /\ UNCHANGED <<tables, rows, answers>>

-----------------------------------------------------------------------------
(* Rate limiting: a bucket per tenant, route and minute.                   *)

\* Fault: the request that reaches the limit is let through.
AtMostLimit(t, route, m, limit) == buckets[<<t, route, m>>] <= limit
Admitted(t, route, m, limit) == buckets[<<t, route, m>>] < limit

Count(t, route, m) == buckets' = [buckets EXCEPT ![<<t, route, m>>] = @ + 1]

\* The Trust must be that of the tenant before a proof is looked at.
TrustsTenant(t) == Trust # None /\ Trust.tenant = t

-----------------------------------------------------------------------------
(* Idempotency-Keys.  A keyed request is answered from its row when it has *)
(* one; the row is written with the request's own effects.                 *)

Stored(slot) == \E r \in requests : r.slot = slot

\* Fault: a key is honoured whatever the request's body.
AnyBody(r, body) == TRUE
SameBody(r, body) == r.body = body

Answer(slot, body, how, response) ==
  answers' = IF slot \in Slots
             THEN answers \union {[slot |-> slot, body |-> body, how |-> how,
                                   response |-> response]}
             ELSE answers

\* The stored response is returned, whatever way it was given first; another
\* body under the key is an IDEMPOTENCY_CONFLICT.
Replay(slot, body) ==
  /\ \E r \in requests :
       /\ r.slot = slot
       /\ IF SameBody(r, body)
          THEN Answer(slot, body, "returned", r.response)
          ELSE UNCHANGED answers
  /\ UNCHANGED <<policies, bundles, heads, conflicts, requests>>

Record(slot, body, how, response) ==
  /\ requests' = IF slot \in Slots
                 THEN requests \union
                        {[slot |-> slot, body |-> body, response |-> response]}
                 ELSE requests
  /\ Answer(slot, body, how, response)

Refuse == UNCHANGED <<policies, bundles, heads, conflicts, requests, answers>>

-----------------------------------------------------------------------------
(* put_policy                                                              *)

VersionTaken(p) ==
  \E q \in policies : /\ q.tenant = p.tenant /\ q.id = p.id
                      /\ q.version = p.version /\ q # p

Allowlisted(p) == Trust = None \/ p \in Trust.policies

PutPolicy(t, u, key, p) ==
  LET slot == <<t, u, "put_policy", key>> IN
  /\ process = "up"
  /\ \/ p.tenant # t /\ Refuse
     \/ p.tenant = t /\ Replay(slot, p)
     \/ /\ p.tenant = t /\ ~Stored(slot)
        /\ VersionTaken(p) \/ ~Allowlisted(p)
        /\ Refuse
     \/ /\ p.tenant = t /\ ~Stored(slot)
        /\ ~VersionTaken(p) /\ Allowlisted(p)
        /\ policies' = policies \union {p}
        /\ Record(slot, p, "returned", [policy |-> p, registered |-> p \notin policies])
        /\ UNCHANGED <<bundles, heads, conflicts>>
  /\ UNCHANGED <<process, tables, buckets>>

-----------------------------------------------------------------------------
(* put_proof                                                               *)

Equivocates(b) ==
  LET h == heads[Scope(b)] IN h # None /\ b.seq = h.seq /\ b.head # h.head

\* Fault: the head follows every accepted proof.
FollowsAll(b) == heads[Scope(b)] = None \/ ~heads[Scope(b)].quarantined
\* Fault: a quarantined proposal goes on advancing.
AdvancesAnyway(b) == heads[Scope(b)] = None \/ b.seq > heads[Scope(b)].seq
Advances(b) ==
  \/ heads[Scope(b)] = None
  \/ b.seq > heads[Scope(b)].seq /\ ~heads[Scope(b)].quarantined

\* INSERT OR IGNORE: a bundle stored before keeps its first registration.
StoreBundle(b, m) == bundles' = [bundles EXCEPT ![b] = IF @ = None THEN m ELSE @]

\* Fault: the conflict is reported but the head is left in good standing.
MarkNothing(b) == heads
Quarantine(b) == [heads EXCEPT ![Scope(b)].quarantined = TRUE]

\* Fault: the head's bundle is not found, or the newcomer is kept twice.
LeftLost(b) == None
RightTwice(b) == Checkpoint(b)
LeftCheckpoint(b) == Checkpoint(heads[Scope(b)].bundle)

\* Both checkpoints are retained and the error is the stored response.
Equivocation(slot, b) ==
  /\ Equivocates(b)
  /\ conflicts' = conflicts \union
       {[tenant |-> b.tenant, proposal |-> b.proposal,
         left |-> LeftCheckpoint(b), right |-> Checkpoint(b)]}
  /\ heads' = Quarantine(b)
  /\ Record(slot, b, "raised", [error |-> "EQUIVOCATION", seq |-> b.seq])

\* The head follows a longer chain; the answer names the head in force.
Registration(slot, b) ==
  /\ ~Equivocates(b)
  /\ heads' = IF Advances(b)
              THEN [heads EXCEPT ![Scope(b)] =
                      [seq |-> b.seq, head |-> b.head, bundle |-> b,
                       quarantined |-> FALSE]]
              ELSE heads
  /\ Record(slot, b, "returned",
            [bundle |-> b, seq |-> heads'[Scope(b)].seq, head |-> heads'[Scope(b)].head])
  /\ UNCHANGED conflicts

Acceptable(t, b) == TrustsTenant(t) /\ b.tenant = t /\ b.valid

PutProof(t, u, key, b, m) ==
  LET slot == <<t, u, "put_proof", key>> IN
  /\ process = "up"
  /\ Admitted(t, "put_proof", m, WriteLimit)
  /\ Count(t, "put_proof", m)
  /\ \/ ~Acceptable(t, b) /\ Refuse
     \/ Acceptable(t, b) /\ Replay(slot, b)
     \/ /\ Acceptable(t, b) /\ ~Stored(slot)
        /\ StoreBundle(b, m)
        /\ Equivocation(slot, b) \/ Registration(slot, b)
        /\ UNCHANGED policies
  /\ UNCHANGED <<process, tables>>

\* verify counts the request before it looks at the Trust, and keeps nothing.
VerifyProof(t, m) ==
  /\ process = "up"
  /\ Admitted(t, "verify", m, VerifyLimit)
  /\ Count(t, "verify", m)
  /\ UNCHANGED <<process, tables, policies, bundles, heads, conflicts, requests,
                 answers>>

-----------------------------------------------------------------------------
Next ==
  \/ Open
  \/ Exit
  \/ \E t \in Tenants, u \in Principals, key \in RequestKeys \union {None},
        p \in Policies : PutPolicy(t, u, key, p)
  \/ \E t \in Tenants, u \in Principals, key \in RequestKeys \union {None},
        b \in Proofs, m \in Minutes : PutProof(t, u, key, b, m)
  \/ \E t \in Tenants, m \in Minutes : VerifyProof(t, m)

Spec == Init /\ [][Next]_vars

-----------------------------------------------------------------------------
(* Types: what each table may hold.                                        *)
TypeOK ==
  /\ process \in {"down", "up", "refused"}
  /\ tables \in BOOLEAN
  /\ policies \subseteq Policies
  /\ bundles \in [Proofs -> Minutes \union {None}]
  /\ heads \in [Scopes -> Heads \union {None}]
  /\ conflicts \subseteq Conflicts
  /\ \A r \in requests : r.slot \in Slots
  /\ buckets \in [Tenants \X Routes \X Minutes -> Nat]

StoredBundles(s) == {b \in Proofs : bundles[b] # None /\ Scope(b) = s}

\* The head of a proposal is that of a stored bundle, and while the proposal
\* is in good standing no stored bundle of it is longer (put_proof stores
\* every accepted bundle but moves the head only forwards).
HeadIsNewest ==
  \A s \in Scopes : heads[s] # None =>
    /\ heads[s].bundle \in StoredBundles(s)
    /\ Checkpoint(heads[s].bundle) =
         [proposal |-> s[2], seq |-> heads[s].seq, head |-> heads[s].head]
    /\ ~heads[s].quarantined => \A b \in StoredBundles(s) : b.seq <= heads[s].seq

\* Two stored bundles that disagree at the head of a proposal quarantine it,
\* in whatever order they and their retries arrived.
HeadForksQuarantined ==
  \A s \in Scopes : heads[s] # None =>
    \A b \in StoredBundles(s) :
      b.seq = heads[s].seq /\ b.head # heads[s].head => heads[s].quarantined

\* A quarantine can be justified: a retained pair of checkpoints at the head
\* disagrees, and both sides are stored bundles of the proposal.
QuarantineJustified ==
  \A s \in Scopes : heads[s] # None /\ heads[s].quarantined =>
    \E c \in conflicts :
      /\ <<c.tenant, c.proposal>> = s
      /\ c.left.seq = heads[s].seq /\ c.right.seq = heads[s].seq
      /\ c.left.head # c.right.head
      /\ {c.left, c.right} \subseteq {Checkpoint(b) : b \in StoredBundles(s)}

\* No minute registers more new bundles of a tenant than the limit admits,
\* although refused and replayed requests are counted against it as well.
RegistrationsBounded ==
  \A t \in Tenants, m \in Minutes :
    Cardinality({b \in Proofs : b.tenant = t /\ bundles[b] = m}) <= WriteLimit

\* One key, one request, one response: a client that retries is told what it
\* was told first, even when heads have moved since.
OneResponsePerKey ==
  \A x, y \in answers : x.slot = y.slot => x.body = y.body /\ x.response = y.response

\* A quarantined head is frozen, and no head goes backwards or disappears.
HeadsOnlyAdvance ==
  [][\A s \in Scopes : heads[s] # None =>
       /\ heads'[s] # None
       /\ heads[s].quarantined => heads'[s] = heads[s]
       /\ \/ heads'[s].seq > heads[s].seq
          \/ heads'[s].seq = heads[s].seq /\ heads'[s].head = heads[s].head]_vars

\* An operator's store can be opened again by the next command, which applies
\* the same rules to it (cli.py cmd_registry, registry.py's introduction).
StoreReopens == process # "refused"

\* A retry has the outcome of the first request: an EQUIVOCATION is an error
\* both times (the conformance vector TV-V--46).
OneOutcomePerKey ==
  \A x, y \in answers : x.slot = y.slot => x.how = y.how
=============================================================================
