--------------------------- MODULE EvidenceProofs ---------------------------
(***************************************************************************)
(* What third parties hold of a ceremony, for all tenants, proofs, lives   *)
(* of the journal and mishaps on the way.  What a proof says when it is    *)
(* replayed is in BundleProofs.                                            *)
(*                                                                         *)
(* The registry: heads only advance, name the newest stored bundle, and    *)
(* two versions of a head quarantine the proposal with the evidence kept;  *)
(* what a minute registers was charged to its bucket (WritesCharged).      *)
(* Proofs: receipt ids never repeat, so one of them stands for an event    *)
(* and for all events before it in every life of the journal (HistoryInv); *)
(* from there on, checkpoints do not fork when the newest head hash is     *)
(* kept, and a proof that verifies shows the events of one life.           *)
(*                                                                         *)
(* The tally: what a list counts is unrolled as the replay is; the state   *)
(* of the ceremony is what its retained votes ask for (TallyInv), so the   *)
(* three counters agree, and distinct public keys lead from the votes that *)
(* count to as many private keys.                                          *)
(***************************************************************************)
EXTENDS Evidence, TLAPS, NaturalsInduction, WellFoundedInduction, FiniteSetTheorems

-----------------------------------------------------------------------------
(* The registry.                                                           *)

LEMMA HeadFields ==
  ASSUME NEW h \in Heads
  PROVE  /\ h.seq \in Nat /\ h.bundle \in Proofs /\ h.quarantined \in BOOLEAN
         /\ h # None
BY RegistryAssumption DEF Heads

LEMMA ProofFields ==
  ASSUME NEW b \in Proofs
  PROVE  /\ b.seq \in Nat /\ b.tenant \in Tenants /\ b.proposal \in Proposals
         /\ Scope(b) \in Scopes /\ Scope(b) = <<b.tenant, b.proposal>>
         /\ Checkpoint(b) \in Checkpoints
         /\ Checkpoint(b).proposal = b.proposal
         /\ Checkpoint(b).seq = b.seq /\ Checkpoint(b).head = b.head
BY RegistryAssumption DEF Proposals, Scopes, Scope, Checkpoint, Checkpoints

\* A head made from an accepted proof is a row of heads, in good standing.
LEMMA FreshHead ==
  ASSUME NEW b \in Proofs
  PROVE  LET h == [seq |-> b.seq, head |-> b.head, bundle |-> b,
                   quarantined |-> FALSE]
         IN h \in Heads
BY ProofFields DEF Heads

\* The rows the head invariants read do not change under any other step.
StoredTypes ==
  /\ bundles \in [Proofs -> Minutes \union {None}]
  /\ heads \in [Scopes -> Heads \union {None}]
  /\ conflicts \subseteq Conflicts

ReadRows == <<bundles, heads, conflicts>>

\* The part of an accepted put_proof that touches bundles, heads, conflicts.
Accept(b, m) ==
  /\ StoreBundle(b, m)
  /\ \/ /\ Equivocates(b)
        /\ conflicts' = conflicts \union
             {[tenant |-> b.tenant, proposal |-> b.proposal,
               left |-> LeftCheckpoint(b), right |-> Checkpoint(b)]}
        /\ heads' = Quarantine(b)
     \/ /\ ~Equivocates(b)
        /\ heads' = IF Advances(b)
                    THEN [heads EXCEPT ![Scope(b)] =
                            [seq |-> b.seq, head |-> b.head, bundle |-> b,
                             quarantined |-> FALSE]]
                    ELSE heads
        /\ UNCHANGED conflicts

\* Every step either leaves the three tables alone or accepts one proof.
LEMMA StepSplit ==
  ASSUME [Next]_vars
  PROVE  \/ UNCHANGED ReadRows
         \/ \E b \in Proofs, m \in Minutes : Accept(b, m)
<1>1. CASE Open BY <1>1 DEF Open, ReadRows, rows
<1>2. CASE Exit BY <1>2 DEF Exit, ReadRows, rows
<1>3. ASSUME NEW t \in Tenants, NEW u \in Principals,
             NEW key \in RequestKeys \union {None}, NEW p \in Policies,
             PutPolicy(t, u, key, p)
      PROVE  UNCHANGED ReadRows
  BY <1>3 DEF PutPolicy, Refuse, Replay, ReadRows
<1>4. ASSUME NEW t \in Tenants, NEW u \in Principals,
             NEW key \in RequestKeys \union {None}, NEW b \in Proofs,
             NEW m \in Minutes, PutProof(t, u, key, b, m)
      PROVE  UNCHANGED ReadRows \/ Accept(b, m)
  BY <1>4 DEF PutProof, Refuse, Replay, ReadRows, Accept, Equivocation, Registration
<1>5. ASSUME NEW t \in Tenants, NEW m \in Minutes, VerifyProof(t, m)
      PROVE  UNCHANGED ReadRows
  BY <1>5 DEF VerifyProof, ReadRows
<1>6. CASE UNCHANGED vars BY <1>6 DEF vars, ReadRows
<1> QED BY <1>1, <1>2, <1>3, <1>4, <1>5, <1>6 DEF Next

\* Types of the three tables, and of a stored bundle, after an accepted proof.
LEMMA AcceptTypes ==
  ASSUME StoredTypes, HeadIsNewest, NEW b \in Proofs, NEW m \in Minutes, Accept(b, m)
  PROVE  /\ StoredTypes'
         /\ bundles'[b] # None
         /\ \A c \in Proofs : c # b => bundles'[c] = bundles[c]
         /\ \A s \in Scopes : s # Scope(b) => heads'[s] = heads[s]
<1>1. /\ bundles' \in [Proofs -> Minutes \union {None}] /\ bundles'[b] # None
      /\ \A c \in Proofs : c # b => bundles'[c] = bundles[c]
  BY RegistryAssumption DEF StoredTypes, Accept, StoreBundle
<1>2. CASE Equivocates(b)
  <2>1. heads[Scope(b)] \in Heads
    BY <1>2, ProofFields DEF Equivocates, StoredTypes
  <2>2. [heads[Scope(b)] EXCEPT !.quarantined = TRUE] \in Heads
    BY <2>1 DEF Heads
  <2>3. heads' \in [Scopes -> Heads \union {None}]
        /\ \A s \in Scopes : s # Scope(b) => heads'[s] = heads[s]
    BY <1>2, <2>2, ProofFields DEF Accept, Quarantine, StoredTypes
  <2>4. LeftCheckpoint(b) \in Checkpoints
    BY <2>1, HeadFields, ProofFields DEF LeftCheckpoint
  <2>5. conflicts' \subseteq Conflicts
    BY <1>2, <2>4, ProofFields DEF Accept, Conflicts, StoredTypes
  <2> QED BY <1>1, <2>3, <2>5 DEF StoredTypes
<1>3. CASE ~Equivocates(b)
  BY <1>1, <1>3, FreshHead, ProofFields DEF Accept, StoredTypes
<1> QED BY <1>2, <1>3

\* The rows of one proposal, as the head invariants relate them.
ScopeOK(s) ==
  heads[s] # None =>
    /\ heads[s].bundle \in StoredBundles(s)
    /\ Checkpoint(heads[s].bundle) =
         [proposal |-> s[2], seq |-> heads[s].seq, head |-> heads[s].head]
    /\ ~heads[s].quarantined => \A b \in StoredBundles(s) : b.seq <= heads[s].seq
    /\ \A b \in StoredBundles(s) :
         b.seq = heads[s].seq /\ b.head # heads[s].head => heads[s].quarantined
    /\ heads[s].quarantined =>
         \E c \in conflicts :
           /\ <<c.tenant, c.proposal>> = s
           /\ c.left.seq = heads[s].seq /\ c.right.seq = heads[s].seq
           /\ c.left.head # c.right.head
           /\ {c.left, c.right} \subseteq {Checkpoint(b) : b \in StoredBundles(s)}

\* A proposal none of whose rows appeared or changed keeps its invariants.
NoNewBundle ==
  \A s \in Scopes : heads[s] = None => StoredBundles(s) = {}

RegInv == StoredTypes /\ NoNewBundle /\ \A s \in Scopes : ScopeOK(s)

LEMMA RegInvInit == Init => RegInv
BY DEF Init, RegInv, StoredTypes, NoNewBundle, ScopeOK, StoredBundles

LEMMA OtherScope ==
  ASSUME RegInv, NEW b \in Proofs, NEW m \in Minutes, Accept(b, m),
         NEW s \in Scopes, s # Scope(b)
  PROVE  ScopeOK(s)' /\ StoredBundles(s)' = StoredBundles(s) /\ heads'[s] = heads[s]
<1>0. HeadIsNewest BY DEF RegInv, HeadIsNewest, ScopeOK
<1>1. heads'[s] = heads[s] /\ \A c \in Proofs : c # b => bundles'[c] = bundles[c]
  BY <1>0, AcceptTypes DEF RegInv
<1>2. StoredBundles(s)' = StoredBundles(s)
  BY <1>1 DEF StoredBundles
<1>3. conflicts \subseteq conflicts'
  BY DEF Accept
<1>4. ScopeOK(s)
  BY DEF RegInv
<1> QED BY <1>1, <1>2, <1>3, <1>4 DEF ScopeOK

LEMMA SameScopeFork ==
  ASSUME RegInv, NEW b \in Proofs, NEW m \in Minutes, Accept(b, m), Equivocates(b)
  PROVE  ScopeOK(Scope(b))' /\ heads'[Scope(b)] # None
<1> DEFINE s == Scope(b)
           h == heads[s]
           c == [tenant |-> b.tenant, proposal |-> b.proposal,
                 left |-> LeftCheckpoint(b), right |-> Checkpoint(b)]
<1>0. HeadIsNewest BY DEF RegInv, HeadIsNewest, ScopeOK
<1>1. s \in Scopes /\ h \in Heads /\ b.seq = h.seq /\ b.head # h.head
  BY ProofFields DEF Equivocates, RegInv, StoredTypes
<1>2. heads'[s] = [h EXCEPT !.quarantined = TRUE]
  BY <1>1 DEF Accept, Quarantine, RegInv, StoredTypes
<1>3. /\ heads'[s].seq = h.seq /\ heads'[s].head = h.head
      /\ heads'[s].bundle = h.bundle /\ heads'[s].quarantined = TRUE
      /\ heads'[s] \in Heads /\ heads'[s] # None
  <2>1. heads'[s] \in Heads BY <1>1, <1>2 DEF Heads
  <2> QED BY <1>1, <1>2, <2>1, HeadFields DEF Heads
<1>4. /\ bundles'[b] # None
      /\ \A x \in Proofs : x # b => bundles'[x] = bundles[x]
  BY <1>0, AcceptTypes DEF RegInv
<1>5. StoredBundles(s)' = StoredBundles(s) \union {b}
  BY <1>4 DEF StoredBundles
<1>6. /\ h.bundle \in StoredBundles(s)
      /\ Checkpoint(h.bundle) = [proposal |-> s[2], seq |-> h.seq, head |-> h.head]
  BY <1>1, HeadFields DEF RegInv, ScopeOK
<1>7. c \in conflicts'
  BY DEF Accept
<1>8. /\ <<c.tenant, c.proposal>> = s
      /\ c.left = Checkpoint(h.bundle) /\ c.right = Checkpoint(b)
  BY ProofFields DEF LeftCheckpoint
<1>9. /\ c.left.seq = h.seq /\ c.left.head = h.head
      /\ c.right.seq = h.seq /\ c.right.head = b.head
  BY <1>1, <1>6, <1>8, ProofFields
<1>10. {c.left, c.right} \subseteq {Checkpoint(x) : x \in StoredBundles(s)'}
  BY <1>5, <1>6, <1>8
<1> HIDE DEF c, h, s
<1>11. \E d \in conflicts' :
          /\ <<d.tenant, d.proposal>> = s
          /\ d.left.seq = heads'[s].seq /\ d.right.seq = heads'[s].seq
          /\ d.left.head # d.right.head
          /\ {d.left, d.right} \subseteq {Checkpoint(x) : x \in StoredBundles(s)'}
  BY <1>1, <1>3, <1>7, <1>8, <1>9, <1>10
<1>12. ScopeOK(s)'
  BY <1>3, <1>5, <1>6, <1>11 DEF ScopeOK
<1> QED BY <1>3, <1>12 DEF s

LEMMA SameScopeRegistration ==
  ASSUME RegInv, NEW b \in Proofs, NEW m \in Minutes, Accept(b, m), ~Equivocates(b)
  PROVE  ScopeOK(Scope(b))' /\ heads'[Scope(b)] # None
<1> DEFINE s == Scope(b)
           h == heads[s]
<1>0. HeadIsNewest BY DEF RegInv, HeadIsNewest, ScopeOK
<1>1. s \in Scopes /\ h \in Heads \union {None}
  BY ProofFields DEF RegInv, StoredTypes
<1>2. /\ bundles'[b] # None
      /\ \A x \in Proofs : x # b => bundles'[x] = bundles[x]
  BY <1>0, AcceptTypes DEF RegInv
<1>3. StoredBundles(s)' = StoredBundles(s) \union {b}
  BY <1>2 DEF StoredBundles
<1>4. conflicts' = conflicts /\ ScopeOK(s) /\ (h = None => StoredBundles(s) = {})
  BY <1>1 DEF Accept, RegInv, NoNewBundle
<1>5. \A x \in StoredBundles(s) : x \in Proofs /\ x.seq \in Nat
  BY ProofFields DEF StoredBundles
<1>6. CASE Advances(b)
  <2> DEFINE f == [seq |-> b.seq, head |-> b.head, bundle |-> b, quarantined |-> FALSE]
  <2>1. heads'[s] = f
    BY <1>1, <1>6 DEF Accept, RegInv, StoredTypes
  <2>2. f # None
    BY FreshHead, HeadFields
  <2>3. Checkpoint(b) = [proposal |-> s[2], seq |-> b.seq, head |-> b.head]
    BY ProofFields DEF Checkpoint
  <2>4. \A x \in StoredBundles(s) : x.seq < b.seq
    <3>1. CASE h = None BY <3>1, <1>4
    <3>2. CASE h # None
      <4>1. b.seq > h.seq /\ ~h.quarantined
        BY <1>6, <3>2 DEF Advances
      <4>2. \A x \in StoredBundles(s) : x.seq <= h.seq
        BY <1>4, <3>2, <4>1 DEF ScopeOK
      <4> QED BY <1>1, <1>5, <3>2, <4>1, <4>2, ProofFields, HeadFields
    <3> QED BY <3>1, <3>2
  <2>5. \A x \in StoredBundles(s)' : x.seq <= b.seq /\ (x.seq = b.seq => x = b)
    BY <1>3, <1>5, <2>4, ProofFields
  <2>6. ScopeOK(s)'
    BY <1>3, <2>1, <2>2, <2>3, <2>5 DEF ScopeOK
  <2> QED BY <2>1, <2>2, <2>6
<1>7. CASE ~Advances(b)
  <2>1. heads'[s] = h /\ h # None /\ h \in Heads
    BY <1>1, <1>7 DEF Accept, Advances
  <2>2. h.quarantined \/ b.seq <= h.seq
    BY <1>7, <2>1, ProofFields, HeadFields DEF Advances
  <2>3. b.seq = h.seq => b.head = h.head
    BY <2>1 DEF Equivocates
  <2>4. ScopeOK(s)'
    BY <1>3, <1>4, <2>1, <2>2, <2>3 DEF ScopeOK
  <2> QED BY <2>1, <2>4
<1> QED BY <1>6, <1>7

LEMMA RegInvStep == RegInv /\ [Next]_vars => RegInv'
<1> SUFFICES ASSUME RegInv, [Next]_vars PROVE RegInv'
  OBVIOUS
<1>1. CASE UNCHANGED ReadRows
  BY <1>1 DEF ReadRows, RegInv, StoredTypes, NoNewBundle, ScopeOK, StoredBundles
<1>2. ASSUME NEW b \in Proofs, NEW m \in Minutes, Accept(b, m)
      PROVE  RegInv'
  <2>1. StoredTypes'
    <3>1. HeadIsNewest BY DEF RegInv, HeadIsNewest, ScopeOK
    <3> QED BY <1>2, <3>1, AcceptTypes DEF RegInv
  <2>2. ScopeOK(Scope(b))' /\ heads'[Scope(b)] # None
    BY <1>2, SameScopeFork, SameScopeRegistration
  <2>3. ASSUME NEW s \in Scopes
        PROVE  ScopeOK(s)' /\ (heads'[s] = None => StoredBundles(s)' = {})
    <3>1. CASE s = Scope(b) BY <2>2, <3>1
    <3>2. CASE s # Scope(b) BY <1>2, <3>2, OtherScope DEF RegInv, NoNewBundle
    <3> QED BY <3>1, <3>2
  <2> QED BY <2>1, <2>3 DEF RegInv, NoNewBundle
<1> QED BY <1>1, <1>2, StepSplit

LEMMA RegInvAlways == Spec => []RegInv
BY RegInvInit, RegInvStep, PTL DEF Spec

\* The head of every proposal is that of its newest stored bundle, or frozen
\* by a quarantine.
THEOREM HeadIsNewestAlways == Spec => []HeadIsNewest
<1>1. RegInv => HeadIsNewest BY DEF RegInv, HeadIsNewest, ScopeOK
<1> QED BY <1>1, RegInvAlways, PTL

\* No order of registrations hides a fork at the head.
THEOREM ForksQuarantined == Spec => []HeadForksQuarantined
<1>1. RegInv => HeadForksQuarantined BY DEF RegInv, HeadForksQuarantined, ScopeOK
<1> QED BY <1>1, RegInvAlways, PTL

\* Every quarantine rests on two retained, conflicting checkpoints.
THEOREM QuarantinesJustified == Spec => []QuarantineJustified
<1>1. RegInv => QuarantineJustified BY DEF RegInv, QuarantineJustified, ScopeOK
<1> QED BY <1>1, RegInvAlways, PTL

\* A head that is quarantined never moves, and none ever goes back.
THEOREM HeadsAdvance == Spec => HeadsOnlyAdvance
<1> DEFINE Advance == \A s \in Scopes : heads[s] # None =>
       /\ heads'[s] # None
       /\ heads[s].quarantined => heads'[s] = heads[s]
       /\ \/ heads'[s].seq > heads[s].seq
          \/ heads'[s].seq = heads[s].seq /\ heads'[s].head = heads[s].head
<1>1. ASSUME RegInv, [Next]_vars, NEW s \in Scopes, heads[s] # None
      PROVE  /\ heads'[s] # None
             /\ heads[s].quarantined => heads'[s] = heads[s]
             /\ \/ heads'[s].seq > heads[s].seq
                \/ heads'[s].seq = heads[s].seq /\ heads'[s].head = heads[s].head
  <2>1. CASE UNCHANGED ReadRows BY <1>1, <2>1 DEF ReadRows
  <2>2. ASSUME NEW b \in Proofs, NEW m \in Minutes, Accept(b, m), s # Scope(b)
        PROVE  heads'[s] = heads[s]
    BY <1>1, <2>2, OtherScope
  <2>3. ASSUME NEW b \in Proofs, NEW m \in Minutes, Accept(b, m), s = Scope(b)
        PROVE  /\ heads'[s] # None
               /\ heads[s].quarantined => heads'[s] = heads[s]
               /\ \/ heads'[s].seq > heads[s].seq
                  \/ heads'[s].seq = heads[s].seq /\ heads'[s].head = heads[s].head
    <3>1. heads'[s] # None
      BY <1>1, <2>3, SameScopeFork, SameScopeRegistration
    <3>2. heads[s] \in Heads /\ heads \in [Scopes -> Heads \union {None}]
      BY <1>1 DEF RegInv, StoredTypes
    <3>3. CASE Equivocates(b)
      <4>1. heads'[s] = [heads[s] EXCEPT !.quarantined = TRUE]
        BY <2>3, <3>2, <3>3 DEF Accept, Quarantine
      <4> QED BY <3>1, <3>2, <4>1 DEF Heads
    <3>4. CASE ~Equivocates(b)
      BY <1>1, <2>3, <3>1, <3>2, <3>4, ProofFields, HeadFields DEF Accept, Advances
    <3> QED BY <3>3, <3>4
  <2> QED BY <1>1, <2>1, <2>2, <2>3, StepSplit
<1>2. RegInv /\ [Next]_vars => [Advance]_vars
  BY <1>1
<1> QED BY <1>2, RegInvAlways, PTL DEF Spec, HeadsOnlyAdvance

-----------------------------------------------------------------------------
\* Every answer given under a key is the one stored row of its slot.
AnswersStored ==
  /\ \A r, q \in requests : r.slot = q.slot => r = q
  /\ \A x \in answers : \E r \in requests :
       r.slot = x.slot /\ r.body = x.body /\ r.response = x.response

LEMMA ReplayStored ==
  ASSUME AnswersStored, NEW slot, NEW body, Replay(slot, body)
  PROVE  AnswersStored'
BY DEF Replay, Answer, AnswersStored, SameBody

LEMMA RecordStored ==
  ASSUME AnswersStored, NEW slot, NEW body, NEW how, NEW response,
         ~Stored(slot), Record(slot, body, how, response)
  PROVE  AnswersStored'
<1>1. CASE slot \in Slots
  <2> DEFINE new == [slot |-> slot, body |-> body, response |-> response]
             x == [slot |-> slot, body |-> body, how |-> how, response |-> response]
  <2>1. requests' = requests \union {new} /\ answers' = answers \union {x}
    BY <1>1 DEF Record, Answer
  <2>2. \A r \in requests : r.slot # new.slot
    BY DEF Stored
  <2>3. new.slot = x.slot /\ new.body = x.body /\ new.response = x.response
    OBVIOUS
  <2> HIDE DEF new, x
  <2> QED BY <2>1, <2>2, <2>3 DEF AnswersStored
<1>2. CASE slot \notin Slots
  BY <1>2 DEF Record, Answer, AnswersStored
<1> QED BY <1>1, <1>2

LEMMA AnswersStep == AnswersStored /\ [Next]_vars => AnswersStored'
<1> SUFFICES ASSUME AnswersStored, [Next]_vars PROVE AnswersStored'
  OBVIOUS
<1>1. CASE UNCHANGED <<requests, answers>>
  BY <1>1 DEF AnswersStored
<1>2. ASSUME NEW t \in Tenants, NEW u \in Principals,
             NEW key \in RequestKeys \union {None}, NEW p \in Policies,
             PutPolicy(t, u, key, p)
      PROVE  AnswersStored'
  BY <1>1, <1>2, ReplayStored, RecordStored DEF PutPolicy, Refuse
<1>3. ASSUME NEW t \in Tenants, NEW u \in Principals,
             NEW key \in RequestKeys \union {None}, NEW b \in Proofs,
             NEW m \in Minutes, PutProof(t, u, key, b, m)
      PROVE  AnswersStored'
  BY <1>1, <1>3, ReplayStored, RecordStored
     DEF PutProof, Refuse, Equivocation, Registration
<1> QED BY <1>1, <1>2, <1>3 DEF Next, Open, Exit, VerifyProof, vars, rows

\* A client that retries under its key is told what it was told first.
THEOREM ResponsesStable == Spec => []OneResponsePerKey
<1>1. Init => AnswersStored BY DEF Init, AnswersStored
<1>2. AnswersStored => OneResponsePerKey
  BY DEF AnswersStored, OneResponsePerKey
<1> QED BY <1>1, <1>2, AnswersStep, PTL DEF Spec

-----------------------------------------------------------------------------
(* The write limit.                                                        *)

\* What a minute registered of a tenant was charged to the minute's bucket, with
\* whatever else was asked in it.
RegisteredIn(t, m) == {b \in Proofs : b.tenant = t /\ bundles[b] = m}

WritesCharged ==
  /\ buckets \in [Tenants \X Routes \X Minutes -> Nat]
  /\ \A t \in Tenants, m \in Minutes :
       /\ IsFiniteSet(RegisteredIn(t, m))
       /\ Cardinality(RegisteredIn(t, m)) <= buckets[<<t, "put_proof", m>>]
       /\ buckets[<<t, "put_proof", m>>] <= WriteLimit

RegistryKept ==
  /\ process \in {"down", "up", "refused"} /\ tables \in BOOLEAN
  /\ policies \subseteq Policies
  /\ \A r \in requests : r.slot \in Slots

\* A request that stores a bundle charges its minute; no step takes a charge back.
LEMMA ChargeStep ==
  ASSUME RegInv, WritesCharged, [Next]_vars
  PROVE  WritesCharged'
<1>1. CASE UNCHANGED <<bundles, buckets>>
  BY <1>1 DEF WritesCharged, RegisteredIn
<1>2. ASSUME NEW t \in Tenants, NEW route \in Routes, NEW m \in Minutes,
             Count(t, route, m)
      PROVE  /\ buckets' \in [Tenants \X Routes \X Minutes -> Nat]
             /\ buckets'[<<t, route, m>>] = buckets[<<t, route, m>>] + 1
             /\ \A x \in Tenants \X Routes \X Minutes :
                  x # <<t, route, m>> => buckets'[x] = buckets[x]
  BY <1>2 DEF Count, WritesCharged
<1>3. ASSUME NEW t \in Tenants, NEW m \in Minutes, VerifyProof(t, m)
      PROVE  WritesCharged'
  <2>1. Count(t, "verify", m) /\ "verify" \in Routes /\ "put_proof" \in Routes
    BY <1>3 DEF VerifyProof, Routes
  <2>2. ASSUME NEW u \in Tenants, NEW n \in Minutes
        PROVE  /\ buckets'[<<u, "put_proof", n>>] = buckets[<<u, "put_proof", n>>]
               /\ RegisteredIn(u, n)' = RegisteredIn(u, n)
    <3>1. <<u, "put_proof", n>> # <<t, "verify", m>> OBVIOUS
    <3>2. UNCHANGED bundles BY <1>3 DEF VerifyProof
    <3> QED BY <1>2, <2>1, <3>1, <3>2 DEF RegisteredIn
  <2>3. buckets' \in [Tenants \X Routes \X Minutes -> Nat]
    BY <1>2, <2>1
  <2> QED BY <2>2, <2>3 DEF WritesCharged
<1>4. ASSUME NEW t \in Tenants, NEW u \in Principals,
             NEW key \in RequestKeys \union {None}, NEW b \in Proofs, NEW m \in Minutes,
             PutProof(t, u, key, b, m)
      PROVE  WritesCharged'
  <2>1. /\ Count(t, "put_proof", m) /\ "put_proof" \in Routes
        /\ buckets[<<t, "put_proof", m>>] < WriteLimit
    BY <1>4 DEF PutProof, Admitted, Routes
  <2>2. UNCHANGED bundles \/ (b.tenant = t /\ StoreBundle(b, m))
    BY <1>4 DEF PutProof, Refuse, Replay, Acceptable
  <2>3. ASSUME NEW v \in Tenants, NEW n \in Minutes
        PROVE  /\ RegisteredIn(v, n) \subseteq RegisteredIn(v, n)'
               /\ RegisteredIn(v, n)' \subseteq RegisteredIn(v, n) \union {b}
               /\ v # t \/ n # m => RegisteredIn(v, n)' = RegisteredIn(v, n)
    <3>1. CASE UNCHANGED bundles BY <3>1 DEF RegisteredIn
    <3>2. CASE b.tenant = t /\ StoreBundle(b, m)
      <4>1. None \notin Minutes BY RegistryAssumption
      <4>2. \A c \in Proofs :
              bundles'[c] = IF c = b /\ bundles[c] = None THEN m ELSE bundles[c]
        BY <3>2 DEF StoreBundle, RegInv, StoredTypes
      <4> QED BY <3>2, <4>1, <4>2 DEF RegisteredIn
    <3> QED BY <2>2, <3>1, <3>2
  <2>4. ASSUME NEW v \in Tenants, NEW n \in Minutes
        PROVE  /\ IsFiniteSet(RegisteredIn(v, n)')
               /\ Cardinality(RegisteredIn(v, n)') <= buckets'[<<v, "put_proof", n>>]
               /\ buckets'[<<v, "put_proof", n>>] <= WriteLimit
    <3> DEFINE before == RegisteredIn(v, n)
               after == RegisteredIn(v, n)'
               x == <<v, "put_proof", n>>
    <3>1. /\ IsFiniteSet(before) /\ Cardinality(before) <= buckets[x]
          /\ buckets[x] <= WriteLimit /\ buckets[x] \in Nat
      BY <2>1 DEF WritesCharged
    <3>2. CASE v # t \/ n # m
      <4>1. after = before BY <2>3, <3>2
      <4>2. buckets'[x] = buckets[x] BY <1>2, <2>1, <3>2
      <4> QED BY <3>1, <4>1, <4>2
    <3>3. CASE v = t /\ n = m
      <4>1. buckets'[x] = buckets[x] + 1 /\ buckets[x] < WriteLimit
        BY <1>2, <2>1, <3>3
      <4>2. after = before \/ after = before \union {b} BY <2>3
      <4> HIDE DEF before, after, x
      <4>3. /\ IsFiniteSet(before \union {b})
            /\ Cardinality(before \union {b}) =
                 IF b \in before THEN Cardinality(before) ELSE Cardinality(before) + 1
        BY <3>1, FS_AddElement
      <4>4. Cardinality(before) \in Nat
        BY <3>1, FS_CardinalityType
      <4>6. Cardinality(before \union {b}) <= Cardinality(before) + 1
        BY <4>3, <4>4
      <4>7. Cardinality(before) <= buckets[x] + 1 /\ buckets[x] + 1 \in Nat
        BY <3>1, <4>4
      <4>8. Cardinality(before \union {b}) \in Nat
        BY <4>3, FS_CardinalityType
      <4>9. Cardinality(before \union {b}) <= buckets[x] + 1
        BY <3>1, <4>4, <4>6, <4>7, <4>8
      <4>10. IsFiniteSet(after) /\ Cardinality(after) <= buckets[x] + 1
        <5>1. CASE after = before BY <3>1, <4>7, <5>1
        <5>2. CASE after = before \union {b} BY <4>3, <4>9, <5>2
        <5> QED BY <4>2, <5>1, <5>2
      <4>5. WriteLimit \in Nat BY RegistryAssumption
      <4> QED BY <3>1, <4>1, <4>5, <4>10 DEF before, after, x
    <3> QED BY <3>2, <3>3
  <2>5. buckets' \in [Tenants \X Routes \X Minutes -> Nat]
    BY <1>2, <2>1
  <2> QED BY <2>4, <2>5 DEF WritesCharged
<1>5. Open \/ Exit => UNCHANGED <<bundles, buckets>>
  BY DEF Open, Exit, rows
<1>6. ASSUME NEW t \in Tenants, NEW u \in Principals,
             NEW key \in RequestKeys \union {None}, NEW p \in Policies,
             PutPolicy(t, u, key, p)
      PROVE  UNCHANGED <<bundles, buckets>>
  BY <1>6 DEF PutPolicy, Refuse, Replay
<1>7. UNCHANGED vars => UNCHANGED <<bundles, buckets>>
  BY DEF vars
<1> QED BY <1>1, <1>3, <1>4, <1>5, <1>6, <1>7 DEF Next

LEMMA KeptStep ==
  ASSUME RegistryKept, [Next]_vars
  PROVE  RegistryKept'
<1> USE DEF RegistryKept
<1>1. CASE Open \/ Exit
  BY <1>1 DEF Open, Exit, rows
<1>2. ASSUME NEW slot, NEW body, NEW how, NEW response,
             Record(slot, body, how, response)
      PROVE  \A r \in requests' : r.slot \in Slots
  BY <1>2 DEF Record
<1>3. ASSUME NEW t \in Tenants, NEW u \in Principals,
             NEW key \in RequestKeys \union {None}, NEW p \in Policies,
             PutPolicy(t, u, key, p)
      PROVE  RegistryKept'
  BY <1>2, <1>3 DEF PutPolicy, Refuse, Replay
<1>4. ASSUME NEW t \in Tenants, NEW u \in Principals,
             NEW key \in RequestKeys \union {None}, NEW b \in Proofs, NEW m \in Minutes,
             PutProof(t, u, key, b, m)
      PROVE  RegistryKept'
  BY <1>2, <1>4 DEF PutProof, Refuse, Replay, Equivocation, Registration
<1>5. ASSUME NEW t \in Tenants, NEW m \in Minutes, VerifyProof(t, m)
      PROVE  RegistryKept'
  BY <1>5 DEF VerifyProof
<1>6. CASE UNCHANGED vars
  BY <1>6 DEF vars
<1> QED BY <1>1, <1>3, <1>4, <1>5, <1>6 DEF Next

LEMMA ChargeInit == Init => WritesCharged /\ RegistryKept
<1> SUFFICES ASSUME Init PROVE WritesCharged /\ RegistryKept
  OBVIOUS
<1>1. RegistryKept BY DEF Init, RegistryKept
<1>2. ASSUME NEW t \in Tenants, NEW m \in Minutes
      PROVE  /\ RegisteredIn(t, m) = {}
             /\ buckets[<<t, "put_proof", m>>] = 0
  <2>1. None \notin Minutes BY RegistryAssumption
  <2> QED BY <2>1 DEF Init, RegisteredIn, Routes
<1>3. IsFiniteSet({}) /\ Cardinality({}) = 0 /\ WriteLimit \in Nat
  BY FS_EmptySet, RegistryAssumption
<1>4. buckets \in [Tenants \X Routes \X Minutes -> Nat]
  BY DEF Init
<1>5. ASSUME NEW t \in Tenants, NEW m \in Minutes
      PROVE  /\ IsFiniteSet(RegisteredIn(t, m))
             /\ Cardinality(RegisteredIn(t, m)) <= buckets[<<t, "put_proof", m>>]
             /\ buckets[<<t, "put_proof", m>>] <= WriteLimit
  <2>1. RegisteredIn(t, m) = {} /\ buckets[<<t, "put_proof", m>>] = 0
    BY <1>2
  <2>2. Cardinality(RegisteredIn(t, m)) = 0 /\ IsFiniteSet(RegisteredIn(t, m))
    BY <1>3, <2>1
  <2>3. 0 <= WriteLimit BY <1>3
  <2> QED BY <2>1, <2>2, <2>3
<1> QED BY <1>1, <1>4, <1>5 DEF WritesCharged

\* Whatever is asked, by whom and under which key: no minute registers more new
\* bundles of a tenant than the write limit admits, since a request that stores
\* one has passed the limit and was charged with it (put_proof, _rate).
THEOREM WritesBounded == Spec => [](RegistrationsBounded /\ TypeOK)
<1> DEFINE Inv == WritesCharged /\ RegistryKept
<1>1. RegInv /\ Inv /\ [Next]_vars => Inv'
  BY ChargeStep, KeptStep
<1>2. RegInv /\ Inv => RegistrationsBounded /\ TypeOK
  <2> SUFFICES ASSUME RegInv, Inv PROVE RegistrationsBounded /\ TypeOK
    OBVIOUS
  <2>1. ASSUME NEW t \in Tenants, NEW m \in Minutes
        PROVE  Cardinality({b \in Proofs : b.tenant = t /\ bundles[b] = m}) <= WriteLimit
    <3>1. /\ Cardinality(RegisteredIn(t, m)) <= buckets[<<t, "put_proof", m>>]
          /\ buckets[<<t, "put_proof", m>>] <= WriteLimit
          /\ buckets[<<t, "put_proof", m>>] \in Nat
          /\ Cardinality(RegisteredIn(t, m)) \in Nat /\ WriteLimit \in Nat
      BY RegistryAssumption, FS_CardinalityType DEF WritesCharged, Routes
    <3> QED BY <3>1 DEF RegisteredIn
  <2>2. TypeOK
    BY DEF TypeOK, RegInv, StoredTypes, WritesCharged, RegistryKept
  <2> QED BY <2>1, <2>2 DEF RegistrationsBounded
<1>3. Init => Inv
  BY ChargeInit
<1> HIDE DEF Inv
<1> QED BY <1>1, <1>2, <1>3, RegInvAlways, PTL DEF Spec

-----------------------------------------------------------------------------
(* Exported proofs.                                                        *)

\* What the issuer writes about a proposal.
EventData ==
  {Bundle!Proposed, Bundle!Refused, Bundle!CommitData,
   Bundle!Data("Canceled")}
  \union {Bundle!Voted(k, d) : k \in Bundle!Keys, d \in {"approve", "reject"}}
  \union {Bundle!QuorumData(ks) : ks \in SUBSET Bundle!Keys}
  \union {Bundle!Reported(s) : s \in Outcomes \union {"unknown"}}

Entries ==
  [of : {"this"}, seq : Nat, prev : Nat \union {None}, receipt : Nat, hash : Nat,
   key : AuditKeys, sound : {TRUE}, data : EventData]

\* Event i of stream t is numbered, hashed and linked as it should be.
InPlace(t, i) ==
  /\ t[i].seq = i /\ t[i].hash = t[i].receipt
  /\ t[i].prev = IF i = 1 THEN None ELSE t[i - 1].hash

\* A stream whose receipts were drawn in turn, the last one not after m.
StreamOK(s, m) ==
  /\ s \in Seq(Entries) /\ s # <<>>
  /\ \A i \in 1 .. Len(s) : InPlace(s, i) /\ s[i].receipt \in 1 .. m
  /\ \A i, n \in 1 .. Len(s) : i < n => s[i].receipt < s[n].receipt

\* Stream t is s and n more events, with the receipts that follow m.
Continues(t, s, m, n) ==
  /\ t \in Seq(Entries) /\ Len(t) = Len(s) + n
  /\ \A i \in 1 .. Len(s) : t[i] = s[i]
  /\ \A i \in Len(s) + 1 .. Len(s) + n :
       InPlace(t, i) /\ t[i].receipt = m + (i - Len(s))

\* A receipt stands for one event and for all that came before it.
Agree(s, t) ==
  \A i \in 1 .. Len(s), n \in 1 .. Len(t) :
    s[i].receipt = t[n].receipt => i = n /\ \A p \in 1 .. i : s[p] = t[p]

LEMMA AppendedContinues ==
  ASSUME NEW s \in Seq(Entries), NEW key \in AuditKeys, NEW m \in Nat,
         NEW datas \in Seq(EventData)
  PROVE  Continues(Bundle!Appended(s, key, m, datas), s, m, Len(datas))
<1> DEFINE more == [i \in 1 .. Len(datas) |->
             Bundle!Entry(Len(s) + i,
               IF i > 1 THEN m + i - 1
               ELSE IF s = <<>> THEN None ELSE Bundle!Last(s).hash,
               m + i, key, datas[i])]
           t == s \o more
<1>1. Bundle!Appended(s, key, m, datas) = t
  BY DEF Bundle!Appended
<1>2. s # <<>> => Bundle!Last(s) = s[Len(s)] /\ s[Len(s)] \in Entries
  BY DEF Bundle!Last
<1>3. ASSUME NEW i \in 1 .. Len(datas)
      PROVE  /\ more[i] \in Entries
             /\ more[i].seq = Len(s) + i /\ more[i].receipt = m + i
             /\ more[i].hash = m + i
             /\ more[i].prev = IF i > 1 THEN m + i - 1
                               ELSE IF s = <<>> THEN None ELSE s[Len(s)].hash
  <2>1. datas[i] \in EventData OBVIOUS
  <2>2. (IF i > 1 THEN m + i - 1
         ELSE IF s = <<>> THEN None ELSE Bundle!Last(s).hash) \in Nat \union {None}
    <3>1. i > 1 => m + i - 1 \in Nat OBVIOUS
    <3>2. s # <<>> => Bundle!Last(s).hash \in Nat BY <1>2 DEF Entries
    <3> QED BY <3>1, <3>2
  <2>3. Len(s) + i \in Nat /\ m + i \in Nat OBVIOUS
  <2> QED BY <1>2, <2>1, <2>2, <2>3 DEF Bundle!Entry, Entries
<1>4. more \in Seq(Entries) /\ Len(more) = Len(datas)
  BY <1>3
<1> HIDE DEF more
<1>5. /\ t \in Seq(Entries) /\ Len(t) = Len(s) + Len(datas)
      /\ \A i \in 1 .. Len(s) : t[i] = s[i]
      /\ \A i \in Len(s) + 1 .. Len(s) + Len(datas) : t[i] = more[i - Len(s)]
  BY <1>4
<1> HIDE DEF t
<1>6. ASSUME NEW i \in Len(s) + 1 .. Len(s) + Len(datas)
      PROVE  InPlace(t, i) /\ t[i].receipt = m + (i - Len(s))
  <2> DEFINE n == i - Len(s)
  <2>1. n \in 1 .. Len(datas) /\ Len(s) + n = i /\ t[i] = more[n]
    BY <1>5
  <2>2. t[i].seq = i /\ t[i].hash = t[i].receipt /\ t[i].receipt = m + n
    BY <2>1, <1>3
  <2>3. CASE n = 1
    <3>1. t[i].prev = IF s = <<>> THEN None ELSE s[Len(s)].hash
      BY <2>1, <2>3, <1>3
    <3>2. (s = <<>>) <=> (i = 1) BY <2>1, <2>3
    <3>3. s # <<>> => t[i - 1] = s[Len(s)]
      <4>1. i - 1 = Len(s) BY <2>1, <2>3
      <4>2. s # <<>> => Len(s) \in 1 .. Len(s) OBVIOUS
      <4> QED BY <4>1, <4>2, <1>5
    <3> QED BY <2>2, <3>1, <3>2, <3>3 DEF InPlace
  <2>4. CASE n > 1
    <3>1. n - 1 \in 1 .. Len(datas) /\ i - 1 \in Len(s) + 1 .. Len(s) + Len(datas)
          /\ (i - 1) - Len(s) = n - 1 /\ i # 1
      BY <2>1, <2>4
    <3>2. t[i - 1] = more[n - 1]
      BY <3>1, <1>5
    <3>3. t[i - 1].hash = m + (n - 1)
      BY <3>1, <3>2, <1>3
    <3>4. t[i].prev = m + n - 1 BY <2>1, <2>4, <1>3
    <3> QED BY <2>1, <2>2, <3>1, <3>3, <3>4 DEF InPlace
  <2> QED BY <2>1, <2>3, <2>4
<1> QED BY <1>1, <1>5, <1>6 DEF Continues

\* What continues a stream is again one, and its receipts are new.
LEMMA ContinuesOK ==
  ASSUME NEW m \in Nat, NEW n \in Nat, NEW s, NEW t,
         StreamOK(s, m), Continues(t, s, m, n)
  PROVE  /\ StreamOK(t, m + n)
         /\ \A i \in Len(s) + 1 .. Len(t) : t[i].receipt > m
<1>1. /\ s \in Seq(Entries) /\ s # <<>> /\ Len(s) \in Nat \ {0}
      /\ t \in Seq(Entries) /\ t # <<>> /\ Len(t) = Len(s) + n
  BY DEF StreamOK, Continues
<1>2. ASSUME NEW i \in 1 .. Len(t)
      PROVE  InPlace(t, i) /\ t[i].receipt \in 1 .. m + n
             /\ (i <= Len(s) => t[i].receipt = s[i].receipt)
             /\ (i > Len(s) => t[i].receipt = m + (i - Len(s)))
  <2>1. CASE i <= Len(s)
    <3>1. t[i] = s[i] /\ (i # 1 => t[i - 1] = s[i - 1])
      BY <1>1, <2>1 DEF Continues
    <3> QED BY <1>1, <2>1, <3>1 DEF StreamOK, InPlace
  <2>2. CASE i > Len(s)
    BY <1>1, <2>2 DEF Continues
  <2> QED BY <1>1, <2>1, <2>2
<1>3. ASSUME NEW i \in 1 .. Len(t), NEW k \in 1 .. Len(t), i < k
      PROVE  t[i].receipt < t[k].receipt
  <2>1. CASE k <= Len(s)
    <3>1. i \in 1 .. Len(s) /\ k \in 1 .. Len(s) BY <1>1, <2>1, <1>3
    <3>2. s[i].receipt < s[k].receipt BY <3>1, <1>3 DEF StreamOK
    <3>3. t[i].receipt = s[i].receipt /\ t[k].receipt = s[k].receipt
      BY <3>1, <1>2
    <3> QED BY <3>2, <3>3
  <2>2. CASE k > Len(s)
    <3>1. t[k].receipt = m + (k - Len(s))
      BY <1>2, <2>2
    <3>2. CASE i <= Len(s)
      <4>1. i \in 1 .. Len(s) BY <1>1, <3>2
      <4>2. t[i].receipt \in 1 .. m BY <4>1, <1>2, <3>2 DEF StreamOK
      <4> QED BY <1>1, <2>2, <3>1, <4>2
    <3>3. CASE i > Len(s)
      <4>1. t[i].receipt = m + (i - Len(s)) BY <1>2, <3>3
      <4> QED BY <1>1, <1>3, <3>1, <4>1
    <3> QED BY <1>1, <3>2, <3>3
  <2> QED BY <1>1, <2>1, <2>2
<1>4. \A i \in Len(s) + 1 .. Len(t) : t[i].receipt > m
  <2> SUFFICES ASSUME NEW i \in Len(s) + 1 .. Len(t) PROVE t[i].receipt > m
    OBVIOUS
  <2>1. t[i].receipt = m + (i - Len(s)) BY <1>2
  <2> QED BY <1>1, <2>1
<1> QED BY <1>1, <1>2, <1>3, <1>4 DEF StreamOK

\* ... and agrees with whatever stream the first agreed with.
LEMMA ContinuesAgree ==
  ASSUME NEW m \in Nat, NEW n \in Nat, NEW s, NEW t, NEW u,
         StreamOK(s, m), StreamOK(u, m), Continues(t, s, m, n), Agree(s, u)
  PROVE  Agree(t, u) /\ Agree(u, t) /\ Agree(t, t)
<1>1. /\ Len(s) \in Nat /\ Len(u) \in Nat /\ Len(t) = Len(s) + n /\ Len(t) \in Nat
  BY DEF StreamOK, Continues
<1>2. ASSUME NEW i \in 1 .. Len(t), NEW k \in 1 .. Len(u),
             t[i].receipt = u[k].receipt
      PROVE  i = k /\ \A p \in 1 .. i : t[p] = u[p]
  <2>1. u[k].receipt \in 1 .. m BY DEF StreamOK
  <2>2. i \in 1 .. Len(s)
    <3>1. \A x \in Len(s) + 1 .. Len(t) : t[x].receipt > m
      BY ContinuesOK
    <3>2. ~(t[i].receipt > m) BY <1>2, <2>1
    <3>3. i \notin Len(s) + 1 .. Len(t) BY <3>1, <3>2
    <3> QED BY <1>1, <3>3
  <2>3. \A p \in 1 .. i : t[p] = s[p] BY <1>1, <2>2 DEF Continues
  <2>4. t[i] = s[i] BY <2>2 DEF Continues
  <2>5. i = k /\ \A p \in 1 .. i : s[p] = u[p]
    BY <1>2, <2>2, <2>4 DEF Agree
  <2> QED BY <2>3, <2>5
<1>3. \A i, k \in 1 .. Len(t) : t[i].receipt = t[k].receipt => i = k
  <2>1. StreamOK(t, m + n) BY ContinuesOK
  <2>2. \A i \in 1 .. Len(t) : t[i].receipt \in Int
    BY <2>1 DEF StreamOK
  <2>3. \A i, k \in 1 .. Len(t) : i < k => t[i].receipt < t[k].receipt
    BY <2>1 DEF StreamOK
  <2> QED BY <1>1, <2>2, <2>3
<1>4. Agree(t, u) BY <1>2 DEF Agree
<1>5. Agree(u, t)
  <2> SUFFICES ASSUME NEW i \in 1 .. Len(u), NEW k \in 1 .. Len(t),
                      u[i].receipt = t[k].receipt
               PROVE  i = k /\ \A p \in 1 .. i : u[p] = t[p]
    BY DEF Agree
  <2> QED BY <1>2
<1>6. Agree(t, t) BY <1>3 DEF Agree
<1> QED BY <1>4, <1>5, <1>6

Prefix(s, t) == Len(s) <= Len(t) /\ \A i \in 1 .. Len(s) : s[i] = t[i]

\* A checkpoint seals the head of what some life of the journal held.
SealShape(c) == {"of", "sound"} \subseteq DOMAIN c
Seals(c, k) ==
  SealShape(c) /\ c.seq = Len(k.stream) /\ c.head = k.stream[Len(k.stream)].hash

JournalOK(j, m, lives) ==
  /\ j = [stream |-> j.stream, votes |-> j.votes, state |-> j.state,
          checkpoints |-> j.checkpoints]
  /\ StreamOK(j.stream, m)
  /\ \A c \in j.checkpoints :
       \E k \in lives : Seals(c, k) /\ Prefix(k.stream, j.stream)

HistoryInv ==
  /\ audit \in AuditKeys /\ minted \in Nat
  /\ journal \in history /\ backup \in history \union {None}
  /\ \A j \in history : JournalOK(j, minted, history)
  /\ \A j, k \in history : Agree(j.stream, k.stream)

\* Journal j is journal base after n more events, maybe with its head sealed.
Grown(j, base, n) ==
  /\ j = [stream |-> j.stream, votes |-> j.votes, state |-> j.state,
          checkpoints |-> j.checkpoints]
  /\ Continues(j.stream, base.stream, minted, n)
  /\ \A c \in j.checkpoints : c \in base.checkpoints \/ Seals(c, j)

issued == <<audit, journal, minted, newest, history>>

\* A transaction of the issuer, on the journal or at its start on a copy.
Transaction ==
  \E base \in history, n \in Nat :
    /\ base = journal \/ Bundle!AtFrontier(base)
    /\ Grown(journal', base, n)
    /\ minted' = minted + n
    /\ \/ newest' = Bundle!HeadHash(journal')
       \/ journal'.stream = journal.stream /\ newest' = newest
    /\ history' = history \union {journal'}
    /\ audit' \in AuditKeys /\ UNCHANGED backup

LEMMA SealedGrown ==
  ASSUME HistoryInv, NEW j, NEW base \in history, NEW n \in Nat, Grown(j, base, n)
  PROVE  Grown(Bundle!WithCheckpoint(j), base, n)
<1> DEFINE c == [of |-> "this", epoch |-> Action.epoch, seq |-> Len(j.stream),
                 head |-> Bundle!HeadHash(j), key |-> audit, sound |-> TRUE]
           sealed == [j EXCEPT !.checkpoints = @ \union {c}]
<1>1. CASE Bundle!WithCheckpoint(j) = j
  BY <1>1
<1>2. CASE Bundle!WithCheckpoint(j) = sealed
  <2>1. sealed = [stream |-> j.stream, votes |-> j.votes, state |-> j.state,
                  checkpoints |-> j.checkpoints \union {c}]
    <3>1. j = [stream |-> j.stream, votes |-> j.votes, state |-> j.state,
               checkpoints |-> j.checkpoints]
      BY DEF Grown
    <3> HIDE DEF c
    <3> QED BY <3>1
  <2>2. Seals(c, sealed)
    BY <2>1 DEF Seals, SealShape, Bundle!HeadHash, Bundle!Last
  <2>3. /\ sealed.stream = j.stream
        /\ sealed.checkpoints = j.checkpoints \union {c}
        /\ sealed = [stream |-> sealed.stream, votes |-> sealed.votes,
                     state |-> sealed.state, checkpoints |-> sealed.checkpoints]
    BY <2>1
  <2> HIDE DEF sealed, c
  <2> QED BY <1>2, <2>2, <2>3 DEF Grown, Seals
<1>3. Bundle!WithCheckpoint(j) \in {j, sealed}
  BY DEF Bundle!WithCheckpoint
<1> QED BY <1>1, <1>2, <1>3

\* Appending to a journal of the history.
LEMMA WrittenGrown ==
  ASSUME HistoryInv, NEW base \in history, NEW key \in AuditKeys,
         NEW datas \in Seq(EventData), NEW v, NEW st, NEW j,
         j = [base EXCEPT !.stream = Bundle!Appended(@, key, minted, datas),
                          !.votes = v, !.state = st]
  PROVE  Grown(j, base, Len(datas))
<1>1. base = [stream |-> base.stream, votes |-> base.votes, state |-> base.state,
              checkpoints |-> base.checkpoints]
      /\ base.stream \in Seq(Entries)
  BY DEF HistoryInv, JournalOK, StreamOK
<1>2. j = [stream |-> Bundle!Appended(base.stream, key, minted, datas),
           votes |-> v, state |-> st, checkpoints |-> base.checkpoints]
  BY <1>1
<1>3. Continues(j.stream, base.stream, minted, Len(datas))
  BY <1>1, <1>2, AppendedContinues DEF HistoryInv
<1> QED BY <1>2, <1>3 DEF Grown

LEMMA SameGrown ==
  ASSUME HistoryInv, NEW base \in history
  PROVE  Grown(base, base, 0)
BY DEF HistoryInv, JournalOK, StreamOK, Grown, Continues

LEMMA SubmitTransaction ==
  ASSUME HistoryInv, NEW k \in Bundle!Keys, NEW d \in {"approve", "reject"},
         Bundle!Submit(k, d)
  PROVE  Transaction
<1> DEFINE vs == [journal.votes EXCEPT ![k] = d]
           approving == {x \in Bundle!Keys : vs[x] = "approve"}
           enough == journal.state = "OPEN"
                     /\ Bundle!V!Quorum(Action.policy, approving)
           datas == IF d = "reject" THEN <<Bundle!Voted(k, d), Bundle!Refused>>
                    ELSE IF enough
                      THEN <<Bundle!Voted(k, d), Bundle!QuorumData(approving)>>
                    ELSE <<Bundle!Voted(k, d)>>
           st == IF d = "reject" THEN "ESCALATED"
                 ELSE IF enough THEN "READY" ELSE journal.state
           written == [journal EXCEPT
                         !.stream = Bundle!Appended(@, audit, minted, datas),
                         !.votes = vs, !.state = st]
           left == IF d = "reject" THEN Bundle!WithCheckpoint(written) ELSE written
<1>1. datas \in Seq(EventData)
  <2>1. /\ Bundle!Voted(k, d) \in EventData /\ Bundle!Refused \in EventData
        /\ Bundle!QuorumData(approving) \in EventData
    BY DEF EventData
  <2> HIDE DEF enough, approving
  <2> QED BY <2>1
<1>2. Bundle!Write(left, Len(datas)) /\ UNCHANGED <<audit, backup>>
  BY DEF Bundle!Submit
<1> HIDE DEF vs, datas, st
<1>3. Grown(written, journal, Len(datas))
  BY <1>1, WrittenGrown DEF HistoryInv
<1>4. Grown(left, journal, Len(datas))
  BY <1>1, <1>3, SealedGrown DEF HistoryInv
<1> HIDE DEF left
<1> QED BY <1>1, <1>2, <1>4 DEF Bundle!Write, Transaction, HistoryInv

LEMMA StepTransaction ==
  ASSUME HistoryInv, NEW from, NEW data \in EventData, NEW to,
         Bundle!Step(from, data, to)
  PROVE  Transaction
<1> DEFINE written == [journal EXCEPT
              !.stream = Bundle!Appended(@, audit, minted, <<data>>), !.state = to]
<1>1. written = [journal EXCEPT
         !.stream = Bundle!Appended(@, audit, minted, <<data>>),
         !.votes = journal.votes, !.state = to]
  BY DEF HistoryInv, JournalOK
<1>2. Bundle!Write(written, 1) /\ UNCHANGED <<audit, backup>>
  BY DEF Bundle!Step
<1> HIDE DEF written
<1>3. <<data>> \in Seq(EventData) /\ Len(<<data>>) = 1 OBVIOUS
<1>4. Grown(written, journal, Len(<<data>>))
  BY <1>1, <1>3, WrittenGrown DEF HistoryInv
<1> QED BY <1>2, <1>3, <1>4 DEF Bundle!Write, Transaction, HistoryInv

LEMMA ExportTransaction ==
  ASSUME HistoryInv, Bundle!Export
  PROVE  Transaction
<1> DEFINE left == Bundle!WithCheckpoint(journal)
<1>1. /\ journal' = left /\ minted' = minted /\ newest' = newest
      /\ history' = history \union {journal'} /\ UNCHANGED <<audit, backup>>
  BY DEF Bundle!Export
<1>2. left.stream = journal.stream
  BY DEF Bundle!WithCheckpoint, HistoryInv, JournalOK
<1> HIDE DEF left
<1>3. Grown(left, journal, 0)
  BY SameGrown, SealedGrown DEF HistoryInv, left
<1>4. minted' = minted + 0 BY <1>1 DEF HistoryInv
<1> QED BY <1>1, <1>2, <1>3, <1>4 DEF Transaction, HistoryInv

LEMMA RestartTransaction ==
  ASSUME HistoryInv, NEW j \in {journal, backup} \ {None}, NEW key \in AuditKeys,
         Bundle!Restart(j, key)
  PROVE  Transaction
<1> DEFINE unknown == Bundle!Reported("unknown")
           resumed == [j EXCEPT
              !.stream = Bundle!Appended(@, key, minted, <<unknown>>),
              !.state = "UNKNOWN"]
           opened == IF j.state = "DISPATCHING" THEN resumed ELSE j
<1>1. /\ Bundle!AtFrontier(j) /\ audit' = key /\ UNCHANGED backup
      /\ Bundle!Write(opened, Len(opened.stream) - Len(j.stream))
  BY DEF Bundle!Restart
<1>2. j \in history
  BY DEF HistoryInv
<1>3. <<unknown>> \in Seq(EventData) /\ Len(<<unknown>>) = 1
  BY DEF EventData
<1>4. Grown(resumed, j, 1)
  <2>1. resumed = [j EXCEPT
           !.stream = Bundle!Appended(@, key, minted, <<unknown>>),
           !.votes = j.votes, !.state = "UNKNOWN"]
    BY <1>2 DEF HistoryInv, JournalOK
  <2> HIDE DEF resumed, unknown
  <2>2. Grown(resumed, j, Len(<<unknown>>))
    BY <1>2, <1>3, <2>1, WrittenGrown
  <2> QED BY <1>3, <2>2
<1> HIDE DEF resumed
<1>5. \E n \in {0, 1} : Grown(opened, j, n)
  BY <1>2, <1>4, SameGrown
<1> HIDE DEF opened
<1>6. PICK n \in {0, 1} : Grown(opened, j, n)
  BY <1>5
<1>7. Len(opened.stream) - Len(j.stream) = n
  <2>1. j.stream \in Seq(Entries) BY <1>2 DEF HistoryInv, JournalOK, StreamOK
  <2> QED BY <1>6, <2>1 DEF Grown, Continues
<1> QED BY <1>1, <1>2, <1>6, <1>7 DEF Bundle!Write, Transaction, HistoryInv

LEMMA IssuerSplit ==
  ASSUME HistoryInv, [Bundle!Next]_(Bundle!vars)
  PROVE  \/ Transaction
         \/ UNCHANGED issued /\ backup' \in {backup, journal}
<1>1. ASSUME NEW k \in Bundle!Keys, NEW d \in {"approve", "reject"},
             Bundle!Submit(k, d)
      PROVE  Transaction
  BY <1>1, SubmitTransaction
<1>2. CASE Bundle!Commit
  BY <1>2, StepTransaction DEF Bundle!Commit, EventData
<1>3. CASE Bundle!Cancel
  BY <1>3, StepTransaction DEF Bundle!Cancel, EventData
<1>4. ASSUME NEW s \in Outcomes, Bundle!Report(s)
      PROVE  Transaction
  <2>1. Bundle!Reported(s) \in EventData BY DEF EventData
  <2> QED BY <1>4, <2>1, StepTransaction DEF Bundle!Report
<1>5. CASE Bundle!Export BY <1>5, ExportTransaction
<1>6. CASE Bundle!Backup BY <1>6 DEF Bundle!Backup, issued
<1>7. ASSUME NEW j \in {journal, backup} \ {None}, NEW key \in AuditKeys,
             Bundle!Restart(j, key)
      PROVE  Transaction
  BY <1>7, RestartTransaction
<1>8. ASSUME NEW x \in exports, Bundle!Take(x)
      PROVE  UNCHANGED issued /\ UNCHANGED backup
  BY <1>8 DEF Bundle!Take, Bundle!issuer, issued
<1>9. ASSUME NEW x, NEW loss, Bundle!Becomes(x, loss)
      PROVE  UNCHANGED issued /\ UNCHANGED backup
  BY <1>9 DEF Bundle!Becomes, Bundle!issuer, issued
<1>10. CASE Bundle!Transport
  BY <1>9, <1>10
     DEF Bundle!Transport, Bundle!SpoilCheckpoint, Bundle!LoseEvent,
         Bundle!LoseTail, Bundle!SpoilEvent, Bundle!SpoilHash,
         Bundle!SwapEvents, Bundle!MixEvent, Bundle!MixTail,
         Bundle!MixCheckpoint, Bundle!LoseVote, Bundle!SpoilVote,
         Bundle!MixVote, Bundle!SwapVotes, Bundle!MixVotes
<1>11. CASE UNCHANGED Bundle!vars
  BY <1>11 DEF Bundle!vars, issued
<1>12. CASE Bundle!Issue
  BY <1>1, <1>2, <1>3, <1>4, <1>5, <1>6, <1>7, <1>12 DEF Bundle!Issue
<1> QED BY <1>8, <1>10, <1>11, <1>12 DEF Bundle!Next

LEMMA HistoryInit ==
  ASSUME Bundle!Init
  PROVE  HistoryInv /\ newest = Bundle!HeadHash(journal)
<1> DEFINE first == Bundle!Appended(<<>>, audit, 0, <<Bundle!Proposed>>)
<1>1. /\ audit \in AuditKeys /\ minted = 1 /\ newest = 1 /\ backup = None
      /\ history = {journal} /\ journal.stream = first /\ journal.checkpoints = {}
      /\ journal = [stream |-> journal.stream, votes |-> journal.votes,
                    state |-> journal.state, checkpoints |-> journal.checkpoints]
  BY DEF Bundle!Init
<1>2. Continues(first, <<>>, 0, 1)
  <2>1. <<Bundle!Proposed>> \in Seq(EventData) /\ Len(<<Bundle!Proposed>>) = 1
        /\ <<>> \in Seq(Entries)
    BY DEF EventData
  <2> QED BY <1>1, <2>1, AppendedContinues
<1> HIDE DEF first
<1>3. /\ first \in Seq(Entries) /\ Len(first) = 1 /\ InPlace(first, 1)
      /\ first[1].receipt = 1 /\ first[1].hash = 1
  BY <1>2 DEF Continues, InPlace
<1>4. StreamOK(first, 1) /\ Agree(first, first)
  <2>1. \A i \in 1 .. Len(first) : i = 1 BY <1>3
  <2>2. \A i \in 1 .. Len(first) : InPlace(first, i) /\ first[i].receipt \in 1 .. 1
    BY <1>3, <2>1
  <2>3. \A i, n \in 1 .. Len(first) : i < n => first[i].receipt < first[n].receipt
    BY <2>1
  <2>4. first # <<>>
    <3> SUFFICES ASSUME first = <<>> PROVE FALSE OBVIOUS
    <3>1. Len(<<>>) = 0 OBVIOUS
    <3> QED BY <1>3, <3>1
  <2>5. Agree(first, first) BY <2>1 DEF Agree
  <2> QED BY <1>3, <2>2, <2>3, <2>4, <2>5 DEF StreamOK
<1>5. Bundle!HeadHash(journal) = 1
  BY <1>1, <1>3 DEF Bundle!HeadHash, Bundle!Last
<1> QED BY <1>1, <1>4, <1>5 DEF HistoryInv, JournalOK

LEMMA PrefixOfPrefix ==
  ASSUME NEW s, NEW t, NEW u, Len(s) \in Nat, Len(t) \in Nat, Len(u) \in Nat,
         Prefix(s, t), Prefix(t, u)
  PROVE  Prefix(s, u)
<1>1. Len(s) <= Len(t) /\ Len(t) <= Len(u)
  BY DEF Prefix
<1>2. \A i \in 1 .. Len(s) : i \in 1 .. Len(t)
  BY <1>1
<1> QED BY <1>1, <1>2 DEF Prefix

\* What a transaction leaves behind is a journal like the ones before it.
LEMMA GrownOK ==
  ASSUME HistoryInv, NEW base \in history, NEW n \in Nat,
         Grown(journal', base, n), minted' = minted + n,
         history' = history \union {journal'}
  PROVE  JournalOK(journal', minted', history') /\ Prefix(base.stream, journal'.stream)
<1>1. StreamOK(base.stream, minted) /\ minted \in Nat
  BY DEF HistoryInv, JournalOK
<1>2. StreamOK(journal'.stream, minted + n)
  BY <1>1, ContinuesOK DEF Grown
<1>3. Prefix(base.stream, journal'.stream)
  <2>1. Len(base.stream) \in Nat BY <1>1 DEF StreamOK
  <2> QED BY <2>1 DEF Grown, Continues, Prefix
<1>4. ASSUME NEW c \in journal'.checkpoints
      PROVE  \E k \in history' : Seals(c, k) /\ Prefix(k.stream, journal'.stream)
  <2>1. CASE c \in base.checkpoints
    <3>1. PICK k \in history : Seals(c, k) /\ Prefix(k.stream, base.stream)
      BY <2>1 DEF HistoryInv, JournalOK
    <3>2. Len(k.stream) \in Nat /\ Len(base.stream) \in Nat
          /\ Len(journal'.stream) \in Nat
      BY <1>1, <1>2 DEF HistoryInv, JournalOK, StreamOK
    <3>3. Prefix(k.stream, journal'.stream)
      BY <1>3, <3>1, <3>2, PrefixOfPrefix
    <3> QED BY <3>1, <3>3
  <2>2. CASE Seals(c, journal')
    <3>1. Prefix(journal'.stream, journal'.stream) BY <1>2 DEF Prefix, StreamOK
    <3> QED BY <2>2, <3>1
  <2> QED BY <2>1, <2>2 DEF Grown
<1> QED BY <1>2, <1>3, <1>4 DEF JournalOK, Grown

LEMMA StreamLater ==
  ASSUME NEW m \in Nat, NEW n \in Nat, m <= n, NEW s, StreamOK(s, m)
  PROVE  StreamOK(s, n)
BY DEF StreamOK

LEMMA HistoryStep ==
  ASSUME HistoryInv, [Bundle!Next]_(Bundle!vars)
  PROVE  HistoryInv'
<1>1. CASE UNCHANGED issued /\ backup' \in {backup, journal}
  BY <1>1 DEF issued, HistoryInv, JournalOK
<1>2. CASE Transaction
  <2>1. PICK base \in history, n \in Nat :
          /\ Grown(journal', base, n) /\ minted' = minted + n
          /\ history' = history \union {journal'}
          /\ audit' \in AuditKeys /\ UNCHANGED backup
    BY <1>2 DEF Transaction
  <2>2. minted \in Nat /\ minted' \in Nat /\ minted <= minted'
    BY <2>1 DEF HistoryInv
  <2>3. ASSUME NEW j \in history
        PROVE  JournalOK(j, minted', history')
    <3>1. StreamOK(j.stream, minted) BY DEF HistoryInv, JournalOK
    <3>2. StreamOK(j.stream, minted') BY <2>2, <3>1, StreamLater
    <3> QED BY <2>1, <3>2 DEF HistoryInv, JournalOK
  <2>4. JournalOK(journal', minted', history')
    BY <2>1, GrownOK
  <2>5. ASSUME NEW k \in history
        PROVE  /\ Agree(journal'.stream, k.stream) /\ Agree(k.stream, journal'.stream)
               /\ Agree(journal'.stream, journal'.stream)
    <3>1. /\ StreamOK(base.stream, minted) /\ StreamOK(k.stream, minted)
          /\ Agree(base.stream, k.stream)
          /\ Continues(journal'.stream, base.stream, minted, n)
      BY <2>1 DEF HistoryInv, JournalOK, Grown
    <3> QED BY <2>2, <3>1, ContinuesAgree
  <2>6. ASSUME NEW j \in history', NEW k \in history'
        PROVE  Agree(j.stream, k.stream)
    BY <2>1, <2>5 DEF HistoryInv
  <2>7. \A j \in history' : JournalOK(j, minted', history')
    BY <2>1, <2>3, <2>4
  <2>8. journal' \in history' /\ backup' \in history' \union {None}
    BY <2>1 DEF HistoryInv
  <2> QED BY <2>1, <2>2, <2>6, <2>7, <2>8 DEF HistoryInv
<1> QED BY <1>1, <1>2, IssuerSplit

\* With the newest head hash at hand every life is the past of the present one.
FrontierInv ==
  /\ newest = Bundle!HeadHash(journal)
  /\ \A j \in history : Prefix(j.stream, journal.stream)

LEMMA FrontierInit ==
  ASSUME Bundle!Init
  PROVE  FrontierInv
<1>1. history = {journal} BY DEF Bundle!Init
<1>2. Len(journal.stream) \in Nat
  BY HistoryInit DEF HistoryInv, JournalOK, StreamOK
<1> QED BY <1>1, <1>2, HistoryInit DEF FrontierInv, Prefix

LEMMA FrontierStep ==
  ASSUME Frontier, HistoryInv, FrontierInv, [Bundle!Next]_(Bundle!vars)
  PROVE  FrontierInv'
<1>1. CASE UNCHANGED issued /\ backup' \in {backup, journal}
  BY <1>1 DEF issued, FrontierInv, Bundle!HeadHash
<1>2. CASE Transaction
  <2>1. PICK base \in history, n \in Nat :
          /\ base = journal \/ Bundle!AtFrontier(base)
          /\ Grown(journal', base, n) /\ minted' = minted + n
          /\ \/ newest' = Bundle!HeadHash(journal')
             \/ journal'.stream = journal.stream /\ newest' = newest
          /\ history' = history \union {journal'}
    BY <1>2 DEF Transaction
  <2>2. /\ StreamOK(base.stream, minted) /\ StreamOK(journal.stream, minted)
        /\ Agree(base.stream, journal.stream)
    BY DEF HistoryInv, JournalOK
  <2>3. /\ Len(base.stream) \in Nat \ {0} /\ Len(journal.stream) \in Nat \ {0}
        /\ Bundle!HeadHash(base) = base.stream[Len(base.stream)].receipt
        /\ Bundle!HeadHash(journal) = journal.stream[Len(journal.stream)].receipt
    BY <2>2 DEF StreamOK, InPlace, Bundle!HeadHash, Bundle!Last
  <2>4. /\ Len(base.stream) = Len(journal.stream)
        /\ \A i \in 1 .. Len(journal.stream) : base.stream[i] = journal.stream[i]
    <3>1. CASE base = journal BY <3>1
    <3>2. CASE Bundle!AtFrontier(base)
      <4>1. Bundle!HeadHash(base) = Bundle!HeadHash(journal)
        BY <3>2 DEF Bundle!AtFrontier, FrontierInv
      <4>2. Len(base.stream) \in 1 .. Len(base.stream)
            /\ Len(journal.stream) \in 1 .. Len(journal.stream)
        BY <2>3
      <4>3. Len(base.stream) = Len(journal.stream)
            /\ \A p \in 1 .. Len(base.stream) : base.stream[p] = journal.stream[p]
        BY <2>2, <2>3, <4>1, <4>2 DEF Agree
      <4> QED BY <4>3
    <3> QED BY <2>1, <3>1, <3>2
  <2>5. Prefix(journal.stream, journal'.stream) /\ StreamOK(journal'.stream, minted')
    <3>1. Prefix(base.stream, journal'.stream) /\ JournalOK(journal', minted', history')
      BY <2>1, GrownOK
    <3>2. Prefix(journal.stream, journal'.stream)
      BY <2>4, <3>1 DEF Prefix
    <3> QED BY <3>1, <3>2 DEF JournalOK
  <2>6. ASSUME NEW j \in history'
        PROVE  Prefix(j.stream, journal'.stream)
    <3>1. Len(journal'.stream) \in Nat BY <2>5 DEF StreamOK
    <3>2. CASE j = journal' BY <3>1, <3>2 DEF Prefix
    <3>3. CASE j \in history
      <4>1. Prefix(j.stream, journal.stream) /\ Len(j.stream) \in Nat
        BY <3>3 DEF FrontierInv, HistoryInv, JournalOK, StreamOK
      <4> QED BY <2>3, <2>5, <3>1, <4>1 DEF Prefix
    <3> QED BY <2>1, <3>2, <3>3
  <2>7. newest' = Bundle!HeadHash(journal')
    BY <2>1 DEF FrontierInv, Bundle!HeadHash
  <2>8. Bundle!HeadHash(journal)' = Bundle!HeadHash(journal')
    BY DEF Bundle!HeadHash
  <2> QED BY <2>6, <2>7, <2>8 DEF FrontierInv
<1> QED BY <1>1, <1>2, IssuerSplit

LEMMA NoForkFollows ==
  ASSUME HistoryInv, FrontierInv
  PROVE  NoFork
<1> SUFFICES ASSUME NEW c \in Bundle!Checkpoints, NEW d \in Bundle!Checkpoints,
                    c.seq = d.seq
             PROVE  c.head = d.head
  BY DEF NoFork, Bundle!NoFork
<1>1. ASSUME NEW x \in Bundle!Checkpoints
      PROVE  x.head = journal.stream[x.seq].hash
  <2>1. PICK j \in history : x \in j.checkpoints
    BY DEF Bundle!Checkpoints
  <2>2. PICK k \in history : Seals(x, k)
    BY <2>1 DEF HistoryInv, JournalOK
  <2>3. Prefix(k.stream, journal.stream) /\ Len(k.stream) \in Nat \ {0}
    BY DEF FrontierInv, HistoryInv, JournalOK, StreamOK
  <2> QED BY <2>2, <2>3 DEF Seals, Prefix
<1> QED BY <1>1

THEOREM CheckpointsDoNotFork ==
  ASSUME Frontier
  PROVE  Bundle!Spec => []NoFork
<1>1. Bundle!Init => HistoryInv /\ FrontierInv
  BY HistoryInit, FrontierInit
<1>2. HistoryInv /\ FrontierInv /\ [Bundle!Next]_(Bundle!vars)
        => HistoryInv' /\ FrontierInv'
  BY HistoryStep, FrontierStep
<1>3. HistoryInv /\ FrontierInv => NoFork
  BY NoForkFollows
<1> QED BY <1>1, <1>2, <1>3, PTL DEF Bundle!Spec

\* A set of naturals that is not empty has a least element.
LEMMA LeastElement ==
  ASSUME NEW T \in SUBSET Nat, T # {}
  PROVE  \E x \in T : \A y \in T : x <= y
<1> DEFINE below == {ss \in Nat \X Nat : ss[1] < ss[2]}
<1>1. IsWellFoundedOn(below, Nat)
  BY NatLessThanWellFounded DEF OpToRel
<1>2. PICK x \in T : \A y \in T : <<y, x>> \notin below
  <2> HIDE DEF below
  <2> QED BY <1>1, WFMin
<1>3. \A y \in T : x <= y
  <2> SUFFICES ASSUME NEW y \in T, ~(x <= y) PROVE FALSE
    OBVIOUS
  <2>1. y < x /\ <<y, x>> \in Nat \X Nat
    OBVIOUS
  <2> QED BY <1>2, <2>1
<1> QED BY <1>3

\* A piece of a proof as it may come: if it reads as one of this proposal, with
\* a fitting signature and its hash in place, it is one the issuer signed.
Altered ==
  [of : {"this", "other"}, seq : Nat, prev : Nat \union {None}, receipt : Nat,
   hash : Nat \union {None}, key : AuditKeys, sound : BOOLEAN, data : EventData]

Pieces ==
  {e \in Altered :
     e.of = "this" /\ e.sound /\ e.hash # None => e \in Bundle!Signed}

ParcelOK(x) ==
  /\ x = [events |-> x.events, votes |-> x.votes, checkpoint |-> x.checkpoint]
  /\ x.events \in Seq(Pieces)
  /\ SealShape(x.checkpoint)
  /\ x.checkpoint.of = "this" /\ x.checkpoint.sound
       => x.checkpoint \in Bundle!Checkpoints

ParcelInv ==
  /\ \A x \in exports : ParcelOK(x)
  /\ bundle = None \/ ParcelOK(bundle)

\* What a proof shows, whenever it is accepted: every event of it, in its place,
\* is one that some life of the journal had when a transaction ended, and that
\* life had no other events.
AcceptedEvents ==
  bundle # None =>
    \A trust \in Trusts : Bundle!Integrity(bundle, trust) = "valid" =>
      \E j \in history : bundle.events = j.stream

LEMMA SignedArePieces ==
  ASSUME HistoryInv
  PROVE  /\ Bundle!Signed \subseteq Pieces
         /\ \A e \in Bundle!Signed :
              \E j \in history : \E i \in 1 .. Len(j.stream) : e = j.stream[i]
<1>1. ASSUME NEW e \in Bundle!Signed
      PROVE  \E j \in history : \E i \in 1 .. Len(j.stream) : e = j.stream[i]
  <2>1. PICK j \in history : e \in Bundle!ToSet(j.stream)
    BY DEF Bundle!Signed
  <2>2. j.stream \in Seq(Entries)
    BY DEF HistoryInv, JournalOK, StreamOK
  <2> QED BY <2>1, <2>2 DEF Bundle!ToSet
<1>2. ASSUME NEW e \in Bundle!Signed
      PROVE  e \in Pieces
  <2>1. PICK j \in history : \E i \in 1 .. Len(j.stream) : e = j.stream[i]
    BY <1>1
  <2>2. e \in Entries
    BY <2>1 DEF HistoryInv, JournalOK, StreamOK
  <2> QED BY <2>2 DEF Pieces, Altered, Entries
<1> QED BY <1>1, <1>2

LEMMA StreamsArePieces ==
  ASSUME HistoryInv, NEW j \in history
  PROVE  j.stream \in Seq(Pieces) /\ Bundle!ToSet(j.stream) \subseteq Bundle!Signed
<1>1. j.stream \in Seq(Entries)
  BY DEF HistoryInv, JournalOK, StreamOK
<1>2. Bundle!ToSet(j.stream) \subseteq Bundle!Signed
  BY DEF Bundle!Signed
<1>3. \A i \in 1 .. Len(j.stream) : j.stream[i] \in Pieces
  BY <1>1, <1>2, SignedArePieces DEF Bundle!ToSet
<1> QED BY <1>1, <1>2, <1>3

HistoryOfPieces == \A j \in history : j.stream \in Seq(Pieces)

LEMMA PiecesNext == HistoryInv' => HistoryOfPieces'
<1>1. HistoryInv => HistoryOfPieces
  BY StreamsArePieces DEF HistoryOfPieces
<1> QED BY <1>1, PTL

\* More history makes no piece wrong.
LEMMA ParcelKept ==
  ASSUME history \subseteq history', NEW x, ParcelOK(x)
  PROVE  ParcelOK(x)'
<1>1. Bundle!Signed \subseteq Bundle!Signed'
      /\ Bundle!Checkpoints \subseteq Bundle!Checkpoints'
  BY DEF Bundle!Signed, Bundle!Checkpoints
<1>2. Pieces \subseteq Pieces' BY <1>1 DEF Pieces
<1>3. x.events \in Seq(Pieces') BY <1>2 DEF ParcelOK
<1> QED BY <1>1, <1>3 DEF ParcelOK

LEMMA ExportOK ==
  ASSUME HistoryInv, HistoryInv', ParcelInv, Bundle!Export,
         NEW x \in exports'
  PROVE  ParcelOK(x)'
<1>1. /\ journal' = Bundle!WithCheckpoint(journal) /\ journal' \in history'
      /\ history \subseteq history'
      /\ x \in exports \/ x = Bundle!ProofOf(journal')
  BY DEF Bundle!Export, HistoryInv
<1> DEFINE seq == Len(journal.stream)
           c == [of |-> "this", epoch |-> Action.epoch, seq |-> seq,
                 head |-> Bundle!HeadHash(journal), key |-> audit, sound |-> TRUE]
<1>2. journal'.stream = journal.stream
      /\ \E y \in journal'.checkpoints : y.seq = Len(journal'.stream)
  <2>1. CASE \E y \in journal.checkpoints : y.seq = seq
    BY <1>1, <2>1 DEF Bundle!WithCheckpoint
  <2>2. CASE ~ \E y \in journal.checkpoints : y.seq = seq
    <3>1. journal' = [journal EXCEPT !.checkpoints = @ \union {c}]
      BY <1>1, <2>2 DEF Bundle!WithCheckpoint
    <3>2. journal = [stream |-> journal.stream, votes |-> journal.votes,
                     state |-> journal.state, checkpoints |-> journal.checkpoints]
      BY DEF HistoryInv, JournalOK
    <3> HIDE DEF c
    <3>3. journal'.stream = journal.stream /\ c \in journal'.checkpoints
      BY <3>1, <3>2
    <3>4. c.seq = seq BY DEF c
    <3> QED BY <3>3, <3>4
  <2> QED BY <2>1, <2>2
<1>3. CASE x \in exports
  BY <1>1, <1>3, ParcelKept DEF ParcelInv
<1>4. CASE x = Bundle!ProofOf(journal')
  <2>1. /\ x = [events |-> x.events, votes |-> x.votes, checkpoint |-> x.checkpoint]
        /\ x.events = journal'.stream
        /\ x.checkpoint \in journal'.checkpoints
    BY <1>2, <1>4 DEF Bundle!ProofOf
  <2>2. (journal.stream \in Seq(Pieces))'
    BY <1>1, PiecesNext DEF HistoryOfPieces
  <2>3. SealShape(x.checkpoint)
    BY <1>1, <2>1 DEF HistoryInv, JournalOK, Seals
  <2>4. x.checkpoint \in Bundle!Checkpoints'
    BY <1>1, <2>1 DEF Bundle!Checkpoints
  <2> QED BY <2>1, <2>2, <2>3, <2>4 DEF ParcelOK
<1> QED BY <1>1, <1>3, <1>4

\* What may happen to a parcel on its way keeps it one.
LEMMA EventsReplaced ==
  ASSUME NEW x, ParcelOK(x), NEW es \in Seq(Pieces)
  PROVE  ParcelOK([x EXCEPT !.events = es])
BY DEF ParcelOK

LEMMA VotesReplaced ==
  ASSUME NEW x, ParcelOK(x), NEW vs
  PROVE  ParcelOK([x EXCEPT !.votes = vs])
BY DEF ParcelOK

LEMMA SealReplaced ==
  ASSUME NEW x, ParcelOK(x), NEW c, SealShape(c),
         c.of = "this" /\ c.sound => c \in Bundle!Checkpoints
  PROVE  ParcelOK([x EXCEPT !.checkpoint = c])
BY DEF ParcelOK

LEMMA SpoiltPieces ==
  ASSUME NEW e \in Pieces
  PROVE  /\ [e EXCEPT !.sound = FALSE] \in Pieces
         /\ [e EXCEPT !.hash = None] \in Pieces
         /\ [e EXCEPT !.of = "other"] \in Pieces
<1>1. e \in Altered BY DEF Pieces
<1>2. /\ [e EXCEPT !.sound = FALSE] \in Altered
      /\ [e EXCEPT !.sound = FALSE].sound = FALSE
      /\ [e EXCEPT !.hash = None] \in Altered
      /\ [e EXCEPT !.hash = None].hash = None
      /\ [e EXCEPT !.of = "other"] \in Altered
      /\ [e EXCEPT !.of = "other"].of = "other"
  BY <1>1 DEF Altered
<1> QED BY <1>2 DEF Pieces

\* The parcel after a mishap, as the actions write it.
LEMMA MishapOK ==
  ASSUME HistoryInv, ParcelOK(bundle), NEW x, ParcelOK(x), NEW loss,
         Bundle!Becomes(x, loss)
  PROVE  ParcelOK(bundle)'
<1>1. bundle' = x /\ history' = history
  BY DEF Bundle!Becomes, Bundle!issuer
<1>2. ParcelOK(x)'
  BY <1>1, ParcelKept
<1> QED BY <1>1, <1>2 DEF ParcelOK

LEMMA EventMishaps ==
  ASSUME HistoryInv, ParcelOK(bundle), NEW i \in DOMAIN bundle.events
  PROVE  /\ Bundle!LoseEvent(i) => ParcelOK(bundle)'
         /\ Bundle!LoseTail(i) => ParcelOK(bundle)'
         /\ Bundle!SpoilEvent(i) => ParcelOK(bundle)'
         /\ Bundle!SpoilHash(i) => ParcelOK(bundle)'
         /\ i < Len(bundle.events) /\ Bundle!SwapEvents(i) => ParcelOK(bundle)'
         /\ \A e \in Pieces : Bundle!MixEvent(i, e) => ParcelOK(bundle)'
         /\ Bundle!Foreign(bundle.events[i]) \in Pieces
<1> DEFINE es == bundle.events
<1>1. es \in Seq(Pieces) /\ i \in 1 .. Len(es) /\ es[i] \in Pieces
  BY DEF ParcelOK
<1>2. Bundle!LoseEvent(i) => ParcelOK(bundle)'
  <2>1. Bundle!RemoveAt(es, i) \in Seq(Pieces)
    BY <1>1 DEF Bundle!RemoveAt
  <2> QED BY <2>1, EventsReplaced, MishapOK DEF Bundle!LoseEvent
<1>3. Bundle!LoseTail(i) => ParcelOK(bundle)'
  <2>1. SubSeq(es, 1, i - 1) \in Seq(Pieces) BY <1>1
  <2> QED BY <2>1, EventsReplaced, MishapOK DEF Bundle!LoseTail
<1>4. ASSUME NEW e \in Pieces
      PROVE  ParcelOK([bundle EXCEPT !.events[i] = e])
  <2>1. [es EXCEPT ![i] = e] \in Seq(Pieces) BY <1>1, <1>4
  <2>2. [bundle EXCEPT !.events[i] = e] = [bundle EXCEPT !.events = [es EXCEPT ![i] = e]]
    BY DEF ParcelOK
  <2> QED BY <2>1, <2>2, EventsReplaced
<1>5. Bundle!SpoilEvent(i) => ParcelOK(bundle)'
  <2>1. [bundle EXCEPT !.events[i].sound = FALSE]
          = [bundle EXCEPT !.events[i] = [es[i] EXCEPT !.sound = FALSE]]
    BY DEF ParcelOK
  <2> QED BY <1>1, <1>4, <2>1, SpoiltPieces, MishapOK DEF Bundle!SpoilEvent
<1>6. Bundle!SpoilHash(i) => ParcelOK(bundle)'
  <2>1. [bundle EXCEPT !.events[i].hash = None]
          = [bundle EXCEPT !.events[i] = [es[i] EXCEPT !.hash = None]]
    BY DEF ParcelOK
  <2> QED BY <1>1, <1>4, <2>1, SpoiltPieces, MishapOK DEF Bundle!SpoilHash
<1>7. i < Len(es) /\ Bundle!SwapEvents(i) => ParcelOK(bundle)'
  <2> SUFFICES ASSUME i < Len(es), Bundle!SwapEvents(i) PROVE ParcelOK(bundle)'
    OBVIOUS
  <2>1. Bundle!Swap(es, i) \in Seq(Pieces)
    BY <1>1 DEF Bundle!Swap
  <2> QED BY <2>1, EventsReplaced, MishapOK DEF Bundle!SwapEvents
<1>8. \A e \in Pieces : Bundle!MixEvent(i, e) => ParcelOK(bundle)'
  BY <1>4, MishapOK DEF Bundle!MixEvent
<1>9. Bundle!Foreign(es[i]) \in Pieces
  BY <1>1, SpoiltPieces DEF Bundle!Foreign
<1> QED BY <1>2, <1>3, <1>5, <1>6, <1>7, <1>8, <1>9

LEMMA SealMishaps ==
  ASSUME HistoryInv, ParcelOK(bundle)
  PROVE  /\ Bundle!SpoilCheckpoint => ParcelOK(bundle)'
         /\ \A c \in Bundle!Checkpoints :
              Bundle!MixCheckpoint(c) \/ Bundle!MixCheckpoint(Bundle!Foreign(c))
                => ParcelOK(bundle)'
<1>1. Bundle!SpoilCheckpoint => ParcelOK(bundle)'
  <2> DEFINE c == [bundle.checkpoint EXCEPT !.sound = FALSE]
  <2>1. SealShape(c) /\ c.sound = FALSE
    BY DEF ParcelOK, SealShape
  <2>2. [bundle EXCEPT !.checkpoint.sound = FALSE] = [bundle EXCEPT !.checkpoint = c]
    BY DEF ParcelOK
  <2> HIDE DEF c
  <2> QED BY <2>1, <2>2, SealReplaced, MishapOK DEF Bundle!SpoilCheckpoint
<1>2. ASSUME NEW c \in Bundle!Checkpoints
      PROVE  SealShape(c) /\ SealShape(Bundle!Foreign(c))
             /\ Bundle!Foreign(c).of = "other"
  <2>1. SealShape(c)
    BY DEF Bundle!Checkpoints, HistoryInv, JournalOK, Seals
  <2> QED BY <2>1 DEF SealShape, Bundle!Foreign
<1>3. \A c \in Bundle!Checkpoints : Bundle!MixCheckpoint(c) => ParcelOK(bundle)'
  BY <1>2, SealReplaced, MishapOK DEF Bundle!MixCheckpoint
<1>4. \A c \in Bundle!Checkpoints :
         Bundle!MixCheckpoint(Bundle!Foreign(c)) => ParcelOK(bundle)'
  BY <1>2, SealReplaced, MishapOK DEF Bundle!MixCheckpoint
<1> QED BY <1>1, <1>3, <1>4

LEMMA TransportOK ==
  ASSUME HistoryInv, ParcelOK(bundle), Bundle!Transport
  PROVE  ParcelOK(bundle)'
<1>1. ASSUME NEW i \in DOMAIN bundle.votes, NEW v,
             \/ Bundle!LoseVote(i) \/ Bundle!SpoilVote(i)
             \/ Bundle!MixVote(i, v) \/ Bundle!SwapVotes(i)
      PROVE  ParcelOK(bundle)'
  <2> DEFINE vs == bundle.votes
  <2>1. /\ [bundle EXCEPT !.votes[i].sound = FALSE]
             = [bundle EXCEPT !.votes = [vs EXCEPT ![i] = [vs[i] EXCEPT !.sound = FALSE]]]
        /\ [bundle EXCEPT !.votes[i] = v]
             = [bundle EXCEPT !.votes = [vs EXCEPT ![i] = v]]
    BY DEF ParcelOK
  <2> QED BY <1>1, <2>1, VotesReplaced, MishapOK
          DEF Bundle!LoseVote, Bundle!SpoilVote, Bundle!MixVote,
              Bundle!SwapVotes
<1>2. ASSUME NEW v, Bundle!MixVotes(v)
      PROVE  ParcelOK(bundle)'
  BY <1>2, VotesReplaced, MishapOK DEF Bundle!MixVotes
<1>3. ASSUME NEW e \in Bundle!Signed, Bundle!MixTail(e)
      PROVE  ParcelOK(bundle)'
  <2>1. Append(bundle.events, e) \in Seq(Pieces)
    BY SignedArePieces DEF ParcelOK
  <2> QED BY <1>3, <2>1, EventsReplaced, MishapOK DEF Bundle!MixTail
<1>4. CASE Bundle!SpoilCheckpoint
           \/ \E c \in Bundle!Checkpoints :
                Bundle!MixCheckpoint(c) \/ Bundle!MixCheckpoint(Bundle!Foreign(c))
  BY <1>4, SealMishaps
<1>5. ASSUME NEW i \in DOMAIN bundle.events,
             \/ Bundle!LoseEvent(i) \/ Bundle!LoseTail(i)
             \/ Bundle!SpoilEvent(i) \/ Bundle!SpoilHash(i)
             \/ i < Len(bundle.events) /\ Bundle!SwapEvents(i)
             \/ Bundle!MixEvent(i, Bundle!Foreign(bundle.events[i]))
             \/ \E e \in Bundle!Signed : Bundle!MixEvent(i, e)
      PROVE  ParcelOK(bundle)'
  BY <1>5, EventMishaps, SignedArePieces
<1> QED BY <1>1, <1>2, <1>3, <1>4, <1>5 DEF Bundle!Transport

LEMMA ParcelStep ==
  ASSUME HistoryInv, HistoryInv', ParcelInv, [Bundle!Next]_(Bundle!vars)
  PROVE  ParcelInv'
<1>1. CASE UNCHANGED <<exports, bundle>> /\ history \subseteq history'
  BY <1>1, ParcelKept DEF ParcelInv
<1>2. CASE Bundle!Export
  <2>1. \A x \in exports' : ParcelOK(x)' BY <1>2, ExportOK
  <2>2. bundle' = None BY <1>2 DEF Bundle!Export
  <2> QED BY <2>1, <2>2 DEF ParcelInv
<1>3. CASE Bundle!Issue /\ ~Bundle!Export
  <2>1. UNCHANGED <<exports, bundle>> /\ history \subseteq history'
    <3>1. history \subseteq history'
      BY IssuerSplit DEF Transaction, issued
    <3>2. ASSUME NEW k \in Bundle!Keys, NEW d \in {"approve", "reject"},
                 Bundle!Submit(k, d)
          PROVE  UNCHANGED <<exports, bundle>>
      BY <3>2 DEF Bundle!Submit
    <3>3. ASSUME NEW from, NEW data, NEW to, Bundle!Step(from, data, to)
          PROVE  UNCHANGED <<exports, bundle>>
      BY <3>3 DEF Bundle!Step
    <3>4. ASSUME NEW j, NEW key, Bundle!Restart(j, key)
          PROVE  UNCHANGED <<exports, bundle>>
      BY <3>4 DEF Bundle!Restart
    <3>5. CASE Bundle!Backup BY <3>1, <3>5 DEF Bundle!Backup
    <3> QED BY <1>3, <3>1, <3>2, <3>3, <3>4, <3>5
            DEF Bundle!Issue, Bundle!Commit, Bundle!Cancel, Bundle!Report
  <2> QED BY <1>1, <2>1
<1>4. ASSUME NEW x \in exports, Bundle!Take(x)
      PROVE  ParcelInv'
  <2>1. UNCHANGED <<exports, history>> /\ bundle' = x
    BY <1>4 DEF Bundle!Take, Bundle!issuer
  <2> QED BY <2>1, ParcelKept DEF ParcelInv
<1>5. CASE bundle # None /\ Bundle!Transport
  <2>1. ParcelOK(bundle) BY <1>5 DEF ParcelInv
  <2>2. ParcelOK(bundle)' BY <1>5, <2>1, TransportOK
  <2>3. UNCHANGED <<exports, history>>
    BY <1>5 DEF Bundle!Transport, Bundle!SpoilCheckpoint, Bundle!LoseEvent,
         Bundle!LoseTail, Bundle!SpoilEvent, Bundle!SpoilHash,
         Bundle!SwapEvents, Bundle!MixEvent, Bundle!MixTail,
         Bundle!MixCheckpoint, Bundle!LoseVote, Bundle!SpoilVote,
         Bundle!MixVote, Bundle!SwapVotes, Bundle!MixVotes,
         Bundle!Becomes, Bundle!issuer
  <2> QED BY <2>2, <2>3, ParcelKept DEF ParcelInv
<1>6. CASE UNCHANGED Bundle!vars
  BY <1>1, <1>6 DEF Bundle!vars
<1> QED BY <1>2, <1>3, <1>4, <1>5, <1>6 DEF Bundle!Next

\* What verify_proof has found out when it calls a proof valid.
LEMMA ValidMeans ==
  ASSUME NEW trust, Bundle!Integrity(bundle, trust) = "valid"
  PROVE  /\ Bundle!Binding(bundle) = "ok"
         /\ Bundle!Signatures(bundle, trust) = "ok"
         /\ Bundle!Chain(bundle) = "ok"
         /\ Bundle!Replay(bundle) = "ok"
<1>1. Bundle!Failure(bundle, trust)[2] = "ok"
  <2> DEFINE f == Bundle!Failure(bundle, trust)
  <2>1. Bundle!Integrity(bundle, trust) =
          CASE f[2] = "ok" -> "valid"
            [] \/ f[2] = "MISSING_EVIDENCE"
               \/ f = <<"chain", "CHECKPOINT_MISMATCH">> -> "incomplete"
            [] OTHER -> "invalid"
    BY DEF Bundle!Integrity
  <2> HIDE DEF f
  <2>2. SUFFICES ASSUME f[2] # "ok" PROVE FALSE
    BY DEF f
  <2> QED BY <2>1, <2>2
<1>2. Bundle!Failure(bundle, trust) =
        IF Bundle!Binding(bundle) # "ok" THEN <<"binding", Bundle!Binding(bundle)>>
        ELSE IF trust = {} THEN <<"trust", "UNTRUSTED">>
        ELSE IF Bundle!Signatures(bundle, trust) # "ok"
          THEN <<"signatures", Bundle!Signatures(bundle, trust)>>
        ELSE IF Bundle!Chain(bundle) # "ok" THEN <<"chain", Bundle!Chain(bundle)>>
        ELSE IF Bundle!Replay(bundle) # "ok" THEN <<"replay", Bundle!Replay(bundle)>>
        ELSE <<"none", "ok">>
  BY DEF Bundle!Failure
<1> QED BY <1>1, <1>2

LEMMA ValidPieces ==
  ASSUME HistoryInv, ParcelOK(bundle), NEW trust,
         Bundle!Integrity(bundle, trust) = "valid"
  PROVE  /\ bundle.events # <<>>
         /\ \A i \in 1 .. Len(bundle.events) :
              bundle.events[i] \in Bundle!Signed /\ InPlace(bundle.events, i)
         /\ bundle.checkpoint \in Bundle!Checkpoints
         /\ Bundle!AtHead(bundle)
<1>1. /\ Bundle!Binding(bundle) = "ok" /\ Bundle!Signatures(bundle, trust) = "ok"
      /\ Bundle!Chain(bundle) = "ok"
  BY ValidMeans
<1>2. /\ bundle.checkpoint.of = "this"
      /\ \A e \in Bundle!ToSet(bundle.events) : e.of = "this"
  BY <1>1 DEF Bundle!Binding
<1>3. /\ bundle.events # <<>> /\ bundle.checkpoint.sound
      /\ \A e \in Bundle!ToSet(bundle.events) : e.sound
  BY <1>1 DEF Bundle!Signatures
<1>4. /\ \A i \in DOMAIN bundle.events : ~Bundle!ChainBreak(bundle, i)
      /\ Bundle!AtHead(bundle)
  <2> DEFINE breaks == {i \in DOMAIN bundle.events : Bundle!ChainBreak(bundle, i)}
  <2>1. Bundle!Chain(bundle) =
          IF breaks = {}
          THEN IF Bundle!AtHead(bundle) THEN "ok" ELSE "CHECKPOINT_MISMATCH"
          ELSE LET i == CHOOSE n \in breaks : \A m \in breaks : n <= m IN
               IF bundle.events[i].seq # i THEN "MISSING_EVIDENCE" ELSE "CHAIN_BREAK"
    BY DEF Bundle!Chain
  <2>2. breaks = {} /\ Bundle!AtHead(bundle)
    <3> HIDE DEF breaks
    <3> QED BY <1>1, <2>1
  <2> QED BY <2>2
<1>5. ASSUME NEW i \in 1 .. Len(bundle.events)
      PROVE  bundle.events[i] \in Bundle!Signed /\ InPlace(bundle.events, i)
  <2> DEFINE e == bundle.events[i]
  <2>1. e \in Pieces /\ e \in Bundle!ToSet(bundle.events)
    BY DEF ParcelOK, Bundle!ToSet
  <2>2. InPlace(bundle.events, i)
    BY <1>4, <1>5 DEF ParcelOK, Bundle!ChainBreak, Bundle!Linked, InPlace
  <2>3. e.hash # None
    <3>1. e.hash = e.receipt /\ e.receipt \in Nat
      BY <2>1, <2>2 DEF InPlace, Pieces, Altered
    <3>2. None \notin Nat
      BY EvidenceAssumption DEF Bundle!BundleAssumption
    <3> QED BY <3>1, <3>2
  <2>4. e.of = "this" /\ e.sound BY <1>2, <1>3, <2>1
  <2> QED BY <2>1, <2>2, <2>3, <2>4 DEF Pieces
<1>6. bundle.checkpoint \in Bundle!Checkpoints
  BY <1>2, <1>3 DEF ParcelOK
<1> QED BY <1>3, <1>4, <1>5, <1>6

\* Signed events in their places, linked up to one that a life of the journal
\* has there, are what that life has up to there.
LEMMA LinkedArePrefix ==
  ASSUME HistoryInv, NEW es \in Seq(Pieces), NEW k \in history,
         \A i \in 1 .. Len(es) : es[i] \in Bundle!Signed /\ InPlace(es, i),
         Len(es) \in 1 .. Len(k.stream), es[Len(es)] = k.stream[Len(es)]
  PROVE  \A i \in 1 .. Len(es) : es[i] = k.stream[i]
<1> DEFINE n == Len(es)
           bad == {i \in 1 .. n : es[i] # k.stream[i]}
           back == {n - i : i \in bad}
<1> SUFFICES ASSUME bad # {} PROVE FALSE
  OBVIOUS
<1>1. n \in Nat \ {0} /\ StreamOK(k.stream, minted)
  BY DEF HistoryInv, JournalOK
<1>2. PICK i \in bad : \A x \in bad : n - i <= n - x
  <2>1. back \in SUBSET Nat /\ back # {} BY <1>1
  <2>2. PICK y \in back : \A x \in back : y <= x
    <3> HIDE DEF back
    <3> QED BY <2>1, LeastElement
  <2> QED BY <2>2
<1>3. i \in 1 .. n /\ i < n /\ i + 1 \in 1 .. n /\ i + 1 \notin bad /\ es[i] # k.stream[i]
  BY <1>1, <1>2
<1>4. es[i + 1] = k.stream[i + 1]
  BY <1>3
<1> HIDE DEF bad, back
<1>5. /\ es[i + 1].prev = es[i].hash /\ es[i].hash = es[i].receipt
      /\ es[i].seq = i
  BY <1>1, <1>3 DEF InPlace
<1>6. /\ k.stream[i + 1].prev = k.stream[i].hash
      /\ k.stream[i].hash = k.stream[i].receipt
  BY <1>1, <1>3 DEF StreamOK, InPlace
<1>7. PICK j \in history : \E p \in 1 .. Len(j.stream) : es[i] = j.stream[p]
  BY <1>3, SignedArePieces
<1>8. PICK p \in 1 .. Len(j.stream) : es[i] = j.stream[p]
  BY <1>7
<1>9. j.stream[p].receipt = k.stream[i].receipt
  BY <1>4, <1>5, <1>6, <1>8
<1>10. Agree(j.stream, k.stream) /\ i \in 1 .. Len(k.stream)
  BY <1>1, <1>3 DEF HistoryInv, StreamOK
<1>11. p = i /\ j.stream[p] = k.stream[p]
  BY <1>9, <1>10 DEF Agree
<1> QED BY <1>3, <1>8, <1>11

LEMMA AcceptedFollows ==
  ASSUME HistoryInv, ParcelInv
  PROVE  AcceptedEvents
<1> SUFFICES ASSUME bundle # None, NEW trust \in Trusts,
                    Bundle!Integrity(bundle, trust) = "valid"
             PROVE  \E j \in history : bundle.events = j.stream
  BY DEF AcceptedEvents
<1> DEFINE es == bundle.events
           n == Len(es)
           c == bundle.checkpoint
<1>1. ParcelOK(bundle) /\ es \in Seq(Pieces)
  BY DEF ParcelInv, ParcelOK
<1>2. /\ n \in Nat \ {0} /\ n \in 1 .. n
      /\ \A i \in 1 .. n : es[i] \in Bundle!Signed /\ InPlace(es, i)
      /\ c \in Bundle!Checkpoints
      /\ c.seq = es[n].seq /\ c.head = es[n].hash
  BY <1>1, ValidPieces DEF Bundle!AtHead, Bundle!Last
<1>3. PICK j \in history : c \in j.checkpoints
  BY <1>2 DEF Bundle!Checkpoints
<1>4. PICK k \in history : Seals(c, k)
  BY <1>3 DEF HistoryInv, JournalOK
<1>5. /\ k.stream \in Seq(Entries) /\ Len(k.stream) = n
      /\ k.stream[n].receipt = es[n].receipt
  <2>1. StreamOK(k.stream, minted) BY DEF HistoryInv, JournalOK
  <2>2. Len(k.stream) = n BY <1>2, <1>4 DEF Seals, InPlace
  <2> QED BY <1>2, <1>4, <2>1, <2>2 DEF Seals, InPlace, StreamOK
<1>6. PICK l \in history : \E p \in 1 .. Len(l.stream) : es[n] = l.stream[p]
  BY <1>2, SignedArePieces
<1>7. PICK p \in 1 .. Len(l.stream) : es[n] = l.stream[p]
  BY <1>6
<1>8. es[n] = k.stream[n]
  <2>1. Agree(l.stream, k.stream) BY DEF HistoryInv
  <2>2. p = n /\ l.stream[p] = k.stream[p]
    BY <1>2, <1>5, <1>7, <2>1 DEF Agree
  <2> QED BY <1>7, <2>2
<1>9. \A i \in 1 .. n : es[i] = k.stream[i]
  BY <1>1, <1>2, <1>5, <1>8, LinkedArePrefix
<1>10. es = k.stream
  BY <1>1, <1>5, <1>9
<1> QED BY <1>10

(* Replaying a stream.  The verifier folds a step over the whole stream;   *)
(* its fold is unrolled here into a run of states, one for each event.     *)

\* Where the replay starts, after Proposed.
Blank == [state |-> "OPEN", recorded |-> {}, approved |-> {}]

\* f folds the replay over the sets of positions in 1 .. n.
FoldsTo(f, a, b, es, n) ==
  f = [s \in SUBSET (1 .. n) |->
         IF s = {} THEN Blank
         ELSE Bundle!V!ReplayStep(a, b, f[s \ {Bundle!V!Max(s)}], es[Bundle!V!Max(s)])]

LEMMA ReduceIsFold ==
  ASSUME NEW a, NEW b, NEW S, NEW es \in Seq(S), es # <<>>
  PROVE  Bundle!V!Reduce(a, b, es) =
           (CHOOSE f : FoldsTo(f, a, b, Tail(es), Len(es) - 1))[1 .. Len(es) - 1]
<1> DEFINE Folds(f) == f = [s \in SUBSET DOMAIN Tail(es) |->
         IF s = {} THEN Blank
         ELSE Bundle!V!ReplayStep(a, b, f[s \ {Bundle!V!Max(s)}], Tail(es)[Bundle!V!Max(s)])]
<1>1. Bundle!V!Reduce(a, b, es) = (CHOOSE f : Folds(f))[DOMAIN Tail(es)]
  BY DEF Bundle!V!Reduce, Bundle!V!FoldLeft, Bundle!V!MapThenFoldSet, Blank
<1>2. DOMAIN Tail(es) = 1 .. Len(es) - 1
  OBVIOUS
<1> QED BY <1>1, <1>2 DEF FoldsTo

LEMMA GreatestOf ==
  ASSUME NEW n \in Nat, NEW s \in SUBSET (1 .. n), s # {}
  PROVE  Bundle!V!Max(s) \in s /\ \A y \in s : Bundle!V!Max(s) >= y
<1> DEFINE T == {n - x : x \in s}
<1>1. T \in SUBSET Nat /\ T # {}
  <2>1. \A x \in s : n - x \in Nat OBVIOUS
  <2> QED BY <2>1
<1>2. PICK t \in T : \A y \in T : t <= y
  <2> HIDE DEF T
  <2> QED BY <1>1, LeastElement
<1>3. PICK x \in s : t = n - x OBVIOUS
<1>4. \A y \in s : x >= y
  <2> SUFFICES ASSUME NEW y \in s PROVE x >= y OBVIOUS
  <2>1. n - x <= n - y BY <1>2, <1>3
  <2> QED BY <2>1
<1> QED BY <1>4 DEF Bundle!V!Max

LEMMA GreatestIs ==
  ASSUME NEW n \in Nat, NEW s \in SUBSET (1 .. n), n \in s
  PROVE  Bundle!V!Max(s) = n
<1>1. Bundle!V!Max(s) \in s /\ Bundle!V!Max(s) >= n BY GreatestOf
<1>2. Bundle!V!Max(s) \in 1 .. n BY <1>1
<1> HIDE DEF Bundle!V!Max
<1> QED BY <1>1, <1>2

LEMMA FoldExists ==
  ASSUME NEW a, NEW b, NEW es
  PROVE  \A n \in Nat : \E f : FoldsTo(f, a, b, es, n)
<1> DEFINE bad == {n \in Nat : ~ \E f : FoldsTo(f, a, b, es, n)}
<1> SUFFICES ASSUME bad # {} PROVE FALSE
  OBVIOUS
<1>1. PICK n \in bad : \A m \in bad : n <= m
  <2>1. bad \in SUBSET Nat OBVIOUS
  <2> HIDE DEF bad
  <2> QED BY <2>1, LeastElement
<1>2. n \in Nat /\ ~ \E f : FoldsTo(f, a, b, es, n)
  OBVIOUS
<1>3. n # 0
  <2> SUFFICES ASSUME n = 0 PROVE FALSE OBVIOUS
  <2> DEFINE f == [s \in SUBSET (1 .. 0) |-> Blank]
  <2>1. \A s \in SUBSET (1 .. 0) : s = {} OBVIOUS
  <2>2. FoldsTo(f, a, b, es, 0) BY <2>1 DEF FoldsTo
  <2> QED BY <1>2, <2>2
<1>4. PICK m \in Nat : n = m + 1
  <2>1. n - 1 \in Nat /\ n = (n - 1) + 1 BY <1>2, <1>3
  <2> QED BY <2>1
<1>5. PICK g : FoldsTo(g, a, b, es, m)
  <2>1. m \notin bad BY <1>1, <1>4
  <2> QED BY <2>1
<1> HIDE DEF bad
<1> DEFINE f == [s \in SUBSET (1 .. n) |->
                   IF n \in s THEN Bundle!V!ReplayStep(a, b, g[s \ {n}], es[n]) ELSE g[s]]
<1>6. ASSUME NEW s \in SUBSET (1 .. n)
      PROVE  f[s] = IF s = {} THEN Blank
                    ELSE Bundle!V!ReplayStep(a, b, f[s \ {Bundle!V!Max(s)}], es[Bundle!V!Max(s)])
  <2>1. CASE n \in s
    <3>1. Bundle!V!Max(s) = n BY <1>4, <2>1, GreatestIs
    <3>2. s \ {n} \in SUBSET (1 .. n) /\ n \notin s \ {n} OBVIOUS
    <3>3. f[s \ {n}] = g[s \ {n}] BY <3>2
    <3> QED BY <2>1, <3>1, <3>3
  <2>2. CASE n \notin s
    <3>1. s \in SUBSET (1 .. m) BY <1>4, <2>2
    <3>2. f[s] = g[s] BY <2>2
    <3>3. CASE s = {} BY <3>1, <3>2, <3>3, <1>5 DEF FoldsTo
    <3>4. CASE s # {}
      <4>1. s \ {Bundle!V!Max(s)} \in SUBSET (1 .. n) /\ n \notin s \ {Bundle!V!Max(s)}
        BY <2>2
      <4>2. f[s \ {Bundle!V!Max(s)}] = g[s \ {Bundle!V!Max(s)}] BY <4>1
      <4>3. g[s] = Bundle!V!ReplayStep(a, b, g[s \ {Bundle!V!Max(s)}], es[Bundle!V!Max(s)])
        BY <1>5, <3>1, <3>4 DEF FoldsTo
      <4> QED BY <3>2, <3>4, <4>2, <4>3
    <3> QED BY <3>3, <3>4
  <2> QED BY <2>1, <2>2
<1>7. FoldsTo(f, a, b, es, n)
  BY <1>6 DEF FoldsTo
<1> QED BY <1>2, <1>7

\* The reduced states at the positions of a stream, from the proposal on.
Run(r, a, b, es) ==
  /\ r[1] = Blank
  /\ \A i \in 2 .. Len(es) : r[i] = Bundle!V!ReplayStep(a, b, r[i - 1], es[i])

LEMMA ReduceIsRun ==
  ASSUME NEW a, NEW b, NEW S, NEW es \in Seq(S), es # <<>>
  PROVE  \E r : Run(r, a, b, es) /\ Bundle!V!Reduce(a, b, es) = r[Len(es)]
<1> DEFINE n == Len(es) - 1
           f == CHOOSE g : FoldsTo(g, a, b, Tail(es), n)
           r == [i \in 1 .. Len(es) |-> f[1 .. i - 1]]
<1>1. n \in Nat OBVIOUS
<1>2. FoldsTo(f, a, b, Tail(es), n)
  BY <1>1, FoldExists
<1>3. Bundle!V!Reduce(a, b, es) = f[1 .. n]
  BY ReduceIsFold
<1> HIDE DEF f
<1>4. r[1] = Blank
  <2>1. r[1] = f[1 .. 0] BY <1>1
  <2>2. 1 .. 0 = {} OBVIOUS
  <2>3. f[{}] = Blank BY <1>2 DEF FoldsTo
  <2> QED BY <2>1, <2>2, <2>3
<1>5. ASSUME NEW i \in 2 .. Len(es)
      PROVE  r[i] = Bundle!V!ReplayStep(a, b, r[i - 1], es[i])
  <2> DEFINE s == 1 .. i - 1
  <2>1. /\ s \in SUBSET (1 .. n) /\ s # {} /\ i - 1 \in s
        /\ s \ {i - 1} = 1 .. (i - 1) - 1
    <3>1. i \in Nat /\ i >= 2 /\ i - 1 <= n BY <1>1
    <3>2. \A x \in Nat : x \in s => x \in 1 .. n BY <1>1, <3>1
    <3>3. i - 1 \in s BY <3>1
    <3>4. \A x : x \in s \ {i - 1} <=> x \in 1 .. (i - 1) - 1 BY <3>1
    <3> QED BY <3>2, <3>3, <3>4
  <2>2. Bundle!V!Max(s) = i - 1
    <3>1. i - 1 \in Nat /\ s \in SUBSET (1 .. i - 1) OBVIOUS
    <3> QED BY <2>1, <3>1, GreatestIs
  <2>3. f[s] = Bundle!V!ReplayStep(a, b, f[s \ {i - 1}], Tail(es)[i - 1])
    BY <1>2, <2>1, <2>2 DEF FoldsTo
  <2>4. Tail(es)[i - 1] = es[i]
    OBVIOUS
  <2>5. r[i] = f[s] /\ r[i - 1] = f[1 .. (i - 1) - 1]
    OBVIOUS
  <2> HIDE DEF r
  <2> QED BY <2>1, <2>3, <2>4, <2>5
<1>6. r[Len(es)] = f[1 .. n] OBVIOUS
<1> QED BY <1>3, <1>4, <1>5, <1>6 DEF Run

\* Two ballots that the votes of the stream do not tell apart.
SameFor(b, c, es) ==
  \A i \in 1 .. Len(es) : es[i].type = "VoteRecorded" => b[es[i].key] = c[es[i].key]

LEMMA SameSteps ==
  ASSUME NEW a, NEW b, NEW c, NEW r, NEW e,
         e.type = "VoteRecorded" => b[e.key] = c[e.key]
  PROVE  Bundle!V!ReplayStep(a, b, r, e) = Bundle!V!ReplayStep(a, c, r, e)
<1>1. Bundle!V!LegalEvent(a, b, r, e) = Bundle!V!LegalEvent(a, c, r, e)
  <2>1. CASE e.type = "VoteRecorded"
    BY <2>1 DEF Bundle!V!LegalEvent
  <2>2. CASE e.type # "VoteRecorded"
    BY <2>2 DEF Bundle!V!LegalEvent
  <2> QED BY <2>1, <2>2
<1> QED BY <1>1 DEF Bundle!V!ReplayStep

LEMMA RunsAgree ==
  ASSUME NEW a, NEW b, NEW c, NEW es, NEW more, NEW r, NEW q,
         Run(r, a, b, es), Run(q, a, c, more), SameFor(b, c, es),
         Len(es) \in Nat, Len(more) \in Nat, Len(es) <= Len(more),
         \A i \in 1 .. Len(es) : es[i] = more[i]
  PROVE  \A i \in 1 .. Len(es) : r[i] = q[i]
<1> DEFINE bad == {i \in 1 .. Len(es) : r[i] # q[i]}
<1> SUFFICES ASSUME bad # {} PROVE FALSE OBVIOUS
<1>1. PICK i \in bad : \A m \in bad : i <= m
  <2>1. bad \in SUBSET Nat OBVIOUS
  <2> HIDE DEF bad
  <2> QED BY <2>1, LeastElement
<1>2. i \in 1 .. Len(es) /\ r[i] # q[i] OBVIOUS
<1>3. i # 1 BY <1>2 DEF Run
<1>4. i - 1 \in 1 .. Len(es) /\ i - 1 \notin bad /\ i \in 2 .. Len(es) /\ i \in 2 .. Len(more)
  BY <1>1, <1>2, <1>3
<1>5. r[i - 1] = q[i - 1] BY <1>4
<1>6. /\ r[i] = Bundle!V!ReplayStep(a, b, r[i - 1], es[i])
      /\ q[i] = Bundle!V!ReplayStep(a, c, q[i - 1], more[i])
  BY <1>4 DEF Run
<1>7. Bundle!V!ReplayStep(a, b, r[i - 1], es[i]) = Bundle!V!ReplayStep(a, c, r[i - 1], es[i])
  BY <1>2, SameSteps DEF SameFor
<1> QED BY <1>2, <1>5, <1>6, <1>7

\* The replay of a longer stream goes on from the replay of the shorter one,
\* also when votes have come in between.
LEMMA ReduceAppend ==
  ASSUME NEW a, NEW b, NEW c, NEW S, NEW es \in Seq(S), es # <<>>, NEW e \in S,
         SameFor(b, c, es)
  PROVE  Bundle!V!Reduce(a, c, Append(es, e)) = Bundle!V!ReplayStep(a, c, Bundle!V!Reduce(a, b, es), e)
<1> DEFINE more == Append(es, e)
<1>1. /\ more \in Seq(S) /\ more # <<>> /\ Len(more) = Len(es) + 1
      /\ \A i \in 1 .. Len(es) : es[i] = more[i]
      /\ more[Len(es) + 1] = e
      /\ Len(es) \in Nat \ {0}
  OBVIOUS
<1> HIDE DEF more
<1>2. PICK r : Run(r, a, b, es) /\ Bundle!V!Reduce(a, b, es) = r[Len(es)]
  BY ReduceIsRun
<1>3. PICK q : Run(q, a, c, more) /\ Bundle!V!Reduce(a, c, more) = q[Len(more)]
  BY <1>1, ReduceIsRun
<1>4. r[Len(es)] = q[Len(es)]
  BY <1>1, <1>2, <1>3, RunsAgree
<1>5. q[Len(more)] = Bundle!V!ReplayStep(a, c, q[Len(more) - 1], more[Len(more)])
  BY <1>1, <1>3 DEF Run
<1>6. Len(more) - 1 = Len(es) BY <1>1
<1> QED BY <1>1, <1>2, <1>3, <1>4, <1>5, <1>6 DEF more

LEMMA ReduceFirst ==
  ASSUME NEW a, NEW b, NEW e
  PROVE  Bundle!V!Reduce(a, b, <<e>>) = Blank
<1>1. <<e>> \in Seq({e}) /\ <<e>> # <<>> /\ Len(<<e>>) = 1 OBVIOUS
<1>2. PICK r : Run(r, a, b, <<e>>) /\ Bundle!V!Reduce(a, b, <<e>>) = r[1]
  BY <1>1, ReduceIsRun
<1> QED BY <1>2 DEF Run

-----------------------------------------------------------------------------
(* Votes in the order of their keys.                                       *)

LEMMA BundleCounts ==
  /\ \A S : Bundle!Cardinality(S) = Cardinality(S)
  /\ \A S : Bundle!IsFiniteSet(S) <=> IsFiniteSet(S)
BY DEF Bundle!Cardinality, Bundle!IsFiniteSet, Cardinality, IsFiniteSet

\* How many keys of K are not greater than k.
Rank(K, k) == Cardinality({x \in K : x <= k})

LEMMA RankGrows ==
  ASSUME NEW K \in SUBSET Int, IsFiniteSet(K), NEW j \in K, NEW k \in K, j < k
  PROVE  Rank(K, j) < Rank(K, k)
<1> DEFINE A == {x \in K : x <= j}
           B == {x \in K : x <= k}
<1>1. A \subseteq B /\ k \in B /\ k \notin A
  <2>1. \A x \in K : x <= j => x <= k OBVIOUS
  <2>2. ~(k <= j) /\ k <= k OBVIOUS
  <2> QED BY <2>1, <2>2
<1>2. IsFiniteSet(B) /\ A # B
  BY <1>1, FS_Subset
<1> HIDE DEF A, B
<1>3. /\ Cardinality(A) \in Nat /\ Cardinality(B) \in Nat
      /\ Cardinality(A) <= Cardinality(B) /\ Cardinality(A) # Cardinality(B)
  BY <1>1, <1>2, FS_Subset, FS_CardinalityType
<1> QED BY <1>3 DEF Rank, A, B

LEMMA RankBounds ==
  ASSUME NEW K \in SUBSET Int, IsFiniteSet(K), NEW k \in K
  PROVE  Cardinality(K) \in Nat /\ Rank(K, k) \in 1 .. Cardinality(K)
<1> DEFINE B == {x \in K : x <= k}
<1>1. IsFiniteSet(B) /\ B \subseteq K /\ k \in B
  BY FS_Subset
<1> HIDE DEF B
<1>2. /\ Cardinality(B) \in Nat /\ Cardinality(K) \in Nat
      /\ Cardinality(B) <= Cardinality(K) /\ Cardinality(B) # 0
  BY <1>1, FS_Subset, FS_CardinalityType, FS_EmptySet
<1> QED BY <1>2 DEF Rank, B

LEMMA RankReaches ==
  ASSUME NEW K \in SUBSET Int, IsFiniteSet(K), NEW i \in 1 .. Cardinality(K)
  PROVE  \E k \in K : Rank(K, k) = i
<1> DEFINE n == Cardinality(K)
           f == [k \in K |-> Rank(K, k)]
<1>1. n \in Nat BY FS_CardinalityType
<1>2. f \in [K -> 1 .. n] BY RankBounds
<1>3. \A j, k \in K : f[j] = f[k] => j = k
  <2> SUFFICES ASSUME NEW j \in K, NEW k \in K, f[j] = f[k], j # k PROVE FALSE
    OBVIOUS
  <2>1. j < k \/ k < j OBVIOUS
  <2>2. f[j] \in 1 .. n /\ f[k] \in 1 .. n BY <1>2
  <2>3. ~(f[j] < f[k]) /\ ~(f[k] < f[j]) BY <1>1, <2>2
  <2> QED BY <2>1, <2>3, RankGrows
<1>4. f \in Injection(K, 1 .. n)
  BY <1>2, <1>3 DEF Injection, IsInjective
<1>5. IsFiniteSet(1 .. n) /\ Cardinality(1 .. n) = n
  BY <1>1, FS_Interval
<1>6. f \in Surjection(K, 1 .. n)
  <2> HIDE DEF f, n
  <2> QED BY <1>4, <1>5, FS_Injection DEF n
<1> QED BY <1>6 DEF Surjection

LEMMA RankedIs ==
  ASSUME NEW K \in SUBSET Int, IsFiniteSet(K)
  PROVE  /\ \A i \in 1 .. Cardinality(K) :
              Bundle!Ranked(K, i) \in K /\ Rank(K, Bundle!Ranked(K, i)) = i
         /\ \A k \in K : k = Bundle!Ranked(K, Rank(K, k))
         /\ \A i, j \in 1 .. Cardinality(K) :
              i < j => Bundle!Ranked(K, i) < Bundle!Ranked(K, j)
<1>1. ASSUME NEW i
      PROVE  Bundle!Ranked(K, i) = CHOOSE k \in K : Rank(K, k) = i
  BY BundleCounts DEF Bundle!Ranked, Rank
<1>2. ASSUME NEW i \in 1 .. Cardinality(K)
      PROVE  Bundle!Ranked(K, i) \in K /\ Rank(K, Bundle!Ranked(K, i)) = i
  BY <1>1, RankReaches
<1>3. ASSUME NEW j \in K, NEW k \in K, Rank(K, j) = Rank(K, k)
      PROVE  j = k
  <2>1. Rank(K, j) \in Nat BY RankBounds
  <2>2. ~(j < k) /\ ~(k < j) BY <1>3, <2>1, RankGrows
  <2> QED BY <2>2
<1>4. ASSUME NEW k \in K
      PROVE  k = Bundle!Ranked(K, Rank(K, k))
  BY <1>2, <1>3, RankBounds
<1>5. ASSUME NEW i \in 1 .. Cardinality(K), NEW j \in 1 .. Cardinality(K), i < j
      PROVE  Bundle!Ranked(K, i) < Bundle!Ranked(K, j)
  <2> DEFINE x == Bundle!Ranked(K, i)
             y == Bundle!Ranked(K, j)
  <2>1. x \in K /\ y \in K /\ Rank(K, x) = i /\ Rank(K, y) = j BY <1>2
  <2> HIDE DEF x, y
  <2>2. i \in Nat /\ j \in Nat BY FS_CardinalityType
  <2>3. x # y BY <2>1, <1>5, <2>2
  <2>4. ~(y < x) BY <2>1, <2>2, <1>5, RankGrows
  <2>5. x < y BY <2>1, <2>3, <2>4
  <2> QED BY <2>5 DEF x, y
<1> QED BY <1>2, <1>4, <1>5

\* A sequence of keys that only ascends is the ranking of its keys.
LEMMA AscendingIsRanked ==
  ASSUME NEW s, NEW n \in Nat, \A i \in 1 .. n : s[i] \in Int,
         \A i, j \in 1 .. n : i < j => s[i] < s[j]
  PROVE  LET K == {s[i] : i \in 1 .. n} IN
         /\ IsFiniteSet(K) /\ Cardinality(K) = n
         /\ \A i \in 1 .. n : s[i] = Bundle!Ranked(K, i)
<1> DEFINE K == {s[i] : i \in 1 .. n}
<1>1. ASSUME NEW m \in 0 .. n
      PROVE  /\ IsFiniteSet({s[i] : i \in 1 .. m})
             /\ Cardinality({s[i] : i \in 1 .. m}) = m
  <2> DEFINE T == {s[i] : i \in 1 .. m}
             f == [i \in 1 .. m |-> s[i]]
  <2>1. f \in [1 .. m -> T] /\ \A i, j \in 1 .. m : f[i] = f[j] => i = j
    <3>1. ASSUME NEW i \in 1 .. m, NEW j \in 1 .. m, f[i] = f[j] PROVE i = j
      <4>1. i \in 1 .. n /\ j \in 1 .. n OBVIOUS
      <4>2. ~(s[i] < s[j]) /\ ~(s[j] < s[i]) BY <3>1, <4>1
      <4>3. ~(i < j) /\ ~(j < i) BY <4>1, <4>2
      <4> QED BY <4>1, <4>3
    <3> QED BY <3>1
  <2>2. \A y \in T : \E i \in 1 .. m : f[i] = y OBVIOUS
  <2> HIDE DEF f, T
  <2>3. f \in Bijection(1 .. m, T)
    BY <2>1, <2>2 DEF Bijection, Injection, Surjection, IsInjective
  <2>4. m \in Nat /\ IsFiniteSet(1 .. m) /\ Cardinality(1 .. m) = m
    <3>1. m \in Nat OBVIOUS
    <3> QED BY <3>1, FS_Interval
  <2>5. ExistsBijection(1 .. m, T) BY <2>3 DEF ExistsBijection
  <2>6. IsFiniteSet(T) /\ Cardinality(T) = m BY <2>4, <2>5, FS_Bijection
  <2> QED BY <2>6 DEF T
<1>2. IsFiniteSet(K) /\ Cardinality(K) = n
  <2>1. n \in 0 .. n OBVIOUS
  <2> QED BY <1>1, <2>1
<1>3. ASSUME NEW i \in 1 .. n
      PROVE  Rank(K, s[i]) = i
  <2>1. {x \in K : x <= s[i]} = {s[j] : j \in 1 .. i}
    <3>1. ASSUME NEW j \in 1 .. n PROVE s[j] <= s[i] <=> j <= i
      <4>1. s[i] \in Int /\ s[j] \in Int OBVIOUS
      <4>2. i < j => s[i] < s[j] OBVIOUS
      <4>3. j < i => s[j] < s[i] OBVIOUS
      <4> QED BY <4>1, <4>2, <4>3
    <3>2. \A j \in 1 .. n : j <= i <=> j \in 1 .. i OBVIOUS
    <3>3. \A j \in 1 .. i : j \in 1 .. n OBVIOUS
    <3> QED BY <3>1, <3>2, <3>3
  <2>2. i \in 0 .. n OBVIOUS
  <2> QED BY <1>1, <2>1, <2>2 DEF Rank
<1>4. K \in SUBSET Int /\ \A i \in 1 .. n : s[i] \in K OBVIOUS
<1> HIDE DEF K
<1>5. \A i \in 1 .. n : s[i] = Bundle!Ranked(K, i)
  BY <1>2, <1>3, <1>4, RankedIs
<1> QED BY <1>2, <1>5 DEF K

-----------------------------------------------------------------------------
(* Counting votes.  tally is a fold over the list as the replay is one     *)
(* over the events, and unrolled in the same way.                          *)

CountsTo(f, es, n) ==
  f = [s \in SUBSET (1 .. n) |->
         IF s = {} THEN Counting!Blank
         ELSE Counting!Counted(f[s \ {Bundle!V!Max(s)}], es[Bundle!V!Max(s)])]

LEMMA TallyIsFold ==
  ASSUME NEW S, NEW es \in Seq(S)
  PROVE  Counting!TallyOf(es) =
           (CHOOSE f : CountsTo(f, es, Len(es)))[1 .. Len(es)]
<1> DEFINE Folds(f) == f = [s \in SUBSET DOMAIN es |->
         IF s = {} THEN Counting!Blank
         ELSE Counting!Counted(f[s \ {Counting!Max(s)}], es[Counting!Max(s)])]
<1>1. Counting!TallyOf(es) = (CHOOSE f : Folds(f))[DOMAIN es]
  BY DEF Counting!TallyOf, Counting!FoldLeft, Counting!MapThenFoldSet
<1>2. DOMAIN es = 1 .. Len(es)
  OBVIOUS
<1>3. \A s : Counting!Max(s) = Bundle!V!Max(s)
  BY DEF Counting!Max, Bundle!V!Max
<1> QED BY <1>1, <1>2, <1>3 DEF CountsTo

LEMMA CountExists ==
  ASSUME NEW es
  PROVE  \A n \in Nat : \E f : CountsTo(f, es, n)
<1> DEFINE bad == {n \in Nat : ~ \E f : CountsTo(f, es, n)}
<1> SUFFICES ASSUME bad # {} PROVE FALSE
  OBVIOUS
<1>1. PICK n \in bad : \A m \in bad : n <= m
  <2>1. bad \in SUBSET Nat OBVIOUS
  <2> HIDE DEF bad
  <2> QED BY <2>1, LeastElement
<1>2. n \in Nat /\ ~ \E f : CountsTo(f, es, n)
  OBVIOUS
<1>3. n # 0
  <2> SUFFICES ASSUME n = 0 PROVE FALSE OBVIOUS
  <2> DEFINE f == [s \in SUBSET (1 .. 0) |-> Counting!Blank]
  <2>1. \A s \in SUBSET (1 .. 0) : s = {} OBVIOUS
  <2>2. CountsTo(f, es, 0) BY <2>1 DEF CountsTo
  <2> QED BY <1>2, <2>2
<1>4. PICK m \in Nat : n = m + 1
  <2>1. n - 1 \in Nat /\ n = (n - 1) + 1 BY <1>2, <1>3
  <2> QED BY <2>1
<1>5. PICK g : CountsTo(g, es, m)
  <2>1. m \notin bad BY <1>1, <1>4
  <2> QED BY <2>1
<1> HIDE DEF bad
<1> DEFINE f == [s \in SUBSET (1 .. n) |->
                   IF n \in s THEN Counting!Counted(g[s \ {n}], es[n]) ELSE g[s]]
<1>6. ASSUME NEW s \in SUBSET (1 .. n)
      PROVE  f[s] = IF s = {} THEN Counting!Blank
                    ELSE Counting!Counted(f[s \ {Bundle!V!Max(s)}], es[Bundle!V!Max(s)])
  <2>1. CASE n \in s
    <3>1. Bundle!V!Max(s) = n BY <1>4, <2>1, GreatestIs
    <3>2. s \ {n} \in SUBSET (1 .. n) /\ n \notin s \ {n} OBVIOUS
    <3>3. f[s \ {n}] = g[s \ {n}] BY <3>2
    <3> QED BY <2>1, <3>1, <3>3
  <2>2. CASE n \notin s
    <3>1. s \in SUBSET (1 .. m) BY <1>4, <2>2
    <3>2. f[s] = g[s] BY <2>2
    <3>3. CASE s = {} BY <3>1, <3>2, <3>3, <1>5 DEF CountsTo
    <3>4. CASE s # {}
      <4>1. s \ {Bundle!V!Max(s)} \in SUBSET (1 .. n) /\ n \notin s \ {Bundle!V!Max(s)}
        BY <2>2
      <4>2. f[s \ {Bundle!V!Max(s)}] = g[s \ {Bundle!V!Max(s)}] BY <4>1
      <4>3. g[s] = Counting!Counted(g[s \ {Bundle!V!Max(s)}], es[Bundle!V!Max(s)])
        BY <1>5, <3>1, <3>4 DEF CountsTo
      <4> QED BY <3>2, <3>4, <4>2, <4>3
    <3> QED BY <3>3, <3>4
  <2> QED BY <2>1, <2>2
<1>7. CountsTo(f, es, n)
  BY <1>6 DEF CountsTo
<1> QED BY <1>2, <1>7

\* What has been counted after each vote of a list.
Counts(r, es) ==
  /\ r[0] = Counting!Blank
  /\ \A i \in 1 .. Len(es) : r[i] = Counting!Counted(r[i - 1], es[i])

LEMMA TallyIsRun ==
  ASSUME NEW S, NEW es \in Seq(S)
  PROVE  \E r : Counts(r, es) /\ Counting!TallyOf(es) = r[Len(es)]
<1> DEFINE n == Len(es)
           f == CHOOSE g : CountsTo(g, es, n)
           r == [i \in 0 .. n |-> f[1 .. i]]
<1>1. n \in Nat OBVIOUS
<1>2. CountsTo(f, es, n)
  BY <1>1, CountExists
<1>3. Counting!TallyOf(es) = f[1 .. n]
  BY TallyIsFold
<1> HIDE DEF f
<1>4. r[0] = Counting!Blank
  <2>1. r[0] = f[1 .. 0] BY <1>1
  <2>2. 1 .. 0 = {} OBVIOUS
  <2>3. f[{}] = Counting!Blank BY <1>2 DEF CountsTo
  <2> QED BY <2>1, <2>2, <2>3
<1>5. ASSUME NEW i \in 1 .. n
      PROVE  r[i] = Counting!Counted(r[i - 1], es[i])
  <2> DEFINE s == 1 .. i
  <2>1. s \in SUBSET (1 .. n) /\ s # {} /\ i \in s /\ s \ {i} = 1 .. i - 1
    <3>1. \A x : x \in s \ {i} <=> x \in 1 .. i - 1 OBVIOUS
    <3> QED BY <3>1
  <2>2. Bundle!V!Max(s) = i
    <3>1. i \in Nat /\ s \in SUBSET (1 .. i) OBVIOUS
    <3> QED BY <2>1, <3>1, GreatestIs
  <2>3. f[s] = Counting!Counted(f[s \ {i}], es[i])
    BY <1>2, <2>1, <2>2 DEF CountsTo
  <2>4. r[i] = f[s] /\ r[i - 1] = f[1 .. i - 1]
    OBVIOUS
  <2> HIDE DEF r
  <2> QED BY <2>1, <2>3, <2>4
<1>6. r[n] = f[1 .. n] BY <1>1
<1> QED BY <1>3, <1>4, <1>5, <1>6 DEF Counts

LEMMA CountingCounts == \A S : Counting!Cardinality(S) = Cardinality(S)
BY DEF Counting!Cardinality, Cardinality

\* A sequence whose entries are as many as its positions repeats none.
LEMMA DistinctMeans ==
  ASSUME NEW n \in Nat, NEW S, NEW s \in [1 .. n -> S], Counting!DistinctOf(s)
  PROVE  \A i, j \in 1 .. n : s[i] = s[j] => i = j
<1> DEFINE T == {s[i] : i \in 1 .. n}
<1>1. Cardinality(T) = n
  <2>1. DOMAIN s = 1 .. n /\ Len(s) = n OBVIOUS
  <2>2. Counting!ToSet(s) = T BY <2>1 DEF Counting!ToSet
  <2> QED BY <2>1, <2>2, CountingCounts DEF Counting!DistinctOf
<1>2. IsFiniteSet(1 .. n) /\ Cardinality(1 .. n) = n BY FS_Interval
<1>3. s \in Surjection(1 .. n, T)
  <2>1. s \in [1 .. n -> T] /\ \A t \in T : \E i \in 1 .. n : s[i] = t OBVIOUS
  <2> HIDE DEF T
  <2> QED BY <2>1 DEF Surjection
<1> HIDE DEF T
<1>4. s \in Injection(1 .. n, T)
  BY <1>1, <1>2, <1>3, FS_Surjection
<1> QED BY <1>4 DEF Injection, IsInjective

LegalPolicy == policy \in Candidates /\ Counting!PolicyInvariants(policy)

\* The roster of a legal policy has no two members with a key id, a principal
\* or a public key in common.
LEMMA RosterDistinct ==
  ASSUME LegalPolicy
  PROVE  /\ policy.threshold \in Nat \ {0}
         /\ \A m, n \in Counting!Members :
              \/ m.key = n.key
              \/ m.principal = n.principal
              \/ m.public = n.public
              => m = n
<1> DEFINE s == policy.roster
           n == Len(s)
<1>1. s \in Seq(Counting!Members)
  BY EvidenceAssumption DEF LegalPolicy, Counting!TallyAssumption, Counting!Members
<1>2. n \in Nat /\ DOMAIN s = 1 .. n BY <1>1
<1>3. /\ policy.threshold \in 1 .. n
      /\ Counting!DistinctOf([i \in 1 .. n |-> s[i].key])
      /\ Counting!DistinctOf([i \in 1 .. n |-> s[i].principal])
      /\ Counting!DistinctOf([i \in 1 .. n |-> s[i].public])
  BY <1>2 DEF LegalPolicy, Counting!PolicyInvariants
<1>4. Counting!Members = {s[i] : i \in 1 .. n}
  BY <1>2 DEF Counting!Members, Counting!ToSet
<1> HIDE DEF s, n
<1>5. \A i, j \in 1 .. n : s[i].key = s[j].key => i = j
  <2> DEFINE f == [i \in 1 .. n |-> s[i].key]
             T == {s[i].key : i \in 1 .. n}
  <2>1. f \in [1 .. n -> T] /\ \A i \in 1 .. n : f[i] = s[i].key OBVIOUS
  <2>2. Counting!DistinctOf(f) BY <1>3
  <2> HIDE DEF f, T
  <2>3. \A i, j \in 1 .. n : f[i] = f[j] => i = j
    BY <1>2, <2>1, <2>2, DistinctMeans
  <2> QED BY <2>1, <2>3
<1>6. \A i, j \in 1 .. n : s[i].principal = s[j].principal => i = j
  <2> DEFINE f == [i \in 1 .. n |-> s[i].principal]
             T == {s[i].principal : i \in 1 .. n}
  <2>1. f \in [1 .. n -> T] /\ \A i \in 1 .. n : f[i] = s[i].principal OBVIOUS
  <2>2. Counting!DistinctOf(f) BY <1>3
  <2> HIDE DEF f, T
  <2>3. \A i, j \in 1 .. n : f[i] = f[j] => i = j
    BY <1>2, <2>1, <2>2, DistinctMeans
  <2> QED BY <2>1, <2>3
<1>7. \A i, j \in 1 .. n : s[i].public = s[j].public => i = j
  <2> DEFINE f == [i \in 1 .. n |-> s[i].public]
             T == {s[i].public : i \in 1 .. n}
  <2>1. f \in [1 .. n -> T] /\ \A i \in 1 .. n : f[i] = s[i].public OBVIOUS
  <2>2. Counting!DistinctOf(f) BY <1>3
  <2> HIDE DEF f, T
  <2>3. \A i, j \in 1 .. n : f[i] = f[j] => i = j
    BY <1>2, <2>1, <2>2, DistinctMeans
  <2> QED BY <2>1, <2>3
<1>8. policy.threshold \in Nat \ {0} BY <1>2, <1>3
<1> QED BY <1>4, <1>5, <1>6, <1>7, <1>8

\* MemberOf finds the one member with a key id.
LEMMA MemberFound ==
  ASSUME LegalPolicy, NEW m \in Counting!Members
  PROVE  Counting!Enrolled(m.key) /\ Counting!MemberOf(m.key) = m
<1>1. \A x \in Counting!Members : x.key = m.key => x = m BY RosterDistinct
<1> QED BY <1>1 DEF Counting!Enrolled, Counting!MemberOf

LEMMA EnrolledMember ==
  ASSUME NEW k, Counting!Enrolled(k)
  PROVE  Counting!MemberOf(k) \in Counting!Members /\ Counting!MemberOf(k).key = k
BY DEF Counting!Enrolled, Counting!MemberOf

\* The members who approve in the first i votes of a list.
Approvers(es, i) ==
  {m \in Counting!Members :
     \E n \in 1 .. i : es[n].key = m.key /\ es[n].decision = "approve"}

\* What tally holds after i votes, when none of them failed.
ResultOf(es, i) ==
  [error |-> "ok", seen |-> {es[n].key : n \in 1 .. i},
   principals |-> {m.principal : m \in Approvers(es, i)},
   humans |-> {m.principal : m \in {x \in Approvers(es, i) : x.human}}]

\* The votes that tally lets pass: for this action, by an enrolled key that
\* really signed, and one vote for each key.
Passing(v) ==
  v.action = Subject /\ Counting!Enrolled(v.key) /\ Counting!Sound(v)
OnePerKey(es, i) ==
  \A m, n \in 1 .. i : es[m].key = es[n].key => m = n

Sums(r, es, i) ==
  /\ \A n \in 1 .. i : Passing(es[n])
  /\ OnePerKey(es, i)
  /\ r[i] = ResultOf(es, i)

\* What a vote that passes adds.
Voter(v) == {m \in Counting!Members : m.key = v.key /\ v.decision = "approve"}
Added(t, v) ==
  [t EXCEPT !.seen = @ \union {v.key},
            !.principals = @ \union {m.principal : m \in Voter(v)},
            !.humans = @ \union {m.principal : m \in {x \in Voter(v) : x.human}}]

LEMMA PartsAdded ==
  ASSUME NEW t, NEW s, NEW p, NEW h, NEW u,
         t = [error |-> t.error, seen |-> t.seen, principals |-> t.principals,
              humans |-> t.humans],
         u = [t EXCEPT !.seen = s, !.principals = p, !.humans = h]
  PROVE  u = [error |-> t.error, seen |-> s, principals |-> p, humans |-> h]
<1> DEFINE e == t.error
<1>1. u = [error |-> e, seen |-> s, principals |-> p, humans |-> h] OBVIOUS
<1> QED BY <1>1

LEMMA ResultGrows ==
  ASSUME NEW es, NEW i \in Nat
  PROVE  Added(ResultOf(es, i), es[i + 1]) = ResultOf(es, i + 1)
<1> DEFINE v == es[i + 1]
           seen == {es[n].key : n \in 1 .. i}
           principals == {m.principal : m \in Approvers(es, i)}
           humans == {m.principal : m \in {x \in Approvers(es, i) : x.human}}
           principal == {m.principal : m \in Voter(v)}
           human == {m.principal : m \in {x \in Voter(v) : x.human}}
<1>1. \A n : n \in 1 .. i + 1 <=> n \in 1 .. i \/ n = i + 1 OBVIOUS
<1>2. {es[n].key : n \in 1 .. i + 1} = seen \union {v.key}
  BY <1>1
<1>3. Approvers(es, i + 1) = Approvers(es, i) \union Voter(v)
  BY <1>1 DEF Approvers, Voter
<1>4. {m.principal : m \in Approvers(es, i + 1)} = principals \union principal
  BY <1>3
<1>5. {m.principal : m \in {x \in Approvers(es, i + 1) : x.human}}
        = humans \union human
  BY <1>3
<1>6. ResultOf(es, i + 1) =
        [error |-> "ok", seen |-> seen \union {v.key},
         principals |-> principals \union principal, humans |-> humans \union human]
  BY <1>2, <1>4, <1>5 DEF ResultOf
<1> DEFINE t == ResultOf(es, i)
<1>7. /\ t.error = "ok" /\ t.seen = seen
      /\ t.principals = principals /\ t.humans = humans
      /\ t = [error |-> t.error, seen |-> t.seen, principals |-> t.principals,
              humans |-> t.humans]
  BY DEF ResultOf
<1> HIDE DEF t, seen, principals, humans, principal, human, v
<1>8. Added(t, v) = [t EXCEPT !.seen = seen \union {v.key},
                              !.principals = principals \union principal,
                              !.humans = humans \union human]
  BY <1>7 DEF Added, principal, human
<1>9. Added(t, v) =
        [error |-> "ok", seen |-> seen \union {v.key},
         principals |-> principals \union principal, humans |-> humans \union human]
  BY <1>7, <1>8, PartsAdded
<1>10. Added(t, v) = ResultOf(es, i + 1)
  BY <1>6, <1>9
<1> QED BY <1>10 DEF t, v

\* As long as tally does not fail, its counts are those of the votes so far,
\* and all of them pass.
LEMMA CountsWhenOk ==
  ASSUME NEW S, NEW es \in Seq(S), NEW r, Counts(r, es)
  PROVE  \A i \in 0 .. Len(es) : r[i].error = "ok" => Sums(r, es, i)
<1> DEFINE bad == {i \in 0 .. Len(es) : ~(r[i].error = "ok" => Sums(r, es, i))}
<1> SUFFICES ASSUME bad # {} PROVE FALSE OBVIOUS
<1>1. PICK i \in bad : \A m \in bad : i <= m
  <2>1. bad \in SUBSET Nat OBVIOUS
  <2> HIDE DEF bad
  <2> QED BY <2>1, LeastElement
<1>2. i \in 0 .. Len(es) /\ r[i].error = "ok" /\ ~Sums(r, es, i) OBVIOUS
<1>3. i # 0
  <2> SUFFICES ASSUME i = 0 PROVE FALSE OBVIOUS
  <2>1. 1 .. 0 = {} OBVIOUS
  <2>2. Approvers(es, 0) = {} BY <2>1 DEF Approvers
  <2>3. ResultOf(es, 0) = Counting!Blank BY <2>1, <2>2 DEF ResultOf, Counting!Blank
  <2> QED BY <1>2, <2>1, <2>3 DEF Sums, OnePerKey, Counts
<1>4. PICK j \in Nat : i = j + 1 /\ j \in 0 .. Len(es) /\ i \in 1 .. Len(es)
  <2>1. i - 1 \in Nat /\ i = (i - 1) + 1 /\ i - 1 \in 0 .. Len(es) /\ i \in 1 .. Len(es)
    BY <1>2, <1>3
  <2> QED BY <2>1
<1>5. r[j].error = "ok" => Sums(r, es, j)
  <2>1. j \notin bad BY <1>1, <1>4
  <2> QED BY <1>4, <2>1
<1> HIDE DEF bad
<1> DEFINE v == es[i]
<1>6. r[i] = Counting!Counted(r[j], v)
  <2>1. i - 1 = j BY <1>4
  <2> QED BY <1>4, <2>1 DEF Counts
<1> HIDE DEF v
<1>7. r[j].error = "ok"
  BY <1>2, <1>6 DEF Counting!Counted
<1>8. Sums(r, es, j) BY <1>5, <1>7
<1>9. Counting!Checked(r[j], v) = "ok"
  <2> SUFFICES ASSUME Counting!Checked(r[j], v) # "ok" PROVE FALSE OBVIOUS
  <2>1. r[i] = [r[j] EXCEPT !.error = Counting!Checked(r[j], v)]
    BY <1>6, <1>7 DEF Counting!Counted
  <2>2. r[i].error = Counting!Checked(r[j], v)
    BY <1>8, <2>1 DEF Sums, ResultOf
  <2> QED BY <1>2, <2>2
<1>10. Passing(v) /\ v.key \notin r[j].seen
  BY <1>9 DEF Counting!Checked, Passing
<1>11. \A n \in 1 .. i : Passing(es[n])
  <2>1. \A n \in 1 .. i : n \in 1 .. j \/ n = i BY <1>4
  <2> QED BY <1>8, <1>10, <2>1 DEF Sums, v
<1>12. OnePerKey(es, i)
  <2>1. \A n \in 1 .. i : n \in 1 .. j \/ n = i BY <1>4
  <2>2. \A n \in 1 .. j : es[n].key # es[i].key
    BY <1>8, <1>10 DEF Sums, ResultOf, v
  <2> QED BY <1>8, <2>1, <2>2 DEF Sums, OnePerKey
<1>13. r[i] = ResultOf(es, i)
  <2>1. r[i] = Added(r[j], v)
    BY <1>6, <1>7, <1>9 DEF Counting!Counted, Added, Voter
  <2>2. r[j] = ResultOf(es, j) /\ v = es[j + 1] BY <1>4, <1>8 DEF Sums, v
  <2> QED BY <1>4, <2>1, <2>2, ResultGrows
<1> QED BY <1>2, <1>11, <1>12, <1>13 DEF Sums

\* A list in which all votes pass does not fail.
LEMMA PassingCounts ==
  ASSUME NEW S, NEW es \in Seq(S), NEW r, Counts(r, es),
         \A n \in 1 .. Len(es) : Passing(es[n]), OnePerKey(es, Len(es))
  PROVE  r[Len(es)] = ResultOf(es, Len(es))
<1> DEFINE bad == {i \in 0 .. Len(es) : r[i].error # "ok"}
<1>1. CASE bad = {}
  <2>1. Len(es) \in 0 .. Len(es) OBVIOUS
  <2>2. r[Len(es)].error = "ok" BY <1>1, <2>1
  <2> QED BY <2>1, <2>2, CountsWhenOk DEF Sums
<1>2. CASE bad # {}
  <2>1. PICK i \in bad : \A m \in bad : i <= m
    <3>1. bad \in SUBSET Nat OBVIOUS
    <3> HIDE DEF bad
    <3> QED BY <1>2, <3>1, LeastElement
  <2>2. i \in 0 .. Len(es) /\ r[i].error # "ok" OBVIOUS
  <2>3. i # 0 BY <2>2 DEF Counts, Counting!Blank
  <2>4. PICK j \in 0 .. Len(es) : i = j + 1 /\ i \in 1 .. Len(es)
    <3>1. i - 1 \in 0 .. Len(es) /\ i = (i - 1) + 1 /\ i \in 1 .. Len(es)
      BY <2>2, <2>3
    <3> QED BY <3>1
  <2>5. r[j].error = "ok"
    <3>1. j \notin bad BY <2>1, <2>4
    <3> QED BY <2>4, <3>1
  <2> HIDE DEF bad
  <2>6. r[j] = ResultOf(es, j) BY <2>4, <2>5, CountsWhenOk DEF Sums
  <2>7. r[i] = Counting!Counted(r[j], es[i])
    <3>1. i - 1 = j BY <2>4
    <3> QED BY <2>4, <3>1 DEF Counts
  <2>8. es[i].key \notin r[j].seen
    <3>1. \A n \in 1 .. j : n \in 1 .. Len(es) /\ n # i BY <2>4
    <3>2. \A n \in 1 .. j : es[n].key # es[i].key BY <2>4, <3>1 DEF OnePerKey
    <3> QED BY <2>6, <3>2 DEF ResultOf
  <2>9. Counting!Checked(r[j], es[i]) = "ok"
    BY <2>4, <2>8 DEF Counting!Checked, Passing
  <2>10. r[i].error = r[j].error
    BY <2>5, <2>6, <2>7, <2>9 DEF Counting!Counted, ResultOf
  <2> QED BY <2>2, <2>5, <2>10
<1> QED BY <1>1, <1>2

ProofPolicy == [threshold |-> policy.threshold, human |-> policy.human,
                roster |-> Counting!Members]

\* The members whose approving votes are in vs.
ApprovedBy(vs) == {m \in Counting!Members : m.key \in Counting!Approving(vs)}

Reached(members) ==
  /\ Cardinality({m.principal : m \in members}) >= policy.threshold
  /\ policy.human => \E m \in members : m.human

LEMMA QuorumReads ==
  ASSUME LegalPolicy, NEW vs, \A v \in vs : Counting!Enrolled(v.key)
  PROVE  Counting!QuorumSatisfied(vs) <=> Reached(ApprovedBy(vs))
<1> DEFINE approved == {Counting!MemberOf(k) : k \in Counting!Approving(vs)}
<1>1. approved = ApprovedBy(vs)
  <2>1. ASSUME NEW k \in Counting!Approving(vs)
        PROVE  Counting!MemberOf(k) \in ApprovedBy(vs)
    <3>1. Counting!Enrolled(k) BY DEF Counting!Approving
    <3> QED BY <3>1, EnrolledMember DEF ApprovedBy
  <2>2. ASSUME NEW m \in ApprovedBy(vs) PROVE m \in approved
    <3>1. m \in Counting!Members /\ m.key \in Counting!Approving(vs)
      BY DEF ApprovedBy
    <3>2. Counting!MemberOf(m.key) = m BY <3>1, MemberFound
    <3> QED BY <3>1, <3>2
  <2> QED BY <2>1, <2>2
<1>2. Counting!QuorumSatisfied(vs) <=>
        /\ Cardinality({m.principal : m \in approved}) >= policy.threshold
        /\ policy.human => \E m \in approved : m.human
  BY CountingCounts DEF Counting!QuorumSatisfied
<1> QED BY <1>1, <1>2 DEF Reached

LEMMA VerifierReads ==
  ASSUME NEW vs
  PROVE  Counting!V!Quorum(ProofPolicy, Counting!Approving(vs))
           <=> Reached(ApprovedBy(vs))
<1> DEFINE p == ProofPolicy
           keys == Counting!Approving(vs)
<1>1. /\ p.roster = Counting!Members /\ p.threshold = policy.threshold
      /\ p.human = policy.human
  BY DEF ProofPolicy
<1>2. {m \in p.roster : m.key \in keys} = ApprovedBy(vs)
  BY <1>1 DEF ApprovedBy
<1>3. \A S : Counting!V!Cardinality(S) = Cardinality(S)
  BY DEF Counting!V!Cardinality, Cardinality
<1> HIDE DEF p, keys
<1>4. Counting!V!Quorum(p, keys) <=> Reached(ApprovedBy(vs))
  BY <1>1, <1>2, <1>3 DEF Counting!V!Quorum, Reached
<1> QED BY <1>4 DEF p, keys

\* More votes never undo a quorum.
LEMMA QuorumGrows ==
  ASSUME LegalPolicy, NEW vs, NEW ws, vs \subseteq ws, IsFiniteSet(ws),
         Reached(ApprovedBy(vs))
  PROVE  Reached(ApprovedBy(ws))
<1> DEFINE P == {m.principal : m \in ApprovedBy(vs)}
           Q == {m.principal : m \in ApprovedBy(ws)}
<1>1. ApprovedBy(vs) \subseteq ApprovedBy(ws)
  BY DEF ApprovedBy, Counting!Approving
<1>2. P \subseteq Q BY <1>1
<1>3. IsFiniteSet(Q)
  <2> DEFINE A == {v \in ws : v.decision = "approve"
                               /\ \E m \in Counting!Members : m.key = v.key}
             f == [v \in A |-> Counting!MemberOf(v.key).principal]
  <2>1. IsFiniteSet(A) BY FS_Subset
  <2>2. \A v \in A : f[v] \in Q
    <3> SUFFICES ASSUME NEW v \in A PROVE f[v] \in Q OBVIOUS
    <3>1. Counting!Enrolled(v.key) BY DEF Counting!Enrolled
    <3>2. /\ Counting!MemberOf(v.key) \in Counting!Members
          /\ Counting!MemberOf(v.key).key = v.key
      BY <3>1, EnrolledMember
    <3>3. v.key \in Counting!Approving(ws) BY DEF Counting!Approving
    <3>4. Counting!MemberOf(v.key) \in ApprovedBy(ws)
      BY <3>2, <3>3 DEF ApprovedBy
    <3> QED BY <3>4
  <2>3. \A q \in Q : \E v \in A : f[v] = q
    <3> SUFFICES ASSUME NEW m \in ApprovedBy(ws)
                 PROVE \E v \in A : f[v] = m.principal
      OBVIOUS
    <3>1. m \in Counting!Members BY DEF ApprovedBy
    <3>2. PICK v \in ws : v.decision = "approve" /\ v.key = m.key
      BY DEF ApprovedBy, Counting!Approving
    <3>3. v \in A BY <3>1, <3>2
    <3>4. Counting!MemberOf(v.key) = m BY <3>1, <3>2, MemberFound
    <3> QED BY <3>3, <3>4
  <2>4. f \in Surjection(A, Q)
    <3>1. f \in [A -> Q] BY <2>2
    <3> HIDE DEF f, A, Q
    <3> QED BY <2>3, <3>1 DEF Surjection
  <2> HIDE DEF f, A, Q
  <2> QED BY <2>1, <2>4, FS_Surjection
<1>4. /\ Cardinality(P) \in Nat /\ Cardinality(Q) \in Nat
      /\ Cardinality(P) <= Cardinality(Q)
  <2> HIDE DEF P, Q
  <2>1. IsFiniteSet(P) /\ Cardinality(P) <= Cardinality(Q)
    BY <1>2, <1>3, FS_Subset
  <2> QED BY <1>3, <2>1, FS_CardinalityType
<1>5. Cardinality(Q) >= policy.threshold
  <2>1. Cardinality(P) >= policy.threshold BY DEF Reached
  <2>2. policy.threshold \in Nat BY RosterDistinct
  <2> HIDE DEF P, Q
  <2> QED BY <1>4, <2>1, <2>2
<1> QED BY <1>1, <1>5 DEF Reached

Refusal == \E v \in votes : v.decision = "reject"

\* The votes retained are genuine, one for each key, and the state is the one
\* they ask for.
TallyInv ==
  /\ LegalPolicy
  /\ IsFiniteSet(pool) /\ votes \subseteq pool
  /\ \A v \in votes : Passing(v)
  /\ \A v, w \in votes : v.key = w.key => v = w
  /\ state \in {"OPEN", "READY", "ESCALATED"}
  /\ state = "ESCALATED" <=> Refusal
  /\ state = "READY" <=> (Reached(ApprovedBy(votes)) /\ ~Refusal)

LEMMA TallyInit == Counting!Init => TallyInv
<1> SUFFICES ASSUME Counting!Init PROVE TallyInv OBVIOUS
<1>1. LegalPolicy BY DEF Counting!Init, LegalPolicy
<1>2. votes = {} /\ pool = {} /\ state = "OPEN" BY DEF Counting!Init
<1>3. ~Reached(ApprovedBy(votes))
  <2>1. ApprovedBy(votes) = {} BY <1>2 DEF ApprovedBy, Counting!Approving
  <2>2. {m.principal : m \in ApprovedBy(votes)} = {} BY <2>1
  <2>3. Cardinality({}) = 0 BY FS_EmptySet
  <2>4. policy.threshold \in Nat \ {0} BY <1>1, RosterDistinct
  <2>5. ~(0 >= policy.threshold) BY <2>4
  <2> QED BY <2>2, <2>3, <2>5 DEF Reached
<1>4. IsFiniteSet(pool) BY <1>2, FS_EmptySet
<1> QED BY <1>1, <1>2, <1>3, <1>4 DEF TallyInv, Refusal

LEMMA PoolGrows ==
  ASSUME TallyInv, NEW v, pool' = pool \union {v}, UNCHANGED <<policy, votes, state>>
  PROVE  TallyInv'
<1>1. IsFiniteSet(pool') BY FS_AddElement DEF TallyInv
<1>2. LegalPolicy' BY DEF TallyInv, LegalPolicy, Counting!PolicyInvariants
<1>3. \A w : Passing(w)' <=> Passing(w)
  BY DEF Passing, Counting!Enrolled, Counting!Sound, Counting!MemberOf, Counting!Members
<1>4. Reached(ApprovedBy(votes))' <=> Reached(ApprovedBy(votes))
  BY DEF Reached, ApprovedBy, Counting!Approving, Counting!Members
<1>5. Refusal' <=> Refusal BY DEF Refusal
<1> QED BY <1>1, <1>2, <1>3, <1>4, <1>5 DEF TallyInv

LEMMA SubmitCounts ==
  ASSUME TallyInv, NEW v \in pool, Counting!Submit(v)
  PROVE  TallyInv'
<1>1. /\ Passing(v) /\ (\A x \in votes : x.key # v.key)
      /\ state \in {"OPEN", "READY"}
      /\ votes' = votes \union {v} /\ UNCHANGED <<policy, pool>>
      /\ state' = IF v.decision = "reject" THEN "ESCALATED"
                  ELSE IF Counting!QuorumSatisfied(votes') THEN "READY" ELSE state
  BY DEF Counting!Submit, Counting!NoPrior, Passing, Counting!V!Live
<1>2. LegalPolicy' BY <1>1 DEF TallyInv, LegalPolicy, Counting!PolicyInvariants
<1>3. \A w : Passing(w)' <=> Passing(w)
  BY <1>1 DEF Passing, Counting!Enrolled, Counting!Sound, Counting!MemberOf,
              Counting!Members
<1>4. \A w \in votes' : Passing(w) BY <1>1 DEF TallyInv
<1>5. Reached(ApprovedBy(votes))' <=> Reached(ApprovedBy(votes'))
  BY <1>1 DEF Reached, ApprovedBy, Counting!Approving, Counting!Members
<1>6. Counting!QuorumSatisfied(votes') <=> Reached(ApprovedBy(votes'))
  BY <1>4, QuorumReads DEF TallyInv, Passing
<1>7. ~Refusal /\ (Refusal' <=> v.decision = "reject")
  BY <1>1 DEF TallyInv, Refusal
<1>8. state = "READY" => Reached(ApprovedBy(votes'))
  <2>1. votes \subseteq votes' /\ votes' \subseteq pool BY <1>1 DEF TallyInv
  <2>2. IsFiniteSet(votes') BY <2>1, FS_Subset DEF TallyInv
  <2> QED BY <2>1, <2>2, QuorumGrows DEF TallyInv
<1>9. /\ (state = "ESCALATED" <=> Refusal)'
      /\ (state = "READY" <=> (Reached(ApprovedBy(votes)) /\ ~Refusal))'
      /\ state' \in {"OPEN", "READY", "ESCALATED"}
  BY <1>1, <1>5, <1>6, <1>7, <1>8
<1>10. \A w \in votes' : Passing(w)' BY <1>3, <1>4
<1>11. \A w, x \in votes' : w.key = x.key => w = x BY <1>1 DEF TallyInv
<1>12. votes' \subseteq pool' /\ IsFiniteSet(pool') BY <1>1 DEF TallyInv
<1> QED BY <1>2, <1>9, <1>10, <1>11, <1>12 DEF TallyInv

LEMMA TallyStep == TallyInv /\ [Counting!Next]_(Counting!vars) => TallyInv'
<1> SUFFICES ASSUME TallyInv, [Counting!Next]_(Counting!vars) PROVE TallyInv'
  OBVIOUS
<1>1. CASE \E a, c \in ActionIds, m \in Counting!Members,
             d \in {"approve", "reject"}, s \in Seeds :
             Counting!SignVote(a, c, m.key, d, s)
  BY <1>1, PoolGrows DEF Counting!SignVote
<1>2. CASE \E a \in ActionIds, k \in {0, 1}, s \in Seeds :
             Counting!Stray(Counting!Vote(a, k, "approve", s))
  BY <1>2, PoolGrows DEF Counting!Stray
<1>3. CASE \E v \in pool : Counting!Submit(v)
  BY <1>3, SubmitCounts
<1>4. CASE UNCHANGED Counting!vars
  <2>1. UNCHANGED <<policy, pool, votes, state>> BY <1>4 DEF Counting!vars
  <2> QED BY <2>1 DEF TallyInv, LegalPolicy, Counting!PolicyInvariants, Passing,
        Counting!Enrolled, Counting!Sound, Counting!MemberOf, Counting!Members,
        Reached, ApprovedBy, Counting!Approving, Refusal
<1> QED BY <1>1, <1>2, <1>3, <1>4 DEF Counting!Next

-----------------------------------------------------------------------------
(* What the counters say.                                                  *)

\* A list without repetitions of all elements of a finite set has them all.
LEMMA ListIsSet ==
  ASSUME NEW S, IsFiniteSet(S), NEW es \in Counting!SetToSeqs(S)
  PROVE  /\ es \in Seq(S) /\ Len(es) = Cardinality(S)
         /\ \A i, j \in 1 .. Len(es) : es[i] = es[j] => i = j
         /\ \A x \in S : \E i \in 1 .. Len(es) : es[i] = x
<1> DEFINE n == Cardinality(S)
<1>1. n \in Nat BY FS_CardinalityType
<1>2. es \in [1 .. n -> S] /\ \A i, j \in 1 .. n : i # j => es[i] # es[j]
  BY CountingCounts DEF Counting!SetToSeqs
<1> HIDE DEF n
<1>3. es \in Seq(S) /\ Len(es) = n BY <1>1, <1>2
<1>4. es \in Injection(1 .. n, S) BY <1>2 DEF Injection, IsInjective
<1>5. Cardinality(1 .. n) = n BY <1>1, FS_Interval
<1>6. es \in Surjection(1 .. n, S)
  BY <1>4, <1>5, FS_Injection DEF n
<1>7. \A x \in S : \E i \in 1 .. n : es[i] = x
  BY <1>6 DEF Surjection
<1> QED BY <1>2, <1>3, <1>7 DEF n

LEMMA AgreementFollows == TallyInv => CountersAgree
<1> SUFFICES ASSUME TallyInv, NEW es \in Counting!SetToSeqs(votes)
             PROVE  LET t == Counting!TallyOf(es) IN
                    /\ t.error = "ok"
                    /\ Counting!Satisfied(t)
                         <=> Counting!V!Quorum(ProofPolicy, Counting!Approving(votes))
                    /\ state = "READY" <=> (Counting!Satisfied(t) /\ ~Refusal)
  BY DEF CountersAgree, Counting!CountersAgree, ProofPolicy, Refusal
<1> DEFINE t == Counting!TallyOf(es)
           n == Len(es)
           A == ApprovedBy(votes)
<1>1. /\ es \in Seq(votes)
      /\ \A i, j \in 1 .. n : es[i] = es[j] => i = j
      /\ \A x \in votes : \E i \in 1 .. n : es[i] = x
  <2>1. IsFiniteSet(votes) BY FS_Subset DEF TallyInv
  <2> QED BY <2>1, ListIsSet
<1>2. \A i \in 1 .. n : es[i] \in votes BY <1>1
<1>3. PICK r : Counts(r, es) /\ t = r[n]
  BY <1>1, TallyIsRun
<1>4. t = ResultOf(es, n)
  <2>1. \A i \in 1 .. n : Passing(es[i]) BY <1>2 DEF TallyInv
  <2>2. OnePerKey(es, n) BY <1>1, <1>2 DEF OnePerKey, TallyInv
  <2> HIDE DEF t
  <2> QED BY <1>1, <1>3, <2>1, <2>2, PassingCounts
<1>5. Approvers(es, n) = A
  <2>1. ASSUME NEW m \in Counting!Members, NEW i \in 1 .. n,
               es[i].key = m.key, es[i].decision = "approve"
        PROVE  m.key \in Counting!Approving(votes)
    BY <1>2, <2>1 DEF Counting!Approving
  <2>2. ASSUME NEW m \in Counting!Members, m.key \in Counting!Approving(votes)
        PROVE  \E i \in 1 .. n : es[i].key = m.key /\ es[i].decision = "approve"
    BY <1>1, <2>2 DEF Counting!Approving
  <2> QED BY <2>1, <2>2 DEF Approvers, ApprovedBy
<1> HIDE DEF t, n, A
<1>6. /\ t.error = "ok"
      /\ t.principals = {m.principal : m \in A}
      /\ t.humans = {m.principal : m \in {x \in A : x.human}}
  BY <1>4, <1>5 DEF ResultOf
<1>7. t.humans # {} <=> \E m \in A : m.human
  BY <1>6
<1>8. Counting!Satisfied(t) <=> Reached(A)
  BY <1>6, <1>7, CountingCounts DEF Counting!Satisfied, Reached
<1> QED BY <1>6, <1>8, VerifierReads DEF TallyInv, A, t

\* submit, tally in whatever order and verify_proof come to the same answer on
\* every set of retained votes, under every policy the schema accepts.
THEOREM CountersAlwaysAgree == Counting!Spec => []CountersAgree
BY TallyInit, TallyStep, AgreementFollows, PTL DEF Counting!Spec

LEMMA SignersFollow == TallyInv => SatisfiedMeansSigners
<1> SUFFICES ASSUME TallyInv, NEW es \in Counting!SetToAllKPermutations(pool),
                    Counting!Satisfied(Counting!TallyOf(es))
             PROVE  LET counted == {v \in Counting!ToSet(es) : v.decision = "approve"} IN
                    /\ Cardinality({v.seed : v \in counted}) >= policy.threshold
                    /\ \A v \in counted : v.action = Subject
                    /\ \A v, w \in Counting!ToSet(es) :
                         v.key = w.key => v.decision = w.decision
  BY CountingCounts DEF SatisfiedMeansSigners, Counting!SatisfiedMeansSigners
<1> DEFINE n == Len(es)
           counted == {v \in Counting!ToSet(es) : v.decision = "approve"}
           S == {v.seed : v \in counted}
           A == Approvers(es, n)
           P == {m.principal : m \in A}
<1>1. PICK T \in SUBSET pool : es \in Counting!SetToSeqs(T)
  BY DEF Counting!SetToAllKPermutations
<1>2. es \in Seq(T)
  <2>1. IsFiniteSet(T) BY FS_Subset DEF TallyInv
  <2> QED BY <1>1, <2>1, ListIsSet
<1>3. n \in Nat /\ Counting!ToSet(es) = {es[i] : i \in 1 .. n}
  BY <1>2 DEF Counting!ToSet
<1>4. PICK r : Counts(r, es) /\ Counting!TallyOf(es) = r[n]
  BY <1>2, TallyIsRun
<1>5. Sums(r, es, n)
  <2>1. r[n].error = "ok" BY <1>4 DEF Counting!Satisfied
  <2>2. n \in 0 .. Len(es) BY <1>3
  <2> QED BY <1>2, <1>4, <2>1, <2>2, CountsWhenOk
<1>6. Cardinality(P) >= policy.threshold
  <2>1. Counting!TallyOf(es).principals = P
    BY <1>4, <1>5 DEF Sums, ResultOf
  <2> QED BY <2>1, CountingCounts DEF Counting!Satisfied
<1>7. /\ \A v \in counted : v.action = Subject
      /\ \A v, w \in Counting!ToSet(es) : v.key = w.key => v.decision = w.decision
  BY <1>3, <1>5 DEF Sums, Passing, OnePerKey
<1>8. IsFiniteSet(S)
  <2> DEFINE I == {i \in 1 .. n : es[i].decision = "approve"}
             f == [i \in I |-> es[i].seed]
  <2>1. IsFiniteSet(1 .. n) BY <1>3, FS_Interval
  <2>2. IsFiniteSet(I) BY <2>1, FS_Subset
  <2>3. S = {es[i].seed : i \in I} BY <1>3
  <2>4. f \in Surjection(I, S)
    <3>1. f \in [I -> S] /\ \A x \in S : \E i \in I : f[i] = x BY <2>3
    <3> HIDE DEF f, I, S
    <3> QED BY <3>1 DEF Surjection
  <2> HIDE DEF f, I, S
  <2> QED BY <2>2, <2>4, FS_Surjection
<1>9. Cardinality(P) <= Cardinality(S) /\ Cardinality(P) \in Nat /\ Cardinality(S) \in Nat
  <2> DEFINE g == [s \in S |->
                     (CHOOSE m \in A : m.public = s).principal]
  <2>1. ASSUME NEW s \in S PROVE \E m \in A : m.public = s
    <3>1. PICK i \in 1 .. n : es[i].decision = "approve" /\ es[i].seed = s
      BY <1>3
    <3>2. Counting!Enrolled(es[i].key) /\ Counting!Sound(es[i])
      BY <1>5, <3>1 DEF Sums, Passing
    <3>3. /\ Counting!MemberOf(es[i].key) \in Counting!Members
          /\ Counting!MemberOf(es[i].key).key = es[i].key
          /\ Counting!MemberOf(es[i].key).public = s
      BY <3>1, <3>2, EnrolledMember DEF Counting!Sound
    <3> QED BY <3>1, <3>3 DEF Approvers
  <2>2. ASSUME NEW m \in A PROVE m.public \in S /\ m \in Counting!Members
    <3>1. m \in Counting!Members BY DEF Approvers
    <3>2. PICK i \in 1 .. n : es[i].key = m.key /\ es[i].decision = "approve"
      BY DEF Approvers
    <3>3. Counting!MemberOf(m.key) = m BY <3>1, MemberFound DEF TallyInv
    <3>4. es[i].seed = m.public
      BY <1>5, <3>2, <3>3 DEF Sums, Passing, Counting!Sound
    <3> QED BY <1>3, <3>1, <3>2, <3>4
  <2>3. \A m, x \in A : m.public = x.public => m = x
    BY <2>2, RosterDistinct DEF TallyInv
  <2>4. g \in [S -> P]
    BY <2>1
  <2>5. ASSUME NEW m \in A PROVE g[m.public] = m.principal
    <3>1. (CHOOSE x \in A : x.public = m.public) = m BY <2>3
    <3> QED BY <2>2, <3>1
  <2>6. \A p \in P : \E s \in S : g[s] = p
    <3> HIDE DEF g, S, A
    <3> SUFFICES ASSUME NEW m \in A PROVE \E s \in S : g[s] = m.principal
      OBVIOUS
    <3>1. m.public \in S /\ g[m.public] = m.principal BY <2>2, <2>5
    <3> QED BY <3>1
  <2> HIDE DEF g, S, P, A
  <2>7. g \in Surjection(S, P) BY <2>4, <2>6 DEF Surjection
  <2> QED BY <1>8, <2>7, FS_Surjection, FS_CardinalityType
<1>10. policy.threshold \in Nat BY RosterDistinct DEF TallyInv
<1> HIDE DEF S, P, A, counted, n
<1>11. Cardinality(S) >= policy.threshold
  BY <1>6, <1>9, <1>10
<1> QED BY <1>7, <1>11 DEF S, counted

\* Whatever list is counted: behind a satisfied tally stand as many private
\* keys as the threshold asks for, each of which signed an approval of this
\* action.
THEOREM SatisfiedHasSigners == Counting!Spec => []SatisfiedMeansSigners
BY TallyInit, TallyStep, SignersFollow, PTL DEF Counting!Spec

=============================================================================
