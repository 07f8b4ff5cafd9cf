-------------------------------- MODULE Tally --------------------------------
(***************************************************************************)
(* Votes and the three places that count them: sign_vote makes them and    *)
(* tally counts a list (python/vekquorum/api.py), submit counts the votes  *)
(* it retains (coordinator.py) and verify_proof those of a proof.  A vote  *)
(* names its action, key and decision; it is sound under a key whose       *)
(* public key belongs to the seed that signed it.                          *)
(***************************************************************************)
EXTENDS Integers, Sequences, FiniteSets, SequencesExt

CONSTANTS None, DispatchBudget,
          Candidates,   \* policies as they come: [threshold, human, roster],
                        \* the roster a sequence of members
          Seeds,        \* private keys in people's hands
          ActionIds,    \* actions that are voted on
          Subject,      \* the one proposed here
          MaxPool       \* bound on votes signed

VARIABLES policy, pool, votes, state

vars == <<policy, pool, votes, state>>

V == INSTANCE Verifier

TallyAssumption ==
  /\ Subject \in ActionIds /\ MaxPool \in Nat
  /\ \A p \in Candidates : p.roster \in Seq(ToSet(p.roster))

DistinctOf(s) == Cardinality(ToSet(s)) = Len(s)

\* Fault: a public key may be enrolled under two key ids.
KeysOnly(p) ==
  /\ p.threshold \in 1 .. Len(p.roster)
  /\ DistinctOf([i \in DOMAIN p.roster |-> p.roster[i].key])
  /\ DistinctOf([i \in DOMAIN p.roster |-> p.roster[i].principal])

\* _policy_invariants, for what votes are counted by.
PolicyInvariants(p) ==
  /\ p.threshold \in 1 .. Len(p.roster)
  /\ DistinctOf([i \in DOMAIN p.roster |-> p.roster[i].key])
  /\ DistinctOf([i \in DOMAIN p.roster |-> p.roster[i].principal])
  /\ DistinctOf([i \in DOMAIN p.roster |-> p.roster[i].public])
  /\ p.human => \E i \in DOMAIN p.roster : p.roster[i].human

Members == ToSet(policy.roster)
Enrolled(key) == \E m \in Members : m.key = key
MemberOf(key) == CHOOSE m \in Members : m.key = key

Vote(action, key, decision, seed) ==
  [action |-> action, key |-> key, decision |-> decision, seed |-> seed]

\* ed_verify of the vote under the public key enrolled for its key id.
Sound(v) == MemberOf(v.key).public = v.seed

Init ==
  /\ policy \in {p \in Candidates : PolicyInvariants(p)}
  /\ pool = {} /\ votes = {} /\ state = "OPEN"

\* sign_vote: the action whose hash is confirmed, under an enrolled key whose
\* seed it is given.
SignVote(action, confirmed, key, decision, seed) ==
  /\ Cardinality(pool) < MaxPool
  /\ confirmed = action
  /\ Enrolled(key) /\ MemberOf(key).public = seed
  /\ pool' = pool \union {Vote(action, key, decision, seed)}
  /\ UNCHANGED <<policy, votes, state>>

\* A vote that came damaged, or under a key that nobody enrolled.
Stray(v) ==
  /\ Cardinality(pool) < MaxPool
  /\ Enrolled(v.key) => ~Sound(v)
  /\ pool' = pool \union {v}
  /\ UNCHANGED <<policy, votes, state>>

Approving(vs) == {v.key : v \in {x \in vs : x.decision = "approve"}}

\* Fault: keys are counted and not principals, and no human is asked for.
KeyQuorum(vs) == Cardinality(Approving(vs)) >= policy.threshold

\* _quorum_satisfied.
QuorumSatisfied(vs) ==
  LET approved == {MemberOf(k) : k \in Approving(vs)} IN
  /\ Cardinality({m.principal : m \in approved}) >= policy.threshold
  /\ policy.human => \E m \in approved : m.human

\* Fault: the votes are looked up by their whole body.
NotTwice(v) == v \notin votes
NoPrior(v) == \A x \in votes : x.key # v.key

\* submit, for what concerns the vote; it is refused unless all of this holds.
Submit(v) ==
  /\ v.action = Subject /\ Enrolled(v.key) /\ Sound(v)
  /\ NoPrior(v)
  /\ state \in V!Live
  /\ votes' = votes \union {v}
  /\ state' = IF v.decision = "reject" THEN "ESCALATED"
              ELSE IF QuorumSatisfied(votes') THEN "READY" ELSE state
  /\ UNCHANGED <<policy, pool>>

Next ==
  \/ \E a, c \in ActionIds, m \in Members, d \in {"approve", "reject"}, s \in Seeds :
       SignVote(a, c, m.key, d, s)
  \/ \E a \in ActionIds, k \in {0, 1}, s \in Seeds : Stray(Vote(a, k, "approve", s))
  \/ \E v \in pool : Submit(v)

Spec == Init /\ [][Next]_vars

-----------------------------------------------------------------------------
(* tally over a list of votes: a failure, or the counts.                   *)

Blank == [error |-> "ok", seen |-> {}, principals |-> {}, humans |-> {}]

Checked(t, v) ==
  IF v.action # Subject THEN "HASH_MISMATCH"
  ELSE IF ~Enrolled(v.key) THEN "KEY_NOT_ENROLLED"
  ELSE IF v.key \in t.seen THEN "VOTE_CONFLICT"
  ELSE IF ~Sound(v) THEN "BAD_SIGNATURE"
  ELSE "ok"

Counted(t, v) ==
  LET approver == {m \in Members : m.key = v.key /\ v.decision = "approve"} IN
  IF t.error # "ok" THEN t
  ELSE IF Checked(t, v) # "ok" THEN [t EXCEPT !.error = Checked(t, v)]
  ELSE [t EXCEPT !.seen = @ \union {v.key},
                 !.principals = @ \union {m.principal : m \in approver},
                 !.humans = @ \union {m.principal : m \in {x \in approver : x.human}}]

TallyOf(list) == FoldLeft(Counted, Blank, list)

Satisfied(t) ==
  /\ t.error = "ok"
  /\ Cardinality(t.principals) >= policy.threshold
  /\ policy.human => t.humans # {}

-----------------------------------------------------------------------------
\* The policy in force is a legal one, and a key has one retained vote.
TypeOK ==
  /\ PolicyInvariants(policy) /\ votes \subseteq pool
  /\ state \in {"OPEN", "READY", "ESCALATED"}
  /\ \A v, w \in votes : v.key = w.key => v = w

\* The coordinator's quorum, the tally of its votes in any order and the
\* verifier's quorum are the same, at every point of a ceremony.
CountersAgree ==
  LET rejected == \E v \in votes : v.decision = "reject"
      proofPolicy == [threshold |-> policy.threshold, human |-> policy.human,
                      roster |-> Members] IN
  \A list \in SetToSeqs(votes) :
    LET t == TallyOf(list) IN
    /\ t.error = "ok"
    /\ Satisfied(t) <=> V!Quorum(proofPolicy, Approving(votes))
    /\ state = "READY" <=> Satisfied(t) /\ ~rejected

\* Whatever list of signed or damaged votes is counted, and in whatever order,
\* a satisfied tally stands for as many different private keys as the policy
\* asks for, each of which signed an approval of this action, and for no two
\* decisions of one key.
SatisfiedMeansSigners ==
  \A list \in SetToAllKPermutations(pool) :
    Satisfied(TallyOf(list)) =>
      LET counted == {v \in ToSet(list) : v.decision = "approve"} IN
      /\ Cardinality({v.seed : v \in counted}) >= policy.threshold
      /\ \A v \in counted : v.action = Subject
      /\ \A v, w \in ToSet(list) : v.key = w.key => v.decision = w.decision
=============================================================================
