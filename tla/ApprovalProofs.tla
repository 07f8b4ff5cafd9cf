--------------------------- MODULE ApprovalProofs ---------------------------
(***************************************************************************)
(* What stands behind a consumed operation, for every instance: one        *)
(* proposal only, a quorum of the policy it was bound to, no rejection,    *)
(* the stop card that policy demands, the authority it was approved for,   *)
(* and a stream the verifier accepts and replays to the same state.        *)
(***************************************************************************)
EXTENDS CoordinatorProofs, FiniteSetTheorems, NaturalsInduction, WellFoundedInduction

\* Votes and state agree: nobody votes before the proposal, nobody on the
\* roster has refused what is live or consumed, and what is ready or consumed
\* has its quorum.
Ballots ==
  \A a \in Actions :
    /\ state[a] = "ABSENT" => votes[a] = [k \in Keys |-> None]
    /\ state[a] \in Live \union ConsumedStates =>
         \A m \in Body[a].policy.roster : votes[a][m.key] # "reject"
    /\ state[a] \in {"READY"} \union ConsumedStates =>
         QuorumSatisfied(votes[a], Body[a].policy)

\* The policy in force is stored.
InForce == authority # None => authority.policy \in policies

-----------------------------------------------------------------------------
(* One proposal for an operation.                                          *)

LEMMA ExclusiveStep ==
  ASSUME Core, OperationExclusive, [Next]_vars
  PROVE  OperationExclusive'
<1> USE Types DEF Core
<1>1. ASSUME NEW a \in Actions, NEW w \in Readings, Propose(a, w), consumed' = consumed
      PROVE  OperationExclusive'
  <2>1. PICK s \in {"OPEN", "ESCALATED"} : state' = [state EXCEPT ![a] = s]
    BY <1>1 DEF Propose, Advance
  <2>2. /\ consumed[Body[a].op] = None
        /\ \A b \in Actions : state[b] \in Live => Body[b].op # Body[a].op
    BY <1>1 DEF Propose, Admissible, OperationUnconsumed, NoLiveRival, LiveActions
  <2>3. \A b \in Actions : b # a => state'[b] = state[b]
    BY <2>1 DEF Streams
  <2> QED
    BY <1>1, <2>2, <2>3 DEF OperationExclusive, LiveActions
<1>2. ASSUME NEW w \in Readings, Consume(w)
      PROVE  OperationExclusive'
  <2> DEFINE a == mu.act
  <2>1. a \in Actions /\ state[a] = "READY" /\ Body[a].op \in Ops
    BY <1>2, HolderTypes, Bodies DEF Consume
  <2>2. /\ state' = [state EXCEPT ![a] = "DISPATCHING"]
        /\ consumed' = [consumed EXCEPT ![Body[a].op] = a]
    BY <1>2 DEF Consume, Advance
  <2>3. ASSUME NEW b \in Actions, state'[b] \in Live
        PROVE  b # a /\ state[b] \in Live
    BY <2>1, <2>2, <2>3 DEF Streams, Live
  <2>4. ASSUME NEW b \in Actions, state'[b] \in Live
        PROVE  consumed'[Body[b].op] = None
    <3>1. Body[b].op # Body[a].op
      BY <2>1, <2>3, <2>4 DEF OperationExclusive, LiveActions, Live
    <3> QED
      BY <2>1, <2>2, <2>3, <2>4, <3>1, Bodies DEF OperationExclusive, LiveActions, Rows
  <2> QED
    BY <2>3, <2>4 DEF OperationExclusive, LiveActions
<1>3. ASSUME consumed' = consumed, \A a \in Actions : ~\E w \in Readings : Propose(a, w),
             ~\E w \in Readings : Consume(w)
      PROVE  OperationExclusive'
  <2>1. ASSUME NEW b \in Actions, state'[b] \in Live
        PROVE  state[b] \in Live
    <3>1. Moves(b)
      BY StateMoves
    <3> QED
      BY <1>3, <2>1, <3>1, Reports DEF Moves, Withdrawn, Live, Settled, Statuses
  <2> QED
    BY <1>3, <2>1 DEF OperationExclusive, LiveActions
<1>4. (\E w \in Readings : Consume(w)) \/ consumed' = consumed
  BY Frame DEF DispatchCall, ProviderNext, ProviderExecutes, ProviderDrops, journalVars
<1> QED
  BY <1>1, <1>2, <1>3, <1>4

\* One proposal at a time competes for an operation, and none for a consumed
\* one (propose, commit, the live_operation index).
THEOREM OperationsExclusive == Spec => []OperationExclusive
<1>1. Init => OperationExclusive
  BY DEF Init, OperationExclusive, LiveActions, Live
<1>2. Core /\ OperationExclusive /\ [Next]_vars => OperationExclusive'
  BY ExclusiveStep
<1> QED
  BY <1>1, <1>2, CoreHolds, PTL DEF Spec

-----------------------------------------------------------------------------
(* Quorum.                                                                 *)

LEMMA Rosters ==
  ASSUME NEW p \in Policies
  PROVE  IsFiniteSet(p.roster) /\ p.threshold \in Nat
<1>1. WellFormedPolicy(p)
  BY AuthorityAssumption DEF Policies
<1>2. Cardinality(p.roster) \in Nat
  BY <1>1, FS_CardinalityType DEF WellFormedPolicy
<1> QED
  BY <1>1, <1>2 DEF WellFormedPolicy

\* There are at least as many members as principals among them.
LEMMA MorePrincipals ==
  ASSUME NEW S, IsFiniteSet(S)
  PROVE  /\ IsFiniteSet({m.principal : m \in S})
         /\ Cardinality({m.principal : m \in S}) <= Cardinality(S)
<1> DEFINE T == {m.principal : m \in S}
           f == [m \in S |-> m.principal]
<1>1. f \in Surjection(S, T)
  BY DEF Surjection
<1> QED
  BY <1>1, FS_Surjection

\* More approvals keep a quorum (_quorum_satisfied).
LEMMA QuorumGrows ==
  ASSUME NEW p \in Policies, NEW before, NEW after, QuorumSatisfied(before, p),
         \A m \in p.roster : before[m.key] = "approve" => after[m.key] = "approve"
  PROVE  QuorumSatisfied(after, p)
<1> DEFINE A == ApprovingMembers(before, p)
           B == ApprovingMembers(after, p)
           PA == {m.principal : m \in A}
           PB == {m.principal : m \in B}
<1>1. A \subseteq B /\ B \in SUBSET p.roster
  BY DEF ApprovingMembers
<1>2. IsFiniteSet(B) /\ p.threshold \in Nat
  BY <1>1, Rosters, FS_Subset
<1>3. IsFiniteSet(PB) /\ PA \in SUBSET PB
  BY <1>1, <1>2, MorePrincipals
<1>4. /\ Cardinality(PA) <= Cardinality(PB)
      /\ Cardinality(PA) \in Nat /\ Cardinality(PB) \in Nat
  BY <1>3, FS_Subset, FS_CardinalityType
<1>5. Cardinality(PA) >= p.threshold
  BY DEF QuorumSatisfied
<1>6. Cardinality(PB) >= p.threshold
  BY <1>2, <1>4, <1>5
<1>7. p.human => \E m \in B : m.human
  BY <1>1 DEF QuorumSatisfied
<1> QED
  BY <1>6, <1>7 DEF QuorumSatisfied

\* Only submit records votes.
LEMMA VotesMove ==
  ASSUME Core, [Next]_vars
  PROVE  \/ votes' = votes
         \/ \E a \in Actions, k \in Keys, d \in Decisions, w \in Readings : Submit(a, k, d, w)
<1>1. CASE OperationNext
  <2>1. ASSUME NEW w \in Readings, NEW c \in Configurations, Configure(c, w)
        PROVE  votes' = votes
    BY <2>1 DEF Configure
  <2>2. ASSUME NEW a \in Actions, NEW w \in Readings,
               \/ Touch(a, w) \/ Propose(a, w) \/ Cancel(a, w)
               \/ \E r \in {"manual", "missing_quorum"} : Escalate(a, r, w)
               \/ \E acked \in BOOLEAN : Deliver(a, acked, w)
        PROVE  votes' = votes
    BY <2>2 DEF Touch, Propose, Cancel, Escalate, Deliver
  <2> QED
    BY <1>1, <2>1, <2>2 DEF OperationNext
<1>2. CASE CommitNext
  BY <1>2, CommitFrame DEF Consume, DispatchCall, journalVars
<1>3. CASE ThreadNext \/ ProcessNext
  BY <1>3, ThreadFrame, ProcessFrame
<1>4. CASE ProviderNext
  BY <1>4 DEF ProviderNext, ProviderExecutes, ProviderDrops, journalVars
<1>5. CASE UNCHANGED vars
  BY <1>5 DEF vars, journalVars
<1> QED
  BY <1>1, <1>2, <1>3, <1>4, <1>5 DEF Next

LEMMA SubmitBallots ==
  ASSUME Core, Ballots, NEW a \in Actions, NEW k \in Keys, NEW d \in Decisions,
         NEW w \in Readings, Submit(a, k, d, w)
  PROVE  Ballots'
<1> USE Types DEF Core
<1> DEFINE ballots == [votes[a] EXCEPT ![k] = d]
           p == Body[a].policy
<1>1. state[a] \in Live /\ k \in RosterKeys(p) /\ votes' = [votes EXCEPT ![a] = ballots]
  BY DEF Submit
<1>2. \/ d = "reject" /\ state' = [state EXCEPT ![a] = "ESCALATED"]
      \/ /\ d # "reject" /\ state[a] = "OPEN" /\ QuorumSatisfied(ballots, p)
         /\ state' = [state EXCEPT ![a] = "READY"]
      \/ /\ d # "reject" /\ ~(state[a] = "OPEN" /\ QuorumSatisfied(ballots, p))
         /\ state' = [state EXCEPT ![a] = state[a]]
  BY DEF Submit, Rejects, Advance
<1>3. votes'[a] = ballots /\ p \in Policies
  BY <1>1, Bodies DEF Rows
<1>4. /\ DOMAIN votes[a] = Keys /\ ballots[k] = d
      /\ \A l \in Keys : l # k => ballots[l] = votes[a][l]
  BY DEF Rows
<1>5. \A m \in p.roster : m.key \in Keys
  BY <1>3 DEF Keys, RosterKeys
<1>6. ASSUME NEW b \in Actions, b # a
      PROVE  votes'[b] = votes[b] /\ state'[b] = state[b]
  BY <1>1, <1>2, <1>6 DEF Rows, Streams
<1>7. /\ state'[a] # "ABSENT"
      /\ state'[a] \in Live \union ConsumedStates =>
           \A m \in p.roster : votes'[a][m.key] # "reject"
  BY <1>1, <1>2, <1>3, <1>4, <1>5 DEF Ballots, Streams, Live, ConsumedStates, Settled
<1>8. ASSUME state'[a] \in {"READY"} \union ConsumedStates
      PROVE  QuorumSatisfied(votes'[a], p)
  <2>1. CASE QuorumSatisfied(ballots, p)
    BY <1>3, <2>1
  <2>2. CASE state[a] = "READY" /\ d # "reject"
    <3>1. d = "approve"
      BY <2>2 DEF Decisions
    <3>2. QuorumSatisfied(votes[a], p)
      BY <2>2 DEF Ballots
    <3>3. \A m \in p.roster : votes[a][m.key] = "approve" => ballots[m.key] = "approve"
      BY <1>4, <1>5, <3>1
    <3> HIDE DEF ballots
    <3> QED
      BY <1>3, <3>2, <3>3, QuorumGrows
  <2> QED
    BY <1>1, <1>2, <1>8, <2>1, <2>2 DEF Streams, Live, ConsumedStates, Settled
<1> QED
  BY <1>6, <1>7, <1>8 DEF Ballots

LEMMA BallotsStep ==
  ASSUME Core, Ballots, [Next]_vars
  PROVE  Ballots'
<1>1. CASE votes' = votes
  <2> SUFFICES ASSUME NEW a \in Actions, votes'[a] = votes[a], Moves(a),
                      ~\E k \in Keys, d \in Decisions, w \in Readings : Submit(a, k, d, w)
               PROVE  /\ state'[a] = "ABSENT" => votes'[a] = [k \in Keys |-> None]
                      /\ state'[a] \in Live \union ConsumedStates =>
                           \A m \in Body[a].policy.roster : votes'[a][m.key] # "reject"
                      /\ state'[a] \in {"READY"} \union ConsumedStates =>
                           QuorumSatisfied(votes'[a], Body[a].policy)
    <3>1. ASSUME NEW a \in Actions, NEW k \in Keys, NEW d \in Decisions,
                 NEW w \in Readings, Submit(a, k, d, w)
          PROVE  Ballots'
      BY <3>1, SubmitBallots
    <3> QED
      BY <1>1, <3>1, StateMoves DEF Ballots
  <2>1. CASE state'[a] = state[a]
    BY <2>1 DEF Ballots
  <2>2. CASE (\E w \in Readings : Propose(a, w)) /\ state'[a] \in {"OPEN", "ESCALATED"}
    <3>1. votes[a] = [k \in Keys |-> None]
      BY <2>2 DEF Propose, Admissible, Ballots
    <3>2. \A m \in Body[a].policy.roster : m.key \in Keys
      BY Bodies DEF Keys, RosterKeys
    <3>3. \A m \in Body[a].policy.roster : votes'[a][m.key] # "reject"
      BY <3>1, <3>2, CoordinatorAssumption DEF Decisions
    <3> QED
      BY <2>2, <3>3 DEF ConsumedStates, Settled
  <2>3. CASE state'[a] \in Withdrawn
    BY <2>3 DEF Withdrawn, Live, ConsumedStates, Settled
  <2>4. CASE (\E w \in Readings : Consume(w)) /\ a = mu.act /\ state'[a] = "DISPATCHING"
    <3>1. state[a] = "READY"
      BY <2>4 DEF Consume
    <3> QED
      BY <2>4, <3>1 DEF Ballots, Live
  <2>5. CASE state[a] \in {"DISPATCHING", "UNKNOWN"} /\ state'[a] \in ConsumedStates
    BY <2>5 DEF Ballots, ConsumedStates, Settled
  <2> QED
    BY <2>1, <2>2, <2>3, <2>4, <2>5, Reports, StateNames
       DEF Moves, ConsumedStates, Settled, Statuses
<1>2. CASE \E a \in Actions, k \in Keys, d \in Decisions, w \in Readings : Submit(a, k, d, w)
  BY <1>2, SubmitBallots
<1> QED
  BY <1>1, <1>2, VotesMove

\* Whoever consumed an operation was approved by enough distinct principals of
\* its policy, and refused by nobody on the roster (submit, commit).
THEOREM CommitsAuthorized == Spec => []AuthorizedCommit
<1>1. Init => Ballots
  BY DEF Init, Ballots, Live, ConsumedStates, Settled
<1>2. Core /\ Ballots /\ [Next]_vars => Ballots'
  BY BallotsStep
<1>3. Core /\ Ballots => AuthorizedCommit
  <2> SUFFICES ASSUME Core, Ballots, NEW o \in Ops, NEW a, a = consumed[o], a # None
               PROVE  /\ Body[a].op = o
                      /\ \E signers \in SUBSET Body[a].policy.roster :
                           /\ \A m \in signers : votes[a][m.key] = "approve"
                           /\ Cardinality(signers) >= Body[a].policy.threshold
                           /\ Body[a].policy.human => \E m \in signers : m.human
                      /\ \A m \in Body[a].policy.roster : votes[a][m.key] # "reject"
    BY DEF AuthorizedCommit
  <2>1. a \in Actions /\ Body[a].op = o /\ state[a] \in ConsumedStates
    BY Types DEF Core, Tombstones, Rows
  <2> DEFINE p == Body[a].policy
             signers == ApprovingMembers(votes[a], p)
  <2>2. p \in Policies /\ signers \in SUBSET p.roster
    BY <2>1, Bodies DEF ApprovingMembers
  <2>3. QuorumSatisfied(votes[a], p)
    BY <2>1 DEF Ballots
  <2>4. Cardinality(signers) >= p.threshold
    <3> DEFINE principals == {m.principal : m \in signers}
    <3>1. IsFiniteSet(signers) /\ p.threshold \in Nat
      BY <2>2, Rosters, FS_Subset
    <3>2. Cardinality(principals) <= Cardinality(signers) /\ IsFiniteSet(principals)
      BY <3>1, MorePrincipals
    <3>3. Cardinality(principals) \in Nat /\ Cardinality(signers) \in Nat
      BY <3>1, <3>2, FS_CardinalityType
    <3>4. Cardinality(principals) >= p.threshold
      BY <2>3 DEF QuorumSatisfied
    <3> QED
      BY <3>1, <3>2, <3>3, <3>4
  <2>5. /\ \A m \in signers : votes[a][m.key] = "approve"
        /\ p.human => \E m \in signers : m.human
    BY <2>3 DEF QuorumSatisfied, ApprovingMembers
  <2>6. \A m \in p.roster : votes[a][m.key] # "reject"
    BY <2>1 DEF Ballots
  <2> QED
    BY <2>1, <2>2, <2>4, <2>5, <2>6
<1> QED
  BY <1>1, <1>2, <1>3, CoreHolds, PTL DEF Spec

-----------------------------------------------------------------------------
(* Authority.                                                              *)

\* Only configure changes the authority.
LEMMA AuthorityChanges ==
  ASSUME Core, [Next]_vars
  PROVE  [AuthorityNext]_authorityVars
<1>1. ASSUME NEW c \in Configurations, NEW w \in Readings, Configure(c, w)
      PROVE  AuthorityNext
  BY <1>1 DEF Configure, AuthorityNext
<1>2. CASE OperationNext
  <2>1. ASSUME NEW a \in Actions, NEW w \in Readings,
               \/ Touch(a, w) \/ Propose(a, w) \/ Cancel(a, w)
               \/ \E k \in Keys, d \in Decisions : Submit(a, k, d, w)
               \/ \E r \in {"manual", "missing_quorum"} : Escalate(a, r, w)
               \/ \E acked \in BOOLEAN : Deliver(a, acked, w)
        PROVE  UNCHANGED authorityVars
    BY <2>1 DEF Touch, Propose, Cancel, Submit, Escalate, Deliver
  <2> QED
    BY <1>1, <1>2, <2>1 DEF OperationNext
<1>3. CASE CommitNext
  BY <1>3, CommitFrame DEF Consume, DispatchCall
<1>4. CASE ThreadNext \/ ProcessNext
  BY <1>4, ThreadFrame, ProcessFrame
<1>5. CASE ProviderNext
  BY <1>5 DEF ProviderNext, ProviderExecutes, ProviderDrops
<1>6. CASE UNCHANGED vars
  BY <1>6 DEF vars
<1> QED
  BY <1>2, <1>3, <1>4, <1>5, <1>6 DEF Next

\* So what is proved of the authority alone holds in every ceremony.
LEMMA CeremonyHasAuthority == Spec => AuthoritySpec
<1>1. Init => AuthorityInit
  BY DEF Init
<1>2. Core /\ [Next]_vars => [AuthorityNext]_authorityVars
  BY AuthorityChanges
<1> QED
  BY <1>1, <1>2, CoreHolds, PTL DEF Spec, AuthoritySpec

\* Whatever is proposed, voted, committed or recovered meanwhile, a key id
\* revoked at some epoch is on no roster from that epoch on (configure).
THEOREM CeremoniesKeepRevocations == Spec => []RevocationIsFinal
BY CeremonyHasAuthority, RevocationHolds, PTL

\* And if every version of a policy is one policy, no public key once revoked
\* comes back under another key id, whatever else the coordinator does.
THEOREM CeremoniesNeverReenroll ==
  ASSUME VersionsImmutable
  PROVE  Spec => []NoReenroll
<1>1. AuthoritySpec => []NoReenroll
  BY RevokedNeverReenroll
<1> QED
  BY <1>1, CeremonyHasAuthority, PTL

\* The policy of the authority in force is stored.
LEMMA InForceStep ==
  ASSUME Core, InForce, [Next]_vars
  PROVE  InForce'
<1>1. [AuthorityNext]_authorityVars
  BY AuthorityChanges
<1>2. ASSUME NEW c \in Configurations, InstallAuthority(c)
      PROVE  InForce'
  BY <1>2 DEF InstallAuthority, PutPolicy, InForce
<1>3. CASE UNCHANGED authorityVars
  BY <1>3 DEF InForce, authorityVars
<1> QED
  BY <1>1, <1>2, <1>3 DEF AuthorityNext

\* No operation is consumed under an authority other than the approved one,
\* whatever changes while the gate or the executor is asked (commit, _drifted).
THEOREM ConsumesUnderAuthority == Spec => ConsumedUnderCurrentAuthority
<1> DEFINE Allowed ==
      \A o \in Ops : consumed'[o] # consumed[o] =>
        /\ authority.epoch = Body[consumed'[o]].epoch
        /\ authority.policy = Body[consumed'[o]].policy
        /\ Body[consumed'[o]].tool \notin authority.denied
        /\ RosterKeys(Body[consumed'[o]].policy) \intersect authority.revoked = {}
<1>1. Init => InForce
  BY DEF Init, AuthorityInit, InForce
<1>2. Core /\ InForce /\ [Next]_vars => InForce'
  BY InForceStep
<1>3. Core /\ InForce /\ [Next]_vars => [Allowed]_vars
  <2> SUFFICES ASSUME Core, InForce, [Next]_vars PROVE Allowed
    OBVIOUS
  <2>1. CASE consumed' = consumed
    BY <2>1
  <2>2. ASSUME NEW w \in Readings, Consume(w)
        PROVE  Allowed
    <3> DEFINE a == mu.act
    <3>1. a \in Actions /\ Body[a].op \in Ops /\ state[a] = "READY" /\ ~Drifted(a)
      BY <2>2, HolderTypes, Bodies DEF Consume, DriftedSinceGate
    <3>2. authority # None
      BY <3>1 DEF Core, Installed
    <3>3. ~ScopeDenied(a) /\ ~KeyRevoked(a) /\ ~PolicyChanged(a)
      BY <3>1, <3>2 DEF Drifted
    <3>4. /\ authority.epoch = Body[a].epoch /\ authority.policy = Body[a].policy
          /\ Body[a].tool \notin authority.denied
      BY <3>3 DEF ScopeDenied, PolicyChanged
    <3>5. RosterKeys(Body[a].policy) \intersect authority.revoked = {}
      BY <3>2, <3>3, <3>4 DEF InForce, KeyRevoked, StoredRoster
    <3>6. consumed' = [consumed EXCEPT ![Body[a].op] = a]
      BY <2>2 DEF Consume
    <3>7. \A o \in Ops : consumed'[o] # consumed[o] => consumed'[o] = a
      BY <3>1, <3>6, Types DEF Core, Rows
    <3> QED
      BY <3>4, <3>5, <3>7
  <2>3. (\E w \in Readings : Consume(w)) \/ consumed' = consumed
    BY Frame DEF DispatchCall, ProviderNext, ProviderExecutes, ProviderDrops, journalVars
  <2> QED
    BY <2>1, <2>2, <2>3
<1> QED
  BY <1>1, <1>2, <1>3, CoreHolds, PTL DEF Spec, ConsumedUnderCurrentAuthority

-----------------------------------------------------------------------------
(* How a stream grows.                                                     *)

\* The row of a proposal, as the replay of its stream should find it.
RowOf(s, ballots) == [state |-> s,
                      recorded |-> {k \in Keys : ballots[k] # None},
                      approved |-> {k \in Keys : ballots[k] = "approve"}]

\* How the stream of a proposal can grow in one step.
Plain == {"CommitStarted", "ExecutionReported", "ExecutionReconciled", "Escalated",
          "Expired", "Invalidated", "Canceled"}

Still(a) == state'[a] = state[a] /\ log'[a] = log[a] /\ votes'[a] = votes[a]

Grown(a) ==
  \E e \in Event :
    /\ e.type \in Plain /\ e.at = last'
    /\ log'[a] = Append(log[a], e) /\ votes'[a] = votes[a]
    /\ V!LegalEvent(Body[a], votes[a], RowOf(state[a], votes[a]), e)
    /\ state'[a] = V!StateAfter(RowOf(state[a], votes[a]), e)

Delivered(a) == \E acked \in BOOLEAN, w \in Readings : Deliver(a, acked, w)
Refused(a) == (\E w \in Readings : HostRefuses(w)) /\ a = mu.act
Proposed(a) == \E w \in Readings : Propose(a, w)
Voted(a) == \E k \in Keys, d \in Decisions, w \in Readings : Submit(a, k, d, w)

Grows(a) ==
  Still(a) \/ Grown(a) \/ Delivered(a) \/ Refused(a) \/ Proposed(a) \/ Voted(a)

LEMMA ConcatOne ==
  ASSUME NEW S, NEW s \in Seq(S), NEW e \in S
  PROVE  s \o <<e>> = Append(s, e)
OBVIOUS

LEMMA OthersStill ==
  ASSUME Core, NEW a \in Actions, NEW s, NEW es, Advance(a, s, es),
         votes' = votes \/ \E v : votes' = [votes EXCEPT ![a] = v]
  PROVE  \A b \in Actions : b # a => Still(b)
BY Types DEF Core, Streams, Rows, Advance, Still

LEMMA OneGrows ==
  ASSUME Core, NEW a \in Actions, NEW s, NEW e \in Event, Advance(a, s, <<e>>),
         votes' = votes, e.type \in Plain, e.at = last',
         V!LegalEvent(Body[a], votes[a], RowOf(state[a], votes[a]), e),
         s = V!StateAfter(RowOf(state[a], votes[a]), e)
  PROVE  \A b \in Actions : Still(b) \/ Grown(b)
<1>1. \A b \in Actions : b # a => Still(b)
  BY OthersStill
<1>2. /\ log[a] \in Seq(Event)
      /\ log' = [log EXCEPT ![a] = log[a] \o <<e>>]
      /\ state' = [state EXCEPT ![a] = s]
  BY Types DEF Core, Streams, Advance
<1>3. log[a] \o <<e>> = Append(log[a], e)
  BY <1>2, ConcatOne
<1>4. log'[a] = Append(log[a], e) /\ state'[a] = s
  BY <1>2, <1>3, Types DEF Core, Streams
<1>5. Grown(a)
  BY <1>4 DEF Grown
<1> QED BY <1>1, <1>5

LEMMA LapseGrows ==
  ASSUME Core, NEW a \in Actions, NEW w \in Readings, Tick(w),
         Lapse(a, LogicalNow(w)), state[a] \in Live, votes' = votes
  PROVE  \A b \in Actions : Still(b) \/ Grown(b)
<1> DEFINE now == LogicalNow(w)
           r == RowOf(state[a], votes[a])
<1>1. now \in Nat /\ last' = now
  BY Types, Clock DEF Core, Tick
<1>2. r.state \in V!Live
  BY DEF RowOf, Live, V!Live
<1>3. CASE HasExpired(a, now)
  <2> DEFINE e == [type |-> "Expired", at |-> now, expires |-> Body[a].expires]
  <2>1. e \in Event
    BY <1>1, EveryEvent, Bodies
  <2>2. e.type = "Expired" /\ e.at = now /\ e.expires = Body[a].expires
    OBVIOUS
  <2>3. Advance(a, "EXPIRED", <<e>>)
    BY <1>3 DEF Lapse
  <2> HIDE DEF e, r, now
  <2>4. V!LegalEvent(Body[a], votes[a], r, e) /\ "EXPIRED" = V!StateAfter(r, e)
    BY <1>2, <1>3, <2>2 DEF V!LegalEvent, V!StateAfter, HasExpired
  <2> QED BY <1>1, <2>1, <2>2, <2>3, <2>4, OneGrows DEF Plain, r
<1>4. CASE ~HasExpired(a, now)
  <2> DEFINE e == [type |-> "Invalidated", at |-> now, reason |-> DriftReason(a)]
  <2>1. DriftReason(a) \in {"scope_denied", "key_revoked", "policy_changed", "state_drift"}
    BY DEF DriftReason
  <2>2. e \in Event
    BY <1>1, <2>1, EveryEvent
  <2>3. e.type = "Invalidated" /\ e.at = now
    OBVIOUS
  <2>4. Advance(a, "STALE", <<e>>)
    BY <1>4 DEF Lapse
  <2> HIDE DEF e, r, now
  <2>5. V!LegalEvent(Body[a], votes[a], r, e) /\ "STALE" = V!StateAfter(r, e)
    BY <1>2, <2>3 DEF V!LegalEvent, V!StateAfter
  <2> QED BY <1>1, <2>2, <2>3, <2>4, <2>5, OneGrows DEF Plain, r
<1> QED BY <1>3, <1>4

LEMMA StatusNames ==
  ASSUME NEW s \in Statuses
  PROVE  V!StateOf(s) = StateOf[s]
BY DEF V!StateOf, StateOf, Statuses

LEMMA ReportGrows ==
  ASSUME Core, NEW a \in Actions, NEW w \in Readings, NEW status \in Statuses,
         NEW type, last' = LogicalNow(w), votes' = votes,
         \/ type = "ExecutionReported" /\ state[a] = "DISPATCHING"
         \/ type = "ExecutionReconciled" /\ state[a] = "UNKNOWN",
         Advance(a, StateOf[status],
                 <<[type |-> type, at |-> LogicalNow(w), status |-> status]>>)
  PROVE  \A b \in Actions : Still(b) \/ Grown(b)
<1> DEFINE now == LogicalNow(w)
           r == RowOf(state[a], votes[a])
           e == [type |-> type, at |-> now, status |-> status]
<1>1. now \in Nat
  BY Types, Clock DEF Core
<1>2. r.state = state[a]
  BY DEF RowOf
<1>3. e \in Event
  BY <1>1, EveryEvent
<1>4. e.type = type /\ e.at = now /\ e.status = status
  OBVIOUS
<1> HIDE DEF e, r, now
<1>5. V!LegalEvent(Body[a], votes[a], r, e)
  BY <1>2, <1>4 DEF V!LegalEvent
<1>6. StateOf[status] = V!StateAfter(r, e)
  BY <1>4, StatusNames DEF V!StateAfter
<1> QED BY <1>3, <1>4, <1>5, <1>6, OneGrows DEF Plain, r, e, now

LEMMA FinishGrows ==
  ASSUME Core, NEW a \in Actions, NEW w \in Readings, NEW status \in Statuses,
         Tick(w), Finish(a, status, LogicalNow(w)), votes' = votes
  PROVE  \A b \in Actions : Still(b) \/ Grown(b)
<1>1. CASE state[a] = "DISPATCHING"
  BY <1>1, ReportGrows DEF Finish, Tick
<1>2. CASE state[a] # "DISPATCHING"
  BY <1>2 DEF Finish, Still
<1> QED BY <1>1, <1>2

LEMMA OperationGrows ==
  ASSUME Core, OperationNext, NEW b \in Actions
  PROVE  Grows(b)
<1> USE DEF Grows
<1>1. ASSUME NEW c \in Configurations, NEW w \in Readings, Configure(c, w)
      PROVE  Grows(b)
  BY <1>1 DEF Configure, Still
<1>2. ASSUME NEW a \in Actions, NEW w \in Readings, Touch(a, w)
      PROVE  Grows(b)
  <2>1. CASE Lapses(a, LogicalNow(w))
    BY <1>2, <2>1, LapseGrows DEF Touch, Lapses
  <2>2. CASE ~Lapses(a, LogicalNow(w))
    BY <1>2, <2>2 DEF Touch, Still
  <2> QED BY <2>1, <2>2
<1>3. ASSUME NEW a \in Actions, NEW w \in Readings, Propose(a, w)
      PROVE  Grows(b)
  <2>1. votes' = votes /\ \E s, es : Advance(a, s, es)
    BY <1>3 DEF Propose
  <2> QED BY <1>3, <2>1, OthersStill DEF Proposed
<1>4. ASSUME NEW a \in Actions, NEW w \in Readings, NEW k \in Keys, NEW d \in Decisions,
             Submit(a, k, d, w)
      PROVE  Grows(b)
  <2>1. (\E v : votes' = [votes EXCEPT ![a] = v]) /\ \E s, es : Advance(a, s, es)
    BY <1>4 DEF Submit
  <2>2. b # a => Still(b)
    BY <2>1, OthersStill
  <2> QED BY <1>4, <2>2 DEF Voted
<1>5. ASSUME NEW a \in Actions, NEW w \in Readings, Cancel(a, w)
      PROVE  Grows(b)
  <2> DEFINE now == LogicalNow(w)
             r == RowOf(state[a], votes[a])
             e == [type |-> "Canceled", at |-> now]
  <2>1. now \in Nat /\ last' = now /\ votes' = votes /\ state[a] \in Live
        /\ Advance(a, "CANCELED", <<e>>)
    BY <1>5, Types, Clock DEF Core, Cancel, Tick
  <2>2. e \in Event /\ e.type = "Canceled" /\ e.at = now
    BY <2>1, EveryEvent
  <2>3. r.state \in V!Live
    BY <2>1 DEF RowOf, Live, V!Live
  <2> HIDE DEF e, r, now
  <2>4. V!LegalEvent(Body[a], votes[a], r, e) /\ "CANCELED" = V!StateAfter(r, e)
    BY <2>2, <2>3 DEF V!LegalEvent, V!StateAfter
  <2>5. Still(b) \/ Grown(b)
    BY <2>1, <2>2, <2>4, OneGrows DEF Plain, r
  <2> QED BY <2>5
<1>6. ASSUME NEW a \in Actions, NEW w \in Readings,
             NEW reason \in {"manual", "missing_quorum"}, Escalate(a, reason, w)
      PROVE  Grows(b)
  <2> DEFINE now == LogicalNow(w)
             r == RowOf(state[a], votes[a])
             e == EscalatedEvent(reason, now)
  <2>1. now \in Nat /\ last' = now /\ votes' = votes /\ state[a] \in Live
        /\ Advance(a, "ESCALATED", <<e>>)
    BY <1>6, Types, Clock DEF Core, Escalate, Tick
  <2>2. e \in Event
    BY <2>1, EveryEvent
  <2>3. e.type = "Escalated" /\ e.at = now /\ e.reason = reason
    BY DEF EscalatedEvent
  <2>4. r.state \in V!Live
    BY <2>1 DEF RowOf, Live, V!Live
  <2> HIDE DEF e, r, now
  <2>5. V!LegalReason(r, reason)
    BY <2>4 DEF V!LegalReason, V!Live
  <2>6. V!LegalEvent(Body[a], votes[a], r, e) /\ "ESCALATED" = V!StateAfter(r, e)
    BY <2>3, <2>5 DEF V!LegalEvent, V!StateAfter
  <2>7. Still(b) \/ Grown(b)
    BY <2>1, <2>2, <2>3, <2>6, OneGrows DEF Plain, r
  <2> QED BY <2>7
<1>7. ASSUME NEW a \in Actions, NEW w \in Readings, NEW acked \in BOOLEAN,
             Deliver(a, acked, w)
      PROVE  Grows(b)
  <2>1. votes' = votes /\ \E s, es : Advance(a, s, es)
    BY <1>7 DEF Deliver
  <2> QED BY <1>7, <2>1, OthersStill DEF Delivered
<1> QED BY <1>1, <1>2, <1>3, <1>4, <1>5, <1>6, <1>7 DEF OperationNext

LEMMA ConsumeGrows ==
  ASSUME Core, NEW w \in Readings, Consume(w), NEW b \in Actions
  PROVE  Still(b) \/ Grown(b)
<1> DEFINE a == mu.act
           now == LogicalNow(w)
           r == RowOf(state[a], votes[a])
           e == [type |-> "CommitStarted", at |-> now, epoch |-> authority.epoch,
                 deadline |-> Deadline(a, now)]
<1>1. a \in Actions /\ state[a] = "READY" /\ votes' = votes
  BY HolderTypes DEF Consume
<1>2. now \in Nat /\ last' = now /\ Advance(a, "DISPATCHING", <<e>>)
  BY Types, Clock DEF Core, Consume, Tick
<1>3. authority.epoch = Body[a].epoch
  <2>1. authority # None
    BY <1>1 DEF Core, Installed
  <2> QED BY <2>1 DEF Consume, DriftedSinceGate, Drifted, PolicyChanged
<1>4. e \in Event
  BY <1>1, <1>2, <1>3, Bodies, DeadlineTypes, EveryEvent
<1>5. /\ e.type = "CommitStarted" /\ e.at = now /\ e.epoch = Body[a].epoch
      /\ e.deadline = Deadline(a, now)
  BY <1>3
<1>6. r.state = "READY"
  BY <1>1 DEF RowOf
<1> HIDE DEF e, r, now
<1>7. V!LegalEvent(Body[a], votes[a], r, e) /\ "DISPATCHING" = V!StateAfter(r, e)
  BY <1>5, <1>6 DEF V!LegalEvent, V!StateAfter, Deadline
<1> QED BY <1>1, <1>2, <1>4, <1>5, <1>7, OneGrows DEF Plain, r

LEMMA CommitGrows ==
  ASSUME Core, CommitNext, NEW b \in Actions
  PROVE  Grows(b)
<1> USE DEF Grows
<1>1. CASE HostAgrees \/ CommitFails \/ DispatchCall \/ WaitHandsOver \/ ReconcileUnresolved
  BY <1>1 DEF HostAgrees, CommitFails, DispatchCall, WaitHandsOver,
              ReconcileUnresolved, journalVars, Still
<1>2. ASSUME NEW a \in Actions, NEW w \in Readings, CommitBegin(a, w) \/ ReconcileBegin(a, w)
      PROVE  Grows(b)
  BY <1>2 DEF CommitBegin, ReconcileBegin, Still
<1>3. ASSUME NEW w \in Readings, HostRefuses(w)
      PROVE  Grows(b)
  <2>1. mu.act \in Actions
    BY <1>3, HolderTypes DEF HostRefuses
  <2>2. votes' = votes /\ \E s, es : Advance(mu.act, s, es)
    BY <1>3 DEF HostRefuses
  <2> QED BY <1>3, <2>1, <2>2, OthersStill DEF Refused
<1>4. ASSUME NEW w \in Readings, ConsumeAbandoned(w)
      PROVE  Grows(b)
  <2>1. mu.act \in Actions
    BY <1>4, HolderTypes DEF ConsumeAbandoned
  <2>2. CASE Lapse(mu.act, LogicalNow(w)) /\ state[mu.act] \in Live
    BY <1>4, <2>1, <2>2, LapseGrows DEF ConsumeAbandoned
  <2>3. CASE UNCHANGED <<state, log>>
    BY <1>4, <2>3 DEF ConsumeAbandoned, Still
  <2> QED BY <1>4, <2>2, <2>3 DEF ConsumeAbandoned
<1>5. ASSUME NEW w \in Readings, Consume(w)
      PROVE  Grows(b)
  BY <1>5, ConsumeGrows
<1>6. ASSUME NEW w \in Readings, DispatchRefused(w) \/ WaitReturns(w) \/ WaitTimesOut(w)
      PROVE  Grows(b)
  <2>1. mu.act \in Actions
    BY <1>6, HolderTypes DEF DispatchRefused, WaitReturns, WaitTimesOut
  <2>2. PICK status \in Statuses : Finish(mu.act, status, LogicalNow(w))
    BY <1>6 DEF DispatchRefused, WaitReturns, WaitTimesOut, TimeoutStatus, Statuses
  <2>3. Tick(w) /\ votes' = votes
    BY <1>6 DEF DispatchRefused, WaitReturns, WaitTimesOut
  <2> QED BY <2>1, <2>2, <2>3, FinishGrows
<1>7. ASSUME NEW w \in Readings, ReconcileResolves(w)
      PROVE  Grows(b)
  <2>1. mu.act \in Actions /\ state[mu.act] = "UNKNOWN"
    BY <1>7, HolderTypes DEF ReconcileResolves, Core, Holding
  <2> DEFINE status == Lookup(Body[mu.act].op)
  <2>2. status \in Statuses
    BY <1>7, <2>1, Bodies, Types
       DEF Core, ReconcileResolves, Lookup, ProviderTypeOK, Statuses
  <2>3. /\ last' = LogicalNow(w) /\ votes' = votes
        /\ Advance(mu.act, StateOf[status],
             <<[type |-> "ExecutionReconciled", at |-> LogicalNow(w), status |-> status]>>)
    BY <1>7 DEF ReconcileResolves, Tick
  <2> HIDE DEF status
  <2> QED BY <2>1, <2>2, <2>3, ReportGrows
<1> QED
  BY <1>1, <1>2, <1>3, <1>4, <1>5, <1>6, <1>7 DEF CommitNext

\* Every step, for every proposal.
LEMMA EveryStreamGrows ==
  ASSUME Core, [Next]_vars, NEW b \in Actions
  PROVE  Grows(b)
<1> USE DEF Grows
<1>1. ASSUME NEW a \in Actions,
             \/ Raises(a)
             \/ \E status \in Statuses \union {"nothing"} : AdapterReturns(a, status)
      PROVE  Grows(b)
  BY <1>1, RaisesFrame DEF AdapterReturns, journalVars, Still
<1>2. ASSUME NEW a \in Actions, NEW status \in Statuses, NEW w \in Readings,
             WatcherFinishes(a, status, w)
      PROVE  Grows(b)
  BY <1>2, FinishGrows DEF WatcherFinishes
<1>3. ASSUME NEW a \in Actions, NEW w \in Readings, Recover(a, w)
      PROVE  Grows(b)
  <2>1. /\ state[a] = "DISPATCHING" /\ last' = LogicalNow(w) /\ votes' = votes
        /\ Advance(a, StateOf["unknown"],
             <<[type |-> "ExecutionReported", at |-> LogicalNow(w), status |-> "unknown"]>>)
    BY <1>3, Reports DEF Recover, Interrupted, Tick
  <2> QED BY <2>1, ReportGrows DEF Statuses
<1>4. CASE Crash \/ Close \/ BecomeReady \/ \E w \in Readings : Open(w)
  BY <1>4 DEF Crash, Close, ThreadsEnd, BecomeReady, Open, journalVars, Still
<1>5. CASE ProviderNext
  BY <1>5 DEF ProviderNext, ProviderExecutes, ProviderDrops, journalVars, Still
<1>6. CASE UNCHANGED vars
  BY <1>6 DEF vars, journalVars, Still
<1> QED
  BY <1>1, <1>2, <1>3, <1>4, <1>5, <1>6, OperationGrows, CommitGrows
     DEF Next, ThreadNext, ProcessNext

-----------------------------------------------------------------------------
(* What the other steps append.                                            *)

LEMMA ConcatTwo ==
  ASSUME NEW S, NEW s \in Seq(S), NEW e \in S, NEW f \in S
  PROVE  s \o <<e, f>> = Append(Append(s, e), f)
OBVIOUS

LEMMA StreamAfter ==
  ASSUME Core, NEW a \in Actions, NEW s, NEW es, Advance(a, s, es)
  PROVE  log'[a] = log[a] \o es /\ state'[a] = s /\ log[a] \in Seq(Event)
BY Types DEF Core, Streams, Advance

LEMMA ProposeAppends ==
  ASSUME Core, NEW a \in Actions, Proposed(a)
  PROVE  /\ state[a] = "ABSENT" /\ votes' = votes
         /\ \E p \in Event :
              /\ p.type = "Proposed" /\ p.at = last' /\ p.epoch = Body[a].epoch
              /\ \/ /\ state'[a] = "OPEN" /\ delivery' = delivery
                    /\ log'[a] = log[a] \o <<p>>
                    /\ Body[a].policy.enrich => FreshCard(a, last')
                 \/ /\ state'[a] = "ESCALATED"
                    /\ \E e \in Event :
                         /\ e = EscalatedEvent("enrichment_unavailable", last')
                         /\ log'[a] = log[a] \o <<p, e>>
<1>1. PICK w \in Readings : Propose(a, w)
  BY DEF Proposed
<1> DEFINE now == LogicalNow(w)
           p == [type |-> "Proposed", at |-> now, epoch |-> Body[a].epoch]
           e == EscalatedEvent("enrichment_unavailable", now)
<1>2. now \in Nat /\ last' = now
  BY <1>1, Types, Clock DEF Core, Propose, Tick
<1>3. state[a] = "ABSENT" /\ votes' = votes
  BY <1>1 DEF Propose, Admissible
<1>4. p \in Event /\ e \in Event
  BY <1>2, Bodies, EveryEvent
<1>5. p.type = "Proposed" /\ p.at = now /\ p.epoch = Body[a].epoch
  OBVIOUS
<1>6. \/ /\ Advance(a, "OPEN", <<p>>) /\ delivery' = delivery
         /\ Body[a].policy.enrich => FreshCard(a, now)
      \/ Advance(a, "ESCALATED", <<p, e>>)
  BY <1>1 DEF Propose
<1> HIDE DEF p, e, now
<1>7. CASE /\ Advance(a, "OPEN", <<p>>) /\ delivery' = delivery
           /\ Body[a].policy.enrich => FreshCard(a, now)
  BY <1>2, <1>3, <1>4, <1>5, <1>7, StreamAfter
<1>8. CASE Advance(a, "ESCALATED", <<p, e>>)
  <2>1. log'[a] = log[a] \o <<p, e>> /\ state'[a] = "ESCALATED"
    BY <1>8, StreamAfter
  <2>2. e = EscalatedEvent("enrichment_unavailable", last')
    BY <1>2 DEF e
  <2> QED BY <1>2, <1>3, <1>4, <1>5, <2>1, <2>2
<1> QED BY <1>6, <1>7, <1>8

\* The vote v by key k, and what follows from it in the same transaction.
Casts(a, k, d, v) ==
  /\ v.type = "VoteRecorded" /\ v.at = last' /\ v.key = k /\ v.decision = d
  /\ \/ /\ d = "approve" /\ state'[a] = state[a]
        /\ log'[a] = Append(log[a], v)
     \/ \E e \in Event :
          /\ log'[a] = Append(Append(log[a], v), e) /\ e.at = last'
          /\ \/ /\ d = "approve" /\ state[a] = "OPEN" /\ state'[a] = "READY"
                /\ QuorumSatisfied(votes'[a], Body[a].policy)
                /\ e.type = "QuorumReached"
                /\ e.keys = {m.key : m \in ApprovingMembers(votes'[a], Body[a].policy)}
             \/ /\ d = "reject" /\ state'[a] = "ESCALATED"
                /\ e.type = "Escalated" /\ e.reason = "reject_vote"

LEMMA SubmitAppends ==
  ASSUME Core, NEW a \in Actions, NEW k \in Keys, NEW d \in Decisions,
         NEW w \in Readings, Submit(a, k, d, w)
  PROVE  /\ votes'[a] = [votes[a] EXCEPT ![k] = d] /\ votes[a][k] = None
         /\ k \in RosterKeys(Body[a].policy) /\ state[a] \in Live
         /\ \E v \in Event : Casts(a, k, d, v)
<1> USE DEF Casts
<1> DEFINE now == LogicalNow(w)
           p == Body[a].policy
           ballots == [votes[a] EXCEPT ![k] = d]
           v == [type |-> "VoteRecorded", at |-> now, key |-> k, decision |-> d]
           K == {m.key : m \in ApprovingMembers(ballots, p)}
           q == [type |-> "QuorumReached", at |-> now, keys |-> K]
           e == EscalatedEvent("reject_vote", now)
<1>1. now \in Nat /\ last' = now
  BY Types, Clock DEF Core, Submit, Tick
<1>2. /\ votes' = [votes EXCEPT ![a] = ballots] /\ votes[a][k] = None
      /\ k \in RosterKeys(p) /\ state[a] \in Live
  BY DEF Submit
<1>3. votes'[a] = ballots
  BY <1>2, Types DEF Core, Rows
<1>4. K \in SUBSET Keys
  BY Bodies DEF Keys, RosterKeys, ApprovingMembers
<1>5. v \in Event /\ q \in Event /\ e \in Event
  BY <1>1, <1>4, EveryEvent
<1>6. /\ v.type = "VoteRecorded" /\ v.at = now /\ v.key = k /\ v.decision = d
      /\ q.type = "QuorumReached" /\ q.at = now /\ q.keys = K
      /\ e.type = "Escalated" /\ e.at = now /\ e.reason = "reject_vote"
  BY DEF EscalatedEvent
<1>7. \/ d = "reject" /\ Advance(a, "ESCALATED", <<v, e>>)
      \/ /\ d # "reject" /\ state[a] = "OPEN" /\ QuorumSatisfied(ballots, p)
         /\ Advance(a, "READY", <<v, q>>)
      \/ d # "reject" /\ Advance(a, state[a], <<v>>)
  BY DEF Submit, Rejects
<1>8. d # "reject" => d = "approve"
  BY DEF Decisions
<1> HIDE DEF v, q, e, now, ballots, K
<1>9. CASE d = "reject" /\ Advance(a, "ESCALATED", <<v, e>>)
  <2>0. log'[a] = log[a] \o <<v, e>> /\ state'[a] = "ESCALATED" /\ log[a] \in Seq(Event)
    BY <1>9, StreamAfter
  <2>1. log'[a] = Append(Append(log[a], v), e)
    BY <1>5, <2>0, ConcatTwo
  <2> QED BY <1>1, <1>2, <1>3, <1>5, <1>6, <1>9, <2>0, <2>1 DEF ballots
<1>10. CASE /\ d # "reject" /\ state[a] = "OPEN" /\ QuorumSatisfied(ballots, p)
            /\ Advance(a, "READY", <<v, q>>)
  <2>0. log'[a] = log[a] \o <<v, q>> /\ state'[a] = "READY" /\ log[a] \in Seq(Event)
    BY <1>10, StreamAfter
  <2>1. log'[a] = Append(Append(log[a], v), q)
    BY <1>5, <2>0, ConcatTwo
  <2>2. q.keys = {m.key : m \in ApprovingMembers(votes'[a], p)}
    BY <1>3, <1>6 DEF K
  <2>3. QuorumSatisfied(votes'[a], p)
    BY <1>3, <1>10
  <2> QED BY <1>1, <1>2, <1>3, <1>5, <1>6, <1>8, <1>10, <2>0, <2>1, <2>2, <2>3 DEF ballots
<1>11. CASE d # "reject" /\ Advance(a, state[a], <<v>>)
  <2>1. log'[a] = Append(log[a], v) /\ state'[a] = state[a]
    BY <1>5, <1>11, StreamAfter, ConcatOne
  <2> QED BY <1>1, <1>2, <1>3, <1>5, <1>6, <1>8, <1>11, <2>1 DEF ballots
<1> QED BY <1>7, <1>9, <1>10, <1>11

LEMMA DeliverAppends ==
  ASSUME Core, NEW a \in Actions, Delivered(a)
  PROVE  /\ votes' = votes /\ state'[a] = state[a] /\ delivery[a].state = "PENDING"
         /\ \E e \in Event :
              /\ e.type \in {"EscalationDelivered", "EscalationDeferred"}
              /\ e.at = last' /\ log'[a] = Append(log[a], e)
<1>1. PICK acked \in BOOLEAN, w \in Readings : Deliver(a, acked, w)
  BY DEF Delivered
<1> DEFINE now == LogicalNow(w)
           n == delivery[a].attempts + 1
           e == IF acked THEN [type |-> "EscalationDelivered", at |-> now]
                         ELSE [type |-> "EscalationDeferred", at |-> now, attempt |-> n]
<1>2. now \in Nat /\ last' = now
  BY <1>1, Types, Clock DEF Core, Deliver, Tick
<1>3. n \in Nat
  <2>1. delivery[a].attempts \in 0 .. MaxAttempts
    BY Types DEF Core, Rows
  <2> QED BY <2>1
<1>4. e \in Event
  BY <1>2, <1>3, EveryEvent
<1>5. e.type \in {"EscalationDelivered", "EscalationDeferred"} /\ e.at = now
  OBVIOUS
<1>6. /\ Advance(a, state[a], <<e>>) /\ votes' = votes
      /\ delivery[a].state = "PENDING"
  BY <1>1 DEF Deliver, MayDeliver
<1> HIDE DEF e, now
<1>7. log'[a] = Append(log[a], e) /\ state'[a] = state[a]
  BY <1>4, <1>6, StreamAfter, ConcatOne
<1> QED BY <1>2, <1>4, <1>5, <1>6, <1>7

LEMMA RefuseAppends ==
  ASSUME Core, NEW a \in Actions, Refused(a)
  PROVE  /\ votes' = votes /\ state'[a] = "STALE" /\ mu.at \in {"gate", "inspect"}
         /\ state[a] # "ABSENT"
         /\ \E e \in Event :
              e.type = "Invalidated" /\ e.at = last' /\ log'[a] = Append(log[a], e)
<1>1. PICK w \in Readings : HostRefuses(w) /\ a = mu.act
  BY DEF Refused
<1> DEFINE now == LogicalNow(w)
           e == [type |-> "Invalidated", at |-> now,
                 reason |-> IF mu.at = "gate" THEN "scope_denied" ELSE "state_drift"]
<1>2. now \in Nat /\ last' = now
  BY <1>1, Types, Clock DEF Core, HostRefuses, Tick
<1>3. e \in Event
  BY <1>2, EveryEvent
<1>4. e.type = "Invalidated" /\ e.at = now
  OBVIOUS
<1>5. Advance(a, "STALE", <<e>>) /\ votes' = votes /\ mu.at \in {"gate", "inspect"}
  BY <1>1 DEF HostRefuses, At
<1>6. state[a] # "ABSENT"
  BY <1>1, <1>5 DEF Core, Holding
<1> HIDE DEF e, now
<1>7. log'[a] = Append(log[a], e) /\ state'[a] = "STALE"
  <2>1. log'[a] = log[a] \o <<e>> /\ state'[a] = "STALE" /\ log[a] \in Seq(Event)
    BY <1>5, StreamAfter
  <2> QED BY <1>3, <2>1, ConcatOne
<1> QED BY <1>2, <1>3, <1>4, <1>5, <1>6, <1>7

\* The states in which one event ends a transaction.
LEMMA PlainMoves ==
  ASSUME NEW a \in Actions, NEW b, NEW r, NEW e \in Event, e.type \in Plain,
         V!LegalEvent(Body[a], b, r, e)
  PROVE  /\ r.state \in Live \union {"DISPATCHING", "UNKNOWN", "REJECT_PENDING"}
         /\ V!StateAfter(r, e) \in ConsumedStates \union Withdrawn
<1>1. r.state \in Live \union {"DISPATCHING", "UNKNOWN", "REJECT_PENDING"}
  BY DEF Plain, V!LegalEvent, V!LegalReason, V!Live, Live
<1>2. CASE e.type \in {"ExecutionReported", "ExecutionReconciled"}
  <2>1. e.status \in Statuses
    BY <1>2 DEF Event
  <2> QED BY <1>1, <1>2, <2>1, StatusNames, Reports, StateNames
          DEF V!StateAfter
<1>3. CASE e.type \notin {"ExecutionReported", "ExecutionReconciled"}
  BY <1>1, <1>3 DEF V!StateAfter, Plain, ConsumedStates, Withdrawn
<1> QED BY <1>2, <1>3

-----------------------------------------------------------------------------
(* Deliveries.                                                             *)

LEMMA DeliveryMoves ==
  ASSUME Core, [Next]_vars, NEW b \in Actions
  PROVE  delivery'[b] = delivery[b] \/ state'[b] = "ESCALATED" \/ Delivered(b)
<1>1. CASE OperationNext
  <2>1. ASSUME NEW w \in Readings, NEW c \in Configurations, Configure(c, w)
        PROVE  delivery' = delivery
    BY <2>1 DEF Configure
  <2>2. ASSUME NEW a \in Actions, NEW w \in Readings, Touch(a, w) \/ Cancel(a, w)
        PROVE  delivery' = delivery
    BY <2>2 DEF Touch, Cancel
  <2>3. ASSUME NEW a \in Actions, NEW w \in Readings,
               \/ Propose(a, w)
               \/ \E k \in Keys, d \in Decisions : Submit(a, k, d, w)
               \/ \E r \in {"manual", "missing_quorum"} : Escalate(a, r, w)
        PROVE  delivery'[b] = delivery[b] \/ state'[b] = "ESCALATED"
    <3>1. delivery' = delivery \/ (OpenDelivery(a) /\ \E es : Advance(a, "ESCALATED", es))
      BY <2>3 DEF Propose, Submit, Escalate
    <3> QED BY <3>1, Types, StreamAfter DEF Core, Rows, OpenDelivery
  <2>4. ASSUME NEW a \in Actions, NEW w \in Readings, NEW acked \in BOOLEAN,
               Deliver(a, acked, w)
        PROVE  delivery'[b] = delivery[b] \/ Delivered(b)
    <3>1. b = a \/ delivery'[b] = delivery[b]
      BY <2>4, Types DEF Core, Rows, Deliver
    <3> QED BY <2>4, <3>1 DEF Delivered
  <2> QED BY <1>1, <2>1, <2>2, <2>3, <2>4 DEF OperationNext
<1>2. CASE CommitNext
  BY <1>2 DEF CommitNext, HostAgrees, CommitFails, DispatchCall, WaitHandsOver,
       ReconcileUnresolved, CommitBegin, ReconcileBegin, HostRefuses, ConsumeAbandoned,
       Consume, DispatchRefused, WaitReturns, WaitTimesOut, ReconcileResolves, journalVars
<1>3. CASE ThreadNext
  BY <1>3, RaisesFrame DEF ThreadNext, AdapterReturns, WatcherFinishes, journalVars
<1>4. CASE ProcessNext
  BY <1>4 DEF ProcessNext, Crash, Close, ThreadsEnd, BecomeReady, Open, Recover, journalVars
<1>5. CASE ProviderNext
  BY <1>5 DEF ProviderNext, ProviderExecutes, ProviderDrops, journalVars
<1>6. CASE UNCHANGED vars
  BY <1>6 DEF vars, journalVars
<1> QED BY <1>1, <1>2, <1>3, <1>4, <1>5, <1>6 DEF Next

-----------------------------------------------------------------------------
(* Stop cards.                                                             *)

\* A proposal that needs a stop card had a fresh one when it was proposed, or
\* it is not open and never was.
Carded(a) ==
  Body[a].card # None /\ log[a][1].at - Body[a].card \in 0 .. EnrichmentWindow
Uncarded(a) ==
  /\ state[a] \notin Live
  /\ \A i \in 1 .. Len(log[a]) : log[a][i].type # "QuorumReached"
Origin(a) ==
  /\ state[a] = "ABSENT" => log[a] = <<>> /\ delivery[a].state = "NONE"
  /\ state[a] # "ABSENT" => log[a] # <<>>
  /\ state[a] # "ABSENT" /\ Body[a].policy.enrich => Carded(a) \/ Uncarded(a)

LEMMA FreshIsCarded ==
  ASSUME NEW a \in Actions, NEW t \in Nat, FreshCard(a, t)
  PROVE  Body[a].card # None /\ t - Body[a].card \in 0 .. EnrichmentWindow
<1>1. Body[a].card \in Nat /\ EnrichmentWindow \in Nat
  BY CoordinatorAssumption DEF FreshCard
<1>2. Body[a].card # None /\ Body[a].card <= t /\ t <= Body[a].card + EnrichmentWindow
  BY DEF FreshCard
<1> QED BY <1>1, <1>2

LEMMA AppendKeeps ==
  ASSUME NEW S, NEW s \in Seq(S), NEW e
  PROVE  /\ Len(Append(s, e)) = Len(s) + 1 /\ Append(s, e) # <<>>
         /\ \A i \in 1 .. Len(s) : Append(s, e)[i] = s[i]
         /\ Append(s, e)[Len(s) + 1] = e
         /\ s # <<>> => Append(s, e)[1] = s[1] /\ 1 \in 1 .. Len(s)
OBVIOUS

\* One event more, which is no quorum, of a proposal that is not opened.
LEMMA OriginGrows ==
  ASSUME Core, NEW a \in Actions, Origin(a), state[a] # "ABSENT",
         NEW e, e.type # "QuorumReached", log'[a] = Append(log[a], e),
         state'[a] # "ABSENT", state[a] \in Live \/ state'[a] \notin Live
  PROVE  Origin(a)'
<1>1. log[a] \in Seq(Event) /\ log[a] # <<>>
  BY Types DEF Core, Streams, Origin
<1>2. /\ Len(log'[a]) = Len(log[a]) + 1 /\ log'[a] # <<>> /\ log'[a][1] = log[a][1]
      /\ \A i \in 1 .. Len(log[a]) : log'[a][i] = log[a][i]
      /\ log'[a][Len(log[a]) + 1] = e
  BY <1>1, AppendKeeps
<1>3. ASSUME Carded(a) PROVE Carded(a)'
  BY <1>2, <1>3 DEF Carded
<1>4. ASSUME Uncarded(a) PROVE Uncarded(a)'
  <2>1. \A i \in 1 .. Len(log'[a]) : i \in 1 .. Len(log[a]) \/ i = Len(log[a]) + 1
    BY <1>1, <1>2
  <2> QED BY <1>2, <1>4, <2>1 DEF Uncarded
<1> QED BY <1>2, <1>3, <1>4 DEF Origin

LEMMA OriginStep ==
  ASSUME Core, Core', NEW a \in Actions, Origin(a), [Next]_vars
  PROVE  Origin(a)'
<1>1. state[a] \in States /\ state'[a] \in States
  BY DEF Core, CoordinatorTypeOK
<1>2. CASE Still(a)
  <2>1. state'[a] = "ABSENT" => delivery'[a] = delivery[a]
    BY <1>2, DeliveryMoves, DeliverAppends DEF Still, Origin
  <2> QED BY <1>2, <2>1 DEF Still, Origin, Carded, Uncarded
<1>3. CASE Grown(a)
  <2>1. PICK e \in Event :
          /\ e.type \in Plain /\ log'[a] = Append(log[a], e)
          /\ V!LegalEvent(Body[a], votes[a], RowOf(state[a], votes[a]), e)
          /\ state'[a] = V!StateAfter(RowOf(state[a], votes[a]), e)
    BY <1>3 DEF Grown
  <2>2. RowOf(state[a], votes[a]).state = state[a]
    BY DEF RowOf
  <2>3. state[a] # "ABSENT" /\ state'[a] \in ConsumedStates \union Withdrawn
    BY <2>1, <2>2, PlainMoves DEF Live
  <2> QED BY <2>1, <2>3, OriginGrows, StateNames DEF Withdrawn, Plain, Live
<1>4. CASE Delivered(a)
  <2>1. state[a] # "ABSENT"
    BY <1>4, DeliverAppends DEF Origin
  <2> QED BY <1>4, <2>1, DeliverAppends, OriginGrows
<1>5. CASE Refused(a)
  BY <1>5, RefuseAppends, OriginGrows DEF Live
<1>6. CASE Proposed(a)
  <2>1. log[a] = <<>> /\ state[a] = "ABSENT"
    BY <1>6, ProposeAppends DEF Origin
  <2>2. last' \in Nat
    BY DEF Core, CoordinatorTypeOK, Instants
  <2>3. PICK p \in Event :
          /\ p.type = "Proposed" /\ p.at = last'
          /\ \/ /\ state'[a] = "OPEN" /\ log'[a] = log[a] \o <<p>>
                /\ Body[a].policy.enrich => FreshCard(a, last')
             \/ /\ state'[a] = "ESCALATED"
                /\ \E e \in Event :
                     /\ e = EscalatedEvent("enrichment_unavailable", last')
                     /\ log'[a] = log[a] \o <<p, e>>
    BY <1>6, ProposeAppends
  <2>4. CASE /\ state'[a] = "OPEN" /\ log'[a] = log[a] \o <<p>>
             /\ Body[a].policy.enrich => FreshCard(a, last')
    <3>1. log'[a] = <<p>> BY <2>1, <2>4
    <3>2. Body[a].policy.enrich => Carded(a)'
      BY <2>2, <2>3, <2>4, <3>1, FreshIsCarded DEF Carded
    <3> QED BY <2>4, <3>1, <3>2 DEF Origin
  <2>5. CASE /\ state'[a] = "ESCALATED"
             /\ \E e \in Event : /\ e = EscalatedEvent("enrichment_unavailable", last')
                                 /\ log'[a] = log[a] \o <<p, e>>
    <3>1. PICK e \in Event : /\ e = EscalatedEvent("enrichment_unavailable", last')
                             /\ log'[a] = log[a] \o <<p, e>>
      BY <2>5
    <3>2. e.type = "Escalated" BY <3>1 DEF EscalatedEvent
    <3>3. log'[a] = <<p, e>> BY <2>1, <3>1
    <3>4. Uncarded(a)'
      <4>1. \A i \in 1 .. Len(<<p, e>>) : <<p, e>>[i] \in {p, e}
        OBVIOUS
      <4>2. \A i \in 1 .. Len(log'[a]) : log'[a][i].type # "QuorumReached"
        BY <2>3, <3>2, <3>3, <4>1
      <4> QED BY <2>5, <4>2 DEF Uncarded, Live
    <3> QED BY <2>5, <3>3, <3>4 DEF Origin
  <2> QED BY <2>3, <2>4, <2>5
<1>7. CASE Voted(a)
  <2>1. PICK k \in Keys, d \in Decisions, w \in Readings : Submit(a, k, d, w)
    BY <1>7 DEF Voted
  <2>2. state[a] \in Live /\ state[a] # "ABSENT"
    BY <2>1, SubmitAppends DEF Live
  <2>3. log[a] \in Seq(Event) /\ log[a] # <<>>
    BY <2>2, Types DEF Core, Streams, Origin
  <2>4. PICK v \in Event :
          \/ state'[a] = state[a] /\ log'[a] = Append(log[a], v)
          \/ \E e \in Event : /\ log'[a] = Append(Append(log[a], v), e)
                              /\ state'[a] = "READY" \/ state'[a] = "ESCALATED"
    <3>1. PICK v \in Event : Casts(a, k, d, v)
      BY <2>1, SubmitAppends
    <3> QED BY <3>1 DEF Casts
  <2>5. log'[a] # <<>> /\ log'[a][1] = log[a][1] /\ state'[a] # "ABSENT"
    BY <2>2, <2>3, <2>4, AppendKeeps
  <2>6. Body[a].policy.enrich => Carded(a)
    BY <2>2 DEF Origin, Uncarded
  <2>7. Body[a].policy.enrich => Carded(a)'
    BY <2>5, <2>6 DEF Carded
  <2> QED BY <2>5, <2>7 DEF Origin
<1> QED BY <1>2, <1>3, <1>4, <1>5, <1>6, <1>7, EveryStreamGrows DEF Grows

Origins == \A a \in Actions : Origin(a)

\* A stop card that a policy demands was fresh when the action was proposed,
\* or there is no quorum (propose, submit).
THEOREM QuorumsEnriched == Spec => []EnrichmentBeforeQuorum
<1>1. Init => Origins
  BY DEF Init, Origins, Origin
<1>2. Core /\ Core' /\ Origins /\ [Next]_vars => Origins'
  <2> SUFFICES ASSUME Core, Core', Origins, [Next]_vars, NEW a \in Actions
               PROVE  Origin(a)'
    BY DEF Origins
  <2> QED BY OriginStep DEF Origins
<1>3. Origins => EnrichmentBeforeQuorum
  <2> SUFFICES ASSUME Origins, NEW a \in Actions, Body[a].policy.enrich,
                      NEW i \in 1 .. Len(log[a]), log[a][i].type = "QuorumReached"
               PROVE  Carded(a)
    BY DEF EnrichmentBeforeQuorum, Carded
  <2>1. Origin(a) BY DEF Origins
  <2>2. log[a] # <<>> OBVIOUS
  <2> QED BY <2>1, <2>2 DEF Origin, Uncarded
<1> QED BY <1>1, <1>2, <1>3, CoreHolds, PTL DEF Spec

-----------------------------------------------------------------------------
(* Replaying a stream.  The verifier folds a step over the whole stream;   *)
(* its fold is unrolled here into a run of states, one for each event.     *)

\* Where the replay starts, after Proposed.
Blank == [state |-> "OPEN", recorded |-> {}, approved |-> {}]

\* f folds the replay over the sets of positions in 1 .. n.
FoldsTo(f, a, b, es, n) ==
  f = [s \in SUBSET (1 .. n) |->
         IF s = {} THEN Blank
         ELSE V!ReplayStep(a, b, f[s \ {V!Max(s)}], es[V!Max(s)])]

LEMMA ReduceIsFold ==
  ASSUME NEW a, NEW b, NEW S, NEW es \in Seq(S), es # <<>>
  PROVE  V!Reduce(a, b, es) =
           (CHOOSE f : FoldsTo(f, a, b, Tail(es), Len(es) - 1))[1 .. Len(es) - 1]
<1> DEFINE Folds(f) == f = [s \in SUBSET DOMAIN Tail(es) |->
         IF s = {} THEN Blank
         ELSE V!ReplayStep(a, b, f[s \ {V!Max(s)}], Tail(es)[V!Max(s)])]
<1>1. V!Reduce(a, b, es) = (CHOOSE f : Folds(f))[DOMAIN Tail(es)]
  BY DEF V!Reduce, V!FoldLeft, V!MapThenFoldSet, Blank
<1>2. DOMAIN Tail(es) = 1 .. Len(es) - 1
  OBVIOUS
<1> QED BY <1>1, <1>2 DEF FoldsTo

LEMMA LeastOf ==
  ASSUME NEW T \in SUBSET Nat, T # {}
  PROVE  \E x \in T : \A y \in T : x <= y
<1> DEFINE below == {ss \in Nat \X Nat : ss[1] < ss[2]}
<1>1. IsWellFoundedOn(below, Nat)
  BY NatLessThanWellFounded DEF OpToRel
<1>2. PICK x \in T : \A y \in T : <<y, x>> \notin below
  <2> HIDE DEF below
  <2> QED BY <1>1, WFMin
<1>3. \A y \in T : x <= y
  <2> SUFFICES ASSUME NEW y \in T, ~(x <= y) PROVE FALSE
    OBVIOUS
  <2>1. y < x /\ <<y, x>> \in Nat \X Nat
    OBVIOUS
  <2> QED BY <1>2, <2>1
<1> QED BY <1>3

LEMMA GreatestOf ==
  ASSUME NEW n \in Nat, NEW s \in SUBSET (1 .. n), s # {}
  PROVE  V!Max(s) \in s /\ \A y \in s : V!Max(s) >= y
<1> DEFINE T == {n - x : x \in s}
<1>1. T \in SUBSET Nat /\ T # {}
  <2>1. \A x \in s : n - x \in Nat OBVIOUS
  <2> QED BY <2>1
<1>2. PICK t \in T : \A y \in T : t <= y
  <2> HIDE DEF T
  <2> QED BY <1>1, LeastOf
<1>3. PICK x \in s : t = n - x OBVIOUS
<1>4. \A y \in s : x >= y
  <2> SUFFICES ASSUME NEW y \in s PROVE x >= y OBVIOUS
  <2>1. n - x <= n - y BY <1>2, <1>3
  <2> QED BY <2>1
<1> QED BY <1>4 DEF V!Max

LEMMA GreatestIs ==
  ASSUME NEW n \in Nat, NEW s \in SUBSET (1 .. n), n \in s
  PROVE  V!Max(s) = n
<1>1. V!Max(s) \in s /\ V!Max(s) >= n BY GreatestOf
<1>2. V!Max(s) \in 1 .. n BY <1>1
<1> HIDE DEF V!Max
<1> QED BY <1>1, <1>2

LEMMA FoldExists ==
  ASSUME NEW a, NEW b, NEW es
  PROVE  \A n \in Nat : \E f : FoldsTo(f, a, b, es, n)
<1> DEFINE bad == {n \in Nat : ~ \E f : FoldsTo(f, a, b, es, n)}
<1> SUFFICES ASSUME bad # {} PROVE FALSE
  OBVIOUS
<1>1. PICK n \in bad : \A m \in bad : n <= m
  <2>1. bad \in SUBSET Nat OBVIOUS
  <2> HIDE DEF bad
  <2> QED BY <2>1, LeastOf
<1>2. n \in Nat /\ ~ \E f : FoldsTo(f, a, b, es, n)
  OBVIOUS
<1>3. n # 0
  <2> SUFFICES ASSUME n = 0 PROVE FALSE OBVIOUS
  <2> DEFINE f == [s \in SUBSET (1 .. 0) |-> Blank]
  <2>1. \A s \in SUBSET (1 .. 0) : s = {} OBVIOUS
  <2>2. FoldsTo(f, a, b, es, 0) BY <2>1 DEF FoldsTo
  <2> QED BY <1>2, <2>2
<1>4. PICK m \in Nat : n = m + 1
  <2>1. n - 1 \in Nat /\ n = (n - 1) + 1 BY <1>2, <1>3
  <2> QED BY <2>1
<1>5. PICK g : FoldsTo(g, a, b, es, m)
  <2>1. m \notin bad BY <1>1, <1>4
  <2> QED BY <2>1
<1> HIDE DEF bad
<1> DEFINE f == [s \in SUBSET (1 .. n) |->
                   IF n \in s THEN V!ReplayStep(a, b, g[s \ {n}], es[n]) ELSE g[s]]
<1>6. ASSUME NEW s \in SUBSET (1 .. n)
      PROVE  f[s] = IF s = {} THEN Blank
                    ELSE V!ReplayStep(a, b, f[s \ {V!Max(s)}], es[V!Max(s)])
  <2>1. CASE n \in s
    <3>1. V!Max(s) = n BY <1>4, <2>1, GreatestIs
    <3>2. s \ {n} \in SUBSET (1 .. n) /\ n \notin s \ {n} OBVIOUS
    <3>3. f[s \ {n}] = g[s \ {n}] BY <3>2
    <3> QED BY <2>1, <3>1, <3>3
  <2>2. CASE n \notin s
    <3>1. s \in SUBSET (1 .. m) BY <1>4, <2>2
    <3>2. f[s] = g[s] BY <2>2
    <3>3. CASE s = {} BY <3>1, <3>2, <3>3, <1>5 DEF FoldsTo
    <3>4. CASE s # {}
      <4>1. s \ {V!Max(s)} \in SUBSET (1 .. n) /\ n \notin s \ {V!Max(s)}
        BY <2>2
      <4>2. f[s \ {V!Max(s)}] = g[s \ {V!Max(s)}] BY <4>1
      <4>3. g[s] = V!ReplayStep(a, b, g[s \ {V!Max(s)}], es[V!Max(s)])
        BY <1>5, <3>1, <3>4 DEF FoldsTo
      <4> QED BY <3>2, <3>4, <4>2, <4>3
    <3> QED BY <3>3, <3>4
  <2> QED BY <2>1, <2>2
<1>7. FoldsTo(f, a, b, es, n)
  BY <1>6 DEF FoldsTo
<1> QED BY <1>2, <1>7

\* The reduced states at the positions of a stream, from the proposal on.
Run(r, a, b, es) ==
  /\ r[1] = Blank
  /\ \A i \in 2 .. Len(es) : r[i] = V!ReplayStep(a, b, r[i - 1], es[i])

LEMMA ReduceIsRun ==
  ASSUME NEW a, NEW b, NEW S, NEW es \in Seq(S), es # <<>>
  PROVE  \E r : Run(r, a, b, es) /\ V!Reduce(a, b, es) = r[Len(es)]
<1> DEFINE n == Len(es) - 1
           f == CHOOSE g : FoldsTo(g, a, b, Tail(es), n)
           r == [i \in 1 .. Len(es) |-> f[1 .. i - 1]]
<1>1. n \in Nat OBVIOUS
<1>2. FoldsTo(f, a, b, Tail(es), n)
  BY <1>1, FoldExists
<1>3. V!Reduce(a, b, es) = f[1 .. n]
  BY ReduceIsFold
<1> HIDE DEF f
<1>4. r[1] = Blank
  <2>1. r[1] = f[1 .. 0] BY <1>1
  <2>2. 1 .. 0 = {} OBVIOUS
  <2>3. f[{}] = Blank BY <1>2 DEF FoldsTo
  <2> QED BY <2>1, <2>2, <2>3
<1>5. ASSUME NEW i \in 2 .. Len(es)
      PROVE  r[i] = V!ReplayStep(a, b, r[i - 1], es[i])
  <2> DEFINE s == 1 .. i - 1
  <2>1. /\ s \in SUBSET (1 .. n) /\ s # {} /\ i - 1 \in s
        /\ s \ {i - 1} = 1 .. (i - 1) - 1
    <3>1. i \in Nat /\ i >= 2 /\ i - 1 <= n BY <1>1
    <3>2. \A x \in Nat : x \in s => x \in 1 .. n BY <1>1, <3>1
    <3>3. i - 1 \in s BY <3>1
    <3>4. \A x : x \in s \ {i - 1} <=> x \in 1 .. (i - 1) - 1 BY <3>1
    <3> QED BY <3>2, <3>3, <3>4
  <2>2. V!Max(s) = i - 1
    <3>1. i - 1 \in Nat /\ s \in SUBSET (1 .. i - 1) OBVIOUS
    <3> QED BY <2>1, <3>1, GreatestIs
  <2>3. f[s] = V!ReplayStep(a, b, f[s \ {i - 1}], Tail(es)[i - 1])
    BY <1>2, <2>1, <2>2 DEF FoldsTo
  <2>4. Tail(es)[i - 1] = es[i]
    OBVIOUS
  <2>5. r[i] = f[s] /\ r[i - 1] = f[1 .. (i - 1) - 1]
    OBVIOUS
  <2> HIDE DEF r
  <2> QED BY <2>1, <2>3, <2>4, <2>5
<1>6. r[Len(es)] = f[1 .. n] OBVIOUS
<1> QED BY <1>3, <1>4, <1>5, <1>6 DEF Run

\* Two ballots that the votes of the stream do not tell apart.
SameFor(b, c, es) ==
  \A i \in 1 .. Len(es) : es[i].type = "VoteRecorded" => b[es[i].key] = c[es[i].key]

LEMMA SameSteps ==
  ASSUME NEW a, NEW b, NEW c, NEW r, NEW e,
         e.type = "VoteRecorded" => b[e.key] = c[e.key]
  PROVE  V!ReplayStep(a, b, r, e) = V!ReplayStep(a, c, r, e)
<1>1. V!LegalEvent(a, b, r, e) = V!LegalEvent(a, c, r, e)
  <2>1. CASE e.type = "VoteRecorded"
    BY <2>1 DEF V!LegalEvent
  <2>2. CASE e.type # "VoteRecorded"
    BY <2>2 DEF V!LegalEvent
  <2> QED BY <2>1, <2>2
<1> QED BY <1>1 DEF V!ReplayStep

LEMMA RunsAgree ==
  ASSUME NEW a, NEW b, NEW c, NEW es, NEW more, NEW r, NEW q,
         Run(r, a, b, es), Run(q, a, c, more), SameFor(b, c, es),
         Len(es) \in Nat, Len(more) \in Nat, Len(es) <= Len(more),
         \A i \in 1 .. Len(es) : es[i] = more[i]
  PROVE  \A i \in 1 .. Len(es) : r[i] = q[i]
<1> DEFINE bad == {i \in 1 .. Len(es) : r[i] # q[i]}
<1> SUFFICES ASSUME bad # {} PROVE FALSE OBVIOUS
<1>1. PICK i \in bad : \A m \in bad : i <= m
  <2>1. bad \in SUBSET Nat OBVIOUS
  <2> HIDE DEF bad
  <2> QED BY <2>1, LeastOf
<1>2. i \in 1 .. Len(es) /\ r[i] # q[i] OBVIOUS
<1>3. i # 1 BY <1>2 DEF Run
<1>4. i - 1 \in 1 .. Len(es) /\ i - 1 \notin bad /\ i \in 2 .. Len(es) /\ i \in 2 .. Len(more)
  BY <1>1, <1>2, <1>3
<1>5. r[i - 1] = q[i - 1] BY <1>4
<1>6. /\ r[i] = V!ReplayStep(a, b, r[i - 1], es[i])
      /\ q[i] = V!ReplayStep(a, c, q[i - 1], more[i])
  BY <1>4 DEF Run
<1>7. V!ReplayStep(a, b, r[i - 1], es[i]) = V!ReplayStep(a, c, r[i - 1], es[i])
  BY <1>2, SameSteps DEF SameFor
<1> QED BY <1>2, <1>5, <1>6, <1>7

\* The replay of a longer stream goes on from the replay of the shorter one,
\* also when votes have come in between.
LEMMA ReduceAppend ==
  ASSUME NEW a, NEW b, NEW c, NEW S, NEW es \in Seq(S), es # <<>>, NEW e \in S,
         SameFor(b, c, es)
  PROVE  V!Reduce(a, c, Append(es, e)) = V!ReplayStep(a, c, V!Reduce(a, b, es), e)
<1> DEFINE more == Append(es, e)
<1>1. /\ more \in Seq(S) /\ more # <<>> /\ Len(more) = Len(es) + 1
      /\ \A i \in 1 .. Len(es) : es[i] = more[i]
      /\ more[Len(es) + 1] = e
      /\ Len(es) \in Nat \ {0}
  OBVIOUS
<1> HIDE DEF more
<1>2. PICK r : Run(r, a, b, es) /\ V!Reduce(a, b, es) = r[Len(es)]
  BY ReduceIsRun
<1>3. PICK q : Run(q, a, c, more) /\ V!Reduce(a, c, more) = q[Len(more)]
  BY <1>1, ReduceIsRun
<1>4. r[Len(es)] = q[Len(es)]
  BY <1>1, <1>2, <1>3, RunsAgree
<1>5. q[Len(more)] = V!ReplayStep(a, c, q[Len(more) - 1], more[Len(more)])
  BY <1>1, <1>3 DEF Run
<1>6. Len(more) - 1 = Len(es) BY <1>1
<1> QED BY <1>1, <1>2, <1>3, <1>4, <1>5, <1>6 DEF more

LEMMA ReduceFirst ==
  ASSUME NEW a, NEW b, NEW e
  PROVE  V!Reduce(a, b, <<e>>) = Blank
<1>1. <<e>> \in Seq({e}) /\ <<e>> # <<>> /\ Len(<<e>>) = 1 OBVIOUS
<1>2. PICK r : Run(r, a, b, <<e>>) /\ V!Reduce(a, b, <<e>>) = r[1]
  BY <1>1, ReduceIsRun
<1> QED BY <1>2 DEF Run

-----------------------------------------------------------------------------
(* What the verifier finds.                                                *)

\* The stream es of action a with the votes of ballots is what verify_proof
\* accepts and replays to state s, and none of it is later than t.
Good(a, ballots, es, s, t) ==
  /\ es \in Seq(Event) /\ es # <<>>
  /\ es[1].type = "Proposed" /\ es[1].epoch = Body[a].epoch
  /\ V!TimeOrdered(es) /\ es[Len(es)].at <= t
  /\ \A i \in 1 .. Len(es) : es[i].type = "VoteRecorded" => ballots[es[i].key] # None
  /\ V!Reduce(Body[a], ballots, es) = RowOf(s, ballots)

LEMMA EventInstants ==
  ASSUME NEW e \in Event
  PROVE  e.at \in Nat /\ (e.type = "VoteRecorded" => e.key \in Keys /\ e.decision \in Decisions)
BY DEF Event, Instants

LEMMA AppendOrdered ==
  ASSUME NEW es \in Seq(Event), es # <<>>, V!TimeOrdered(es), NEW e \in Event,
         es[Len(es)].at <= e.at
  PROVE  V!TimeOrdered(Append(es, e))
<1> DEFINE more == Append(es, e)
<1>1. /\ Len(more) = Len(es) + 1 /\ Len(es) \in Nat \ {0}
      /\ \A i \in 1 .. Len(es) : more[i] = es[i]
      /\ more[Len(es) + 1] = e
  BY AppendKeeps
<1> HIDE DEF more
<1>2. ASSUME NEW i \in 1 .. Len(more) - 1
      PROVE  more[i].at <= more[i + 1].at
  <2>1. CASE i = Len(es)
    BY <1>1, <2>1
  <2>2. CASE i # Len(es)
    <3>1. i \in 1 .. Len(es) - 1 /\ i \in 1 .. Len(es) /\ i + 1 \in 1 .. Len(es)
      BY <1>1, <2>2
    <3>2. es[i].at <= es[i + 1].at
      BY <3>1 DEF V!TimeOrdered
    <3> QED BY <1>1, <3>1, <3>2
  <2> QED BY <2>1, <2>2
<1>3. V!TimeOrdered(more)
  BY <1>2 DEF V!TimeOrdered
<1> QED BY <1>3 DEF more

Tables == [Keys -> Decisions \union {None}]

\* A legal event more, whose vote is new if it is one.
LEMMA GoodAppend ==
  ASSUME NEW a \in Actions, NEW b \in Tables, NEW c \in Tables, NEW es, NEW s,
         NEW t \in Nat, Good(a, b, es, s, t), s # V!Illegal,
         NEW e \in Event, t <= e.at,
         V!LegalEvent(Body[a], c, RowOf(s, b), e),
         \/ e.type # "VoteRecorded" /\ c = b
         \/ /\ e.type = "VoteRecorded" /\ b[e.key] = None
            /\ c = [b EXCEPT ![e.key] = e.decision]
  PROVE  Good(a, c, Append(es, e), V!StateAfter(RowOf(s, b), e), e.at)
<1> DEFINE more == Append(es, e)
           r == RowOf(s, b)
<1>1. es \in Seq(Event) /\ es # <<>> /\ e.at \in Nat
  BY EventInstants DEF Good
<1>2. /\ more \in Seq(Event) /\ more # <<>> /\ more[1] = es[1]
      /\ Len(more) = Len(es) + 1 /\ Len(es) \in Nat
      /\ \A i \in 1 .. Len(es) : more[i] = es[i]
      /\ more[Len(es) + 1] = e
  BY <1>1, AppendKeeps
<1>3. V!TimeOrdered(more)
  <2>1. Len(es) \in 1 .. Len(es)
    BY <1>1
  <2>2. es[Len(es)].at \in Nat
    BY <1>1, <2>1, EventInstants
  <2>3. es[Len(es)].at <= e.at
    BY <1>1, <2>2 DEF Good
  <2> QED BY <1>1, <2>3, AppendOrdered DEF Good
<1>4. \A k \in Keys : b[k] # None => c[k] = b[k]
  BY EventInstants DEF Tables
<1>5. e.type = "VoteRecorded" => c[e.key] = e.decision /\ e.decision # None
  BY EventInstants, CoordinatorAssumption DEF Tables
<1>6. SameFor(b, c, es)
  <2> SUFFICES ASSUME NEW i \in 1 .. Len(es), es[i].type = "VoteRecorded"
               PROVE  b[es[i].key] = c[es[i].key]
    BY DEF SameFor
  <2>1. es[i] \in Event
    BY <1>1
  <2> QED BY <1>4, <2>1, EventInstants DEF Good
<1>7. \A i \in 1 .. Len(more) : more[i].type = "VoteRecorded" => c[more[i].key] # None
  <2> SUFFICES ASSUME NEW i \in 1 .. Len(more), more[i].type = "VoteRecorded"
               PROVE  c[more[i].key] # None
    OBVIOUS
  <2>1. CASE i \in 1 .. Len(es)
    <3>1. more[i] = es[i] /\ es[i] \in Event BY <1>1, <1>2, <2>1
    <3>2. b[es[i].key] # None BY <2>1, <3>1 DEF Good
    <3> QED BY <2>1, <3>1, <3>2, <1>6 DEF SameFor
  <2>2. CASE i = Len(es) + 1
    BY <1>2, <1>5, <2>2
  <2> QED BY <1>2, <2>1, <2>2
<1>8. V!Reduce(Body[a], c, more) = V!ReplayStep(Body[a], c, V!Reduce(Body[a], b, es), e)
  BY <1>1, <1>6, ReduceAppend
<1>9. V!Reduce(Body[a], b, es) = r
  BY DEF Good
<1>10. V!ReplayStep(Body[a], c, r, e) = RowOf(V!StateAfter(r, e), c)
  <2>1. /\ r.state = s
        /\ r.recorded = {k \in Keys : b[k] # None}
        /\ r.approved = {k \in Keys : b[k] = "approve"}
    BY DEF RowOf
  <2> HIDE DEF r
  <2>2. V!ReplayStep(Body[a], c, r, e) =
          [state |-> V!StateAfter(r, e),
           recorded |-> IF e.type = "VoteRecorded" THEN r.recorded \union {e.key}
                                                   ELSE r.recorded,
           approved |-> IF e.type = "VoteRecorded" /\ e.decision = "approve"
                          THEN r.approved \union {e.key} ELSE r.approved]
    <3>1. V!LegalEvent(Body[a], c, r, e) BY DEF r
    <3> QED BY <2>1, <3>1 DEF V!ReplayStep
  <2>3. CASE e.type = "VoteRecorded"
    <3>1. e.key \in Keys /\ e.decision \in Decisions
      BY <2>3, EventInstants
    <3>2. \A k \in Keys : c[k] = IF k = e.key THEN e.decision ELSE b[k]
      BY <2>3, <3>1 DEF Tables
    <3>3. r.recorded \union {e.key} = {k \in Keys : c[k] # None}
      BY <1>5, <2>1, <2>3, <3>1, <3>2
    <3>4. CASE e.decision = "approve"
      <4>1. r.approved \union {e.key} = {k \in Keys : c[k] = "approve"}
        BY <2>1, <3>1, <3>2, <3>4
      <4> QED BY <2>2, <2>3, <3>3, <3>4, <4>1 DEF RowOf
    <3>5. CASE e.decision # "approve"
      <4>1. b[e.key] = None /\ None # "approve"
        BY <2>3, CoordinatorAssumption DEF Decisions
      <4>2. r.approved = {k \in Keys : c[k] = "approve"}
        BY <2>1, <3>1, <3>2, <3>5, <4>1
      <4> QED BY <2>2, <2>3, <3>3, <3>5, <4>2 DEF RowOf
    <3> QED BY <3>4, <3>5
  <2>4. CASE e.type # "VoteRecorded"
    BY <2>1, <2>2, <2>4 DEF RowOf
  <2> QED BY <2>3, <2>4
<1> HIDE DEF more, r
<1>11. Good(a, c, more, V!StateAfter(r, e), e.at)
  BY <1>1, <1>2, <1>3, <1>7, <1>8, <1>9, <1>10 DEF Good
<1> QED BY <1>11 DEF more, r

LEMMA GoodLater ==
  ASSUME NEW a, NEW b, NEW es, NEW s, NEW t \in Nat, NEW u \in Nat, t <= u,
         Good(a, b, es, s, t)
  PROVE  Good(a, b, es, s, u)
<1>1. es \in Seq(Event) /\ es # <<>> /\ Len(es) \in 1 .. Len(es)
  BY DEF Good
<1>2. es[Len(es)].at \in Nat
  BY <1>1, EventInstants
<1>3. es[Len(es)].at <= u
  BY <1>2 DEF Good
<1> QED BY <1>3 DEF Good

\* A proposal nobody has voted on.
LEMMA GoodFirst ==
  ASSUME NEW a \in Actions, NEW b, b = [k \in Keys |-> None], NEW p \in Event,
         p.type = "Proposed", p.epoch = Body[a].epoch
  PROVE  Good(a, b, <<p>>, "OPEN", p.at)
<1>1. V!Reduce(Body[a], b, <<p>>) = Blank
  BY ReduceFirst
<1>2. Blank = RowOf("OPEN", b)
  <2>1. None # "approve"
    BY CoordinatorAssumption DEF Decisions
  <2>2. {k \in Keys : b[k] # None} = {} /\ {k \in Keys : b[k] = "approve"} = {}
    BY <2>1
  <2> QED BY <2>2 DEF Blank, RowOf
<1>3. <<p>> \in Seq(Event) /\ <<p>> # <<>> /\ Len(<<p>>) = 1 /\ <<p>>[1] = p
  OBVIOUS
<1>4. V!TimeOrdered(<<p>>)
  BY DEF V!TimeOrdered
<1>5. p.at \in Nat BY EventInstants
<1> DEFINE es == <<p>>
<1> HIDE DEF es
<1>6. Good(a, b, es, "OPEN", p.at)
  <2>1. es \in Seq(Event) /\ es # <<>> /\ Len(es) = 1 /\ es[1] = p
    BY <1>3 DEF es
  <2>2. V!TimeOrdered(es) /\ V!Reduce(Body[a], b, es) = RowOf("OPEN", b)
    BY <1>1, <1>2, <1>4 DEF es
  <2>3. \A i \in 1 .. Len(es) : es[i].type # "VoteRecorded"
    BY <2>1
  <2> QED BY <1>5, <2>1, <2>2, <2>3 DEF Good
<1> QED BY <1>6 DEF es

-----------------------------------------------------------------------------
(* The journal's clock, the holder of the mutex, the deliveries, the votes. *)

LEMMA OperationsRun ==
  ASSUME OperationNext
  PROVE  MayRun /\ \E w \in Readings : Tick(w)
<1>1. ASSUME NEW w \in Readings, NEW c \in Configurations, Configure(c, w)
      PROVE  MayRun /\ Tick(w)
  BY <1>1 DEF Configure
<1>2. ASSUME NEW a \in Actions, NEW w \in Readings,
             \/ Touch(a, w) \/ Propose(a, w) \/ Cancel(a, w)
             \/ \E k \in Keys, d \in Decisions : Submit(a, k, d, w)
      PROVE  MayRun /\ Tick(w)
  BY <1>2 DEF Touch, Propose, Cancel, Submit
<1>3. ASSUME NEW a \in Actions, NEW w \in Readings,
             \/ \E r \in {"manual", "missing_quorum"} : Escalate(a, r, w)
             \/ \E acked \in BOOLEAN : Deliver(a, acked, w)
      PROVE  MayRun /\ Tick(w)
  BY <1>3 DEF Escalate, Deliver
<1> QED BY <1>1, <1>2, <1>3 DEF OperationNext

LEMMA ClockMoves ==
  ASSUME [Next]_vars
  PROVE  last' = last \/ \E w \in Readings : Tick(w)
<1>1. CASE OperationNext
  BY <1>1, OperationsRun
<1>2. CASE CommitNext
  BY <1>2 DEF CommitNext, HostAgrees, CommitFails, DispatchCall, WaitHandsOver,
       ReconcileUnresolved, CommitBegin, ReconcileBegin, HostRefuses, ConsumeAbandoned,
       Consume, DispatchRefused, WaitReturns, WaitTimesOut, ReconcileResolves, journalVars
<1>3. CASE ThreadNext
  BY <1>3, RaisesFrame DEF ThreadNext, AdapterReturns, WatcherFinishes, journalVars
<1>4. CASE ProcessNext
  BY <1>4 DEF ProcessNext, Crash, Close, ThreadsEnd, BecomeReady, Open, Recover, journalVars
<1>5. CASE ProviderNext
  BY <1>5 DEF ProviderNext, ProviderExecutes, ProviderDrops, journalVars
<1>6. CASE UNCHANGED vars
  BY <1>6 DEF vars, journalVars
<1> QED BY <1>1, <1>2, <1>3, <1>4, <1>5, <1>6 DEF Next

\* Time never runs backwards in the journal (Store.logical_now).
LEMMA ClockAdvances ==
  ASSUME Core, [Next]_vars
  PROVE  last \in Nat /\ last' \in Nat /\ last <= last'
<1>1. last \in Nat
  BY Types DEF Core, Instants
<1>2. ASSUME NEW w \in Readings, Tick(w) PROVE last' \in Nat /\ last <= last'
  BY <1>1, <1>2, CoordinatorAssumption DEF Tick, LogicalNow
<1> QED BY <1>1, <1>2, ClockMoves

\* A host that does not call back finds the proposal as commit left it.
HeldReady == mu.at \in {"gate", "inspect"} => state[mu.act] = "READY"

LEMMA HeldReadyStep ==
  ASSUME Core, ~Reentrant, HeldReady, [Next]_vars
  PROVE  HeldReady'
<1> USE DEF HeldReady
<1>1. CASE mu' = Free \/ mu'.at \notin {"gate", "inspect"}
  BY <1>1 DEF Free
<1>2. CASE UNCHANGED <<mu, state>>
  BY <1>2
<1>3. CASE OperationNext
  <2>1. MayRun /\ mu' = mu
    <3>1. mu' = mu BY <1>3, OperationFrame DEF processVars
    <3> QED BY <1>3, <3>1, OperationsRun
  <2> QED BY <1>1, <2>1 DEF MayRun
<1>4. CASE CommitNext
  <2>1. CASE HostAgrees
    <3>1. mu \in [at : {"gate", "inspect", "consume", "dispatch", "wait", "lookup"},
                  act : Actions] /\ state' = state
      BY <2>1, Types DEF HostAgrees, At, Free, Core, Process, journalVars
    <3>2. mu.at \in {"gate", "inspect"} /\ mu'.act = mu.act
      BY <2>1, <3>1 DEF HostAgrees, At, Goto
    <3> QED BY <3>1, <3>2
  <2>2. ASSUME NEW a \in Actions, NEW w \in Readings, CommitBegin(a, w)
        PROVE  HeldReady'
    BY <2>2 DEF CommitBegin
  <2>3. CASE CommitFails \/ ReconcileUnresolved \/ WaitHandsOver
    BY <1>1, <2>3 DEF CommitFails, ReconcileUnresolved, WaitHandsOver, Release
  <2>4. ASSUME NEW w \in Readings,
               \/ HostRefuses(w) \/ ConsumeAbandoned(w) \/ ReconcileResolves(w)
               \/ DispatchRefused(w) \/ WaitReturns(w) \/ WaitTimesOut(w)
        PROVE  HeldReady'
    BY <1>1, <2>4 DEF HostRefuses, ConsumeAbandoned, ReconcileResolves, DispatchRefused,
                      WaitReturns, WaitTimesOut, Release
  <2>5. ASSUME NEW a \in Actions, NEW w \in Readings, ReconcileBegin(a, w)
        PROVE  HeldReady'
    BY <1>1, <2>5 DEF ReconcileBegin
  <2>6. ASSUME DispatchCall \/ \E w \in Readings : Consume(w)
        PROVE  HeldReady'
    <3>1. PICK place \in {"dispatch", "wait"} : mu' = [mu EXCEPT !.at = place]
      BY <2>6 DEF DispatchCall, Consume, Goto
    <3>0. At("dispatch") \/ At("consume")
      BY <2>6 DEF DispatchCall, Consume
    <3>2. mu \in [at : {"gate", "inspect", "consume", "dispatch", "wait", "lookup"},
                  act : Actions]
      BY <3>0, Types DEF At, Free, Core, Process
    <3>3. mu'.at = place
      BY <3>1, <3>2
    <3> QED BY <1>1, <3>3
  <2> QED BY <1>4, <2>1, <2>2, <2>3, <2>4, <2>5, <2>6 DEF CommitNext
<1>5. CASE ThreadNext
  <2>1. ASSUME NEW a \in Actions,
               \/ Raises(a)
               \/ \E status \in Statuses \union {"nothing"} : AdapterReturns(a, status)
        PROVE  UNCHANGED <<mu, state>> \/ mu' = Free
    BY <2>1, RaisesFrame DEF AdapterReturns, journalVars
  <2>2. ASSUME NEW a \in Actions, NEW status \in Statuses, NEW w \in Readings,
               WatcherFinishes(a, status, w)
        PROVE  mu' = Free
    BY <2>2 DEF WatcherFinishes
  <2> QED BY <1>1, <1>2, <1>5, <2>1, <2>2 DEF ThreadNext
<1>6. CASE ProcessNext
  <2>1. CASE Crash \/ Close
    BY <1>1, <2>1 DEF Crash, Close, ThreadsEnd
  <2>2. CASE BecomeReady \/ \E w \in Readings : Open(w)
    BY <1>2, <2>2 DEF BecomeReady, Open, journalVars
  <2>3. ASSUME NEW a \in Actions, NEW w \in Readings, Recover(a, w)
        PROVE  mu' = Free
    BY <2>3, Types DEF Recover, Core, Process, processVars
  <2> QED BY <1>1, <1>6, <2>1, <2>2, <2>3 DEF ProcessNext
<1>7. CASE ProviderNext
  BY <1>2, <1>7 DEF ProviderNext, ProviderExecutes, ProviderDrops, journalVars, processVars
<1>8. CASE UNCHANGED vars
  BY <1>2, <1>8 DEF vars, journalVars, processVars
<1> QED BY <1>3, <1>4, <1>5, <1>6, <1>7, <1>8 DEF Next

\* An escalation waits for its delivery as long as the proposal is escalated.
PendingEscalated ==
  \A a \in Actions : delivery[a].state = "PENDING" => state[a] = "ESCALATED"

LEMMA PendingStep ==
  ASSUME Core, HeldReady, PendingEscalated, [Next]_vars
  PROVE  PendingEscalated'
<1> SUFFICES ASSUME NEW a \in Actions, delivery'[a].state = "PENDING"
             PROVE  state'[a] = "ESCALATED"
  BY DEF PendingEscalated
<1>1. CASE Delivered(a)
  BY <1>1, DeliverAppends DEF PendingEscalated
<1>2. CASE delivery'[a] = delivery[a]
  <2>1. state[a] = "ESCALATED"
    BY <1>2 DEF PendingEscalated
  <2>2. CASE Grown(a)
    <3>1. PICK e \in Event :
            e.type \in Plain /\ V!LegalEvent(Body[a], votes[a], RowOf(state[a], votes[a]), e)
      BY <2>2 DEF Grown
    <3>2. RowOf(state[a], votes[a]).state = state[a] BY DEF RowOf
    <3> QED BY <2>1, <3>1, <3>2, PlainMoves DEF Live
  <2>3. CASE Still(a) \/ Delivered(a)
    BY <2>1, <2>3, DeliverAppends DEF Still
  <2>4. ~Refused(a)
    BY <2>1, RefuseAppends DEF HeldReady, Refused
  <2>5. ~Proposed(a)
    BY <2>1, ProposeAppends
  <2>6. ~Voted(a)
    BY <2>1, SubmitAppends DEF Voted, Live
  <2> QED BY <2>2, <2>3, <2>4, <2>5, <2>6, EveryStreamGrows DEF Grows
<1> QED BY <1>1, <1>2, DeliveryMoves

\* Only members of the roster vote.
RosterVotes ==
  \A a \in Actions, k \in Keys : votes[a][k] # None => k \in RosterKeys(Body[a].policy)

LEMMA RosterVotesStep ==
  ASSUME Core, RosterVotes, [Next]_vars
  PROVE  RosterVotes'
<1>1. CASE votes' = votes
  BY <1>1 DEF RosterVotes
<1>2. ASSUME NEW a \in Actions, NEW k \in Keys, NEW d \in Decisions, NEW w \in Readings,
             Submit(a, k, d, w)
      PROVE  RosterVotes'
  <2>1. /\ votes' = [votes EXCEPT ![a] = [votes[a] EXCEPT ![k] = d]]
        /\ k \in RosterKeys(Body[a].policy)
    BY <1>2 DEF Submit
  <2> QED BY <2>1, Types DEF Core, Rows, RosterVotes
<1> QED BY <1>1, <1>2, VotesMove

-----------------------------------------------------------------------------
(* Every stream verifies.                                                  *)

Sound(a) == state[a] # "ABSENT" => Good(a, votes[a], log[a], state[a], last)
Streamed == \A a \in Actions : Sound(a)

LEMMA SameCardinality == \A S : V!Cardinality(S) = Cardinality(S)
BY DEF V!Cardinality, V!IsFiniteSet, Cardinality, IsFiniteSet

\* The verifier and the coordinator count the same quorum.
LEMMA QuorumsAgree ==
  ASSUME NEW p \in Policies, NEW b
  PROVE  V!Quorum(p, {k \in Keys : b[k] = "approve"}) <=> QuorumSatisfied(b, p)
<1> DEFINE K == {k \in Keys : b[k] = "approve"}
           A == {m \in p.roster : m.key \in K}
<1>1. A = ApprovingMembers(b, p)
  <2>1. \A m \in p.roster : m.key \in Keys
    BY DEF Keys, RosterKeys
  <2> QED BY <2>1 DEF ApprovingMembers
<1>2. V!Quorum(p, K) <=> /\ Cardinality({m.principal : m \in A}) >= p.threshold
                         /\ p.human => \E m \in A : m.human
  BY SameCardinality DEF V!Quorum
<1> QED BY <1>1, <1>2 DEF QuorumSatisfied

LEMMA StatesLegal == V!Illegal \notin States /\ "REJECT_PENDING" \notin States
BY DEF V!Illegal, States, Live, ConsumedStates, Settled

\* One event that is no vote.
LEMMA SoundEvent ==
  ASSUME Core, Core', [Next]_vars, NEW a \in Actions, Sound(a), state[a] # "ABSENT",
         NEW e \in Event, e.at = last', e.type # "VoteRecorded",
         log'[a] = Append(log[a], e), votes'[a] = votes[a],
         V!LegalEvent(Body[a], votes[a], RowOf(state[a], votes[a]), e),
         state'[a] = V!StateAfter(RowOf(state[a], votes[a]), e)
  PROVE  Sound(a)'
<1>1. last \in Nat /\ last <= e.at
  BY ClockAdvances
<1>2. votes[a] \in Tables /\ state[a] \in States
  BY Types DEF Core, Rows, Streams, Tables
<1>3. state[a] # V!Illegal
  BY <1>2, StatesLegal
<1>4. Good(a, votes[a], log[a], state[a], last)
  BY DEF Sound
<1>5. Good(a, votes[a], Append(log[a], e), V!StateAfter(RowOf(state[a], votes[a]), e), e.at)
  BY <1>1, <1>2, <1>3, <1>4, GoodAppend
<1> QED BY <1>5 DEF Sound

LEMMA SoundProposed ==
  ASSUME Core, Core', NEW a \in Actions, Origin(a), Ballots, Proposed(a)
  PROVE  Sound(a)'
<1>1. log[a] = <<>> /\ votes[a] = [k \in Keys |-> None] /\ votes'[a] = votes[a]
  BY ProposeAppends DEF Origin, Ballots
<1>2. PICK p \in Event :
        /\ p.type = "Proposed" /\ p.at = last' /\ p.epoch = Body[a].epoch
        /\ \/ /\ state'[a] = "OPEN" /\ delivery' = delivery
              /\ log'[a] = log[a] \o <<p>>
              /\ Body[a].policy.enrich => FreshCard(a, last')
           \/ /\ state'[a] = "ESCALATED"
              /\ \E e \in Event :
                   /\ e = EscalatedEvent("enrichment_unavailable", last')
                   /\ log'[a] = log[a] \o <<p, e>>
  BY ProposeAppends
<1>3. Good(a, votes[a], <<p>>, "OPEN", p.at)
  BY <1>1, <1>2, GoodFirst
<1>4. CASE state'[a] = "OPEN" /\ log'[a] = log[a] \o <<p>>
  <2>1. log'[a] = <<p>>
    BY <1>1, <1>4
  <2> QED BY <1>1, <1>2, <1>3, <1>4, <2>1 DEF Sound
<1>5. ASSUME state'[a] = "ESCALATED", NEW e \in Event,
             e = EscalatedEvent("enrichment_unavailable", last'),
             log'[a] = log[a] \o <<p, e>>
      PROVE  Sound(a)'
  <2>1. log'[a] = <<p, e>>
    BY <1>1, <1>5
  <2>2. <<p, e>> = Append(<<p>>, e)
    OBVIOUS
  <2>3. e.type = "Escalated" /\ e.at = last' /\ e.reason = "enrichment_unavailable"
    BY <1>5 DEF EscalatedEvent
  <2> DEFINE r == RowOf("OPEN", votes[a])
             b == votes[a]
             es == <<p>>
  <2>4. r.state = "OPEN" /\ r.recorded = {}
    BY <1>1 DEF RowOf
  <2> HIDE DEF r, b, es
  <2>5. V!LegalReason(r, "enrichment_unavailable")
    BY <2>4 DEF V!LegalReason
  <2>6. V!LegalEvent(Body[a], b, r, e) /\ V!StateAfter(r, e) = "ESCALATED"
    BY <2>3, <2>5 DEF V!LegalEvent, V!StateAfter
  <2>7. b \in Tables /\ p.at \in Nat /\ "OPEN" # V!Illegal
    BY Types, EventInstants, StatesLegal DEF b, Core, Rows, Tables, States, Live
  <2>8. Good(a, b, es, "OPEN", p.at)
    BY <1>3 DEF b, es
  <2>9. Good(a, b, Append(es, e), "ESCALATED", e.at)
    <3>1. e.type # "VoteRecorded" /\ p.at <= e.at
      BY <1>2, <2>3, <2>7
    <3>2. r = RowOf("OPEN", b) BY DEF r, b
    <3> QED BY <2>6, <2>7, <2>8, <3>1, <3>2, GoodAppend
  <2> QED BY <1>1, <1>5, <2>1, <2>2, <2>3, <2>9 DEF Sound, b, es
<1> QED BY <1>2, <1>4, <1>5

LEMMA SoundVoted ==
  ASSUME Core, Core', [Next]_vars, NEW a \in Actions, Sound(a), RosterVotes', Voted(a)
  PROVE  Sound(a)'
<1>1. PICK k \in Keys, d \in Decisions, w \in Readings : Submit(a, k, d, w)
  BY DEF Voted
<1>2. /\ votes'[a] = [votes[a] EXCEPT ![k] = d] /\ votes[a][k] = None
      /\ k \in RosterKeys(Body[a].policy) /\ state[a] \in Live
  BY <1>1, SubmitAppends
<1>3. PICK v \in Event : Casts(a, k, d, v)
  BY <1>1, SubmitAppends
<1> DEFINE b == votes[a]
           c == votes'[a]
           es == Append(log[a], v)
           r == RowOf(state[a], b)
<1>4. last \in Nat /\ last' \in Nat /\ last <= last'
  BY ClockAdvances
<1>5. b \in Tables /\ c \in Tables
  BY Types DEF Core, CoordinatorTypeOK, Tables
<1>6. state[a] # V!Illegal /\ Good(a, b, log[a], state[a], last)
  BY <1>2 DEF Sound, Live, V!Illegal
<1>7. v.type = "VoteRecorded" /\ v.at = last' /\ v.key = k /\ v.decision = d
  BY <1>3 DEF Casts
<1>8. c[k] = d /\ c = [b EXCEPT ![k] = d] /\ b[k] = None
  BY <1>2, <1>5 DEF Tables
<1>9. r.state = state[a] /\ k \notin r.recorded
  BY <1>8 DEF RowOf
<1>10. state[a] \in V!Live
  BY <1>2 DEF Live, V!Live
<1> HIDE DEF b, c, es, r
<1>11. V!LegalEvent(Body[a], c, r, v)
  BY <1>7, <1>8, <1>9, <1>10 DEF V!LegalEvent
<1>12. V!StateAfter(r, v) = IF d = "reject" THEN "REJECT_PENDING" ELSE state[a]
  BY <1>7, <1>9 DEF V!StateAfter
<1>13. Good(a, c, es, V!StateAfter(r, v), last')
  BY <1>4, <1>5, <1>6, <1>7, <1>8, <1>11, GoodAppend DEF es, r
<1>14. CASE d = "approve" /\ state'[a] = state[a] /\ log'[a] = es
  BY <1>12, <1>13, <1>14 DEF Sound, c
<1>15. ASSUME NEW e \in Event, log'[a] = Append(es, e), e.at = last',
              d = "approve", state[a] = "OPEN", state'[a] = "READY",
              QuorumSatisfied(c, Body[a].policy), e.type = "QuorumReached",
              e.keys = {m.key : m \in ApprovingMembers(c, Body[a].policy)}
       PROVE  Sound(a)'
  <2> DEFINE q == RowOf("OPEN", c)
             p == Body[a].policy
  <2>1. q.state = "OPEN" /\ q.approved = {l \in Keys : c[l] = "approve"}
    BY DEF RowOf
  <2>2. p \in Policies
    BY Bodies
  <2>3. e.keys = {l \in Keys : c[l] = "approve"}
    <3>1. \A l \in Keys : c[l] = "approve" => \E m \in p.roster : m.key = l
      <4>1. None # "approve"
        BY CoordinatorAssumption DEF Decisions
      <4> QED BY <4>1 DEF RosterVotes, RosterKeys, c
    <3>2. \A m \in p.roster : m.key \in Keys
      BY <2>2 DEF Keys, RosterKeys
    <3> QED BY <1>15, <3>1, <3>2 DEF ApprovingMembers
  <2>4. V!Quorum(p, q.approved)
    BY <1>15, <2>1, <2>2, QuorumsAgree
  <2> HIDE DEF q
  <2>5. V!LegalEvent(Body[a], c, q, e) /\ V!StateAfter(q, e) = "READY"
    BY <1>15, <2>1, <2>3, <2>4 DEF V!LegalEvent, V!StateAfter
  <2>6. Good(a, c, es, "OPEN", last')
    BY <1>12, <1>13, <1>15
  <2>7. Good(a, c, Append(es, e), "READY", e.at)
    <3>1. "OPEN" # V!Illegal BY DEF V!Illegal
    <3>2. e.type # "VoteRecorded" /\ last' <= e.at BY <1>4, <1>15
    <3> QED BY <1>4, <1>5, <2>5, <2>6, <3>1, <3>2, GoodAppend DEF q
  <2> QED BY <1>15, <2>7 DEF Sound, c
<1>16. ASSUME NEW e \in Event, log'[a] = Append(es, e), e.at = last', d = "reject",
              state'[a] = "ESCALATED", e.type = "Escalated", e.reason = "reject_vote"
       PROVE  Sound(a)'
  <2> DEFINE q == RowOf("REJECT_PENDING", c)
  <2>1. q.state = "REJECT_PENDING"
    BY DEF RowOf
  <2> HIDE DEF q
  <2>2. V!LegalReason(q, "reject_vote")
    BY <2>1 DEF V!LegalReason, V!Live
  <2>3. V!LegalEvent(Body[a], c, q, e) /\ V!StateAfter(q, e) = "ESCALATED"
    BY <1>16, <2>1, <2>2 DEF V!LegalEvent, V!StateAfter
  <2>4. Good(a, c, es, "REJECT_PENDING", last')
    BY <1>12, <1>13, <1>16
  <2>5. Good(a, c, Append(es, e), "ESCALATED", e.at)
    <3>1. "REJECT_PENDING" # V!Illegal BY DEF V!Illegal
    <3>2. e.type # "VoteRecorded" /\ last' <= e.at BY <1>4, <1>16
    <3> QED BY <1>4, <1>5, <2>3, <2>4, <3>1, <3>2, GoodAppend DEF q
  <2> QED BY <1>16, <2>5 DEF Sound, c
<1> QED BY <1>3, <1>14, <1>15, <1>16 DEF Casts, es, c

LEMMA SoundStep ==
  ASSUME Core, Core', [Next]_vars, NEW a \in Actions, Sound(a), Origin(a), Ballots,
         HeldReady, PendingEscalated, RosterVotes'
  PROVE  Sound(a)'
<1>1. CASE Still(a)
  BY <1>1, ClockAdvances, GoodLater DEF Still, Sound
<1>2. CASE Grown(a)
  <2>1. PICK e \in Event :
          /\ e.type \in Plain /\ e.at = last'
          /\ log'[a] = Append(log[a], e) /\ votes'[a] = votes[a]
          /\ V!LegalEvent(Body[a], votes[a], RowOf(state[a], votes[a]), e)
          /\ state'[a] = V!StateAfter(RowOf(state[a], votes[a]), e)
    BY <1>2 DEF Grown
  <2>2. RowOf(state[a], votes[a]).state = state[a]
    BY DEF RowOf
  <2>3. state[a] # "ABSENT" /\ e.type # "VoteRecorded"
    BY <2>1, <2>2, PlainMoves DEF Live, Plain
  <2> QED BY <2>1, <2>3, SoundEvent
<1>3. CASE Delivered(a)
  <2>1. state[a] = "ESCALATED" /\ state'[a] = state[a] /\ votes'[a] = votes[a]
    BY <1>3, DeliverAppends DEF PendingEscalated
  <2>2. PICK e \in Event : /\ e.type \in {"EscalationDelivered", "EscalationDeferred"}
                          /\ e.at = last' /\ log'[a] = Append(log[a], e)
    BY <1>3, DeliverAppends
  <2> DEFINE r == RowOf(state[a], votes[a])
  <2>3. r.state = "ESCALATED"
    BY <2>1 DEF RowOf
  <2> HIDE DEF r
  <2>4. V!LegalEvent(Body[a], votes[a], r, e) /\ V!StateAfter(r, e) = "ESCALATED"
    BY <2>2, <2>3 DEF V!LegalEvent, V!StateAfter
  <2> QED BY <2>1, <2>2, <2>4, SoundEvent DEF r
<1>4. CASE Refused(a)
  <2>1. state[a] = "READY" /\ state'[a] = "STALE" /\ votes'[a] = votes[a]
    BY <1>4, RefuseAppends DEF HeldReady, Refused
  <2>2. PICK e \in Event : e.type = "Invalidated" /\ e.at = last'
                          /\ log'[a] = Append(log[a], e)
    BY <1>4, RefuseAppends
  <2> DEFINE r == RowOf(state[a], votes[a])
  <2>3. r.state = "READY"
    BY <2>1 DEF RowOf
  <2> HIDE DEF r
  <2>4. V!LegalEvent(Body[a], votes[a], r, e) /\ V!StateAfter(r, e) = "STALE"
    BY <2>2, <2>3 DEF V!LegalEvent, V!StateAfter, V!Live
  <2> QED BY <2>1, <2>2, <2>4, SoundEvent DEF r
<1>5. CASE Proposed(a)
  BY <1>5, SoundProposed
<1>6. CASE Voted(a)
  BY <1>6, SoundVoted
<1> QED BY <1>1, <1>2, <1>3, <1>4, <1>5, <1>6, EveryStreamGrows DEF Grows

ExportInv == Streamed /\ Origins /\ Ballots /\ HeldReady /\ PendingEscalated /\ RosterVotes

LEMMA ExportInvStep ==
  ASSUME ~Reentrant, Core, Core', ExportInv, [Next]_vars
  PROVE  ExportInv'
<1>1. Origins' BY OriginStep DEF ExportInv, Origins
<1>2. Ballots' BY BallotsStep DEF ExportInv
<1>3. HeldReady' /\ PendingEscalated' /\ RosterVotes'
  BY HeldReadyStep, PendingStep, RosterVotesStep DEF ExportInv
<1>4. Streamed'
  <2> SUFFICES ASSUME NEW a \in Actions PROVE Sound(a)'
    BY DEF Streamed
  <2> QED BY <1>3, SoundStep DEF ExportInv, Streamed, Origins
<1> QED BY <1>1, <1>2, <1>3, <1>4 DEF ExportInv

LEMMA ExportInvInit == Init => ExportInv
<1> SUFFICES ASSUME Init PROVE ExportInv OBVIOUS
<1>1. /\ state = [a \in Actions |-> "ABSENT"] /\ log = [a \in Actions |-> <<>>]
      /\ votes = [a \in Actions |-> [k \in Keys |-> None]]
      /\ delivery = [a \in Actions |-> [state |-> "NONE", attempts |-> 0]]
      /\ mu = Free
  BY DEF Init
<1>2. Streamed BY <1>1 DEF Streamed, Sound
<1>3. Origins BY <1>1 DEF Origins, Origin
<1>4. Ballots BY <1>1 DEF Ballots, Live, ConsumedStates, Settled
<1>5. HeldReady BY <1>1 DEF HeldReady, Free
<1>6. PendingEscalated BY <1>1 DEF PendingEscalated
<1>7. RosterVotes BY <1>1 DEF RosterVotes
<1> QED BY <1>2, <1>3, <1>4, <1>5, <1>6, <1>7 DEF ExportInv

LEMMA GoodVerifies ==
  ASSUME Core, ExportInv, NEW a \in Actions, state[a] # "ABSENT"
  PROVE  /\ V!Valid(Body[a], votes[a], log[a])
         /\ V!AttestedState(Body[a], votes[a], log[a]) = state[a]
         /\ V!Satisfied(Body[a], votes[a], log[a])
              <=> state[a] \in {"READY"} \union ConsumedStates
<1>1. Good(a, votes[a], log[a], state[a], last)
  BY DEF ExportInv, Streamed, Sound
<1>2. DOMAIN votes[a] = Keys /\ state[a] \in States
  BY Types DEF Core, Rows, Streams
<1> DEFINE r == V!Reduce(Body[a], votes[a], log[a])
<1>3. /\ r.state = state[a]
      /\ r.recorded = {k \in Keys : votes[a][k] # None}
  BY <1>1 DEF Good, RowOf
<1>4. V!Valid(Body[a], votes[a], log[a])
  BY <1>1, <1>2, <1>3, StatesLegal DEF V!Valid, Good
<1>5. V!AttestedState(Body[a], votes[a], log[a]) = state[a]
  BY <1>3 DEF V!AttestedState
<1>6. state[a] \in {"READY"} \union ConsumedStates =>
        V!Quorum(Body[a].policy, {k \in DOMAIN votes[a] : votes[a][k] = "approve"})
  BY <1>2, Bodies, QuorumsAgree DEF ExportInv, Ballots
<1>7. V!Consumed = ConsumedStates
  BY DEF V!Consumed, ConsumedStates, Settled
<1> HIDE DEF r
<1> QED BY <1>4, <1>5, <1>6, <1>7 DEF V!Satisfied

\* The verifier accepts every stream of a host that does not call back and
\* attests the journal's own state (export_proof, verify_proof).
THEOREM StreamsVerify ==
  ASSUME ~Reentrant
  PROVE  Spec => []ExportVerifies
<1>1. Init => ExportInv
  BY ExportInvInit
<1>2. Core /\ Core' /\ ExportInv /\ [Next]_vars => ExportInv'
  BY ExportInvStep
<1>3. Core /\ ExportInv => ExportVerifies
  BY GoodVerifies DEF ExportVerifies
<1> QED BY <1>1, <1>2, <1>3, CoreHolds, PTL DEF Spec

=============================================================================
