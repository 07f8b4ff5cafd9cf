------------------------- MODULE CoordinatorProofs -------------------------
(***************************************************************************)
(* Type correctness of the coordinator, and what a step of it can change.  *)
(*                                                                         *)
(* Types alone are not inductive: the outcome of a dispatch is written     *)
(* into a row that must be there, and CommitStarted quotes an authority    *)
(* that must exist.  Core adds what guarantees both: tombstone, dispatch   *)
(* row and proposal state agree, and so does the place the holder of the   *)
(* mutex is at.                                                            *)
(*                                                                         *)
(* The second half gives the frames of the groups of actions, and the      *)
(* state diagram of a proposal.  The proofs of the safety properties argue *)
(* from these lemmas and not from the actions.                             *)
(***************************************************************************)
EXTENDS Ceremony, AuthorityProofs

\* Proposals exist only under an authority.
Installed == \A a \in Actions : state[a] # "ABSENT" => authority # None

\* An operation has a tombstone exactly when its action is in a consumed
\* state, and then it has a dispatch row.
Tombstones ==
  /\ \A o \in Ops : consumed[o] # None =>
       /\ Body[consumed[o]].op = o
       /\ state[consumed[o]] \in ConsumedStates
       /\ dispatches[o] # None
  /\ \A a \in Actions : state[a] \in ConsumedStates => consumed[Body[a].op] = a

\* What the holder of the mutex knows about its proposal at each place.
Holding ==
  /\ mu.at \in {"gate", "inspect", "consume"} =>
       state[mu.act] \notin {"ABSENT"} \union ConsumedStates
  /\ mu.at \in {"dispatch", "wait"} => state[mu.act] = "DISPATCHING"
  /\ mu.at = "lookup" => state[mu.act] = "UNKNOWN"

Core == CoordinatorTypeOK /\ Installed /\ Tombstones /\ Holding

Streams ==
  /\ state \in [Actions -> States]
  /\ log \in [Actions -> Seq(Event)]

Rows ==
  /\ votes \in [Actions -> [Keys -> Decisions \union {None}]]
  /\ result \in [Actions -> Results]
  /\ delivery \in [Actions -> [state : {"NONE", "PENDING", "ACKED"},
                               attempts : 0 .. MaxAttempts]]
  /\ consumed \in [Ops -> Actions \union {None}]
  /\ dispatches \in [Ops -> [notAfter : Instants, result : Results] \union {None}]

Process ==
  /\ clean \in BOOLEAN
  /\ phase \in {"down", "recovering", "ready"}
  /\ \/ mu = Free
     \/ /\ mu \in [at : {"gate", "inspect", "consume", "dispatch", "wait", "lookup"},
                   act : Actions]
        /\ phase = "ready"
  /\ outcome \in [Actions -> Outcomes]
  /\ watch \subseteq Actions
  /\ crashes \in 0 .. MaxCrashes

\* Type correctness, by the part of the state an action may change.
LEMMA Types ==
  CoordinatorTypeOK <=> /\ AuthorityTypeOK /\ ProviderTypeOK
                        /\ last \in Instants /\ Streams /\ Rows /\ Process
                        /\ sent \in [Ops -> Nat]
BY DEF CoordinatorTypeOK, Streams, Rows, Process

LEMMA TypesAfter ==
  ASSUME AuthorityTypeOK', ProviderTypeOK', last' \in Instants, Streams', Rows', Process',
         sent' \in [Ops -> Nat]
  PROVE  CoordinatorTypeOK'
BY DEF CoordinatorTypeOK, Streams, Rows, Process

-----------------------------------------------------------------------------
(* The values the actions write.                                           *)

\* The constants of an action (CoordinatorAssumption).
LEMMA Bodies ==
  ASSUME NEW a \in Actions
  PROVE  /\ Body[a].op \in Ops /\ Body[a].policy \in Policies /\ Body[a].epoch \in Nat
         /\ Body[a].expires \in Nat /\ a # None
BY CoordinatorAssumption DEF Ops

\* Logical time (Store.logical_now).
LEMMA Clock ==
  ASSUME last \in Instants, NEW w \in Readings
  PROVE  LogicalNow(w) \in Nat /\ (Tick(w) => last' \in Instants)
BY CoordinatorAssumption DEF LogicalNow, Tick, Instants

LEMMA EveryEvent ==
  ASSUME NEW t \in Nat
  PROVE  /\ \A e \in Nat : [type |-> "Proposed", at |-> t, epoch |-> e] \in Event
         /\ \A k \in Keys, d \in Decisions :
              [type |-> "VoteRecorded", at |-> t, key |-> k, decision |-> d] \in Event
         /\ \A K \in SUBSET Keys : [type |-> "QuorumReached", at |-> t, keys |-> K] \in Event
         /\ \A e, l \in Nat :
              [type |-> "CommitStarted", at |-> t, epoch |-> e, deadline |-> l] \in Event
         /\ \A s \in Statuses :
              /\ [type |-> "ExecutionReported", at |-> t, status |-> s] \in Event
              /\ [type |-> "ExecutionReconciled", at |-> t, status |-> s] \in Event
         /\ \A r \in {"manual", "missing_quorum", "reject_vote", "enrichment_unavailable"} :
              EscalatedEvent(r, t) \in Event
         /\ [type |-> "EscalationDelivered", at |-> t] \in Event
         /\ \A n \in Nat : [type |-> "EscalationDeferred", at |-> t, attempt |-> n] \in Event
         /\ \A x \in Nat : [type |-> "Expired", at |-> t, expires |-> x] \in Event
         /\ \A r \in {"scope_denied", "key_revoked", "policy_changed", "state_drift"} :
              [type |-> "Invalidated", at |-> t, reason |-> r] \in Event
         /\ [type |-> "Canceled", at |-> t] \in Event
BY DEF Event, EscalatedEvent, Instants

LEMMA Reports ==
  /\ \A s \in Statuses : StateOf[s] \in Settled
  /\ StateOf["succeeded"] = "SUCCEEDED"
  /\ StateOf["failed"] = "FAILED"
  /\ StateOf["unknown"] = "UNKNOWN"
<1>1. StateOf["succeeded"] = "SUCCEEDED"
  BY DEF StateOf, Statuses
<1>2. StateOf["failed"] = "FAILED"
  BY DEF StateOf, Statuses
<1>3. StateOf["unknown"] = "UNKNOWN"
  BY DEF StateOf, Statuses
<1> QED
  BY <1>1, <1>2, <1>3 DEF Statuses, Settled

LEMMA StateNames ==
  /\ Settled \subseteq ConsumedStates
  /\ ConsumedStates \subseteq States
  /\ Live \subseteq States
  /\ {"ABSENT", "EXPIRED", "STALE", "CANCELED", "ESCALATED"} \subseteq States
  /\ \A s \in ConsumedStates : s \notin Live \union {"ABSENT", "EXPIRED", "STALE", "CANCELED", "ESCALATED"}
BY DEF Settled, ConsumedStates, States, Live

LEMMA OneEvent ==
  ASSUME NEW e \in Event
  PROVE  <<e>> \in Seq(Event)
OBVIOUS

LEMMA TwoEvents ==
  ASSUME NEW e \in Event, NEW f \in Event
  PROVE  <<e, f>> \in Seq(Event)
OBVIOUS

\* _append_event, _set_state and _flush.
LEMMA AdvanceTypes ==
  ASSUME Streams, NEW a \in Actions, NEW s \in States, NEW events \in Seq(Event),
         Advance(a, s, events)
  PROVE  Streams' /\ state' = [state EXCEPT ![a] = s]
<1>1. log[a] \o events \in Seq(Event)
  BY DEF Streams
<1> QED
  BY <1>1 DEF Streams, Advance

\* _materialize: expiry or invalidation.
LEMMA LapseTypes ==
  ASSUME Streams, NEW a \in Actions, NEW t \in Nat, Lapse(a, t)
  PROVE  /\ Streams'
         /\ \/ state' = [state EXCEPT ![a] = "EXPIRED"]
            \/ state' = [state EXCEPT ![a] = "STALE"]
<1>1. CASE HasExpired(a, t)
  <2> DEFINE e == [type |-> "Expired", at |-> t, expires |-> Body[a].expires]
  <2>1. e \in Event
    BY EveryEvent, Bodies
  <2> HIDE DEF e
  <2>2. <<e>> \in Seq(Event)
    BY <2>1, OneEvent
  <2> QED
    BY <1>1, <2>2, AdvanceTypes, StateNames DEF Lapse, e
<1>2. CASE ~HasExpired(a, t)
  <2>1. DriftReason(a) \in {"scope_denied", "key_revoked", "policy_changed", "state_drift"}
    BY DEF DriftReason
  <2> DEFINE e == [type |-> "Invalidated", at |-> t, reason |-> DriftReason(a)]
  <2>2. e \in Event
    BY <2>1, EveryEvent
  <2> HIDE DEF e
  <2>3. <<e>> \in Seq(Event)
    BY <2>2, OneEvent
  <2> QED
    BY <1>2, <2>3, AdvanceTypes, StateNames DEF Lapse, e
<1> QED
  BY <1>1, <1>2

\* _finish_dispatch: a report, or nothing if there has been one.
LEMMA FinishTypes ==
  ASSUME Core, NEW a \in Actions, NEW s \in Statuses, NEW t \in Nat, Finish(a, s, t)
  PROVE  /\ Streams' /\ result' \in [Actions -> Results]
         /\ dispatches' \in [Ops -> [notAfter : Instants, result : Results] \union {None}]
         /\ \A o \in Ops : dispatches[o] # None =>
              dispatches'[o] # None /\ dispatches'[o].notAfter = dispatches[o].notAfter
         /\ \/ state[a] = "DISPATCHING" /\ state' = [state EXCEPT ![a] = StateOf[s]]
            \/ state[a] # "DISPATCHING" /\ state' = state
<1> USE Types DEF Core
<1>1. CASE state[a] = "DISPATCHING"
  <2> DEFINE e == [type |-> "ExecutionReported", at |-> t, status |-> s]
  <2>1. <<e>> \in Seq(Event)
    <3>1. e \in Event
      BY EveryEvent
    <3> QED
      BY <3>1, OneEvent
  <2>2. StateOf[s] \in States
    BY Reports, StateNames
  <2>3. Streams' /\ state' = [state EXCEPT ![a] = StateOf[s]]
    BY <1>1, <2>1, <2>2, AdvanceTypes DEF Finish
  <2>4. /\ dispatches[Body[a].op] \in [notAfter : Instants, result : Results]
        /\ dispatches' = [dispatches EXCEPT ![Body[a].op].result = s]
        /\ result' = [result EXCEPT ![a] = s]
    <3>1. dispatches[Body[a].op] # None /\ Body[a].op \in Ops
      BY <1>1, Bodies DEF Tombstones, ConsumedStates
    <3> QED
      BY <1>1, <3>1 DEF Rows, Finish
  <2>5. result' \in [Actions -> Results]
    BY <2>4 DEF Rows, Results
  <2>6. dispatches' = [dispatches EXCEPT ![Body[a].op] =
                         [notAfter |-> dispatches[Body[a].op].notAfter, result |-> s]]
    <3>1. [dispatches[Body[a].op] EXCEPT !.result = s]
             = [notAfter |-> dispatches[Body[a].op].notAfter, result |-> s]
      BY <2>4
    <3> QED
      BY <2>4, <3>1
  <2>7. [notAfter |-> dispatches[Body[a].op].notAfter, result |-> s]
           \in [notAfter : Instants, result : Results]
    BY <2>4 DEF Results
  <2>8. None \notin [notAfter : Instants, result : Results]
    BY CoordinatorAssumption DEF Results
  <2> QED
    BY <1>1, <2>3, <2>5, <2>6, <2>7, <2>8 DEF Rows
<1>2. CASE state[a] # "DISPATCHING"
  BY <1>2 DEF Finish, Streams, Rows
<1> QED
  BY <1>1, <1>2

-----------------------------------------------------------------------------
(* What a change of one proposal's state does to Installed, Tombstones and *)
(* Holding.                                                                *)

\* A proposal moves among the states in which nothing is consumed.
LEMMA MoveUnconsumed ==
  ASSUME Core, NEW a \in Actions, NEW s \in States \ ({"ABSENT"} \union ConsumedStates),
         state' = [state EXCEPT ![a] = s], state[a] \notin ConsumedStates,
         authority # None, UNCHANGED <<authority, consumed, dispatches>>
  PROVE  /\ Installed' /\ Tombstones'
         /\ mu' = mu /\ mu.at \in {"free", "gate", "inspect"} => Holding'
         /\ mu' = Free => Holding'
<1>1. state \in [Actions -> States] /\ consumed \in [Ops -> Actions \union {None}]
  BY Types DEF Core, Streams, Rows
<1>2. Installed'
  BY <1>1 DEF Core, Installed
<1>3. Tombstones'
  BY <1>1 DEF Core, Tombstones
<1>4. mu' = Free => Holding'
  BY DEF Holding, Free
<1>5. ASSUME mu' = mu, mu.at \in {"free", "gate", "inspect"} PROVE Holding'
  <2>1. mu = Free \/ mu.act \in Actions
    BY Types DEF Core, Process
  <2> QED
    BY <1>1, <1>4, <1>5, <2>1 DEF Core, Holding
<1> QED
  BY <1>2, <1>3, <1>4, <1>5

\* A consumed proposal moves among the consumed states, and the mutex is free
\* afterwards.
LEMMA MoveConsumed ==
  ASSUME Core, NEW a \in Actions, NEW s \in ConsumedStates,
         \/ state' = [state EXCEPT ![a] = s] /\ state[a] \in ConsumedStates
         \/ state' = state,
         \A o \in Ops : dispatches[o] # None => dispatches'[o] # None,
         UNCHANGED <<authority, consumed>>, mu' = Free
  PROVE  Installed' /\ Tombstones' /\ Holding'
<1>1. state \in [Actions -> States] /\ consumed \in [Ops -> Actions \union {None}]
  BY Types DEF Core, Streams, Rows
<1>2. Installed' /\ Tombstones'
  BY <1>1 DEF Core, Installed, Tombstones, ConsumedStates, Settled
<1> QED
  BY <1>2 DEF Holding, Free

\* Nothing but the authority, which is there to stay, and the mutex changes.
LEMMA MoveNothing ==
  ASSUME Core, UNCHANGED <<state, consumed, dispatches>>,
         authority' # None \/ authority' = authority
  PROVE  /\ Installed' /\ Tombstones'
         /\ mu' = mu \/ mu' = Free => Holding'
BY DEF Core, Installed, Tombstones, Holding, Free

\* Where an operation may run.
LEMMA RunsAt ==
  ASSUME MayRun
  PROVE  mu.at \in {"free", "gate", "inspect"}
BY DEF MayRun, Free

LEMMA LiveIsInstalled ==
  ASSUME Core, NEW a \in Actions, state[a] \in Live
  PROVE  authority # None /\ state[a] \notin ConsumedStates
BY StateNames DEF Core, Installed, Live

-----------------------------------------------------------------------------
(* Each operation of one transaction keeps Core.                           *)

LEMMA TouchCore ==
  ASSUME Core, NEW a \in Actions, NEW w \in Readings, Touch(a, w)
  PROVE  Core'
<1> USE Types DEF Core
<1>1. last' \in Instants /\ LogicalNow(w) \in Nat
  BY Clock DEF Touch
<1>2. Streams' /\ Installed' /\ Tombstones' /\ Holding'
  <2>1. CASE Lapses(a, LogicalNow(w))
    <3>1. Lapse(a, LogicalNow(w)) /\ state[a] \in Live
      BY <2>1 DEF Touch, Lapses
    <3>2. PICK s \in {"EXPIRED", "STALE"} : state' = [state EXCEPT ![a] = s]
      BY <1>1, <3>1, LapseTypes
    <3>3. s \in States \ ({"ABSENT"} \union ConsumedStates)
      BY DEF States, ConsumedStates, Settled
    <3>4. Streams'
      BY <1>1, <3>1, LapseTypes
    <3>5. UNCHANGED <<authority, consumed, dispatches, mu>>
      BY DEF Touch, authorityVars, processVars
    <3>6. mu.at \in {"free", "gate", "inspect"}
      BY RunsAt DEF Touch
    <3> QED
      BY <3>1, <3>2, <3>3, <3>4, <3>5, <3>6, LiveIsInstalled, MoveUnconsumed
  <2>2. CASE ~Lapses(a, LogicalNow(w))
    <3>1. UNCHANGED <<state, log, consumed, dispatches, authority, mu>>
      BY <2>2 DEF Touch, authorityVars, processVars
    <3> QED
      BY <3>1, MoveNothing DEF Streams
  <2> QED
    BY <2>1, <2>2
<1>3. AuthorityTypeOK' /\ ProviderTypeOK' /\ Rows' /\ Process' /\ sent' \in [Ops -> Nat]
  <2>1. UNCHANGED <<authorityVars, providerVars, processVars, sent, votes, result,
                    delivery, consumed, dispatches>>
    BY DEF Touch
  <2> QED
    BY <2>1, AuthorityTypesStep DEF providerVars, processVars, ProviderTypeOK, Rows, Process
<1> QED
  BY <1>1, <1>2, <1>3, TypesAfter

LEMMA ConfigureCore ==
  ASSUME Core, NEW c \in Configurations, NEW w \in Readings, Configure(c, w)
  PROVE  Core'
<1> USE Types DEF Core
<1>1. last' \in Instants
  BY Clock DEF Configure
<1>2. UNCHANGED <<providerVars, processVars, sent, state, log, votes, result,
                  delivery, consumed, dispatches>>
  BY DEF Configure
<1>3. InstallAuthority(c)
  BY DEF Configure
<1>4. AuthorityTypeOK' /\ authority' # None
  BY <1>3, AuthorityTypesStep, InstallStep, AuthorityAssumption DEF AuthorityNext
<1>5. Streams' /\ Rows' /\ Process' /\ ProviderTypeOK' /\ sent' \in [Ops -> Nat]
  BY <1>2 DEF providerVars, processVars, ProviderTypeOK, Streams, Rows, Process
<1>6. Installed' /\ Tombstones' /\ Holding'
  BY <1>2, <1>4, MoveNothing DEF processVars
<1> QED
  BY <1>1, <1>4, <1>5, <1>6, TypesAfter

LEMMA OpenDeliveryTypes ==
  ASSUME Rows, NEW a \in Actions, OpenDelivery(a)
  PROVE  delivery' \in [Actions -> [state : {"NONE", "PENDING", "ACKED"},
                                   attempts : 0 .. MaxAttempts]]
<1>1. 0 \in 0 .. MaxAttempts
  BY CoordinatorAssumption
<1> QED
  BY <1>1 DEF Rows, OpenDelivery

LEMMA ProposeCore ==
  ASSUME Core, NEW a \in Actions, NEW w \in Readings, Propose(a, w)
  PROVE  Core'
<1> USE Types DEF Core
<1> DEFINE now == LogicalNow(w)
           proposed == [type |-> "Proposed", at |-> now, epoch |-> Body[a].epoch]
           escalated == EscalatedEvent("enrichment_unavailable", now)
<1>1. last' \in Instants /\ now \in Nat
  BY Clock DEF Propose
<1>2. <<proposed>> \in Seq(Event) /\ <<proposed, escalated>> \in Seq(Event)
  <2>1. proposed \in Event /\ escalated \in Event
    BY <1>1, EveryEvent, Bodies
  <2> QED
    BY <2>1, OneEvent, TwoEvents
<1>3. UNCHANGED <<authorityVars, providerVars, processVars, sent, votes, result,
                  consumed, dispatches>>
  BY DEF Propose
<1>4. authority # None /\ state[a] = "ABSENT" /\ mu.at \in {"free", "gate", "inspect"}
  BY RunsAt DEF Propose, Admissible
<1>5. PICK s \in {"OPEN", "ESCALATED"} :
        /\ \/ Advance(a, s, <<proposed>>) /\ UNCHANGED delivery
           \/ Advance(a, s, <<proposed, escalated>>) /\ OpenDelivery(a)
  BY DEF Propose
<1>6. s \in States \ ({"ABSENT"} \union ConsumedStates) /\ state[a] \notin ConsumedStates
  BY <1>4 DEF States, Live, ConsumedStates, Settled
<1>7. Streams' /\ state' = [state EXCEPT ![a] = s]
  BY <1>2, <1>5, <1>6, AdvanceTypes
<1>8. Installed' /\ Tombstones' /\ Holding'
  BY <1>3, <1>4, <1>6, <1>7, MoveUnconsumed DEF authorityVars, processVars
<1>9. Rows'
  BY <1>3, <1>5, OpenDeliveryTypes DEF Rows
<1>10. AuthorityTypeOK' /\ ProviderTypeOK' /\ Process' /\ sent' \in [Ops -> Nat]
  BY <1>3, AuthorityTypesStep DEF providerVars, processVars, ProviderTypeOK, Process
<1> QED
  BY <1>1, <1>7, <1>8, <1>9, <1>10, TypesAfter

LEMMA SubmitCore ==
  ASSUME Core, NEW a \in Actions, NEW k \in Keys, NEW d \in Decisions,
         NEW w \in Readings, Submit(a, k, d, w)
  PROVE  Core'
<1> USE Types DEF Core
<1> DEFINE now == LogicalNow(w)
           ballots == [votes[a] EXCEPT ![k] = d]
           voted == [type |-> "VoteRecorded", at |-> now, key |-> k, decision |-> d]
           quorum == [type |-> "QuorumReached", at |-> now,
                      keys |-> {m.key : m \in ApprovingMembers(ballots, Body[a].policy)}]
           escalated == EscalatedEvent("reject_vote", now)
<1>1. last' \in Instants /\ now \in Nat
  BY Clock DEF Submit
<1>2. /\ <<voted>> \in Seq(Event) /\ <<voted, quorum>> \in Seq(Event)
      /\ <<voted, escalated>> \in Seq(Event)
  <2>1. voted \in Event /\ escalated \in Event
    BY <1>1, EveryEvent
  <2>2. {m.key : m \in ApprovingMembers(ballots, Body[a].policy)} \in SUBSET Keys
    BY Bodies DEF ApprovingMembers, Keys, RosterKeys
  <2>3. quorum \in Event
    BY <1>1, <2>2, EveryEvent
  <2> QED
    BY <2>1, <2>3, OneEvent, TwoEvents
<1>3. /\ UNCHANGED <<authorityVars, providerVars, processVars, sent, result,
                     consumed, dispatches>>
      /\ votes' = [votes EXCEPT ![a] = ballots]
  BY DEF Submit
<1>4. state[a] \in Live /\ mu.at \in {"free", "gate", "inspect"}
  BY RunsAt DEF Submit
<1>5. PICK s \in Live \union {"ESCALATED"} :
        \/ Advance(a, s, <<voted>>) /\ UNCHANGED delivery
        \/ Advance(a, s, <<voted, quorum>>) /\ UNCHANGED delivery
        \/ Advance(a, s, <<voted, escalated>>) /\ OpenDelivery(a)
  BY <1>4 DEF Submit, Live
<1>6. s \in States \ ({"ABSENT"} \union ConsumedStates)
  BY DEF States, Live, ConsumedStates, Settled
<1>7. Streams' /\ state' = [state EXCEPT ![a] = s]
  BY <1>2, <1>5, <1>6, AdvanceTypes
<1>8. Installed' /\ Tombstones' /\ Holding'
  BY <1>3, <1>4, <1>6, <1>7, LiveIsInstalled, MoveUnconsumed DEF authorityVars, processVars
<1>9. Rows'
  BY <1>3, <1>5, OpenDeliveryTypes DEF Rows
<1>10. AuthorityTypeOK' /\ ProviderTypeOK' /\ Process' /\ sent' \in [Ops -> Nat]
  BY <1>3, AuthorityTypesStep DEF providerVars, processVars, ProviderTypeOK, Process
<1> QED
  BY <1>1, <1>7, <1>8, <1>9, <1>10, TypesAfter

LEMMA CancelCore ==
  ASSUME Core, NEW a \in Actions, NEW w \in Readings, Cancel(a, w)
  PROVE  Core'
<1> USE Types DEF Core
<1> DEFINE e == [type |-> "Canceled", at |-> LogicalNow(w)]
<1>1. last' \in Instants /\ LogicalNow(w) \in Nat
  BY Clock DEF Cancel
<1>2. <<e>> \in Seq(Event)
  BY <1>1, EveryEvent, OneEvent
<1>3. UNCHANGED <<authorityVars, providerVars, processVars, sent, votes, result,
                  delivery, consumed, dispatches>>
  BY DEF Cancel
<1>4. state[a] \in Live /\ mu.at \in {"free", "gate", "inspect"}
  BY RunsAt DEF Cancel
<1>5. "CANCELED" \in States \ ({"ABSENT"} \union ConsumedStates)
  BY DEF States, ConsumedStates, Settled
<1>6. Streams' /\ state' = [state EXCEPT ![a] = "CANCELED"]
  BY <1>2, <1>5, AdvanceTypes DEF Cancel
<1>7. Installed' /\ Tombstones' /\ Holding'
  BY <1>3, <1>4, <1>5, <1>6, LiveIsInstalled, MoveUnconsumed DEF authorityVars, processVars
<1>8. AuthorityTypeOK' /\ ProviderTypeOK' /\ Rows' /\ Process' /\ sent' \in [Ops -> Nat]
  BY <1>3, AuthorityTypesStep DEF providerVars, processVars, ProviderTypeOK, Rows, Process
<1> QED
  BY <1>1, <1>6, <1>7, <1>8, TypesAfter

LEMMA EscalateCore ==
  ASSUME Core, NEW a \in Actions, NEW r \in {"manual", "missing_quorum"},
         NEW w \in Readings, Escalate(a, r, w)
  PROVE  Core'
<1> USE Types DEF Core
<1>1. last' \in Instants /\ LogicalNow(w) \in Nat
  BY Clock DEF Escalate
<1>2. <<EscalatedEvent(r, LogicalNow(w))>> \in Seq(Event)
  BY <1>1, EveryEvent, OneEvent
<1>3. UNCHANGED <<authorityVars, providerVars, processVars, sent, votes, result,
                  consumed, dispatches>>
  BY DEF Escalate
<1>4. state[a] \in Live /\ mu.at \in {"free", "gate", "inspect"}
  BY RunsAt DEF Escalate
<1>5. "ESCALATED" \in States \ ({"ABSENT"} \union ConsumedStates)
  BY DEF States, ConsumedStates, Settled
<1>6. Streams' /\ state' = [state EXCEPT ![a] = "ESCALATED"]
  BY <1>2, <1>5, AdvanceTypes DEF Escalate
<1>7. Installed' /\ Tombstones' /\ Holding'
  BY <1>3, <1>4, <1>5, <1>6, LiveIsInstalled, MoveUnconsumed DEF authorityVars, processVars
<1>8. Rows'
  BY <1>3, OpenDeliveryTypes DEF Rows, Escalate
<1>9. AuthorityTypeOK' /\ ProviderTypeOK' /\ Process' /\ sent' \in [Ops -> Nat]
  BY <1>3, AuthorityTypesStep DEF providerVars, processVars, ProviderTypeOK, Process
<1> QED
  BY <1>1, <1>6, <1>7, <1>8, <1>9, TypesAfter

LEMMA DeliverCore ==
  ASSUME Core, NEW a \in Actions, NEW acked \in BOOLEAN, NEW w \in Readings,
         Deliver(a, acked, w)
  PROVE  Core'
<1> USE Types DEF Core
<1> DEFINE now == LogicalNow(w)
           attempt == delivery[a].attempts + 1
           e == IF acked THEN [type |-> "EscalationDelivered", at |-> now]
                         ELSE [type |-> "EscalationDeferred", at |-> now,
                               attempt |-> attempt]
<1>1. last' \in Instants /\ now \in Nat
  BY Clock DEF Deliver
<1>2. attempt \in 0 .. MaxAttempts
  BY CoordinatorAssumption DEF Rows, Deliver, MayDeliver
<1>3. <<e>> \in Seq(Event)
  <2>1. attempt \in Nat
    BY <1>2
  <2>2. e \in Event
    BY <1>1, <2>1, EveryEvent
  <2> QED
    BY <2>2, OneEvent
<1>4. UNCHANGED <<authorityVars, providerVars, processVars, sent, votes, result,
                  consumed, dispatches>>
  BY DEF Deliver
<1>5. Streams' /\ state' = state
  <2>1. Advance(a, state[a], <<e>>) /\ state[a] \in States
    BY DEF Deliver, Streams
  <2> QED
    BY <1>3, <2>1, AdvanceTypes DEF Streams
<1>6. Installed' /\ Tombstones' /\ Holding'
  BY <1>4, <1>5, MoveNothing DEF authorityVars, processVars
<1>7. Rows'
  <2>1. delivery' = [delivery EXCEPT ![a] =
                       [state |-> IF acked THEN "ACKED" ELSE "PENDING",
                        attempts |-> attempt]]
    BY DEF Deliver
  <2> QED
    BY <1>2, <1>4, <2>1 DEF Rows
<1>8. AuthorityTypeOK' /\ ProviderTypeOK' /\ Process' /\ sent' \in [Ops -> Nat]
  BY <1>4, AuthorityTypesStep DEF providerVars, processVars, ProviderTypeOK, Process
<1> QED
  BY <1>1, <1>5, <1>6, <1>7, <1>8, TypesAfter

-----------------------------------------------------------------------------
(* Each step of commit keeps Core.                                         *)

\* Where the holder of the mutex is, and with which action.
LEMMA HolderTypes ==
  ASSUME Core, NEW place, place # "free", At(place)
  PROVE  mu.act \in Actions /\ phase = "ready" /\ mu.at = place
BY Types DEF Core, Process, At, Free

LEMMA CommitBeginCore ==
  ASSUME Core, NEW a \in Actions, NEW w \in Readings,
         CommitBegin(a, w) \/ ReconcileBegin(a, w)
  PROVE  Core'
<1> USE Types DEF Core
<1>1. last' \in Instants
  BY Clock DEF CommitBegin, ReconcileBegin
<1>2. UNCHANGED <<authorityVars, providerVars, sent, state, log, votes, result,
                  delivery, consumed, dispatches, clean, phase, outcome, watch, crashes>>
  BY DEF CommitBegin, ReconcileBegin
<1>3. /\ phase = "ready"
      /\ \/ state[a] = "READY" /\ mu' = [at |-> "gate", act |-> a]
         \/ state[a] = "UNKNOWN" /\ mu' = [at |-> "lookup", act |-> a]
  <2>1. CASE CommitBegin(a, w)
    BY <2>1 DEF CommitBegin
  <2>2. CASE ReconcileBegin(a, w)
    BY <2>2 DEF ReconcileBegin
  <2> QED
    BY <2>1, <2>2
<1>4. Installed' /\ Tombstones'
  BY <1>2, MoveNothing DEF authorityVars
<1>5. Holding'
  BY <1>2, <1>3 DEF Holding, ConsumedStates, Settled
<1>6. Process'
  BY <1>2, <1>3 DEF Process
<1>7. /\ AuthorityTypeOK' /\ ProviderTypeOK' /\ Streams' /\ Rows'
      /\ sent' \in [Ops -> Nat]
  BY <1>2, AuthorityTypesStep DEF providerVars, ProviderTypeOK, Streams, Rows
<1> QED
  BY <1>1, <1>4, <1>5, <1>6, <1>7, TypesAfter

LEMMA HostAgreesCore ==
  ASSUME Core, HostAgrees
  PROVE  Core'
<1> USE Types DEF Core
<1>1. UNCHANGED <<authorityVars, providerVars, journalVars, sent, clean, phase,
                  outcome, watch, crashes>>
  BY DEF HostAgrees
<1>2. PICK place \in {"inspect", "consume"} :
        /\ mu' = [mu EXCEPT !.at = place]
        /\ At("gate") \/ At("inspect")
  BY DEF HostAgrees, Goto
<1>3. mu.act \in Actions /\ phase = "ready" /\ mu.at \in {"gate", "inspect"}
  BY <1>2, HolderTypes
<1>4. mu' = [at |-> place, act |-> mu.act]
  BY <1>2, <1>3 DEF Process, Free
<1>5. Process'
  BY <1>1, <1>3, <1>4 DEF Process
<1>6. Installed' /\ Tombstones'
  BY <1>1, MoveNothing DEF authorityVars, journalVars
<1>7. Holding'
  BY <1>1, <1>3, <1>4 DEF Holding, journalVars
<1>8. /\ AuthorityTypeOK' /\ ProviderTypeOK' /\ last' \in Instants /\ Streams' /\ Rows'
      /\ sent' \in [Ops -> Nat]
  BY <1>1, AuthorityTypesStep DEF providerVars, journalVars, ProviderTypeOK, Streams, Rows
<1> QED
  BY <1>5, <1>6, <1>7, <1>8, TypesAfter

LEMMA CommitFailsCore ==
  ASSUME Core, CommitFails \/ ReconcileUnresolved
  PROVE  Core'
<1> USE Types DEF Core
<1>1. UNCHANGED <<authorityVars, providerVars, journalVars, sent, clean, phase,
                  outcome, watch, crashes>>
  BY DEF CommitFails, ReconcileUnresolved
<1>2. mu' = Free
  BY DEF CommitFails, ReconcileUnresolved, Release
<1>3. Process'
  BY <1>1, <1>2 DEF Process
<1>4. Installed' /\ Tombstones' /\ Holding'
  BY <1>1, <1>2, MoveNothing DEF authorityVars, journalVars
<1>5. /\ AuthorityTypeOK' /\ ProviderTypeOK' /\ last' \in Instants /\ Streams' /\ Rows'
      /\ sent' \in [Ops -> Nat]
  BY <1>1, AuthorityTypesStep DEF providerVars, journalVars, ProviderTypeOK, Streams, Rows
<1> QED
  BY <1>3, <1>4, <1>5, TypesAfter

LEMMA HostRefusesCore ==
  ASSUME Core, NEW w \in Readings, HostRefuses(w)
  PROVE  Core'
<1> USE Types DEF Core
<1> DEFINE e == [type |-> "Invalidated", at |-> LogicalNow(w),
                 reason |-> IF mu.at = "gate" THEN "scope_denied" ELSE "state_drift"]
<1>1. last' \in Instants /\ LogicalNow(w) \in Nat
  BY Clock DEF HostRefuses
<1>2. <<e>> \in Seq(Event)
  BY <1>1, EveryEvent, OneEvent
<1>3. /\ UNCHANGED <<authorityVars, providerVars, sent, votes, result, delivery,
                     consumed, dispatches, clean, phase, outcome, watch, crashes>>
      /\ mu' = Free
  BY DEF HostRefuses, Release
<1>4. mu.act \in Actions /\ mu.at \in {"gate", "inspect"}
  BY HolderTypes DEF HostRefuses
<1>5. state[mu.act] \notin {"ABSENT"} \union ConsumedStates /\ authority # None
  BY <1>4 DEF Holding, Installed
<1>6. "STALE" \in States \ ({"ABSENT"} \union ConsumedStates)
  BY DEF States, ConsumedStates, Settled
<1>7. Streams' /\ state' = [state EXCEPT ![mu.act] = "STALE"]
  BY <1>2, <1>4, <1>6, AdvanceTypes DEF HostRefuses
<1>8. Installed' /\ Tombstones' /\ Holding'
  BY <1>3, <1>4, <1>5, <1>6, <1>7, MoveUnconsumed DEF authorityVars
<1>9. Process'
  BY <1>3 DEF Process
<1>10. AuthorityTypeOK' /\ ProviderTypeOK' /\ Rows' /\ sent' \in [Ops -> Nat]
  BY <1>3, AuthorityTypesStep DEF providerVars, ProviderTypeOK, Rows
<1> QED
  BY <1>1, <1>7, <1>8, <1>9, <1>10, TypesAfter

LEMMA ConsumeAbandonedCore ==
  ASSUME Core, NEW w \in Readings, ConsumeAbandoned(w)
  PROVE  Core'
<1> USE Types DEF Core
<1>1. last' \in Instants /\ LogicalNow(w) \in Nat
  BY Clock DEF ConsumeAbandoned
<1>2. /\ UNCHANGED <<authorityVars, providerVars, sent, votes, result, delivery,
                     consumed, dispatches, clean, phase, outcome, watch, crashes>>
      /\ mu' = Free
  BY DEF ConsumeAbandoned, Release
<1>3. mu.act \in Actions
  BY HolderTypes DEF ConsumeAbandoned
<1>4. Streams' /\ Installed' /\ Tombstones' /\ Holding'
  <2>1. CASE Lapse(mu.act, LogicalNow(w)) /\ state[mu.act] \in Live
    <3>1. PICK s \in {"EXPIRED", "STALE"} : state' = [state EXCEPT ![mu.act] = s]
      BY <1>1, <1>3, <2>1, LapseTypes
    <3>2. s \in States \ ({"ABSENT"} \union ConsumedStates)
      BY DEF States, ConsumedStates, Settled
    <3>3. Streams'
      BY <1>1, <1>3, <2>1, LapseTypes
    <3> QED
      BY <1>2, <1>3, <2>1, <3>1, <3>2, <3>3, LiveIsInstalled, MoveUnconsumed
         DEF authorityVars
  <2>2. CASE UNCHANGED <<state, log>>
    BY <1>2, <2>2, MoveNothing DEF Streams, authorityVars
  <2> QED
    BY <2>1, <2>2 DEF ConsumeAbandoned
<1>5. Process'
  BY <1>2 DEF Process
<1>6. AuthorityTypeOK' /\ ProviderTypeOK' /\ Rows' /\ sent' \in [Ops -> Nat]
  BY <1>2, AuthorityTypesStep DEF providerVars, ProviderTypeOK, Rows
<1> QED
  BY <1>1, <1>4, <1>5, <1>6, TypesAfter

LEMMA DeadlineTypes ==
  ASSUME NEW a \in Actions, NEW t \in Nat
  PROVE  Deadline(a, t) \in Nat /\ Deadline(a, t) <= Body[a].expires
BY CoordinatorAssumption DEF Deadline

LEMMA ConsumeCore ==
  ASSUME Core, NEW w \in Readings, Consume(w)
  PROVE  Core'
<1> USE Types DEF Core
<1> DEFINE a == mu.act
           now == LogicalNow(w)
           e == [type |-> "CommitStarted", at |-> now, epoch |-> authority.epoch,
                 deadline |-> Deadline(a, now)]
           row == [notAfter |-> Deadline(a, now), result |-> None]
<1>1. last' \in Instants /\ now \in Nat
  BY Clock DEF Consume
<1>2. /\ UNCHANGED <<authorityVars, providerVars, sent, votes, result, delivery,
                     clean, phase, outcome, watch, crashes>>
      /\ mu' = [mu EXCEPT !.at = "dispatch"]
      /\ consumed' = [consumed EXCEPT ![Body[a].op] = a]
      /\ dispatches' = [dispatches EXCEPT ![Body[a].op] = row]
      /\ Advance(a, "DISPATCHING", <<e>>)
  BY DEF Consume, Goto
<1>3. /\ a \in Actions /\ phase = "ready" /\ mu.at = "consume"
      /\ state[a] = "READY" /\ consumed[Body[a].op] = None
  BY HolderTypes DEF Consume
<1>4. authority # None /\ authority.epoch \in Nat
  <2>1. authority # None
    BY <1>3 DEF Installed
  <2> QED
    BY <2>1, AuthorityAssumption DEF AuthorityTypeOK, Authorities
<1>5. Deadline(a, now) \in Nat
  BY <1>1, <1>3, DeadlineTypes
<1>6. <<e>> \in Seq(Event)
  BY <1>1, <1>4, <1>5, EveryEvent, OneEvent
<1>7. Streams' /\ state' = [state EXCEPT ![a] = "DISPATCHING"]
  BY <1>2, <1>3, <1>6, AdvanceTypes DEF States, ConsumedStates
<1>8. row \in [notAfter : Instants, result : Results] /\ row # None
  BY <1>5, CoordinatorAssumption DEF Instants, Results
<1>9. Body[a].op \in Ops /\ a # None
  BY <1>3, Bodies
<1>10. Rows'
  <2>1. consumed' \in [Ops -> Actions \union {None}]
    BY <1>2, <1>3, <1>9 DEF Rows
  <2>2. dispatches' \in [Ops -> [notAfter : Instants, result : Results] \union {None}]
    BY <1>2, <1>8, <1>9 DEF Rows
  <2> QED
    BY <1>2, <2>1, <2>2 DEF Rows
<1>11. mu' = [at |-> "dispatch", act |-> a]
  BY <1>2, <1>3 DEF Process, Free
<1>12. Process' /\ Holding'
  BY <1>2, <1>3, <1>7, <1>11 DEF Process, Holding, Streams
<1>13. Installed'
  BY <1>2, <1>4 DEF Installed, authorityVars
<1>14. Tombstones'
  <2>1. ASSUME NEW o \in Ops, consumed'[o] # None
        PROVE  /\ Body[consumed'[o]].op = o
               /\ state'[consumed'[o]] \in ConsumedStates
               /\ dispatches'[o] # None
    <3>1. CASE o = Body[a].op
      BY <1>2, <1>3, <1>7, <1>8, <1>9, <3>1 DEF Rows, Streams, ConsumedStates
    <3>2. CASE o # Body[a].op
      BY <1>2, <1>3, <1>7, <1>9, <2>1, <3>2 DEF Rows, Streams, Tombstones, ConsumedStates
    <3> QED
      BY <3>1, <3>2
  <2>2. ASSUME NEW b \in Actions, state'[b] \in ConsumedStates
        PROVE  consumed'[Body[b].op] = b
    <3>1. CASE b = a
      BY <1>2, <1>9, <3>1 DEF Rows
    <3>2. CASE b # a
      <4>1. state[b] \in ConsumedStates
        BY <1>3, <1>7, <2>2, <3>2 DEF Streams
      <4>2. consumed[Body[b].op] = b
        BY <4>1 DEF Tombstones
      <4> QED
        BY <1>2, <1>3, <1>9, <4>2, Bodies DEF Rows
    <3> QED
      BY <3>1, <3>2
  <2> QED
    BY <2>1, <2>2 DEF Tombstones
<1>15. AuthorityTypeOK' /\ ProviderTypeOK' /\ sent' \in [Ops -> Nat]
  BY <1>2, AuthorityTypesStep DEF providerVars, ProviderTypeOK
<1> QED
  BY <1>1, <1>7, <1>10, <1>12, <1>13, <1>14, <1>15, TypesAfter

\* Reports of the committing thread and of the watcher (_finish_dispatch).
LEMMA ReportCore ==
  ASSUME Core, NEW a \in Actions, NEW status \in Statuses, NEW w \in Readings,
         Tick(w), Finish(a, status, LogicalNow(w)), mu' = Free,
         outcome' \in [Actions -> Outcomes],
         watch' \subseteq Actions,
         UNCHANGED <<authorityVars, providerVars, sent, votes, delivery, consumed,
                     clean, phase, crashes>>
  PROVE  Core'
<1> USE Types DEF Core
<1>1. last' \in Instants /\ LogicalNow(w) \in Nat
  BY Clock
<1>2. /\ Streams' /\ result' \in [Actions -> Results]
      /\ dispatches' \in [Ops -> [notAfter : Instants, result : Results] \union {None}]
      /\ \A o \in Ops : dispatches[o] # None => dispatches'[o] # None
      /\ \/ state[a] = "DISPATCHING" /\ state' = [state EXCEPT ![a] = StateOf[status]]
         \/ state[a] # "DISPATCHING" /\ state' = state
  BY <1>1, FinishTypes
<1>3. Installed' /\ Tombstones' /\ Holding'
  <2>1. StateOf[status] \in ConsumedStates /\ "DISPATCHING" \in ConsumedStates
    BY Reports, StateNames DEF ConsumedStates
  <2>2. UNCHANGED <<authority, consumed>>
    BY DEF authorityVars
  <2> QED
    BY <1>2, <2>1, <2>2, MoveConsumed
<1>4. Rows' /\ Process'
  BY <1>2 DEF Rows, Process
<1>5. AuthorityTypeOK' /\ ProviderTypeOK' /\ sent' \in [Ops -> Nat]
  BY AuthorityTypesStep DEF providerVars, ProviderTypeOK
<1> QED
  BY <1>1, <1>2, <1>3, <1>4, <1>5, TypesAfter

LEMMA CommitReportsCore ==
  ASSUME Core, NEW w \in Readings,
         DispatchRefused(w) \/ WaitReturns(w) \/ WaitTimesOut(w)
  PROVE  Core'
<1> USE Types DEF Core
<1> DEFINE idle == [outcome EXCEPT ![mu.act] = "idle"]
<1>1. mu.act \in Actions
  BY HolderTypes DEF DispatchRefused, WaitReturns, WaitTimesOut
<1>2. idle \in [Actions -> Outcomes]
  BY DEF Process, Outcomes
<1>3. CASE DispatchRefused(w)
  BY <1>1, <1>3, ReportCore DEF DispatchRefused, Release, Process, Statuses
<1>4. CASE WaitReturns(w)
  BY <1>1, <1>2, <1>4, ReportCore DEF WaitReturns, Release, Process
<1>5. CASE WaitTimesOut(w)
  BY <1>1, <1>2, <1>5, ReportCore DEF WaitTimesOut, TimeoutStatus, Release, Process, Statuses
<1> QED
  BY <1>3, <1>4, <1>5

LEMMA WatcherCore ==
  ASSUME Core, NEW a \in Actions, NEW status \in Statuses, NEW w \in Readings,
         WatcherFinishes(a, status, w)
  PROVE  Core'
<1> USE Types DEF Core
<1>1. /\ watch' \subseteq Actions
      /\ outcome' \in [Actions -> Outcomes]
      /\ mu' = Free
  BY DEF WatcherFinishes, Process, Outcomes
<1> QED
  BY <1>1, ReportCore DEF WatcherFinishes

LEMMA DispatchCallCore ==
  ASSUME Core, DispatchCall
  PROVE  Core'
<1> USE Types DEF Core
<1> DEFINE a == mu.act
           req == [act |-> a, notAfter |-> dispatches[Body[a].op].notAfter]
<1>1. a \in Actions /\ phase = "ready" /\ mu.at = "dispatch"
  BY HolderTypes DEF DispatchCall
<1>2. Body[a].op \in Ops
  BY <1>1, Bodies
<1>3. req \in Requests
  <2>1. dispatches[Body[a].op] # None
    BY <1>1, <1>2, Bodies DEF Holding, Tombstones, ConsumedStates
  <2>2. dispatches[Body[a].op] \in [notAfter : Instants, result : Results]
    BY <1>2, <2>1 DEF Rows
  <2> QED
    BY <1>1, <2>2 DEF Requests, Instants
<1>4. /\ Send(req)
      /\ sent' = [sent EXCEPT ![Body[a].op] = @ + 1]
      /\ outcome' = [outcome EXCEPT ![a] = "running"]
      /\ mu' = [mu EXCEPT !.at = "wait"]
      /\ UNCHANGED <<authorityVars, journalVars, clean, phase, watch, crashes>>
  BY DEF DispatchCall, Goto
<1>5. mu' = [at |-> "wait", act |-> a]
  BY <1>1, <1>4 DEF Process, Free
<1>6. Process'
  BY <1>1, <1>4, <1>5 DEF Process, Outcomes
<1>7. ProviderTypeOK'
  BY <1>3, <1>4 DEF ProviderTypeOK, Send
<1>8. Installed' /\ Tombstones'
  BY <1>4, MoveNothing DEF authorityVars, journalVars
<1>9. Holding'
  BY <1>1, <1>4, <1>5 DEF Holding, journalVars
<1>10. sent' \in [Ops -> Nat]
  BY <1>2, <1>4
<1>11. AuthorityTypeOK' /\ last' \in Instants /\ Streams' /\ Rows'
  BY <1>4, AuthorityTypesStep DEF journalVars, Streams, Rows
<1> QED
  BY <1>6, <1>7, <1>8, <1>9, <1>10, <1>11, TypesAfter

\* An exception that ends a commit or a watcher records nothing.
LEMMA RaisesFrame ==
  ASSUME NEW a \in Actions, Raises(a)
  PROVE  /\ UNCHANGED <<authorityVars, providerVars, journalVars, sent, clean, phase,
                         crashes>>
         /\ \E how \in Lost : outcome' = [outcome EXCEPT ![a] = how]
         /\ \/ mu.act = a /\ mu.at \in {"dispatch", "wait"} /\ mu' = Free /\ watch' = watch
            \/ a \in watch /\ watch' = watch \ {a} /\ mu' = mu
<1>1. CASE StartFails(a)
  BY <1>1 DEF StartFails, Lose, CommitRaises, Release, At, Lost
<1>2. CASE ReportFails(a)
  BY <1>2 DEF ReportFails, Lose, CommitRaises, WatcherDies, Release, At, Lost
<1>3. CASE AdapterFaultEscapes(a)
  BY <1>3 DEF AdapterFaultEscapes, Lose, CommitRaises, WatcherDies, Release, At, Lost
<1> QED
  BY <1>1, <1>2, <1>3 DEF Raises

\* Steps of the adapter and watcher threads that record nothing.
LEMMA ThreadCore ==
  ASSUME Core,
         \/ WaitHandsOver
         \/ \E a \in Actions : \/ Raises(a)
                             \/ \E status \in Statuses \union {"nothing"} :
                                  AdapterReturns(a, status)
  PROVE  Core'
<1> USE Types DEF Core
<1>1. /\ UNCHANGED <<authorityVars, providerVars, journalVars, sent, clean, phase, crashes>>
      /\ mu' = mu \/ mu' = Free
  BY RaisesFrame DEF WaitHandsOver, AdapterReturns, Release
<1>2. /\ outcome' \in [Actions -> Outcomes]
      /\ watch' \subseteq Actions
  <2>1. CASE WaitHandsOver
    BY <2>1, HolderTypes DEF WaitHandsOver, Process
  <2>2. ASSUME NEW a \in Actions, Raises(a)
        PROVE  /\ outcome' \in [Actions -> Outcomes]
               /\ watch' \subseteq Actions
    BY <2>2, RaisesFrame DEF Process, Outcomes
  <2>3. ASSUME NEW a \in Actions, NEW status \in Statuses \union {"nothing"},
               AdapterReturns(a, status)
        PROVE  /\ outcome' \in [Actions -> Outcomes]
               /\ watch' \subseteq Actions
    BY <2>3 DEF AdapterReturns, Process, Outcomes
  <2> QED
    BY <2>1, <2>2, <2>3
<1>3. Process'
  BY <1>1, <1>2 DEF Process
<1>4. Installed' /\ Tombstones' /\ Holding'
  BY <1>1, MoveNothing DEF authorityVars, journalVars
<1>5. /\ AuthorityTypeOK' /\ ProviderTypeOK' /\ last' \in Instants /\ Streams' /\ Rows'
      /\ sent' \in [Ops -> Nat]
  BY <1>1, AuthorityTypesStep DEF providerVars, journalVars, ProviderTypeOK, Streams, Rows
<1> QED
  BY <1>3, <1>4, <1>5, TypesAfter

LEMMA ReconcileResolvesCore ==
  ASSUME Core, NEW w \in Readings, ReconcileResolves(w)
  PROVE  Core'
<1> USE Types DEF Core
<1> DEFINE a == mu.act
           status == Lookup(Body[a].op)
           e == [type |-> "ExecutionReconciled", at |-> LogicalNow(w), status |-> status]
<1>1. last' \in Instants /\ LogicalNow(w) \in Nat
  BY Clock DEF ReconcileResolves
<1>2. a \in Actions /\ state[a] = "UNKNOWN"
  BY HolderTypes DEF ReconcileResolves, Holding
<1>3. status \in Statuses
  BY <1>2, Bodies DEF ReconcileResolves, Lookup, ProviderTypeOK, Statuses
<1>4. /\ Advance(a, StateOf[status], <<e>>)
      /\ result' = [result EXCEPT ![a] = status]
      /\ mu' = Free
      /\ UNCHANGED <<authorityVars, providerVars, sent, votes, delivery, consumed,
                     dispatches, clean, phase, outcome, watch, crashes>>
  BY DEF ReconcileResolves, Release
<1>5. StateOf[status] \in ConsumedStates /\ "UNKNOWN" \in ConsumedStates
  BY <1>3, Reports, StateNames DEF ConsumedStates, Settled
<1>6. Streams' /\ state' = [state EXCEPT ![a] = StateOf[status]]
  <2>1. <<e>> \in Seq(Event)
    BY <1>1, <1>3, EveryEvent, OneEvent
  <2> QED
    BY <1>2, <1>4, <1>5, <2>1, StateNames, AdvanceTypes
<1>7. Installed' /\ Tombstones' /\ Holding'
  BY <1>2, <1>4, <1>5, <1>6, MoveConsumed DEF authorityVars
<1>8. Rows' /\ Process'
  BY <1>2, <1>3, <1>4 DEF Rows, Process, Results
<1>9. AuthorityTypeOK' /\ ProviderTypeOK' /\ sent' \in [Ops -> Nat]
  BY <1>4, AuthorityTypesStep DEF providerVars, ProviderTypeOK
<1> QED
  BY <1>1, <1>6, <1>7, <1>8, <1>9, TypesAfter

-----------------------------------------------------------------------------
(* Stops, restarts and the provider keep Core.                             *)

LEMMA StopCore ==
  ASSUME Core, Crash \/ Close
  PROVE  Core'
<1> USE Types DEF Core
<1>1. ThreadsEnd /\ clean' \in BOOLEAN /\ crashes < MaxCrashes
  BY DEF Crash, Close, Process
<1>2. Process'
  BY <1>1, CoordinatorAssumption DEF ThreadsEnd, Process, Outcomes
<1>3. Installed' /\ Tombstones' /\ Holding'
  BY <1>1, MoveNothing DEF ThreadsEnd, authorityVars, journalVars
<1>4. /\ AuthorityTypeOK' /\ ProviderTypeOK' /\ last' \in Instants /\ Streams' /\ Rows'
      /\ sent' \in [Ops -> Nat]
  BY <1>1, AuthorityTypesStep
     DEF ThreadsEnd, providerVars, journalVars, ProviderTypeOK, Streams, Rows
<1> QED
  BY <1>2, <1>3, <1>4, TypesAfter

LEMMA StartCore ==
  ASSUME Core, BecomeReady \/ \E w \in Readings : Open(w)
  PROVE  Core'
<1> USE Types DEF Core
<1>1. /\ UNCHANGED <<authorityVars, providerVars, journalVars, sent, mu, outcome,
                     watch, crashes>>
      /\ clean' \in BOOLEAN /\ phase' \in {"down", "recovering", "ready"}
      /\ phase # "ready"
  BY DEF Open, FlagOnOpen, BecomeReady, Process
<1>2. Process'
  BY <1>1 DEF Process
<1>3. Installed' /\ Tombstones' /\ Holding'
  BY <1>1, MoveNothing DEF authorityVars, journalVars
<1>4. /\ AuthorityTypeOK' /\ ProviderTypeOK' /\ last' \in Instants /\ Streams' /\ Rows'
      /\ sent' \in [Ops -> Nat]
  BY <1>1, AuthorityTypesStep DEF providerVars, journalVars, ProviderTypeOK, Streams, Rows
<1> QED
  BY <1>2, <1>3, <1>4, TypesAfter

LEMMA RecoverCore ==
  ASSUME Core, NEW a \in Actions, NEW w \in Readings, Recover(a, w)
  PROVE  Core'
<1> USE Types DEF Core
<1> DEFINE e == [type |-> "ExecutionReported", at |-> LogicalNow(w), status |-> "unknown"]
           o == Body[a].op
<1>1. last' \in Instants /\ LogicalNow(w) \in Nat
  BY Clock DEF Recover
<1>2. state[a] = "DISPATCHING" /\ o \in Ops /\ mu = Free
  BY Bodies DEF Recover, Interrupted, Process
<1>3. dispatches[o] \in [notAfter : Instants, result : Results]
  BY <1>2, Bodies DEF Tombstones, ConsumedStates, Rows
<1>4. dispatches' = [dispatches EXCEPT ![o] =
                       [notAfter |-> dispatches[o].notAfter, result |-> "unknown"]]
  <2>1. [dispatches[o] EXCEPT !.result = "unknown"]
           = [notAfter |-> dispatches[o].notAfter, result |-> "unknown"]
    BY <1>3
  <2> QED
    BY <2>1 DEF Recover
<1>5. [notAfter |-> dispatches[o].notAfter, result |-> "unknown"]
        \in [notAfter : Instants, result : Results]
  BY <1>3 DEF Results, Statuses
<1>6. None \notin [notAfter : Instants, result : Results]
  BY CoordinatorAssumption DEF Results
<1>7. /\ dispatches' \in [Ops -> [notAfter : Instants, result : Results] \union {None}]
      /\ \A p \in Ops : dispatches[p] # None => dispatches'[p] # None
  BY <1>2, <1>4, <1>5, <1>6 DEF Rows
<1>8. Streams' /\ state' = [state EXCEPT ![a] = "UNKNOWN"]
  <2>1. <<e>> \in Seq(Event)
    BY <1>1, EveryEvent, OneEvent DEF Statuses
  <2> QED
    BY <2>1, AdvanceTypes DEF Recover, States, ConsumedStates, Settled
<1>9. UNCHANGED <<authorityVars, providerVars, processVars, sent, votes, result,
                  delivery, consumed>>
  BY DEF Recover
<1>10. Installed' /\ Tombstones' /\ Holding'
  BY <1>2, <1>7, <1>8, <1>9, MoveConsumed
     DEF authorityVars, processVars, ConsumedStates, Settled
<1>11. Rows' /\ Process'
  BY <1>7, <1>9 DEF Rows, Process, processVars
<1>12. AuthorityTypeOK' /\ ProviderTypeOK' /\ sent' \in [Ops -> Nat]
  BY <1>9, AuthorityTypesStep DEF providerVars, ProviderTypeOK
<1> QED
  BY <1>1, <1>8, <1>10, <1>11, <1>12, TypesAfter

\* What a request does at the provider (RefundSimulator.dispatch).
LEMMA ExecuteTypes ==
  ASSUME ProviderTypeOK, NEW req \in wire, NEW e \in Readings,
         Execute(req, e)
  PROVE  ProviderTypeOK'
<1>1. req \in Requests /\ req.act \in Actions /\ e \in Nat
  BY CoordinatorAssumption DEF ProviderTypeOK, Requests
<1>2. Body[req.act].op \in Ops
  BY <1>1 DEF Ops
<1>3. wire' \subseteq Requests
  BY DEF ProviderTypeOK, Execute
<1>4. ledger' \in [Ops -> {"unresolved", "succeeded", "failed"}]
  BY <1>2 DEF ProviderTypeOK, Execute
<1>5. effects' \in [Ops -> Seq(Effects)]
  <2>1. [act |-> req.act, at |-> e] \in Effects
    BY <1>1 DEF Effects
  <2>2. Append(effects[Body[req.act].op], [act |-> req.act, at |-> e]) \in Seq(Effects)
    BY <1>2, <2>1 DEF ProviderTypeOK
  <2> QED
    BY <1>2, <2>2 DEF ProviderTypeOK, Execute
<1> QED
  BY <1>3, <1>4, <1>5 DEF ProviderTypeOK

LEMMA ProviderCore ==
  ASSUME Core, ProviderNext
  PROVE  Core'
<1> USE Types DEF Core
<1>1. UNCHANGED <<authorityVars, journalVars, processVars, sent>>
  BY DEF ProviderNext, ProviderExecutes, ProviderDrops
<1>2. ProviderTypeOK'
  <2>1. PICK req \in wire : Drop(req) \/ \E e \in Readings : Execute(req, e)
    BY DEF ProviderNext, ProviderExecutes, ProviderDrops
  <2>2. CASE Drop(req)
    BY <2>2 DEF Drop, ProviderTypeOK
  <2>3. CASE \E e \in Readings : Execute(req, e)
    BY <2>3, ExecuteTypes
  <2> QED
    BY <2>1, <2>2, <2>3
<1>3. Installed' /\ Tombstones' /\ Holding'
  BY <1>1, MoveNothing DEF authorityVars, journalVars, processVars
<1>4. /\ AuthorityTypeOK' /\ last' \in Instants /\ Streams' /\ Rows' /\ Process'
      /\ sent' \in [Ops -> Nat]
  BY <1>1, AuthorityTypesStep DEF journalVars, processVars, Streams, Rows, Process
<1> QED
  BY <1>2, <1>3, <1>4, TypesAfter

-----------------------------------------------------------------------------
LEMMA CoreStep ==
  ASSUME Core, [Next]_vars
  PROVE  Core'
<1>1. CASE OperationNext
  BY <1>1, ConfigureCore, TouchCore, ProposeCore, SubmitCore, CancelCore,
     EscalateCore, DeliverCore DEF OperationNext
<1>2. CASE CommitNext
  BY <1>2, HostAgreesCore, CommitFailsCore, DispatchCallCore, ThreadCore,
     CommitBeginCore, HostRefusesCore, ConsumeAbandonedCore, ConsumeCore,
     CommitReportsCore, ReconcileResolvesCore DEF CommitNext
<1>3. CASE ThreadNext
  BY <1>3, ThreadCore, WatcherCore DEF ThreadNext
<1>4. CASE ProcessNext
  BY <1>4, StopCore, StartCore, RecoverCore DEF ProcessNext
<1>5. CASE ProviderNext
  BY <1>5, ProviderCore
<1>6. CASE UNCHANGED vars
  <2>1. UNCHANGED <<authorityVars, providerVars, journalVars, processVars, sent>>
    BY <1>6 DEF vars
  <2>2. Installed' /\ Tombstones' /\ Holding'
    BY <2>1, MoveNothing DEF authorityVars, journalVars, processVars
  <2>3. /\ AuthorityTypeOK' /\ ProviderTypeOK' /\ last' \in Instants /\ Streams' /\ Rows'
        /\ Process' /\ sent' \in [Ops -> Nat]
    BY <2>1, Types, AuthorityTypesStep
       DEF Core, providerVars, journalVars, processVars, ProviderTypeOK, Streams, Rows, Process
  <2> QED
    BY <2>2, <2>3, TypesAfter DEF Core
<1> QED
  BY <1>1, <1>2, <1>3, <1>4, <1>5, <1>6 DEF Next

LEMMA CoreInit ==
  ASSUME Init
  PROVE  Core
<1>1. AuthorityTypeOK
  BY DEF Init, AuthorityInit, AuthorityTypeOK, CurrentEpoch
<1>2. ProviderTypeOK
  BY DEF Init, ProviderInit, ProviderTypeOK
<1>3. Streams /\ Rows
  BY CoordinatorAssumption DEF Init, Streams, Rows, States, Results
<1>4. Process
  <2>1. 0 \in 0 .. MaxCrashes
    BY CoordinatorAssumption
  <2> QED
    BY <2>1 DEF Init, Process, Outcomes
<1>5. Installed /\ Tombstones /\ Holding
  BY DEF Init, Installed, Tombstones, Holding, Free, ConsumedStates, Settled
<1> QED
  BY <1>1, <1>2, <1>3, <1>4, <1>5, Types DEF Init, Core, Instants

\* Tombstone, dispatch row, state and the place of the mutex holder agree in
\* every reachable state, and everything is well typed: the invariant the
\* theorems on dispatch start from.
THEOREM CoreHolds == Spec => []Core
<1> QED
  BY CoreInit, CoreStep, PTL DEF Spec

\* The coordinator, its journal, its threads and its provider are well typed
\* in every reachable state, whatever the deployment: no delivery goes past its
\* limit, a report always finds its dispatch row, and CommitStarted an
\* authority to quote (commit, _finish_dispatch, deliver).
THEOREM CoordinatorTypesHold == Spec => []CoordinatorTypeOK
<1>1. Core => CoordinatorTypeOK
  BY DEF Core
<1> QED
  BY <1>1, CoreHolds, PTL

-----------------------------------------------------------------------------
(* What each group of steps leaves alone.                                  *)

\* The operations of one transaction touch neither dispatch nor process.
LEMMA OperationFrame ==
  ASSUME OperationNext
  PROVE  UNCHANGED <<providerVars, processVars, sent, consumed, dispatches>>
<1>1. ASSUME NEW c \in Configurations, NEW w \in Readings, Configure(c, w)
      PROVE  UNCHANGED <<providerVars, processVars, sent, consumed, dispatches>>
  BY <1>1 DEF Configure
<1>2. ASSUME NEW a \in Actions, NEW w \in Readings,
             Touch(a, w) \/ Propose(a, w) \/ Cancel(a, w)
      PROVE  UNCHANGED <<providerVars, processVars, sent, consumed, dispatches>>
  BY <1>2 DEF Touch, Propose, Cancel
<1>3. ASSUME NEW a \in Actions, NEW w \in Readings, NEW k \in Keys, NEW d \in Decisions,
             Submit(a, k, d, w)
      PROVE  UNCHANGED <<providerVars, processVars, sent, consumed, dispatches>>
  BY <1>3 DEF Submit
<1>4. ASSUME NEW a \in Actions, NEW w \in Readings,
             NEW r \in {"manual", "missing_quorum"}, Escalate(a, r, w)
      PROVE  UNCHANGED <<providerVars, processVars, sent, consumed, dispatches>>
  BY <1>4 DEF Escalate
<1>5. ASSUME NEW a \in Actions, NEW w \in Readings, NEW acked \in BOOLEAN,
             Deliver(a, acked, w)
      PROVE  UNCHANGED <<providerVars, processVars, sent, consumed, dispatches>>
  BY <1>5 DEF Deliver
<1> QED
  BY <1>1, <1>2, <1>3, <1>4, <1>5 DEF OperationNext

\* Only Consume writes a tombstone and goes to the dispatch, and only
\* DispatchCall calls.
LEMMA CommitFrame ==
  ASSUME Core, CommitNext
  PROVE  \/ \E w \in Readings : Consume(w)
         \/ DispatchCall
         \/ /\ UNCHANGED <<authorityVars, providerVars, sent, votes, consumed>>
            /\ mu'.at # "dispatch"
<1>1. CASE HostAgrees
  <2>1. PICK place \in {"inspect", "consume"} :
          mu' = [mu EXCEPT !.at = place] /\ (At("gate") \/ At("inspect"))
    BY <1>1 DEF HostAgrees, Goto
  <2>2. mu.act \in Actions /\ mu.at # "free"
    BY <2>1, HolderTypes
  <2>3. mu' = [at |-> place, act |-> mu.act]
    BY <2>1, <2>2, Types DEF Core, Process, Free
  <2> QED
    BY <1>1, <2>3 DEF HostAgrees, journalVars
<1>2. CASE CommitFails \/ ReconcileUnresolved \/ WaitHandsOver
  BY <1>2 DEF CommitFails, ReconcileUnresolved, WaitHandsOver, Release, Free, journalVars
<1>3. ASSUME NEW a \in Actions, NEW w \in Readings, CommitBegin(a, w) \/ ReconcileBegin(a, w)
      PROVE  /\ UNCHANGED <<authorityVars, providerVars, sent, votes, consumed>>
             /\ mu'.at # "dispatch"
  BY <1>3 DEF CommitBegin, ReconcileBegin
<1>4. ASSUME NEW w \in Readings,
             HostRefuses(w) \/ ConsumeAbandoned(w) \/ ReconcileResolves(w)
      PROVE  /\ UNCHANGED <<authorityVars, providerVars, sent, votes, consumed>>
             /\ mu'.at # "dispatch"
  BY <1>4 DEF HostRefuses, ConsumeAbandoned, ReconcileResolves, Release, Free
<1>5. ASSUME NEW w \in Readings, DispatchRefused(w) \/ WaitReturns(w) \/ WaitTimesOut(w)
      PROVE  /\ UNCHANGED <<authorityVars, providerVars, sent, votes, consumed>>
             /\ mu'.at # "dispatch"
  BY <1>5 DEF DispatchRefused, WaitReturns, WaitTimesOut, Release, Free
<1> QED
  BY <1>1, <1>2, <1>3, <1>4, <1>5 DEF CommitNext

LEMMA ThreadFrame ==
  ASSUME ThreadNext
  PROVE  /\ UNCHANGED <<authorityVars, providerVars, sent, votes, consumed>>
         /\ mu' = mu \/ mu' = Free
<1>1. ASSUME NEW a \in Actions,
             \/ Raises(a)
             \/ \E status \in Statuses \union {"nothing"} : AdapterReturns(a, status)
      PROVE  /\ UNCHANGED <<authorityVars, providerVars, sent, votes, consumed>>
             /\ mu' = mu \/ mu' = Free
  BY <1>1, RaisesFrame DEF AdapterReturns, journalVars
<1>2. ASSUME NEW a \in Actions, NEW status \in Statuses, NEW w \in Readings,
             WatcherFinishes(a, status, w)
      PROVE  /\ UNCHANGED <<authorityVars, providerVars, sent, votes, consumed>>
             /\ mu' = mu \/ mu' = Free
  BY <1>2 DEF WatcherFinishes
<1> QED
  BY <1>1, <1>2 DEF ThreadNext

LEMMA ProcessFrame ==
  ASSUME ProcessNext
  PROVE  /\ UNCHANGED <<authorityVars, providerVars, sent, votes, consumed>>
         /\ mu' = mu \/ mu' = Free
<1>1. CASE Crash \/ Close \/ BecomeReady
  BY <1>1 DEF Crash, Close, BecomeReady, ThreadsEnd, journalVars
<1>2. ASSUME NEW w \in Readings, Open(w)
      PROVE  /\ UNCHANGED <<authorityVars, providerVars, sent, votes, consumed>>
             /\ mu' = mu \/ mu' = Free
  BY <1>2 DEF Open, journalVars
<1>3. ASSUME NEW a \in Actions, NEW w \in Readings, Recover(a, w)
      PROVE  /\ UNCHANGED <<authorityVars, providerVars, sent, votes, consumed>>
             /\ mu' = mu \/ mu' = Free
  BY <1>3 DEF Recover, processVars
<1> QED
  BY <1>1, <1>2, <1>3 DEF ProcessNext

\* Every step in one sentence: it consumes, it calls, it is the provider's,
\* or it leaves tombstones, calls and provider alone.
LEMMA Frame ==
  ASSUME Core, [Next]_vars
  PROVE  \/ \E w \in Readings : Consume(w)
         \/ DispatchCall
         \/ ProviderNext
         \/ /\ UNCHANGED <<providerVars, sent, consumed>>
            /\ mu' = mu \/ mu'.at # "dispatch"
<1>1. CASE OperationNext
  BY <1>1, OperationFrame DEF processVars
<1>2. CASE CommitNext
  BY <1>2, CommitFrame
<1>3. CASE ThreadNext
  BY <1>3, ThreadFrame DEF Free
<1>4. CASE ProcessNext
  BY <1>4, ProcessFrame DEF Free
<1>5. CASE UNCHANGED vars
  BY <1>5 DEF vars, journalVars, processVars
<1> QED
  BY <1>1, <1>2, <1>3, <1>4, <1>5 DEF Next

-----------------------------------------------------------------------------
(* The state diagram of a proposal.                                        *)

Withdrawn == {"EXPIRED", "STALE", "CANCELED", "ESCALATED"}

\* The ways the state of a proposal can change in one step.
Moves(b) ==
  \/ state'[b] = state[b]
  \/ (\E w \in Readings : Propose(b, w)) /\ state'[b] \in {"OPEN", "ESCALATED"}
  \/ state[b] \notin ConsumedStates /\ state'[b] \in Withdrawn
  \/ /\ \E k \in Keys, d \in Decisions, w \in Readings : Submit(b, k, d, w)
     /\ state[b] = "OPEN" /\ state'[b] = "READY"
  \/ (\E w \in Readings : Consume(w)) /\ b = mu.act /\ state'[b] = "DISPATCHING"
  \/ state[b] = "DISPATCHING" /\ state'[b] = "UNKNOWN"
  \/ /\ state[b] = "DISPATCHING" /\ outcome[b] \in Statuses
     /\ state'[b] = StateOf[outcome[b]]
  \/ /\ state[b] = "UNKNOWN" /\ ledger[Body[b].op] \in {"succeeded", "failed"}
     /\ state'[b] = StateOf[ledger[Body[b].op]]

\* A step changes the state of one proposal at most.
OneMove ==
  \/ state' = state
  \/ \E a \in Actions : state' = [state EXCEPT ![a] = state'[a]] /\ Moves(a)

\* A change of one proposal's state that the diagram allows.
LEMMA OneMoves ==
  ASSUME Core, NEW a \in Actions, NEW s, state' = [state EXCEPT ![a] = s],
         state'[a] = s => Moves(a)
  PROVE  OneMove
BY Types DEF Core, Streams, OneMove

LEMMA LapseMoves ==
  ASSUME Core, NEW a \in Actions, NEW w \in Readings, Lapse(a, LogicalNow(w)),
         state[a] \notin ConsumedStates
  PROVE  OneMove
<1>1. LogicalNow(w) \in Nat
  BY Types, Clock DEF Core
<1>2. PICK s \in {"EXPIRED", "STALE"} : state' = [state EXCEPT ![a] = s]
  BY <1>1, Types, LapseTypes DEF Core
<1> QED
  BY <1>2, OneMoves DEF Moves, Withdrawn

LEMMA FinishMoves ==
  ASSUME Core, NEW a \in Actions, NEW status \in Statuses, NEW w \in Readings,
         Finish(a, status, LogicalNow(w)), status \in {"unknown", outcome[a]}
  PROVE  OneMove
<1>1. LogicalNow(w) \in Nat
  BY Types, Clock DEF Core
<1>2. \/ state[a] = "DISPATCHING" /\ state' = [state EXCEPT ![a] = StateOf[status]]
      \/ state' = state
  BY <1>1, FinishTypes
<1>3. CASE state' = state
  BY <1>3 DEF OneMove
<1>4. CASE state[a] = "DISPATCHING" /\ state' = [state EXCEPT ![a] = StateOf[status]]
  BY <1>4, Reports, OneMoves DEF Moves
<1> QED
  BY <1>2, <1>3, <1>4

LEMMA OperationMoves ==
  ASSUME Core, OperationNext
  PROVE  OneMove
<1>1. ASSUME NEW c \in Configurations, NEW w \in Readings, Configure(c, w)
      PROVE  OneMove
  BY <1>1 DEF Configure, OneMove
<1>2. ASSUME NEW a \in Actions, NEW w \in Readings, Touch(a, w)
      PROVE  OneMove
  <2>1. CASE Lapses(a, LogicalNow(w))
    BY <1>2, <2>1, LapseMoves, LiveIsInstalled DEF Touch, Lapses
  <2>2. CASE ~Lapses(a, LogicalNow(w))
    BY <1>2, <2>2 DEF Touch, OneMove
  <2> QED
    BY <2>1, <2>2
<1>3. ASSUME NEW a \in Actions, NEW w \in Readings, Propose(a, w)
      PROVE  OneMove
  <2>1. PICK s \in {"OPEN", "ESCALATED"} : state' = [state EXCEPT ![a] = s]
    BY <1>3 DEF Propose, Advance
  <2> QED
    BY <1>3, <2>1, OneMoves DEF Moves
<1>4. ASSUME NEW a \in Actions, NEW w \in Readings, NEW k \in Keys, NEW d \in Decisions,
             Submit(a, k, d, w)
      PROVE  OneMove
  <2>1. state[a] \in Live
    BY <1>4 DEF Submit
  <2>2. \/ state' = [state EXCEPT ![a] = "ESCALATED"]
        \/ state[a] = "OPEN" /\ state' = [state EXCEPT ![a] = "READY"]
        \/ state' = [state EXCEPT ![a] = state[a]]
    BY <1>4 DEF Submit, Advance
  <2>3. CASE state' = [state EXCEPT ![a] = "ESCALATED"]
    BY <2>1, <2>3, LiveIsInstalled, OneMoves DEF Moves, Withdrawn
  <2>4. CASE state[a] = "OPEN" /\ state' = [state EXCEPT ![a] = "READY"]
    BY <1>4, <2>4, OneMoves DEF Moves
  <2>5. CASE state' = [state EXCEPT ![a] = state[a]]
    BY <2>5, OneMoves DEF Moves
  <2> QED
    BY <2>2, <2>3, <2>4, <2>5
<1>5. ASSUME NEW a \in Actions, NEW w \in Readings,
             Cancel(a, w) \/ \E r \in {"manual", "missing_quorum"} : Escalate(a, r, w)
      PROVE  OneMove
  <2>1. PICK s \in {"CANCELED", "ESCALATED"} : state' = [state EXCEPT ![a] = s]
    BY <1>5 DEF Cancel, Escalate, Advance
  <2>2. state[a] \notin ConsumedStates
    BY <1>5, LiveIsInstalled DEF Cancel, Escalate
  <2> QED
    BY <2>1, <2>2, OneMoves DEF Moves, Withdrawn
<1>6. ASSUME NEW a \in Actions, NEW w \in Readings, NEW acked \in BOOLEAN,
             Deliver(a, acked, w)
      PROVE  OneMove
  <2>1. state' = [state EXCEPT ![a] = state[a]]
    BY <1>6 DEF Deliver, Advance
  <2> QED
    BY <2>1, OneMoves DEF Moves
<1> QED
  BY <1>1, <1>2, <1>3, <1>4, <1>5, <1>6 DEF OperationNext

LEMMA CommitMoves ==
  ASSUME Core, CommitNext
  PROVE  OneMove
<1>1. CASE HostAgrees \/ CommitFails \/ DispatchCall \/ WaitHandsOver \/ ReconcileUnresolved
  BY <1>1 DEF HostAgrees, CommitFails, DispatchCall, WaitHandsOver,
              ReconcileUnresolved, journalVars, OneMove
<1>2. ASSUME NEW a \in Actions, NEW w \in Readings, CommitBegin(a, w) \/ ReconcileBegin(a, w)
      PROVE  OneMove
  BY <1>2 DEF CommitBegin, ReconcileBegin, OneMove
<1>3. ASSUME NEW w \in Readings, HostRefuses(w)
      PROVE  OneMove
  <2>1. mu.act \in Actions /\ state[mu.act] \notin ConsumedStates
    BY <1>3, HolderTypes DEF HostRefuses, Core, Holding
  <2>2. state' = [state EXCEPT ![mu.act] = "STALE"]
    BY <1>3 DEF HostRefuses, Advance
  <2> QED
    BY <2>1, <2>2, OneMoves DEF Moves, Withdrawn
<1>4. ASSUME NEW w \in Readings, ConsumeAbandoned(w)
      PROVE  OneMove
  <2>1. mu.act \in Actions
    BY <1>4, HolderTypes DEF ConsumeAbandoned
  <2>2. CASE Lapse(mu.act, LogicalNow(w)) /\ state[mu.act] \in Live
    BY <2>1, <2>2, LapseMoves, LiveIsInstalled
  <2>3. CASE UNCHANGED <<state, log>>
    BY <2>3 DEF OneMove
  <2> QED
    BY <1>4, <2>2, <2>3 DEF ConsumeAbandoned
<1>5. ASSUME NEW w \in Readings, Consume(w)
      PROVE  OneMove
  <2>1. mu.act \in Actions
    BY <1>5, HolderTypes DEF Consume
  <2>2. state' = [state EXCEPT ![mu.act] = "DISPATCHING"]
    BY <1>5 DEF Consume, Advance
  <2> QED
    BY <1>5, <2>1, <2>2, OneMoves DEF Moves
<1>6. ASSUME NEW w \in Readings, DispatchRefused(w) \/ WaitReturns(w) \/ WaitTimesOut(w)
      PROVE  OneMove
  <2>1. mu.act \in Actions
    BY <1>6, HolderTypes DEF DispatchRefused, WaitReturns, WaitTimesOut
  <2>2. PICK a \in Actions : a = mu.act
    BY <2>1
  <2>3. PICK status \in Statuses : /\ Finish(a, status, LogicalNow(w))
                                  /\ status \in {"unknown", outcome[a]}
    BY <1>6, <2>2 DEF DispatchRefused, WaitReturns, WaitTimesOut, TimeoutStatus, Statuses
  <2> QED
    BY <2>3, FinishMoves
<1>7. ASSUME NEW w \in Readings, ReconcileResolves(w)
      PROVE  OneMove
  <2>1. mu.act \in Actions /\ state[mu.act] = "UNKNOWN"
    BY <1>7, HolderTypes DEF ReconcileResolves, Core, Holding
  <2>2. ledger[Body[mu.act].op] \in {"succeeded", "failed"}
    BY <1>7, <2>1, Bodies, Types DEF Core, ReconcileResolves, Lookup, ProviderTypeOK
  <2>3. state' = [state EXCEPT ![mu.act] = StateOf[ledger[Body[mu.act].op]]]
    BY <1>7 DEF ReconcileResolves, Lookup, Advance
  <2> QED
    BY <2>1, <2>2, <2>3, OneMoves DEF Moves
<1> QED
  BY <1>1, <1>2, <1>3, <1>4, <1>5, <1>6, <1>7 DEF CommitNext

\* Every step keeps to the diagram.
LEMMA OneStateMoves ==
  ASSUME Core, [Next]_vars
  PROVE  OneMove
<1>1. ASSUME NEW a \in Actions,
             \/ Raises(a)
             \/ \E status \in Statuses \union {"nothing"} : AdapterReturns(a, status)
      PROVE  OneMove
  BY <1>1, RaisesFrame DEF AdapterReturns, journalVars, OneMove
<1>2. ASSUME NEW a \in Actions, NEW status \in Statuses, NEW w \in Readings,
             WatcherFinishes(a, status, w)
      PROVE  OneMove
  BY <1>2, FinishMoves DEF WatcherFinishes, TimeoutStatus
<1>3. ASSUME NEW a \in Actions, NEW w \in Readings, Recover(a, w)
      PROVE  OneMove
  <2>1. state[a] = "DISPATCHING" /\ state' = [state EXCEPT ![a] = "UNKNOWN"]
    BY <1>3 DEF Recover, Interrupted, Advance
  <2> QED
    BY <2>1, OneMoves DEF Moves
<1>4. CASE Crash \/ Close \/ BecomeReady \/ \E w \in Readings : Open(w)
  BY <1>4 DEF Crash, Close, ThreadsEnd, BecomeReady, Open, journalVars, OneMove
<1>5. CASE ProviderNext
  BY <1>5 DEF ProviderNext, ProviderExecutes, ProviderDrops, journalVars, OneMove
<1>6. CASE UNCHANGED vars
  BY <1>6 DEF vars, journalVars, OneMove
<1> QED
  BY <1>1, <1>2, <1>3, <1>4, <1>5, <1>6, OperationMoves, CommitMoves
     DEF Next, ThreadNext, ProcessNext

LEMMA StateMoves ==
  ASSUME Core, [Next]_vars
  PROVE  \A b \in Actions : Moves(b)
<1>1. CASE state' = state
  BY <1>1 DEF Moves
<1>2. ASSUME NEW a \in Actions, state' = [state EXCEPT ![a] = state'[a]], Moves(a)
      PROVE  \A b \in Actions : Moves(b)
  BY <1>2, Types DEF Core, Streams, Moves
<1> QED
  BY <1>1, <1>2, OneStateMoves DEF OneMove

-----------------------------------------------------------------------------
(* Dispatch rows and adapter threads.                                      *)

\* A report ends the dispatch it is about.
LEMMA FinishEnds ==
  ASSUME Core, NEW a \in Actions, NEW status \in Statuses, NEW w \in Readings,
         Finish(a, status, LogicalNow(w))
  PROVE  state'[a] # "DISPATCHING"
<1>1. LogicalNow(w) \in Nat
  BY Types, Clock DEF Core
<1>2. \/ state[a] = "DISPATCHING" /\ state' = [state EXCEPT ![a] = StateOf[status]]
      \/ state[a] # "DISPATCHING" /\ state' = state
  BY <1>1, FinishTypes
<1> QED
  BY <1>2, Reports, Types DEF Core, Streams, Settled

\* Only Consume sets a deadline; reports and recovery keep it, and a row
\* changes only when its dispatch ends.
LEMMA RowsKept ==
  ASSUME Core, [Next]_vars
  PROVE  \/ \E w \in Readings : Consume(w)
         \/ \A o \in Ops : dispatches[o] # None =>
              /\ dispatches'[o].notAfter = dispatches[o].notAfter
              /\ dispatches'[o] = dispatches[o] \/ state'[consumed[o]] # "DISPATCHING"
<1> DEFINE Kept ==
      \A o \in Ops : dispatches[o] # None =>
        /\ dispatches'[o].notAfter = dispatches[o].notAfter
        /\ dispatches'[o] = dispatches[o] \/ state'[consumed[o]] # "DISPATCHING"
<1>1. ASSUME NEW a \in Actions, NEW status \in Statuses, NEW w \in Readings,
             Finish(a, status, LogicalNow(w))
      PROVE  Kept
  <2>1. LogicalNow(w) \in Nat
    BY Types, Clock DEF Core
  <2>2. \A o \in Ops : dispatches[o] # None =>
          dispatches'[o].notAfter = dispatches[o].notAfter
    BY <1>1, <2>1, FinishTypes
  <2>3. CASE state[a] # "DISPATCHING"
    BY <1>1, <2>3 DEF Finish
  <2>4. CASE state[a] = "DISPATCHING"
    <3>1. dispatches' = [dispatches EXCEPT ![Body[a].op].result = status]
      BY <1>1, <2>4 DEF Finish
    <3>2. consumed[Body[a].op] = a
      BY <2>4 DEF Core, Tombstones, ConsumedStates
    <3>3. state'[a] # "DISPATCHING"
      BY <1>1, FinishEnds
    <3>4. \A o \in Ops : o # Body[a].op => dispatches'[o] = dispatches[o]
      BY <3>1, Types DEF Core, Rows
    <3> QED
      BY <2>2, <3>2, <3>3, <3>4
  <2> QED
    BY <2>3, <2>4
<1>2. ASSUME UNCHANGED dispatches
      PROVE  Kept
  BY <1>2
<1>3. CASE OperationNext
  BY <1>2, <1>3, OperationFrame
<1>4. ASSUME NEW w \in Readings, DispatchRefused(w) \/ WaitReturns(w) \/ WaitTimesOut(w)
      PROVE  Kept
  <2>1. PICK a \in Actions : a = mu.act
    BY <1>4, HolderTypes DEF DispatchRefused, WaitReturns, WaitTimesOut
  <2>2. PICK status \in Statuses : Finish(a, status, LogicalNow(w))
    BY <1>4, <2>1 DEF DispatchRefused, WaitReturns, WaitTimesOut, TimeoutStatus, Statuses
  <2> QED
    BY <1>1, <2>2
<1>5. CASE HostAgrees \/ CommitFails \/ DispatchCall \/ WaitHandsOver \/ ReconcileUnresolved
  BY <1>5 DEF HostAgrees, CommitFails, DispatchCall, WaitHandsOver,
              ReconcileUnresolved, journalVars
<1>6. ASSUME NEW w \in Readings,
             \/ HostRefuses(w) \/ ConsumeAbandoned(w) \/ ReconcileResolves(w)
             \/ \E a \in Actions : CommitBegin(a, w) \/ ReconcileBegin(a, w)
      PROVE  Kept
  BY <1>6 DEF HostRefuses, ConsumeAbandoned, ReconcileResolves, CommitBegin, ReconcileBegin
<1>7. ASSUME NEW a \in Actions, NEW status \in Statuses, NEW w \in Readings,
             WatcherFinishes(a, status, w)
      PROVE  Kept
  BY <1>1, <1>7 DEF WatcherFinishes
<1>8. ASSUME NEW a \in Actions,
             \/ Raises(a)
             \/ \E status \in Statuses \union {"nothing"} : AdapterReturns(a, status)
      PROVE  Kept
  BY <1>8, RaisesFrame DEF AdapterReturns, journalVars
<1>9. ASSUME NEW a \in Actions, NEW w \in Readings, Recover(a, w)
      PROVE  Kept
  <2> DEFINE p == Body[a].op
  <2>1. state[a] = "DISPATCHING" /\ p \in Ops
    BY <1>9, Bodies DEF Recover, Interrupted
  <2>2. dispatches[p] \in [notAfter : Instants, result : Results]
    BY <2>1, Bodies, Types DEF Core, Tombstones, ConsumedStates, Rows
  <2>3. dispatches' = [dispatches EXCEPT ![p].result = "unknown"]
    BY <1>9 DEF Recover
  <2>4. dispatches' = [dispatches EXCEPT ![p] =
                         [notAfter |-> dispatches[p].notAfter, result |-> "unknown"]]
    <3>1. [dispatches[p] EXCEPT !.result = "unknown"]
             = [notAfter |-> dispatches[p].notAfter, result |-> "unknown"]
      BY <2>2
    <3> QED
      BY <2>3, <3>1
  <2>5. \A o \in Ops : o # p => dispatches'[o] = dispatches[o]
    BY <2>3, Types DEF Core, Rows
  <2>6. dispatches'[p].notAfter = dispatches[p].notAfter
    BY <2>1, <2>4, Types DEF Core, Rows
  <2>7. state'[a] # "DISPATCHING" /\ consumed[p] = a
    BY <1>9, Types DEF Recover, Interrupted, Advance, Core, Streams
  <2> QED
    BY <2>5, <2>6, <2>7
<1>10. CASE Crash \/ Close \/ BecomeReady \/ \E w \in Readings : Open(w)
  BY <1>10 DEF Crash, Close, ThreadsEnd, BecomeReady, Open, journalVars
<1>11. CASE ProviderNext
  BY <1>11 DEF ProviderNext, ProviderExecutes, ProviderDrops, journalVars
<1>12. CASE UNCHANGED vars
  BY <1>12 DEF vars, journalVars
<1> QED
  BY <1>3, <1>4, <1>5, <1>6, <1>7, <1>8, <1>9, <1>10, <1>11, <1>12
     DEF Next, CommitNext, ThreadNext, ProcessNext

\* The ways the outcome of an adapter thread can change in one step.
OutcomeMoves(b) ==
  \/ outcome'[b] = outcome[b]
  \/ outcome'[b] = "idle" /\ (Reporter(b) \/ phase' = "down")
  \/ DispatchCall /\ b = mu.act /\ outcome'[b] = "running"
  \/ outcome[b] = "running" /\ outcome'[b] = "unknown"
  \/ outcome[b] = "running" /\ outcome'[b] = "nothing"
  \/ outcome'[b] \in Lost /\ Reporter(b)
  \/ outcome[b] = "running" /\ outcome'[b] = ledger[Body[b].op]

LEMMA OneOutcomeMoves ==
  ASSUME Core, NEW a \in Actions, NEW s, outcome' = [outcome EXCEPT ![a] = s],
         outcome'[a] = s => OutcomeMoves(a)
  PROVE  \A b \in Actions : OutcomeMoves(b)
BY Types DEF Core, Process, OutcomeMoves

LEMMA ThreadsMove ==
  ASSUME Core, [Next]_vars
  PROVE  \A b \in Actions : OutcomeMoves(b)
<1> DEFINE Move == \A b \in Actions : OutcomeMoves(b)
<1>1. ASSUME UNCHANGED outcome
      PROVE  Move
  BY <1>1 DEF OutcomeMoves
<1>2. CASE OperationNext
  BY <1>1, <1>2, OperationFrame DEF processVars
<1>3. CASE HostAgrees \/ CommitFails \/ WaitHandsOver \/ ReconcileUnresolved
  BY <1>1, <1>3 DEF HostAgrees, CommitFails, WaitHandsOver, ReconcileUnresolved
<1>4. ASSUME NEW w \in Readings,
             \/ HostRefuses(w) \/ ConsumeAbandoned(w) \/ Consume(w) \/ DispatchRefused(w)
             \/ ReconcileResolves(w)
             \/ \E a \in Actions : CommitBegin(a, w) \/ ReconcileBegin(a, w)
      PROVE  Move
  BY <1>1, <1>4 DEF HostRefuses, ConsumeAbandoned, Consume, DispatchRefused,
                    ReconcileResolves, CommitBegin, ReconcileBegin
<1>5. ASSUME NEW w \in Readings, WaitReturns(w) \/ WaitTimesOut(w)
      PROVE  Move
  <2>1. mu.act \in Actions /\ outcome' = [outcome EXCEPT ![mu.act] = "idle"]
    BY <1>5, HolderTypes DEF WaitReturns, WaitTimesOut
  <2>2. Reporter(mu.act)
    BY <1>5 DEF WaitReturns, WaitTimesOut, At, Reporter
  <2> QED
    BY <2>1, <2>2, OneOutcomeMoves DEF OutcomeMoves
<1>6. CASE DispatchCall
  <2>1. mu.act \in Actions /\ outcome' = [outcome EXCEPT ![mu.act] = "running"]
    BY <1>6, HolderTypes DEF DispatchCall
  <2> QED
    BY <1>6, <2>1, OneOutcomeMoves DEF OutcomeMoves
<1>7. ASSUME NEW a \in Actions, NEW status \in Statuses \union {"nothing"},
             AdapterReturns(a, status)
      PROVE  Move
  BY <1>7, OneOutcomeMoves DEF AdapterReturns, Lookup, OutcomeMoves
<1>8. ASSUME NEW a \in Actions,
             \E status \in Statuses, w \in Readings : WatcherFinishes(a, status, w)
      PROVE  Move
  <2>1. outcome' = [outcome EXCEPT ![a] = "idle"] /\ Reporter(a)
    BY <1>8 DEF WatcherFinishes, Reporter
  <2> QED
    BY <2>1, OneOutcomeMoves DEF OutcomeMoves
<1>14. ASSUME NEW a \in Actions, Raises(a)
       PROVE  Move
  <2>1. PICK how \in Lost : outcome' = [outcome EXCEPT ![a] = how]
    BY <1>14, RaisesFrame
  <2>2. Reporter(a)
    BY <1>14, RaisesFrame DEF Reporter
  <2> QED
    BY <2>1, <2>2, OneOutcomeMoves DEF OutcomeMoves
<1>9. CASE Crash \/ Close
  BY <1>9 DEF Crash, Close, ThreadsEnd, OutcomeMoves
<1>10. CASE BecomeReady \/ \E w \in Readings : Open(w)
  BY <1>1, <1>10 DEF BecomeReady, Open
<1>11. ASSUME NEW a \in Actions, NEW w \in Readings, Recover(a, w)
       PROVE  Move
  BY <1>1, <1>11 DEF Recover, processVars
<1>12. CASE ProviderNext
  BY <1>1, <1>12 DEF ProviderNext, ProviderExecutes, ProviderDrops, processVars
<1>13. CASE UNCHANGED vars
  BY <1>1, <1>13 DEF vars, processVars
<1> QED
  BY <1>2, <1>3, <1>4, <1>5, <1>6, <1>7, <1>8, <1>9, <1>10, <1>11, <1>12, <1>13,
     <1>14 DEF Next, CommitNext, ThreadNext, ProcessNext

\* Only a stop and a start change the phase and the clean-shutdown flag.
LEMMA PhaseMoves ==
  ASSUME [Next]_vars
  PROVE  \/ UNCHANGED <<clean, phase>>
         \/ phase' = "down"
         \/ (\E w \in Readings : Open(w)) /\ ~clean'
         \/ BecomeReady
<1>1. CASE OperationNext
  BY <1>1, OperationFrame DEF processVars
<1>2. CASE HostAgrees \/ CommitFails \/ DispatchCall \/ WaitHandsOver \/ ReconcileUnresolved
  BY <1>2 DEF HostAgrees, CommitFails, DispatchCall, WaitHandsOver, ReconcileUnresolved
<1>3. ASSUME NEW w \in Readings,
             \/ HostRefuses(w) \/ ConsumeAbandoned(w) \/ Consume(w) \/ DispatchRefused(w)
             \/ WaitReturns(w) \/ WaitTimesOut(w) \/ ReconcileResolves(w)
             \/ \E a \in Actions : CommitBegin(a, w) \/ ReconcileBegin(a, w)
      PROVE  UNCHANGED <<clean, phase>>
  BY <1>3 DEF HostRefuses, ConsumeAbandoned, Consume, DispatchRefused, WaitReturns,
              WaitTimesOut, ReconcileResolves, CommitBegin, ReconcileBegin
<1>4. ASSUME NEW a \in Actions,
             \/ Raises(a)
             \/ \E status \in Statuses \union {"nothing"} : AdapterReturns(a, status)
             \/ \E status \in Statuses, w \in Readings : WatcherFinishes(a, status, w)
      PROVE  UNCHANGED <<clean, phase>>
  BY <1>4, RaisesFrame DEF AdapterReturns, WatcherFinishes
<1>5. CASE ProcessNext
  BY <1>5 DEF ProcessNext, Crash, Close, ThreadsEnd, Open, FlagOnOpen, Recover, processVars
<1>6. CASE ProviderNext
  BY <1>6 DEF ProviderNext, ProviderExecutes, ProviderDrops, processVars
<1>7. CASE UNCHANGED vars
  BY <1>7 DEF vars, processVars
<1> QED
  BY <1>1, <1>2, <1>3, <1>4, <1>5, <1>6, <1>7 DEF Next, CommitNext, ThreadNext

=============================================================================
