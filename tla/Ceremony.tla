------------------------------ MODULE Ceremony ------------------------------
(***************************************************************************)
(* The correctness properties of the coordinator, with the verifier and    *)
(* the provider it works with.                                             *)
(***************************************************************************)
EXTENDS Coordinator

V == INSTANCE Verifier

Results == Statuses \union {None}

CoordinatorTypeOK ==
  /\ AuthorityTypeOK /\ ProviderTypeOK
  /\ last \in Instants
  /\ state \in [Actions -> States]
  /\ log \in [Actions -> Seq(Event)]
  /\ votes \in [Actions -> [Keys -> Decisions \union {None}]]
  /\ result \in [Actions -> Results]
  /\ delivery \in [Actions -> [state : {"NONE", "PENDING", "ACKED"},
                               attempts : 0 .. MaxAttempts]]
  /\ consumed \in [Ops -> Actions \union {None}]
  /\ dispatches \in [Ops -> [notAfter : Instants, result : Results] \union {None}]
  /\ clean \in BOOLEAN
  /\ phase \in {"down", "recovering", "ready"}
  /\ \/ mu = Free
     \/ /\ mu \in [at : {"gate", "inspect", "consume", "dispatch", "wait", "lookup"},
                   act : Actions]
        /\ phase = "ready"
  /\ outcome \in [Actions -> Outcomes]
  /\ watch \subseteq Actions
  /\ crashes \in 0 .. MaxCrashes
  /\ sent \in [Ops -> Nat]

-----------------------------------------------------------------------------
\* README: "a single compare-and-consume tombstone guarantees each operation
\* dispatches at most once".  At most one adapter call is made for an
\* operation over all its proposals, restarts and late answers, only for the
\* action that holds the tombstone, and so is at most one effect.
AtMostOneDispatch ==
  \A o \in Ops :
    /\ sent[o] <= 1
    /\ sent[o] = 1 => consumed[o] # None
    /\ Len(effects[o]) <= sent[o]
    /\ \A i \in 1 .. Len(effects[o]) : effects[o][i].act = consumed[o]

\* One proposal at a time competes for an operation, and none once it is
\* consumed (the live_operation index, propose and the consuming commit).
OperationExclusive ==
  \A a \in LiveActions :
    /\ consumed[Body[a].op] = None
    /\ \A b \in LiveActions : Body[b].op = Body[a].op => b = a

\* Whoever consumed an operation was approved by enough distinct principals
\* of the policy it was bound to, and nobody on the roster had refused it.
AuthorizedCommit ==
  \A o \in Ops : consumed[o] # None =>
    LET a == consumed[o] IN
    /\ Body[a].op = o
    /\ \E signers \in SUBSET Body[a].policy.roster :
         /\ \A m \in signers : votes[a][m.key] = "approve"
         /\ Cardinality(signers) >= Body[a].policy.threshold
         /\ Body[a].policy.human => \E m \in signers : m.human
    /\ \A m \in Body[a].policy.roster : votes[a][m.key] # "reject"

\* README: "The exported proof verifies offline".  Whatever the ceremony went
\* through, the verifier accepts its stream, replays it to the journal's own
\* state, and finds it authorized exactly when it was ready or consumed.
ExportVerifies ==
  \A a \in Actions : state[a] # "ABSENT" =>
    /\ V!Valid(Body[a], votes[a], log[a])
    /\ V!AttestedState(Body[a], votes[a], log[a]) = state[a]
    /\ V!Satisfied(Body[a], votes[a], log[a])
         <=> state[a] \in {"READY"} \union ConsumedStates

\* Who will report the dispatch of a: the commit that made it, or its watcher.
Reporter(a) == a \in watch \/ (mu.act = a /\ mu.at \in {"dispatch", "wait"})

\* In a ready process a dispatch without an outcome has someone who will
\* record one, unless in this life of the process an exception took its commit
\* or its watcher.  A process that has just become ready has left none behind,
\* whatever ended the one before it (_recover_interrupted).
NoStrandedDispatch ==
  phase = "ready" =>
    \A a \in Actions : state[a] = "DISPATCHING" =>
      Reporter(a) \/ outcome[a] \in Lost

\* A definite outcome is the truth: SUCCEEDED after an effect of this very
\* action, FAILED only if no effect has happened or ever will.
OutcomeHonest ==
  \A a \in Actions :
    /\ state[a] = "SUCCEEDED" => \E i \in 1 .. Len(effects[Body[a].op]) :
                                   effects[Body[a].op][i].act = a
    /\ state[a] = "FAILED" =>
         effects[Body[a].op] = <<>> /\ ledger[Body[a].op] = "failed"

\* No effect at or after the approved expiry, by the provider's own clock,
\* however late the commit, the dispatch or the delivery of the request.
EffectInTime ==
  \A o \in Ops : \A i \in 1 .. Len(effects[o]) :
    effects[o][i].at < Body[effects[o][i].act].expires

\* A proposal whose policy demands a stop card reaches its quorum only if a
\* known card was observed shortly before it was proposed, and not after.
EnrichmentBeforeQuorum ==
  \A a \in Actions : Body[a].policy.enrich =>
    \A i \in 1 .. Len(log[a]) : log[a][i].type = "QuorumReached" =>
      /\ Body[a].card # None
      /\ log[a][1].at - Body[a].card \in 0 .. EnrichmentWindow

\* No operation is consumed under an authority other than the approved one,
\* even if the authority changes while the gate or the executor is asked.
ConsumedUnderCurrentAuthority ==
  [][\A o \in Ops : consumed'[o] # consumed[o] =>
       /\ authority.epoch = Body[consumed'[o]].epoch
       /\ authority.policy = Body[consumed'[o]].policy
       /\ Body[consumed'[o]].tool \notin authority.denied
       /\ RosterKeys(Body[consumed'[o]].policy) \intersect authority.revoked = {}]_vars

-----------------------------------------------------------------------------
\* The coordinator and its provider implement ConsumeOnce: the tombstones are
\* the holders and the state of the holder is the report.
ReportOf ==
  [o \in Ops |->
     IF consumed[o] = None THEN "none"
     ELSE LET s == state[consumed[o]] IN
          CASE s = "DISPATCHING" -> "pending"
            [] s = "UNKNOWN"     -> "unknown"
            [] s = "SUCCEEDED"   -> "succeeded"
            [] s = "FAILED"      -> "failed"
            [] OTHER             -> "lost"]

Operation(a) == Body[a].op

Once == INSTANCE ConsumeOnce WITH
          OpOf <- Operation,
          holder <- consumed,
          report <- ReportOf,
          effectCount <- [o \in Ops |-> Len(effects[o])]

\* Every step of the coordinator is a step of ConsumeOnce or none at all.
ImplementsConsumeOnce == Once!Spec

-----------------------------------------------------------------------------
\* The view of an UNKNOWN proposal carries the unknown result, as the fixture
\* of a proposal in that state does (tests/conformance/harness.py).
UnknownIsShown ==
  \A a \in Actions : state[a] = "UNKNOWN" => result[a] = "unknown"

\* "adapter faults are UNKNOWN, not failure" (_dispatch): whatever an adapter
\* does, its dispatch has a reporter as long as threads start and reports are
\* stored.
AdapterFaultsAreUnknown ==
  phase = "ready" =>
    \A a \in Actions : state[a] = "DISPATCHING" =>
      Reporter(a) \/ outcome[a] \in {"unstarted", "unreported"}

\* configure refuses a policy without a human for a tool the deployment
\* manifest marks irreversible: such a tool is never dispatched without one.
IrreversibleNeedsHuman ==
  \A o \in Ops : consumed[o] # None =>
    LET a == consumed[o] IN
    Body[a].tool \in Irreversible =>
      \E m \in Body[a].policy.roster : m.human /\ votes[a][m.key] = "approve"

-----------------------------------------------------------------------------
\* The wait of commit ends, one way or another.
WaitEnds ==
  \/ WaitHandsOver
  \/ \E w \in Readings : WaitReturns(w) \/ WaitTimesOut(w)
  \/ (At("wait") /\ AdapterFaultEscapes(mu.act))

\* The committing thread makes its call and waits a bounded time, a watcher
\* gives up after its own, and a stopped process is started again under a
\* clock it accepts.  Nothing is assumed of adapter, transport or provider,
\* and any thread start and any report may raise.  With a single action, the
\* instance of this property, a watcher never waits for the mutex behind a
\* host call of another commit, which has no time limit.
Fairness ==
  /\ WF_vars(DispatchCall)
  /\ WF_vars(WaitEnds)
  /\ \A a \in Actions :
       WF_vars(\E status \in Statuses, w \in Readings : WatcherFinishes(a, status, w))
  /\ WF_vars(\E w \in Readings : w + SkewLimit >= last /\ Open(w))
  /\ WF_vars(\E a \in Actions, w \in Readings : Recover(a, w))
  /\ WF_vars(BecomeReady)

FairSpec == Spec /\ Fairness

\* Whatever the adapter does and wherever the process stops, a dispatch ends
\* in a recorded outcome unless an exception takes its reporter first; and the
\* one a stopped process leaves always ends in one, that exception or not.
DispatchResolves ==
  \A a \in Actions :
    /\ state[a] = "DISPATCHING" ~> state[a] \in Settled \/ outcome[a] \in Lost
    /\ (state[a] = "DISPATCHING" /\ phase # "ready") ~> state[a] \in Settled

=============================================================================
