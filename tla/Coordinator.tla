---------------------------- MODULE Coordinator ----------------------------
(***************************************************************************)
(* The vq/1 coordinator (python/vekquorum/coordinator.py) over its SQLite  *)
(* journal (store.py), one host process, its adapter and watcher threads   *)
(* and the provider.                                                       *)
(*                                                                         *)
(* The executor mutex _mu is held by every operation from its first read   *)
(* to its return, so an operation that is one transaction is one action.   *)
(* commit and reconcile hold it across host and provider calls: mu says at *)
(* which of those calls the holder is.  A failed operation rolls its       *)
(* transaction back and is not an action, unless it leaves a commit or a   *)
(* watcher behind.  Every transaction reads the wall clock, which may show *)
(* any of Readings, steps back included.                                   *)
(*                                                                         *)
(* Left out: the requests table (a replay only repeats a view), the rate   *)
(* buckets, and evidence, checkpoints and hashes, which are functions of   *)
(* what is kept.  Equality of actions stands for equality of their hashes; *)
(* Body[a] is [id, op, nonce, policy, epoch, tool, created, expires, card] *)
(* with card the observed_ms of a known stop card bound to it, or None.    *)
(***************************************************************************)
EXTENDS Authority, Provider

CONSTANTS MaxActive,         \* MAX_ACTIVE_PROPOSALS
          MaxAttempts,       \* MAX_DELIVERY_ATTEMPTS
          CreatedWindow,     \* CREATED_WINDOW_MS
          DispatchBudget,    \* DISPATCH_DEADLINE_BUDGET_MS
          SkewLimit,         \* CLOCK_SKEW_FAIL_MS
          EnrichmentWindow,  \* the 5000 ms a known stop card stays fresh
          MinTtl,            \* the 1000 ms an action must live at least
          Reentrant,         \* TRUE: a gate or inspect call may call back
          MaxCrashes         \* bound on the number of stops of the process

VARIABLES
  last,        \* meta.last_logical_ms
  state,       \* proposals.state, ABSENT without a row
  log,         \* events of the proposal's stream; its length is the revision
  votes,       \* votes by proposal and key
  result,      \* the result shown in the proposal's view
  delivery,    \* deliveries row of the proposal's escalation
  consumed,    \* tombstones: operation |-> action
  dispatches,  \* dispatch intent of each operation: [notAfter, result]
  clean,       \* meta.last_clean_shutdown
  phase,       \* down, recovering (inside __init__) or ready
  mu,          \* [at, act]: where the holder of _mu is
  outcome,     \* the outcome dict of each action's adapter thread; once it is
               \* out of everybody's reach, how that came about (Lost)
  watch,       \* actions with a running watcher thread
  crashes,     \* stops so far
  sent         \* adapter calls made for each operation

journalVars == <<last, state, log, votes, result, delivery, consumed, dispatches>>
processVars == <<clean, phase, mu, outcome, watch, crashes>>
vars == <<authorityVars, providerVars, journalVars, processVars, sent>>

Live == {"OPEN", "READY"}
Settled == {"SUCCEEDED", "FAILED", "UNKNOWN"}
ConsumedStates == {"DISPATCHING"} \union Settled
States == {"ABSENT", "EXPIRED", "STALE", "CANCELED", "ESCALATED"}
            \union Live \union ConsumedStates

Statuses == {"succeeded", "failed", "unknown"}
StateOf == [s \in Statuses |->
              CASE s = "succeeded" -> "SUCCEEDED"
                [] s = "failed"    -> "FAILED"
                [] s = "unknown"   -> "UNKNOWN"]
Decisions == {"approve", "reject"}
Instants == Nat

Free == [at |-> "free", act |-> None]

\* No outcome will be reported: the thread that was to do it did not start, its
\* report was rolled back, or what the adapter left cannot be classified.
Lost == {"unstarted", "unreported", "unclassified"}
Outcomes == Statuses \union {"idle", "running", "nothing"} \union Lost

Event ==
       [type : {"Proposed"}, at : Instants, epoch : Nat]
  \union [type : {"VoteRecorded"}, at : Instants, key : Keys, decision : Decisions]
  \union [type : {"QuorumReached"}, at : Instants, keys : SUBSET Keys]
  \union [type : {"CommitStarted"}, at : Instants, epoch : Nat, deadline : Instants]
  \union [type : {"ExecutionReported", "ExecutionReconciled"}, at : Instants,
          status : Statuses]
  \union [type : {"Escalated"}, at : Instants,
          reason : {"manual", "missing_quorum", "reject_vote",
                    "enrichment_unavailable"}]
  \union [type : {"EscalationDelivered"}, at : Instants]
  \union [type : {"EscalationDeferred"}, at : Instants, attempt : Nat]
  \union [type : {"Expired"}, at : Instants, expires : Instants]
  \union [type : {"Invalidated"}, at : Instants,
          reason : {"scope_denied", "key_revoked", "policy_changed", "state_drift"}]
  \union [type : {"Canceled"}, at : Instants]

ASSUME CoordinatorAssumption ==
  /\ Readings \subseteq Nat
  /\ \A a \in Actions :
       /\ Body[a].policy \in Policies /\ Body[a].epoch \in Nat
       /\ Body[a].created \in Nat /\ Body[a].expires \in Nat
       /\ Body[a].card \in Nat \union {None}
  /\ None \notin Actions /\ None \notin Nat /\ None \notin Decisions \union Statuses
  /\ None \notin [notAfter : Instants, result : Statuses \union {None}]
  /\ {MaxActive, MaxAttempts, CreatedWindow, DispatchBudget, SkewLimit,
      EnrichmentWindow, MinTtl, MaxCrashes} \subseteq Nat
  /\ Reentrant \in BOOLEAN

-----------------------------------------------------------------------------
(* The logical clock and the records of one proposal.                      *)

\* Fault: the wall clock as it is.
WallClock(w) == w

\* Store.logical_now: time never runs backwards in the journal.
LogicalNow(w) == IF w > last THEN w ELSE last
Tick(w) == last' = LogicalNow(w)

\* _append_event, _set_state and _flush: events at the end of the stream.
Advance(a, s, events) ==
  /\ log' = [log EXCEPT ![a] = @ \o events]
  /\ state' = [state EXCEPT ![a] = s]

\* The operation holds the mutex alone, or is called back by the host call
\* the holder is in: _mu is re-entrant.
MayRun ==
  /\ phase = "ready"
  /\ \/ mu = Free
     \/ Reentrant /\ mu.at \in {"gate", "inspect"}

ApprovingMembers(ballots, p) == {m \in p.roster : ballots[m.key] = "approve"}

\* Fault: the approval of a human is as good as the threshold.
HumanSuffices(ballots, p) ==
  LET approving == ApprovingMembers(ballots, p) IN
  \/ Cardinality({m.principal : m \in approving}) >= p.threshold
  \/ p.human /\ \E m \in approving : m.human

\* _quorum_satisfied: distinct principals, and a human if the policy asks.
QuorumSatisfied(ballots, p) ==
  LET approving == ApprovingMembers(ballots, p) IN
  /\ Cardinality({m.principal : m \in approving}) >= p.threshold
  /\ p.human => \E m \in approving : m.human

-----------------------------------------------------------------------------
(* Lazy expiry and invalidation (_materialize, _drifted).                  *)

\* The roster of a policy row REPLACE has deleted is read as empty.
StoredRoster(p) == IF p \in policies THEN RosterKeys(p) ELSE {}

ScopeDenied(a) == Body[a].tool \in authority.denied
KeyRevoked(a) == StoredRoster(Body[a].policy) \intersect authority.revoked # {}
PolicyChanged(a) ==
  authority.epoch # Body[a].epoch \/ authority.policy # Body[a].policy

Drifted(a) ==
  /\ authority # None
  /\ ScopeDenied(a) \/ KeyRevoked(a) \/ PolicyChanged(a)

DriftReason(a) ==
  CASE ScopeDenied(a) -> "scope_denied"
    [] ~ScopeDenied(a) /\ KeyRevoked(a) -> "key_revoked"
    [] OTHER -> "policy_changed"

HasExpired(a, now) == now >= Body[a].expires
Lapses(a, now) == state[a] \in Live /\ (HasExpired(a, now) \/ Drifted(a))

\* Expiry wins over invalidation.
Lapse(a, now) ==
  IF HasExpired(a, now)
    THEN Advance(a, "EXPIRED", <<[type |-> "Expired", at |-> now,
                                  expires |-> Body[a].expires]>>)
    ELSE Advance(a, "STALE", <<[type |-> "Invalidated", at |-> now,
                                reason |-> DriftReason(a)]>>)

\* The operation finds a lapsed proposal and returns its new view; also get,
\* export_proof and every replay, which only look.
Touch(a, w) ==
  /\ MayRun
  /\ state[a] # "ABSENT"
  /\ Tick(w)
  /\ IF Lapses(a, LogicalNow(w)) THEN Lapse(a, LogicalNow(w))
                                 ELSE UNCHANGED <<state, log>>
  /\ UNCHANGED <<authorityVars, providerVars, processVars, sent, votes, result,
                 delivery, consumed, dispatches>>

-----------------------------------------------------------------------------
(* configure, propose, submit, cancel, escalate, deliver.                  *)

Configure(c, w) ==
  /\ MayRun
  /\ InstallAuthority(c)
  /\ Tick(w)
  /\ UNCHANGED <<providerVars, processVars, sent, state, log, votes, result,
                 delivery, consumed, dispatches>>

LiveActions == {a \in Actions : state[a] \in Live}

\* Fault: propose does not look for a tombstone.
NoTombstoneCheck(o) == TRUE
OperationUnconsumed(o) == consumed[o] = None

NoLiveRival(o) == \A b \in LiveActions : Body[b].op # o

\* The order of the refusals in the code only decides which error is raised.
Admissible(a, now) ==
  /\ Body[a].tool \in Tools
  /\ OperationUnconsumed(Body[a].op)
  /\ NoLiveRival(Body[a].op)
  /\ \A b \in Actions : Body[b].id = Body[a].id \/ Body[b].nonce = Body[a].nonce
                       => state[b] = "ABSENT"
  /\ authority # None /\ ~PolicyChanged(a)
  /\ Body[a].created <= now /\ now <= Body[a].created + CreatedWindow
  /\ Body[a].expires >= Body[a].created + MinTtl
  /\ Body[a].expires <= Body[a].created + Body[a].policy.maxTtl
  /\ ~HasExpired(a, now)
  /\ Cardinality(LiveActions) < MaxActive

\* Fault: any known card will do, however old.
KnownCard(a, now) == Body[a].card # None
FreshCard(a, now) ==
  /\ Body[a].card # None
  /\ Body[a].card <= now /\ now <= Body[a].card + EnrichmentWindow

\* _make_escalation: the event, the PENDING delivery row and the state.
EscalatedEvent(reason, now) == [type |-> "Escalated", at |-> now, reason |-> reason]
OpenDelivery(a) ==
  delivery' = [delivery EXCEPT ![a] = [state |-> "PENDING", attempts |-> 0]]

Propose(a, w) ==
  LET now == LogicalNow(w)
      proposed == [type |-> "Proposed", at |-> now, epoch |-> Body[a].epoch]
      unenriched == Body[a].policy.enrich /\ ~FreshCard(a, now)
  IN
  /\ MayRun
  /\ Tick(w)
  /\ Admissible(a, now)
  /\ IF unenriched
       THEN /\ Advance(a, "ESCALATED",
                       <<proposed, EscalatedEvent("enrichment_unavailable", now)>>)
            /\ OpenDelivery(a)
       ELSE /\ Advance(a, "OPEN", <<proposed>>)
            /\ UNCHANGED delivery
  /\ UNCHANGED <<authorityVars, providerVars, processVars, sent, votes, result,
                 consumed, dispatches>>

\* Fault: a rejection that arrives after the quorum is only recorded.
RejectsOnlyOpen(a, d) == d = "reject" /\ state[a] = "OPEN"
Rejects(a, d) == d = "reject"

Submit(a, k, d, w) ==
  LET now == LogicalNow(w)
      ballots == [votes[a] EXCEPT ![k] = d]
      voted == [type |-> "VoteRecorded", at |-> now, key |-> k, decision |-> d]
      quorum == [type |-> "QuorumReached", at |-> now,
                 keys |-> {m.key : m \in ApprovingMembers(ballots, Body[a].policy)}]
  IN
  /\ MayRun
  /\ Tick(w)
  /\ state[a] \in Live /\ ~Lapses(a, now)
  /\ Body[a].policy \in policies
  /\ k \in RosterKeys(Body[a].policy)
  /\ votes[a][k] = None
  /\ votes' = [votes EXCEPT ![a] = ballots]
  /\ \/ /\ Rejects(a, d)
        /\ Advance(a, "ESCALATED", <<voted, EscalatedEvent("reject_vote", now)>>)
        /\ OpenDelivery(a)
     \/ /\ ~Rejects(a, d)
        /\ IF state[a] = "OPEN" /\ QuorumSatisfied(ballots, Body[a].policy)
             THEN Advance(a, "READY", <<voted, quorum>>)
             ELSE Advance(a, state[a], <<voted>>)
        /\ UNCHANGED delivery
  /\ UNCHANGED <<authorityVars, providerVars, processVars, sent, result,
                 consumed, dispatches>>

Cancel(a, w) ==
  LET now == LogicalNow(w) IN
  /\ MayRun
  /\ Tick(w)
  /\ state[a] \in Live /\ ~Lapses(a, now)
  /\ Advance(a, "CANCELED", <<[type |-> "Canceled", at |-> now]>>)
  /\ UNCHANGED <<authorityVars, providerVars, processVars, sent, votes, result,
                 delivery, consumed, dispatches>>

Escalate(a, reason, w) ==
  LET now == LogicalNow(w) IN
  /\ MayRun
  /\ Tick(w)
  /\ state[a] \in Live /\ ~Lapses(a, now)
  /\ Advance(a, "ESCALATED", <<EscalatedEvent(reason, now)>>)
  /\ OpenDelivery(a)
  /\ UNCHANGED <<authorityVars, providerVars, processVars, sent, votes, result,
                 consumed, dispatches>>

\* Fault: one delivery attempt too many.
MayDeliverOnceMore(a) ==
  delivery[a].state = "PENDING" /\ delivery[a].attempts <= MaxAttempts
MayDeliver(a) ==
  delivery[a].state = "PENDING" /\ delivery[a].attempts < MaxAttempts

\* deliver calls the inbox inside its transaction and records either answer.
Deliver(a, acked, w) ==
  LET now == LogicalNow(w)
      attempt == delivery[a].attempts + 1
  IN
  /\ MayRun
  /\ Tick(w)
  /\ MayDeliver(a)
  /\ delivery' = [delivery EXCEPT ![a] =
                    [state |-> IF acked THEN "ACKED" ELSE "PENDING",
                     attempts |-> attempt]]
  /\ Advance(a, state[a],
       <<IF acked THEN [type |-> "EscalationDelivered", at |-> now]
                  ELSE [type |-> "EscalationDeferred", at |-> now,
                        attempt |-> attempt]>>)
  /\ UNCHANGED <<authorityVars, providerVars, processVars, sent, votes, result,
                 consumed, dispatches>>

-----------------------------------------------------------------------------
(* commit: check, gate, inspect, consume, dispatch, wait (or hand over).   *)

At(place) == phase = "ready" /\ mu.at = place
Goto(place) == mu' = [mu EXCEPT !.at = place]
Release == mu' = Free

CommitBegin(a, w) ==
  /\ phase = "ready" /\ mu = Free
  /\ Tick(w)
  /\ state[a] = "READY" /\ ~Lapses(a, LogicalNow(w))
  /\ Body[a].policy \in policies
  /\ QuorumSatisfied(votes[a], Body[a].policy)
  /\ mu' = [at |-> "gate", act |-> a]
  /\ UNCHANGED <<authorityVars, providerVars, sent, state, log, votes, result,
                 delivery, consumed, dispatches, clean, phase, outcome, watch,
                 crashes>>

\* The gate allows the action, or the executor finds its preconditions met.
HostAgrees ==
  /\ \/ At("gate") /\ Goto("inspect")
     \/ At("inspect") /\ Goto("consume")
  /\ UNCHANGED <<authorityVars, providerVars, journalVars, sent, clean, phase,
                 outcome, watch, crashes>>

\* commit raises before anything is consumed: no gate, a gate or executor that
\* cannot answer, an answer out of schema, a transaction that is rolled back.
CommitFails ==
  /\ At("gate") \/ At("inspect") \/ At("consume")
  /\ Release
  /\ UNCHANGED <<authorityVars, providerVars, journalVars, sent, clean, phase,
                 outcome, watch, crashes>>

\* The gate denies the action, or its preconditions have changed.
HostRefuses(w) ==
  /\ At("gate") \/ At("inspect")
  /\ Tick(w)
  /\ Advance(mu.act, "STALE",
       <<[type |-> "Invalidated", at |-> LogicalNow(w),
          reason |-> IF mu.at = "gate" THEN "scope_denied" ELSE "state_drift"]>>)
  /\ Release
  /\ UNCHANGED <<authorityVars, providerVars, sent, votes, result, delivery,
                 consumed, dispatches, clean, phase, outcome, watch, crashes>>

\* Fault: the authority is not read again in the consuming transaction.
NoRecheck(a) == FALSE
DriftedSinceGate(a) == Drifted(a)

\* Fault: the budget is not cut at the action's expiry.
BudgetOnly(a, now) == now + DispatchBudget

\* The dispatch deadline: the budget, cut at the action's expiry.
Deadline(a, now) ==
  IF Body[a].expires < now + DispatchBudget
    THEN Body[a].expires ELSE now + DispatchBudget

\* The final transaction finds the authority changed, or the proposal no
\* longer READY, while the gate and the executor were asked.
ConsumeAbandoned(w) ==
  /\ At("consume")
  /\ Tick(w)
  /\ DriftedSinceGate(mu.act) \/ state[mu.act] # "READY"
  /\ IF DriftedSinceGate(mu.act) /\ state[mu.act] \in Live
       THEN Lapse(mu.act, LogicalNow(w))
       ELSE UNCHANGED <<state, log>>
  /\ Release
  /\ UNCHANGED <<authorityVars, providerVars, sent, votes, result, delivery,
                 consumed, dispatches, clean, phase, outcome, watch, crashes>>

\* Compare-and-consume: tombstone, dispatch intent, CommitStarted and view.
\* The primary key of consumed admits one tombstone per operation.
Consume(w) ==
  LET a == mu.act
      now == LogicalNow(w)
  IN
  /\ At("consume")
  /\ Tick(w)
  /\ ~DriftedSinceGate(a) /\ state[a] = "READY"
  /\ consumed[Body[a].op] = None
  /\ consumed' = [consumed EXCEPT ![Body[a].op] = a]
  /\ dispatches' = [dispatches EXCEPT ![Body[a].op] =
                      [notAfter |-> Deadline(a, now), result |-> None]]
  /\ Advance(a, "DISPATCHING",
       <<[type |-> "CommitStarted", at |-> now, epoch |-> authority.epoch,
          deadline |-> Deadline(a, now)]>>)
  /\ Goto("dispatch")
  /\ UNCHANGED <<authorityVars, providerVars, sent, votes, result, delivery,
                 clean, phase, outcome, watch, crashes>>

\* _finish_dispatch: the first report wins, a later one changes nothing.
Finish(a, status, now) ==
  IF state[a] = "DISPATCHING"
    THEN /\ Advance(a, StateOf[status],
              <<[type |-> "ExecutionReported", at |-> now, status |-> status]>>)
         /\ result' = [result EXCEPT ![a] = status]
         /\ dispatches' = [dispatches EXCEPT ![Body[a].op].result = status]
    ELSE UNCHANGED <<state, log, result, dispatches>>

\* Fault: a silent adapter is taken for a failed one.
PresumedFailed == "failed"
TimeoutStatus == "unknown"

\* The request was altered before the call: no provider call at all.
DispatchRefused(w) ==
  /\ At("dispatch")
  /\ Tick(w)
  /\ Finish(mu.act, "unknown", LogicalNow(w))
  /\ Release
  /\ UNCHANGED <<authorityVars, providerVars, sent, votes, delivery, consumed,
                 clean, phase, outcome, watch, crashes>>

\* The adapter thread starts and the coordinator waits for its outcome.
DispatchCall ==
  LET a == mu.act IN
  /\ At("dispatch")
  /\ Send([act |-> a, notAfter |-> dispatches[Body[a].op].notAfter])
  /\ sent' = [sent EXCEPT ![Body[a].op] = @ + 1]
  /\ outcome' = [outcome EXCEPT ![a] = "running"]
  /\ Goto("wait")
  /\ UNCHANGED <<authorityVars, journalVars, clean, phase, watch, crashes>>

\* The adapter thread ends: with the provider's result, with an exception, a
\* malformed or altered answer (all unknown), or with "nothing" that can be
\* classified: a BaseException, or a copy altered so that it has no hash.
AdapterReturns(a, status) ==
  /\ outcome[a] = "running"
  /\ \/ status = "unknown"
     \/ status = Lookup(Body[a].op) /\ status \in Statuses
     \/ status = "nothing"
  /\ outcome' = [outcome EXCEPT ![a] = status]
  /\ UNCHANGED <<authorityVars, providerVars, journalVars, sent, clean, phase,
                 mu, watch, crashes>>

WaitReturns(w) ==
  /\ At("wait") /\ outcome[mu.act] \in Statuses
  /\ Tick(w)
  /\ Finish(mu.act, outcome[mu.act], LogicalNow(w))
  /\ outcome' = [outcome EXCEPT ![mu.act] = "idle"]
  /\ Release
  /\ UNCHANGED <<authorityVars, providerVars, sent, votes, delivery, consumed,
                 clean, phase, watch, crashes>>

\* Fault: the adapter is called again after a timeout.
WaitRetries(w) ==
  /\ At("wait") /\ outcome[mu.act] = "running"
  /\ Tick(w)
  /\ outcome' = [outcome EXCEPT ![mu.act] = "idle"]
  /\ Goto("dispatch")
  /\ UNCHANGED <<authorityVars, providerVars, sent, state, log, votes, result,
                 delivery, consumed, dispatches, clean, phase, watch, crashes>>

\* The full observation time passes without an outcome.
WaitTimesOut(w) ==
  /\ At("wait") /\ outcome[mu.act] = "running"
  /\ Tick(w)
  /\ Finish(mu.act, TimeoutStatus, LogicalNow(w))
  /\ outcome' = [outcome EXCEPT ![mu.act] = "idle"]
  /\ Release
  /\ UNCHANGED <<authorityVars, providerVars, sent, votes, delivery, consumed,
                 clean, phase, watch, crashes>>

\* The caller's shorter wait passes: a watcher thread takes over.
WaitHandsOver ==
  /\ At("wait") /\ outcome[mu.act] = "running"
  /\ watch' = watch \union {mu.act}
  /\ Release
  /\ UNCHANGED <<authorityVars, providerVars, journalVars, sent, clean, phase,
                 outcome, crashes>>

\* The watcher records the outcome, or gives up after its own five seconds
\* (a choice made before it gets the mutex).
WatcherFinishes(a, status, w) ==
  /\ phase = "ready" /\ mu = Free
  /\ a \in watch
  /\ \/ status = outcome[a] /\ status \in Statuses
     \/ status = TimeoutStatus
  /\ Tick(w)
  /\ Finish(a, status, LogicalNow(w))
  /\ watch' = watch \ {a}
  /\ outcome' = [outcome EXCEPT ![a] = "idle"]
  /\ UNCHANGED <<authorityVars, providerVars, sent, votes, delivery, consumed,
                 clean, phase, mu, crashes>>

-----------------------------------------------------------------------------
(* Exceptions that end a commit, or a watcher, with its dispatch recorded  *)
(* and no outcome: until the next start nobody looks at the dispatch.      *)

Lose(a, how) ==
  /\ outcome' = [outcome EXCEPT ![a] = how]
  /\ UNCHANGED <<authorityVars, providerVars, journalVars, sent, clean, phase,
                 crashes>>

CommitRaises == Release /\ UNCHANGED watch
WatcherDies(a) == a \in watch /\ watch' = watch \ {a} /\ UNCHANGED mu

\* Thread.start raises: for the adapter's thread, before any call is made, or
\* for the watcher's, with the adapter still running.
StartFails(a) ==
  /\ mu.act = a
  /\ At("dispatch") \/ (At("wait") /\ outcome[a] = "running")
  /\ Lose(a, "unstarted")
  /\ CommitRaises

\* The transaction of _finish_dispatch raises: for a request that was altered,
\* in commit once the wait is over, or in the watcher.
ReportFails(a) ==
  /\ Lose(a, "unreported")
  /\ \/ /\ At("dispatch") \/ (At("wait") /\ outcome[a] # "nothing")
        /\ mu.act = a
        /\ CommitRaises
     \/ (phase = "ready" /\ mu = Free /\ WatcherDies(a))

\* _classify_outcome raises, in commit or, without the mutex, in the watcher.
AdapterFaultEscapes(a) ==
  /\ phase = "ready" /\ outcome[a] = "nothing"
  /\ Lose(a, "unclassified")
  /\ \/ (At("wait") /\ mu.act = a /\ CommitRaises)
     \/ WatcherDies(a)

Raises(a) == StartFails(a) \/ ReportFails(a) \/ AdapterFaultEscapes(a)

-----------------------------------------------------------------------------
(* reconcile: a read-only lookup between two transactions.                 *)

ReconcileBegin(a, w) ==
  /\ phase = "ready" /\ mu = Free
  /\ state[a] = "UNKNOWN"
  /\ Tick(w)
  /\ mu' = [at |-> "lookup", act |-> a]
  /\ UNCHANGED <<authorityVars, providerVars, sent, state, log, votes, result,
                 delivery, consumed, dispatches, clean, phase, outcome, watch,
                 crashes>>

\* The provider has no record yet or cannot be asked, or the transaction with
\* its answer is rolled back.
ReconcileUnresolved ==
  /\ At("lookup")
  /\ Release
  /\ UNCHANGED <<authorityVars, providerVars, journalVars, sent, clean, phase,
                 outcome, watch, crashes>>

ReconcileResolves(w) ==
  LET a == mu.act
      status == Lookup(Body[a].op)
  IN
  /\ At("lookup")
  /\ status # "unresolved"
  /\ Tick(w)
  /\ Advance(a, StateOf[status],
       <<[type |-> "ExecutionReconciled", at |-> LogicalNow(w), status |-> status]>>)
  /\ result' = [result EXCEPT ![a] = status]
  /\ Release
  /\ UNCHANGED <<authorityVars, providerVars, sent, votes, delivery, consumed,
                 dispatches, clean, phase, outcome, watch, crashes>>

-----------------------------------------------------------------------------
(* The process: stop, restart, readiness and recovery.                     *)

\* Every thread of the process ends; requests in flight stay on their way.
ThreadsEnd ==
  /\ mu' = Free
  /\ outcome' = [a \in Actions |-> "idle"]
  /\ watch' = {}
  /\ phase' = "down"
  /\ crashes' = crashes + 1
  /\ UNCHANGED <<authorityVars, providerVars, journalVars, sent>>

\* The process dies, or an exception of recovery ends the constructor.
Crash ==
  /\ phase # "down" /\ crashes < MaxCrashes
  /\ ThreadsEnd
  /\ UNCHANGED clean

\* Store.close between two operations; a watcher may still be waiting.
Close ==
  /\ phase = "ready" /\ mu = Free /\ crashes < MaxCrashes
  /\ ThreadsEnd
  /\ clean' = TRUE

\* Fault: opening the journal leaves the clean-shutdown flag as it was.
FlagKept == clean
FlagOnOpen == FALSE

\* Store._open resets the flag, then Coordinator.__init__ refuses a wall
\* clock too far behind the journal (CLOCK_UNSAFE).
Open(w) ==
  /\ phase = "down"
  /\ clean' = FlagOnOpen
  /\ phase' = IF w + SkewLimit >= last THEN "recovering" ELSE "down"
  /\ UNCHANGED <<authorityVars, providerVars, journalVars, sent, mu, outcome,
                 watch, crashes>>

\* Fault: recovery takes every consumed operation without a definite outcome.
InterruptedOrUnknown ==
  {a \in Actions : state[a] \in {"DISPATCHING", "UNKNOWN"} /\ consumed[Body[a].op] = a}

\* Dispatch intents without a result whose proposal is still DISPATCHING.
Interrupted ==
  {a \in Actions : /\ state[a] = "DISPATCHING"
                   /\ consumed[Body[a].op] = a
                   /\ dispatches[Body[a].op].result = None}

\* Fault: recovery sends the interrupted request again.
RecoverResends(a, w) ==
  /\ phase = "recovering" /\ ~clean
  /\ a \in Interrupted
  /\ Tick(w)
  /\ Advance(a, "UNKNOWN",
       <<[type |-> "ExecutionReported", at |-> LogicalNow(w), status |-> "unknown"]>>)
  /\ dispatches' = [dispatches EXCEPT ![Body[a].op].result = "unknown"]
  /\ Send([act |-> a, notAfter |-> dispatches[Body[a].op].notAfter])
  /\ sent' = [sent EXCEPT ![Body[a].op] = @ + 1]
  /\ UNCHANGED <<authorityVars, processVars, votes, result, delivery, consumed>>

\* One iteration of _recover_interrupted; the view's result stays as it was.
Recover(a, w) ==
  /\ phase = "recovering" /\ ~clean
  /\ a \in Interrupted
  /\ Tick(w)
  /\ Advance(a, "UNKNOWN",
       <<[type |-> "ExecutionReported", at |-> LogicalNow(w), status |-> "unknown"]>>)
  /\ dispatches' = [dispatches EXCEPT ![Body[a].op].result = "unknown"]
  /\ UNCHANGED <<authorityVars, providerVars, processVars, sent, votes, result,
                 delivery, consumed>>

BecomeReady ==
  /\ phase = "recovering"
  /\ clean \/ Interrupted = {}
  /\ phase' = "ready"
  /\ UNCHANGED <<authorityVars, providerVars, journalVars, sent, clean, mu,
                 outcome, watch, crashes>>

-----------------------------------------------------------------------------
ProviderExecutes(req, e) ==
  /\ Execute(req, e)
  /\ UNCHANGED <<authorityVars, journalVars, processVars, sent>>

ProviderDrops(req) ==
  /\ Drop(req)
  /\ UNCHANGED <<authorityVars, journalVars, processVars, sent>>

Init ==
  /\ AuthorityInit
  /\ ProviderInit
  /\ last = 0
  /\ state = [a \in Actions |-> "ABSENT"]
  /\ log = [a \in Actions |-> <<>>]
  /\ votes = [a \in Actions |-> [k \in Keys |-> None]]
  /\ result = [a \in Actions |-> None]
  /\ delivery = [a \in Actions |-> [state |-> "NONE", attempts |-> 0]]
  /\ consumed = [o \in Ops |-> None]
  /\ dispatches = [o \in Ops |-> None]
  /\ clean = FALSE
  /\ phase = "recovering"
  /\ mu = Free
  /\ outcome = [a \in Actions |-> "idle"]
  /\ watch = {}
  /\ crashes = 0
  /\ sent = [o \in Ops |-> 0]

OperationNext ==
  \E w \in Readings :
    \/ \E c \in Configurations : Configure(c, w)
    \/ \E a \in Actions :
         \/ Touch(a, w)
         \/ Propose(a, w)
         \/ \E k \in Keys, d \in Decisions : Submit(a, k, d, w)
         \/ Cancel(a, w)
         \/ \E reason \in {"manual", "missing_quorum"} : Escalate(a, reason, w)
         \/ \E acked \in BOOLEAN : Deliver(a, acked, w)

CommitNext ==
  \/ HostAgrees
  \/ CommitFails
  \/ DispatchCall
  \/ WaitHandsOver
  \/ ReconcileUnresolved
  \/ \E w \in Readings :
       \/ \E a \in Actions : CommitBegin(a, w) \/ ReconcileBegin(a, w)
       \/ HostRefuses(w)
       \/ ConsumeAbandoned(w)
       \/ Consume(w)
       \/ DispatchRefused(w)
       \/ WaitReturns(w)
       \/ WaitTimesOut(w)
       \/ ReconcileResolves(w)

ThreadNext ==
  \E a \in Actions :
    \/ \E status \in Statuses \union {"nothing"} : AdapterReturns(a, status)
    \/ Raises(a)
    \/ \E status \in Statuses, w \in Readings : WatcherFinishes(a, status, w)

ProcessNext ==
  \/ Crash
  \/ Close
  \/ BecomeReady
  \/ \E w \in Readings : Open(w)
  \/ \E a \in Actions, w \in Readings : Recover(a, w)

ProviderNext ==
  \E req \in wire :
    \/ \E e \in Readings : ProviderExecutes(req, e)
    \/ ProviderDrops(req)

Next == OperationNext \/ CommitNext \/ ThreadNext \/ ProcessNext \/ ProviderNext

Spec == Init /\ [][Next]_vars

=============================================================================
