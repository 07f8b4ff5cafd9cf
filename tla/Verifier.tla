------------------------------ MODULE Verifier ------------------------------
(***************************************************************************)
(* The offline verifier (python/vekquorum/verifier.py): what verify_proof  *)
(* accepts and concludes of an action, its retained votes and its event    *)
(* stream.  Hashes, signatures and the caller's trust document are left    *)
(* out: the proofs considered here are the ones a coordinator exports.     *)
(*                                                                         *)
(* A vote table maps every key to approve, reject or None; events are the  *)
(* records of module Coordinator, in the order of their sequence numbers.  *)
(***************************************************************************)
EXTENDS Integers, Sequences, FiniteSets, SequencesExt

CONSTANTS None, DispatchBudget

Live == {"OPEN", "READY"}
Consumed == {"DISPATCHING", "SUCCEEDED", "FAILED", "UNKNOWN"}
Illegal == "ILLEGAL_TRANSITION"

StateOf(status) ==
  CASE status = "succeeded" -> "SUCCEEDED"
    [] status = "failed"    -> "FAILED"
    [] status = "unknown"   -> "UNKNOWN"

\* _chain: instants never decrease along the stream.
TimeOrdered(events) ==
  \A i \in 1 .. Len(events) - 1 : events[i].at <= events[i + 1].at

\* The threshold of distinct principals, and a human if the policy asks.
Quorum(p, keys) ==
  LET approving == {m \in p.roster : m.key \in keys} IN
  /\ Cardinality({m.principal : m \in approving}) >= p.threshold
  /\ p.human => \E m \in approving : m.human

LegalReason(r, reason) ==
  CASE r.state = "REJECT_PENDING" -> reason = "reject_vote"
    [] r.state = "OPEN" /\ r.recorded = {} ->
         reason \in {"manual", "missing_quorum", "enrichment_unavailable"}
    [] r.state \in Live /\ ~(r.state = "OPEN" /\ r.recorded = {}) ->
         reason \in {"manual", "missing_quorum", "reject_vote"}
    [] OTHER -> FALSE

\* _replay: the guard of each event in the reduced state r.
LegalEvent(a, ballots, r, e) ==
  CASE e.type = "VoteRecorded" ->
         /\ r.state \in Live
         /\ ballots[e.key] = e.decision
         /\ e.key \notin r.recorded
    [] e.type = "QuorumReached" ->
         /\ r.state = "OPEN"
         /\ Quorum(a.policy, r.approved)
         /\ e.keys = r.approved
    [] e.type = "CommitStarted" ->
         /\ r.state = "READY"
         /\ e.epoch = a.epoch
         /\ e.deadline = IF a.expires < e.at + DispatchBudget
                           THEN a.expires ELSE e.at + DispatchBudget
    [] e.type = "ExecutionReported" -> r.state = "DISPATCHING"
    [] e.type = "ExecutionReconciled" -> r.state = "UNKNOWN"
    [] e.type = "Escalated" -> LegalReason(r, e.reason)
    [] e.type \in {"EscalationDelivered", "EscalationDeferred"} ->
         r.state = "ESCALATED"
    [] e.type = "Expired" ->
         r.state \in Live /\ e.expires = a.expires /\ e.at >= a.expires
    [] e.type \in {"Canceled", "Invalidated"} -> r.state \in Live
    [] OTHER -> FALSE

\* _replay: the state each event leads to.
StateAfter(r, e) ==
  CASE e.type = "VoteRecorded" ->
         IF e.decision = "reject" THEN "REJECT_PENDING" ELSE r.state
    [] e.type = "QuorumReached" -> "READY"
    [] e.type = "CommitStarted" -> "DISPATCHING"
    [] e.type \in {"ExecutionReported", "ExecutionReconciled"} -> StateOf(e.status)
    [] e.type \in {"Escalated", "EscalationDelivered", "EscalationDeferred"} ->
         "ESCALATED"
    [] e.type = "Expired" -> "EXPIRED"
    [] e.type = "Canceled" -> "CANCELED"
    [] e.type = "Invalidated" -> "STALE"

ReplayStep(a, ballots, r, e) ==
  IF r.state = Illegal \/ ~LegalEvent(a, ballots, r, e)
    THEN [r EXCEPT !.state = Illegal]
    ELSE [state |-> StateAfter(r, e),
          recorded |-> IF e.type = "VoteRecorded" THEN r.recorded \union {e.key}
                                                  ELSE r.recorded,
          approved |-> IF e.type = "VoteRecorded" /\ e.decision = "approve"
                         THEN r.approved \union {e.key} ELSE r.approved]

Reduce(a, ballots, events) ==
  FoldLeft(LAMBDA r, e : ReplayStep(a, ballots, r, e),
           [state |-> "OPEN", recorded |-> {}, approved |-> {}],
           Tail(events))

\* Integrity "valid": chain, replay, no pending rejection at the tail, and
\* every retained vote recorded exactly once.
Valid(a, ballots, events) ==
  LET r == Reduce(a, ballots, events) IN
  /\ events # <<>>
  /\ events[1].type = "Proposed" /\ events[1].epoch = a.epoch
  /\ TimeOrdered(events)
  /\ r.state \notin {Illegal, "REJECT_PENDING"}
  /\ r.recorded = {k \in DOMAIN ballots : ballots[k] # None}

\* The state a valid proof attests, and its authorization verdict.
AttestedState(a, ballots, events) == Reduce(a, ballots, events).state

Satisfied(a, ballots, events) ==
  /\ AttestedState(a, ballots, events) \in {"READY"} \union Consumed
  /\ Quorum(a.policy, {k \in DOMAIN ballots : ballots[k] = "approve"})

=============================================================================
