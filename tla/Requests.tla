------------------------------ MODULE Requests ------------------------------
(***************************************************************************)
(* Requests under idempotency keys: what the handlers of Coordinator       *)
(* (python/vekquorum/coordinator.py) answer one principal's client that    *)
(* repeats a request, repeats it late, or uses its key for another one.    *)
(* A handler runs under the mutex in one transaction; commit dispatches    *)
(* first and records its key afterwards in a transaction of its own, and   *)
(* the process may stop or the adapter thread fail to start in between.    *)
(* One approval is a quorum; proposals go stale by expiry alone.           *)
(***************************************************************************)
EXTENDS Integers, FiniteSets

CONSTANTS None,
          Actions,     \* set of [id, op]: proposal id and operation id
          ReqIds,      \* idempotency keys of the client
          Methods,     \* the methods it calls
          MaxActive,   \* MAX_ACTIVE_PROPOSALS
          MaxRevision, \* bound on the revisions the client expects
          MaxCrashes,  \* bound on crashes and failed thread starts
          Reuse        \* the client may use a key for one effect after another

VARIABLES rows,      \* proposals by id: [action, state, revision, vote]
          consumed,  \* the proposal that consumed each operation
          requests,  \* recorded [method, key, body]
          lapsed,    \* actions whose expiry has passed
          call,      \* the commit that has dispatched and not returned
          granted,   \* requests that took effect
          last,      \* the last answer: [answer, shown, late, again]
          crashes

vars == <<rows, consumed, requests, lapsed, call, granted, last, crashes>>

Ids == {a.id : a \in Actions}
Ops == {a.op : a \in Actions}
Live == {"OPEN", "READY"}
Consumed == {"DISPATCHING", "SUCCEEDED", "UNKNOWN"}
States == Live \union Consumed \union {"EXPIRED", "STALE", "CANCELED", "ESCALATED"}
Revisions == 1 .. MaxRevision

Bodies(method) ==
  CASE method = "propose" -> Actions
    [] method = "submit"  -> [id : Ids, rev : Revisions, decision : {"approve", "reject"}]
    [] OTHER              -> [id : Ids, rev : Revisions]

Requests == UNION {[method : {m}, key : ReqIds, body : Bodies(m)] : m \in Methods}

Rows == [action : Actions, state : States, revision : Nat,
         vote : {None, "approve", "reject"}]

RequestsAssumption ==
  /\ Methods \subseteq {"propose", "submit", "cancel", "escalate", "commit"}
  /\ MaxActive \in Nat \ {0} /\ MaxRevision \in Nat /\ MaxCrashes \in Nat
  /\ Reuse \in BOOLEAN /\ None \notin Ids \union Rows

Init ==
  /\ rows = [p \in Ids |-> None]
  /\ consumed = [o \in Ops |-> None]
  /\ requests = {} /\ lapsed = {} /\ call = None
  /\ granted = {} /\ last = None /\ crashes = 0

-----------------------------------------------------------------------------
(* Answers.                                                                *)

\* A request of which an effect is known: the same key and content, and for
\* propose the same action under any key.
Again(r) ==
  \E g \in granted : g.method = r.method /\ g.body = r.body
                     /\ (g.key = r.key \/ r.method = "propose")

Reply(r, answer, shown, late) ==
  last' = [answer |-> answer, shown |-> shown, late |-> late,
           again |-> Again(r)]

Refuse(r, code) ==
  /\ Reply(r, code, None, FALSE)
  /\ UNCHANGED <<rows, consumed, requests, call, granted>>

Show(r, row) ==
  /\ Reply(r, "view", row.state, row.action \in lapsed)
  /\ UNCHANGED <<rows, consumed, requests, call, granted>>

\* The row is written and shown.
Leave(r, row) ==
  /\ rows' = [rows EXCEPT ![row.action.id] = row]
  /\ Reply(r, "view", row.state, row.action \in lapsed)

Entry(r) == [method |-> r.method, key |-> r.key, body |-> r.body]

\* Fault: the key is not stored.
Forget(r) == requests
Record(r) == requests \union {Entry(r)}

Grant(r, row) ==
  /\ Leave(r, row)
  /\ granted' = granted \union {r}
  /\ requests' = Record(r)
  /\ UNCHANGED <<consumed, call>>

After(row, state, events) ==
  [row EXCEPT !.state = state, !.revision = @ + events]

\* _dedupe.
Known(r) == \E x \in requests : x.method = r.method /\ x.key = r.key
Conflict(r) == Known(r) /\ Entry(r) \notin requests

\* _materialize, and the view it leads to.
Due(row) == row.state \in Live /\ row.action \in lapsed
Expire(r, row) ==
  /\ Leave(r, After(row, "EXPIRED", 1))
  /\ UNCHANGED <<consumed, requests, call, granted>>

-----------------------------------------------------------------------------
(* Handlers.                                                               *)

\* Fault: a proposal the coordinator already has is not recognized.
NeverMine(a) == FALSE
Mine(a) == rows[a.id] # None /\ rows[a.id].action = a

ActiveIds == {p \in Ids : rows[p] # None /\ rows[p].state \in Live}

\* Fault: the limit is looked at one proposal late.
PastLimit == Cardinality(ActiveIds) > MaxActive
AtLimit == Cardinality(ActiveIds) >= MaxActive

InTheWay(a) == \E p \in ActiveIds : rows[p].action.op = a.op

Propose(r) ==
  LET a == r.body
      old == rows[a.id] IN
  \/ Conflict(r) /\ Refuse(r, "IDEMPOTENCY_CONFLICT")
  \/ ~Conflict(r) /\ (Known(r) \/ Mine(a)) /\
       (IF Due(old) THEN Expire(r, old) ELSE Show(r, old))
  \/ ~Known(r) /\ ~Mine(a) /\
       \/ consumed[a.op] # None /\ Refuse(r, "OPERATION_CONSUMED")
       \/ consumed[a.op] = None /\ InTheWay(a) /\ Refuse(r, "ACTIVE_OPERATION")
       \/ consumed[a.op] = None /\ ~InTheWay(a) /\
            \/ old # None /\ Refuse(r, "NONCE_REUSED")
            \/ old = None /\ a \in lapsed /\ Refuse(r, "EXPIRED")
            \/ old = None /\ a \notin lapsed /\ AtLimit /\ Refuse(r, "RATE_LIMITED")
            \/ /\ old = None /\ a \notin lapsed /\ ~AtLimit
               /\ Grant(r, [action |-> a, state |-> "OPEN", revision |-> 1, vote |-> None])

\* submit, cancel and escalate change a live proposal at the revision the
\* client expects.
Change(r, row, changed) ==
  \/ r.body.rev # row.revision /\ Refuse(r, "REVISION_CONFLICT")
  \/ r.body.rev = row.revision /\ row.state \notin Live /\ Refuse(r, "STATE_CONFLICT")
  \/ r.body.rev = row.revision /\ row.state \in Live /\ Grant(r, changed)

\* The same vote again is shown what there is, and its key is not stored.
Submit(r, row) ==
  LET d == r.body.decision IN
  \/ row.vote = d /\ Show(r, row)
  \/ row.vote \notin {None, d} /\ Refuse(r, "VOTE_CONFLICT")
  \/ row.vote = None /\
       Change(r, row, [After(row, IF d = "approve" THEN "READY" ELSE "ESCALATED", 2)
                       EXCEPT !.vote = d])

Cancel(r, row) == Change(r, row, After(row, "CANCELED", 1))
Escalate(r, row) == Change(r, row, After(row, "ESCALATED", 1))

\* Fault: the operation is not marked as consumed.
NoTombstone(row) == consumed
Tombstone(row) == [consumed EXCEPT ![row.action.op] = row.action.id]

\* commit up to the dispatch: the gate may be silent or refuse, and a refusal
\* is an event without a recorded key.
Commit(r, row) ==
  \/ row.state \in Consumed /\ Show(r, row)
  \/ row.state \notin Consumed /\ r.body.rev # row.revision
       /\ Refuse(r, "REVISION_CONFLICT")
  \/ row.state \notin Consumed \union {"READY"} /\ r.body.rev = row.revision
       /\ Refuse(r, IF row.state = "OPEN" THEN "QUORUM_NOT_MET" ELSE "STATE_CONFLICT")
  \/ row.state = "READY" /\ r.body.rev = row.revision /\
       \/ Refuse(r, "GATE_UNAVAILABLE")
       \/ /\ Leave(r, After(row, "STALE", 1))
          /\ UNCHANGED <<consumed, requests, call, granted>>
       \/ /\ rows' = [rows EXCEPT ![row.action.id] = After(row, "DISPATCHING", 1)]
          /\ consumed' = Tombstone(row)
          /\ granted' = granted \union {r}
          /\ call' = r
          /\ UNCHANGED <<requests, last>>

\* Fault: a known key is answered before the clock is looked at.
DueUnlessKnown(r, row) == Due(row) /\ ~Known(r)
DueFirst(r, row) == Due(row)

OnProposal(r) ==
  LET row == rows[r.body.id] IN
  \/ row = None /\ Refuse(r, "NOT_FOUND")
  \/ row # None /\ DueFirst(r, row) /\ Expire(r, row)
  \/ row # None /\ ~DueFirst(r, row) /\
       \/ Conflict(r) /\ Refuse(r, "IDEMPOTENCY_CONFLICT")
       \/ Known(r) /\ ~Conflict(r) /\ Show(r, row)
       \/ ~Known(r) /\
            \/ r.method = "submit" /\ Submit(r, row)
            \/ r.method = "cancel" /\ Cancel(r, row)
            \/ r.method = "escalate" /\ Escalate(r, row)
            \/ r.method = "commit" /\ Commit(r, row)

\* The mutex is free between two requests.  Without Reuse the client keeps a
\* key that has had an effect for the request that had it.
Send(r) ==
  /\ call = None
  /\ Reuse \/ \A g \in granted : g.method = r.method /\ g.key = r.key => g = r
  /\ IF r.method = "propose" THEN Propose(r) ELSE OnProposal(r)
  /\ UNCHANGED <<lapsed, crashes>>

-----------------------------------------------------------------------------
(* After the dispatch.                                                     *)

\* _record_request_later, with whatever state the proposal is in by then.
Return ==
  /\ call # None
  /\ requests' = Record(call)
  /\ Reply(call, "view", rows[call.body.id].state, FALSE)
  /\ call' = None
  /\ UNCHANGED <<rows, consumed, lapsed, granted, crashes>>

Report(p) ==
  /\ rows[p] # None /\ rows[p].state = "DISPATCHING"
  /\ \E s \in {"SUCCEEDED", "UNKNOWN"} :
       rows' = [rows EXCEPT ![p] = After(@, s, 1)]
  /\ UNCHANGED <<consumed, requests, lapsed, call, granted, last, crashes>>

\* The adapter thread does not start: commit raises.
Raise ==
  /\ call # None /\ crashes < MaxCrashes
  /\ Reply(call, "INTERNAL", None, FALSE)
  /\ call' = None
  /\ crashes' = crashes + 1
  /\ UNCHANGED <<rows, consumed, requests, lapsed, granted>>

\* The process stops and starts again: recovery reports interrupted dispatches.
Crash ==
  /\ crashes < MaxCrashes
  /\ call' = None
  /\ crashes' = crashes + 1
  /\ rows' = [p \in Ids |->
                IF rows[p] # None /\ rows[p].state = "DISPATCHING"
                THEN After(rows[p], "UNKNOWN", 1) ELSE rows[p]]
  /\ UNCHANGED <<consumed, requests, lapsed, granted, last>>

Lapse(a) ==
  /\ a \notin lapsed
  /\ lapsed' = lapsed \union {a}
  /\ UNCHANGED <<rows, consumed, requests, call, granted, last, crashes>>

Next ==
  \/ \E r \in Requests : Send(r)
  \/ \E p \in Ids : Report(p)
  \/ \E a \in Actions : Lapse(a)
  \/ Return \/ Raise \/ Crash

Spec == Init /\ [][Next]_vars

-----------------------------------------------------------------------------
\* Types, and the tombstones are those of the consumed proposals.
TypeOK ==
  /\ \A p \in Ids : rows[p] # None =>
       /\ rows[p] \in Rows /\ rows[p].action.id = p
       /\ rows[p].state \in Consumed <=> consumed[rows[p].action.op] = p
  /\ requests \subseteq {Entry(r) : r \in Requests}
  /\ granted \subseteq Requests /\ lapsed \subseteq Actions
  /\ call \in granted \union {None}

\* A client that repeats a request which took effect, under its key, is shown
\* the proposal and is not refused, whatever happened in between; so is one
\* that proposes its action again under another key.  (The rate limits, which
\* come first, are left out.)
RetryIsAnswered ==
  last # None /\ last.again /\ last.answer # "INTERNAL" => last.answer = "view"

\* No answer shows a proposal as live whose expiry has passed.
ShownStateIsCurrent ==
  last # None /\ last.answer = "view" /\ last.late => last.shown \notin Live

\* No more proposals are live at a time than the limit, and no two of one
\* operation.
LiveBounded ==
  /\ Cardinality(ActiveIds) <= MaxActive
  /\ \A p, q \in ActiveIds : rows[p].action.op = rows[q].action.op => p = q

\* _dedupe: "Conflicting reuse raises IDEMPOTENCY_CONFLICT": of two different
\* requests under one key of a method, one takes effect at most.
KeyNamesOneRequest ==
  \A g, h \in granted : g.method = h.method /\ g.key = h.key => g = h
=============================================================================
