--------------------------- MODULE RefundSimulator ---------------------------
(***************************************************************************)
(* The reference executor of covenant.refund (python/vekquorum/adapters.py)*)
(* and the requests in flight to it: payments with a version, the results  *)
(* recorded under each operation's idempotency key, and the one intent a   *)
(* payment can be refunded under.  It is shown to be a Provider, what the  *)
(* coordinator relies on.                                                  *)
(*                                                                         *)
(* Body[a] is a record [op, payment, amount, currency, wellFormed]; the    *)
(* last one says whether covenant_refund_args accepts the arguments and    *)
(* the action's hash is that of the request.                               *)
(***************************************************************************)
EXTENDS Integers, Sequences, FiniteSets

CONSTANTS None,
          Actions, Body,
          Payments,       \* payment_id -> [amount, currency] at the provider
          GateRevision,   \* expected_gate_revision, None if it is not pinned
          Gates,          \* revisions the gate has answered with
          Readings,       \* clock readings, of the host and of the provider
          MaxVersion,     \* bound on the versions of a payment
          MaxInFlight     \* bound on the requests in flight

VARIABLES version,   \* version of each payment in _payments
          ledger,    \* _ledger: the recorded result of each operation
          intent,    \* _intent_by_payment
          effects,   \* the effects of each operation: [act, at]
          seen,      \* the precondition inspect last gave for each action
          wire       \* requests in flight: [act, notAfter, seen, gate]

vars == <<version, ledger, intent, effects, seen, wire>>

Ops == {Body[a].op : a \in Actions}
Known == DOMAIN Payments
Versions == 1 .. MaxVersion
Requests == [act : Actions, notAfter : Readings, seen : Versions \union {None},
             gate : Gates]

ASSUME SimulatorAssumption ==
  /\ Readings \subseteq Nat /\ MaxVersion \in Nat \ {0} /\ MaxInFlight \in Nat
  /\ \A a \in Actions : Body[a].amount \in Nat /\ Body[a].wellFormed \in BOOLEAN
  /\ \A p \in Known : Payments[p].amount \in Nat
  /\ None \notin Versions /\ None \notin Ops

Codes == {"OK", "DEADLINE_EXCEEDED", "SCOPE_CHANGED", "PAYMENT_NOT_FOUND",
          "PRECONDITION_CHANGED", "INTENT_CONSUMED", "AMOUNT_MISMATCH",
          "CURRENCY_MISMATCH"}
Unrecorded == "unrecorded"

Init ==
  /\ version = [p \in Known |-> 1]
  /\ ledger = [o \in Ops |-> Unrecorded]
  /\ intent = [p \in Known |-> None]
  /\ effects = [o \in Ops |-> <<>>]
  /\ seen = [a \in Actions |-> None]
  /\ wire = {}

-----------------------------------------------------------------------------
\* inspect: an unknown payment is ready without a precondition.
Inspect(a) ==
  /\ Body[a].wellFormed
  /\ seen' = [seen EXCEPT ![a] = IF Body[a].payment \in Known
                                 THEN version[Body[a].payment] ELSE None]
  /\ UNCHANGED <<version, ledger, intent, effects, wire>>

\* The coordinator hands the request to the adapter thread, with the
\* precondition its action was built from.
Send(a, t, g) ==
  /\ Cardinality(wire) < MaxInFlight
  /\ wire' = wire \union {[act |-> a, notAfter |-> t, seen |-> seen[a], gate |-> g]}
  /\ UNCHANGED <<version, ledger, intent, effects, seen>>

\* Fault: an effect at the deadline itself is still in time.
LateAfterDeadline(req, e) == e > req.notAfter
Late(req, e) == e >= req.notAfter

\* Fault: a payment already refunded can be refunded under another operation.
NoIntent(req, p) == FALSE
TakenByOther(req, p) == intent[p] # None /\ intent[p] # Body[req.act].op

\* Fault: the currency alone is compared.
AnyAmount(b) == FALSE
TooMuch(b) == Payments[b.payment].amount < b.amount

\* _execute_locked: the first check that fails gives the code.
Code(req, e) ==
  LET b == Body[req.act]
      p == b.payment IN
  IF Late(req, e) THEN "DEADLINE_EXCEEDED"
  ELSE IF GateRevision # None /\ req.gate # GateRevision THEN "SCOPE_CHANGED"
  ELSE IF p \notin Known THEN "PAYMENT_NOT_FOUND"
  ELSE IF req.seen # version[p] THEN "PRECONDITION_CHANGED"
  ELSE IF TakenByOther(req, p) THEN "INTENT_CONSUMED"
  ELSE IF TooMuch(b) THEN "AMOUNT_MISMATCH"
  ELSE IF Payments[p].currency # b.currency THEN "CURRENCY_MISMATCH"
  ELSE "OK"

\* Fault: the intent is the action's, not the operation's.
ActionIntent(req) == req.act
OperationIntent(req) == Body[req.act].op

Refund(req, e) ==
  LET b == Body[req.act] IN
  /\ version[b.payment] < MaxVersion
  /\ version' = [version EXCEPT ![b.payment] = @ + 1]
  /\ intent' = [intent EXCEPT ![b.payment] = OperationIntent(req)]
  /\ effects' = [effects EXCEPT ![b.op] = Append(@, [act |-> req.act, at |-> e])]

\* Fault: the ledger is written and never read.
NeverRecorded(o) == FALSE
Recorded(o) == ledger[o] # Unrecorded

\* dispatch, under the simulator's lock: malformed requests raise, a recorded
\* result is given again, and any other one is recorded with its effect.  The
\* transport may deliver the request once more.
Dispatch(req, e) ==
  LET o == Body[req.act].op IN
  /\ req \in wire
  /\ wire' \in {wire, wire \ {req}}
  /\ \/ /\ ~Body[req.act].wellFormed \/ Recorded(o)
        /\ UNCHANGED <<version, ledger, intent, effects>>
     \/ /\ Body[req.act].wellFormed /\ ~Recorded(o)
        /\ ledger' = [ledger EXCEPT ![o] = Code(req, e)]
        /\ IF Code(req, e) = "OK"
           THEN Refund(req, e)
           ELSE UNCHANGED <<version, intent, effects>>
  /\ UNCHANGED seen

\* The transport loses the request.
Lose(req) ==
  /\ req \in wire
  /\ wire' = wire \ {req}
  /\ UNCHANGED <<version, ledger, intent, effects, seen>>

\* Somebody else changes the payment at the provider.
Touch(p) ==
  /\ version[p] < MaxVersion
  /\ version' = [version EXCEPT ![p] = @ + 1]
  /\ UNCHANGED <<ledger, intent, effects, seen, wire>>

Next ==
  \/ \E a \in Actions : Inspect(a)
  \/ \E a \in Actions, t \in Readings, g \in Gates : Send(a, t, g)
  \/ \E req \in wire, e \in Readings : Dispatch(req, e)
  \/ \E req \in wire : Lose(req)
  \/ \E p \in Known : Touch(p)

Spec == Init /\ [][Next]_vars

-----------------------------------------------------------------------------
\* lookup: what reconcile is told of an operation.
Lookup(o) == CASE ledger[o] = Unrecorded -> "unresolved"
               [] ledger[o] = "OK" -> "succeeded"
               [] OTHER -> "failed"

\* Types of the simulator's tables and of the requests in flight.
TypeOK ==
  /\ version \in [Known -> Versions]
  /\ ledger \in [Ops -> Codes \union {Unrecorded}]
  /\ intent \in [Known -> Ops \union {None}]
  /\ effects \in [Ops -> Seq([act : Actions, at : Nat])]
  /\ seen \in [Actions -> Versions \union {None}]
  /\ wire \subseteq Requests

\* The record tells the truth: lookup says succeeded of exactly the
\* operations that took effect, and no operation took effect twice, however
\* often and late its requests arrived.
RecordTellsEffects ==
  \A o \in Ops : Len(effects[o]) = IF Lookup(o) = "succeeded" THEN 1 ELSE 0

\* A payment is refunded once, over all operations and actions on it, never
\* for more than it holds and never in another currency.
RefundsCovered ==
  \A o1, o2 \in Ops : \A i \in DOMAIN effects[o1], j \in DOMAIN effects[o2] :
    LET b1 == Body[effects[o1][i].act]
        b2 == Body[effects[o2][j].act] IN
    b1.payment = b2.payment =>
      /\ o1 = o2 /\ i = j
      /\ b1.payment \in Known
      /\ b1.amount <= Payments[b1.payment].amount
      /\ b1.currency = Payments[b1.payment].currency

-----------------------------------------------------------------------------
(* The provider the coordinator is verified against.                       *)

Abstract(req) == [act |-> req.act, notAfter |-> req.notAfter]

P == INSTANCE Provider WITH
       wire <- {Abstract(req) : req \in wire},
       ledger <- [o \in Ops |-> Lookup(o)]

ProviderRequests == [act : Actions, notAfter : Readings]

ProviderStep ==
  \/ \E req \in ProviderRequests : P!Send(req) \/ P!Drop(req)
  \/ \E req \in ProviderRequests, e \in Readings : P!Execute(req, e)

\* Every step of the simulator is a step of the Provider or leaves what the
\* coordinator can see of it unchanged.
ImplementsProvider == P!ProviderInit /\ [][ProviderStep]_(P!providerVars)
=============================================================================
