------------------------------ MODULE Provider ------------------------------
(***************************************************************************)
(* The provider an executor adapter talks to, as the coordinator relies on *)
(* it: dispatch is idempotent under the operation's key, refuses a request *)
(* once its own clock has reached not_after_ms, and records the one result *)
(* it ever gives; lookup reads that record.  RefundSimulator (adapters.py) *)
(* is the reference implementation; the requests in flight stand for the   *)
(* adapter thread and its transport, which may lose or repeat a request.   *)
(***************************************************************************)
EXTENDS Integers, Sequences

CONSTANTS Actions,   \* the actions that may be proposed
          Body,      \* the content of each action, a record with its op
          Readings   \* the clock readings, of the host and of the provider

VARIABLES wire,      \* requests in flight: [act, notAfter]
          ledger,    \* _ledger by operation: the recorded result
          effects    \* the effects of each operation: sequence of [act, at]

providerVars == <<wire, ledger, effects>>

Ops == {Body[a].op : a \in Actions}
Requests == [act : Actions, notAfter : Nat]
Effects == [act : Actions, at : Nat]

ProviderInit ==
  /\ wire = {}
  /\ ledger = [o \in Ops |-> "unresolved"]
  /\ effects = [o \in Ops |-> <<>>]

Send(req) ==
  /\ wire' = wire \union {req}
  /\ UNCHANGED <<ledger, effects>>

\* Fault: a repeated request runs again after a failure.
OnlySuccessRecorded(o) == ledger[o] = "succeeded"
AlreadyRecorded(o) == ledger[o] # "unresolved"

\* An effect at the deadline itself comes too late.
PastDeadline(req, e) == e >= req.notAfter

\* dispatch under the provider's lock: a recorded result is returned again,
\* a late request fails, any other one fails (scope, precondition, intent or
\* amount) or takes effect; the result is recorded with the effect.  The
\* transport may deliver the request once more.
Execute(req, e) ==
  LET o == Body[req.act].op IN
  /\ req \in wire
  /\ wire' \in {wire, wire \ {req}}
  /\ \/ /\ AlreadyRecorded(o)
        /\ UNCHANGED <<ledger, effects>>
     \/ /\ ~AlreadyRecorded(o)
        /\ ledger' = [ledger EXCEPT ![o] = "failed"]
        /\ UNCHANGED effects
     \/ /\ ~AlreadyRecorded(o)
        /\ ~PastDeadline(req, e)
        /\ ledger' = [ledger EXCEPT ![o] = "succeeded"]
        /\ effects' = [effects EXCEPT ![o] = Append(@, [act |-> req.act, at |-> e])]

\* The request is lost before the provider sees it.
Drop(req) ==
  /\ req \in wire
  /\ wire' = wire \ {req}
  /\ UNCHANGED <<ledger, effects>>

Lookup(o) == ledger[o]

ProviderTypeOK ==
  /\ wire \subseteq Requests
  /\ ledger \in [Ops -> {"unresolved", "succeeded", "failed"}]
  /\ effects \in [Ops -> Seq(Effects)]

=============================================================================
