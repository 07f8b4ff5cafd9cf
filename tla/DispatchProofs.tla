--------------------------- MODULE DispatchProofs ---------------------------
(***************************************************************************)
(* What the coordinator's dispatches guarantee, for every instance: at     *)
(* most one call and one effect per operation, no effect after the         *)
(* approved expiry, and outcomes that are true.                            *)
(*                                                                         *)
(* The properties of Ceremony are not inductive.  A call is counted        *)
(* against the tombstone and the place of the mutex holder (Calls), an     *)
(* effect against the provider's record (Recorded), its instant against    *)
(* the deadline in the dispatch row and in the request (Deadlines), and an *)
(* outcome against what the adapter thread brought back (Truthful).        *)
(***************************************************************************)
EXTENDS CoordinatorProofs

\* A call is made for a consumed operation only, and once; a request in
\* flight is the one the tombstone's action made.
Calls ==
  /\ \A o \in Ops : sent[o] \in {0, 1} /\ (sent[o] = 1 => consumed[o] # None)
  /\ mu.at = "dispatch" => sent[Body[mu.act].op] = 0
  /\ \A req \in wire :
       consumed[Body[req.act].op] = req.act /\ sent[Body[req.act].op] = 1

\* The provider records what was called, and its record counts the effects.
Recorded ==
  \A o \in Ops :
    /\ ledger[o] # "unresolved" => sent[o] = 1
    /\ ledger[o] = "succeeded" => Len(effects[o]) = 1
    /\ ledger[o] # "succeeded" => effects[o] = <<>>
    /\ \A i \in 1 .. Len(effects[o]) : effects[o][i].act = consumed[o]

\* Deadlines never pass the expiry of the action they were made for.
Deadlines ==
  /\ \A o \in Ops : consumed[o] # None =>
       dispatches[o].notAfter <= Body[consumed[o]].expires
  /\ \A req \in wire : req.notAfter <= Body[req.act].expires

\* An adapter thread belongs to a consumed action and brings back a definite
\* outcome only if the provider recorded it; so do the final states.
Truthful ==
  \A a \in Actions :
    /\ outcome[a] \notin {"idle"} \union Lost => consumed[Body[a].op] = a
    /\ outcome[a] \in {"succeeded", "failed"} => ledger[Body[a].op] = outcome[a]
    /\ state[a] = "SUCCEEDED" => ledger[Body[a].op] = "succeeded"
    /\ state[a] = "FAILED" => ledger[Body[a].op] = "failed"

-----------------------------------------------------------------------------
(* One call and one effect.                                                *)

LEMMA CallsStep ==
  ASSUME Core, Calls, [Next]_vars
  PROVE  Calls'
<1> USE Types DEF Core
<1>1. ASSUME NEW w \in Readings, Consume(w)
      PROVE  Calls'
  <2> DEFINE a == mu.act
  <2>1. a \in Actions /\ mu.at = "consume" /\ consumed[Body[a].op] = None
    BY <1>1, HolderTypes DEF Consume
  <2>2. Body[a].op \in Ops /\ a # None
    BY <2>1, Bodies
  <2>3. /\ consumed' = [consumed EXCEPT ![Body[a].op] = a]
        /\ UNCHANGED <<wire, sent>>
        /\ mu' = [mu EXCEPT !.at = "dispatch"]
    BY <1>1 DEF Consume, Goto, providerVars
  <2>4. mu' = [at |-> "dispatch", act |-> a]
    BY <2>1, <2>3 DEF Process, Free
  <2>5. sent[Body[a].op] = 0
    BY <2>1, <2>2 DEF Calls
  <2>6. ASSUME NEW req \in wire
        PROVE  consumed'[Body[req.act].op] = req.act /\ sent[Body[req.act].op] = 1
    BY <2>2, <2>3, <2>5, <2>6 DEF Calls, Rows
  <2>7. ASSUME NEW o \in Ops
        PROVE  sent[o] \in {0, 1} /\ (sent[o] = 1 => consumed'[o] # None)
    BY <2>2, <2>3, <2>7 DEF Calls, Rows
  <2> QED
    BY <2>3, <2>4, <2>5, <2>6, <2>7 DEF Calls
<1>2. ASSUME DispatchCall
      PROVE  Calls'
  <2> DEFINE a == mu.act
             req == [act |-> a, notAfter |-> dispatches[Body[a].op].notAfter]
  <2>1. a \in Actions /\ mu.at = "dispatch" /\ Body[a].op \in Ops /\ a # None
    BY <1>2, HolderTypes, Bodies DEF DispatchCall
  <2>2. consumed[Body[a].op] = a /\ sent[Body[a].op] = 0
    BY <2>1 DEF Calls, Holding, Tombstones, ConsumedStates
  <2>3. /\ sent' = [sent EXCEPT ![Body[a].op] = @ + 1]
        /\ wire' = wire \union {req}
        /\ mu' = [mu EXCEPT !.at = "wait"]
        /\ consumed' = consumed
    BY <1>2 DEF DispatchCall, Goto, Send, journalVars
  <2>4. mu'.at # "dispatch"
    BY <2>1, <2>3 DEF Process, Free
  <2>5. sent' = [sent EXCEPT ![Body[a].op] = 1]
    BY <2>1, <2>2, <2>3
  <2>6. ASSUME NEW r \in wire'
        PROVE  consumed[Body[r.act].op] = r.act /\ sent'[Body[r.act].op] = 1
    <3>1. CASE r \in wire
      <4>1. Body[r.act].op # Body[a].op
        BY <2>2, <3>1 DEF Calls
      <4> QED
        BY <2>5, <3>1, <4>1 DEF Calls
    <3>2. CASE r = req
      BY <2>1, <2>2, <2>5, <3>2
    <3> QED
      BY <2>3, <3>1, <3>2
  <2> QED
    BY <2>1, <2>2, <2>3, <2>4, <2>5, <2>6 DEF Calls
<1>3. ASSUME ProviderNext
      PROVE  Calls'
  BY <1>3 DEF ProviderNext, ProviderExecutes, ProviderDrops, Execute, Drop, Calls,
              journalVars, processVars
<1>4. ASSUME UNCHANGED <<providerVars, sent, consumed>>, mu' = mu \/ mu'.at # "dispatch"
      PROVE  Calls'
  BY <1>4 DEF Calls, providerVars
<1> QED
  BY <1>1, <1>2, <1>3, <1>4, Frame

LEMMA RecordedStep ==
  ASSUME Core, Calls, Recorded, [Next]_vars
  PROVE  Recorded'
<1> USE Types DEF Core
<1>1. ASSUME NEW w \in Readings, Consume(w)
      PROVE  Recorded'
  <2> DEFINE p == Body[mu.act].op
  <2>1. mu.act \in Actions /\ consumed[p] = None /\ p \in Ops
    BY <1>1, HolderTypes, Bodies DEF Consume
  <2>2. /\ consumed' = [consumed EXCEPT ![p] = mu.act]
        /\ UNCHANGED <<ledger, effects, sent>>
    BY <1>1 DEF Consume, providerVars
  <2>3. effects[p] = <<>>
    BY <2>1 DEF Calls, Recorded
  <2> QED
    BY <2>1, <2>2, <2>3 DEF Recorded, Rows
<1>2. ASSUME DispatchCall
      PROVE  Recorded'
  <2> DEFINE p == Body[mu.act].op
  <2>1. sent[p] = 0 /\ p \in Ops
    BY <1>2, HolderTypes, Bodies DEF DispatchCall, Calls, At
  <2>2. /\ sent' = [sent EXCEPT ![p] = @ + 1]
        /\ UNCHANGED <<ledger, effects, consumed>>
    BY <1>2 DEF DispatchCall, Send, journalVars
  <2>3. \A o \in Ops : sent[o] = 1 => sent'[o] = 1
    BY <2>1, <2>2
  <2> QED
    BY <2>2, <2>3 DEF Recorded
<1>3. ASSUME ProviderNext
      PROVE  Recorded'
  <2>1. UNCHANGED <<sent, consumed>>
    BY <1>3 DEF ProviderNext, ProviderExecutes, ProviderDrops, journalVars
  <2>2. CASE UNCHANGED <<ledger, effects>>
    BY <2>1, <2>2 DEF Recorded
  <2>3. ASSUME NEW req \in wire, NEW e \in Readings, Execute(req, e),
               ~AlreadyRecorded(Body[req.act].op)
        PROVE  Recorded'
    <3> DEFINE p == Body[req.act].op
               effect == [act |-> req.act, at |-> e]
    <3>1. p \in Ops /\ sent[p] = 1 /\ consumed[p] = req.act
      BY Bodies DEF Calls, ProviderTypeOK, Requests
    <3>2. ledger[p] = "unresolved" /\ effects[p] = <<>>
      BY <2>3, <3>1 DEF AlreadyRecorded, Recorded
    <3>3. CASE ledger' = [ledger EXCEPT ![p] = "failed"] /\ UNCHANGED effects
      BY <2>1, <3>1, <3>2, <3>3 DEF Recorded, ProviderTypeOK
    <3>4. CASE /\ ledger' = [ledger EXCEPT ![p] = "succeeded"]
               /\ effects' = [effects EXCEPT ![p] = Append(@, effect)]
      <4>1. effects' = [effects EXCEPT ![p] = <<effect>>]
        BY <3>1, <3>2, <3>4
      <4>2. ASSUME NEW o \in Ops, o # p
            PROVE  ledger'[o] = ledger[o] /\ effects'[o] = effects[o]
        BY <3>4, <4>1, <4>2 DEF ProviderTypeOK
      <4>3. ledger'[p] = "succeeded" /\ effects'[p] = <<effect>>
        BY <3>1, <3>4, <4>1 DEF ProviderTypeOK
      <4>4. Len(<<effect>>) = 1 /\ \A i \in 1 .. Len(<<effect>>) : <<effect>>[i].act = req.act
        OBVIOUS
      <4> DEFINE Good(o) ==
            /\ ledger'[o] # "unresolved" => sent'[o] = 1
            /\ ledger'[o] = "succeeded" => Len(effects'[o]) = 1
            /\ ledger'[o] # "succeeded" => effects'[o] = <<>>
            /\ \A i \in 1 .. Len(effects'[o]) : effects'[o][i].act = consumed'[o]
      <4>5. Good(p)
        BY <2>1, <3>1, <4>3, <4>4
      <4>6. ASSUME NEW o \in Ops, o # p PROVE Good(o)
        BY <2>1, <4>2, <4>6 DEF Recorded
      <4> QED
        BY <4>5, <4>6 DEF Recorded
    <3> QED
      BY <2>3, <3>3, <3>4 DEF Execute
  <2> QED
    BY <1>3, <2>2, <2>3 DEF ProviderNext, ProviderExecutes, ProviderDrops, Execute, Drop
<1>4. ASSUME UNCHANGED <<providerVars, sent, consumed>>
      PROVE  Recorded'
  BY <1>4 DEF Recorded, providerVars
<1> QED
  BY <1>1, <1>2, <1>3, <1>4, Frame

LEMMA AtMostOne ==
  ASSUME Core, Calls, Recorded
  PROVE  AtMostOneDispatch
<1> SUFFICES ASSUME NEW o \in Ops
             PROVE  /\ sent[o] <= 1
                    /\ sent[o] = 1 => consumed[o] # None
                    /\ Len(effects[o]) <= sent[o]
                    /\ \A i \in 1 .. Len(effects[o]) : effects[o][i].act = consumed[o]
  BY DEF AtMostOneDispatch
<1>1. sent[o] \in {0, 1} /\ (sent[o] = 1 => consumed[o] # None)
  BY DEF Calls
<1>2. Len(effects[o]) <= sent[o]
  BY <1>1 DEF Recorded
<1> QED
  BY <1>1, <1>2 DEF Recorded

LEMMA CallsInit ==
  ASSUME Init
  PROVE  Calls /\ Recorded
BY DEF Init, ProviderInit, Calls, Recorded, Free

\* Tombstones, calls and the provider's record agree in every reachable state.
THEOREM CallsHold == Spec => [](Core /\ Calls /\ Recorded)
<1>1. Init => Core /\ Calls /\ Recorded
  BY CoreInit, CallsInit
<1>2. Core /\ Calls /\ Recorded /\ [Next]_vars => (Core /\ Calls /\ Recorded)'
  BY CoreStep, CallsStep, RecordedStep
<1> QED
  BY <1>1, <1>2, PTL DEF Spec

\* An operation is sent to its adapter at most once and takes effect at most
\* once, for the action that holds its tombstone only, whatever times out,
\* arrives late or is restarted (commit, _dispatch, _recover_interrupted).
THEOREM DispatchedAtMostOnce == Spec => []AtMostOneDispatch
<1>1. Core /\ Calls /\ Recorded => AtMostOneDispatch
  BY AtMostOne
<1> QED
  BY <1>1, CallsHold, PTL

-----------------------------------------------------------------------------
(* Deadlines.                                                              *)

LEMMA DeadlinesStep ==
  ASSUME Core, Calls, Deadlines, [Next]_vars
  PROVE  Deadlines'
<1> USE Types DEF Core
<1>1. ASSUME NEW w \in Readings, Consume(w)
      PROVE  Deadlines'
  <2> DEFINE a == mu.act
             now == LogicalNow(w)
             row == [notAfter |-> Deadline(a, now), result |-> None]
  <2>1. a \in Actions /\ Body[a].op \in Ops /\ now \in Nat
    BY <1>1, HolderTypes, Bodies, Clock DEF Consume
  <2>2. /\ consumed' = [consumed EXCEPT ![Body[a].op] = a]
        /\ dispatches' = [dispatches EXCEPT ![Body[a].op] = row]
        /\ wire' = wire
    BY <1>1 DEF Consume, providerVars
  <2>3. Deadline(a, now) <= Body[a].expires
    BY <2>1, DeadlineTypes
  <2>4. row.notAfter <= Body[a].expires
    BY <2>3
  <2> HIDE DEF row
  <2>5. ASSUME NEW o \in Ops, consumed'[o] # None
        PROVE  dispatches'[o].notAfter <= Body[consumed'[o]].expires
    <3>1. CASE o = Body[a].op
      BY <2>1, <2>2, <2>4, <3>1 DEF Rows
    <3>2. CASE o # Body[a].op
      BY <2>1, <2>2, <2>5, <3>2 DEF Deadlines, Rows
    <3> QED
      BY <3>1, <3>2
  <2> QED
    BY <2>2, <2>5 DEF Deadlines
<1>2. ASSUME UNCHANGED consumed, wire' \subseteq wire,
             \A o \in Ops : dispatches[o] # None =>
               dispatches'[o].notAfter = dispatches[o].notAfter
      PROVE  Deadlines'
  BY <1>2 DEF Deadlines, Tombstones
<1>3. CASE DispatchCall
  <2> DEFINE a == mu.act
             req == [act |-> a, notAfter |-> dispatches[Body[a].op].notAfter]
  <2>1. a \in Actions /\ Body[a].op \in Ops /\ a # None /\ state[a] = "DISPATCHING"
    BY <1>3, HolderTypes, Bodies DEF DispatchCall, Holding
  <2>2. dispatches[Body[a].op].notAfter <= Body[a].expires
    BY <2>1 DEF Tombstones, ConsumedStates, Deadlines
  <2>3. UNCHANGED <<consumed, dispatches>> /\ wire' = wire \union {req}
    BY <1>3 DEF DispatchCall, Send, journalVars
  <2> QED
    BY <2>2, <2>3 DEF Deadlines
<1>4. CASE ProviderNext
  <2>1. wire' \subseteq wire /\ UNCHANGED <<consumed, dispatches>>
    BY <1>4 DEF ProviderNext, ProviderExecutes, ProviderDrops, Execute, Drop, journalVars
  <2> QED
    BY <1>2, <2>1
<1>5. CASE UNCHANGED <<providerVars, sent, consumed>>
  <2>1. UNCHANGED <<wire, consumed>>
    BY <1>5 DEF providerVars
  <2> QED
    BY <1>1, <1>2, <2>1, RowsKept
<1> QED
  BY <1>1, <1>3, <1>4, <1>5, Frame

LEMMA EffectInTimeStep ==
  ASSUME Core, Calls, Recorded, Deadlines, EffectInTime, [Next]_vars
  PROVE  EffectInTime'
<1> USE Types DEF Core
<1>1. CASE UNCHANGED effects
  BY <1>1 DEF EffectInTime
<1>2. ASSUME NEW req \in wire, NEW e \in Readings,
             ~PastDeadline(req, e), ~AlreadyRecorded(Body[req.act].op),
             effects' = [effects EXCEPT ![Body[req.act].op] =
                           Append(@, [act |-> req.act, at |-> e])]
      PROVE  EffectInTime'
  <2> DEFINE p == Body[req.act].op
             effect == [act |-> req.act, at |-> e]
  <2>1. req \in Requests /\ p \in Ops /\ e \in Nat
    BY Bodies, CoordinatorAssumption DEF ProviderTypeOK, Requests
  <2>2. effects[p] = <<>>
    BY <1>2, <2>1 DEF AlreadyRecorded, Recorded
  <2>3. effects' = [effects EXCEPT ![p] = <<effect>>]
    BY <1>2, <2>1, <2>2
  <2>4. req.act \in Actions /\ req.notAfter \in Nat /\ Body[req.act].expires \in Nat
    BY <2>1, Bodies DEF Requests
  <2>5. e < Body[req.act].expires
    BY <1>2, <2>1, <2>4 DEF PastDeadline, Deadlines
  <2>6. ASSUME NEW o \in Ops, NEW i \in 1 .. Len(effects'[o])
        PROVE  effects'[o][i].at < Body[effects'[o][i].act].expires
    <3>1. CASE o = p
      <4>1. effects'[o] = <<effect>>
        BY <2>1, <2>3, <3>1 DEF ProviderTypeOK
      <4>2. i = 1
        BY <4>1, <2>6
      <4> QED
        BY <2>5, <4>1, <4>2
    <3>2. CASE o # p
      BY <2>1, <2>3, <2>6, <3>2 DEF EffectInTime, ProviderTypeOK
    <3> QED
      BY <3>1, <3>2
  <2> QED
    BY <2>6 DEF EffectInTime
<1>3. CASE ProviderNext
  BY <1>1, <1>2, <1>3 DEF ProviderNext, ProviderExecutes, ProviderDrops, Execute, Drop
<1>4. CASE DispatchCall \/ \E w \in Readings : Consume(w)
  BY <1>1, <1>4 DEF DispatchCall, Send, Consume, providerVars
<1>5. CASE UNCHANGED <<providerVars, sent, consumed>>
  BY <1>1, <1>5 DEF providerVars
<1> QED
  BY <1>3, <1>4, <1>5, Frame

\* No effect at or after the approved expiry by the provider's own clock,
\* however late the commit or the request (commit, _execute_locked).
THEOREM EffectsInTime == Spec => []EffectInTime
<1>1. Init => Deadlines /\ EffectInTime
  BY DEF Init, ProviderInit, Deadlines, EffectInTime
<1>2. Core /\ Calls /\ Recorded /\ Deadlines /\ EffectInTime /\ [Next]_vars
        => Deadlines' /\ EffectInTime'
  BY DeadlinesStep, EffectInTimeStep
<1> QED
  BY <1>1, <1>2, CallsHold, PTL DEF Spec

-----------------------------------------------------------------------------
(* Outcomes.                                                               *)

\* What the provider has recorded stays recorded.
LEMMA LedgerFinal ==
  ASSUME Core, [Next]_vars, NEW o \in Ops, ledger[o] # "unresolved"
  PROVE  ledger'[o] = ledger[o]
<1>1. CASE UNCHANGED ledger
  BY <1>1
<1>2. CASE ProviderNext
  <2>1. PICK req \in wire : \/ Drop(req)
                           \/ \E e \in Readings : Execute(req, e)
    BY <1>2 DEF ProviderNext, ProviderExecutes, ProviderDrops
  <2> QED
    BY <2>1, Types DEF Core, ProviderTypeOK, Drop, Execute, AlreadyRecorded
<1>3. CASE DispatchCall \/ \E w \in Readings : Consume(w)
  BY <1>1, <1>3 DEF DispatchCall, Send, Consume, providerVars
<1>4. CASE UNCHANGED <<providerVars, sent, consumed>>
  BY <1>1, <1>4 DEF providerVars
<1> QED
  BY <1>2, <1>3, <1>4, Frame

\* A tombstone is never lifted.
LEMMA TombstoneFinal ==
  ASSUME Core, [Next]_vars, NEW o \in Ops, consumed[o] # None
  PROVE  consumed'[o] = consumed[o]
<1>1. CASE \E w \in Readings : Consume(w)
  <2>1. /\ consumed[Body[mu.act].op] = None
        /\ consumed' = [consumed EXCEPT ![Body[mu.act].op] = mu.act]
    BY <1>1 DEF Consume
  <2> QED
    BY <2>1, Types DEF Core, Rows
<1>2. CASE UNCHANGED consumed
  BY <1>2
<1>3. CASE DispatchCall \/ ProviderNext
  BY <1>2, <1>3 DEF DispatchCall, ProviderNext, ProviderExecutes, ProviderDrops, journalVars
<1> QED
  BY <1>1, <1>2, <1>3, Frame

LEMMA TruthfulStep ==
  ASSUME Core, Truthful, [Next]_vars
  PROVE  Truthful'
<1> SUFFICES ASSUME NEW a \in Actions
             PROVE  /\ outcome'[a] \notin {"idle"} \union Lost => consumed'[Body[a].op] = a
                    /\ outcome'[a] \in {"succeeded", "failed"} =>
                         ledger'[Body[a].op] = outcome'[a]
                    /\ state'[a] = "SUCCEEDED" => ledger'[Body[a].op] = "succeeded"
                    /\ state'[a] = "FAILED" => ledger'[Body[a].op] = "failed"
  BY DEF Truthful
<1> DEFINE o == Body[a].op
<1>1. o \in Ops /\ a # None
  BY Bodies
<1>2. /\ ledger[o] \in {"succeeded", "failed"} => ledger'[o] = ledger[o]
      /\ ledger[o] \in {"unresolved", "succeeded", "failed"}
  BY <1>1, LedgerFinal, Types DEF Core, ProviderTypeOK
<1>3. consumed[o] = a => consumed'[o] = a
  BY <1>1, TombstoneFinal
<1>4. OutcomeMoves(a) /\ Moves(a)
  BY ThreadsMove, StateMoves
<1>5. outcome'[a] \notin {"idle"} \union Lost => consumed'[o] = a
  <2>1. CASE outcome[a] \notin {"idle"} \union Lost
    BY <1>3, <2>1 DEF Truthful
  <2>2. CASE /\ outcome[a] \in {"idle"} \union Lost
             /\ outcome'[a] \notin {"idle"} \union Lost
    <3>1. DispatchCall /\ a = mu.act
      BY <1>4, <2>2 DEF OutcomeMoves, Lost
    <3>2. state[a] = "DISPATCHING"
      BY <3>1, HolderTypes DEF DispatchCall, Core, Holding
    <3> QED
      BY <1>3, <3>2 DEF Core, Tombstones, ConsumedStates
  <2> QED
    BY <2>1, <2>2
<1>6. outcome'[a] \in {"succeeded", "failed"} => ledger'[o] = outcome'[a]
  BY <1>2, <1>4 DEF Truthful, OutcomeMoves, Lost
<1>7. state'[a] \in {"SUCCEEDED", "FAILED"} =>
        \/ state'[a] = state[a]
        \/ outcome[a] \in Statuses /\ state'[a] = StateOf[outcome[a]]
        \/ ledger[o] \in {"succeeded", "failed"} /\ state'[a] = StateOf[ledger[o]]
  BY <1>4 DEF Moves, Withdrawn
<1>8. /\ state'[a] = "SUCCEEDED" => ledger'[o] = "succeeded"
      /\ state'[a] = "FAILED" => ledger'[o] = "failed"
  BY <1>2, <1>7, Reports DEF Truthful, Statuses
<1> QED
  BY <1>5, <1>6, <1>8

\* A definite outcome is the truth: what is recorded as done was done by this
\* very action, what is recorded as failed never happens (_finish_dispatch,
\* _watch_dispatch, reconcile).
THEOREM OutcomesHonest == Spec => []OutcomeHonest
<1>1. Init => Truthful
  BY Bodies DEF Init, Truthful
<1>2. Core /\ Truthful /\ [Next]_vars => Truthful'
  BY TruthfulStep
<1>3. Core /\ Calls /\ Recorded /\ Truthful => OutcomeHonest
  <2> SUFFICES ASSUME Core, Calls, Recorded, Truthful, NEW a \in Actions
               PROVE  /\ state[a] = "SUCCEEDED" =>
                           \E i \in 1 .. Len(effects[Body[a].op]) :
                             effects[Body[a].op][i].act = a
                      /\ state[a] = "FAILED" =>
                           effects[Body[a].op] = <<>> /\ ledger[Body[a].op] = "failed"
    BY DEF OutcomeHonest
  <2>1. Body[a].op \in Ops
    BY Bodies
  <2>2. ASSUME state[a] = "SUCCEEDED"
        PROVE  \E i \in 1 .. Len(effects[Body[a].op]) : effects[Body[a].op][i].act = a
    <3>1. consumed[Body[a].op] = a
      BY <2>2 DEF Core, Tombstones, ConsumedStates, Settled
    <3>2. Len(effects[Body[a].op]) = 1
      BY <2>1, <2>2 DEF Truthful, Recorded
    <3> QED
      BY <2>1, <3>1, <3>2 DEF Recorded
  <2> QED
    BY <2>1, <2>2 DEF Truthful, Recorded
<1> QED
  BY <1>1, <1>2, <1>3, CallsHold, PTL DEF Spec

-----------------------------------------------------------------------------
(* Somebody is always left to report a dispatch.                           *)

\* What recovery relies on: a started process is not marked as cleanly shut
\* down, and a dispatch in progress has no result in its row.
Pending ==
  /\ phase # "down" => ~clean
  /\ \A a \in Actions : state[a] = "DISPATCHING" => dispatches[Body[a].op].result = None

LEMMA PendingStep ==
  ASSUME Core, Pending, [Next]_vars
  PROVE  Pending'
<1> USE Types DEF Core
<1>1. phase' # "down" => ~clean'
  BY PhaseMoves DEF Pending, BecomeReady
<1>2. ASSUME NEW w \in Readings, Consume(w), NEW b \in Actions, state'[b] = "DISPATCHING"
      PROVE  dispatches'[Body[b].op].result = None
  <2> DEFINE a == mu.act
             p == Body[a].op
             row == [notAfter |-> Deadline(a, LogicalNow(w)), result |-> None]
  <2>1. a \in Actions /\ p \in Ops /\ consumed[p] = None
    BY <1>2, HolderTypes, Bodies DEF Consume
  <2>2. /\ dispatches' = [dispatches EXCEPT ![p] = row]
        /\ state' = [state EXCEPT ![a] = "DISPATCHING"]
    BY <1>2 DEF Consume, Advance
  <2>3. row.result = None
    OBVIOUS
  <2> HIDE DEF row
  <2>4. CASE b = a
    BY <2>1, <2>2, <2>3, <2>4 DEF Rows
  <2>5. CASE b # a
    <3>1. state[b] = "DISPATCHING"
      BY <1>2, <2>1, <2>2, <2>5 DEF Streams
    <3>2. consumed[Body[b].op] = b /\ b # None
      BY <3>1, Bodies DEF Tombstones, ConsumedStates
    <3>3. Body[b].op # p /\ Body[b].op \in Ops
      BY <2>1, <3>2, Bodies
    <3> QED
      BY <2>2, <3>1, <3>3 DEF Pending, Rows
  <2> QED
    BY <2>4, <2>5
<1>3. ASSUME ~\E w \in Readings : Consume(w), NEW b \in Actions, state'[b] = "DISPATCHING"
      PROVE  dispatches'[Body[b].op].result = None
  <2>1. state[b] = "DISPATCHING"
    <3>1. Moves(b)
      BY StateMoves
    <3> QED
      BY <1>3, <3>1, Reports DEF Moves, Withdrawn, Statuses
  <2>2. consumed[Body[b].op] = b /\ dispatches[Body[b].op] # None /\ Body[b].op \in Ops
    BY <2>1, Bodies DEF Tombstones, ConsumedStates
  <2>3. dispatches'[Body[b].op] = dispatches[Body[b].op]
    BY <1>3, <2>2, RowsKept
  <2> QED
    BY <2>1, <2>3 DEF Pending
<1> QED
  BY <1>1, <1>2, <1>3 DEF Pending

\* Somebody will report a, or an exception keeps everybody from it.
Followed(a) == Reporter(a) \/ outcome[a] \in Lost

\* An outcome out of reach stays so while the process lives.
LEMMA LostStays ==
  ASSUME Core, [Next]_vars, phase = "ready", phase' = "ready",
         NEW a \in Actions, state[a] = "DISPATCHING", outcome[a] \in Lost, ~Reporter(a)
  PROVE  outcome'[a] \in Lost
<1>1. OutcomeMoves(a)
  BY ThreadsMove
<1>2. ~(DispatchCall /\ a = mu.act)
  BY DEF DispatchCall, At, Reporter
<1> QED
  BY <1>1, <1>2 DEF OutcomeMoves, Lost

\* While a dispatch goes on in a ready process, its reporter stays, hands it
\* over, or is taken by an exception.
LEMMA ReporterStays ==
  ASSUME Core, [Next]_vars, phase = "ready", phase' = "ready",
         NEW a \in Actions, state[a] = "DISPATCHING", state'[a] = "DISPATCHING",
         Reporter(a)
  PROVE  Followed(a)'
<1> USE Types DEF Core
<1>1. ASSUME UNCHANGED <<mu, watch>>
      PROVE  Reporter(a)'
  BY <1>1 DEF Reporter
<1>2. CASE OperationNext
  BY <1>1, <1>2, OperationFrame DEF processVars, Followed
<1>3. CASE a \in watch /\ CommitNext
  <2>1. a \in watch'
    <3>1. ASSUME NEW w \in Readings,
                 \/ HostRefuses(w) \/ ConsumeAbandoned(w) \/ Consume(w)
                 \/ DispatchRefused(w) \/ WaitReturns(w) \/ WaitTimesOut(w)
                 \/ ReconcileResolves(w)
                 \/ \E b \in Actions : CommitBegin(b, w) \/ ReconcileBegin(b, w)
          PROVE  a \in watch'
      BY <1>3, <3>1 DEF HostRefuses, ConsumeAbandoned, Consume, DispatchRefused,
         WaitReturns, WaitTimesOut, ReconcileResolves, CommitBegin, ReconcileBegin
    <3>2. CASE \/ HostAgrees \/ CommitFails \/ DispatchCall \/ WaitHandsOver
               \/ ReconcileUnresolved
      BY <1>3, <3>2 DEF HostAgrees, CommitFails, DispatchCall, WaitHandsOver,
         ReconcileUnresolved
    <3> QED
      BY <1>3, <3>1, <3>2 DEF CommitNext
  <2> QED
    BY <2>1 DEF Reporter, Followed
<1>4. CASE mu.act = a /\ mu.at = "dispatch" /\ CommitNext
  <2>1. CASE DispatchCall
    <3>1. mu' = [mu EXCEPT !.at = "wait"]
      BY <2>1 DEF DispatchCall, Goto
    <3>2. mu' = [at |-> "wait", act |-> a]
      BY <1>4, <3>1 DEF Process, Free
    <3> QED
      BY <3>2 DEF Reporter, Followed
  <2>2. ASSUME NEW w \in Readings, DispatchRefused(w)
        PROVE  FALSE
    <3>1. Finish(a, "unknown", LogicalNow(w))
      BY <1>4, <2>2 DEF DispatchRefused
    <3> QED
      BY <3>1, FinishEnds DEF Statuses
  <2> QED
    BY <1>4, <2>1, <2>2 DEF CommitNext, At, Free, HostAgrees, CommitFails,
       WaitHandsOver, ReconcileUnresolved, CommitBegin, ReconcileBegin, HostRefuses,
       ConsumeAbandoned, Consume, WaitReturns, WaitTimesOut, ReconcileResolves
<1>5. CASE mu.act = a /\ mu.at = "wait" /\ CommitNext
  <2>1. CASE WaitHandsOver
    BY <1>5, <2>1 DEF WaitHandsOver, Reporter, Followed
  <2>2. ASSUME NEW w \in Readings, WaitReturns(w) \/ WaitTimesOut(w)
        PROVE  FALSE
    <3>1. PICK status \in Statuses : Finish(a, status, LogicalNow(w))
      BY <1>5, <2>2 DEF WaitReturns, WaitTimesOut, TimeoutStatus, Statuses
    <3> QED
      BY <3>1, FinishEnds
  <2> QED
    BY <1>5, <2>1, <2>2 DEF CommitNext, At, Free, HostAgrees, CommitFails,
       DispatchCall, ReconcileUnresolved, CommitBegin, ReconcileBegin, HostRefuses,
       ConsumeAbandoned, Consume, DispatchRefused, ReconcileResolves
<1>6. CASE ThreadNext
  <2>1. ASSUME NEW b \in Actions, NEW status \in Statuses \union {"nothing"},
               AdapterReturns(b, status)
        PROVE  Reporter(a)'
    BY <1>1, <2>1 DEF AdapterReturns
  <2>2. ASSUME NEW b \in Actions, NEW status \in Statuses, NEW w \in Readings,
               WatcherFinishes(b, status, w)
        PROVE  Reporter(a)'
    <3>1. b # a
      BY <2>2, FinishEnds DEF WatcherFinishes
    <3>2. mu = Free /\ watch' = watch \ {b}
      BY <2>2 DEF WatcherFinishes
    <3> QED
      BY <3>1, <3>2 DEF Reporter, Free
  <2>3. ASSUME NEW b \in Actions, Raises(b)
        PROVE  Followed(a)'
    <3>1. CASE b = a
      <4>1. PICK how \in Lost : outcome' = [outcome EXCEPT ![a] = how]
        BY <2>3, <3>1, RaisesFrame
      <4> QED
        BY <4>1 DEF Process, Followed
    <3>2. CASE b # a
      BY <2>3, <3>2, RaisesFrame DEF Reporter, Followed, Free
    <3> QED
      BY <3>1, <3>2
  <2> QED
    BY <1>6, <2>1, <2>2, <2>3 DEF ThreadNext, Followed
<1>7. CASE ProcessNext
  BY <1>7 DEF ProcessNext, Crash, Close, ThreadsEnd, Open, Recover, BecomeReady
<1>8. CASE ProviderNext
  BY <1>1, <1>8 DEF ProviderNext, ProviderExecutes, ProviderDrops, processVars, Followed
<1>9. CASE UNCHANGED vars
  BY <1>1, <1>9 DEF vars, processVars, Followed
<1> QED
  BY <1>2, <1>3, <1>4, <1>5, <1>6, <1>7, <1>8, <1>9 DEF Next, Reporter, Followed

LEMMA NoStrandedStep ==
  ASSUME Core, Pending, Pending', NoStrandedDispatch, [Next]_vars
  PROVE  NoStrandedDispatch'
<1> SUFFICES ASSUME phase' = "ready", NEW a \in Actions, state'[a] = "DISPATCHING"
             PROVE  Followed(a)'
  BY DEF NoStrandedDispatch, Followed
<1>1. CASE \E w \in Readings : Consume(w) /\ a = mu.act
  <2>1. mu' = [mu EXCEPT !.at = "dispatch"] /\ mu.act \in Actions /\ mu.at # "free"
    BY <1>1, HolderTypes DEF Consume, Goto
  <2>2. mu' = [at |-> "dispatch", act |-> a]
    BY <1>1, <2>1, Types DEF Core, Process, Free
  <2> QED
    BY <2>2 DEF Reporter, Followed
<1>2. CASE state[a] = "DISPATCHING" /\ phase = "ready" /\ Reporter(a)
  BY <1>2, ReporterStays
<1>3. CASE state[a] = "DISPATCHING" /\ phase = "ready" /\ ~Reporter(a)
  <2>1. outcome[a] \in Lost
    BY <1>3 DEF NoStrandedDispatch
  <2> QED
    BY <1>3, <2>1, LostStays DEF Followed
<1>4. CASE state[a] = "DISPATCHING" /\ phase # "ready"
  <2>1. BecomeReady
    BY <1>4, PhaseMoves DEF Open
  <2>2. consumed[Body[a].op] = a /\ dispatches[Body[a].op].result = None
    BY <1>4 DEF Core, Tombstones, ConsumedStates, Pending
  <2>3. a \in Interrupted
    BY <1>4, <2>2 DEF Interrupted
  <2> QED
    BY <2>1, <2>3 DEF BecomeReady, Pending
<1>5. Moves(a)
  BY StateMoves
<1> QED
  BY <1>1, <1>2, <1>3, <1>4, <1>5, Reports DEF Moves, Withdrawn, Statuses

\* A process that becomes ready has left no dispatch of an earlier one behind,
\* however that one ended, and while it runs it loses a dispatch only to an
\* exception: a thread that does not start, a report that is rolled back, an
\* outcome that cannot be classified (_dispatch, _watch_dispatch,
\* _finish_dispatch, _recover_interrupted).
THEOREM NoneStranded == Spec => []NoStrandedDispatch
<1>1. Init => Pending /\ NoStrandedDispatch
  BY DEF Init, Pending, NoStrandedDispatch
<1>2. Core /\ Pending /\ NoStrandedDispatch /\ [Next]_vars
        => Pending' /\ NoStrandedDispatch'
  BY PendingStep, NoStrandedStep
<1> QED
  BY <1>1, <1>2, CoreHolds, PTL DEF Spec

-----------------------------------------------------------------------------
(* The coordinator implements ConsumeOnce: under the mapping of Ceremony   *)
(* (tombstones are the holders, the state of the holder is the report, and *)
(* the provider counts the effects) each of its steps is a step of         *)
(* ConsumeOnce or leaves the mapped variables alone.                       *)

IInv == Core /\ Calls /\ Recorded /\ Truthful

EffectCounts == [o \in Ops |-> Len(effects[o])]

\* The variables of ConsumeOnce under the mapping.
Mapped == <<consumed, ReportOf, EffectCounts>>

LEMMA ReportValues ==
  ASSUME Core, NEW o \in Ops
  PROVE  /\ consumed[o] = None => ReportOf[o] = "none"
         /\ consumed[o] # None =>
              /\ consumed[o] \in Actions
              /\ state[consumed[o]] \in ConsumedStates
              /\ state[consumed[o]] = "DISPATCHING" => ReportOf[o] = "pending"
              /\ state[consumed[o]] = "UNKNOWN" => ReportOf[o] = "unknown"
              /\ state[consumed[o]] = "SUCCEEDED" => ReportOf[o] = "succeeded"
              /\ state[consumed[o]] = "FAILED" => ReportOf[o] = "failed"
<1>1. consumed[o] = None => ReportOf[o] = "none"
  BY DEF ReportOf
<1>2. ASSUME consumed[o] # None
      PROVE  consumed[o] \in Actions /\ state[consumed[o]] \in ConsumedStates
  BY <1>2, Types DEF Core, Rows, Tombstones
<1>3. ASSUME consumed[o] # None
      PROVE  /\ state[consumed[o]] = "DISPATCHING" => ReportOf[o] = "pending"
             /\ state[consumed[o]] = "UNKNOWN" => ReportOf[o] = "unknown"
             /\ state[consumed[o]] = "SUCCEEDED" => ReportOf[o] = "succeeded"
             /\ state[consumed[o]] = "FAILED" => ReportOf[o] = "failed"
  BY <1>3 DEF ReportOf
<1> QED
  BY <1>1, <1>2, <1>3

\* The report of an operation is a function of its tombstone and the state of
\* the tombstone's action.
LEMMA ReportFrame ==
  ASSUME NEW o \in Ops, consumed'[o] = consumed[o],
         consumed[o] # None => state'[consumed[o]] = state[consumed[o]]
  PROVE  ReportOf'[o] = ReportOf[o]
BY DEF ReportOf

LEMMA ReportTable ==
  /\ ReportOf = [o \in Ops |-> ReportOf[o]]
  /\ ReportOf' = [o \in Ops |-> ReportOf'[o]]
BY DEF ReportOf

LEMMA ReportChange ==
  ASSUME NEW p \in Ops, \A o \in Ops : o # p => ReportOf'[o] = ReportOf[o]
  PROVE  ReportOf' = [ReportOf EXCEPT ![p] = ReportOf'[p]]
BY ReportTable

\* Commit's consuming transaction claims the operation.
LEMMA ConsumeClaims ==
  ASSUME IInv, IInv', NEW w \in Readings, Consume(w)
  PROVE  Once!Next
<1> USE Types DEF IInv, Core
<1> DEFINE a == mu.act
           p == Body[a].op
<1>1. a \in Actions /\ p \in Ops /\ a # None /\ consumed[p] = None /\ state[a] = "READY"
  BY HolderTypes, Bodies DEF Consume
<1>2. /\ consumed' = [consumed EXCEPT ![p] = a]
      /\ state' = [state EXCEPT ![a] = "DISPATCHING"]
      /\ effects' = effects
  BY DEF Consume, Advance, providerVars
<1>3. consumed'[p] = a /\ state'[a] = "DISPATCHING"
  BY <1>1, <1>2 DEF Rows, Streams
<1>4. ReportOf'[p] = "pending"
  BY <1>1, <1>3 DEF ReportOf
<1>5. ASSUME NEW o \in Ops, o # p
      PROVE  ReportOf'[o] = ReportOf[o]
  <2>1. consumed'[o] = consumed[o]
    BY <1>1, <1>2, <1>5 DEF Rows
  <2>2. ASSUME consumed[o] # None
        PROVE  state'[consumed[o]] = state[consumed[o]]
    <3>1. consumed[o] # a
      BY <1>1, <1>5, <2>2 DEF Tombstones
    <3> QED
      BY <1>1, <1>2, <2>2, <3>1 DEF Rows, Streams
  <2> QED
    BY <2>1, <2>2, ReportFrame
<1>6. ReportOf' = [ReportOf EXCEPT ![p] = "pending"]
  BY <1>1, <1>4, <1>5, ReportChange
<1>7. EffectCounts' = EffectCounts
  BY <1>2 DEF EffectCounts
<1>8. Once!Claim(p, a)
  BY <1>1, <1>2, <1>6, <1>7 DEF Once!Claim, Operation, EffectCounts
<1> QED
  BY <1>1, <1>8 DEF Once!Next

\* An execution with an effect performs the operation; any other step of the
\* provider is invisible.
LEMMA ProviderPerforms ==
  ASSUME IInv, IInv', ProviderNext
  PROVE  Once!Next \/ UNCHANGED Mapped
<1> USE Types DEF IInv, Core
<1>1. UNCHANGED <<consumed, state>>
  BY DEF ProviderNext, ProviderExecutes, ProviderDrops, journalVars
<1>2. ReportOf' = ReportOf
  BY <1>1 DEF ReportOf
<1>3. CASE effects' = effects
  BY <1>1, <1>2, <1>3 DEF Mapped, EffectCounts
<1>4. ASSUME NEW req \in wire, NEW e \in Readings, ~AlreadyRecorded(Body[req.act].op),
             effects' = [effects EXCEPT ![Body[req.act].op] =
                           Append(@, [act |-> req.act, at |-> e])]
      PROVE  Once!Next
  <2> DEFINE p == Body[req.act].op
             effect == [act |-> req.act, at |-> e]
  <2>1. p \in Ops /\ req.act \in Actions /\ req.act # None /\ consumed[p] = req.act
    BY Bodies DEF Calls, ProviderTypeOK, Requests
  <2>2. ledger[p] = "unresolved" /\ effects[p] = <<>>
    BY <1>4, <2>1 DEF AlreadyRecorded, Recorded
  <2>3. effects' = [effects EXCEPT ![p] = <<effect>>]
    BY <1>4, <2>1, <2>2
  <2>4. EffectCounts[p] = 0
    BY <2>1, <2>2 DEF EffectCounts
  <2>5. EffectCounts' = [EffectCounts EXCEPT ![p] = 1]
    <3>1. effects'[p] = <<effect>> /\ Len(<<effect>>) = 1
      BY <2>1, <2>3 DEF ProviderTypeOK
    <3>2. \A o \in Ops : o # p => effects'[o] = effects[o]
      BY <2>1, <2>3 DEF ProviderTypeOK
    <3> QED
      BY <2>1, <3>1, <3>2 DEF EffectCounts
  <2>6. ReportOf[p] \in {"pending", "unknown"}
    <3>1. state[req.act] \in {"DISPATCHING", "UNKNOWN"}
      BY <2>1, <2>2 DEF Truthful, Tombstones, ConsumedStates, Settled
    <3> QED
      BY <2>1, <3>1, ReportValues
  <2>7. Once!Perform(p)
    BY <1>1, <1>2, <2>1, <2>4, <2>5, <2>6 DEF Once!Perform, EffectCounts
  <2> QED
    BY <2>1, <2>7 DEF Once!Next
<1> QED
  BY <1>3, <1>4 DEF ProviderNext, ProviderExecutes, ProviderDrops, Execute, Drop

\* Any other step reports at most one outcome.
LEMMA MoveReports ==
  ASSUME IInv, IInv', UNCHANGED <<providerVars, sent, consumed>>, OneMove,
         ~\E w \in Readings : Consume(w)
  PROVE  Once!Next \/ UNCHANGED Mapped
<1> USE Types DEF IInv, Core
<1>1. UNCHANGED <<consumed, effects, EffectCounts>>
  BY DEF providerVars, EffectCounts
<1>2. CASE state' = state
  BY <1>1, <1>2 DEF Mapped, ReportOf
<1>3. ASSUME NEW a \in Actions, state' = [state EXCEPT ![a] = state'[a]], Moves(a)
      PROVE  Once!Next \/ UNCHANGED Mapped
  <2> DEFINE p == Body[a].op
  <2>1. p \in Ops /\ a # None
    BY Bodies
  <2>2. ASSUME NEW o \in Ops, consumed[o] # a \/ state'[a] = state[a]
        PROVE  ReportOf'[o] = ReportOf[o]
    <3>1. consumed[o] # None => consumed[o] \in Actions
      BY <2>2 DEF Rows
    <3> QED
      BY <1>1, <1>3, <2>2, <3>1, ReportFrame DEF Streams
  <2>3. CASE consumed[p] # a \/ state'[a] = state[a]
    <3>1. \A o \in Ops : consumed[o] = a => o = p
      BY <2>1 DEF Tombstones
    <3>2. \A o \in Ops : ReportOf'[o] = ReportOf[o]
      BY <2>2, <2>3, <3>1
    <3>3. ReportOf' = ReportOf
      BY <3>2 DEF ReportOf
    <3> QED
      BY <1>1, <3>3 DEF Mapped
  <2>4. CASE consumed[p] = a /\ state'[a] # state[a]
    <3>1. state[a] \in ConsumedStates
      BY <2>1, <2>4 DEF Tombstones
    <3>2. /\ state[a] \in {"DISPATCHING", "UNKNOWN"}
          /\ \/ state[a] = "DISPATCHING" /\ state'[a] = "UNKNOWN"
             \/ state'[a] \in {"SUCCEEDED", "FAILED"}
      <4>1. state[a] # "ABSENT" /\ state[a] # "OPEN"
        BY <3>1 DEF ConsumedStates, Settled
      <4>2. ~\E w \in Readings : Propose(a, w)
        <5>1. ASSUME NEW w \in Readings, Propose(a, w) PROVE FALSE
          BY <4>1, <5>1 DEF Propose, Admissible
        <5> QED
          BY <5>1
      <4> QED
        BY <1>3, <2>4, <3>1, <4>1, <4>2, Reports DEF Moves, Statuses
    <3>3. ReportOf[p] \in {"pending", "unknown"}
          /\ (state[a] = "DISPATCHING" => ReportOf[p] = "pending")
      BY <2>1, <2>4, <3>2, ReportValues
    <3>4. consumed'[p] = a /\ a # None
      BY <1>1, <2>1, <2>4
    <3> DEFINE r == ReportOf'[p]
    <3>5. /\ state'[a] = "UNKNOWN" => r = "unknown"
          /\ state'[a] = "SUCCEEDED" => r = "succeeded"
          /\ state'[a] = "FAILED" => r = "failed"
      BY <2>1, <3>4 DEF ReportOf
    <3>6. /\ state'[a] = "SUCCEEDED" => EffectCounts[p] = 1
          /\ state'[a] = "FAILED" => EffectCounts[p] = 0
      <4>1. /\ state'[a] = "SUCCEEDED" => ledger[p] = "succeeded"
            /\ state'[a] = "FAILED" => ledger[p] = "failed"
        BY DEF Truthful, providerVars
      <4> QED
        BY <2>1, <4>1 DEF Recorded, EffectCounts
    <3>7. \A o \in Ops : o # p => ReportOf'[o] = ReportOf[o]
      BY <2>1, <2>2 DEF Tombstones
    <3>8. ReportOf' = [ReportOf EXCEPT ![p] = r]
      BY <2>1, <3>7, ReportChange
    <3>9. r \in {"unknown", "succeeded", "failed"}
      BY <3>2, <3>5
    <3>10. Once!Report(p, r)
      BY <1>1, <3>2, <3>3, <3>5, <3>6, <3>8 DEF Once!Report, EffectCounts
    <3> QED
      BY <2>1, <3>9, <3>10 DEF Once!Next
  <2> QED
    BY <2>3, <2>4
<1> QED
  BY <1>2, <1>3 DEF OneMove

LEMMA OnceStep ==
  ASSUME IInv, IInv', [Next]_vars
  PROVE  Once!Next \/ UNCHANGED Mapped
<1>1. CASE \E w \in Readings : Consume(w)
  BY <1>1, ConsumeClaims
<1>2. CASE DispatchCall
  BY <1>2 DEF DispatchCall, Send, journalVars, Mapped, ReportOf, EffectCounts
<1>3. CASE ProviderNext
  BY <1>3, ProviderPerforms
<1>4. CASE UNCHANGED <<providerVars, sent, consumed>> /\ ~\E w \in Readings : Consume(w)
  BY <1>4, OneStateMoves, MoveReports DEF IInv
<1> QED
  BY <1>1, <1>2, <1>3, <1>4, Frame DEF IInv

LEMMA OnceInit ==
  ASSUME Init
  PROVE  Once!Init
<1>1. effects = [o \in Ops |-> <<>>] /\ consumed = [o \in Ops |-> None]
  BY DEF Init, ProviderInit
<1>2. \A o \in Ops : Len(effects[o]) = 0
  BY <1>1
<1>3. EffectCounts = [o \in Ops |-> 0]
  BY <1>2 DEF EffectCounts
<1>4. ReportOf = [o \in Ops |-> "none"]
  BY <1>1 DEF ReportOf
<1> QED
  BY <1>1, <1>3, <1>4 DEF Once!Init, EffectCounts

\* Seen from outside, the coordinator, its journal, its threads and its
\* provider are ConsumeOnce: an operation is claimed once by one action, takes
\* effect at most once, and its definite report is true and final.
THEOREM CoordinatorConsumesOnce == Spec => ImplementsConsumeOnce
<1>1. Init => Once!Init /\ Truthful
  BY OnceInit, Bodies DEF Init, Truthful
<1>2. Core /\ Truthful /\ [Next]_vars => Truthful'
  BY TruthfulStep
<1>3. IInv /\ IInv' /\ [Next]_vars => [Once!Next]_(Once!onceVars)
  BY OnceStep DEF Mapped, EffectCounts, Once!onceVars
<1> QED
  BY <1>1, <1>2, <1>3, CallsHold, PTL DEF Spec, ImplementsConsumeOnce, Once!Spec, IInv

=============================================================================
