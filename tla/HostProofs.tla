----------------------------- MODULE HostProofs -----------------------------
(***************************************************************************)
(* What clients and the provider can rely on, for any constants.  The      *)
(* simulator's ledger records what happened, a payment is refunded once,   *)
(* and every step of it is one the coordinator's Provider allows; a        *)
(* repeated request is answered and no answer shows a lapsed proposal as   *)
(* live; the rate limit bounds every window and lets a patient client in.  *)
(***************************************************************************)
EXTENDS Host, TLAPS, FiniteSetTheorems, WellFoundedInduction

-----------------------------------------------------------------------------
(* The simulator.                                                          *)

\* Each operation has the effects its record says, and each effect is the
\* affordable refund of a payment whose intent is that operation.
Recordings ==
  \A o \in Ops :
    /\ ledger[o] = "OK" => Len(effects[o]) = 1
    /\ ledger[o] # "OK" => effects[o] = <<>>

Covers(e, o, intents) ==
  LET b == Body[e.act] IN
  /\ b.payment \in Known
  /\ intents[b.payment] = o
  /\ b.amount <= Payments[b.payment].amount
  /\ b.currency = Payments[b.payment].currency
Intended ==
  \A o \in Ops : \A i \in DOMAIN effects[o] : Covers(effects[o][i], o, intent)

Inv == TypeOK /\ Recordings /\ Intended

LEMMA OpOfAction == \A a \in Actions : Body[a].op \in Ops
BY DEF Ops

LEMMA CodeIsCode ==
  ASSUME NEW req, NEW e
  PROVE  Code(req, e) \in Codes
BY DEF Code, Codes

\* What an accepted request has been checked for.
LEMMA Accepted ==
  ASSUME NEW req, NEW e, Code(req, e) = "OK"
  PROVE  LET b == Body[req.act] IN
         /\ ~Late(req, e)
         /\ b.payment \in Known
         /\ ~TakenByOther(req, b.payment)
         /\ ~(Payments[b.payment].amount < b.amount)
         /\ Payments[b.payment].currency = b.currency
BY DEF Code, TooMuch

LEMMA InvInit == Init => Inv
<1> SUFFICES ASSUME Init PROVE Inv
  OBVIOUS
<1>1. 1 \in Versions
  BY SimulatorAssumption DEF Versions
<1>2. TypeOK
  BY <1>1 DEF Init, TypeOK
<1> QED BY <1>2 DEF Init, Inv, Recordings, Intended, Unrecorded

LEMMA RefundStep ==
  ASSUME Inv, NEW req \in Requests, NEW e \in Readings,
         Body[req.act].wellFormed, ~Recorded(Body[req.act].op),
         ledger' = [ledger EXCEPT ![Body[req.act].op] = Code(req, e)],
         Code(req, e) = "OK", Refund(req, e), seen' = seen,
         wire' \subseteq wire
  PROVE  Inv'
<1> DEFINE o == Body[req.act].op
           p == Body[req.act].payment
           new == [act |-> req.act, at |-> e]
<1>1. /\ req.act \in Actions /\ o \in Ops /\ p \in Known /\ e \in Nat
      /\ new \in [act : Actions, at : Nat]
  BY OpOfAction, Accepted, SimulatorAssumption DEF Requests
<1>2. effects[o] = <<>>
  BY <1>1 DEF Inv, Recordings, Recorded, Unrecorded
<1>3. effects' = [effects EXCEPT ![o] = <<new>>]
  BY <1>1, <1>2 DEF Refund, Inv, TypeOK
<1>4. TypeOK'
  <2>1. version' \in [Known -> Versions]
    BY <1>1, SimulatorAssumption DEF Refund, Inv, TypeOK, Versions
  <2>2. intent' \in [Known -> Ops \union {None}]
    BY <1>1 DEF Refund, OperationIntent, Inv, TypeOK
  <2>3. <<new>> \in Seq([act : Actions, at : Nat])
    BY <1>1
  <2>4. effects' \in [Ops -> Seq([act : Actions, at : Nat])]
    BY <1>1, <1>3, <2>3 DEF Inv, TypeOK
  <2>5. ledger' \in [Ops -> Codes \union {Unrecorded}]
    BY <1>1, CodeIsCode DEF Inv, TypeOK
  <2> QED BY <2>1, <2>2, <2>4, <2>5 DEF Inv, TypeOK
<1>5. Recordings'
  BY <1>1, <1>3 DEF Inv, Recordings, TypeOK
<1>6. /\ intent'[p] = o
      /\ intent[p] = None \/ intent[p] = o
      /\ \A q \in Known : q # p => intent'[q] = intent[q]
  BY <1>1, Accepted DEF Refund, OperationIntent, TakenByOther, Inv, TypeOK
<1>7. ASSUME NEW x \in Ops, NEW i \in DOMAIN effects'[x]
      PROVE  Covers(effects'[x][i], x, intent')
  <2>1. CASE x = o
    <3>1. effects'[x][i] = new
      BY <1>1, <1>3, <1>7, <2>1 DEF Inv, TypeOK
    <3>2. /\ Body[req.act].amount \in Nat /\ Payments[p].amount \in Nat
          /\ Body[req.act].amount <= Payments[p].amount
      BY <1>1, Accepted, SimulatorAssumption
    <3>3. Payments[p].currency = Body[req.act].currency
      BY Accepted
    <3>4. new.act = req.act
      OBVIOUS
    <3> HIDE DEF new
    <3> QED BY <1>1, <1>6, <2>1, <3>1, <3>2, <3>3, <3>4 DEF Covers
  <2>2. CASE x # o
    <3>1. effects'[x] = effects[x]
      BY <1>1, <1>3, <2>2 DEF Inv, TypeOK
    <3>2. Covers(effects[x][i], x, intent)
      BY <1>7, <3>1 DEF Inv, Intended
    <3>3. x # None
      BY SimulatorAssumption
    <3> QED BY <1>6, <2>2, <3>1, <3>2, <3>3 DEF Covers
  <2> QED BY <2>1, <2>2
<1>8. Intended'
  BY <1>7 DEF Intended
<1> QED BY <1>4, <1>5, <1>8 DEF Inv

LEMMA InvStep == Inv /\ [Next]_vars => Inv'
<1> SUFFICES ASSUME Inv, [Next]_vars PROVE Inv'
  OBVIOUS
<1> USE DEF Inv
<1>1. ASSUME NEW a \in Actions, Inspect(a) PROVE Inv'
  BY <1>1 DEF Inspect, TypeOK, Recordings, Intended
<1>2. ASSUME NEW a \in Actions, NEW t \in Readings, NEW g \in Gates, Send(a, t, g)
      PROVE  Inv'
  <2> DEFINE q == [act |-> a, notAfter |-> t, seen |-> seen[a], gate |-> g]
  <2>1. seen[a] \in Versions \union {None}
    BY DEF TypeOK
  <2>2. q \in Requests
    BY <2>1 DEF Requests
  <2>3. wire' = wire \union {q} /\ UNCHANGED <<version, ledger, intent, effects, seen>>
    BY <1>2 DEF Send
  <2>4. TypeOK'
    BY <2>2, <2>3 DEF TypeOK
  <2> QED BY <2>3, <2>4 DEF Recordings, Intended
<1>3. ASSUME NEW req \in wire, NEW e \in Readings, Dispatch(req, e) PROVE Inv'
  <2>1. req \in Requests /\ wire' \subseteq wire /\ seen' = seen
    BY <1>3 DEF TypeOK, Dispatch
  <2>2. CASE UNCHANGED <<version, ledger, intent, effects>>
    <3>1. TypeOK'
      BY <2>1, <2>2 DEF TypeOK
    <3>2. Recordings' /\ Intended'
      BY <2>2 DEF Recordings, Intended
    <3> QED BY <3>1, <3>2
  <2>3. CASE /\ Body[req.act].wellFormed /\ ~Recorded(Body[req.act].op)
             /\ ledger' = [ledger EXCEPT ![Body[req.act].op] = Code(req, e)]
             /\ Code(req, e) = "OK" /\ Refund(req, e)
    BY <2>1, <2>3, RefundStep
  <2>4. CASE /\ ~Recorded(Body[req.act].op)
             /\ ledger' = [ledger EXCEPT ![Body[req.act].op] = Code(req, e)]
             /\ Code(req, e) # "OK" /\ UNCHANGED <<version, intent, effects>>
    <3>1. Body[req.act].op \in Ops
      BY <2>1, OpOfAction DEF Requests
    <3>2. ledger' \in [Ops -> Codes \union {Unrecorded}]
      BY <2>4, <3>1, CodeIsCode DEF TypeOK
    <3>3. Recordings'
      BY <2>4, <3>1 DEF TypeOK, Recordings, Recorded, Unrecorded
    <3>4. TypeOK'
      BY <2>1, <2>4, <3>2 DEF TypeOK
    <3>5. Intended'
      BY <2>4 DEF Intended
    <3> QED BY <3>3, <3>4, <3>5
  <2> QED BY <1>3, <2>2, <2>3, <2>4 DEF Dispatch
<1>4. ASSUME NEW req \in wire, Lose(req) PROVE Inv'
  <2>1. wire' \subseteq wire /\ UNCHANGED <<version, ledger, intent, effects, seen>>
    BY <1>4 DEF Lose
  <2>2. TypeOK'
    BY <2>1 DEF TypeOK
  <2> QED BY <2>1, <2>2 DEF Recordings, Intended
<1>5. ASSUME NEW p \in Known, Touch(p) PROVE Inv'
  <2>1. version' \in [Known -> Versions]
    BY <1>5, SimulatorAssumption DEF Touch, TypeOK, Versions
  <2>2. UNCHANGED <<ledger, intent, effects, seen, wire>>
    BY <1>5 DEF Touch
  <2>3. TypeOK'
    BY <2>1, <2>2 DEF TypeOK
  <2> QED BY <2>2, <2>3 DEF Recordings, Intended
<1>6. CASE UNCHANGED vars
  <2>1. UNCHANGED <<version, ledger, intent, effects, seen, wire>>
    BY <1>6 DEF vars
  <2>2. TypeOK'
    BY <2>1 DEF TypeOK
  <2>3. Recordings'
    BY <2>1 DEF Recordings
  <2>4. Intended'
    BY <2>1 DEF Intended
  <2> QED BY <2>2, <2>3, <2>4
<1> QED BY <1>1, <1>2, <1>3, <1>4, <1>5, <1>6 DEF Next

LEMMA InvAlways == Spec => []Inv
BY InvInit, InvStep, PTL DEF Spec

\* The tables keep their types.
THEOREM TypesHold == Spec => []TypeOK
BY InvAlways, PTL DEF Inv

\* The status lookup gives for each recorded result.
LEMMA LookupValues ==
  ASSUME NEW o \in Ops
  PROVE  /\ ledger[o] = Unrecorded => Lookup(o) = "unresolved"
         /\ ledger[o] = "OK" => Lookup(o) = "succeeded"
         /\ ledger[o] # Unrecorded /\ ledger[o] # "OK" => Lookup(o) = "failed"
BY DEF Lookup, Unrecorded

\* lookup tells the truth about effects, for any requests however repeated.
THEOREM RecordIsTruth == Spec => []RecordTellsEffects
<1>1. Inv => RecordTellsEffects
  <2> SUFFICES ASSUME Inv, NEW o \in Ops
               PROVE  Len(effects[o]) = IF Lookup(o) = "succeeded" THEN 1 ELSE 0
    BY DEF RecordTellsEffects
  <2>1. CASE ledger[o] = "OK"
    BY <2>1, LookupValues DEF Inv, Recordings
  <2>2. CASE ledger[o] # "OK"
    <3>1. effects[o] = <<>> /\ Lookup(o) # "succeeded"
      BY <2>2, LookupValues DEF Inv, Recordings
    <3> QED BY <3>1
  <2> QED BY <2>1, <2>2
<1> QED BY <1>1, InvAlways, PTL

\* A payment is refunded once and never beyond what it holds.
THEOREM PaymentsCovered == Spec => []RefundsCovered
<1>1. ASSUME Inv PROVE RefundsCovered
  <2>1. ASSUME NEW o1 \in Ops, NEW o2 \in Ops, NEW i \in DOMAIN effects[o1],
               NEW j \in DOMAIN effects[o2],
               Body[effects[o1][i].act].payment = Body[effects[o2][j].act].payment
        PROVE  o1 = o2 /\ i = j
    <3>1. o1 = o2
      BY <1>1, <2>1 DEF Inv, Intended, Covers
    <3>2. /\ effects[o1] \in Seq([act : Actions, at : Nat])
          /\ Len(effects[o1]) = 1 \/ effects[o1] = <<>>
      BY <1>1 DEF Inv, TypeOK, Recordings
    <3> QED BY <2>1, <3>1, <3>2
  <2>2. ASSUME NEW o \in Ops, NEW i \in DOMAIN effects[o]
        PROVE  Covers(effects[o][i], o, intent)
    BY <1>1, <2>2 DEF Inv, Intended
  <2> SUFFICES ASSUME NEW o1 \in Ops, NEW o2 \in Ops, NEW i \in DOMAIN effects[o1],
                      NEW j \in DOMAIN effects[o2],
                      Body[effects[o1][i].act].payment = Body[effects[o2][j].act].payment
               PROVE  /\ o1 = o2 /\ i = j
                      /\ Covers(effects[o1][i], o1, intent)
    BY DEF RefundsCovered, Covers
  <2> QED BY <2>1, <2>2
<1> QED BY <1>1, InvAlways, PTL

-----------------------------------------------------------------------------
LEMMA AbstractInit == Init => P!ProviderInit
<1> SUFFICES ASSUME Init PROVE P!ProviderInit
  OBVIOUS
<1>1. P!Ops = Ops
  BY DEF P!Ops, Ops
<1>2. \A o \in Ops : Lookup(o) = "unresolved"
  BY LookupValues DEF Init
<1> QED BY <1>1, <1>2 DEF Init, P!ProviderInit

\* The mapped variables are unchanged when the simulator's are.
LEMMA AbstractStutter ==
  ASSUME UNCHANGED <<ledger, effects>>,
         {Abstract(req) : req \in wire}' = {Abstract(req) : req \in wire}
  PROVE  UNCHANGED P!providerVars
BY DEF P!providerVars, Lookup

LEMMA AbstractStep ==
  ASSUME Inv, [Next]_vars
  PROVE  [ProviderStep]_(P!providerVars)
<1> DEFINE aw == {Abstract(req) : req \in wire}
           al == [o \in Ops |-> Lookup(o)]
<1>1. ASSUME NEW a \in Actions, Inspect(a) PROVE UNCHANGED P!providerVars
  BY <1>1, AbstractStutter DEF Inspect
<1>2. ASSUME NEW a \in Actions, NEW t \in Readings, NEW g \in Gates, Send(a, t, g)
      PROVE  ProviderStep
  <2> DEFINE r == [act |-> a, notAfter |-> t]
  <2>1. r \in ProviderRequests
    BY DEF ProviderRequests
  <2>2. aw' = aw \union {r} /\ UNCHANGED <<ledger, effects>>
    <3> DEFINE q == [act |-> a, notAfter |-> t, seen |-> seen[a], gate |-> g]
    <3>1. wire' = wire \union {q} /\ UNCHANGED <<ledger, effects>>
      BY <1>2 DEF Send
    <3>2. Abstract(q) = r
      BY DEF Abstract
    <3>3. aw' = {Abstract(req) : req \in wire \union {q}}
      BY <3>1 DEF Abstract
    <3> HIDE DEF q
    <3>4. {Abstract(req) : req \in wire \union {q}} = aw \union {Abstract(q)}
      OBVIOUS
    <3> QED BY <3>1, <3>2, <3>3, <3>4
  <2>3. al' = al
    BY <2>2 DEF Lookup
  <2>4. P!Send(r)
    BY <2>2, <2>3 DEF P!Send
  <2> QED BY <2>1, <2>4 DEF ProviderStep
<1>3. ASSUME NEW req \in wire, aw' # aw, wire' = wire \ {req}, UNCHANGED <<ledger, effects>>
      PROVE  ProviderStep
  <2>1. Abstract(req) \in ProviderRequests /\ Abstract(req) \in aw
    BY DEF Inv, TypeOK, Requests, ProviderRequests, Abstract
  <2>2. aw' = aw \ {Abstract(req)}
    BY <1>3
  <2>3. al' = al
    BY <1>3 DEF Lookup
  <2>4. P!Drop(Abstract(req))
    BY <1>3, <2>1, <2>2, <2>3 DEF P!Drop
  <2> QED BY <2>1, <2>4 DEF ProviderStep
<1>4. ASSUME NEW req \in wire, Lose(req)
      PROVE  ProviderStep \/ UNCHANGED P!providerVars
  BY <1>3, <1>4, AbstractStutter DEF Lose
<1>5. ASSUME NEW req \in wire, NEW e \in Readings, Dispatch(req, e)
      PROVE  ProviderStep \/ UNCHANGED P!providerVars
  <2> DEFINE r == Abstract(req)
             o == Body[req.act].op
  <2>1. /\ req \in Requests /\ r \in ProviderRequests /\ r \in aw /\ o \in Ops
        /\ r.act = req.act /\ r.notAfter = req.notAfter
    BY OpOfAction DEF Inv, TypeOK, Requests, ProviderRequests, Abstract
  <2>2. aw' = aw \/ aw' = aw \ {r}
    BY <1>5 DEF Dispatch
  <2>3. CASE UNCHANGED <<ledger, effects>>
    BY <1>3, <1>5, <2>3, AbstractStutter DEF Dispatch
  <2>4. CASE /\ ~Recorded(o)
             /\ ledger' = [ledger EXCEPT ![o] = Code(req, e)]
             /\ Code(req, e) # "OK" /\ UNCHANGED effects
    <3>1. al[o] = "unresolved"
      BY <2>1, <2>4, LookupValues DEF Recorded
    <3>2. al' = [al EXCEPT ![o] = "failed"]
      <4>1. Code(req, e) # Unrecorded
        BY CodeIsCode DEF Codes, Unrecorded
      <4>2. ledger'[o] = Code(req, e) /\ \A x \in Ops : x # o => ledger'[x] = ledger[x]
        BY <2>1, <2>4 DEF Inv, TypeOK
      <4>3. \A x \in Ops : x # o => Lookup(x)' = Lookup(x)
        BY <4>2 DEF Lookup
      <4>4. Lookup(o)' = "failed"
        BY <2>4, <4>1, <4>2 DEF Lookup
      <4> QED BY <2>1, <4>3, <4>4
    <3>3. P!Execute(r, e)
      BY <2>1, <2>2, <2>4, <3>1, <3>2 DEF P!Execute, P!AlreadyRecorded
    <3> QED BY <2>1, <3>3 DEF ProviderStep
  <2>5. CASE /\ ~Recorded(o)
             /\ ledger' = [ledger EXCEPT ![o] = Code(req, e)]
             /\ Code(req, e) = "OK" /\ Refund(req, e)
    <3>1. al[o] = "unresolved"
      BY <2>1, <2>5, LookupValues DEF Recorded
    <3>2. al' = [al EXCEPT ![o] = "succeeded"]
      <4>1. ledger'[o] = "OK" /\ \A x \in Ops : x # o => ledger'[x] = ledger[x]
        BY <2>1, <2>5 DEF Inv, TypeOK
      <4> QED BY <2>1, <4>1 DEF Lookup, Unrecorded
    <3>3. ~P!PastDeadline(r, e)
      BY <2>1, <2>5, Accepted DEF P!PastDeadline, Late
    <3>4. effects' = [effects EXCEPT ![o] = Append(@, [act |-> r.act, at |-> e])]
      BY <2>1, <2>5 DEF Refund
    <3>5. P!Execute(r, e)
      BY <2>1, <2>2, <3>1, <3>2, <3>3, <3>4 DEF P!Execute, P!AlreadyRecorded
    <3> QED BY <2>1, <3>5 DEF ProviderStep
  <2> QED BY <1>5, <2>3, <2>4, <2>5 DEF Dispatch
<1>6. ASSUME NEW p \in Known, Touch(p) PROVE UNCHANGED P!providerVars
  BY <1>6, AbstractStutter DEF Touch
<1>7. CASE UNCHANGED vars
  BY <1>7, AbstractStutter DEF vars
<1> QED BY <1>1, <1>2, <1>4, <1>5, <1>6, <1>7 DEF Next

\* The simulator is a Provider: what the coordinator is verified against is
\* what its reference executor does.
THEOREM SimulatorIsProvider == Spec => ImplementsProvider
<1>1. Inv /\ [Next]_vars => [ProviderStep]_(P!providerVars)
  BY AbstractStep
<1> QED BY <1>1, AbstractInit, InvAlways, PTL DEF Spec, ImplementsProvider

-----------------------------------------------------------------------------
(* Requests under idempotency keys.                                        *)

\* A proposal is stored under its own id.
RowsTyped ==
  /\ rows \in [R!Ids -> R!Rows \union {None}]
  /\ \A p \in R!Ids : rows[p] # None => rows[p].action.id = p

\* What has taken effect has left its proposal, under the action it names.
Leaves(g) == IF g.method = "propose" THEN R!Mine(g.body) ELSE rows[g.body.id] # None
Traced == \A g \in granted : g \in R!Requests /\ Leaves(g)

\* Of what took effect only commits can be unrecorded, whose proposals are
\* consumed for good.
Final(g) == g.method = "commit" /\ rows[g.body.id].state \in R!Consumed
Accounted ==
  /\ recorded \subseteq granted
  /\ call # None => call \in granted
  /\ \A g \in granted \ recorded : Final(g)

RequestInv == RowsTyped /\ Traced /\ Accounted

LEMMA EntryIsRequest == ASSUME NEW r \in R!Requests PROVE R!Entry(r) = r
BY DEF R!Entry, R!Requests

LEMMA BodiesOf ==
  /\ R!Bodies("propose") = Proposals
  /\ R!Bodies("submit") = [id : R!Ids, rev : R!Revisions, decision : {"approve", "reject"}]
  /\ \A m \in {"cancel", "escalate", "commit"} :
       R!Bodies(m) = [id : R!Ids, rev : R!Revisions]
BY DEF R!Bodies

\* A request is about a proposal, and a vote is one of two decisions.
LEMMA BodiesNamed ==
  ASSUME NEW r \in R!Requests
  PROVE  /\ r.method = "propose" => r.body \in Proposals
         /\ r.body.id \in R!Ids
         /\ r.method = "submit" => r.body.decision \in {"approve", "reject"}
         /\ r.method \in {"propose", "submit", "cancel", "escalate", "commit"}
<1>1. PICK m \in Methods : r \in [method : {m}, key : ReqIds, body : R!Bodies(m)]
  BY DEF R!Requests
<1>2. m \in {"propose", "submit", "cancel", "escalate", "commit"}
  BY HostAssumption DEF R!RequestsAssumption
<1>3. r.method = m /\ r.body \in R!Bodies(m)
  BY <1>1
<1>4. CASE m = "propose"
  <2>1. r.body \in Proposals
    BY <1>3, <1>4, BodiesOf
  <2> QED BY <2>1, <1>3, <1>4 DEF R!Ids
<1>5. CASE m = "submit"
  <2>1. r.body \in [id : R!Ids, rev : R!Revisions, decision : {"approve", "reject"}]
    BY <1>3, <1>5, BodiesOf
  <2> QED BY <2>1, <1>3, <1>5
<1>6. CASE m \in {"cancel", "escalate", "commit"}
  <2>1. r.body \in [id : R!Ids, rev : R!Revisions]
    BY <1>3, <1>6, BodiesOf
  <2> QED BY <2>1, <1>3, <1>6
<1> QED BY <1>2, <1>4, <1>5, <1>6

\* How a step may rewrite the row of one proposal: its action stays, and so
\* does the consumption.
Rewrites(p, row) ==
  /\ row \in R!Rows /\ row.action.id = p
  /\ rows[p] # None => /\ row.action = rows[p].action
                       /\ rows[p].state \in R!Consumed => row.state \in R!Consumed
  /\ rows' = [rows EXCEPT ![p] = row]

LEMMA RowKept ==
  ASSUME RowsTyped, Traced, NEW p \in R!Ids, NEW row, Rewrites(p, row)
  PROVE  /\ RowsTyped'
         /\ \A g \in granted : Leaves(g)' /\ (Final(g) => Final(g)')
<1>1. row # None
  BY HostAssumption DEF R!RequestsAssumption, Rewrites
<1>2. RowsTyped'
  BY <1>1 DEF Rewrites, RowsTyped
<1>3. ASSUME NEW g \in granted PROVE Leaves(g)' /\ (Final(g) => Final(g)')
  <2>1. g.body.id \in R!Ids /\ Leaves(g)
    BY BodiesNamed DEF Traced
  <2> QED BY <1>1, <2>1 DEF Rewrites, RowsTyped, Leaves, Final, R!Mine
<1> QED BY <1>2, <1>3

LEMMA AfterIsRow ==
  ASSUME NEW row \in R!Rows, NEW s \in R!States, NEW n \in Nat
  PROVE  /\ R!After(row, s, n) \in R!Rows
         /\ R!After(row, s, n).action = row.action
         /\ R!After(row, s, n).state = s
         /\ R!After(row, s, n).vote = row.vote
<1>1. row.revision + n \in Nat
  BY DEF R!Rows
<1> QED BY <1>1 DEF R!After, R!Rows

\* A request in progress is not in the way of its own kind: under its key
\* only it has taken effect, so nothing conflicts with a repetition.
LEMMA NoConflict ==
  ASSUME RequestInv, NEW r \in R!Requests, r \in granted \/ R!Again(r), R!Conflict(r),
         \A g \in granted : g.method = r.method /\ g.key = r.key => g = r
  PROVE  FALSE
<1>1. PICK x \in recorded : x.method = r.method /\ x.key = r.key
  BY DEF R!Conflict, R!Known
<1>2. x = r
  BY <1>1 DEF RequestInv, Accounted
<1> QED BY <1>1, <1>2, EntryIsRequest DEF R!Conflict

\* What the handling of a request does to the journal: nothing, a change of one
\* row, or an effect of the request that is recorded, if it is no commit, or
\* remembered as the call in progress.
Effect(r) ==
  \/ UNCHANGED <<rows, recorded, granted, call>>
  \/ /\ \E p \in R!Ids, row \in R!Rows : Rewrites(p, row)
     /\ UNCHANGED <<recorded, granted, call>>
  \/ /\ \E row \in R!Rows : Rewrites(r.body.id, row)
     /\ r.method = "propose" => rows'[r.body.id].action = r.body
     /\ granted' = granted \union {r}
     /\ recorded' = recorded \union {r} /\ UNCHANGED call
  \/ /\ \E row \in R!Rows : Rewrites(r.body.id, row) /\ row.state \in R!Consumed
     /\ r.method = "commit"
     /\ granted' = granted \union {r}
     /\ call' = r /\ UNCHANGED recorded

LEMMA GrantEffect ==
  ASSUME RequestInv, NEW r \in R!Requests, NEW row \in R!Rows,
         Rewrites(r.body.id, row) \/ rows[r.body.id] = None,
         row.action.id = r.body.id, r.method = "propose" => row.action = r.body,
         R!Grant(r, row)
  PROVE  Effect(r)
<1>1. Rewrites(r.body.id, row)
  BY DEF R!Grant, R!Leave, Rewrites
<1>2. granted' = granted \union {r} /\ recorded' = recorded \union {r} /\ UNCHANGED call
  BY EntryIsRequest DEF R!Grant, R!Record
<1>3. rows'[r.body.id] = row
  BY <1>1, BodiesNamed DEF Rewrites, RequestInv, RowsTyped
<1> QED BY <1>1, <1>2, <1>3 DEF Effect

LEMMA ExpireEffect ==
  ASSUME RequestInv, NEW r \in R!Requests, NEW p \in R!Ids, rows[p] # None,
         R!Due(rows[p]), R!Expire(r, rows[p])
  PROVE  Effect(r) /\ last'.answer = "view"
<1>1. rows[p] \in R!Rows /\ rows[p].action.id = p /\ rows[p].state \in R!Live
  BY DEF RequestInv, RowsTyped, R!Due
<1>2. DEFINE row == R!After(rows[p], "EXPIRED", 1)
<1>3. row \in R!Rows /\ row.action = rows[p].action
  <2>1. "EXPIRED" \in R!States /\ 1 \in Nat
    BY DEF R!States
  <2> QED BY <1>1, <2>1, AfterIsRow
<1>4. Rewrites(p, row)
  BY <1>1, <1>3 DEF R!Expire, R!Leave, Rewrites, R!Live, R!Consumed
<1> QED BY <1>3, <1>4 DEF Effect, R!Expire, R!Leave, R!Reply

LEMMA ProposeEffect ==
  ASSUME RequestInv, NEW r \in R!Requests, r.method = "propose", R!Propose(r)
  PROVE  Effect(r)
<1> DEFINE a == r.body
<1>1. a \in Proposals /\ a.id \in R!Ids
  BY BodiesNamed
<1>2. CASE UNCHANGED <<rows, recorded, granted, call>>
  BY <1>2 DEF Effect
<1>3. CASE rows[a.id] # None /\ R!Due(rows[a.id]) /\ R!Expire(r, rows[a.id])
  BY <1>1, <1>3, ExpireEffect
<1>4. CASE /\ rows[a.id] = None
           /\ R!Grant(r, [action |-> a, state |-> "OPEN", revision |-> 1, vote |-> None])
  <2> DEFINE row == [action |-> a, state |-> "OPEN", revision |-> 1, vote |-> None]
  <2>1. row \in R!Rows /\ row.action = a
    BY <1>1 DEF R!Rows, R!States, R!Live
  <2> QED BY <1>1, <1>4, <2>1, GrantEffect
<1>5. ~R!Conflict(r) /\ (R!Known(r) \/ R!Mine(a)) => rows[a.id] # None
  BY EntryIsRequest DEF RequestInv, Traced, Accounted, Leaves, R!Conflict, R!Mine
<1> QED BY <1>2, <1>3, <1>4, <1>5 DEF R!Propose, R!Refuse, R!Show

\* What the handlers of a stored proposal know of its row.
OfRow(r, row) ==
  /\ r \in R!Requests /\ r.method # "propose"
  /\ row = rows[r.body.id] /\ row # None
  /\ row \in R!Rows /\ row.action.id = r.body.id

LEMMA ChangeEffect ==
  ASSUME RequestInv, NEW r, NEW row, OfRow(r, row),
         NEW changed \in R!Rows, changed.action = row.action, R!Change(r, row, changed)
  PROVE  Effect(r)
<1>1. CASE UNCHANGED <<rows, recorded, granted, call>>
  BY <1>1 DEF Effect
<1>2. CASE row.state \in R!Live /\ R!Grant(r, changed)
  <2>1. Rewrites(r.body.id, changed)
    BY <1>2 DEF R!Grant, R!Leave, Rewrites, OfRow, R!Live, R!Consumed
  <2> QED BY <1>2, <2>1, GrantEffect DEF OfRow
<1> QED BY <1>1, <1>2 DEF R!Change, R!Refuse

LEMMA SubmitEffect ==
  ASSUME RequestInv, NEW r, NEW row, OfRow(r, row), r.method = "submit", R!Submit(r, row)
  PROVE  Effect(r)
<1> DEFINE d == r.body.decision
           s == IF d = "approve" THEN "READY" ELSE "ESCALATED"
           changed == [R!After(row, s, 2) EXCEPT !.vote = d]
<1>1. CASE UNCHANGED <<rows, recorded, granted, call>>
  BY <1>1 DEF Effect
<1>2. CASE R!Change(r, row, changed)
  <2>1. s \in R!States /\ 2 \in Nat /\ d \in {"approve", "reject"}
    BY BodiesNamed DEF OfRow, R!States, R!Live
  <2>2. R!After(row, s, 2) \in R!Rows /\ R!After(row, s, 2).action = row.action
    BY <2>1, AfterIsRow DEF OfRow
  <2> HIDE DEF s
  <2>3. changed \in R!Rows /\ changed.action = row.action
    BY <2>1, <2>2 DEF R!Rows
  <2> QED BY <1>2, <2>3, ChangeEffect
<1> QED BY <1>1, <1>2 DEF R!Submit, R!Refuse, R!Show

LEMMA WithdrawEffect ==
  ASSUME RequestInv, NEW r, NEW row, OfRow(r, row),
         R!Cancel(r, row) \/ R!Escalate(r, row)
  PROVE  Effect(r)
<1>1. 1 \in Nat /\ "CANCELED" \in R!States /\ "ESCALATED" \in R!States
  BY DEF R!States
<1>2. \A s \in {"CANCELED", "ESCALATED"} :
        R!After(row, s, 1) \in R!Rows /\ R!After(row, s, 1).action = row.action
  BY <1>1, AfterIsRow DEF OfRow
<1> QED BY <1>2, ChangeEffect DEF R!Cancel, R!Escalate

LEMMA CommitEffect ==
  ASSUME RequestInv, NEW r, NEW row, OfRow(r, row), r.method = "commit", R!Commit(r, row)
  PROVE  Effect(r)
<1>1. CASE UNCHANGED <<rows, recorded, granted, call>>
  BY <1>1 DEF Effect
<1>2. ASSUME row.state = "READY", NEW s \in {"STALE", "DISPATCHING"},
             rows' = [rows EXCEPT ![row.action.id] = R!After(row, s, 1)]
      PROVE  /\ R!After(row, s, 1) \in R!Rows
             /\ Rewrites(r.body.id, R!After(row, s, 1))
             /\ R!After(row, s, 1).state = s
  <2>1. s \in R!States /\ 1 \in Nat
    BY DEF R!States, R!Consumed
  <2>2. /\ R!After(row, s, 1) \in R!Rows
        /\ R!After(row, s, 1).action = row.action
        /\ R!After(row, s, 1).state = s
    BY <2>1, AfterIsRow DEF OfRow
  <2> QED BY <1>2, <2>2 DEF Rewrites, OfRow, R!Consumed
<1>3. CASE /\ row.state = "READY" /\ R!Leave(r, R!After(row, "STALE", 1))
           /\ UNCHANGED <<recorded, granted, call>>
  <2>1. R!After(row, "STALE", 1).action = row.action
    <3>1. "STALE" \in R!States /\ 1 \in Nat
      BY DEF R!States
    <3> QED BY <3>1, AfterIsRow DEF OfRow
  <2>2. rows' = [rows EXCEPT ![row.action.id] = R!After(row, "STALE", 1)]
    BY <1>3, <2>1 DEF R!Leave
  <2> QED BY <1>2, <1>3, <2>2, BodiesNamed DEF Effect, OfRow
<1>4. CASE /\ row.state = "READY"
           /\ rows' = [rows EXCEPT ![row.action.id] = R!After(row, "DISPATCHING", 1)]
           /\ granted' = granted \union {r} /\ call' = r /\ UNCHANGED recorded
  BY <1>2, <1>4 DEF Effect, R!Consumed
<1> QED BY <1>1, <1>3, <1>4 DEF R!Commit, R!Refuse, R!Show

LEMMA SendEffect ==
  ASSUME RequestInv, NEW r \in R!Requests, R!Send(r)
  PROVE  Effect(r)
<1> DEFINE row == rows[r.body.id]
<1>1. CASE r.method = "propose"
  BY <1>1, ProposeEffect DEF R!Send
<1>2. CASE r.method # "propose" /\ row = None
  BY <1>2 DEF R!Send, R!OnProposal, R!Refuse, Effect
<1>3. CASE r.method # "propose" /\ row # None
  <2>1. OfRow(r, row)
    BY <1>3, BodiesNamed DEF OfRow, RequestInv, RowsTyped
  <2>2. CASE UNCHANGED <<rows, recorded, granted, call>>
    BY <2>2 DEF Effect
  <2>3. CASE R!Due(row) /\ R!Expire(r, row)
    BY <1>3, <2>3, BodiesNamed, ExpireEffect
  <2>4. CASE r.method = "submit" /\ R!Submit(r, row)
    BY <2>1, <2>4, SubmitEffect
  <2>5. CASE R!Cancel(r, row) \/ R!Escalate(r, row)
    BY <2>1, <2>5, WithdrawEffect
  <2>6. CASE r.method = "commit" /\ R!Commit(r, row)
    BY <2>1, <2>6, CommitEffect
  <2> QED BY <1>3, <2>2, <2>3, <2>4, <2>5, <2>6
       DEF R!Send, R!OnProposal, R!DueFirst, R!Refuse, R!Show
<1> QED BY <1>1, <1>2, <1>3

\* An effect keeps the invariant.
LEMMA EffectKeeps ==
  ASSUME RequestInv, NEW r \in R!Requests, Effect(r)
  PROVE  RequestInv'
<1>1. CASE UNCHANGED <<rows, recorded, granted, call>>
  BY <1>1 DEF RequestInv, RowsTyped, Traced, Leaves, Accounted, Final, R!Mine
<1>2. ASSUME NEW p \in R!Ids, NEW row, Rewrites(p, row)
      PROVE  /\ RowsTyped' /\ \A g \in granted : Leaves(g)' /\ (Final(g) => Final(g)')
  BY <1>2, RowKept DEF RequestInv
<1>3. r.body.id \in R!Ids
  BY BodiesNamed
<1>4. CASE /\ \E p \in R!Ids, row \in R!Rows : Rewrites(p, row)
           /\ UNCHANGED <<recorded, granted, call>>
  BY <1>2, <1>4 DEF RequestInv, Traced, Accounted
<1>5. ASSUME NEW row \in R!Rows, Rewrites(r.body.id, row)
      PROVE  rows'[r.body.id] = row /\ row # None
  BY <1>3, <1>5, HostAssumption DEF R!RequestsAssumption, Rewrites, RequestInv, RowsTyped
<1>6. CASE /\ \E row \in R!Rows : Rewrites(r.body.id, row)
           /\ r.method = "propose" => rows'[r.body.id].action = r.body
           /\ granted' = granted \union {r}
           /\ recorded' = recorded \union {r} /\ UNCHANGED call
  <2>1. Leaves(r)'
    BY <1>5, <1>6 DEF Leaves, R!Mine
  <2> QED BY <1>2, <1>3, <1>6, <2>1 DEF RequestInv, Traced, Accounted
<1>7. CASE /\ \E row \in R!Rows : Rewrites(r.body.id, row) /\ row.state \in R!Consumed
           /\ r.method = "commit"
           /\ granted' = granted \union {r}
           /\ call' = r /\ UNCHANGED recorded
  <2>1. Leaves(r)' /\ Final(r)'
    BY <1>5, <1>7 DEF Leaves, Final
  <2> QED BY <1>2, <1>3, <1>7, <2>1 DEF RequestInv, Traced, Accounted
<1> QED BY <1>1, <1>4, <1>6, <1>7 DEF Effect

\* Rows change one at a time, or as a recovery changes them all.
LEMMA ReportKeeps ==
  ASSUME RequestInv, NEW p \in R!Ids, R!Report(p)
  PROVE  RequestInv'
<1>1. PICK s \in {"SUCCEEDED", "UNKNOWN"} :
        rows' = [rows EXCEPT ![p] = R!After(rows[p], s, 1)]
  BY DEF R!Report
<1>2. rows[p] \in R!Rows /\ rows[p].action.id = p
  BY DEF R!Report, RequestInv, RowsTyped
<1>3. s \in R!States /\ 1 \in Nat
  BY DEF R!States, R!Consumed
<1>4. /\ R!After(rows[p], s, 1) \in R!Rows
      /\ R!After(rows[p], s, 1).action = rows[p].action
      /\ R!After(rows[p], s, 1).state \in R!Consumed
  BY <1>2, <1>3, AfterIsRow DEF R!Consumed
<1>5. Rewrites(p, R!After(rows[p], s, 1))
  BY <1>1, <1>2, <1>4 DEF Rewrites
<1> QED BY <1>5, RowKept DEF R!Report, RequestInv, Traced, Accounted

LEMMA CrashKeeps ==
  ASSUME RequestInv, R!Crash
  PROVE  RequestInv'
<1>1. ASSUME NEW p \in R!Ids
      PROVE  \/ rows'[p] = rows[p]
             \/ /\ rows[p] # None /\ rows'[p] \in R!Rows
                /\ rows'[p].action = rows[p].action /\ rows'[p].state = "UNKNOWN"
  <2>1. rows[p] # None => rows[p] \in R!Rows
    BY DEF RequestInv, RowsTyped
  <2>2. "UNKNOWN" \in R!States /\ 1 \in Nat
    BY DEF R!States, R!Consumed
  <2> QED BY <2>1, <2>2, AfterIsRow DEF R!Crash
<1>2. rows' = [p \in R!Ids |-> rows'[p]]
  BY DEF R!Crash
<1>3. None \notin R!Rows
  BY HostAssumption DEF R!RequestsAssumption
<1>4. RowsTyped'
  BY <1>1, <1>2, <1>3 DEF RequestInv, RowsTyped
<1>5. ASSUME NEW g \in granted PROVE Leaves(g)' /\ (Final(g) => Final(g)')
  <2>1. g.body.id \in R!Ids /\ Leaves(g)
    BY BodiesNamed DEF RequestInv, Traced
  <2> QED BY <1>1, <1>3, <2>1 DEF Leaves, Final, R!Mine, R!Consumed
<1> QED BY <1>4, <1>5 DEF R!Crash, RequestInv, Traced, Accounted

LEMMA RequestInvInit == R!Init => RequestInv
BY DEF R!Init, RequestInv, RowsTyped, Traced, Accounted

LEMMA RequestInvStep == RequestInv /\ [R!Next]_R!vars => RequestInv'
<1> SUFFICES ASSUME RequestInv, [R!Next]_R!vars PROVE RequestInv'
  OBVIOUS
<1>1. ASSUME NEW r \in R!Requests, R!Send(r) PROVE RequestInv'
  BY <1>1, SendEffect, EffectKeeps
<1>2. ASSUME NEW p \in R!Ids, R!Report(p) PROVE RequestInv'
  BY <1>2, ReportKeeps
<1>3. CASE R!Return
  <2>1. call \in granted /\ recorded' = recorded \union {call}
    BY <1>3, EntryIsRequest DEF R!Return, R!Record, RequestInv, Traced, Accounted
  <2> QED BY <1>3, <2>1 DEF R!Return, RequestInv, RowsTyped, Traced, Leaves, Accounted,
                            Final, R!Mine
<1>4. CASE R!Raise
  BY <1>4 DEF R!Raise, RequestInv, RowsTyped, Traced, Leaves, Accounted, Final, R!Mine
<1>5. CASE R!Crash
  BY <1>5, CrashKeeps
<1>6. CASE UNCHANGED <<rows, consumed, recorded, call, granted, last, crashes>>
  BY <1>6 DEF RequestInv, RowsTyped, Traced, Leaves, Accounted, Final, R!Mine
<1> QED BY <1>1, <1>2, <1>3, <1>4, <1>5, <1>6 DEF R!Next, R!Lapse, R!vars

LEMMA RequestInvAlways == R!Spec => []RequestInv
BY RequestInvInit, RequestInvStep, PTL DEF R!Spec

-----------------------------------------------------------------------------
\* The answer to a request that took effect before.
LEMMA AnsweredAgain ==
  ASSUME RequestInv, NEW r \in R!Requests, R!Send(r), R!Again(r), ~UNCHANGED last
  PROVE  last'.answer = "view"
<1>1. ~R!Conflict(r)
  BY NoConflict DEF R!Send
<1>2. PICK g \in granted : /\ g.method = r.method /\ g.body = r.body
                           /\ g.key = r.key \/ r.method = "propose"
  BY DEF R!Again
<1>3. CASE r.method = "propose"
  <2>1. R!Mine(r.body)
    BY <1>2, <1>3 DEF RequestInv, Traced, Leaves
  <2> QED BY <1>1, <1>3, <2>1 DEF R!Send, R!Propose, R!Expire, R!Leave, R!Show, R!Reply
<1>4. CASE r.method # "propose"
  <2>1. g = r
    BY <1>2, <1>4 DEF R!Send
  <2>2. rows[r.body.id] # None
    BY <1>2, <1>4, <2>1 DEF RequestInv, Traced, Leaves
  <2>3. r \in recorded => R!Known(r)
    BY DEF R!Known
  <2>4. r \notin recorded => r.method = "commit" /\ rows[r.body.id].state \in R!Consumed
    BY <1>2, <2>1 DEF RequestInv, Accounted, Final
  <2>5. r.method = "commit" /\ rows[r.body.id].state \in R!Consumed
          /\ R!Commit(r, rows[r.body.id]) => last'.answer = "view"
    BY DEF R!Commit, R!Show, R!Reply, R!Consumed
  <2> QED BY <1>1, <1>4, <2>2, <2>3, <2>4, <2>5
       DEF R!Send, R!OnProposal, R!Expire, R!Leave, R!Show, R!Reply
<1> QED BY <1>3, <1>4

LEMMA RepliesSay ==
  ASSUME NEW r
  PROVE  /\ \A code : R!Refuse(r, code) => last'.again = R!Again(r)
         /\ \A row : R!Show(r, row) \/ R!Leave(r, row) => last'.again = R!Again(r)
         /\ \A row : R!Expire(r, row) \/ R!Grant(r, row) => last'.again = R!Again(r)
BY DEF R!Reply, R!Refuse, R!Show, R!Leave, R!Expire, R!Grant

LEMMA AnswerSays ==
  ASSUME NEW r, R!Send(r), ~UNCHANGED last
  PROVE  last'.again = R!Again(r)
<1>1. CASE r.method = "propose"
  BY <1>1, RepliesSay DEF R!Send, R!Propose
<1>2. CASE r.method # "propose"
  <2> DEFINE row == rows[r.body.id]
  <2>1. ASSUME NEW changed, R!Change(r, row, changed) PROVE last'.again = R!Again(r)
    BY <2>1, RepliesSay DEF R!Change
  <2>2. CASE R!Submit(r, row)
    BY <2>1, <2>2, RepliesSay DEF R!Submit
  <2>3. CASE R!Cancel(r, row) \/ R!Escalate(r, row)
    BY <2>1, <2>3 DEF R!Cancel, R!Escalate
  <2>4. CASE R!Commit(r, row)
    BY <2>4, RepliesSay DEF R!Commit
  <2>5. R!OnProposal(r)
    BY <1>2 DEF R!Send
  <2>6. \/ last'.again = R!Again(r)
        \/ R!Submit(r, row) \/ R!Cancel(r, row) \/ R!Escalate(r, row) \/ R!Commit(r, row)
    BY <2>5, RepliesSay DEF R!OnProposal
  <2> QED BY <2>2, <2>3, <2>4, <2>6
<1> QED BY <1>1, <1>2

\* For any client that keeps a key for one request, any proposals and limits,
\* and over any crashes: a request that took effect is answered when repeated.
THEOREM RetriesAnswered == R!Spec => []RetryIsAnswered
<1> USE DEF RetryIsAnswered, R!RetryIsAnswered
<1>1. R!Init => RetryIsAnswered
  BY DEF R!Init
<1>2. RequestInv /\ RetryIsAnswered /\ [R!Next]_R!vars => RetryIsAnswered'
  <2> SUFFICES ASSUME RequestInv, RetryIsAnswered, [R!Next]_R!vars, ~UNCHANGED last
               PROVE  RetryIsAnswered'
    OBVIOUS
  <2>1. ASSUME NEW r \in R!Requests, R!Send(r) PROVE RetryIsAnswered'
    BY <2>1, AnsweredAgain, AnswerSays
  <2>2. CASE R!Return
    BY <2>2 DEF R!Return, R!Reply
  <2>3. CASE R!Raise
    BY <2>3 DEF R!Raise, R!Reply
  <2> QED BY <2>1, <2>2, <2>3 DEF R!Next, R!Report, R!Crash, R!Lapse, R!vars
<1> QED BY <1>1, <1>2, RequestInvAlways, PTL DEF R!Spec

\* What an answer shows of a row is its state and whether it has lapsed.
LEMMA AnswerShows ==
  ASSUME RequestInv, NEW r \in R!Requests, R!Send(r), ~UNCHANGED last,
         last'.answer = "view", last'.late
  PROVE  last'.shown \notin R!Live
<1> DEFINE row == rows[r.body.id]
<1>1. row # None => row \in R!Rows
  BY BodiesNamed DEF RequestInv, RowsTyped
<1>2. CASE row # None /\ ~R!Due(row) /\ R!Show(r, row)
  BY <1>2 DEF R!Show, R!Reply, R!Due
<1>3. ASSUME row # None, NEW s \in {"EXPIRED", "STALE"}, R!Leave(r, R!After(row, s, 1))
      PROVE  last'.shown \notin R!Live
  <2>1. s \in R!States /\ 1 \in Nat
    BY DEF R!States
  <2> QED BY <1>1, <1>3, <2>1, AfterIsRow DEF R!Leave, R!Reply, R!Live
<1>4. ASSUME NEW new \in R!Rows, new.action \notin lapsed, R!Leave(r, new)
      PROVE  last'.shown \notin R!Live
  BY <1>4 DEF R!Leave, R!Reply
<1>5. ASSUME NEW code \in {"IDEMPOTENCY_CONFLICT", "OPERATION_CONSUMED", "ACTIVE_OPERATION",
                          "NONCE_REUSED", "EXPIRED", "RATE_LIMITED", "REVISION_CONFLICT",
                          "STATE_CONFLICT", "VOTE_CONFLICT", "QUORUM_NOT_MET",
                          "GATE_UNAVAILABLE", "NOT_FOUND"}, R!Refuse(r, code)
      PROVE  FALSE
  BY <1>5 DEF R!Refuse, R!Reply
<1>6. CASE r.method = "propose"
  <2>1. r.body \in Proposals
    BY <1>6, BodiesNamed
  <2>2. ~R!Conflict(r) /\ (R!Known(r) \/ R!Mine(r.body)) => row # None
    BY <1>6, EntryIsRequest
       DEF RequestInv, Traced, Accounted, Leaves, R!Conflict, R!Mine
  <2>3. CASE R!Grant(r, [action |-> r.body, state |-> "OPEN", revision |-> 1, vote |-> None])
              /\ r.body \notin lapsed
    BY <1>4, <2>1, <2>3 DEF R!Grant, R!Rows, R!States, R!Live
  <2> QED BY <1>2, <1>3, <1>5, <1>6, <2>2, <2>3 DEF R!Send, R!Propose, R!Expire
<1>7. CASE r.method # "propose" /\ row # None
  <2>1. ASSUME ~R!Due(row), NEW changed \in R!Rows, changed.action = row.action,
               R!Change(r, row, changed)
        PROVE  last'.shown \notin R!Live
    BY <1>4, <1>5, <2>1 DEF R!Change, R!Grant, R!Due
  <2>2. CASE ~R!Due(row) /\ r.method = "submit" /\ R!Submit(r, row)
    <3> DEFINE d == r.body.decision
               s == IF d = "approve" THEN "READY" ELSE "ESCALATED"
    <3>1. s \in R!States /\ 2 \in Nat /\ d \in {"approve", "reject"}
      BY <2>2, BodiesNamed DEF R!States, R!Live
    <3>2. R!After(row, s, 2) \in R!Rows /\ R!After(row, s, 2).action = row.action
      BY <1>1, <1>7, <3>1, AfterIsRow
    <3> HIDE DEF s
    <3>3. /\ [R!After(row, s, 2) EXCEPT !.vote = d] \in R!Rows
          /\ [R!After(row, s, 2) EXCEPT !.vote = d].action = row.action
      BY <3>1, <3>2 DEF R!Rows
    <3> USE DEF s
    <3> QED BY <1>2, <1>5, <1>7, <2>1, <2>2, <3>3 DEF R!Submit
  <2>3. CASE ~R!Due(row) /\ (R!Cancel(r, row) \/ R!Escalate(r, row))
    <3>1. \A s \in {"CANCELED", "ESCALATED"} :
            R!After(row, s, 1) \in R!Rows /\ R!After(row, s, 1).action = row.action
      <4>1. 1 \in Nat /\ "CANCELED" \in R!States /\ "ESCALATED" \in R!States
        BY DEF R!States
      <4> QED BY <1>1, <1>7, <4>1, AfterIsRow
    <3> QED BY <2>1, <2>3, <3>1 DEF R!Cancel, R!Escalate
  <2>4. CASE ~R!Due(row) /\ R!Commit(r, row)
    <3>1. ASSUME NEW code \in {"QUORUM_NOT_MET", "STATE_CONFLICT"}, R!Refuse(r, code)
          PROVE  FALSE
      BY <1>5, <3>1
    <3> QED BY <1>2, <1>3, <1>5, <1>7, <2>4, <3>1 DEF R!Commit
  <2> QED BY <1>2, <1>3, <1>5, <1>7, <2>2, <2>3, <2>4
       DEF R!Send, R!OnProposal, R!DueFirst, R!Expire
<1>8. CASE r.method # "propose" /\ row = None
  BY <1>5, <1>8 DEF R!Send, R!OnProposal
<1> QED BY <1>6, <1>7, <1>8

\* Expiry is looked at before every answer, whatever is asked.
THEOREM ShownStatesCurrent == R!Spec => []ShownStateIsCurrent
<1> USE DEF ShownStateIsCurrent, R!ShownStateIsCurrent
<1>1. R!Init => ShownStateIsCurrent
  BY DEF R!Init
<1>2. RequestInv /\ ShownStateIsCurrent /\ [R!Next]_R!vars => ShownStateIsCurrent'
  <2> SUFFICES ASSUME RequestInv, ShownStateIsCurrent, [R!Next]_R!vars, ~UNCHANGED last
               PROVE  ShownStateIsCurrent'
    BY DEF R!Live
  <2>1. ASSUME NEW r \in R!Requests, R!Send(r) PROVE ShownStateIsCurrent'
    BY <2>1, AnswerShows DEF R!Live
  <2>2. CASE R!Return
    BY <2>2 DEF R!Return, R!Reply
  <2>3. CASE R!Raise
    BY <2>3 DEF R!Raise, R!Reply
  <2> QED BY <2>1, <2>2, <2>3 DEF R!Next, R!Report, R!Crash, R!Lapse, R!vars
<1> QED BY <1>1, <1>2, RequestInvAlways, PTL DEF R!Spec

-----------------------------------------------------------------------------
(* What is live and what is consumed.                                      *)

\* A proposal of an operation nobody competes for or has consumed is opened.
Opens(a) ==
  /\ a \in Proposals /\ rows[a.id] = None
  /\ consumed[a.op] = None /\ ~R!InTheWay(a) /\ ~R!AtLimit
  /\ rows' = [rows EXCEPT ![a.id] =
       [action |-> a, state |-> "OPEN", revision |-> 1, vote |-> None]]
  /\ UNCHANGED consumed

\* A row changes without becoming live or consumed.
Rests(p, row) ==
  /\ rows[p] # None /\ row \in R!Rows /\ row.action = rows[p].action
  /\ row.state \in R!Live => rows[p].state \in R!Live
  /\ row.state \in R!Consumed <=> rows[p].state \in R!Consumed
  /\ rows' = [rows EXCEPT ![p] = row]
  /\ UNCHANGED consumed

\* A ready proposal consumes its operation.
Consumes(p, row) ==
  /\ rows[p] # None /\ row \in R!Rows /\ row.action = rows[p].action
  /\ rows[p].state \in R!Live /\ row.state \in R!Consumed
  /\ rows' = [rows EXCEPT ![p] = row]
  /\ consumed' = [consumed EXCEPT ![rows[p].action.op] = p]

Moved ==
  \/ UNCHANGED <<rows, consumed>>
  \/ \E a \in Proposals : Opens(a)
  \/ \E p \in R!Ids, row \in R!Rows : Rests(p, row) \/ Consumes(p, row)

LEMMA Expired ==
  ASSUME RowsTyped, NEW r, NEW p \in R!Ids, rows[p] # None,
         R!Due(rows[p]), R!Expire(r, rows[p])
  PROVE  Moved
<1> DEFINE row == R!After(rows[p], "EXPIRED", 1)
<1>1. rows[p] \in R!Rows /\ rows[p].action.id = p /\ rows[p].state \in R!Live
  BY DEF RowsTyped, R!Due
<1>2. "EXPIRED" \in R!States /\ 1 \in Nat
  BY DEF R!States
<1>3. row \in R!Rows /\ row.action = rows[p].action /\ row.state = "EXPIRED"
  BY <1>1, <1>2, AfterIsRow
<1>4. rows' = [rows EXCEPT ![p] = row] /\ UNCHANGED consumed
  BY <1>1, <1>3 DEF R!Expire, R!Leave
<1> HIDE DEF row
<1>5. Rests(p, row)
  BY <1>1, <1>3, <1>4 DEF Rests, R!Live, R!Consumed
<1> QED BY <1>3, <1>5 DEF Moved

LEMMA Changed ==
  ASSUME RowsTyped, NEW r, NEW row, OfRow(r, row),
         NEW changed \in R!Rows, changed.action = row.action,
         changed.state \notin R!Consumed, R!Change(r, row, changed)
  PROVE  Moved
<1>1. CASE UNCHANGED <<rows, consumed>>
  BY <1>1 DEF Moved
<1>2. CASE row.state \in R!Live /\ R!Grant(r, changed)
  <2>1. rows' = [rows EXCEPT ![r.body.id] = changed] /\ UNCHANGED consumed
    BY <1>2 DEF R!Grant, R!Leave, OfRow
  <2>2. row.state \notin R!Consumed BY <1>2 DEF R!Live, R!Consumed
  <2>3. Rests(r.body.id, changed)
    BY <1>2, <2>1, <2>2 DEF Rests, OfRow
  <2>4. r.body.id \in R!Ids BY BodiesNamed DEF OfRow
  <2> QED BY <2>3, <2>4 DEF Moved
<1> QED BY <1>1, <1>2 DEF R!Change, R!Refuse

LEMMA SubmitMoves ==
  ASSUME RowsTyped, NEW r, NEW row, OfRow(r, row), r.method = "submit", R!Submit(r, row)
  PROVE  Moved
<1> DEFINE d == r.body.decision
           s == IF d = "approve" THEN "READY" ELSE "ESCALATED"
           left == R!After(row, s, 2)
           changed == [left EXCEPT !.vote = d]
<1>1. CASE UNCHANGED <<rows, consumed>>
  BY <1>1 DEF Moved
<1>2. CASE R!Change(r, row, changed)
  <2>1. s \in R!States /\ 2 \in Nat /\ d \in {"approve", "reject"} /\ s \notin R!Consumed
    BY BodiesNamed DEF OfRow, R!States, R!Live, R!Consumed
  <2>2. left \in R!Rows /\ left.action = row.action /\ left.state = s
    BY <2>1, AfterIsRow DEF OfRow
  <2> HIDE DEF s, left
  <2>3. changed \in R!Rows /\ changed.action = row.action /\ changed.state = s
    BY <2>1, <2>2 DEF R!Rows
  <2> HIDE DEF changed
  <2> QED BY <1>2, <2>1, <2>3, Changed
<1> QED BY <1>1, <1>2 DEF R!Submit, R!Refuse, R!Show

LEMMA WithdrawMoves ==
  ASSUME RowsTyped, NEW r, NEW row, OfRow(r, row),
         R!Cancel(r, row) \/ R!Escalate(r, row)
  PROVE  Moved
<1>1. 1 \in Nat /\ "CANCELED" \in R!States /\ "ESCALATED" \in R!States
  BY DEF R!States
<1>2. \A s \in {"CANCELED", "ESCALATED"} :
        /\ R!After(row, s, 1) \in R!Rows /\ R!After(row, s, 1).action = row.action
        /\ R!After(row, s, 1).state \notin R!Consumed
  BY <1>1, AfterIsRow DEF OfRow, R!Consumed
<1> QED BY <1>2, Changed DEF R!Cancel, R!Escalate

LEMMA CommitMoves ==
  ASSUME RowsTyped, NEW r, NEW row, OfRow(r, row), R!Commit(r, row)
  PROVE  Moved
<1> DEFINE stale == R!After(row, "STALE", 1)
           gone == R!After(row, "DISPATCHING", 1)
           p == r.body.id
<1>1. "STALE" \in R!States /\ "DISPATCHING" \in R!States /\ 1 \in Nat
  BY DEF R!States, R!Consumed
<1>2. /\ stale \in R!Rows /\ stale.action = row.action /\ stale.state = "STALE"
      /\ gone \in R!Rows /\ gone.action = row.action /\ gone.state = "DISPATCHING"
  BY <1>1, AfterIsRow DEF OfRow
<1>3. p \in R!Ids /\ row = rows[p] /\ row.action.id = p /\ row # None
  BY BodiesNamed DEF OfRow
<1>4. CASE UNCHANGED <<rows, consumed>>
  BY <1>4 DEF Moved
<1>5. CASE row.state = "READY" /\ R!Leave(r, stale) /\ UNCHANGED consumed
  <2>1. rows' = [rows EXCEPT ![p] = stale]
    BY <1>2, <1>3, <1>5 DEF R!Leave
  <2> HIDE DEF stale, p
  <2>2. Rests(p, stale)
    BY <1>2, <1>3, <1>5, <2>1 DEF Rests, R!Live, R!Consumed
  <2> QED BY <1>2, <1>3, <2>2 DEF Moved
<1>6. CASE /\ row.state = "READY"
           /\ rows' = [rows EXCEPT ![row.action.id] = gone]
           /\ consumed' = R!Tombstone(row)
  <2>1. /\ rows' = [rows EXCEPT ![p] = gone]
        /\ consumed' = [consumed EXCEPT ![rows[p].action.op] = p]
    BY <1>3, <1>6 DEF R!Tombstone
  <2> HIDE DEF gone, p
  <2>2. Consumes(p, gone)
    BY <1>2, <1>3, <1>6, <2>1 DEF Consumes, R!Live, R!Consumed
  <2> QED BY <1>2, <1>3, <2>2 DEF Moved
<1> QED BY <1>4, <1>5, <1>6 DEF R!Commit, R!Refuse, R!Show

LEMMA ProposeMoves ==
  ASSUME RequestInv, NEW r \in R!Requests, r.method = "propose", R!Propose(r)
  PROVE  Moved
<1> DEFINE a == r.body
<1>1. a \in Proposals /\ a.id \in R!Ids
  BY BodiesNamed
<1>2. CASE UNCHANGED <<rows, consumed>>
  BY <1>2 DEF Moved
<1>3. CASE rows[a.id] # None /\ R!Due(rows[a.id]) /\ R!Expire(r, rows[a.id])
  BY <1>1, <1>3, Expired DEF RequestInv
<1>4. CASE /\ rows[a.id] = None /\ consumed[a.op] = None
           /\ ~R!InTheWay(a) /\ ~R!AtLimit
           /\ R!Grant(r, [action |-> a, state |-> "OPEN", revision |-> 1, vote |-> None])
  <2>1. Opens(a)
    BY <1>1, <1>4 DEF Opens, R!Grant, R!Leave
  <2> QED BY <1>1, <2>1 DEF Moved
<1>5. ~R!Conflict(r) /\ (R!Known(r) \/ R!Mine(a)) => rows[a.id] # None
  BY EntryIsRequest DEF RequestInv, Traced, Accounted, Leaves, R!Conflict, R!Mine
<1> QED BY <1>2, <1>3, <1>4, <1>5 DEF R!Propose, R!Refuse, R!Show

LEMMA SendMoves ==
  ASSUME RequestInv, NEW r \in R!Requests, R!Send(r)
  PROVE  Moved
<1> DEFINE row == rows[r.body.id]
<1>1. CASE r.method = "propose"
  BY <1>1, ProposeMoves DEF R!Send
<1>2. CASE r.method # "propose" /\ row = None
  BY <1>2 DEF R!Send, R!OnProposal, R!Refuse, Moved
<1>3. CASE r.method # "propose" /\ row # None
  <2>1. OfRow(r, row) /\ RowsTyped
    BY <1>3, BodiesNamed DEF OfRow, RequestInv, RowsTyped
  <2>2. CASE UNCHANGED <<rows, consumed>>
    BY <2>2 DEF Moved
  <2>3. CASE R!Due(row) /\ R!Expire(r, row)
    BY <1>3, <2>1, <2>3, BodiesNamed, Expired
  <2>4. CASE r.method = "submit" /\ R!Submit(r, row)
    BY <2>1, <2>4, SubmitMoves
  <2>5. CASE R!Cancel(r, row) \/ R!Escalate(r, row)
    BY <2>1, <2>5, WithdrawMoves
  <2>6. CASE R!Commit(r, row)
    BY <2>1, <2>6, CommitMoves
  <2> QED BY <1>3, <2>2, <2>3, <2>4, <2>5, <2>6
       DEF R!Send, R!OnProposal, R!DueFirst, R!Refuse, R!Show
<1> QED BY <1>1, <1>2, <1>3

\* What is live is not consumed, and a tombstone names the one proposal whose
\* state says that it was consumed.
LiveInv ==
  /\ consumed \in [R!Ops -> R!Ids \union {None}]
  /\ IsFiniteSet(R!ActiveIds) /\ R!LiveBounded
  /\ \A p \in R!ActiveIds : consumed[rows[p].action.op] = None
  /\ \A p \in R!Ids : rows[p] # None =>
       (rows[p].state \in R!Consumed <=> consumed[rows[p].action.op] = p)

\* The module of requests has a Cardinality of its own.
LEMMA RequestCounts == \A S : R!Cardinality(S) = Cardinality(S)
BY DEF R!Cardinality, Cardinality, R!IsFiniteSet, IsFiniteSet

LEMMA FewerLive ==
  ASSUME IsFiniteSet(R!ActiveIds), R!LiveBounded,
         R!ActiveIds' \subseteq R!ActiveIds,
         \A p \in R!ActiveIds' : rows'[p].action = rows[p].action
  PROVE  IsFiniteSet(R!ActiveIds') /\ R!LiveBounded'
<1>1. /\ IsFiniteSet(R!ActiveIds')
      /\ Cardinality(R!ActiveIds') <= Cardinality(R!ActiveIds)
      /\ Cardinality(R!ActiveIds') \in Nat /\ Cardinality(R!ActiveIds) \in Nat
  BY FS_Subset, FS_CardinalityType
<1>2. Cardinality(R!ActiveIds) <= MaxActive /\ MaxActive \in Nat
  BY RequestCounts, HostAssumption DEF R!LiveBounded, R!RequestsAssumption
<1>3. R!Cardinality(R!ActiveIds') <= MaxActive
  BY <1>1, <1>2, RequestCounts
<1>4. ASSUME NEW p \in R!ActiveIds', NEW q \in R!ActiveIds',
             rows'[p].action.op = rows'[q].action.op
      PROVE  p = q
  BY <1>4 DEF R!LiveBounded
<1> QED BY <1>1, <1>3, <1>4 DEF R!LiveBounded

\* Rows change, and none of them becomes live or consumed.
Resting ==
  /\ UNCHANGED consumed
  /\ \A p \in R!Ids :
       /\ rows'[p] = None <=> rows[p] = None
       /\ rows[p] # None =>
            /\ rows'[p].action = rows[p].action
            /\ rows'[p].state \in R!Live => rows[p].state \in R!Live
            /\ rows'[p].state \in R!Consumed <=> rows[p].state \in R!Consumed

LEMMA RestingKeeps ==
  ASSUME LiveInv, Resting
  PROVE  LiveInv'
<1>1. /\ R!ActiveIds' \subseteq R!ActiveIds
      /\ \A p \in R!ActiveIds' : rows'[p].action = rows[p].action
  BY DEF Resting, R!ActiveIds
<1>2. IsFiniteSet(R!ActiveIds') /\ R!LiveBounded'
  BY <1>1, FewerLive DEF LiveInv
<1>3. \A p \in R!ActiveIds' : consumed'[rows'[p].action.op] = None
  BY <1>1 DEF LiveInv, Resting
<1>4. \A p \in R!Ids : rows'[p] # None =>
        (rows'[p].state \in R!Consumed <=> consumed'[rows'[p].action.op] = p)
  BY DEF LiveInv, Resting
<1>5. consumed' \in [R!Ops -> R!Ids \union {None}]
  BY DEF LiveInv, Resting
<1> QED BY <1>2, <1>3, <1>4, <1>5 DEF LiveInv

LEMMA RestsIsResting ==
  ASSUME RowsTyped, NEW p \in R!Ids, NEW row \in R!Rows, Rests(p, row)
  PROVE  Resting
<1>1. row # None /\ rows' = [rows EXCEPT ![p] = row] /\ rows[p] # None
  BY HostAssumption DEF R!RequestsAssumption, Rests
<1>2. ASSUME NEW q \in R!Ids PROVE rows'[q] = IF q = p THEN row ELSE rows[q]
  BY <1>1 DEF RowsTyped
<1> QED BY <1>1, <1>2 DEF Resting, Rests

\* A proposal is opened while the limit is not reached, for an operation that
\* no live proposal has and nobody has consumed.
LEMMA OpensKeeps ==
  ASSUME RowsTyped, LiveInv, NEW a \in Proposals, Opens(a)
  PROVE  LiveInv'
<1> DEFINE row == [action |-> a, state |-> "OPEN", revision |-> 1, vote |-> None]
<1>1. /\ row.action = a /\ row.state = "OPEN" /\ row \in R!Rows
      /\ a.id \in R!Ids /\ a.op \in R!Ops
  BY DEF R!Rows, R!States, R!Live, R!Ids, R!Ops
<1>2. rows' = [rows EXCEPT ![a.id] = row] /\ UNCHANGED consumed
  BY DEF Opens
<1> HIDE DEF row
<1>3. row # None
  BY <1>1, HostAssumption DEF R!RequestsAssumption
<1>4. ASSUME NEW q \in R!Ids PROVE rows'[q] = IF q = a.id THEN row ELSE rows[q]
  BY <1>1, <1>2, <1>4 DEF RowsTyped
<1>5. a.id \notin R!ActiveIds /\ R!ActiveIds' = R!ActiveIds \union {a.id}
  BY <1>1, <1>3, <1>4 DEF Opens, R!ActiveIds, R!Live
<1>6. /\ IsFiniteSet(R!ActiveIds')
      /\ Cardinality(R!ActiveIds') = Cardinality(R!ActiveIds) + 1
      /\ Cardinality(R!ActiveIds) \in Nat
  BY <1>5, FS_AddElement, FS_CardinalityType DEF LiveInv
<1>7. R!Cardinality(R!ActiveIds') <= MaxActive
  <2>1. ~(Cardinality(R!ActiveIds) >= MaxActive)
    BY RequestCounts DEF Opens, R!AtLimit
  <2>2. MaxActive \in Nat
    BY HostAssumption DEF R!RequestsAssumption
  <2> QED BY <1>6, <2>1, <2>2, RequestCounts
<1>8. \A p \in R!ActiveIds : p \in R!Ids /\ p # a.id /\ rows'[p] = rows[p]
  BY <1>4, <1>5 DEF R!ActiveIds
<1>9. \A p \in R!ActiveIds : rows[p].action.op # a.op
  BY DEF Opens, R!InTheWay
<1>10. rows'[a.id] = row BY <1>1, <1>4
<1>11. R!LiveBounded'
  <2>1. ASSUME NEW p \in R!ActiveIds', NEW q \in R!ActiveIds',
               rows'[p].action.op = rows'[q].action.op
        PROVE  p = q
    BY <1>1, <1>5, <1>8, <1>9, <1>10, <2>1 DEF LiveInv, R!LiveBounded
  <2> QED BY <1>7, <2>1 DEF R!LiveBounded
<1>12. \A p \in R!ActiveIds' : consumed'[rows'[p].action.op] = None
  BY <1>1, <1>2, <1>5, <1>8, <1>10 DEF LiveInv, Opens
<1>13. \A p \in R!Ids : rows'[p] # None =>
         (rows'[p].state \in R!Consumed <=> consumed'[rows'[p].action.op] = p)
  <2>1. consumed[a.op] # a.id
    <3>1. None \notin R!Ids BY HostAssumption DEF R!RequestsAssumption
    <3> QED BY <1>1, <3>1 DEF Opens
  <2>2. "OPEN" \notin R!Consumed BY DEF R!Consumed
  <2> QED BY <1>1, <1>2, <1>4, <2>1, <2>2 DEF LiveInv
<1> QED BY <1>2, <1>6, <1>11, <1>12, <1>13 DEF LiveInv

\* The proposal that consumes an operation was the only live one of it, and no
\* other one had consumed it.
LEMMA ConsumesKeeps ==
  ASSUME RowsTyped, LiveInv, NEW p \in R!Ids, NEW row \in R!Rows, Consumes(p, row)
  PROVE  LiveInv'
<1> DEFINE o == rows[p].action.op
<1>1. /\ row # None /\ rows[p] \in R!Rows /\ o \in R!Ops
      /\ p \in R!ActiveIds /\ consumed[o] = None
  BY HostAssumption
     DEF R!RequestsAssumption, Consumes, RowsTyped, R!Rows, R!Ops, R!ActiveIds, LiveInv
<1>2. ASSUME NEW q \in R!Ids PROVE rows'[q] = IF q = p THEN row ELSE rows[q]
  BY <1>2 DEF RowsTyped, Consumes
<1>3. /\ consumed' \in [R!Ops -> R!Ids \union {None}]
      /\ consumed'[o] = p
      /\ \A n \in R!Ops : n # o => consumed'[n] = consumed[n]
  BY <1>1 DEF LiveInv, Consumes
<1>4. row.action = rows[p].action /\ row.state \in R!Consumed /\ row.state \notin R!Live
  BY DEF Consumes, R!Live, R!Consumed
<1>5. /\ R!ActiveIds' \subseteq R!ActiveIds \ {p}
      /\ \A q \in R!ActiveIds' : rows'[q] = rows[q]
  BY <1>2, <1>4 DEF R!ActiveIds
<1>6. \A q \in R!Ids : rows[q] # None => rows[q].action.op \in R!Ops
  BY DEF RowsTyped, R!Rows, R!Ops
<1> HIDE DEF o
<1>7. IsFiniteSet(R!ActiveIds') /\ R!LiveBounded'
  BY <1>5, FewerLive DEF LiveInv
<1>8. ASSUME NEW q \in R!ActiveIds' PROVE consumed'[rows'[q].action.op] = None
  <2>1. q \in R!ActiveIds /\ q # p /\ rows'[q] = rows[q]
    BY <1>5
  <2>2. rows[q].action.op # o
    BY <1>1, <2>1 DEF LiveInv, R!LiveBounded, o
  <2>3. rows[q].action.op \in R!Ops
    BY <1>6, <2>1 DEF R!ActiveIds
  <2> QED BY <1>3, <2>1, <2>2, <2>3 DEF LiveInv
<1>9. ASSUME NEW q \in R!Ids, rows'[q] # None
      PROVE  rows'[q].state \in R!Consumed <=> consumed'[rows'[q].action.op] = q
  <2>1. CASE q = p
    BY <1>2, <1>3, <1>4, <2>1 DEF o
  <2>2. CASE q # p
    <3>1. rows'[q] = rows[q] /\ rows[q].action.op \in R!Ops
      BY <1>2, <1>6, <1>9, <2>2
    <3>2. CASE rows[q].action.op = o
      <4>1. consumed[o] # q
        <5>1. None \notin R!Ids BY HostAssumption DEF R!RequestsAssumption
        <5> QED BY <1>1, <5>1
      <4> QED BY <1>3, <1>9, <2>2, <3>1, <3>2, <4>1 DEF LiveInv
    <3>3. CASE rows[q].action.op # o
      BY <1>3, <1>9, <3>1, <3>3 DEF LiveInv
    <3> QED BY <3>2, <3>3
  <2> QED BY <2>1, <2>2
<1> QED BY <1>3, <1>7, <1>8, <1>9 DEF LiveInv

LEMMA ReportRests ==
  ASSUME RowsTyped, NEW p \in R!Ids, R!Report(p)
  PROVE  Resting
<1>1. PICK s \in {"SUCCEEDED", "UNKNOWN"} :
        rows' = [rows EXCEPT ![p] = R!After(rows[p], s, 1)]
  BY DEF R!Report
<1> DEFINE row == R!After(rows[p], s, 1)
<1>2. rows[p] \in R!Rows /\ rows[p] # None /\ rows[p].state = "DISPATCHING"
  BY DEF R!Report, RowsTyped
<1>3. s \in R!States /\ 1 \in Nat
  BY DEF R!States, R!Consumed
<1>4. row \in R!Rows /\ row.action = rows[p].action /\ row.state = s
  BY <1>2, <1>3, AfterIsRow
<1>5. rows' = [rows EXCEPT ![p] = row] /\ UNCHANGED consumed
  BY <1>1 DEF R!Report
<1> HIDE DEF row
<1>6. Rests(p, row)
  BY <1>2, <1>4, <1>5 DEF Rests, R!Live, R!Consumed
<1> QED BY <1>4, <1>6, RestsIsResting

LEMMA CrashRests ==
  ASSUME RowsTyped, R!Crash
  PROVE  Resting
<1>1. ASSUME NEW p \in R!Ids
      PROVE  \/ rows'[p] = rows[p]
             \/ /\ rows[p] # None /\ rows'[p] \in R!Rows
                /\ rows'[p].action = rows[p].action
                /\ rows[p].state = "DISPATCHING" /\ rows'[p].state = "UNKNOWN"
  <2>1. rows[p] # None => rows[p] \in R!Rows
    BY DEF RowsTyped
  <2>2. "UNKNOWN" \in R!States /\ 1 \in Nat
    BY DEF R!States, R!Consumed
  <2> QED BY <2>1, <2>2, AfterIsRow DEF R!Crash
<1>2. None \notin R!Rows
  BY HostAssumption DEF R!RequestsAssumption
<1>3. ASSUME NEW p \in R!Ids
      PROVE  /\ rows'[p] = None <=> rows[p] = None
             /\ rows[p] # None =>
                  /\ rows'[p].action = rows[p].action
                  /\ rows'[p].state \in R!Live => rows[p].state \in R!Live
                  /\ rows'[p].state \in R!Consumed <=> rows[p].state \in R!Consumed
  BY <1>1, <1>2 DEF R!Live, R!Consumed
<1> QED BY <1>3 DEF Resting, R!Crash

LEMMA LiveStep ==
  ASSUME RequestInv, LiveInv, [R!Next]_R!vars
  PROVE  LiveInv'
<1>1. RowsTyped BY DEF RequestInv
<1>2. CASE UNCHANGED <<rows, consumed>>
  BY <1>2, RestingKeeps DEF Resting
<1>3. ASSUME NEW r \in R!Requests, R!Send(r) PROVE LiveInv'
  <2>1. Moved BY <1>3, SendMoves
  <2> QED BY <1>1, <1>2, <2>1, OpensKeeps, RestsIsResting, RestingKeeps, ConsumesKeeps
       DEF Moved
<1>4. ASSUME NEW p \in R!Ids, R!Report(p) PROVE LiveInv'
  BY <1>1, <1>4, ReportRests, RestingKeeps
<1>5. CASE R!Crash
  BY <1>1, <1>5, CrashRests, RestingKeeps
<1> QED BY <1>2, <1>3, <1>4, <1>5 DEF R!Next, R!Return, R!Raise, R!Lapse, R!vars

LEMMA LiveInit == R!Init => LiveInv
<1> SUFFICES ASSUME R!Init PROVE LiveInv
  OBVIOUS
<1>1. R!ActiveIds = {} BY DEF R!Init, R!ActiveIds
<1>2. IsFiniteSet(R!ActiveIds) /\ Cardinality(R!ActiveIds) = 0
  BY <1>1, FS_EmptySet
<1>3. R!LiveBounded
  BY <1>1, <1>2, RequestCounts, HostAssumption DEF R!LiveBounded, R!RequestsAssumption
<1> QED BY <1>1, <1>2, <1>3 DEF LiveInv, R!Init

\* For any number of proposals, operations and requests, and over any crashes:
\* no more proposals are live than the limit allows (MAX_ACTIVE_PROPOSALS), no
\* two of them compete for an operation (the live_operation index), and the
\* tombstone of an operation names the proposal whose state says so, however the
\* client repeats, delays or reorders its requests.
THEOREM LiveStaysBounded == R!Spec => [](R!LiveBounded /\ R!TypeOK)
<1> DEFINE Bounded == LiveInv /\ lapsed \subseteq Proposals
<1>1. R!Init => Bounded
  BY LiveInit DEF R!Init
<1>2. RequestInv /\ Bounded /\ [R!Next]_R!vars => Bounded'
  <2>1. [R!Next]_R!vars /\ lapsed \subseteq Proposals => lapsed' \subseteq Proposals
    BY DEF R!Next, R!Send, R!Report, R!Lapse, R!Return, R!Raise, R!Crash, R!vars
  <2> QED BY <2>1, LiveStep
<1>3. RequestInv /\ Bounded => R!LiveBounded /\ R!TypeOK
  <2> SUFFICES ASSUME RequestInv, Bounded
               PROVE  R!LiveBounded /\ R!TypeOK
    OBVIOUS
  <2>1. recorded \subseteq {R!Entry(r) : r \in R!Requests}
    BY EntryIsRequest DEF RequestInv, Traced, Accounted
  <2>2. granted \subseteq R!Requests /\ call \in granted \union {None}
    BY DEF RequestInv, Traced, Accounted
  <2>3. \A p \in R!Ids : rows[p] # None =>
          /\ rows[p] \in R!Rows /\ rows[p].action.id = p
          /\ rows[p].state \in R!Consumed <=> consumed[rows[p].action.op] = p
    BY DEF RequestInv, RowsTyped, LiveInv
  <2> QED BY <2>1, <2>2, <2>3 DEF R!TypeOK, LiveInv
<1> HIDE DEF Bounded
<1> QED BY <1>1, <1>2, <1>3, RequestInvAlways, PTL DEF R!Spec

-----------------------------------------------------------------------------
(* The rate limit.                                                         *)

\* A set of naturals that is not empty has a least element.
LEMMA LeastElement ==
  ASSUME NEW T \in SUBSET Nat, T # {}
  PROVE  \E x \in T : \A y \in T : x <= y
<1> DEFINE below == {ss \in Nat \X Nat : ss[1] < ss[2]}
<1>1. IsWellFoundedOn(below, Nat)
  BY NatLessThanWellFounded DEF OpToRel
<1>2. PICK x \in T : \A y \in T : <<y, x>> \notin below
  <2> HIDE DEF below
  <2> QED BY <1>1, WFMin
<1>3. \A y \in T : x <= y
  <2> SUFFICES ASSUME NEW y \in T, ~(x <= y) PROVE FALSE
    OBVIOUS
  <2>1. y < x /\ <<y, x>> \in Nat \X Nat
    OBVIOUS
  <2> QED BY <1>2, <2>1
<1> QED BY <1>3

Times == 0 .. MaxTime

\* The clock never passes the highest reading, and no entry of the bucket the
\* highest charge.
RateTypes ==
  /\ high \in Times /\ saved \in 0 .. high
  /\ bucket \in Seq(Nat) /\ accepted \in Seq(Nat) /\ charged \in Nat
  /\ \A i \in DOMAIN bucket : bucket[i] <= charged
  /\ refused \in [limited : BOOLEAN, at : Nat]

LEMMA Now ==
  ASSUME RateTypes, NEW w \in B!ClockReadings
  PROVE  /\ B!Larger(high, w) \in Times /\ high <= B!Larger(high, w)
         /\ B!LogicalNow(w) \in 0 .. B!Larger(high, w)
         /\ B!Larger(high, w) - MaxBack <= B!LogicalNow(w)
BY HostAssumption DEF B!RateLimitAssumption, RateTypes, B!ClockReadings, B!Larger,
   B!LogicalNow, Times

\* The bucket loses a prefix of entries, all of them before the window, and
\* the first one that is kept is within it.
LEMMA PrunedSuffix ==
  ASSUME bucket \in Seq(Nat), NEW now \in Nat
  PROVE  \E k \in 0 .. Len(bucket) :
           /\ B!Pruned(now) = SubSeq(bucket, k + 1, Len(bucket))
           /\ \A i \in 1 .. k : bucket[i] < now - Window
           /\ k < Len(bucket) => bucket[k + 1] >= now - Window
<1> DEFINE kept == {i \in DOMAIN bucket : bucket[i] >= now - Window}
           first == CHOOSE i \in kept : \A j \in kept : i <= j
<1>1. /\ Window \in Nat /\ now - Window \in Int /\ DOMAIN bucket = 1 .. Len(bucket)
      /\ Len(bucket) \in Nat /\ \A i \in DOMAIN bucket : bucket[i] \in Nat
  BY HostAssumption DEF B!RateLimitAssumption
<1>2. B!Pruned(now) = IF kept = {} THEN <<>> ELSE SubSeq(bucket, first, Len(bucket))
  BY DEF B!Pruned
<1>3. CASE kept = {}
  <2>0. B!Pruned(now) = <<>>
    BY <1>2, <1>3
  <2>1. \A i \in 1 .. Len(bucket) : bucket[i] < now - Window
    BY <1>1, <1>3
  <2>2. SubSeq(bucket, Len(bucket) + 1, Len(bucket)) = <<>>
    OBVIOUS
  <2>3. Len(bucket) \in 0 .. Len(bucket)
    BY <1>1
  <2> QED BY <1>1, <2>0, <2>1, <2>2, <2>3
<1>4. CASE kept # {}
  <2>1. kept \in SUBSET Nat
    BY <1>1
  <2>2. \E i \in kept : \A j \in kept : i <= j
    <3> HIDE DEF kept
    <3> QED BY <1>4, <2>1, LeastElement
  <2>3. first \in kept /\ \A j \in kept : first <= j
    <3> HIDE DEF kept
    <3> QED BY <2>2
  <2> HIDE DEF first
  <2>4. first \in 1 .. Len(bucket) /\ bucket[first] >= now - Window
    BY <1>1, <2>3
  <2>5. \A i \in 1 .. first - 1 : bucket[i] < now - Window
    BY <1>1, <2>3, <2>4
  <2>6. first - 1 \in 0 .. Len(bucket) /\ (first - 1) + 1 = first
    BY <1>1, <2>4
  <2> QED BY <1>2, <1>4, <2>4, <2>5, <2>6
<1> QED BY <1>3, <1>4

LEMMA PrunedTypes ==
  ASSUME RateTypes, NEW now \in Nat
  PROVE  /\ B!Pruned(now) \in Seq(Nat)
         /\ \A i \in DOMAIN B!Pruned(now) : B!Pruned(now)[i] <= charged
         /\ B!Pruned(now) # <<>> => now - Window <= charged
<1> DEFINE n == Len(bucket)
<1>1. PICK k \in 0 .. n :
        /\ B!Pruned(now) = SubSeq(bucket, k + 1, n)
        /\ k < n => bucket[k + 1] >= now - Window
  BY PrunedSuffix DEF RateTypes
<1>2. /\ n \in Nat /\ Window \in Nat
      /\ \A i \in 1 .. n : bucket[i] \in Nat /\ bucket[i] <= charged
  BY HostAssumption DEF RateTypes, B!RateLimitAssumption
<1>3. CASE k = n
  <2>1. SubSeq(bucket, n + 1, n) = <<>>
    OBVIOUS
  <2> QED BY <1>1, <1>3, <2>1
<1>4. CASE k < n
  <2>1. /\ SubSeq(bucket, k + 1, n) \in Seq(Nat)
        /\ DOMAIN SubSeq(bucket, k + 1, n) = 1 .. n - k
        /\ \A i \in 1 .. n - k : SubSeq(bucket, k + 1, n)[i] = bucket[k + i]
    BY <1>2, <1>4 DEF RateTypes
  <2>2. \A i \in 1 .. n - k : k + i \in 1 .. n
    BY <1>2
  <2>3. now - Window <= charged
    BY <1>1, <1>2, <1>4 DEF RateTypes
  <2>4. \A i \in DOMAIN B!Pruned(now) : B!Pruned(now)[i] <= charged
    BY <1>1, <1>2, <2>1, <2>2
  <2> QED BY <1>1, <2>1, <2>3, <2>4
<1> QED BY <1>3, <1>4


\* The instants of acc are in the entries, each at a place f of its own, or
\* before the bound.
Embeds(E, f, entries, acc, bound) ==
  /\ E \subseteq DOMAIN acc
  /\ f \in [E -> DOMAIN entries]
  /\ \A i \in E : entries[f[i]] = acc[i]
  /\ \A i, j \in E : f[i] = f[j] => i = j
  /\ \A i \in DOMAIN acc \ E : acc[i] < bound

\* Entries before the bound may be dropped.
LEMMA SuffixEmbeds ==
  ASSUME NEW s \in Seq(Nat), NEW acc \in Seq(Nat), NEW b \in Int, NEW c \in Int, b <= c,
         NEW k \in 0 .. Len(s), \A i \in 1 .. k : s[i] < c,
         NEW E, NEW f, Embeds(E, f, s, acc, b)
  PROVE  \E D, g : Embeds(D, g, SubSeq(s, k + 1, Len(s)), acc, c)
<1> DEFINE n == Len(s)
           t == SubSeq(s, k + 1, n)
           D == {i \in E : f[i] > k}
           g == [i \in D |-> f[i] - k]
<1>1. n \in Nat /\ DOMAIN s = 1 .. n /\ \A i \in E : f[i] \in 1 .. n /\ i \in DOMAIN acc
  BY DEF Embeds
<1>2. DOMAIN acc = 1 .. Len(acc) /\ \A i \in DOMAIN acc : acc[i] \in Nat
  OBVIOUS
<1>3. DOMAIN t = 1 .. n - k /\ \A i \in 1 .. n - k : t[i] = s[k + i]
  <2>1. CASE k = n
    <3>1. t = <<>> /\ n - k = 0
      BY <2>1
    <3> QED BY <3>1
  <2>2. CASE k < n
    BY <1>1, <2>2
  <2> QED BY <2>1, <2>2
<1> HIDE DEF t
<1>4. g \in [D -> DOMAIN t]
  <2>1. ASSUME NEW i \in D PROVE f[i] - k \in 1 .. n - k
    BY <1>1
  <2> QED BY <1>3, <2>1
<1>5. \A i \in D : t[g[i]] = acc[i]
  <2> SUFFICES ASSUME NEW i \in D PROVE t[g[i]] = acc[i]
    OBVIOUS
  <2>1. i \in E /\ f[i] > k /\ g[i] = f[i] - k
    OBVIOUS
  <2>2. f[i] \in 1 .. n /\ k \in Nat
    BY <1>1, <2>1
  <2> HIDE DEF g, D
  <2>3. g[i] \in 1 .. n - k /\ k + g[i] = f[i]
    BY <1>1, <2>1, <2>2
  <2>4. s[f[i]] = acc[i]
    BY <2>1 DEF Embeds
  <2> QED BY <1>3, <2>3, <2>4
<1>6. \A i, j \in D : g[i] = g[j] => i = j
  BY <1>1 DEF Embeds
<1>7. \A i \in DOMAIN acc \ D : acc[i] < c
  <2> SUFFICES ASSUME NEW i \in DOMAIN acc \ D PROVE acc[i] < c
    OBVIOUS
  <2>1. CASE i \notin E
    BY <1>2, <2>1 DEF Embeds
  <2>2. CASE i \in E
    <3>1. f[i] \in 1 .. k /\ s[f[i]] = acc[i]
      BY <1>1, <2>2 DEF Embeds
    <3> QED BY <3>1
  <2> QED BY <2>1, <2>2
<1>8. D \subseteq DOMAIN acc
  BY <1>1
<1> HIDE DEF D, g
<1>9. Embeds(D, g, t, acc, c)
  BY <1>4, <1>5, <1>6, <1>7, <1>8 DEF Embeds
<1> QED BY <1>9 DEF t

\* A charged request may be one that takes effect or not.
LEMMA AppendEmbeds ==
  ASSUME NEW s \in Seq(Nat), NEW acc \in Seq(Nat), NEW b \in Int, NEW x \in Nat,
         NEW E, NEW f, Embeds(E, f, s, acc, b)
  PROVE  /\ Embeds(E, f, Append(s, x), acc, b)
         /\ \E D, g : Embeds(D, g, Append(s, x), Append(acc, x), b)
<1> DEFINE n == Len(s)
           m == Len(acc)
           D == E \union {m + 1}
           g == [i \in D |-> IF i = m + 1 THEN n + 1 ELSE f[i]]
<1>1. /\ n \in Nat /\ m \in Nat /\ DOMAIN s = 1 .. n /\ DOMAIN acc = 1 .. m
      /\ DOMAIN Append(s, x) = 1 .. n + 1 /\ DOMAIN Append(acc, x) = 1 .. m + 1
      /\ \A i \in 1 .. n : Append(s, x)[i] = s[i]
      /\ \A i \in 1 .. m : Append(acc, x)[i] = acc[i]
      /\ Append(s, x)[n + 1] = x /\ Append(acc, x)[m + 1] = x
  OBVIOUS
<1>2. \A i \in E : f[i] \in 1 .. n /\ i \in 1 .. m
  BY <1>1 DEF Embeds
<1>3. Embeds(E, f, Append(s, x), acc, b)
  BY <1>1, <1>2 DEF Embeds
<1>4. g \in [D -> 1 .. n + 1] /\ D \subseteq 1 .. m + 1
  BY <1>1, <1>2
<1>5. \A i \in D : Append(s, x)[g[i]] = Append(acc, x)[i]
  BY <1>1, <1>2 DEF Embeds
<1>6. \A i, j \in D : g[i] = g[j] => i = j
  BY <1>1, <1>2 DEF Embeds
<1>7. \A i \in (1 .. m + 1) \ D : Append(acc, x)[i] < b
  <2> SUFFICES ASSUME NEW i \in (1 .. m + 1) \ D PROVE Append(acc, x)[i] < b
    OBVIOUS
  <2>1. i \in 1 .. m /\ i \notin E
    BY <1>1
  <2> QED BY <1>1, <2>1 DEF Embeds
<1> HIDE DEF D, g
<1>8. Embeds(D, g, Append(s, x), Append(acc, x), b)
  BY <1>1, <1>4, <1>5, <1>6, <1>7 DEF Embeds
<1> QED BY <1>3, <1>8

\* Fewer entries than the limit leave room in the window for one more.
LEMMA RoomForOne ==
  ASSUME NEW s \in Seq(Nat), NEW acc \in Seq(Nat), NEW b \in Int,
         NEW E, NEW f, Embeds(E, f, s, acc, b), NEW limit \in Nat, Len(s) < limit,
         NEW W \in SUBSET (1 .. Len(acc) + 1),
         \A j \in W : j \in 1 .. Len(acc) => ~(acc[j] < b)
  PROVE  Cardinality(W) <= limit
<1> DEFINE n == Len(s)
           m == Len(acc)
<1>1. n \in Nat /\ m \in Nat /\ DOMAIN s = 1 .. n /\ DOMAIN acc = 1 .. m
  OBVIOUS
<1>2. ASSUME NEW j \in W, j # m + 1 PROVE j \in E
  <2>1. j \in 1 .. m
    BY <1>1, <1>2
  <2>2. ~(acc[j] < b)
    BY <2>1
  <2> QED BY <1>1, <2>1, <2>2 DEF Embeds
<1>3. f \in Injection(E, 1 .. n)
  BY <1>1 DEF Embeds, Injection, IsInjective
<1> HIDE DEF n
<1>4. IsFiniteSet(1 .. n) /\ Cardinality(1 .. n) = n
  BY <1>1, FS_Interval
<1>5. IsFiniteSet(E) /\ Cardinality(E) <= n /\ Cardinality(E) \in Nat
  BY <1>3, <1>4, FS_Injection, FS_CardinalityType
<1> DEFINE F == E \union {m + 1}
<1>6. IsFiniteSet(F) /\ Cardinality(F) <= n + 1 /\ Cardinality(F) \in Nat
  <2>1. /\ IsFiniteSet(F)
        /\ Cardinality(F) = IF m + 1 \in E THEN Cardinality(E) ELSE Cardinality(E) + 1
    BY <1>5, FS_AddElement
  <2> QED BY <1>1, <1>5, <2>1
<1>7. W \subseteq F
  BY <1>2
<1> HIDE DEF F
<1>8. Cardinality(W) <= Cardinality(F) /\ Cardinality(W) \in Nat
  BY <1>6, <1>7, FS_Subset, FS_CardinalityType
<1>9. Cardinality(W) <= limit
  BY <1>1, <1>6, <1>8 DEF n
<1> QED BY <1>9

\* Distances on the clock.
LEMMA Shift ==
  \A a, b, c \in Nat : a <= b => a - c \in Int /\ b - c \in Int /\ a - c <= b - c
OBVIOUS

LEMMA ShiftBack ==
  \A h, n, v, b \in Nat :
    b <= v /\ h - b <= n => n - (v - b) \in Int /\ h - v <= n - (v - b)
OBVIOUS

\* The bucket's module has a Cardinality of its own.
LEMMA SameCardinality == \A S : B!Cardinality(S) = Cardinality(S)
BY DEF Cardinality, B!Cardinality, IsFiniteSet, B!IsFiniteSet

\* A window ends where the highest reading was when its last request took
\* effect, up to the distance the clock may step back.
RateInv ==
  /\ RateTypes /\ WindowBounded /\ PatienceRewarded
  /\ \E E, f : Embeds(E, f, bucket, accepted, high - Window)

LEMMA RequestKeeps ==
  ASSUME RateInv, NEW w \in B!ClockReadings, NEW takes \in BOOLEAN, B!Request(w, takes)
  PROVE  RateInv'
<1> DEFINE now == B!LogicalNow(w)
           entries == B!Pruned(now)
           full == B!Full(entries)
<1>1. /\ high \in Nat /\ high' \in Times /\ high' \in Nat /\ high <= high'
      /\ now \in 0 .. high' /\ now \in Nat /\ high' - MaxBack <= now
  BY Now, HostAssumption
     DEF RateInv, RateTypes, B!Request, Times, B!RateLimitAssumption
<1>2. /\ Window \in Nat /\ MaxBack \in Nat /\ MaxBack <= Window
      /\ Limit \in Nat /\ Limit >= 1
  BY HostAssumption DEF B!RateLimitAssumption
<1>3. /\ refused' = [limited |-> full, at |-> now]
      /\ bucket' = IF full THEN entries ELSE Append(entries, now)
      /\ charged' = IF full THEN charged ELSE B!Larger(charged, now)
      /\ IF takes /\ ~full THEN saved' = now /\ accepted' = Append(accepted, now)
                          ELSE saved' = saved /\ accepted' = accepted
  BY DEF B!Request, B!KeepRefused
<1>4. /\ entries \in Seq(Nat) /\ \A i \in DOMAIN entries : entries[i] <= charged
      /\ entries # <<>> => now - Window <= charged
  BY <1>1, PrunedTypes DEF RateInv
<1>5. PICK D, g : Embeds(D, g, entries, accepted, high' - Window)
  <2>1. PICK E, f : Embeds(E, f, bucket, accepted, high - Window)
    BY DEF RateInv
  <2>2. PICK k \in 0 .. Len(bucket) :
          /\ entries = SubSeq(bucket, k + 1, Len(bucket))
          /\ \A i \in 1 .. k : bucket[i] < now - Window
    BY <1>1, PrunedSuffix DEF RateInv, RateTypes
  <2>3. \A i \in 1 .. k : bucket[i] < high' - Window
    <3>1. \A i \in 1 .. k : bucket[i] \in Nat
      BY DEF RateInv, RateTypes
    <3> HIDE DEF now, entries
    <3> QED BY <1>1, <1>2, <2>2, <3>1
  <2>4. high - Window \in Int /\ high' - Window \in Int /\ high - Window <= high' - Window
    <3>1. high \in Nat /\ high' \in Nat /\ high <= high'
      BY <1>1
    <3> QED BY <1>2, <3>1, Shift
  <2> QED BY <2>1, <2>2, <2>3, <2>4, SuffixEmbeds DEF RateInv, RateTypes
<1>0. Len(entries) \in Nat /\ Limit \in Nat
  BY <1>2, <1>4
<1>6. /\ full \in BOOLEAN
      /\ full => Len(entries) # 0
      /\ ~full => Len(entries) < Limit
  <2> HIDE DEF now, entries
  <2> QED BY <1>0, <1>2 DEF B!Full
<1> HIDE DEF now, entries
<1> HIDE DEF full
<1>7. accepted \in Seq(Nat) /\ charged \in Nat /\ high' - Window \in Int
  BY <1>1, <1>2 DEF RateInv, RateTypes
<1>8. PatienceRewarded'
  <2>1. CASE full
    <3>1. entries # <<>>
      <4>1. Len(entries) # 0
        BY <1>6, <2>1
      <4> QED BY <4>1
    <3> QED BY <1>1, <1>2, <1>3, <1>4, <1>7, <2>1, <3>1
         DEF PatienceRewarded, B!PatienceRewarded
  <2>2. CASE ~full
    BY <1>3, <2>2 DEF PatienceRewarded, B!PatienceRewarded
  <2> QED BY <2>1, <2>2
<1>9. RateTypes'
  <2>1. saved' \in 0 .. high' /\ accepted' \in Seq(Nat) /\ charged' \in Nat
    <3>1. saved \in 0 .. high
      BY DEF RateInv, RateTypes
    <3>2. charged' \in Nat
      BY <1>1, <1>3, <1>7 DEF B!Larger
    <3>3. CASE takes /\ ~full
      <4>1. saved' = now /\ accepted' = Append(accepted, now)
        BY <1>3, <3>3
      <4>2. now \in 0 .. high' /\ now \in Nat
        BY <1>1
      <4> QED BY <1>7, <3>2, <4>1, <4>2
    <3>4. CASE ~(takes /\ ~full)
      BY <1>1, <1>3, <1>7, <3>1, <3>2, <3>4
    <3> QED BY <3>3, <3>4
  <2>2. bucket' \in Seq(Nat) /\ \A i \in DOMAIN bucket' : bucket'[i] <= charged'
    <3>1. CASE full
      BY <1>3, <1>4, <3>1
    <3>2. CASE ~full
      <4>1. charged <= charged' /\ now <= charged'
        BY <1>1, <1>3, <1>7, <3>2 DEF B!Larger
      <4>2. bucket' = Append(entries, now)
        BY <1>3, <3>2
      <4>3. ASSUME NEW i \in DOMAIN bucket' PROVE bucket'[i] <= charged'
        <5>1. CASE i \in DOMAIN entries
          <6>1. bucket'[i] = entries[i] /\ entries[i] <= charged /\ entries[i] \in Nat
            BY <1>1, <1>4, <4>2, <5>1
          <6> QED BY <1>7, <2>1, <4>1, <6>1
        <5>2. CASE i \notin DOMAIN entries
          <6>1. bucket'[i] = now
            BY <1>1, <1>4, <4>2, <4>3, <5>2
          <6> QED BY <4>1, <6>1
        <5> QED BY <5>1, <5>2
      <4> QED BY <1>1, <1>4, <4>2, <4>3
    <3> QED BY <3>1, <3>2
  <2>3. full \in BOOLEAN
    BY <1>6
  <2> QED BY <1>1, <1>3, <2>1, <2>2, <2>3 DEF RateTypes
<1>10. CASE accepted' = accepted
  <2>1. \E E, f : Embeds(E, f, bucket', accepted', high' - Window)
    BY <1>1, <1>3, <1>4, <1>5, <1>7, <1>10, AppendEmbeds
  <2>2. WindowBounded'
    BY <1>10 DEF RateInv, WindowBounded, B!WindowBounded
  <2> QED BY <1>8, <1>9, <2>1, <2>2 DEF RateInv
<1>11. CASE ~full /\ accepted' = Append(accepted, now)
  <2>1. \E E, f : Embeds(E, f, bucket', accepted', high' - Window)
    BY <1>1, <1>3, <1>4, <1>5, <1>7, <1>11, AppendEmbeds
  <2> DEFINE m == Len(accepted)
             back == Window - MaxBack
  <2>2. /\ m \in Nat /\ DOMAIN accepted = 1 .. m /\ DOMAIN accepted' = 1 .. m + 1
        /\ accepted'[m + 1] = now /\ \A i \in 1 .. m : accepted'[i] = accepted[i]
    BY <1>1, <1>7, <1>11
  <2>3. now - back \in Int /\ high' - Window <= now - back
    <3>1. /\ high' \in Nat /\ now \in Nat /\ high' - MaxBack <= now
      BY <1>1
    <3> QED BY <1>2, <3>1, ShiftBack
  <2>0. Len(entries) < Limit
    BY <1>6, <1>11
  <2>4. Cardinality({j \in 1 .. m + 1 : accepted'[j] >= now - back}) <= Limit
    <3> HIDE DEF back
    <3>1. now \in Nat /\ entries \in Seq(Nat) /\ Limit \in Nat
      BY <1>0, <1>1, <1>4
    <3> DEFINE W == {j \in 1 .. m + 1 : accepted'[j] >= now - back}
               b == high' - Window
    <3>2. ASSUME NEW j \in W, j \in 1 .. Len(accepted) PROVE ~(accepted[j] < b)
      <4>1. accepted'[j] >= now - back /\ accepted'[j] = accepted[j] /\ accepted[j] \in Nat
        BY <1>7, <2>2, <3>2
      <4> QED BY <1>7, <2>3, <4>1
    <3>3. W \in SUBSET (1 .. Len(accepted) + 1)
      OBVIOUS
    <3>4. b \in Int /\ Embeds(D, g, entries, accepted, b)
      BY <1>5, <1>7
    <3> HIDE DEF W, b
    <3>5. Cardinality(W) <= Limit
      BY <1>7, <2>0, <3>1, <3>2, <3>3, <3>4, RoomForOne
    <3> QED BY <3>5 DEF W
  <2>5. ASSUME NEW i \in 1 .. m
        PROVE  {j \in 1 .. i : accepted'[j] >= accepted'[i] - back}
                 = {j \in 1 .. i : accepted[j] >= accepted[i] - back}
    BY <2>2
  <2>6. ASSUME NEW i \in 1 .. m + 1
        PROVE  Cardinality({j \in 1 .. i : accepted'[j] >= accepted'[i] - back}) <= Limit
    <3>1. CASE i = m + 1
      BY <2>2, <2>4, <3>1
    <3>2. CASE i \in 1 .. m
      <4>1. Cardinality({j \in 1 .. i : accepted[j] >= accepted[i] - back}) <= Limit
        BY <2>2, <3>2, SameCardinality DEF RateInv, WindowBounded, B!WindowBounded
      <4> QED BY <2>5, <3>2, <4>1
    <3> QED BY <2>2, <3>1, <3>2
  <2>7. WindowBounded'
    <3> SUFFICES ASSUME NEW i \in DOMAIN accepted'
                 PROVE  Cardinality({j \in 1 .. i : accepted'[j] >= accepted'[i] - back}) <= Limit
      BY SameCardinality DEF WindowBounded, B!WindowBounded
    <3> QED BY <2>2, <2>6
  <2> QED BY <1>8, <1>9, <2>1, <2>7 DEF RateInv
<1> QED BY <1>3, <1>10, <1>11

LEMMA TickKeeps ==
  ASSUME RateInv, NEW w \in B!ClockReadings, B!Tick(w)
  PROVE  RateInv'
<1>1. /\ high \in Nat /\ high' \in Times /\ high' \in Nat /\ high <= high' /\ saved' \in 0 .. high'
  BY Now, HostAssumption DEF RateInv, RateTypes, B!Tick, Times, B!RateLimitAssumption
<1>2. UNCHANGED <<bucket, accepted, charged, refused>>
  BY DEF B!Tick
<1>3. PICK E, f : Embeds(E, f, bucket, accepted, high - Window)
  BY DEF RateInv
<1>4. \A i \in DOMAIN accepted : accepted[i] \in Nat
  BY DEF RateInv, RateTypes
<1>5. Window \in Nat
  BY HostAssumption DEF B!RateLimitAssumption
<1>6. Embeds(E, f, bucket, accepted, high' - Window)
  BY <1>1, <1>3, <1>4, <1>5 DEF Embeds
<1> QED BY <1>1, <1>2, <1>6
     DEF RateInv, RateTypes, WindowBounded, B!WindowBounded, PatienceRewarded,
         B!PatienceRewarded

LEMMA EmptyEmbeds == \A b : \E E, f : Embeds(E, f, <<>>, <<>>, b)
<1> SUFFICES ASSUME NEW b PROVE \E E, f : Embeds(E, f, <<>>, <<>>, b)
  OBVIOUS
<1>1. Embeds({}, [i \in {} |-> 1], <<>>, <<>>, b)
  BY DEF Embeds
<1> QED BY <1>1

LEMMA RateInvInit == B!Init => RateInv
<1> SUFFICES ASSUME B!Init PROVE RateInv
  OBVIOUS
<1>1. MaxTime \in Nat
  BY HostAssumption DEF B!RateLimitAssumption
<1> QED BY <1>1, EmptyEmbeds DEF B!Init, RateInv, RateTypes, Times, WindowBounded,
     B!WindowBounded, PatienceRewarded, B!PatienceRewarded

LEMMA RateInvStep == RateInv /\ [B!Next]_B!vars => RateInv'
<1> SUFFICES ASSUME RateInv, [B!Next]_B!vars PROVE RateInv'
  OBVIOUS
<1> USE DEF RateInv, RateTypes, WindowBounded, B!WindowBounded, PatienceRewarded,
            B!PatienceRewarded
<1>1. CASE B!Restart
  <2>1. bucket' = <<>> /\ accepted' = <<>> /\ charged' = 0
        /\ refused' = [limited |-> FALSE, at |-> 0] /\ UNCHANGED <<high, saved>>
    BY <1>1 DEF B!Restart
  <2>2. \E E, f : Embeds(E, f, bucket', accepted', high' - Window)
    BY <2>1, EmptyEmbeds
  <2> QED BY <2>1, <2>2
<1>2. CASE UNCHANGED B!vars
  BY <1>2 DEF B!vars
<1> QED BY <1>1, <1>2, RequestKeeps, TickKeeps DEF B!Next

LEMMA RateInvAlways == B!Spec => []RateInv
BY RateInvInit, RateInvStep, PTL DEF B!Spec

\* For any limit and window, and a clock that steps back by no more than the
\* window.
THEOREM WindowsBounded == B!Spec => []WindowBounded
BY RateInvAlways, PTL DEF RateInv

\* However many requests failed or were refused in between.
THEOREM PatienceIsRewarded == B!Spec => []PatienceRewarded
BY RateInvAlways, PTL DEF RateInv

-----------------------------------------------------------------------------
(* The composition.                                                        *)

\* Whichever part a behaviour of the host follows, it is a behaviour of each.
LEMMA PartStep ==
  ASSUME [HostNext]_allVars
  PROVE  [Next]_vars /\ [R!Next]_R!vars /\ [B!Next]_B!vars
<1>1. CASE part = "provider" /\ Next /\ UNCHANGED <<part, requestVars, rateVars>>
  BY <1>1 DEF requestVars, rateVars, R!vars, B!vars
<1>2. CASE part = "requests" /\ R!Next /\ UNCHANGED <<part, vars, rateVars>>
  BY <1>2 DEF rateVars, B!vars
<1>3. CASE part = "rates" /\ B!Next /\ UNCHANGED <<part, vars, requestVars>>
  BY <1>3 DEF requestVars, R!vars
<1>4. CASE UNCHANGED allVars
  BY <1>4 DEF allVars, requestVars, rateVars, R!vars, B!vars
<1> QED BY <1>1, <1>2, <1>3, <1>4 DEF HostNext

\* A behaviour of the host is one of the simulator, of the requests and of the
\* limiter, so that what each of them keeps alone it keeps in the host.
THEOREM HostActsAsParts == HostSpec => Spec /\ R!Spec /\ B!Spec
<1>1. HostInit => Init /\ R!Init /\ B!Init
  BY DEF HostInit
<1>2. [HostNext]_allVars => [Next]_vars /\ [R!Next]_R!vars /\ [B!Next]_B!vars
  BY PartStep
<1> QED BY <1>1, <1>2, PTL DEF HostSpec, Spec, R!Spec, B!Spec

\* What the runs check of the host follows from its parts: the ledger is the
\* truth, retries are answered and the limiter is fair, whatever part moves.
THEOREM HostHolds ==
  HostSpec => /\ [](RecordTellsEffects /\ RefundsCovered)
              /\ ImplementsProvider
              /\ [](RetryIsAnswered /\ ShownStateIsCurrent)
              /\ [](WindowBounded /\ PatienceRewarded)
BY HostActsAsParts, RecordIsTruth, PaymentsCovered, SimulatorIsProvider, RetriesAnswered,
   ShownStatesCurrent, WindowsBounded, PatienceIsRewarded, PTL
=============================================================================
