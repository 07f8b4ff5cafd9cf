# A TLA+ model of vekquorum

vekquorum is a quorum-approval executor: an agent *proposes* an action, members
of a roster *vote*, and once enough distinct principals approved, the executor
*commits*: it consumes the operation once and for all, calls an adapter, and
records what came of it.  A signed proof of the ceremony can be exported,
verified offline and put into a registry.  This directory holds TLA+ modules
translated from `src/python/vekquorum` (and two files of its TypeScript port),
TLC configurations that check them on small instances, and TLAPS proofs of
theorems about them.

## 1. The system

| component | source (`python/vekquorum/`) | state | operations |
|---|---|---|---|
| Authority | `coordinator.py` `configure`, `store.py` tables `policies`, `authorities` | policy in force, epoch, denied tools, revoked keys, stored policies, admin event stream | `configure` |
| Coordinator | `coordinator.py` | proposals, votes, per-proposal event streams, checkpoints, deliveries, tombstones (`consumed`), dispatch intents, request keys, cached views; in memory the mutex `_mu`, adapter and watcher threads, rate buckets | `propose`, `submit`, `cancel`, `escalate`, `deliver`, `commit`, `reconcile`, `get`, `export_proof`, recovery in `__init__` |
| Journal store | `store.py` | SQLite file and its one connection, `meta.last_logical_ms`, `meta.last_clean_shutdown`, owner lock | `tx`, `logical_now`, `close`, open |
| Provider | `adapters.py` `RefundSimulator` | payments and their versions, `_ledger`, `_intent_by_payment`, effects | `inspect`, `dispatch`, `lookup` |
| Gate, inbox | `adapters.py` | gate: none; `FileInbox`: one file per escalation | `check`, `deliver` |
| Verifier | `verifier.py` | none (a replay over one proof, under a trust document) | `verify_proof` |
| Registry | `registry.py` | policies, bundles, heads and quarantines, conflicts, request keys, minute buckets | `put_policy`, `put_proof`, `verify`, and the reads |
| Public API | `api.py` | none | `sign_vote`, `tally` |
| Canonical JSON and parser | `jsonparse.py`, `canon.py` | none | `parse`, `canonicalize` |
| Schemas, hashing, Ed25519, ids | `schema.py`, `hashing.py`, `ed25519.py`, `ids.py` | none | conversions and validation |
| Command line, display, telemetry, hosted | `cli.py`, `display.py`, `telemetry.py`, `hosted.py` | none of the protocol's | |
| TypeScript port | `src/src` | none | parser, canonicalizer, hashes and signatures again |

How they interact.  Every coordinator operation takes the re-entrant mutex `_mu`
and opens one `BEGIN IMMEDIATE` transaction on the journal: an operation is
atomic with respect to the others, and one that fails rolls back.  `commit` is
the exception: it holds `_mu` across *calls to the host* (gate, `inspect`), whose
answers are used in a second transaction, then starts an *adapter thread* and
waits for it, or leaves a *watcher thread* to wait in its place; a third
transaction records its request key.  `reconcile` asks the provider between two
transactions.  `deliver` calls the inbox *inside* its transaction.  `Store.close`
takes no mutex and shares the connection with the watchers.  A crash may hit
anywhere; the next start recovers interrupted dispatches before it serves
anything.  Proofs leave the process: they are exported from a journal that may
later be restored from an older copy, travel to a verifier, and are registered
by clients that retry.

What is hard, and so what the properties are about: the adapter's late answer,
the timeout, the watcher and a restart all want to report the same dispatch; the
authority or the proposal changes while the host is asked; the wall clock steps
back; a request reaches the provider late, twice or after a restart; a tombstone
is written and the process stops before its outcome is; revocations have to hold
over many epochs; proposals compete for one operation and operations for one
payment; a client retries after the effect but before the answer; the inbox file
exists but is not on the disk; two versions of a proposal's head arrive in any
order; a proof loses pieces; three places count the same votes; two ports must
sign the same bytes.  `PROJECT.json` lists each hazard at its line.

What makes each component correct:

* Authority: epochs are dense, the head of the admin stream is the authority in
  force, revoked keys never come back.
* Coordinator: at most one dispatch per operation, only by the action that holds
  the tombstone, only with a quorum of the bound policy and under the authority
  it was approved for; every dispatch ends in an outcome; a definite outcome is
  true; a client that retries is answered with what happened.
* Journal store: reports are not torn and not doubled by a close or a crash.
* Provider: one result per operation, one refund per payment, no effect at or
  after the deadline.
* Inbox: what the journal calls acknowledged is in the inbox.
* Verifier: accepts every exported proof, attests the journal's own state, and
  accepts nothing the issuer did not hold.
* Registry: a proposal whose head forks is quarantined with the evidence.
* Tally: coordinator, `tally` and verifier agree, and count people.
* JSON: exactly the texts of the grammar are accepted, and equal values, and only
  those, have equal canonical bytes in both ports.

## 2. The modules

| module | models |
|---|---|
| `Authority` | `configure` and the admin stream |
| `Provider` | the idempotent provider behind an adapter and the requests in flight to it |
| `Coordinator` | the ceremony, commit, dispatch, watcher, reconcile, stop and recovery; EXTENDS `Authority` and `Provider` |
| `Verifier` | the replay of `verify_proof` on the stream of a proposal |
| `ConsumeOnce` | abstract specification: what is promised of one operation |
| `Ceremony` | the properties of the composed system, its refinement of `ConsumeOnce`, fairness |
| `RefundSimulator` | the provider in detail, shown to implement `Provider` |
| `Shutdown` | `Store.close` and crashes between the statements of a report |
| `Delivery` | `deliver` and the system calls of `FileInbox`, with power failures |
| `Requests` | request keys, replays and refusals of one client's calls |
| `RateLimit` | a rate bucket under the logical clock |
| `ProofBundle` | checkpoints, exports, restores, damaged proofs and all checks of `verify_proof`; uses `Verifier` |
| `Registry` | `LocalRegistry` |
| `Tally` | `sign_vote`, `tally`, and the two other counters; uses `Verifier` |
| `JsonGrammar`, `JsonText` | what JSON is, as a grammar; the parsers and canonicalizers of both ports |
| `Host`, `Journal`, `Evidence` | compositions: what clients and provider see, what journal and inbox hold, what third parties hold |
| `AuthorityProofs`, `CoordinatorProofs`, `ApprovalProofs`, `DispatchProofs`, `HostProofs`, `JournalProofs`, `EvidenceProofs`, `BundleProofs` | theorems and proofs |
| `MCAuthority`, `MCCeremony`, `MCDispatch`, `MCHost`, `MCEvidence`, `MCJsonText` | instances for TLC |

`Journal`, `Host` and `Evidence` hold several independent instances side by side,
over constants to which `MCDispatch`, `MCHost` and `MCEvidence` give values.  A
behaviour follows the one its variable `part` names, chosen in the initial state;
the others stand still.  In `Evidence` three parts follow the same `ProofBundle`, to keep
the instance small: *damaged* with one life of the journal (`OneLife`), *restored*
with proofs that arrive as they were sent (`Untouched`), and *rekeyed* with one start on
the same journal, under any key, and proofs that only lose pieces (`Rekeyed`); the
theorems are about `ProofBundle` itself, all three at once.  The parts share nothing, so
each is checked as if it were alone, and a property that speaks of one part holds
vacuously of the others only.  The theorems `HostActsAsParts`, `JournalActsAsParts` and
`EvidenceActsAsParts` say that a behaviour of a composition is one of each component, so
what is proved of a component alone holds of the specification the runs check
(`HostHolds`, `JournalHolds`, `EvidenceHolds`).

### Coordinator, provider, verifier

*One transaction is one action.*  `Propose`, `Submit`, `Cancel`, `Escalate`,
`Deliver`, `Configure` and `Touch` are whole operations.  The guard of an action
is the conjunction of the checks the operation passes on its way to a change; an
operation refused with an error rolls back and is no action.  An operation that
finds its proposal lapsed expires or invalidates it and returns the new view:
that is `Touch`, which is also `get`, `export_proof` and every replay.  `Tick` is
`Store.logical_now`, called by each transaction with any reading in `Readings`,
so the wall clock may step back at any time.

*commit and reconcile are sequences of actions* with `mu = [at, act]` telling at
which host call the holder of the mutex is:

| `mu.at` | between | actions leaving it |
|---|---|---|
| `gate` | first transaction and the gate's answer | `HostAgrees`, `CommitFails`, `HostRefuses` |
| `inspect` | gate and the executor's answer | the same |
| `consume` | inspect and the consuming transaction | `Consume`, `ConsumeAbandoned`, `CommitFails` |
| `dispatch` | consuming transaction and the start of the adapter thread | `DispatchCall`, `DispatchRefused`, `StartFails`, `ReportFails` |
| `wait` | start of the thread and its outcome | `WaitReturns`, `WaitTimesOut`, `WaitHandsOver`, `StartFails`, `ReportFails`, `AdapterFaultEscapes` |
| `lookup` | reconcile's transactions | `ReconcileResolves`, `ReconcileUnresolved` |

`MayRun` lets an operation run when the mutex is free, or, with `Reentrant`, out
of a gate or inspect call of the holder (Python's `RLock` lets the same thread
back in).  A nested `commit` or `reconcile` is left out.

*Threads.*  `outcome[a]` is the `outcome` dict of the adapter thread of `a`, and
`watch` the set of watcher threads.  `AdapterReturns` covers a result the
provider did record, every exception, malformed or altered answer (all
`unknown`), and a thread that ends with nothing that can be classified.
A watcher waits without the mutex and records with it (`WatcherFinishes`).

*Exceptions.*  An operation that raises in its transaction is no action: it rolls
back.  A commit that raises before it has consumed gives the mutex back
(`CommitFails`).  Once DISPATCHING is stored three things may raise, with no
second try: the start of the adapter's thread or of the watcher's (`StartFails`),
the transaction of a report, in commit or in the watcher (`ReportFails`), and the
classification of an outcome (`AdapterFaultEscapes`).  Each ends the commit or the
watcher, and until the next start nobody looks at the dispatch; `outcome[a]` is
then in `Lost` and says which it was.  In every instance each may happen at every
dispatch.

*Process.*  `phase` is `down`, `recovering` (inside `__init__`) or `ready`.
`Crash` ends the threads and keeps the journal, `Close` also sets the
clean-shutdown flag, `Open` resets it, `Recover` is one transaction of
`_recover_interrupted`, `BecomeReady` the end of `__init__`.

*Provider.*  `wire` holds the requests adapter threads or their transport may
still deliver; they outlive the process.  `Execute` is
`RefundSimulator.dispatch`: a recorded result is repeated, a request at or past
its deadline fails, another fails or takes effect.  The transport may also
deliver again or drop (`Drop`).

*Abstractions.*  A policy is a record whose equality stands for equality of
hashes; so is an action.  Events keep the fields some check reads.  Signatures,
hashes, evidence, checkpoints and the chain of hashes are functions of what is
kept.  The parts of the coordinator these leave out are the next modules.

### Parts of the host in detail

`RefundSimulator` has the payments the simulator holds: `Inspect` remembers the
version it saw (the precondition), `Send` puts the request a commit builds on the
wire, `Dispatch` gives the code of the first check that fails, in the order of
`dispatch` (recorded result first, then deadline, gate revision, payment,
version, intent, amount, currency), `Touch` is any other change of a payment.  A
refused request is recorded as well.  `ImplementsProvider` maps `lookup` of the
ledger to `Provider`'s ledger, so what the coordinator is verified with is what
the simulator does.

`Shutdown` takes the report of `_finish_dispatch` apart: `BEGIN`, the event, the
proposal's row, the dispatch row, `COMMIT`.  `view` is what the connection sees and
`disk` what is committed.  `Store.close` runs on another thread in four steps (flag,
`commit()`, `close()`, unlock); its `commit()` ends whatever transaction is open.
A statement that raises rolls the report back and ends its thread (`ReportFails`).
`MayClose` tells a host that waits for its watchers (*patient*) from one that does not
(*hasty*), like the process of one command of the command line.  `Recover` raises when
the event's number is already taken.

`Delivery` is `deliver` with the mutex and transaction held around `open
(O_EXCL)`, `write`, `fsync`, `fsync` of the directory.  Every system call may fail
(`SystemCallFails`), a write may be short, the transaction may raise or the process
may die in it (`RolledBack`), and the machine may lose power (`PowerFailure`), all of
them in one behaviour.  `durable` says which of data and directory entry survive a
power failure for certain; what is not in it may be lost, and the journal's
committed transactions and the inbox directory itself stay.  Two history variables
tell what an acknowledgment rests on: `shortened`, that a write has stored less than
it was given, and `ticket`, whether the file was created and synced by the
acknowledged call or found by it, and in the latter case whether the power failed
before it was synced.

`Requests` follows what one client is answered: `_dedupe` by method, key and body,
then the replays that need no key (the same action proposed again, the same vote,
a consumed proposal committed again), then refusals in order.  `commit` records
its key when it returns, so `Crash` and `Raise` (the adapter thread cannot be
started) fall between effect and key.  One approval is a quorum and proposals go
stale by expiry alone; rate limits and drift of the authority are left out, and a
commit that is refused by gate or executor counts as not granted.

`RateLimit` is `_rate_limit`: instants of the logical clock in memory, charged
before the request succeeds; a failed transaction rolls the clock back and not
the bucket, a restart the other way round.  One bucket stands for both.

`ProofBundle` has the issuer of one proposal (transactions that append events, sign
checkpoints and export), `Backup` and a `Restart` on the journal or on the older
copy with the constructor's comparison of heads, and the way of a proof to a
verifier: events, votes or the checkpoint are lost, spoilt, or replaced by pieces
of other exports, lives and proposals.  `Integrity` is `verify_proof` check by
check with its codes.  Hashes are receipt ids, which are never drawn twice;
forging a signature is not among the things that happen.

`Registry` has the seven tables of `SCHEMA`.  `verify_proof`'s verdict is a field
of each proof here.  `Open` is the constructor, `PutPolicy`, `PutProof` and
`VerifyProof` the routes with their checks in the order of the code.

`Tally` starts from any policy the schema's `_policy_invariants` accept
(`PolicyInvariants`), lets people sign and stray votes appear, and compares the
three counters on every order of every pool.

`JsonText` grows a text chunk by chunk and parses it at every length.
`Parse` and its parts follow `jsonparse.py`, `Canonicalize` `canon.py`; the
constant `Port` switches to what `jsonparse.ts` and `canon.ts` do otherwise.
`JsonGrammar` is written independently, from the grammar of RFC 8259 and the
limits of vq/1, and never follows the parser.  Doubles have at most 15 digits and
are no subnormals, so decimal digits represent them exactly; the UTF-8 decoding
and the size limit before the parser are left out.

*Seeded faults.*  Some modules define, next to an operator, a faulty variant
marked `Fault:`; no specification uses it.  Each shows that a property would
notice the fault: with the variant in the operator's place TLC finds the
property violated (section `mutants` of `PROJECT.json`).

## 3. What the runs check

`CHECK_DEADLOCK FALSE` is set in every run: actions, epochs, stops, attempts and
texts are bounded, and a coordinator whose every proposal is settled, or a text
that has grown to its end, has nothing left to do.

| run | instance | checks |
|---|---|---|
| `ceremony` | three proposals for one operation: two under a policy of two with a human, one that needs a stop card; a change of policy and a denied tool; clock stepping back | `OperationExclusive`, `AuthorizedCommit`, `ExportVerifies`, `EffectInTime`, `EnrichmentBeforeQuorum`, types |
| `dispatch` | *coordinator*: one approved operation, two stops (crash or close) anywhere, late answers, watcher, thread starts and reports that raise, reconcile, deliveries. *patient*, *hasty*: two dispatches, three stops, reports that raise, closed after the watchers or at any time. *inbox*: one escalation, three keys, two attempts, failing calls, short writes, two crashes or rollbacks and two power failures | `AtMostOneDispatch`, `NoStrandedDispatch`, `OutcomeHonest`, refinement of `ConsumeOnce`, `DispatchResolves`; `RowFromStream`, `OneOutcome`, `DispatchesResolve`; `AckedIsDelivered`, `OneAnswerPerKey` |
| `drift` | a one-of-two policy; authority changed out of gate and inspect calls in five ways and over three epochs, rejections behind the quorum, one stop | `ConsumedUnderCurrentAuthority`, `NoReenroll`, `RevocationIsFinal` |
| `host` | *provider*: three actions, two operations, one payment. *requests*: two keys; two proposals of one operation and one that takes a used id; one crash or failed start. *rates*: two requests per window of three, clock one step back, one restart | `ImplementsProvider`, `RecordTellsEffects`, `RefundsCovered`; `RetryIsAnswered`, `ShownStateIsCurrent`; `WindowBounded`, `PatienceRewarded` |
| `evidence` | *registry*: six proofs of one proposal that fork at 2, one key, rate limits reached. *damaged*: a two-of-two ceremony, a proof with two damages. *restored*: two restores, three outcomes, two audit keys. *rekeyed*: one start under either of two audit keys, a proof that loses two pieces. *tally*: all two-member policies, some of three, three votes | `HeadIsNewest`, `HeadForksQuarantined`, `QuarantineJustified`, `HeadsOnlyAdvance`, `OneResponsePerKey`; `AcceptedIsGenuine`, `LossReadsIncomplete`; `ExportsVerify`, `NoFork`; `CountersAgree`, `SatisfiedMeansSigners` |
| `json` | all texts of up to six pieces (brackets and literals, members and names, numbers), or of up to four or five (strings, doubles, wire numbers) | `AcceptsExactlyJson`, `CanonicalMeansSame`, `PortsAgree` |

Bounds, and why they are enough.

* Coordinator.  Readings `0 .. 2` put at least one below, at and above every
  expiry and deadline that matters; `SkewLimit` 1 makes `Open` refuse a clock too
  far back.  Rivalry is decided by pairs (`NoLiveRival`), and the third proposal
  may start when a first has lapsed while a second is ready.  Two stops allow a
  stop during the recovery from a stop.  `MaxEpoch` 3 in `drift` is: enrolled,
  revoked, enrolled again; the shortest way both revocation properties fail.
  `CreatedWindow`, `DispatchBudget`, `MinTtl` are scaled to the readings, so that
  both branches of each comparison are met.
* `Shutdown`.  Two dispatches are two watchers that compete for mutex and
  connection; with three stops a report is cut off, recovered, and the recovery
  cut off again.
* `Delivery`.  Two attempts reach the limit; three keys are one for each attempt
  and one beyond.  Two crashes or rollbacks and two power failures in any order:
  a call is cut off, its retry is too, and what either left in the cache is lost.
  Failing calls and short writes are not counted.
* `RefundSimulator`.  Two operations on one payment of which one comes under two
  actions is the smallest case in which the version, the intent and the ledger
  each have to stop something.  Gate mismatch, unknown payments and currencies
  are not reached in this instance; the theorems cover them.
* `Requests`.  One key for the request and one for the retry under another.
  Revisions up to 3 cover vote, quorum and stale expectations.
* `RateLimit`.  A limit of two over a window of three readings, nine readings: a
  bucket fills, moves on and fills again across a restart.
* `Registry`.  Two chains that part at 2 and one that goes on to 3, and a second
  bundle over the same checkpoint.  `WriteLimit` 5 in a single minute leaves five
  registrations of six.
* `ProofBundle`.  A ceremony of a two-of-two policy has up to six events; two
  damages let one hide another.  Two audit keys and two starts let a stream go from one
  key to the other and back.
* `Tally`.  All decisions about principals, keys and public keys are about pairs
  of members; the third member has a threshold of three met or missed.
* JSON.  The pieces are chosen so that every branch of both parsers is met, with
  limits small enough to be passed: depth 2, two members, `SafeMax` 99.

`MCDrift.cfg` and `MCCallback.cfg` set `Reentrant`; the other instances keep to
hosts that do not call back.  Nothing switches an exception or a failing call off.  `AttemptsInStream` (`Delivery`), `ReportsAtomic` and `StartSucceeds`
(`Shutdown`, of a patient host), `LiveBounded` (`Requests`), `RegistrationsBounded`
(`Registry`) and the type invariants of these modules hold in the instances above; no
listed run repeats them, since section 6 lists theorems that state the first five, with
the types of `Delivery`, `Requests` and `Registry`.

## 4. Fairness

`Fairness` of `Ceremony` assumes only what the process itself schedules: the
committing thread makes its call and its wait is bounded (`done.wait(timeout)`), so
it ends one way or another, also by raising (`WaitEnds`); the watcher gives up after
its own five seconds; the host starts a stopped process again and at some point
under a clock the readiness check accepts, and recovery goes on to readiness.
Nothing is assumed of the adapter, transport or provider, of thread starts or of
reports, all of which may raise, nor of gate and inspect calls, which have no time
limit in the code: they may hang forever.  So `DispatchResolves` says two things: a
dispatch ends in an outcome unless an exception takes its reporter, and whatever
took it, one that a stopped process leaves always ends in an outcome.  For the
watcher, weak fairness is enough in the instance of the run, with one action: nobody
else can hold the mutex at a host call that never returns.  With a second action at
a gate that hangs, a watcher may wait forever; the hazard list says so.

`Shutdown` assumes that a watcher goes on to its next statement once it holds the
mutex, that `close` runs through, and that a stopped host starts again and its
constructor runs through; not that a report is stored, nor that the host is ever
closed.  `DispatchesResolve` is
claimed of a host that closes after its watchers (*patient*): section 5 says what
becomes of a hasty one.  `PartFairness` in `Journal` is these two, each for the
part that moves.

## 5. What the code does otherwise than it says

Six runs end in a counterexample, each against a sentence of the repository:

* `authority_reuse`: `configure` stores policies with `INSERT OR REPLACE` under
  `(policy_id, version)`.  If a roster is edited without a new version, the row
  that knew the public key of a revoked key id is gone, and the public key can be
  enrolled again, against the comment at `coordinator.py:491`.
* `faulty`: an adapter that ends with an exception outside `Exception` leaves
  `outcome` empty and `_classify_outcome` raises `KeyError`; one that leaves a value
  `H` cannot hash in the copy it was handed makes the rehash raise, outside of the
  `try`.  Nobody reports the dispatch until the next start, though every thread
  starts and every report is stored (`AdapterFaultsAreUnknown`), against "adapter
  faults are UNKNOWN, not failure" (`coordinator.py:1020`).
* `callback`: the refusing branches after gate and inspect do not read the state
  again; when a host calls back in and cancels (or touches past its expiry) the
  proposal meanwhile, a second final event is appended and the exported proof
  does not verify.
* `irreversible`: the human an irreversible tool needs is checked against the
  *policy's* tool, but an action's tool is never compared with its policy's.
* `registry_reopen`: `SCHEMA` creates its tables without `IF NOT EXISTS` on every
  open, so a registry file can be opened once; the command line opens it in every
  command.
* `json_digits`: `str.isdigit` and `int` take digits of other scripts, so the
  "strict" parser reads `٣` as 3.

The modules hold more such disagreements than there are runs.  Each shows with
the constants given, when the property is put into the configuration:

* `Ceremony`: recovery leaves the view of an UNKNOWN proposal without its result,
  which `_finish_dispatch` and the conformance fixtures show (`UnknownIsShown`,
  the instance of *coordinator*).
* `Shutdown` with `HostWaits <- FALSE`: `Store.close` commits a watcher's event
  without its row; the next start, and every later one, finds the event's number
  taken and cannot be constructed (`StartSucceeds`).  The command line is such a
  host: it closes when `commit` returns, also when `--wait-ms` ended before the
  adapter did (`cli.py:537-539`).  With `HostWaits <- TRUE` it is a theorem
  (`CarefulHostsStart`).
* `Delivery`: what `write` returns is not looked at, so a part of a request can be
  acknowledged (`AckedIsDelivered` without `shortened`).
* `Delivery`: a retry that finds the whole file acknowledges it without `fsync`, and
  a power failure may then take it (`AckedIsDelivered` without `ticket = "unbacked"`).
* `Delivery`: a call cut off between `open` and a whole `write` leaves an empty file
  or a part, which every retry rejects until the attempts are used up; the escalation
  is never acknowledged.
* `Registry`: the retry of a request that ended in EQUIVOCATION is *returned* the
  error body as a response instead of raising it (`OneOutcomePerKey`).
* `ProofBundle`: a proposal that lives through a change of the audit key is signed
  under two, and `verify_proof` accepts one.  `ExportsVerify` and `LossReadsIncomplete`
  say what the code does: what two keys have signed is invalid, even when nothing is
  missing or spoilt and the trust document lists both.
* `Requests` with `Reuse <- TRUE`: a `commit` that crashed before it recorded its
  key leaves the key to another request (`KeyNamesOneRequest`).
* `JsonText` with integers longer than `MaxIntDigits` (4300 in CPython): `int()`
  raises a `ValueError` that is no coded refusal (`AcceptsExactlyJson`, with a
  chunk of that length).
* `JsonText` with a member name `Proto` in the chunks: the TypeScript port writes
  members into a plain object, so `__proto__` is lost, and its duplicates are
  accepted (`PortsAgree`).

## 6. What is proved

For every value of the constants that meets the assumptions `AuthorityAssumption`,
`CoordinatorAssumption`, `SimulatorAssumption`, `HostAssumption`, `PartsAssumption`,
`RegistryAssumption` and `EvidenceAssumption` (all evaluated by TLC):

| theorem | module | says |
|---|---|---|
| `AuthorityTypes` | `AuthorityProofs` | The admin stream records every epoch in order and its head is the authority in force, for every set of configurations. |
| `RevocationHolds` | `AuthorityProofs` | A key id revoked at some epoch is on no roster from that epoch on. |
| `RevokedNeverReenroll` | `AuthorityProofs` | If a policy version is never edited, a public key once revoked never comes back under any key id. |
| `CoordinatorTypesHold` | `CoordinatorProofs` | The whole coordinator is well typed in every reachable state of every instance: reports find their dispatch row, commits an authority, deliveries stay within their limit. |
| `DispatchedAtMostOnce` | `DispatchProofs` | At most one adapter call and one effect per operation, for the tombstone's action only, over timeouts, late answers and restarts. |
| `EffectsInTime` | `DispatchProofs` | No effect at or after the approved expiry by the provider's clock, however late the commit or the request. |
| `OutcomesHonest` | `DispatchProofs` | SUCCEEDED only after an effect of this very action, FAILED only when none has happened or can. |
| `NoneStranded` | `DispatchProofs` | In a ready process every dispatch has a commit or a watcher that will report it, but those an exception in this life of the process took it from; an earlier life leaves none, however it ended. |
| `CoordinatorConsumesOnce` | `DispatchProofs` | The coordinator with its journal, threads, stops and provider implements `ConsumeOnce` under the tombstone and report mapping. |
| `OperationsExclusive` | `ApprovalProofs` | At most one live proposal per operation, and none once it is consumed. |
| `CommitsAuthorized` | `ApprovalProofs` | Behind every tombstone stand enough distinct approvers of the bound policy, a human if it asks for one, and no rejection on the roster. |
| `CeremoniesKeepRevocations`, `CeremoniesNeverReenroll` | `ApprovalProofs` | Both statements about revocations under the whole coordinator, whatever is proposed, voted and committed meanwhile. |
| `ConsumesUnderAuthority` | `ApprovalProofs` | A tombstone is only written under the authority the action was approved for, with its tool allowed and no roster key revoked. |
| `QuorumsEnriched` | `ApprovalProofs` | There is no quorum under a policy that demands a stop card unless the card was fresh at the proposal. |
| `StreamsVerify` | `ApprovalProofs` | If the host does not call back, the verifier accepts every proposal's stream, of any length, replays it to the journal's state and finds it authorized exactly when it is ready or consumed. |
| `TypesHold` | `HostProofs` | The simulator's tables keep their types. |
| `RecordIsTruth` | `HostProofs` | `lookup` says succeeded of exactly the operations that took effect, and none took effect twice, for any requests however repeated and late. |
| `PaymentsCovered` | `HostProofs` | A payment is refunded under one operation, once and within what it holds. |
| `SimulatorIsProvider` | `HostProofs` | Every step of the simulator is a step of `Provider` or leaves the mapped state unchanged. |
| `RetriesAnswered` | `HostProofs` | A client that keeps a key for one request and repeats one that took effect is answered, over crashes and failed starts. |
| `LiveStaysBounded` | `HostProofs` | No more proposals are live than the limit allows, no two of them compete for an operation, and a tombstone names the proposal whose state says so. |
| `ShownStatesCurrent` | `HostProofs` | No answer shows a proposal as live after its expiry has passed on the logical clock. |
| `WindowsBounded` | `HostProofs` | No window of the logical clock holds more charged requests than the limit, over clock steps and failed transactions, in one life of the process. |
| `PatienceIsRewarded` | `HostProofs` | A client that waits out the window after its last charged request is let in. |
| `HostActsAsParts`, `HostHolds` | `HostProofs` | A behaviour of `Host` is one of each part, and has all properties run `host` checks. |
| `RowsFollowStreams` | `JournalProofs` | Wherever watchers, reports that raise, a close and crashes interleave, the committed row is never ahead of the stream and has the state the stream gives. |
| `OutcomesSingle` | `JournalProofs` | A dispatch gets at most one outcome event, over any number of reports cut off and recovered. |
| `CarefulHostsStart` | `JournalProofs` | A host that closes after its watchers has whole reports on disk or none, and every start succeeds. |
| `AckedThroughFailures` | `JournalProofs` | What the journal calls acknowledged is in the inbox whole, over failing calls, rollbacks, crashes and power failures in any order, unless a write was short or the power failed after an unsynced duplicate was acknowledged. |
| `AttemptsCounted` | `JournalProofs` | The delivery attempts the limit counts are those in the stream, over failing calls, rollbacks, crashes and power failures. |
| `AnswersAgree` | `JournalProofs` | A client that repeats an escalation key is told what it was told before. |
| `JournalActsAsParts`, `JournalHolds`, `JournalStrandsNone` | `JournalProofs` | A behaviour of `Journal` is one of each part, and has all safety properties run `dispatch` checks. |
| `HeadIsNewestAlways` | `EvidenceProofs` | The head of a proposal in good standing is its newest stored bundle. |
| `ForksQuarantined` | `EvidenceProofs` | No order of registrations hides a fork at the head. |
| `QuarantinesJustified` | `EvidenceProofs` | A quarantine always rests on two retained checkpoints that disagree. |
| `HeadsAdvance` | `EvidenceProofs` | A quarantined head is frozen and no head goes back. |
| `ResponsesStable` | `EvidenceProofs` | A key has one request and one response for ever. |
| `WritesBounded` | `EvidenceProofs` | No minute registers more new bundles of a tenant than the write limit admits. |
| `CheckpointsDoNotFork` | `EvidenceProofs` | If the issuer compares its head at each start (`Frontier`), two signed checkpoints of one number are equal, over any restores. |
| `AcceptedProofsAreGenuine` | `BundleProofs` | Whatever was lost, mixed up or spoilt on a proof's way, when it verifies its events, its votes and the state it attests are those of some life of the journal. |
| `ExportsVerifyUnderOneKey` | `BundleProofs` | Over any votes, commits, restores, recoveries and changes of the audit key: an export verifies when its events and checkpoint were signed under one key, and is invalid otherwise. |
| `EveryExportVerifies` | `BundleProofs` | If there is one audit key, every exported proof verifies. |
| `LossesReadIncomplete` | `BundleProofs` | A proof that has lost any events and votes, and nothing else, reads as incomplete to everyone who trusts its keys, or as invalid if two keys have signed it; never as valid. |
| `EvidenceActsAsParts`, `EvidenceHolds`, `EvidenceDoesNotFork` | `BundleProofs` | A behaviour of `Evidence` is one of each part, and has all properties run `evidence` checks; `NoFork` with `Frontier`. |
| `CountersAlwaysAgree` | `EvidenceProofs` | For every policy that passes the schema, the coordinator's quorum, the tally of the same votes in any order and the verifier's quorum are one. |
| `SatisfiedHasSigners` | `EvidenceProofs` | Behind a satisfied tally, of any list in any order, stand as many private keys as the threshold asks for, and no key with two decisions. |

Argument.  `AuthorityProofs`: the type invariant of the admin stream is
inductive.  `RevocationIsFinal` needs that the revoked sets of later epochs
contain those of earlier ones (`RevocationsGrow`).  `NoReenroll` needs more:
under `VersionsImmutable` no stored policy is ever replaced by another, so the
policies table knows every member any epoch ever enrolled (`RevocationMemory`).
Run `authority_reuse` shows that the assumption is necessary.  Both are proved of
`configure` alone; `AuthorityChanges` in `ApprovalProofs` shows that no other step of the
coordinator touches the authority, which carries them over to the ceremony of run
`drift` (`CeremonyHasAuthority`).

`CoordinatorProofs`: types alone are not inductive, because a report is written
into a dispatch row that must exist and `CommitStarted` quotes an authority that
must be installed.  `Core` adds that tombstone, dispatch row and proposal state
agree (`Tombstones`), that proposals imply an authority (`Installed`) and what the
holder of the mutex knows about its proposal at each place (`Holding`).  There is
one lemma per action; `CoreStep` puts them together.

Its second half states once what a step can change: the frames of the groups of
actions, the state diagram of a proposal (`Moves`, at most one proposal per step),
of an adapter thread (`OutcomeMoves`), of a dispatch row (`RowsKept`) and of the
process (`PhaseMoves`).  The proofs below argue from these and hardly ever from
the thirty actions.

`DispatchProofs` strengthens the properties of dispatch: a call is counted
against the tombstone and the place of the mutex holder (`Calls`), an effect
against the provider's record (`Recorded`), its instant against the deadlines in
dispatch row and request (`Deadlines`), a final state and an outcome against the
record (`Truthful`), and recovery against the clean-shutdown flag and the row's
result (`Pending`).  For `NoneStranded` a dispatch with a reporter keeps it or is
settled, or an exception marks it as lost (`ReporterStays`), a lost one stays lost while
the process lives (`LostStays`), and `Pending` makes recovery settle all that is left
before it is ready.  No adapter, thread start or report is assumed to succeed.
The refinement of `ConsumeOnce` maps every step: `Consume` claims, an execution
with an effect performs, reports, recovery and reconcile report, and everything
else stutters.

`ApprovalProofs` needs that votes and state agree (`Ballots`: a quorum only grows
while nobody rejects) and that the policy in force is stored (`InForce`), since
the code reads the roster of a policy whose row is gone as empty.

The stream is the other half of that module.  `Grows` says how a stream can become
longer: one of a few events for each state it may be in, with what each carries.
`QuorumsEnriched` follows from it by `Origins` (what the first events of a stream
say about the stop card).  For `StreamsVerify` the replay of a whole stream has to be
in the invariant.  `Reduce` is a fold over the stream; `ReduceIsRun` unrolls it into
a run of states, one per event, and `RunsAgree` shows by the least position at which
two runs part that two streams with a common beginning are replayed alike, so
`ReduceAppend` gives the replay of a longer stream from that of the shorter.
`ExportInv` then says of each stream that the verifier accepts it and replays it
to the proposal's state and votes (`Streamed`), with what an event's legality
rests on: the quorum behind READY (`Ballots`), that a proposal at gate or inspect is
READY (`HeldReady`), that a pending delivery belongs to an escalated one
(`PendingEscalated`), and that votes are by keys of the roster (`RosterVotes`).
`HeldReady` is where a host that calls back has to be excluded (`~Reentrant`), and run
`callback` shows that it must be.

`HostProofs`, the simulator: `Recordings` (an operation has exactly the effects its
record says) and `Intended` (each effect is an affordable refund of a payment whose
intent is that operation) are inductive with the types.  The refinement needs
nothing but the guards of `dispatch`.  So `Coordinator`, which EXTENDS `Provider`,
is verified with what `RefundSimulator` does.  Requests: a granted request is either
recorded, or the one in progress, or a `commit` whose proposal is consumed
(`RequestInv`).  For `LiveStaysBounded` every request opens a proposal, consumes one, or
changes a row that stays as live and as consumed as it was (`Moved`); `LiveInv` adds to
the limit that a live proposal's operation has no tombstone.  Rates: the charged instants that a window may still
count are embedded in the bucket, entry by entry (`Embeds`), so the length of
the bucket bounds them.

`JournalProofs`: between two statements of a report a row is in one of five shapes, and
on an open connection the place of its watcher says in which (`JournalInv`); a report
that raises restores the committed rows, because only the holder's row is ahead of them
(`Owned`).  When the
host waits for its watchers, no report is cut off by a close, and what a crash cuts off is
rolled back: only whole rows are ever on disk (`CarefulInv`).  In the inbox
(`InboxInv`) a call in progress knows what it has written and synced (`Writing`), and an
acknowledgment rests on a file that was synced, or on one found whole and either still
so or lost to a power failure before anybody synced it (`Acked`).  The
attempts counted are those of the stream (`AttemptInv`).

`EvidenceProofs`, registry: the routes are reduced to one fact (`StepSplit`): a step
leaves bundles, heads and conflicts alone, or accepts one proof.  The three invariants
of heads are inductive with their types; `ResponsesStable` goes by the keys, of which a
stored one is never written again.  `WritesBounded` charges what a minute registered of a
tenant to that minute's bucket (`WritesCharged`).  Proofs: receipt ids never repeat, so in all the
lives of the journal one of them stands for its event and for all events before it
(`HistoryInv`).  With `Frontier` each life's stream is a prefix of the newest one
(`FrontierInv`), which leaves one head per number.  What can be on its way is
described by `ParcelInv`; the checks of `verify_proof` force its events to be linked
up to a checkpoint's head, and the head's receipt determines the rest.

The replay is the subject of `BundleProofs`, over every journal in `history`:
`FaithfulInv` says that each of its streams is legal from every beginning on, leads to
the journal's state and records exactly the votes retained.  That a fold over the
events is a run of states, and that a run only depends on the votes it has read, are
lemmas as in `ApprovalProofs` (`RunsAgree`, `SameVotes`).  For `ExportsVerifyUnderOneKey`
the votes of an export, ranked by key, are read back as the ballots they were written
from (`ExportedInv`); when two keys signed it, some signature is not under the key of the
checkpoint (`SplitInvalid`).  For
`AcceptedProofsAreGenuine` it goes the other way (`SlipsInv`, `SlipsRead`): votes in
ascending order that the replay accepts are the ranked list of their own ballots, the
replay of the genuine stream under them runs as it did under the journal's, and so
records the same votes.

`LossesReadIncomplete` says what is left of a proof (`LossInv`): events of the stream
under their own numbers, votes of the journal in their order, and fewer of one of them
once anything was lost.  Then the first gap between the events shows in a number
(`LeftChained`), a missing tail in the checkpoint, and a missing vote in the replay:
the event where the replay first differs from the journal's own is that vote's
(`FirstRefused`), or the replay ends with more votes recorded than are there.

In `EvidenceProofs` again, the tally is a fold over a list of votes and unrolled like
the replay (`CountingCounts`): it keeps the votes that are of this action and sound,
and it knows when one key said two things.  `TallyInv` says that the votes the
coordinator retains are such votes, one per key, and that its state is what they ask
for.  `RosterDistinct` takes from the policy's invariants that members, keys,
principals and public keys correspond one to one.  With that `CountersAlwaysAgree`
compares sets of approvals, and `SatisfiedHasSigners` maps the principals that count
onto the seeds that signed.

The assumptions on the constants are what the code validates: well-formed
policies (`schema.policy`), a trust document that lists an audit key once
(`schema.trust`), non-negative integers, and a `None` that is none of the other
values.

Only model-checked: the liveness properties `DispatchResolves` and
`DispatchesResolve`, since fairness is out of the prover's reach, and
`AcceptsExactlyJson`, `CanonicalMeansSame` and `PortsAgree` about JSON, whose parser
and grammar are recursive operators.  Every other property of a passing run is
stated by a theorem.

## 7. Not modelled

* A `COMMIT` that raises itself: `Store.tx` then leaves its transaction open.  Every
  other statement may raise.
* The owner lock file and the schema version check of `Store`: one process per
  journal is assumed.
* A `commit` or `reconcile` nested in a gate or inspect call of another.
* Hashes, Ed25519 and identifiers: equal contents for equal hashes, nobody signs
  for another, ids are never drawn twice.
* The shapes of the messages (`schema.py` beyond the policy invariants and the
  arguments of a refund), the UTF-8 decoding and the size limit of a body: input
  validation without state.
* The wording of views, the review display, telemetry and the hosted
  configuration: no protocol state.
* Of the command line, arguments, exit codes and output files.  That each command
  is a process is modelled where it matters: it closes the store behind its
  watchers (`Shutdown`), and opens the registry file again (`registry_reopen`).
* Of the TypeScript port, hashing, signatures and identifiers.
* Heads below a proposal's head: the registry does not look there either, see the
  hazard list.

## 8. Plan

1. (done) `Authority`, `Provider`, `Coordinator`, `Verifier`, `ConsumeOnce`,
   `Ceremony`, their runs and proofs.
2. (done) `RefundSimulator`, `Shutdown`, `Delivery`, `Requests`, `RateLimit`,
   `ProofBundle`, `Registry`, `Tally`, `JsonText`; proofs for `Registry` and
   `RefundSimulator`.
3. (done) The compositions as modules of their own; proofs about requests, rates,
   `Shutdown`, `Delivery` and `ProofBundle`; the replay of whole streams.
4. (done) The votes and states of exported and accepted proofs.
5. (done) Losses on a proof's way, changes of the audit key and the three counters,
   so that every safety property outside of `JsonText` is proved.
6. (done) What runs check of whole compositions as theorems about them: the authority
   inside the ceremony, hosts that close after their watchers, the limits on live
   proposals, attempts and registrations, and any number of audit keys.
7. Next: a smaller instance on which TLC follows several parts of a host at once;
   the JSON parser as recursive functions, for theorems about single steps of it.
