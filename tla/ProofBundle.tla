----------------------------- MODULE ProofBundle -----------------------------
(***************************************************************************)
(* Exported proofs of one proposal on their way to an offline verifier.    *)
(* The issuer (python/vekquorum/coordinator.py) appends events, signs      *)
(* checkpoints and exports; its journal may be restored from an older copy *)
(* and its audit key may change at a restart.  On the way a proof loses    *)
(* pieces or is mixed up with pieces of other proofs, and verify_proof     *)
(* (verifier.py) has to tell.                                              *)
(*                                                                         *)
(* Receipt ids are drawn from a large space: `minted` never repeats, also  *)
(* across a restore, so an unaltered event is known by its receipt id and  *)
(* that id stands for the hash of its body.  An altered event has a        *)
(* signature that does not fit.  The pieces of the tenant's other          *)
(* proposals are those in Foreign.                                         *)
(***************************************************************************)
EXTENDS Integers, Sequences, FiniteSets, SequencesExt

CONSTANTS None, DispatchBudget,
          Action,        \* [policy, epoch, expires]; keys are integers
          AuditKeys,     \* audit keys the issuer is configured with, in turn
          Trusts,        \* the verifier's Trust documents: sets of
                         \* [key, first, last], last None if open
          Frontier,      \* the host keeps the newest head hash and supplies it
          Outcomes,      \* results the executor has given
          MaxRestarts, MaxExports, MaxDamage   \* bounds

VARIABLES journal,   \* [stream, votes, state, checkpoints] of the proposal
          audit,     \* audit_key_id the coordinator runs with
          backup,    \* an older copy of the journal
          minted,    \* receipt ids drawn so far
          newest,    \* head hash the host has seen last
          restarts,
          history,   \* journal at the end of each transaction, in every life
          exports,   \* proofs handed out
          bundle,    \* the proof on its way, None before it is taken
          damage,    \* what happened to it
          lossy      \* nothing but losses happened to it

issuer == <<journal, audit, backup, minted, newest, restarts, history, exports>>
vars == <<journal, audit, backup, minted, newest, restarts, history, exports,
          bundle, damage, lossy>>

V == INSTANCE Verifier

Keys == {m.key : m \in Action.policy.roster}

BundleAssumption ==
  /\ Keys \subseteq Int /\ IsFiniteSet(Keys) /\ None \notin Int
  /\ None \notin {"approve", "reject"}
  /\ DispatchBudget \in Nat /\ Action.expires \in Nat
  /\ Outcomes \subseteq {"succeeded", "failed", "unknown"}
  /\ \A trust \in Trusts : \A k, l \in trust : k.key = l.key => k = l
  /\ Frontier \in BOOLEAN
  /\ MaxRestarts \in Nat /\ MaxExports \in Nat /\ MaxDamage \in Nat

-----------------------------------------------------------------------------
(* The issuer.  One transaction appends one or more events.                *)

Entry(seq, prev, receipt, key, data) ==
  [of |-> "this", seq |-> seq, prev |-> prev, receipt |-> receipt,
   hash |-> receipt, key |-> key, sound |-> TRUE, data |-> data]

HeadHash(j) == Last(j.stream).hash

\* Fault: the head hash of the view is not moved on within a transaction.
Unmoved(stream, key, n, datas) ==
  stream \o [i \in 1 .. Len(datas) |->
    Entry(Len(stream) + i, IF stream = <<>> THEN None ELSE Last(stream).hash,
          n + i, key, datas[i])]

\* _append_event, for the events of one transaction; the receipt ids follow n.
Appended(stream, key, n, datas) ==
  stream \o [i \in 1 .. Len(datas) |->
    Entry(Len(stream) + i,
          IF i > 1 THEN n + i - 1
          ELSE IF stream = <<>> THEN None ELSE Last(stream).hash,
          n + i, key, datas[i])]

\* _checkpoint_for: one checkpoint per head, signed when it is first needed.
WithCheckpoint(j) ==
  LET seq == Len(j.stream) IN
  IF \E c \in j.checkpoints : c.seq = seq THEN j
  ELSE [j EXCEPT !.checkpoints = @ \union
         {[of |-> "this", epoch |-> Action.epoch, seq |-> seq,
           head |-> HeadHash(j), key |-> audit, sound |-> TRUE]}]

Data(type) == [type |-> type, at |-> 0]
Voted(k, d) == [type |-> "VoteRecorded", at |-> 0, key |-> k, decision |-> d]
QuorumData(ks) == [type |-> "QuorumReached", at |-> 0, keys |-> ks]
Refused == [type |-> "Escalated", at |-> 0, reason |-> "reject_vote"]
CommitData == [type |-> "CommitStarted", at |-> 0, epoch |-> Action.epoch,
               deadline |-> IF Action.expires < DispatchBudget
                              THEN Action.expires ELSE DispatchBudget]
Reported(status) == [type |-> "ExecutionReported", at |-> 0, status |-> status]

Proposed == [type |-> "Proposed", at |-> 0, epoch |-> Action.epoch]

Init ==
  /\ audit \in AuditKeys
  /\ journal = [stream |-> Appended(<<>>, audit, 0, <<Proposed>>),
                votes |-> [k \in Keys |-> None], state |-> "OPEN",
                checkpoints |-> {}]
  /\ backup = None /\ minted = 1 /\ newest = 1 /\ restarts = 0
  /\ history = {journal} /\ exports = {}
  /\ bundle = None /\ damage = 0 /\ lossy = TRUE

\* A transaction that leaves journal j behind.
Write(j, n) ==
  /\ bundle = None
  /\ journal' = j
  /\ minted' = minted + n
  /\ newest' = HeadHash(j)
  /\ history' = history \union {j}

\* submit: the vote, and what it decides.
Submit(k, d) ==
  /\ journal.state \in V!Live /\ journal.votes[k] = None
  /\ LET votes == [journal.votes EXCEPT ![k] = d]
         approving == {x \in Keys : votes[x] = "approve"}
         enough == journal.state = "OPEN" /\ V!Quorum(Action.policy, approving)
         datas == IF d = "reject" THEN <<Voted(k, d), Refused>>
                  ELSE IF enough THEN <<Voted(k, d), QuorumData(approving)>>
                  ELSE <<Voted(k, d)>>
         written == [journal EXCEPT
                       !.stream = Appended(@, audit, minted, datas),
                       !.votes = votes,
                       !.state = IF d = "reject" THEN "ESCALATED"
                                 ELSE IF enough THEN "READY" ELSE @] IN
     Write(IF d = "reject" THEN WithCheckpoint(written) ELSE written, Len(datas))
  /\ UNCHANGED <<audit, backup, restarts, exports, bundle, damage, lossy>>

Step(from, data, to) ==
  /\ journal.state = from
  /\ Write([journal EXCEPT !.stream = Appended(@, audit, minted, <<data>>),
                           !.state = to], 1)
  /\ UNCHANGED <<audit, backup, restarts, exports, bundle, damage, lossy>>

Commit == Step("READY", CommitData, "DISPATCHING")
Report(s) == Step("DISPATCHING", Reported(s), V!StateOf(s))
Cancel == Step("OPEN", Data("Canceled"), "CANCELED")

\* The retained votes in the order of their key ids.
Retained(votes) == {k \in Keys : votes[k] # None}
Ranked(K, i) == CHOOSE k \in K : Cardinality({x \in K : x <= k}) = i
VoteList(votes) ==
  [i \in 1 .. Cardinality(Retained(votes)) |->
     LET k == Ranked(Retained(votes), i) IN
     [of |-> "this", key |-> k, decision |-> votes[k], sound |-> TRUE]]

\* Fault: the last event is appended after the events have been read.
StaleExport(j) ==
  [events |-> Front(j.stream), votes |-> VoteList(j.votes),
   checkpoint |-> CHOOSE c \in j.checkpoints : c.seq = Len(j.stream)]

ProofOf(j) ==
  [events |-> j.stream, votes |-> VoteList(j.votes),
   checkpoint |-> CHOOSE c \in j.checkpoints : c.seq = Len(j.stream)]

\* export_proof signs a checkpoint for the head if it has none.
Export ==
  /\ bundle = None /\ Cardinality(exports) < MaxExports
  /\ journal' = WithCheckpoint(journal)
  /\ exports' = exports \union {ProofOf(journal')}
  /\ history' = history \union {journal'}
  /\ UNCHANGED <<audit, backup, minted, newest, restarts, bundle, damage, lossy>>

Backup ==
  /\ bundle = None /\ restarts < MaxRestarts
  /\ backup' = journal
  /\ UNCHANGED <<journal, audit, minted, newest, restarts, history, exports,
                 bundle, damage, lossy>>

\* Fault: the local head is not compared.
AnyHead(j) == TRUE
AtFrontier(j) == Frontier => HeadHash(j) = newest

\* The process starts again on its journal or on the restored copy, maybe with
\* another audit key; recovery reports an interrupted dispatch.
Restart(j, key) ==
  /\ bundle = None /\ restarts < MaxRestarts
  /\ AtFrontier(j)
  /\ audit' = key
  /\ restarts' = restarts + 1
  /\ LET opened == IF j.state = "DISPATCHING"
                   THEN [j EXCEPT
                           !.stream = Appended(@, key, minted, <<Reported("unknown")>>),
                           !.state = "UNKNOWN"]
                   ELSE j IN
     Write(opened, Len(opened.stream) - Len(j.stream))
  /\ UNCHANGED <<backup, exports, bundle, damage, lossy>>

-----------------------------------------------------------------------------
(* The proof on its way: pieces get lost, or it is mixed up with others.   *)

Take(x) ==
  /\ bundle = None /\ damage = 0
  /\ bundle' = x
  /\ UNCHANGED <<issuer, damage, lossy>>

Becomes(x, loss) ==
  /\ bundle # None /\ damage < MaxDamage
  /\ bundle' = x
  /\ damage' = damage + 1
  /\ lossy' = (lossy /\ loss)
  /\ UNCHANGED issuer

LoseEvent(i) == Becomes([bundle EXCEPT !.events = RemoveAt(@, i)], TRUE)
LoseTail(i) == Becomes([bundle EXCEPT !.events = SubSeq(@, 1, i - 1)], TRUE)
LoseVote(i) == Becomes([bundle EXCEPT !.votes = RemoveAt(@, i)], TRUE)

\* A piece of a file is unreadable, or its hash field is.
SpoilEvent(i) == Becomes([bundle EXCEPT !.events[i].sound = FALSE], FALSE)
SpoilHash(i) == Becomes([bundle EXCEPT !.events[i].hash = None], FALSE)
SpoilCheckpoint == Becomes([bundle EXCEPT !.checkpoint.sound = FALSE], FALSE)
SpoilVote(i) == Becomes([bundle EXCEPT !.votes[i].sound = FALSE], FALSE)

Swap(s, i) == [s EXCEPT ![i] = s[i + 1], ![i + 1] = s[i]]
SwapEvents(i) == Becomes([bundle EXCEPT !.events = Swap(@, i)], FALSE)
SwapVotes(i) == Becomes([bundle EXCEPT !.votes = Swap(@, i)], FALSE)

\* Pieces of other lives and positions of this proposal, and of another one.
Signed == UNION {ToSet(j.stream) : j \in history}
Checkpoints == UNION {j.checkpoints : j \in history}
Votes == [of : {"this"}, key : Keys, decision : {"approve", "reject"}, sound : {TRUE}]
Foreign(x) == [x EXCEPT !.of = "other"]

MixEvent(i, e) == Becomes([bundle EXCEPT !.events[i] = e], FALSE)
MixTail(e) == Becomes([bundle EXCEPT !.events = Append(@, e)], FALSE)
MixCheckpoint(c) == Becomes([bundle EXCEPT !.checkpoint = c], FALSE)
MixVote(i, v) == Becomes([bundle EXCEPT !.votes[i] = v], FALSE)
MixVotes(v) == Becomes([bundle EXCEPT !.votes = Append(@, v)], FALSE)

Issue ==
  \/ \E k \in Keys, d \in {"approve", "reject"} : Submit(k, d)
  \/ Commit \/ Cancel \/ Export \/ Backup
  \/ \E s \in Outcomes : Report(s)
  \/ \E j \in {journal, backup} \ {None}, key \in AuditKeys : Restart(j, key)

Transport ==
  \/ SpoilCheckpoint
  \/ \E i \in DOMAIN bundle.events :
       \/ LoseEvent(i) \/ LoseTail(i) \/ SpoilEvent(i) \/ SpoilHash(i)
       \/ i < Len(bundle.events) /\ SwapEvents(i)
       \/ MixEvent(i, Foreign(bundle.events[i]))
       \/ \E e \in Signed : MixEvent(i, e)
  \/ \E e \in Signed : MixTail(e)
  \/ \E c \in Checkpoints : MixCheckpoint(c) \/ MixCheckpoint(Foreign(c))
  \/ \E i \in DOMAIN bundle.votes :
       \/ LoseVote(i) \/ SpoilVote(i) \/ MixVote(i, Foreign(bundle.votes[i]))
       \/ i < Len(bundle.votes) /\ SwapVotes(i)
       \/ \E v \in Votes : MixVote(i, v)
  \/ \E v \in Votes : MixVotes(v)

Next ==
  \/ Issue
  \/ \E x \in exports : Take(x)
  \/ bundle # None /\ Transport

Spec == Init /\ [][Next]_vars

-----------------------------------------------------------------------------
(* verify_proof: each check is "ok" or the code of its first failure, and  *)
(* a check runs when the ones before it are ok.                            *)

\* _binding: every piece belongs to this action and this epoch.
Binding(b) ==
  IF /\ b.checkpoint.epoch = Action.epoch
     /\ \A x \in {b.checkpoint} \union ToSet(b.votes) \union ToSet(b.events) :
          x.of = "this"
  THEN "ok" ELSE "HASH_MISMATCH"

InInterval(k, seq) == k.first <= seq /\ (k.last = None \/ seq <= k.last)

\* _signatures: votes by enrolled keys, all events and the checkpoint by one
\* trusted audit key.
Signatures(b, trust) ==
  LET ids == {e.key : e \in ToSet(b.events)} IN
  IF \E v \in ToSet(b.votes) : v.key \notin Keys THEN "KEY_NOT_ENROLLED"
  ELSE IF \E v \in ToSet(b.votes) : ~v.sound THEN "BAD_SIGNATURE"
  ELSE IF b.events = <<>> THEN "MISSING_EVIDENCE"
  ELSE IF Cardinality(ids) # 1 \/ ~\E k \in trust : ids = {k.key} THEN "UNTRUSTED"
  ELSE IF \E e \in ToSet(b.events), k \in trust :
            k.key = e.key /\ ~InInterval(k, e.seq) THEN "UNTRUSTED"
  ELSE IF \E e \in ToSet(b.events) : ~e.sound THEN "BAD_SIGNATURE"
  ELSE IF b.checkpoint.key \notin ids THEN "UNTRUSTED"
  ELSE IF ~b.checkpoint.sound THEN "BAD_SIGNATURE"
  ELSE "ok"

\* Fault: the link to the event before is not followed.
Unlinked(events, i) == TRUE
Linked(events, i) ==
  events[i].prev = IF i = 1 THEN None ELSE events[i - 1].hash

\* Fault: the checkpoint is not compared with the head.
AnyCheckpoint(b) == TRUE
AtHead(b) == b.checkpoint.seq = Last(b.events).seq /\ b.checkpoint.head = Last(b.events).hash

\* _chain: numbers, hashes, links and receipt ids of the events in order.
ChainBreak(b, i) ==
  LET e == b.events[i] IN
  \/ e.seq # i \/ e.hash # e.receipt \/ ~Linked(b.events, i)
  \/ \E n \in 1 .. i - 1 : b.events[n].receipt = e.receipt

Chain(b) ==
  LET breaks == {i \in DOMAIN b.events : ChainBreak(b, i)} IN
  IF breaks = {}
  THEN IF AtHead(b) THEN "ok" ELSE "CHECKPOINT_MISMATCH"
  ELSE LET i == CHOOSE n \in breaks : \A m \in breaks : n <= m IN
       IF b.events[i].seq # i THEN "MISSING_EVIDENCE" ELSE "CHAIN_BREAK"

Datas(b) == [i \in DOMAIN b.events |-> b.events[i].data]

\* votes_by_key: of two votes under a key the later one is kept.
Ballots(b) ==
  [k \in Keys |->
     LET at == {i \in DOMAIN b.votes : b.votes[i].key = k} IN
     IF at = {} THEN None
     ELSE b.votes[CHOOSE i \in at : \A n \in at : n <= i].decision]

\* Fault: a retained vote need not be in the stream.
MayBeUnrecorded(b, r) == TRUE
AllRecorded(b, r) == r.recorded = Retained(Ballots(b))

\* _replay: an event whose vote is not there, or is another one, lacks
\* evidence; any other event out of turn is illegal.
Replay(b) ==
  LET events == Datas(b)
      ballots == Ballots(b)
      Upto(i) == V!Reduce(Action, ballots, SubSeq(events, 1, i))
      illegal == {i \in DOMAIN events : Upto(i).state = V!Illegal} IN
  IF events[1].type # "Proposed" THEN V!Illegal
  ELSE IF \E i, n \in DOMAIN b.votes : i < n /\ b.votes[n].key <= b.votes[i].key
  THEN V!Illegal
  ELSE IF illegal # {}
  THEN LET e == events[CHOOSE i \in illegal : \A n \in illegal : i <= n] IN
       IF e.type = "VoteRecorded" /\ ballots[e.key] # e.decision
       THEN "MISSING_EVIDENCE" ELSE V!Illegal
  ELSE IF Upto(Len(events)).state = "REJECT_PENDING" THEN V!Illegal
  ELSE IF ~AllRecorded(b, Upto(Len(events))) THEN "MISSING_EVIDENCE"
  ELSE "ok"

\* The first check that is not ok, with its code.
Failure(b, trust) ==
  IF Binding(b) # "ok" THEN <<"binding", Binding(b)>>
  ELSE IF trust = {} THEN <<"trust", "UNTRUSTED">>
  ELSE IF Signatures(b, trust) # "ok" THEN <<"signatures", Signatures(b, trust)>>
  ELSE IF Chain(b) # "ok" THEN <<"chain", Chain(b)>>
  ELSE IF Replay(b) # "ok" THEN <<"replay", Replay(b)>>
  ELSE <<"none", "ok">>

Integrity(b, trust) ==
  LET f == Failure(b, trust) IN
  CASE f[2] = "ok" -> "valid"
    [] \/ f[2] = "MISSING_EVIDENCE"
       \/ f = <<"chain", "CHECKPOINT_MISMATCH">> -> "incomplete"
    [] OTHER -> "invalid"

-----------------------------------------------------------------------------
\* Types of the issuer's records and of the proof on its way.
TypeOK ==
  /\ audit \in AuditKeys
  /\ minted \in Nat /\ newest \in 1 .. minted /\ restarts \in 0 .. MaxRestarts
  /\ journal.state \in V!Live \union V!Consumed \union {"ESCALATED", "CANCELED"}
  /\ backup = None \/ backup \in history
  /\ journal \in history
  /\ \A x \in exports : \E j \in history : x.events = j.stream
  /\ damage \in 0 .. MaxDamage /\ lossy \in BOOLEAN

\* README: "the issuer's log attests this outcome".  Whatever was lost, mixed
\* up or spoilt on the way, a proof found valid is what some life of the
\* journal held at the end of a transaction: its events, its votes, its state.
AcceptedIsGenuine ==
  bundle # None =>
    \A trust \in Trusts : Integrity(bundle, trust) = "valid" =>
      \E j \in history :
        /\ bundle.events = j.stream
        /\ bundle.votes = VoteList(j.votes)
        /\ V!AttestedState(Action, Ballots(bundle), Datas(bundle)) = j.state

\* The events and the checkpoint are signed under one audit key.
OneKey(x) == \A e \in ToSet(x.events) : e.key = x.checkpoint.key

\* A proof from which events or votes are missing, and nothing else is wrong,
\* reads as incomplete and neither as valid nor as a broken chain; with what
\* two audit keys have signed it is invalid, whatever is missing.
LossReadsIncomplete ==
  bundle # None /\ lossy /\ damage > 0 =>
    \A trust \in Trusts :
      (\A e \in Signed : \E k \in trust : k.key = e.key /\ InInterval(k, e.seq))
        => Integrity(bundle, trust) = IF OneKey(bundle) THEN "incomplete" ELSE "invalid"

\* A host that keeps the newest head hash never runs two versions of the
\* stream: no two signed checkpoints of a position name different heads.
NoFork ==
  \A c, d \in Checkpoints : c.seq = d.seq => c.head = d.head

\* README: "The exported proof verifies offline against a caller-pinned trust
\* document", here one that lists every audit key for all positions: as long
\* as the audit key stays the same.  No proof verifies whose events or
\* checkpoint were signed on both sides of a change of the key.
ExportsVerify ==
  \A x \in exports :
    Integrity(x, {[key |-> k, first |-> 1, last |-> None] : k \in AuditKeys})
      = IF OneKey(x) THEN "valid" ELSE "invalid"
=============================================================================
