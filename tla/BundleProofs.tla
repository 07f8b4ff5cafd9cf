---------------------------- MODULE BundleProofs ----------------------------
(***************************************************************************)
(* What a proof says when it is replayed, in every life of the journal and *)
(* after every mishap.  Every stream leads to its journal's state and to   *)
(* the votes retained (FaithfulInv).  So exports verify (ExportedInv), the *)
(* votes a proof shows that is accepted are the journal's own (SlipsInv),  *)
(* and one that only lost pieces reads as incomplete (LossInv).            *)
(***************************************************************************)
EXTENDS EvidenceProofs

-----------------------------------------------------------------------------
(* What the issuer's streams replay to.                                    *)

Tables == [Bundle!Keys -> {"approve", "reject", None}]
IssuedStates ==
  {"OPEN", "READY", "DISPATCHING", "SUCCEEDED", "FAILED", "UNKNOWN", "ESCALATED",
   "CANCELED"}
Approving(b) == {k \in Bundle!Keys : b[k] = "approve"}
Standing(st, b) ==
  [state |-> st, recorded |-> Bundle!Retained(b), approved |-> Approving(b)]

\* What the events w leave behind, given the votes of b.
Leads(w, b, r) ==
  /\ b \in Tables /\ w \in Seq(EventData) /\ w # <<>>
  /\ \A i \in 1 .. Len(w) : w[i].type = "VoteRecorded" => b[w[i].key] # None
  /\ Bundle!V!Reduce(Action, b, w) = r

Written(s) == [i \in 1 .. Len(s) |-> s[i].data]

Faithful(j) ==
  /\ Written(j.stream)[1] = Bundle!Proposed
  /\ j.state \in IssuedStates
  /\ Leads(Written(j.stream), j.votes, Standing(j.state, j.votes))
  /\ \A c \in j.checkpoints :
       c.of = "this" /\ c.epoch = Action.epoch /\ c.sound /\ c.key \in AuditKeys

LEMMA VoteData ==
  ASSUME NEW e \in EventData, e.type = "VoteRecorded"
  PROVE  \E k \in Bundle!Keys, d \in {"approve", "reject"} : e = Bundle!Voted(k, d)
BY DEF EventData, Bundle!Voted, Bundle!Proposed, Bundle!Refused, Bundle!CommitData,
       Bundle!Data, Bundle!QuorumData, Bundle!Reported

LEMMA AppendedWrites ==
  ASSUME NEW s \in Seq(Entries), NEW key, NEW m, NEW datas \in Seq(EventData)
  PROVE  /\ Written(Bundle!Appended(s, key, m, datas)) = Written(s) \o datas
         /\ Written(s) \in Seq(EventData) /\ Len(Written(s)) = Len(s)
<1> DEFINE more == [i \in 1 .. Len(datas) |->
             Bundle!Entry(Len(s) + i,
               IF i > 1 THEN m + i - 1
               ELSE IF s = <<>> THEN None ELSE Bundle!Last(s).hash,
               m + i, key, datas[i])]
           t == s \o more
           T == {more[i] : i \in 1 .. Len(datas)}
<1>1. Bundle!Appended(s, key, m, datas) = t
  BY DEF Bundle!Appended
<1>2. \A i \in 1 .. Len(datas) : more[i].data = datas[i]
  BY DEF Bundle!Entry
<1>3. more \in Seq(T) /\ Len(more) = Len(datas)
  OBVIOUS
<1> HIDE DEF more
<1>4. /\ Len(t) = Len(s) + Len(datas)
      /\ \A i \in 1 .. Len(t) : t[i] = IF i <= Len(s) THEN s[i] ELSE more[i - Len(s)]
  <2> DEFINE U == Entries \union T
  <2>1. s \in Seq(U) /\ more \in Seq(U) /\ Len(more) = Len(datas)
    <3>1. \A i \in 1 .. Len(s) : s[i] \in U OBVIOUS
    <3>2. \A i \in 1 .. Len(more) : more[i] \in U BY <1>3
    <3> QED BY <1>3, <3>1, <3>2
  <2> HIDE DEF U, T
  <2> QED BY <2>1
<1> HIDE DEF t
<1>5. \A i \in 1 .. Len(s) : s[i].data \in EventData
  <2>1. \A i \in 1 .. Len(s) : s[i] \in Entries OBVIOUS
  <2> QED BY <2>1 DEF Entries
<1>6. Written(s) \in Seq(EventData) /\ Len(Written(s)) = Len(s)
  BY <1>5 DEF Written
<1>7. Len(Written(s) \o datas) = Len(t) /\ DOMAIN (Written(s) \o datas) = 1 .. Len(t)
  <2>1. Written(s) \o datas \in Seq(EventData)
        /\ Len(Written(s) \o datas) = Len(Written(s)) + Len(datas)
    BY <1>6
  <2> QED BY <1>4, <1>6, <2>1
<1>8. ASSUME NEW i \in 1 .. Len(t)
      PROVE  t[i].data = (Written(s) \o datas)[i]
  <2>0. i \in Nat /\ Len(s) \in Nat /\ Len(datas) \in Nat BY <1>4
  <2>1. CASE i <= Len(s)
    BY <1>4, <1>6, <2>1 DEF Written
  <2>2. CASE i > Len(s)
    <3>1. i - Len(s) \in 1 .. Len(datas) BY <1>4, <2>2
    <3>2. t[i].data = datas[i - Len(s)] BY <1>2, <1>4, <2>2, <3>1
    <3>3. (Written(s) \o datas)[i] = datas[i - Len(s)] BY <1>4, <1>6, <2>2, <3>1
    <3> QED BY <3>2, <3>3
  <2>3. i <= Len(s) \/ i > Len(s) BY <2>0
  <2> QED BY <2>1, <2>2, <2>3
<1>9. Written(t) = Written(s) \o datas
  <2> DEFINE g == Written(s) \o datas
  <2>1. g \in Seq(EventData) /\ DOMAIN g = 1 .. Len(t) BY <1>6, <1>7
  <2>2. \A i \in 1 .. Len(t) : t[i].data = g[i] BY <1>8
  <2> HIDE DEF g
  <2>3. Written(t) = g BY <2>1, <2>2 DEF Written
  <2> QED BY <2>3 DEF g
<1> QED BY <1>1, <1>6, <1>9

\* One event more, under ballots that may have grown by a vote.
LEMMA LeadsOn ==
  ASSUME NEW w, NEW b, NEW c \in Tables, NEW r, NEW e \in EventData, Leads(w, b, r),
         \A k \in Bundle!Keys : b[k] # None => c[k] = b[k],
         e.type = "VoteRecorded" => c[e.key] # None
  PROVE  Leads(Append(w, e), c, Bundle!V!ReplayStep(Action, c, r, e))
<1>1. /\ w \in Seq(EventData) /\ w # <<>> /\ b \in Tables
      /\ \A i \in 1 .. Len(w) : w[i].type = "VoteRecorded" => b[w[i].key] # None
      /\ Bundle!V!Reduce(Action, b, w) = r
  BY DEF Leads
<1>2. \A i \in 1 .. Len(w) :
        w[i].type = "VoteRecorded" => w[i].key \in Bundle!Keys /\ c[w[i].key] = b[w[i].key]
  <2> SUFFICES ASSUME NEW i \in 1 .. Len(w), w[i].type = "VoteRecorded"
               PROVE  w[i].key \in Bundle!Keys /\ c[w[i].key] = b[w[i].key]
    OBVIOUS
  <2>1. w[i] \in EventData BY <1>1
  <2>2. w[i].key \in Bundle!Keys BY <2>1, VoteData DEF Bundle!Voted
  <2> QED BY <1>1, <2>2
<1>3. SameFor(b, c, w)
  BY <1>2 DEF SameFor
<1>4. Bundle!V!Reduce(Action, c, Append(w, e)) = Bundle!V!ReplayStep(Action, c, r, e)
  BY <1>1, <1>3, ReduceAppend
<1>5. ASSUME NEW i \in 1 .. Len(Append(w, e)), Append(w, e)[i].type = "VoteRecorded"
      PROVE  c[Append(w, e)[i].key] # None
  <2>1. CASE i = Len(w) + 1
    <3>1. Append(w, e)[i] = e BY <1>1, <2>1
    <3> QED BY <1>5, <3>1
  <2>2. CASE i # Len(w) + 1
    <3>1. i \in 1 .. Len(w) /\ Append(w, e)[i] = w[i] BY <1>1, <2>2
    <3> QED BY <1>1, <1>2, <1>5, <3>1
  <2> QED BY <2>1, <2>2
<1>6. Append(w, e) \in Seq(EventData) /\ Append(w, e) # <<>>
  BY <1>1
<1> QED BY <1>4, <1>5, <1>6 DEF Leads

\* A vote is recorded: the ballots grow by it.
LEMMA VoteLeads ==
  ASSUME NEW w, NEW b, NEW st \in {"OPEN", "READY"}, Leads(w, b, Standing(st, b)),
         NEW k \in Bundle!Keys, NEW d \in {"approve", "reject"}, b[k] = None
  PROVE  LET c == [b EXCEPT ![k] = d] IN
         Leads(Append(w, Bundle!Voted(k, d)), c,
               Standing(IF d = "reject" THEN "REJECT_PENDING" ELSE st, c))
<1> DEFINE c == [b EXCEPT ![k] = d]
           e == Bundle!Voted(k, d)
           r == Standing(st, b)
<1>1. b \in Tables /\ None \notin {"approve", "reject"}
  BY EvidenceAssumption DEF Leads, Bundle!BundleAssumption
<1>2. /\ c \in Tables /\ c[k] = d
      /\ \A x \in Bundle!Keys : x # k => c[x] = b[x]
  BY <1>1 DEF Tables
<1>3. e \in EventData /\ e.type = "VoteRecorded" /\ e.key = k /\ e.decision = d
  BY DEF EventData, Bundle!Voted
<1> HIDE DEF c, e
<1>4. Leads(Append(w, e), c, Bundle!V!ReplayStep(Action, c, r, e))
  BY <1>1, <1>2, <1>3, LeadsOn
<1>5. r.state = st /\ r.recorded = Bundle!Retained(b) /\ r.approved = Approving(b)
  BY DEF Standing
<1> HIDE DEF r
<1>6. Bundle!V!LegalEvent(Action, c, r, e)
  BY <1>2, <1>3, <1>5 DEF Bundle!V!LegalEvent, Bundle!V!Live, Bundle!Retained
<1>7. r.state # Bundle!V!Illegal
  BY <1>5 DEF Bundle!V!Illegal
<1>8. Bundle!V!StateAfter(r, e) = IF d = "reject" THEN "REJECT_PENDING" ELSE st
  BY <1>3, <1>5 DEF Bundle!V!StateAfter
<1>9. Bundle!Retained(c) = r.recorded \union {k}
  BY <1>1, <1>2, <1>5 DEF Bundle!Retained
<1>10. Approving(c) = IF d = "approve" THEN r.approved \union {k} ELSE r.approved
  BY <1>1, <1>2, <1>5 DEF Approving
<1>11. Bundle!V!ReplayStep(Action, c, r, e)
         = Standing(IF d = "reject" THEN "REJECT_PENDING" ELSE st, c)
  BY <1>3, <1>6, <1>7, <1>8, <1>9, <1>10 DEF Bundle!V!ReplayStep, Standing
<1> QED BY <1>4, <1>11 DEF c, e

\* An event without a vote, in a state that permits it.
LEMMA PlainLeads ==
  ASSUME NEW w, NEW b, NEW st, NEW to, Leads(w, b, Standing(st, b)),
         NEW e \in EventData, e.type # "VoteRecorded", st # Bundle!V!Illegal,
         Bundle!V!LegalEvent(Action, b, Standing(st, b), e),
         Bundle!V!StateAfter(Standing(st, b), e) = to
  PROVE  Leads(Append(w, e), b, Standing(to, b))
<1>1. Leads(Append(w, e), b, Bundle!V!ReplayStep(Action, b, Standing(st, b), e))
  BY LeadsOn DEF Leads
<1>2. Bundle!V!ReplayStep(Action, b, Standing(st, b), e) = Standing(to, b)
  BY DEF Bundle!V!ReplayStep, Standing
<1> QED BY <1>1, <1>2

LEMMA SealedFaithful ==
  ASSUME HistoryInv, NEW j, Faithful(j),
         j = [stream |-> j.stream, votes |-> j.votes, state |-> j.state,
              checkpoints |-> j.checkpoints]
  PROVE  Faithful(Bundle!WithCheckpoint(j))
<1> DEFINE c == [of |-> "this", epoch |-> Action.epoch, seq |-> Len(j.stream),
                 head |-> Bundle!HeadHash(j), key |-> audit, sound |-> TRUE]
           sealed == [j EXCEPT !.checkpoints = @ \union {c}]
<1>1. Bundle!WithCheckpoint(j) \in {j, sealed}
  BY DEF Bundle!WithCheckpoint
<1>2. c.of = "this" /\ c.epoch = Action.epoch /\ c.sound /\ c.key \in AuditKeys
  BY DEF HistoryInv
<1> HIDE DEF c
<1>3. /\ sealed.stream = j.stream /\ sealed.votes = j.votes /\ sealed.state = j.state
      /\ sealed.checkpoints = j.checkpoints \union {c}
  OBVIOUS
<1> HIDE DEF sealed
<1>4. Faithful(sealed)
  BY <1>2, <1>3 DEF Faithful
<1> QED BY <1>1, <1>4

LEMMA RowWritten ==
  ASSUME NEW base, NEW s, NEW v, NEW st, NEW j,
         base = [stream |-> base.stream, votes |-> base.votes, state |-> base.state,
                 checkpoints |-> base.checkpoints],
         j = [base EXCEPT !.stream = s, !.votes = v, !.state = st]
  PROVE  /\ j.stream = s /\ j.votes = v /\ j.state = st
         /\ j.checkpoints = base.checkpoints
         /\ j = [stream |-> j.stream, votes |-> j.votes, state |-> j.state,
                 checkpoints |-> j.checkpoints]
<1> DEFINE cs == base.checkpoints
           row == [stream |-> s, votes |-> v, state |-> st, checkpoints |-> cs]
<1>1. j = row
  OBVIOUS
<1> HIDE DEF cs
<1>2. /\ row.stream = s /\ row.votes = v /\ row.state = st /\ row.checkpoints = cs
  OBVIOUS
<1> HIDE DEF row
<1>3. /\ j.stream = s /\ j.votes = v /\ j.state = st /\ j.checkpoints = cs
  BY <1>1, <1>2
<1> QED BY <1>1, <1>3 DEF row, cs

LEMMA AppendFaithful ==
  ASSUME HistoryInv, NEW base \in history, Faithful(base), NEW key,
         NEW datas \in Seq(EventData), NEW v, NEW st \in IssuedStates,
         Leads(Written(base.stream) \o datas, v, Standing(st, v)), NEW j,
         j = [base EXCEPT !.stream = Bundle!Appended(@, key, minted, datas),
                          !.votes = v, !.state = st]
  PROVE  /\ Faithful(j)
         /\ j = [stream |-> j.stream, votes |-> j.votes, state |-> j.state,
                 checkpoints |-> j.checkpoints]
<1>1. base = [stream |-> base.stream, votes |-> base.votes, state |-> base.state,
              checkpoints |-> base.checkpoints]
      /\ base.stream \in Seq(Entries) /\ base.stream # <<>>
  BY DEF HistoryInv, JournalOK, StreamOK
<1> DEFINE t == Bundle!Appended(base.stream, key, minted, datas)
<1>2. Written(t) = Written(base.stream) \o datas /\ Written(base.stream) \in Seq(EventData)
      /\ Len(Written(base.stream)) = Len(base.stream)
  BY <1>1, AppendedWrites
<1>3. j = [base EXCEPT !.stream = t, !.votes = v, !.state = st]
  OBVIOUS
<1> HIDE DEF t
<1>4. Written(t)[1] = Written(base.stream)[1]
  BY <1>1, <1>2
<1>5. /\ j.stream = t /\ j.votes = v /\ j.state = st
      /\ j.checkpoints = base.checkpoints
      /\ j = [stream |-> j.stream, votes |-> j.votes, state |-> j.state,
              checkpoints |-> j.checkpoints]
  BY <1>1, <1>3, RowWritten
<1> QED BY <1>2, <1>3, <1>4, <1>5 DEF Faithful

LEMMA AppendsTwice ==
  ASSUME NEW S, NEW w \in Seq(S), NEW e \in S, NEW f \in S
  PROVE  w \o <<e>> = Append(w, e) /\ w \o <<e, f>> = Append(Append(w, e), f)
OBVIOUS

LEMMA SubmitFaithful ==
  ASSUME HistoryInv, Faithful(journal), NEW k \in Bundle!Keys,
         NEW d \in {"approve", "reject"}, Bundle!Submit(k, d)
  PROVE  Faithful(journal')
<1> DEFINE vs == [journal.votes EXCEPT ![k] = d]
           approving == {x \in Bundle!Keys : vs[x] = "approve"}
           enough == journal.state = "OPEN"
                     /\ Bundle!V!Quorum(Action.policy, approving)
           datas == IF d = "reject" THEN <<Bundle!Voted(k, d), Bundle!Refused>>
                    ELSE IF enough
                      THEN <<Bundle!Voted(k, d), Bundle!QuorumData(approving)>>
                    ELSE <<Bundle!Voted(k, d)>>
           st == IF d = "reject" THEN "ESCALATED"
                 ELSE IF enough THEN "READY" ELSE journal.state
           written == [journal EXCEPT
                         !.stream = Bundle!Appended(@, audit, minted, datas),
                         !.votes = vs, !.state = st]
           left == IF d = "reject" THEN Bundle!WithCheckpoint(written) ELSE written
           w == Written(journal.stream)
           voted == Append(w, Bundle!Voted(k, d))
<1>1. /\ Bundle!Voted(k, d) \in EventData /\ Bundle!Refused \in EventData
      /\ Bundle!QuorumData(approving) \in EventData
  <2>1. approving \in SUBSET Bundle!Keys OBVIOUS
  <2> HIDE DEF approving
  <2>2. Bundle!QuorumData(approving) \in EventData BY <2>1 DEF EventData
  <2>3. Bundle!Voted(k, d) \in EventData BY DEF EventData
  <2>4. Bundle!Refused \in EventData BY DEF EventData
  <2> QED BY <2>2, <2>3, <2>4
<1>2. datas \in Seq(EventData)
  <2> HIDE DEF enough, approving
  <2> QED BY <1>1
<1>3. /\ journal' = left /\ journal.state \in {"OPEN", "READY"}
      /\ journal.votes[k] = None
  BY DEF Bundle!Submit, Bundle!Write, Bundle!V!Live
<1>4. Leads(w, journal.votes, Standing(journal.state, journal.votes))
  BY DEF Faithful
<1>5. Leads(voted, vs,
            Standing(IF d = "reject" THEN "REJECT_PENDING" ELSE journal.state, vs))
  BY <1>3, <1>4, VoteLeads
<1>6. approving = Approving(vs)
  BY DEF Approving
<1> HIDE DEF vs, voted, w
<1>7. CASE d = "reject"
  <2>1. Bundle!Refused.type = "Escalated" /\ Bundle!Refused.reason = "reject_vote"
    BY DEF Bundle!Refused
  <2>2. Standing("REJECT_PENDING", vs).state = "REJECT_PENDING"
    BY DEF Standing
  <2>3. Bundle!V!LegalEvent(Action, vs, Standing("REJECT_PENDING", vs), Bundle!Refused)
    BY <2>1, <2>2 DEF Bundle!V!LegalEvent, Bundle!V!LegalReason
  <2>4. Bundle!V!StateAfter(Standing("REJECT_PENDING", vs), Bundle!Refused) = "ESCALATED"
    BY <2>1 DEF Bundle!V!StateAfter
  <2>5. Leads(Append(voted, Bundle!Refused), vs, Standing("ESCALATED", vs))
    BY <1>1, <1>5, <1>7, <2>1, <2>3, <2>4, PlainLeads DEF Bundle!V!Illegal
  <2>6. Append(voted, Bundle!Refused) = w \o datas
    BY <1>1, <1>4, <1>7, AppendsTwice DEF Leads, voted
  <2>7. Leads(w \o datas, vs, Standing(st, vs))
    BY <1>7, <2>5, <2>6
  <2>8. st \in IssuedStates BY <1>7 DEF IssuedStates
  <2> HIDE DEF datas, st
  <2>9. Faithful(written)
    BY <1>2, <2>7, <2>8, AppendFaithful DEF HistoryInv, w
  <2>10. written = [stream |-> written.stream, votes |-> written.votes,
                    state |-> written.state, checkpoints |-> written.checkpoints]
    <3>1. journal = [stream |-> journal.stream, votes |-> journal.votes,
                     state |-> journal.state, checkpoints |-> journal.checkpoints]
      BY DEF HistoryInv, JournalOK
    <3> DEFINE t == Bundle!Appended(journal.stream, audit, minted, datas)
    <3>2. written = [journal EXCEPT !.stream = t, !.votes = vs, !.state = st]
      OBVIOUS
    <3> HIDE DEF written, t
    <3> QED BY <3>1, <3>2, RowWritten
  <2> HIDE DEF written
  <2> QED BY <1>3, <1>7, <2>9, <2>10, SealedFaithful
<1>8. CASE d # "reject"
  <2>1. Leads(w \o datas, vs, Standing(st, vs)) /\ st \in IssuedStates
    <3>1. CASE enough
      <4> DEFINE q == Bundle!QuorumData(approving)
                 r == Standing("OPEN", vs)
      <4>1. q.type = "QuorumReached" /\ q.keys = approving
        BY DEF Bundle!QuorumData
      <4>2. r.state = "OPEN" /\ r.approved = approving
        BY <1>6 DEF Standing
      <4> HIDE DEF q, r
      <4>3. Bundle!V!LegalEvent(Action, vs, r, q)
        BY <3>1, <4>1, <4>2 DEF Bundle!V!LegalEvent
      <4>4. Bundle!V!StateAfter(r, q) = "READY"
        BY <4>1 DEF Bundle!V!StateAfter
      <4>5. journal.state = "OPEN" BY <3>1
      <4>6. q \in EventData BY <1>1 DEF q
      <4>7. Leads(voted, vs, r) BY <1>5, <1>8, <4>5 DEF r
      <4>8. Leads(Append(voted, q), vs, Standing("READY", vs))
        BY <4>1, <4>3, <4>4, <4>6, <4>7, PlainLeads DEF Bundle!V!Illegal, r
      <4>9. datas = <<Bundle!Voted(k, d), q>> BY <1>8, <3>1 DEF q
      <4>10. Append(voted, q) = w \o <<Bundle!Voted(k, d), q>>
        BY <1>1, <1>4, <4>6, AppendsTwice DEF Leads, voted
      <4>11. st = "READY" BY <1>8, <3>1
      <4> QED BY <4>8, <4>9, <4>10, <4>11 DEF IssuedStates
    <3>2. CASE ~enough
      <4>1. datas = <<Bundle!Voted(k, d)>> /\ st = journal.state BY <1>8, <3>2
      <4>2. voted = w \o <<Bundle!Voted(k, d)>>
        BY <1>1, <1>4, AppendsTwice DEF Leads, voted
      <4> QED BY <1>3, <1>5, <1>8, <4>1, <4>2 DEF IssuedStates
    <3> QED BY <3>1, <3>2
  <2> HIDE DEF datas, st
  <2>2. Faithful(written)
    BY <1>2, <2>1, AppendFaithful DEF HistoryInv, w
  <2> QED BY <1>3, <1>8, <2>2
<1> QED BY <1>7, <1>8

\* One event by itself, on a journal of the history.
LEMMA EventFaithful ==
  ASSUME HistoryInv, NEW base \in history, Faithful(base), NEW key, NEW to \in IssuedStates,
         NEW e \in EventData, e.type # "VoteRecorded",
         Bundle!V!LegalEvent(Action, base.votes, Standing(base.state, base.votes), e),
         Bundle!V!StateAfter(Standing(base.state, base.votes), e) = to
  PROVE  Faithful([base EXCEPT !.stream = Bundle!Appended(@, key, minted, <<e>>),
                               !.state = to])
<1> DEFINE w == Written(base.stream)
           j == [base EXCEPT !.stream = Bundle!Appended(@, key, minted, <<e>>),
                             !.state = to]
<1>1. /\ Leads(w, base.votes, Standing(base.state, base.votes))
      /\ base.state \in IssuedStates
  BY DEF Faithful
<1>2. base.state # Bundle!V!Illegal
  BY <1>1 DEF IssuedStates, Bundle!V!Illegal
<1>3. Leads(Append(w, e), base.votes, Standing(to, base.votes))
  BY <1>1, <1>2, PlainLeads
<1>4. w \o <<e>> = Append(w, e) /\ <<e>> \in Seq(EventData)
  BY <1>1, AppendsTwice DEF Leads
<1>5. j = [base EXCEPT !.stream = Bundle!Appended(@, key, minted, <<e>>),
                       !.votes = base.votes, !.state = to]
  BY DEF HistoryInv, JournalOK
<1> HIDE DEF j
<1>6. Leads(w \o <<e>>, base.votes, Standing(to, base.votes)) BY <1>3, <1>4
<1>7. Faithful(j)
  BY <1>4, <1>5, <1>6, AppendFaithful DEF w
<1> QED BY <1>7 DEF j

LEMMA ReportLegal ==
  ASSUME NEW b, NEW s \in {"succeeded", "failed", "unknown"}
  PROVE  LET e == Bundle!Reported(s)
             r == Standing("DISPATCHING", b) IN
         /\ e.type = "ExecutionReported" /\ Bundle!V!LegalEvent(Action, b, r, e)
         /\ Bundle!V!StateAfter(r, e) = Bundle!V!StateOf(s)
         /\ Bundle!V!StateOf(s) \in IssuedStates
<1> DEFINE e == Bundle!Reported(s)
           r == Standing("DISPATCHING", b)
<1>1. e.type = "ExecutionReported" /\ e.status = s BY DEF Bundle!Reported
<1>2. r.state = "DISPATCHING" BY DEF Standing
<1> HIDE DEF e, r
<1>3. Bundle!V!LegalEvent(Action, b, r, e) BY <1>1, <1>2 DEF Bundle!V!LegalEvent
<1>4. Bundle!V!StateAfter(r, e) = Bundle!V!StateOf(s)
  BY <1>1 DEF Bundle!V!StateAfter
<1>5. Bundle!V!StateOf(s) \in IssuedStates
  BY DEF Bundle!V!StateOf, IssuedStates
<1> QED BY <1>1, <1>3, <1>4, <1>5 DEF e, r

LEMMA CommitFaithful ==
  ASSUME HistoryInv, Faithful(journal), Bundle!Commit
  PROVE  Faithful(journal')
<1> DEFINE e == Bundle!CommitData
           r == Standing("READY", journal.votes)
<1>1. /\ e.type = "CommitStarted" /\ e.at = 0 /\ e.epoch = Action.epoch
      /\ e.deadline = IF Action.expires < DispatchBudget THEN Action.expires
                      ELSE DispatchBudget
      /\ e \in EventData
  BY DEF Bundle!CommitData, EventData
<1>2. r.state = "READY" BY DEF Standing
<1>3. e.at + DispatchBudget = DispatchBudget
  BY <1>1, EvidenceAssumption DEF Bundle!BundleAssumption
<1> HIDE DEF e, r
<1>4. Bundle!V!LegalEvent(Action, journal.votes, r, e)
  BY <1>1, <1>2, <1>3 DEF Bundle!V!LegalEvent
<1>5. Bundle!V!StateAfter(r, e) = "DISPATCHING"
  BY <1>1 DEF Bundle!V!StateAfter
<1>6. /\ journal.state = "READY"
      /\ journal' = [journal EXCEPT !.stream = Bundle!Appended(@, audit, minted, <<e>>),
                                    !.state = "DISPATCHING"]
  BY DEF Bundle!Commit, Bundle!Step, Bundle!Write, e
<1> QED BY <1>1, <1>4, <1>5, <1>6, EventFaithful DEF HistoryInv, IssuedStates, r

LEMMA CancelFaithful ==
  ASSUME HistoryInv, Faithful(journal), Bundle!Cancel
  PROVE  Faithful(journal')
<1> DEFINE e == Bundle!Data("Canceled")
           r == Standing("OPEN", journal.votes)
<1>1. e.type = "Canceled" /\ e \in EventData
  BY DEF Bundle!Data, EventData
<1>2. r.state = "OPEN" BY DEF Standing
<1> HIDE DEF e, r
<1>3. Bundle!V!LegalEvent(Action, journal.votes, r, e)
  BY <1>1, <1>2 DEF Bundle!V!LegalEvent, Bundle!V!Live
<1>4. Bundle!V!StateAfter(r, e) = "CANCELED"
  BY <1>1 DEF Bundle!V!StateAfter
<1>5. /\ journal.state = "OPEN"
      /\ journal' = [journal EXCEPT !.stream = Bundle!Appended(@, audit, minted, <<e>>),
                                    !.state = "CANCELED"]
  BY DEF Bundle!Cancel, Bundle!Step, Bundle!Write, e
<1> QED BY <1>1, <1>3, <1>4, <1>5, EventFaithful DEF HistoryInv, IssuedStates, r

LEMMA ReportFaithful ==
  ASSUME HistoryInv, Faithful(journal), NEW s \in Outcomes, Bundle!Report(s)
  PROVE  Faithful(journal')
<1> DEFINE e == Bundle!Reported(s)
<1>1. s \in {"succeeded", "failed", "unknown"} /\ e \in EventData
  BY EvidenceAssumption DEF Bundle!BundleAssumption, EventData
<1>2. /\ e.type = "ExecutionReported"
      /\ Bundle!V!LegalEvent(Action, journal.votes,
                             Standing("DISPATCHING", journal.votes), e)
      /\ Bundle!V!StateAfter(Standing("DISPATCHING", journal.votes), e)
           = Bundle!V!StateOf(s)
      /\ Bundle!V!StateOf(s) \in IssuedStates
  BY <1>1, ReportLegal
<1>3. /\ journal.state = "DISPATCHING"
      /\ journal' = [journal EXCEPT !.stream = Bundle!Appended(@, audit, minted, <<e>>),
                                    !.state = Bundle!V!StateOf(s)]
  BY DEF Bundle!Report, Bundle!Step, Bundle!Write
<1> HIDE DEF e
<1> QED BY <1>1, <1>2, <1>3, EventFaithful DEF HistoryInv

LEMMA RestartFaithful ==
  ASSUME HistoryInv, NEW j \in {journal, backup} \ {None}, Faithful(j),
         NEW key \in AuditKeys, Bundle!Restart(j, key)
  PROVE  Faithful(journal')
<1> DEFINE e == Bundle!Reported("unknown")
           resumed == [j EXCEPT !.stream = Bundle!Appended(@, key, minted, <<e>>),
                                !.state = "UNKNOWN"]
<1>1. j \in history /\ e \in EventData
  BY DEF HistoryInv, EventData
<1>2. journal' = IF j.state = "DISPATCHING" THEN resumed ELSE j
  BY DEF Bundle!Restart, Bundle!Write
<1>3. CASE j.state = "DISPATCHING"
  <2>1. Bundle!V!StateOf("unknown") = "UNKNOWN" BY DEF Bundle!V!StateOf
  <2>2. /\ e.type = "ExecutionReported"
        /\ Bundle!V!LegalEvent(Action, j.votes, Standing("DISPATCHING", j.votes), e)
        /\ Bundle!V!StateAfter(Standing("DISPATCHING", j.votes), e) = "UNKNOWN"
    BY <2>1, ReportLegal
  <2> HIDE DEF e
  <2>3. Faithful(resumed)
    BY <1>1, <1>3, <2>2, EventFaithful DEF IssuedStates
  <2> QED BY <1>2, <1>3, <2>3
<1>4. CASE j.state # "DISPATCHING"
  BY <1>2, <1>4
<1> QED BY <1>3, <1>4

FaithfulInv == \A j \in history : Faithful(j)

LEMMA FaithfulInit ==
  ASSUME Bundle!Init
  PROVE  FaithfulInv
<1> DEFINE first == Bundle!Appended(<<>>, audit, 0, <<Bundle!Proposed>>)
           vs == [k \in Bundle!Keys |-> None]
<1>1. /\ history = {journal} /\ audit \in AuditKeys
      /\ journal = [stream |-> first, votes |-> vs, state |-> "OPEN",
                    checkpoints |-> {}]
  BY DEF Bundle!Init
<1>2. Bundle!Proposed \in EventData /\ Bundle!Proposed.type = "Proposed"
  BY DEF EventData, Bundle!Proposed
<1>3. Written(first) = <<Bundle!Proposed>>
  <2>1. <<>> \in Seq(Entries) /\ <<Bundle!Proposed>> \in Seq(EventData)
    BY <1>2
  <2>2. Written(first) = Written(<<>>) \o <<Bundle!Proposed>>
        /\ Written(<<>>) \in Seq(EventData) /\ Len(Written(<<>>)) = 0
    BY <2>1, AppendedWrites
  <2>3. Written(<<>>) = <<>> BY <2>2
  <2> QED BY <2>2, <2>3
<1> HIDE DEF first
<1>4. /\ journal.stream = first /\ journal.votes = vs /\ journal.state = "OPEN"
      /\ journal.checkpoints = {}
  BY <1>1
<1>5. vs \in Tables /\ Bundle!Retained(vs) = {} /\ Approving(vs) = {}
  BY EvidenceAssumption DEF Tables, Bundle!Retained, Approving, Bundle!BundleAssumption
<1> HIDE DEF vs
<1>6. Standing("OPEN", vs) = Blank
  BY <1>5 DEF Standing, Blank
<1>7. Leads(<<Bundle!Proposed>>, vs, Blank)
  <2> DEFINE p == Bundle!Proposed
  <2>1. Bundle!V!Reduce(Action, vs, <<p>>) = Blank BY ReduceFirst
  <2>2. <<p>> \in Seq(EventData) /\ <<p>> # <<>> /\ Len(<<p>>) = 1 /\ <<p>>[1] = p
    BY <1>2
  <2> HIDE DEF p
  <2>3. \A i \in 1 .. Len(<<p>>) : <<p>>[i].type = "VoteRecorded" => vs[<<p>>[i].key] # None
    BY <1>2, <2>2 DEF p
  <2>4. Leads(<<p>>, vs, Blank)
    BY <1>5, <2>1, <2>2, <2>3 DEF Leads
  <2> QED BY <2>4 DEF p
<1>8. Written(first)[1] = Bundle!Proposed BY <1>3
<1>9. "OPEN" \in IssuedStates BY DEF IssuedStates
<1>10. Faithful(journal)
  BY <1>3, <1>4, <1>6, <1>7, <1>8, <1>9 DEF Faithful
<1> QED BY <1>1, <1>10 DEF FaithfulInv

\* What each of the issuer's transactions leaves behind.
LEMMA IssueFaithful ==
  ASSUME HistoryInv, FaithfulInv, Bundle!Issue, ~Bundle!Backup
  PROVE  Faithful(journal') /\ history' = history \union {journal'}
<1>0. journal \in history /\ Faithful(journal)
  BY DEF HistoryInv, FaithfulInv
<1>1. ASSUME NEW k \in Bundle!Keys, NEW d \in {"approve", "reject"},
             Bundle!Submit(k, d)
      PROVE  Faithful(journal') /\ history' = history \union {journal'}
  <2>1. Faithful(journal') BY <1>0, <1>1, SubmitFaithful
  <2>2. history' = history \union {journal'}
    BY <1>1 DEF Bundle!Submit, Bundle!Write
  <2> QED BY <2>1, <2>2
<1>2. ASSUME NEW from, NEW data, NEW to, Bundle!Step(from, data, to)
      PROVE  history' = history \union {journal'}
  BY <1>2 DEF Bundle!Step, Bundle!Write
<1>3. CASE Bundle!Commit
  <2>1. Faithful(journal') BY <1>0, <1>3, CommitFaithful
  <2> QED BY <1>2, <1>3, <2>1 DEF Bundle!Commit
<1>4. CASE Bundle!Cancel
  <2>1. Faithful(journal') BY <1>0, <1>4, CancelFaithful
  <2> QED BY <1>2, <1>4, <2>1 DEF Bundle!Cancel
<1>5. ASSUME NEW s \in Outcomes, Bundle!Report(s)
      PROVE  Faithful(journal') /\ history' = history \union {journal'}
  <2>1. Faithful(journal') BY <1>0, <1>5, ReportFaithful
  <2> QED BY <1>2, <1>5, <2>1 DEF Bundle!Report
<1>6. CASE Bundle!Export
  <2>1. /\ journal' = Bundle!WithCheckpoint(journal)
        /\ history' = history \union {journal'}
    BY <1>6 DEF Bundle!Export
  <2>2. journal = [stream |-> journal.stream, votes |-> journal.votes,
                   state |-> journal.state, checkpoints |-> journal.checkpoints]
    BY DEF HistoryInv, JournalOK
  <2> QED BY <1>0, <2>1, <2>2, SealedFaithful
<1>7. ASSUME NEW j \in {journal, backup} \ {None}, NEW key \in AuditKeys,
             Bundle!Restart(j, key)
      PROVE  Faithful(journal') /\ history' = history \union {journal'}
  <2>1. Faithful(j) BY DEF HistoryInv, FaithfulInv
  <2>2. Faithful(journal') BY <1>7, <2>1, RestartFaithful
  <2>3. history' = history \union {journal'}
    BY <1>7 DEF Bundle!Restart, Bundle!Write
  <2> QED BY <2>2, <2>3
<1> QED BY <1>1, <1>3, <1>4, <1>5, <1>6, <1>7 DEF Bundle!Issue

LEMMA FaithfulStep ==
  ASSUME HistoryInv, FaithfulInv, [Bundle!Next]_(Bundle!vars)
  PROVE  FaithfulInv'
<1>1. CASE UNCHANGED history
  BY <1>1 DEF FaithfulInv
<1>2. CASE Bundle!Issue
  <2>1. CASE Bundle!Backup BY <1>1, <2>1 DEF Bundle!Backup
  <2>2. CASE ~Bundle!Backup
    <3>1. Faithful(journal') /\ history' = history \union {journal'}
      BY <1>2, <2>2, IssueFaithful
    <3> QED BY <3>1 DEF FaithfulInv
  <2> QED BY <2>1, <2>2
<1>3. ASSUME NEW x \in exports, Bundle!Take(x)
      PROVE  UNCHANGED history
  BY <1>3 DEF Bundle!Take, Bundle!issuer
<1>4. CASE Bundle!Transport
  <2>1. ASSUME NEW x, NEW loss, Bundle!Becomes(x, loss) PROVE UNCHANGED history
    BY <2>1 DEF Bundle!Becomes, Bundle!issuer
  <2>2. UNCHANGED history
    BY <1>4, <2>1
       DEF Bundle!Transport, Bundle!SpoilCheckpoint, Bundle!LoseEvent,
           Bundle!LoseTail, Bundle!SpoilEvent, Bundle!SpoilHash,
           Bundle!SwapEvents, Bundle!MixEvent, Bundle!MixTail,
           Bundle!MixCheckpoint, Bundle!LoseVote, Bundle!SpoilVote,
           Bundle!MixVote, Bundle!SwapVotes, Bundle!MixVotes
  <2> QED BY <1>1, <2>2
<1>5. CASE UNCHANGED Bundle!vars
  BY <1>1, <1>5 DEF Bundle!vars
<1> QED BY <1>1, <1>2, <1>3, <1>4, <1>5 DEF Bundle!Next

\* Every proof handed out is a life of the journal whose head was signed.
Complete(x, j) ==
  /\ x.events = j.stream /\ x.votes = Bundle!VoteList(j.votes)
  /\ x.checkpoint \in j.checkpoints /\ x.checkpoint.seq = Len(j.stream)

ExportedInv == \A x \in exports : \E j \in history : Complete(x, j)

LEMMA SealedComplete ==
  ASSUME HistoryInv, NEW j \in history
  PROVE  Complete(Bundle!ProofOf(Bundle!WithCheckpoint(j)), Bundle!WithCheckpoint(j))
<1> DEFINE c == [of |-> "this", epoch |-> Action.epoch, seq |-> Len(j.stream),
                 head |-> Bundle!HeadHash(j), key |-> audit, sound |-> TRUE]
           sealed == [j EXCEPT !.checkpoints = @ \union {c}]
           left == Bundle!WithCheckpoint(j)
<1>1. j = [stream |-> j.stream, votes |-> j.votes, state |-> j.state,
           checkpoints |-> j.checkpoints]
  BY DEF HistoryInv, JournalOK
<1>2. c.seq = Len(j.stream) OBVIOUS
<1> HIDE DEF c
<1>3. sealed.stream = j.stream /\ c \in sealed.checkpoints
  BY <1>1
<1>4. /\ (\E y \in j.checkpoints : y.seq = Len(j.stream)) => left = j
      /\ ~(\E y \in j.checkpoints : y.seq = Len(j.stream)) => left = sealed
  BY DEF Bundle!WithCheckpoint, c
<1> HIDE DEF sealed
<1>5. \E y \in left.checkpoints : y.seq = Len(left.stream)
  BY <1>2, <1>3, <1>4
<1> HIDE DEF left
<1>6. Complete(Bundle!ProofOf(left), left)
  BY <1>5 DEF Complete, Bundle!ProofOf
<1> QED BY <1>6 DEF left

LEMMA ExportedStep ==
  ASSUME HistoryInv, HistoryInv', ParcelInv, ExportedInv, [Bundle!Next]_(Bundle!vars)
  PROVE  ExportedInv'
<1>1. history \subseteq history'
  <2>1. Transaction \/ UNCHANGED issued BY IssuerSplit
  <2> QED BY <2>1 DEF Transaction, issued
<1>2. CASE UNCHANGED exports
  BY <1>1, <1>2 DEF ExportedInv
<1>3. CASE Bundle!Export
  <2>1. /\ exports' = exports \union {Bundle!ProofOf(journal')}
        /\ journal' = Bundle!WithCheckpoint(journal) /\ journal \in history
        /\ journal' \in history'
    BY <1>3 DEF Bundle!Export, HistoryInv
  <2>2. Complete(Bundle!ProofOf(journal'), journal')
    BY <2>1, SealedComplete
  <2> QED BY <1>1, <2>1, <2>2 DEF ExportedInv
<1>4. CASE Bundle!Issue /\ ~Bundle!Export
  <2>1. ASSUME NEW k, NEW d, Bundle!Submit(k, d)
        PROVE  UNCHANGED exports
    BY <2>1 DEF Bundle!Submit
  <2>2. ASSUME NEW from, NEW data, NEW to, Bundle!Step(from, data, to)
        PROVE  UNCHANGED exports
    BY <2>2 DEF Bundle!Step
  <2>3. ASSUME NEW j, NEW key, Bundle!Restart(j, key)
        PROVE  UNCHANGED exports
    BY <2>3 DEF Bundle!Restart
  <2>4. Bundle!Backup => UNCHANGED exports BY DEF Bundle!Backup
  <2>5. UNCHANGED exports
    BY <1>4, <2>1, <2>2, <2>3, <2>4
       DEF Bundle!Issue, Bundle!Commit, Bundle!Cancel, Bundle!Report
  <2> QED BY <1>2, <2>5
<1>5. ASSUME NEW x \in exports, Bundle!Take(x)
      PROVE  UNCHANGED exports
  BY <1>5 DEF Bundle!Take, Bundle!issuer
<1>6. CASE Bundle!Transport
  <2>1. ASSUME NEW x, NEW loss, Bundle!Becomes(x, loss) PROVE UNCHANGED exports
    BY <2>1 DEF Bundle!Becomes, Bundle!issuer
  <2>2. UNCHANGED exports
    BY <1>6, <2>1
       DEF Bundle!Transport, Bundle!SpoilCheckpoint, Bundle!LoseEvent,
           Bundle!LoseTail, Bundle!SpoilEvent, Bundle!SpoilHash,
           Bundle!SwapEvents, Bundle!MixEvent, Bundle!MixTail,
           Bundle!MixCheckpoint, Bundle!LoseVote, Bundle!SpoilVote,
           Bundle!MixVote, Bundle!SwapVotes, Bundle!MixVotes
  <2> QED BY <1>2, <2>2
<1>7. CASE UNCHANGED Bundle!vars
  BY <1>2, <1>7 DEF Bundle!vars
<1> QED BY <1>2, <1>3, <1>4, <1>5, <1>6, <1>7 DEF Bundle!Next

-----------------------------------------------------------------------------
(* The votes of a proof.                                                   *)

LEMMA RetainedKeys ==
  ASSUME NEW v
  PROVE  /\ Bundle!Retained(v) \in SUBSET Int
         /\ Bundle!Retained(v) \subseteq Bundle!Keys
         /\ IsFiniteSet(Bundle!Retained(v))
<1>1. Bundle!Retained(v) \subseteq Bundle!Keys
  BY DEF Bundle!Retained
<1>2. Bundle!Keys \subseteq Int /\ IsFiniteSet(Bundle!Keys)
  BY EvidenceAssumption, BundleCounts DEF Bundle!BundleAssumption
<1> QED BY <1>1, <1>2, FS_Subset

LEMMA VoteListIs ==
  ASSUME NEW v \in Tables
  PROVE  LET s == Bundle!VoteList(v)
             R == Bundle!Retained(v)
             n == Cardinality(R) IN
         /\ n \in Nat /\ DOMAIN s = 1 .. n
         /\ \A i \in 1 .. n :
              /\ s[i] = [of |-> "this", key |-> Bundle!Ranked(R, i),
                         decision |-> v[Bundle!Ranked(R, i)], sound |-> TRUE]
              /\ Bundle!Ranked(R, i) \in R
              /\ v[Bundle!Ranked(R, i)] \in {"approve", "reject"}
<1> DEFINE R == Bundle!Retained(v)
           n == Cardinality(R)
<1>1. R \in SUBSET Int /\ R \subseteq Bundle!Keys /\ IsFiniteSet(R) BY RetainedKeys
<1>2. \A k \in R : v[k] \in {"approve", "reject"}
  BY DEF Bundle!Retained, Tables
<1>3. Bundle!VoteList(v) =
        [i \in 1 .. n |-> [of |-> "this", key |-> Bundle!Ranked(R, i),
                           decision |-> v[Bundle!Ranked(R, i)], sound |-> TRUE]]
  BY BundleCounts DEF Bundle!VoteList
<1> HIDE DEF R
<1>4. n \in Nat BY <1>1, FS_CardinalityType
<1>5. \A i \in 1 .. n : Bundle!Ranked(R, i) \in R BY <1>1, RankedIs
<1> QED BY <1>2, <1>3, <1>4, <1>5 DEF R

\* The verifier reads the issuer's votes back from their list.
LEMMA BallotsBack ==
  ASSUME NEW v \in Tables, NEW x, x.votes = Bundle!VoteList(v)
  PROVE  /\ Bundle!Ballots(x) = v
         /\ ~ \E i, n \in DOMAIN x.votes : i < n /\ x.votes[n].key <= x.votes[i].key
<1> DEFINE s == x.votes
           R == Bundle!Retained(v)
           n == Cardinality(R)
<1>1. /\ n \in Nat /\ DOMAIN s = 1 .. n
      /\ \A i \in 1 .. n : s[i].key = Bundle!Ranked(R, i) /\ s[i].key \in R
                           /\ s[i].decision = v[s[i].key]
  <2>1. /\ n \in Nat /\ DOMAIN s = 1 .. n
        /\ \A i \in 1 .. n :
             /\ s[i] = [of |-> "this", key |-> Bundle!Ranked(R, i),
                        decision |-> v[Bundle!Ranked(R, i)], sound |-> TRUE]
             /\ Bundle!Ranked(R, i) \in R
    BY VoteListIs
  <2> HIDE DEF s, R
  <2> QED BY <2>1
<1>2. R \in SUBSET Int /\ R \subseteq Bundle!Keys /\ IsFiniteSet(R) BY RetainedKeys
<1>3. /\ \A i, m \in 1 .. n : i < m => s[i].key < s[m].key
      /\ \A k \in R : \E i \in 1 .. n : s[i].key = k
  BY <1>1, <1>2, RankedIs, RankBounds
<1>4. ASSUME NEW i \in 1 .. n, NEW m \in 1 .. n, s[i].key = s[m].key
      PROVE  i = m
  <2>1. s[i].key \in Int /\ s[m].key \in Int BY <1>1, <1>2
  <2>2. ~(i < m) /\ ~(m < i) BY <1>3, <1>4, <2>1
  <2> QED BY <1>1, <2>2
<1>5. ~ \E i, m \in DOMAIN s : i < m /\ s[m].key <= s[i].key
  <2> SUFFICES ASSUME NEW i \in 1 .. n, NEW m \in 1 .. n, i < m, s[m].key <= s[i].key
               PROVE  FALSE
    BY <1>1
  <2>1. s[i].key \in Int /\ s[m].key \in Int /\ s[i].key < s[m].key
    BY <1>1, <1>2, <1>3
  <2> QED BY <2>1
<1>6. ASSUME NEW k \in Bundle!Keys
      PROVE  Bundle!Ballots(x)[k] = v[k]
  <2> DEFINE at == {i \in DOMAIN s : s[i].key = k}
             last == CHOOSE i \in at : \A m \in at : m <= i
  <2>1. Bundle!Ballots(x)[k] = IF at = {} THEN None ELSE s[last].decision
    BY DEF Bundle!Ballots
  <2>2. CASE k \in R
    <3>1. PICK i \in 1 .. n : s[i].key = k BY <1>3, <2>2
    <3>2. at = {i} BY <1>1, <1>4, <3>1
    <3>3. \A m \in at : m <= i BY <3>2
    <3>4. last = i BY <3>2, <3>3
    <3> QED BY <1>1, <2>1, <3>1, <3>2, <3>4
  <2>3. CASE k \notin R
    <3>1. at = {} BY <1>1, <2>3
    <3>2. v[k] = None BY <2>3 DEF Bundle!Retained
    <3> QED BY <2>1, <3>1, <3>2
  <2> QED BY <2>2, <2>3
<1>7. v = [k \in Bundle!Keys |-> v[k]] BY DEF Tables
<1>8. Bundle!Ballots(x) = [k \in Bundle!Keys |-> Bundle!Ballots(x)[k]]
  BY DEF Bundle!Ballots
<1>9. [k \in Bundle!Keys |-> Bundle!Ballots(x)[k]] = [k \in Bundle!Keys |-> v[k]]
  BY <1>6
<1> QED BY <1>5, <1>7, <1>8, <1>9

\* A replayed state as the replay writes it.
Reduced(r) == r = [state |-> r.state, recorded |-> r.recorded, approved |-> r.approved]

LEMMA StepShape ==
  ASSUME NEW a, NEW b, NEW r, NEW e, Reduced(r)
  PROVE  Reduced(Bundle!V!ReplayStep(a, b, r, e))
<1> DEFINE bad == r.state = Bundle!V!Illegal \/ ~Bundle!V!LegalEvent(a, b, r, e)
           to == Bundle!V!StateAfter(r, e)
           rec == IF e.type = "VoteRecorded" THEN r.recorded \union {e.key}
                                             ELSE r.recorded
           app == IF e.type = "VoteRecorded" /\ e.decision = "approve"
                    THEN r.approved \union {e.key} ELSE r.approved
           t == Bundle!V!ReplayStep(a, b, r, e)
<1>1. t = IF bad THEN [r EXCEPT !.state = Bundle!V!Illegal]
          ELSE [state |-> to, recorded |-> rec, approved |-> app]
  BY DEF Bundle!V!ReplayStep
<1> HIDE DEF t, bad, to, rec, app
<1>2. CASE bad
  <2>1. t = [state |-> Bundle!V!Illegal, recorded |-> r.recorded, approved |-> r.approved]
    BY <1>1, <1>2 DEF Reduced
  <2> QED BY <2>1 DEF Reduced, t
<1>3. CASE ~bad
  BY <1>1, <1>3 DEF Reduced, t
<1> QED BY <1>2, <1>3

LEMMA StepLegal ==
  ASSUME NEW a, NEW b, NEW r, NEW e, Reduced(r), NEW t,
         t = Bundle!V!ReplayStep(a, b, r, e), t.state # Bundle!V!Illegal
  PROVE  /\ r.state # Bundle!V!Illegal /\ Bundle!V!LegalEvent(a, b, r, e)
         /\ \A k \in t.recorded :
              k \in r.recorded \/ (e.type = "VoteRecorded" /\ e.key = k)
<1> DEFINE bad == r.state = Bundle!V!Illegal \/ ~Bundle!V!LegalEvent(a, b, r, e)
           to == Bundle!V!StateAfter(r, e)
           rec == IF e.type = "VoteRecorded" THEN r.recorded \union {e.key}
                                             ELSE r.recorded
           app == IF e.type = "VoteRecorded" /\ e.decision = "approve"
                    THEN r.approved \union {e.key} ELSE r.approved
<1>1. t = IF bad THEN [r EXCEPT !.state = Bundle!V!Illegal]
          ELSE [state |-> to, recorded |-> rec, approved |-> app]
  BY DEF Bundle!V!ReplayStep
<1> HIDE DEF bad, to, rec, app
<1>2. CASE bad
  <2>1. t = [state |-> Bundle!V!Illegal, recorded |-> r.recorded, approved |-> r.approved]
    BY <1>1, <1>2 DEF Reduced
  <2>2. t.state = Bundle!V!Illegal
    BY <2>1
  <2> QED BY <2>2
<1>3. CASE ~bad
  <2>1. t = [state |-> to, recorded |-> rec, approved |-> app]
    BY <1>1, <1>3
  <2>2. t.recorded = rec BY <2>1
  <2>3. \A k \in rec : k \in r.recorded \/ (e.type = "VoteRecorded" /\ e.key = k)
    BY DEF rec
  <2>4. r.state # Bundle!V!Illegal /\ Bundle!V!LegalEvent(a, b, r, e)
    BY <1>3 DEF bad
  <2> QED BY <2>2, <2>3, <2>4
<1> QED BY <1>2, <1>3

\* A run that does not end in an illegal state never was in one; every event is
\* legal where it comes, and what is recorded comes from the votes.
LEMMA LegalRun ==
  ASSUME NEW a, NEW b, NEW es, NEW q, Run(q, a, b, es), Len(es) \in Nat \ {0},
         q[Len(es)].state # Bundle!V!Illegal
  PROVE  /\ \A i \in 1 .. Len(es) : q[i].state # Bundle!V!Illegal
         /\ \A i \in 2 .. Len(es) : Bundle!V!LegalEvent(a, b, q[i - 1], es[i])
         /\ \A k \in q[Len(es)].recorded :
              \E i \in 2 .. Len(es) : es[i].type = "VoteRecorded" /\ es[i].key = k
<1> DEFINE n == Len(es)
<1>1. /\ q[1] = Blank
      /\ \A i \in 2 .. n : q[i] = Bundle!V!ReplayStep(a, b, q[i - 1], es[i])
  BY DEF Run
<1>2. ASSUME NEW i \in 1 .. n
      PROVE  Reduced(q[i])
  <2> DEFINE bad == {m \in 1 .. n : ~Reduced(q[m])}
  <2> SUFFICES ASSUME bad # {} PROVE FALSE OBVIOUS
  <2>1. PICK m \in bad : \A p \in bad : m <= p
    <3>1. bad \in SUBSET Nat OBVIOUS
    <3> HIDE DEF bad
    <3> QED BY <3>1, LeastElement
  <2>2. m \in 1 .. n /\ ~Reduced(q[m]) OBVIOUS
  <2>3. m # 1
    <3>1. Reduced(Blank) BY DEF Reduced, Blank
    <3> QED BY <1>1, <2>2, <3>1
  <2>4. m \in 2 .. n /\ m - 1 \in 1 .. n /\ m - 1 \notin bad
    BY <2>1, <2>2, <2>3
  <2>5. Reduced(q[m - 1]) BY <2>4
  <2>6. q[m] = Bundle!V!ReplayStep(a, b, q[m - 1], es[m]) BY <1>1, <2>4
  <2>7. Reduced(Bundle!V!ReplayStep(a, b, q[m - 1], es[m]))
    BY <2>5, StepShape
  <2> QED BY <2>2, <2>6, <2>7
<1>3. ASSUME NEW i \in 2 .. n, q[i].state # Bundle!V!Illegal
      PROVE  /\ q[i - 1].state # Bundle!V!Illegal
             /\ Bundle!V!LegalEvent(a, b, q[i - 1], es[i])
             /\ \A k \in q[i].recorded :
                  k \in q[i - 1].recorded \/ (es[i].type = "VoteRecorded" /\ es[i].key = k)
  <2>1. i - 1 \in 1 .. n OBVIOUS
  <2>2. Reduced(q[i - 1]) BY <1>2, <2>1
  <2>3. q[i] = Bundle!V!ReplayStep(a, b, q[i - 1], es[i]) BY <1>1
  <2> DEFINE r == q[i - 1]
             e == es[i]
             t == q[i]
  <2>4. Reduced(r) /\ t = Bundle!V!ReplayStep(a, b, r, e) /\ t.state # Bundle!V!Illegal
    BY <1>3, <2>2, <2>3
  <2> HIDE DEF r, e, t
  <2>5. /\ r.state # Bundle!V!Illegal /\ Bundle!V!LegalEvent(a, b, r, e)
        /\ \A k \in t.recorded :
             k \in r.recorded \/ (e.type = "VoteRecorded" /\ e.key = k)
    BY ONLY <2>4, StepLegal
  <2> QED BY <2>5 DEF r, e, t
<1>4. \A i \in 1 .. n : q[i].state # Bundle!V!Illegal
  <2> DEFINE bad == {i \in 1 .. n : q[i].state = Bundle!V!Illegal}
             back == {n - i : i \in bad}
  <2> SUFFICES ASSUME bad # {} PROVE FALSE OBVIOUS
  <2>1. PICK m \in bad : \A p \in bad : n - m <= n - p
    <3>1. back \in SUBSET Nat /\ back # {} OBVIOUS
    <3>2. PICK y \in back : \A p \in back : y <= p
      <4> HIDE DEF back
      <4> QED BY <3>1, LeastElement
    <3> QED BY <3>2
  <2>2. m \in 1 .. n /\ q[m].state = Bundle!V!Illegal OBVIOUS
  <2>3. m # n BY <2>2
  <2>4. m + 1 \in 2 .. n /\ m + 1 \notin bad /\ (m + 1) - 1 = m
    BY <2>1, <2>2, <2>3
  <2>5. q[m + 1].state # Bundle!V!Illegal BY <2>4
  <2> QED BY <1>3, <2>2, <2>4, <2>5
<1>5. \A i \in 2 .. n : i \in 1 .. n OBVIOUS
<1>6. \A i \in 2 .. n : Bundle!V!LegalEvent(a, b, q[i - 1], es[i])
  BY <1>3, <1>4, <1>5
<1>7. ASSUME NEW k \in q[n].recorded
      PROVE  \E i \in 2 .. n : es[i].type = "VoteRecorded" /\ es[i].key = k
  <2> DEFINE has == {i \in 1 .. n : k \in q[i].recorded}
  <2>1. PICK m \in has : \A p \in has : m <= p
    <3>1. has \in SUBSET Nat /\ n \in has OBVIOUS
    <3> HIDE DEF has
    <3> QED BY <3>1, LeastElement
  <2>2. m \in 1 .. n /\ k \in q[m].recorded OBVIOUS
  <2>3. m # 1
    <3>1. q[1].recorded = {} BY <1>1 DEF Blank
    <3> QED BY <2>2, <3>1
  <2>4. m \in 2 .. n /\ m - 1 \in 1 .. n /\ m - 1 \notin has
    BY <2>1, <2>2, <2>3
  <2>5. k \notin q[m - 1].recorded BY <2>4
  <2>6. \A x \in q[m].recorded :
          x \in q[m - 1].recorded \/ (es[m].type = "VoteRecorded" /\ es[m].key = x)
    BY <1>3, <1>4, <2>2, <2>4
  <2> QED BY <2>2, <2>4, <2>5, <2>6
<1> QED BY <1>4, <1>6, <1>7

\* The states at the positions of a stream are what its beginnings replay to.
LEMMA Beginnings ==
  ASSUME NEW a, NEW b, NEW S, NEW es \in Seq(S), es # <<>>
  PROVE  \E q : /\ Run(q, a, b, es)
                /\ \A i \in 1 .. Len(es) :
                     Bundle!V!Reduce(a, b, SubSeq(es, 1, i)) = q[i]
<1>1. PICK q : Run(q, a, b, es) BY ReduceIsRun
<1>2. ASSUME NEW i \in 1 .. Len(es)
      PROVE  Bundle!V!Reduce(a, b, SubSeq(es, 1, i)) = q[i]
  <2> DEFINE w == SubSeq(es, 1, i)
  <2>1. /\ w \in Seq(S) /\ w # <<>> /\ Len(w) = i /\ Len(w) \in Nat
        /\ \A m \in 1 .. Len(w) : w[m] = es[m]
    OBVIOUS
  <2> HIDE DEF w
  <2>2. PICK r : Run(r, a, b, w) /\ Bundle!V!Reduce(a, b, w) = r[Len(w)]
    BY <2>1, ReduceIsRun
  <2>3. SameFor(b, b, w) BY DEF SameFor
  <2>4. Len(es) \in Nat /\ Len(w) <= Len(es) BY <2>1
  <2>5. \A m \in 1 .. Len(w) : r[m] = q[m]
    BY <1>1, <2>1, <2>2, <2>3, <2>4, RunsAgree
  <2>6. r[Len(w)] = q[i] BY <2>1, <2>5
  <2> QED BY <2>2, <2>6 DEF w
<1> QED BY <1>1, <1>2

-----------------------------------------------------------------------------
(* An exported proof passes every check.                                   *)

OpenTrust == {[key |-> k, first |-> 1, last |-> None] : k \in AuditKeys}

LEMMA PiecesOf ==
  ASSUME HistoryInv, FaithfulInv, NEW j \in history, NEW x, Complete(x, j)
  PROVE  /\ x.events \in Seq(Entries) /\ x.events # <<>>
         /\ \A e \in Bundle!ToSet(x.events) : e \in Entries
         /\ \A v \in Bundle!ToSet(x.votes) :
              v.of = "this" /\ v.key \in Bundle!Keys /\ v.sound
         /\ x.checkpoint.of = "this" /\ x.checkpoint.epoch = Action.epoch
         /\ x.checkpoint.sound /\ x.checkpoint.key \in AuditKeys
<1>1. Faithful(j) /\ j.votes \in Tables
  BY DEF FaithfulInv, Faithful, Leads
<1>2. x.events \in Seq(Entries) /\ x.events # <<>>
  BY DEF HistoryInv, JournalOK, StreamOK, Complete
<1>3. \A e \in Bundle!ToSet(x.events) : e \in Entries
  BY <1>2 DEF Bundle!ToSet
<1>4. ASSUME NEW v \in Bundle!ToSet(x.votes)
      PROVE  v.of = "this" /\ v.key \in Bundle!Keys /\ v.sound
  <2> DEFINE s == Bundle!VoteList(j.votes)
             R == Bundle!Retained(j.votes)
  <2>1. PICK i \in DOMAIN s : v = s[i]
    BY <1>4 DEF Complete, Bundle!ToSet
  <2>2. /\ s[i] = [of |-> "this", key |-> Bundle!Ranked(R, i),
                   decision |-> j.votes[Bundle!Ranked(R, i)], sound |-> TRUE]
        /\ Bundle!Ranked(R, i) \in R
    BY <1>1, <2>1, VoteListIs
  <2>3. R \subseteq Bundle!Keys BY RetainedKeys
  <2> HIDE DEF s, R
  <2> QED BY <2>1, <2>2, <2>3
<1>5. /\ x.checkpoint.of = "this" /\ x.checkpoint.epoch = Action.epoch
      /\ x.checkpoint.sound /\ x.checkpoint.key \in AuditKeys
  BY <1>1 DEF Faithful, Complete
<1> QED BY <1>2, <1>3, <1>4, <1>5

LEMMA ExportBinds ==
  ASSUME HistoryInv, FaithfulInv, NEW j \in history, NEW x, Complete(x, j)
  PROVE  Bundle!Binding(x) = "ok"
<1>1. \A e \in Entries : e.of = "this" BY DEF Entries
<1> QED BY <1>1, PiecesOf DEF Bundle!Binding

LEMMA ExportSigned ==
  ASSUME HistoryInv, FaithfulInv, NEW j \in history, NEW x, Complete(x, j),
         Bundle!OneKey(x)
  PROVE  Bundle!Signatures(x, OpenTrust) = "ok" /\ OpenTrust # {}
<1> DEFINE es == Bundle!ToSet(x.events)
           vs == Bundle!ToSet(x.votes)
           ids == {e.key : e \in es}
           key == x.checkpoint.key
<1>1. /\ x.events # <<>>
      /\ \A e \in es : e.key \in AuditKeys /\ e.seq \in Nat /\ e.sound
      /\ \A v \in vs : v.key \in Bundle!Keys /\ v.sound
      /\ x.checkpoint.sound /\ x.checkpoint.key \in AuditKeys
  <2>1. /\ x.events # <<>> /\ \A e \in es : e \in Entries
        /\ \A v \in vs : v.key \in Bundle!Keys /\ v.sound
        /\ x.checkpoint.sound /\ x.checkpoint.key \in AuditKeys
    BY PiecesOf
  <2>2. \A e \in Entries : e.key \in AuditKeys /\ e.seq \in Nat /\ e.sound
    BY DEF Entries
  <2> HIDE DEF es, vs
  <2> QED BY <2>1, <2>2
<1>2. x.events[1] \in es
  BY PiecesOf DEF Bundle!ToSet
<1>3. \A e \in es : 1 <= e.seq
  <2> SUFFICES ASSUME NEW e \in es PROVE 1 <= e.seq OBVIOUS
  <2>1. PICK i \in 1 .. Len(x.events) : e = x.events[i]
    BY PiecesOf DEF Bundle!ToSet
  <2>2. InPlace(x.events, i)
    BY <2>1 DEF HistoryInv, JournalOK, StreamOK, Complete
  <2> QED BY <2>1, <2>2 DEF InPlace
<1>4. key \in AuditKeys /\ \A e \in es : e.key = key
  BY <1>1 DEF Bundle!OneKey
<1> HIDE DEF es, vs
<1>5. ids = {key} /\ x.checkpoint.key \in ids
  BY <1>2, <1>4
<1>6. Bundle!Cardinality(ids) = 1
  BY <1>5, BundleCounts, FS_Singleton
<1>7. \A k \in OpenTrust : k.first = 1 /\ k.last = None
  BY DEF OpenTrust
<1>8. \A k \in OpenTrust, e \in es : Bundle!InInterval(k, e.seq)
  BY <1>3, <1>7 DEF Bundle!InInterval
<1>9. \E k \in OpenTrust : k.key = key
  <2> DEFINE opened == [key |-> key, first |-> 1, last |-> None]
  <2>1. opened \in OpenTrust BY <1>4 DEF OpenTrust
  <2>2. opened.key = key OBVIOUS
  <2> HIDE DEF opened
  <2> QED BY <2>1, <2>2
<1>10. \E k \in OpenTrust : ids = {k.key} BY <1>5, <1>9
<1> HIDE DEF ids
<1>11. Bundle!Signatures(x, OpenTrust) =
         IF \E v \in vs : v.key \notin Bundle!Keys THEN "KEY_NOT_ENROLLED"
         ELSE IF \E v \in vs : ~v.sound THEN "BAD_SIGNATURE"
         ELSE IF x.events = <<>> THEN "MISSING_EVIDENCE"
         ELSE IF Bundle!Cardinality(ids) # 1 \/ ~\E k \in OpenTrust : ids = {k.key}
           THEN "UNTRUSTED"
         ELSE IF \E e \in es, k \in OpenTrust :
                   k.key = e.key /\ ~Bundle!InInterval(k, e.seq) THEN "UNTRUSTED"
         ELSE IF \E e \in es : ~e.sound THEN "BAD_SIGNATURE"
         ELSE IF x.checkpoint.key \notin ids THEN "UNTRUSTED"
         ELSE IF ~x.checkpoint.sound THEN "BAD_SIGNATURE"
         ELSE "ok"
  BY DEF Bundle!Signatures, es, vs, ids
<1> QED BY <1>1, <1>5, <1>6, <1>8, <1>9, <1>10, <1>11

LEMMA ExportChained ==
  ASSUME HistoryInv, NEW j \in history, NEW x, Complete(x, j)
  PROVE  Bundle!Chain(x) = "ok"
<1>1. StreamOK(x.events, minted) /\ x.events = j.stream
  BY DEF HistoryInv, JournalOK, Complete
<1>2. ASSUME NEW i \in DOMAIN x.events
      PROVE  ~Bundle!ChainBreak(x, i)
  <2>1. i \in 1 .. Len(x.events) /\ Len(x.events) \in Nat
    BY <1>1 DEF StreamOK
  <2>2. InPlace(x.events, i) BY <1>1, <2>1 DEF StreamOK
  <2>3. \A n \in 1 .. i - 1 : x.events[n].receipt # x.events[i].receipt
    <3> SUFFICES ASSUME NEW n \in 1 .. i - 1
                 PROVE  x.events[n].receipt # x.events[i].receipt
      OBVIOUS
    <3>1. n \in 1 .. Len(x.events) /\ n < i BY <2>1
    <3>2. /\ x.events[n].receipt < x.events[i].receipt
          /\ x.events[n].receipt \in Int /\ x.events[i].receipt \in Int
      BY <1>1, <2>1, <3>1 DEF StreamOK
    <3> QED BY <3>2
  <2> QED BY <2>2, <2>3 DEF InPlace, Bundle!ChainBreak, Bundle!Linked
<1>3. Bundle!AtHead(x)
  <2>1. PICK k \in history : Seals(x.checkpoint, k) /\ Prefix(k.stream, j.stream)
    BY DEF HistoryInv, JournalOK, Complete
  <2>2. StreamOK(j.stream, minted) /\ StreamOK(k.stream, minted)
    BY DEF HistoryInv, JournalOK
  <2> DEFINE n == Len(j.stream)
  <2>3. n \in Nat \ {0} /\ Len(k.stream) = n /\ InPlace(j.stream, n)
    BY <2>1, <2>2 DEF StreamOK, Seals, Complete
  <2>4. k.stream[n] = j.stream[n] BY <2>1, <2>3 DEF Prefix
  <2>5. x.checkpoint.seq = n /\ x.checkpoint.head = j.stream[n].hash
    BY <2>1, <2>3, <2>4 DEF Seals
  <2> QED BY <1>1, <2>3, <2>5 DEF InPlace, Bundle!AtHead, Bundle!Last
<1>4. {i \in DOMAIN x.events : Bundle!ChainBreak(x, i)} = {}
  BY <1>2
<1> QED BY <1>3, <1>4 DEF Bundle!Chain

LEMMA DatasWritten ==
  ASSUME NEW x, x.events \in Seq(Entries)
  PROVE  Bundle!Datas(x) = Written(x.events)
BY DEF Bundle!Datas, Written

LEMMA ExportReplays ==
  ASSUME HistoryInv, FaithfulInv, NEW j \in history, NEW x, Complete(x, j)
  PROVE  Bundle!Replay(x) = "ok"
<1> DEFINE w == Written(j.stream)
           v == j.votes
           Upto(i) == Bundle!V!Reduce(Action, v, SubSeq(w, 1, i))
           illegal == {i \in DOMAIN w : Upto(i).state = Bundle!V!Illegal}
<1>1. Faithful(j) /\ Leads(w, v, Standing(j.state, v)) /\ v \in Tables
  BY DEF FaithfulInv, Faithful, Leads
<1>2. w \in Seq(EventData) /\ w # <<>> /\ w[1].type = "Proposed"
      /\ Bundle!V!Reduce(Action, v, w) = Standing(j.state, v)
      /\ j.state \in IssuedStates
  BY <1>1 DEF Leads, Faithful, Bundle!Proposed
<1>3. Bundle!Datas(x) = w /\ Bundle!Ballots(x) = v
      /\ ~ \E i, n \in DOMAIN x.votes : i < n /\ x.votes[n].key <= x.votes[i].key
  <2>1. x.events \in Seq(Entries) /\ x.events = j.stream /\ x.votes = Bundle!VoteList(v)
    BY PiecesOf DEF Complete
  <2>2. Bundle!Datas(x) = w BY <2>1, DatasWritten
  <2> QED BY <1>1, <2>1, <2>2, BallotsBack
<1> HIDE DEF w, v
<1>4. PICK q : /\ Run(q, Action, v, w)
               /\ \A i \in 1 .. Len(w) :
                    Bundle!V!Reduce(Action, v, SubSeq(w, 1, i)) = q[i]
  <2> HIDE DEF illegal, Upto
  <2>1. w \in Seq(EventData) /\ w # <<>> BY <1>2
  <2>2. ASSUME NEW c, NEW y \in Seq(EventData), y # <<>>
        PROVE  \E q : /\ Run(q, Action, c, y)
                      /\ \A i \in 1 .. Len(y) :
                           Bundle!V!Reduce(Action, c, SubSeq(y, 1, i)) = q[i]
    BY <2>2, Beginnings
  <2>3. \E q : /\ Run(q, Action, v, w)
               /\ \A i \in 1 .. Len(w) :
                    Bundle!V!Reduce(Action, v, SubSeq(w, 1, i)) = q[i]
    BY <2>1, <2>2
  <2> QED BY <2>3
<1>5. Len(w) \in Nat \ {0} /\ DOMAIN w = 1 .. Len(w) /\ SubSeq(w, 1, Len(w)) = w
  BY <1>2
<1>6. Upto(Len(w)) = Standing(j.state, v) /\ q[Len(w)] = Standing(j.state, v)
  <2>1. Bundle!V!Reduce(Action, v, SubSeq(w, 1, Len(w))) = Standing(j.state, v)
    BY <1>2, <1>5
  <2>2. Len(w) \in 1 .. Len(w) BY <1>5
  <2> QED BY <1>4, <2>1, <2>2
<1>7. /\ Standing(j.state, v).state = j.state
      /\ Standing(j.state, v).recorded = Bundle!Retained(v)
      /\ j.state # Bundle!V!Illegal /\ j.state # "REJECT_PENDING"
  BY <1>2 DEF Standing, IssuedStates, Bundle!V!Illegal
<1>8. illegal = {}
  <2>1. \A i \in 1 .. Len(w) : q[i].state # Bundle!V!Illegal
    BY <1>4, <1>5, <1>6, <1>7, LegalRun
  <2> QED BY <1>4, <1>5, <2>1
<1>9. Bundle!AllRecorded(x, Upto(Len(w)))
  BY <1>3, <1>6, <1>7 DEF Bundle!AllRecorded
<1>10. Bundle!Replay(x) =
         IF w[1].type # "Proposed" THEN Bundle!V!Illegal
         ELSE IF \E i, n \in DOMAIN x.votes : i < n /\ x.votes[n].key <= x.votes[i].key
         THEN Bundle!V!Illegal
         ELSE IF illegal # {}
         THEN LET e == w[CHOOSE i \in illegal : \A n \in illegal : i <= n] IN
              IF e.type = "VoteRecorded" /\ v[e.key] # e.decision
              THEN "MISSING_EVIDENCE" ELSE Bundle!V!Illegal
         ELSE IF Upto(Len(w)).state = "REJECT_PENDING" THEN Bundle!V!Illegal
         ELSE IF ~Bundle!AllRecorded(x, Upto(Len(w))) THEN "MISSING_EVIDENCE"
         ELSE "ok"
  BY <1>3 DEF Bundle!Replay
<1> HIDE DEF illegal, Upto
<1> QED BY <1>2, <1>3, <1>6, <1>7, <1>8, <1>9, <1>10

\* What two audit keys have signed is not trusted, whichever keys are.
LEMMA SplitUntrusted ==
  ASSUME NEW x, NEW trust, x.events # <<>>, ~Bundle!OneKey(x),
         \A v \in Bundle!ToSet(x.votes) : v.key \in Bundle!Keys /\ v.sound,
         \A e \in Bundle!ToSet(x.events) : e.sound
  PROVE  Bundle!Signatures(x, trust) = "UNTRUSTED"
<1> DEFINE es == Bundle!ToSet(x.events)
           ids == {e.key : e \in es}
           known == \E k \in trust : ids = {k.key}
<1>1. ASSUME known
      PROVE  x.checkpoint.key \notin ids
  <2>1. PICK e \in es : e.key # x.checkpoint.key BY DEF Bundle!OneKey
  <2>2. PICK k \in trust : ids = {k.key} BY <1>1
  <2>3. e.key = k.key BY <2>1, <2>2
  <2> QED BY <2>1, <2>2, <2>3
<1>2. Bundle!Signatures(x, trust) =
         IF \E v \in Bundle!ToSet(x.votes) : v.key \notin Bundle!Keys
         THEN "KEY_NOT_ENROLLED"
         ELSE IF \E v \in Bundle!ToSet(x.votes) : ~v.sound THEN "BAD_SIGNATURE"
         ELSE IF x.events = <<>> THEN "MISSING_EVIDENCE"
         ELSE IF Bundle!Cardinality(ids) # 1 \/ ~known THEN "UNTRUSTED"
         ELSE IF \E e \in es, k \in trust :
                   k.key = e.key /\ ~Bundle!InInterval(k, e.seq) THEN "UNTRUSTED"
         ELSE IF \E e \in es : ~e.sound THEN "BAD_SIGNATURE"
         ELSE IF x.checkpoint.key \notin ids THEN "UNTRUSTED"
         ELSE IF ~x.checkpoint.sound THEN "BAD_SIGNATURE"
         ELSE "ok"
  BY DEF Bundle!Signatures
<1> HIDE DEF ids, known
<1> QED BY <1>1, <1>2

\* Such a proof is invalid, whatever else is missing from it.
LEMMA SplitInvalid ==
  ASSUME NEW x, NEW trust, Bundle!Binding(x) = "ok",
         Bundle!Signatures(x, trust) = "UNTRUSTED"
  PROVE  Bundle!Integrity(x, trust) = "invalid"
<1>1. \/ Bundle!Failure(x, trust) = <<"trust", "UNTRUSTED">>
      \/ Bundle!Failure(x, trust) = <<"signatures", "UNTRUSTED">>
  BY DEF Bundle!Failure
<1> QED BY <1>1 DEF Bundle!Integrity

LEMMA ExportsFollow ==
  ASSUME HistoryInv, FaithfulInv, ExportedInv
  PROVE  ExportsVerify
<1> SUFFICES ASSUME NEW x \in exports
             PROVE  Bundle!Integrity(x, OpenTrust)
                      = IF Bundle!OneKey(x) THEN "valid" ELSE "invalid"
  BY DEF ExportsVerify, Bundle!ExportsVerify, OpenTrust
<1>1. PICK j \in history : Complete(x, j) BY DEF ExportedInv
<1>2. Bundle!Binding(x) = "ok" BY <1>1, ExportBinds
<1>3. CASE Bundle!OneKey(x)
  <2>1. /\ Bundle!Signatures(x, OpenTrust) = "ok" /\ OpenTrust # {}
        /\ Bundle!Chain(x) = "ok" /\ Bundle!Replay(x) = "ok"
    BY <1>1, <1>3, ExportSigned, ExportChained, ExportReplays
  <2>2. Bundle!Failure(x, OpenTrust) = <<"none", "ok">>
    BY <1>2, <2>1 DEF Bundle!Failure
  <2> QED BY <1>3, <2>2 DEF Bundle!Integrity
<1>4. CASE ~Bundle!OneKey(x)
  <2>1. /\ x.events # <<>>
        /\ \A e \in Bundle!ToSet(x.events) : e \in Entries
        /\ \A v \in Bundle!ToSet(x.votes) : v.key \in Bundle!Keys /\ v.sound
    BY <1>1, PiecesOf
  <2>2. \A e \in Entries : e.sound BY DEF Entries
  <2>3. Bundle!Signatures(x, OpenTrust) = "UNTRUSTED"
    BY <1>4, <2>1, <2>2, SplitUntrusted
  <2> QED BY <1>2, <1>4, <2>3, SplitInvalid
<1> QED BY <1>3, <1>4

LEMMA ExportsOfOneKey ==
  ASSUME HistoryInv, FaithfulInv, ExportedInv, \A k, l \in AuditKeys : k = l
  PROVE  \A x \in exports : Bundle!OneKey(x)
<1> SUFFICES ASSUME NEW x \in exports PROVE Bundle!OneKey(x)
  OBVIOUS
<1>1. PICK j \in history : Complete(x, j) BY DEF ExportedInv
<1>2. \A e \in Entries : e.key \in AuditKeys BY DEF Entries
<1>3. /\ \A e \in Bundle!ToSet(x.events) : e.key \in AuditKeys
      /\ x.checkpoint.key \in AuditKeys
  BY <1>1, <1>2, PiecesOf
<1> QED BY <1>3 DEF Bundle!OneKey

\* Along every behaviour each proof handed out is what a life of the journal
\* held, with its head signed.
LEMMA ExportsAre ==
  Bundle!Spec => [](HistoryInv /\ FaithfulInv /\ ExportedInv)
<1>1. Bundle!Init => HistoryInv /\ ParcelInv /\ FaithfulInv /\ ExportedInv
  BY HistoryInit, FaithfulInit DEF Bundle!Init, ParcelInv, ExportedInv
<1>2. HistoryInv /\ ParcelInv /\ FaithfulInv /\ ExportedInv
        /\ [Bundle!Next]_(Bundle!vars)
      => (HistoryInv /\ ParcelInv /\ FaithfulInv /\ ExportedInv)'
  BY HistoryStep, ParcelStep, FaithfulStep, ExportedStep
<1> QED BY <1>1, <1>2, PTL DEF Bundle!Spec

\* Whatever the tenant votes, commits and reports, however often its journal is
\* restored and its audit key changed: a proof handed out verifies for a host
\* that trusts every audit key if its events and its checkpoint are signed under
\* one of them, and is invalid otherwise.
THEOREM ExportsVerifyUnderOneKey == Bundle!Spec => []ExportsVerify
<1>1. HistoryInv /\ FaithfulInv /\ ExportedInv => ExportsVerify
  BY ExportsFollow
<1> QED BY <1>1, ExportsAre, PTL

\* So while the audit key stays the same, every proof handed out verifies.
THEOREM EveryExportVerifies ==
  ASSUME \A k, l \in AuditKeys : k = l
  PROVE  Bundle!Spec => [](\A x \in exports : Bundle!Integrity(x, OpenTrust) = "valid")
<1>1. HistoryInv /\ FaithfulInv /\ ExportedInv =>
        \A x \in exports : Bundle!Integrity(x, OpenTrust) = "valid"
  BY ExportsFollow, ExportsOfOneKey
     DEF ExportsVerify, Bundle!ExportsVerify, OpenTrust
<1> QED BY <1>1, ExportsAre, PTL

-----------------------------------------------------------------------------
(* A proof that is accepted.                                               *)

\* A vote as it may come: of this action or another one, whole or spoilt.
Slips == [of : {"this", "other"}, key : Bundle!Keys, decision : {"approve", "reject"},
          sound : BOOLEAN]

SlipsInv ==
  /\ \A x \in exports : x.votes \in Seq(Slips)
  /\ bundle = None \/ bundle.votes \in Seq(Slips)

LEMMA ExportSlips ==
  ASSUME NEW v \in Tables
  PROVE  Bundle!VoteList(v) \in Seq(Slips)
<1> DEFINE s == Bundle!VoteList(v)
           R == Bundle!Retained(v)
           n == Cardinality(R)
<1>1. /\ n \in Nat /\ DOMAIN s = 1 .. n
      /\ \A i \in 1 .. n :
           /\ s[i] = [of |-> "this", key |-> Bundle!Ranked(R, i),
                      decision |-> v[Bundle!Ranked(R, i)], sound |-> TRUE]
           /\ Bundle!Ranked(R, i) \in R
           /\ v[Bundle!Ranked(R, i)] \in {"approve", "reject"}
  BY VoteListIs
<1>2. R \subseteq Bundle!Keys BY RetainedKeys
<1>3. s = [i \in 1 .. n |-> s[i]]
  BY BundleCounts DEF Bundle!VoteList
<1> HIDE DEF s, R, n
<1>4. ASSUME NEW i \in 1 .. n
      PROVE  s[i] \in Slips
  <2> DEFINE k == Bundle!Ranked(R, i)
             d == v[k]
  <2>1. /\ s[i] = [of |-> "this", key |-> k, decision |-> d, sound |-> TRUE]
        /\ k \in Bundle!Keys /\ d \in {"approve", "reject"}
    BY <1>1, <1>2
  <2> HIDE DEF k, d
  <2> QED BY <2>1 DEF Slips
<1> QED BY <1>1, <1>3, <1>4 DEF s

LEMMA VoteMishaps ==
  ASSUME ParcelOK(bundle), bundle.votes \in Seq(Slips),
         NEW i \in DOMAIN bundle.votes
  PROVE  /\ Bundle!LoseVote(i) => bundle'.votes \in Seq(Slips)
         /\ Bundle!SpoilVote(i) => bundle'.votes \in Seq(Slips)
         /\ Bundle!MixVote(i, Bundle!Foreign(bundle.votes[i]))
              => bundle'.votes \in Seq(Slips)
         /\ \A v \in Bundle!Votes : Bundle!MixVote(i, v) => bundle'.votes \in Seq(Slips)
         /\ i < Len(bundle.votes) /\ Bundle!SwapVotes(i)
              => bundle'.votes \in Seq(Slips)
<1> DEFINE vs == bundle.votes
<1>1. vs \in Seq(Slips) /\ i \in 1 .. Len(vs) /\ vs[i] \in Slips
  OBVIOUS
<1>2. Bundle!LoseVote(i) => bundle'.votes \in Seq(Slips)
  <2>1. Bundle!RemoveAt(vs, i) \in Seq(Slips)
    BY <1>1 DEF Bundle!RemoveAt
  <2>2. [bundle EXCEPT !.votes = Bundle!RemoveAt(vs, i)].votes = Bundle!RemoveAt(vs, i)
    BY DEF ParcelOK
  <2> QED BY <2>1, <2>2 DEF Bundle!LoseVote, Bundle!Becomes
<1>3. ASSUME NEW v \in Slips
      PROVE  [bundle EXCEPT !.votes[i] = v].votes \in Seq(Slips)
  <2>1. [vs EXCEPT ![i] = v] \in Seq(Slips) BY <1>1, <1>3
  <2>2. [bundle EXCEPT !.votes[i] = v].votes = [vs EXCEPT ![i] = v]
    BY DEF ParcelOK
  <2> QED BY <2>1, <2>2
<1>4. Bundle!SpoilVote(i) => bundle'.votes \in Seq(Slips)
  <2>1. [vs[i] EXCEPT !.sound = FALSE] \in Slips BY <1>1 DEF Slips
  <2>2. [bundle EXCEPT !.votes[i].sound = FALSE]
          = [bundle EXCEPT !.votes[i] = [vs[i] EXCEPT !.sound = FALSE]]
    BY DEF ParcelOK
  <2> QED BY <1>3, <2>1, <2>2 DEF Bundle!SpoilVote, Bundle!Becomes
<1>5. Bundle!MixVote(i, Bundle!Foreign(vs[i])) => bundle'.votes \in Seq(Slips)
  <2>1. Bundle!Foreign(vs[i]) \in Slips BY <1>1 DEF Slips, Bundle!Foreign
  <2> QED BY <1>3, <2>1 DEF Bundle!MixVote, Bundle!Becomes
<1>6. \A v \in Bundle!Votes : Bundle!MixVote(i, v) => bundle'.votes \in Seq(Slips)
  <2>1. Bundle!Votes \subseteq Slips BY DEF Bundle!Votes, Slips
  <2> QED BY <1>3, <2>1 DEF Bundle!MixVote, Bundle!Becomes
<1>7. i < Len(vs) /\ Bundle!SwapVotes(i) => bundle'.votes \in Seq(Slips)
  <2> SUFFICES ASSUME i < Len(vs), Bundle!SwapVotes(i) PROVE bundle'.votes \in Seq(Slips)
    OBVIOUS
  <2>1. Bundle!Swap(vs, i) \in Seq(Slips)
    BY <1>1 DEF Bundle!Swap
  <2>2. [bundle EXCEPT !.votes = Bundle!Swap(vs, i)].votes = Bundle!Swap(vs, i)
    BY DEF ParcelOK
  <2> QED BY <2>1, <2>2 DEF Bundle!SwapVotes, Bundle!Becomes
<1> QED BY <1>2, <1>4, <1>5, <1>6, <1>7

LEMMA TransportSlips ==
  ASSUME ParcelOK(bundle), bundle.votes \in Seq(Slips), Bundle!Transport
  PROVE  bundle'.votes \in Seq(Slips)
<1>1. ASSUME NEW es
      PROVE  [bundle EXCEPT !.events = es].votes = bundle.votes
  BY DEF ParcelOK
<1>2. ASSUME NEW c
      PROVE  [bundle EXCEPT !.checkpoint = c].votes = bundle.votes
  BY DEF ParcelOK
<1>3. CASE Bundle!SpoilCheckpoint
           \/ \E c \in Bundle!Checkpoints :
                Bundle!MixCheckpoint(c) \/ Bundle!MixCheckpoint(Bundle!Foreign(c))
  <2>1. [bundle EXCEPT !.checkpoint.sound = FALSE]
          = [bundle EXCEPT !.checkpoint = [bundle.checkpoint EXCEPT !.sound = FALSE]]
    BY DEF ParcelOK
  <2> QED BY <1>2, <1>3, <2>1 DEF Bundle!SpoilCheckpoint, Bundle!MixCheckpoint, Bundle!Becomes
<1>4. ASSUME NEW i \in DOMAIN bundle.events, NEW e,
             \/ Bundle!LoseEvent(i) \/ Bundle!LoseTail(i)
             \/ Bundle!SpoilEvent(i) \/ Bundle!SpoilHash(i)
             \/ Bundle!SwapEvents(i) \/ Bundle!MixEvent(i, e)
      PROVE  bundle'.votes \in Seq(Slips)
  <2> DEFINE es == bundle.events
  <2>1. /\ [bundle EXCEPT !.events[i].sound = FALSE]
             = [bundle EXCEPT !.events = [es EXCEPT ![i] = [es[i] EXCEPT !.sound = FALSE]]]
        /\ [bundle EXCEPT !.events[i].hash = None]
             = [bundle EXCEPT !.events = [es EXCEPT ![i] = [es[i] EXCEPT !.hash = None]]]
        /\ [bundle EXCEPT !.events[i] = e]
             = [bundle EXCEPT !.events = [es EXCEPT ![i] = e]]
    BY DEF ParcelOK
  <2> QED BY <1>1, <1>4, <2>1
          DEF Bundle!LoseEvent, Bundle!LoseTail, Bundle!SpoilEvent, Bundle!SpoilHash,
              Bundle!SwapEvents, Bundle!MixEvent, Bundle!Becomes
<1>5. ASSUME NEW e, Bundle!MixTail(e)
      PROVE  bundle'.votes \in Seq(Slips)
  BY <1>1, <1>5 DEF Bundle!MixTail, Bundle!Becomes
<1>6. ASSUME NEW v \in Bundle!Votes, Bundle!MixVotes(v)
      PROVE  bundle'.votes \in Seq(Slips)
  <2>1. v \in Slips BY DEF Bundle!Votes, Slips
  <2>2. Append(bundle.votes, v) \in Seq(Slips) BY <2>1
  <2>3. [bundle EXCEPT !.votes = Append(@, v)].votes = Append(bundle.votes, v)
    BY DEF ParcelOK
  <2> QED BY <1>6, <2>2, <2>3 DEF Bundle!MixVotes, Bundle!Becomes
<1>7. ASSUME NEW i \in DOMAIN bundle.votes,
             \/ Bundle!LoseVote(i) \/ Bundle!SpoilVote(i)
             \/ Bundle!MixVote(i, Bundle!Foreign(bundle.votes[i]))
             \/ i < Len(bundle.votes) /\ Bundle!SwapVotes(i)
             \/ \E v \in Bundle!Votes : Bundle!MixVote(i, v)
      PROVE  bundle'.votes \in Seq(Slips)
  BY <1>7, VoteMishaps
<1> QED BY <1>3, <1>4, <1>5, <1>6, <1>7 DEF Bundle!Transport

LEMMA SlipsStep ==
  ASSUME ParcelInv, SlipsInv, ExportedInv', FaithfulInv', [Bundle!Next]_(Bundle!vars)
  PROVE  SlipsInv'
<1>1. \A x \in exports' : x.votes \in Seq(Slips)
  <2> SUFFICES ASSUME NEW x \in exports' PROVE x.votes \in Seq(Slips)
    OBVIOUS
  <2>1. PICK j \in history' : Complete(x, j) BY DEF ExportedInv
  <2>2. j.votes \in Tables BY DEF FaithfulInv, Faithful, Leads
  <2> QED BY <2>1, <2>2, ExportSlips DEF Complete
<1>2. ASSUME NEW x \in exports, Bundle!Take(x)
      PROVE  bundle' = x
  BY <1>2 DEF Bundle!Take
<1>3. CASE bundle # None /\ Bundle!Transport
  <2>1. bundle'.votes \in Seq(Slips)
    BY <1>3, TransportSlips DEF ParcelInv, SlipsInv
  <2> QED BY <1>1, <2>1 DEF SlipsInv
<1>4. CASE Bundle!Issue
  <2>1. ASSUME NEW k, NEW d, Bundle!Submit(k, d) PROVE UNCHANGED bundle
    BY <2>1 DEF Bundle!Submit
  <2>2. ASSUME NEW from, NEW data, NEW to, Bundle!Step(from, data, to)
        PROVE  UNCHANGED bundle
    BY <2>2 DEF Bundle!Step
  <2>3. ASSUME NEW j, NEW key, Bundle!Restart(j, key) PROVE UNCHANGED bundle
    BY <2>3 DEF Bundle!Restart
  <2>4. Bundle!Backup \/ Bundle!Export => UNCHANGED bundle
    BY DEF Bundle!Backup, Bundle!Export
  <2>5. UNCHANGED bundle
    BY <1>4, <2>1, <2>2, <2>3, <2>4
       DEF Bundle!Issue, Bundle!Commit, Bundle!Cancel, Bundle!Report
  <2> QED BY <1>1, <2>5 DEF SlipsInv
<1>5. CASE UNCHANGED Bundle!vars
  BY <1>1, <1>5 DEF Bundle!vars, SlipsInv
<1> QED BY <1>1, <1>2, <1>3, <1>4, <1>5 DEF Bundle!Next, SlipsInv

LEMMA ReplayMeans ==
  ASSUME NEW x, Bundle!Replay(x) = "ok"
  PROVE  /\ ~ \E i, n \in DOMAIN x.votes : i < n /\ x.votes[n].key <= x.votes[i].key
         /\ \A i \in DOMAIN Bundle!Datas(x) :
              Bundle!V!Reduce(Action, Bundle!Ballots(x), SubSeq(Bundle!Datas(x), 1, i)).state
                # Bundle!V!Illegal
         /\ Bundle!V!Reduce(Action, Bundle!Ballots(x),
                            SubSeq(Bundle!Datas(x), 1, Len(Bundle!Datas(x)))).recorded
              = Bundle!Retained(Bundle!Ballots(x))
<1> DEFINE w == Bundle!Datas(x)
           b == Bundle!Ballots(x)
           Upto(i) == Bundle!V!Reduce(Action, b, SubSeq(w, 1, i))
           illegal == {i \in DOMAIN w : Upto(i).state = Bundle!V!Illegal}
           unordered == \E i, n \in DOMAIN x.votes :
                          i < n /\ x.votes[n].key <= x.votes[i].key
<1>1. Bundle!Replay(x) =
         IF w[1].type # "Proposed" THEN Bundle!V!Illegal
         ELSE IF unordered THEN Bundle!V!Illegal
         ELSE IF illegal # {}
         THEN LET e == w[CHOOSE i \in illegal : \A n \in illegal : i <= n] IN
              IF e.type = "VoteRecorded" /\ b[e.key] # e.decision
              THEN "MISSING_EVIDENCE" ELSE Bundle!V!Illegal
         ELSE IF Upto(Len(w)).state = "REJECT_PENDING" THEN Bundle!V!Illegal
         ELSE IF ~Bundle!AllRecorded(x, Upto(Len(w))) THEN "MISSING_EVIDENCE"
         ELSE "ok"
  BY DEF Bundle!Replay
<1>2. Bundle!V!Illegal # "ok" BY DEF Bundle!V!Illegal
<1>3. ~unordered /\ illegal = {} /\ Bundle!AllRecorded(x, Upto(Len(w)))
  <2> HIDE DEF illegal, unordered, Upto, w, b
  <2> QED BY <1>1, <1>2
<1>4. Upto(Len(w)).recorded = Bundle!Retained(b)
  BY <1>3 DEF Bundle!AllRecorded
<1> QED BY <1>3, <1>4

\* Two ballots under which the same stream is legal record the same votes.
LEMMA SameVotes ==
  ASSUME NEW b, NEW c, NEW w \in Seq(EventData), w # <<>>,
         Bundle!V!Reduce(Action, b, w).state # Bundle!V!Illegal,
         Bundle!V!Reduce(Action, c, w).state # Bundle!V!Illegal
  PROVE  /\ Bundle!V!Reduce(Action, b, w) = Bundle!V!Reduce(Action, c, w)
         /\ \A k \in Bundle!V!Reduce(Action, b, w).recorded : b[k] = c[k]
<1>1. PICK r : Run(r, Action, b, w) /\ Bundle!V!Reduce(Action, b, w) = r[Len(w)]
  BY ReduceIsRun
<1>2. PICK q : Run(q, Action, c, w) /\ Bundle!V!Reduce(Action, c, w) = q[Len(w)]
  BY ReduceIsRun
<1>3. Len(w) \in Nat \ {0} OBVIOUS
<1>4. /\ \A i \in 2 .. Len(w) : Bundle!V!LegalEvent(Action, b, r[i - 1], w[i])
      /\ \A k \in r[Len(w)].recorded :
           \E i \in 2 .. Len(w) : w[i].type = "VoteRecorded" /\ w[i].key = k
  BY <1>1, <1>3, LegalRun
<1>5. \A i \in 2 .. Len(w) : Bundle!V!LegalEvent(Action, c, q[i - 1], w[i])
  BY <1>2, <1>3, LegalRun
<1>6. ASSUME NEW d, NEW s, NEW e, e.type = "VoteRecorded",
             Bundle!V!LegalEvent(Action, d, s, e)
      PROVE  d[e.key] = e.decision
  BY <1>6 DEF Bundle!V!LegalEvent
<1>7. ASSUME NEW i \in 2 .. Len(w), w[i].type = "VoteRecorded"
      PROVE  b[w[i].key] = c[w[i].key]
  <2>1. b[w[i].key] = w[i].decision BY <1>4, <1>6, <1>7
  <2>2. c[w[i].key] = w[i].decision BY <1>5, <1>6, <1>7
  <2> QED BY <2>1, <2>2
<1>8. \A k \in r[Len(w)].recorded : b[k] = c[k]
  BY <1>4, <1>7
<1> DEFINE bad == {i \in 1 .. Len(w) : r[i] # q[i]}
<1>9. bad = {}
  <2> SUFFICES ASSUME bad # {} PROVE FALSE OBVIOUS
  <2>1. PICK i \in bad : \A m \in bad : i <= m
    <3>1. bad \in SUBSET Nat OBVIOUS
    <3> HIDE DEF bad
    <3> QED BY <3>1, LeastElement
  <2>2. i \in 1 .. Len(w) /\ r[i] # q[i] OBVIOUS
  <2>3. i # 1 BY <1>1, <1>2, <2>2 DEF Run
  <2>4. i \in 2 .. Len(w) /\ i - 1 \in 1 .. Len(w) /\ i - 1 \notin bad
    BY <2>1, <2>2, <2>3
  <2>5. r[i - 1] = q[i - 1] BY <2>4
  <2>6. /\ r[i] = Bundle!V!ReplayStep(Action, b, r[i - 1], w[i])
        /\ q[i] = Bundle!V!ReplayStep(Action, c, q[i - 1], w[i])
    BY <1>1, <1>2, <2>4 DEF Run
  <2>7. Bundle!V!ReplayStep(Action, b, r[i - 1], w[i])
          = Bundle!V!ReplayStep(Action, c, r[i - 1], w[i])
    BY <1>7, <2>4, SameSteps
  <2> QED BY <2>2, <2>5, <2>6, <2>7
<1>10. r[Len(w)] = q[Len(w)]
  <2>1. Len(w) \in 1 .. Len(w) BY <1>3
  <2> QED BY <1>9, <2>1
<1> QED BY <1>1, <1>2, <1>8, <1>10

\* A list of votes in the order of their keys is the list of its ballots.
LEMMA SlipsRead ==
  ASSUME NEW x, x.votes \in Seq(Slips),
         \A v \in Bundle!ToSet(x.votes) : v.of = "this" /\ v.sound,
         ~ \E i, n \in DOMAIN x.votes : i < n /\ x.votes[n].key <= x.votes[i].key
  PROVE  /\ x.votes = Bundle!VoteList(Bundle!Ballots(x))
         /\ Bundle!Ballots(x) \in Tables
<1> DEFINE s == x.votes
           n == Len(s)
           b == Bundle!Ballots(x)
           R == Bundle!Retained(b)
           keys == [i \in 1 .. n |-> s[i].key]
<1>1. /\ n \in Nat /\ DOMAIN s = 1 .. n
      /\ \A i \in 1 .. n : s[i] \in Slips /\ s[i] \in Bundle!ToSet(s)
  BY DEF Bundle!ToSet
<1>2. /\ Bundle!Keys \subseteq Int
      /\ None \notin {"approve", "reject"}
  BY EvidenceAssumption DEF Bundle!BundleAssumption
<1>3. \A i \in 1 .. n :
        /\ s[i].key \in Bundle!Keys /\ s[i].key \in Int
        /\ s[i].decision \in {"approve", "reject"}
  BY <1>1, <1>2 DEF Slips
<1>4. \A i \in 1 .. n :
        s[i] = [of |-> "this", key |-> s[i].key, decision |-> s[i].decision,
                sound |-> TRUE]
  <2> SUFFICES ASSUME NEW i \in 1 .. n
               PROVE  s[i] = [of |-> "this", key |-> s[i].key,
                              decision |-> s[i].decision, sound |-> TRUE]
    OBVIOUS
  <2> DEFINE v == s[i]
  <2>1. v \in Slips /\ v.of = "this" /\ v.sound BY <1>1
  <2> HIDE DEF v
  <2>2. v = [of |-> "this", key |-> v.key, decision |-> v.decision, sound |-> TRUE]
    BY <2>1 DEF Slips
  <2> QED BY <2>2 DEF v
<1>5. \A i, m \in 1 .. n : i < m => s[i].key < s[m].key
  BY <1>1, <1>3
<1>6. \A i, m \in 1 .. n : s[i].key = s[m].key => i = m
  <2> SUFFICES ASSUME NEW i \in 1 .. n, NEW m \in 1 .. n, s[i].key = s[m].key
               PROVE  i = m
    OBVIOUS
  <2>1. s[i].key \in Int /\ s[m].key \in Int BY <1>3
  <2>2. ~(i < m) /\ ~(m < i) BY <1>5, <2>1
  <2> QED BY <1>1, <2>2
<1>7. ASSUME NEW k \in Bundle!Keys
      PROVE  /\ (\A i \in 1 .. n : s[i].key # k) => b[k] = None
             /\ \A i \in 1 .. n : s[i].key = k => b[k] = s[i].decision
  <2> DEFINE at == {i \in DOMAIN s : s[i].key = k}
             last == CHOOSE i \in at : \A m \in at : m <= i
  <2>1. b[k] = IF at = {} THEN None ELSE s[last].decision
    BY DEF Bundle!Ballots
  <2>2. ASSUME NEW i \in 1 .. n, s[i].key = k
        PROVE  b[k] = s[i].decision
    <3>1. at = {i} BY <1>1, <1>6, <2>2
    <3>2. \A m \in at : m <= i BY <3>1
    <3>3. last = i BY <3>1, <3>2
    <3> QED BY <2>1, <3>1, <3>3
  <2>3. ASSUME \A i \in 1 .. n : s[i].key # k
        PROVE  b[k] = None
    BY <1>1, <2>1, <2>3
  <2> QED BY <2>2, <2>3
<1>8. b \in Tables
  <2>1. b = [k \in Bundle!Keys |-> b[k]] BY DEF Bundle!Ballots
  <2>2. \A k \in Bundle!Keys : b[k] \in {"approve", "reject", None}
    BY <1>3, <1>7
  <2> HIDE DEF b
  <2> QED BY <2>1, <2>2 DEF Tables
<1> HIDE DEF b
<1>9. R = {keys[i] : i \in 1 .. n}
  <2>1. \A k \in Bundle!Keys : b[k] # None <=> \E i \in 1 .. n : s[i].key = k
    BY <1>2, <1>3, <1>7
  <2> QED BY <1>3, <2>1 DEF Bundle!Retained
<1>10. Cardinality(R) = n /\ \A i \in 1 .. n : keys[i] = Bundle!Ranked(R, i)
  <2>1. \A i \in 1 .. n : keys[i] \in Int BY <1>3
  <2>2. \A i, m \in 1 .. n : i < m => keys[i] < keys[m] BY <1>5
  <2> HIDE DEF keys, R, n
  <2> QED BY <1>1, <1>9, <2>1, <2>2, AscendingIsRanked
<1>11. \A i \in 1 .. n : s[i] = [of |-> "this", key |-> Bundle!Ranked(R, i),
                                decision |-> b[Bundle!Ranked(R, i)], sound |-> TRUE]
  <2>1. \A i \in 1 .. n : s[i].key = Bundle!Ranked(R, i) BY <1>10
  <2>2. \A i \in 1 .. n : b[s[i].key] = s[i].decision BY <1>3, <1>7
  <2> QED BY <1>4, <2>1, <2>2
<1>12. Bundle!VoteList(b) =
         [i \in 1 .. n |-> [of |-> "this", key |-> Bundle!Ranked(R, i),
                            decision |-> b[Bundle!Ranked(R, i)], sound |-> TRUE]]
  BY <1>10, BundleCounts DEF Bundle!VoteList
<1>13. s = [i \in 1 .. n |-> s[i]]
  BY <1>1
<1> QED BY <1>8, <1>11, <1>12, <1>13 DEF b

LEMMA GenuineFollows ==
  ASSUME HistoryInv, ParcelInv, FaithfulInv, SlipsInv
  PROVE  AcceptedIsGenuine
<1> SUFFICES ASSUME bundle # None, NEW trust \in Trusts,
                    Bundle!Integrity(bundle, trust) = "valid"
             PROVE  \E j \in history :
                      /\ bundle.events = j.stream
                      /\ bundle.votes = Bundle!VoteList(j.votes)
                      /\ Bundle!V!AttestedState(Action, Bundle!Ballots(bundle),
                                                Bundle!Datas(bundle)) = j.state
  BY DEF AcceptedIsGenuine, Bundle!AcceptedIsGenuine
<1>1. PICK j \in history : bundle.events = j.stream
  BY AcceptedFollows DEF AcceptedEvents
<1> DEFINE w == Written(j.stream)
           b == Bundle!Ballots(bundle)
           v == j.votes
<1>2. Faithful(j) /\ Leads(w, v, Standing(j.state, v)) /\ v \in Tables
  BY DEF FaithfulInv, Faithful, Leads
<1>3. /\ w \in Seq(EventData) /\ w # <<>>
      /\ Bundle!V!Reduce(Action, v, w) = Standing(j.state, v)
      /\ j.state # Bundle!V!Illegal
  BY <1>2 DEF Leads, Faithful, IssuedStates, Bundle!V!Illegal
<1>4. Bundle!Datas(bundle) = w
  <2>1. bundle.events \in Seq(Entries)
    BY <1>1 DEF HistoryInv, JournalOK, StreamOK
  <2> QED BY <1>1, <2>1, DatasWritten
<1>5. /\ Bundle!Binding(bundle) = "ok" /\ Bundle!Signatures(bundle, trust) = "ok"
      /\ Bundle!Replay(bundle) = "ok"
  BY ValidMeans
<1>6. \A x \in Bundle!ToSet(bundle.votes) : x.of = "this" /\ x.sound
  <2>1. \A x \in Bundle!ToSet(bundle.votes) : x.of = "this"
    BY <1>5 DEF Bundle!Binding
  <2>2. \A x \in Bundle!ToSet(bundle.votes) : x.sound
    BY <1>5 DEF Bundle!Signatures
  <2> QED BY <2>1, <2>2
<1>7. bundle.votes = Bundle!VoteList(b) /\ b \in Tables
  <2>1. bundle.votes \in Seq(Slips) BY DEF SlipsInv
  <2> QED BY <1>5, <1>6, <2>1, ReplayMeans, SlipsRead
<1> HIDE DEF w, b
<1>8. /\ \A i \in DOMAIN w :
           Bundle!V!Reduce(Action, b, SubSeq(w, 1, i)).state # Bundle!V!Illegal
      /\ Bundle!V!Reduce(Action, b, SubSeq(w, 1, Len(w))).recorded = Bundle!Retained(b)
  BY <1>4, <1>5, ReplayMeans DEF b
<1>9. SubSeq(w, 1, Len(w)) = w /\ Len(w) \in DOMAIN w
  BY <1>3
<1>10. /\ Bundle!V!Reduce(Action, b, w).state # Bundle!V!Illegal
       /\ Bundle!V!Reduce(Action, b, w).recorded = Bundle!Retained(b)
  BY <1>8, <1>9
<1>11. /\ Standing(j.state, v).state = j.state
       /\ Standing(j.state, v).recorded = Bundle!Retained(v)
  BY DEF Standing
<1>12. /\ Bundle!V!Reduce(Action, b, w) = Standing(j.state, v)
       /\ \A k \in Bundle!Retained(b) : b[k] = v[k]
  <2>1. Bundle!V!Reduce(Action, v, w).state # Bundle!V!Illegal BY <1>3, <1>11
  <2>2. /\ Bundle!V!Reduce(Action, b, w) = Bundle!V!Reduce(Action, v, w)
        /\ \A k \in Bundle!V!Reduce(Action, b, w).recorded : b[k] = v[k]
    BY <1>3, <1>10, <2>1, SameVotes
  <2> QED BY <1>3, <1>10, <2>2
<1>13. Bundle!Retained(b) = Bundle!Retained(v)
  BY <1>10, <1>11, <1>12
<1>14. b = v
  <2>1. \A k \in Bundle!Keys : b[k] = v[k]
    BY <1>12, <1>13 DEF Bundle!Retained
  <2> HIDE DEF v
  <2> QED BY <1>2, <1>7, <2>1 DEF Tables
<1>15. Bundle!V!AttestedState(Action, b, w) = j.state
  BY <1>11, <1>12 DEF Bundle!V!AttestedState
<1>16. Bundle!V!AttestedState(Action, Bundle!Ballots(bundle), Bundle!Datas(bundle))
         = j.state
  BY <1>4, <1>15 DEF b
<1> QED BY <1>1, <1>7, <1>14, <1>16

\* Whatever was lost, mixed up, altered or added on the way, and however often
\* the journal was restored: a proof that any of the verifier's trust documents
\* accepts has the events, the votes and the state of one life of the journal.
THEOREM AcceptedProofsAreGenuine == Bundle!Spec => []AcceptedIsGenuine
<1>1. Bundle!Init =>
        HistoryInv /\ ParcelInv /\ FaithfulInv /\ ExportedInv /\ SlipsInv
  BY HistoryInit, FaithfulInit DEF Bundle!Init, ParcelInv, ExportedInv, SlipsInv
<1>2. HistoryInv /\ ParcelInv /\ FaithfulInv /\ ExportedInv /\ SlipsInv
        /\ [Bundle!Next]_(Bundle!vars)
      => (HistoryInv /\ ParcelInv /\ FaithfulInv /\ ExportedInv /\ SlipsInv)'
  BY HistoryStep, ParcelStep, FaithfulStep, ExportedStep, SlipsStep
<1>3. HistoryInv /\ ParcelInv /\ FaithfulInv /\ SlipsInv => AcceptedIsGenuine
  BY GenuineFollows
<1> QED BY <1>1, <1>2, <1>3, PTL DEF Bundle!Spec

-----------------------------------------------------------------------------
(* A proof from which pieces are missing, and nothing else is wrong.       *)

\* What is left of the proof of life j after d losses: some of its events, some
\* of its votes in their order, and the checkpoint of its head.
EventsLeft(es, s) ==
  /\ es \in Seq(Entries) /\ Len(es) <= Len(s)
  /\ \A i \in 1 .. Len(es) : es[i].seq \in 1 .. Len(s) /\ es[i] = s[es[i].seq]

VotesLeft(vs, list) ==
  /\ vs \in Seq(Slips) /\ Len(vs) <= Len(list)
  /\ \A i \in 1 .. Len(vs) : \E n \in 1 .. Len(list) : vs[i] = list[n]
  /\ \A i, n \in 1 .. Len(vs) : i < n => vs[i].key < vs[n].key

Left(x, j, d) ==
  /\ x.checkpoint \in j.checkpoints /\ x.checkpoint.seq = Len(j.stream)
  /\ EventsLeft(x.events, j.stream)
  /\ VotesLeft(x.votes, Bundle!VoteList(j.votes))
  /\ d > 0 => \/ Len(x.events) < Len(j.stream)
              \/ Len(x.votes) < Len(Bundle!VoteList(j.votes))

LossInv ==
  /\ damage \in Nat
  /\ bundle # None /\ lossy => \E j \in history : Left(bundle, j, damage)

LEMMA Removed ==
  ASSUME NEW S, NEW s \in Seq(S), NEW i \in 1 .. Len(s)
  PROVE  /\ Bundle!RemoveAt(s, i) \in Seq(S)
         /\ Len(Bundle!RemoveAt(s, i)) = Len(s) - 1
         /\ \A k \in 1 .. Len(s) - 1 :
              Bundle!RemoveAt(s, i)[k] = IF k < i THEN s[k] ELSE s[k + 1]
<1> DEFINE a == SubSeq(s, 1, i - 1)
           b == SubSeq(s, i + 1, Len(s))
<1>1. /\ a \in Seq(S) /\ Len(a) = i - 1 /\ \A k \in 1 .. i - 1 : a[k] = s[k]
  OBVIOUS
<1>2. /\ b \in Seq(S) /\ Len(b) = Len(s) - i
      /\ \A k \in 1 .. Len(s) - i : b[k] = s[i + k]
  OBVIOUS
<1>3. Bundle!RemoveAt(s, i) = a \o b BY DEF Bundle!RemoveAt
<1> HIDE DEF a, b
<1>4. /\ a \o b \in Seq(S) /\ Len(a \o b) = Len(a) + Len(b)
      /\ \A k \in 1 .. Len(a) + Len(b) :
           (a \o b)[k] = IF k <= Len(a) THEN a[k] ELSE b[k - Len(a)]
  <2>1. a \in Seq(S) /\ b \in Seq(S) BY <1>1, <1>2
  <2> QED BY ONLY <2>1
<1>5. Len(a) + Len(b) = Len(s) - 1 BY <1>1, <1>2
<1>6. ASSUME NEW k \in 1 .. Len(s) - 1
      PROVE  (a \o b)[k] = IF k < i THEN s[k] ELSE s[k + 1]
  <2>1. CASE k < i
    BY <1>1, <1>4, <1>5, <2>1
  <2>2. CASE ~(k < i)
    <3>1. k - (i - 1) \in 1 .. Len(s) - i /\ ~(k <= Len(a))
      BY <1>1, <2>2
    <3>2. (a \o b)[k] = b[k - (i - 1)] BY <1>1, <1>4, <1>5, <3>1
    <3>3. b[k - (i - 1)] = s[i + (k - (i - 1))] BY <1>2, <3>1
    <3>4. i + (k - (i - 1)) = k + 1 OBVIOUS
    <3> QED BY <2>2, <3>2, <3>3, <3>4
  <2> QED BY <2>1, <2>2
<1> QED BY <1>3, <1>4, <1>5, <1>6

LEMMA ExportLeft ==
  ASSUME HistoryInv, FaithfulInv, NEW j \in history, NEW x, Complete(x, j)
  PROVE  Left(x, j, 0)
<1> DEFINE v == j.votes
           s == Bundle!VoteList(v)
           R == Bundle!Retained(v)
           n == Cardinality(R)
<1>1. v \in Tables BY DEF FaithfulInv, Faithful, Leads
<1>2. s \in Seq(Slips) BY <1>1, ExportSlips
<1>3. /\ n \in Nat /\ DOMAIN s = 1 .. n
      /\ \A i \in 1 .. n : s[i].key = Bundle!Ranked(R, i)
  <2>1. /\ n \in Nat /\ DOMAIN s = 1 .. n
        /\ \A i \in 1 .. n :
             s[i] = [of |-> "this", key |-> Bundle!Ranked(R, i),
                     decision |-> v[Bundle!Ranked(R, i)], sound |-> TRUE]
    BY <1>1, VoteListIs
  <2> HIDE DEF s, R
  <2> QED BY <2>1
<1>4. R \in SUBSET Int /\ IsFiniteSet(R) BY RetainedKeys
<1>5. \A i, m \in 1 .. n : i < m => s[i].key < s[m].key
  BY <1>3, <1>4, RankedIs, RankBounds
<1>6. /\ x.events = j.stream /\ StreamOK(j.stream, minted) /\ x.votes = s
      /\ x.checkpoint \in j.checkpoints /\ x.checkpoint.seq = Len(j.stream)
  BY DEF Complete, HistoryInv, JournalOK
<1>7. \A i \in 1 .. Len(j.stream) : j.stream[i].seq = i
  BY <1>6 DEF StreamOK, InPlace
<1>8. Len(s) = n BY <1>2, <1>3
<1> HIDE DEF s, R, n
<1>9. j.stream \in Seq(Entries) BY <1>6 DEF StreamOK
<1>10. EventsLeft(j.stream, j.stream) BY <1>7, <1>9 DEF EventsLeft
<1>11. VotesLeft(s, s) BY <1>2, <1>5, <1>8 DEF VotesLeft
<1> QED BY <1>6, <1>10, <1>11 DEF Left, s

LEMMA LoseEventLeft ==
  ASSUME ParcelOK(bundle), NEW j, NEW d \in Nat, Left(bundle, j, d), Len(j.stream) \in Nat,
         NEW i \in DOMAIN bundle.events, Bundle!LoseEvent(i)
  PROVE  Left(bundle', j, d + 1)
<1> DEFINE es == bundle.events
           fs == Bundle!RemoveAt(es, i)
<1>1. es \in Seq(Entries) /\ i \in 1 .. Len(es) BY DEF Left, EventsLeft
<1>2. /\ fs \in Seq(Entries) /\ Len(fs) = Len(es) - 1
      /\ \A k \in 1 .. Len(es) - 1 : fs[k] = IF k < i THEN es[k] ELSE es[k + 1]
  BY <1>1, Removed
<1>3. \A k \in 1 .. Len(fs) : \E m \in 1 .. Len(es) : fs[k] = es[m]
  <2> SUFFICES ASSUME NEW k \in 1 .. Len(fs)
               PROVE  \E m \in 1 .. Len(es) : fs[k] = es[m]
    OBVIOUS
  <2>1. k \in 1 .. Len(es) - 1 /\ k \in 1 .. Len(es) /\ k + 1 \in 1 .. Len(es)
    BY <1>1, <1>2
  <2> HIDE DEF fs
  <2> QED BY <1>2, <2>1
<1>4. /\ bundle'.events = fs /\ bundle'.votes = bundle.votes
      /\ bundle'.checkpoint = bundle.checkpoint
  <2>1. bundle' = [bundle EXCEPT !.events = fs]
    BY DEF Bundle!LoseEvent, Bundle!Becomes
  <2> HIDE DEF fs
  <2> QED BY <2>1 DEF ParcelOK
<1>5. Len(fs) < Len(j.stream) /\ Len(fs) <= Len(j.stream)
  BY <1>1, <1>2 DEF Left, EventsLeft
<1> HIDE DEF fs, es
<1>6. \A k \in 1 .. Len(fs) :
        fs[k].seq \in 1 .. Len(j.stream) /\ fs[k] = j.stream[fs[k].seq]
  BY <1>3 DEF Left, EventsLeft, es
<1>7. EventsLeft(fs, j.stream) BY <1>2, <1>5, <1>6 DEF EventsLeft
<1> QED BY <1>4, <1>5, <1>7 DEF Left

LEMMA LoseTailLeft ==
  ASSUME ParcelOK(bundle), NEW j, NEW d \in Nat, Left(bundle, j, d), Len(j.stream) \in Nat,
         NEW i \in DOMAIN bundle.events, Bundle!LoseTail(i)
  PROVE  Left(bundle', j, d + 1)
<1> DEFINE es == bundle.events
           fs == SubSeq(es, 1, i - 1)
<1>1. es \in Seq(Entries) /\ i \in 1 .. Len(es) BY DEF Left, EventsLeft
<1>2. /\ fs \in Seq(Entries) /\ Len(fs) = i - 1
      /\ \A k \in 1 .. i - 1 : fs[k] = es[k] /\ k \in 1 .. Len(es)
  BY <1>1
<1>4. /\ bundle'.events = fs /\ bundle'.votes = bundle.votes
      /\ bundle'.checkpoint = bundle.checkpoint
  <2>1. bundle' = [bundle EXCEPT !.events = fs]
    BY DEF Bundle!LoseTail, Bundle!Becomes
  <2> HIDE DEF fs
  <2> QED BY <2>1 DEF ParcelOK
<1>5. Len(fs) < Len(j.stream) /\ Len(fs) <= Len(j.stream)
  BY <1>1, <1>2 DEF Left, EventsLeft
<1> HIDE DEF fs, es
<1>6. \A k \in 1 .. Len(fs) :
        fs[k].seq \in 1 .. Len(j.stream) /\ fs[k] = j.stream[fs[k].seq]
  BY <1>2 DEF Left, EventsLeft, es
<1>7. EventsLeft(fs, j.stream) BY <1>2, <1>5, <1>6 DEF EventsLeft
<1> QED BY <1>4, <1>5, <1>7 DEF Left

LEMMA LoseVoteLeft ==
  ASSUME ParcelOK(bundle), NEW j, NEW d \in Nat, Left(bundle, j, d),
         Bundle!VoteList(j.votes) \in Seq(Slips),
         NEW i \in DOMAIN bundle.votes, Bundle!LoseVote(i)
  PROVE  Left(bundle', j, d + 1)
<1> DEFINE vs == bundle.votes
           ws == Bundle!RemoveAt(vs, i)
           list == Bundle!VoteList(j.votes)
<1>1. vs \in Seq(Slips) /\ i \in 1 .. Len(vs) BY DEF Left, VotesLeft
<1>2. /\ ws \in Seq(Slips) /\ Len(ws) = Len(vs) - 1
      /\ \A k \in 1 .. Len(vs) - 1 : ws[k] = IF k < i THEN vs[k] ELSE vs[k + 1]
  BY <1>1, Removed
<1>3. \A k \in 1 .. Len(ws) :
        \/ k < i /\ k \in 1 .. Len(vs) /\ ws[k] = vs[k]
        \/ k >= i /\ k + 1 \in 1 .. Len(vs) /\ ws[k] = vs[k + 1]
  <2> SUFFICES ASSUME NEW k \in 1 .. Len(ws)
               PROVE  \/ k < i /\ k \in 1 .. Len(vs) /\ ws[k] = vs[k]
                      \/ k >= i /\ k + 1 \in 1 .. Len(vs) /\ ws[k] = vs[k + 1]
    OBVIOUS
  <2>1. k \in 1 .. Len(vs) - 1 BY <1>1, <1>2
  <2>2. ws[k] = IF k < i THEN vs[k] ELSE vs[k + 1] BY <1>2, <2>1
  <2>3. k \in 1 .. Len(vs) /\ k + 1 \in 1 .. Len(vs) BY <1>1, <2>1
  <2> HIDE DEF ws, vs
  <2>4. CASE k < i BY <2>2, <2>3, <2>4
  <2>5. CASE ~(k < i)
    <3>1. k >= i BY <1>1, <2>1, <2>5
    <3> QED BY <2>2, <2>3, <2>5, <3>1
  <2> QED BY <2>4, <2>5
<1>4. /\ bundle'.votes = ws /\ bundle'.events = bundle.events
      /\ bundle'.checkpoint = bundle.checkpoint
  <2>1. bundle' = [bundle EXCEPT !.votes = ws]
    BY DEF Bundle!LoseVote, Bundle!Becomes
  <2> HIDE DEF ws
  <2> QED BY <2>1 DEF ParcelOK
<1>5. Len(list) \in Nat /\ Len(vs) <= Len(list) BY DEF Left, VotesLeft
<1>6. Len(ws) < Len(list) /\ Len(ws) <= Len(list) BY <1>1, <1>2, <1>5
<1>7. /\ \A n \in 1 .. Len(vs) : \E m \in 1 .. Len(list) : vs[n] = list[m]
      /\ \A n, m \in 1 .. Len(vs) : n < m => vs[n].key < vs[m].key
  BY DEF Left, VotesLeft
<1> HIDE DEF ws, vs, list
<1>8. \A k \in 1 .. Len(ws) : \E m \in 1 .. Len(list) : ws[k] = list[m]
  BY <1>3, <1>7
<1>9. \A k, m \in 1 .. Len(ws) : k < m => ws[k].key < ws[m].key
  <2> SUFFICES ASSUME NEW k \in 1 .. Len(ws), NEW m \in 1 .. Len(ws), k < m
               PROVE  ws[k].key < ws[m].key
    OBVIOUS
  <2>1. PICK n \in 1 .. Len(vs) : ws[k] = vs[n] /\ (n = k \/ (k >= i /\ n = k + 1))
    BY <1>3
  <2>2. PICK p \in 1 .. Len(vs) : ws[m] = vs[p] /\ ((m < i /\ p = m) \/ p = m + 1)
    BY <1>3
  <2>3. n < p BY <1>1, <2>1, <2>2
  <2> QED BY <1>7, <2>1, <2>2, <2>3
<1>10. VotesLeft(ws, list) BY <1>2, <1>6, <1>8, <1>9 DEF VotesLeft
<1> QED BY <1>4, <1>6, <1>10 DEF Left, list

LEMMA LossIssue ==
  ASSUME LossInv, Bundle!Issue
  PROVE  LossInv'
<1>1. ASSUME NEW k, NEW d, Bundle!Submit(k, d)
      PROVE  UNCHANGED <<bundle, damage, lossy>> /\ history \subseteq history'
  BY <1>1 DEF Bundle!Submit, Bundle!Write
<1>2. ASSUME NEW from, NEW data, NEW to, Bundle!Step(from, data, to)
      PROVE  UNCHANGED <<bundle, damage, lossy>> /\ history \subseteq history'
  BY <1>2 DEF Bundle!Step, Bundle!Write
<1>3. ASSUME NEW j, NEW key, Bundle!Restart(j, key)
      PROVE  UNCHANGED <<bundle, damage, lossy>> /\ history \subseteq history'
  BY <1>3 DEF Bundle!Restart, Bundle!Write
<1>4. Bundle!Backup \/ Bundle!Export
        => UNCHANGED <<bundle, damage, lossy>> /\ history \subseteq history'
  BY DEF Bundle!Backup, Bundle!Export
<1>5. UNCHANGED <<bundle, damage, lossy>> /\ history \subseteq history'
  BY <1>1, <1>2, <1>3, <1>4
     DEF Bundle!Issue, Bundle!Commit, Bundle!Cancel, Bundle!Report
<1> QED BY <1>5 DEF LossInv

LEMMA LossTaken ==
  ASSUME HistoryInv, FaithfulInv, ExportedInv, LossInv, NEW x \in exports, Bundle!Take(x)
  PROVE  LossInv'
<1>1. damage = 0 /\ bundle' = x /\ UNCHANGED <<damage, lossy, history>>
  BY DEF Bundle!Take, Bundle!issuer
<1>3. PICK j \in history : Complete(x, j) BY DEF ExportedInv
<1>4. Left(x, j, 0) BY <1>3, ExportLeft
<1>5. \E k \in history : Left(x, k, 0) BY <1>4
<1> QED BY <1>1, <1>5 DEF LossInv

LEMMA LossStays ==
  ASSUME LossInv, NEW x, NEW loss \in BOOLEAN, Bundle!Becomes(x, loss),
         lossy /\ loss =>
           \A j \in history : Left(bundle, j, damage) => Left(bundle', j, damage + 1)
  PROVE  LossInv'
<1>1. /\ bundle # None /\ damage' = damage + 1 /\ lossy' = (lossy /\ loss)
      /\ history' = history /\ bundle' = x
  BY DEF Bundle!Becomes, Bundle!issuer
<1>2. damage' \in Nat BY <1>1 DEF LossInv
<1> QED BY <1>1, <1>2 DEF LossInv

LEMMA LossLost ==
  ASSUME HistoryInv, ParcelInv, FaithfulInv, LossInv, bundle # None
  PROVE  /\ \A i \in DOMAIN bundle.events :
              Bundle!LoseEvent(i) \/ Bundle!LoseTail(i) => LossInv'
         /\ \A i \in DOMAIN bundle.votes : Bundle!LoseVote(i) => LossInv'
<1>1. ParcelOK(bundle) BY DEF ParcelInv
<1>2. damage \in Nat BY DEF LossInv
<1>3. ASSUME NEW j \in history
      PROVE  Len(j.stream) \in Nat /\ Bundle!VoteList(j.votes) \in Seq(Slips)
  <2>1. j.stream \in Seq(Entries) BY DEF HistoryInv, JournalOK, StreamOK
  <2>2. j.votes \in Tables BY DEF FaithfulInv, Faithful, Leads
  <2> QED BY <2>1, <2>2, ExportSlips
<1>4. ASSUME NEW i \in DOMAIN bundle.events,
             Bundle!LoseEvent(i) \/ Bundle!LoseTail(i)
      PROVE  LossInv'
  <2>1. \A j \in history : Left(bundle, j, damage) => Left(bundle', j, damage + 1)
    BY <1>1, <1>2, <1>3, <1>4, LoseEventLeft, LoseTailLeft
  <2>2. ASSUME NEW x, Bundle!Becomes(x, TRUE) PROVE LossInv'
    BY <2>1, <2>2, LossStays
  <2> QED BY <1>4, <2>2 DEF Bundle!LoseEvent, Bundle!LoseTail
<1>5. ASSUME NEW i \in DOMAIN bundle.votes, Bundle!LoseVote(i)
      PROVE  LossInv'
  <2>1. \A j \in history : Left(bundle, j, damage) => Left(bundle', j, damage + 1)
    BY <1>1, <1>2, <1>3, <1>5, LoseVoteLeft
  <2>2. ASSUME NEW x, Bundle!Becomes(x, TRUE) PROVE LossInv'
    BY <2>1, <2>2, LossStays
  <2> QED BY <1>5, <2>2 DEF Bundle!LoseVote
<1> QED BY <1>4, <1>5

LEMMA LossStep ==
  ASSUME HistoryInv, ParcelInv, FaithfulInv, ExportedInv, LossInv,
         [Bundle!Next]_(Bundle!vars)
  PROVE  LossInv'
<1>1. ASSUME NEW x, Bundle!Becomes(x, FALSE)
      PROVE  LossInv'
  BY <1>1, LossStays
<1>2. CASE bundle # None /\ Bundle!Transport
  <2>1. CASE Bundle!SpoilCheckpoint
    BY <1>1, <2>1 DEF Bundle!SpoilCheckpoint
  <2>2. ASSUME NEW i \in DOMAIN bundle.events, NEW e,
               \/ Bundle!LoseEvent(i) \/ Bundle!LoseTail(i)
               \/ Bundle!SpoilEvent(i) \/ Bundle!SpoilHash(i)
               \/ Bundle!SwapEvents(i) \/ Bundle!MixEvent(i, e)
        PROVE  LossInv'
    BY <1>1, <1>2, <2>2, LossLost
       DEF Bundle!SpoilEvent, Bundle!SpoilHash, Bundle!SwapEvents, Bundle!MixEvent
  <2>3. ASSUME NEW e, Bundle!MixTail(e) \/ Bundle!MixCheckpoint(e) \/ Bundle!MixVotes(e)
        PROVE  LossInv'
    BY <1>1, <2>3 DEF Bundle!MixTail, Bundle!MixCheckpoint, Bundle!MixVotes
  <2>4. ASSUME NEW i \in DOMAIN bundle.votes, NEW v,
               \/ Bundle!LoseVote(i) \/ Bundle!SpoilVote(i)
               \/ Bundle!SwapVotes(i) \/ Bundle!MixVote(i, v)
        PROVE  LossInv'
    BY <1>1, <1>2, <2>4, LossLost
       DEF Bundle!SpoilVote, Bundle!SwapVotes, Bundle!MixVote
  <2> QED BY <1>2, <2>1, <2>2, <2>3, <2>4 DEF Bundle!Transport
<1>3. CASE UNCHANGED Bundle!vars
  BY <1>3 DEF Bundle!vars, LossInv
<1> QED BY <1>2, <1>3, LossIssue, LossTaken DEF Bundle!Next

\* A trust document that covers every event the issuer has signed.
Covers(trust) ==
  \A e \in Bundle!Signed : \E k \in trust : k.key = e.key /\ Bundle!InInterval(k, e.seq)

LEMMA LeftPieces ==
  ASSUME HistoryInv, FaithfulInv, NEW j \in history, NEW x, NEW d, Left(x, j, d)
  PROVE  /\ x.events \in Seq(Entries)
         /\ \A e \in Bundle!ToSet(x.events) :
              e.of = "this" /\ e.sound /\ e.key \in AuditKeys /\ e \in Bundle!Signed
         /\ \A v \in Bundle!ToSet(x.votes) :
              v.of = "this" /\ v.key \in Bundle!Keys /\ v.sound
         /\ x.checkpoint.of = "this" /\ x.checkpoint.epoch = Action.epoch
         /\ x.checkpoint.sound /\ x.checkpoint.key \in AuditKeys
<1> DEFINE list == Bundle!VoteList(j.votes)
           y == [events |-> j.stream, votes |-> list, checkpoint |-> x.checkpoint]
<1>1. Complete(y, j) BY DEF Complete, Left
<1>2. /\ y.events = j.stream /\ y.votes = list /\ y.checkpoint = x.checkpoint
  OBVIOUS
<1> HIDE DEF y, list
<1>3. /\ \A v \in Bundle!ToSet(list) : v.of = "this" /\ v.key \in Bundle!Keys /\ v.sound
      /\ x.checkpoint.of = "this" /\ x.checkpoint.epoch = Action.epoch
      /\ x.checkpoint.sound /\ x.checkpoint.key \in AuditKeys
  BY <1>1, <1>2, PiecesOf
<1>4. /\ x.events \in Seq(Entries)
      /\ \A i \in 1 .. Len(x.events) : \E n \in 1 .. Len(j.stream) : x.events[i] = j.stream[n]
  BY DEF Left, EventsLeft
<1>5. ASSUME NEW e \in Bundle!ToSet(x.events)
      PROVE  e.of = "this" /\ e.sound /\ e.key \in AuditKeys /\ e \in Bundle!Signed
  <2>1. PICK i \in 1 .. Len(x.events) : e = x.events[i]
    BY <1>4 DEF Bundle!ToSet
  <2>2. e \in Entries BY <1>4, <2>1
  <2>3. PICK n \in 1 .. Len(j.stream) : e = j.stream[n] BY <1>4, <2>1
  <2>4. j.stream \in Seq(Entries) BY DEF HistoryInv, JournalOK, StreamOK
  <2>5. e \in Bundle!ToSet(j.stream) BY <2>3, <2>4 DEF Bundle!ToSet
  <2>6. e \in Bundle!Signed BY <2>5 DEF Bundle!Signed
  <2> QED BY <2>2, <2>6 DEF Entries
<1>6. \A v \in Bundle!ToSet(x.votes) : v \in Bundle!ToSet(list)
  <2>1. /\ x.votes \in Seq(Slips)
        /\ \A i \in 1 .. Len(x.votes) : \E n \in 1 .. Len(list) : x.votes[i] = list[n]
    BY DEF Left, VotesLeft, list
  <2>2. list \in Seq(Slips)
    BY ExportSlips DEF FaithfulInv, Faithful, Leads, list
  <2> QED BY <2>1, <2>2 DEF Bundle!ToSet
<1> QED BY <1>3, <1>4, <1>5, <1>6

LEMMA LeftSigned ==
  ASSUME HistoryInv, FaithfulInv, NEW j \in history, NEW x, NEW d, Left(x, j, d),
         Bundle!OneKey(x), NEW trust \in Trusts, Covers(trust)
  PROVE  /\ Bundle!Binding(x) = "ok" /\ trust # {}
         /\ Bundle!Signatures(x, trust) =
              IF x.events = <<>> THEN "MISSING_EVIDENCE" ELSE "ok"
<1> DEFINE es == Bundle!ToSet(x.events)
           vs == Bundle!ToSet(x.votes)
           ids == {e.key : e \in es}
<1>1. /\ x.events \in Seq(Entries)
      /\ \A e \in es : e.of = "this" /\ e.sound /\ e.key \in AuditKeys /\ e \in Bundle!Signed
      /\ \A v \in vs : v.of = "this" /\ v.key \in Bundle!Keys /\ v.sound
      /\ x.checkpoint.of = "this" /\ x.checkpoint.epoch = Action.epoch
      /\ x.checkpoint.sound /\ x.checkpoint.key \in AuditKeys
  BY LeftPieces
<1>2. Bundle!Binding(x) = "ok"
  BY <1>1 DEF Bundle!Binding
<1>3. trust # {}
  <2>1. j.stream \in Seq(Entries) /\ j.stream # <<>>
    BY DEF HistoryInv, JournalOK, StreamOK
  <2>2. j.stream[1] \in Bundle!ToSet(j.stream) BY <2>1 DEF Bundle!ToSet
  <2>3. j.stream[1] \in Bundle!Signed BY <2>2 DEF Bundle!Signed
  <2> QED BY <2>3 DEF Covers
<1>4. x.events # <<>> => x.events[1] \in es
  BY <1>1 DEF Bundle!ToSet
<1> HIDE DEF es, vs
<1>5. ASSUME x.events # <<>>
      PROVE  /\ Bundle!Cardinality(ids) = 1 /\ \E k \in trust : ids = {k.key}
             /\ x.checkpoint.key \in ids
  <2>1. PICK e \in es : TRUE BY <1>4, <1>5
  <2>2. ids = {e.key} /\ x.checkpoint.key = e.key BY <2>1 DEF Bundle!OneKey, es
  <2>3. PICK k \in trust : k.key = e.key BY <1>1 DEF Covers
  <2> QED BY <1>1, <2>2, <2>3, BundleCounts, FS_Singleton
<1>6. ASSUME NEW e \in es, NEW k \in trust, k.key = e.key
      PROVE  Bundle!InInterval(k, e.seq)
  <2>1. PICK l \in trust : l.key = e.key /\ Bundle!InInterval(l, e.seq)
    BY <1>1 DEF Covers
  <2>2. k = l BY <1>6, <2>1, EvidenceAssumption DEF Bundle!BundleAssumption
  <2> QED BY <2>1, <2>2
<1> HIDE DEF ids
<1>7. Bundle!Signatures(x, trust) =
         IF \E v \in vs : v.key \notin Bundle!Keys THEN "KEY_NOT_ENROLLED"
         ELSE IF \E v \in vs : ~v.sound THEN "BAD_SIGNATURE"
         ELSE IF x.events = <<>> THEN "MISSING_EVIDENCE"
         ELSE IF Bundle!Cardinality(ids) # 1 \/ ~\E k \in trust : ids = {k.key}
           THEN "UNTRUSTED"
         ELSE IF \E e \in es, k \in trust :
                   k.key = e.key /\ ~Bundle!InInterval(k, e.seq) THEN "UNTRUSTED"
         ELSE IF \E e \in es : ~e.sound THEN "BAD_SIGNATURE"
         ELSE IF x.checkpoint.key \notin ids THEN "UNTRUSTED"
         ELSE IF ~x.checkpoint.sound THEN "BAD_SIGNATURE"
         ELSE "ok"
  BY DEF Bundle!Signatures, es, vs, ids
<1> QED BY <1>1, <1>2, <1>3, <1>5, <1>6, <1>7

\* The events left are the beginning of the stream, or the first gap shows.
LEMMA LeftChained ==
  ASSUME HistoryInv, NEW j \in history, NEW x, NEW d, Left(x, j, d), x.events # <<>>
  PROVE  \/ Bundle!Chain(x) \in {"MISSING_EVIDENCE", "CHECKPOINT_MISMATCH"}
         \/ Bundle!Chain(x) = "ok" /\ x.events = j.stream
<1> DEFINE es == x.events
           s == j.stream
           breaks == {i \in DOMAIN es : Bundle!ChainBreak(x, i)}
           gaps == {i \in DOMAIN es : es[i].seq # i}
           first == CHOOSE n \in breaks : \A m \in breaks : n <= m
<1>1. /\ es \in Seq(Entries) /\ Len(es) <= Len(s) /\ Len(es) \in Nat \ {0}
      /\ DOMAIN es = 1 .. Len(es)
      /\ \A i \in 1 .. Len(es) : es[i].seq \in 1 .. Len(s) /\ es[i] = s[es[i].seq]
  BY DEF Left, EventsLeft
<1>2. StreamOK(s, minted) /\ s \in Seq(Entries) /\ Len(s) \in Nat
  BY DEF HistoryInv, JournalOK, StreamOK
<1>3. ASSUME NEW i \in DOMAIN es, \A m \in 1 .. i : es[m].seq = m
      PROVE  i \notin breaks
  <2>1. i \in 1 .. Len(es) /\ \A m \in 1 .. i : m \in 1 .. Len(es) BY <1>1
  <2>2. \A m \in 1 .. i : es[m] = s[m] /\ m \in 1 .. Len(s) BY <1>1, <1>3, <2>1
  <2>3. InPlace(s, i) /\ i \in 1 .. i BY <1>2, <2>1, <2>2 DEF StreamOK
  <2>4. i # 1 => i - 1 \in 1 .. i BY <2>1
  <2>5. es[i].hash = es[i].receipt /\ Bundle!Linked(es, i)
    BY <2>2, <2>3, <2>4 DEF InPlace, Bundle!Linked
  <2>6. \A n \in 1 .. i - 1 : es[n].receipt # es[i].receipt
    <3> SUFFICES ASSUME NEW n \in 1 .. i - 1 PROVE es[n].receipt # es[i].receipt
      OBVIOUS
    <3>1. n \in 1 .. i /\ n < i BY <2>1
    <3>2. /\ s[n].receipt < s[i].receipt
          /\ s[n].receipt \in Int /\ s[i].receipt \in Int
      BY <1>2, <2>2, <2>3, <3>1 DEF StreamOK
    <3> QED BY <2>2, <2>3, <3>1, <3>2
  <2> QED BY <1>3, <2>3, <2>5, <2>6 DEF Bundle!ChainBreak
<1>4. gaps \subseteq breaks BY DEF Bundle!ChainBreak
<1>5. Bundle!Chain(x) =
        IF breaks = {} THEN IF Bundle!AtHead(x) THEN "ok" ELSE "CHECKPOINT_MISMATCH"
        ELSE IF es[first].seq # first THEN "MISSING_EVIDENCE" ELSE "CHAIN_BREAK"
  BY DEF Bundle!Chain
<1>6. ASSUME breaks # {} PROVE first \in breaks /\ \A m \in breaks : first <= m
  <2>1. breaks \in SUBSET Nat BY <1>1
  <2> HIDE DEF breaks
  <2>2. \E n \in breaks : \A m \in breaks : n <= m BY <1>6, <2>1, LeastElement
  <2> QED BY <2>2
<1>7. ASSUME breaks # {} PROVE es[first].seq # first
  <2> SUFFICES ASSUME es[first].seq = first PROVE FALSE OBVIOUS
  <2> DEFINE f == first
  <2>1. f \in breaks /\ f \in DOMAIN es /\ f \in 1 .. Len(es) /\ \A m \in breaks : f <= m
    BY <1>1, <1>6, <1>7
  <2> HIDE DEF f, breaks
  <2>2. \A m \in 1 .. f : m = f \/ m \notin breaks BY <2>1
  <2>3. \A m \in 1 .. f : m \in DOMAIN es BY <1>1, <2>1
  <2>4. \A m \in 1 .. f : es[m].seq = m BY <1>4, <2>2, <2>3 DEF f
  <2> QED BY <1>3, <2>1, <2>4
<1>8. CASE breaks # {}
  BY <1>5, <1>7, <1>8
<1>9. CASE breaks = {}
  <2>1. \A i \in 1 .. Len(es) : es[i].seq = i /\ es[i] = s[i]
    BY <1>1, <1>4, <1>9
  <2>2. CASE Len(es) < Len(s)
    <3>1. Bundle!Last(es).seq = Len(es) BY <1>1, <2>1 DEF Bundle!Last
    <3>2. x.checkpoint.seq = Len(s) BY DEF Left
    <3>3. ~Bundle!AtHead(x) BY <1>1, <1>2, <2>2, <3>1, <3>2 DEF Bundle!AtHead
    <3> QED BY <1>5, <1>9, <3>3
  <2>3. CASE Len(es) = Len(s)
    <3>1. es = s BY <1>1, <1>2, <2>1, <2>3
    <3> QED BY <1>5, <1>9, <3>1
  <2> QED BY <1>1, <1>2, <2>2, <2>3
<1> QED BY <1>8, <1>9

\* The votes left are the issuer's, some of them missing.
LEMMA LeftBallots ==
  ASSUME HistoryInv, FaithfulInv, NEW j \in history, NEW x, NEW d, Left(x, j, d)
  PROVE  /\ ~ \E i, n \in DOMAIN x.votes : i < n /\ x.votes[n].key <= x.votes[i].key
         /\ Bundle!Ballots(x) \in Tables
         /\ x.votes = Bundle!VoteList(Bundle!Ballots(x))
         /\ \A k \in Bundle!Retained(Bundle!Ballots(x)) :
              Bundle!Ballots(x)[k] = j.votes[k]
<1> DEFINE s == x.votes
           v == j.votes
           list == Bundle!VoteList(v)
           b == Bundle!Ballots(x)
           R == Bundle!Retained(b)
<1>1. v \in Tables BY DEF FaithfulInv, Faithful, Leads
<1>2. /\ s \in Seq(Slips) /\ DOMAIN s = 1 .. Len(s)
      /\ \A i \in 1 .. Len(s) : \E n \in 1 .. Len(list) : s[i] = list[n]
      /\ \A i, n \in 1 .. Len(s) : i < n => s[i].key < s[n].key
  BY DEF Left, VotesLeft
<1>3. Bundle!Keys \subseteq Int
  BY EvidenceAssumption DEF Bundle!BundleAssumption
<1>4. \A i \in 1 .. Len(s) : s[i].key \in Int
  <2>1. \A i \in 1 .. Len(s) : s[i] \in Slips BY <1>2
  <2>2. \A e \in Slips : e.key \in Int BY <1>3 DEF Slips
  <2> QED BY <2>1, <2>2
<1>5. ~ \E i, n \in DOMAIN s : i < n /\ s[n].key <= s[i].key
  <2> SUFFICES ASSUME NEW i \in 1 .. Len(s), NEW n \in 1 .. Len(s), i < n,
                      s[n].key <= s[i].key
               PROVE  FALSE
    BY <1>2
  <2>1. s[i].key < s[n].key /\ s[i].key \in Int /\ s[n].key \in Int
    BY <1>2, <1>4
  <2> QED BY <2>1
<1>6. s = Bundle!VoteList(b) /\ b \in Tables
  <2>1. \A e \in Bundle!ToSet(s) : e.of = "this" /\ e.sound BY LeftPieces
  <2> QED BY <1>2, <1>5, <2>1, SlipsRead
<1>7. \A n \in 1 .. Len(list) : list[n].decision = v[list[n].key]
  <2> DEFINE K == Bundle!Retained(v)
             c == Cardinality(K)
  <2>1. /\ DOMAIN list = 1 .. c
        /\ \A i \in 1 .. c :
             list[i] = [of |-> "this", key |-> Bundle!Ranked(K, i),
                        decision |-> v[Bundle!Ranked(K, i)], sound |-> TRUE]
    BY <1>1, VoteListIs
  <2>2. DOMAIN list = 1 .. Len(list) BY <1>1, ExportSlips
  <2> HIDE DEF list, K, v, c
  <2>3. \A i \in 1 .. c : list[i].decision = v[list[i].key]
    BY <2>1
  <2> QED BY <2>1, <2>2, <2>3
<1>8. ASSUME NEW k \in R
      PROVE  b[k] = v[k]
  <2> DEFINE c == Cardinality(R)
             i == Rank(R, k)
  <2>1. /\ c \in Nat /\ DOMAIN Bundle!VoteList(b) = 1 .. c
        /\ \A n \in 1 .. c :
             Bundle!VoteList(b)[n] =
               [of |-> "this", key |-> Bundle!Ranked(R, n),
                decision |-> b[Bundle!Ranked(R, n)], sound |-> TRUE]
    BY <1>6, VoteListIs
  <2>2. R \in SUBSET Int /\ IsFiniteSet(R) BY RetainedKeys
  <2> HIDE DEF s, v, list, b, R, c, i
  <2>3. i \in 1 .. c /\ k = Bundle!Ranked(R, i)
    <3>1. k \in R BY <1>8
    <3> QED BY <2>2, <3>1, RankedIs, RankBounds DEF c, i
  <2>4. s[i].key = k /\ s[i].decision = b[k] /\ i \in 1 .. Len(s)
    <3>1. s = Bundle!VoteList(b) BY <1>6 DEF s, b
    <3>2. s[i] = [of |-> "this", key |-> k, decision |-> b[k], sound |-> TRUE]
      BY <2>1, <2>3, <3>1
    <3>3. i \in DOMAIN s BY <2>1, <2>3, <3>1
    <3>4. DOMAIN s = 1 .. Len(s) BY <1>2 DEF s
    <3> QED BY <3>2, <3>3, <3>4
  <2>5. PICK n \in 1 .. Len(list) : s[i] = list[n] BY <1>2, <2>4
  <2> QED BY <1>7, <2>4, <2>5
<1> QED BY <1>5, <1>6, <1>8

\* Where two tables of votes part over a stream that one of them makes legal,
\* the first event the other refuses is a vote it does not have.
LEMMA FirstRefused ==
  ASSUME NEW b, NEW v, NEW w \in Seq(EventData), w # <<>>,
         Bundle!V!Reduce(Action, v, w).state # Bundle!V!Illegal,
         NEW i \in 1 .. Len(w),
         Bundle!V!Reduce(Action, b, SubSeq(w, 1, i)).state = Bundle!V!Illegal,
         \A m \in 1 .. i - 1 :
           Bundle!V!Reduce(Action, b, SubSeq(w, 1, m)).state # Bundle!V!Illegal
  PROVE  w[i].type = "VoteRecorded" /\ b[w[i].key] # w[i].decision
<1>1. PICK q : /\ Run(q, Action, b, w)
               /\ \A m \in 1 .. Len(w) :
                    Bundle!V!Reduce(Action, b, SubSeq(w, 1, m)) = q[m]
  BY Beginnings
<1>2. PICK r : /\ Run(r, Action, v, w)
               /\ \A m \in 1 .. Len(w) :
                    Bundle!V!Reduce(Action, v, SubSeq(w, 1, m)) = r[m]
  BY Beginnings
<1>3. Len(w) \in Nat \ {0} /\ SubSeq(w, 1, Len(w)) = w /\ i \in Nat
  OBVIOUS
<1>4. /\ \A m \in 1 .. Len(w) : r[m].state # Bundle!V!Illegal
      /\ \A m \in 2 .. Len(w) : Bundle!V!LegalEvent(Action, v, r[m - 1], w[m])
  <2>1. Len(w) \in 1 .. Len(w) BY <1>3
  <2>2. r[Len(w)].state # Bundle!V!Illegal BY <1>2, <1>3, <2>1
  <2> QED BY <1>2, <1>3, <2>2, LegalRun
<1>5. q[i].state = Bundle!V!Illegal BY <1>1
<1>6. i # 1
  <2>1. Blank.state # Bundle!V!Illegal BY DEF Blank, Bundle!V!Illegal
  <2> QED BY <1>1, <1>5, <2>1 DEF Run
<1>7. /\ i - 1 \in 1 .. Len(w) /\ i - 1 \in 1 .. i - 1 /\ i \in 2 .. Len(w)
  BY <1>3, <1>6
<1>8. q[i - 1] = r[i - 1]
  <2> DEFINE u == SubSeq(w, 1, i - 1)
  <2>1. u \in Seq(EventData) /\ u # <<>> BY <1>7
  <2>2. Bundle!V!Reduce(Action, b, u) = q[i - 1] /\ Bundle!V!Reduce(Action, v, u) = r[i - 1]
    BY <1>1, <1>2, <1>7
  <2>3. /\ Bundle!V!Reduce(Action, b, u).state # Bundle!V!Illegal
        /\ Bundle!V!Reduce(Action, v, u).state # Bundle!V!Illegal
    BY <1>4, <1>7, <2>2
  <2> HIDE DEF u
  <2>4. Bundle!V!Reduce(Action, b, u) = Bundle!V!Reduce(Action, v, u)
    BY <2>1, <2>3, SameVotes
  <2> QED BY <2>2, <2>4
<1>9. /\ q[i] = Bundle!V!ReplayStep(Action, b, q[i - 1], w[i])
      /\ r[i] = Bundle!V!ReplayStep(Action, v, r[i - 1], w[i])
  BY <1>1, <1>2, <1>7 DEF Run
<1>10. ASSUME w[i].type = "VoteRecorded" => b[w[i].key] = w[i].decision
       PROVE  FALSE
  <2>1. Bundle!V!LegalEvent(Action, v, r[i - 1], w[i]) BY <1>4, <1>7
  <2>2. w[i].type = "VoteRecorded" => v[w[i].key] = w[i].decision
    <3>1. ASSUME NEW s, NEW e, e.type = "VoteRecorded",
                 Bundle!V!LegalEvent(Action, v, s, e)
          PROVE  v[e.key] = e.decision
      BY <3>1 DEF Bundle!V!LegalEvent
    <3> QED BY <2>1, <3>1
  <2>3. Bundle!V!ReplayStep(Action, b, r[i - 1], w[i])
          = Bundle!V!ReplayStep(Action, v, r[i - 1], w[i])
    BY <1>10, <2>2, SameSteps
  <2> QED BY <1>4, <1>5, <1>8, <1>9, <2>3
<1> QED BY <1>10

LEMMA LeftReplayed ==
  ASSUME HistoryInv, FaithfulInv, NEW j \in history, NEW x, NEW d, Left(x, j, d),
         x.events = j.stream, Len(x.votes) < Len(Bundle!VoteList(j.votes))
  PROVE  Bundle!Replay(x) = "MISSING_EVIDENCE"
<1> DEFINE w == Written(j.stream)
           v == j.votes
           b == Bundle!Ballots(x)
           Upto(i) == Bundle!V!Reduce(Action, b, SubSeq(w, 1, i))
           illegal == {i \in DOMAIN w : Upto(i).state = Bundle!V!Illegal}
           first == CHOOSE i \in illegal : \A n \in illegal : i <= n
           unordered == \E i, n \in DOMAIN x.votes :
                          i < n /\ x.votes[n].key <= x.votes[i].key
<1>1. Faithful(j) /\ Leads(w, v, Standing(j.state, v)) /\ v \in Tables
  BY DEF FaithfulInv, Faithful, Leads
<1>2. /\ w \in Seq(EventData) /\ w # <<>> /\ w[1].type = "Proposed"
      /\ Bundle!V!Reduce(Action, v, w) = Standing(j.state, v)
      /\ j.state # Bundle!V!Illegal /\ j.state # "REJECT_PENDING"
  BY <1>1 DEF Leads, Faithful, Bundle!Proposed, IssuedStates, Bundle!V!Illegal
<1>3. /\ Standing(j.state, v).state = j.state
      /\ Standing(j.state, v).recorded = Bundle!Retained(v)
  BY DEF Standing
<1>4. Bundle!Datas(x) = w
  <2>1. x.events \in Seq(Entries) BY LeftPieces
  <2> QED BY <2>1, DatasWritten
<1>5. /\ ~unordered /\ b \in Tables /\ x.votes = Bundle!VoteList(b)
      /\ \A k \in Bundle!Retained(b) : b[k] = v[k]
  BY LeftBallots
<1>6. Bundle!Replay(x) =
         IF w[1].type # "Proposed" THEN Bundle!V!Illegal
         ELSE IF unordered THEN Bundle!V!Illegal
         ELSE IF illegal # {}
         THEN IF w[first].type = "VoteRecorded" /\ b[w[first].key] # w[first].decision
              THEN "MISSING_EVIDENCE" ELSE Bundle!V!Illegal
         ELSE IF Upto(Len(w)).state = "REJECT_PENDING" THEN Bundle!V!Illegal
         ELSE IF ~Bundle!AllRecorded(x, Upto(Len(w))) THEN "MISSING_EVIDENCE"
         ELSE "ok"
  BY <1>4 DEF Bundle!Replay
<1>7. DOMAIN w = 1 .. Len(w) /\ Len(w) \in DOMAIN w /\ SubSeq(w, 1, Len(w)) = w
  BY <1>2
<1> HIDE DEF w, unordered
<1>8. ASSUME illegal # {}
      PROVE  w[first].type = "VoteRecorded" /\ b[w[first].key] # w[first].decision
  <2>1. first \in illegal /\ \A n \in illegal : first <= n
    <3>1. illegal \in SUBSET Nat BY <1>7
    <3> HIDE DEF illegal
    <3>2. \E i \in illegal : \A n \in illegal : i <= n BY <1>8, <3>1, LeastElement
    <3> QED BY <3>2
  <2> DEFINE f == first
  <2>2. /\ f \in 1 .. Len(w)
        /\ Bundle!V!Reduce(Action, b, SubSeq(w, 1, f)).state = Bundle!V!Illegal
    BY <1>7, <2>1
  <2>3. ASSUME NEW m \in 1 .. f - 1
        PROVE  Bundle!V!Reduce(Action, b, SubSeq(w, 1, m)).state # Bundle!V!Illegal
    <3>1. m \in DOMAIN w /\ ~(f <= m) BY <1>7, <2>2
    <3>2. m \notin illegal BY <2>1, <3>1
    <3> QED BY <3>1, <3>2
  <2>4. Bundle!V!Reduce(Action, v, w).state # Bundle!V!Illegal
    BY <1>2, <1>3
  <2> HIDE DEF f, b, v
  <2>5. w[f].type = "VoteRecorded" /\ b[w[f].key] # w[f].decision
    BY <1>2, <2>2, <2>3, <2>4, FirstRefused
  <2> QED BY <2>5 DEF f
<1>9. ASSUME illegal = {}
      PROVE  /\ Upto(Len(w)).state # "REJECT_PENDING"
             /\ ~Bundle!AllRecorded(x, Upto(Len(w)))
  <2>1. Bundle!V!Reduce(Action, b, w).state # Bundle!V!Illegal
    BY <1>7, <1>9
  <2>2. Bundle!V!Reduce(Action, b, w) = Bundle!V!Reduce(Action, v, w)
    <3>1. Bundle!V!Reduce(Action, v, w).state # Bundle!V!Illegal BY <1>2, <1>3
    <3> HIDE DEF b, v
    <3> QED BY <1>2, <2>1, <3>1, SameVotes
  <2>3. Upto(Len(w)) = Standing(j.state, v) BY <1>2, <1>7, <2>2
  <2>4. ASSUME Bundle!AllRecorded(x, Upto(Len(w)))
        PROVE  FALSE
    <3>1. Bundle!Retained(v) = Bundle!Retained(b)
      BY <1>3, <2>3, <2>4 DEF Bundle!AllRecorded
    <3>2. \A k \in Bundle!Keys : b[k] = v[k]
      BY <1>5, <3>1 DEF Bundle!Retained
    <3> HIDE DEF b, v
    <3>3. b = v BY <1>1, <1>5, <3>2 DEF Tables
    <3>4. Len(x.votes) = Len(Bundle!VoteList(v)) BY <1>5, <3>3
    <3>5. Len(Bundle!VoteList(v)) \in Nat
      BY <1>1, ExportSlips
    <3> QED BY <3>4, <3>5 DEF v
  <2> QED BY <1>2, <1>3, <2>3, <2>4
<1> HIDE DEF illegal, first, Upto, b
<1> QED BY <1>2, <1>5, <1>6, <1>8, <1>9

LEMMA LossFollows ==
  ASSUME HistoryInv, FaithfulInv, LossInv
  PROVE  LossReadsIncomplete
<1> SUFFICES ASSUME bundle # None, lossy, damage > 0,
                    NEW trust \in Trusts, Covers(trust)
             PROVE  Bundle!Integrity(bundle, trust)
                      = IF Bundle!OneKey(bundle) THEN "incomplete" ELSE "invalid"
  BY DEF LossReadsIncomplete, Bundle!LossReadsIncomplete, Covers
<1>1. PICK j \in history : Left(bundle, j, damage) BY DEF LossInv
<1> DEFINE f == Bundle!Failure(bundle, trust)
<1>2. CASE ~Bundle!OneKey(bundle)
  <2>1. /\ bundle.events \in Seq(Entries)
        /\ \A e \in Bundle!ToSet(bundle.events) : e.of = "this" /\ e.sound
        /\ \A v \in Bundle!ToSet(bundle.votes) :
             v.of = "this" /\ v.key \in Bundle!Keys /\ v.sound
        /\ bundle.checkpoint.of = "this" /\ bundle.checkpoint.epoch = Action.epoch
    BY <1>1, LeftPieces
  <2>2. Bundle!Binding(bundle) = "ok" BY <2>1 DEF Bundle!Binding
  <2>3. bundle.events # <<>> BY <1>2 DEF Bundle!OneKey, Bundle!ToSet
  <2>4. Bundle!Signatures(bundle, trust) = "UNTRUSTED"
    BY <1>2, <2>1, <2>3, SplitUntrusted
  <2> QED BY <1>2, <2>2, <2>4, SplitInvalid
<1>3. CASE Bundle!OneKey(bundle)
  <2>1. /\ Bundle!Binding(bundle) = "ok" /\ trust # {}
        /\ Bundle!Signatures(bundle, trust) =
             IF bundle.events = <<>> THEN "MISSING_EVIDENCE" ELSE "ok"
    BY <1>1, <1>3, LeftSigned
  <2>2. CASE bundle.events = <<>>
    <3>1. f = <<"signatures", "MISSING_EVIDENCE">>
      BY <2>1, <2>2 DEF Bundle!Failure
    <3> QED BY <1>3, <3>1 DEF Bundle!Integrity
  <2>3. CASE bundle.events # <<>>
    <3>1. Bundle!Signatures(bundle, trust) = "ok" BY <2>1, <2>3
    <3>2. CASE Bundle!Chain(bundle) \in {"MISSING_EVIDENCE", "CHECKPOINT_MISMATCH"}
      <4>1. f = <<"chain", Bundle!Chain(bundle)>>
        BY <2>1, <3>1, <3>2 DEF Bundle!Failure
      <4> QED BY <1>3, <3>2, <4>1 DEF Bundle!Integrity
    <3>3. CASE Bundle!Chain(bundle) = "ok" /\ bundle.events = j.stream
      <4>1. Len(bundle.votes) < Len(Bundle!VoteList(j.votes))
        <5>1. j.stream \in Seq(Entries) BY DEF HistoryInv, JournalOK, StreamOK
        <5> QED BY <1>1, <3>3, <5>1 DEF Left
      <4>2. Bundle!Replay(bundle) = "MISSING_EVIDENCE"
        BY <1>1, <3>3, <4>1, LeftReplayed
      <4>3. f = <<"replay", "MISSING_EVIDENCE">>
        BY <2>1, <3>1, <3>3, <4>2 DEF Bundle!Failure
      <4> QED BY <1>3, <4>3 DEF Bundle!Integrity
    <3> QED BY <1>1, <2>3, <3>2, <3>3, LeftChained
  <2> QED BY <2>2, <2>3
<1> QED BY <1>2, <1>3

\* Whichever events and votes are lost of a proof on its way, and however often
\* the journal was restored and the audit key changed before: if nothing else is
\* wrong with it and what is left is signed under one audit key, a verifier that
\* trusts it finds the proof incomplete, never valid and never forged; what two
\* keys have signed is invalid.
THEOREM LossesReadIncomplete == Bundle!Spec => []LossReadsIncomplete
<1>1. Bundle!Init =>
        HistoryInv /\ ParcelInv /\ FaithfulInv /\ ExportedInv /\ LossInv
  BY HistoryInit, FaithfulInit DEF Bundle!Init, ParcelInv, ExportedInv, LossInv
<1>2. HistoryInv /\ ParcelInv /\ FaithfulInv /\ ExportedInv /\ LossInv
        /\ [Bundle!Next]_(Bundle!vars)
      => (HistoryInv /\ ParcelInv /\ FaithfulInv /\ ExportedInv /\ LossInv)'
  BY HistoryStep, ParcelStep, FaithfulStep, ExportedStep, LossStep
<1>3. HistoryInv /\ FaithfulInv /\ LossInv => LossReadsIncomplete
  BY LossFollows
<1> QED BY <1>1, <1>2, <1>3, PTL DEF Bundle!Spec

-----------------------------------------------------------------------------
(* The composition.                                                        *)

\* Every step of Evidence is one of each component, or leaves it as it is.
LEMMA EvidencePart ==
  ASSUME [EvidenceNext]_allVars
  PROVE  /\ [Next]_vars /\ [Bundle!Next]_(Bundle!vars)
         /\ [Counting!Next]_(Counting!vars)
<1>1. CASE Next /\ UNCHANGED <<part, proofVars, tallyVars>>
  BY <1>1 DEF proofVars, tallyVars, Bundle!vars, Counting!vars
<1>2. CASE Bundle!Next /\ UNCHANGED <<part, vars, tallyVars>>
  BY <1>2 DEF tallyVars, Counting!vars
<1>3. CASE Counting!Next /\ UNCHANGED <<part, vars, proofVars>>
  BY <1>3 DEF proofVars, Bundle!vars
<1>4. CASE UNCHANGED allVars
  BY <1>4 DEF allVars, proofVars, tallyVars, Bundle!vars, Counting!vars
<1> QED BY <1>1, <1>2, <1>3, <1>4 DEF EvidenceNext

\* Whichever part of Evidence is followed, the behaviour is one of the
\* registry's, of the issuer's with its proofs on their way, and of the tally's.
THEOREM EvidenceActsAsParts == EvidenceSpec => Spec /\ Bundle!Spec /\ Counting!Spec
<1>1. EvidenceInit => Init /\ Bundle!Init /\ Counting!Init
  BY DEF EvidenceInit
<1>2. [EvidenceNext]_allVars =>
        [Next]_vars /\ [Bundle!Next]_(Bundle!vars) /\ [Counting!Next]_(Counting!vars)
  BY EvidencePart
<1> QED BY <1>1, <1>2, PTL DEF EvidenceSpec, Spec, Bundle!Spec, Counting!Spec

\* So what the run of Evidence checks holds of every instance: heads name the
\* newest stored bundle and only advance, two versions of a head quarantine the
\* proposal and nothing else does, an answer under a key stays, accepted proofs
\* are genuine, losses show, exports verify under one audit key, and the three
\* counters of a quorum agree and stand for signers.
THEOREM EvidenceHolds ==
  EvidenceSpec =>
    /\ [](HeadIsNewest /\ HeadForksQuarantined /\ QuarantineJustified)
    /\ []OneResponsePerKey /\ HeadsOnlyAdvance
    /\ [](AcceptedIsGenuine /\ LossReadsIncomplete /\ ExportsVerify)
    /\ [](CountersAgree /\ SatisfiedMeansSigners)
BY EvidenceActsAsParts, HeadIsNewestAlways, ForksQuarantined, QuarantinesJustified,
   ResponsesStable, HeadsAdvance, AcceptedProofsAreGenuine, LossesReadIncomplete,
   ExportsVerifyUnderOneKey, CountersAlwaysAgree, SatisfiedHasSigners, PTL

\* And where the host keeps the newest head hash, no two signed checkpoints of
\* a position name different heads.
THEOREM EvidenceDoesNotFork ==
  ASSUME Frontier
  PROVE  EvidenceSpec => []NoFork
<1>1. Bundle!Spec => []NoFork BY CheckpointsDoNotFork
<1> QED BY <1>1, EvidenceActsAsParts, PTL

=============================================================================
