------------------------------ MODULE RateLimit ------------------------------
(***************************************************************************)
(* The rate limit of propose, and of submit, which has a bucket of its own *)
(* (Coordinator._rate_limit, python/vekquorum/coordinator.py).  The bucket *)
(* is in memory and holds logical instants; the logical clock (Store.      *)
(* logical_now) is in the journal.  A transaction that fails rolls the     *)
(* clock back and not the bucket, a restart the other way round, and the   *)
(* wall clock may step back.                                               *)
(***************************************************************************)
EXTENDS Integers, Sequences, FiniteSets, SequencesExt

CONSTANTS Limit,       \* RATE_PROPOSE_PER_MIN or RATE_SUBMIT_PER_MIN
          Window,      \* 60000
          MaxBack,     \* how far the wall clock steps back
          MaxTime,     \* bound on readings of the wall clock
          MaxRestarts  \* bound on restarts

VARIABLES high,      \* highest reading of the wall clock
          saved,     \* last_logical_ms
          bucket,    \* instants of charged requests
          accepted,  \* instants of the requests that took effect in this life
          charged,   \* highest instant charged in this life
          last,      \* [limited, at] of the last request
          restarts

vars == <<high, saved, bucket, accepted, charged, last, restarts>>

RateLimitAssumption ==
  /\ Limit \in Nat \ {0} /\ Window \in Nat \ {0}
  /\ MaxBack \in 0 .. Window /\ MaxTime \in Nat /\ MaxRestarts \in Nat

Larger(x, y) == IF x > y THEN x ELSE y

ClockReadings == {w \in 0 .. MaxTime : w >= high - MaxBack}

Init ==
  /\ high = 0 /\ saved = 0
  /\ bucket = <<>> /\ accepted = <<>> /\ charged = 0
  /\ last = [limited |-> FALSE, at |-> 0]
  /\ restarts = 0

\* Fault: the wall clock is used as it is.
WallNow(w) == w
LogicalNow(w) == Larger(saved, w)

\* Fault: an entry exactly one window old is popped.
PrunedEarly(now) == SelectSeq(bucket, LAMBDA t : t > now - Window)

\* The entries before the window are popped, from the front as far as they go.
Pruned(now) ==
  LET kept == {i \in DOMAIN bucket : bucket[i] >= now - Window} IN
  IF kept = {} THEN <<>>
  ELSE SubSeq(bucket, CHOOSE i \in kept : \A j \in kept : i <= j, Len(bucket))

\* Fault: a refused request counts as well.
ChargeRefused(entries, now) == Append(entries, now)
KeepRefused(entries, now) == entries

Full(entries) == Len(entries) >= Limit

\* A request at reading w of the wall clock, which takes effect or fails later
\* in its transaction.
Request(w, takes) ==
  LET now == LogicalNow(w)
      entries == Pruned(now)
      full == Full(entries) IN
  /\ high' = Larger(high, w)
  /\ last' = [limited |-> full, at |-> now]
  /\ bucket' = IF full THEN KeepRefused(entries, now) ELSE Append(entries, now)
  /\ charged' = IF full THEN charged ELSE Larger(charged, now)
  /\ IF takes /\ ~full
     THEN saved' = now /\ accepted' = Append(accepted, now)
     ELSE UNCHANGED <<saved, accepted>>
  /\ UNCHANGED restarts

\* Another transaction moves the logical clock on.
Tick(w) ==
  /\ high' = Larger(high, w)
  /\ saved' = LogicalNow(w)
  /\ UNCHANGED <<bucket, accepted, charged, last, restarts>>

Restart ==
  /\ restarts < MaxRestarts
  /\ restarts' = restarts + 1
  /\ bucket' = <<>> /\ accepted' = <<>> /\ charged' = 0
  /\ last' = [limited |-> FALSE, at |-> 0]
  /\ UNCHANGED <<high, saved>>

Next ==
  \/ \E w \in ClockReadings, takes \in BOOLEAN : Request(w, takes)
  \/ \E w \in ClockReadings : Tick(w)
  \/ Restart

Spec == Init /\ [][Next]_vars

-----------------------------------------------------------------------------
\* Types; the requests that took effect are in the order of the logical clock.
TypeOK ==
  /\ high \in 0 .. MaxTime /\ saved \in 0 .. high
  /\ bucket \in Seq(0 .. MaxTime)
  /\ \A i \in 1 .. Len(accepted) - 1 : accepted[i] <= accepted[i + 1]

\* RATE_PROPOSE_PER_MIN: of the requests of one life, no more than the limit
\* take effect within a window, which a wall clock that steps back shortens by
\* as much: a failed request has moved the bucket on and not the clock.
WindowBounded ==
  \A i \in DOMAIN accepted :
    Cardinality({j \in 1 .. i : accepted[j] >= accepted[i] - (Window - MaxBack)}) <= Limit

\* retry_after_ms: a client that waits out the window after the last charged
\* request is let in, however many requests were refused in between and in
\* whatever order the instants are in the bucket.
PatienceRewarded == last.limited => last.at <= charged + Window
=============================================================================
