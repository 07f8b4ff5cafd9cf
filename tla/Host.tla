-------------------------------- MODULE Host --------------------------------
(***************************************************************************)
(* What clients and the provider see of the host.  A behaviour follows one *)
(* part, the one `part` names, and the others stand still in their initial *)
(* state:                                                                  *)
(*   "provider"  RefundSimulator                                           *)
(*   "requests"  a client that keeps a key for one request                 *)
(*   "rates"     the bucket of one principal                               *)
(***************************************************************************)
EXTENDS RefundSimulator

CONSTANTS Proposals,   \* set of [id, op] the client may propose
          ReqIds, Methods, MaxActive, MaxRevision, MaxCrashes,
          Limit, Window, MaxBack, MaxTime, MaxRestarts

VARIABLES part,
          rows, consumed, recorded, lapsed, call, granted, last, crashes,
          high, saved, bucket, accepted, charged, refused, restarts

requestVars == <<rows, consumed, recorded, lapsed, call, granted, last, crashes>>
rateVars == <<high, saved, bucket, accepted, charged, refused, restarts>>
allVars == <<vars, part, requestVars, rateVars>>

R == INSTANCE Requests WITH
  Actions <- Proposals, Reuse <- FALSE, requests <- recorded
B == INSTANCE RateLimit WITH last <- refused

ASSUME HostAssumption == R!RequestsAssumption /\ B!RateLimitAssumption

HostInit ==
  /\ part \in {"provider", "requests", "rates"}
  /\ Init /\ R!Init /\ B!Init

HostNext ==
  \/ part = "provider" /\ Next /\ UNCHANGED <<part, requestVars, rateVars>>
  \/ part = "requests" /\ R!Next /\ UNCHANGED <<part, vars, rateVars>>
  \/ part = "rates" /\ B!Next /\ UNCHANGED <<part, vars, requestVars>>

HostSpec == HostInit /\ [][HostNext]_allVars

\* A client that repeats a request which took effect, under its key, is shown
\* the proposal and is not refused, whatever happened in between; so is one
\* that proposes its action again under another key.
RetryIsAnswered == R!RetryIsAnswered

\* No answer shows a proposal as live whose expiry has passed.
ShownStateIsCurrent == R!ShownStateIsCurrent

\* RATE_PROPOSE_PER_MIN: of the requests of one life, no more than the limit
\* take effect within a window, though the wall clock may step back.
WindowBounded == B!WindowBounded

\* retry_after_ms: a client that waits out the window is let in, however many
\* of its requests were refused in between.
PatienceRewarded == B!PatienceRewarded
=============================================================================
