------------------------------ MODULE Delivery ------------------------------
(***************************************************************************)
(* Delivering one escalation to the file inbox: Coordinator.deliver holds  *)
(* its mutex and its transaction while FileInbox.deliver creates, writes   *)
(* and syncs {escalation_id}.json (python/vekquorum/coordinator.py,        *)
(* adapters.py).  Any system call may fail, a write may be short, and the  *)
(* transaction may be rolled back.  A crash of the process keeps what the  *)
(* system has cached; a power failure keeps the journal, which SQLite      *)
(* commits with synchronous=FULL, the inbox directory, and of the file     *)
(* only what was synced for certain.                                       *)
(***************************************************************************)
EXTENDS Integers, Sequences

CONSTANTS None,
          Requests,      \* the idempotency keys clients use
          MaxDelivery,   \* MAX_DELIVERY_ATTEMPTS
          MaxCrashes,    \* bound on crashes and rolled back transactions
          MaxOutages     \* bound on power failures

VARIABLES file,      \* the file as programs see it
          durable,   \* which of its data and its directory entry are synced
          delivery,  \* row of deliveries: [state, attempts]
          stream,    \* EscalationDelivered and EscalationDeferred events
          requests,  \* stored response of each key
          call,      \* the call in progress: [key, at, answer]
          answers,   \* what clients were told: [key, response]
          crashes, outages,
          shortened, \* history: a write has stored less than it was given
          ticket     \* history: what the acknowledgment rests on

journal == <<delivery, stream, requests>>
history == <<shortened, ticket>>
vars == <<file, durable, delivery, stream, requests, call, answers, crashes,
          outages, history>>

\* Nothing, an empty file, a part of J(InboxRequest), all of it, or the
\* bytes of somebody else under the same name.
Contents == {"absent", "empty", "part", "whole", "foreign"}
\* InboxResponse with its field duplicate, or the exception.
Acknowledged == {"created", "duplicate"}
Outcomes == Acknowledged \union {"rejected", "unavailable"}

\* "unbacked": a duplicate whose file was not all synced when the power failed.
Tickets == Acknowledged \union {"unbacked"}

Steps == {"open", "write", "sync", "syncdir", "commit"}
Calls == [key : Requests, at : Steps, answer : Outcomes \union {None}]

DeliveryAssumption ==
  /\ MaxDelivery \in Nat /\ MaxCrashes \in Nat /\ MaxOutages \in Nat
  /\ None \notin Requests \union Outcomes \union Tickets \union {"ACKED", "PENDING"}
              \union Calls

Init ==
  /\ file \in {"absent", "foreign"}
  /\ durable = {"data", "entry"}
  /\ delivery = [state |-> "PENDING", attempts |-> 0]
  /\ stream = <<>>
  /\ requests = [k \in Requests |-> None]
  /\ call = None
  /\ answers = {}
  /\ crashes = 0 /\ outages = 0
  /\ shortened = FALSE /\ ticket = None

-----------------------------------------------------------------------------
(* The call, up to the inbox.                                              *)

Tell(k, response) == answers' = answers \union {[key |-> k, response |-> response]}

\* Fault: the limit counts acknowledgments only.
NotAcked == delivery.state # "ACKED"
AttemptsLeft == delivery.attempts < MaxDelivery

\* A stored key is answered from its row; an acknowledged delivery is
\* answered again under any key; past the limit nothing is recorded.
Begin(k) ==
  /\ call = None
  /\ \/ /\ requests[k] # None
        /\ Tell(k, requests[k])
        /\ UNCHANGED <<requests, call>>
     \/ /\ requests[k] = None /\ delivery.state = "ACKED"
        /\ requests' = [requests EXCEPT ![k] = "ACKED"]
        /\ Tell(k, "ACKED")
        /\ UNCHANGED call
     \/ /\ requests[k] = None /\ delivery.state # "ACKED" /\ AttemptsLeft
        /\ call' = [key |-> k, at |-> "open", answer |-> None]
        /\ UNCHANGED <<requests, answers>>
  /\ UNCHANGED <<file, durable, delivery, stream, crashes, outages, history>>

-----------------------------------------------------------------------------
(* FileInbox.deliver, one system call at a time.                           *)

At(step) == call # None /\ call.at = step
Goto(step) == call' = [call EXCEPT !.at = step]
Done(outcome) == call' = [call EXCEPT !.at = "commit", !.answer = outcome]

InboxOnly == UNCHANGED <<journal, answers, crashes, outages, ticket>>

\* Fault: whatever carries the name is taken for the escalation.
AnyFile == TRUE
SameBytes == file = "whole"

\* O_EXCL: a file of that name is compared, never opened for writing.
OpenFile ==
  /\ At("open")
  /\ \/ file = "absent" /\ file' = "empty" /\ durable' = {} /\ Goto("write")
     \/ /\ file # "absent"
        /\ Done(IF SameBytes THEN "duplicate" ELSE "rejected")
        /\ UNCHANGED <<file, durable>>
  /\ InboxOnly /\ UNCHANGED shortened

\* The count write returns is not looked at.
WriteFile ==
  /\ At("write")
  /\ file' \in {"whole", "part"}
  /\ shortened' = (shortened \/ file' = "part")
  /\ Goto("sync")
  /\ UNCHANGED durable /\ InboxOnly

\* Fault: the file is closed without fsync.
CloseOnly == UNCHANGED durable
FsyncData == durable' = durable \union {"data"}

SyncFile ==
  /\ At("sync")
  /\ FsyncData
  /\ Goto("syncdir")
  /\ UNCHANGED <<file, shortened>> /\ InboxOnly

SyncDirectory ==
  /\ At("syncdir")
  /\ durable' = durable \union {"entry"}
  /\ Done("created")
  /\ UNCHANGED <<file, shortened>> /\ InboxOnly

\* Any system call on the file may raise; deliver defers the escalation.
SystemCallFails ==
  /\ call # None /\ call.at # "commit"
  /\ Done("unavailable")
  /\ UNCHANGED <<file, durable, shortened>> /\ InboxOnly

-----------------------------------------------------------------------------
(* The journal gets the attempt, its event and the key in one transaction. *)

\* Fault: an attempt that failed leaves its event and not its count.
CountAcks == IF call.answer \in Acknowledged THEN delivery.attempts + 1 ELSE delivery.attempts
CountAttempt == delivery.attempts + 1

\* Fault: the key is not stored with the outcome.
ForgetKey(k, response) == requests
RecordKey(k, response) == [requests EXCEPT ![k] = response]

Commit ==
  LET acked == call.answer \in Acknowledged
      response == IF acked THEN "ACKED" ELSE "PENDING" IN
  /\ At("commit")
  /\ delivery' = [state |-> response, attempts |-> CountAttempt]
  /\ stream' = Append(stream, IF acked THEN "delivered" ELSE "deferred")
  /\ requests' = RecordKey(call.key, response)
  /\ Tell(call.key, response)
  /\ ticket' = IF acked THEN call.answer ELSE ticket
  /\ call' = None
  /\ UNCHANGED <<file, durable, crashes, outages, shortened>>

-----------------------------------------------------------------------------
\* The transaction raises, or the process dies in it: nothing of it is stored
\* and nobody is answered; the file stays.
RolledBack ==
  /\ crashes < MaxCrashes /\ call # None
  /\ call' = None
  /\ crashes' = crashes + 1
  /\ UNCHANGED <<file, durable, journal, answers, outages, history>>

\* What the disk may hold after a power failure.
Survivors ==
  (IF "data" \in durable THEN {file} ELSE {"empty", "part", file}) \union
  (IF "entry" \in durable THEN {} ELSE {"absent"})

PowerFailure ==
  /\ outages < MaxOutages
  /\ file' \in Survivors
  /\ durable' = {"data", "entry"}
  /\ ticket' = IF ticket = "duplicate" /\ durable # {"data", "entry"}
               THEN "unbacked" ELSE ticket
  /\ call' = None
  /\ outages' = outages + 1
  /\ UNCHANGED <<journal, answers, crashes, shortened>>

Next ==
  \/ \E k \in Requests : Begin(k)
  \/ OpenFile \/ WriteFile \/ SyncFile \/ SyncDirectory \/ SystemCallFails
  \/ Commit \/ RolledBack \/ PowerFailure

Spec == Init /\ [][Next]_vars

-----------------------------------------------------------------------------
\* Types, and an acknowledgment is the last event of its escalation.
TypeOK ==
  /\ file \in Contents
  /\ durable \subseteq {"data", "entry"}
  /\ delivery.state \in {"PENDING", "ACKED"} /\ delivery.attempts \in 0 .. MaxDelivery
  /\ stream \in Seq({"delivered", "deferred"})
  /\ requests \in [Requests -> {None, "ACKED", "PENDING"}]
  /\ call \in Calls \union {None}
  /\ shortened \in BOOLEAN /\ ticket \in Tickets \union {None}

\* The attempts the limit counts are the attempts in the stream, through
\* crashes at every step; the stream ends with the acknowledgment if there
\* is one and has no other.
AttemptsInStream ==
  /\ delivery.attempts = Len(stream)
  /\ \A i \in DOMAIN stream :
       stream[i] = "delivered" <=> i = Len(stream) /\ delivery.state = "ACKED"

\* An escalation acknowledged in the journal is in the inbox, all of it, through
\* failing calls, crashes and power failures in any order, but for two cases the
\* code does not look at: a write that stored less than it was given, and a
\* power failure after a file was acknowledged that an earlier, interrupted
\* call had left in the cache (a duplicate is compared and not synced).
AckedIsDelivered ==
  delivery.state = "ACKED" =>
    file = "whole" \/ shortened \/ ticket = "unbacked"

\* A client that retries a key is told what it was told before.
OneAnswerPerKey ==
  \A x, y \in answers : x.key = y.key => x.response = y.response
=============================================================================
