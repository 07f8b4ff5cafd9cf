------------------------------- MODULE Journal -------------------------------
(***************************************************************************)
(* What becomes of a dispatch and of a delivery in the journal.  A         *)
(* behaviour follows one part of the host, the one `part` names, and the   *)
(* others stand still in their initial state:                              *)
(*   "coordinator"  Ceremony                                               *)
(*   "patient"      watchers that share the mutex and the connection,      *)
(*                  closed by a host that waits for them                   *)
(*   "hasty"        the same, closed at any time                           *)
(*   "inbox"        one escalation, its client and the file inbox          *)
(***************************************************************************)
EXTENDS Ceremony

CONSTANTS WatchedDispatches, Reported, MaxStops,
          InboxKeys, MaxKills, MaxOutages

VARIABLES part,
          process, disk, view, inTx, connected, holder, watcher, reported,
          closer, stops,
          file, durable, inboxRow, attempts, responses, escalating, told,
          kills, outages, shortened, ticket

shutdownVars == <<process, disk, view, inTx, connected, holder, watcher,
                  reported, closer, stops>>
inboxVars == <<file, durable, inboxRow, attempts, responses, escalating, told,
               kills, outages, shortened, ticket>>
allVars == <<vars, part, shutdownVars, inboxVars>>

Patient == INSTANCE Shutdown WITH
  Dispatches <- WatchedDispatches, Outcomes <- Reported, HostWaits <- TRUE,
  outcome <- reported
Hasty == INSTANCE Shutdown WITH
  Dispatches <- WatchedDispatches, Outcomes <- Reported, HostWaits <- FALSE,
  outcome <- reported

Inbox == INSTANCE Delivery WITH
  Requests <- InboxKeys, MaxDelivery <- MaxAttempts, MaxCrashes <- MaxKills,
  delivery <- inboxRow, stream <- attempts, requests <- responses,
  call <- escalating, answers <- told, crashes <- kills

ASSUME PartsAssumption ==
  /\ Patient!ShutdownAssumption /\ Hasty!ShutdownAssumption
  /\ Inbox!DeliveryAssumption

\* An inbox that is not followed starts without a file.
PartInit ==
  /\ part \in {"coordinator", "patient", "hasty", "inbox"}
  /\ Init /\ Patient!Init /\ Inbox!Init
  /\ part # "inbox" => file = "absent"

Coordinating(A) == part = "coordinator" /\ A /\ UNCHANGED <<part, shutdownVars, inboxVars>>
Closing(p, A) == part = p /\ A /\ UNCHANGED <<part, vars, inboxVars>>
Delivering(A) == part = "inbox" /\ A /\ UNCHANGED <<part, vars, shutdownVars>>

PartNext ==
  \/ Coordinating(Next)
  \/ Closing("patient", Patient!Next) \/ Closing("hasty", Hasty!Next)
  \/ Delivering(Inbox!Next)

\* The fairness of Ceremony and of Shutdown, for the part that moves.
PartFairness ==
  /\ WF_allVars(Coordinating(DispatchCall))
  /\ WF_allVars(Coordinating(WaitEnds))
  /\ \A a \in Actions :
       WF_allVars(Coordinating(\E status \in Statuses, w \in Readings :
                                 WatcherFinishes(a, status, w)))
  /\ WF_allVars(Coordinating(\E w \in Readings : w + SkewLimit >= last /\ Open(w)))
  /\ WF_allVars(Coordinating(\E a \in Actions, w \in Readings : Recover(a, w)))
  /\ WF_allVars(Coordinating(BecomeReady))
  /\ WF_allVars(Closing("patient", Patient!Open))
  /\ WF_allVars(Closing("patient", Patient!Ready))
  /\ WF_allVars(Closing("patient", Patient!CloseCommit))
  /\ WF_allVars(Closing("patient", Patient!CloseConnection))
  /\ WF_allVars(Closing("patient", Patient!Unlock))
  /\ \A d \in WatchedDispatches :
       /\ WF_allVars(Closing("patient", Patient!Watch(d)))
       /\ WF_allVars(Closing("patient", Patient!Recover(d)))

PartSpec == PartInit /\ [][PartNext]_allVars /\ PartFairness

\* Whoever closes and whenever: the committed row of a proposal is never
\* ahead of its stream, and its state is the one the stream gives at its
\* revision (_append_event inserts the event before _flush counts it).
RowFromStream == Hasty!RowFromStream

\* Reports may be cut off at any statement by Store.close or a crash and
\* recovered from what was committed: a dispatch still gets one outcome.
OneOutcome == Hasty!OneOutcome

\* Every dispatch the journal has consumed ends in a recorded outcome over
\* crashes and clean closes, if the host closes after its watchers: by its
\* watcher unless that one did not start or raised, else by the next start.
DispatchesResolve == part = "patient" => Patient!DispatchesResolve

\* An escalation acknowledged in the journal is in the inbox, all of it, through
\* failing calls, crashes and power failures in any order, unless a write was
\* short, or the power failed after a file was acknowledged as a duplicate that
\* nobody had synced (FileInbox.deliver looks at neither).
AckedIsDelivered == Inbox!AckedIsDelivered

\* A client that retries an escalation key is told what it was told before.
OneAnswerPerKey == Inbox!OneAnswerPerKey
=============================================================================
