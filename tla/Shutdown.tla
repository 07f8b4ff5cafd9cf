------------------------------ MODULE Shutdown ------------------------------
(***************************************************************************)
(* Closing a store whose coordinator still waits for adapters.  Watchers   *)
(* report outcomes under the coordinator's mutex, each in a transaction of *)
(* four statements; Store.close runs on another thread without the mutex   *)
(* and shares the one SQLite connection, so its commit() ends whatever     *)
(* transaction is open (python/vekquorum/store.py, coordinator.py).        *)
(*                                                                         *)
(* A row stands for what one dispatch has in the journal since it was      *)
(* consumed: its stream of events, the revision and state of its proposal, *)
(* and the result in its dispatch row.                                     *)
(***************************************************************************)
EXTENDS Integers, Sequences

CONSTANTS None,
          Dispatches,
          Outcomes,     \* what adapters and the observation limit report
          HostWaits,    \* the host closes only when no watcher is left
          MaxStops      \* bound on crashes and closes

VARIABLES process,   \* "down", "recovering", "up", or "failed" to construct
          disk,      \* the committed journal: [rows, clean]
          view,      \* the journal as the connection sees it
          inTx,      \* a transaction is open on the connection
          connected, \* the connection has not been closed
          holder,    \* the watcher that holds the mutex _mu
          watcher,   \* where the watcher of each dispatch is
          outcome,   \* what that watcher is to report
          closer,    \* where Store.close is
          stops      \* crashes and closes so far

vars == <<process, disk, view, inTx, connected, holder, watcher, outcome,
          closer, stops>>
connection == <<disk, view, inTx, connected>>
threads == <<holder, watcher, outcome>>

ShutdownAssumption ==
  /\ None \notin Dispatches /\ None \notin Outcomes
  /\ HostWaits \in BOOLEAN /\ MaxStops \in Nat
  /\ "unknown" \in Outcomes
  /\ {"CommitStarted", "READY", "DISPATCHING"} \cap Outcomes = {}

Row == [events |-> <<>>, revision |-> 0, state |-> "READY", result |-> None]
WatcherStates == {"idle", "waiting", "began", "appended", "flushed", "stored",
                  "done", "lost"}

Init ==
  /\ process = "down"
  /\ disk = [rows |-> [d \in Dispatches |-> Row], clean |-> FALSE]
  /\ view = disk
  /\ inTx = FALSE /\ connected = FALSE
  /\ holder = None
  /\ watcher = [d \in Dispatches |-> "idle"]
  /\ outcome = [d \in Dispatches |-> None]
  /\ closer = "open"
  /\ stops = 0

-----------------------------------------------------------------------------
(* The connection: a statement outside a transaction commits at once.      *)

Execute(v) ==
  /\ view' = v
  /\ disk' = IF inTx THEN disk ELSE v

CommitTx == disk' = view /\ inTx' = FALSE

\* Fault: the statements run without BEGIN IMMEDIATE.
NoTransaction == inTx' = FALSE
BeginTx == inTx' = TRUE

SetClean(v, b) == [v EXCEPT !.clean = b]

\* What each statement of a report writes.
FlushRow(v, d, o) == [v EXCEPT !.rows[d].revision = @ + 1, !.rows[d].state = o]
StoreResult(v, d, o) == [v EXCEPT !.rows[d].result = o]

\* Fault: the row is written before the stream.
RowFirst(v, d, o) == FlushRow(v, d, o)
AppendEvent(v, d, o) == [v EXCEPT !.rows[d].events = Append(@, o)]

\* Fault: the state is named after the code of the result.
NamedByCode(v, d, o) ==
  StoreResult(FlushRow(AppendEvent(v, d, o), d, "INTERRUPTED"), d, o)
Report(v, d, o) == StoreResult(FlushRow(AppendEvent(v, d, o), d, o), d, o)

-----------------------------------------------------------------------------
(* The main thread consumes an operation and leaves a watcher behind, if   *)
(* its thread starts.                                                      *)

Consume(d) ==
  /\ process = "up" /\ closer = "open" /\ holder = None
  /\ view.rows[d].state = "READY"
  /\ Execute([view EXCEPT !.rows[d] = [events |-> <<"CommitStarted">>, revision |-> 1,
                                       state |-> "DISPATCHING", result |-> None]])
  /\ \E w \in {"waiting", "lost"} : watcher' = [watcher EXCEPT ![d] = w]
  /\ UNCHANGED <<process, inTx, connected, holder, outcome, closer, stops>>

\* _finish_dispatch, one statement at a time.  On a closed connection the
\* next statement raises, and so does the rollback: the thread is gone.
Statement(d, from, to, stmt) ==
  /\ process = "up" /\ watcher[d] = from
  /\ IF connected
     THEN /\ stmt
          /\ watcher' = [watcher EXCEPT ![d] = to]
          /\ holder' = IF to = "done" THEN None ELSE d
     ELSE /\ watcher' = [watcher EXCEPT ![d] = "lost"]
          /\ holder' = None
          /\ UNCHANGED connection
  /\ UNCHANGED <<process, connected, closer, stops>>

Begin(d, o) ==
  /\ holder = None
  /\ outcome' = [outcome EXCEPT ![d] = o]
  /\ Statement(d, "waiting", "began", BeginTx /\ UNCHANGED <<disk, view>>)

InsertEvent(d) ==
  /\ Statement(d, "began", "appended",
               /\ view.rows[d].state = "DISPATCHING"
               /\ Execute(AppendEvent(view, d, outcome[d])) /\ UNCHANGED inTx)
  /\ UNCHANGED outcome

UpdateProposal(d) ==
  /\ Statement(d, "appended", "flushed",
               Execute(FlushRow(view, d, outcome[d])) /\ UNCHANGED inTx)
  /\ UNCHANGED outcome

UpdateDispatch(d) ==
  /\ Statement(d, "flushed", "stored",
               Execute(StoreResult(view, d, outcome[d])) /\ UNCHANGED inTx)
  /\ UNCHANGED outcome

\* COMMIT without a transaction raises and changes nothing.
CommitReport(d) ==
  /\ Statement(d, "stored", "done", CommitTx /\ UNCHANGED view)
  /\ UNCHANGED outcome

\* A statement raises on the open connection: the report is rolled back and
\* its thread is gone.
ReportFails(d) ==
  /\ process = "up" /\ connected
  /\ \/ watcher[d] = "waiting" /\ holder = None
     \/ watcher[d] \in {"began", "appended", "flushed", "stored"}
  /\ inTx' = FALSE /\ view' = disk
  /\ watcher' = [watcher EXCEPT ![d] = "lost"]
  /\ holder' = None
  /\ UNCHANGED <<process, disk, connected, outcome, closer, stops>>

Watch(d) ==
  \/ \E o \in Outcomes : Begin(d, o)
  \/ InsertEvent(d) \/ UpdateProposal(d) \/ UpdateDispatch(d) \/ CommitReport(d)
  \/ ReportFails(d)

-----------------------------------------------------------------------------
(* Store.close: the clean flag, commit(), close(), and the file lock.      *)

NobodyWatches == \A d \in Dispatches : watcher[d] \in {"idle", "done", "lost"}

\* A command line process closes as soon as its command is answered, whoever
\* still waits; a careful host closes after its watchers.
MayClose == HostWaits => NobodyWatches

CloseFlag ==
  /\ process = "up" /\ closer = "open" /\ stops < MaxStops
  /\ MayClose
  /\ Execute(SetClean(view, TRUE))
  /\ closer' = "flagged"
  /\ stops' = stops + 1
  /\ UNCHANGED <<process, inTx, connected, threads>>

CloseCommit ==
  /\ process = "up" /\ closer = "flagged"
  /\ CommitTx
  /\ closer' = "committed"
  /\ UNCHANGED <<process, view, connected, threads, stops>>

\* What is uncommitted when the connection closes is rolled back.
CloseConnection ==
  /\ process = "up" /\ closer = "committed"
  /\ connected' = FALSE /\ inTx' = FALSE /\ view' = disk
  /\ closer' = "closed"
  /\ UNCHANGED <<process, disk, threads, stops>>

\* The lock goes; what threads are left can only fail on the connection.
Unlock ==
  /\ process = "up" /\ closer = "closed"
  /\ process' = "down"
  /\ UNCHANGED <<connection, threads, closer, stops>>

Close == CloseFlag \/ CloseCommit \/ CloseConnection \/ Unlock

Crash ==
  /\ process \in {"up", "recovering"} /\ stops < MaxStops
  /\ process' = "down"
  /\ connected' = FALSE /\ inTx' = FALSE /\ view' = disk
  /\ stops' = stops + 1
  /\ UNCHANGED <<disk, threads, closer>>

-----------------------------------------------------------------------------
(* The next start: _check_meta marks the run unclean, then the coordinator *)
(* finalizes every consumed dispatch without a result.                     *)

\* Fault: the flag of the last clean close stays.
LeaveFlag(v) == v
MarkUnclean(v) == SetClean(v, FALSE)

Open ==
  /\ process \in {"down", "failed"}
  /\ process' = "recovering"
  /\ disk' = MarkUnclean(disk)
  /\ view' = disk'
  /\ connected' = TRUE /\ inTx' = FALSE
  /\ holder' = None
  /\ watcher' = [d \in Dispatches |-> "idle"]
  /\ outcome' = [d \in Dispatches |-> None]
  /\ closer' = "open"
  /\ UNCHANGED stops

\* Fault: the state of the proposal is not looked at again.
ResultMissing(d) == disk.rows[d].result = None /\ disk.rows[d].state # "READY"
Interrupted(d) == disk.rows[d].result = None /\ disk.rows[d].state = "DISPATCHING"

\* An event is already stored under the number the row gives the next one:
\* the insertion breaks the primary key and the constructor raises.
NextTaken(d) == Len(disk.rows[d].events) > disk.rows[d].revision

Recover(d) ==
  /\ process = "recovering" /\ ~disk.clean /\ Interrupted(d)
  /\ IF NextTaken(d)
     THEN process' = "failed" /\ UNCHANGED <<disk, view>>
     ELSE /\ disk' = Report(disk, d, "unknown")
          /\ view' = disk'
          /\ UNCHANGED process
  /\ UNCHANGED <<inTx, connected, threads, closer, stops>>

Ready ==
  /\ process = "recovering"
  /\ disk.clean \/ \A d \in Dispatches : ~Interrupted(d)
  /\ process' = "up"
  /\ UNCHANGED <<connection, threads, closer, stops>>

-----------------------------------------------------------------------------
Next ==
  \/ Close \/ Crash \/ Open \/ Ready
  \/ \E d \in Dispatches : Consume(d) \/ Watch(d) \/ Recover(d)

\* A watcher waits at most DISPATCH_OBSERVE_MS and mutex holders release it; a
\* host that stopped starts again, and the constructor runs through.
Fairness ==
  /\ WF_vars(Open) /\ WF_vars(Ready) /\ WF_vars(CloseCommit)
  /\ WF_vars(CloseConnection) /\ WF_vars(Unlock)
  /\ \A d \in Dispatches : WF_vars(Watch(d)) /\ WF_vars(Recover(d))

Spec == Init /\ [][Next]_vars /\ Fairness

-----------------------------------------------------------------------------
Journals == [rows : [Dispatches -> [events : Seq({"CommitStarted"} \union Outcomes),
                                    revision : Nat,
                                    state : {"READY", "DISPATCHING"} \union Outcomes,
                                    result : {None} \union Outcomes]],
             clean : BOOLEAN]

\* Types of the journal and of the threads.
TypeOK ==
  /\ process \in {"down", "recovering", "up", "failed"}
  /\ disk \in Journals /\ view \in Journals
  /\ inTx \in BOOLEAN /\ connected \in BOOLEAN
  /\ holder \in Dispatches \union {None}
  /\ watcher \in [Dispatches -> WatcherStates]
  /\ outcome \in [Dispatches -> Outcomes \union {None}]
  /\ closer \in {"open", "flagged", "committed", "closed"}
  /\ stops \in 0 .. MaxStops

\* Whoever closes and whenever: the committed row of a proposal is never
\* ahead of its stream, and its state is the one the stream gives at its
\* revision (the event is inserted before the row that counts it).
RowFromStream ==
  \A d \in Dispatches :
    LET r == disk.rows[d] IN
    /\ r.revision <= Len(r.events)
    /\ r.revision = 2 => r.state = r.events[2]
    /\ r.revision = 1 => r.state = "DISPATCHING"

\* One outcome per dispatch, though reports may be cut off at any statement
\* and recovered from what happened to be committed.
OneOutcome == \A d \in Dispatches : Len(disk.rows[d].events) <= 2

\* A host that closes after its watchers: a report is on disk as a whole or
\* not at all, through crashes at every statement.
ReportsAtomic ==
  \A d \in Dispatches :
    LET r == disk.rows[d] IN
    /\ Len(r.events) = r.revision
    /\ r.result = None <=> r.state \in {"READY", "DISPATCHING"}

\* Every consumed dispatch is resolved, over crashes and clean closes, unless
\* its watcher was lost; and then it is by the next start.
DispatchesResolve ==
  \A d \in Dispatches :
    /\ disk.rows[d].state = "DISPATCHING"
         ~> disk.rows[d].state \in Outcomes \/ watcher[d] = "lost"
    /\ (disk.rows[d].state = "DISPATCHING" /\ process # "up")
         ~> disk.rows[d].state \in Outcomes

\* A start finalizes every interrupted dispatch and becomes ready
\* (coordinator.py's introduction, "Crash discipline").
StartSucceeds == process # "failed"
=============================================================================
