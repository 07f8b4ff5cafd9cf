---------------------------- MODULE JournalProofs ----------------------------
(***************************************************************************)
(* What the journal and the inbox hold wherever the process or the machine *)
(* stops, for any dispatches, keys and numbers of stops.                   *)
(*                                                                         *)
(* A row is only ever in one of five shapes, those the statements of a     *)
(* report leave behind one after the other, and on an open connection the  *)
(* place of its watcher says which (JournalInv); only the row of the       *)
(* watcher with the mutex can be uncommitted (Owned).  If the host waits   *)
(* for its watchers, three shapes are ever on disk (CarefulInv).  A call   *)
(* to the inbox knows what it has written and synced, and an acknowledged  *)
(* row on which of the two it rests (InboxInv).                            *)
(***************************************************************************)
EXTENDS Journal, DispatchProofs

-----------------------------------------------------------------------------
(* Reports that Store.close may cut off.                                   *)

\* What the row of a dispatch can look like: its event is inserted, then its
\* proposal updated, then its result stored.
Begun == [events |-> <<"CommitStarted">>, revision |-> 1, state |-> "DISPATCHING",
          result |-> None]
Ended(o) == Append(<<"CommitStarted">>, o)
Appended(o) == [events |-> Ended(o), revision |-> 1, state |-> "DISPATCHING",
                result |-> None]
Flushed(o) == [Appended(o) EXCEPT !.revision = @ + 1, !.state = o]
Stored(o) == [Flushed(o) EXCEPT !.result = o]

RowShapes ==
  {Hasty!Row, Begun} \union {Appended(o) : o \in Reported}
    \union {Flushed(o) : o \in Reported} \union {Stored(o) : o \in Reported}

Shaped == [rows : [WatchedDispatches -> RowShapes], clean : BOOLEAN]

\* Where a watcher is on an open connection is what it has written.
Written(d) ==
  /\ watcher[d] \in {"waiting", "began"} => view.rows[d] = Begun
  /\ watcher[d] = "appended" => view.rows[d] = Appended(reported[d])
  /\ watcher[d] = "flushed" => view.rows[d] = Flushed(reported[d])
  /\ watcher[d] = "stored" => view.rows[d] = Stored(reported[d])

Reporting(d) == watcher[d] \in {"began", "appended", "flushed", "stored"}

JournalInv ==
  /\ disk \in Shaped /\ view \in Shaped
  /\ watcher \in [WatchedDispatches -> Hasty!WatcherStates]
  /\ reported \in [WatchedDispatches -> Reported \union {None}]
  /\ \A d \in WatchedDispatches : Reporting(d) => reported[d] \in Reported
  /\ process = "recovering" => \A d \in WatchedDispatches : watcher[d] = "idle"
  /\ connected => \A d \in WatchedDispatches : Written(d)

\* Whoever reports has the mutex, and what is not committed is in his row.
Owned ==
  /\ process = "up" => \A d \in WatchedDispatches : Reporting(d) => holder = d
  /\ holder = None \/ ~connected => ~inTx
  /\ \A d \in WatchedDispatches :
       d # holder \/ ~connected => view.rows[d] = disk.rows[d]

LEMMA OutcomeNames ==
  /\ None \notin Reported /\ None \notin WatchedDispatches /\ "unknown" \in Reported
  /\ {"CommitStarted", "READY", "DISPATCHING"} \cap Reported = {}
BY PartsAssumption DEF Hasty!ShutdownAssumption

LEMMA EndedEvents == \A o \in Reported : Len(Ended(o)) = 2 /\ Ended(o)[2] = o
BY DEF Ended

LEMMA Fields ==
  ASSUME NEW o \in Reported
  PROVE  /\ Appended(o).events = Ended(o) /\ Appended(o).revision = 1
         /\ Appended(o).state = "DISPATCHING"
         /\ Flushed(o).events = Ended(o) /\ Flushed(o).revision = 2 /\ Flushed(o).state = o
         /\ Stored(o).events = Ended(o) /\ Stored(o).revision = 2 /\ Stored(o).state = o
<1>1. /\ Appended(o).events = Ended(o) /\ Appended(o).revision = 1
      /\ Appended(o).state = "DISPATCHING"
  BY DEF Appended
<1>2. DOMAIN Appended(o) = {"events", "revision", "state", "result"}
  BY DEF Appended
<1>3. Flushed(o).events = Ended(o) /\ Flushed(o).revision = 2 /\ Flushed(o).state = o
      /\ DOMAIN Flushed(o) = {"events", "revision", "state", "result"}
  BY <1>1, <1>2 DEF Flushed
<1>4. Stored(o).events = Ended(o) /\ Stored(o).revision = 2 /\ Stored(o).state = o
  BY <1>3 DEF Stored
<1> QED BY <1>1, <1>3, <1>4

LEMMA ShapesInclude ==
  ASSUME NEW o \in Reported
  PROVE  /\ Appended(o) \in RowShapes /\ Flushed(o) \in RowShapes /\ Stored(o) \in RowShapes
         /\ Begun \in RowShapes /\ Hasty!Row \in RowShapes
BY DEF RowShapes

\* What the statements of a report make of a row.
LEMMA Statements ==
  ASSUME NEW v \in Shaped, NEW d \in WatchedDispatches, NEW o \in Reported
  PROVE  /\ v.rows[d] = Begun =>
              Hasty!AppendEvent(v, d, o) = [v EXCEPT !.rows[d] = Appended(o)]
         /\ v.rows[d] = Appended(o) =>
              Hasty!FlushRow(v, d, o) = [v EXCEPT !.rows[d] = Flushed(o)]
         /\ v.rows[d] = Flushed(o) =>
              Hasty!StoreResult(v, d, o) = [v EXCEPT !.rows[d] = Stored(o)]
<1>1. /\ v = [rows |-> v.rows, clean |-> v.clean]
      /\ v.rows = [x \in WatchedDispatches |-> v.rows[x]]
  BY DEF Shaped
<1>2. ASSUME v.rows[d] = Begun
      PROVE  Hasty!AppendEvent(v, d, o) = [v EXCEPT !.rows[d] = Appended(o)]
  <2>2. [v.rows[d] EXCEPT !.events = Append(@, o)] = Appended(o)
    BY <1>2 DEF Begun, Appended, Ended
  <2>3. Hasty!AppendEvent(v, d, o)
          = [v EXCEPT !.rows[d] = [v.rows[d] EXCEPT !.events = Append(@, o)]]
    BY DEF Hasty!AppendEvent
  <2> QED BY <2>2, <2>3
<1>3. ASSUME v.rows[d] = Appended(o)
      PROVE  Hasty!FlushRow(v, d, o) = [v EXCEPT !.rows[d] = Flushed(o)]
  <2>2. [v.rows[d] EXCEPT !.revision = @ + 1, !.state = o] = Flushed(o)
    BY <1>3 DEF Flushed
  <2>3. Hasty!FlushRow(v, d, o)
          = [v EXCEPT !.rows[d] = [v.rows[d] EXCEPT !.revision = @ + 1, !.state = o]]
    BY <1>1 DEF Hasty!FlushRow
  <2> QED BY <2>2, <2>3
<1>4. ASSUME v.rows[d] = Flushed(o)
      PROVE  Hasty!StoreResult(v, d, o) = [v EXCEPT !.rows[d] = Stored(o)]
  <2>2. [v.rows[d] EXCEPT !.result = o] = Stored(o)
    BY <1>4 DEF Stored
  <2>3. Hasty!StoreResult(v, d, o)
          = [v EXCEPT !.rows[d] = [v.rows[d] EXCEPT !.result = o]]
    BY <1>1 DEF Hasty!StoreResult
  <2> QED BY <2>2, <2>3
<1> QED BY <1>2, <1>3, <1>4

LEMMA WriteShaped ==
  ASSUME NEW v \in Shaped, NEW d \in WatchedDispatches, NEW r \in RowShapes
  PROVE  /\ [v EXCEPT !.rows[d] = r] \in Shaped
         /\ [v EXCEPT !.rows[d] = r].rows[d] = r
         /\ \A x \in WatchedDispatches : x # d => [v EXCEPT !.rows[d] = r].rows[x] = v.rows[x]
BY DEF Shaped

LEMMA FlagShaped ==
  ASSUME NEW v \in Shaped, NEW b \in BOOLEAN
  PROVE  Hasty!SetClean(v, b) \in Shaped /\ Hasty!SetClean(v, b).rows = v.rows
BY DEF Shaped, Hasty!SetClean

\* A statement that writes one row, whose watcher moves on.
LEMMA RowWritten ==
  ASSUME JournalInv, NEW d \in WatchedDispatches, NEW r \in RowShapes,
         process = "up", process' = process, connected' = connected,
         Hasty!Execute([view EXCEPT !.rows[d] = r]), NEW to \in Hasty!WatcherStates,
         watcher' = [watcher EXCEPT ![d] = to], reported' = reported,
         connected => Written(d)', Reporting(d)' => reported[d] \in Reported
  PROVE  JournalInv'
<1>1. view' \in Shaped /\ disk' \in Shaped
      /\ \A x \in WatchedDispatches : x # d => view'.rows[x] = view.rows[x]
  BY WriteShaped DEF JournalInv, Hasty!Execute
<1>2. \A x \in WatchedDispatches : x # d => watcher'[x] = watcher[x]
  BY DEF JournalInv
<1>3. watcher' \in [WatchedDispatches -> Hasty!WatcherStates]
  BY DEF JournalInv
<1> QED BY <1>1, <1>2, <1>3 DEF JournalInv, Written, Reporting

\* A step that writes nothing and moves one watcher.
LEMMA WatcherMoved ==
  ASSUME JournalInv, NEW d \in WatchedDispatches, view' = view, disk' \in {disk, view},
         process = "up", process' = process, connected' = connected,
         NEW to \in Hasty!WatcherStates, watcher' = [watcher EXCEPT ![d] = to],
         reported' \in [WatchedDispatches -> Reported \union {None}],
         \A x \in WatchedDispatches : x # d => reported'[x] = reported[x],
         Reporting(d)' => reported'[d] \in Reported, connected => Written(d)'
  PROVE  JournalInv'
<1>1. \A x \in WatchedDispatches : x # d => watcher'[x] = watcher[x]
  BY DEF JournalInv
<1>2. watcher' \in [WatchedDispatches -> Hasty!WatcherStates]
  BY DEF JournalInv
<1> QED BY <1>1, <1>2 DEF JournalInv, Written, Reporting

LEMMA ConsumeKeeps ==
  ASSUME JournalInv, NEW d \in WatchedDispatches, Hasty!Consume(d)
  PROVE  JournalInv'
<1>1. Hasty!Execute([view EXCEPT !.rows[d] = Begun])
  BY DEF Hasty!Consume, Begun
<1>2. PICK to \in {"waiting", "lost"} : watcher' = [watcher EXCEPT ![d] = to]
  BY DEF Hasty!Consume
<1>3. to \in Hasty!WatcherStates /\ Begun \in RowShapes /\ watcher'[d] = to
  BY <1>2, OutcomeNames, ShapesInclude DEF Hasty!WatcherStates, JournalInv
<1>4. view \in Shaped /\ view' = [view EXCEPT !.rows[d] = Begun]
  BY <1>1 DEF Hasty!Execute, JournalInv
<1>5. view'.rows[d] = Begun
  BY <1>3, <1>4, WriteShaped
<1> QED BY <1>1, <1>2, <1>3, <1>5, RowWritten DEF Hasty!Consume, Written, Reporting

\* On a closed connection the thread is gone.
LEMMA ConnectionLost ==
  ASSUME JournalInv, NEW d \in WatchedDispatches, NEW from, NEW to, NEW stmt,
         Hasty!Statement(d, from, to, stmt), ~connected,
         reported' \in [WatchedDispatches -> Reported \union {None}],
         \A x \in WatchedDispatches : x # d => reported'[x] = reported[x]
  PROVE  JournalInv'
<1>1. /\ watcher' = [watcher EXCEPT ![d] = "lost"] /\ "lost" \in Hasty!WatcherStates
      /\ process = "up" /\ UNCHANGED <<process, connected, disk, view>>
  BY DEF Hasty!Statement, Hasty!connection, Hasty!WatcherStates
<1>2. watcher'[d] = "lost"
  BY <1>1 DEF JournalInv
<1> QED BY <1>1, <1>2, WatcherMoved DEF Reporting

\* A report that is rolled back leaves the rows of the others as they were.
LEMMA FailedReportKeeps ==
  ASSUME JournalInv, Owned, NEW d \in WatchedDispatches, Hasty!ReportFails(d)
  PROVE  JournalInv'
<1>1. /\ process = "up" /\ view' = disk /\ watcher' = [watcher EXCEPT ![d] = "lost"]
      /\ UNCHANGED <<process, disk, connected, reported>>
      /\ holder = None \/ Reporting(d)
  BY DEF Hasty!ReportFails, Reporting
<1>2. "lost" \in Hasty!WatcherStates /\ watcher'[d] = "lost"
      /\ \A x \in WatchedDispatches : x # d => watcher'[x] = watcher[x]
  BY <1>1 DEF Hasty!WatcherStates, JournalInv
<1>3. watcher' \in [WatchedDispatches -> Hasty!WatcherStates]
  BY <1>1, <1>2 DEF JournalInv
<1>4. ASSUME NEW x \in WatchedDispatches, x # d
      PROVE  view'.rows[x] = view.rows[x]
  BY <1>1, <1>4, OutcomeNames DEF Owned
<1> QED BY <1>1, <1>2, <1>3, <1>4 DEF JournalInv, Written, Reporting

LEMMA WatchKeeps ==
  ASSUME JournalInv, Owned, NEW d \in WatchedDispatches, Hasty!Watch(d)
  PROVE  JournalInv'
<1> DEFINE o == reported[d]
<1>0. \A to : watcher' = [watcher EXCEPT ![d] = to] => watcher'[d] = to
  BY DEF JournalInv
<1>1. ASSUME NEW out \in Reported, Hasty!Begin(d, out) PROVE JournalInv'
  <2>1. /\ reported' \in [WatchedDispatches -> Reported \union {None}]
        /\ \A x \in WatchedDispatches : x # d => reported'[x] = reported[x]
        /\ reported'[d] = out
    BY <1>1 DEF Hasty!Begin, JournalInv
  <2>2. CASE ~connected
    BY <1>1, <2>1, <2>2, ConnectionLost DEF Hasty!Begin
  <2>3. CASE connected
    <3>1. /\ watcher[d] = "waiting" /\ watcher' = [watcher EXCEPT ![d] = "began"]
          /\ process = "up" /\ UNCHANGED <<process, connected, disk, view>>
      BY <1>1, <2>3 DEF Hasty!Begin, Hasty!Statement, Hasty!BeginTx
    <3>2. "began" \in Hasty!WatcherStates /\ watcher'[d] = "began"
      BY <1>0, <3>1 DEF Hasty!WatcherStates
    <3>3. Written(d)'
      BY <2>3, <3>1, <3>2 DEF JournalInv, Written
    <3> QED BY <1>1, <2>1, <3>1, <3>2, <3>3, WatcherMoved DEF Reporting
  <2> QED BY <2>2, <2>3
<1>2. CASE Hasty!InsertEvent(d)
  <2>1. CASE ~connected
    BY <1>2, <2>1, ConnectionLost DEF Hasty!InsertEvent, JournalInv
  <2>2. CASE connected
    <3>1. /\ watcher[d] = "began" /\ watcher' = [watcher EXCEPT ![d] = "appended"]
          /\ process = "up" /\ UNCHANGED <<process, connected, reported>>
          /\ Hasty!Execute(Hasty!AppendEvent(view, d, o))
      BY <1>2, <2>2 DEF Hasty!InsertEvent, Hasty!Statement
    <3>2. o \in Reported /\ view \in Shaped /\ view.rows[d] = Begun
      BY <2>2, <3>1 DEF JournalInv, Reporting, Written
    <3>3. Hasty!Execute([view EXCEPT !.rows[d] = Appended(o)]) /\ Appended(o) \in RowShapes
      BY <3>1, <3>2, Statements, ShapesInclude
    <3>4. "appended" \in Hasty!WatcherStates /\ watcher'[d] = "appended"
      BY <1>0, <3>1 DEF Hasty!WatcherStates
    <3>5. view'.rows[d] = Appended(o)
      BY <3>2, <3>3, WriteShaped DEF Hasty!Execute
    <3> QED BY <3>1, <3>2, <3>3, <3>4, <3>5, RowWritten DEF Written
  <2> QED BY <2>1, <2>2
<1>3. CASE Hasty!UpdateProposal(d)
  <2>1. CASE ~connected
    BY <1>3, <2>1, ConnectionLost DEF Hasty!UpdateProposal, JournalInv
  <2>2. CASE connected
    <3>1. /\ watcher[d] = "appended" /\ watcher' = [watcher EXCEPT ![d] = "flushed"]
          /\ process = "up" /\ UNCHANGED <<process, connected, reported>>
          /\ Hasty!Execute(Hasty!FlushRow(view, d, o))
      BY <1>3, <2>2 DEF Hasty!UpdateProposal, Hasty!Statement
    <3>2. o \in Reported /\ view \in Shaped /\ view.rows[d] = Appended(o)
      BY <2>2, <3>1 DEF JournalInv, Reporting, Written
    <3>3. Hasty!Execute([view EXCEPT !.rows[d] = Flushed(o)]) /\ Flushed(o) \in RowShapes
      BY <3>1, <3>2, Statements, ShapesInclude
    <3>4. "flushed" \in Hasty!WatcherStates /\ watcher'[d] = "flushed"
      BY <1>0, <3>1 DEF Hasty!WatcherStates
    <3>5. view'.rows[d] = Flushed(o)
      BY <3>2, <3>3, WriteShaped DEF Hasty!Execute
    <3> QED BY <3>1, <3>2, <3>3, <3>4, <3>5, RowWritten DEF Written
  <2> QED BY <2>1, <2>2
<1>4. CASE Hasty!UpdateDispatch(d)
  <2>1. CASE ~connected
    BY <1>4, <2>1, ConnectionLost DEF Hasty!UpdateDispatch, JournalInv
  <2>2. CASE connected
    <3>1. /\ watcher[d] = "flushed" /\ watcher' = [watcher EXCEPT ![d] = "stored"]
          /\ process = "up" /\ UNCHANGED <<process, connected, reported>>
          /\ Hasty!Execute(Hasty!StoreResult(view, d, o))
      BY <1>4, <2>2 DEF Hasty!UpdateDispatch, Hasty!Statement
    <3>2. o \in Reported /\ view \in Shaped /\ view.rows[d] = Flushed(o)
      BY <2>2, <3>1 DEF JournalInv, Reporting, Written
    <3>3. Hasty!Execute([view EXCEPT !.rows[d] = Stored(o)]) /\ Stored(o) \in RowShapes
      BY <3>1, <3>2, Statements, ShapesInclude
    <3>4. "stored" \in Hasty!WatcherStates /\ watcher'[d] = "stored"
      BY <1>0, <3>1 DEF Hasty!WatcherStates
    <3>5. view'.rows[d] = Stored(o)
      BY <3>2, <3>3, WriteShaped DEF Hasty!Execute
    <3> QED BY <3>1, <3>2, <3>3, <3>4, <3>5, RowWritten DEF Written
  <2> QED BY <2>1, <2>2
<1>5. CASE Hasty!CommitReport(d)
  <2>1. CASE ~connected
    BY <1>5, <2>1, ConnectionLost DEF Hasty!CommitReport, JournalInv
  <2>2. CASE connected
    <3>1. /\ watcher' = [watcher EXCEPT ![d] = "done"]
          /\ process = "up" /\ UNCHANGED <<process, connected, reported, view>>
          /\ disk' = view
      BY <1>5, <2>2 DEF Hasty!CommitReport, Hasty!Statement, Hasty!CommitTx
    <3>2. "done" \in Hasty!WatcherStates /\ watcher'[d] = "done"
      BY <1>0, <3>1 DEF Hasty!WatcherStates
    <3> QED BY <3>1, <3>2, WatcherMoved DEF Written, Reporting, JournalInv
  <2> QED BY <2>1, <2>2
<1> QED BY <1>1, <1>2, <1>3, <1>4, <1>5, FailedReportKeeps DEF Hasty!Watch

LEMMA CloseKeeps ==
  ASSUME JournalInv, Hasty!Close
  PROVE  JournalInv'
<1>1. CASE Hasty!CloseFlag
  <2>1. /\ Hasty!Execute(Hasty!SetClean(view, TRUE))
        /\ UNCHANGED <<process, connected, watcher, reported>>
    BY <1>1 DEF Hasty!CloseFlag, Hasty!threads
  <2>2. view' \in Shaped /\ disk' \in Shaped /\ view'.rows = view.rows
    BY <2>1, FlagShaped DEF Hasty!Execute, JournalInv
  <2> QED BY <2>1, <2>2 DEF JournalInv, Written, Reporting
<1>2. CASE Hasty!CloseCommit
  BY <1>2 DEF Hasty!CloseCommit, Hasty!CommitTx, Hasty!threads, JournalInv, Written, Reporting
<1>3. CASE Hasty!CloseConnection
  BY <1>3 DEF Hasty!CloseConnection, Hasty!threads, JournalInv, Written, Reporting
<1>4. CASE Hasty!Unlock
  BY <1>4 DEF Hasty!Unlock, Hasty!connection, Hasty!threads, JournalInv, Written, Reporting
<1> QED BY <1>1, <1>2, <1>3, <1>4 DEF Hasty!Close

LEMMA RecoverKeeps ==
  ASSUME JournalInv, NEW d \in WatchedDispatches, Hasty!Recover(d)
  PROVE  JournalInv'
<1>0. /\ process = "recovering" /\ Hasty!Interrupted(d)
      /\ \A x \in WatchedDispatches : watcher[x] = "idle"
      /\ UNCHANGED <<connected, watcher, reported>>
  BY DEF Hasty!Recover, Hasty!threads, JournalInv
<1>1. CASE Hasty!NextTaken(d)
  BY <1>0, <1>1 DEF Hasty!Recover, JournalInv, Written, Reporting
<1>2. CASE ~Hasty!NextTaken(d)
  <2>1. disk' = Hasty!Report(disk, d, "unknown") /\ view' = disk' /\ process' = process
    BY <1>2 DEF Hasty!Recover
  <2>2. disk.rows[d] = Begun
    <3>1. disk.rows[d] \in RowShapes /\ disk.rows[d].state = "DISPATCHING"
      BY <1>0 DEF JournalInv, Shaped, Hasty!Interrupted
    <3>2. ASSUME NEW o \in Reported PROVE disk.rows[d] # Appended(o)
      <4> SUFFICES ASSUME disk.rows[d] = Appended(o) PROVE FALSE
        OBVIOUS
      <4>1. disk.rows[d].events = Ended(o) /\ disk.rows[d].revision = 1
        BY DEF Appended
      <4> QED BY <1>2, <4>1, EndedEvents DEF Hasty!NextTaken
    <3>3. ASSUME NEW o \in Reported PROVE disk.rows[d] # Flushed(o) /\ disk.rows[d] # Stored(o)
      BY <3>1, OutcomeNames, Fields
    <3>4. disk.rows[d] # Hasty!Row
      BY <3>1 DEF Hasty!Row
    <3> QED BY <3>1, <3>2, <3>3, <3>4 DEF RowShapes
  <2>3. "unknown" \in Reported /\ disk \in Shaped
    BY OutcomeNames DEF JournalInv
  <2> DEFINE v1 == [disk EXCEPT !.rows[d] = Appended("unknown")]
             v2 == [v1 EXCEPT !.rows[d] = Flushed("unknown")]
             v3 == [v2 EXCEPT !.rows[d] = Stored("unknown")]
  <2>4. v1 \in Shaped /\ v1.rows[d] = Appended("unknown")
    BY <2>3, WriteShaped, ShapesInclude
  <2>5. v2 \in Shaped /\ v2.rows[d] = Flushed("unknown")
    <3> HIDE DEF v1
    <3> QED BY <2>3, <2>4, WriteShaped, ShapesInclude
  <2>6. v3 \in Shaped
    <3> HIDE DEF v2
    <3> QED BY <2>3, <2>5, WriteShaped, ShapesInclude
  <2>7. Hasty!AppendEvent(disk, d, "unknown") = v1
    BY <2>2, <2>3, Statements
  <2>8. Hasty!FlushRow(v1, d, "unknown") = v2
    <3> HIDE DEF v1
    <3> QED BY <2>3, <2>4, Statements
  <2>9. Hasty!StoreResult(v2, d, "unknown") = v3
    <3> HIDE DEF v2
    <3> QED BY <2>3, <2>5, Statements
  <2>10. disk' = v3
    <3> HIDE DEF v1, v2, v3
    <3> QED BY <2>1, <2>7, <2>8, <2>9 DEF Hasty!Report
  <2> HIDE DEF v3
  <2> QED BY <1>0, <2>1, <2>6, <2>10 DEF JournalInv, Written, Reporting
<1> QED BY <1>1, <1>2

\* A step that moves one watcher, and the mutex from or to it.
LEMMA MutexMoves ==
  ASSUME JournalInv, Owned, NEW d \in WatchedDispatches, process = "up",
         NEW to, watcher' = [watcher EXCEPT ![d] = to],
         Reporting(d) \/ holder = None, holder' \in {d, None},
         Reporting(d)' => holder' = d
  PROVE  \A x \in WatchedDispatches : Reporting(x)' => holder' = x
BY OutcomeNames DEF Owned, Reporting, JournalInv

LEMMA WatchOwned ==
  ASSUME JournalInv, Owned, NEW d \in WatchedDispatches, Hasty!Watch(d)
  PROVE  Owned'
<1>0. /\ process = "up" /\ process' = process /\ connected' = connected
      /\ Reporting(d) \/ holder = None
  BY DEF Hasty!Watch, Hasty!Begin, Hasty!InsertEvent, Hasty!UpdateProposal,
     Hasty!UpdateDispatch, Hasty!CommitReport, Hasty!ReportFails, Hasty!Statement,
     Hasty!connection, Reporting
<1>1. CASE holder' = None /\ view'.rows = disk'.rows /\ ~inTx'
           /\ \E to \in {"done", "lost"} : watcher' = [watcher EXCEPT ![d] = to]
  <2>1. ~Reporting(d)'
    BY <1>1 DEF Reporting, JournalInv
  <2> QED BY <1>0, <1>1, <2>1, MutexMoves DEF Owned
<1>2. CASE Hasty!ReportFails(d)
  BY <1>1, <1>2 DEF Hasty!ReportFails
<1>3. CASE ~connected /\ ~Hasty!ReportFails(d)
  <2>1. /\ holder' = None /\ UNCHANGED <<view, disk, inTx>>
        /\ watcher' = [watcher EXCEPT ![d] = "lost"]
    BY <1>3 DEF Hasty!Watch, Hasty!Begin, Hasty!InsertEvent, Hasty!UpdateProposal,
       Hasty!UpdateDispatch, Hasty!CommitReport, Hasty!Statement, Hasty!connection
  <2>2. view.rows = disk.rows
    BY <1>3 DEF Owned, JournalInv, Shaped
  <2> QED BY <1>1, <1>3, <2>1, <2>2 DEF Owned
<1>4. CASE connected /\ Hasty!CommitReport(d)
  BY <1>1, <1>4 DEF Hasty!CommitReport, Hasty!Statement, Hasty!CommitTx
<1>5. CASE connected /\ \E o \in Reported : Hasty!Begin(d, o)
  <2>1. /\ holder = None /\ holder' = d /\ inTx' /\ UNCHANGED <<view, disk>>
        /\ watcher' = [watcher EXCEPT ![d] = "began"]
    BY <1>5 DEF Hasty!Begin, Hasty!Statement, Hasty!BeginTx
  <2> QED BY <1>0, <1>5, <2>1, OutcomeNames, MutexMoves DEF Owned
<1>6. CASE connected /\ (\/ Hasty!InsertEvent(d) \/ Hasty!UpdateProposal(d)
                        \/ Hasty!UpdateDispatch(d))
  <2>1. /\ holder' = d /\ inTx' = inTx
        /\ \E to \in {"appended", "flushed", "stored"} :
             watcher' = [watcher EXCEPT ![d] = to]
    BY <1>6 DEF Hasty!InsertEvent, Hasty!UpdateProposal, Hasty!UpdateDispatch,
       Hasty!Statement
  <2>2. Reporting(d)
    BY <1>6 DEF Hasty!InsertEvent, Hasty!UpdateProposal, Hasty!UpdateDispatch,
       Hasty!Statement, Reporting
  <2>3. \E v : /\ Hasty!Execute(v)
              /\ \A x \in WatchedDispatches : x # d => v.rows[x] = view.rows[x]
    <3>1. \/ Hasty!Execute(Hasty!AppendEvent(view, d, reported[d]))
          \/ Hasty!Execute(Hasty!FlushRow(view, d, reported[d]))
          \/ Hasty!Execute(Hasty!StoreResult(view, d, reported[d]))
      BY <1>6 DEF Hasty!InsertEvent, Hasty!UpdateProposal, Hasty!UpdateDispatch,
         Hasty!Statement
    <3>2. \A x \in WatchedDispatches : x # d =>
            /\ Hasty!AppendEvent(view, d, reported[d]).rows[x] = view.rows[x]
            /\ Hasty!FlushRow(view, d, reported[d]).rows[x] = view.rows[x]
            /\ Hasty!StoreResult(view, d, reported[d]).rows[x] = view.rows[x]
      BY DEF Hasty!AppendEvent, Hasty!FlushRow, Hasty!StoreResult, JournalInv, Shaped
    <3> QED BY <3>1, <3>2
  <2>4. \A x \in WatchedDispatches : x # d => view'.rows[x] = disk'.rows[x]
    BY <1>0, <2>2, <2>3 DEF Owned, Hasty!Execute
  <2> QED BY <1>0, <1>6, <2>1, <2>2, <2>4, OutcomeNames, MutexMoves DEF Owned
<1> QED BY <1>2, <1>3, <1>4, <1>5, <1>6 DEF Hasty!Watch

LEMMA OwnedStep ==
  ASSUME JournalInv, Owned, [Hasty!Next]_Hasty!vars
  PROVE  Owned'
<1>1. ASSUME NEW d \in WatchedDispatches, Hasty!Consume(d) PROVE Owned'
  <2>1. /\ process = "up" /\ holder = None
        /\ UNCHANGED <<process, inTx, connected, holder>>
        /\ \E to \in {"waiting", "lost"} : watcher' = [watcher EXCEPT ![d] = to]
    BY <1>1 DEF Hasty!Consume
  <2>2. ~inTx /\ view' = disk'
    BY <1>1, <2>1 DEF Owned, Hasty!Consume, Hasty!Execute
  <2>3. ~Reporting(d)'
    BY <2>1 DEF Reporting, JournalInv
  <2> QED BY <2>1, <2>2, <2>3, MutexMoves DEF Owned
<1>2. CASE Hasty!CloseFlag
  <2>1. view'.rows = view.rows /\ disk'.rows \in {disk.rows, view.rows}
        /\ (~inTx => disk'.rows = view'.rows) /\ (inTx => disk' = disk)
    BY <1>2, FlagShaped DEF Hasty!CloseFlag, Hasty!Execute, JournalInv
  <2>2. UNCHANGED <<process, inTx, connected, holder, watcher>>
    BY <1>2 DEF Hasty!CloseFlag, Hasty!threads
  <2> QED BY <2>1, <2>2 DEF Owned, Reporting
<1>3. CASE Hasty!CloseCommit \/ Hasty!CloseConnection \/ Hasty!Unlock
  BY <1>3 DEF Hasty!CloseCommit, Hasty!CloseConnection, Hasty!Unlock, Hasty!CommitTx,
     Hasty!connection, Hasty!threads, Owned, Reporting
<1>4. CASE Hasty!Crash
  BY <1>4 DEF Hasty!Crash, Hasty!threads, Owned
<1>5. CASE Hasty!Open
  BY <1>5 DEF Hasty!Open, Owned
<1>6. CASE Hasty!Ready
  BY <1>6 DEF Hasty!Ready, Hasty!connection, Hasty!threads, JournalInv, Owned, Reporting
<1>7. ASSUME NEW d \in WatchedDispatches, Hasty!Recover(d) PROVE Owned'
  <2>1. /\ process' # "up" /\ UNCHANGED <<inTx, connected, holder>>
        /\ UNCHANGED <<disk, view>> \/ view' = disk'
    BY <1>7 DEF Hasty!Recover, Hasty!threads
  <2> QED BY <2>1 DEF Owned
<1>8. CASE UNCHANGED Hasty!vars
  BY <1>8 DEF Hasty!vars, Owned, Reporting
<1> QED BY <1>1, <1>2, <1>3, <1>4, <1>5, <1>6, <1>7, <1>8, WatchOwned
     DEF Hasty!Next, Hasty!Close

LEMMA JournalInvInit == Hasty!Init => JournalInv /\ Owned
<1> SUFFICES ASSUME Hasty!Init PROVE JournalInv /\ Owned
  OBVIOUS
<1>1. disk \in Shaped
  <2>1. Hasty!Row \in RowShapes
    BY OutcomeNames, ShapesInclude
  <2> QED BY <2>1 DEF Hasty!Init, Shaped
<1> QED BY <1>1 DEF Hasty!Init, JournalInv, Owned, Written, Reporting, Hasty!WatcherStates

LEMMA JournalInvStep ==
  JournalInv /\ Owned /\ [Hasty!Next]_Hasty!vars => (JournalInv /\ Owned)'
<1> SUFFICES ASSUME JournalInv, Owned, [Hasty!Next]_Hasty!vars PROVE JournalInv'
  BY OwnedStep
<1>1. CASE Hasty!Crash
  BY <1>1 DEF Hasty!Crash, Hasty!threads, JournalInv, Written, Reporting
<1>2. CASE Hasty!Open
  <2>1. /\ disk' \in Shaped /\ view' \in Shaped
        /\ watcher' = [x \in WatchedDispatches |-> "idle"]
        /\ reported' = [x \in WatchedDispatches |-> None]
    BY <1>2, FlagShaped DEF Hasty!Open, Hasty!MarkUnclean, JournalInv
  <2> QED BY <2>1 DEF JournalInv, Written, Reporting, Hasty!WatcherStates
<1>3. CASE Hasty!Ready
  BY <1>3 DEF Hasty!Ready, Hasty!connection, Hasty!threads, JournalInv, Written, Reporting
<1>4. CASE UNCHANGED Hasty!vars
  BY <1>4 DEF Hasty!vars, JournalInv, Written, Reporting
<1> QED BY <1>1, <1>2, <1>3, <1>4, CloseKeeps, ConsumeKeeps, WatchKeeps, RecoverKeeps
     DEF Hasty!Next

LEMMA JournalInvAlways ==
  Hasty!Init /\ [][Hasty!Next]_Hasty!vars => [](JournalInv /\ Owned)
BY JournalInvInit, JournalInvStep, PTL

\* What a row in one of the shapes says of its stream.
LEMMA ShapeSays ==
  ASSUME NEW r \in RowShapes
  PROVE  /\ Len(r.events) <= 2 /\ r.revision <= Len(r.events)
         /\ r.revision = 2 => r.state = r.events[2]
         /\ r.revision = 1 => r.state = "DISPATCHING"
<1>1. CASE r = Hasty!Row
  BY <1>1 DEF Hasty!Row
<1>2. CASE r = Begun
  BY <1>2 DEF Begun
<1>3. ASSUME NEW o \in Reported, r \in {Appended(o), Flushed(o), Stored(o)}
      PROVE  /\ Len(r.events) <= 2 /\ r.revision <= Len(r.events)
             /\ r.revision = 2 => r.state = r.events[2]
             /\ r.revision = 1 => r.state = "DISPATCHING"
  <2>1. CASE r = Appended(o)
    <3>1. r.events = Ended(o) /\ r.revision = 1 /\ r.state = "DISPATCHING"
      BY <2>1, Fields
    <3>2. Len(r.events) = 2
      BY <3>1, EndedEvents
    <3> QED BY <3>1, <3>2
  <2>2. CASE r = Flushed(o) \/ r = Stored(o)
    <3>1. r.events = Ended(o) /\ r.revision = 2 /\ r.state = o
      BY <2>2, Fields
    <3> QED BY <3>1, EndedEvents
  <2> QED BY <1>3, <2>1, <2>2
<1> QED BY <1>1, <1>2, <1>3 DEF RowShapes

\* Whoever closes and whenever.
THEOREM RowsFollowStreams == Hasty!Spec => []RowFromStream
<1>1. JournalInv => RowFromStream
  BY ShapeSays DEF JournalInv, Shaped, RowFromStream, Hasty!RowFromStream
<1> QED BY <1>1, JournalInvAlways, PTL DEF Hasty!Spec

\* Though reports are cut off and recovered.
THEOREM OutcomesSingle == Hasty!Spec => []OneOutcome
<1>1. JournalInv => OneOutcome
  BY ShapeSays DEF JournalInv, Shaped, OneOutcome, Hasty!OneOutcome
<1> QED BY <1>1, JournalInvAlways, PTL DEF Hasty!Spec

-----------------------------------------------------------------------------
(* Reports of a host that closes after its watchers.                       *)

\* A host that waits for its watchers is one of those that may.
LEMMA PatientIsHasty == Patient!Next => Hasty!Next
<1>1. /\ Patient!Close => Hasty!Close
      /\ Patient!Crash => Hasty!Crash
      /\ Patient!Open => Hasty!Open
      /\ Patient!Ready => Hasty!Ready
  <2>1. Patient!CloseFlag => Hasty!CloseFlag
    BY DEF Patient!CloseFlag, Hasty!CloseFlag, Hasty!MayClose, Patient!Execute, Hasty!Execute,
       Patient!SetClean, Hasty!SetClean, Patient!threads, Hasty!threads
  <2>2. Patient!CloseCommit => Hasty!CloseCommit
    BY DEF Patient!CloseCommit, Hasty!CloseCommit, Patient!CommitTx, Hasty!CommitTx,
       Patient!threads, Hasty!threads
  <2>3. Patient!CloseConnection => Hasty!CloseConnection
    BY DEF Patient!CloseConnection, Hasty!CloseConnection, Patient!threads, Hasty!threads
  <2>4. Patient!Unlock => Hasty!Unlock
    BY DEF Patient!Unlock, Hasty!Unlock, Patient!connection, Hasty!connection,
       Patient!threads, Hasty!threads
  <2>5. /\ Patient!Crash => Hasty!Crash
        /\ Patient!Open => Hasty!Open
    BY DEF Patient!Crash, Hasty!Crash, Patient!threads, Hasty!threads,
       Patient!Open, Hasty!Open, Patient!MarkUnclean, Hasty!MarkUnclean,
       Patient!SetClean, Hasty!SetClean
  <2>6. Patient!Ready => Hasty!Ready
    BY DEF Patient!Ready, Hasty!Ready, Patient!Interrupted, Hasty!Interrupted,
       Patient!connection, Hasty!connection, Patient!threads, Hasty!threads
  <2> QED BY <2>1, <2>2, <2>3, <2>4, <2>5, <2>6 DEF Patient!Close, Hasty!Close
<1>2. ASSUME NEW d \in WatchedDispatches
      PROVE  /\ Patient!Consume(d) => Hasty!Consume(d)
             /\ Patient!Watch(d) => Hasty!Watch(d)
             /\ Patient!Recover(d) => Hasty!Recover(d)
  <2>1. Patient!Consume(d) => Hasty!Consume(d)
    BY DEF Patient!Consume, Hasty!Consume, Patient!Execute, Hasty!Execute
  <2>2. Patient!Recover(d) => Hasty!Recover(d)
    BY DEF Patient!Recover, Hasty!Recover, Patient!Interrupted, Hasty!Interrupted,
       Patient!NextTaken, Hasty!NextTaken, Patient!Report, Hasty!Report,
       Patient!StoreResult, Hasty!StoreResult, Patient!FlushRow, Hasty!FlushRow,
       Patient!AppendEvent, Hasty!AppendEvent, Patient!threads, Hasty!threads
  <2>3. ASSUME NEW o \in Reported PROVE Patient!Begin(d, o) => Hasty!Begin(d, o)
    BY DEF Patient!Begin, Hasty!Begin, Patient!Statement, Hasty!Statement,
       Patient!connection, Hasty!connection, Patient!BeginTx, Hasty!BeginTx
  <2>4. Patient!InsertEvent(d) => Hasty!InsertEvent(d)
    BY DEF Patient!InsertEvent, Hasty!InsertEvent, Patient!Statement, Hasty!Statement,
       Patient!connection, Hasty!connection, Patient!Execute, Hasty!Execute,
       Patient!AppendEvent, Hasty!AppendEvent
  <2>5. Patient!UpdateProposal(d) => Hasty!UpdateProposal(d)
    BY DEF Patient!UpdateProposal, Hasty!UpdateProposal, Patient!Statement,
       Hasty!Statement, Patient!connection, Hasty!connection, Patient!Execute,
       Hasty!Execute, Patient!FlushRow, Hasty!FlushRow
  <2>6. Patient!UpdateDispatch(d) => Hasty!UpdateDispatch(d)
    BY DEF Patient!UpdateDispatch, Hasty!UpdateDispatch, Patient!Statement,
       Hasty!Statement, Patient!connection, Hasty!connection, Patient!Execute,
       Hasty!Execute, Patient!StoreResult, Hasty!StoreResult
  <2>7. Patient!CommitReport(d) => Hasty!CommitReport(d)
    BY DEF Patient!CommitReport, Hasty!CommitReport, Patient!Statement,
       Hasty!Statement, Patient!connection, Hasty!connection, Patient!CommitTx,
       Hasty!CommitTx
  <2>8. Patient!ReportFails(d) => Hasty!ReportFails(d)
    BY DEF Patient!ReportFails, Hasty!ReportFails
  <2> QED BY <2>1, <2>2, <2>3, <2>4, <2>5, <2>6, <2>7, <2>8 DEF Patient!Watch, Hasty!Watch
<1> QED BY <1>1, <1>2 DEF Patient!Next, Hasty!Next

\* On disk a report is there as a whole or not at all, if the host waits for
\* its watchers: who reports has the one transaction, and nobody reports on a
\* connection that is being closed.
Whole == {Hasty!Row, Begun} \union {Stored(o) : o \in Reported}

CarefulInv ==
  /\ process \in {"down", "recovering", "up"}
  /\ process = "recovering" => connected /\ closer = "open"
  /\ process = "up" /\ closer # "closed" => connected
  /\ closer # "open" => Patient!NobodyWatches
  /\ inTx => /\ process = "up" /\ connected
             /\ holder \in WatchedDispatches /\ Reporting(holder)
  /\ process = "up" => \A d \in WatchedDispatches : Reporting(d) => inTx /\ holder = d
  /\ ~inTx => view = disk
  /\ inTx => /\ disk.rows[holder] = Begun
             /\ \A d \in WatchedDispatches : d # holder => view.rows[d] = disk.rows[d]
  /\ \A d \in WatchedDispatches : disk.rows[d] \in Whole

LEMMA WholeRows ==
  ASSUME NEW r \in Whole
  PROVE  /\ r.state = "READY" => r = Hasty!Row
         /\ r.state = "DISPATCHING" => r = Begun
         /\ Len(r.events) = r.revision
         /\ r.result = None <=> r.state \in {"READY", "DISPATCHING"}
<1>1. CASE r = Hasty!Row
  BY <1>1, OutcomeNames DEF Hasty!Row
<1>2. CASE r = Begun
  BY <1>2 DEF Begun
<1>3. ASSUME NEW o \in Reported, r = Stored(o)
      PROVE  /\ r.state \notin {"READY", "DISPATCHING"} /\ r.result # None
             /\ Len(r.events) = r.revision
  <2>1. /\ r.events = Ended(o) /\ r.revision = 2 /\ r.state = o
    BY <1>3, Fields
  <2>2. Len(r.events) = 2
    BY <2>1, EndedEvents
  <2>3. r.result = o
    <3>1. DOMAIN Flushed(o) = {"events", "revision", "state", "result"}
      BY DEF Flushed, Appended
    <3> QED BY <1>3, <3>1 DEF Stored
  <2> QED BY <2>1, <2>2, <2>3, OutcomeNames
<1> QED BY <1>1, <1>2, <1>3 DEF Whole

LEMMA CarefulInit == Patient!Init => CarefulInv
BY DEF Patient!Init, CarefulInv, Whole, Reporting, Patient!Row, Hasty!Row

\* A watcher that is at work is at it on an open connection.
LEMMA AtWork ==
  ASSUME CarefulInv, NEW d \in WatchedDispatches, process = "up",
         watcher[d] \notin {"idle", "done", "lost"}
  PROVE  connected /\ closer = "open"
BY DEF CarefulInv, Patient!NobodyWatches

LEMMA ConsumeCareful ==
  ASSUME JournalInv, CarefulInv, NEW d \in WatchedDispatches, Patient!Consume(d)
  PROVE  CarefulInv'
<1>1. /\ process = "up" /\ closer = "open" /\ holder = None /\ ~inTx /\ view = disk
  BY OutcomeNames DEF Patient!Consume, CarefulInv
<1>2. view' = [view EXCEPT !.rows[d] = Begun] /\ disk' = view'
  BY <1>1 DEF Patient!Consume, Patient!Execute, Begun
<1>3. /\ \E w \in {"waiting", "lost"} : watcher' = [watcher EXCEPT ![d] = w]
      /\ UNCHANGED <<process, inTx, connected, holder, reported, closer>>
  BY DEF Patient!Consume
<1>4. \A x \in WatchedDispatches : disk'.rows[x] = IF x = d THEN Begun ELSE disk.rows[x]
  BY <1>1, <1>2 DEF JournalInv, Shaped
<1>5. \A x \in WatchedDispatches : ~Reporting(x) /\ ~Reporting(x)'
  BY <1>1, <1>3 DEF CarefulInv, Reporting, JournalInv
<1> QED BY <1>1, <1>2, <1>3, <1>4, <1>5 DEF CarefulInv, Whole

LEMMA BeginCareful ==
  ASSUME JournalInv, CarefulInv, NEW d \in WatchedDispatches, NEW o \in Reported,
         Patient!Begin(d, o)
  PROVE  CarefulInv'
<1>1. /\ process = "up" /\ watcher[d] = "waiting" /\ holder = None /\ ~inTx /\ view = disk
  BY OutcomeNames DEF Patient!Begin, Patient!Statement, CarefulInv
<1>2. connected /\ closer = "open"
  BY <1>1, AtWork
<1>3. /\ inTx' /\ watcher' = [watcher EXCEPT ![d] = "began"] /\ holder' = d
      /\ UNCHANGED <<disk, view, process, connected, closer>>
  BY <1>2 DEF Patient!Begin, Patient!Statement, Patient!BeginTx
<1>4. disk.rows[d] = Begun
  BY <1>1, <1>2 DEF JournalInv, Written
<1>5. \A x \in WatchedDispatches : ~Reporting(x) /\ (Reporting(x)' <=> x = d)
  BY <1>1, <1>3 DEF CarefulInv, Reporting, JournalInv
<1> QED BY <1>1, <1>2, <1>3, <1>4, <1>5 DEF CarefulInv

\* The statements of a report that is in its transaction.
LEMMA StatementCareful ==
  ASSUME JournalInv, CarefulInv, NEW d \in WatchedDispatches, NEW w,
         process = "up", Reporting(d), w \in {"appended", "flushed", "stored"},
         watcher' = [watcher EXCEPT ![d] = w], holder' = d, inTx' = inTx,
         disk' = disk, NEW r, view' = [view EXCEPT !.rows[d] = r],
         UNCHANGED <<process, connected, closer>>
  PROVE  CarefulInv'
<1>1. inTx /\ holder = d /\ connected /\ closer = "open"
  BY AtWork DEF CarefulInv, Reporting
<1>2. \A x \in WatchedDispatches : x # d => view'.rows[x] = view.rows[x]
  BY DEF JournalInv, Shaped
<1>3. \A x \in WatchedDispatches : Reporting(x)' <=> x = d
  BY <1>1 DEF CarefulInv, Reporting, JournalInv
<1> QED BY <1>1, <1>2, <1>3 DEF CarefulInv

LEMMA WatchCareful ==
  ASSUME JournalInv, CarefulInv, NEW d \in WatchedDispatches, Patient!Watch(d)
  PROVE  CarefulInv'
<1>1. ASSUME NEW o \in Reported, Patient!Begin(d, o) PROVE CarefulInv'
  BY <1>1, BeginCareful
<1>2. CASE Patient!InsertEvent(d)
  <2>1. process = "up" /\ watcher[d] = "began" /\ Reporting(d)
    BY <1>2 DEF Patient!InsertEvent, Patient!Statement, Reporting
  <2>2. connected /\ inTx
    BY <2>1, AtWork DEF CarefulInv
  <2>3. /\ watcher' = [watcher EXCEPT ![d] = "appended"] /\ holder' = d
        /\ view' = [view EXCEPT !.rows[d] = [view.rows[d] EXCEPT !.events = Append(@, reported[d])]]
        /\ disk' = disk /\ UNCHANGED <<inTx, process, connected, closer>>
    BY <1>2, <2>2 DEF Patient!InsertEvent, Patient!Statement, Patient!Execute,
       Patient!AppendEvent
  <2> QED BY <2>1, <2>3, StatementCareful
<1>3. CASE Patient!UpdateProposal(d)
  <2>1. process = "up" /\ watcher[d] = "appended" /\ Reporting(d)
    BY <1>3 DEF Patient!UpdateProposal, Patient!Statement, Reporting
  <2>2. connected /\ inTx /\ reported[d] \in Reported /\ view.rows[d] = Appended(reported[d])
    BY <2>1, AtWork DEF CarefulInv, JournalInv, Written
  <2>3. /\ watcher' = [watcher EXCEPT ![d] = "flushed"] /\ holder' = d
        /\ view' = Patient!FlushRow(view, d, reported[d])
        /\ disk' = disk /\ UNCHANGED <<inTx, process, connected, closer>>
    BY <1>3, <2>2 DEF Patient!UpdateProposal, Patient!Statement, Patient!Execute
  <2>4. view' = [view EXCEPT !.rows[d] = Flushed(reported[d])]
    <3>1. Patient!FlushRow(view, d, reported[d]) = Hasty!FlushRow(view, d, reported[d])
      BY DEF Patient!FlushRow, Hasty!FlushRow
    <3> QED BY <2>2, <2>3, <3>1, Statements DEF JournalInv
  <2> QED BY <2>1, <2>3, <2>4, StatementCareful
<1>4. CASE Patient!UpdateDispatch(d)
  <2>1. process = "up" /\ watcher[d] = "flushed" /\ Reporting(d)
    BY <1>4 DEF Patient!UpdateDispatch, Patient!Statement, Reporting
  <2>2. connected /\ inTx /\ reported[d] \in Reported /\ view.rows[d] = Flushed(reported[d])
    BY <2>1, AtWork DEF CarefulInv, JournalInv, Written
  <2>3. /\ watcher' = [watcher EXCEPT ![d] = "stored"] /\ holder' = d
        /\ view' = Patient!StoreResult(view, d, reported[d])
        /\ disk' = disk /\ UNCHANGED <<inTx, process, connected, closer>>
    BY <1>4, <2>2 DEF Patient!UpdateDispatch, Patient!Statement, Patient!Execute
  <2>4. view' = [view EXCEPT !.rows[d] = Stored(reported[d])]
    <3>1. Patient!StoreResult(view, d, reported[d]) = Hasty!StoreResult(view, d, reported[d])
      BY DEF Patient!StoreResult, Hasty!StoreResult
    <3> QED BY <2>2, <2>3, <3>1, Statements DEF JournalInv
  <2> QED BY <2>1, <2>3, <2>4, StatementCareful
<1>5. CASE Patient!CommitReport(d)
  <2>1. process = "up" /\ watcher[d] = "stored" /\ Reporting(d)
    BY <1>5 DEF Patient!CommitReport, Patient!Statement, Reporting
  <2>2. /\ connected /\ closer = "open" /\ inTx /\ holder = d
        /\ reported[d] \in Reported /\ view.rows[d] = Stored(reported[d])
    BY <2>1, AtWork DEF CarefulInv, JournalInv, Written
  <2>3. /\ watcher' = [watcher EXCEPT ![d] = "done"] /\ holder' = None
        /\ view' = view /\ disk' = view /\ inTx' = FALSE
        /\ UNCHANGED <<process, connected, closer>>
    BY <1>5, <2>2 DEF Patient!CommitReport, Patient!Statement, Patient!CommitTx
  <2>4. \A x \in WatchedDispatches : ~Reporting(x)'
    BY <2>1, <2>2, <2>3 DEF CarefulInv, Reporting, JournalInv
  <2>5. \A x \in WatchedDispatches : disk'.rows[x] \in Whole
    BY <2>2, <2>3 DEF CarefulInv, Whole
  <2> QED BY <2>1, <2>2, <2>3, <2>4, <2>5 DEF CarefulInv
<1>6. CASE Patient!ReportFails(d)
  <2>1. /\ process = "up" /\ connected
        /\ holder = None \/ Reporting(d)
        /\ ~inTx' /\ view' = disk /\ holder' = None
        /\ watcher' = [watcher EXCEPT ![d] = "lost"]
        /\ UNCHANGED <<process, disk, connected, closer>>
    BY <1>6 DEF Patient!ReportFails, Reporting
  <2>2. closer = "open"
    <3>1. watcher[d] \notin {"idle", "done", "lost"}
      BY <1>6 DEF Patient!ReportFails
    <3> QED BY <2>1, <3>1, AtWork
  <2>3. \A x \in WatchedDispatches : ~Reporting(x)'
    BY <2>1, OutcomeNames DEF CarefulInv, Reporting, JournalInv
  <2> QED BY <2>1, <2>2, <2>3 DEF CarefulInv
<1> QED BY <1>1, <1>2, <1>3, <1>4, <1>5, <1>6 DEF Patient!Watch

\* Where nobody reports there is no transaction either.
LEMMA CloseCareful ==
  ASSUME JournalInv, CarefulInv, Patient!Close
  PROVE  CarefulInv'
<1>1. CASE Patient!CloseFlag
  <2>1. Patient!NobodyWatches /\ process = "up" /\ connected
    BY <1>1 DEF Patient!CloseFlag, Patient!MayClose, CarefulInv
  <2>2. ~inTx /\ view = disk
    BY <2>1 DEF CarefulInv, Patient!NobodyWatches, Reporting
  <2>3. /\ view' = [view EXCEPT !.clean = TRUE] /\ disk' = view' /\ closer' = "flagged"
        /\ UNCHANGED <<process, inTx, connected, holder, watcher, reported>>
    BY <1>1, <2>2 DEF Patient!CloseFlag, Patient!Execute, Patient!SetClean, Patient!threads
  <2>4. disk'.rows = disk.rows
    BY <2>2, <2>3 DEF JournalInv, Shaped
  <2> QED BY <2>1, <2>2, <2>3, <2>4 DEF CarefulInv, Patient!NobodyWatches, Reporting
<1>2. CASE Patient!CloseCommit
  <2>1. /\ process = "up" /\ closer = "flagged" /\ Patient!NobodyWatches
        /\ disk' = view /\ inTx' = FALSE /\ closer' = "committed"
        /\ UNCHANGED <<process, view, connected, holder, watcher, reported>>
    BY <1>2 DEF Patient!CloseCommit, Patient!CommitTx, Patient!threads, CarefulInv
  <2>2. ~inTx /\ view = disk
    BY <2>1 DEF CarefulInv, Patient!NobodyWatches, Reporting
  <2> QED BY <2>1, <2>2 DEF CarefulInv, Patient!NobodyWatches, Reporting
<1>3. CASE Patient!CloseConnection
  BY <1>3 DEF Patient!CloseConnection, Patient!threads, CarefulInv, Patient!NobodyWatches,
     Reporting
<1>4. CASE Patient!Unlock
  <2>1. /\ process = "up" /\ closer = "closed" /\ process' = "down"
        /\ UNCHANGED <<disk, view, inTx, connected, holder, watcher, closer>>
    BY <1>4 DEF Patient!Unlock, Patient!connection, Patient!threads
  <2>2. ~inTx
    BY <2>1 DEF CarefulInv, Patient!NobodyWatches, Reporting
  <2> QED BY <2>1, <2>2 DEF CarefulInv, Patient!NobodyWatches, Reporting
<1> QED BY <1>1, <1>2, <1>3, <1>4 DEF Patient!Close

\* A start finds each interrupted dispatch as it was consumed.
LEMMA RecoverCareful ==
  ASSUME JournalInv, CarefulInv, NEW d \in WatchedDispatches, Patient!Recover(d)
  PROVE  CarefulInv'
<1>1. /\ process = "recovering" /\ connected /\ closer = "open" /\ ~inTx
      /\ disk.rows[d].state = "DISPATCHING"
  BY DEF Patient!Recover, Patient!Interrupted, CarefulInv
<1>2. disk.rows[d] = Begun
  BY <1>1, WholeRows DEF CarefulInv
<1>3. ~Patient!NextTaken(d)
  BY <1>2 DEF Patient!NextTaken, Begun
<1>4. /\ disk' = Patient!Report(disk, d, "unknown") /\ view' = disk'
      /\ UNCHANGED <<process, inTx, connected, holder, watcher, reported, closer>>
  BY <1>3 DEF Patient!Recover, Patient!threads
<1>5. disk' = [disk EXCEPT !.rows[d] = Stored("unknown")]
  <2> DEFINE one == [disk EXCEPT !.rows[d] = Appended("unknown")]
             two == [one EXCEPT !.rows[d] = Flushed("unknown")]
  <2>1. disk \in Shaped /\ "unknown" \in Reported
    BY OutcomeNames DEF JournalInv
  <2>2. Patient!AppendEvent(disk, d, "unknown") = one
    <3>1. Patient!AppendEvent(disk, d, "unknown") = Hasty!AppendEvent(disk, d, "unknown")
      BY DEF Patient!AppendEvent, Hasty!AppendEvent
    <3> QED BY <2>1, <1>2, <3>1, Statements
  <2>3. one \in Shaped /\ one.rows[d] = Appended("unknown")
    BY <2>1, ShapesInclude DEF Shaped
  <2>4. Patient!FlushRow(one, d, "unknown") = two
    <3>1. Patient!FlushRow(one, d, "unknown") = Hasty!FlushRow(one, d, "unknown")
      BY DEF Patient!FlushRow, Hasty!FlushRow
    <3> HIDE DEF one
    <3> QED BY <2>1, <2>3, <3>1, Statements DEF two
  <2>5. two \in Shaped /\ two.rows[d] = Flushed("unknown")
    <3> HIDE DEF one
    <3> QED BY <2>1, <2>3, ShapesInclude DEF Shaped, two
  <2>6. Patient!StoreResult(two, d, "unknown") = [two EXCEPT !.rows[d] = Stored("unknown")]
    <3>1. Patient!StoreResult(two, d, "unknown") = Hasty!StoreResult(two, d, "unknown")
      BY DEF Patient!StoreResult, Hasty!StoreResult
    <3> HIDE DEF two
    <3> QED BY <2>1, <2>5, <3>1, Statements
  <2>7. disk' = Patient!StoreResult(two, d, "unknown")
    BY <1>4, <2>2, <2>4 DEF Patient!Report
  <2> QED BY <2>1, <2>6, <2>7 DEF Shaped
<1>6. \A x \in WatchedDispatches : disk'.rows[x] \in Whole
  BY <1>5, OutcomeNames DEF CarefulInv, JournalInv, Shaped, Whole
<1> QED BY <1>1, <1>4, <1>6 DEF CarefulInv, Patient!NobodyWatches, Reporting

LEMMA CarefulStep ==
  ASSUME JournalInv, CarefulInv, [Patient!Next]_Patient!vars
  PROVE  CarefulInv'
<1>1. CASE Patient!Crash
  BY <1>1 DEF Patient!Crash, Patient!threads, CarefulInv, Patient!NobodyWatches, Reporting
<1>2. CASE Patient!Open
  <2>1. disk' = [disk EXCEPT !.clean = FALSE] /\ view' = disk'
    BY <1>2 DEF Patient!Open, Patient!MarkUnclean, Patient!SetClean
  <2>2. disk'.rows = disk.rows
    BY <2>1 DEF JournalInv, Shaped
  <2>3. /\ process' = "recovering" /\ connected' /\ inTx' = FALSE /\ closer' = "open"
    BY <1>2 DEF Patient!Open
  <2> QED BY <2>1, <2>2, <2>3 DEF CarefulInv
<1>3. CASE Patient!Ready
  <2>1. /\ process = "recovering" /\ process' = "up"
        /\ UNCHANGED <<disk, view, inTx, connected, holder, watcher, reported, closer>>
    BY <1>3 DEF Patient!Ready, Patient!connection, Patient!threads
  <2>2. \A d \in WatchedDispatches : ~Reporting(d)'
    BY <2>1 DEF JournalInv, Reporting
  <2> QED BY <2>1, <2>2 DEF CarefulInv, Patient!NobodyWatches, Reporting
<1>4. CASE UNCHANGED Patient!vars
  BY <1>4 DEF Patient!vars, CarefulInv, Patient!NobodyWatches, Reporting
<1> QED BY <1>1, <1>2, <1>3, <1>4, CloseCareful, ConsumeCareful, WatchCareful,
           RecoverCareful DEF Patient!Next

LEMMA CarefulAlways ==
  Patient!Init /\ [][Patient!Next]_Patient!vars => [](JournalInv /\ CarefulInv)
<1>1. Patient!Init => JournalInv /\ Owned /\ CarefulInv
  BY CarefulInit, JournalInvInit DEF Patient!Init, Hasty!Init, Patient!Row, Hasty!Row
<1>2. JournalInv /\ Owned /\ CarefulInv /\ [Patient!Next]_Patient!vars
        => (JournalInv /\ Owned /\ CarefulInv)'
  BY PatientIsHasty, JournalInvStep, CarefulStep DEF Patient!vars, Hasty!vars
<1> QED BY <1>1, <1>2, PTL

\* A host that closes after its watchers: a report is on disk as a whole or
\* not at all, through crashes at every statement, and every start succeeds.
THEOREM CarefulHostsStart ==
  Patient!Spec => [](Patient!ReportsAtomic /\ Patient!StartSucceeds)
<1>1. CarefulInv => Patient!ReportsAtomic /\ Patient!StartSucceeds
  BY WholeRows DEF CarefulInv, Patient!ReportsAtomic, Patient!StartSucceeds
<1> QED BY <1>1, CarefulAlways, PTL DEF Patient!Spec

-----------------------------------------------------------------------------
(* One escalation in the inbox.                                            *)

\* The file holds the escalation, or no less than a short write has stored.
Complete == file = "whole" \/ shortened
AllSynced == durable = {"data", "entry"}

\* What a call in progress knows: the delivery is not acknowledged and its
\* key not recorded; what it has written stays until it is over, and what it
\* has created is synced when it says so.
Writing ==
  LET c == escalating IN
  c = None \/ /\ c \in Inbox!Calls
              /\ inboxRow.state = "PENDING" /\ responses[c.key] = None
              /\ c.at \in {"sync", "syncdir"} => Complete
              /\ c.at = "syncdir" => "data" \in durable
              /\ c.answer \in Inbox!Acknowledged => c.at = "commit" /\ Complete
              /\ c.answer = "created" => AllSynced

\* An acknowledgment rests on a synced file or on one that was found whole.
Acked ==
  inboxRow.state = "ACKED" =>
    /\ ticket # None
    /\ ticket = "created" => AllSynced
    /\ Complete \/ ticket = "unbacked"

\* Clients were told what is recorded under their keys.
ToldFromJournal ==
  \A x \in told : x.key \in InboxKeys /\ x.response # None /\ responses[x.key] = x.response

InboxInv ==
  /\ responses \in [InboxKeys -> {None, "ACKED", "PENDING"}]
  /\ inboxRow.state \in {"ACKED", "PENDING"}
  /\ file \in Inbox!Contents /\ durable \subseteq {"data", "entry"}
  /\ shortened \in BOOLEAN /\ ticket \in Inbox!Tickets \union {None}
  /\ Writing /\ Acked /\ ToldFromJournal

LEMMA Answers ==
  /\ None \notin InboxKeys /\ None \notin {"ACKED", "PENDING"}
  /\ None \notin Inbox!Outcomes /\ None \notin Inbox!Tickets /\ None \notin Inbox!Calls
BY PartsAssumption DEF Inbox!DeliveryAssumption

LEMMA BeginKeeps ==
  ASSUME InboxInv, NEW k \in InboxKeys, Inbox!Begin(k)
  PROVE  InboxInv'
<1>0. escalating = None /\ UNCHANGED <<file, durable, inboxRow, shortened, ticket>>
  BY DEF Inbox!Begin, Inbox!history
<1> USE DEF InboxInv, Writing, Acked, ToldFromJournal, Complete, AllSynced
<1>1. CASE /\ responses[k] # None /\ Inbox!Tell(k, responses[k])
           /\ UNCHANGED <<responses, escalating>>
  BY <1>0, <1>1 DEF Inbox!Tell
<1>2. CASE /\ responses[k] = None /\ inboxRow.state = "ACKED"
           /\ responses' = [responses EXCEPT ![k] = "ACKED"]
           /\ Inbox!Tell(k, "ACKED") /\ UNCHANGED escalating
  BY <1>0, <1>2, Answers DEF Inbox!Tell
<1>3. CASE /\ responses[k] = None /\ inboxRow.state # "ACKED"
           /\ escalating' = [key |-> k, at |-> "open", answer |-> None]
           /\ UNCHANGED <<responses, told>>
  <2>1. /\ escalating' \in Inbox!Calls /\ escalating'.key = k
        /\ escalating'.at = "open" /\ escalating'.answer = None
    BY <1>3 DEF Inbox!Calls, Inbox!Steps
  <2>2. escalating'.answer \notin Inbox!Acknowledged /\ escalating'.answer # "created"
    BY <2>1, Answers DEF Inbox!Outcomes, Inbox!Acknowledged
  <2> QED BY <1>0, <1>3, <2>1, <2>2
<1> QED BY <1>1, <1>2, <1>3 DEF Inbox!Begin

\* A system call of the inbox, which leaves the journal alone.
LEMMA CallMoves ==
  ASSUME InboxInv, escalating # None, Inbox!InboxOnly,
         NEW at \in Inbox!Steps, NEW answer \in Inbox!Outcomes \union {None},
         escalating' = [escalating EXCEPT !.at = at, !.answer = answer],
         file' \in Inbox!Contents, durable' \subseteq {"data", "entry"},
         shortened' \in BOOLEAN,
         at \in {"sync", "syncdir"} => Complete',
         at = "syncdir" => "data" \in durable',
         answer \in Inbox!Acknowledged => at = "commit" /\ Complete',
         answer = "created" => AllSynced'
  PROVE  InboxInv'
<1>1. escalating \in Inbox!Calls
  BY DEF InboxInv, Writing
<1>2. /\ escalating' \in Inbox!Calls /\ escalating'.key = escalating.key
      /\ escalating'.at = at /\ escalating'.answer = answer
  BY <1>1 DEF Inbox!Calls
<1>3. UNCHANGED <<inboxRow, responses, told, ticket>>
  BY DEF Inbox!InboxOnly, Inbox!journal
<1>4. inboxRow.state = "PENDING" /\ responses[escalating.key] = None
  BY DEF InboxInv, Writing
<1>5. Writing'
  BY <1>2, <1>3, <1>4 DEF Writing
<1>6. Acked' /\ ToldFromJournal'
  BY <1>3, <1>4 DEF Acked, InboxInv, ToldFromJournal
<1> QED BY <1>3, <1>5, <1>6 DEF InboxInv

LEMMA CallStepKeeps ==
  ASSUME InboxInv,
         Inbox!OpenFile \/ Inbox!WriteFile \/ Inbox!SyncFile \/ Inbox!SyncDirectory
           \/ Inbox!SystemCallFails
  PROVE  InboxInv'
<1> DEFINE c == escalating
<1>0. c # None /\ c \in Inbox!Calls /\ c.at # "commit" /\ Inbox!InboxOnly
  BY DEF Inbox!OpenFile, Inbox!WriteFile, Inbox!SyncFile, Inbox!SyncDirectory,
         Inbox!SystemCallFails, Inbox!At, InboxInv, Writing
<1>1. c.answer \in Inbox!Outcomes \union {None}
      /\ c.answer \notin Inbox!Acknowledged /\ c.answer # "created"
  BY <1>0 DEF Inbox!Calls, InboxInv, Writing, Inbox!Acknowledged
<1>2. \A s : [c EXCEPT !.at = s] = [c EXCEPT !.at = s, !.answer = c.answer]
  BY <1>0 DEF Inbox!Calls
<1>3. /\ {"write", "sync", "syncdir", "commit"} \subseteq Inbox!Steps
      /\ {"created", "duplicate", "rejected", "unavailable"} \subseteq Inbox!Outcomes
      /\ {"rejected", "unavailable"} \cap Inbox!Acknowledged = {}
      /\ {"absent", "empty", "part", "whole"} \subseteq Inbox!Contents
  BY DEF Inbox!Steps, Inbox!Outcomes, Inbox!Acknowledged, Inbox!Contents
<1>4. CASE Inbox!OpenFile /\ file = "absent" /\ file' = "empty" /\ durable' = {}
           /\ Inbox!Goto("write")
  <2>1. shortened' = shortened /\ escalating' = [c EXCEPT !.at = "write", !.answer = c.answer]
    BY <1>2, <1>4 DEF Inbox!OpenFile, Inbox!Goto
  <2> QED BY <1>0, <1>1, <1>3, <1>4, <2>1, CallMoves DEF InboxInv
<1>5. CASE Inbox!OpenFile /\ UNCHANGED <<file, durable>>
           /\ Inbox!Done(IF Inbox!SameBytes THEN "duplicate" ELSE "rejected")
  <2> DEFINE answer == IF Inbox!SameBytes THEN "duplicate" ELSE "rejected"
  <2>1. shortened' = shortened /\ escalating' = [c EXCEPT !.at = "commit", !.answer = answer]
    BY <1>5 DEF Inbox!OpenFile, Inbox!Done
  <2>2. /\ answer \in Inbox!Outcomes /\ answer # "created"
        /\ answer \in Inbox!Acknowledged => Complete'
    BY <1>3, <1>5 DEF Inbox!SameBytes, Complete
  <2> HIDE DEF answer
  <2> QED BY <1>0, <1>3, <1>5, <2>1, <2>2, CallMoves DEF InboxInv
<1>6. CASE Inbox!WriteFile
  <2>1. /\ file' \in {"whole", "part"} /\ shortened' = (shortened \/ file' = "part")
        /\ durable' = durable
        /\ escalating' = [c EXCEPT !.at = "sync", !.answer = c.answer]
    BY <1>2, <1>6 DEF Inbox!WriteFile, Inbox!Goto
  <2>2. Complete' /\ shortened' \in BOOLEAN
    BY <2>1 DEF Complete, InboxInv
  <2> QED BY <1>0, <1>1, <1>3, <2>1, <2>2, CallMoves DEF InboxInv
<1>7. CASE Inbox!SyncFile
  <2>1. /\ UNCHANGED <<file, shortened>> /\ durable' = durable \union {"data"}
        /\ escalating' = [c EXCEPT !.at = "syncdir", !.answer = c.answer]
    BY <1>2, <1>7 DEF Inbox!SyncFile, Inbox!Goto, Inbox!FsyncData
  <2>2. Complete'
    BY <1>0, <1>7, <2>1 DEF Inbox!SyncFile, Inbox!At, InboxInv, Writing, Complete
  <2> QED BY <1>0, <1>1, <1>3, <2>1, <2>2, CallMoves DEF InboxInv
<1>8. CASE Inbox!SyncDirectory
  <2>1. /\ UNCHANGED <<file, shortened>> /\ durable' = durable \union {"entry"}
        /\ escalating' = [c EXCEPT !.at = "commit", !.answer = "created"]
    BY <1>8 DEF Inbox!SyncDirectory, Inbox!Done
  <2>2. Complete' /\ "data" \in durable
    BY <1>0, <1>8, <2>1 DEF Inbox!SyncDirectory, Inbox!At, InboxInv, Writing, Complete
  <2>3. AllSynced'
    BY <2>1, <2>2 DEF AllSynced, InboxInv
  <2> QED BY <1>0, <1>3, <2>1, <2>2, <2>3, CallMoves DEF InboxInv
<1>9. CASE Inbox!SystemCallFails
  <2>1. /\ UNCHANGED <<file, durable, shortened>>
        /\ escalating' = [c EXCEPT !.at = "commit", !.answer = "unavailable"]
    BY <1>9 DEF Inbox!SystemCallFails, Inbox!Done
  <2>2. /\ file' \in Inbox!Contents /\ durable' \subseteq {"data", "entry"}
        /\ shortened' \in BOOLEAN
    BY <2>1 DEF InboxInv
  <2>3. "unavailable" \notin Inbox!Acknowledged /\ "unavailable" # "created"
    BY <1>3
  <2> QED BY <1>0, <1>3, <2>1, <2>2, <2>3, CallMoves
<1> QED BY <1>4, <1>5, <1>6, <1>7, <1>8, <1>9 DEF Inbox!OpenFile

LEMMA CommitKeeps ==
  ASSUME InboxInv, Inbox!Commit
  PROVE  InboxInv'
<1> DEFINE k == escalating.key
           acked == escalating.answer \in Inbox!Acknowledged
           response == IF acked THEN "ACKED" ELSE "PENDING"
<1>1. /\ escalating # None /\ k \in InboxKeys /\ responses[k] = None
      /\ acked => Complete
      /\ escalating.answer = "created" => AllSynced
  BY DEF Inbox!Commit, Inbox!At, InboxInv, Writing, Inbox!Calls
<1>2. /\ inboxRow'.state = response /\ responses' = [responses EXCEPT ![k] = response]
      /\ told' = told \union {[key |-> k, response |-> response]}
      /\ escalating' = None /\ UNCHANGED <<file, durable, shortened>>
      /\ ticket' = IF acked THEN escalating.answer ELSE ticket
  BY DEF Inbox!Commit, Inbox!RecordKey, Inbox!Tell
<1>3. response \in {"ACKED", "PENDING"}
  OBVIOUS
<1>4. ToldFromJournal'
  <2> HIDE DEF response
  <2> QED BY <1>1, <1>2, <1>3, Answers DEF InboxInv, ToldFromJournal
<1>5. ticket' \in Inbox!Tickets \union {None}
  BY <1>2 DEF InboxInv, Inbox!Tickets
<1>6. Acked'
  <2> SUFFICES ASSUME inboxRow'.state = "ACKED" PROVE Acked'
    BY DEF Acked
  <2>1. acked /\ ticket' = escalating.answer
    BY <1>2
  <2>2. ticket' # None
    BY <2>1, Answers DEF Inbox!Outcomes
  <2> QED BY <1>1, <1>2, <2>1, <2>2 DEF Acked, Complete, AllSynced
<1> HIDE DEF response
<1> QED BY <1>1, <1>2, <1>3, <1>4, <1>5, <1>6 DEF InboxInv, Writing

\* A power failure spares what is synced, and an acknowledgment that rests on
\* more than that is marked.
LEMMA OutageKeeps ==
  ASSUME InboxInv, Inbox!PowerFailure
  PROVE  InboxInv'
<1>1. /\ file' \in Inbox!Survivors /\ durable' = {"data", "entry"} /\ escalating' = None
      /\ ticket' = IF ticket = "duplicate" /\ durable # {"data", "entry"}
                   THEN "unbacked" ELSE ticket
      /\ UNCHANGED <<inboxRow, responses, told, shortened>>
  BY DEF Inbox!PowerFailure, Inbox!journal
<1>2. file' \in Inbox!Contents
  BY <1>1 DEF Inbox!Survivors, Inbox!Contents, InboxInv
<1>3. AllSynced => file' = file
  BY <1>1 DEF AllSynced, Inbox!Survivors
<1>4. ticket' \in Inbox!Tickets \union {None}
  BY <1>1 DEF InboxInv, Inbox!Tickets
<1>5. Acked'
  <2> SUFFICES ASSUME inboxRow.state = "ACKED" PROVE Acked'
    BY <1>1 DEF Acked
  <2>1. /\ ticket \in {"created", "duplicate", "unbacked"}
        /\ ticket = "created" => AllSynced
        /\ Complete \/ ticket = "unbacked"
    BY DEF InboxInv, Acked, Inbox!Tickets, Inbox!Acknowledged
  <2>2. ticket' = "unbacked" \/ AllSynced
    BY <1>1, <2>1 DEF AllSynced
  <2>3. ticket' # None
    BY <1>1, <2>1, Answers DEF Inbox!Tickets, Inbox!Acknowledged
  <2> QED BY <1>1, <1>3, <2>1, <2>2, <2>3 DEF Acked, Complete, AllSynced
<1> QED BY <1>1, <1>2, <1>4, <1>5 DEF InboxInv, Writing, ToldFromJournal

LEMMA InboxInvInit == Inbox!Init => InboxInv
<1> SUFFICES ASSUME Inbox!Init PROVE InboxInv
  OBVIOUS
<1>1. /\ responses \in [InboxKeys -> {None, "ACKED", "PENDING"}]
      /\ inboxRow.state = "PENDING" /\ escalating = None /\ told = {}
  BY DEF Inbox!Init
<1>2. /\ file \in Inbox!Contents /\ durable \subseteq {"data", "entry"}
      /\ shortened \in BOOLEAN /\ ticket \in Inbox!Tickets \union {None}
  BY DEF Inbox!Init, Inbox!Contents
<1> QED BY <1>1, <1>2 DEF InboxInv, Writing, Acked, ToldFromJournal

LEMMA InboxStep == InboxInv /\ [Inbox!Next]_Inbox!vars => InboxInv'
<1> SUFFICES ASSUME InboxInv, [Inbox!Next]_Inbox!vars PROVE InboxInv'
  OBVIOUS
<1> USE DEF Complete, AllSynced
<1>1. CASE Inbox!RolledBack
  BY <1>1 DEF Inbox!RolledBack, Inbox!journal, Inbox!history, InboxInv, Writing, Acked,
     ToldFromJournal
<1>2. CASE UNCHANGED Inbox!vars
  BY <1>2 DEF Inbox!vars, Inbox!history, InboxInv, Writing, Acked, ToldFromJournal
<1> QED BY <1>1, <1>2, BeginKeeps, CallStepKeeps, CommitKeeps, OutageKeeps DEF Inbox!Next

LEMMA InboxAlways == Inbox!Spec => []InboxInv
BY InboxInvInit, InboxStep, PTL DEF Inbox!Spec

\* Calls on the file may fail, the transaction may be rolled back and the
\* process or the machine may stop, at every step and in any order: what is
\* acknowledged is there, short writes and unsynced duplicates apart.
THEOREM AckedThroughFailures == Inbox!Spec => []AckedIsDelivered
<1>1. InboxInv => AckedIsDelivered
  BY DEF InboxInv, Acked, Complete, AckedIsDelivered, Inbox!AckedIsDelivered
<1> QED BY <1>1, InboxAlways, PTL

\* For any keys and any number of retries.
THEOREM AnswersAgree == Inbox!Spec => []OneAnswerPerKey
<1>1. InboxInv => OneAnswerPerKey
  BY DEF InboxInv, ToldFromJournal, OneAnswerPerKey, Inbox!OneAnswerPerKey
<1> QED BY <1>1, InboxAlways, PTL

\* The attempts that count are those in the stream, and a call in progress has
\* one left.
AttemptInv ==
  /\ inboxRow \in [state : {"PENDING", "ACKED"}, attempts : 0 .. MaxAttempts]
  /\ attempts \in Seq({"delivered", "deferred"})
  /\ Inbox!AttemptsInStream
  /\ escalating # None => inboxRow.state = "PENDING" /\ inboxRow.attempts < MaxAttempts

LEMMA AttemptBegins ==
  ASSUME AttemptInv, NEW k \in InboxKeys, Inbox!Begin(k)
  PROVE  AttemptInv'
<1>1. /\ UNCHANGED <<inboxRow, attempts>>
      /\ escalating' # None =>
           \/ escalating' = escalating
           \/ inboxRow.state # "ACKED" /\ inboxRow.attempts < MaxAttempts
  BY DEF Inbox!Begin, Inbox!AttemptsLeft
<1> QED BY <1>1 DEF AttemptInv, Inbox!AttemptsInStream

\* Steps that leave the journal alone and begin no call.
LEMMA AttemptWaits ==
  ASSUME AttemptInv, UNCHANGED <<inboxRow, attempts>>,
         escalating = None => escalating' = None
  PROVE  AttemptInv'
BY DEF AttemptInv, Inbox!AttemptsInStream

LEMMA AttemptEnds ==
  ASSUME AttemptInv, Inbox!Commit
  PROVE  AttemptInv'
<1> DEFINE acked == escalating.answer \in Inbox!Acknowledged
           event == IF acked THEN "delivered" ELSE "deferred"
           row == [state |-> IF acked THEN "ACKED" ELSE "PENDING",
                   attempts |-> inboxRow.attempts + 1]
<1>1. /\ escalating # None /\ escalating' = None
      /\ inboxRow' = row /\ attempts' = Append(attempts, event)
  BY DEF Inbox!Commit, Inbox!At, Inbox!CountAttempt
<1>2. /\ inboxRow.state = "PENDING" /\ inboxRow.attempts \in 0 .. MaxAttempts
      /\ inboxRow.attempts < MaxAttempts /\ MaxAttempts \in Nat
      /\ attempts \in Seq({"delivered", "deferred"})
      /\ inboxRow.attempts = Len(attempts)
      /\ \A i \in DOMAIN attempts : attempts[i] # "delivered"
  BY <1>1, PartsAssumption DEF AttemptInv, Inbox!AttemptsInStream, Inbox!DeliveryAssumption
<1>3. row.attempts \in 0 .. MaxAttempts /\ row.attempts = Len(attempts) + 1
  BY <1>2
<1>4. row \in [state : {"PENDING", "ACKED"}, attempts : 0 .. MaxAttempts]
  BY <1>3
<1>5. /\ attempts' \in Seq({"delivered", "deferred"})
      /\ Len(attempts') = Len(attempts) + 1
      /\ attempts'[Len(attempts')] = event
      /\ \A i \in 1 .. Len(attempts) : attempts'[i] = attempts[i]
      /\ DOMAIN attempts' = 1 .. Len(attempts') /\ DOMAIN attempts = 1 .. Len(attempts)
  BY <1>1, <1>2
<1>6. ASSUME NEW i \in DOMAIN attempts'
      PROVE  attempts'[i] = "delivered" <=> i = Len(attempts') /\ row.state = "ACKED"
  <2>1. CASE i = Len(attempts')
    BY <1>5, <2>1
  <2>2. CASE i # Len(attempts')
    <3>1. i \in 1 .. Len(attempts)
      BY <1>2, <1>5, <1>6, <2>2
    <3> QED BY <1>2, <1>5, <2>2, <3>1
  <2> QED BY <2>1, <2>2
<1> HIDE DEF row, event
<1> QED BY <1>1, <1>3, <1>4, <1>5, <1>6 DEF AttemptInv, Inbox!AttemptsInStream

LEMMA AttemptInit == Inbox!Init => AttemptInv
<1> SUFFICES ASSUME Inbox!Init PROVE AttemptInv
  OBVIOUS
<1>1. 0 \in 0 .. MaxAttempts
  BY PartsAssumption DEF Inbox!DeliveryAssumption
<1> QED BY <1>1 DEF Inbox!Init, AttemptInv, Inbox!AttemptsInStream

LEMMA AttemptStep == AttemptInv /\ [Inbox!Next]_Inbox!vars => AttemptInv'
<1> SUFFICES ASSUME AttemptInv, [Inbox!Next]_Inbox!vars PROVE AttemptInv'
  OBVIOUS
<1>1. CASE Inbox!OpenFile \/ Inbox!WriteFile \/ Inbox!SyncFile \/ Inbox!SyncDirectory
             \/ Inbox!SystemCallFails
  <2>1. UNCHANGED <<inboxRow, attempts>> /\ escalating # None
    BY <1>1 DEF Inbox!OpenFile, Inbox!WriteFile, Inbox!SyncFile, Inbox!SyncDirectory,
       Inbox!SystemCallFails, Inbox!InboxOnly, Inbox!journal, Inbox!At
  <2> QED BY <2>1, AttemptWaits
<1>2. CASE Inbox!RolledBack \/ Inbox!PowerFailure
  <2>1. UNCHANGED <<inboxRow, attempts>> /\ escalating' = None
    BY <1>2 DEF Inbox!RolledBack, Inbox!PowerFailure, Inbox!journal
  <2> QED BY <2>1, AttemptWaits
<1>3. CASE UNCHANGED Inbox!vars
  BY <1>3, AttemptWaits DEF Inbox!vars
<1> QED BY <1>1, <1>2, <1>3, AttemptBegins, AttemptEnds DEF Inbox!Next

\* The attempts the limit counts are those in the stream, wherever calls fail
\* and the process or the machine stops.
THEOREM AttemptsCounted == Inbox!Spec => [](Inbox!AttemptsInStream /\ Inbox!TypeOK)
<1>1. InboxInv /\ AttemptInv => Inbox!AttemptsInStream /\ Inbox!TypeOK
  <2> SUFFICES ASSUME InboxInv, AttemptInv PROVE Inbox!AttemptsInStream /\ Inbox!TypeOK
    OBVIOUS
  <2>1. escalating \in Inbox!Calls \union {None}
    BY DEF InboxInv, Writing
  <2> QED BY <2>1 DEF InboxInv, AttemptInv, Inbox!TypeOK
<1> QED BY <1>1, AttemptInit, AttemptStep, InboxAlways, PTL DEF Inbox!Spec

-----------------------------------------------------------------------------
(* The composition: each part sees its own steps and stutters.             *)

\* What each part sees of a step of the whole.
PartsStep ==
  /\ [Next]_vars /\ [Hasty!Next]_Hasty!vars /\ [Inbox!Next]_Inbox!vars
  /\ part' = part
  /\ part # "hasty" => [Patient!Next]_Patient!vars

LEMMA StepOfParts == ASSUME [PartNext]_allVars PROVE PartsStep
<1>1. CASE Coordinating(Next)
  BY <1>1 DEF Coordinating, PartsStep, shutdownVars, inboxVars, Hasty!vars, Patient!vars,
     Hasty!connection, Hasty!threads, Inbox!vars, Inbox!history
<1>2. CASE Closing("patient", Patient!Next) \/ Closing("hasty", Hasty!Next)
  BY <1>2, PatientIsHasty DEF Closing, PartsStep, Hasty!vars, Patient!vars, inboxVars,
     Inbox!vars, Inbox!history
<1>3. CASE Delivering(Inbox!Next)
  BY <1>3 DEF Delivering, PartsStep, shutdownVars, Hasty!vars, Patient!vars,
     Hasty!connection, Hasty!threads
<1>4. CASE UNCHANGED allVars
  BY <1>4 DEF allVars, PartsStep, shutdownVars, inboxVars, Hasty!vars, Patient!vars,
     Hasty!connection, Hasty!threads, Inbox!vars, Inbox!history
<1> QED BY <1>1, <1>2, <1>3, <1>4 DEF PartNext

LEMMA InitOfParts ==
  PartInit => Init /\ Patient!Init /\ Hasty!Init /\ Inbox!Init
BY DEF PartInit, Patient!Init, Hasty!Init, Patient!Row, Hasty!Row

\* Whichever part a behaviour follows, it is a behaviour of the coordinator, of
\* an inbox, of a host that may close at any time, and of one that waits unless
\* it follows the other.
THEOREM JournalActsAsParts ==
  PartSpec => /\ Spec
              /\ Hasty!Init /\ [][Hasty!Next]_Hasty!vars
              /\ part # "hasty" => Patient!Init /\ [][Patient!Next]_Patient!vars
              /\ Inbox!Spec
<1>1. [PartNext]_allVars =>
        /\ [Next]_vars /\ [Hasty!Next]_Hasty!vars /\ [Inbox!Next]_Inbox!vars
        /\ part # "hasty" => (part # "hasty")' /\ [Patient!Next]_Patient!vars
  BY StepOfParts DEF PartsStep
<1>2. part # "hasty" \/ part = "hasty"
  OBVIOUS
<1> QED BY <1>1, <1>2, InitOfParts, PTL DEF PartSpec, Spec, Inbox!Spec

\* So the safety properties hold of the whole.
THEOREM JournalHolds ==
  PartSpec => /\ [](AtMostOneDispatch /\ OutcomeHonest) /\ ImplementsConsumeOnce
              /\ [](RowFromStream /\ OneOutcome)
              /\ part # "hasty" => [](Patient!ReportsAtomic /\ Patient!StartSucceeds)
              /\ [](AckedIsDelivered /\ OneAnswerPerKey)
<1>1. JournalInv => RowFromStream /\ OneOutcome
  BY ShapeSays
     DEF JournalInv, Shaped, RowFromStream, Hasty!RowFromStream, OneOutcome, Hasty!OneOutcome
<1>2. CarefulInv => Patient!ReportsAtomic /\ Patient!StartSucceeds
  BY WholeRows DEF CarefulInv, Patient!ReportsAtomic, Patient!StartSucceeds
<1> QED BY <1>1, <1>2, CarefulAlways, JournalActsAsParts, DispatchedAtMostOnce, OutcomesHonest,
           CoordinatorConsumesOnce, JournalInvAlways, AckedThroughFailures, AnswersAgree, PTL

\* And whichever part it follows, a ready process has a reporter for every
\* dispatch but those it has lost to an exception itself.
THEOREM JournalStrandsNone == PartSpec => []NoStrandedDispatch
BY JournalActsAsParts, NoneStranded, PTL
=============================================================================
