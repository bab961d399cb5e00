----------------------------- MODULE ProxyProofs -----------------------------
(***************************************************************************)
(* Proofs about ProxyExchanges, for every set of exchanges, backends and   *)
(* databases, every number of chunks and restarts, and all faults but      *)
(* those a property excludes: first what an exchange holds and its row     *)
(* says, then what the feed tells of it and how its row ends.              *)
(***************************************************************************)
EXTENDS ProxyProperties, FiniteSetTheorems, TLAPS

-----------------------------------------------------------------------------
(* The inductive invariant.                                                *)

\* The steps of an exchange whose capture has all of the response.
Caught == {"new", "add", "started", "send", "read", "write", "publish",
           "complete", "completed"}

\* The steps at which nothing is written any more.
Settled == {"completed", "fail", "failed", "answer", "dispose", "done", "lost"}

\* What holds of the locals of one exchange at each step.
ExchangeOK(i) ==
    /\ step[i] \in {"new", "add", "started", "send"} => session[i] = "none"
    /\ step[i] = "add" => backend[i] # NoBackend
    /\ step[i] = "done" => session[i] # "open"
    /\ step[i] \in Caught => captured[i] = written[i]
    /\ step[i] = "write" => written[i] < MaxChunks
    /\ step[i] = "capture" => captured[i] + 1 = written[i]
    /\ step[i] \in {"complete", "completed"} => ended[i]

\* A completed row belongs to an exchange that has settled, and is whole.
RowWhole(s, i) ==
    log[s][i] # NoRow /\ log[s][i].status = "Completed" =>
        /\ step[i] \in Settled
        /\ ended[i]
        /\ log[s][i].body = captured[i]
        /\ captured[i] = written[i]

RowsInv == \A s \in Stores, i \in Ids : RowWhole(s, i)

-----------------------------------------------------------------------------
(* Lemmas about the operators of the model.                                *)

Events == {"started", "chunk", "completed", "failed"}

\* A broadcast leaves the feeds sequences of events.
LEMMA BroadcastType ==
    ASSUME feed \in [Ids -> Seq(Events)], NEW i \in Ids, NEW event \in Events,
           Broadcast(i, event)
    PROVE  feed' \in [Ids -> Seq(Events)]
  BY DEF Broadcast

\* An update leaves the log a log, and touches no row but the one in force.
LEMMA UpdateRowType ==
    ASSUME log \in [Stores -> [Ids -> Row \union {NoRow}]],
           NEW i \in Ids, current \in Settings,
           NEW status \in {"Pending", "Completed", "Failed"},
           NEW body,
           log[current.store][i] # NoRow => body \in 0..MaxChunks,
           UpdateRow(i, status, body)
    PROVE  /\ log' \in [Stores -> [Ids -> Row \union {NoRow}]]
           /\ \A s \in Stores, j \in Ids :
                \/ log'[s][j] = log[s][j]
                \/ /\ j = i
                   /\ log[s][j] # NoRow
                   /\ log'[s][j].backend = log[s][j].backend
                   /\ log'[s][j].status = status
                   /\ log'[s][j].body = body
  <1> DEFINE d == current.store
             row == log[d][i]
             new == IF row = NoRow THEN row
                    ELSE [row EXCEPT !.status = status, !.body = body]
  <1>1. d \in Stores
    BY DEF Settings
  <1>2. log' = [log EXCEPT ![d] = [log[d] EXCEPT ![i] = new]]
    BY DEF UpdateRow
  <1>3. CASE row = NoRow
    BY <1>1, <1>2, <1>3
  <1>4. CASE row # NoRow
    <2>1. new \in Row /\ new.status = status /\ new.body = body /\ new.backend = row.backend
      <3>1. row \in Row
        BY <1>1, <1>4
      <3>2. \A r \in Row, b \in 0..MaxChunks :
              LET n == [r EXCEPT !.status = status, !.body = b] IN
              n \in Row /\ n.status = status /\ n.body = b /\ n.backend = r.backend
        BY DEF Row
      <3> HIDE DEF row
      <3> QED
        BY <1>4, <3>1, <3>2 DEF row
    <2>2. new # NoRow
      BY <2>1, ExchangeAssumption
    <2> HIDE DEF new, d
    <2> QED
      BY <1>1, <1>2, <2>1, <2>2, <1>4
  <1> QED
    BY <1>3, <1>4

-----------------------------------------------------------------------------
(* Type correctness.                                                       *)

LocalInv == TypeOK /\ \A i \in Ids : ExchangeOK(i)

\* Every step keeps the types, and what holds of the locals.
LEMMA LocalStep == LocalInv /\ [Next]_vars => LocalInv'
  <1> SUFFICES ASSUME LocalInv, [Next]_vars
               PROVE  LocalInv'
    OBVIOUS
  <1> USE ExchangeAssumption DEF LocalInv, TypeOK, ExchangeOK, InSession, Caught,
        world, locals, stream, Goto, Catch, Steps, StatementRuns
  <1>1. ASSUME NEW i \in Ids, Receive(i)
        PROVE  LocalInv'
    BY <1>1 DEF Receive, Settings
  <1>2. ASSUME NEW i \in Ids, ReceiveFails(i)
        PROVE  LocalInv'
    BY <1>2 DEF ReceiveFails
  <1>3. ASSUME NEW i \in Ids, Add(i)
        PROVE  LocalInv'
    <2>1. [status |-> "Pending", backend |-> backend[i], body |-> 0] \in Row
      BY <1>3 DEF Add, Row
    <2>2. current.store \in Stores
      BY DEF Settings
    <2> QED
      BY <1>3, <2>1, <2>2 DEF Add
  <1>4. ASSUME NEW i \in Ids, AddFails(i)
        PROVE  LocalInv'
    BY <1>4 DEF AddFails
  <1>5. ASSUME NEW i \in Ids, RequestStarted(i)
        PROVE  LocalInv'
    <2>1. feed' \in [Ids -> Seq(Events)]
      BY <1>5, BroadcastType DEF RequestStarted, Events
    <2> QED
      BY <1>5, <2>1 DEF RequestStarted, Events
  <1>6. ASSUME NEW i \in Ids, Send(i)
        PROVE  LocalInv'
    BY <1>6 DEF Send
  <1>7. ASSUME NEW i \in Ids, SendCancelled(i) \/ SendRefused(i)
        PROVE  LocalInv'
    <2>1. CASE SendCancelled(i)
      <3>1. sentTo' \in [Ids -> Backends \union {NoBackend}]
        BY <2>1 DEF SendCancelled
      <3> QED
        BY <3>1, <2>1 DEF SendCancelled
    <2>2. CASE SendRefused(i)
      BY <2>2 DEF SendRefused
    <2> QED
      BY <1>7, <2>1, <2>2
  <1>8. ASSUME NEW i \in Ids, ReadChunk(i)
        PROVE  LocalInv'
    BY <1>8 DEF ReadChunk
  <1>9. ASSUME NEW i \in Ids, ReadEnd(i)
        PROVE  LocalInv'
    BY <1>9 DEF ReadEnd
  <1>10. ASSUME NEW i \in Ids, ReadCancelled(i) \/ ReadBreaks(i)
        PROVE  LocalInv'
    <2>1. CASE ReadCancelled(i)
      BY <2>1 DEF ReadCancelled
    <2>2. CASE ReadBreaks(i)
      BY <2>2 DEF ReadBreaks
    <2> QED
      BY <1>10, <2>1, <2>2
  <1>11. ASSUME NEW i \in Ids, Write(i)
        PROVE  LocalInv'
    BY <1>11 DEF Write
  <1>12. ASSUME NEW i \in Ids, WriteFails(i)
        PROVE  LocalInv'
    <2>1. hasStarted' \in [Ids -> BOOLEAN]
      BY <1>12 DEF WriteFails
    <2> QED
      BY <1>12, <2>1 DEF WriteFails
  <1>13. ASSUME NEW i \in Ids, Capture(i)
        PROVE  LocalInv'
    BY <1>13 DEF Capture
  <1>14. ASSUME NEW i \in Ids, CaptureFails(i)
        PROVE  LocalInv'
    BY <1>14 DEF CaptureFails
  <1>15. ASSUME NEW i \in Ids, PublishChunk(i)
        PROVE  LocalInv'
    <2>1. feed' \in [Ids -> Seq(Events)]
      BY <1>15, BroadcastType DEF PublishChunk, Events
    <2> QED
      BY <1>15, <2>1 DEF PublishChunk, Events
  <1>16. ASSUME NEW i \in Ids, Complete(i)
        PROVE  LocalInv'
    <2>1. log' \in [Stores -> [Ids -> Row \union {NoRow}]]
      BY <1>16, UpdateRowType DEF Complete
    <2> QED
      BY <1>16, <2>1 DEF Complete
  <1>17. ASSUME NEW i \in Ids, CompleteFails(i)
        PROVE  LocalInv'
    BY <1>17 DEF CompleteFails
  <1>18. ASSUME NEW i \in Ids, RequestCompleted(i)
        PROVE  LocalInv'
    <2>1. feed' \in [Ids -> Seq(Events)]
      BY <1>18, BroadcastType DEF RequestCompleted, Events
    <2> QED
      BY <1>18, <2>1 DEF RequestCompleted, Events
  <1>19. ASSUME NEW i \in Ids, Fail(i)
        PROVE  LocalInv'
    <2>1. log[current.store][i] # NoRow => log[current.store][i].body \in 0..MaxChunks
      BY DEF Settings, Row
    <2>2. log' \in [Stores -> [Ids -> Row \union {NoRow}]]
      BY <1>19, <2>1, UpdateRowType DEF Fail
    <2> QED
      BY <1>19, <2>2 DEF Fail
  <1>20. ASSUME NEW i \in Ids, FailFails(i)
        PROVE  LocalInv'
    BY <1>20 DEF FailFails
  <1>21. ASSUME NEW i \in Ids, RequestFailed(i)
        PROVE  LocalInv'
    <2>1. feed' \in [Ids -> Seq(Events)]
      BY <1>21, BroadcastType DEF RequestFailed, Events
    <2> QED
      BY <1>21, <2>1 DEF RequestFailed, Events
  <1>22. ASSUME NEW i \in Ids, SinkFails(i)
        PROVE  LocalInv'
    <2>1. step[i] \in {"started", "publish", "completed", "failed"}
      BY <1>22 DEF SinkFails, EventOf
    <2>2. EventOf[step[i]] \in Events
      BY <2>1 DEF EventOf, Events
    <2>3. feed' \in [Ids -> Seq(Events)]
      BY <1>22, <2>2, BroadcastType DEF SinkFails, Events
    <2>4. step' = [step EXCEPT ![i] = step'[i]] /\ step'[i] \in {"answer", "fail", "dispose"}
      BY <1>22 DEF SinkFails
    <2>5. step'[i] = "fail" => session[i] = "open"
      BY <1>22, <2>1 DEF SinkFails
    <2> QED
      BY <1>22, <2>3, <2>4, <2>5 DEF SinkFails, Events
  <1>23. ASSUME NEW i \in Ids, Answer(i)
        PROVE  LocalInv'
    BY <1>23 DEF Answer
  <1>24. ASSUME NEW i \in Ids, Dispose(i)
        PROVE  LocalInv'
    BY <1>24 DEF Dispose
  <1>25. ASSUME NEW i \in Ids, Leave(i)
        PROVE  LocalInv'
    BY <1>25 DEF Leave
  <1>26. ASSUME NEW i \in Ids, DeleteRow(i)
        PROVE  LocalInv'
    BY <1>26 DEF DeleteRow, Settings
  <1>27. ASSUME ChangeSettings
        PROVE  LocalInv'
    BY <1>27 DEF ChangeSettings
  <1>28. ASSUME Truncate
        PROVE  LocalInv'
    BY <1>28 DEF Truncate, Settings
  <1>29. ASSUME Restart
        PROVE  LocalInv'
    BY <1>29 DEF Restart, Settings
  <1>30. ASSUME UNCHANGED vars
        PROVE  LocalInv'
    BY <1>30 DEF vars
  <1> HIDE DEF LocalInv, TypeOK, ExchangeOK
  <1> QED
    BY <1>1, <1>2, <1>3, <1>4, <1>5, <1>6, <1>7, <1>8, <1>9, <1>10, <1>11, <1>12, <1>13, <1>14, <1>15, <1>16, <1>17, <1>18, <1>19, <1>20, <1>21, <1>22, <1>23, <1>24, <1>25, <1>26, <1>27, <1>28, <1>29, <1>30 DEF Next, Run, Upstream

LEMMA LocalAlways == Spec => []LocalInv
  <1>1. Init => LocalInv
    BY ExchangeAssumption DEF Init, LocalInv, TypeOK, ExchangeOK, Settings, Steps,
         InSession, Caught
  <1> QED
    BY <1>1, LocalStep, PTL DEF Spec

\* TypeOK is an invariant of the exchanges.
THEOREM ProxyTypeCorrect == Spec => []TypeOK
  <1>1. LocalInv => TypeOK
    BY DEF LocalInv
  <1> QED
    BY <1>1, LocalAlways, PTL

\* SessionDisposed is an invariant of the exchanges.
THEOREM EverySessionDisposed == Spec => []SessionDisposed
  <1>1. LocalInv => SessionDisposed
    BY DEF LocalInv, ExchangeOK, SessionDisposed
  <1> QED
    BY <1>1, LocalAlways, PTL

-----------------------------------------------------------------------------
(* What a row says of the response.                                        *)

\* An exchange that has settled writes, captures and reads nothing more.
Kept(i) ==
    step[i] \in Settled =>
        step'[i] \in Settled /\ UNCHANGED <<written[i], captured[i], ended[i]>>

LEMMA SettledStays == TypeOK /\ [Next]_vars => \A i \in Ids : Kept(i)
  <1> SUFFICES ASSUME TypeOK, [Next]_vars, NEW i \in Ids
               PROVE  Kept(i)
    OBVIOUS
  <1> USE DEF TypeOK, Kept, Settled, world, locals, stream, Goto, Catch
  <1>1. ASSUME NEW j \in Ids, Run(j)
        PROVE  Kept(i)
    <2>1. CASE Receive(j) \/ ReceiveFails(j) \/ Add(j) \/ AddFails(j) \/ RequestStarted(j)
      BY <2>1 DEF Receive, ReceiveFails, Add, AddFails, RequestStarted
    <2>2. CASE SendCancelled(j) \/ ReadCancelled(j) \/ Write(j) \/ WriteFails(j)
      BY <2>2 DEF SendCancelled, ReadCancelled, Write, WriteFails
    <2>3. CASE Capture(j) \/ CaptureFails(j) \/ PublishChunk(j) \/ Complete(j) \/ CompleteFails(j)
      BY <2>3 DEF Capture, CaptureFails, PublishChunk, Complete, CompleteFails
    <2>4. CASE RequestCompleted(j) \/ Fail(j) \/ FailFails(j) \/ RequestFailed(j)
      BY <2>4 DEF RequestCompleted, Fail, FailFails, RequestFailed
    <2>5. CASE SinkFails(j)
      BY <2>5 DEF SinkFails, EventOf
    <2>6. CASE Answer(j) \/ Dispose(j)
      BY <2>6 DEF Answer, Dispose
    <2> QED
      BY <1>1, <2>1, <2>2, <2>3, <2>4, <2>5, <2>6 DEF Run
  <1>2. ASSUME NEW j \in Ids, Upstream(j)
        PROVE  Kept(i)
    BY <1>2 DEF Upstream, Send, SendRefused, ReadChunk, ReadEnd, ReadBreaks
  <1>3. ASSUME NEW j \in Ids, Leave(j) \/ DeleteRow(j)
        PROVE  Kept(i)
    BY <1>3 DEF Leave, DeleteRow
  <1>4. CASE ChangeSettings \/ Truncate
    BY <1>4 DEF ChangeSettings, Truncate
  <1>5. CASE Restart
    BY <1>5 DEF Restart
  <1>6. CASE UNCHANGED vars
    BY <1>6 DEF vars
  <1> HIDE DEF Kept, TypeOK
  <1> QED
    BY <1>1, <1>2, <1>3, <1>4, <1>5, <1>6 DEF Next

\* The log changes by these steps only.
LEMMA LogWriters ==
    [Next]_vars =>
        \/ UNCHANGED log
        \/ \E j \in Ids : Add(j) \/ Complete(j) \/ Fail(j) \/ DeleteRow(j)
        \/ Truncate
  <1>1. ASSUME NEW j \in Ids, Run(j) \/ Upstream(j) \/ Leave(j), ~Add(j), ~Complete(j), ~Fail(j)
        PROVE  UNCHANGED log
    BY <1>1 DEF Run, Upstream, Receive, ReceiveFails, AddFails, RequestStarted, Send,
         SendCancelled, SendRefused, ReadChunk, ReadEnd, ReadCancelled, ReadBreaks, Write, WriteFails, Capture,
         CaptureFails, PublishChunk, CompleteFails, RequestCompleted, FailFails,
         RequestFailed, SinkFails, Answer, Dispose, Leave
  <1>2. ChangeSettings \/ Restart \/ UNCHANGED vars => UNCHANGED log
    BY DEF ChangeSettings, Restart, vars
  <1> QED
    BY <1>1, <1>2 DEF Next

\* A row is left alone, removed, given another status than Completed, or
\* completed by its exchange with all that was captured.
Completion(s, i) ==
    /\ step[i] = "complete" /\ step'[i] = "completed"
    /\ log'[s][i].body = captured[i]
    /\ UNCHANGED <<written[i], captured[i], ended[i]>>

RowStep(s, i) ==
    \/ log'[s][i] \in {log[s][i], NoRow}
    \/ log'[s][i].status # "Completed"
    \/ Completion(s, i)

LEMMA RowSteps ==
    TypeOK /\ [Next]_vars => \A s \in Stores, i \in Ids : RowStep(s, i)
  <1> SUFFICES ASSUME TypeOK, [Next]_vars, NEW s \in Stores, NEW i \in Ids
               PROVE  RowStep(s, i)
    OBVIOUS
  <1> USE DEF TypeOK
  <1>1. CASE UNCHANGED log
    BY <1>1 DEF RowStep
  <1>2. ASSUME NEW j \in Ids, Add(j)
        PROVE  RowStep(s, i)
    <2>1. CASE s = current.store /\ i = j
      <3>1. log'[s][i].status = "Pending"
        BY <1>2, <2>1 DEF Add
      <3> QED
        BY <3>1 DEF RowStep
    <2>2. CASE ~(s = current.store /\ i = j)
      BY <1>2, <2>2 DEF Add, RowStep
    <2> QED
      BY <2>1, <2>2
  <1>3. ASSUME NEW j \in Ids, Complete(j)
        PROVE  RowStep(s, i)
    <2>1. \/ log'[s][i] = log[s][i]
          \/ i = j /\ log'[s][i].body = captured[j]
      BY <1>3, UpdateRowType DEF Complete
    <2>2. step[j] = "complete" /\ step'[j] = "completed"
      BY <1>3 DEF Complete, Goto
    <2>3. UNCHANGED <<written, captured, ended>>
      BY <1>3 DEF Complete, locals, stream
    <2> QED
      BY <2>1, <2>2, <2>3 DEF RowStep, Completion
  <1>4. ASSUME NEW j \in Ids, Fail(j)
        PROVE  RowStep(s, i)
    <2>1. log[current.store][j] # NoRow => log[current.store][j].body \in 0..MaxChunks
      BY DEF Settings, Row
    <2>2. \/ log'[s][i] = log[s][i]
          \/ log'[s][i].status = "Failed"
      BY <1>4, <2>1, UpdateRowType DEF Fail
    <2> QED
      BY <2>2 DEF RowStep
  <1>5. ASSUME NEW j \in Ids, DeleteRow(j)
        PROVE  RowStep(s, i)
    BY <1>5 DEF DeleteRow, RowStep
  <1>6. CASE Truncate
    BY <1>6 DEF Truncate, RowStep
  <1> HIDE DEF TypeOK
  <1> QED
    BY <1>1, <1>2, <1>3, <1>4, <1>5, <1>6, LogWriters

\* CompletedIsWhole is an invariant of the exchanges, whatever goes wrong.
THEOREM WholeResponses == Spec => []CompletedIsWhole
  <1>1. Init => RowsInv
    BY DEF Init, RowsInv, RowWhole
  <1>2. LocalInv /\ RowsInv /\ [Next]_vars => RowsInv'
    <2> SUFFICES ASSUME LocalInv, RowsInv, [Next]_vars, NEW s \in Stores, NEW i \in Ids,
                        log'[s][i] # NoRow, log'[s][i].status = "Completed"
                 PROVE  RowWhole(s, i)'
      BY DEF RowsInv, RowWhole
    <2>1. Kept(i) /\ RowStep(s, i)
      BY SettledStays, RowSteps DEF LocalInv
    <2>2. CASE log'[s][i] = log[s][i]
      <3>1. RowWhole(s, i)
        BY DEF RowsInv
      <3> QED
        BY <2>1, <2>2, <3>1 DEF RowWhole, Kept
    <2>3. CASE Completion(s, i)
      <3>1. ExchangeOK(i)
        BY DEF LocalInv
      <3> QED
        BY <2>3, <3>1 DEF Completion, ExchangeOK, Caught, Settled, RowWhole
    <2> QED
      BY <2>1, <2>2, <2>3 DEF RowStep
  <1>3. RowsInv => CompletedIsWhole
    BY DEF RowsInv, RowWhole, CompletedIsWhole
  <1> QED
    BY <1>1, <1>2, <1>3, LocalAlways, PTL DEF Spec

-----------------------------------------------------------------------------
(* What a row says of the request.                                         *)

\* The row of exchange i, wherever it is, has the backend the exchange read
\* and went to, and there is none before Add.
NamedOK(i) ==
    /\ sentTo[i] \in {NoBackend, backend[i]}
    /\ step[i] = "new" => sentTo[i] = NoBackend
    /\ \A s \in Stores : log[s][i] # NoRow =>
         step[i] \notin {"new", "add"} /\ log[s][i].backend = backend[i]

LEMMA InitNamed == Init => \A i \in Ids : NamedOK(i)
  <1> SUFFICES ASSUME Init, NEW i \in Ids
               PROVE  NamedOK(i)
    OBVIOUS
  <1>1. sentTo[i] = NoBackend /\ \A s \in Stores : log[s][i] = NoRow
    BY DEF Init
  <1> QED
    BY <1>1 DEF NamedOK

LEMMA NamedStep ==
    TypeOK /\ [Next]_vars => \A i \in Ids : NamedOK(i) => NamedOK(i)'
  <1> SUFFICES ASSUME TypeOK, [Next]_vars, NEW i \in Ids, NamedOK(i)
               PROVE  NamedOK(i)'
    OBVIOUS
  <1> USE DEF TypeOK, NamedOK, world, locals, stream, Goto, Catch
  <1>1. ASSUME NEW j \in Ids, Run(j), ~Add(j), ~Complete(j), ~Fail(j)
        PROVE  NamedOK(i)'
    <2>1. CASE Receive(j) \/ ReceiveFails(j) \/ AddFails(j) \/ RequestStarted(j)
      BY <2>1 DEF Receive, ReceiveFails, AddFails, RequestStarted
    <2>2. CASE SendCancelled(j) \/ ReadCancelled(j) \/ Write(j) \/ WriteFails(j)
      BY <2>2 DEF SendCancelled, ReadCancelled, Write, WriteFails
    <2>3. CASE Capture(j) \/ CaptureFails(j) \/ PublishChunk(j) \/ CompleteFails(j)
      BY <2>3 DEF Capture, CaptureFails, PublishChunk, CompleteFails
    <2>4. CASE RequestCompleted(j) \/ FailFails(j) \/ RequestFailed(j)
      BY <2>4 DEF RequestCompleted, FailFails, RequestFailed
    <2>5. CASE SinkFails(j)
      BY <2>5 DEF SinkFails, EventOf
    <2>6. CASE Answer(j) \/ Dispose(j)
      BY <2>6 DEF Answer, Dispose
    <2> QED
      BY <1>1, <2>1, <2>2, <2>3, <2>4, <2>5, <2>6 DEF Run
  <1>2. ASSUME NEW j \in Ids, Add(j)
        PROVE  NamedOK(i)'
    <2>1. \A s \in Stores :
            \/ log'[s][i] = log[s][i]
            \/ i = j /\ log'[s][i].backend = backend[i]
      BY <1>2 DEF Add
    <2>2. /\ UNCHANGED <<sentTo, backend>>
          /\ i = j => step'[i] = "started"
          /\ i # j => step'[i] = step[i]
      BY <1>2 DEF Add
    <2>3. step[j] = "add"
      BY <1>2 DEF Add
    <2> QED
      BY <2>1, <2>2, <2>3
  <1>3. ASSUME NEW j \in Ids, Complete(j) \/ Fail(j)
        PROVE  NamedOK(i)'
    <2>1. log[current.store][j] # NoRow => log[current.store][j].body \in 0..MaxChunks
      BY DEF Settings, Row
    <2>2. \A s \in Stores :
            \/ log'[s][i] = log[s][i]
            \/ log[s][i] # NoRow /\ log'[s][i].backend = log[s][i].backend
      BY <1>3, <2>1, UpdateRowType DEF Complete, Fail
    <2>3. UNCHANGED <<sentTo, backend>>
      BY <1>3 DEF Complete, Fail
    <2>4. step'[i] = step[i] \/ step'[i] \in {"completed", "failed"}
      BY <1>3 DEF Complete, Fail
    <2>5. step'[i] = "new" => step[i] = "new"
      BY <2>4
    <2> QED
      BY <2>2, <2>3, <2>4, <2>5
  <1>4. ASSUME NEW j \in Ids, Upstream(j) \/ Leave(j)
        PROVE  NamedOK(i)'
    BY <1>4 DEF Upstream, Send, SendRefused, ReadChunk, ReadEnd, ReadBreaks, Leave
  <1>5. ASSUME NEW j \in Ids, DeleteRow(j)
        PROVE  NamedOK(i)'
    BY <1>5 DEF DeleteRow
  <1>6. CASE Truncate
    BY <1>6 DEF Truncate
  <1>7. CASE ChangeSettings
    BY <1>7 DEF ChangeSettings
  <1>8. CASE Restart
    BY <1>8 DEF Restart
  <1>9. CASE UNCHANGED vars
    BY <1>9 DEF vars
  <1> HIDE DEF NamedOK, TypeOK
  <1> QED
    BY <1>1, <1>2, <1>3, <1>4, <1>5, <1>6, <1>7, <1>8, <1>9 DEF Next, Run

\* RowNamesBackend is an invariant: no change of the settings, however timed,
\* makes a row name another backend than the request went to.
THEOREM RowsNameBackends == Spec => []RowNamesBackend
  <1> DEFINE Named == \A i \in Ids : NamedOK(i)
  <1>1. Init => Named
    BY InitNamed
  <1>2. TypeOK /\ Named /\ [Next]_vars => Named'
    BY NamedStep
  <1>3. Named => RowNamesBackend
    BY DEF NamedOK, RowNamesBackend
  <1> HIDE DEF Named
  <1> QED
    BY <1>1, <1>2, <1>3, ProxyTypeCorrect, PTL DEF Spec

\* DeletedStaysDeleted: a row comes into being by Add only, once.
THEOREM DeletedRowsStay == Spec => DeletedStaysDeleted
  <1> DEFINE Named == \A i \in Ids : NamedOK(i)
  <1>1. Init => Named
    BY InitNamed
  <1>2. TypeOK /\ Named /\ [Next]_vars => Named'
    BY NamedStep
  <1>3. ASSUME TypeOK, Named, [Next]_vars, NEW s \in Stores, NEW i \in Ids,
               log[s][i] = NoRow, log'[s][i] # NoRow
        PROVE  step[i] = "add" /\ \A t \in Stores : log[t][i] = NoRow
    <2>1. PICK j \in Ids : Add(j) \/ Complete(j) \/ Fail(j)
      <3>1. log' # log
        BY <1>3
      <3>2. ASSUME Truncate
            PROVE  FALSE
        <4>1. log' = [log EXCEPT ![current.store] = [k \in Ids |-> NoRow]]
          BY <3>2 DEF Truncate
        <4>2. log'[s][i] \in {log[s][i], NoRow}
          BY <4>1, <1>3 DEF TypeOK
        <4> QED
          BY <4>2, <1>3
      <3>3. ASSUME NEW j \in Ids, DeleteRow(j)
            PROVE  FALSE
        <4>1. log' = [log EXCEPT ![current.store][j] = NoRow]
          BY <3>3 DEF DeleteRow
        <4>2. log'[s][i] \in {log[s][i], NoRow}
          BY <4>1, <1>3 DEF TypeOK
        <4> QED
          BY <4>2, <1>3
      <3> QED
        BY <1>3, <3>1, <3>2, <3>3, LogWriters
    <2>2. ~(Complete(j) \/ Fail(j))
      <3>1. log[current.store][j] # NoRow => log[current.store][j].body \in 0..MaxChunks
        BY <1>3 DEF Settings, Row, TypeOK
      <3> QED
        BY <1>3, <3>1, UpdateRowType DEF Complete, Fail, TypeOK
    <2>3. Add(j)
      BY <2>1, <2>2
    <2>4. i = j
      <3>1. i # j => log'[s][i] = log[s][i]
        BY <1>3, <2>3 DEF Add, TypeOK
      <3> QED
        BY <1>3, <3>1
    <2>5. step[i] = "add"
      BY <2>3, <2>4 DEF Add
    <2> QED
      BY <1>3, <2>5 DEF NamedOK
  <1>4. TypeOK /\ Named /\ [Next]_vars =>
          [\A s \in Stores, i \in Ids : log[s][i] = NoRow /\ log'[s][i] # NoRow =>
             step[i] = "add" /\ \A t \in Stores : log[t][i] = NoRow]_vars
    BY <1>3
  <1> HIDE DEF Named
  <1> QED
    BY <1>1, <1>2, <1>4, ProxyTypeCorrect, PTL DEF Spec, DeletedStaysDeleted
-----------------------------------------------------------------------------
(* What the client is told.                                                *)

\* A client that was answered 502 had been sent nothing, and its exchange is
\* past every step that writes; what was written has started the response.
AnswerOK(i) ==
    /\ badGateway[i] => step[i] \in {"dispose", "done", "lost"} /\ ~hasStarted[i]
    /\ written[i] # 0 => hasStarted[i]

LEMMA AnswerStep ==
    TypeOK /\ [Next]_vars => \A i \in Ids : AnswerOK(i) => AnswerOK(i)'
  <1> SUFFICES ASSUME TypeOK, [Next]_vars, NEW i \in Ids, AnswerOK(i)
               PROVE  AnswerOK(i)'
    OBVIOUS
  <1> USE DEF TypeOK, AnswerOK, world, locals, stream, Goto, Catch
  <1>1. ASSUME NEW j \in Ids, Run(j)
        PROVE  AnswerOK(i)'
    <2>1. CASE Receive(j) \/ ReceiveFails(j) \/ Add(j) \/ AddFails(j) \/ RequestStarted(j)
      BY <2>1 DEF Receive, ReceiveFails, Add, AddFails, RequestStarted
    <2>2. CASE SendCancelled(j) \/ ReadCancelled(j)
      BY <2>2 DEF SendCancelled, ReadCancelled
    <2>3. CASE Write(j) \/ WriteFails(j)
      BY <2>3 DEF Write, WriteFails
    <2>4. CASE Capture(j) \/ CaptureFails(j) \/ PublishChunk(j) \/ Complete(j) \/ CompleteFails(j)
      BY <2>4 DEF Capture, CaptureFails, PublishChunk, Complete, CompleteFails
    <2>5. CASE RequestCompleted(j) \/ Fail(j) \/ FailFails(j) \/ RequestFailed(j)
      BY <2>5 DEF RequestCompleted, Fail, FailFails, RequestFailed
    <2>6. CASE SinkFails(j)
      BY <2>6 DEF SinkFails, EventOf
    <2>7. CASE Answer(j)
      <3>1. \/ UNCHANGED <<badGateway[i], step[i]>>
            \/ /\ step'[i] = "dispose"
               /\ badGateway'[i] => ~hasStarted[i]
        BY <2>7 DEF Answer
      <3> QED
        BY <2>7, <3>1 DEF Answer
    <2>8. CASE Dispose(j)
      BY <2>8 DEF Dispose
    <2> QED
      BY <1>1, <2>1, <2>2, <2>3, <2>4, <2>5, <2>6, <2>7, <2>8 DEF Run
  <1>2. ASSUME NEW j \in Ids, Upstream(j)
        PROVE  AnswerOK(i)'
    BY <1>2 DEF Upstream, Send, SendRefused, ReadChunk, ReadEnd, ReadBreaks
  <1>3. ASSUME NEW j \in Ids, Leave(j) \/ DeleteRow(j)
        PROVE  AnswerOK(i)'
    BY <1>3 DEF Leave, DeleteRow
  <1>4. CASE ChangeSettings \/ Truncate
    BY <1>4 DEF ChangeSettings, Truncate
  <1>5. CASE Restart
    BY <1>5 DEF Restart
  <1>6. CASE UNCHANGED vars
    BY <1>6 DEF vars
  <1> HIDE DEF AnswerOK, TypeOK
  <1> QED
    BY <1>1, <1>2, <1>3, <1>4, <1>5, <1>6 DEF Next

\* ErrorStandsAlone is an invariant of the exchanges: whatever fails, and when
\* it does, the 502 of ProxyAsync is all the client gets.
THEOREM ErrorsStandAlone == Spec => []ErrorStandsAlone
  <1> DEFINE Answers == \A i \in Ids : AnswerOK(i)
  <1>1. Init => Answers
    BY DEF Init, AnswerOK
  <1>2. TypeOK /\ Answers /\ [Next]_vars => Answers'
    BY AnswerStep
  <1>3. Answers => ErrorStandsAlone
    BY DEF AnswerOK, ErrorStandsAlone
  <1> HIDE DEF Answers
  <1> QED
    BY <1>1, <1>2, <1>3, ProxyTypeCorrect, PTL DEF Spec

-----------------------------------------------------------------------------
(* Feeds: the sequences of events that are broadcast about an exchange.    *)

Ends == {"completed", "failed"}

\* Announced and not over.
Running(s) == s # <<>> /\ \A k \in DOMAIN s : s[k] \notin Ends

\* The announcement comes first and the end, if there is one, last.
Ordered(s) ==
    \A k \in DOMAIN s :
        /\ s[k] = "started" <=> k = 1
        /\ s[k] \in Ends => k = Len(s)

LEMMA Appending ==
    ASSUME NEW s \in Seq(Events), NEW e \in Events
    PROVE  /\ Append(s, e) \in Seq(Events)
           /\ Len(s) \in Nat /\ DOMAIN s = 1..Len(s)
           /\ Len(Append(s, e)) = Len(s) + 1
           /\ DOMAIN Append(s, e) = 1..(Len(s) + 1)
           /\ \A k \in 1..Len(s) : Append(s, e)[k] = s[k]
           /\ Append(s, e)[Len(s) + 1] = e
  OBVIOUS

\* An empty feed is announced, a running one goes on or ends.
LEMMA FeedAnnounced ==
    ASSUME NEW s, s = <<>>
    PROVE  /\ Ordered(s)
           /\ Ordered(Append(s, "started"))
           /\ Running(Append(s, "started"))
  <1>1. s \in Seq(Events) /\ Len(s) = 0 /\ "started" \in Events
    BY DEF Events
  <1>2. Ordered(s)
    BY <1>1, Appending DEF Ordered
  <1>3. DOMAIN Append(s, "started") = {1} /\ Append(s, "started")[1] = "started"
    BY <1>1, Appending
  <1>4. Append(s, "started") # <<>>
    BY <1>3
  <1> QED
    BY <1>2, <1>3, <1>4 DEF Ordered, Running, Ends

LEMMA FeedGoesOn ==
    ASSUME NEW s \in Seq(Events), Ordered(s), Running(s)
    PROVE  /\ Ordered(Append(s, "chunk"))
           /\ Running(Append(s, "chunk"))
           /\ \A e \in Ends : Ordered(Append(s, e))
  <1>1. Len(s) \in Nat /\ Len(s) # 0 /\ DOMAIN s = 1..Len(s)
    BY DEF Running
  <1>2. ASSUME NEW e \in Ends \union {"chunk"}
        PROVE  Ordered(Append(s, e)) /\ (e = "chunk" => Running(Append(s, e)))
    <2>1. e \in Events
      BY DEF Ends, Events
    <2>2. Ordered(Append(s, e))
      <3> SUFFICES ASSUME NEW k \in 1..(Len(s) + 1)
                   PROVE  /\ Append(s, e)[k] = "started" <=> k = 1
                          /\ Append(s, e)[k] \in Ends => k = Len(s) + 1
        BY <2>1, Appending DEF Ordered
      <3>1. CASE k \in 1..Len(s)
        BY <3>1, <2>1, <1>1, Appending DEF Ordered, Running
      <3>2. CASE k = Len(s) + 1
        BY <3>2, <2>1, <1>1, Appending DEF Ends
      <3> QED
        BY <3>1, <3>2, <1>1
    <2>3. ASSUME e = "chunk"
          PROVE  Running(Append(s, e))
      <3>1. \A k \in 1..(Len(s) + 1) : k \in 1..Len(s) \/ k = Len(s) + 1
        BY <1>1
      <3> QED
        BY <3>1, <2>3, <2>1, <1>1, Appending DEF Running, Ends
    <2> QED
      BY <2>2, <2>3
  <1> QED
    BY <1>2

\* A chunk is one more, any other event none.
Chunks(s) == Cardinality({k \in DOMAIN s : s[k] = "chunk"})

LEMMA CountChunks ==
    ASSUME NEW s \in Seq(Events), NEW e \in Events
    PROVE  /\ Chunks(s) \in Nat
           /\ Chunks(Append(s, e)) = Chunks(s) + (IF e = "chunk" THEN 1 ELSE 0)
  <1> DEFINE A == {k \in DOMAIN s : s[k] = "chunk"}
             B == {k \in DOMAIN Append(s, e) : Append(s, e)[k] = "chunk"}
  <1>1. IsFiniteSet(1..Len(s))
    BY FS_Interval
  <1>2. IsFiniteSet(A) /\ Cardinality(A) \in Nat
    BY <1>1, FS_Subset, FS_CardinalityType
  <1>3. Chunks(s) = Cardinality(A) /\ Chunks(Append(s, e)) = Cardinality(B)
    BY DEF Chunks
  <1>4. CASE e = "chunk"
    <2>1. B = A \union {Len(s) + 1} /\ Len(s) + 1 \notin A
      BY <1>4, Appending
    <2>2. Cardinality(A \union {Len(s) + 1}) = Cardinality(A) + 1
      BY <1>2, <2>1, FS_AddElement
    <2> HIDE DEF A, B
    <2> QED
      BY <1>2, <1>3, <1>4, <2>1, <2>2
  <1>5. CASE e # "chunk"
    <2>1. B = A
      BY <1>5, Appending
    <2> HIDE DEF A, B
    <2> QED
      BY <1>2, <1>3, <1>5, <2>1
  <1> QED
    BY <1>4, <1>5

-----------------------------------------------------------------------------
(* What a step does to the feed of an exchange.                            *)

\* Exchange j broadcasts, or not, what its step says; the others are silent.
Silent(i) == feed'[i] = feed[i]
Says(i, event) == feed'[i] = Append(feed[i], event)

LEMMA BroadcastSays ==
    ASSUME TypeOK, NEW j \in Ids, NEW event, Broadcast(j, event), NEW i \in Ids
    PROVE  IF i = j THEN Says(i, event) ELSE Silent(i)
  BY DEF Broadcast, Says, Silent, TypeOK

\* The steps before the announcement.
Unannounced(i) == step[i] \in {"new", "add", "started"}

\* The steps from which an end may still be announced.
Live(i) ==
    \/ step[i] \in {"send", "read", "write", "capture", "publish", "complete",
                     "completed", "failed"}
    \/ step[i] = "fail" /\ ~gone[i]

FeedMove(i) ==
    \/ /\ Silent(i)
       /\ Live(i)' => Live(i)
       /\ Unannounced(i)' => Unannounced(i)
    \/ /\ Unannounced(i) /\ Says(i, "started")
       /\ ~Unannounced(i)'
    \/ /\ Live(i) /\ Says(i, "chunk")
       /\ ~Unannounced(i)'
    \/ /\ step[i] \in Ends /\ Says(i, step[i])
       /\ ~Live(i)' /\ ~Unannounced(i)'

\* Where the sink can be relied on, an exchange goes on after an event only if
\* the event was broadcast.
LEMMA FeedMoves ==
    ASSUME "sink" \notin Faults, LocalInv, [Next]_vars, NEW i \in Ids
    PROVE  FeedMove(i)
  <1>0. TypeOK /\ \A j \in Ids : ExchangeOK(j)
    BY DEF LocalInv
  <1> USE <1>0 DEF TypeOK, world, locals, stream, Goto, Catch, Unannounced, Live
  <1>1. ASSUME NEW j \in Ids, Run(j)
        PROVE  FeedMove(i)
    <2>1. CASE Receive(j) \/ ReceiveFails(j) \/ Add(j) \/ AddFails(j)
      <3>1. Silent(i)
        BY <2>1 DEF Receive, ReceiveFails, Add, AddFails, Silent
      <3>2. step[j] = "add" => session[j] = "none"
        BY DEF ExchangeOK
      <3>3. (Live(i)' => Live(i)) /\ (Unannounced(i)' => Unannounced(i))
        BY <2>1, <3>2 DEF Receive, ReceiveFails, Add, AddFails
      <3> QED
        BY <3>1, <3>3 DEF FeedMove
    <2>2. CASE SendCancelled(j) \/ ReadCancelled(j) \/ Write(j) \/ WriteFails(j)
      BY <2>2 DEF SendCancelled, ReadCancelled, Write, WriteFails, FeedMove, Silent
    <2>3. CASE Capture(j) \/ CaptureFails(j) \/ Complete(j) \/ CompleteFails(j)
      BY <2>3 DEF Capture, CaptureFails, Complete, CompleteFails, FeedMove, Silent
    <2>4. CASE Fail(j) \/ FailFails(j) \/ Answer(j) \/ Dispose(j)
      <3>1. Silent(i)
        BY <2>4 DEF Fail, FailFails, Answer, Dispose, Silent
      <3>2. (Live(i)' => Live(i)) /\ (Unannounced(i)' => Unannounced(i))
        BY <2>4 DEF Fail, FailFails, Answer, Dispose, StatementRuns
      <3> QED
        BY <3>1, <3>2 DEF FeedMove
    <2>5. CASE RequestStarted(j)
      BY <2>5, BroadcastSays DEF RequestStarted, FeedMove, Silent
    <2>6. CASE PublishChunk(j)
      BY <2>6, BroadcastSays DEF PublishChunk, FeedMove, Silent
    <2>7. CASE RequestCompleted(j)
      BY <2>7, BroadcastSays DEF RequestCompleted, FeedMove, Silent, Ends
    <2>8. CASE RequestFailed(j)
      BY <2>8, BroadcastSays DEF RequestFailed, FeedMove, Silent, Ends
    <2>9. CASE SinkFails(j)
      <3>1. gone[j] /\ UNCHANGED gone /\ step[j] \in DOMAIN EventOf
        BY <2>9 DEF SinkFails
      <3>2. /\ i = j => step'[i] \in {"dispose", "answer", "fail"}
            /\ i # j => step'[i] = step[i]
        BY <2>9 DEF SinkFails
      <3>3. IF i = j THEN Silent(i) \/ Says(i, EventOf[step[i]]) ELSE Silent(i)
        BY <2>9, BroadcastSays DEF SinkFails, Silent
      <3>4. step[j] \in {"started", "publish", "completed", "failed"}
        BY <3>1 DEF EventOf
      <3>5. /\ step[j] = "started" => EventOf[step[j]] = "started"
            /\ step[j] = "publish" => EventOf[step[j]] = "chunk"
            /\ step[j] \in Ends => EventOf[step[j]] = step[j]
        BY DEF EventOf, Ends
      <3> QED
        BY <3>1, <3>2, <3>3, <3>4, <3>5 DEF FeedMove, Ends
    <2> QED
      BY <1>1, <2>1, <2>2, <2>3, <2>4, <2>5, <2>6, <2>7, <2>8, <2>9 DEF Run
  <1> USE DEF FeedMove, Silent
  <1>2. ASSUME NEW j \in Ids, Upstream(j)
        PROVE  FeedMove(i)
    BY <1>2 DEF Upstream, Send, SendRefused, ReadChunk, ReadEnd, ReadBreaks
  <1>3. ASSUME NEW j \in Ids, Leave(j) \/ DeleteRow(j)
        PROVE  FeedMove(i)
    BY <1>3 DEF Leave, DeleteRow
  <1>4. CASE ChangeSettings \/ Truncate
    BY <1>4 DEF ChangeSettings, Truncate
  <1>5. CASE Restart
    BY <1>5 DEF Restart
  <1>6. CASE UNCHANGED vars
    BY <1>6 DEF vars
  <1> HIDE DEF FeedMove, TypeOK
  <1> QED
    BY <1>1, <1>2, <1>3, <1>4, <1>5, <1>6 DEF Next

-----------------------------------------------------------------------------
(* The order of the events.                                                *)

OrderOK(i) ==
    /\ Ordered(feed[i])
    /\ Unannounced(i) => feed[i] = <<>>
    /\ Live(i) => Running(feed[i])

LEMMA OrderStep ==
    ASSUME "sink" \notin Faults, LocalInv, [Next]_vars, NEW i \in Ids, OrderOK(i)
    PROVE  OrderOK(i)'
  <1>1. feed[i] \in Seq(Events)
    BY DEF LocalInv, TypeOK, Events
  <1>2. ~(Live(i) /\ Unannounced(i)) /\ ~(Live(i) /\ Unannounced(i))'
    BY DEF Live, Unannounced
  <1>3. CASE Silent(i) /\ (Live(i)' => Live(i)) /\ (Unannounced(i)' => Unannounced(i))
    BY <1>3 DEF OrderOK, Silent
  <1>4. CASE Unannounced(i) /\ Says(i, "started") /\ ~Unannounced(i)'
    BY <1>4, FeedAnnounced DEF OrderOK, Says
  <1>5. CASE Live(i) /\ Says(i, "chunk") /\ ~Unannounced(i)'
    BY <1>1, <1>5, FeedGoesOn DEF OrderOK, Says
  <1>6. CASE step[i] \in Ends /\ Says(i, step[i]) /\ ~Live(i)' /\ ~Unannounced(i)'
    <2>1. Live(i)
      BY <1>6 DEF Live, Ends
    <2> QED
      BY <1>1, <1>6, <2>1, FeedGoesOn DEF OrderOK, Says
  <1> QED
    BY <1>3, <1>4, <1>5, <1>6, FeedMoves DEF FeedMove

LEMMA InitOrder == Init => \A i \in Ids : OrderOK(i)
  <1> SUFFICES ASSUME Init, NEW i \in Ids
               PROVE  OrderOK(i)
    OBVIOUS
  <1>1. feed[i] = <<>> /\ step[i] = "new"
    BY DEF Init
  <1> QED
    BY <1>1, FeedAnnounced DEF OrderOK, Live

\* FeedInOrder is an invariant: with a sink that can be relied on, no order of
\* failures, departures and restarts breaks the order of the events.
THEOREM EventsInOrder == Spec => []FeedInOrder
  <1>1. CASE "sink" \in Faults
    <2>1. FeedInOrder
      BY <1>1 DEF FeedInOrder
    <2> QED
      BY <2>1, PTL
  <1>2. CASE "sink" \notin Faults
    <2> DEFINE Order == \A i \in Ids : OrderOK(i)
    <2>1. Init => Order
      BY InitOrder
    <2>2. LocalInv /\ Order /\ [Next]_vars => Order'
      BY <1>2, OrderStep
    <2>3. Order => FeedInOrder
      BY DEF OrderOK, Ordered, FeedInOrder, Ends
    <2> HIDE DEF Order
    <2> QED
      BY <2>1, <2>2, <2>3, LocalAlways, PTL DEF Spec
  <1> QED
    BY <1>1, <1>2

-----------------------------------------------------------------------------
(* The client, the capture and the dashboard.                              *)

\* How far the capture and the feed are behind the client at each step.
FollowOK(i) ==
    /\ Shown(i) <= captured[i]
    /\ captured[i] <= written[i]
    /\ written[i] <= Shown(i) + 1
    /\ step[i] \in {"new", "add", "started", "send", "read", "write"} =>
         written[i] = Shown(i)
    /\ step[i] = "publish" => captured[i] = Shown(i) + 1

\* The number of chunks shown changes by a broadcast of the exchange only.
LEMMA ShownByFeed ==
    ASSUME TypeOK, NEW i \in Ids
    PROVE  /\ Shown(i) \in Nat
           /\ Silent(i) => Shown(i)' = Shown(i)
           /\ \A event \in Events :
                Says(i, event) =>
                  Shown(i)' = Shown(i) + (IF event = "chunk" THEN 1 ELSE 0)
  <1>1. feed[i] \in Seq(Events)
    BY DEF TypeOK, Events
  <1>2. Shown(i) = Chunks(feed[i]) /\ Shown(i)' = Chunks(feed'[i])
    BY DEF Shown, Chunks
  <1>3. ASSUME NEW event \in Events
        PROVE  /\ Chunks(feed[i]) \in Nat
               /\ Chunks(Append(feed[i], event))
                    = Chunks(feed[i]) + (IF event = "chunk" THEN 1 ELSE 0)
    BY <1>1, CountChunks
  <1>4. Silent(i) => Shown(i)' = Shown(i)
    BY <1>2 DEF Silent
  <1>5. ASSUME NEW event \in Events, Says(i, event)
        PROVE  Shown(i)' = Shown(i) + (IF event = "chunk" THEN 1 ELSE 0)
    BY <1>2, <1>3, <1>5 DEF Says
  <1>6. "chunk" \in Events
    BY DEF Events
  <1> QED
    BY <1>2, <1>3, <1>4, <1>5, <1>6

LEMMA FollowStep ==
    ASSUME LocalInv, [Next]_vars, NEW i \in Ids, FollowOK(i)
    PROVE  FollowOK(i)'
  <1>0. TypeOK /\ ExchangeOK(i)
    BY DEF LocalInv
  <1>1. /\ Shown(i) \in Nat
        /\ captured[i] \in Nat /\ written[i] \in Nat
    BY <1>0, ShownByFeed, ExchangeAssumption DEF TypeOK
  \* Nothing is written, captured or shown, and the exchange goes where less or
  \* as much is said of it.
  <1>2. ASSUME Shown(i)' = Shown(i), UNCHANGED <<captured[i], written[i]>>,
               \/ step'[i] = step[i]
               \/ step[i] \in {"new", "add", "started", "send", "read", "write"}
                    /\ step'[i] # "publish"
               \/ step'[i] \notin {"new", "add", "started", "send", "read", "write", "publish"}
        PROVE  FollowOK(i)'
    BY <1>1, <1>2 DEF FollowOK
  <1>3. Silent(i) => Shown(i)' = Shown(i)
    BY <1>0, ShownByFeed
  <1>4. \A event \in Events \ {"chunk"} : Says(i, event) => Shown(i)' = Shown(i)
    BY <1>0, <1>1, ShownByFeed
  <1> USE <1>0 DEF TypeOK, world, locals, stream, Goto, Catch
  <1>5. ASSUME NEW j \in Ids, Run(j)
        PROVE  FollowOK(i)'
    <2>1. CASE Receive(j) \/ ReceiveFails(j) \/ Add(j) \/ AddFails(j)
      BY <1>2, <1>3, <2>1 DEF Receive, ReceiveFails, Add, AddFails, Silent
    <2>2. CASE SendCancelled(j) \/ ReadCancelled(j) \/ WriteFails(j)
      BY <1>2, <1>3, <2>2 DEF SendCancelled, ReadCancelled, WriteFails, Silent
    <2>3. CASE CaptureFails(j) \/ Complete(j) \/ CompleteFails(j)
      BY <1>2, <1>3, <2>3 DEF CaptureFails, Complete, CompleteFails, Silent
    <2>4. CASE Fail(j) \/ FailFails(j) \/ Answer(j) \/ Dispose(j)
      BY <1>2, <1>3, <2>4 DEF Fail, FailFails, Answer, Dispose, Silent
    <2>5. CASE Write(j)
      <3>1. Shown(i)' = Shown(i)
        BY <1>3, <2>5 DEF Write, Silent
      <3>2. CASE i # j
        BY <1>2, <2>5, <3>1, <3>2 DEF Write
      <3>3. CASE i = j
        <4>1. step[i] = "write" /\ captured[i] = written[i] /\ written[i] = Shown(i)
          BY <2>5, <3>3 DEF Write, ExchangeOK, Caught, FollowOK
        <4>2. step'[i] = "capture" /\ captured'[i] = captured[i] /\ written'[i] = written[i] + 1
          BY <2>5, <3>3 DEF Write
        <4> QED
          BY <1>1, <3>1, <4>1, <4>2 DEF FollowOK
      <3> QED
        BY <3>2, <3>3
    <2>6. CASE Capture(j)
      <3>1. Shown(i)' = Shown(i)
        BY <1>3, <2>6 DEF Capture, Silent
      <3>2. CASE i # j
        BY <1>2, <2>6, <3>1, <3>2 DEF Capture
      <3>3. CASE i = j
        <4>1. step[i] = "capture" /\ captured[i] + 1 = written[i]
          BY <2>6, <3>3 DEF Capture, ExchangeOK
        <4>2. step'[i] = "publish" /\ written'[i] = written[i] /\ captured'[i] = captured[i] + 1
          BY <2>6, <3>3 DEF Capture
        <4> QED
          BY <1>1, <3>1, <4>1, <4>2 DEF FollowOK
      <3> QED
        BY <3>2, <3>3
    <2>7. CASE RequestStarted(j) \/ RequestCompleted(j) \/ RequestFailed(j)
      <3>1. Silent(i) \/ \E event \in Events \ {"chunk"} : Says(i, event)
        BY <2>7, BroadcastSays DEF RequestStarted, RequestCompleted, RequestFailed, Events
      <3>2. Shown(i)' = Shown(i)
        BY <1>3, <1>4, <3>1
      <3> QED
        BY <1>2, <2>7, <3>2 DEF RequestStarted, RequestCompleted, RequestFailed
    \* A chunk is shown: of the steps that come next, only "read" says how much.
    <2>8. ASSUME i = j, step[i] = "publish", Says(i, "chunk"),
                 UNCHANGED <<captured[i], written[i]>>,
                 step'[i] \in {"read", "answer", "fail"}
          PROVE  FollowOK(i)'
      <3>1. Shown(i)' = Shown(i) + 1
        BY <2>8, ShownByFeed DEF Events
      <3>2. captured[i] = written[i] /\ captured[i] = Shown(i) + 1
        BY <2>8 DEF ExchangeOK, Caught, FollowOK
      <3> QED
        BY <1>1, <2>8, <3>1, <3>2 DEF FollowOK
    <2>9. CASE PublishChunk(j)
      <3>1. CASE i # j
        BY <1>2, <1>3, <2>9, <3>1, BroadcastSays DEF PublishChunk
      <3>2. CASE i = j
        BY <2>8, <2>9, <3>2, BroadcastSays DEF PublishChunk
      <3> QED
        BY <3>1, <3>2
    <2>10. CASE SinkFails(j)
      <3>1. /\ step[j] \in {"started", "publish", "completed", "failed"}
            /\ i = j => step'[i] \in {"dispose", "answer", "fail"}
            /\ i # j => step'[i] = step[i]
            /\ UNCHANGED <<captured, written>>
        BY <2>10 DEF SinkFails, EventOf
      <3>2. IF i = j THEN Silent(i) \/ Says(i, EventOf[step[i]]) ELSE Silent(i)
        BY <2>10, BroadcastSays DEF SinkFails, Silent
      <3>3. CASE Silent(i)
        BY <1>2, <1>3, <3>1, <3>3
      <3>4. CASE i = j /\ Says(i, EventOf[step[i]]) /\ step[i] # "publish"
        <4>1. EventOf[step[i]] \in Events \ {"chunk"}
          BY <3>1, <3>4 DEF EventOf, Events
        <4> QED
          BY <1>2, <1>4, <3>1, <3>4, <4>1
      <3>5. CASE i = j /\ Says(i, EventOf[step[i]]) /\ step[i] = "publish"
        <4>1. Says(i, "chunk")
          BY <3>5 DEF EventOf
        <4>2. step'[i] \in {"answer", "fail"}
          BY <2>10, <3>5 DEF SinkFails
        <4> QED
          BY <2>8, <3>1, <3>5, <4>1, <4>2
      <3> QED
        BY <3>2, <3>3, <3>4, <3>5
    <2> QED
      BY <1>5, <2>1, <2>2, <2>3, <2>4, <2>5, <2>6, <2>7, <2>9, <2>10 DEF Run
  <1>6. ASSUME NEW j \in Ids, Upstream(j)
        PROVE  FollowOK(i)'
    BY <1>2, <1>3, <1>6 DEF Upstream, Send, SendRefused, ReadChunk, ReadEnd, ReadBreaks, Silent
  <1>7. ASSUME NEW j \in Ids, Leave(j) \/ DeleteRow(j)
        PROVE  FollowOK(i)'
    BY <1>2, <1>3, <1>7 DEF Leave, DeleteRow, Silent
  <1>8. CASE ChangeSettings \/ Truncate
    BY <1>2, <1>3, <1>8 DEF ChangeSettings, Truncate, Silent
  <1>9. CASE Restart
    BY <1>2, <1>3, <1>9 DEF Restart, Silent
  <1>10. CASE UNCHANGED vars
    BY <1>2, <1>3, <1>10 DEF vars, Silent
  <1> HIDE DEF TypeOK
  <1> QED
    BY <1>5, <1>6, <1>7, <1>8, <1>9, <1>10 DEF Next

LEMMA InitFollow == Init => \A i \in Ids : FollowOK(i)
  <1> SUFFICES ASSUME Init, NEW i \in Ids
               PROVE  FollowOK(i)
    OBVIOUS
  <1>1. feed[i] = <<>> /\ captured[i] = 0 /\ written[i] = 0 /\ step[i] = "new"
    BY DEF Init
  <1>2. {k \in DOMAIN feed[i] : feed[i][k] = "chunk"} = {}
    BY <1>1
  <1>3. Shown(i) = 0
    BY <1>2, FS_EmptySet DEF Shown
  <1> QED
    BY <1>1, <1>3 DEF FollowOK

\* DashboardFollowsClient is an invariant, whatever goes wrong: the dashboard is
\* never ahead of the client, and never more than one chunk behind.
THEOREM DashboardFollows == Spec => []DashboardFollowsClient
  <1> DEFINE Follow == \A i \in Ids : FollowOK(i)
  <1>1. Init => Follow
    BY InitFollow
  <1>2. LocalInv /\ Follow /\ [Next]_vars => Follow'
    BY FollowStep
  <1>3. Follow => DashboardFollowsClient
    BY DEF FollowOK, DashboardFollowsClient
  <1> HIDE DEF Follow
  <1> QED
    BY <1>1, <1>2, <1>3, LocalAlways, PTL DEF Spec

-----------------------------------------------------------------------------
(* What a step does to the rows of an exchange.                            *)

RowIs(i, status) == \A s \in Stores : log[s][i] = NoRow \/ log[s][i].status = status

\* In the database in force the row of i becomes one with the status, or is none;
\* the other databases keep theirs.
Sets(i, status) ==
    /\ log'[current.store][i] = NoRow \/ log'[current.store][i].status = status
    /\ \A s \in Stores \ {current.store} : log'[s][i] = log[s][i]

RowMove(i) ==
    \/ /\ \A s \in Stores : log'[s][i] \in {log[s][i], NoRow}
       /\ step'[i] \in Ends => step'[i] = step[i]
    \/ step[i] = "add" /\ step'[i] = "started" /\ Sets(i, "Pending")
    \/ step[i] = "complete" /\ step'[i] = "completed" /\ Sets(i, "Completed")
    \/ step[i] = "fail" /\ ~gone[i] /\ step'[i] = "failed" /\ Sets(i, "Failed")

LEMMA UpdateSets ==
    ASSUME TypeOK, NEW i \in Ids, NEW status, NEW body, UpdateRow(i, status, body)
    PROVE  /\ Sets(i, status)
           /\ \A j \in Ids \ {i} : \A s \in Stores : log'[s][j] = log[s][j]
  <1> DEFINE row == log[current.store][i]
             new == IF row = NoRow THEN row
                    ELSE [row EXCEPT !.status = status, !.body = body]
  <1>1. current.store \in Stores
    BY DEF TypeOK, Settings
  <1>2. log' = [log EXCEPT ![current.store] = [log[current.store] EXCEPT ![i] = new]]
    BY DEF UpdateRow
  <1>3. new = NoRow \/ new.status = status
    <2>1. CASE row = NoRow
      BY <2>1
    <2>2. CASE row # NoRow
      <3>1. row \in Row
        BY <1>1, <2>2 DEF TypeOK
      <3>2. \A r \in Row : [r EXCEPT !.status = status, !.body = body].status = status
        BY DEF Row
      <3> HIDE DEF row
      <3> QED
        BY <2>2, <3>1, <3>2
    <2> QED
      BY <2>1, <2>2
  <1> HIDE DEF new
  <1> QED
    BY <1>1, <1>2, <1>3 DEF Sets, TypeOK

\* Only Complete and Fail, when they succeed, lead to the announcement of an end.
LEMMA EndMoves ==
    ASSUME TypeOK, [Next]_vars, NEW i \in Ids, ~Complete(i), ~Fail(i),
           step'[i] \in Ends
    PROVE  step'[i] = step[i]
  <1> USE DEF TypeOK, world, locals, stream, Goto, Catch, Ends
  <1>1. ASSUME NEW j \in Ids, Run(j)
        PROVE  step'[i] = step[i]
    <2>1. CASE Receive(j) \/ ReceiveFails(j) \/ Add(j) \/ AddFails(j) \/ RequestStarted(j)
      BY <2>1 DEF Receive, ReceiveFails, Add, AddFails, RequestStarted
    <2>2. CASE SendCancelled(j) \/ ReadCancelled(j) \/ Write(j) \/ WriteFails(j)
      BY <2>2 DEF SendCancelled, ReadCancelled, Write, WriteFails
    <2>3. CASE Capture(j) \/ CaptureFails(j) \/ PublishChunk(j)
      BY <2>3 DEF Capture, CaptureFails, PublishChunk
    <2>4. CASE Complete(j) \/ CompleteFails(j)
      BY <2>4 DEF Complete, CompleteFails
    <2>5. CASE RequestCompleted(j) \/ Fail(j) \/ FailFails(j) \/ RequestFailed(j)
      BY <2>5 DEF RequestCompleted, Fail, FailFails, RequestFailed
    <2>6. CASE SinkFails(j)
      BY <2>6 DEF SinkFails, EventOf
    <2>7. CASE Answer(j) \/ Dispose(j)
      BY <2>7 DEF Answer, Dispose
    <2> QED
      BY <1>1, <2>1, <2>2, <2>3, <2>4, <2>5, <2>6, <2>7 DEF Run
  <1>2. ASSUME NEW j \in Ids, Upstream(j) \/ Leave(j) \/ DeleteRow(j)
        PROVE  step'[i] = step[i]
    BY <1>2 DEF Upstream, Send, SendRefused, ReadChunk, ReadEnd, ReadBreaks, Leave, DeleteRow
  <1>3. CASE ChangeSettings \/ Truncate \/ Restart \/ UNCHANGED vars
    BY <1>3 DEF ChangeSettings, Truncate, Restart, vars
  <1> HIDE DEF TypeOK, Ends
  <1> QED
    BY <1>1, <1>2, <1>3 DEF Next

LEMMA RowMoves ==
    ASSUME TypeOK, [Next]_vars, NEW i \in Ids
    PROVE  RowMove(i)
  <1>1. CASE Add(i)
    <2>1. step[i] = "add" /\ step'[i] = "started"
      BY <1>1 DEF Add, Goto, TypeOK
    <2>2. Sets(i, "Pending")
      BY <1>1 DEF Add, Sets, TypeOK, Settings
    <2> QED
      BY <2>1, <2>2 DEF RowMove
  <1>2. CASE Complete(i)
    <2>1. step[i] = "complete" /\ step'[i] = "completed"
      BY <1>2 DEF Complete, Goto, TypeOK
    <2> QED
      BY <1>2, <2>1, UpdateSets DEF Complete, RowMove
  <1>3. CASE Fail(i)
    <2>1. step[i] = "fail" /\ ~gone[i] /\ step'[i] = "failed"
      BY <1>3 DEF Fail, StatementRuns, Goto, TypeOK
    <2> QED
      BY <1>3, <2>1, UpdateSets DEF Fail, RowMove
  <1>4. CASE ~Add(i) /\ ~Complete(i) /\ ~Fail(i)
    <2>1. step'[i] \in Ends => step'[i] = step[i]
      BY <1>4, EndMoves
    <2>2. ASSUME NEW s \in Stores
          PROVE  log'[s][i] \in {log[s][i], NoRow}
      <3>1. ASSUME NEW j \in Ids, Add(j)
            PROVE  log'[s][i] = log[s][i]
        BY <1>4, <3>1 DEF Add, TypeOK
      <3>2. ASSUME NEW j \in Ids, Complete(j) \/ Fail(j)
            PROVE  log'[s][i] = log[s][i]
        <4>1. i # j
          BY <1>4, <3>2
        <4> QED
          BY <3>2, <4>1, UpdateSets DEF Complete, Fail
      <3>3. ASSUME NEW j \in Ids, DeleteRow(j)
            PROVE  log'[s][i] \in {log[s][i], NoRow}
        BY <3>3 DEF DeleteRow, TypeOK
      <3>4. CASE Truncate
        BY <3>4 DEF Truncate, TypeOK
      <3> QED
        BY <3>1, <3>2, <3>3, <3>4, LogWriters
    <2> QED
      BY <2>1, <2>2 DEF RowMove
  <1> QED
    BY <1>1, <1>2, <1>3, <1>4

-----------------------------------------------------------------------------
(* Where the sink can be relied on, the end of a row is final.             *)

\* The steps from which the row may still be brought to an end.
Open(i) ==
    \/ step[i] \in {"started", "send", "read", "write", "capture", "publish", "complete"}
    \/ step[i] = "fail" /\ ~gone[i]

PendingOK(i) == NamedOK(i) /\ (Open(i) => RowIs(i, "Pending"))

LEMMA OpenMoves ==
    ASSUME "sink" \notin Faults, LocalInv, [Next]_vars, NEW i \in Ids, Open(i)'
    PROVE  Open(i) \/ step[i] = "add"
  <1>0. TypeOK /\ \A j \in Ids : ExchangeOK(j)
    BY DEF LocalInv
  <1> USE <1>0 DEF TypeOK, world, locals, stream, Goto, Catch, Open
  <1>1. ASSUME NEW j \in Ids, Run(j)
        PROVE  Open(i) \/ step[i] = "add"
    <2>1. CASE Receive(j) \/ ReceiveFails(j) \/ RequestStarted(j)
      BY <2>1 DEF Receive, ReceiveFails, RequestStarted
    <2>2. CASE Add(j) \/ AddFails(j)
      BY <2>2 DEF Add, AddFails
    <2>3. CASE SendCancelled(j) \/ ReadCancelled(j) \/ Write(j) \/ WriteFails(j)
      BY <2>3 DEF SendCancelled, ReadCancelled, Write, WriteFails
    <2>4. CASE Capture(j) \/ CaptureFails(j) \/ PublishChunk(j) \/ Complete(j) \/ CompleteFails(j)
      BY <2>4 DEF Capture, CaptureFails, PublishChunk, Complete, CompleteFails
    <2>5. CASE RequestCompleted(j) \/ Fail(j) \/ FailFails(j) \/ RequestFailed(j)
      BY <2>5 DEF RequestCompleted, Fail, FailFails, RequestFailed
    <2>6. CASE SinkFails(j)
      BY <2>6 DEF SinkFails, EventOf
    <2>7. CASE Answer(j) \/ Dispose(j)
      BY <2>7 DEF Answer, Dispose
    <2> QED
      BY <1>1, <2>1, <2>2, <2>3, <2>4, <2>5, <2>6, <2>7 DEF Run
  <1>2. ASSUME NEW j \in Ids, Upstream(j) \/ Leave(j) \/ DeleteRow(j)
        PROVE  Open(i) \/ step[i] = "add"
    BY <1>2 DEF Upstream, Send, SendRefused, ReadChunk, ReadEnd, ReadBreaks, Leave, DeleteRow
  <1>3. CASE ChangeSettings \/ Truncate \/ Restart \/ UNCHANGED vars
    BY <1>3 DEF ChangeSettings, Truncate, Restart, vars
  <1> HIDE DEF TypeOK, Open
  <1> QED
    BY <1>1, <1>2, <1>3 DEF Next

LEMMA InitPending == Init => \A i \in Ids : PendingOK(i)
  <1> SUFFICES ASSUME Init, NEW i \in Ids
               PROVE  PendingOK(i)
    OBVIOUS
  <1>1. \A s \in Stores : log[s][i] = NoRow
    BY DEF Init
  <1> QED
    BY <1>1, InitNamed DEF PendingOK, RowIs

LEMMA PendingStep ==
    ASSUME "sink" \notin Faults, LocalInv, [Next]_vars, NEW i \in Ids, PendingOK(i)
    PROVE  PendingOK(i)'
  <1>1. NamedOK(i)'
    BY NamedStep DEF LocalInv, PendingOK
  <1>2. ASSUME Open(i)', NEW s \in Stores
        PROVE  log'[s][i] = NoRow \/ log'[s][i].status = "Pending"
    <2>1. log[s][i] = NoRow \/ log[s][i].status = "Pending"
      BY <1>2, OpenMoves DEF PendingOK, NamedOK, RowIs
    <2>2. RowMove(i)
      BY RowMoves DEF LocalInv
    <2>3. step'[i] \notin {"completed", "failed"}
      BY <1>2 DEF Open
    <2> QED
      BY <2>1, <2>2, <2>3 DEF RowMove, Sets
  <1> QED
    BY <1>1, <1>2 DEF PendingOK, RowIs

LEMMA PendingAlways ==
    ASSUME "sink" \notin Faults
    PROVE  Spec => []((\A i \in Ids : PendingOK(i)))
  <1> DEFINE Pending == \A i \in Ids : PendingOK(i)
  <1>1. Init => Pending
    BY InitPending
  <1>2. LocalInv /\ Pending /\ [Next]_vars => Pending'
    BY PendingStep
  <1> HIDE DEF Pending
  <1>3. Spec => []Pending
    BY <1>1, <1>2, LocalAlways, PTL DEF Spec
  <1> QED
    BY <1>3 DEF Pending

\* TerminalIsFinal: with a sink that can be relied on, no failure that comes
\* after the row was brought to an end changes it.
THEOREM EndsAreFinal == Spec => TerminalIsFinal
  <1> DEFINE Pending == \A i \in Ids : PendingOK(i)
             Final == \A s \in Stores, i \in Ids :
                        /\ "sink" \notin Faults
                        /\ log[s][i] # NoRow /\ log[s][i].status # "Pending"
                        => log'[s][i] \in {log[s][i], NoRow}
  <1>1. CASE "sink" \in Faults
    <2>1. Final
      BY <1>1
    <2>2. [Next]_vars => [Final]_vars
      BY <2>1
    <2> HIDE DEF Final
    <2>3. Spec => [][Final]_vars
      BY <2>2, PTL DEF Spec
    <2> QED
      BY <2>3 DEF TerminalIsFinal, Final
  <1>2. CASE "sink" \notin Faults
    <2>1. ASSUME LocalInv, Pending, [Next]_vars, NEW s \in Stores, NEW i \in Ids,
                 log[s][i] # NoRow, log[s][i].status # "Pending"
          PROVE  log'[s][i] \in {log[s][i], NoRow}
      <3>1. PendingOK(i) /\ RowMove(i)
        BY <2>1, RowMoves DEF LocalInv
      <3>2. ~Open(i) /\ step[i] # "add"
        BY <2>1, <3>1 DEF PendingOK, RowIs, NamedOK
      <3>3. step[i] # "complete" /\ ~(step[i] = "fail" /\ ~gone[i])
        BY <3>2 DEF Open
      <3> QED
        BY <3>1, <3>2, <3>3 DEF RowMove
    <2>2. LocalInv /\ Pending /\ [Next]_vars => [Final]_vars
      BY <2>1
    <2>3. Spec => []Pending
      BY <1>2, PendingAlways
    <2> HIDE DEF Final, Pending
    <2>4. Spec => [][Final]_vars
      BY <2>2, <2>3, LocalAlways, PTL DEF Spec
    <2> QED
      BY <2>4 DEF TerminalIsFinal, Final
  <1> QED
    BY <1>1, <1>2

-----------------------------------------------------------------------------
(* Where the settings stay, the feed and the log say the same.             *)

\* There are rows in the database in force only, and it has its table.
OneStore ==
    /\ current.store \in tables
    /\ \A s \in Stores, i \in Ids : log[s][i] # NoRow => s = current.store

LEMMA OneStoreAlways ==
    ASSUME "switch" \notin Faults
    PROVE  Spec => []OneStore
  <1>1. Init => OneStore
    BY DEF Init, OneStore
  <1>2. TypeOK /\ OneStore /\ [Next]_vars => OneStore'
    <2> SUFFICES ASSUME TypeOK, OneStore, [Next]_vars
                 PROVE  OneStore'
      OBVIOUS
    <2>1. UNCHANGED current /\ tables \subseteq tables'
      BY DEF Next, Run, Upstream, world, vars, Receive, ReceiveFails, Add, AddFails,
         RequestStarted, Send, SendCancelled, SendRefused, ReadChunk, ReadEnd, ReadCancelled,
         ReadBreaks, Write, WriteFails, Capture, CaptureFails, PublishChunk, Complete,
         CompleteFails, RequestCompleted, Fail, FailFails, RequestFailed, SinkFails, Answer,
         Dispose, Leave, ChangeSettings, DeleteRow, Truncate, Restart
    <2>2. \A s \in Stores \ {current.store}, i \in Ids : log'[s][i] \in {log[s][i], NoRow}
      BY RowMoves DEF RowMove, Sets
    <2> QED
      BY <2>1, <2>2 DEF OneStore
  <1> QED
    BY <1>1, <1>2, ProxyTypeCorrect, PTL DEF Spec

\* What has been said of an end, or is about to be, is what the row says.
AgreeOK(i) ==
    \A event \in Ends :
        step[i] = event \/ Heard(i, event) =>
            RowIs(i, IF event = "completed" THEN "Completed" ELSE "Failed")

LEMMA AgreeStep ==
    ASSUME {"sink", "switch"} \intersect Faults = {}, LocalInv, OneStore, [Next]_vars,
           NEW i \in Ids, OrderOK(i), PendingOK(i), AgreeOK(i)
    PROVE  AgreeOK(i)'
  <1> SUFFICES ASSUME NEW event \in Ends, (step[i] = event \/ Heard(i, event))',
                      NEW s \in Stores, log'[s][i] # NoRow
               PROVE  log'[s][i].status = IF event = "completed" THEN "Completed" ELSE "Failed"
    BY DEF AgreeOK, RowIs
  <1>1. RowMove(i) /\ FeedMove(i) /\ "sink" \notin Faults
    BY RowMoves, FeedMoves DEF LocalInv
  <1>2. feed[i] \in Seq(Events)
    BY DEF LocalInv, TypeOK, Events
  \* The row is not written any more once its end has been said.
  <1>3. CASE step[i] = event \/ Heard(i, event)
    <2>1. log[s][i] = NoRow \/ log[s][i].status = IF event = "completed" THEN "Completed" ELSE "Failed"
      BY <1>3 DEF AgreeOK, RowIs
    <2>2. step[i] \notin {"add", "complete"} /\ ~(step[i] = "fail" /\ ~gone[i])
      <3>1. CASE step[i] = event
        BY <3>1 DEF Ends
      <3>2. CASE Heard(i, event)
        <4>1. feed[i] # <<>> /\ ~Running(feed[i])
          BY <3>2, <1>2 DEF Heard, Running
        <4>2. ~Unannounced(i) /\ ~Live(i)
          BY <4>1 DEF OrderOK
        <4> QED
          BY <4>2 DEF Unannounced, Live
      <3> QED
        BY <1>3, <3>1, <3>2
    <2>3. log'[s][i] \in {log[s][i], NoRow}
      BY <1>1, <2>2 DEF RowMove
    <2> QED
      BY <2>1, <2>3
  \* Otherwise this step brings the row to its end.
  <1>4. CASE ~(step[i] = event \/ Heard(i, event))
    <2>1. ~Heard(i, event)'
      <3>1. \A e \in Events : Says(i, e) /\ Heard(i, event)' => e = event \/ Heard(i, event)
        <4> SUFFICES ASSUME NEW e \in Events, Says(i, e), Heard(i, event)', e # event
                     PROVE  Heard(i, event)
          OBVIOUS
        <4>1. PICK k \in DOMAIN Append(feed[i], e) : Append(feed[i], e)[k] = event
          BY DEF Says, Heard
        <4>2. k \in 1..Len(feed[i]) \/ k = Len(feed[i]) + 1
          BY <1>2, Appending
        <4> QED
          BY <1>2, <4>1, <4>2, Appending DEF Heard
      <3>2. Silent(i) => ~Heard(i, event)'
        BY <1>4 DEF Silent, Heard
      <3>3. \A e \in {"started", "chunk"} : Says(i, e) => ~Heard(i, event)'
        BY <1>4, <3>1 DEF Ends, Events
      <3>4. step[i] \in Ends /\ Says(i, step[i]) => ~Heard(i, event)'
        BY <1>4, <3>1 DEF Ends, Events
      <3> QED
        BY <1>1, <3>2, <3>3, <3>4 DEF FeedMove
    <2>2. step'[i] = event /\ step[i] # event
      BY <1>4, <2>1
    <2>3. Sets(i, IF event = "completed" THEN "Completed" ELSE "Failed")
      BY <1>1, <2>2 DEF RowMove, Ends
    <2>4. s # current.store => log[s][i] = NoRow
      BY DEF OneStore
    <2> QED
      BY <2>3, <2>4 DEF Sets
  <1> QED
    BY <1>3, <1>4

\* FeedAgreesWithLog is an invariant: where the sink can be relied on and the
\* settings stay, no failure, departure, deletion or restart sets the two apart.
THEOREM FeedAgrees == Spec => []FeedAgreesWithLog
  <1>1. CASE {"sink", "switch"} \intersect Faults # {}
    <2>1. FeedAgreesWithLog
      BY <1>1 DEF FeedAgreesWithLog
    <2> QED
      BY <2>1, PTL
  <1>2. CASE {"sink", "switch"} \intersect Faults = {}
    <2> DEFINE Order == \A i \in Ids : OrderOK(i)
               Pending == \A i \in Ids : PendingOK(i)
               Agree == \A i \in Ids : AgreeOK(i)
    <2>1. Spec => []Pending
      BY <1>2, PendingAlways
    <2>2. Spec => []OneStore
      BY <1>2, OneStoreAlways
    <2>3. Init => Order
      BY InitOrder
    <2>4. LocalInv /\ Order /\ [Next]_vars => Order'
      BY <1>2, OrderStep
    <2>5. Init => Agree
      BY DEF Init, AgreeOK, Heard, RowIs
    <2>6. LocalInv /\ OneStore /\ Order /\ Pending /\ Agree /\ [Next]_vars => Agree'
      BY <1>2, AgreeStep
    <2>7. Agree => FeedAgreesWithLog
      <3> SUFFICES ASSUME Agree, NEW s \in Stores, NEW i \in Ids, log[s][i] # NoRow
                   PROVE  /\ Heard(i, "completed") => log[s][i].status = "Completed"
                          /\ Heard(i, "failed") => log[s][i].status = "Failed"
        BY DEF FeedAgreesWithLog
      <3> QED
        BY DEF AgreeOK, RowIs, Ends
    <2> HIDE DEF Order, Pending, Agree
    <2> QED
      BY <2>1, <2>2, <2>3, <2>4, <2>5, <2>6, <2>7, LocalAlways, PTL DEF Spec
  <1> QED
    BY <1>1, <1>2

-----------------------------------------------------------------------------
(* Where the database can be relied on, a row has its end.                 *)

Resolved(i) == \A s \in Stores : log[s][i] # NoRow => log[s][i].status # "Pending"

\* The steps after the row was brought to its end, if it can be.
Closing(i) == step[i] \in {"answer", "dispose", "done"} /\ ~gone[i]

ReasonOK(i) ==
    /\ step[i] \in Ends => Resolved(i)
    /\ Closing(i) => Resolved(i) \/ session[i] = "none"

LEMMA ClosingMoves ==
    ASSUME "sqlite" \notin Faults, current.store \in tables, LocalInv, [Next]_vars,
           NEW i \in Ids, Closing(i)'
    PROVE  \/ step[i] \in Ends
           \/ Closing(i) /\ (session[i] = "none" => session'[i] = "none")
           \/ session'[i] = "none"
  <1>0. TypeOK
    BY DEF LocalInv
  <1> DEFINE Goal == \/ step[i] \in Ends
                     \/ Closing(i) /\ (session[i] = "none" => session'[i] = "none")
                     \/ session'[i] = "none"
  <1> SUFFICES Goal
    OBVIOUS
  <1> USE <1>0 DEF TypeOK, world, locals, stream, Goto, Catch, Closing, Ends,
        StatementRuns, StatementMayFail
  <1>1. ASSUME NEW j \in Ids, Run(j)
        PROVE  Goal
    <2>1. CASE Receive(j) \/ ReceiveFails(j) \/ RequestStarted(j)
      BY <2>1 DEF Receive, ReceiveFails, RequestStarted
    <2>2. CASE Add(j) \/ AddFails(j)
      BY <2>2 DEF Add, AddFails
    <2>3. CASE SendCancelled(j) \/ ReadCancelled(j) \/ Write(j) \/ WriteFails(j)
      BY <2>3 DEF SendCancelled, ReadCancelled, Write, WriteFails
    <2>4. CASE Capture(j) \/ CaptureFails(j) \/ PublishChunk(j) \/ Complete(j) \/ CompleteFails(j)
      BY <2>4 DEF Capture, CaptureFails, PublishChunk, Complete, CompleteFails
    <2>5. CASE RequestCompleted(j) \/ Fail(j) \/ FailFails(j) \/ RequestFailed(j)
      BY <2>5 DEF RequestCompleted, Fail, FailFails, RequestFailed
    <2>6. CASE SinkFails(j)
      BY <2>6 DEF SinkFails, EventOf
    <2>7. CASE Answer(j) \/ Dispose(j)
      BY <2>7 DEF Answer, Dispose
    <2> QED
      BY <1>1, <2>1, <2>2, <2>3, <2>4, <2>5, <2>6, <2>7 DEF Run
  <1>2. ASSUME NEW j \in Ids, Upstream(j) \/ Leave(j) \/ DeleteRow(j)
        PROVE  Goal
    BY <1>2 DEF Upstream, Send, SendRefused, ReadChunk, ReadEnd, ReadBreaks, Leave, DeleteRow
  <1>3. CASE ChangeSettings \/ Truncate \/ Restart \/ UNCHANGED vars
    BY <1>3 DEF ChangeSettings, Truncate, Restart, vars
  <1> HIDE DEF TypeOK, Goal
  <1> QED
    BY <1>1, <1>2, <1>3 DEF Next

LEMMA ReasonStep ==
    ASSUME {"sqlite", "switch"} \intersect Faults = {}, LocalInv, OneStore, [Next]_vars,
           NEW i \in Ids, ReasonOK(i)
    PROVE  ReasonOK(i)'
  <1>1. RowMove(i)
    BY RowMoves DEF LocalInv
  <1>2. ASSUME Resolved(i), step[i] # "add"
        PROVE  Resolved(i)'
    BY <1>1, <1>2 DEF Resolved, RowMove, Sets
  <1>3. ASSUME step'[i] \in Ends
        PROVE  Resolved(i)'
    <2>1. CASE step[i] \in Ends
      BY <1>2, <2>1 DEF ReasonOK, Ends
    <2>2. CASE step[i] \notin Ends
      <3>1. Sets(i, "Completed") \/ Sets(i, "Failed")
        BY <1>1, <1>3, <2>2 DEF RowMove, Ends
      <3> QED
        BY <3>1 DEF Sets, Resolved, OneStore
    <2> QED
      BY <2>1, <2>2
  <1>4. ASSUME Closing(i)'
        PROVE  Resolved(i)' \/ session'[i] = "none"
    <2>1. CASE step[i] \in Ends
      BY <1>2, <2>1 DEF ReasonOK, Ends
    <2>2. CASE Closing(i) /\ (session[i] = "none" => session'[i] = "none")
      BY <1>2, <2>2 DEF ReasonOK, Closing
    <2> QED
      BY <1>4, <2>1, <2>2, ClosingMoves DEF OneStore
  <1> QED
    BY <1>3, <1>4 DEF ReasonOK

\* PendingHasReason is an invariant: with a database that can be relied on, a
\* finished exchange whose row says Pending lost its client or had no response.
THEOREM PendingRowsHaveReason == Spec => []PendingHasReason
  <1>1. CASE {"sqlite", "switch"} \intersect Faults # {}
    <2>1. PendingHasReason
      BY <1>1 DEF PendingHasReason
    <2> QED
      BY <2>1, PTL
  <1>2. CASE {"sqlite", "switch"} \intersect Faults = {}
    <2> DEFINE Reasons == \A i \in Ids : ReasonOK(i)
    <2>1. Spec => []OneStore
      BY <1>2, OneStoreAlways
    <2>2. Init => Reasons
      BY DEF Init, ReasonOK, Closing, Ends
    <2>3. LocalInv /\ OneStore /\ Reasons /\ [Next]_vars => Reasons'
      BY <1>2, ReasonStep
    <2>4. Reasons => PendingHasReason
      BY DEF ReasonOK, Closing, Resolved, PendingHasReason
    <2> HIDE DEF Reasons
    <2> QED
      BY <2>1, <2>2, <2>3, <2>4, LocalAlways, PTL DEF Spec
  <1> QED
    BY <1>1, <1>2
=============================================================================
