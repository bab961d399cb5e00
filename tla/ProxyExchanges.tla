--------------------------- MODULE ProxyExchanges ---------------------------
(***************************************************************************)
(* The life of proxied requests: ProxyAsync of Program.cs with             *)
(* BridgeProxyService, the request log (SqliteRequestLogStore) and the     *)
(* live feed (SignalRProxyEventSink).  An exchange is one request with the *)
(* response that is streamed back.  Each await of ProxyAsync is an action  *)
(* of its own; between two of them other exchanges, the settings, the      *)
(* administration of the log and the client go on.                         *)
(*                                                                         *)
(* The request log lives in the database the settings in force name at the *)
(* moment of each call (SqliteConnectionFactory), so a change of settings  *)
(* moves it under the exchanges.  Its table is made at startup only.       *)
(***************************************************************************)
EXTENDS Naturals, Sequences

CONSTANTS
    Ids,          \* the ids of proxied requests (each Guid is used once)
    Backends,     \* upstream endpoints
    Stores,       \* databases a connection string can name
    Faults,       \* what goes wrong in an instance, out of AllFaults
    MaxChunks,    \* bound: pieces an upstream response body comes in
    MaxRestarts,  \* bound: how often the process dies and comes up again
    NoRow,        \* no row of request_logs
    NoBackend     \* an exchange that has read no settings, or was never sent

VARIABLES
    current,      \* the settings in force: [backend, store]
    tables,       \* the databases that have a request_logs table
    log,          \* log[s][i]: the row of exchange i in database s
    step,         \* step[i]: what exchange i does next
    backend,      \* backend[i]: the settings StartProxyAsync read
    sentTo,       \* sentTo[i]: the backend the request went out to
    session,      \* session[i]: the upstream response held open
    written,      \* written[i]: chunks written to the client
    captured,     \* captured[i]: chunks in responseCapture
    hasStarted,   \* hasStarted[i]: context.Response.HasStarted
    ended,        \* ended[i]: the upstream response was read to its end
    badGateway,   \* badGateway[i]: the client was answered 502
    gone,         \* gone[i]: the client left, the token is cancelled
    feed,         \* feed[i]: the events broadcast about exchange i
    restarts      \* how often the process was restarted

stream == <<written, captured, hasStarted, ended>>
locals == <<backend, sentTo, session, stream, badGateway>>
world == <<current, tables, restarts>>
vars == <<world, log, step, locals, gone, feed>>

AllFaults == {"leave",   \* clients disconnect
              "refuse",  \* the upstream cannot be reached, or answers nothing
              "drop",    \* the upstream breaks off its response
              "sqlite",  \* a statement fails, e.g. on a locked database
              "sink",    \* SignalR fails to send an event
              "switch"}  \* somebody changes the settings

Settings == [backend : Backends, store : Stores]

Row == [status : {"Pending", "Completed", "Failed"}, backend : Backends,
        body : 0..MaxChunks]

Steps == {"new", "add", "started", "send", "read", "write", "capture", "publish",
          "complete", "completed", "fail", "failed", "answer", "dispose",
          "done", "lost"}

Over(i) == step[i] \in {"done", "lost"}

ASSUME ExchangeAssumption ==
    /\ Faults \subseteq AllFaults
    /\ MaxChunks \in Nat
    /\ MaxRestarts \in Nat
    /\ NoRow \notin Row
    /\ NoBackend \notin Backends

Init ==
    /\ current \in Settings
    /\ tables = {current.store}
    /\ log = [s \in Stores |-> [i \in Ids |-> NoRow]]
    /\ step = [i \in Ids |-> "new"]
    /\ backend = [i \in Ids |-> NoBackend]
    /\ sentTo = [i \in Ids |-> NoBackend]
    /\ session = [i \in Ids |-> "none"]
    /\ written = [i \in Ids |-> 0]
    /\ captured = [i \in Ids |-> 0]
    /\ hasStarted = [i \in Ids |-> FALSE]
    /\ ended = [i \in Ids |-> FALSE]
    /\ badGateway = [i \in Ids |-> FALSE]
    /\ gone = [i \in Ids |-> FALSE]
    /\ feed = [i \in Ids |-> <<>>]
    /\ restarts = 0

-----------------------------------------------------------------------------
Goto(i, next) == step' = [step EXCEPT ![i] = next]

\* The catch block records a failure only when StartProxyAsync had returned.
Catch(i) == Goto(i, IF session[i] = "none" THEN "answer" ELSE "fail")

Broadcast(i, event) == feed' = [feed EXCEPT ![i] = Append(@, event)]

\* A statement on the request log runs, in the database in force now.  The
\* token is checked on entry; a database that was never the one in force at a
\* startup has no table.
StatementRuns(i) == ~gone[i] /\ current.store \in tables
StatementMayFail(i) == ~StatementRuns(i) \/ "sqlite" \in Faults

\* Mutant: a row that is not there is inserted.
Upsert(i, status, body) ==
    log' = [log EXCEPT ![current.store][i] =
              [status |-> status, backend |-> backend[i],
               body |-> IF @ = NoRow THEN captured[i] ELSE body]]

\* UPDATE request_logs ... WHERE id = $id: a row that is not there stays away.
UpdateRow(i, status, body) ==
    log' = [log EXCEPT ![current.store][i] =
              IF @ = NoRow THEN @ ELSE [@ EXCEPT !.status = status, !.body = body]]

-----------------------------------------------------------------------------
(* StartProxyAsync.                                                        *)

\* The body is read and the settings are taken, once for the whole exchange.
Receive(i) ==
    /\ step[i] = "new"
    /\ ~gone[i]
    /\ backend' = [backend EXCEPT ![i] = current.backend]
    /\ Goto(i, "add")
    /\ UNCHANGED <<world, log, sentTo, session, stream, badGateway, gone, feed>>

\* The client leaves before its body has been read.
ReceiveFails(i) ==
    /\ step[i] = "new"
    /\ gone[i]
    /\ Goto(i, "done")
    /\ UNCHANGED <<world, log, locals, gone, feed>>

\* Mutant: the request is sent without having been announced.
AddUnannounced(i) ==
    /\ step[i] = "add"
    /\ StatementRuns(i)
    /\ log' = [log EXCEPT ![current.store][i] =
                 [status |-> "Pending", backend |-> backend[i], body |-> 0]]
    /\ Goto(i, "send")
    /\ UNCHANGED <<world, locals, gone, feed>>

Add(i) ==
    /\ step[i] = "add"
    /\ StatementRuns(i)
    /\ log' = [log EXCEPT ![current.store][i] =
                 [status |-> "Pending", backend |-> backend[i], body |-> 0]]
    /\ Goto(i, "started")
    /\ UNCHANGED <<world, locals, gone, feed>>

AddFails(i) ==
    /\ step[i] = "add"
    /\ StatementMayFail(i)
    /\ Catch(i)
    /\ UNCHANGED <<world, log, locals, gone, feed>>

RequestStarted(i) ==
    /\ step[i] = "started"
    /\ Broadcast(i, "started")
    /\ Goto(i, "send")
    /\ UNCHANGED <<world, log, locals, gone>>

\* Mutant: the settings are taken again.
SendToCurrent(i) ==
    /\ step[i] = "send"
    /\ ~gone[i]
    /\ sentTo' = [sentTo EXCEPT ![i] = current.backend]
    /\ session' = [session EXCEPT ![i] = "open"]
    /\ Goto(i, "read")
    /\ UNCHANGED <<world, log, backend, stream, badGateway, gone, feed>>

\* The upstream's headers have come: the session exists from here on.
Send(i) ==
    /\ step[i] = "send"
    /\ ~gone[i]
    /\ sentTo' = [sentTo EXCEPT ![i] = backend[i]]
    /\ session' = [session EXCEPT ![i] = "open"]
    /\ Goto(i, "read")
    /\ UNCHANGED <<world, log, backend, stream, badGateway, gone, feed>>

\* The client leaves before the headers have come, perhaps before the request
\* went out.
SendCancelled(i) ==
    /\ step[i] = "send"
    /\ gone[i]
    /\ \E to \in {sentTo[i], backend[i]} : sentTo' = [sentTo EXCEPT ![i] = to]
    /\ Catch(i)
    /\ UNCHANGED <<world, log, backend, session, stream, badGateway, gone, feed>>

\* The upstream cannot be reached, or the timeout has passed.
SendRefused(i) ==
    /\ step[i] = "send"
    /\ "refuse" \in Faults
    /\ sentTo' = [sentTo EXCEPT ![i] = backend[i]]
    /\ Catch(i)
    /\ UNCHANGED <<world, log, backend, session, stream, badGateway, gone, feed>>

-----------------------------------------------------------------------------
(* The copy loop of ProxyAsync.                                            *)

\* Mutant: the dashboard is shown the chunk before the client has it.
ReadChunkToPublish(i) ==
    /\ step[i] = "read"
    /\ ~gone[i]
    /\ written[i] < MaxChunks
    /\ Goto(i, "publish")
    /\ UNCHANGED <<world, log, locals, gone, feed>>

ReadChunk(i) ==
    /\ step[i] = "read"
    /\ ~gone[i]
    /\ written[i] < MaxChunks
    /\ Goto(i, "write")
    /\ UNCHANGED <<world, log, locals, gone, feed>>

ReadEnd(i) ==
    /\ step[i] = "read"
    /\ ~gone[i]
    /\ ended' = [ended EXCEPT ![i] = TRUE]
    /\ Goto(i, "complete")
    /\ UNCHANGED <<world, log, backend, sentTo, session, written, captured,
                   hasStarted, badGateway, gone, feed>>

\* Mutant: a broken response is taken for one that has ended.
ReadBreaksAsEnd(i) ==
    /\ step[i] = "read"
    /\ "drop" \in Faults
    /\ Goto(i, "complete")
    /\ UNCHANGED <<world, log, locals, gone, feed>>

\* Mutant: a response that broke off before its first byte is not recorded.
ReadBreaksUnrecorded(i) ==
    /\ step[i] = "read"
    /\ "drop" \in Faults
    /\ IF hasStarted[i] THEN Catch(i) ELSE Goto(i, "answer")
    /\ UNCHANGED <<world, log, locals, gone, feed>>

\* The upstream breaks off its response.
ReadBreaks(i) ==
    /\ step[i] = "read"
    /\ "drop" \in Faults
    /\ Catch(i)
    /\ UNCHANGED <<world, log, locals, gone, feed>>

\* Mutant: the first read is without the client's token.
ReadCancelledOnceStarted(i) ==
    /\ step[i] = "read"
    /\ gone[i] /\ hasStarted[i]
    /\ Catch(i)
    /\ UNCHANGED <<world, log, locals, gone, feed>>

ReadCancelled(i) ==
    /\ step[i] = "read"
    /\ gone[i]
    /\ Catch(i)
    /\ UNCHANGED <<world, log, locals, gone, feed>>

\* Writing and flushing starts the response ...
Write(i) ==
    /\ step[i] = "write"
    /\ ~gone[i]
    /\ written' = [written EXCEPT ![i] = @ + 1]
    /\ hasStarted' = [hasStarted EXCEPT ![i] = TRUE]
    /\ Goto(i, "capture")
    /\ UNCHANGED <<world, log, backend, sentTo, session, captured, ended,
                   badGateway, gone, feed>>

\* ... or finds the client gone, before or after it has started it.
WriteFails(i) ==
    /\ step[i] = "write"
    /\ gone[i]
    /\ \E started \in {hasStarted[i], TRUE} :
         hasStarted' = [hasStarted EXCEPT ![i] = started]
    /\ Catch(i)
    /\ UNCHANGED <<world, log, backend, sentTo, session, written, captured, ended,
                   badGateway, gone, feed>>

Capture(i) ==
    /\ step[i] = "capture"
    /\ ~gone[i]
    /\ captured' = [captured EXCEPT ![i] = @ + 1]
    /\ Goto(i, "publish")
    /\ UNCHANGED <<world, log, backend, sentTo, session, written, hasStarted, ended,
                   badGateway, gone, feed>>

CaptureFails(i) ==
    /\ step[i] = "capture"
    /\ gone[i]
    /\ Catch(i)
    /\ UNCHANGED <<world, log, locals, gone, feed>>

PublishChunk(i) ==
    /\ step[i] = "publish"
    /\ Broadcast(i, "chunk")
    /\ Goto(i, "read")
    /\ UNCHANGED <<world, log, locals, gone>>

-----------------------------------------------------------------------------
(* CompleteAsync, FailAsync and the end of ProxyAsync.                     *)

Complete(i) ==
    /\ step[i] = "complete"
    /\ StatementRuns(i)
    /\ UpdateRow(i, "Completed", captured[i])
    /\ Goto(i, "completed")
    /\ UNCHANGED <<world, locals, gone, feed>>

\* Mutant: the row is not updated, and the exchange goes on as if it were.
CompleteFailsUnnoticed(i) ==
    /\ step[i] = "complete"
    /\ StatementMayFail(i)
    /\ Goto(i, "completed")
    /\ UNCHANGED <<world, log, locals, gone, feed>>

\* Mutant: the statement is tried until it succeeds.
CompleteFailsRetried(i) ==
    /\ step[i] = "complete"
    /\ StatementMayFail(i)
    /\ Goto(i, "complete")
    /\ UNCHANGED <<world, log, locals, gone, feed>>

CompleteFails(i) ==
    /\ step[i] = "complete"
    /\ StatementMayFail(i)
    /\ Catch(i)
    /\ UNCHANGED <<world, log, locals, gone, feed>>

RequestCompleted(i) ==
    /\ step[i] = "completed"
    /\ Broadcast(i, "completed")
    /\ Goto(i, "dispose")
    /\ UNCHANGED <<world, log, locals, gone>>

\* Mutant: FailAsync is not given the client's token.
FailUncancelled(i) ==
    /\ step[i] = "fail"
    /\ current.store \in tables
    /\ UpdateRow(i, "Failed", log[current.store][i].body)
    /\ Goto(i, "failed")
    /\ UNCHANGED <<world, locals, gone, feed>>

\* FailAsync leaves the body of the row as it is.
Fail(i) ==
    /\ step[i] = "fail"
    /\ StatementRuns(i)
    /\ UpdateRow(i, "Failed", log[current.store][i].body)
    /\ Goto(i, "failed")
    /\ UNCHANGED <<world, locals, gone, feed>>

\* Mutant: an exception in the catch block leaves the session undisposed.
FailFailsUndisposed(i) ==
    /\ step[i] = "fail"
    /\ StatementMayFail(i)
    /\ Goto(i, "done")
    /\ UNCHANGED <<world, log, locals, gone, feed>>

\* It is given the token of the exchange, so it throws when the client is
\* gone, and the catch block ends there.
FailFails(i) ==
    /\ step[i] = "fail"
    /\ StatementMayFail(i)
    /\ Goto(i, "dispose")
    /\ UNCHANGED <<world, log, locals, gone, feed>>

RequestFailed(i) ==
    /\ step[i] = "failed"
    /\ Broadcast(i, "failed")
    /\ Goto(i, "answer")
    /\ UNCHANGED <<world, log, locals, gone>>

\* An event is not sent, or not to everybody.
EventOf == [started |-> "started", publish |-> "chunk",
            completed |-> "completed", failed |-> "failed"]

SinkFails(i) ==
    /\ step[i] \in DOMAIN EventOf
    /\ gone[i] \/ "sink" \in Faults
    /\ UNCHANGED feed \/ Broadcast(i, EventOf[step[i]])
    /\ \/ step[i] = "failed" /\ Goto(i, "dispose")
       \/ step[i] # "failed" /\ Catch(i)
    /\ UNCHANGED <<world, log, locals, gone>>

\* Mutant: the error is answered even into a response that has started.
AnswerAlways(i) ==
    /\ step[i] = "answer"
    /\ badGateway' = [badGateway EXCEPT ![i] = ~gone[i]]
    /\ Goto(i, "dispose")
    /\ UNCHANGED <<world, log, backend, sentTo, session, stream, gone, feed>>

\* 502, unless some of the response is on its way or nobody is there to read.
\* A Content-Length copied from the upstream may not fit the error's body, and
\* then the client is told something else.
Answer(i) ==
    /\ step[i] = "answer"
    /\ \E fits \in {TRUE, session[i] = "none"} :
         badGateway' = [badGateway EXCEPT ![i] = fits /\ ~hasStarted[i] /\ ~gone[i]]
    /\ Goto(i, "dispose")
    /\ UNCHANGED <<world, log, backend, sentTo, session, stream, gone, feed>>

Dispose(i) ==
    /\ step[i] = "dispose"
    /\ session' = [session EXCEPT ![i] = IF @ = "open" THEN "disposed" ELSE @]
    /\ Goto(i, "done")
    /\ UNCHANGED <<world, log, backend, sentTo, stream, badGateway, gone, feed>>

-----------------------------------------------------------------------------
(* What goes on around the exchanges.                                      *)

Leave(i) ==
    /\ "leave" \in Faults
    /\ ~Over(i)
    /\ ~gone[i]
    /\ gone' = [gone EXCEPT ![i] = TRUE]
    /\ UNCHANGED <<world, log, step, locals, feed>>

\* An update or a selection publishes other settings (ConfigCatalog).
ChangeSettings ==
    /\ "switch" \in Faults
    /\ current' \in Settings \ {current}
    /\ UNCHANGED <<tables, restarts, log, step, locals, gone, feed>>

\* DELETE /api/requests/{id} and DELETE /api/requests.
DeleteRow(i) ==
    /\ current.store \in tables
    /\ log[current.store][i] # NoRow
    /\ log' = [log EXCEPT ![current.store][i] = NoRow]
    /\ UNCHANGED <<world, step, locals, gone, feed>>

Truncate ==
    /\ current.store \in tables
    /\ log' = [log EXCEPT ![current.store] = [i \in Ids |-> NoRow]]
    /\ UNCHANGED <<world, step, locals, gone, feed>>

\* The process dies and starts again: what was in progress is lost, and the
\* database in force gets its table.
Restart ==
    /\ restarts < MaxRestarts
    /\ restarts' = restarts + 1
    /\ tables' = tables \union {current.store}
    /\ step' = [i \in Ids |-> IF step[i] \in {"new", "done"} THEN step[i] ELSE "lost"]
    /\ session' = [i \in Ids |-> IF session[i] = "open" THEN "none" ELSE session[i]]
    /\ UNCHANGED <<current, log, backend, sentTo, stream, badGateway, gone, feed>>

\* The steps the exchange takes by itself.
Run(i) ==
    \/ Receive(i) \/ ReceiveFails(i) \/ Add(i) \/ AddFails(i) \/ RequestStarted(i)
    \/ SendCancelled(i) \/ ReadCancelled(i) \/ Write(i) \/ WriteFails(i) \/ Capture(i)
    \/ CaptureFails(i) \/ PublishChunk(i) \/ Complete(i) \/ CompleteFails(i)
    \/ RequestCompleted(i) \/ Fail(i) \/ FailFails(i) \/ RequestFailed(i)
    \/ SinkFails(i) \/ Answer(i) \/ Dispose(i)

\* The steps it waits for the upstream to make possible, or to fail.
Upstream(i) ==
    Send(i) \/ SendRefused(i) \/ ReadChunk(i) \/ ReadEnd(i) \/ ReadBreaks(i)

Next ==
    \/ \E i \in Ids : Run(i) \/ Upstream(i) \/ Leave(i) \/ DeleteRow(i)
    \/ ChangeSettings
    \/ Truncate
    \/ Restart

Spec == Init /\ [][Next]_vars

\* The thread pool runs an exchange that can go on.  Nothing makes an upstream
\* go on with its response: HttpClient's timeout ends with the headers.
Fairness == \A i \in Ids : WF_vars(Run(i))

FairSpec == Spec /\ Fairness
=============================================================================
