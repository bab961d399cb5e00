--------------------------- MODULE ProxyProperties ---------------------------
(***************************************************************************)
(* What ProxyExchanges is checked for.  A property that holds only where   *)
(* certain things do not go wrong says so by the Faults it excludes; the   *)
(* last section has what the program is documented to do and does not.     *)
(***************************************************************************)
EXTENDS ProxyExchanges, FiniteSets

\* The chunks of exchange i the live feed has shown.
Shown(i) == Cardinality({k \in DOMAIN feed[i] : feed[i][k] = "chunk"})

Heard(i, event) == \E k \in DOMAIN feed[i] : feed[i][k] = event

\* The steps after the session exists and before it is disposed.
InSession == {"read", "write", "capture", "publish", "complete", "completed",
              "fail", "failed"}

\* Every variable has its type, and the session is open where it is used.
TypeOK ==
    /\ current \in Settings
    /\ tables \subseteq Stores
    /\ log \in [Stores -> [Ids -> Row \union {NoRow}]]
    /\ step \in [Ids -> Steps]
    /\ backend \in [Ids -> Backends \union {NoBackend}]
    /\ sentTo \in [Ids -> Backends \union {NoBackend}]
    /\ session \in [Ids -> {"none", "open", "disposed"}]
    /\ written \in [Ids -> 0..MaxChunks]
    /\ captured \in [Ids -> 0..MaxChunks]
    /\ hasStarted \in [Ids -> BOOLEAN]
    /\ ended \in [Ids -> BOOLEAN]
    /\ badGateway \in [Ids -> BOOLEAN]
    /\ gone \in [Ids -> BOOLEAN]
    /\ feed \in [Ids -> Seq({"started", "chunk", "completed", "failed"})]
    /\ restarts \in 0..MaxRestarts
    /\ \A i \in Ids : step[i] \in InSession => session[i] = "open"

-----------------------------------------------------------------------------
(* The response, the log and the feed.                                     *)

\* A row says Completed only of a response that was read to its end, and its
\* body is then all of what the client was sent.  Whatever goes wrong.
CompletedIsWhole ==
    \A s \in Stores, i \in Ids :
        log[s][i] # NoRow /\ log[s][i].status = "Completed" =>
            /\ ended[i]
            /\ log[s][i].body = captured[i]
            /\ captured[i] = written[i]

\* The dashboard never shows what the client has not been sent, and lags by at
\* most the chunk in hand; so does the capture that becomes the row's body.
DashboardFollowsClient ==
    \A i \in Ids :
        /\ Shown(i) <= captured[i]
        /\ captured[i] <= written[i]
        /\ written[i] <= Shown(i) + 1

\* The upstream's response, and the connection under it, is given back by
\* every way out of ProxyAsync.
SessionDisposed == \A i \in Ids : step[i] = "done" => session[i] # "open"

\* An error document is never put into a response that has begun.
ErrorStandsAlone == \A i \in Ids : badGateway[i] => written[i] = 0 /\ ~hasStarted[i]

\* The row names the backend the request really went to, even if the settings
\* changed while it was being recorded.
RowNamesBackend ==
    \A s \in Stores, i \in Ids :
        log[s][i] # NoRow /\ sentTo[i] # NoBackend => log[s][i].backend = sentTo[i]

\* What was deleted stays deleted: no exchange still in flight brings the row
\* back, and no row appears twice.
DeletedStaysDeleted ==
    [][\A s \in Stores, i \in Ids :
         log[s][i] = NoRow /\ log'[s][i] # NoRow =>
            step[i] = "add" /\ \A t \in Stores : log[t][i] = NoRow]_vars

\* Where the sink can be relied on, an exchange is announced before all else,
\* ends once, and nothing follows its end.
FeedInOrder ==
    "sink" \notin Faults => \A i \in Ids : \A k \in DOMAIN feed[i] :
        /\ feed[i][k] = "started" <=> k = 1
        /\ feed[i][k] \in {"completed", "failed"} => k = Len(feed[i])

\* Where the sink can be relied on, a row that has come to an end keeps it:
\* a delivered response is not turned into a failure afterwards.
TerminalIsFinal ==
    [][\A s \in Stores, i \in Ids :
         /\ "sink" \notin Faults
         /\ log[s][i] # NoRow /\ log[s][i].status # "Pending"
         => log'[s][i] \in {log[s][i], NoRow}]_vars

\* A finished exchange whose row still says Pending, with the database as it
\* should be, is one whose client left or that never had a response.
PendingHasReason ==
    {"sqlite", "switch"} \intersect Faults = {} =>
        \A s \in Stores, i \in Ids :
            step[i] = "done" /\ log[s][i] # NoRow /\ log[s][i].status = "Pending"
                => gone[i] \/ session[i] = "none"

\* What the feed said last is what the log keeps, unless the row was deleted.
FeedAgreesWithLog ==
    {"sink", "switch"} \intersect Faults = {} =>
        \A s \in Stores, i \in Ids : log[s][i] # NoRow =>
            /\ Heard(i, "completed") => log[s][i].status = "Completed"
            /\ Heard(i, "failed") => log[s][i].status = "Failed"

-----------------------------------------------------------------------------
(* Progress.                                                               *)

\* The client's token reaches every await: once the client is gone the
\* exchange ends, even if the upstream never sends another byte.
LeavingEnds == \A i \in Ids : gone[i] ~> Over(i)

\* Past the upstream's last byte, or its failure, the exchange ends whatever
\* the database and the sink do.
Settles ==
    \A i \in Ids : step[i] \in {"complete", "completed", "fail", "failed", "answer", "dispose"}
                      ~> Over(i)

-----------------------------------------------------------------------------
(* What README.md says, and the program does not do.                       *)

\* README.md:3: the program records requests and responses.  Every exchange
\* that ends has a row that says how, or none.
EveryEndRecorded ==
    \A s \in Stores, i \in Ids :
        step[i] = "done" /\ log[s][i] # NoRow => log[s][i].status # "Pending"
=============================================================================
