------------------------------ MODULE Dashboard ------------------------------
(***************************************************************************)
(* The request part of the dashboard (wwwroot/app.js) in one browser tab:  *)
(* the list of requests, the selected detail with its modal, deleting and  *)
(* truncating, the calls of the API and the events of the hub.             *)
(*                                                                         *)
(* JavaScript runs one handler at a time, up to its next await: the user's *)
(* clicks, the answers to fetch and the hub's events are the actions.      *)
(* What a handler does to the page is an operator from page to page.  The  *)
(* server is the request log with the exchanges of ProxyExchanges, reduced *)
(* to what a tab can see of them: a row and its events.                    *)
(***************************************************************************)
EXTENDS Naturals, Sequences, FiniteSets, SequencesExt

CONSTANTS
    Ids,          \* ids of proxied requests, in the order of their start
    Past,         \* those that were over when the page was opened
    RecentLimit,  \* RecentRequestLimit, the length of GET /api/requests
    PageLimit,    \* the length a started event keeps the list at (100)
    MaxChunks,    \* bound: chunks of a response body
    MaxCalls,     \* bound: calls the user has under way at a time
    MaxInbox,     \* bound: answers and events on their way to the tab
    FaultSets,    \* what may go wrong in a behaviour: one of these sets
    None          \* null: no selection, no detail, no row

VARIABLES
    faults,       \* what may go wrong in this behaviour
    log,          \* log[i]: the row of request i
    exchange,     \* exchange[i]: how far request i has got
    sent,         \* sent[i]: chunks of its response broadcast so far
    calls,        \* API calls the server has not processed, oldest first
    inbox,        \* answers and events on their way to the tab, oldest first
    page,         \* the members of state that this part of app.js uses
    boot,         \* how far initialize has got
    connectionState,
    missed        \* history: <<view, id>> where an event about id was lost and
                  \* the view has not been fetched since

server == <<log, exchange, sent>>
net == <<calls, inbox>>
vars == <<faults, server, net, page, boot, connectionState, missed>>

AllFaults == {"overtake",  \* calls and answers pass one another
              "fail",      \* calls fail, before or after they took effect
              "drop",      \* the hub's connection breaks
              "die",       \* an exchange ends without its end event
              "elsewhere", \* another client deletes requests
              "hasty"}     \* the user does not wait for an answer

Statuses == {"Pending", "Completed", "Failed"}
Stages == {"new", "announce", "running", "announceEnd", "over"}
Summary == [id : Ids, status : Statuses]
Detail == [id : Ids, status : Statuses, body : Seq(1..MaxChunks)]
Ops == {"list", "detail", "delete", "truncate", "config", "configs"}
Calls == [op : Ops, id : Ids \union {None}, from : {"boot", "user"}]
BootSteps == {"config", "list", "configs", "detail", "done"}
Views == {"list", "detail"}

ASSUME DashboardAssumption ==
    /\ Ids \subseteq Nat \ {0} /\ IsFiniteSet(Ids)
    /\ Past \subseteq Ids
    /\ RecentLimit \in Nat \ {0}
    /\ PageLimit \in Nat \ {0}
    /\ MaxChunks \in Nat
    /\ MaxCalls \in Nat
    /\ MaxInbox \in Nat \ {0}
    /\ FaultSets \subseteq SUBSET AllFaults
    /\ None \notin Ids /\ None \notin Detail

May(fault) == fault \in faults

-----------------------------------------------------------------------------
(* The page.  Each operator is a function of app.js.                       *)

Listed(p) == {p.requests[k].id : k \in DOMAIN p.requests}

\* The n-th of a finite set of numbers, the smallest first.
Nth(S, n) == CHOOSE k \in S : Cardinality({j \in S : j <= k}) = n

\* requests.filter: the requests but id, in their order.
Without(requests, id) ==
    LET kept == {k \in DOMAIN requests : requests[k].id # id}
    IN [n \in 1..Cardinality(kept) |-> requests[Nth(kept, n)]]

FirstId(requests) == IF requests = <<>> THEN None ELSE Head(requests).id

\* Mutant: Delete stays enabled while a deletion is under way.
RenderDetailUnguarded(p) ==
    [p EXCEPT !.deleteEnabled = p.selectedRequestId \in Listed(p)]

\* renderRequestDetail: the Delete button is as of the last time this ran.
RenderDetail(p) ==
    [p EXCEPT !.deleteEnabled =
        /\ p.selectedRequestId \in Listed(p)
        /\ ~p.isDeletingRequest
        /\ ~p.isTruncatingRequests]

\* setRequestDetailOpen
SetOpen(p, isOpen) ==
    [p EXCEPT !.isRequestDetailOpen = isOpen /\ p.selectedRequestId # None]

\* clearSelectedRequest({ closeModal: true }), as it is always called.
ClearSelected(p) ==
    [p EXCEPT !.selectedRequestId = None, !.selectedRequest = None,
              !.isRequestDetailLoading = FALSE, !.isRequestDetailOpen = FALSE]

\* Mutant: the detail of the removed request stays.
RemoveRequestOnly(p, id) ==
    LET rest == Without(p.requests, id) IN
    IF p.selectedRequestId # id
      THEN [p EXCEPT !.requests = rest]
      ELSE [p EXCEPT !.requests = rest, !.selectedRequestId = FirstId(rest)]

\* removeRequestFromState: the next request is selected, and not fetched.
RemoveRequest(p, id) ==
    LET rest == Without(p.requests, id) IN
    IF p.selectedRequestId # id
      THEN [p EXCEPT !.requests = rest]
      ELSE [p EXCEPT !.requests = rest, !.selectedRequestId = FirstId(rest),
                     !.selectedRequest = None, !.isRequestDetailLoading = FALSE]

\* refreshRequests once the list has come: a selection that is gone is
\* cleared, and without one the newest request is selected.
RefreshRequests(p, list) ==
    LET loaded == [p EXCEPT !.requests = list]
        kept == IF p.selectedRequestId \in {None} \union Listed(loaded)
                  THEN loaded ELSE ClearSelected(loaded)
        chosen == IF kept.selectedRequestId # None THEN kept
                    ELSE [kept EXCEPT !.selectedRequestId = FirstId(list)]
    IN RenderDetail(chosen)

\* refreshRequestDetail before and after its await.
BeginDetail(p) == RenderDetail([p EXCEPT !.isRequestDetailLoading = TRUE])

\* Mutant: the flag is reset by a detail that was found only.
EndDetailOnSuccess(p, detail) ==
    RenderDetail([p EXCEPT !.selectedRequest = detail,
                           !.isRequestDetailLoading = (detail = None)])

EndDetail(p, detail) ==
    RenderDetail([p EXCEPT !.selectedRequest = detail,
                           !.isRequestDetailLoading = FALSE])

\* openRequestDetail and selectRequest up to the fetch.
OpenDetail(p, id) ==
    BeginDetail([SetOpen([p EXCEPT !.selectedRequestId = id], TRUE)
                   EXCEPT !.selectedRequest = None])

\* Mutant: the modal is left as it is.
EndDeleteLeavingOpen(p, id, ok) ==
    RenderDetail([(IF ok THEN RemoveRequest(p, id) ELSE p)
                    EXCEPT !.isDeletingRequest = FALSE])

\* deleteRequest after its await; a deletion that was refused only alerts.
EndDelete(p, id, ok) ==
    RenderDetail([(IF ok THEN SetOpen(RemoveRequest(p, id), FALSE) ELSE p)
                    EXCEPT !.isDeletingRequest = FALSE])

\* Mutant: the list is emptied before the answer is looked at.
EndTruncateUnchecked(p, ok) ==
    RenderDetail([ClearSelected(p) EXCEPT !.requests = <<>>,
                                          !.isTruncatingRequests = FALSE])

\* truncateRequests after its await.
EndTruncate(p, ok) ==
    RenderDetail([(IF ok THEN [ClearSelected(p) EXCEPT !.requests = <<>>] ELSE p)
                    EXCEPT !.isTruncatingRequests = FALSE])

\* Mutant: a request that is in the list already is listed twice.
StartedUnfiltered(p, id) ==
    RenderDetail([p EXCEPT !.requests =
        LET all == <<[id |-> id, status |-> "Pending"]>> \o p.requests
        IN SubSeq(all, 1, IF Len(all) > PageLimit THEN PageLimit ELSE Len(all))])

\* The handler of requestStarted.
Started(p, id) ==
    RenderDetail([p EXCEPT !.requests =
        LET others == Without(p.requests, id)
            all == <<[id |-> id, status |-> "Pending"]>> \o others
        IN SubSeq(all, 1, IF Len(all) > PageLimit THEN PageLimit ELSE Len(all))])

\* The handler of responseChunk: it asks whose chunk it is, not whose detail
\* it is appended to.
Chunk(p, id, n) ==
    IF id = p.selectedRequestId /\ p.selectedRequest # None
      THEN RenderDetail([p EXCEPT !.selectedRequest.body = Append(@, n)])
      ELSE p

\* The handler of requestCompleted up to the fetch; it refetches the detail
\* if the request is selected.
Completed(p, id, status) ==
    LET replaced == RenderDetail([p EXCEPT !.requests =
            [k \in DOMAIN @ |-> IF @[k].id = id THEN [id |-> id, status |-> status]
                                               ELSE @[k]]])
    IN IF id = p.selectedRequestId THEN BeginDetail(replaced) ELSE replaced

-----------------------------------------------------------------------------
Call(op, id, from) == [op |-> op, id |-> id, from |-> from]

Event(event, id, status, chunk) ==
    [kind |-> event, id |-> id, status |-> status, chunk |-> chunk]

Answer(call, ok, data) == [kind |-> "answer", call |-> call, ok |-> ok, data |-> data]

IsAnswer(m) == m.kind = "answer"

Init ==
    /\ faults \in FaultSets
    /\ log = [i \in Ids |-> IF i \in Past
                             THEN [id |-> i, status |-> "Completed",
                                   body |-> [k \in 1..MaxChunks |-> k]]
                             ELSE None]
    /\ exchange = [i \in Ids |-> IF i \in Past THEN "over" ELSE "new"]
    /\ sent = [i \in Ids |-> 0]
    /\ calls = <<Call("config", None, "boot")>>
    /\ inbox = <<>>
    /\ page = [requests |-> <<>>, selectedRequestId |-> None,
               selectedRequest |-> None, isRequestDetailOpen |-> FALSE,
               isRequestDetailLoading |-> FALSE, isDeletingRequest |-> FALSE,
               isTruncatingRequests |-> FALSE, deleteEnabled |-> FALSE]
    /\ boot = "config"
    /\ connectionState = "connecting"
    /\ missed = Views \X Past

-----------------------------------------------------------------------------
(* The server: exchanges, their rows and their events.                     *)

\* Clients.All: an event reaches the tabs that are connected just now.
Broadcast(i, event, status, chunk) ==
    IF connectionState = "connected"
      THEN /\ Len(inbox) < MaxInbox
           /\ inbox' = Append(inbox, Event(event, i, status, chunk))
           /\ UNCHANGED missed
      ELSE /\ missed' = missed \union (Views \X {i})
           /\ UNCHANGED inbox

Advance(i, from, to) ==
    /\ exchange[i] = from
    /\ exchange' = [exchange EXCEPT ![i] = to]

Add(i) ==
    /\ Advance(i, "new", "announce")
    /\ log' = [log EXCEPT ![i] = [id |-> i, status |-> "Pending", body |-> <<>>]]
    /\ UNCHANGED <<faults, sent, net, page, boot, connectionState, missed>>

AnnounceStart(i) ==
    /\ Advance(i, "announce", "running")
    /\ Broadcast(i, "started", "Pending", 0)
    /\ UNCHANGED <<faults, log, sent, calls, page, boot, connectionState>>

SendChunk(i) ==
    /\ exchange[i] = "running"
    /\ sent[i] < MaxChunks
    /\ sent' = [sent EXCEPT ![i] = @ + 1]
    /\ Broadcast(i, "chunk", "Pending", sent[i] + 1)
    /\ UNCHANGED <<faults, log, exchange, calls, page, boot, connectionState>>

\* Complete writes the captured body, Fail leaves it null; a row that was
\* deleted stays away.
Finish(i, status) ==
    /\ Advance(i, "running", "announceEnd")
    /\ log' = [log EXCEPT ![i] =
         IF log[i] = None THEN None
         ELSE [log[i] EXCEPT !.status = status,
                             !.body = IF status = "Completed"
                                        THEN [k \in 1..sent[i] |-> k] ELSE @]]
    /\ UNCHANGED <<faults, sent, net, page, boot, connectionState, missed>>

\* The event carries the status the exchange ended with, deleted or not.
AnnounceEnd(i, status) ==
    /\ Advance(i, "announceEnd", "over")
    /\ log[i] # None => log[i].status = status
    /\ Broadcast(i, "completed", status, 0)
    /\ UNCHANGED <<faults, log, sent, calls, page, boot, connectionState>>

\* The client left, or a statement or the sink failed: no more events.
Die(i) ==
    /\ May("die")
    /\ exchange[i] \in {"announce", "running", "announceEnd"}
    /\ exchange' = [exchange EXCEPT ![i] = "over"]
    /\ missed' = IF exchange[i] = "running" THEN missed
                                            ELSE missed \union (Views \X {i})
    /\ UNCHANGED <<faults, log, sent, net, page, boot, connectionState>>

DeletedElsewhere(i) ==
    /\ May("elsewhere")
    /\ log[i] # None
    /\ log' = [log EXCEPT ![i] = None]
    /\ UNCHANGED <<faults, exchange, sent, net, page, boot, connectionState,
                   missed>>

\* ListRecentAsync: the newest requests first.
RecentRows ==
    LET saved == {i \in Ids : log[i] # None}
        count == Cardinality(saved)
        newest(k) == Nth(saved, count + 1 - k)
    IN [k \in 1..(IF count > RecentLimit THEN RecentLimit ELSE count) |->
          [id |-> newest(k), status |-> log[newest(k)].status]]

RowsAfter(call) ==
    CASE call.op = "delete" -> [log EXCEPT ![call.id] = None]
      [] call.op = "truncate" -> [i \in Ids |-> None]
      [] OTHER -> log

Reply(call) ==
    CASE call.op = "list" -> RecentRows
      [] call.op = "detail" -> log[call.id]
      [] OTHER -> None

\* What a fetch makes up for: what was missed until now.
Covers(call) ==
    CASE call.op = "list" -> {v \in missed : v[1] = "list"}
      [] call.op = "detail" -> missed \intersect {<<"detail", call.id>>}
      [] OTHER -> {}

\* The server processes a call, in the order they were made or in any order;
\* a detail that is not there is a 404.
Serve(k) ==
    /\ k \in DOMAIN calls
    /\ k = 1 \/ May("overtake")
    /\ Len(inbox) < MaxInbox
    /\ log' = RowsAfter(calls[k])
    /\ inbox' = Append(inbox,
         Answer(calls[k], calls[k].op # "detail" \/ log[calls[k].id] # None,
                Reply(calls[k])))
    /\ missed' = missed \ Covers(calls[k])
    /\ calls' = RemoveAt(calls, k)
    /\ UNCHANGED <<faults, exchange, sent, page, boot, connectionState>>

\* The call is refused or its answer lost, with its effect or without it.
Fail(k) ==
    /\ May("fail")
    /\ k \in DOMAIN calls
    /\ k = 1 \/ May("overtake")
    /\ Len(inbox) < MaxInbox
    /\ log' \in {log, RowsAfter(calls[k])}
    /\ inbox' = Append(inbox, Answer(calls[k], FALSE, None))
    /\ calls' = RemoveAt(calls, k)
    /\ UNCHANGED <<faults, exchange, sent, page, boot, connectionState, missed>>

-----------------------------------------------------------------------------
(* What the user does, between the handlers.                               *)

UnderWay == Len(calls) + Cardinality({k \in DOMAIN inbox : IsAnswer(inbox[k])})

Fetch(call) ==
    /\ UnderWay < IF May("hasty") THEN MaxCalls ELSE 1
    /\ calls' = Append(calls, call)

ClickRefresh ==
    /\ Fetch(Call("list", None, "user"))
    /\ UNCHANGED <<faults, server, inbox, page, boot, connectionState, missed>>

ClickRequest(i) ==
    /\ i \in Listed(page)
    /\ page' = OpenDetail(page, i)
    /\ Fetch(Call("detail", i, "user"))
    /\ UNCHANGED <<faults, server, inbox, boot, connectionState, missed>>

\* The button, the backdrop or Escape.
CloseDetail ==
    /\ page.isRequestDetailOpen
    /\ page' = SetOpen(page, FALSE)
    /\ UNCHANGED <<faults, server, net, boot, connectionState, missed>>

\* The button is in the modal; the confirmation stops the tab and is left out.
ClickDelete ==
    /\ page.isRequestDetailOpen
    /\ page.deleteEnabled
    /\ page.selectedRequestId # None
    /\ page' = RenderDetail([page EXCEPT !.isDeletingRequest = TRUE])
    /\ Fetch(Call("delete", page.selectedRequestId, "user"))
    /\ UNCHANGED <<faults, server, inbox, boot, connectionState, missed>>

\* It disables its own button but does not render the Delete button again.
ClickTruncate ==
    /\ ~page.isTruncatingRequests
    /\ page' = [page EXCEPT !.isTruncatingRequests = TRUE]
    /\ Fetch(Call("truncate", None, "user"))
    /\ UNCHANGED <<faults, server, inbox, boot, connectionState, missed>>

-----------------------------------------------------------------------------
(* Answers and events reach the tab.  Its hub connection keeps their order. *)

Receivable(k) ==
    /\ k \in DOMAIN inbox
    /\ \/ k = 1
       \/ May("overtake") /\ (IsAnswer(inbox[k])
                               \/ \A j \in 1..(k - 1) : IsAnswer(inbox[j]))

\* wireSignalR, which initialize reaches whatever became of its calls.
Wire(p) ==
    /\ page' = p
    /\ boot' = "done"
    /\ UNCHANGED calls

\* Mutant: an error ends initialize.
GiveUp(p) ==
    /\ page' = p
    /\ boot' = "failed"
    /\ UNCHANGED calls

BootCall(p, op, id) ==
    /\ page' = p
    /\ boot' = op
    /\ calls' = Append(calls, Call(op, id, "boot"))

\* refreshRequestDetail of what refreshRequests has selected meanwhile.
BootDetail(p) ==
    IF p.selectedRequestId = None THEN Wire(p)
    ELSE BootCall(BeginDetail(p), "detail", p.selectedRequestId)

\* Mutant: an error of a call ends initialize.
ContinueOnSuccess(m, p) ==
    IF m.call.from = "user" THEN page' = p /\ UNCHANGED <<calls, boot>>
    ELSE CASE m.call.op = "detail" -> Wire(p)
           [] m.call.op # "detail" /\ ~m.ok -> GiveUp(p)
           [] m.call.op = "config" /\ m.ok -> BootCall(p, "list", None)
           [] m.call.op = "list" /\ m.ok -> BootCall(p, "configs", None)
           [] m.call.op = "configs" /\ m.ok -> BootDetail(p)

\* initialize after an await: its next call, or wireSignalR at its end and
\* after an error.  The two calls of refreshNamedConfigs are one here: they
\* leave this part of the page alone (ConfigEditor has them).
Continue(m, p) ==
    IF m.call.from = "user" THEN page' = p /\ UNCHANGED <<calls, boot>>
    ELSE CASE m.call.op = "detail" \/ ~m.ok -> Wire(p)
           [] m.call.op = "config" /\ m.ok -> BootCall(p, "list", None)
           [] m.call.op = "list" /\ m.ok -> BootCall(p, "configs", None)
           [] m.call.op = "configs" /\ m.ok -> BootDetail(p)

Answered(p, m) ==
    CASE m.call.op = "list" -> IF m.ok THEN RefreshRequests(p, m.data) ELSE p
      [] m.call.op = "detail" -> EndDetail(p, m.data)
      [] m.call.op = "delete" -> EndDelete(p, m.call.id, m.ok)
      [] m.call.op = "truncate" -> EndTruncate(p, m.ok)
      [] OTHER -> p

ReceiveAnswer(k) ==
    /\ Receivable(k)
    /\ IsAnswer(inbox[k])
    /\ Continue(inbox[k], Answered(page, inbox[k]))
    /\ inbox' = RemoveAt(inbox, k)
    /\ UNCHANGED <<faults, server, connectionState, missed>>

ReceiveStarted(k) ==
    /\ Receivable(k)
    /\ inbox[k].kind = "started"
    /\ page' = Started(page, inbox[k].id)
    /\ inbox' = RemoveAt(inbox, k)
    /\ UNCHANGED <<faults, server, calls, boot, connectionState, missed>>

ReceiveChunk(k) ==
    /\ Receivable(k)
    /\ inbox[k].kind = "chunk"
    /\ page' = Chunk(page, inbox[k].id, inbox[k].chunk)
    /\ inbox' = RemoveAt(inbox, k)
    /\ UNCHANGED <<faults, server, calls, boot, connectionState, missed>>

\* Mutant: the detail that is shown is taken for up to date.
ReceiveCompletedOnly(k) ==
    /\ Receivable(k)
    /\ inbox[k].kind = "completed"
    /\ page' = RenderDetail([page EXCEPT !.requests =
                 [n \in DOMAIN @ |-> IF @[n].id = inbox[k].id
                                       THEN [id |-> @[n].id, status |-> inbox[k].status]
                                       ELSE @[n]]])
    /\ inbox' = RemoveAt(inbox, k)
    /\ UNCHANGED <<faults, server, calls, boot, connectionState, missed>>

ReceiveCompleted(k) ==
    /\ Receivable(k)
    /\ inbox[k].kind = "completed"
    /\ page' = Completed(page, inbox[k].id, inbox[k].status)
    /\ calls' = IF inbox[k].id = page.selectedRequestId
                  THEN Append(calls, Call("detail", inbox[k].id, "user")) ELSE calls
    /\ inbox' = RemoveAt(inbox, k)
    /\ UNCHANGED <<faults, server, boot, connectionState, missed>>

-----------------------------------------------------------------------------
(* The hub's connection, with automatic reconnection once it was up.       *)

Connect ==
    /\ boot = "done"
    /\ connectionState \in {"connecting", "reconnecting"}
    /\ connectionState' = "connected"
    /\ UNCHANGED <<faults, server, net, page, boot, missed>>

\* start() is not tried again, and reconnecting is given up after a while.
GiveUpConnecting ==
    /\ May("drop")
    /\ boot = "done"
    /\ connectionState \in {"connecting", "reconnecting"}
    /\ connectionState' = "failed"
    /\ UNCHANGED <<faults, server, net, page, boot, missed>>

Disconnect ==
    /\ May("drop")
    /\ connectionState = "connected"
    /\ connectionState' = "reconnecting"
    /\ UNCHANGED <<faults, server, net, page, boot, missed>>

\* Of the events on their way when the connection broke, the first may have arrived
\* and the rest is lost.
Lose(k) ==
    /\ connectionState \in {"reconnecting", "failed"}
    /\ ~IsAnswer(inbox[k])
    /\ \A j \in (k + 1)..Len(inbox) : IsAnswer(inbox[j])
    /\ inbox' = RemoveAt(inbox, k)
    /\ missed' = missed \union (Views \X {inbox[k].id})
    /\ UNCHANGED <<faults, server, calls, page, boot, connectionState>>

Exchange(i) ==
    \/ Add(i) \/ AnnounceStart(i) \/ SendChunk(i) \/ Die(i)
    \/ \E status \in {"Completed", "Failed"} : Finish(i, status) \/ AnnounceEnd(i, status)

Process == \E k \in DOMAIN calls : Serve(k) \/ Fail(k)

Receive ==
    \E k \in DOMAIN inbox :
        ReceiveAnswer(k) \/ ReceiveStarted(k) \/ ReceiveChunk(k) \/ ReceiveCompleted(k)

User ==
    \/ ClickRefresh \/ CloseDetail \/ ClickDelete \/ ClickTruncate
    \/ \E i \in Ids : ClickRequest(i)

Next ==
    \/ \E i \in Ids : Exchange(i) \/ DeletedElsewhere(i)
    \/ Process
    \/ Receive
    \/ User
    \/ Connect \/ GiveUpConnecting \/ Disconnect
    \/ \E k \in DOMAIN inbox : Lose(k)

Spec == Init /\ [][Next]_vars

\* What is on its way does not stay there: the server answers or the browser
\* gives the call up, and the event loop goes on.  Nothing is assumed of users,
\* exchanges and the hub's connection.  A call may still be passed for ever by
\* others, so what must happen is said of calls that keep their order.
Fairness == WF_vars(Process \/ Receive)

FairSpec == Spec /\ Fairness
=============================================================================
