------------------------- MODULE DashboardProperties -------------------------
(***************************************************************************)
(* What Dashboard is checked for.  What the tab can promise depends on the *)
(* order in which calls are processed and answered, which nothing in       *)
(* app.js establishes: no answer is compared with the call that was made   *)
(* last.  Properties that need the order say InOrder; the others hold of   *)
(* every order.                                                            *)
(***************************************************************************)
EXTENDS Dashboard

InOrder == ~May("overtake")

Quiet == calls = <<>> /\ inbox = <<>>

\* The calls of an operation that have not come back to the page.
Asked(op) == {k \in DOMAIN calls : calls[k].op = op}
Answering(op) == {k \in DOMAIN inbox : IsAnswer(inbox[k]) /\ inbox[k].call.op = op}
Outstanding(op) == Cardinality(Asked(op)) + Cardinality(Answering(op))

\* Every variable has its type; details, deletions and their answers name a
\* request.
TypeOK ==
    /\ faults \in FaultSets
    /\ log \in [Ids -> Detail \union {None}]
    /\ exchange \in [Ids -> Stages]
    /\ sent \in [Ids -> 0..MaxChunks]
    /\ \A k \in DOMAIN calls : calls[k] \in Calls
    /\ \A k \in DOMAIN inbox :
         IF IsAnswer(inbox[k]) THEN inbox[k].call \in Calls ELSE inbox[k].id \in Ids
    /\ page.requests \in Seq(Summary)
    /\ page.selectedRequestId \in Ids \union {None}
    /\ page.selectedRequest \in Detail \union {None}
    /\ page.isRequestDetailOpen \in BOOLEAN
    /\ page.isRequestDetailLoading \in BOOLEAN
    /\ page.isDeletingRequest \in BOOLEAN
    /\ page.isTruncatingRequests \in BOOLEAN
    /\ page.deleteEnabled \in BOOLEAN
    /\ boot \in BootSteps
    /\ connectionState \in {"connecting", "connected", "reconnecting", "failed"}
    /\ missed \subseteq Views \X Ids

-----------------------------------------------------------------------------
(* Whatever passes whatever.                                               *)

\* The modal is never open over nothing: whichever answer takes the selection
\* away (a list without it, its deletion, a truncation) closes the modal, also
\* when the user has opened it again while the call was under way.
ModalHasSelection == page.isRequestDetailOpen => page.selectedRequestId # None

\* "Loading request detail..." is shown only while a detail is on its way,
\* although answers, events, deletions and lists set and reset the flag.
SpinnerHasCall == page.isRequestDetailLoading => Outstanding("detail") > 0

\* The two busy flags tell exactly whether a call of theirs is under way: no
\* failure leaves a button disabled, and no order of clicks, events and answers
\* (each renders the Delete button again) lets a second deletion start.
BusyMatchesCalls ==
    /\ Outstanding("delete") = IF page.isDeletingRequest THEN 1 ELSE 0
    /\ Outstanding("truncate") = IF page.isTruncatingRequests THEN 1 ELSE 0

\* A request that comes with the list and with its event is listed once.
ListedOnce == Len(page.requests) = Cardinality(Listed(page))

-----------------------------------------------------------------------------
(* Of calls that keep their order.                                         *)

\* Once no detail is on its way, the one that is shown belongs to the request
\* that is selected, which is the one Delete would delete.  The exception is a
\* list too short to hold the request: refreshRequests then moves the selection
\* from under a detail that is on its way.
DetailIsOfSelection ==
    InOrder /\ page.selectedRequest # None /\ Outstanding("detail") = 0 =>
        \/ page.selectedRequest.id = page.selectedRequestId
        \/ RecentLimit < Cardinality(Ids)

\* When nothing is on its way, the detail of a request that has ended is its row,
\* with the whole body once, however the chunks and the fetch were interleaved,
\* unless an event about it was lost after the last fetch.
SettledDetail ==
    LET id == page.selectedRequestId IN
    /\ InOrder /\ Quiet /\ RecentLimit >= Cardinality(Ids)
    /\ page.selectedRequest # None
    /\ log[id] # None /\ log[id].status # "Pending"
    /\ exchange[id] = "over" /\ <<"detail", id>> \notin missed
    => page.selectedRequest = log[id]

\* When nothing is on its way, every announced request that has a row is listed
\* (if neither the server's list nor the page's is too short for it), and every
\* request that has ended is listed with its status, unless an event about it was
\* lost after the last list was fetched: before the hub was wired, or while its
\* connection was down.
ListFollowsLog ==
    InOrder /\ Quiet =>
        /\ RecentLimit >= Cardinality(Ids) /\ PageLimit >= Cardinality(Ids) =>
             \A i \in Ids :
               /\ log[i] # None /\ exchange[i] \notin {"new", "announce"}
               /\ <<"list", i>> \notin missed
               => i \in Listed(page)
        /\ \A k \in DOMAIN page.requests :
             LET id == page.requests[k].id IN
             /\ log[id] # None /\ exchange[id] = "over" /\ <<"list", id>> \notin missed
             => page.requests[k].status = log[id].status

\* initialize reaches the hub, whichever of its calls fails and whatever the
\* user has clicked in between.
HubIsWired == InOrder => <>(boot = "done")

\* The loading state ends, also when the detail is refused or its request is
\* gone.
LoadingEnds ==
    InOrder => [](page.isRequestDetailLoading => <>(~page.isRequestDetailLoading))
=============================================================================
