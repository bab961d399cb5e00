--------------------------- MODULE MCConfigCatalog ---------------------------
(***************************************************************************)
(* Small instances of ConfigCatalog: which requests arrive.  The cfg files *)
(* choose among the definitions below.                                     *)
(***************************************************************************)
EXTENDS CatalogProperties, TLC

\* Two backends, one API key, and two connection strings, of which SQLite cannot
\* open the second.
CONSTANTS b1, b2, k1, s1, s2

MCBackends == {b1, b2}
MCApiKeys == {k1}
MCStores == {s1, s2}
MCOpenable == {s1}
MCBootstrap == [backend |-> b1, apiKey |-> k1, store |-> s1]

\* Every name is its own class.
Distinct(n) == n

\* The empty update; one that replaces the backend; one that blanks it and
\* clears the secret; one that sets the secret.
NoUpdate == [backend |-> Absent, apiKey |-> Absent, store |-> Absent]
NewBackend == [NoUpdate EXCEPT !.backend = b2]
ClearSecret == [backend |-> Blank, apiKey |-> Blank, store |-> Absent]
SetSecret == [backend |-> Absent, apiKey |-> k1, store |-> Blank]

\* The update of a connection string that is of no use.
BadStore == [NoUpdate EXCEPT !.store = s2]

Ask(op, name, target, update) == [op |-> op, name |-> name, target |-> target, update |-> update]

AnyName == Names \union {NoName}

Creates(updates) == {Ask("create", n, m, u) : n \in AnyName, m \in AnyName, u \in updates}
UpdatesOf(updates) == {Ask("update", n, NoName, u) : n \in Names, u \in updates}
ActiveUpdates(updates) == {Ask("updateActive", NoName, NoName, u) : u \in updates}
Duplicates == {Ask("duplicate", n, m, NoUpdate) : n \in Names, m \in AnyName}
Renames == {Ask("rename", n, m, NoUpdate) : n \in Names, m \in AnyName}
Deletes == {Ask("delete", n, NoName, NoUpdate) : n \in Names}
Selects == {Ask("select", n, NoName, NoUpdate) : n \in Names}

\* Every operation, with every update above.
AllRequests ==
    LET U == {NoUpdate, NewBackend, ClearSecret, SetSecret} IN
    Creates(U) \union UpdatesOf(U) \union ActiveUpdates(U)
    \union Duplicates \union Renames \union Deletes \union Selects

\* All that changes which configurations there are, or which one is active.
\* The options are the same throughout.
StructuralRequests ==
    Creates({NoUpdate}) \union Duplicates \union Renames \union Deletes \union Selects

\* Every operation, of what is not refused for its names alone; an update rewrites
\* the row it has read, or spoils its connection string.
BusyRequests ==
    {Ask("create", NoName, m, NoUpdate) : m \in Names} \union Deletes \union Selects
    \union {r \in Duplicates \union Renames : r.target \in Names \ {r.name}}
    \union UpdatesOf({NoUpdate}) \union ActiveUpdates({BadStore})

\* Selections, and creations that all give a name the same options.
Complete == [backend |-> b2, apiKey |-> k1, store |-> s1]
SelectionRequests == Selects \union {Ask("create", NoName, m, Complete) : m \in Names}

RacingUpdates == UpdatesOf({NewBackend, ClearSecret, SetSecret})

HandlerSymmetry == Permutations(Handlers)
=============================================================================
