------------------------- MODULE CatalogProperties -------------------------
(***************************************************************************)
(* What ConfigCatalog is checked for.  Some of it holds for any number of  *)
(* concurrent requests, some only when requests come one at a time, and    *)
(* some the code means to ensure and does not: each run says which.        *)
(***************************************************************************)
EXTENDS ConfigCatalog

\* A busy handler is at a step of its operation.  Past the first lookup its
\* names are valid ones, and where it saves or publishes a configuration it
\* holds one.
BusyOK(h) ==
    /\ req[h] \in Request
    /\ req[h].op = "create" => at[h] \in {"vacant", "template", "save"}
    /\ IsUpdate(req[h]) => at[h] \in {"find", "save", "owner", "apply"}
    /\ req[h].op = "duplicate" => at[h] \in {"find", "vacant", "save"}
    /\ req[h].op = "rename" => at[h] \in {"find", "vacant", "move", "follow"}
    /\ req[h].op = "delete" => at[h] \in {"find", "count", "guard", "remove"}
    /\ req[h].op = "select" => at[h] \in {"find", "activate", "publish"}
    /\ req[h].op = "create" => req[h].target \in Names
    /\ at[h] # "find" =>
         /\ req[h].op # "create" => req[h].name \in Names
         /\ req[h].op \in {"duplicate", "rename"} => req[h].target \in Names
         /\ req[h].op \notin {"create", "rename", "delete"} => draft[h] \in Row
    /\ at[h] = "save" => draft[h] \in Row

\* Every variable has its type, and a busy handler has what its step needs.
TypeOK ==
    /\ rows \in [Names -> Row \union {NoRow}]
    /\ activeConfigurationName \in Names \union {NoName}
    /\ current \in Options
    /\ phase \in {"stopped", "seeding", "loading", "opening", "serving"}
    /\ at \in [Handlers -> Steps]
    /\ req \in [Handlers -> Request \union {NoRequest}]
    /\ draft \in [Handlers -> Row \union {NoRow}]
    /\ crashes \in 0..MaxCrashes
    /\ \A h \in Handlers : at[h] # "idle" => BusyOK(h)

-----------------------------------------------------------------------------
(* One request at a time.                                                  *)

Idle == \A h \in Handlers : at[h] = "idle"

\* n is saved, and is the one row SQLite has marked.
OnlyDefault(n) == n \in Names /\ Defaults = {n}

\* Memory and SQLite agree: the active name is the marked row's, and the
\* settings in force are the options of that row.
Coherent ==
    /\ OnlyDefault(activeConfigurationName)
    /\ current = rows[activeConfigurationName].options

\* Whenever the service has answered everything it was asked, the name in
\* memory, the settings requests are forwarded with, and the row a restart
\* would load are the same configuration.  Through crashes between the two
\* stores, aborted handlers and failing calls of SQLite.
CoherentWhenIdle == phase = "serving" /\ Idle => Coherent

\* Also where the service takes for one name what SQLite takes for two, so that
\* an update, or a rename, of one can concern the other (and CoherentWhenIdle
\* fails): between requests the active name is one that is saved, and the next
\* PUT /api/config has something to update.
ActiveIsSaved == phase = "serving" /\ Idle => activeConfigurationName \in Saved

\* The catalog, seen from outside: the options saved under each name, and the
\* marked row.  What a handler has in flight, and a restart, do not show.
NoOptions == NoRow
SavedOptions == [n \in Names |-> IF rows[n] = NoRow THEN NoOptions ELSE rows[n].options]
MarkedName == IF Defaults = {} THEN NoName ELSE CHOOSE n \in Defaults : TRUE

Abstract == INSTANCE SavedConfigurations WITH
    configurations <- SavedOptions,
    selected <- MarkedName,
    InitialName <- SeedName,
    InitialOptions <- Bootstrap

\* The service implements the atomic catalog: every change of the table is one
\* whole operation, valid for the table as it is when the change is made.
ImplementsSavedConfigurations == Abstract!SavedSpec

-----------------------------------------------------------------------------
(* Any number of requests at a time.                                       *)

\* Without updates SQLite never has two active rows, however selections,
\* creations, renames and deletions interleave: SetActiveAsync is one
\* transaction, and every other statement writes an unmarked row or moves one.
AtMostOneDefault == \A m, n \in Defaults : m = n

\* The lock pairs name and settings: however selections interleave with each
\* other and with creations, the settings in force are never those of another
\* configuration than the one the service says is active.
SettingsMatchName ==
    phase = "serving" /\ activeConfigurationName \in Saved =>
        current = rows[activeConfigurationName].options

\* A process that has died comes up again, whatever rows its handlers had left
\* in the table: none at all, none that is marked, or several.  All that can keep
\* it from serving is the connection string of the row it restarts with, which no
\* update checks.
ComesUpAgain ==
    phase # "serving" ~>
        \/ phase = "serving"
        \/ \E n \in Names : RestartsWith(n) /\ rows[n].options.store \notin Openable

-----------------------------------------------------------------------------
(* What the service is meant to ensure, and does not.                      *)

\* BridgeConfigurationService.cs:189: however deletions, renames and
\* creations interleave, a process that serves has a configuration.
AtLeastOneRemains == phase = "serving" => Saved # {}

\* BridgeConfigurationServiceTests.cs:30: an update that carries no API key
\* leaves the one that is saved.
SecretPreserved ==
    [][\A h \in Handlers :
         /\ at[h] = "save" /\ at'[h] = "owner"
         /\ req[h].update.apiKey = Absent
         /\ req[h].name \in Saved
         => rows'[req[h].name].options.apiKey = rows[req[h].name].options.apiKey]_vars
=============================================================================
