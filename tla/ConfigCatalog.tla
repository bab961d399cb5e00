--------------------------- MODULE ConfigCatalog ---------------------------
(***************************************************************************)
(* BridgeConfigurationService with its two stores: the catalog of saved    *)
(* configurations in SQLite (SqliteBridgeConfigurationStore) and the       *)
(* runtime settings in memory (InMemoryBridgeRuntimeSettingsStore).        *)
(*                                                                         *)
(* A handler is one HTTP request being served.  It awaits the store        *)
(* between its steps, so every store call, and every use of the lock, is   *)
(* an action of its own and other handlers run in between.  A call of the  *)
(* store is atomic: it is one statement, or one transaction.               *)
(***************************************************************************)
EXTENDS BridgeConfigurations, FiniteSets

CONSTANTS
    Handlers,    \* HTTP requests that may be in progress at the same time
    Requests,    \* the requests clients send
    Bootstrap,   \* the options of appsettings.json and the environment
    Openable,    \* the connection strings SQLite can open a database with
    SeedName,    \* DetermineSeedName(Bootstrap)
    NoRow,       \* no row of bridge_configurations, and so no options
    NoRequest,   \* the request of an idle handler
    MaxCrashes   \* bound: how often the process dies

VARIABLES
    rows,        \* bridge_configurations: the row of each name, or NoRow
    activeConfigurationName,
    current,     \* the options of the runtime settings store
    phase,       \* where the process is: "stopped", starting up, "serving"
    at,          \* at[h]: the step handler h takes next, or "idle"
    req,         \* req[h]: the request h serves
    draft,       \* draft[h]: the configuration h read, or is about to save
    crashes      \* how often the process has died (bounded by MaxCrashes)

vars == <<rows, activeConfigurationName, current, phase, at, req, draft, crashes>>
memory == <<activeConfigurationName, current>>
process == <<phase, crashes>>

Row == [options : Options, isDefault : BOOLEAN]

Ops == {"create", "update", "updateActive", "duplicate", "rename", "delete", "select"}

\* name: the {name} of the route, or copyFromName of a create.
\* target: the name given to what is created, duplicated or renamed.
Request == [op : Ops, name : Names \union {NoName},
            target : Names \union {NoName}, update : Updates]

Steps == {"idle", "find", "vacant", "template", "save", "owner", "apply", "move",
          "follow", "count", "guard", "remove", "activate", "publish"}

ASSUME CatalogAssumption ==
    /\ Requests \subseteq Request
    /\ Bootstrap \in Options
    /\ Openable \subseteq Stores
    /\ Bootstrap.store \in Openable   \* the catalog is kept there
    /\ SeedName \in Names
    /\ NoRow \notin Row \union Options
    /\ MaxCrashes \in Nat

IsUpdate(r) == r.op \in {"update", "updateActive"}

Saved == {n \in Names : rows[n] # NoRow}
Defaults == {n \in Saved : rows[n].isDefault}

\* Mutant: the flag is taken from the configuration that is active in memory only.
WithDefaultMoved(n) ==
    [m \in Names |-> IF rows[m] = NoRow THEN NoRow
                     ELSE [rows[m] EXCEPT !.isDefault =
                             m = n \/ (@ /\ m # activeConfigurationName)]]

\* SqliteBridgeConfigurationStore.SetActiveCoreAsync on an existing name:
\* one transaction clears every flag and sets that of n.
WithDefault(n) ==
    [m \in Names |-> IF rows[m] = NoRow THEN NoRow
                     ELSE [rows[m] EXCEPT !.isDefault = (m = n)]]

Init ==
    /\ rows = [n \in Names |-> NoRow]
    /\ activeConfigurationName = NoName
    /\ current = Bootstrap
    /\ phase = "stopped"
    /\ at = [h \in Handlers |-> "idle"]
    /\ req = [h \in Handlers |-> NoRequest]
    /\ draft = [h \in Handlers |-> NoRow]
    /\ crashes = 0

-----------------------------------------------------------------------------
(* Startup: the catalog and then the request log are initialized before    *)
(* the host serves.                                                        *)

\* EnsureInitializedAsync on an empty catalog inserts the seed ...
Seed ==
    /\ phase = "stopped"
    /\ Saved = {}
    /\ rows' = [rows EXCEPT ![SeedName] = [options |-> Bootstrap, isDefault |-> TRUE]]
    /\ phase' = "seeding"
    /\ UNCHANGED <<memory, at, req, draft, crashes>>

\* ... and marks it in a second statement.
MarkSeed ==
    /\ phase = "seeding"
    /\ rows' = WithDefault(SeedName)
    /\ phase' = "loading"
    /\ UNCHANGED <<memory, at, req, draft, crashes>>

\* A catalog that has rows is left as it is.
KeepCatalog ==
    /\ phase = "stopped"
    /\ Saved # {}
    /\ phase' = "loading"
    /\ UNCHANGED <<rows, memory, at, req, draft, crashes>>

\* Mutant: no fallback when no row is marked.
OnlyMarkedRows == Defaults

\* The rows FirstOrDefault picks from: the active ones, else all of them.
LoadCandidates == IF Defaults # {} THEN Defaults ELSE Saved

RestartsWith(n) == n \in LoadCandidates /\ \A m \in LoadCandidates : n <= m

Load ==
    /\ phase = "loading"
    /\ \E n \in Names :
         /\ RestartsWith(n)
         /\ activeConfigurationName' = n
         /\ current' = rows[n].options
    /\ phase' = "opening"
    /\ UNCHANGED <<rows, at, req, draft, crashes>>

\* The request log is created in the database that the active configuration
\* names.  Nothing has checked that connection string before ...
OpenLog ==
    /\ phase = "opening"
    /\ current.store \in Openable
    /\ phase' = "serving"
    /\ UNCHANGED <<rows, memory, at, req, draft, crashes>>

\* The process ends, and with it what is in memory.
Exits ==
    /\ phase' = "stopped"
    /\ activeConfigurationName' = NoName
    /\ current' = Bootstrap

\* ... and when it is of no use the exception ends the process.
OpenLogFails ==
    /\ phase = "opening"
    /\ current.store \notin Openable
    /\ Exits
    /\ UNCHANGED <<rows, at, req, draft, crashes>>

-----------------------------------------------------------------------------
(* A handler's steps.                                                      *)

Goto(h, step) == at' = [at EXCEPT ![h] = step]

\* The handler returns or throws: its locals are gone.
Answer(h) ==
    /\ Goto(h, "idle")
    /\ req' = [req EXCEPT ![h] = NoRequest]
    /\ draft' = [draft EXCEPT ![h] = NoRow]

\* The handler answers and has changed nothing in this step.
Refuse(h) == Answer(h) /\ UNCHANGED <<rows, memory, process>>

\* The handler only moves on.
Continue(h, step) == Goto(h, step) /\ UNCHANGED <<rows, memory, process, req, draft>>

\* Mutant: a create is accepted whatever its name.
ReceiveUnvalidated(h) ==
    /\ phase = "serving"
    /\ at[h] = "idle"
    /\ \E r \in Requests :
         /\ req' = [req EXCEPT ![h] = r]
         /\ Goto(h, IF r.op = "create" THEN "vacant" ELSE "find")
    /\ UNCHANGED <<rows, memory, process, draft>>

\* PUT /api/config reads the active name under the lock before anything else;
\* a create validates its name first and does nothing when it is refused.
Receive(h) ==
    /\ phase = "serving"
    /\ at[h] = "idle"
    /\ \E r \in Requests :
         /\ r.op = "create" => r.target # NoName
         /\ r.op = "updateActive" => activeConfigurationName # NoName
         /\ req' = [req EXCEPT ![h] =
                      IF r.op = "updateActive"
                      THEN [r EXCEPT !.name = activeConfigurationName] ELSE r]
         /\ Goto(h, IF r.op = "create" THEN "vacant" ELSE "find")
    /\ UNCHANGED <<rows, memory, process, draft>>

\* GetRequiredConfigurationAsync throws: there is no such configuration.
FindMissing(h) ==
    /\ at[h] = "find"
    /\ req[h].name \notin Saved
    /\ Refuse(h)

\* GetRequiredConfigurationAsync returns the row, and the handler goes on.
Found(h, op) ==
    /\ at[h] = "find"
    /\ req[h].op = op
    /\ req[h].name \in Saved

FindToUpdate(h) ==
    /\ \E op \in {"update", "updateActive"} : Found(h, op)
    /\ draft' = [draft EXCEPT ![h] =
                   [rows[req[h].name] EXCEPT !.options = ApplyUpdate(@, req[h].update)]]
    /\ Goto(h, "save")
    /\ UNCHANGED <<rows, memory, process, req>>

FindToDuplicate(h) ==
    /\ Found(h, "duplicate")
    /\ req[h].target # NoName
    /\ draft' = [draft EXCEPT ![h] = [rows[req[h].name] EXCEPT !.isDefault = FALSE]]
    /\ Goto(h, "vacant")
    /\ UNCHANGED <<rows, memory, process, req>>

FindToRename(h) ==
    /\ Found(h, "rename")
    /\ req[h].target # NoName
    /\ ~SameName(req[h].name, req[h].target)
    /\ Continue(h, "vacant")

\* The new name is refused, or RenameAsync returns the row as it is because
\* the names differ in case only.
FindRefused(h) ==
    /\ \/ Found(h, "duplicate") /\ req[h].target = NoName
       \/ Found(h, "rename") /\ req[h].target = NoName
       \/ Found(h, "rename") /\ SameName(req[h].name, req[h].target)
    /\ Refuse(h)

FindToDelete(h) == Found(h, "delete") /\ Continue(h, "count")

FindToSelect(h) ==
    /\ Found(h, "select")
    /\ draft' = [draft EXCEPT ![h] = rows[req[h].name]]
    /\ Goto(h, "activate")
    /\ UNCHANGED <<rows, memory, process, req>>

\* "A proxy configuration named ... already exists."
NameTaken(h) ==
    /\ at[h] = "vacant"
    /\ req[h].target \in Saved
    /\ Refuse(h)

NameVacant(h) ==
    /\ at[h] = "vacant"
    /\ req[h].target \notin Saved
    /\ \/ req[h].op = "create" /\ Continue(h, "template")
       \/ req[h].op = "duplicate" /\ Continue(h, "save")
       \/ req[h].op = "rename" /\ Continue(h, "move")

\* ResolveTemplateAsync: the options in force, or those of copyFromName.
ResolveTemplate(h) ==
    LET name == req[h].name
        template == IF name = NoName THEN current ELSE rows[name].options IN
    /\ at[h] = "template"
    /\ name # NoName => name \in Saved
    /\ draft' = [draft EXCEPT ![h] =
                   [options |-> ApplyUpdate(template, req[h].update), isDefault |-> FALSE]]
    /\ Goto(h, "save")
    /\ UNCHANGED <<rows, memory, process, req>>

TemplateMissing(h) ==
    /\ at[h] = "template"
    /\ req[h].name # NoName
    /\ req[h].name \notin Saved
    /\ Refuse(h)

\* CreateOrUpdateAsync: INSERT ... ON CONFLICT(name) DO UPDATE, whatever the
\* handler believes the row to be.
Save(h) ==
    /\ at[h] = "save"
    /\ rows' = [rows EXCEPT ![IF IsUpdate(req[h]) THEN req[h].name
                              ELSE req[h].target] = draft[h]]
    /\ \/ IsUpdate(req[h]) /\ Goto(h, "owner") /\ UNCHANGED <<req, draft>>
       \/ ~IsUpdate(req[h]) /\ Answer(h)
    /\ UNCHANGED <<memory, process>>

\* Is the configuration just saved the one in force?  The lock protects the
\* read of the name only, not what follows from it.
CheckOwner(h) ==
    /\ at[h] = "owner"
    /\ SameName(req[h].name, activeConfigurationName)
    /\ Continue(h, "apply")

CheckNotOwner(h) ==
    /\ at[h] = "owner"
    /\ ~SameName(req[h].name, activeConfigurationName)
    /\ Refuse(h)

Apply(h) ==
    /\ at[h] = "apply"
    /\ current' = draft[h].options
    /\ Answer(h)
    /\ UNCHANGED <<rows, activeConfigurationName, process>>

\* RenameAsync of the store: the primary key is updated in place.
Move(h) ==
    /\ at[h] = "move"
    /\ req[h].name \in Saved
    /\ req[h].target \notin Saved
    /\ rows' = [rows EXCEPT ![req[h].target] = rows[req[h].name],
                            ![req[h].name] = NoRow]
    /\ Goto(h, "follow")
    /\ UNCHANGED <<memory, process, req, draft>>

\* No row has the old name any more, or the new one violates the primary key.
MoveFails(h) ==
    /\ at[h] = "move"
    /\ \/ req[h].name \notin Saved
       \/ req[h].target \in Saved
    /\ Refuse(h)

\* Mutant: the active name stays behind.
FollowNot(h) ==
    /\ at[h] = "follow"
    /\ Answer(h)
    /\ UNCHANGED <<rows, memory, process>>

\* The active name follows the rename.  The handler then rereads the row for
\* its answer, which changes nothing.
Follow(h) ==
    /\ at[h] = "follow"
    /\ activeConfigurationName' =
         IF SameName(activeConfigurationName, req[h].name)
         THEN req[h].target ELSE activeConfigurationName
    /\ Answer(h)
    /\ UNCHANGED <<rows, current, process>>

\* "At least one proxy configuration must remain."
CountOthers(h) ==
    /\ at[h] = "count"
    /\ IF Cardinality(Saved) <= 1 THEN Refuse(h) ELSE Continue(h, "guard")

\* Mutant: the active configuration can be deleted.
GuardNothing(h) == at[h] = "guard" /\ Continue(h, "remove")

\* "Select a different active configuration before deleting this one."
GuardActive(h) ==
    /\ at[h] = "guard"
    /\ IF SameName(req[h].name, activeConfigurationName)
       THEN Refuse(h) ELSE Continue(h, "remove")

\* DELETE; when no row is left to delete the caller hears not_found.
Remove(h) ==
    /\ at[h] = "remove"
    /\ rows' = [rows EXCEPT ![req[h].name] = NoRow]
    /\ Answer(h)
    /\ UNCHANGED <<memory, process>>

\* Mutant: the settings are published as soon as SQLite has them, outside the
\* lock.
ActivateAndUpdate(h) ==
    /\ at[h] = "activate"
    /\ req[h].name \in Saved
    /\ rows' = WithDefault(req[h].name)
    /\ current' = draft[h].options
    /\ Goto(h, "publish")
    /\ UNCHANGED <<activeConfigurationName, process, req, draft>>

Activate(h) ==
    /\ at[h] = "activate"
    /\ req[h].name \in Saved
    /\ rows' = WithDefault(req[h].name)
    /\ Goto(h, "publish")
    /\ UNCHANGED <<memory, process, req, draft>>

\* SetActiveCoreAsync found no row and rolled back.
ActivateFails(h) ==
    /\ at[h] = "activate"
    /\ req[h].name \notin Saved
    /\ Refuse(h)

\* Name and settings are published together, under the lock.
Publish(h) ==
    /\ at[h] = "publish"
    /\ activeConfigurationName' = req[h].name
    /\ current' = draft[h].options
    /\ Answer(h)
    /\ UNCHANGED <<rows, process>>

\* A handler about to call the store may be stopped there: its client is gone
\* (the cancellation token is checked on entry) or SQLite reports an error.
StoreCall(h) ==
    \/ at[h] \in {"find", "vacant", "save", "move", "count", "remove", "activate"}
    \/ at[h] = "template" /\ req[h].name # NoName

Abort(h) == StoreCall(h) /\ Refuse(h)

-----------------------------------------------------------------------------
(* The process dies: SQLite keeps the rows, memory is lost.                *)

Crash ==
    /\ phase # "stopped"
    /\ crashes < MaxCrashes
    /\ crashes' = crashes + 1
    /\ Exits
    /\ at' = [h \in Handlers |-> "idle"]
    /\ req' = [h \in Handlers |-> NoRequest]
    /\ draft' = [h \in Handlers |-> NoRow]
    /\ UNCHANGED rows

Boot == Seed \/ MarkSeed \/ KeepCatalog \/ Load \/ OpenLog \/ OpenLogFails

\* What a handler does once it has its request, unless it is stopped.
Proceed(h) ==
    \/ FindMissing(h) \/ FindToUpdate(h) \/ FindToDuplicate(h) \/ FindToRename(h)
    \/ FindRefused(h) \/ FindToDelete(h) \/ FindToSelect(h)
    \/ NameTaken(h) \/ NameVacant(h) \/ ResolveTemplate(h) \/ TemplateMissing(h)
    \/ Save(h) \/ CheckOwner(h) \/ CheckNotOwner(h) \/ Apply(h)
    \/ Move(h) \/ MoveFails(h) \/ Follow(h)
    \/ CountOthers(h) \/ GuardActive(h) \/ Remove(h)
    \/ Activate(h) \/ ActivateFails(h) \/ Publish(h)

Next ==
    \/ Boot
    \/ \E h \in Handlers : Receive(h) \/ Proceed(h) \/ Abort(h)
    \/ Crash

Spec == Init /\ [][Next]_vars

\* The host runs its startup, and starts anew when it ends (docker-compose.yml:19);
\* the thread pool runs every handler that can run.
\* Nobody has to send a request, and the process need not die.
Fairness == WF_vars(Boot) /\ \A h \in Handlers : WF_vars(Proceed(h))

FairSpec == Spec /\ Fairness
=============================================================================
